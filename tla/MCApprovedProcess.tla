-------------------------- MODULE MCApprovedProcess --------------------------
(***************************************************************************)
(* A small instance of ApprovedProcess: approvals whose builds are done.   *)
(***************************************************************************)
EXTENDS ApprovedProcess

\* Each request has its own build and, with it, its own release.
Rows ==
    [r \in Request |->
        [NoRow EXCEPT !.status = "approved", !.approved = TRUE, !.commit = r, !.object = r,
                      !.uploaded = TRUE, !.buildStarted = TRUE, !.build = r, !.release = r]]
=============================================================================
