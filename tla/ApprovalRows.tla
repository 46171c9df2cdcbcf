---------------------------- MODULE ApprovalRows ----------------------------
(***************************************************************************)
(* The deploy_approval_requests table: what a row holds, and for each SQL  *)
(* statement of db/deploy_approval_*.go which rows it matches and what it  *)
(* leaves in them.  A statement is one step: Postgres evaluates its WHERE  *)
(* clause on the row it has locked.                                        *)
(*                                                                         *)
(* Times are reduced to what the clauses ask of them.  approved,           *)
(* uploaded, buildStarted and promoteStarted say that the column is not    *)
(* NULL; lapsed says that the row's time is over: an approval past         *)
(* approval_expires_at, a pending request past the pending maximum age.    *)
(* The rack makes one release of each finished build, so a release is      *)
(* named by its build.                                                     *)
(*                                                                         *)
(* Here and in DeployApproval an operator under "Slip:" is the one after   *)
(* it with a plausible mistake.  Nothing uses it; putting it in that       *)
(* operator's place must break the property the comment names.             *)
(***************************************************************************)
CONSTANTS
    Commit,   \* the commits approval is asked for
    Key,      \* the rack's object keys; an object's URL is its key's
    Build,    \* the rack's build ids, and its release ids
    None      \* NULL

ASSUME NoneAssumption == None \notin Commit \cup Key \cup Build

Status == {"none", "pending", "approved", "rejected", "expired", "deployed"}

Row == [status : Status, commit : Commit \cup {None}, approved : BOOLEAN, lapsed : BOOLEAN,
        object : Key \cup {None}, uploaded : BOOLEAN,
        buildStarted : BOOLEAN, build : Build \cup {None}, release : Build \cup {None},
        promoteStarted : BOOLEAN]

\* A row that has not been inserted.
NoRow == [status |-> "none", commit |-> None, approved |-> FALSE, lapsed |-> FALSE,
          object |-> None, uploaded |-> FALSE,
          buildStarted |-> FALSE, build |-> None, release |-> None,
          promoteStarted |-> FALSE]

(***************************************************************************)
(* Lifecycle                                                               *)
(***************************************************************************)
NewRow(k) == [NoRow EXCEPT !.status = "pending", !.commit = k]

\* The partial unique index on (commit, token, app) covers these rows.
Active(row) == row.status \in {"pending", "approved"}

Authorizes(row) == row.status = "approved" /\ ~row.lapsed

\* CheckDeployApprovalConflict: an unexpired approval, or a pending request of whatever age.
Conflicts(row) == Authorizes(row) \/ row.status = "pending"

CanApprove(row) == row.status = "pending" /\ ~row.lapsed
Approved(row) == [row EXCEPT !.status = "approved", !.approved = TRUE, !.lapsed = FALSE]

\* Slip: an approval is rejected under a running promote (RejectedNeverPromoted).
CanRejectAnyTime(row) == Active(row)
CanReject(row) == Active(row) /\ ~row.promoteStarted
\* Slip: a status the table doesn't have (TypeOK).
Denied(row) == [row EXCEPT !.status = "denied"]
Rejected(row) == [row EXCEPT !.status = "rejected"]

\* Slip: a rejected approval is extended (PromiseKept).
CanExtendRejected(row) == row.status \in {"approved", "expired", "rejected"} /\ row.approved
CanExtend(row) == row.status \in {"approved", "expired"} /\ row.approved

\* Slip: an extension lets the deploy start over (FreeClaimMeansNoPromote).
ExtendedAfresh(row) ==
    [row EXCEPT !.status = "approved", !.lapsed = FALSE, !.promoteStarted = FALSE]
Extended(row) == [row EXCEPT !.status = "approved", !.lapsed = FALSE]

\* Slip: the sweep forgets pending requests (LapsedRequestsClose).
DueApproval(row) == row.status = "approved" /\ row.lapsed
Due(row) == Active(row) /\ row.lapsed
Expired(row) == [row EXCEPT !.status = "expired"]

(***************************************************************************)
(* The claims of a deploy's steps, and their release                       *)
(***************************************************************************)
CanClaimUpload(row) == Authorizes(row) /\ row.object = None
ClaimedUpload(row, k) == [row EXCEPT !.object = k]

CanConfirmUpload(row, k) == row.object = k
ConfirmedUpload(row) == [row EXCEPT !.uploaded = TRUE]

\* Slip: a finished upload is released too (BindingsKept).
ReleasedAnyUpload(row, k) == IF row.object = k THEN [row EXCEPT !.object = None] ELSE row
ReleasedUpload(row, k) ==
    IF row.object = k /\ ~row.uploaded THEN [row EXCEPT !.object = None] ELSE row

CanClaimBuild(row) ==
    Authorizes(row) /\ row.uploaded /\ ~row.buildStarted /\ row.build = None
ClaimedBuild(row) == [row EXCEPT !.buildStarted = TRUE]

\* Slip: a build that wasn't recorded keeps its claim (ClaimsSettle).
KeptBuild(row) == row
ReleasedBuild(row) ==
    IF row.build = None THEN [row EXCEPT !.buildStarted = FALSE] ELSE row

\* Slip: a promote is claimed while another holds the claim (OnePromoteApplied, PromiseKept).
CanClaimPromoteAgain(row) == Authorizes(row)
CanClaimPromote(row) == Authorizes(row) /\ ~row.promoteStarted
ClaimedPromote(row) == [row EXCEPT !.promoteStarted = TRUE]

ReleasedPromote(row) ==
    IF row.status # "deployed" THEN [row EXCEPT !.promoteStarted = FALSE] ELSE row

(***************************************************************************)
(* What a finished step records                                            *)
(***************************************************************************)
Recordable(row) == row.status \in {"approved", "expired"} /\ row.approved

\* rel is None when the rack's answer names no release.
CanRecordBuild(row, b, rel) ==
    /\ Recordable(row)
    /\ row.build = b \/ (row.build = None /\ row.buildStarted)
    /\ rel = None \/ row.release \in {None, rel}

RecordedBuild(row, b, rel) ==
    [row EXCEPT !.build = b, !.release = IF @ = None THEN rel ELSE @]

CanMarkDeployed(row) == row.status \in {"approved", "expired"} /\ row.release # None
MarkedDeployed(row) == [row EXCEPT !.status = "deployed"]
=============================================================================
