------------------------ MODULE MCAuditVerification -------------------------
(***************************************************************************)
(* A small instance of AuditVerification: two hours with a job each, which *)
(* may be tried again, or late, so that the hours' anchors are written in  *)
(* either order.                                                           *)
(***************************************************************************)
EXTENDS AuditVerification

CONSTANTS j1, j2

Jobs == {j1, j2}
Hours == {1, 2}
HoursOf == [j \in Jobs |-> IF j = j1 THEN 1 ELSE 2]
=============================================================================
