----------------------- MODULE ApprovedProcess_proofs -----------------------
(***************************************************************************)
(* Proofs about ApprovedProcess: its inductive invariant; that what runs   *)
(* under an approval is on its record; that a CircleCI hold job is         *)
(* released only while its request is approved.                            *)
(***************************************************************************)
EXTENDS ApprovedProcess, FiniteSetTheorems, TLAPS

USE ConstantsAssumption, NoneAssumption

\* The statements leave rows.
LEMMA ChangedRowsAreRows ==
    ASSUME NEW w \in Row
    PROVE  /\ Rejected(w) \in Row
           /\ Extended(w) \in Row
           /\ Expired(w) \in Row
           /\ ClaimedPromote(w) \in Row
           /\ MarkedDeployed(w) \in Row
           /\ ReleasedPromote(w) \in Row
           /\ [w EXCEPT !.lapsed = TRUE] \in Row
<1> USE DEF Row, Status
<1>1. Rejected(w) \in Row /\ Extended(w) \in Row /\ Expired(w) \in Row
  BY DEF Rejected, Extended, Expired
<1>2. ClaimedPromote(w) \in Row /\ MarkedDeployed(w) \in Row
  BY DEF ClaimedPromote, MarkedDeployed
<1>3. [w EXCEPT !.lapsed = TRUE] \in Row /\ [w EXCEPT !.promoteStarted = FALSE] \in Row
  OBVIOUS
<1>4. QED
  BY <1>1, <1>2, <1>3 DEF ReleasedPromote

\* Some execs are counted: a set that is finite.
LEMMA CountedAreFinite ==
    /\ IsFiniteSet({x \in Exec : Counted(x)})
    /\ IsFiniteSet({x \in Exec : Counted(x)})'
<1>1. {x \in Exec : Counted(x)} \subseteq Exec /\ {x \in Exec : Counted(x)}' \subseteq Exec
  OBVIOUS
<1>2. QED
  BY <1>1, FS_Subset

\* The handler of an exec that is counted ends: its session is given back.
LEMMA EndKeepsCount ==
    ASSUME TypeOK, SessionsCounted, NEW x \in Exec, Counted(x), End(x)
    PROVE  SessionsCounted' /\ sessions' \in Nat
<1> DEFINE C == {y \in Exec : Counted(y)}
<1>1. C' = C \ {x} /\ x \in C
  BY DEF TypeOK, Counted, End
<1>2. IsFiniteSet(C)
  BY CountedAreFinite
<1>3. /\ Cardinality(C') = Cardinality(C) - 1
      /\ Cardinality(C) \in Nat /\ Cardinality(C') \in Nat
  BY <1>1, <1>2, CountedAreFinite, FS_RemoveElement, FS_CardinalityType
<1>4. sessions' = Cardinality(C')
  BY <1>3 DEF SessionsCounted, End
<1>5. QED
  BY <1>3, <1>4 DEF SessionsCounted

LEMMA DecideKeepsInv ==
    ASSUME ProcessIInv, NEW r \in Request, Decide(r)
    PROVE  ProcessIInv'
<1> USE DEF ProcessIInv, Decide, Update
<1>1. TypeOK'
  <2>1. \E w \in Row : row' = [row EXCEPT ![r] = w]
    BY ChangedRowsAreRows DEF TypeOK
  <2>2. QED
    BY <2>1 DEF TypeOK, startVars, execVars, jobVars
<1>2. SessionsCounted'
  BY DEF SessionsCounted, Counted, startVars, execVars, jobVars, Row, Status
<1>3. StartsInOrder'
  <2>1. row[r].status = "rejected" => row'[r].status = "rejected"
    BY DEF TypeOK, Row, CanReject, Rejected, CanExtend, Extended, Due, Expired, Active
  <2>2. \A q \in Request \ {r} : row'[q] = row[q]
    BY DEF TypeOK
  <2>3. QED
    BY <2>1, <2>2 DEF TypeOK, StartsInOrder, startVars, execVars, jobVars
<1>4. ExecsInOrder'
  BY DEF TypeOK, ExecsInOrder, startVars, execVars, jobVars, CanReject, Rejected, CanExtend,
     Extended, Due, Expired, Active, StartsInOrder, Row, Status
<1>5. JobsInOrder'
  BY DEF TypeOK, JobsInOrder, startVars, execVars, jobVars, CanReject, Rejected, CanExtend,
     Extended, Due, Expired, Active, Row, Status
<1>6. StrayProcessesUnused'
  BY DEF TypeOK, StrayProcessesUnused, startVars, execVars, jobVars, CanReject, Rejected,
     CanExtend, Extended, Due, Expired, Active, StartsInOrder, ExecsInOrder, Row, Status
<1>7. QED
  BY <1>1, <1>2, <1>3, <1>4, <1>5, <1>6

LEMMA PromoteKeepsInv ==
    ASSUME ProcessIInv, NEW r \in Request, Promote(r)
    PROVE  ProcessIInv'
<1> USE DEF ProcessIInv, Promote, Update
<1>1. TypeOK'
  <2>1. \E w \in Row : row' = [row EXCEPT ![r] = w]
    BY ChangedRowsAreRows DEF TypeOK
  <2>2. QED
    BY <2>1 DEF TypeOK, startVars, execVars, jobVars
<1>2. SessionsCounted'
  BY DEF SessionsCounted, Counted, startVars, execVars, jobVars, Row, Status
<1>3. StartsInOrder'
  <2>1. row[r].status = "rejected" => row'[r].status = "rejected"
    BY DEF TypeOK, Row, CanClaimPromote, ClaimedPromote, CanMarkDeployed, MarkedDeployed,
       ReleasedPromote, Authorizes
  <2>2. \A q \in Request \ {r} : row'[q] = row[q]
    BY DEF TypeOK
  <2>3. QED
    BY <2>1, <2>2 DEF TypeOK, StartsInOrder, startVars, execVars, jobVars
<1>4. ExecsInOrder'
  BY DEF TypeOK, ExecsInOrder, startVars, execVars, jobVars, CanClaimPromote, ClaimedPromote,
     CanMarkDeployed, MarkedDeployed, ReleasedPromote, Authorizes, StartsInOrder, Row, Status
<1>5. JobsInOrder'
  BY DEF TypeOK, JobsInOrder, startVars, execVars, jobVars, CanClaimPromote, ClaimedPromote,
     CanMarkDeployed, MarkedDeployed, ReleasedPromote, Authorizes, Row, Status
<1>6. StrayProcessesUnused'
  BY DEF TypeOK, StrayProcessesUnused, startVars, execVars, jobVars, CanClaimPromote,
     ClaimedPromote, CanMarkDeployed, MarkedDeployed, ReleasedPromote, Authorizes, StartsInOrder,
     ExecsInOrder, Row, Status
<1>7. QED
  BY <1>1, <1>2, <1>3, <1>4, <1>5, <1>6

LEMMA LapseKeepsInv ==
    ASSUME ProcessIInv, NEW r \in Request, Lapse(r)
    PROVE  ProcessIInv'
<1> USE DEF ProcessIInv, Lapse
<1>1. TypeOK'
  BY ChangedRowsAreRows DEF TypeOK, startVars, execVars, jobVars
<1>2. SessionsCounted'
  BY DEF SessionsCounted, Counted, startVars, execVars, jobVars, Row, Status
<1>3. StartsInOrder'
  BY DEF TypeOK, StartsInOrder, startVars, execVars, jobVars, Row, Status
<1>4. ExecsInOrder'
  BY DEF TypeOK, ExecsInOrder, startVars, execVars, jobVars, StartsInOrder, Row, Status
<1>5. JobsInOrder'
  BY DEF TypeOK, JobsInOrder, startVars, execVars, jobVars, Row, Status
<1>6. StrayProcessesUnused'
  BY DEF TypeOK, StrayProcessesUnused, startVars, execVars, jobVars, StartsInOrder, ExecsInOrder,
     Row, Status
<1>7. QED
  BY <1>1, <1>2, <1>3, <1>4, <1>5, <1>6

LEMMA RevokeAccessKeepsInv ==
    ASSUME ProcessIInv, RevokeAccess
    PROVE  ProcessIInv'
<1> USE DEF ProcessIInv, RevokeAccess
<1>1. TypeOK'
  BY DEF TypeOK, startVars, execVars, jobVars
<1>2. SessionsCounted'
  BY DEF SessionsCounted, Counted, startVars, execVars, jobVars
<1>3. StartsInOrder'
  BY DEF TypeOK, StartsInOrder, startVars, execVars, jobVars
<1>4. ExecsInOrder'
  BY DEF TypeOK, ExecsInOrder, startVars, execVars, jobVars, StartsInOrder
<1>5. JobsInOrder'
  BY DEF TypeOK, JobsInOrder, startVars, execVars, jobVars
<1>6. StrayProcessesUnused'
  BY DEF TypeOK, StrayProcessesUnused, startVars, execVars, jobVars, StartsInOrder, ExecsInOrder
<1>7. QED
  BY <1>1, <1>2, <1>3, <1>4, <1>5, <1>6

LEMMA FindForStartKeepsInv ==
    ASSUME ProcessIInv, NEW s \in Start, NEW r \in Request, FindForStart(s, r)
    PROVE  ProcessIInv'
<1> USE DEF ProcessIInv, FindForStart
<1>1. TypeOK'
  BY DEF TypeOK, startVars, execVars, jobVars
<1>2. SessionsCounted'
  BY DEF SessionsCounted, Counted, startVars, execVars, jobVars
<1>3. StartsInOrder'
  BY DEF TypeOK, StartsInOrder, startVars, execVars, jobVars, Authorizes
<1>4. ExecsInOrder'
  BY DEF TypeOK, ExecsInOrder, startVars, execVars, jobVars, Authorizes, StartsInOrder
<1>5. JobsInOrder'
  BY DEF TypeOK, JobsInOrder, startVars, execVars, jobVars, Authorizes
<1>6. StrayProcessesUnused'
  BY DEF TypeOK, StrayProcessesUnused, startVars, execVars, jobVars, Authorizes, StartsInOrder,
     ExecsInOrder
<1>7. QED
  BY <1>1, <1>2, <1>3, <1>4, <1>5, <1>6

LEMMA SendStartKeepsInv ==
    ASSUME ProcessIInv, NEW s \in Start, SendStart(s)
    PROVE  ProcessIInv'
<1> USE DEF ProcessIInv, SendStart
<1>1. TypeOK'
  BY DEF TypeOK, startVars, execVars, jobVars
<1>2. SessionsCounted'
  BY DEF SessionsCounted, Counted, startVars, execVars, jobVars
<1>3. StartsInOrder'
  BY DEF TypeOK, StartsInOrder, startVars, execVars, jobVars
<1>4. ExecsInOrder'
  BY DEF TypeOK, ExecsInOrder, startVars, execVars, jobVars, StartsInOrder
<1>5. JobsInOrder'
  BY DEF TypeOK, JobsInOrder, startVars, execVars, jobVars
<1>6. StrayProcessesUnused'
  BY DEF TypeOK, StrayProcessesUnused, startVars, execVars, jobVars, StartsInOrder, ExecsInOrder
<1>7. QED
  BY <1>1, <1>2, <1>3, <1>4, <1>5, <1>6

LEMMA RackStartsKeepsInv ==
    ASSUME ProcessIInv, NEW s \in Start, RackStarts(s)
    PROVE  ProcessIInv'
<1> USE DEF ProcessIInv, RackStarts
<1>1. TypeOK'
  BY DEF TypeOK, startVars, execVars, jobVars
<1>2. SessionsCounted'
  BY DEF SessionsCounted, Counted, startVars, execVars, jobVars
<1>3. StartsInOrder'
  BY DEF TypeOK, StartsInOrder, startVars, execVars, jobVars
<1>4. ExecsInOrder'
  BY DEF TypeOK, ExecsInOrder, startVars, execVars, jobVars, StartsInOrder
<1>5. JobsInOrder'
  BY DEF TypeOK, JobsInOrder, startVars, execVars, jobVars
<1>6. StrayProcessesUnused'
  BY DEF TypeOK, StrayProcessesUnused, startVars, execVars, jobVars, StartsInOrder, ExecsInOrder
<1>7. QED
  BY <1>1, <1>2, <1>3, <1>4, <1>5, <1>6

LEMMA RecordProcessKeepsInv ==
    ASSUME ProcessIInv, NEW s \in Start, RecordProcess(s)
    PROVE  ProcessIInv'
<1> USE DEF ProcessIInv, RecordProcess, RecordableIn, Recordable
<1>1. TypeOK'
  BY DEF TypeOK, startVars, execVars, jobVars
<1>2. SessionsCounted'
  BY DEF SessionsCounted, Counted, startVars, execVars, jobVars
<1>3. StartsInOrder'
  BY DEF TypeOK, StartsInOrder, startVars, execVars, jobVars
<1>4. ExecsInOrder'
  BY DEF TypeOK, ExecsInOrder, startVars, execVars, jobVars, StartsInOrder
<1>5. JobsInOrder'
  BY DEF TypeOK, JobsInOrder, startVars, execVars, jobVars
<1>6. StrayProcessesUnused'
  BY DEF TypeOK, StrayProcessesUnused, startVars, execVars, jobVars, StartsInOrder, ExecsInOrder
<1>7. QED
  BY <1>1, <1>2, <1>3, <1>4, <1>5, <1>6

LEMMA LeaveStartKeepsInv ==
    ASSUME ProcessIInv, NEW s \in Start, LeaveStart(s)
    PROVE  ProcessIInv'
<1> USE DEF ProcessIInv, LeaveStart
<1>1. TypeOK'
  BY DEF TypeOK, startVars, execVars, jobVars
<1>2. SessionsCounted'
  BY DEF SessionsCounted, Counted, startVars, execVars, jobVars
<1>3. StartsInOrder'
  BY DEF TypeOK, StartsInOrder, startVars, execVars, jobVars
<1>4. ExecsInOrder'
  BY DEF TypeOK, ExecsInOrder, startVars, execVars, jobVars, StartsInOrder
<1>5. JobsInOrder'
  BY DEF TypeOK, JobsInOrder, startVars, execVars, jobVars
<1>6. StrayProcessesUnused'
  BY DEF TypeOK, StrayProcessesUnused, startVars, execVars, jobVars, StartsInOrder, ExecsInOrder
<1>7. QED
  BY <1>1, <1>2, <1>3, <1>4, <1>5, <1>6

LEMMA FindForExecKeepsInv ==
    ASSUME ProcessIInv, NEW x \in Exec, NEW s \in Start, NEW r \in Request, FindForExec(x, s, r)
    PROVE  ProcessIInv'
<1> USE DEF ProcessIInv, FindForExec
<1>1. TypeOK'
  BY DEF TypeOK, startVars, execVars, jobVars
<1>2. SessionsCounted'
  <2> DEFINE C == {y \in Exec : Counted(y)}
  <2>1. C' = C \cup {x} /\ x \notin C
    BY DEF TypeOK, Counted
  <2>2. IsFiniteSet(C)
    BY CountedAreFinite
  <2>3. Cardinality(C') = Cardinality(C) + 1 /\ Cardinality(C) \in Nat
    BY <2>1, <2>2, FS_AddElement, FS_CardinalityType
  <2>4. QED
    BY <2>3 DEF SessionsCounted
<1>3. StartsInOrder'
  BY DEF TypeOK, StartsInOrder, startVars, execVars, jobVars, Authorizes
<1>4. ExecsInOrder'
  BY DEF TypeOK, ExecsInOrder, startVars, execVars, jobVars, Authorizes, StartsInOrder
<1>5. JobsInOrder'
  BY DEF TypeOK, JobsInOrder, startVars, execVars, jobVars, Authorizes
<1>6. StrayProcessesUnused'
  BY DEF TypeOK, StrayProcessesUnused, startVars, execVars, jobVars, Authorizes, StartsInOrder,
     ExecsInOrder
<1>7. QED
  BY <1>1, <1>2, <1>3, <1>4, <1>5, <1>6

LEMMA RecordCommandKeepsInv ==
    ASSUME ProcessIInv, NEW x \in Exec, RecordCommand(x)
    PROVE  ProcessIInv'
<1> USE DEF ProcessIInv, RecordCommand
<1>1. TypeOK'
  BY DEF TypeOK, startVars, execVars, jobVars
<1>2. SessionsCounted'
  <2>1. {y \in Exec : Counted(y)}' = {y \in Exec : Counted(y)}
    BY DEF TypeOK, Counted
  <2>2. QED
    BY <2>1 DEF SessionsCounted
<1>3. StartsInOrder'
  BY DEF TypeOK, StartsInOrder, startVars, execVars, jobVars, Authorizes
<1>4. ExecsInOrder'
  BY DEF TypeOK, ExecsInOrder, startVars, execVars, jobVars, Authorizes, StartsInOrder
<1>5. JobsInOrder'
  BY DEF TypeOK, JobsInOrder, startVars, execVars, jobVars, Authorizes
<1>6. StrayProcessesUnused'
  BY DEF TypeOK, StrayProcessesUnused, startVars, execVars, jobVars, Authorizes, StartsInOrder,
     ExecsInOrder
<1>7. QED
  BY <1>1, <1>2, <1>3, <1>4, <1>5, <1>6

LEMMA OpenKeepsInv ==
    ASSUME ProcessIInv, NEW x \in Exec, Open(x)
    PROVE  ProcessIInv'
<1> USE DEF ProcessIInv, Open, MayOpen
<1>1. TypeOK'
  BY DEF TypeOK, startVars, execVars, jobVars
<1>2. SessionsCounted'
  <2>1. {y \in Exec : Counted(y)}' = {y \in Exec : Counted(y)}
    BY DEF TypeOK, Counted
  <2>2. QED
    BY <2>1 DEF SessionsCounted
<1>3. StartsInOrder'
  BY DEF TypeOK, StartsInOrder, startVars, execVars, jobVars
<1>4. ExecsInOrder'
  BY DEF TypeOK, ExecsInOrder, startVars, execVars, jobVars, StartsInOrder
<1>5. JobsInOrder'
  BY DEF TypeOK, JobsInOrder, startVars, execVars, jobVars
<1>6. StrayProcessesUnused'
  BY DEF TypeOK, StrayProcessesUnused, startVars, execVars, jobVars, StartsInOrder, ExecsInOrder
<1>7. QED
  BY <1>1, <1>2, <1>3, <1>4, <1>5, <1>6

LEMMA LeaveExecKeepsInv ==
    ASSUME ProcessIInv, NEW x \in Exec, LeaveExec(x)
    PROVE  ProcessIInv'
<1> USE DEF ProcessIInv, LeaveExec, End
<1>1. TypeOK'
  <2>1. sessions' \in Nat
    BY EndKeepsCount DEF TypeOK
  <2>2. QED
    BY <2>1 DEF TypeOK, startVars, execVars, jobVars
<1>2. SessionsCounted'
  BY EndKeepsCount
<1>3. StartsInOrder'
  BY DEF TypeOK, StartsInOrder, startVars, execVars, jobVars, Counted
<1>4. ExecsInOrder'
  BY DEF TypeOK, ExecsInOrder, startVars, execVars, jobVars, Counted, StartsInOrder
<1>5. JobsInOrder'
  BY DEF TypeOK, JobsInOrder, startVars, execVars, jobVars, Counted
<1>6. StrayProcessesUnused'
  BY DEF TypeOK, StrayProcessesUnused, startVars, execVars, jobVars, Counted, StartsInOrder,
     ExecsInOrder
<1>7. QED
  BY <1>1, <1>2, <1>3, <1>4, <1>5, <1>6

LEMMA RecheckKeepsInv ==
    ASSUME ProcessIInv, NEW x \in Exec, Recheck(x)
    PROVE  ProcessIInv'
<1> USE DEF ProcessIInv, Recheck
<1>1. TypeOK'
  BY DEF TypeOK, startVars, execVars, jobVars
<1>2. SessionsCounted'
  BY DEF SessionsCounted, Counted, startVars, execVars, jobVars
<1>3. StartsInOrder'
  BY DEF TypeOK, StartsInOrder, startVars, execVars, jobVars
<1>4. ExecsInOrder'
  BY DEF TypeOK, ExecsInOrder, startVars, execVars, jobVars, StartsInOrder
<1>5. JobsInOrder'
  BY DEF TypeOK, JobsInOrder, startVars, execVars, jobVars
<1>6. StrayProcessesUnused'
  BY DEF TypeOK, StrayProcessesUnused, startVars, execVars, jobVars, StartsInOrder, ExecsInOrder
<1>7. QED
  BY <1>1, <1>2, <1>3, <1>4, <1>5, <1>6

LEMMA HeedRecheckKeepsInv ==
    ASSUME ProcessIInv, NEW x \in Exec, HeedRecheck(x)
    PROVE  ProcessIInv'
<1> USE DEF ProcessIInv, HeedRecheck, End
<1>1. TypeOK'
  <2>1. sessions' \in Nat
    BY EndKeepsCount DEF TypeOK, Counted
  <2>2. QED
    BY <2>1 DEF TypeOK, startVars, execVars, jobVars
<1>2. SessionsCounted'
  BY EndKeepsCount DEF SessionsCounted, Counted
<1>3. StartsInOrder'
  BY DEF TypeOK, StartsInOrder, startVars, execVars, jobVars
<1>4. ExecsInOrder'
  BY DEF TypeOK, ExecsInOrder, startVars, execVars, jobVars, StartsInOrder
<1>5. JobsInOrder'
  BY DEF TypeOK, JobsInOrder, startVars, execVars, jobVars
<1>6. StrayProcessesUnused'
  BY DEF TypeOK, StrayProcessesUnused, startVars, execVars, jobVars, StartsInOrder, ExecsInOrder
<1>7. QED
  BY <1>1, <1>2, <1>3, <1>4, <1>5, <1>6

LEMMA CheckActiveKeepsInv ==
    ASSUME ProcessIInv, NEW r \in Request, CheckActive(r)
    PROVE  ProcessIInv'
<1> USE DEF ProcessIInv, CheckActive
<1>1. TypeOK'
  BY DEF TypeOK, startVars, execVars, jobVars
<1>2. SessionsCounted'
  BY DEF SessionsCounted, Counted, startVars, execVars, jobVars
<1>3. StartsInOrder'
  BY DEF TypeOK, StartsInOrder, startVars, execVars, jobVars
<1>4. ExecsInOrder'
  BY DEF TypeOK, ExecsInOrder, startVars, execVars, jobVars, StartsInOrder
<1>5. JobsInOrder'
  BY DEF TypeOK, JobsInOrder, startVars, execVars, jobVars
<1>6. StrayProcessesUnused'
  BY DEF TypeOK, StrayProcessesUnused, startVars, execVars, jobVars, StartsInOrder, ExecsInOrder
<1>7. QED
  BY <1>1, <1>2, <1>3, <1>4, <1>5, <1>6

LEMMA RecordSystemAttemptKeepsInv ==
    ASSUME ProcessIInv, NEW r \in Request, RecordSystemAttempt(r)
    PROVE  ProcessIInv'
<1> USE DEF ProcessIInv, RecordSystemAttempt
<1>1. TypeOK'
  BY DEF TypeOK, startVars, execVars, jobVars
<1>2. SessionsCounted'
  BY DEF SessionsCounted, Counted, startVars, execVars, jobVars
<1>3. StartsInOrder'
  BY DEF TypeOK, StartsInOrder, startVars, execVars, jobVars
<1>4. ExecsInOrder'
  BY DEF TypeOK, ExecsInOrder, startVars, execVars, jobVars, StartsInOrder
<1>5. JobsInOrder'
  BY DEF TypeOK, JobsInOrder, startVars, execVars, jobVars
<1>6. StrayProcessesUnused'
  BY DEF TypeOK, StrayProcessesUnused, startVars, execVars, jobVars, StartsInOrder, ExecsInOrder
<1>7. QED
  BY <1>1, <1>2, <1>3, <1>4, <1>5, <1>6

LEMMA ApproveHeldKeepsInv ==
    ASSUME ProcessIInv, NEW r \in Request, ApproveHeld(r)
    PROVE  ProcessIInv'
<1> USE DEF ProcessIInv, ApproveHeld, Cancel
<1>1. TypeOK'
  BY DEF TypeOK, startVars, execVars, jobVars
<1>2. SessionsCounted'
  BY DEF SessionsCounted, Counted, startVars, execVars, jobVars
<1>3. StartsInOrder'
  BY DEF TypeOK, StartsInOrder, startVars, execVars, jobVars, Authorizes
<1>4. ExecsInOrder'
  BY DEF TypeOK, ExecsInOrder, startVars, execVars, jobVars, Authorizes, StartsInOrder
<1>5. JobsInOrder'
  BY DEF TypeOK, JobsInOrder, startVars, execVars, jobVars, Authorizes
<1>6. StrayProcessesUnused'
  BY DEF TypeOK, StrayProcessesUnused, startVars, execVars, jobVars, Authorizes, StartsInOrder,
     ExecsInOrder
<1>7. QED
  BY <1>1, <1>2, <1>3, <1>4, <1>5, <1>6

LEMMA CircleCIApprovesKeepsInv ==
    ASSUME ProcessIInv, NEW r \in Request, CircleCIApproves(r)
    PROVE  ProcessIInv'
<1> USE DEF ProcessIInv, CircleCIApproves
<1>1. TypeOK'
  BY DEF TypeOK, startVars, execVars, jobVars
<1>2. SessionsCounted'
  BY DEF SessionsCounted, Counted, startVars, execVars, jobVars
<1>3. StartsInOrder'
  BY DEF TypeOK, StartsInOrder, startVars, execVars, jobVars
<1>4. ExecsInOrder'
  BY DEF TypeOK, ExecsInOrder, startVars, execVars, jobVars, StartsInOrder
<1>5. JobsInOrder'
  BY DEF TypeOK, JobsInOrder, startVars, execVars, jobVars
<1>6. StrayProcessesUnused'
  BY DEF TypeOK, StrayProcessesUnused, startVars, execVars, jobVars, StartsInOrder, ExecsInOrder
<1>7. QED
  BY <1>1, <1>2, <1>3, <1>4, <1>5, <1>6

LEMMA CircleCIRefusesKeepsInv ==
    ASSUME ProcessIInv, NEW r \in Request, CircleCIRefuses(r)
    PROVE  ProcessIInv'
<1> USE DEF ProcessIInv, CircleCIRefuses
<1>1. TypeOK'
  BY DEF TypeOK, startVars, execVars, jobVars
<1>2. SessionsCounted'
  BY DEF SessionsCounted, Counted, startVars, execVars, jobVars
<1>3. StartsInOrder'
  BY DEF TypeOK, StartsInOrder, startVars, execVars, jobVars
<1>4. ExecsInOrder'
  BY DEF TypeOK, ExecsInOrder, startVars, execVars, jobVars, StartsInOrder
<1>5. JobsInOrder'
  BY DEF TypeOK, JobsInOrder, startVars, execVars, jobVars
<1>6. StrayProcessesUnused'
  BY DEF TypeOK, StrayProcessesUnused, startVars, execVars, jobVars, StartsInOrder, ExecsInOrder
<1>7. QED
  BY <1>1, <1>2, <1>3, <1>4, <1>5, <1>6

LEMMA HeedCircleCIKeepsInv ==
    ASSUME ProcessIInv, NEW r \in Request, HeedCircleCI(r)
    PROVE  ProcessIInv'
<1> USE DEF ProcessIInv, HeedCircleCI, Cancel, Retry
<1>1. TypeOK'
  BY DEF TypeOK, startVars, execVars, jobVars
<1>2. SessionsCounted'
  BY DEF SessionsCounted, Counted, startVars, execVars, jobVars
<1>3. StartsInOrder'
  BY DEF TypeOK, StartsInOrder, startVars, execVars, jobVars
<1>4. ExecsInOrder'
  BY DEF TypeOK, ExecsInOrder, startVars, execVars, jobVars, StartsInOrder
<1>5. JobsInOrder'
  BY DEF TypeOK, JobsInOrder, startVars, execVars, jobVars
<1>6. StrayProcessesUnused'
  BY DEF TypeOK, StrayProcessesUnused, startVars, execVars, jobVars, StartsInOrder, ExecsInOrder
<1>7. QED
  BY <1>1, <1>2, <1>3, <1>4, <1>5, <1>6

LEMMA LeaveJobKeepsInv ==
    ASSUME ProcessIInv, NEW r \in Request, LeaveJob(r)
    PROVE  ProcessIInv'
<1> USE DEF ProcessIInv, LeaveJob, Retry
<1>1. TypeOK'
  BY DEF TypeOK, startVars, execVars, jobVars
<1>2. SessionsCounted'
  BY DEF SessionsCounted, Counted, startVars, execVars, jobVars
<1>3. StartsInOrder'
  BY DEF TypeOK, StartsInOrder, startVars, execVars, jobVars
<1>4. ExecsInOrder'
  BY DEF TypeOK, ExecsInOrder, startVars, execVars, jobVars, StartsInOrder
<1>5. JobsInOrder'
  BY DEF TypeOK, JobsInOrder, startVars, execVars, jobVars
<1>6. StrayProcessesUnused'
  BY DEF TypeOK, StrayProcessesUnused, startVars, execVars, jobVars, StartsInOrder, ExecsInOrder
<1>7. QED
  BY <1>1, <1>2, <1>3, <1>4, <1>5, <1>6

LEMMA LoseHoldKeepsInv ==
    ASSUME ProcessIInv, NEW r \in Request, LoseHold(r)
    PROVE  ProcessIInv'
<1> USE DEF ProcessIInv, LoseHold
<1>1. TypeOK'
  BY DEF TypeOK, startVars, execVars, jobVars
<1>2. SessionsCounted'
  BY DEF SessionsCounted, Counted, startVars, execVars, jobVars
<1>3. StartsInOrder'
  BY DEF TypeOK, StartsInOrder, startVars, execVars, jobVars
<1>4. ExecsInOrder'
  BY DEF TypeOK, ExecsInOrder, startVars, execVars, jobVars, StartsInOrder
<1>5. JobsInOrder'
  BY DEF TypeOK, JobsInOrder, startVars, execVars, jobVars
<1>6. StrayProcessesUnused'
  BY DEF TypeOK, StrayProcessesUnused, startVars, execVars, jobVars, StartsInOrder, ExecsInOrder
<1>7. QED
  BY <1>1, <1>2, <1>3, <1>4, <1>5, <1>6

LEMMA RestartKeepsInv ==
    ASSUME ProcessIInv, Restart
    PROVE  ProcessIInv'
<1> USE DEF ProcessIInv, Restart, Busy
<1>1. TypeOK'
  BY DEF TypeOK, startVars, execVars, jobVars
<1>2. SessionsCounted'
  <2>1. {y \in Exec : Counted(y)}' = {}
    BY DEF TypeOK, Counted
  <2>2. Cardinality({y \in Exec : Counted(y)}') = 0
    BY <2>1, FS_EmptySet
  <2>3. QED
    BY <2>2 DEF SessionsCounted
<1>3. StartsInOrder'
  BY DEF TypeOK, StartsInOrder, startVars, execVars, jobVars
<1>4. ExecsInOrder'
  BY DEF TypeOK, ExecsInOrder, startVars, execVars, jobVars, StartsInOrder
<1>5. JobsInOrder'
  BY DEF TypeOK, JobsInOrder, startVars, execVars, jobVars
<1>6. StrayProcessesUnused'
  BY DEF TypeOK, StrayProcessesUnused, startVars, execVars, jobVars, StartsInOrder, ExecsInOrder
<1>7. QED
  BY <1>1, <1>2, <1>3, <1>4, <1>5, <1>6

LEMMA InitHasInv == Init => ProcessIInv
<1> SUFFICES ASSUME Init PROVE ProcessIInv
  OBVIOUS
<1>1. TypeOK
  BY DEF Init, TypeOK
<1>2. SessionsCounted
  <2>1. {x \in Exec : Counted(x)} = {}
    BY DEF Init, Counted
  <2>2. Cardinality({x \in Exec : Counted(x)}) = 0
    BY <2>1, FS_EmptySet
  <2>3. QED
    BY <2>2 DEF Init, SessionsCounted
<1>3. StartsInOrder /\ ExecsInOrder /\ JobsInOrder /\ StrayProcessesUnused
  BY DEF Init, StartsInOrder, ExecsInOrder, JobsInOrder, StrayProcessesUnused
<1>4. QED
  BY <1>1, <1>2, <1>3 DEF ProcessIInv

LEMMA StepKeepsInv == ProcessIInv /\ [Next]_vars => ProcessIInv'
<1> SUFFICES ASSUME ProcessIInv, [Next]_vars PROVE ProcessIInv'
  OBVIOUS
<1>1. ASSUME NEW r \in Request, Decide(r) \/ Promote(r) \/ Lapse(r) PROVE ProcessIInv'
  BY <1>1, DecideKeepsInv, PromoteKeepsInv, LapseKeepsInv
<1>2. ASSUME NEW r \in Request, JobNext(r) PROVE ProcessIInv'
  BY <1>2, CheckActiveKeepsInv, RecordSystemAttemptKeepsInv, ApproveHeldKeepsInv,
     CircleCIApprovesKeepsInv, CircleCIRefusesKeepsInv, HeedCircleCIKeepsInv, LeaveJobKeepsInv,
     LoseHoldKeepsInv DEF JobNext
<1>3. ASSUME NEW s \in Start, StartNext(s) PROVE ProcessIInv'
  BY <1>3, FindForStartKeepsInv, SendStartKeepsInv, RackStartsKeepsInv, RecordProcessKeepsInv,
     LeaveStartKeepsInv DEF StartNext
<1>4. ASSUME NEW x \in Exec, ExecNext(x) PROVE ProcessIInv'
  BY <1>4, FindForExecKeepsInv, RecordCommandKeepsInv, OpenKeepsInv, LeaveExecKeepsInv,
     RecheckKeepsInv, HeedRecheckKeepsInv DEF ExecNext
<1>5. CASE RevokeAccess
  BY <1>5, RevokeAccessKeepsInv
<1>6. CASE Restart
  BY <1>6, RestartKeepsInv
<1>7. CASE UNCHANGED vars
  BY <1>7 DEF vars, startVars, execVars, jobVars, ProcessIInv, TypeOK, SessionsCounted, Counted,
     StartsInOrder, ExecsInOrder, JobsInOrder, StrayProcessesUnused
<1>8. QED
  BY <1>1, <1>2, <1>3, <1>4, <1>5, <1>6, <1>7 DEF Next

\* Whatever is started, run, decided, lost or restarted: sessions stay within the token's limit and
\* are given back, a job holds its row from its last look to the answer, and processes started too
\* late stay unused.
THEOREM ProcessSafe == Spec => []ProcessIInv
<1>1. QED
  BY InitHasInv, StepKeepsInv, PTL DEF Spec

\* A command that runs under an approval, and the process it runs in, are on the approval's record.
THEOREM WhatRunsIsRecorded == Spec => []ExecsOnRecord
<1>1. ProcessIInv => ExecsOnRecord
  BY DEF ProcessIInv, TypeOK, ExecsOnRecord, ExecsInOrder, StartsInOrder
<1>2. QED
  BY <1>1, ProcessSafe, PTL

\* No process that was started after its approval's rejection is recorded, or has a command run in
\* it.
THEOREM StraysStayUnused == Spec => []StrayProcessesUnused
<1>1. ProcessIInv => StrayProcessesUnused
  BY DEF ProcessIInv
<1>2. QED
  BY <1>1, ProcessSafe, PTL

\* CircleCI releases a hold job only while its request is approved, and once that is audited.
THEOREM HoldsReleasedInTime == Spec => HoldReleasedWhileApproved
<1> DEFINE Step == \A r \in Request : r \in released' \ released =>
                     r \in attempted /\ (r \in late \/ row[r].status = "approved")
<1>1. ProcessIInv /\ [Next]_vars => [Step]_vars
  <2> SUFFICES ASSUME ProcessIInv, Next, NEW r \in Request, r \in released', r \notin released
               PROVE  r \in attempted /\ (r \in late \/ row[r].status = "approved")
    BY DEF vars
  <2>1. PICK q \in Request : CircleCIApproves(q)
    BY DEF Next, Decide, Promote, Lapse, JobNext, CheckActive, RecordSystemAttempt, ApproveHeld,
       CircleCIRefuses, HeedCircleCI, LeaveJob, LoseHold, RevokeAccess, StartNext, FindForStart,
       SendStart, RackStarts, RecordProcess, LeaveStart, ExecNext, FindForExec, RecordCommand, Open,
       LeaveExec, Recheck, HeedRecheck, Restart, jobVars
  <2>2. QED
    BY <2>1 DEF CircleCIApproves, ProcessIInv, JobsInOrder
<1>2. QED
  BY <1>1, ProcessSafe, PTL DEF Spec, HoldReleasedWhileApproved
=============================================================================
