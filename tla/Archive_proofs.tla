--------------------------- MODULE Archive_proofs ---------------------------
(***************************************************************************)
(* What is bound to a request stays bound, the rack builds the archive     *)
(* that was checked, and what is promoted and reported deployed is the     *)
(* release built from it: BindingInv, ArchiveInv and DeployInv are         *)
(* inductive.                                                              *)
(***************************************************************************)
EXTENDS Promise_proofs

(***************************************************************************)
(* What the statements of ApprovalRows keep of a row                       *)
(***************************************************************************)
Keeps(row, new) ==
    /\ row.status # "none" => new.status # "none" /\ new.commit = row.commit
    /\ row.uploaded => new.uploaded /\ new.object = row.object
    /\ row.build # None => new.build = row.build
    /\ row.release # None => new.release = row.release
    /\ RowOK(new)

\* Deciding on a request, or its time running out, changes nothing that its steps have bound.
LEMMA DecisionsKeep ==
    ASSUME NEW row \in Row, RowOK(row), row.status # "none"
    PROVE  /\ Keeps(row, Approved(row)) /\ Keeps(row, Rejected(row))
           /\ Keeps(row, Extended(row)) /\ Keeps(row, Expired(row))
           /\ Keeps(row, [row EXCEPT !.lapsed = TRUE])
  BY DEF Keeps, RowOK, Row, Approved, Rejected, Extended, Expired

\* Nor do the claims, and what is released of them.
LEMMA ClaimsKeep ==
    ASSUME NEW row \in Row, RowOK(row), row.status # "none"
    PROVE  /\ \A k \in Key : row.object = None => Keeps(row, ClaimedUpload(row, k))
           /\ \A k \in Key : Keeps(row, ReleasedUpload(row, k))
           /\ Keeps(row, ClaimedBuild(row)) /\ Keeps(row, ReleasedBuild(row))
           /\ Keeps(row, ClaimedPromote(row)) /\ Keeps(row, ReleasedPromote(row))
  <1> USE DEF Keeps, RowOK, Row
  <1>1. \A k \in Key : row.object = None => Keeps(row, ClaimedUpload(row, k))
    BY DEF ClaimedUpload
  <1>2. \A k \in Key : Keeps(row, ReleasedUpload(row, k))
    BY DEF ReleasedUpload
  <1>3. Keeps(row, ClaimedBuild(row)) /\ Keeps(row, ReleasedBuild(row))
    BY DEF ClaimedBuild, ReleasedBuild
  <1>4. Keeps(row, ClaimedPromote(row)) /\ Keeps(row, ReleasedPromote(row))
    BY DEF ClaimedPromote, ReleasedPromote
  <1> QED
    BY <1>1, <1>2, <1>3, <1>4

\* Recording a step adds its result, and replaces none.
LEMMA RecordsKeep ==
    ASSUME NEW row \in Row, RowOK(row), row.status # "none"
    PROVE  /\ \A k \in Key : CanConfirmUpload(row, k) => Keeps(row, ConfirmedUpload(row))
           /\ \A b \in Build \cup {None} : \A rel \in {None, b} :
                CanRecordBuild(row, b, rel) => Keeps(row, RecordedBuild(row, b, rel))
           /\ Keeps(row, MarkedDeployed(row))
  <1> USE DEF Keeps, RowOK, Row
  <1>1. \A k \in Key : CanConfirmUpload(row, k) => Keeps(row, ConfirmedUpload(row))
    BY NoneAssumption DEF CanConfirmUpload, ConfirmedUpload
  <1>2. \A b \in Build \cup {None} : \A rel \in {None, b} :
            CanRecordBuild(row, b, rel) => Keeps(row, RecordedBuild(row, b, rel))
    BY DEF CanRecordBuild, RecordedBuild, Recordable
  <1>3. Keeps(row, MarkedDeployed(row))
    BY DEF MarkedDeployed
  <1> QED
    BY <1>1, <1>2, <1>3

\* A step that changes at most request q's row keeps every row if it keeps that one.
LEMMA OneRowKept ==
    ASSUME BindingInv, NEW q \in Request, NEW new, Keeps(approval[q], new),
           approval' = [approval EXCEPT ![q] = new], NEW r \in Request
    PROVE  Keeps(approval[r], approval'[r])
  <1>1. approval \in [Request -> Row] /\ RowOK(approval[r])
    BY DEF BindingInv, ShapeOK, TypeOK
  <1>2. CASE r = q
    BY <1>1, <1>2
  <1>3. CASE r # q
    BY <1>1, <1>3 DEF Keeps
  <1> QED
    BY <1>2, <1>3

\* Deciding on requests keeps what is bound.
LEMMA DecideKeeps ==
    ASSUME BindingInv, Decide, NEW r \in Request
    PROVE  Keeps(approval[r], approval'[r])
  <1>1. /\ approval \in [Request -> Row] /\ creating \in [Commit -> Nat]
        /\ \A q \in Request : approval[q] \in Row /\ RowOK(approval[q])
    BY DEF BindingInv, ShapeOK, TypeOK
  <1>2. ASSUME NEW S \in SUBSET DueRequests, approval' = ExpireRows(S)
        PROVE  Keeps(approval[r], approval'[r])
    <2>1. CASE r \in S
      <3>1. approval[r].status # "none" /\ approval'[r] = Expired(approval[r])
        BY <1>2, <2>1 DEF DueRequests, Due, Active, ExpireRows
      <3> QED
        BY <1>1, <3>1, DecisionsKeep
    <2>2. CASE r \notin S
      BY <1>1, <1>2, <2>2 DEF ExpireRows, Keeps
    <2> QED
      BY <2>1, <2>2
  <1>3. ASSUME NEW k \in Commit, InsertRequest(k)
        PROVE  Keeps(approval[r], approval'[r])
    <2>1. PICK q \in Request \ Inserted : approval' = [approval EXCEPT ![q] = NewRow(k)]
      BY <1>3 DEF InsertRequest
    <2>2. approval[q] = NoRow
      BY <1>1, <2>1 DEF Inserted, RowOK
    <2>3. Keeps(NoRow, NewRow(k))
      BY DEF Keeps, RowOK, NoRow, NewRow
    <2> QED
      BY <2>1, <2>2, <2>3, OneRowKept
  <1>4. ASSUME NEW q \in Request, Approve(q) \/ Reject(q) \/ Extend(q) \/ Lapse(q)
        PROVE  Keeps(approval[r], approval'[r])
    <2>1. approval[q].status # "none"
      BY <1>4 DEF Approve, CanApprove, Reject, CanReject, Extend, CanExtend, Lapse, Active
    <2>2. PICK new : /\ approval' = [approval EXCEPT ![q] = new]
                     /\ new \in {Approved(approval[q]), Rejected(approval[q]), Extended(approval[q]),
                                 [approval[q] EXCEPT !.lapsed = TRUE]}
      BY <1>1, <1>4 DEF Approve, Reject, Extend, Lapse
    <2> QED
      BY <1>1, <2>1, <2>2, DecisionsKeep, OneRowKept
  <1>5. ASSUME approval' = approval PROVE Keeps(approval[r], approval'[r])
    BY <1>1, <1>5 DEF Keeps
  <1> QED
    BY <1>2, <1>3, <1>4, <1>5 DEF Decide, AdmitCreate, RefuseCreate, Sweep

\* The steps of a handler keep what is bound, to its own request and to the others.
LEMMA HandleKeeps ==
    ASSUME BindingInv, NEW c \in Call, Handle(c) \/ Abandon(c), NEW r \in Request
    PROVE  Keeps(approval[r], approval'[r])
  <1> DEFINE q == call[c].req
             k == call[c].key
             b == call[c].build
             row == approval[q]
  <1>1. /\ approval \in [Request -> Row] /\ RowOK(approval[r])
        /\ call[c] \in CallState /\ CallOK(c) /\ NamesOK(c)
    BY DEF BindingInv, ShapeOK, TypeOK
  <1>2. ASSUME approval' = approval PROVE Keeps(approval[r], approval'[r])
    BY <1>1, <1>2 DEF Keeps
  <1>3. q # None => q \in Request /\ row \in Row /\ RowOK(row) /\ row.status # "none"
    BY <1>1 DEF CallState, NamesOK, BindingInv
  <1>4. call[c].kind = "upload" => k \in Key
    BY <1>1 DEF CallOK
  <1>5. b \in Build \cup {None}
    BY <1>1 DEF CallState
  <1>6. ASSUME q \in Request, NEW new, Keeps(row, new), approval' = [approval EXCEPT ![q] = new]
        PROVE  Keeps(approval[r], approval'[r])
    BY <1>6, OneRowKept
  <1>7. CASE ClaimUpload(c) \/ RecordUpload(c)
    <2>1. CASE ClaimUpload(c)
      <3>1. q \in Request /\ Keeps(row, ClaimedUpload(row, k))
        BY <1>1, <1>3, <1>4, <2>1, ConstantsAssumption, ClaimsKeep DEF ClaimUpload, At, CallOK, CanClaimUpload
      <3> QED
        BY <1>6, <2>1, <3>1 DEF ClaimUpload
    <2>2. CASE RecordUpload(c) /\ q # None
      <3>1. Keeps(row, ConfirmedUpload(row))
        BY <1>3, <1>4, <2>2, RecordsKeep DEF RecordUpload, At
      <3> QED
        BY <1>3, <1>6, <2>2, <3>1 DEF RecordUpload
    <2>3. CASE RecordUpload(c) /\ q = None
      BY <1>1, <1>2, <2>3, ConstantsAssumption DEF RecordUpload
    <2> QED
      BY <1>7, <2>1, <2>2, <2>3
  <1>8. CASE ClaimBuild(c) \/ ClaimPromote(c)
    <2>1. q \in Request
      BY <1>1, <1>8 DEF ClaimBuild, ClaimPromote, At, CallOK
    <2>2. PICK new \in {ClaimedBuild(row), ClaimedPromote(row)} : approval' = [approval EXCEPT ![q] = new]
      BY <1>8 DEF ClaimBuild, ClaimPromote
    <2>3. Keeps(row, new)
      BY <1>3, <2>1, <2>2, ConstantsAssumption, ClaimsKeep
    <2> QED
      BY <1>6, <2>1, <2>2, <2>3
  <1>9. CASE RecordBuild(c) \/ RecordRead(c)
    <2>1. q \in Request
      BY <1>1, <1>3, <1>9 DEF RecordBuild, RecordRead, At, CallOK
    <2>2. PICK rel \in {None, b} : /\ CanRecordBuild(row, b, rel)
                                   /\ approval' = [approval EXCEPT ![q] = RecordedBuild(row, b, rel)]
      BY <1>9 DEF RecordBuild, RecordRead
    <2>3. Keeps(row, RecordedBuild(row, b, rel))
      BY <1>3, <1>5, <2>1, <2>2, ConstantsAssumption, RecordsKeep
    <2> QED
      BY <1>6, <2>1, <2>2, <2>3
  <1>10. CASE RecordDeployed(c)
    <2>1. q \in Request
      BY <1>1, <1>10 DEF RecordDeployed, At, CallOK
    <2>2. Keeps(row, MarkedDeployed(row))
      BY <1>3, <2>1, ConstantsAssumption, RecordsKeep
    <2> QED
      BY <1>6, <1>10, <2>1, <2>2 DEF RecordDeployed
  <1>11. CASE Release(c)
    <2>1. CASE q = None
      BY <1>2, <1>11, <2>1 DEF Release
    <2>2. CASE q # None
      <3>1. call[c].kind \in {"upload", "build", "promote"}
        BY <1>1, <1>11 DEF Release, CallOK, CallState
      <3>2. PICK new : /\ approval' = [approval EXCEPT ![q] = new]
                       /\ \/ call[c].kind = "upload" /\ new = ReleasedUpload(row, k)
                          \/ new \in {ReleasedBuild(row), ReleasedPromote(row)}
        BY <1>11, <2>2, <3>1 DEF Release
      <3>3. Keeps(row, new)
        BY <1>3, <1>4, <2>2, <3>2, ClaimsKeep
      <3> QED
        BY <1>3, <1>6, <2>2, <3>2, <3>3
    <2> QED
      BY <2>1, <2>2
  <1>12. ASSUME ~(ClaimUpload(c) \/ RecordUpload(c) \/ ClaimBuild(c) \/ ClaimPromote(c)
                  \/ RecordBuild(c) \/ RecordRead(c) \/ RecordDeployed(c) \/ Release(c))
         PROVE  approval' = approval
    BY <1>12 DEF Handle, ClaimKey, RefuseClaim, CheckKey, Verify, Send, NotSent, Answer, GiveUp,
                 MarkObjectUploaded, RecordNothing, Abandon
  <1> QED
    BY <1>2, <1>7, <1>8, <1>9, <1>10, <1>11, <1>12

\* Every step keeps what is bound.
LEMMA RowsKeep ==
    ASSUME BindingInv, [Next]_vars, NEW r \in Request
    PROVE  Keeps(approval[r], approval'[r])
  <1>1. CASE approval' = approval
    BY <1>1 DEF Keeps, BindingInv
  <1>2. ASSUME NEW c \in Call, BeginCall(c) \/ RackWorks(c) PROVE approval' = approval
    BY <1>2 DEF BeginCall, BeginUpload, BeginDirectUpload, BeginBuild, BeginDirectBuild, BeginRead,
           BeginPromote, Begin, RackWorks, RackStores, RackBuilds, RackPromotes, RackRefuses, RackEnds
  <1>3. ASSUME NEW b \in Build, RackFinishesBuild(b) PROVE approval' = approval
    BY <1>3 DEF RackFinishesBuild, gatewayVars
  <1> QED
    BY <1>1, <1>2, <1>3, DecideKeeps, HandleKeeps DEF Next, vars

(***************************************************************************)
(* How calls move                                                          *)
(***************************************************************************)
\* A call goes on with what it was begun with.
Continues(c) ==
    /\ call'[c].kind = call[c].kind
    /\ call'[c].req = call[c].req
    /\ call'[c].key = call[c].key

\* Only c's step changes c's call.
OthersStay(c) == \A d \in Call \ {c} : call'[d] = call[d] /\ rack'[d] = rack[d]

\* A handler's step ends its call, or goes on with it; only a check of the archive changes more than
\* where it is.
LEMMA HandleMoves ==
    ASSUME ShapeOK, NEW c \in Call, Handle(c) \/ Abandon(c)
    PROVE  /\ OthersStay(c)
           /\ \/ call'[c] = Idle /\ rack'[c] = "none"
              \/ /\ Continues(c)
                 /\ call'[c].build = call[c].build
                 /\ Verify(c) \/ call'[c].archive = call[c].archive
  <1> DEFINE Moves == /\ OthersStay(c)
                      /\ \/ call'[c] = Idle /\ rack'[c] = "none"
                         \/ /\ Continues(c)
                            /\ call'[c].build = call[c].build
                            /\ Verify(c) \/ call'[c].archive = call[c].archive
  <1>1. call \in [Call -> CallState] /\ call[c] \in CallState /\ DOMAIN rack = Call
    BY DEF ShapeOK, TypeOK
  <1>2. CASE End(c)
    BY <1>1, <1>2 DEF End, CallState, OthersStay, Continues
  <1>3. ASSUME NEW label, Goto(c, label), rack' = rack PROVE Moves
    BY <1>1, <1>3 DEF Goto, CallState, OthersStay, Continues
  <1>4. CASE Verify(c)
    BY <1>1, <1>4 DEF Verify, Goto, CallState, OthersStay, Continues
  <1>5. CASE Send(c)
    BY <1>1, <1>5 DEF Send, Goto, CallState, OthersStay, Continues
  <1>6. CASE \/ ClaimKey(c) \/ ClaimUpload(c) \/ ClaimBuild(c) \/ ClaimPromote(c) \/ RefuseClaim(c)
             \/ CheckKey(c) \/ NotSent(c) \/ Answer(c) \/ GiveUp(c)
    BY <1>2, <1>3, <1>6
    DEF ClaimKey, ClaimUpload, ClaimBuild, ClaimPromote, RefuseClaim, CheckKey, NotSent, Answer, GiveUp,
        KeepsPromote
  <1>7. CASE \/ MarkObjectUploaded(c) \/ RecordUpload(c) \/ RecordBuild(c) \/ RecordRead(c)
             \/ RecordDeployed(c) \/ RecordNothing(c) \/ Release(c) \/ Abandon(c)
    BY <1>2, <1>3, <1>7
    DEF MarkObjectUploaded, RecordUpload, RecordBuild, RecordRead, RecordDeployed, RecordNothing,
        Release, Abandon
  <1> QED
    BY <1>4, <1>5, <1>6, <1>7 DEF Handle

\* A call begins idle at the rack, with what its request is bound to.
LEMMA BeginMoves ==
    ASSUME ShapeOK, NEW c \in Call, BeginCall(c)
    PROVE  /\ OthersStay(c) /\ rack' = rack /\ rack[c] = "none"
           /\ UNCHANGED <<approval, keys, stored, built, applied>>
           /\ call'[c].at \in {"claimKey", "claim", "checkKey", "record"}
           /\ call'[c].kind = "upload" => call'[c].at = "claimKey"
           /\ call'[c].kind = "build" => call'[c].at \in {"claim", "checkKey"}
           /\ NamesOK(c)'
  <1> DEFINE Begun == /\ OthersStay(c) /\ rack' = rack /\ rack[c] = "none"
                      /\ UNCHANGED <<approval, keys, stored, built, applied>>
                      /\ call'[c].at \in {"claimKey", "claim", "checkKey", "record"}
                      /\ call'[c].kind = "upload" => call'[c].at = "claimKey"
                      /\ call'[c].kind = "build" => call'[c].at \in {"claim", "checkKey"}
                      /\ NamesOK(c)'
  <1>1. call \in [Call -> CallState] /\ CallOK(c)
    BY DEF ShapeOK, TypeOK
  <1>2. ASSUME NEW kind, NEW label, NEW q, NEW k, NEW a, NEW b, Begin(c, kind, label, q, k, a, b),
               label \in {"claimKey", "claim", "checkKey", "record"},
               kind = "upload" => label = "claimKey",
               kind = "build" => label \in {"claim", "checkKey"},
               q # None => approval[q].status # "none",
               kind = "read" => b = approval[q].build,
               kind = "promote" => b = approval[q].release
        PROVE  Begun
    <2>1. call'[c] = [kind |-> kind, at |-> label, req |-> q, key |-> k, archive |-> a, build |-> b]
      BY <1>1, <1>2 DEF Begin
    <2>2. UNCHANGED <<approval, keys, rack, stored, built, applied>> /\ OthersStay(c)
      BY <1>1, <1>2 DEF Begin, rackVars, OthersStay
    <2>3. rack[c] = "none"
      BY <1>1, <1>2 DEF Begin, CallOK, Idle
    <2> QED
      BY <1>2, <2>1, <2>2, <2>3 DEF NamesOK
  <1>3. ASSUME NEW k \in Key, NEW a \in Commit, BeginUpload(c, k, a) PROVE Begun
    BY <1>2, <1>3 DEF BeginUpload, IsNewest, Authorizes
  <1>4. ASSUME NEW k \in Key, NEW a \in Commit, BeginDirectUpload(c, k, a) PROVE Begun
    BY <1>2, <1>4 DEF BeginDirectUpload
  <1>5. ASSUME NEW k \in Key, NEW q \in Request, BeginBuild(c, k, q) PROVE Begun
    BY <1>2, <1>5 DEF BeginBuild, Authorizes
  <1>6. ASSUME NEW k \in Key, BeginDirectBuild(c, k) PROVE Begun
    BY <1>2, <1>6 DEF BeginDirectBuild
  <1>7. ASSUME NEW q \in Request, BeginRead(c, q) PROVE Begun
    BY <1>2, <1>7 DEF BeginRead, Authorizes
  <1>8. ASSUME NEW b \in Build, BeginPromote(c, b) PROVE Begun
    BY <1>2, <1>8 DEF BeginPromote, IsNewest, Authorizes
  <1> QED
    BY <1>3, <1>4, <1>5, <1>6, <1>7, <1>8 DEF BeginCall

\* The rack ends a call without changing what it is about; a build's answer names the build.
LEMMA RackMoves ==
    ASSUME ShapeOK, NEW c \in Call, RackWorks(c)
    PROVE  /\ OthersStay(c) /\ rack[c] = "running" /\ rack'[c] # "running"
           /\ UNCHANGED <<approval, keys>>
           /\ \/ call'[c] = Idle /\ rack'[c] = "none"
              \/ /\ Continues(c)
                 /\ call'[c].at = call[c].at /\ call[c].at # "gone"
                 /\ call'[c].archive = call[c].archive
                 /\ \/ call'[c].build = call[c].build
                    \/ call[c].kind = "build" /\ \E b \in Build : RackBuilds(c, b) /\ call'[c].build = b
  <1>1. call \in [Call -> CallState] /\ call[c] \in CallState /\ DOMAIN rack = Call
    BY DEF ShapeOK, TypeOK
  <1> DEFINE Moves(next, result) ==
                 /\ OthersStay(c) /\ rack[c] = "running" /\ rack'[c] # "running"
                 /\ UNCHANGED <<approval, keys>>
                 /\ \/ call'[c] = Idle /\ rack'[c] = "none"
                    \/ call'[c] = next /\ rack'[c] = result /\ call[c].at # "gone"
  <1>2. ASSUME NEW next, NEW result \in {"done", "refused"}, RackEnds(c, result, next)
        PROVE  Moves(next, result)
    BY <1>1, <1>2 DEF RackEnds, OthersStay
  <1>3. CASE RackStores(c) \/ RackPromotes(c) \/ RackRefuses(c)
    BY <1>2, <1>3 DEF RackStores, RackPromotes, RackRefuses, Continues
  <1>4. ASSUME NEW b \in Build, RackBuilds(c, b)
        PROVE  Moves([call[c] EXCEPT !.build = b], "done") /\ call[c].kind = "build"
    BY <1>2, <1>4 DEF RackBuilds
  <1> QED
    BY <1>1, <1>3, <1>4 DEF RackWorks, Continues, CallState

(***************************************************************************)
(* Bindings                                                                *)
(***************************************************************************)
\* A call that goes on with its build goes on naming what its request is bound to.
LEMMA NamesKept ==
    ASSUME BindingInv, [Next]_vars, NEW c \in Call, Continues(c),
           call'[c].build = call[c].build \/ call[c].kind = "build"
    PROVE  NamesOK(c)'
  <1> DEFINE q == call[c].req
  <1>1. call[c] \in CallState /\ CallOK(c) /\ NamesOK(c)
    BY DEF BindingInv, ShapeOK, TypeOK
  <1>2. q \in Request \cup {None}
    BY <1>1 DEF CallState
  <1>3. CASE q = None
    BY <1>1, <1>3, ConstantsAssumption DEF NamesOK, Continues, CallOK
  <1>4. CASE q # None
    <2>1. Keeps(approval[q], approval'[q]) /\ approval[q].status # "none"
      BY <1>1, <1>2, <1>4, RowsKeep DEF NamesOK
    <2>2. call[c].kind \in {"read", "promote"} => call[c].build # None
      BY <1>1, NoneAssumption DEF CallOK
    <2> QED
      BY <1>1, <2>1, <2>2 DEF NamesOK, Continues, Keeps
  <1> QED
    BY <1>3, <1>4

\* BindingInv is inductive.
LEMMA BindingStep == BindingInv /\ [Next]_vars => BindingInv'
  <1> SUFFICES ASSUME BindingInv, [Next]_vars PROVE BindingInv'
    OBVIOUS
  <1>1. ShapeOK /\ ShapeOK'
    BY ShapeStep DEF BindingInv
  <1>2. \A r \in Request : RowOK(approval'[r])
    BY RowsKeep DEF Keeps
  <1>3. ASSUME NEW d \in Call PROVE NamesOK(d)'
    <2>1. CASE call'[d] = Idle
      BY <2>1 DEF NamesOK, Idle
    <2>2. CASE call'[d] = call[d]
      BY <2>2, NamesKept DEF Continues
    <2>3. ASSUME NEW c \in Call, BeginCall(c) PROVE NamesOK(d)'
      BY <1>1, <2>2, <2>3, BeginMoves DEF OthersStay
    <2>4. ASSUME NEW c \in Call, Handle(c) \/ Abandon(c) PROVE NamesOK(d)'
      BY <1>1, <2>1, <2>2, <2>4, HandleMoves, NamesKept DEF OthersStay
    <2>5. ASSUME NEW c \in Call, RackWorks(c) PROVE NamesOK(d)'
      BY <1>1, <2>1, <2>2, <2>5, RackMoves, NamesKept DEF OthersStay
    <2>6. CASE Decide \/ (\E b \in Build : RackFinishesBuild(b)) \/ UNCHANGED vars
      <3>1. call' = call
        BY <2>6 DEF Decide, AdmitCreate, InsertRequest, RefuseCreate, Approve, Reject, Extend, Lapse,
                    Sweep, RackFinishesBuild, gatewayVars, vars
      <3> QED
        BY <2>2, <3>1
    <2> QED
      BY <2>3, <2>4, <2>5, <2>6 DEF Next
  <1> QED
    BY <1>1, <1>2, <1>3 DEF BindingInv

LEMMA InitBinding == Init => BindingInv
  BY InitShape DEF Init, BindingInv, RowOK, NoRow, NamesOK, Idle

\* A finished upload, a recorded build and its release stay bound to their request, whatever late
\* answers, lapses, extensions and releases of later claims come after them.
THEOREM BindingsStay == Spec => BindingsKept
  <1>1. BindingInv /\ [Next]_vars =>
            \A r \in Request :
                /\ approval[r].uploaded => approval'[r].uploaded /\ approval'[r].object = approval[r].object
                /\ approval[r].build # None => approval'[r].build = approval[r].build
                /\ approval[r].release # None => approval'[r].release = approval[r].release
    BY RowsKeep DEF Keeps
  <1> QED
    BY <1>1, InitBinding, BindingStep, PTL DEF Spec, BindingsKept

(***************************************************************************)
(* What a step leaves as it is once it counts                              *)
(***************************************************************************)
\* A complete object isn't replaced, and a build is of what it was made of.
Steady ==
    /\ \A k \in Key : /\ keys[k] # "free" => keys'[k] # "free"
                      /\ keys[k] = "uploaded" => keys'[k] = "uploaded" /\ stored'[k] = stored[k]
    /\ \A b \in Build :
         /\ built[b].state # "none" => /\ built'[b].state # "none"
                                       /\ built'[b].source = built[b].source
                                       /\ built'[b].checked = built[b].checked
         /\ built[b].state = "finished" => built'[b] = built[b]

\* The rack and the gateway's key table move steadily: nobody stores an object under a key that
\* is marked uploaded, since its uploads hold the key's claim as long as they may store.
LEMMA SteadyStep ==
    ASSUME ShapeOK, KeysOK, [Next]_vars
    PROVE  Steady
  <1>1. TypeOK
    BY DEF ShapeOK
  <1>2. CASE UNCHANGED <<keys, stored, built>>
    BY <1>2 DEF Steady
  <1>3. ASSUME NEW c \in Call, Handle(c) \/ Abandon(c) PROVE Steady
    <2>1. stored' = stored /\ built' = built
      BY <1>3 DEF Handle, ClaimKey, ClaimUpload, ClaimBuild, ClaimPromote, RefuseClaim, CheckKey, Verify,
             Send, NotSent, Answer, GiveUp, MarkObjectUploaded, RecordUpload, RecordBuild, RecordRead,
             RecordDeployed, RecordNothing, Release, Abandon, rackVars
    <2>2. \/ keys' = keys
          \/ keys[call[c].key] = "free" /\ keys' = [keys EXCEPT ![call[c].key] = "claimed"]
          \/ keys' = [keys EXCEPT ![call[c].key] = "uploaded"]
      BY <1>3 DEF Handle, ClaimKey, ClaimUpload, ClaimBuild, ClaimPromote, RefuseClaim, CheckKey, Verify,
             Send, NotSent, Answer, GiveUp, MarkObjectUploaded, RecordUpload, RecordBuild, RecordRead,
             RecordDeployed, RecordNothing, Release, Abandon
    <2> QED
      BY <1>1, <2>1, <2>2 DEF Steady, TypeOK
  <1>4. ASSUME NEW c \in Call, RackStores(c) PROVE Steady
    <2>1. MayStore(c)
      <3>1. CallOK(c) /\ call[c].kind = "upload" /\ rack[c] = "running"
        BY <1>4 DEF RackStores, RackEnds, ShapeOK
      <3> QED
        BY <3>1 DEF CallOK, MayStore, Uploading
    <2>2. keys[call[c].key] = "claimed"
      BY <2>1 DEF KeysOK
    <2>3. keys' = keys /\ built' = built /\ stored' = [stored EXCEPT ![call[c].key] = call[c].archive]
      BY <1>4 DEF RackStores, RackEnds
    <2> QED
      BY <1>1, <2>2, <2>3 DEF Steady, TypeOK
  <1>5. ASSUME NEW c \in Call, NEW b \in Build, RackBuilds(c, b) PROVE Steady
    BY <1>1, <1>5 DEF RackBuilds, RackEnds, Steady, TypeOK
  <1>6. ASSUME NEW b \in Build, RackFinishesBuild(b) PROVE Steady
    <2>1. built[b] \in BuildState /\ built[b].state = "running"
      BY <1>1, <1>6 DEF RackFinishesBuild, TypeOK
    <2>2. keys' = keys /\ stored' = stored
      BY <1>6 DEF RackFinishesBuild, gatewayVars
    <2> QED
      BY <1>1, <1>6, <2>1, <2>2 DEF RackFinishesBuild, Steady, TypeOK, BuildState
  <1>7. ASSUME NEW c \in Call, BeginCall(c) \/ RackPromotes(c) \/ RackRefuses(c) PROVE Steady
    <2>1. UNCHANGED <<keys, stored, built>>
      BY <1>7, BeginMoves DEF RackPromotes, RackRefuses, RackEnds, rackVars
    <2> QED
      BY <1>2, <2>1
  <1>8. CASE Decide \/ UNCHANGED vars
    BY <1>2, <1>8 DEF Decide, AdmitCreate, InsertRequest, RefuseCreate, Approve, Reject, Extend, Lapse,
                      Sweep, rackVars, vars
  <1> QED
    BY <1>3, <1>4, <1>5, <1>6, <1>7, <1>8 DEF Next, RackWorks
(***************************************************************************)
(* Keys                                                                    *)
(***************************************************************************)
\* A step that claims no key keeps the claims, if it takes no key from an upload that may store.
LEMMA KeysKept ==
    ASSUME KeysOK, TypeOK, Steady,
           \A d \in Call : Uploading(d) => call[d].key \in Key,
           \A d \in Call : Uploading(d)' => Uploading(d) /\ call'[d].key = call[d].key,
           \A d \in Call : MayStore(d)' => MayStore(d) /\ keys'[call[d].key] = keys[call[d].key]
    PROVE  KeysOK'
  <1>1. ASSUME NEW d \in Call, Uploading(d)' PROVE keys'[call'[d].key] # "free"
    BY <1>1 DEF KeysOK, Steady
  <1>2. ASSUME NEW c \in Call, NEW d \in Call, Uploading(c)', Uploading(d)', call'[c].key = call'[d].key
        PROVE  c = d
    BY <1>2 DEF KeysOK
  <1>3. ASSUME NEW d \in Call, MayStore(d)' PROVE keys'[call'[d].key] = "claimed"
    <2>1. Uploading(d)'
      BY <1>3 DEF MayStore
    <2> QED
      BY <1>3, <2>1 DEF KeysOK
  <1> QED
    BY <1>1, <1>2, <1>3 DEF KeysOK

\* An upload has the only claim of its key, from the claim to the end of its handler, and of the
\* rack's work.
LEMMA KeysStep ==
    ASSUME ShapeOK, ShapeOK', KeysOK, [Next]_vars
    PROVE  KeysOK'
  <1>1. TypeOK /\ Steady /\ \A d \in Call : CallOK(d) /\ CallOK(d)'
    BY SteadyStep DEF ShapeOK
  <1>2. \A d \in Call : Uploading(d) => call[d].key \in Key
    BY <1>1 DEF Uploading, CallOK
  <1> DEFINE Kept(d) == /\ Uploading(d)' => Uploading(d) /\ call'[d].key = call[d].key
                        /\ MayStore(d)' => MayStore(d) /\ keys'[call[d].key] = keys[call[d].key]
  <1>3. ASSUME \A d \in Call : Kept(d) PROVE KeysOK'
    BY <1>1, <1>2, <1>3, KeysKept
  <1>4. ASSUME NEW d \in Call, call'[d] = call[d], rack'[d] = rack[d],
               MayStore(d) => keys'[call[d].key] = keys[call[d].key]
        PROVE  Kept(d)
    BY <1>4 DEF Uploading, MayStore
  <1>5. ASSUME NEW d \in Call, call'[d] = Idle \/ call'[d].at = "claimKey" PROVE Kept(d)
    BY <1>5 DEF Uploading, MayStore, Idle
  <1>6. ASSUME NEW c \in Call, ClaimKey(c), keys[call[c].key] = "free" PROVE KeysOK'
    <2> DEFINE k == call[c].key
    <2>1. /\ keys' = [keys EXCEPT ![k] = "claimed"] /\ k \in Key
          /\ call'[c].key = k /\ OthersStay(c)
      BY <1>1, <1>6, HandleMoves DEF Handle, ClaimKey, At, CallOK, OthersStay, Continues, Goto, TypeOK,
             CallState, Idle
    <2>2. \A d \in Call : Uploading(d) => call[d].key # k
      BY <1>6 DEF KeysOK
    <2>3. ASSUME NEW d \in Call, d # c
          PROVE  /\ Uploading(d)' => Uploading(d) /\ call'[d].key # k /\ call[d].key \in Key
                 /\ MayStore(d)' => MayStore(d)
                 /\ call'[d].key = call[d].key
      BY <1>2, <2>1, <2>2, <2>3 DEF OthersStay, Uploading, MayStore
    <2>4. ASSUME NEW d \in Call, Uploading(d)' PROVE keys'[call'[d].key] # "free"
      <3>1. CASE d = c
        BY <1>1, <2>1, <3>1 DEF TypeOK
      <3>2. CASE d # c
        <4>1. Uploading(d) /\ call'[d].key = call[d].key /\ call[d].key \in Key
          BY <2>3, <2>4, <3>2
        <4>2. keys[call[d].key] # "free"
          BY <4>1 DEF KeysOK
        <4> QED
          BY <1>1, <2>1, <4>1, <4>2 DEF TypeOK
      <3> QED
        BY <3>1, <3>2
    <2>5. ASSUME NEW d \in Call, NEW e \in Call, Uploading(d)', Uploading(e)',
                 call'[d].key = call'[e].key
          PROVE  d = e
      <3>2. CASE d = c \/ e = c
        BY <2>1, <2>3, <2>5, <3>2
      <3>3. CASE d # c /\ e # c
        <4>1. Uploading(d) /\ Uploading(e) /\ call[d].key = call[e].key
          BY <2>3, <2>5, <3>3
        <4> QED
          BY <4>1 DEF KeysOK
      <3> QED
        BY <3>2, <3>3
    <2>6. ASSUME NEW d \in Call, MayStore(d)' PROVE keys'[call'[d].key] = "claimed"
      <3>1. CASE d = c
        BY <1>1, <2>1, <3>1 DEF TypeOK
      <3>2. CASE d # c
        <4>1. MayStore(d) /\ Uploading(d) /\ call'[d].key = call[d].key /\ call[d].key \in Key
          BY <2>3, <2>6, <3>2 DEF MayStore
        <4>2. keys[call[d].key] = "claimed" /\ call[d].key # k
          BY <1>6, <4>1 DEF KeysOK
        <4> QED
          BY <1>1, <2>1, <4>1, <4>2 DEF TypeOK
      <3> QED
        BY <3>1, <3>2
    <2> QED
      BY <2>4, <2>5, <2>6 DEF KeysOK
  <1>7. ASSUME NEW c \in Call, ClaimKey(c), keys[call[c].key] # "free" PROVE KeysOK'
    <2>1. keys' = keys /\ End(c) /\ call[c].at = "claimKey"
      BY <1>7 DEF ClaimKey, At
    <2>2. rack[c] = "none"
      BY <1>1, <2>1 DEF CallOK
    <2>3. call'[c] = Idle
      BY <1>1, <2>1, <2>2 DEF End, TypeOK
    <2>4. OthersStay(c)
      BY <1>7, HandleMoves DEF Handle
    <2> QED
      BY <1>3, <1>4, <1>5, <2>1, <2>3, <2>4 DEF OthersStay
  <1>8. ASSUME NEW c \in Call, CheckKey(c) PROVE KeysOK'
    <2>1. OthersStay(c) /\ call'[c].kind = "build"
      BY <1>1, <1>8, HandleMoves DEF Handle, CheckKey, At, Goto, TypeOK, CallState
    <2>2. \A d \in Call : MayStore(d) => keys'[call[d].key] = keys[call[d].key]
      <3>1. CASE keys' = keys
        BY <3>1
      <3>2. CASE keys[call[c].key] # "claimed" /\ keys' = [keys EXCEPT ![call[c].key] = "uploaded"]
        BY <1>1, <3>2 DEF KeysOK, TypeOK
      <3> QED
        BY <1>8, <3>1, <3>2 DEF CheckKey
    <2>3. Kept(c)
      BY <2>1 DEF Uploading, MayStore
    <2> QED
      BY <1>3, <1>4, <2>1, <2>2, <2>3 DEF OthersStay
  <1>9. ASSUME NEW c \in Call, MarkObjectUploaded(c) PROVE KeysOK'
    <2> DEFINE k == call[c].key
    <2>1. /\ Uploading(c) /\ rack[c] # "running" /\ rack' = rack
          /\ keys' = [keys EXCEPT ![k] = "uploaded"]
      BY <1>1, <1>9 DEF MarkObjectUploaded, At, Uploading, CallOK
    <2>2. /\ call'[c].kind = "upload" /\ call'[c].key = k /\ call'[c].at \in {"release", "record"}
          /\ OthersStay(c)
      BY <1>1, <1>9, HandleMoves DEF Handle, MarkObjectUploaded, At, Goto, TypeOK, CallState
    <2>3. Kept(c)
      BY <2>1, <2>2 DEF Uploading, MayStore
    <2>4. ASSUME NEW d \in Call \ {c} PROVE Kept(d)
      <3>1. MayStore(d) => Uploading(d)
        BY DEF MayStore
      <3>2. MayStore(d) => call[d].key # k
        BY <2>1, <3>1 DEF KeysOK
      <3> QED
        BY <1>1, <1>4, <2>1, <2>2, <3>2 DEF OthersStay, TypeOK
    <2> QED
      BY <1>3, <2>3, <2>4
  <1>10. ASSUME NEW c \in Call, Handle(c) \/ Abandon(c),
                ~(ClaimKey(c) \/ CheckKey(c) \/ MarkObjectUploaded(c))
         PROVE  KeysOK'
    <2>1. keys' = keys
      BY <1>10 DEF Handle, ClaimUpload, ClaimBuild, ClaimPromote, RefuseClaim, Verify, Send, NotSent,
             Answer, GiveUp, RecordUpload, RecordBuild, RecordRead, RecordDeployed, RecordNothing,
             Release, Abandon
    <2>2. Kept(c)
      <3>1. CASE call[c].kind # "upload"
        BY <1>1, <1>10, <3>1, HandleMoves DEF Uploading, MayStore, Continues, Idle
      <3>2. CASE End(c)
        <4>1. CASE rack[c] = "running"
          <5>1. call[c].at \in {"wait", "release", "gone"}
            BY <1>1, <4>1 DEF CallOK
          <5>2. call'[c].kind = call[c].kind /\ call'[c].key = call[c].key /\ call'[c].at = "gone"
            BY <1>1, <3>2, <4>1 DEF End, TypeOK, CallState
          <5> QED
            BY <2>1, <4>1, <5>1, <5>2 DEF Uploading, MayStore
        <4>2. CASE rack[c] # "running"
          BY <1>1, <1>5, <3>2, <4>2 DEF End, TypeOK
        <4> QED
          BY <4>1, <4>2
      <3>3. ASSUME NEW label, Goto(c, label), rack' = rack, call[c].at # "claimKey",
                   label \in {"claim", "send"} => call[c].at = "claim"
            PROVE  Kept(c)
        <4>1. call'[c].kind = call[c].kind /\ call'[c].key = call[c].key /\ call'[c].at = label
          BY <1>1, <3>3 DEF Goto, TypeOK, CallState
        <4> QED
          BY <2>1, <3>3, <4>1 DEF Uploading, MayStore
      <3>4. CASE Send(c)
        <4>1. call'[c].kind = call[c].kind /\ call'[c].key = call[c].key /\ call[c].at = "send"
          BY <1>1, <3>4 DEF Send, Goto, TypeOK, CallState
        <4> QED
          BY <2>1, <4>1 DEF Uploading, MayStore
      <3>5. CASE ClaimUpload(c) \/ RefuseClaim(c) \/ NotSent(c) \/ Answer(c) \/ GiveUp(c)
        BY <3>2, <3>3, <3>5 DEF ClaimUpload, RefuseClaim, NotSent, Answer, GiveUp, KeepsPromote, At
      <3>6. CASE RecordUpload(c) \/ RecordNothing(c) \/ Release(c) \/ Abandon(c)
        BY <3>2, <3>3, <3>6 DEF RecordUpload, RecordNothing, Release, Abandon, At
      <3>7. CASE ClaimBuild(c) \/ ClaimPromote(c) \/ Verify(c) \/ RecordBuild(c) \/ RecordRead(c)
                 \/ RecordDeployed(c)
        BY <3>1, <3>7 DEF ClaimBuild, ClaimPromote, Verify, RecordBuild, RecordRead, RecordDeployed, At
      <3> QED
        BY <1>10, <3>4, <3>5, <3>6, <3>7 DEF Handle
    <2> QED
      BY <1>3, <1>4, <1>10, <2>1, <2>2, HandleMoves DEF OthersStay
  <1>11. ASSUME NEW c \in Call, BeginCall(c) PROVE KeysOK'
    <2>1. Kept(c)
      BY <1>11, BeginMoves DEF Uploading, MayStore
    <2> QED
      BY <1>3, <1>4, <1>11, <2>1, BeginMoves DEF OthersStay
  <1>12. ASSUME NEW c \in Call, RackWorks(c) PROVE KeysOK'
    <2>1. Kept(c)
      BY <1>5, <1>12, RackMoves DEF Uploading, MayStore, Continues
    <2> QED
      BY <1>3, <1>4, <1>12, <2>1, RackMoves DEF OthersStay
  <1>13. CASE UNCHANGED <<keys, call, rack>>
    BY <1>3, <1>4, <1>13
  <1> QED
    BY <1>6, <1>7, <1>8, <1>9, <1>10, <1>11, <1>12, <1>13
    DEF Next, Decide, AdmitCreate, InsertRequest, RefuseCreate, Approve, Reject, Extend, Lapse, Sweep,
        RackFinishesBuild, gatewayVars, vars
(***************************************************************************)
(* What is checked, and what is built                                      *)
(***************************************************************************)
\* A build's check goes on holding while its call goes on, whatever happens to keys, objects, builds
\* and requests beside it.
LEMMA CheckKept ==
    ASSUME ArchiveInv, [Next]_vars, NEW c \in Call, Continues(c),
           call'[c].archive = call[c].archive, call'[c].build = call[c].build,
           call[c].kind = "build" =>
               /\ call'[c].at = "verify" => call[c].at = "verify"
               /\ Checked(c)' => Checked(c)
               /\ call'[c].at = "record" => rack'[c] = "done"
               /\ rack'[c] = "done" => rack[c] = "done"
    PROVE  CheckOK(c)'
  <1>1. CASE call[c].kind # "build"
    BY <1>1 DEF CheckOK, Checked, Continues
  <1>2. CASE call[c].kind = "build"
    <2> DEFINE k == call[c].key
               q == call[c].req
    <2>1. /\ CheckOK(c) /\ NamesOK(c) /\ BindingInv /\ Steady
          /\ call[c] \in CallState /\ k \in Key
      BY <1>2, SteadyStep DEF ArchiveInv, BindingInv, ShapeOK, TypeOK, CallOK
    <2>2. q # None => approval'[q].commit = approval[q].commit
      BY <2>1, RowsKeep DEF NamesOK, CallState, Keeps
    <2>3. /\ call'[c].kind = "build" /\ call'[c].key = k /\ call'[c].req = q
      BY <1>2 DEF Continues
    <2>4. (call'[c].kind = "build" /\ call'[c].at = "verify") \/ Checked(c)' =>
              keys'[call'[c].key] = "uploaded"
      BY <1>2, <2>1, <2>3 DEF CheckOK, Steady
    <2>5. Checked(c)' => /\ call'[c].archive = stored'[k]
                         /\ q # None => call'[c].archive = approval'[q].commit
      <3> SUFFICES ASSUME Checked(c)'
                   PROVE  /\ call'[c].archive = stored'[k]
                          /\ q # None => call'[c].archive = approval'[q].commit
        OBVIOUS
      <3>1. Checked(c)
        BY <1>2
      <3>2. keys[k] = "uploaded" /\ call[c].archive = stored[k]
            /\ (q # None => call[c].archive = approval[q].commit)
        BY <2>1, <3>1 DEF CheckOK
      <3> QED
        BY <2>1, <2>2, <3>2 DEF Steady
    <2>6. rack'[c] = "done" =>
              /\ call'[c].build \in Build
              /\ built'[call'[c].build].state # "none"
              /\ q # None => built'[call'[c].build].checked = approval'[q].commit
      <3> SUFFICES ASSUME rack'[c] = "done"
                   PROVE  /\ call'[c].build \in Build
                          /\ built'[call'[c].build].state # "none"
                          /\ q # None => built'[call'[c].build].checked = approval'[q].commit
        OBVIOUS
      <3>1. /\ call[c].build \in Build /\ built[call[c].build].state # "none"
            /\ q # None => built[call[c].build].checked = approval[q].commit
        BY <1>2, <2>1 DEF CheckOK
      <3> QED
        BY <2>1, <2>2, <3>1 DEF Steady
    <2> QED
      BY <1>2, <2>3, <2>4, <2>5, <2>6 DEF CheckOK
  <1> QED
    BY <1>1, <1>2

\* A handler forwards a build only after it found the object complete and of the approved commit.
LEMMA HandleChecks ==
    ASSUME ArchiveInv, NEW c \in Call, Handle(c) \/ Abandon(c)
    PROVE  CheckOK(c)'
  <1>1. /\ ShapeOK /\ TypeOK /\ CallOK(c) /\ CheckOK(c) /\ call[c] \in CallState /\ [Next]_vars
    BY DEF ArchiveInv, BindingInv, ShapeOK, TypeOK, Next
  <1>2. CASE call'[c] = Idle
    BY <1>2 DEF CheckOK, Checked, Idle
  <1>3. CASE call[c].kind # "build"
    BY <1>1, <1>2, <1>3, HandleMoves DEF CheckOK, Checked, Continues
  <1>4. CASE CheckKey(c)
    <2>1. CASE keys[call[c].key] = "claimed"
      <3>1. call'[c] = [call[c] EXCEPT !.at = "release"] /\ rack' = rack /\ rack[c] = "none"
        BY <1>1, <1>4, <2>1 DEF CheckKey, At, Goto, CallOK, TypeOK
      <3> QED
        BY <1>1, <3>1 DEF CheckOK, Checked, CallState
    <2>2. CASE keys[call[c].key] # "claimed"
      <3>1. call'[c] = [call[c] EXCEPT !.at = "verify"] /\ rack' = rack /\ rack[c] = "none"
        BY <1>1, <1>4, <2>2 DEF CheckKey, At, Goto, CallOK, TypeOK
      <3>2. keys'[call[c].key] = "uploaded"
        BY <1>1, <1>4, <2>2 DEF CheckKey, At, CallOK, TypeOK
      <3> QED
        BY <1>1, <3>1, <3>2 DEF CheckOK, Checked, CallState
    <2> QED
      BY <2>1, <2>2
  <1>5. CASE Verify(c)
    <2> DEFINE archive == stored[call[c].key]
               q == call[c].req
    <2>1. /\ rack' = rack /\ rack[c] = "none" /\ call[c].kind = "build" /\ keys[call[c].key] = "uploaded"
          /\ UNCHANGED <<approval, keys, stored>>
      BY <1>1, <1>5 DEF Verify, At, CallOK, CheckOK, rackVars
    <2>2. CASE archive # None /\ (q # None => archive = approval[q].commit)
      <3>1. call'[c] = [call[c] EXCEPT !.at = "send", !.archive = archive]
        BY <1>1, <1>5, <2>2 DEF Verify, TypeOK
      <3> QED
        BY <1>1, <2>1, <2>2, <3>1 DEF CheckOK, Checked, CallState
    <2>3. CASE ~(archive # None /\ (q # None => archive = approval[q].commit))
      <3>1. call'[c] = [call[c] EXCEPT !.at = "release"]
        BY <1>1, <1>5, <2>3 DEF Verify, Goto, TypeOK
      <3> QED
        BY <1>1, <2>1, <3>1 DEF CheckOK, Checked, CallState
    <2> QED
      BY <2>2, <2>3
  <1>6. CASE /\ call[c].kind = "build" /\ call'[c] # Idle /\ ~CheckKey(c) /\ ~Verify(c)
    <2>1. /\ Continues(c) /\ call'[c].build = call[c].build /\ call'[c].archive = call[c].archive
      BY <1>1, <1>6, HandleMoves
    <2> DEFINE Held == /\ call'[c].at = "verify" => call[c].at = "verify"
                       /\ Checked(c)' => Checked(c)
                       /\ call'[c].at = "record" => rack'[c] = "done"
                       /\ rack'[c] = "done" => rack[c] = "done"
    <2>2. CASE End(c)
      <3>1. rack[c] = "running" /\ rack'[c] = "running" /\ call'[c] = [call[c] EXCEPT !.at = "gone"]
        BY <1>1, <1>6, <2>2 DEF End, TypeOK
      <3>2. Held
        BY <1>1, <1>6, <3>1 DEF Checked, CallState
      <3> QED
        BY <1>1, <2>1, <3>2, CheckKept
    <2>3. ASSUME NEW label, Goto(c, label), rack' = rack, label \notin {"verify", "send"},
                 label = "record" => rack[c] = "done"
          PROVE  CheckOK(c)'
      <3>1. call'[c] = [call[c] EXCEPT !.at = label]
        BY <1>1, <2>3 DEF Goto, TypeOK
      <3>2. Held
        BY <1>1, <1>6, <2>3, <3>1 DEF Checked, CallState
      <3> QED
        BY <1>1, <2>1, <3>2, CheckKept
    <2>4. CASE Send(c)
      <3>1. call'[c].at = "wait" /\ rack'[c] = "running" /\ call[c].at = "send"
        BY <1>1, <2>4 DEF Send, Goto, TypeOK, CallState
      <3>2. Held
        BY <1>6, <3>1 DEF Checked
      <3> QED
        BY <1>1, <2>1, <3>2, CheckKept
    <2>5. CASE ClaimBuild(c) \/ RefuseClaim(c) \/ NotSent(c) \/ Answer(c) \/ GiveUp(c)
      BY <1>6, <2>2, <2>3, <2>5 DEF ClaimBuild, RefuseClaim, NotSent, Answer, GiveUp, KeepsPromote
    <2>6. CASE RecordBuild(c) \/ RecordNothing(c) \/ Release(c) \/ Abandon(c)
      BY <1>6, <2>2, <2>3, <2>6 DEF RecordBuild, RecordNothing, Release, Abandon
    <2>7. ~(\/ ClaimKey(c) \/ ClaimUpload(c) \/ ClaimPromote(c) \/ MarkObjectUploaded(c)
            \/ RecordUpload(c) \/ RecordRead(c) \/ RecordDeployed(c))
      BY <1>6 DEF ClaimKey, ClaimUpload, ClaimPromote, MarkObjectUploaded, RecordUpload, RecordRead,
                  RecordDeployed, At
    <2> QED
      BY <1>6, <2>4, <2>5, <2>6, <2>7 DEF Handle
  <1> QED
    BY <1>2, <1>3, <1>4, <1>5, <1>6

\* The rack builds what was checked, and its answer names a build of that.
LEMMA RackChecks ==
    ASSUME ArchiveInv, NEW c \in Call, RackWorks(c)
    PROVE  CheckOK(c)'
  <1>1. /\ ShapeOK /\ TypeOK /\ CallOK(c) /\ CheckOK(c) /\ call[c] \in CallState /\ [Next]_vars
    BY DEF ArchiveInv, BindingInv, ShapeOK, TypeOK, Next
  <1>2. CASE call'[c] = Idle
    BY <1>2 DEF CheckOK, Checked, Idle
  <1>3. ASSUME NEW b \in Build, RackBuilds(c, b), call'[c] # Idle PROVE CheckOK(c)'
    <2> DEFINE q == call[c].req
    <2>1. /\ call[c].kind = "build" /\ rack[c] = "running" /\ call[c].at \notin {"gone", "verify", "send", "record"}
      BY <1>1, <1>3 DEF RackBuilds, RackEnds, CallOK, CheckOK, TypeOK
    <2>2. call'[c] = [call[c] EXCEPT !.build = b] /\ rack'[c] = "done" /\ approval' = approval
      BY <1>1, <2>1, <1>3 DEF RackBuilds, RackEnds, TypeOK
    <2>3. built'[b].state = "running" /\ built'[b].checked = call[c].archive
      BY <1>1, <1>3 DEF RackBuilds, TypeOK
    <2>4. q # None => call[c].archive = approval[q].commit
      BY <1>1, <2>1 DEF CheckOK, Checked
    <2> QED
      BY <1>1, <2>1, <2>2, <2>3, <2>4 DEF CheckOK, Checked, CallState
  <1>4. CASE (\A b \in Build : ~RackBuilds(c, b)) /\ call'[c] # Idle
    <2>1. /\ Continues(c) /\ call'[c].at = call[c].at /\ call'[c].archive = call[c].archive
          /\ call'[c].build = call[c].build /\ rack[c] = "running" /\ rack'[c] # "running"
      BY <1>1, <1>4, RackMoves
    <2>2. CASE call[c].kind = "build"
      <3>1. rack'[c] = "refused"
        BY <1>1, <1>4, <2>1, <2>2 DEF RackWorks, RackStores, RackPromotes, RackRefuses, RackEnds, TypeOK
      <3>2. call[c].at # "record"
        BY <1>1, <2>1, <2>2 DEF CallOK
      <3>3. Checked(c)
        BY <2>1, <2>2 DEF Checked
      <3> QED
        BY <1>1, <2>1, <3>1, <3>2, <3>3, CheckKept
    <2>3. CASE call[c].kind # "build"
      BY <2>1, <2>3 DEF CheckOK, Checked, Continues
    <2> QED
      BY <2>2, <2>3
  <1> QED
    BY <1>2, <1>3, <1>4

\* A build's source stays complete, and what is read from it is what was checked.
LEMMA SourceStep ==
    ASSUME ArchiveInv, [Next]_vars, NEW b \in Build
    PROVE  SourceOK(b)'
  <1>1. ShapeOK /\ TypeOK /\ Steady /\ SourceOK(b) /\ built[b] \in BuildState
    BY SteadyStep DEF ArchiveInv, BindingInv, ShapeOK, TypeOK
  <1>2. CASE built'[b] = built[b]
    BY <1>1, <1>2 DEF SourceOK, Steady
  <1>3. ASSUME NEW c \in Call, RackBuilds(c, b) PROVE SourceOK(b)'
    <2>1. /\ built'[b] = [state |-> "running", source |-> call[c].key,
                          archive |-> None, checked |-> call[c].archive]
          /\ Checked(c) /\ CheckOK(c) /\ call[c].key \in Key
          /\ UNCHANGED <<keys, stored>>
      BY <1>1, <1>3 DEF RackBuilds, RackEnds, Checked, ArchiveInv, ShapeOK, TypeOK, CallOK
    <2> QED
      BY <2>1 DEF SourceOK, CheckOK
  <1>4. CASE RackFinishesBuild(b)
    <2>1. built'[b] = [built[b] EXCEPT !.state = "finished", !.archive = stored[built[b].source]]
      BY <1>1, <1>4 DEF RackFinishesBuild, TypeOK
    <2>2. UNCHANGED <<keys, stored>> /\ built[b].state = "running"
      BY <1>4 DEF RackFinishesBuild, gatewayVars
    <2> QED
      BY <1>1, <2>1, <2>2 DEF SourceOK, BuildState
  <1>5. ASSUME \A c \in Call : ~RackBuilds(c, b), ~RackFinishesBuild(b)
        PROVE  built'[b] = built[b]
    <2>1. ASSUME NEW c \in Call, RackWorks(c) PROVE built'[b] = built[b]
      BY <1>1, <1>5, <2>1 DEF RackWorks, RackStores, RackBuilds, RackPromotes, RackRefuses, rackVars, TypeOK
    <2>2. ASSUME NEW x \in Build, RackFinishesBuild(x) PROVE built'[b] = built[b]
      BY <1>1, <1>5, <2>2 DEF RackFinishesBuild, TypeOK
    <2>3. ASSUME NEW c \in Call, Handle(c) \/ Abandon(c) PROVE built' = built
      BY <2>3 DEF Handle, ClaimKey, ClaimUpload, ClaimBuild, ClaimPromote, RefuseClaim, CheckKey, Verify,
             Send, NotSent, Answer, GiveUp, MarkObjectUploaded, RecordUpload, RecordBuild, RecordRead,
             RecordDeployed, RecordNothing, Release, Abandon, rackVars
    <2>4. ASSUME NEW c \in Call, BeginCall(c) PROVE built' = built
      BY <1>1, <2>4, BeginMoves
    <2>5. CASE Decide \/ UNCHANGED vars
      BY <2>5 DEF Decide, AdmitCreate, InsertRequest, RefuseCreate, Approve, Reject, Extend, Lapse,
                  Sweep, rackVars, vars
    <2> QED
      BY <2>1, <2>2, <2>3, <2>4, <2>5 DEF Next
  <1> QED
    BY <1>2, <1>3, <1>4, <1>5
\* ArchiveInv is inductive.
LEMMA ArchiveStep == ArchiveInv /\ [Next]_vars => ArchiveInv'
  <1> SUFFICES ASSUME ArchiveInv, [Next]_vars PROVE ArchiveInv'
    OBVIOUS
  <1>1. BindingInv' /\ ShapeOK /\ ShapeOK'
    BY BindingStep DEF ArchiveInv, BindingInv
  <1>2. KeysOK'
    BY <1>1, KeysStep DEF ArchiveInv
  <1>3. \A b \in Build : SourceOK(b)'
    BY SourceStep
  <1>4. ASSUME NEW d \in Call PROVE CheckOK(d)'
    <2>1. ASSUME call'[d] = call[d], rack'[d] = rack[d] PROVE CheckOK(d)'
      <3>1. CheckOK(d)
        BY DEF ArchiveInv
      <3>2. call[d].kind = "build" /\ call[d].at = "record" => rack[d] = "done"
        BY <3>1 DEF CheckOK
      <3> QED
        BY <2>1, <3>2, CheckKept DEF Continues, Checked
    <2>2. ASSUME NEW c \in Call, BeginCall(c) PROVE CheckOK(d)'
      <3>1. CASE d # c
        BY <1>1, <2>1, <2>2, <3>1, BeginMoves DEF OthersStay
      <3>2. CASE d = c
        BY <1>1, <2>2, <3>2, BeginMoves DEF CheckOK, Checked
      <3> QED
        BY <3>1, <3>2
    <2>3. ASSUME NEW c \in Call, Handle(c) \/ Abandon(c) PROVE CheckOK(d)'
      BY <1>1, <2>1, <2>3, HandleMoves, HandleChecks DEF OthersStay
    <2>4. ASSUME NEW c \in Call, RackWorks(c) PROVE CheckOK(d)'
      BY <1>1, <2>1, <2>4, RackMoves, RackChecks DEF OthersStay
    <2>5. CASE Decide \/ (\E b \in Build : RackFinishesBuild(b)) \/ UNCHANGED vars
      <3>1. call' = call /\ rack' = rack
        BY <2>5 DEF Decide, AdmitCreate, InsertRequest, RefuseCreate, Approve, Reject, Extend, Lapse,
                    Sweep, RackFinishesBuild, gatewayVars, vars
      <3> QED
        BY <2>1, <3>1
    <2> QED
      BY <2>2, <2>3, <2>4, <2>5 DEF Next
  <1> QED
    BY <1>1, <1>2, <1>3, <1>4 DEF ArchiveInv

LEMMA InitArchive == Init => ArchiveInv
  <1> SUFFICES ASSUME Init PROVE ArchiveInv
    OBVIOUS
  <1>1. BindingInv
    BY InitBinding
  <1>2. KeysOK /\ \A c \in Call : CheckOK(c)
    BY DEF Init, KeysOK, Uploading, MayStore, CheckOK, Checked, Idle
  <1>3. \A b \in Build : SourceOK(b)
    BY DEF Init, SourceOK, NoBuild
  <1> QED
    BY <1>1, <1>2, <1>3 DEF ArchiveInv

\* The rack builds the archive the gateway checked: no upload, with an approval or without, in time
\* or given up, replaces an object between its check and the build's reading it.
THEOREM BuildsAreOfWhatWasChecked == Spec => []BuiltWhatWasChecked
  <1>1. ArchiveInv => BuiltWhatWasChecked
    BY DEF ArchiveInv, SourceOK, BuiltWhatWasChecked
  <1> QED
    BY <1>1, InitArchive, ArchiveStep, PTL DEF Spec

(***************************************************************************)
(* What is promoted                                                        *)
(***************************************************************************)
\* A request whose build and release don't change, and under which nothing is promoted, keeps its record.
LEMMA RecordKept ==
    ASSUME ArchiveInv, [Next]_vars, NEW r \in Request, RecordedOK(r),
           approval'[r].build = approval[r].build, approval'[r].release = approval[r].release,
           applied'[r] = applied[r]
    PROVE  RecordedOK(r)'
  <1>1. /\ Keeps(approval[r], approval'[r]) /\ RowOK(approval[r]) /\ approval[r] \in Row /\ Steady
    BY RowsKeep, SteadyStep DEF ArchiveInv, BindingInv, ShapeOK, TypeOK
  <1>2. approval[r].build # None => approval[r].build \in Build /\ approval'[r].commit = approval[r].commit
    BY <1>1 DEF Row, RowOK, NoRow, Keeps
  <1>3. approval[r].release # None => approval[r].release \in Build
    BY <1>1 DEF Row
  <1> QED
    BY <1>1, <1>2, <1>3 DEF RecordedOK, Steady

\* A call records a build of its request's commit, and the release of a build that is finished.
LEMMA RecordBuildRecords ==
    ASSUME ArchiveInv, NEW c \in Call, RecordBuild(c) \/ RecordRead(c), NEW r \in Request, RecordedOK(r)
    PROVE  RecordedOK(r)'
  <1> DEFINE q == call[c].req
             b == call[c].build
  <1>1. /\ [Next]_vars /\ TypeOK /\ BindingInv /\ CallOK(c) /\ NamesOK(c) /\ CheckOK(c)
        /\ call[c] \in CallState /\ approval[r] \in Row
    BY DEF Next, Handle, ArchiveInv, BindingInv, ShapeOK, TypeOK
  <1>2. UNCHANGED <<built, applied>>
    BY DEF RecordBuild, RecordRead, rackVars
  <1>3. PICK rel \in {None, b} :
            /\ approval' = [approval EXCEPT ![q] = RecordedBuild(@, b, rel)]
            /\ rel # None => built[b].state = "finished"
            /\ CanRecordBuild(approval[q], b, rel)
    BY DEF RecordBuild, RecordRead
  <1>4. q \in Request /\ b \in Build
    BY <1>1 DEF RecordBuild, RecordRead, At, CallOK, CheckOK, CallState
  <1>5. CASE r # q
    <2>1. approval'[r] = approval[r]
      BY <1>1, <1>3, <1>5 DEF TypeOK
    <2> QED
      BY <1>1, <1>2, <2>1, RecordKept
  <1>6. CASE r = q
    <2>1. approval'[r] = RecordedBuild(approval[r], b, rel)
      BY <1>1, <1>3, <1>6 DEF TypeOK
    <2>2. /\ approval'[r].build = b /\ approval'[r].commit = approval[r].commit
          /\ approval'[r].release = IF approval[r].release = None THEN rel ELSE approval[r].release
      BY <1>1, <2>1 DEF RecordedBuild, Row
    <2>3. built[b].state # "none" /\ built[b].checked = approval[r].commit
      <3>1. CASE RecordBuild(c)
        BY <1>1, <1>4, <1>6, <3>1, ConstantsAssumption DEF RecordBuild, At, CheckOK
      <3>2. CASE RecordRead(c)
        <4>1. approval[r].build = b /\ b # None
          BY <1>1, <1>4, <1>6, <3>2, NoneAssumption DEF RecordRead, At, NamesOK
        <4> QED
          BY <4>1 DEF RecordedOK
      <3> QED
        BY <3>1, <3>2
    <2>4. approval'[r].release # None => built[approval'[r].release].state = "finished"
      BY <1>3, <2>2 DEF RecordedOK
    <2>5. \A i \in DOMAIN applied[r] : applied[r][i] = approval'[r].release
      <3>1. \A i \in DOMAIN applied[r] : applied[r][i] \in Build /\ applied[r][i] = approval[r].release
        BY <1>1 DEF TypeOK, RecordedOK
      <3> QED
        BY <2>2, <3>1, NoneAssumption
    <2> QED
      BY <1>2, <2>2, <2>3, <2>4, <2>5 DEF RecordedOK
  <1> QED
    BY <1>5, <1>6

\* A handler's other steps change neither a request's build nor its release.
LEMMA OtherStepsRecord ==
    ASSUME ArchiveInv, NEW c \in Call, Handle(c) \/ Abandon(c), ~(RecordBuild(c) \/ RecordRead(c)),
           NEW r \in Request, RecordedOK(r)
    PROVE  RecordedOK(r)'
  <1> DEFINE q == call[c].req
  <1>1. [Next]_vars /\ approval \in [Request -> Row] /\ approval[r] \in Row
    BY DEF Next, ArchiveInv, BindingInv, ShapeOK, TypeOK
  <1>2. applied' = applied
    BY DEF Handle, ClaimKey, ClaimUpload, ClaimBuild, ClaimPromote, RefuseClaim, CheckKey, Verify,
           Send, NotSent, Answer, GiveUp, MarkObjectUploaded, RecordUpload, RecordDeployed,
           RecordNothing, Release, Abandon, rackVars
  <1>3. approval'[r].build = approval[r].build /\ approval'[r].release = approval[r].release
    <2>1. CASE approval' = approval
      BY <2>1
    <2>2. CASE ClaimUpload(c) \/ RecordUpload(c)
      BY <1>1, <2>2 DEF ClaimUpload, ClaimedUpload, RecordUpload, ConfirmedUpload, Row
    <2>3. CASE ClaimBuild(c) \/ ClaimPromote(c) \/ RecordDeployed(c)
      BY <1>1, <2>3 DEF ClaimBuild, ClaimedBuild, ClaimPromote, ClaimedPromote, RecordDeployed,
                        MarkedDeployed, Row
    <2>4. CASE Release(c) /\ q # None
      <3>1. call[c].kind \in {"upload", "build", "promote"}
        BY <2>4 DEF Release, ArchiveInv, BindingInv, ShapeOK, TypeOK, CallOK, CallState
      <3>2. PICK new : /\ approval' = [approval EXCEPT ![q] = new]
                       /\ new \in {ReleasedUpload(approval[q], call[c].key), ReleasedBuild(approval[q]),
                                   ReleasedPromote(approval[q])}
        BY <2>4, <3>1 DEF Release
      <3>3. CASE r = q
        BY <1>1, <3>2, <3>3 DEF ReleasedUpload, ReleasedBuild, ReleasedPromote, Row
      <3> QED
        BY <1>1, <3>2, <3>3
    <2> QED
      BY <2>1, <2>2, <2>3, <2>4
      DEF Handle, ClaimKey, RefuseClaim, CheckKey, Verify, Send, NotSent, Answer, GiveUp,
          MarkObjectUploaded, RecordNothing, Release, Abandon
  <1> QED
    BY <1>1, <1>2, <1>3, RecordKept

\* Deciding on a request changes neither.
LEMMA DecideRecords ==
    ASSUME ArchiveInv, Decide, NEW r \in Request, RecordedOK(r)
    PROVE  RecordedOK(r)'
  <1>1. /\ [Next]_vars /\ approval \in [Request -> Row] /\ approval[r] \in Row /\ RowOK(approval[r])
    BY DEF Next, ArchiveInv, BindingInv, ShapeOK, TypeOK
  <1>2. applied' = applied
    BY DEF Decide, AdmitCreate, InsertRequest, RefuseCreate, Approve, Reject, Extend, Lapse, Sweep,
           rackVars
  <1> DEFINE Same(new) == new.build = approval[r].build /\ new.release = approval[r].release
  <1>3. ASSUME NEW S \in SUBSET DueRequests, approval' = ExpireRows(S) PROVE Same(approval'[r])
    BY <1>1, <1>3 DEF ExpireRows, Expired, Row
  <1>4. ASSUME NEW k \in Commit, InsertRequest(k) PROVE Same(approval'[r])
    <2>1. PICK s \in Request \ Inserted : approval' = [approval EXCEPT ![s] = NewRow(k)]
      BY <1>4 DEF InsertRequest
    <2>2. CASE r = s
      <3>1. approval[r] = NoRow /\ approval'[r] = NewRow(k)
        BY <1>1, <2>1, <2>2 DEF Inserted, RowOK
      <3> QED
        BY <3>1 DEF NewRow, NoRow
    <2>3. CASE r # s
      BY <1>1, <2>1, <2>3
    <2> QED
      BY <2>2, <2>3
  <1>5. ASSUME NEW q \in Request, Approve(q) \/ Reject(q) \/ Extend(q) \/ Lapse(q)
        PROVE  Same(approval'[r])
    <2>1. CASE r # q
      BY <1>1, <1>5, <2>1 DEF Approve, Reject, Extend, Lapse
    <2>2. CASE r = q
      BY <1>1, <1>5, <2>2 DEF Approve, Reject, Extend, Lapse, Approved, Rejected, Extended, Row
    <2> QED
      BY <2>1, <2>2
  <1>6. Same(approval'[r])
    BY <1>3, <1>4, <1>5 DEF Decide, AdmitCreate, RefuseCreate, Sweep
  <1> QED
    BY <1>1, <1>2, <1>6, RecordKept

\* The rack promotes the release that the request is bound to.
LEMMA RackRecords ==
    ASSUME ArchiveInv, NEW c \in Call, RackWorks(c), NEW r \in Request, RecordedOK(r)
    PROVE  RecordedOK(r)'
  <1> DEFINE q == call[c].req
  <1>1. /\ [Next]_vars /\ ShapeOK /\ TypeOK /\ CallOK(c) /\ NamesOK(c) /\ approval[r] \in Row
    BY DEF Next, ArchiveInv, BindingInv, ShapeOK, TypeOK
  <1>2. approval' = approval
    BY <1>1, RackMoves
  <1>3. CASE applied'[r] = applied[r]
    BY <1>1, <1>2, <1>3, RecordKept
  <1>4. CASE RackPromotes(c) /\ q = r
    <2>1. call[c].build \in Build /\ call[c].build = approval[r].release
      BY <1>1, <1>4 DEF RackPromotes, CallOK, NamesOK
    <2>2. applied'[r] = Append(applied[r], call[c].build) /\ applied[r] \in Seq(Build)
      BY <1>1, <1>4 DEF RackPromotes, TypeOK
    <2>3. \A i \in DOMAIN applied'[r] : applied'[r][i] = approval[r].release
      <3> SUFFICES ASSUME NEW i \in DOMAIN applied'[r] PROVE applied'[r][i] = approval[r].release
        OBVIOUS
      <3>1. i \in 1 .. Len(applied[r]) + 1
        BY <2>1, <2>2
      <3>2. CASE i = Len(applied[r]) + 1
        BY <2>1, <2>2, <3>2
      <3>3. CASE i \in 1 .. Len(applied[r])
        <4>1. applied'[r][i] = applied[r][i]
          BY <2>1, <2>2, <3>3
        <4>2. i \in DOMAIN applied[r]
          BY <2>2, <3>3
        <4> QED
          BY <4>1, <4>2 DEF RecordedOK
      <3> QED
        BY <2>2, <3>1, <3>2, <3>3
    <2> QED
      BY <1>2, <1>4, <2>3 DEF RecordedOK, RackPromotes
  <1>5. CASE ~(RackPromotes(c) /\ q = r)
    <2>1. applied'[r] = applied[r]
      BY <1>1, <1>5 DEF RackWorks, RackStores, RackBuilds, RackPromotes, RackRefuses, rackVars, TypeOK
    <2> QED
      BY <1>3, <2>1
  <1> QED
    BY <1>4, <1>5

\* DeployInv is inductive.
LEMMA DeployStep == DeployInv /\ [Next]_vars => DeployInv'
  <1> SUFFICES ASSUME DeployInv, [Next]_vars PROVE DeployInv'
    OBVIOUS
  <1>1. PromiseInv' /\ ArchiveInv' /\ ArchiveInv /\ ShapeOK
    BY StepPromise, ArchiveStep DEF DeployInv, ArchiveInv, BindingInv
  <1>2. ASSUME NEW r \in Request PROVE RecordedOK(r)'
    <2>1. RecordedOK(r)
      BY DEF DeployInv
    <2>2. ASSUME UNCHANGED <<approval, applied>> PROVE RecordedOK(r)'
      BY <1>1, <2>1, <2>2, RecordKept
    <2>3. ASSUME NEW c \in Call, BeginCall(c) PROVE RecordedOK(r)'
      BY <1>1, <2>2, <2>3, BeginMoves
    <2>4. ASSUME NEW c \in Call, Handle(c) \/ Abandon(c) PROVE RecordedOK(r)'
      BY <1>1, <2>1, <2>4, RecordBuildRecords, OtherStepsRecord
    <2>5. ASSUME NEW c \in Call, RackWorks(c) PROVE RecordedOK(r)'
      BY <1>1, <2>1, <2>5, RackRecords
    <2>6. ASSUME NEW b \in Build, RackFinishesBuild(b) PROVE RecordedOK(r)'
      BY <2>2, <2>6 DEF RackFinishesBuild, gatewayVars
    <2> QED
      BY <1>1, <2>1, <2>2, <2>3, <2>4, <2>5, <2>6, DecideRecords DEF Next, vars
  <1> QED
    BY <1>1, <1>2 DEF DeployInv

LEMMA InitDeploy == Init => DeployInv
  BY InitPromise, InitArchive DEF Init, DeployInv, RecordedOK, NoRow

\* Rows, calls, keys, objects, builds and promotes go on fitting each other: what the archive is
\* checked for carries over to the build, the release and the promote under one approval.
THEOREM DeployInvariant == Spec => []DeployInv
  BY InitDeploy, DeployStep, PTL DEF Spec

\* What the rack promotes under an approval was built from an archive of the approved commit.
THEOREM PromotesApprovedCommit == Spec => []PromotedIsApprovedCommit
  <1>1. DeployInv => PromotedIsApprovedCommit
    <2> SUFFICES ASSUME DeployInv, NEW r \in Request, NEW i \in DOMAIN applied[r]
                 PROVE  built[applied[r][i]].archive = approval[r].commit
      BY DEF PromotedIsApprovedCommit
    <2> DEFINE b == applied[r][i]
    <2>1. /\ RecordedOK(r) /\ RowOK(approval[r]) /\ applied[r] \in Seq(Build)
          /\ \A x \in Build : SourceOK(x)
      BY DEF DeployInv, ArchiveInv, BindingInv, ShapeOK, TypeOK
    <2>2. b \in Build /\ b = approval[r].release
      BY <2>1 DEF RecordedOK
    <2>3. b = approval[r].build /\ b # None
      BY <2>1, <2>2, NoneAssumption DEF RowOK
    <2>4. built[b].state = "finished" /\ built[b].checked = approval[r].commit
      BY <2>1, <2>2, <2>3 DEF RecordedOK
    <2> QED
      BY <2>1, <2>2, <2>4 DEF SourceOK
  <1> QED
    BY <1>1, DeployInvariant, PTL

\* A request marked deployed had its own release applied, and nothing else.
THEOREM DeployedIsApplied == Spec => []DeployedMeansApplied
  <1>1. DeployInv => DeployedMeansApplied
    <2> SUFFICES ASSUME DeployInv, NEW r \in Request, approval[r].status = "deployed"
                 PROVE  applied[r] = <<approval[r].release>>
      BY DEF DeployedMeansApplied
    <2>1. /\ RecordedOK(r) /\ ClaimOK(r) /\ ReportOK(r) /\ applied[r] \in Seq(Build)
      BY DEF DeployInv, PromiseInv, IInv, ArchiveInv, BindingInv, ShapeOK, TypeOK
    <2>2. Len(applied[r]) = 1
      BY <2>1 DEF ReportOK, ClaimOK
    <2>3. applied[r][1] = approval[r].release
      BY <2>1, <2>2 DEF RecordedOK
    <2> QED
      BY <2>1, <2>2, <2>3
  <1> QED
    BY <1>1, DeployInvariant, PTL
(***************************************************************************)
(* Open requests                                                           *)
(***************************************************************************)
\* If no row becomes active but q's, and that only while no other of its commit is, then one request
\* is open per commit.
LEMMA OpenKept ==
    ASSUME BindingInv, [Next]_vars, OneOpenRequest, NEW q \in Request,
           \A r \in Request \ {q} : Active(approval'[r]) => Active(approval[r]),
           Active(approval'[q]) => \/ Active(approval[q])
                                   \/ \A r \in Request : Active(approval[r]) =>
                                          approval[r].commit # approval'[q].commit
    PROVE  OneOpenRequest'
  <1>1. ASSUME NEW r \in Request, Active(approval[r])
        PROVE  approval'[r].commit = approval[r].commit
    BY <1>1, RowsKeep DEF Keeps, Active
  <1>2. ASSUME NEW r \in Request, NEW s \in Request, Active(approval'[r]), Active(approval'[s]),
               approval'[r].commit = approval'[s].commit, r # s
        PROVE  FALSE
    <2>1. CASE Active(approval[r]) /\ Active(approval[s])
      BY <1>1, <1>2, <2>1 DEF OneOpenRequest
    <2>2. CASE ~Active(approval[r])
      <3>1. r = q /\ Active(approval[s])
        BY <1>2, <2>2
      <3> QED
        BY <1>1, <1>2, <2>2, <3>1
    <2>3. CASE ~Active(approval[s])
      <3>1. s = q /\ Active(approval[r])
        BY <1>2, <2>3
      <3> QED
        BY <1>1, <1>2, <2>3, <3>1
    <2> QED
      BY <2>1, <2>2, <2>3
  <1> QED
    BY <1>2 DEF OneOpenRequest

\* What a handler records of a request doesn't open it.
LEMMA HandleOpensNothing ==
    ASSUME ShapeOK, NEW c \in Call, Handle(c) \/ Abandon(c), NEW r \in Request
    PROVE  Active(approval'[r]) => Active(approval[r])
  <1> DEFINE q == call[c].req
  <1>1. /\ approval \in [Request -> Row] /\ approval[r] \in Row
        /\ call[c] \in CallState /\ CallOK(c)
    BY DEF ShapeOK, TypeOK
  <1>2. CASE approval' = approval
    BY <1>2
  <1> USE DEF Active
  <1>3. CASE ClaimUpload(c) \/ RecordUpload(c) \/ ClaimBuild(c) \/ ClaimPromote(c) \/ RecordDeployed(c)
    BY <1>1, <1>3
    DEF ClaimUpload, ClaimedUpload, RecordUpload, ConfirmedUpload, ClaimBuild, ClaimedBuild,
        ClaimPromote, ClaimedPromote, RecordDeployed, MarkedDeployed, Row
  <1>4. CASE RecordBuild(c) \/ RecordRead(c)
    <2>1. PICK rel : approval' = [approval EXCEPT ![q] = RecordedBuild(@, call[c].build, rel)]
      BY <1>4 DEF RecordBuild, RecordRead
    <2> QED
      BY <1>1, <2>1 DEF RecordedBuild, Row
  <1>5. CASE Release(c) /\ q # None
    <2>1. call[c].kind \in {"upload", "build", "promote"}
      BY <1>1, <1>5 DEF Release, CallOK, CallState
    <2>2. PICK new : /\ approval' = [approval EXCEPT ![q] = new]
                     /\ new \in {ReleasedUpload(approval[q], call[c].key), ReleasedBuild(approval[q]),
                                 ReleasedPromote(approval[q])}
      BY <1>5, <2>1 DEF Release
    <2>3. CASE r = q
      BY <1>1, <2>2, <2>3 DEF ReleasedUpload, ReleasedBuild, ReleasedPromote, Row
    <2> QED
      BY <1>1, <2>2, <2>3
  <1> QED
    BY <1>2, <1>3, <1>4, <1>5
    DEF Handle, ClaimKey, RefuseClaim, CheckKey, Verify, Send, NotSent, Answer, GiveUp,
        MarkObjectUploaded, RecordNothing, Release, Abandon

\* Inserting and extending are what opens a request, and both mind the unique index.
LEMMA OpenStep == BindingInv /\ OneOpenRequest /\ [Next]_vars => OneOpenRequest'
  <1> SUFFICES ASSUME BindingInv, OneOpenRequest, [Next]_vars PROVE OneOpenRequest'
    OBVIOUS
  <1>1. /\ ShapeOK /\ approval \in [Request -> Row]
        /\ \A r \in Request : approval[r] \in Row
    BY DEF BindingInv, ShapeOK, TypeOK
  <1>2. ASSUME \A r \in Request : Active(approval'[r]) => Active(approval[r])
        PROVE  OneOpenRequest'
    BY <1>2, OpenKept DEF OneOpenRequest
  <1>3. ASSUME NEW k \in Commit, InsertRequest(k) PROVE OneOpenRequest'
    <2>1. PICK q \in Request : approval' = [approval EXCEPT ![q] = NewRow(k)]
      BY <1>3 DEF InsertRequest
    <2>2. approval'[q].commit = k /\ \A r \in Request \ {q} : approval'[r] = approval[r]
      BY <1>1, <2>1 DEF NewRow, NoRow
    <2>3. \A r \in Request : Active(approval[r]) => approval[r].commit # k
      BY <1>3 DEF InsertRequest, Taken
    <2> QED
      BY <2>2, <2>3, OpenKept
  <1>4. ASSUME NEW q \in Request, Extend(q) PROVE OneOpenRequest'
    <2>1. /\ approval'[q].commit = approval[q].commit
          /\ \A r \in Request \ {q} : approval'[r] = approval[r]
      BY <1>1, <1>4 DEF Extend, Extended, Row
    <2>2. Active(approval[q]) \/ \A r \in Request : Active(approval[r]) =>
                                     approval[r].commit # approval'[q].commit
      BY <1>4, <2>1 DEF Extend, Taken
    <2> QED
      BY <2>1, <2>2, OpenKept
  <1>5. ASSUME NEW q \in Request, Approve(q) \/ Reject(q) \/ Lapse(q) PROVE OneOpenRequest'
    <2>1. Active(approval[q]) /\ \A r \in Request \ {q} : approval'[r] = approval[r]
      BY <1>1, <1>5 DEF Approve, CanApprove, Reject, CanReject, Lapse, Active
    <2> QED
      BY <2>1, OpenKept
  <1>6. ASSUME NEW S \in SUBSET DueRequests, approval' = ExpireRows(S) PROVE OneOpenRequest'
    <2>1. ASSUME NEW r \in Request, Active(approval'[r]) PROVE Active(approval[r])
      <3>1. r \notin S
        BY <1>1, <1>6, <2>1 DEF ExpireRows, Expired, Active, Row
      <3> QED
        BY <1>6, <2>1, <3>1 DEF ExpireRows
    <2> QED
      BY <1>2, <2>1
  <1>7. ASSUME NEW c \in Call, Handle(c) \/ Abandon(c) PROVE OneOpenRequest'
    BY <1>1, <1>2, <1>7, HandleOpensNothing
  <1>8. CASE approval' = approval
    BY <1>2, <1>8
  <1>9. ASSUME NEW c \in Call, BeginCall(c) \/ RackWorks(c) PROVE approval' = approval
    BY <1>1, <1>9, BeginMoves, RackMoves
  <1> QED
    BY <1>3, <1>4, <1>5, <1>6, <1>7, <1>8, <1>9
    DEF Next, Decide, AdmitCreate, RefuseCreate, Sweep, RackFinishesBuild, gatewayVars, vars

\* At most one request per commit is pending or approved, however creations, decisions, extensions
\* and sweeps interleave.
THEOREM RequestsOpenOnce == Spec => []OneOpenRequest
  <1>1. Init => OneOpenRequest
    BY DEF Init, OneOpenRequest, Active, NoRow
  <1> QED
    BY <1>1, InitBinding, BindingStep, OpenStep, PTL DEF Spec
=============================================================================
