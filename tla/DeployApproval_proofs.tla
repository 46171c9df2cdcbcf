----------------------- MODULE DeployApproval_proofs ------------------------
(***************************************************************************)
(* Theorems about DeployApproval, for any number of requests, calls, keys, *)
(* builds and commits.                                                     *)
(***************************************************************************)
EXTENDS DeployApproval, TLAPS

(***************************************************************************)
(* The statements of ApprovalRows turn rows into rows.                     *)
(***************************************************************************)

\* Approving, rejecting, extending, expiring, and claiming, releasing and recording steps keep a row
\* a row.
LEMMA RowsStayRows ==
    ASSUME NEW row \in Row
    PROVE  /\ Approved(row) \in Row /\ Rejected(row) \in Row
           /\ Extended(row) \in Row /\ Expired(row) \in Row
           /\ [row EXCEPT !.lapsed = TRUE] \in Row
           /\ ConfirmedUpload(row) \in Row
           /\ ClaimedBuild(row) \in Row /\ ReleasedBuild(row) \in Row
           /\ ClaimedPromote(row) \in Row /\ ReleasedPromote(row) \in Row
           /\ MarkedDeployed(row) \in Row
  <1> USE DEF Row, Status
  <1>1. /\ Approved(row) \in Row /\ Rejected(row) \in Row
        /\ Extended(row) \in Row /\ Expired(row) \in Row
        /\ [row EXCEPT !.lapsed = TRUE] \in Row
    BY DEF Approved, Rejected, Extended, Expired
  <1>2. ConfirmedUpload(row) \in Row
    BY DEF ConfirmedUpload
  <1>3. ClaimedBuild(row) \in Row /\ ReleasedBuild(row) \in Row
    <2>1. ClaimedBuild(row) \in Row
      BY DEF ClaimedBuild
    <2>2. [row EXCEPT !.buildStarted = FALSE] \in Row
      OBVIOUS
    <2> QED
      BY <2>1, <2>2 DEF ReleasedBuild
  <1>4. ClaimedPromote(row) \in Row /\ ReleasedPromote(row) \in Row
    <2>1. ClaimedPromote(row) \in Row
      BY DEF ClaimedPromote
    <2>2. [row EXCEPT !.promoteStarted = FALSE] \in Row
      OBVIOUS
    <2> QED
      BY <2>1, <2>2 DEF ReleasedPromote
  <1>5. MarkedDeployed(row) \in Row
    BY DEF MarkedDeployed
  <1> QED
    BY <1>1, <1>2, <1>3, <1>4, <1>5

\* The INSERT of a request makes a row.
LEMMA NewRowIsRow == ASSUME NEW k \in Commit PROVE NewRow(k) \in Row
  BY DEF NewRow, NoRow, Row, Status

\* Claiming and releasing an upload keep a row a row.
LEMMA UploadRowsStayRows ==
    ASSUME NEW row \in Row, NEW k \in Key \cup {None}
    PROVE  ClaimedUpload(row, k) \in Row /\ ReleasedUpload(row, k) \in Row
  <1> USE DEF Row, Status
  <1>1. ClaimedUpload(row, k) \in Row
    BY DEF ClaimedUpload
  <1>2. [row EXCEPT !.object = None] \in Row
    OBVIOUS
  <1> QED
    BY <1>1, <1>2 DEF ReleasedUpload

\* Recording a build, with a release or without, keeps a row a row.
LEMMA BuildRowsStayRows ==
    ASSUME NEW row \in Row, NEW b \in Build \cup {None}, NEW rel \in Build \cup {None}
    PROVE  RecordedBuild(row, b, rel) \in Row
  BY DEF RecordedBuild, Row, Status

\* The tables start typed, with no call open and no build running.
LEMMA InitShape == Init => ShapeOK
  <1> SUFFICES ASSUME Init PROVE ShapeOK
    OBVIOUS
  <1>1. TypeOK
    BY ConstantsAssumption, NoneAssumption
    DEF Init, TypeOK, Row, Status, NoRow, CallState, Label, Idle, BuildState, NoBuild
  <1>2. \A c \in Call : CallOK(c)
    BY DEF Init, CallOK, Idle
  <1>3. \A b \in Build : BuildOK(b)
    BY DEF Init, BuildOK, NoBuild
  <1> QED
    BY <1>1, <1>2, <1>3 DEF ShapeOK

(***************************************************************************)
(* Steps that decide on requests touch only the two tables of requests.    *)
(***************************************************************************)

\* The expiry sweep keeps the table typed, whichever rows it skips.
LEMMA ExpireRowsType ==
    ASSUME TypeOK, NEW S
    PROVE  ExpireRows(S) \in [Request -> Row]
  <1>1. \A r \in Request : approval[r] \in Row
    BY DEF TypeOK
  <1>2. \A r \in Request : Expired(approval[r]) \in Row
    BY <1>1, RowsStayRows
  <1> QED
    BY <1>1, <1>2 DEF ExpireRows

\* Creating, deciding on and expiring requests leave the calls and the builds alone.
LEMMA DecideShape == ShapeOK /\ Decide => ShapeOK'
  <1> SUFFICES ASSUME ShapeOK, Decide PROVE ShapeOK'
    OBVIOUS
  <1> USE DEF ShapeOK
  <1>1. UNCHANGED <<keys, call, rack, rackVars>>
    BY DEF Decide, AdmitCreate, InsertRequest, RefuseCreate, Approve, Reject, Extend, Lapse, Sweep
  <1>2. approval' \in [Request -> Row] /\ creating' \in [Commit -> Nat]
    <2>1. ASSUME NEW r \in Request
          PROVE  /\ Approved(approval[r]) \in Row /\ Rejected(approval[r]) \in Row
                 /\ Extended(approval[r]) \in Row
                 /\ [approval[r] EXCEPT !.lapsed = TRUE] \in Row
      <3>1. approval[r] \in Row
        BY DEF TypeOK
      <3> QED
        BY <3>1, RowsStayRows
    <2>2. ASSUME NEW k \in Commit, AdmitCreate(k)
          PROVE  approval' \in [Request -> Row] /\ creating' \in [Commit -> Nat]
      <3>1. PICK S \in SUBSET DueRequests : approval' = ExpireRows(S)
        BY <2>2 DEF AdmitCreate
      <3>2. creating' \in [Commit -> Nat]
        BY <2>2 DEF TypeOK, AdmitCreate
      <3> QED
        BY <3>1, <3>2, ExpireRowsType
    <2>3. ASSUME NEW k \in Commit, InsertRequest(k)
          PROVE  approval' \in [Request -> Row] /\ creating' \in [Commit -> Nat]
      BY <2>3, NewRowIsRow DEF TypeOK, InsertRequest
    <2>4. ASSUME NEW k \in Commit, RefuseCreate(k)
          PROVE  approval' \in [Request -> Row] /\ creating' \in [Commit -> Nat]
      BY <2>4 DEF TypeOK, RefuseCreate
    <2>5. ASSUME NEW r \in Request, Approve(r) \/ Reject(r) \/ Extend(r) \/ Lapse(r)
          PROVE  approval' \in [Request -> Row] /\ creating' \in [Commit -> Nat]
      BY <2>5, <2>1 DEF TypeOK, Approve, Reject, Extend, Lapse
    <2>6. ASSUME NEW S \in SUBSET DueRequests, Sweep(S)
          PROVE  approval' \in [Request -> Row] /\ creating' \in [Commit -> Nat]
      <3>1. approval' \in [Request -> Row]
        BY <2>6, ExpireRowsType DEF Sweep
      <3> QED
        BY <2>6, <3>1 DEF TypeOK, Sweep
    <2> QED
      BY <2>2, <2>3, <2>4, <2>5, <2>6 DEF Decide
  <1>3. TypeOK'
    BY <1>1, <1>2 DEF TypeOK, rackVars
  <1>4. (\A c \in Call : CallOK(c)') /\ (\A b \in Build : BuildOK(b)')
    BY <1>1 DEF CallOK, BuildOK, rackVars
  <1> QED
    BY <1>3, <1>4

(***************************************************************************)
(* How the handlers and the rack's view of their calls change.             *)
(***************************************************************************)
CallsOK ==
    /\ call \in [Call -> CallState]
    /\ rack \in [Call -> {"none", "running", "done", "refused"}]
    /\ \A c \in Call : CallOK(c)

\* A handler that ends, or dies, leaves its call idle, or gone while the rack still works on it.
LEMMA EndCalls ==
    ASSUME CallsOK, NEW c \in Call, call[c].at # "idle", End(c)
    PROVE  CallsOK'
  <1>1. /\ call' \in [Call -> CallState]
        /\ rack' \in [Call -> {"none", "running", "done", "refused"}]
    BY DEF CallsOK, End, CallState, Label, Idle
  <1>2. ASSUME NEW d \in Call PROVE CallOK(d)'
    <2>1. CASE d # c
      BY <2>1 DEF CallsOK, End, CallOK
    <2>2. CASE d = c /\ rack[c] = "running"
      <3>1. call'[c] = [call[c] EXCEPT !.at = "gone"] /\ rack'[c] = "running"
        BY <2>2 DEF CallsOK, End
      <3> QED
        BY <2>2, <3>1 DEF CallsOK, CallOK, CallState
    <2>3. CASE d = c /\ rack[c] # "running"
      <3>1. call'[c] = Idle /\ rack'[c] = "none"
        BY <2>3 DEF CallsOK, End
      <3> QED
        BY <2>3, <3>1 DEF CallOK, Idle
    <2> QED
      BY <2>1, <2>2, <2>3
  <1> QED
    BY <1>1, <1>2 DEF CallsOK

\* A handler's next label is sound if what CallOK asks at that label holds.
LEMMA GotoCalls ==
    ASSUME CallsOK, NEW c \in Call, NEW label \in Label \ {"idle", "gone"}, Goto(c, label),
           call[c].at # "idle", rack' = rack, call[c].kind # "read",
           label = "claim" => call[c].req \in Request,
           call[c].kind = "promote" => label \in {"claim", "send", "wait", "record", "release"},
           label \in {"claimKey", "claim", "checkKey", "verify", "send"} => rack[c] = "none",
           rack[c] = "running" => label \in {"wait", "release"},
           call[c].kind = "promote" /\ label = "release" => rack[c] \in {"none", "refused"},
           call[c].kind = "promote" /\ label = "record" => rack[c] = "done"
    PROVE  CallsOK'
  <1>1. call' \in [Call -> CallState]
    BY DEF CallsOK, Goto, CallState
  <1>2. ASSUME NEW d \in Call PROVE CallOK(d)'
    <2>1. CASE d # c
      BY <2>1 DEF CallsOK, Goto, CallOK
    <2>2. CASE d = c
      <3>1. call'[c] = [call[c] EXCEPT !.at = label]
        BY DEF CallsOK, Goto
      <3> QED
        BY <2>2, <3>1 DEF CallsOK, CallOK, CallState, Label
    <2> QED
      BY <2>1, <2>2
  <1> QED
    BY <1>1, <1>2 DEF CallsOK

\* A call begins at its first step with what that step relies on.
LEMMA BeginCalls ==
    ASSUME CallsOK, NEW c \in Call,
           NEW kind \in {"upload", "build", "read", "promote"},
           NEW label \in {"claimKey", "claim", "checkKey", "record"},
           NEW r \in Request \cup {None}, NEW k \in Key \cup {None},
           NEW a \in Commit \cup {None}, NEW b \in Build \cup {None},
           Begin(c, kind, label, r, k, a, b),
           kind \in {"upload", "build"} => k \in Key,
           kind \in {"read", "promote"} \/ label = "claim" => r \in Request,
           kind \in {"read", "promote"} => b \in Build,
           kind = "read" <=> label = "record",
           kind = "promote" => label = "claim"
    PROVE  CallsOK'
  <1> DEFINE new == [kind |-> kind, at |-> label, req |-> r, key |-> k, archive |-> a, build |-> b]
  <1>1. /\ call[c] = Idle
        /\ call' = [call EXCEPT ![c] = new]
        /\ rack' = rack
    BY DEF Begin
  <1>2. new \in CallState
    BY DEF CallState, Label
  <1>3. call' \in [Call -> CallState]
    BY <1>1, <1>2 DEF CallsOK
  <1>4. rack[c] = "none"
    BY <1>1 DEF CallsOK, CallOK, Idle
  <1>5. ASSUME NEW d \in Call PROVE CallOK(d)'
    <2>1. CASE d # c
      BY <2>1, <1>1 DEF CallsOK, CallOK
    <2>2. CASE d = c
      <3>1. call'[c] = new /\ rack'[c] = "none"
        BY <1>1, <1>4 DEF CallsOK
      <3> QED
        BY <2>2, <3>1 DEF CallOK
    <2> QED
      BY <2>1, <2>2
  <1> QED
    BY <1>1, <1>3, <1>5 DEF CallsOK

\* A step of a call leaves the shape sound if it leaves the tables typed and the calls sound.
LEMMA ShapeFromCalls ==
    ASSUME ShapeOK, CallsOK', UNCHANGED <<creating, rackVars>>,
           approval' \in [Request -> Row], keys' \in [Key -> {"free", "claimed", "uploaded"}]
    PROVE  ShapeOK'
  <1>1. TypeOK'
    BY DEF ShapeOK, TypeOK, CallsOK, rackVars
  <1>2. \A b \in Build : BuildOK(b)'
    BY DEF ShapeOK, BuildOK, rackVars
  <1> QED
    BY <1>1, <1>2 DEF ShapeOK, CallsOK

\* The shape of the state includes that of its calls.
LEMMA ShapeGivesCalls == ShapeOK => CallsOK
  BY DEF ShapeOK, CallsOK, TypeOK

\* Resolving a request's permission begins its call soundly.
LEMMA BeginShape ==
    ASSUME ShapeOK, NEW c \in Call, BeginCall(c)
    PROVE  ShapeOK'
  <1>1. CallsOK
    BY ShapeGivesCalls
  <1>2. CallsOK'
    <2>1. ASSUME NEW k \in Key, NEW a \in Commit, BeginUpload(c, k, a) PROVE CallsOK'
      <3>1. PICK r \in Request : Begin(c, "upload", "claimKey", r, k, a, None)
        BY <2>1 DEF BeginUpload
      <3> QED
        BY <3>1, <1>1, BeginCalls
    <2>2. ASSUME NEW k \in Key, NEW a \in Commit, BeginDirectUpload(c, k, a) PROVE CallsOK'
      BY <2>2, <1>1, BeginCalls DEF BeginDirectUpload
    <2>3. ASSUME NEW k \in Key, NEW r \in Request, BeginBuild(c, k, r) PROVE CallsOK'
      BY <2>3, <1>1, BeginCalls DEF BeginBuild
    <2>4. ASSUME NEW k \in Key, BeginDirectBuild(c, k) PROVE CallsOK'
      BY <2>4, <1>1, BeginCalls DEF BeginDirectBuild
    <2>5. ASSUME NEW r \in Request, BeginRead(c, r) PROVE CallsOK'
      <3>1. approval[r].build \in Build /\ Begin(c, "read", "record", r, None, None, approval[r].build)
        BY <2>5 DEF BeginRead, ShapeOK, TypeOK, Row
      <3> QED
        BY <3>1, <1>1, BeginCalls
    <2>6. ASSUME NEW b \in Build, BeginPromote(c, b) PROVE CallsOK'
      <3>1. PICK r \in Request : Begin(c, "promote", "claim", r, None, None, b)
        BY <2>6 DEF BeginPromote
      <3> QED
        BY <3>1, <1>1, BeginCalls
    <2> QED
      BY <2>1, <2>2, <2>3, <2>4, <2>5, <2>6 DEF BeginCall
  <1>3. UNCHANGED <<approval, creating, keys, rack, rackVars>>
    BY DEF BeginCall, BeginUpload, BeginDirectUpload, BeginBuild, BeginDirectBuild, BeginRead,
           BeginPromote, Begin
  <1> QED
    BY <1>2, <1>3, ShapeFromCalls DEF ShapeOK, TypeOK

\* Claiming a key or an approval's step, and being refused one, keep the shape.
LEMMA ClaimShape ==
    ASSUME ShapeOK, NEW c \in Call,
           ClaimKey(c) \/ ClaimUpload(c) \/ ClaimBuild(c) \/ ClaimPromote(c) \/ RefuseClaim(c)
    PROVE  ShapeOK'
  <1>1. CallsOK /\ CallOK(c) /\ call[c] \in CallState
    BY ShapeGivesCalls DEF CallsOK
  <1> USE DEF At
  <1>2. CASE ClaimKey(c)
    <2>1. CASE keys[call[c].key] = "free"
      <3>1. CallsOK'
        BY <1>1, <1>2, <2>1, GotoCalls DEF ClaimKey, CallOK, CallState, Label
      <3> QED
        BY <1>2, <2>1, <3>1, ShapeFromCalls DEF ClaimKey, ShapeOK, TypeOK
    <2>2. CASE keys[call[c].key] # "free"
      <3>1. CallsOK'
        BY <1>1, <1>2, <2>2, EndCalls DEF ClaimKey
      <3> QED
        BY <1>2, <2>2, <3>1, ShapeFromCalls DEF ClaimKey, ShapeOK, TypeOK
    <2> QED
      BY <2>1, <2>2
  <1>3. CASE ClaimUpload(c)
    <2>1. CallsOK'
      BY <1>1, <1>3, GotoCalls DEF ClaimUpload, CallOK, Label
    <2>2. /\ call[c].req \in Request /\ approval[call[c].req] \in Row
          /\ call[c].key \in Key \cup {None}
      BY <1>1, <1>3 DEF ClaimUpload, CallOK, ShapeOK, TypeOK, CallState
    <2>3. ClaimedUpload(approval[call[c].req], call[c].key) \in Row
      BY <2>2, UploadRowsStayRows
    <2> QED
      BY <1>3, <2>1, <2>3, ShapeFromCalls DEF ClaimUpload, ShapeOK, TypeOK
  <1>4. CASE ClaimBuild(c)
    <2>1. CallsOK'
      BY <1>1, <1>4, GotoCalls DEF ClaimBuild, CallOK, Label
    <2>2. ClaimedBuild(approval[call[c].req]) \in Row
      BY <1>1, <1>4, RowsStayRows DEF ClaimBuild, CallOK, ShapeOK, TypeOK
    <2> QED
      BY <1>4, <2>1, <2>2, ShapeFromCalls DEF ClaimBuild, ShapeOK, TypeOK
  <1>5. CASE ClaimPromote(c)
    <2>1. CallsOK'
      BY <1>1, <1>5, GotoCalls DEF ClaimPromote, CallOK, Label
    <2>2. ClaimedPromote(approval[call[c].req]) \in Row
      BY <1>1, <1>5, RowsStayRows DEF ClaimPromote, CallOK, ShapeOK, TypeOK
    <2> QED
      BY <1>5, <2>1, <2>2, ShapeFromCalls DEF ClaimPromote, ShapeOK, TypeOK
  <1>6. CASE RefuseClaim(c)
    <2>1. CallsOK'
      BY <1>1, <1>6, EndCalls DEF RefuseClaim
    <2> QED
      BY <1>6, <2>1, ShapeFromCalls DEF RefuseClaim, ShapeOK, TypeOK
  <1> QED
    BY <1>2, <1>3, <1>4, <1>5, <1>6

\* Checking the archive, forwarding a call and the end of waiting for it keep the shape.
LEMMA SendShape ==
    ASSUME ShapeOK, NEW c \in Call,
           \/ CheckKey(c) \/ Verify(c) \/ Send(c) \/ NotSent(c) \/ Answer(c) \/ GiveUp(c)
    PROVE  ShapeOK'
  <1>1. CallsOK /\ CallOK(c) /\ call[c] \in CallState
    BY ShapeGivesCalls DEF CallsOK
  <1> USE DEF At
  <1>2. CASE CheckKey(c)
    <2>1. CallsOK'
      BY <1>1, <1>2, GotoCalls DEF CheckKey, CallOK, Label
    <2> QED
      BY <1>2, <2>1, ShapeFromCalls DEF CheckKey, ShapeOK, TypeOK
  <1>3. CASE Verify(c)
    <2> DEFINE archive == stored[call[c].key]
    <2>1. CASE call' = [call EXCEPT ![c].at = "send", ![c].archive = archive]
      <3>1. archive \in Commit \cup {None} /\ rack' = rack
        BY <1>1, <1>3 DEF Verify, CallOK, ShapeOK, TypeOK
      <3>2. call'[c] = [call[c] EXCEPT !.at = "send", !.archive = archive]
        BY <1>1, <2>1 DEF CallsOK
      <3>3. call' \in [Call -> CallState]
        BY <1>1, <2>1, <3>1 DEF CallsOK, CallState, Label
      <3>4. ASSUME NEW d \in Call PROVE CallOK(d)'
        <4>1. CASE d # c
          BY <1>1, <2>1, <3>1, <4>1 DEF CallsOK, CallOK
        <4>2. CASE d = c
          BY <1>1, <1>3, <3>1, <3>2, <4>2 DEF Verify, CallsOK, CallOK, CallState
        <4> QED
          BY <4>1, <4>2
      <3>5. CallsOK'
        BY <1>1, <3>1, <3>3, <3>4 DEF CallsOK
      <3> QED
        BY <1>3, <3>5, ShapeFromCalls DEF Verify, ShapeOK, TypeOK
    <2>2. CASE Goto(c, "release")
      <3>1. CallsOK'
        BY <1>1, <1>3, <2>2, GotoCalls DEF Verify, CallOK, Label
      <3> QED
        BY <1>3, <3>1, ShapeFromCalls DEF Verify, ShapeOK, TypeOK
    <2> QED
      BY <1>3, <2>1, <2>2 DEF Verify
  <1>4. CASE Send(c)
    <2>1. call'[c] = [call[c] EXCEPT !.at = "wait"] /\ rack'[c] = "running"
      BY <1>1, <1>4 DEF Send, Goto, CallsOK
    <2>2. /\ call' \in [Call -> CallState]
          /\ rack' \in [Call -> {"none", "running", "done", "refused"}]
      BY <1>1, <1>4 DEF Send, Goto, CallsOK, CallState, Label
    <2>3. ASSUME NEW d \in Call PROVE CallOK(d)'
      <3>1. CASE d # c
        BY <1>1, <1>4, <3>1 DEF Send, Goto, CallsOK, CallOK
      <3>2. CASE d = c
        BY <1>1, <1>4, <2>1, <3>2 DEF Send, CallsOK, CallOK, CallState
      <3> QED
        BY <3>1, <3>2
    <2>4. CallsOK'
      BY <2>2, <2>3 DEF CallsOK
    <2> QED
      BY <1>4, <2>4, ShapeFromCalls DEF Send, ShapeOK, TypeOK
  <1>5. CASE NotSent(c)
    <2>1. CallsOK'
      BY <1>1, <1>5, GotoCalls DEF NotSent, CallOK, Label
    <2> QED
      BY <1>5, <2>1, ShapeFromCalls DEF NotSent, ShapeOK, TypeOK
  <1>6. CASE Answer(c)
    <2>1. CallsOK'
      BY <1>1, <1>6, GotoCalls DEF Answer, CallOK, Label
    <2> QED
      BY <1>6, <2>1, ShapeFromCalls DEF Answer, ShapeOK, TypeOK
  <1>7. CASE GiveUp(c)
    <2>1. CASE call[c].kind = "promote"
      <3>1. CallsOK'
        BY <1>1, <1>7, <2>1, EndCalls DEF GiveUp, KeepsPromote
      <3> QED
        BY <1>7, <3>1, ShapeFromCalls DEF GiveUp, ShapeOK, TypeOK
    <2>2. CASE call[c].kind # "promote"
      <3>1. CallsOK'
        BY <1>1, <1>7, <2>2, GotoCalls DEF GiveUp, CallOK, Label
      <3> QED
        BY <1>7, <3>1, ShapeFromCalls DEF GiveUp, ShapeOK, TypeOK
    <2> QED
      BY <2>1, <2>2
  <1> QED
    BY <1>2, <1>3, <1>4, <1>5, <1>6, <1>7

\* Recording what a step did, or failing to, keeps the shape.
LEMMA RecordShape ==
    ASSUME ShapeOK, NEW c \in Call,
           \/ MarkObjectUploaded(c) \/ RecordUpload(c) \/ RecordBuild(c) \/ RecordRead(c)
           \/ RecordDeployed(c) \/ RecordNothing(c)
    PROVE  ShapeOK'
  <1>1. CallsOK /\ CallOK(c) /\ call[c] \in CallState
    BY ShapeGivesCalls DEF CallsOK
  <1> DEFINE r == call[c].req
             b == call[c].build
  <1>2. r # None => r \in Request /\ approval[r] \in Row
    BY <1>1 DEF CallState, ShapeOK, TypeOK
  <1>3. ASSUME NEW row \in Row
        PROVE  [approval EXCEPT ![r] = row] \in [Request -> Row]
    BY <1>3 DEF ShapeOK, TypeOK
  <1> USE DEF At
  <1>4. CASE MarkObjectUploaded(c)
    <2>1. CallsOK'
      BY <1>1, <1>4, GotoCalls DEF MarkObjectUploaded, CallOK, Label
    <2> QED
      BY <1>4, <2>1, ShapeFromCalls DEF MarkObjectUploaded, ShapeOK, TypeOK
  <1>5. CASE RecordUpload(c)
    <2>1. CallsOK'
      BY <1>1, <1>5, GotoCalls DEF RecordUpload, CallOK, Label
    <2>2. approval' \in [Request -> Row]
      <3>1. CASE r = None
        BY <1>5, <3>1, ConstantsAssumption DEF RecordUpload, ShapeOK, TypeOK
      <3>2. CASE r # None
        BY <1>2, <1>3, <1>5, <3>2, RowsStayRows DEF RecordUpload
      <3> QED
        BY <3>1, <3>2
    <2> QED
      BY <1>5, <2>1, <2>2, ShapeFromCalls DEF RecordUpload, ShapeOK, TypeOK
  <1>6. CASE RecordBuild(c)
    <2>1. CallsOK'
      BY <1>1, <1>6, GotoCalls DEF RecordBuild, CallOK, Label
    <2>2. b \in Build \cup {None}
      BY <1>1 DEF CallState
    <2>3. PICK rel \in Build \cup {None} : approval' = [approval EXCEPT ![r] = RecordedBuild(@, b, rel)]
      BY <1>6, <2>2 DEF RecordBuild
    <2>4. r # None
      BY <1>6 DEF RecordBuild
    <2>5. approval' \in [Request -> Row]
      BY <1>2, <1>3, <2>2, <2>3, <2>4, BuildRowsStayRows
    <2> QED
      BY <1>6, <2>1, <2>5, ShapeFromCalls DEF RecordBuild, ShapeOK, TypeOK
  <1>7. CASE RecordRead(c)
    <2>1. CallsOK'
      BY <1>1, <1>7, EndCalls DEF RecordRead
    <2>2. r \in Request /\ approval[r] \in Row /\ b \in Build
      BY <1>1, <1>7 DEF RecordRead, CallOK, ShapeOK, TypeOK
    <2>3. approval' \in [Request -> Row]
      BY <1>3, <1>7, <2>2, BuildRowsStayRows DEF RecordRead
    <2> QED
      BY <1>7, <2>1, <2>3, ShapeFromCalls DEF RecordRead, ShapeOK, TypeOK
  <1>8. CASE RecordDeployed(c)
    <2>1. CallsOK'
      BY <1>1, <1>8, EndCalls DEF RecordDeployed
    <2>2. r \in Request /\ approval[r] \in Row
      BY <1>1, <1>8 DEF RecordDeployed, CallOK, ShapeOK, TypeOK
    <2>3. approval' \in [Request -> Row]
      BY <1>3, <1>8, <2>2, RowsStayRows DEF RecordDeployed
    <2> QED
      BY <1>8, <2>1, <2>3, ShapeFromCalls DEF RecordDeployed, ShapeOK, TypeOK
  <1>9. CASE RecordNothing(c)
    <2>1. CASE call[c].kind \in {"upload", "build"}
      <3>1. CallsOK'
        BY <1>1, <1>9, <2>1, GotoCalls DEF RecordNothing, CallOK, Label
      <3> QED
        BY <1>9, <2>1, <3>1, ShapeFromCalls DEF RecordNothing, ShapeOK, TypeOK
    <2>2. CASE call[c].kind \notin {"upload", "build"}
      <3>1. CallsOK'
        BY <1>1, <1>9, <2>2, EndCalls DEF RecordNothing
      <3> QED
        BY <1>9, <2>2, <3>1, ShapeFromCalls DEF RecordNothing, ShapeOK, TypeOK
    <2> QED
      BY <2>1, <2>2
  <1> QED
    BY <1>4, <1>5, <1>6, <1>7, <1>8, <1>9

\* Releasing a claim and abandoning a call keep the shape.
LEMMA ReleaseShape ==
    ASSUME ShapeOK, NEW c \in Call, Release(c) \/ Abandon(c)
    PROVE  ShapeOK'
  <1>1. CallsOK /\ CallOK(c) /\ call[c] \in CallState
    BY ShapeGivesCalls DEF CallsOK
  <1> DEFINE r == call[c].req
             k == call[c].key
  <1>2. CallsOK'
    BY <1>1, EndCalls DEF Release, Abandon
  <1>3. CASE Release(c)
    <2>1. CASE r = None
      BY <1>2, <1>3, <2>1, ShapeFromCalls DEF Release, ShapeOK, TypeOK
    <2>2. CASE r # None
      <3>1. r \in Request /\ approval[r] \in Row /\ k \in Key \cup {None}
        BY <1>1, <2>2 DEF CallState, ShapeOK, TypeOK
      <3>2. /\ ReleasedUpload(approval[r], k) \in Row
            /\ ReleasedBuild(approval[r]) \in Row
            /\ ReleasedPromote(approval[r]) \in Row
        BY <3>1, RowsStayRows, UploadRowsStayRows
      <3>3. call[c].kind \in {"upload", "build", "promote"}
        BY <1>1, <1>3 DEF Release, CallOK, CallState
      <3>4. approval' \in [Request -> Row]
        BY <1>3, <2>2, <3>2, <3>3 DEF Release, ShapeOK, TypeOK
      <3> QED
        BY <1>2, <1>3, <3>4, ShapeFromCalls DEF Release, ShapeOK, TypeOK
    <2> QED
      BY <2>1, <2>2
  <1>4. CASE Abandon(c)
    BY <1>2, <1>4, ShapeFromCalls DEF Abandon, ShapeOK, TypeOK
  <1> QED
    BY <1>3, <1>4

\* The rack's own steps: it is done with a call, whose handler may be gone.
LEMMA RackEndsCalls ==
    ASSUME CallsOK, NEW c \in Call, NEW result \in {"done", "refused"}, NEW b \in Build \cup {None},
           RackEnds(c, result, [call[c] EXCEPT !.build = b]),
           call[c].kind = "promote" => result = "refused" \/ call[c].at # "release",
           call[c].kind = "promote" => b \in Build
    PROVE  CallsOK'
  <1> DEFINE next == [call[c] EXCEPT !.build = b]
  <1>1. call[c] \in CallState /\ CallOK(c) /\ rack[c] = "running"
    BY DEF CallsOK, RackEnds
  <1>2. next \in CallState /\ Idle \in CallState
    BY <1>1 DEF CallState, Label, Idle
  <1>3. /\ call' \in [Call -> CallState]
        /\ rack' \in [Call -> {"none", "running", "done", "refused"}]
    BY <1>2 DEF CallsOK, RackEnds
  <1>4. ASSUME NEW d \in Call PROVE CallOK(d)'
    <2>1. CASE d # c
      BY <2>1 DEF CallsOK, RackEnds, CallOK
    <2>2. CASE d = c /\ call[c].at = "gone"
      <3>1. call'[c] = Idle /\ rack'[c] = "none"
        BY <2>2 DEF CallsOK, RackEnds
      <3> QED
        BY <2>2, <3>1 DEF CallOK, Idle
    <2>3. CASE d = c /\ call[c].at # "gone"
      <3>1. call'[c] = next /\ rack'[c] = result
        BY <2>3 DEF CallsOK, RackEnds
      <3>2. call[c].kind # "read"
        BY <1>1 DEF CallOK
      <3> QED
        BY <1>1, <2>3, <3>1, <3>2 DEF CallOK, CallState
    <2> QED
      BY <2>1, <2>2, <2>3
  <1> QED
    BY <1>3, <1>4 DEF CallsOK

\* What the rack does with a call keeps the shape.
LEMMA RackShape ==
    ASSUME ShapeOK, NEW c \in Call, RackWorks(c)
    PROVE  ShapeOK'
  <1>1. CallsOK /\ CallOK(c) /\ call[c] \in CallState
    BY ShapeGivesCalls DEF CallsOK
  <1>2. call[c] = [call[c] EXCEPT !.build = call[c].build] /\ call[c].build \in Build \cup {None}
    BY <1>1 DEF CallState
  <1>3. rack[c] = "running" => call[c].kind # "promote" \/ (call[c].at # "release" /\ call[c].build \in Build)
    BY <1>1 DEF CallOK
  <1>4. CASE RackStores(c)
    <2>1. CallsOK'
      BY <1>1, <1>2, <1>4, RackEndsCalls DEF RackStores
    <2>2. stored' \in [Key -> Commit \cup {None}]
      BY <1>1, <1>4 DEF RackStores, ShapeOK, TypeOK, CallState
    <2>3. TypeOK'
      BY <1>4, <2>1, <2>2 DEF RackStores, RackEnds, ShapeOK, TypeOK, CallsOK
    <2>4. \A b \in Build : BuildOK(b)'
      BY <1>4 DEF RackStores, ShapeOK, BuildOK
    <2> QED
      BY <2>1, <2>3, <2>4 DEF ShapeOK, CallsOK
  <1>5. CASE RackPromotes(c)
    <2>1. CallsOK' /\ call[c].req \in Request /\ call[c].build \in Build
      BY <1>1, <1>2, <1>3, <1>5, RackEndsCalls DEF RackPromotes, RackEnds, CallOK
    <2>2. applied' \in [Request -> Seq(Build)]
      BY <1>5, <2>1 DEF RackPromotes, ShapeOK, TypeOK
    <2>3. TypeOK'
      BY <1>5, <2>1, <2>2 DEF RackPromotes, RackEnds, ShapeOK, TypeOK, CallsOK
    <2>4. \A b \in Build : BuildOK(b)'
      BY <1>5 DEF RackPromotes, ShapeOK, BuildOK
    <2> QED
      BY <2>1, <2>3, <2>4 DEF ShapeOK, CallsOK
  <1>6. CASE RackRefuses(c)
    <2>1. CallsOK'
      BY <1>1, <1>2, <1>3, <1>6, RackEndsCalls DEF RackRefuses, RackEnds
    <2>2. TypeOK'
      BY <1>6, <2>1 DEF RackRefuses, RackEnds, rackVars, ShapeOK, TypeOK, CallsOK
    <2>3. \A b \in Build : BuildOK(b)'
      BY <1>6 DEF RackRefuses, rackVars, ShapeOK, BuildOK
    <2> QED
      BY <2>1, <2>2, <2>3 DEF ShapeOK, CallsOK
  <1>7. ASSUME NEW b \in Build, RackBuilds(c, b) PROVE ShapeOK'
    <2> DEFINE new == [state |-> "running", source |-> call[c].key,
                       archive |-> None, checked |-> call[c].archive]
    <2>1. CallsOK'
      BY <1>1, <1>7, RackEndsCalls DEF RackBuilds
    <2>2. new \in BuildState /\ call[c].key \in Key
      BY <1>1, <1>7 DEF RackBuilds, BuildState, CallOK, CallState
    <2>3. built' = [built EXCEPT ![b] = new]
      BY <1>7 DEF RackBuilds
    <2>4. TypeOK'
      BY <1>7, <2>1, <2>2, <2>3 DEF RackBuilds, RackEnds, ShapeOK, TypeOK, CallsOK
    <2>5. ASSUME NEW x \in Build PROVE BuildOK(x)'
      BY <2>2, <2>3 DEF ShapeOK, TypeOK, BuildOK
    <2> QED
      BY <2>1, <2>4, <2>5 DEF ShapeOK, CallsOK
  <1> QED
    BY <1>4, <1>5, <1>6, <1>7 DEF RackWorks

\* A build that finishes has read a key's object.
LEMMA FinishBuildShape ==
    ASSUME ShapeOK, NEW b \in Build, RackFinishesBuild(b)
    PROVE  ShapeOK'
  <1> DEFINE new == [built[b] EXCEPT !.state = "finished", !.archive = stored[built[b].source]]
  <1>1. built[b] \in BuildState /\ stored[built[b].source] \in Commit \cup {None}
    BY DEF RackFinishesBuild, ShapeOK, TypeOK, BuildOK
  <1>2. new \in BuildState
    BY <1>1 DEF BuildState
  <1>3. built' = [built EXCEPT ![b] = new]
    BY DEF RackFinishesBuild, ShapeOK, TypeOK
  <1>4. TypeOK'
    BY <1>2, <1>3 DEF RackFinishesBuild, gatewayVars, ShapeOK, TypeOK
  <1>5. \A c \in Call : CallOK(c)'
    BY DEF RackFinishesBuild, gatewayVars, ShapeOK, CallOK
  <1>6. ASSUME NEW x \in Build PROVE BuildOK(x)'
    BY <1>1, <1>3 DEF ShapeOK, TypeOK, BuildOK, BuildState
  <1> QED
    BY <1>4, <1>5, <1>6 DEF ShapeOK

\* The shape is inductive: every step keeps it.
LEMMA ShapeStep == ShapeOK /\ [Next]_vars => ShapeOK'
  <1> SUFFICES ASSUME ShapeOK, [Next]_vars PROVE ShapeOK'
    OBVIOUS
  <1>1. CASE Decide
    BY <1>1, DecideShape
  <1>2. ASSUME NEW c \in Call, BeginCall(c) PROVE ShapeOK'
    BY <1>2, BeginShape
  <1>3. ASSUME NEW c \in Call, Handle(c) PROVE ShapeOK'
    BY <1>3, ClaimShape, SendShape, RecordShape, ReleaseShape DEF Handle
  <1>4. ASSUME NEW c \in Call, Abandon(c) PROVE ShapeOK'
    BY <1>4, ReleaseShape
  <1>5. ASSUME NEW c \in Call, RackWorks(c) PROVE ShapeOK'
    BY <1>5, RackShape
  <1>6. ASSUME NEW b \in Build, RackFinishesBuild(b) PROVE ShapeOK'
    BY <1>6, FinishBuildShape
  <1>7. CASE UNCHANGED vars
    BY <1>7 DEF vars, ShapeOK, TypeOK, CallOK, BuildOK
  <1> QED
    BY <1>1, <1>2, <1>3, <1>4, <1>5, <1>6, <1>7 DEF Next

\* Every variable keeps its type, and every handler finds what its step relies on: the calls, the
\* rack's answers and the builds have the shape the code assumes of them.
THEOREM TypeCorrect == Spec => []TypeOK
  <1>1. ShapeOK => TypeOK
    BY DEF ShapeOK
  <1> QED
    BY <1>1, InitShape, ShapeStep, PTL DEF Spec

(***************************************************************************)
(* The promote claim.  IInv is inductive, and from it at most one promote  *)
(* is applied under an approval, a free claim means that no promote is     *)
(* anywhere, and a rejected request has none.                              *)
(***************************************************************************)
ClaimStatus == {"approved", "expired", "deployed"}

(***************************************************************************)
(* Frames                                                                  *)
(***************************************************************************)
\* A step that applies nothing and keeps r's claim keeps ClaimOK(r) when it brings up no promote
\* and, once a promote was applied, leaves what is left of it with the rack's answer.
LEMMA ClaimKept ==
    ASSUME NEW r \in Request, ClaimOK(r),
           applied'[r] = applied[r],
           approval'[r].promoteStarted = approval[r].promoteStarted,
           approval'[r].promoteStarted => approval'[r].status \in ClaimStatus,
           \A d \in Call : Promoting(d, r)' =>
               /\ Promoting(d, r)
               /\ applied[r] # <<>> => call'[d].at \in {"wait", "record"} /\ rack'[d] = "done"
    PROVE  ClaimOK(r)'
  BY DEF ClaimOK, ClaimStatus

\* The same for a step of call c, which leaves the other calls alone.
LEMMA ClaimKeptByCall ==
    ASSUME ShapeOK, NEW c \in Call, NEW r \in Request, ClaimOK(r),
           applied'[r] = applied[r],
           approval'[r].promoteStarted = approval[r].promoteStarted,
           approval'[r].promoteStarted => approval'[r].status \in ClaimStatus,
           \A d \in Call \ {c} : call'[d] = call[d] /\ rack'[d] = rack[d],
           Promoting(c, r)' =>
               /\ Promoting(c, r)
               /\ applied[r] # <<>> => call'[c].at \in {"wait", "record"} /\ rack'[c] = "done"
    PROVE  ClaimOK(r)'
  <1>1. ASSUME NEW d \in Call, Promoting(d, r)'
        PROVE  /\ Promoting(d, r)
               /\ applied[r] # <<>> => call'[d].at \in {"wait", "record"} /\ rack'[d] = "done"
    <2>1. CASE d = c
      BY <1>1, <2>1
    <2>2. CASE d # c
      BY <1>1, <2>2 DEF Promoting, ClaimOK
    <2> QED
      BY <2>1, <2>2
  <1> QED
    BY <1>1, ClaimKept

\* A handler that ends has no promote any more, unless the rack still works on it.
LEMMA EndPromoting ==
    ASSUME ShapeOK, NEW c \in Call, NEW r \in Request, End(c)
    PROVE  /\ Promoting(c, r)' => /\ call[c].kind = "promote" /\ call[c].req = r
                                  /\ rack[c] = "running"
           /\ \A d \in Call \ {c} : call'[d] = call[d] /\ rack'[d] = rack[d]
  <1>1. \A d \in Call \ {c} : call'[d] = call[d] /\ rack'[d] = rack[d]
    BY DEF End, ShapeOK, TypeOK
  <1>2. CASE rack[c] = "running"
    <2>1. call'[c] = [call[c] EXCEPT !.at = "gone"] /\ call[c] \in CallState
      BY <1>2 DEF End, ShapeOK, TypeOK
    <2> QED
      BY <1>1, <1>2, <2>1 DEF Promoting, CallState
  <1>3. CASE rack[c] # "running"
    <2>1. call'[c] = Idle
      BY <1>3 DEF End, ShapeOK, TypeOK
    <2> QED
      BY <1>1, <2>1 DEF Promoting, Idle
  <1> QED
    BY <1>2, <1>3

\* A call at the rack with a promote is in its handler's wait, or its handler is gone.
LEMMA RunningPromote ==
    ASSUME ShapeOK, NEW c \in Call, call[c].kind = "promote", rack[c] = "running"
    PROVE  call[c].at \in {"wait", "gone"} /\ call[c].req \in Request /\ Promoting(c, call[c].req)
  <1>1. CallOK(c)
    BY DEF ShapeOK
  <1> QED
    BY <1>1 DEF CallOK, Promoting

\* A handler's next step moves its call to a label and leaves the other calls alone.
LEMMA GotoPromoting ==
    ASSUME ShapeOK, NEW c \in Call, NEW label, Goto(c, label), rack' = rack
    PROVE  /\ call'[c] = [call[c] EXCEPT !.at = label]
           /\ call'[c].kind = call[c].kind /\ call'[c].req = call[c].req /\ call'[c].at = label
           /\ \A d \in Call \ {c} : call'[d] = call[d] /\ rack'[d] = rack[d]
  BY DEF Goto, ShapeOK, TypeOK, CallState

(***************************************************************************)
(* Decisions                                                               *)
(***************************************************************************)
\* No decision takes or frees a promote claim, nor rejects a request under one.
LEMMA DecideClaim ==
    ASSUME ShapeOK, Decide, NEW r \in Request, ClaimOK(r)
    PROVE  ClaimOK(r)'
  <1>1. UNCHANGED <<call, rack, applied>>
    BY DEF Decide, AdmitCreate, InsertRequest, RefuseCreate, Approve, Reject, Extend, Lapse, Sweep,
           rackVars
  <1>2. approval[r] \in Row /\ approval \in [Request -> Row]
    BY DEF ShapeOK, TypeOK
  <1>3. approval[r].promoteStarted => approval[r].status \in ClaimStatus
    BY DEF ClaimOK, ClaimStatus
  <1> DEFINE Kept(new) == /\ new.promoteStarted = approval[r].promoteStarted
                          /\ new.promoteStarted => new.status \in ClaimStatus
  <1>4. Kept(approval[r])
    BY <1>3
  <1>5. ASSUME NEW S \in SUBSET DueRequests, approval' = ExpireRows(S) PROVE Kept(approval'[r])
    <2>1. CASE r \in S
      <3>1. approval'[r] = Expired(approval[r])
        BY <1>5, <2>1 DEF ExpireRows
      <3> QED
        BY <1>2, <1>3, <3>1 DEF Expired, Row, ClaimStatus
    <2>2. CASE r \notin S
      BY <1>4, <1>5, <2>2 DEF ExpireRows
    <2> QED
      BY <2>1, <2>2
  <1>6. ASSUME NEW k \in Commit, InsertRequest(k) PROVE Kept(approval'[r])
    <2>1. PICK s \in Request \ Inserted : approval' = [approval EXCEPT ![s] = NewRow(k)]
      BY <1>6 DEF InsertRequest
    <2>2. CASE r = s
      <3>1. approval[r].status = "none" /\ approval'[r] = NewRow(k)
        BY <1>2, <2>1, <2>2 DEF Inserted
      <3>2. NewRow(k).promoteStarted = FALSE
        BY DEF NewRow, NoRow
      <3>3. approval[r].promoteStarted = FALSE
        BY <1>2, <1>3, <3>1 DEF Row, ClaimStatus
      <3> QED
        BY <3>1, <3>2, <3>3
    <2>3. CASE r # s
      BY <1>2, <1>4, <2>1, <2>3
    <2> QED
      BY <2>2, <2>3
  <1>7. ASSUME NEW s \in Request, Approve(s) \/ Reject(s) \/ Extend(s) \/ Lapse(s)
        PROVE  Kept(approval'[r])
    <2>1. CASE r # s
      BY <1>2, <1>4, <1>7, <2>1 DEF Approve, Reject, Extend, Lapse
    <2>2. CASE r = s /\ Approve(s)
      <3>1. approval'[r] = Approved(approval[r]) /\ approval[r].status = "pending"
        BY <1>2, <2>2 DEF Approve, CanApprove
      <3> QED
        BY <1>2, <1>3, <3>1 DEF Approved, Row, ClaimStatus
    <2>3. CASE r = s /\ Reject(s)
      <3>1. approval'[r] = Rejected(approval[r]) /\ ~approval[r].promoteStarted
        BY <1>2, <2>3 DEF Reject, CanReject
      <3> QED
        BY <1>2, <3>1 DEF Rejected, Row
    <2>4. CASE r = s /\ Extend(s)
      <3>1. approval'[r] = Extended(approval[r])
        BY <1>2, <2>4 DEF Extend
      <3> QED
        BY <1>2, <3>1 DEF Extended, Row, ClaimStatus
    <2>5. CASE r = s /\ Lapse(s)
      <3>1. approval'[r] = [approval[r] EXCEPT !.lapsed = TRUE]
        BY <1>2, <2>5 DEF Lapse, Row
      <3> QED
        BY <1>2, <1>3, <3>1 DEF Row
    <2> QED
      BY <1>7, <2>1, <2>2, <2>3, <2>4, <2>5
  <1>8. ASSUME NEW k \in Commit, AdmitCreate(k) PROVE Kept(approval'[r])
    BY <1>5, <1>8 DEF AdmitCreate
  <1>9. ASSUME NEW S \in SUBSET DueRequests, Sweep(S) PROVE Kept(approval'[r])
    BY <1>5, <1>9 DEF Sweep
  <1>10. ASSUME NEW k \in Commit, RefuseCreate(k) PROVE Kept(approval'[r])
    BY <1>4, <1>10 DEF RefuseCreate
  <1>11. Kept(approval'[r])
    BY <1>6, <1>7, <1>8, <1>9, <1>10 DEF Decide
  <1>12. \A d \in Call : Promoting(d, r)' =>
             /\ Promoting(d, r)
             /\ applied[r] # <<>> => call'[d].at \in {"wait", "record"} /\ rack'[d] = "done"
    BY <1>1 DEF Promoting, ClaimOK
  <1> QED
    BY <1>1, <1>11, <1>12, ClaimKept

(***************************************************************************)
(* Steps of calls                                                          *)
(***************************************************************************)
\* A call begins before its claim, so it isn't promoting yet.
LEMMA BeginClaim ==
    ASSUME ShapeOK, NEW c \in Call, BeginCall(c), NEW r \in Request, ClaimOK(r)
    PROVE  ClaimOK(r)'
  <1>1. UNCHANGED <<approval, rack, applied>>
    BY DEF BeginCall, BeginUpload, BeginDirectUpload, BeginBuild, BeginDirectBuild, BeginRead,
           BeginPromote, Begin, rackVars
  <1> DEFINE Fresh == /\ call'[c].kind = "promote" => call'[c].at = "claim"
                      /\ \A d \in Call \ {c} : call'[d] = call[d] /\ rack'[d] = rack[d]
  <1>2. Fresh
    <2>1. ASSUME NEW kind, NEW label, NEW q, NEW k, NEW a, NEW b,
                 Begin(c, kind, label, q, k, a, b), kind = "promote" => label = "claim"
          PROVE  Fresh
      BY <2>1 DEF Begin, ShapeOK, TypeOK
    <2>2. CASE \E k \in Key, a \in Commit : BeginUpload(c, k, a) \/ BeginDirectUpload(c, k, a)
      BY <2>1, <2>2 DEF BeginUpload, BeginDirectUpload
    <2>3. CASE \E k \in Key : BeginDirectBuild(c, k) \/ \E q \in Request : BeginBuild(c, k, q)
      BY <2>1, <2>3 DEF BeginDirectBuild, BeginBuild
    <2>4. CASE \E q \in Request : BeginRead(c, q)
      BY <2>1, <2>4 DEF BeginRead
    <2>5. CASE \E b \in Build : BeginPromote(c, b)
      BY <2>1, <2>5 DEF BeginPromote
    <2> QED
      BY <2>2, <2>3, <2>4, <2>5 DEF BeginCall
  <1>3. ~Promoting(c, r)'
    BY <1>2 DEF Promoting
  <1> QED
    BY <1>1, <1>2, <1>3, ClaimKeptByCall DEF ClaimOK, ClaimStatus

\* Uploads, builds and reads have nothing to do with the promote claim.
LEMMA OtherKindsClaim ==
    ASSUME ShapeOK, NEW c \in Call, NEW r \in Request, ClaimOK(r),
           \/ ClaimKey(c) \/ ClaimUpload(c) \/ ClaimBuild(c) \/ CheckKey(c) \/ Verify(c)
           \/ MarkObjectUploaded(c) \/ RecordUpload(c) \/ RecordBuild(c) \/ RecordRead(c)
    PROVE  ClaimOK(r)'
  <1>1. call[c].kind \in {"upload", "build", "read"} /\ call[c] \in CallState
    BY DEF ClaimKey, ClaimUpload, ClaimBuild, CheckKey, Verify, MarkObjectUploaded, RecordUpload,
           RecordBuild, RecordRead, At, ShapeOK, TypeOK
  <1>2. applied' = applied
    BY DEF ClaimKey, ClaimUpload, ClaimBuild, CheckKey, Verify, MarkObjectUploaded, RecordUpload,
           RecordBuild, RecordRead, rackVars
  <1>3. /\ call'[c].kind # "promote"
        /\ \A d \in Call \ {c} : call'[d] = call[d] /\ rack'[d] = rack[d]
    <2>1. CASE End(c)
      BY <1>1, <2>1 DEF End, Idle, ShapeOK, TypeOK, CallState
    <2>2. ASSUME NEW label, Goto(c, label), rack' = rack
          PROVE  /\ call'[c].kind # "promote"
                 /\ \A d \in Call \ {c} : call'[d] = call[d] /\ rack'[d] = rack[d]
      BY <1>1, <2>2, GotoPromoting
    <2>3. CASE Verify(c)
      BY <1>1, <2>3 DEF Verify, Goto, ShapeOK, TypeOK, CallState
    <2> QED
      BY <2>1, <2>2, <2>3
      DEF ClaimKey, ClaimUpload, ClaimBuild, CheckKey, MarkObjectUploaded, RecordUpload,
          RecordBuild, RecordRead
  <1>4. /\ approval'[r].promoteStarted = approval[r].promoteStarted
        /\ approval'[r].status = approval[r].status
    <2>1. approval[r] \in Row /\ approval \in [Request -> Row]
      BY DEF ShapeOK, TypeOK
    <2>2. CASE approval' = approval
      BY <2>2
    <2>3. CASE ClaimUpload(c)
      BY <2>1, <2>3 DEF ClaimUpload, ClaimedUpload, Row
    <2>4. CASE ClaimBuild(c)
      BY <2>1, <2>4 DEF ClaimBuild, ClaimedBuild, Row
    <2>5. CASE RecordUpload(c)
      BY <2>1, <2>5 DEF RecordUpload, ConfirmedUpload, Row
    <2>6. CASE RecordBuild(c)
      <3>1. PICK rel : approval' = [approval EXCEPT ![call[c].req] =
                                      RecordedBuild(@, call[c].build, rel)]
        BY <2>6 DEF RecordBuild
      <3> QED
        BY <2>1, <3>1 DEF RecordedBuild, Row
    <2>7. CASE RecordRead(c)
      BY <2>1, <2>7 DEF RecordRead, RecordedBuild, Row
    <2> QED
      BY <2>2, <2>3, <2>4, <2>5, <2>6, <2>7 DEF ClaimKey, CheckKey, Verify, MarkObjectUploaded
  <1>5. ~Promoting(c, r)'
    BY <1>3 DEF Promoting
  <1> QED
    BY <1>2, <1>3, <1>4, <1>5, ClaimKeptByCall DEF ClaimOK, ClaimStatus

\* Only an approval without a claim, hence without a promote, gives one.
LEMMA ClaimPromoteClaim ==
    ASSUME ShapeOK, NEW c \in Call, ClaimPromote(c), NEW r \in Request, ClaimOK(r)
    PROVE  ClaimOK(r)'
  <1> DEFINE q == call[c].req
  <1>1. /\ At(c, "promote", "claim") /\ CanClaimPromote(approval[q])
        /\ approval' = [approval EXCEPT ![q] = ClaimedPromote(@)]
        /\ Goto(c, "send") /\ rack' = rack /\ applied' = applied
    BY DEF ClaimPromote, rackVars
  <1>2. approval[r] \in Row /\ approval \in [Request -> Row]
    BY DEF ShapeOK, TypeOK
  <1>3. /\ call'[c].kind = "promote" /\ call'[c].req = q /\ call'[c].at = "send"
        /\ \A d \in Call \ {c} : call'[d] = call[d] /\ rack'[d] = rack[d]
    BY <1>1, GotoPromoting DEF At
  <1>4. CASE r # q
    <2>1. approval'[r] = approval[r] /\ ~Promoting(c, r)'
      BY <1>1, <1>2, <1>3, <1>4 DEF Promoting
    <2> QED
      BY <1>1, <1>3, <2>1, ClaimKeptByCall DEF ClaimOK, ClaimStatus
  <1>5. CASE r = q
    <2>1. approval'[r] = ClaimedPromote(approval[r])
      BY <1>1, <1>2, <1>5
    <2>2. approval'[r].promoteStarted /\ approval'[r].status = "approved"
      BY <1>1, <1>2, <1>5, <2>1 DEF ClaimedPromote, CanClaimPromote, Authorizes, Row
    <2>3. ~approval[r].promoteStarted
      BY <1>1, <1>5 DEF CanClaimPromote
    <2>4. applied'[r] = <<>> /\ \A d \in Call : ~Promoting(d, r)
      BY <1>1, <2>3 DEF ClaimOK
    <2>5. \A d \in Call : Promoting(d, r)' => d = c
      BY <1>3, <2>4 DEF Promoting
    <2> QED
      BY <2>2, <2>4, <2>5 DEF ClaimOK
  <1> QED
    BY <1>4, <1>5

\* Sending a call, and the end of waiting for it: an applied promote only comes to be recorded.
LEMMA SendClaim ==
    ASSUME ShapeOK, NEW c \in Call, NEW r \in Request, ClaimOK(r),
           Send(c) \/ NotSent(c) \/ Answer(c)
    PROVE  ClaimOK(r)'
  <1>1. applied' = applied /\ approval' = approval
    BY DEF Send, NotSent, Answer, rackVars
  <1>2. PICK label \in Label : Goto(c, label)
    BY DEF Send, NotSent, Answer, Label
  <1>3. /\ call'[c].kind = call[c].kind /\ call'[c].req = call[c].req /\ call'[c].at = label
        /\ \A d \in Call \ {c} : call'[d] = call[d] /\ rack'[d] = rack[d]
    BY <1>2 DEF Send, NotSent, Answer, Goto, ShapeOK, TypeOK, CallState
  <1>4. ASSUME Promoting(c, r)'
        PROVE  /\ Promoting(c, r)
               /\ applied[r] # <<>> => call'[c].at \in {"wait", "record"} /\ rack'[c] = "done"
    <2>1. call[c].kind = "promote" /\ call[c].req = r /\ CallOK(c)
      BY <1>3, <1>4 DEF Promoting, ShapeOK
    <2>2. call[c].at \in {"send", "wait"}
      BY <2>1 DEF Send, NotSent, Answer, CallOK
    <2>3. Promoting(c, r)
      BY <2>1, <2>2 DEF Promoting
    <2>4. ASSUME applied[r] # <<>>
          PROVE  call'[c].at \in {"wait", "record"} /\ rack'[c] = "done"
      <3>1. call[c].at = "wait" /\ rack[c] = "done"
        BY <2>2, <2>3, <2>4 DEF ClaimOK
      <3>2. Answer(c)
        BY <3>1 DEF Send, NotSent
      <3>3. rack' = rack /\ Goto(c, "record")
        BY <2>1, <3>1, <3>2 DEF Answer
      <3> QED
        BY <3>1, <3>3 DEF Goto, ShapeOK, TypeOK, CallState
    <2> QED
      BY <2>3, <2>4
  <1> QED
    BY <1>1, <1>3, <1>4, ClaimKeptByCall DEF ClaimOK, ClaimStatus

\* A promote that ended without being refused leaves its claim; one the rack still works on goes on
\* holding it.
LEMMA EndClaim ==
    ASSUME ShapeOK, NEW c \in Call, NEW r \in Request, ClaimOK(r),
           GiveUp(c) \/ RecordNothing(c) \/ RefuseClaim(c) \/ Abandon(c)
    PROVE  ClaimOK(r)'
  <1>1. applied' = applied /\ approval' = approval /\ CallOK(c)
    BY DEF GiveUp, RecordNothing, RefuseClaim, Abandon, rackVars, ShapeOK
  <1>2. CASE End(c)
    <2>1. ASSUME Promoting(c, r)'
          PROVE  Promoting(c, r) /\ applied[r] = <<>>
      <3>1. call[c].kind = "promote" /\ call[c].req = r /\ rack[c] = "running"
        BY <1>2, <2>1, EndPromoting
      <3>2. Promoting(c, r)
        BY <3>1, RunningPromote
      <3> QED
        BY <3>1, <3>2 DEF ClaimOK
    <2> QED
      BY <1>1, <1>2, <2>1, EndPromoting, ClaimKeptByCall DEF ClaimOK, ClaimStatus
  <1>3. CASE call[c].kind # "promote" /\ Goto(c, "release") /\ rack' = rack
    <2>1. ~Promoting(c, r)' /\ \A d \in Call \ {c} : call'[d] = call[d] /\ rack'[d] = rack[d]
      BY <1>3, GotoPromoting DEF Promoting
    <2> QED
      BY <1>1, <2>1, ClaimKeptByCall DEF ClaimOK, ClaimStatus
  <1> QED
    BY <1>2, <1>3 DEF GiveUp, KeepsPromote, RecordNothing, RefuseClaim, Abandon

\* Marking a request deployed keeps its claim for good.
LEMMA RecordDeployedClaim ==
    ASSUME ShapeOK, NEW c \in Call, RecordDeployed(c), NEW r \in Request, ClaimOK(r)
    PROVE  ClaimOK(r)'
  <1>1. /\ applied' = applied /\ End(c) /\ rack[c] = "done"
        /\ approval' = [approval EXCEPT ![call[c].req] = MarkedDeployed(@)]
    BY DEF RecordDeployed, rackVars, At, ShapeOK, CallOK
  <1>2. approval[r] \in Row /\ approval \in [Request -> Row]
    BY DEF ShapeOK, TypeOK
  <1>3. /\ approval'[r].promoteStarted = approval[r].promoteStarted
        /\ approval'[r].promoteStarted => approval'[r].status \in ClaimStatus
    BY <1>1, <1>2 DEF MarkedDeployed, Row, ClaimOK, ClaimStatus
  <1>4. ~Promoting(c, r)' /\ \A d \in Call \ {c} : call'[d] = call[d] /\ rack'[d] = rack[d]
    BY <1>1, EndPromoting
  <1> QED
    BY <1>1, <1>3, <1>4, ClaimKeptByCall

\* A claim is freed by the one call that holds it, which the rack has refused or never seen.
LEMMA ReleaseClaim ==
    ASSUME ShapeOK, NEW c \in Call, Release(c), NEW r \in Request, ClaimOK(r)
    PROVE  ClaimOK(r)'
  <1> DEFINE q == call[c].req
  <1>1. applied' = applied /\ End(c) /\ CallOK(c) /\ call[c] \in CallState
    BY DEF Release, rackVars, ShapeOK, TypeOK
  <1>2. approval[r] \in Row /\ approval \in [Request -> Row]
    BY DEF ShapeOK, TypeOK
  <1>3. \A d \in Call \ {c} : call'[d] = call[d] /\ rack'[d] = rack[d]
    BY <1>1, EndPromoting
  <1>4. ~Promoting(c, r)'
    <2>1. call[c].kind = "promote" => rack[c] # "running"
      BY <1>1 DEF Release, CallOK
    <2> QED
      BY <1>1, <2>1, EndPromoting
  <1>5. CASE r = q /\ call[c].kind = "promote"
    <2>1. Promoting(c, r)
      BY <1>5 DEF Release, Promoting
    <2>2. /\ applied[r] = <<>>
          /\ \A d \in Call : Promoting(d, r) => d = c
      BY <1>5, <2>1 DEF Release, ClaimOK
    <2>3. \A d \in Call : ~Promoting(d, r)'
      BY <1>3, <1>4, <2>2 DEF Promoting
    <2>4. approval'[r] = ReleasedPromote(approval[r])
      BY <1>2, <1>5, ConstantsAssumption DEF Release
    <2>5. approval'[r].promoteStarted => approval'[r].status \in ClaimStatus
      BY <1>2, <2>4 DEF ReleasedPromote, Row, ClaimStatus
    <2> QED
      BY <1>1, <2>2, <2>3, <2>5 DEF ClaimOK, ClaimStatus
  <1>6. CASE r # q \/ call[c].kind # "promote"
    <2>1. /\ approval'[r].promoteStarted = approval[r].promoteStarted
          /\ approval'[r].status = approval[r].status
      <3>1. CASE r # q
        BY <1>2, <3>1 DEF Release
      <3>2. CASE r = q /\ call[c].kind = "upload"
        <4>1. approval'[r] = ReleasedUpload(approval[r], call[c].key)
          BY <1>2, <3>2, ConstantsAssumption DEF Release
        <4> QED
          BY <1>2, <4>1 DEF ReleasedUpload, Row
      <3>3. CASE r = q /\ call[c].kind = "build"
        <4>1. approval'[r] = ReleasedBuild(approval[r])
          BY <1>2, <3>3, ConstantsAssumption DEF Release
        <4> QED
          BY <1>2, <4>1 DEF ReleasedBuild, Row
      <3>4. call[c].kind \in {"upload", "build", "promote"}
        BY <1>1 DEF Release, CallOK, CallState
      <3> QED
        BY <1>6, <3>1, <3>2, <3>3, <3>4
    <2> QED
      BY <1>1, <1>3, <1>4, <2>1, ClaimKeptByCall DEF ClaimOK, ClaimStatus
  <1> QED
    BY <1>5, <1>6

(***************************************************************************)
(* Steps of the rack                                                       *)
(***************************************************************************)
\* A call the rack is done with is the one it was, or none any more.
LEMMA RackEndsPromoting ==
    ASSUME ShapeOK, NEW c \in Call, NEW result, NEW b, NEW r \in Request,
           RackEnds(c, result, [call[c] EXCEPT !.build = b])
    PROVE  /\ Promoting(c, r)' => /\ Promoting(c, r) /\ call'[c].at = call[c].at
                                  /\ rack'[c] = result /\ call[c].at # "gone"
           /\ \A d \in Call \ {c} : call'[d] = call[d] /\ rack'[d] = rack[d]
  <1>1. call[c] \in CallState /\ \A d \in Call \ {c} : call'[d] = call[d] /\ rack'[d] = rack[d]
    BY DEF RackEnds, ShapeOK, TypeOK
  <1>2. CASE call[c].at = "gone"
    <2>1. call'[c] = Idle
      BY <1>2 DEF RackEnds, ShapeOK, TypeOK
    <2> QED
      BY <1>1, <2>1 DEF Promoting, Idle
  <1>3. CASE call[c].at # "gone"
    <2>1. call'[c] = [call[c] EXCEPT !.build = b] /\ rack'[c] = result
      BY <1>3 DEF RackEnds, ShapeOK, TypeOK
    <2>2. /\ call'[c].kind = call[c].kind /\ call'[c].req = call[c].req
          /\ call'[c].at = call[c].at
      BY <1>1, <2>1 DEF CallState
    <2> QED
      BY <1>1, <1>3, <2>1, <2>2 DEF Promoting
  <1> QED
    BY <1>2, <1>3

\* The rack applies a promote for the one call that holds the claim, and no other before.
LEMMA RackPromotesClaim ==
    ASSUME ShapeOK, NEW c \in Call, RackPromotes(c), NEW r \in Request, ClaimOK(r)
    PROVE  ClaimOK(r)'
  <1> DEFINE q == call[c].req
  <1>1. /\ call[c].kind = "promote" /\ rack[c] = "running" /\ call[c] \in CallState
        /\ approval' = approval
        /\ applied' = [applied EXCEPT ![q] = Append(@, call[c].build)]
    BY DEF RackPromotes, RackEnds, ShapeOK, TypeOK
  <1>2. q \in Request /\ call[c].build \in Build /\ call[c].at \in {"wait", "gone"}
        /\ Promoting(c, q)
    BY <1>1, RunningPromote DEF ShapeOK, CallOK
  <1>3. RackEnds(c, "done", [call[c] EXCEPT !.build = call[c].build])
    BY <1>1 DEF RackPromotes, CallState
  <1>4. /\ Promoting(c, r)' => /\ Promoting(c, r) /\ call'[c].at = call[c].at
                               /\ rack'[c] = "done" /\ call[c].at # "gone"
        /\ \A d \in Call \ {c} : call'[d] = call[d] /\ rack'[d] = rack[d]
    BY <1>3, RackEndsPromoting
  <1>5. applied \in [Request -> Seq(Build)]
    BY DEF ShapeOK, TypeOK
  <1>6. CASE r # q
    <2>1. applied'[r] = applied[r] /\ ~Promoting(c, r)'
      BY <1>1, <1>2, <1>4, <1>5, <1>6 DEF Promoting
    <2> QED
      BY <1>1, <1>4, <2>1, ClaimKeptByCall DEF ClaimOK, ClaimStatus
  <1>7. CASE r = q
    <2>1. applied[r] = <<>>
      BY <1>1, <1>2, <1>7 DEF ClaimOK
    <2>2. Len(applied'[r]) = 1
      BY <1>1, <1>2, <1>5, <1>7, <2>1
    <2>3. \A d \in Call : Promoting(d, r) => d = c
      BY <1>2, <1>7 DEF ClaimOK
    <2>4. \A d \in Call : Promoting(d, r)' =>
            /\ d = c
            /\ call'[d].at \in {"wait", "record"} /\ rack'[d] = "done"
      BY <1>2, <1>4, <2>3 DEF Promoting
    <2> QED
      BY <1>1, <1>2, <1>7, <2>2, <2>4 DEF ClaimOK
  <1> QED
    BY <1>6, <1>7

\* No step of the rack takes or frees a claim.
LEMMA RackClaim ==
    ASSUME ShapeOK, NEW c \in Call, RackWorks(c), NEW r \in Request, ClaimOK(r)
    PROVE  ClaimOK(r)'
  <1>1. CASE RackPromotes(c)
    BY <1>1, RackPromotesClaim
  <1>2. CASE RackStores(c) \/ RackRefuses(c) \/ \E b \in Build : RackBuilds(c, b)
    <2>1. call[c] = [call[c] EXCEPT !.build = call[c].build]
      BY DEF ShapeOK, TypeOK, CallState
    <2>2. PICK result \in {"done", "refused"}, b \in Build \cup {call[c].build} :
             RackEnds(c, result, [call[c] EXCEPT !.build = b])
      BY <1>2, <2>1 DEF RackStores, RackRefuses, RackBuilds
    <2>3. applied' = applied /\ approval' = approval /\ rack[c] = "running"
      BY <1>2 DEF RackStores, RackRefuses, RackBuilds, RackEnds, rackVars
    <2>4. Promoting(c, r) => applied[r] = <<>>
      BY <2>3 DEF ClaimOK
    <2> QED
      BY <2>2, <2>3, <2>4, RackEndsPromoting, ClaimKeptByCall DEF ClaimOK, ClaimStatus
  <1> QED
    BY <1>1, <1>2 DEF RackWorks

(***************************************************************************)
(* The theorems                                                            *)
(***************************************************************************)

\* There are no claims and no promotes at first.
LEMMA InitClaim == Init => \A r \in Request : ClaimOK(r)
  BY DEF Init, ClaimOK, Promoting, Idle, NoRow

\* The claim's invariant is inductive: every step keeps it, given the shape of the state.
LEMMA ClaimStep == ShapeOK /\ (\A r \in Request : ClaimOK(r)) /\ [Next]_vars =>
                     \A r \in Request : ClaimOK(r)'
  <1> SUFFICES ASSUME ShapeOK, [Next]_vars, NEW r \in Request, ClaimOK(r)
               PROVE  ClaimOK(r)'
    OBVIOUS
  <1>1. CASE Decide
    BY <1>1, DecideClaim
  <1>2. ASSUME NEW c \in Call, BeginCall(c) PROVE ClaimOK(r)'
    BY <1>2, BeginClaim
  <1>3. ASSUME NEW c \in Call, Handle(c) PROVE ClaimOK(r)'
    BY <1>3, OtherKindsClaim, ClaimPromoteClaim, SendClaim, EndClaim, RecordDeployedClaim,
       ReleaseClaim
    DEF Handle
  <1>4. ASSUME NEW c \in Call, Abandon(c) PROVE ClaimOK(r)'
    BY <1>4, EndClaim
  <1>5. ASSUME NEW c \in Call, RackWorks(c) PROVE ClaimOK(r)'
    BY <1>5, RackClaim
  <1>6. ASSUME NEW b \in Build, RackFinishesBuild(b) PROVE ClaimOK(r)'
    BY <1>6 DEF RackFinishesBuild, gatewayVars, ClaimOK, Promoting
  <1>7. CASE UNCHANGED vars
    BY <1>7 DEF vars, ClaimOK, Promoting
  <1> QED
    BY <1>1, <1>2, <1>3, <1>4, <1>5, <1>6, <1>7 DEF Next

\* The invariant behind the claim: in every reachable state, whatever was lost, timed out or died,
\* an approval's promote claim stands for the one call that may have its promote at the rack.
THEOREM ClaimInvariant == Spec => []IInv
  <1>1. Init => IInv
    BY InitShape, InitClaim DEF IInv
  <1>2. IInv /\ [Next]_vars => IInv'
    BY ShapeStep, ClaimStep DEF IInv
  <1> QED
    BY <1>1, <1>2, PTL DEF Spec

\* The rack applies at most one promote under an approval, whatever timeouts, failed writes, dying
\* gateways, extensions and concurrent promotes came between.
THEOREM AtMostOnePromote == Spec => []OnePromoteApplied
  <1>1. ASSUME IInv, NEW r \in Request PROVE Len(applied[r]) <= 1
    <2>1. CASE applied[r] = <<>>
      <3>1. Len(applied[r]) = 0
        BY <2>1
      <3> QED
        BY <3>1
    <2>2. CASE applied[r] # <<>>
      <3>1. Len(applied[r]) = 1
        BY <1>1, <2>2 DEF IInv, ClaimOK
      <3> QED
        BY <3>1
    <2> QED
      BY <2>1, <2>2
  <1>2. IInv => OnePromoteApplied
    BY <1>1 DEF OnePromoteApplied
  <1> QED
    BY <1>2, ClaimInvariant, PTL

\* When the promote claim can be taken, no promote of the approval is anywhere on its way and none
\* was applied: releasing the claim never opens a second promote.
THEOREM ReleaseIsSafe == Spec => []FreeClaimMeansNoPromote
  <1>1. IInv => FreeClaimMeansNoPromote
    BY DEF IInv, ClaimOK, FreeClaimMeansNoPromote
  <1> QED
    BY <1>1, ClaimInvariant, PTL

\* A rejected request never had a promote and has none on its way: rejecting waits for the promote
\* claim to be free.
THEOREM RejectionHolds == Spec => []RejectedNeverPromoted
  <1>1. IInv => RejectedNeverPromoted
    BY DEF IInv, ClaimOK, RejectedNeverPromoted
  <1> QED
    BY <1>1, ClaimInvariant, PTL
=============================================================================
