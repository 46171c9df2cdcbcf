--------------------------- MODULE Promise_proofs ---------------------------
(***************************************************************************)
(* DeployApproval implements DeployPromise: every step of the gateway, of  *)
(* the people who decide and of the rack is a step of the promise, or      *)
(* changes nothing that was promised.                                      *)
(***************************************************************************)
EXTENDS DeployApproval_proofs

\* r's promote is at the rack, in call c.
Runs(c, r) == call[c].kind = "promote" /\ call[c].req = r /\ rack[c] = "running"

(***************************************************************************)
(* Frames                                                                  *)
(***************************************************************************)
\* A handler that ends doesn't disturb its promote at the rack, and brings up no answer.
LEMMA EndRuns ==
    ASSUME ShapeOK, NEW c \in Call, NEW r \in Request, End(c), NEW d \in Call
    PROVE  (Runs(d, r)' <=> Runs(d, r)) /\ (Answered(d, r)' => Answered(d, r))
  <1>1. CASE d # c
    BY <1>1, EndPromoting DEF Runs, Answered
  <1>2. CASE d = c /\ rack[c] = "running"
    <2>1. call'[c] = [call[c] EXCEPT !.at = "gone"] /\ call[c] \in CallState /\ rack'[c] = "running"
      BY <1>2 DEF End, ShapeOK, TypeOK
    <2> QED
      BY <1>2, <2>1 DEF Runs, Answered, CallState
  <1>3. CASE d = c /\ rack[c] # "running"
    <2>1. call'[c] = Idle /\ rack'[c] = "none"
      BY <1>3 DEF End, ShapeOK, TypeOK
    <2> QED
      BY <1>3, <2>1 DEF Runs, Answered, Idle
  <1> QED
    BY <1>1, <1>2, <1>3

\* Of a handler's steps only sending brings up a promote at the rack, and none brings up an answer.
LEMMA HandleRuns ==
    ASSUME ShapeOK, NEW c \in Call, Handle(c) \/ Abandon(c), ~Send(c), NEW r \in Request, NEW d \in Call
    PROVE  (Runs(d, r)' <=> Runs(d, r)) /\ (Answered(d, r)' => Answered(d, r))
  <1>1. CASE End(c)
    BY <1>1, EndRuns
  <1>2. ASSUME NEW label, Goto(c, label), rack' = rack
        PROVE  (Runs(d, r)' <=> Runs(d, r)) /\ (Answered(d, r)' => Answered(d, r))
    <2>1. call'[d].kind = call[d].kind /\ call'[d].req = call[d].req
      BY <1>2, GotoPromoting
    <2> QED
      BY <1>2, <2>1 DEF Runs, Answered
  <1>3. CASE Verify(c)
    <2>1. rack' = rack /\ call \in [Call -> CallState]
      BY <1>3 DEF Verify, ShapeOK, TypeOK
    <2>2. call'[d].kind = call[d].kind /\ call'[d].req = call[d].req
      <3>1. CASE d # c
        BY <1>3, <2>1, <3>1 DEF Verify, Goto
      <3>2. CASE d = c
        <4>1. CASE call' = [call EXCEPT ![c].at = "send", ![c].archive = stored[call[c].key]]
          BY <2>1, <3>2, <4>1 DEF CallState
        <4>2. CASE Goto(c, "release")
          BY <2>1, <3>2, <4>2 DEF Goto, CallState
        <4> QED
          BY <1>3, <4>1, <4>2 DEF Verify
      <3> QED
        BY <3>1, <3>2
    <2> QED
      BY <2>1, <2>2 DEF Runs, Answered
  <1>4. CASE ClaimKey(c) \/ ClaimUpload(c) \/ ClaimBuild(c) \/ ClaimPromote(c) \/ RefuseClaim(c)
    BY <1>1, <1>2, <1>4 DEF ClaimKey, ClaimUpload, ClaimBuild, ClaimPromote, RefuseClaim
  <1>5. CASE CheckKey(c) \/ NotSent(c) \/ Answer(c) \/ GiveUp(c)
    BY <1>1, <1>2, <1>5 DEF CheckKey, NotSent, Answer, GiveUp, KeepsPromote
  <1>6. CASE \/ MarkObjectUploaded(c) \/ RecordUpload(c) \/ RecordBuild(c) \/ RecordRead(c)
             \/ RecordDeployed(c) \/ RecordNothing(c) \/ Release(c) \/ Abandon(c)
    BY <1>1, <1>2, <1>6
    DEF MarkObjectUploaded, RecordUpload, RecordBuild, RecordRead, RecordDeployed, RecordNothing,
        Release, Abandon
  <1> QED
    BY <1>3, <1>4, <1>5, <1>6 DEF Handle

\* A call begins without a request at the rack.
LEMMA BeginRuns ==
    ASSUME ShapeOK, NEW c \in Call, BeginCall(c), NEW r \in Request, NEW d \in Call
    PROVE  (Runs(d, r)' <=> Runs(d, r)) /\ (Answered(d, r)' => Answered(d, r))
  <1>1. call[c] = Idle /\ rack' = rack /\ \A e \in Call \ {c} : call'[e] = call[e]
    BY DEF BeginCall, BeginUpload, BeginDirectUpload, BeginBuild, BeginDirectBuild, BeginRead,
           BeginPromote, Begin, ShapeOK, TypeOK
  <1>2. rack[c] = "none"
    BY <1>1 DEF Idle, ShapeOK, CallOK
  <1> QED
    BY <1>1, <1>2 DEF Runs, Answered

\* With the same calls at the rack and the same applied promotes, a request's promote is what it was.
LEMMA PromoteKept ==
    ASSUME NEW r \in Request, applied'[r] = applied[r],
           \A d \in Call : Runs(d, r)' <=> Runs(d, r)
    PROVE  PromoteOf(r)' = PromoteOf(r)
  <1>1. PromoteRunning(r)' <=> PromoteRunning(r)
    BY DEF PromoteRunning, Runs
  <1> QED
    BY <1>1 DEF PromoteOf

\* What people have been told of a request, by its row.
LEMMA Standings ==
    ASSUME NEW row
    PROVE  /\ row.status = "deployed" => Standing(row) = "deployed"
           /\ row.status = "rejected" => Standing(row) = "withdrawn"
           /\ row.status = "expired" /\ ~row.approved => Standing(row) = "withdrawn"
           /\ row.status \in {"approved", "expired"} /\ row.approved => Standing(row) = "granted"
           /\ row.status \in {"none", "pending"} => Standing(row) = "waiting"
  BY DEF Standing

\* A promote that is about to be sent was granted, and is the first.
LEMMA SendingIsGranted ==
    ASSUME PromiseInv, NEW c \in Call, NEW r \in Request, Promoting(c, r), call[c].at = "send"
    PROVE  Standing(approval[r]) = "granted" /\ PromoteOf(r) = "none"
  <1>1. ShapeOK /\ ClaimOK(r) /\ GrantOK(approval[r]) /\ ReportOK(r) /\ CallOK(c)
    BY DEF PromiseInv, IInv, ShapeOK
  <1>2. applied[r] = <<>>
    BY <1>1 DEF ClaimOK
  <1>3. approval[r].status \in {"approved", "expired"} /\ approval[r].approved
    BY <1>1, <1>2 DEF ClaimOK, GrantOK, ReportOK
  <1>4. ASSUME NEW d \in Call, Runs(d, r) PROVE FALSE
    <2>1. Promoting(d, r)
      BY <1>1, <1>4, RunningPromote DEF Runs
    <2>2. d = c
      BY <1>1, <2>1 DEF ClaimOK
    <2> QED
      BY <1>1, <1>4, <2>2 DEF Runs, CallOK
  <1>5. ~PromoteRunning(r)
    BY <1>4 DEF PromoteRunning, Runs
  <1> QED
    BY <1>2, <1>3, <1>5, Standings DEF PromoteOf

\* Without a claim there is no promote to withdraw a request under.
LEMMA NoClaimNoPromote ==
    ASSUME PromiseInv, NEW r \in Request, ~approval[r].promoteStarted
    PROVE  PromoteOf(r) = "none"
  <1>1. applied[r] = <<>> /\ \A c \in Call : ~Promoting(c, r)
    BY DEF PromiseInv, IInv, ClaimOK
  <1>2. ~PromoteRunning(r)
    BY <1>1, RunningPromote DEF PromoteRunning, PromiseInv, IInv
  <1> QED
    BY <1>1, <1>2 DEF PromoteOf

(***************************************************************************)
(* Steps of the promise                                                    *)
(***************************************************************************)
PromiseStep == [Promise!PromiseNext]_(Promise!promiseVars)

StandingKept == \A r \in Request : Standing(approval'[r]) = Standing(approval[r])
PromotesKept == \A r \in Request : PromoteOf(r)' = PromoteOf(r)

\* A step that changes nothing that was promised.
LEMMA Stutter == ASSUME StandingKept, PromotesKept PROVE PromiseStep
  BY DEF StandingKept, PromotesKept, PromiseStep, Promise!promiseVars

\* A step that grants one request.
LEMMA GrantStep ==
    ASSUME PromotesKept, NEW q \in Request,
           Standing(approval[q]) = "waiting", Standing(approval'[q]) = "granted",
           \A r \in Request \ {q} : Standing(approval'[r]) = Standing(approval[r])
    PROVE  PromiseStep
  <1>1. Promise!Grant(q)
    BY DEF Promise!Grant, PromotesKept
  <1> QED
    BY <1>1 DEF PromiseStep, Promise!PromiseNext

\* A step that withdraws requests under which there is no promote.
LEMMA WithdrawStep ==
    ASSUME PromotesKept, NEW W \in SUBSET Request,
           \A r \in W : /\ Standing(approval[r]) \in {"waiting", "granted"}
                        /\ PromoteOf(r) = "none"
                        /\ Standing(approval'[r]) = "withdrawn",
           \A r \in Request \ W : Standing(approval'[r]) = Standing(approval[r])
    PROVE  PromiseStep
  <1>1. Promise!Withdraw(W)
    BY DEF Promise!Withdraw, PromotesKept
  <1> QED
    BY <1>1 DEF PromiseStep, Promise!PromiseNext

\* A step of one request's promote: it is sent, refused, or applied.
LEMMA PromoteStep ==
    ASSUME StandingKept, NEW q \in Request,
           \/ /\ Standing(approval[q]) = "granted"
              /\ PromoteOf(q) = "none" /\ PromoteOf(q)' = "running"
           \/ PromoteOf(q) = "running" /\ PromoteOf(q)' \in {"none", "applied"},
           \A r \in Request \ {q} : PromoteOf(r)' = PromoteOf(r)
    PROVE  PromiseStep
  <1>1. CASE PromoteOf(q) = "none"
    <2>1. Promise!Start(q)
      BY <1>1 DEF Promise!Start, StandingKept
    <2> QED
      BY <2>1 DEF PromiseStep, Promise!PromiseNext
  <1>2. CASE PromoteOf(q)' = "none" /\ PromoteOf(q) = "running"
    <2>1. Promise!Cancel(q)
      BY <1>2 DEF Promise!Cancel, StandingKept
    <2> QED
      BY <2>1 DEF PromiseStep, Promise!PromiseNext
  <1>3. CASE PromoteOf(q)' = "applied" /\ PromoteOf(q) = "running"
    <2>1. Promise!Apply(q)
      BY <1>3 DEF Promise!Apply, StandingKept
    <2> QED
      BY <2>1 DEF PromiseStep, Promise!PromiseNext
  <1> QED
    BY <1>1, <1>2, <1>3

\* A step that reports a request deployed.
LEMMA ReportStep ==
    ASSUME PromotesKept, NEW q \in Request,
           Standing(approval[q]) = "granted", Standing(approval'[q]) = "deployed",
           PromoteOf(q) = "applied",
           \A r \in Request \ {q} : Standing(approval'[r]) = Standing(approval[r])
    PROVE  PromiseStep
  <1>1. Promise!Report(q)
    BY DEF Promise!Report, PromotesKept
  <1> QED
    BY <1>1 DEF PromiseStep, Promise!PromiseNext

(***************************************************************************)
(* Decisions                                                               *)
(***************************************************************************)
\* What a decision makes of a row, for those who asked for it.
LEMMA DecidedRows ==
    ASSUME NEW row \in Row, GrantOK(row)
    PROVE  /\ Due(row) => /\ GrantOK(Expired(row))
                          /\ row.status = "pending" => Standing(Expired(row)) = "withdrawn"
                          /\ row.status # "pending" => Standing(Expired(row)) = Standing(row)
           /\ CanApprove(row) => /\ GrantOK(Approved(row))
                                 /\ Standing(row) = "waiting" /\ Standing(Approved(row)) = "granted"
           /\ CanReject(row) => /\ GrantOK(Rejected(row))
                                /\ Standing(row) \in {"waiting", "granted"}
                                /\ Standing(Rejected(row)) = "withdrawn"
           /\ CanExtend(row) => GrantOK(Extended(row)) /\ Standing(Extended(row)) = Standing(row)
           /\ LET new == [row EXCEPT !.lapsed = TRUE] IN GrantOK(new) /\ Standing(new) = Standing(row)
  <1> USE DEF GrantOK, Standing
  <1>1. Due(row) => /\ GrantOK(Expired(row))
                    /\ row.status = "pending" => Standing(Expired(row)) = "withdrawn"
                    /\ row.status # "pending" => Standing(Expired(row)) = Standing(row)
    <2>1. /\ Expired(row).status = "expired" /\ Expired(row).approved = row.approved
          /\ Expired(row).promoteStarted = row.promoteStarted
      BY DEF Expired, Row
    <2> QED
      BY <2>1 DEF Due, Active
  <1>2. CanApprove(row) => /\ GrantOK(Approved(row))
                           /\ Standing(row) = "waiting" /\ Standing(Approved(row)) = "granted"
    <2>1. Approved(row).status = "approved" /\ Approved(row).approved = TRUE
      BY DEF Approved, Row
    <2> QED
      BY <2>1 DEF CanApprove
  <1>3. CanReject(row) => /\ GrantOK(Rejected(row))
                          /\ Standing(row) \in {"waiting", "granted"}
                          /\ Standing(Rejected(row)) = "withdrawn"
    <2>1. /\ Rejected(row).status = "rejected"
          /\ Rejected(row).promoteStarted = row.promoteStarted
      BY DEF Rejected, Row
    <2> QED
      BY <2>1 DEF CanReject, Active
  <1>4. CanExtend(row) => GrantOK(Extended(row)) /\ Standing(Extended(row)) = Standing(row)
    <2>1. Extended(row).status = "approved" /\ Extended(row).approved = row.approved
      BY DEF Extended, Row
    <2> QED
      BY <2>1 DEF CanExtend
  <1>5. LET new == [row EXCEPT !.lapsed = TRUE] IN GrantOK(new) /\ Standing(new) = Standing(row)
    BY DEF Row
  <1> QED
    BY <1>1, <1>2, <1>3, <1>4, <1>5

\* A decision leaves the promotes alone, and a request granted or not.
LEMMA DecideGrants ==
    ASSUME PromiseInv, Decide, NEW r \in Request
    PROVE  GrantOK(approval'[r]) /\ ReportOK(r)' /\ PromoteOf(r)' = PromoteOf(r)
  <1>1. UNCHANGED <<call, rack, applied>>
    BY DEF Decide, AdmitCreate, InsertRequest, RefuseCreate, Approve, Reject, Extend, Lapse, Sweep,
           rackVars
  <1>2. PromoteOf(r)' = PromoteOf(r)
    BY <1>1, PromoteKept DEF Runs
  <1>3. approval \in [Request -> Row] /\ approval[r] \in Row /\ GrantOK(approval[r])
    BY DEF PromiseInv, IInv, ShapeOK, TypeOK
  <1> DEFINE Sound == /\ GrantOK(approval'[r])
                      /\ approval'[r].status = "deployed" => approval[r].status = "deployed"
  <1>4. ASSUME NEW S \in SUBSET DueRequests, approval' = ExpireRows(S) PROVE Sound
    <2>1. CASE r \in S
      <3>1. approval'[r] = Expired(approval[r]) /\ Due(approval[r])
        BY <1>4, <2>1 DEF ExpireRows, DueRequests
      <3>2. Expired(approval[r]).status = "expired"
        BY <1>3 DEF Expired, Row
      <3> QED
        BY <1>3, <3>1, <3>2, DecidedRows
    <2>2. CASE r \notin S
      BY <1>3, <1>4, <2>2 DEF ExpireRows
    <2> QED
      BY <2>1, <2>2
  <1>5. ASSUME NEW k \in Commit, InsertRequest(k) PROVE Sound
    <2>1. PICK s \in Request : approval' = [approval EXCEPT ![s] = NewRow(k)]
      BY <1>5 DEF InsertRequest
    <2>2. NewRow(k).status = "pending" /\ ~NewRow(k).approved /\ ~NewRow(k).promoteStarted
      BY DEF NewRow, NoRow
    <2>3. CASE r = s
      BY <1>3, <2>1, <2>2, <2>3 DEF GrantOK
    <2>4. CASE r # s
      BY <1>3, <2>1, <2>4
    <2> QED
      BY <2>3, <2>4
  <1>6. ASSUME NEW q \in Request, Approve(q) \/ Reject(q) \/ Extend(q) \/ Lapse(q) PROVE Sound
    <2>1. CASE r # q
      BY <1>3, <1>6, <2>1 DEF Approve, Reject, Extend, Lapse
    <2>2. CASE r = q /\ Approve(q)
      <3>1. approval'[r] = Approved(approval[r]) /\ CanApprove(approval[r])
        BY <1>3, <2>2 DEF Approve
      <3> QED
        BY <1>3, <3>1, DecidedRows DEF Approved, Row
    <2>3. CASE r = q /\ Reject(q)
      <3>1. approval'[r] = Rejected(approval[r]) /\ CanReject(approval[r])
        BY <1>3, <2>3 DEF Reject
      <3> QED
        BY <1>3, <3>1, DecidedRows DEF Rejected, Row
    <2>4. CASE r = q /\ Extend(q)
      <3>1. approval'[r] = Extended(approval[r]) /\ CanExtend(approval[r])
        BY <1>3, <2>4 DEF Extend
      <3> QED
        BY <1>3, <3>1, DecidedRows DEF Extended, Row
    <2>5. CASE r = q /\ Lapse(q)
      <3>1. approval'[r] = [approval[r] EXCEPT !.lapsed = TRUE]
        BY <1>3, <2>5 DEF Lapse, Row
      <3> QED
        BY <1>3, <3>1, DecidedRows DEF Row
    <2> QED
      BY <1>6, <2>1, <2>2, <2>3, <2>4, <2>5
  <1>7. ASSUME NEW k \in Commit, AdmitCreate(k) PROVE Sound
    BY <1>4, <1>7 DEF AdmitCreate
  <1>8. ASSUME NEW S \in SUBSET DueRequests, Sweep(S) PROVE Sound
    BY <1>4, <1>8 DEF Sweep
  <1>9. ASSUME NEW k \in Commit, RefuseCreate(k) PROVE Sound
    BY <1>3, <1>9 DEF RefuseCreate
  <1>10. Sound
    BY <1>5, <1>6, <1>7, <1>8, <1>9 DEF Decide
  <1>11. ReportOK(r)'
    BY <1>1, <1>10 DEF ReportOK, Answered, PromiseInv
  <1> QED
    BY <1>2, <1>10, <1>11

\* An expiry withdraws the requests it closes that were never granted.
LEMMA ExpiryIsPromised ==
    ASSUME PromiseInv, PromotesKept, NEW S \in SUBSET DueRequests, approval' = ExpireRows(S)
    PROVE  PromiseStep
  <1> DEFINE W == {r \in S : approval[r].status = "pending"}
  <1>1. \A r \in Request : approval[r] \in Row /\ GrantOK(approval[r])
    BY DEF PromiseInv, IInv, ShapeOK, TypeOK
  <1>2. \A r \in S : r \in Request /\ Due(approval[r]) /\ approval'[r] = Expired(approval[r])
    BY DEF ExpireRows, DueRequests
  <1>3. ASSUME NEW r \in W
        PROVE  /\ Standing(approval[r]) \in {"waiting", "granted"}
               /\ PromoteOf(r) = "none"
               /\ Standing(approval'[r]) = "withdrawn"
    <2>1. ~approval[r].promoteStarted /\ r \in Request
      BY <1>1, <1>2 DEF GrantOK
    <2> QED
      BY <1>1, <1>2, <2>1, DecidedRows, Standings, NoClaimNoPromote
  <1>4. ASSUME NEW r \in Request \ W PROVE Standing(approval'[r]) = Standing(approval[r])
    <2>1. CASE r \in S
      BY <1>1, <1>2, <2>1, DecidedRows
    <2>2. CASE r \notin S
      BY <2>2 DEF ExpireRows
    <2> QED
      BY <2>1, <2>2
  <1>5. W \in SUBSET Request
    BY <1>2
  <1> QED
    BY <1>3, <1>4, <1>5, WithdrawStep

\* A decision grants, withdraws, or changes nothing that was promised.
LEMMA DecidePromise == ASSUME PromiseInv, Decide PROVE PromiseStep
  <1>1. PromotesKept
    BY DecideGrants DEF PromotesKept
  <1>2. \A r \in Request : approval[r] \in Row /\ GrantOK(approval[r])
    BY DEF PromiseInv, IInv, ShapeOK, TypeOK
  <1>3. approval \in [Request -> Row]
    BY DEF PromiseInv, IInv, ShapeOK, TypeOK
  <1>4. ASSUME NEW k \in Commit, AdmitCreate(k) PROVE PromiseStep
    BY <1>1, <1>4, ExpiryIsPromised DEF AdmitCreate
  <1>5. ASSUME NEW S \in SUBSET DueRequests, Sweep(S) PROVE PromiseStep
    BY <1>1, <1>5, ExpiryIsPromised DEF Sweep
  <1>6. ASSUME NEW k \in Commit, InsertRequest(k) PROVE PromiseStep
    <2>1. PICK q \in Request \ Inserted : approval' = [approval EXCEPT ![q] = NewRow(k)]
      BY <1>6 DEF InsertRequest
    <2>2. approval[q].status = "none" /\ NewRow(k).status = "pending"
      BY DEF Inserted, NewRow, NoRow
    <2>3. Standing(approval[q]) = "waiting" /\ Standing(NewRow(k)) = "waiting"
      BY <2>2, Standings
    <2>4. StandingKept
      BY <1>3, <2>1, <2>3 DEF StandingKept
    <2> QED
      BY <1>1, <2>4, Stutter
  <1>7. ASSUME NEW k \in Commit, RefuseCreate(k) PROVE PromiseStep
    BY <1>1, <1>7, Stutter DEF RefuseCreate, StandingKept
  <1>8. ASSUME NEW q \in Request, Approve(q) PROVE PromiseStep
    <2>1. CanApprove(approval[q]) /\ approval' = [approval EXCEPT ![q] = Approved(@)]
      BY <1>8 DEF Approve
    <2>2. approval'[q] = Approved(approval[q]) /\ \A r \in Request \ {q} : approval'[r] = approval[r]
      BY <1>3, <2>1
    <2> QED
      BY <1>1, <1>2, <2>1, <2>2, DecidedRows, GrantStep
  <1>9. ASSUME NEW q \in Request, Reject(q) PROVE PromiseStep
    <2>1. CanReject(approval[q]) /\ approval' = [approval EXCEPT ![q] = Rejected(@)]
      BY <1>9 DEF Reject
    <2>2. approval'[q] = Rejected(approval[q]) /\ \A r \in Request \ {q} : approval'[r] = approval[r]
      BY <1>3, <2>1
    <2>3. PromoteOf(q) = "none"
      BY <2>1, NoClaimNoPromote DEF CanReject
    <2>4. approval[q] \in Row /\ GrantOK(approval[q])
      BY <1>2
    <2>5. /\ Standing(approval[q]) \in {"waiting", "granted"}
          /\ Standing(Rejected(approval[q])) = "withdrawn"
      BY <2>1, <2>4, DecidedRows
    <2>6. /\ \A r \in {q} : /\ Standing(approval[r]) \in {"waiting", "granted"}
                           /\ PromoteOf(r) = "none"
                           /\ Standing(approval'[r]) = "withdrawn"
          /\ \A r \in Request \ {q} : Standing(approval'[r]) = Standing(approval[r])
      BY <2>2, <2>3, <2>5
    <2> QED
      BY <1>1, <2>6, WithdrawStep
  <1>10. ASSUME NEW q \in Request, Extend(q) PROVE PromiseStep
    <2>1. CanExtend(approval[q]) /\ approval' = [approval EXCEPT ![q] = Extended(@)]
      BY <1>10 DEF Extend
    <2>2. approval'[q] = Extended(approval[q]) /\ \A r \in Request \ {q} : approval'[r] = approval[r]
      BY <1>3, <2>1
    <2>3. approval[q] \in Row /\ GrantOK(approval[q])
      BY <1>2
    <2>4. Standing(Extended(approval[q])) = Standing(approval[q])
      BY <2>1, <2>3, DecidedRows
    <2>5. StandingKept
      BY <2>2, <2>4 DEF StandingKept
    <2> QED
      BY <1>1, <2>5, Stutter
  <1>11. ASSUME NEW q \in Request, Lapse(q) PROVE PromiseStep
    <2>1. /\ approval'[q] = [approval[q] EXCEPT !.lapsed = TRUE]
          /\ \A r \in Request \ {q} : approval'[r] = approval[r]
      BY <1>3, <1>11 DEF Lapse, Row
    <2>2. StandingKept
      BY <1>2, <2>1, DecidedRows DEF StandingKept
    <2> QED
      BY <1>1, <2>2, Stutter
  <1> QED
    BY <1>4, <1>5, <1>6, <1>7, <1>8, <1>9, <1>10, <1>11 DEF Decide

(***************************************************************************)
(* Steps of calls                                                          *)
(***************************************************************************)
\* A row that keeps its status keeps its standing, and a claim is only taken of an approval.
LEMMA SameStanding ==
    ASSUME NEW row, NEW new, new.status = row.status, new.approved = row.approved,
           new.promoteStarted => row.promoteStarted \/ row.status = "approved"
    PROVE  Standing(new) = Standing(row) /\ (GrantOK(row) => GrantOK(new))
  BY DEF Standing, GrantOK

\* No step of a handler but the report of a deploy changes a request's status.
LEMMA HandleRows ==
    ASSUME ShapeOK, NEW c \in Call, Handle(c) \/ Abandon(c), ~RecordDeployed(c), NEW r \in Request
    PROVE  /\ approval'[r].status = approval[r].status
           /\ approval'[r].approved = approval[r].approved
           /\ approval'[r].promoteStarted =>
                 approval[r].promoteStarted \/ approval[r].status = "approved"
  <1> DEFINE Same == /\ approval'[r].status = approval[r].status
                     /\ approval'[r].approved = approval[r].approved
                     /\ approval'[r].promoteStarted =>
                           approval[r].promoteStarted \/ approval[r].status = "approved"
             q == call[c].req
  <1>1. approval[r] \in Row /\ approval \in [Request -> Row]
    BY DEF ShapeOK, TypeOK
  <1>2. CASE approval' = approval
    BY <1>2
  <1>3. CASE ClaimUpload(c)
    BY <1>1, <1>3 DEF ClaimUpload, ClaimedUpload, Row
  <1>4. CASE ClaimBuild(c)
    BY <1>1, <1>4 DEF ClaimBuild, ClaimedBuild, Row
  <1>5. CASE ClaimPromote(c)
    BY <1>1, <1>5 DEF ClaimPromote, ClaimedPromote, CanClaimPromote, Authorizes, Row
  <1>6. CASE RecordUpload(c)
    BY <1>1, <1>6 DEF RecordUpload, ConfirmedUpload, Row
  <1>7. CASE RecordBuild(c)
    <2>1. PICK rel : approval' = [approval EXCEPT ![q] = RecordedBuild(@, call[c].build, rel)]
      BY <1>7 DEF RecordBuild
    <2> QED
      BY <1>1, <2>1 DEF RecordedBuild, Row
  <1>8. CASE RecordRead(c)
    BY <1>1, <1>8 DEF RecordRead, RecordedBuild, Row
  <1>9. CASE Release(c)
    <2>1. CASE r # q
      BY <1>1, <1>9, <2>1 DEF Release
    <2>2. CASE r = q
      <3>1. call[c].kind \in {"upload", "build", "promote"}
        BY <1>9 DEF Release, ShapeOK, TypeOK, CallOK, CallState
      <3>2. approval'[r] \in {ReleasedUpload(approval[r], call[c].key), ReleasedBuild(approval[r]),
                              ReleasedPromote(approval[r])}
        BY <1>1, <1>9, <2>2, <3>1, ConstantsAssumption DEF Release
      <3> QED
        BY <1>1, <3>2 DEF ReleasedUpload, ReleasedBuild, ReleasedPromote, Row
    <2> QED
      BY <2>1, <2>2
  <1> QED
    BY <1>2, <1>3, <1>4, <1>5, <1>6, <1>7, <1>8, <1>9
    DEF Handle, Abandon, ClaimKey, RefuseClaim, CheckKey, Verify, Send, NotSent, Answer, GiveUp,
        MarkObjectUploaded, RecordNothing

\* A handler's step other than sending a call and reporting a deploy changes nothing promised.
LEMMA HandlePromise ==
    ASSUME PromiseInv, NEW c \in Call, Handle(c) \/ Abandon(c), ~Send(c), ~RecordDeployed(c)
    PROVE  PromiseStep /\ \A r \in Request : GrantOK(approval'[r]) /\ ReportOK(r)'
  <1>1. ShapeOK /\ applied' = applied
    BY DEF PromiseInv, IInv, Handle, Abandon, ClaimKey, ClaimUpload, ClaimBuild, ClaimPromote,
           RefuseClaim, CheckKey, Verify, NotSent, Answer, GiveUp, MarkObjectUploaded, RecordUpload,
           RecordBuild, RecordRead, RecordNothing, Release, rackVars
  <1>2. PromotesKept
    BY <1>1, HandleRuns, PromoteKept DEF PromotesKept
  <1>3. ASSUME NEW r \in Request
        PROVE  Standing(approval'[r]) = Standing(approval[r]) /\ GrantOK(approval'[r])
    <2>1. GrantOK(approval[r])
      BY DEF PromiseInv
    <2> QED
      BY <1>1, <2>1, HandleRows, SameStanding
  <1>4. ASSUME NEW r \in Request PROVE ReportOK(r)'
    <2>1. approval'[r].status = approval[r].status /\ ReportOK(r)
      BY <1>1, HandleRows DEF PromiseInv
    <2> QED
      BY <1>1, <2>1, HandleRuns DEF ReportOK
  <1> QED
    BY <1>2, <1>3, <1>4, Stutter DEF StandingKept

\* Sending an approval's promote starts it; sending anything else changes nothing promised.
LEMMA SendPromise ==
    ASSUME PromiseInv, NEW c \in Call, Send(c)
    PROVE  PromiseStep /\ \A r \in Request : GrantOK(approval'[r]) /\ ReportOK(r)'
  <1>1. ShapeOK /\ CallOK(c) /\ call[c].at = "send" /\ rack'[c] = "running"
        /\ approval' = approval /\ applied' = applied
        /\ call'[c].kind = call[c].kind /\ call'[c].req = call[c].req
        /\ \A d \in Call \ {c} : call'[d] = call[d] /\ rack'[d] = rack[d]
    BY DEF Send, Goto, PromiseInv, IInv, ShapeOK, TypeOK, CallState, rackVars
  <1>2. rack[c] = "none"
    BY <1>1 DEF CallOK
  <1>3. ASSUME NEW r \in Request PROVE GrantOK(approval'[r]) /\ ReportOK(r)'
    <2>1. ReportOK(r) /\ GrantOK(approval[r])
      BY DEF PromiseInv
    <2>2. \A d \in Call : Answered(d, r)' => Answered(d, r)
      BY <1>1 DEF Answered
    <2> QED
      BY <1>1, <2>1, <2>2 DEF ReportOK
  <1>4. StandingKept
    BY <1>1 DEF StandingKept
  <1>5. ASSUME NEW r \in Request, ~(call[c].kind = "promote" /\ call[c].req = r)
        PROVE  PromoteOf(r)' = PromoteOf(r)
    <2>1. \A d \in Call : Runs(d, r)' <=> Runs(d, r)
      BY <1>1, <1>5 DEF Runs
    <2> QED
      BY <1>1, <2>1, PromoteKept
  <1>6. CASE call[c].kind = "promote"
    <2>1. PICK q \in Request : call[c].req = q /\ Promoting(c, q)
      BY <1>1, <1>6 DEF CallOK, Promoting
    <2>2. Standing(approval[q]) = "granted" /\ PromoteOf(q) = "none"
      BY <1>1, <2>1, SendingIsGranted
    <2>3. applied[q] = <<>>
      BY <2>2 DEF PromoteOf
    <2>4. PromoteRunning(q)'
      BY <1>1, <1>6, <2>1 DEF PromoteRunning
    <2>5. PromoteOf(q)' = "running"
      BY <1>1, <2>3, <2>4 DEF PromoteOf
    <2> QED
      <3>1. \A r \in Request \ {q} : PromoteOf(r)' = PromoteOf(r)
        BY <1>5, <2>1
      <3> QED
        BY <1>3, <1>4, <2>2, <2>5, <3>1, PromoteStep
  <1>7. CASE call[c].kind # "promote"
    BY <1>3, <1>4, <1>5, <1>7, Stutter DEF PromotesKept
  <1> QED
    BY <1>6, <1>7

\* A request is reported deployed on the rack's answer that its promote was applied.
LEMMA RecordDeployedPromise ==
    ASSUME PromiseInv, NEW c \in Call, RecordDeployed(c)
    PROVE  PromiseStep /\ \A r \in Request : GrantOK(approval'[r]) /\ ReportOK(r)'
  <1> DEFINE q == call[c].req
  <1>1. ShapeOK /\ CallOK(c) /\ call[c].kind = "promote" /\ call[c].at = "record"
        /\ CanMarkDeployed(approval[q]) /\ approval' = [approval EXCEPT ![q] = MarkedDeployed(@)]
        /\ End(c) /\ applied' = applied
    BY DEF RecordDeployed, At, PromiseInv, IInv, ShapeOK, rackVars
  <1>2. q \in Request /\ rack[c] = "done" /\ Promoting(c, q)
    BY <1>1 DEF CallOK, Promoting
  <1>3. approval \in [Request -> Row] /\ GrantOK(approval[q]) /\ ReportOK(q) /\ ClaimOK(q)
    BY <1>1, <1>2 DEF PromiseInv, IInv, ShapeOK, TypeOK
  <1>4. applied[q] # <<>>
    BY <1>1, <1>2, <1>3 DEF ReportOK, Answered
  <1>5. approval[q].status \in {"approved", "expired"} /\ approval[q].approved
    BY <1>1, <1>2, <1>3 DEF CanMarkDeployed, ClaimOK, GrantOK
  <1>6. /\ approval'[q].status = "deployed"
        /\ approval'[q].approved = approval[q].approved
        /\ \A r \in Request \ {q} : approval'[r] = approval[r]
    BY <1>1, <1>2, <1>3 DEF MarkedDeployed, Row
  <1>7. ASSUME NEW r \in Request
        PROVE  PromoteOf(r)' = PromoteOf(r) /\ \A d \in Call : Answered(d, r)' => Answered(d, r)
    <2>1. \A d \in Call : (Runs(d, r)' <=> Runs(d, r)) /\ (Answered(d, r)' => Answered(d, r))
      BY <1>1, EndRuns
    <2> QED
      BY <1>1, <2>1, PromoteKept
  <1>8. ASSUME NEW r \in Request PROVE GrantOK(approval'[r]) /\ ReportOK(r)'
    <2>1. GrantOK(approval[r]) /\ ReportOK(r)
      BY DEF PromiseInv
    <2>2. GrantOK(approval'[r])
      BY <1>5, <1>6, <2>1 DEF GrantOK
    <2>3. ReportOK(r)'
      BY <1>1, <1>4, <1>6, <1>7, <2>1 DEF ReportOK
    <2> QED
      BY <2>2, <2>3
  <1>9. Standing(approval[q]) = "granted" /\ Standing(approval'[q]) = "deployed"
    BY <1>5, <1>6, Standings
  <1>10. PromoteOf(q) = "applied"
    BY <1>4 DEF PromoteOf
  <1>11. PromotesKept
    BY <1>7 DEF PromotesKept
  <1> QED
    BY <1>2, <1>6, <1>8, <1>9, <1>10, <1>11, ReportStep

\* A call that begins changes nothing promised.
LEMMA BeginPromise ==
    ASSUME PromiseInv, NEW c \in Call, BeginCall(c)
    PROVE  PromiseStep /\ \A r \in Request : GrantOK(approval'[r]) /\ ReportOK(r)'
  <1>1. ShapeOK /\ approval' = approval /\ applied' = applied
    BY DEF PromiseInv, IInv, BeginCall, BeginUpload, BeginDirectUpload, BeginBuild,
           BeginDirectBuild, BeginRead, BeginPromote, Begin, rackVars
  <1>2. ASSUME NEW r \in Request
        PROVE  PromoteOf(r)' = PromoteOf(r) /\ GrantOK(approval'[r]) /\ ReportOK(r)'
    <2>1. \A d \in Call : (Runs(d, r)' <=> Runs(d, r)) /\ (Answered(d, r)' => Answered(d, r))
      BY <1>1, BeginRuns
    <2>2. GrantOK(approval[r]) /\ ReportOK(r)
      BY DEF PromiseInv
    <2>3. PromoteOf(r)' = PromoteOf(r)
      BY <1>1, <2>1, PromoteKept
    <2>4. ReportOK(r)'
      BY <1>1, <2>1, <2>2 DEF ReportOK
    <2> QED
      BY <1>1, <2>2, <2>3, <2>4
  <1> QED
    BY <1>1, <1>2, Stutter DEF StandingKept, PromotesKept

(***************************************************************************)
(* Steps of the rack                                                       *)
(***************************************************************************)
\* A call the rack is done with runs no more, and its answer is the rack's result.
LEMMA RackEndsRuns ==
    ASSUME ShapeOK, NEW c \in Call, NEW result \in {"done", "refused"}, NEW b,
           RackEnds(c, result, [call[c] EXCEPT !.build = b]), NEW r \in Request
    PROVE  /\ ~Runs(c, r)'
           /\ Answered(c, r)' => call[c].kind = "promote" /\ call[c].req = r /\ result = "done"
           /\ \A d \in Call \ {c} : (Runs(d, r)' <=> Runs(d, r)) /\ (Answered(d, r)' <=> Answered(d, r))
  <1>1. call[c] \in CallState /\ \A d \in Call \ {c} : call'[d] = call[d] /\ rack'[d] = rack[d]
    BY DEF RackEnds, ShapeOK, TypeOK
  <1>2. CASE call[c].at = "gone"
    <2>1. call'[c] = Idle /\ rack'[c] = "none"
      BY <1>2 DEF RackEnds, ShapeOK, TypeOK
    <2> QED
      BY <1>1, <2>1 DEF Runs, Answered
  <1>3. CASE call[c].at # "gone"
    <2>1. call'[c] = [call[c] EXCEPT !.build = b] /\ rack'[c] = result
      BY <1>3 DEF RackEnds, ShapeOK, TypeOK
    <2>2. call'[c].kind = call[c].kind /\ call'[c].req = call[c].req
      BY <1>1, <2>1 DEF CallState
    <2> QED
      BY <1>1, <2>1, <2>2 DEF Runs, Answered
  <1> QED
    BY <1>2, <1>3

\* Each step of the rack applies a running promote, cancels it, or changes nothing promised.
LEMMA RackPromise ==
    ASSUME PromiseInv, NEW c \in Call, RackWorks(c)
    PROVE  PromiseStep /\ \A r \in Request : GrantOK(approval'[r]) /\ ReportOK(r)'
  <1>1. ShapeOK /\ CallOK(c) /\ approval' = approval /\ rack[c] = "running"
    BY DEF PromiseInv, IInv, ShapeOK, RackWorks, RackStores, RackPromotes, RackRefuses, RackBuilds,
           RackEnds
  <1>2. PICK result \in {"done", "refused"}, b \in Build \cup {call[c].build} :
           /\ RackEnds(c, result, [call[c] EXCEPT !.build = b])
           /\ call[c].kind = "promote" => \/ result = "done" /\ RackPromotes(c)
                                          \/ result = "refused" /\ RackRefuses(c)
    <2>1. call[c] = [call[c] EXCEPT !.build = call[c].build]
      BY <1>1 DEF ShapeOK, TypeOK, CallState
    <2> QED
      BY <2>1 DEF RackWorks, RackStores, RackPromotes, RackRefuses, RackBuilds
  <1>3. applied \in [Request -> Seq(Build)]
    BY <1>1 DEF ShapeOK, TypeOK
  <1>4. StandingKept /\ \A r \in Request : GrantOK(approval'[r])
    BY <1>1 DEF StandingKept, PromiseInv
  <1>5. ASSUME NEW r \in Request, applied'[r] = applied[r],
               ~(call[c].kind = "promote" /\ call[c].req = r)
        PROVE  PromoteOf(r)' = PromoteOf(r) /\ ReportOK(r)'
    <2>1. ~Runs(c, r)
      BY <1>5 DEF Runs
    <2>2. \A d \in Call : (Runs(d, r)' <=> Runs(d, r)) /\ (Answered(d, r)' => Answered(d, r))
      BY <1>1, <1>2, <1>5, <2>1, RackEndsRuns
    <2>3. PromoteOf(r)' = PromoteOf(r)
      BY <1>5, <2>2, PromoteKept
    <2>4. ReportOK(r)
      BY DEF PromiseInv
    <2>5. ReportOK(r)'
      BY <1>1, <1>5, <2>2, <2>4 DEF ReportOK
    <2> QED
      BY <2>3, <2>5
  <1>6. CASE call[c].kind # "promote"
    <2>1. applied' = applied
      BY <1>6 DEF RackWorks, RackStores, RackPromotes, RackRefuses, RackBuilds, rackVars
    <2> QED
      BY <1>4, <1>5, <1>6, <2>1, Stutter DEF PromotesKept
  <1>7. CASE call[c].kind = "promote"
    <2>1. PICK q \in Request : /\ call[c].req = q /\ Promoting(c, q)
                               /\ call[c].at \in {"wait", "gone"}
      BY <1>1, <1>7, RunningPromote
    <2>2. ClaimOK(q) /\ ReportOK(q)
      BY <2>1 DEF PromiseInv, IInv
    <2>3. applied[q] = <<>> /\ \A d \in Call : Promoting(d, q) => d = c
      BY <1>1, <2>1, <2>2 DEF ClaimOK
    <2>4. PromoteOf(q) = "running"
      BY <1>1, <1>7, <2>1, <2>3 DEF PromoteOf, PromoteRunning
    <2>5. ASSUME NEW d \in Call PROVE ~Runs(d, q)'
      <3>1. CASE d = c
        BY <1>1, <1>2, <2>1, <3>1, RackEndsRuns
      <3>2. CASE d # c
        <4>1. ~Runs(d, q)
          BY <1>1, <2>3, <3>2, RunningPromote DEF Runs
        <4> QED
          BY <1>1, <1>2, <2>1, <3>2, <4>1, RackEndsRuns
      <3> QED
        BY <3>1, <3>2
    <2>6. ~PromoteRunning(q)'
      BY <2>5 DEF PromoteRunning, Runs
    <2>7. \A r \in Request \ {q} : applied'[r] = applied[r]
      BY <1>3, <1>7, <2>1 DEF RackWorks, RackStores, RackPromotes, RackRefuses, RackBuilds, rackVars
    <2>8. ASSUME NEW r \in Request \ {q}
          PROVE  PromoteOf(r)' = PromoteOf(r) /\ ReportOK(r)'
      BY <1>5, <2>1, <2>7
    <2>9. CASE result = "done"
      <3>1. applied'[q] = Append(applied[q], call[c].build)
        BY <1>2, <1>3, <1>7, <2>1, <2>9 DEF RackPromotes
      <3>2. applied'[q] # <<>>
        BY <2>3, <3>1
      <3>3. PromoteOf(q)' = "applied"
        BY <3>2 DEF PromoteOf
      <3>4. ReportOK(q)'
        BY <3>2 DEF ReportOK
      <3>5. PromiseStep
        BY <1>4, <2>4, <2>8, <3>3, PromoteStep
      <3> QED
        BY <1>4, <2>8, <3>4, <3>5
    <2>10. CASE result = "refused"
      <3>1. applied' = applied
        BY <1>2, <1>7, <2>10 DEF RackRefuses, rackVars
      <3>2. PromoteOf(q)' = "none"
        BY <2>3, <2>6, <3>1 DEF PromoteOf
      <3>3. \A d \in Call : Answered(d, q)' => Answered(d, q)
        BY <1>1, <1>2, <2>1, <2>10, RackEndsRuns
      <3>4. ReportOK(q)'
        BY <1>1, <2>2, <3>1, <3>3 DEF ReportOK
      <3>5. PromiseStep
        BY <1>4, <2>4, <2>8, <3>2, PromoteStep
      <3> QED
        BY <1>4, <2>8, <3>4, <3>5
    <2> QED
      BY <1>2, <2>9, <2>10
  <1> QED
    BY <1>6, <1>7

(***************************************************************************)
(* The theorem                                                             *)
(***************************************************************************)
\* At first everything waits and nothing was promoted.
LEMMA InitPromise == Init => PromiseInv /\ Promise!PromiseInit
  <1> SUFFICES ASSUME Init PROVE PromiseInv /\ Promise!PromiseInit
    OBVIOUS
  <1>1. IInv
    BY InitShape, InitClaim DEF IInv
  <1>2. /\ \A r \in Request : approval[r] = NoRow /\ applied[r] = <<>>
        /\ \A c \in Call : call[c] = Idle
    BY DEF Init
  <1>3. NoRow.status = "none" /\ ~NoRow.approved /\ ~NoRow.promoteStarted /\ Idle.kind = "none"
    BY DEF NoRow, Idle
  <1>4. \A r \in Request : GrantOK(approval[r]) /\ ReportOK(r)
    BY <1>2, <1>3 DEF GrantOK, ReportOK, Answered
  <1>5. \A r \in Request : Standing(approval[r]) = "waiting" /\ PromoteOf(r) = "none"
    BY <1>2, <1>3, Standings DEF PromoteOf, PromoteRunning
  <1> QED
    BY <1>1, <1>4, <1>5 DEF PromiseInv, Promise!PromiseInit

\* Every step keeps the invariant and is a step of the promise, or changes nothing promised.
LEMMA StepPromise == PromiseInv /\ [Next]_vars => PromiseInv' /\ PromiseStep
  <1> SUFFICES ASSUME PromiseInv, [Next]_vars PROVE PromiseInv' /\ PromiseStep
    OBVIOUS
  <1> DEFINE Kept == PromiseStep /\ \A r \in Request : GrantOK(approval'[r]) /\ ReportOK(r)'
  <1>1. IInv'
    BY ShapeStep, ClaimStep DEF IInv, PromiseInv
  <1>2. ASSUME Decide PROVE Kept
    BY <1>2, DecideGrants, DecidePromise
  <1>3. ASSUME NEW c \in Call, BeginCall(c) PROVE Kept
    BY <1>3, BeginPromise
  <1>4. ASSUME NEW c \in Call, Handle(c) \/ Abandon(c) PROVE Kept
    <2>1. CASE Send(c)
      BY <2>1, SendPromise
    <2>2. CASE RecordDeployed(c)
      BY <2>2, RecordDeployedPromise
    <2> QED
      BY <1>4, <2>1, <2>2, HandlePromise
  <1>5. ASSUME NEW c \in Call, RackWorks(c) PROVE Kept
    BY <1>5, RackPromise
  <1>6. ASSUME UNCHANGED <<approval, call, rack, applied>> PROVE Kept
    <2>1. StandingKept /\ PromotesKept
      BY <1>6 DEF StandingKept, PromotesKept, PromoteOf, PromoteRunning
    <2>2. \A r \in Request : GrantOK(approval'[r]) /\ ReportOK(r)'
      BY <1>6 DEF PromiseInv, ReportOK, Answered
    <2> QED
      BY <2>1, <2>2, Stutter
  <1>7. Kept
    BY <1>2, <1>3, <1>4, <1>5, <1>6 DEF Next, RackFinishesBuild, gatewayVars, vars
  <1> QED
    BY <1>1, <1>7 DEF PromiseInv

\* The gateway keeps the promise of DeployPromise, with however many requests, calls and commits,
\* and whatever is lost, late or dead: a release is promoted only under a standing grant, one
\* promote at a time and none after one was applied, a request with a promote isn't withdrawn, and
\* "deployed" is only said of what was applied.
THEOREM KeepsPromise == Spec => PromiseKept
  <1>1. Init => PromiseInv /\ Promise!PromiseInit
    BY InitPromise
  <1>2. PromiseInv /\ [Next]_vars => PromiseInv'
    BY StepPromise
  <1>3. PromiseInv /\ [Next]_vars => [Promise!PromiseNext]_(Promise!promiseVars)
    BY StepPromise DEF PromiseStep
  <1> QED
    BY <1>1, <1>2, <1>3, PTL DEF Spec, PromiseKept, Promise!PromiseSpec
=============================================================================
