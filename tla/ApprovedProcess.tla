--------------------------- MODULE ApprovedProcess ---------------------------
(***************************************************************************)
(* What an API token does under deploy approvals besides the steps with    *)
(* claims: it starts processes of an approved release, runs commands in    *)
(* them over websockets, and the gateway approves the hold job of the      *)
(* CircleCI workflow that deploys.  None of these has a claim in the       *)
(* approval's row, so each relies on when it looks at the row, and on how. *)
(*                                                                         *)
(* The approvals have their release: the pipeline (DeployApproval) has     *)
(* brought them there.  All calls are of one token.                        *)
(***************************************************************************)
EXTENDS ApprovalRows, FiniteSets, Naturals

CONSTANTS
    Request,      \* deploy approval requests
    FirstRow,     \* their rows, as the pipeline left them
    Held,         \* the requests with a CircleCI approval job
    Start,        \* process starts; the rack's process is named by its start
    Exec,         \* execs
    MaxSessions   \* websocket sessions a token may have open at once

ASSUME ConstantsAssumption ==
    /\ FirstRow \in [Request -> Row]
    /\ \A r \in Request : FirstRow[r].status = "approved" /\ FirstRow[r].approved
    /\ \A r, q \in Request : FirstRow[r].release = FirstRow[q].release => r = q
    /\ Held \subseteq Request
    /\ None \notin Request \cup Start
    /\ IsFiniteSet(Exec)
    /\ MaxSessions \in Nat

VARIABLES
    row,        \* deploy_approval_requests
    processes,  \* [Request -> SUBSET Start]: process_ids
    commands,   \* [Request -> SUBSET Exec]: exec_commands, each named by its exec
    revoked,    \* the token was deleted or has expired, or its owner lost the access it needs
    start,      \* [Start -> ...]: where each start's handler is
    startOf,    \* [Start -> Request]: the approval its lookup found
    rack,       \* [Start -> ...]: the process at the rack
    exec,       \* [Exec -> ...]: where each exec's handler is
    execOf,     \* [Exec -> Request]: the approval its lookup found
    target,     \* [Exec -> Start]: the process it runs in
    verdict,    \* [Exec -> ...]: the answer of the session's running recheck
    sessions,   \* webSocketSessions' count for the token
    job,        \* [Request -> ...]: where each CircleCI approval job is
    locked,     \* the rows held FOR SHARE by their job
    posted,     \* the hold jobs whose approval is on its way to CircleCI
    released,   \* the hold jobs CircleCI has approved
    attempted,  \* the requests with an audit attempt of their hold job's approval
    late,       \* history: requests whose row was let go with the approval still on its way
    stray       \* history: processes the rack started after their approval was rejected

startVars == <<start, startOf, rack, stray>>
execVars == <<exec, execOf, target, verdict, sessions>>
jobVars == <<job, locked, posted, released, attempted, late>>
vars == <<row, processes, commands, revoked, startVars, execVars, jobVars>>

TypeOK ==
    /\ row \in [Request -> Row]
    /\ processes \in [Request -> SUBSET Start]
    /\ commands \in [Request -> SUBSET Exec]
    /\ revoked \in BOOLEAN
    /\ start \in [Start -> {"idle", "found", "sent", "done"}]
    /\ startOf \in [Start -> Request \cup {None}]
    /\ rack \in [Start -> {"none", "asked", "running"}]
    /\ exec \in [Exec -> {"idle", "counted", "recorded", "open", "done"}]
    /\ execOf \in [Exec -> Request \cup {None}]
    /\ target \in [Exec -> Start \cup {None}]
    /\ verdict \in [Exec -> {"none", "stay", "gone"}]
    /\ sessions \in Nat
    /\ job \in [Request -> {"none", "queued", "checked", "confirmed", "audited", "sent", "done"}]
    /\ locked \subseteq Request
    /\ posted \subseteq Request
    /\ released \subseteq Request
    /\ attempted \subseteq Request
    /\ late \subseteq Request
    /\ stray \subseteq Start

Init ==
    /\ row = FirstRow
    /\ processes = [r \in Request |-> {}]
    /\ commands = [r \in Request |-> {}]
    /\ revoked = FALSE
    /\ start = [s \in Start |-> "idle"]
    /\ startOf = [s \in Start |-> None]
    /\ rack = [s \in Start |-> "none"]
    /\ exec = [x \in Exec |-> "idle"]
    /\ execOf = [x \in Exec |-> None]
    /\ target = [x \in Exec |-> None]
    /\ verdict = [x \in Exec |-> "none"]
    /\ sessions = 0
    /\ job = [r \in Request |-> IF r \in Held THEN "queued" ELSE "none"]
    /\ locked = {}
    /\ posted = {}
    /\ released = {}
    /\ attempted = {}
    /\ late = {}
    /\ stray = {}

(***************************************************************************)
(* The approval's life                                                     *)
(***************************************************************************)

\* Slip: rejections don't wait for the job (HoldReleasedWhileApproved).
UpdateAnyRow(r, new) == row' = [row EXCEPT ![r] = new]
\* A change of a row waits while a job holds the row; the sweep skips it.
Update(r, new) == r \notin locked /\ row' = [row EXCEPT ![r] = new]

Decide(r) ==
    /\ \/ CanReject(row[r]) /\ Update(r, Rejected(row[r]))
       \/ CanExtend(row[r]) /\ Update(r, Extended(row[r]))
       \/ Due(row[r]) /\ Update(r, Expired(row[r]))
    /\ UNCHANGED <<processes, commands, revoked, startVars, execVars, jobVars>>

\* A promote claims the row, and marks it deployed or lets it go.
Promote(r) ==
    /\ \/ CanClaimPromote(row[r]) /\ Update(r, ClaimedPromote(row[r]))
       \/ row[r].promoteStarted /\ CanMarkDeployed(row[r]) /\ Update(r, MarkedDeployed(row[r]))
       \/ row[r].promoteStarted /\ Update(r, ReleasedPromote(row[r]))
    /\ UNCHANGED <<processes, commands, revoked, startVars, execVars, jobVars>>

\* The approval's window ends.  No lock keeps time from passing.
Lapse(r) ==
    /\ row[r].status = "approved"
    /\ row' = [row EXCEPT ![r].lapsed = TRUE]
    /\ UNCHANGED <<processes, commands, revoked, startVars, execVars, jobVars>>

RevokeAccess ==
    /\ revoked' = TRUE
    /\ UNCHANGED <<row, processes, commands, startVars, execVars, jobVars>>

(***************************************************************************)
(* Process starts                                                          *)
(***************************************************************************)

\* findApprovalForProcessStart, by the release the start names.
FindForStart(s, r) ==
    /\ start[s] = "idle"
    /\ ~revoked
    /\ Authorizes(row[r])
    /\ row[r].release # None
    /\ start' = [start EXCEPT ![s] = "found"]
    /\ startOf' = [startOf EXCEPT ![s] = r]
    /\ UNCHANGED <<row, processes, commands, revoked, rack, stray, execVars, jobVars>>

\* validateProcessCommand, with the whole request read: the approval is looked at again, and the
\* start forwarded.
SendStart(s) ==
    /\ start[s] = "found"
    /\ IF Authorizes(row[startOf[s]])
         THEN /\ start' = [start EXCEPT ![s] = "sent"]
              /\ rack' = [rack EXCEPT ![s] = "asked"]
         ELSE start' = [start EXCEPT ![s] = "done"] /\ UNCHANGED rack
    /\ UNCHANGED <<row, processes, commands, revoked, startOf, stray, execVars, jobVars>>

RackStarts(s) ==
    /\ rack[s] = "asked"
    /\ rack' = [rack EXCEPT ![s] = "running"]
    /\ stray' = IF row[startOf[s]].status = "rejected" THEN stray \cup {s} ELSE stray
    /\ UNCHANGED <<row, processes, commands, revoked, start, startOf, execVars, jobVars>>

\* Slip: a process is recorded whatever became of the approval (StrayProcessesUnused).
AnyRecordable(r) == r \in Request
RecordableIn(r) == Recordable(row[r])

\* captureProcessCreation and AppendProcessIDToDeployApprovalRequest.
RecordProcess(s) ==
    LET r == startOf[s] IN
    /\ start[s] = "sent"
    /\ rack[s] = "running"
    /\ RecordableIn(r)
    /\ r \notin locked
    /\ processes' = [processes EXCEPT ![r] = @ \cup {s}]
    /\ start' = [start EXCEPT ![s] = "done"]
    /\ UNCHANGED <<row, commands, revoked, startOf, rack, stray, execVars, jobVars>>

\* The request is refused (its command isn't approved, say, or the rack won't start it), times out
\* or breaks off, or its process can't be recorded.  The rack goes on with what it was sent.
LeaveStart(s) ==
    /\ start[s] \in {"found", "sent"}
    /\ start' = [start EXCEPT ![s] = "done"]
    /\ UNCHANGED <<row, processes, commands, revoked, startOf, rack, stray, execVars, jobVars>>

(***************************************************************************)
(* Execs                                                                   *)
(***************************************************************************)

\* findApprovalForProcessAction: the approval is the one that has the process on its record.  Then
\* acquireWebSocketSession, which refuses a session past the limit.
FindForExec(x, s, r) ==
    /\ exec[x] = "idle"
    /\ ~revoked
    /\ s \in processes[r]
    /\ Authorizes(row[r])
    /\ sessions < MaxSessions
    /\ exec' = [exec EXCEPT ![x] = "counted"]
    /\ execOf' = [execOf EXCEPT ![x] = r]
    /\ target' = [target EXCEPT ![x] = s]
    /\ sessions' = sessions + 1
    /\ UNCHANGED <<row, processes, commands, revoked, verdict, startVars, jobVars>>

\* validateExecCommand: the command goes on the record of an approved, unexpired approval.
RecordCommand(x) ==
    LET r == execOf[x] IN
    /\ exec[x] = "counted"
    /\ Authorizes(row[r])
    /\ r \notin locked
    /\ commands' = [commands EXCEPT ![r] = @ \cup {x}]
    /\ exec' = [exec EXCEPT ![x] = "recorded"]
    /\ UNCHANGED <<row, processes, revoked, execOf, target, verdict, sessions, startVars, jobVars>>

\* Slip: a command that couldn't be recorded runs all the same (ExecsOnRecord).
MayOpenUnrecorded(x) == exec[x] \in {"counted", "recorded"}
MayOpen(x) == exec[x] = "recorded"

\* The rack is dialled, and runs the command.
Open(x) ==
    /\ MayOpen(x)
    /\ rack[target[x]] = "running"
    /\ exec' = [exec EXCEPT ![x] = "open"]
    /\ UNCHANGED <<row, processes, commands, revoked, execOf, target, verdict, sessions,
                   startVars, jobVars>>

Counted(x) == exec[x] \in {"counted", "recorded", "open"}

\* Slip: a session that ends by itself stays counted (ProcessIInv).
EndCounted(x) ==
    /\ exec' = [exec EXCEPT ![x] = "done"]
    /\ sessions' = IF exec[x] = "open" THEN sessions ELSE sessions - 1
    /\ verdict' = [verdict EXCEPT ![x] = "none"]
\* The end of a handler: its session isn't counted any more.
End(x) ==
    /\ exec' = [exec EXCEPT ![x] = "done"]
    /\ sessions' = sessions - 1
    /\ verdict' = [verdict EXCEPT ![x] = "none"]

\* The exec is refused, its dial fails, or its session ends: either side closes it, a recheck takes
\* too long, or it has been open for approvalSessionLifetime.
LeaveExec(x) ==
    /\ Counted(x)
    /\ End(x)
    /\ UNCHANGED <<row, processes, commands, revoked, execOf, target, startVars, jobVars>>

\* Slip: a recheck goes by the status of an approval that still authorizes (GoneSessionsEnd).
ApprovalLapsed(r) == row[r].status = "approved" /\ row[r].lapsed
ApprovalGone(r) == row[r].status = "rejected"

\* recheckToken, in the background of the session.  An approval that has expired, or is deployed,
\* doesn't end it.
Recheck(x) ==
    /\ exec[x] = "open"
    /\ verdict[x] = "none"
    /\ verdict' = [verdict EXCEPT ![x] =
                     IF revoked \/ ApprovalGone(execOf[x]) THEN "gone" ELSE "stay"]
    /\ UNCHANGED <<row, processes, commands, revoked, exec, execOf, target, sessions, startVars,
                   jobVars>>

\* superviseSession has the recheck's answer.
HeedRecheck(x) ==
    /\ exec[x] = "open"
    /\ \/ verdict[x] = "gone" /\ End(x)
       \/ /\ verdict[x] = "stay"
          /\ verdict' = [verdict EXCEPT ![x] = "none"]
          /\ UNCHANGED <<exec, sessions>>
    /\ UNCHANGED <<row, processes, commands, revoked, execOf, target, startVars, jobVars>>

(***************************************************************************)
(* The CircleCI approval job                                               *)
(***************************************************************************)

\* The job ends, or River runs it again later, unless that was its last attempt.
Retry(r) == \E l \in {"queued", "done"} : job' = [job EXCEPT ![r] = l]
Cancel(r) == job' = [job EXCEPT ![r] = "done"]

\* Work's two looks at the approval, before and after its requests to CircleCI.
CheckActive(r) ==
    /\ \/ /\ job[r] = "queued"
          /\ job' = [job EXCEPT ![r] = IF Authorizes(row[r]) THEN "checked" ELSE "done"]
       \/ /\ job[r] = "checked"
          /\ job' = [job EXCEPT ![r] = IF Authorizes(row[r]) THEN "confirmed" ELSE "done"]
    /\ UNCHANGED <<row, processes, commands, revoked, locked, posted, released, attempted, late,
                   startVars, execVars>>

RecordSystemAttempt(r) ==
    /\ job[r] = "confirmed"
    /\ attempted' = attempted \cup {r}
    /\ job' = [job EXCEPT ![r] = "audited"]
    /\ UNCHANGED <<row, processes, commands, revoked, locked, posted, released, late,
                   startVars, execVars>>

\* approveHeld: the row is held, looked at once more, and the approval sent.
ApproveHeld(r) ==
    /\ job[r] = "audited"
    /\ IF Authorizes(row[r])
         THEN /\ job' = [job EXCEPT ![r] = "sent"]
              /\ locked' = locked \cup {r}
              /\ posted' = posted \cup {r}
         ELSE Cancel(r) /\ UNCHANGED <<locked, posted>>
    /\ UNCHANGED <<row, processes, commands, revoked, released, attempted, late, startVars,
                   execVars>>

CircleCIApproves(r) ==
    /\ r \in posted
    /\ posted' = posted \ {r}
    /\ released' = released \cup {r}
    /\ UNCHANGED <<row, processes, commands, revoked, job, locked, attempted, late, startVars,
                   execVars>>

CircleCIRefuses(r) ==
    /\ r \in posted
    /\ posted' = posted \ {r}
    /\ UNCHANGED <<row, processes, commands, revoked, job, locked, released, attempted, late,
                   startVars, execVars>>

\* CircleCI has answered: the row is let go.
HeedCircleCI(r) ==
    /\ job[r] = "sent"
    /\ r \notin posted
    /\ locked' = locked \ {r}
    /\ IF r \in released THEN Cancel(r) ELSE Retry(r)
    /\ UNCHANGED <<row, processes, commands, revoked, posted, released, attempted, late,
                   startVars, execVars>>

\* A step of the job fails: a request times out, the database can't be reached, CircleCI doesn't
\* know the workflow.  What was sent is still on its way.
LeaveJob(r) ==
    /\ job[r] \in {"queued", "checked", "confirmed", "audited", "sent"}
    /\ Retry(r)
    /\ locked' = locked \ {r}
    /\ late' = late \cup (posted \cap {r})
    /\ UNCHANGED <<row, processes, commands, revoked, posted, released, attempted, startVars,
                   execVars>>

\* The connection of the transaction that holds the row is lost.  The job doesn't notice.
LoseHold(r) ==
    /\ r \in locked
    /\ locked' = locked \ {r}
    /\ late' = late \cup {r}
    /\ UNCHANGED <<row, processes, commands, revoked, job, posted, released, attempted,
                   startVars, execVars>>

(***************************************************************************)
(* The gateway restarts                                                    *)
(***************************************************************************)
Busy(l) == l \notin {"idle", "done"}

\* Handlers, sessions and their count end with the process.  Jobs are tried again.
Restart ==
    /\ \/ \E s \in Start : Busy(start[s])
       \/ \E x \in Exec : Busy(exec[x])
       \/ \E r \in Request : job[r] \notin {"none", "queued", "done"}
    /\ start' = [s \in Start |-> IF Busy(start[s]) THEN "done" ELSE start[s]]
    /\ exec' = [x \in Exec |-> IF Busy(exec[x]) THEN "done" ELSE exec[x]]
    /\ verdict' = [x \in Exec |-> "none"]
    /\ sessions' = 0
    /\ job' = [r \in Request |-> IF job[r] \in {"none", "done"} THEN job[r] ELSE "queued"]
    /\ locked' = {}
    /\ late' = late \cup posted
    /\ UNCHANGED <<row, processes, commands, revoked, startOf, rack, stray, execOf, target,
                   posted, released, attempted>>

StartNext(s) ==
    \/ \E r \in Request : FindForStart(s, r)
    \/ SendStart(s)
    \/ RackStarts(s)
    \/ RecordProcess(s)
    \/ LeaveStart(s)

ExecNext(x) ==
    \/ \E s \in Start, r \in Request : FindForExec(x, s, r)
    \/ RecordCommand(x)
    \/ Open(x)
    \/ LeaveExec(x)
    \/ Recheck(x)
    \/ HeedRecheck(x)

JobNext(r) ==
    \/ CheckActive(r)
    \/ RecordSystemAttempt(r)
    \/ ApproveHeld(r)
    \/ CircleCIApproves(r)
    \/ CircleCIRefuses(r)
    \/ HeedCircleCI(r)
    \/ LeaveJob(r)
    \/ LoseHold(r)

Next ==
    \/ \E r \in Request : Decide(r) \/ Promote(r) \/ Lapse(r) \/ JobNext(r)
    \/ RevokeAccess
    \/ \E s \in Start : StartNext(s)
    \/ \E x \in Exec : ExecNext(x)
    \/ Restart

Spec == Init /\ [][Next]_vars

\* An open session is rechecked every minute.  Nothing else has to happen.
FairSpec == Spec /\ \A x \in Exec : WF_vars(Recheck(x)) /\ WF_vars(HeedRecheck(x))

(***************************************************************************)
(* What should hold                                                        *)
(***************************************************************************)

\* A command that runs in a process is on the record of the approval it runs under, and so is the
\* process, which was started under the same approval: however its handlers and the decisions about
\* it interleave, an approval's record shows all that was run with it.
ExecsOnRecord ==
    \A x \in Exec : exec[x] = "open" =>
        LET r == execOf[x] IN
        /\ x \in commands[r]
        /\ target[x] \in processes[r]
        /\ startOf[target[x]] = r

\* A start isn't claimed, so the rack may start a process whose approval has been rejected since it
\* was looked at.  No approval takes such a process on its record, so no command ever runs in it.
StrayProcessesUnused ==
    \A s \in stray :
        /\ \A r \in Request : s \notin processes[r]
        /\ \A x \in Exec : exec[x] # "idle" => target[x] # s

\* CircleCI releases a hold job only while its request is approved, and after the audit log has an
\* attempt of it, unless its answer took so long that the job stopped waiting, or the row's lock was
\* lost: a rejection waits for CircleCI.
HoldReleasedWhileApproved ==
    [][\A r \in Request : r \in released' \ released =>
         r \in attempted /\ (r \in late \/ row[r].status = "approved")]_vars

\* A session doesn't outlive its caller's access: its approval's rejection (also one that came
\* between the record and the session), or the loss of the token or what its owner may do.
GoneSessionsEnd ==
    \A x \in Exec :
        exec[x] = "open" /\ (revoked \/ (execOf[x] # None /\ row[execOf[x]].status = "rejected"))
            ~> exec[x] # "open"

(***************************************************************************)
(* The inductive invariant                                                 *)
(***************************************************************************)

\* The count of sessions is that of the handlers that took one, so it stays in its limit, and comes
\* back to zero.
SessionsCounted ==
    /\ sessions = Cardinality({x \in Exec : Counted(x)})
    /\ sessions <= MaxSessions

StartsInOrder ==
    \A s \in Start :
        /\ start[s] # "idle" => startOf[s] \in Request
        /\ start[s] = "idle" => rack[s] = "none"
        /\ s \in stray => row[startOf[s]].status = "rejected" /\ rack[s] = "running"
        /\ start[s] \in {"idle", "found"} => rack[s] = "none"
        /\ \A r \in Request : s \in processes[r] => startOf[s] = r /\ rack[s] = "running"

ExecsInOrder ==
    \A x \in Exec :
        /\ exec[x] # "idle" =>
             execOf[x] \in Request /\ target[x] \in Start /\ target[x] \in processes[execOf[x]]
        /\ exec[x] \in {"recorded", "open"} => x \in commands[execOf[x]]

JobsInOrder ==
    \A r \in Request :
        /\ r \in locked => job[r] = "sent" /\ row[r].status = "approved"
        /\ r \in posted => r \in attempted /\ (r \in late \/ r \in locked)
        /\ job[r] \in {"audited", "sent"} => r \in attempted

ProcessIInv ==
    /\ TypeOK
    /\ SessionsCounted
    /\ StartsInOrder
    /\ ExecsInOrder
    /\ JobsInOrder
    /\ StrayProcessesUnused
=============================================================================
