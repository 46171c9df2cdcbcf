--------------------------- MODULE DeployApproval ---------------------------
(***************************************************************************)
(* An approved deploy through the gateway: CI asks for an approval, an     *)
(* admin decides, and CI then uploads one archive, builds it and promotes  *)
(* the build's release.  Each step is an HTTP request which the gateway    *)
(* proxies to the rack; the steps of one approval, or of several, run      *)
(* concurrently, in one gateway process or in many that share the          *)
(* database.                                                               *)
(*                                                                         *)
(* The gateway may stop waiting for the rack (a timeout, a broken answer)  *)
(* while the rack carries on; the gateway's writes may fail; and with      *)
(* MayAbandon a gateway process may die at any point of a request.         *)
(*                                                                         *)
(* One app and one CI token are modelled: requests are told apart by their *)
(* commits.                                                                *)
(***************************************************************************)
EXTENDS ApprovalRows, Naturals, Sequences, FiniteSets

CONSTANTS
    Request,     \* ids of the requests for approval, in the order they are inserted
    Call,        \* proxied HTTP requests that may be open at once
    Direct,      \* the calls of callers who hold the permissions themselves (no approval)
    LegacyKey,   \* keys stored before the gateway claimed keys
    MaxCreators, \* bound: create handlers open at once for one commit
    MayAbandon   \* whether a gateway process may die in the middle of a call

ASSUME ConstantsAssumption ==
    /\ Request \subseteq Nat
    /\ None \notin Request
    /\ Direct \subseteq Call
    /\ LegacyKey \subseteq Key
    /\ MaxCreators \in Nat
    /\ MayAbandon \in BOOLEAN

VARIABLES
    approval,  \* [Request -> Row]: the deploy_approval_requests table
    creating,  \* [Commit -> Nat]: create handlers between their admission and their insert
    keys,      \* [Key -> ...]: the rack_object_keys table
    call,      \* [Call -> CallState]: the gateway's handlers
    rack,      \* [Call -> ...]: what the rack does with the forwarded call
    stored,    \* [Key -> Commit or None]: the rack's objects, as the commit of their archive
    built,     \* [Build -> BuildState]: the rack's builds
    applied    \* [Request -> Seq(Build)]: the releases the rack promoted under the approval

vars == <<approval, creating, keys, call, rack, stored, built, applied>>

gatewayVars == <<approval, creating, keys, call>>
rackVars == <<stored, built, applied>>

Tracked == Call \ Direct

Label == {"idle", "claimKey", "claim", "checkKey", "verify", "send", "wait",
          "mark", "record", "release", "gone"}

CallState == [kind : {"none", "upload", "build", "read", "promote"}, at : Label,
              req : Request \cup {None}, key : Key \cup {None},
              archive : Commit \cup {None}, build : Build \cup {None}]

\* "gone" is a handler that has ended, or died, while the rack still works on its call.
Idle == [kind |-> "none", at |-> "idle", req |-> None, key |-> None,
         archive |-> None, build |-> None]

\* source is the object a build reads, archive what it found there, and checked what the gateway
\* had found there before it forwarded the build.
BuildState == [state : {"none", "running", "finished"}, source : Key \cup {None},
               archive : Commit \cup {None}, checked : Commit \cup {None}]

NoBuild == [state |-> "none", source |-> None, archive |-> None, checked |-> None]

(***************************************************************************)
(* Requests: creation, decision, expiry                                    *)
(***************************************************************************)
Inserted == {r \in Request : approval[r].status # "none"}
IsNewest(r, S) == r \in S /\ \A s \in S : s <= r

DueRequests == {r \in Request : Due(approval[r])}
ExpireRows(S) == [r \in Request |-> IF r \in S THEN Expired(approval[r]) ELSE approval[r]]

\* A duplicate of an open request, for the conflict check and for the unique index.
ConflictFor(k) == \E r \in Request : approval[r].commit = k /\ Conflicts(approval[r])
\* Slip: no unique index, so only the conflict check (OneOpenRequest).
Untaken(k) == FALSE
Taken(k) == \E r \in Request : approval[r].commit = k /\ Active(approval[r])

\* admitApprovalCreation: the expiry sweep, then the conflict check.  Rows another transaction
\* holds are skipped by the sweep, so any of the due rows may stay.
AdmitCreate(k) ==
    /\ creating[k] < MaxCreators
    /\ \E S \in SUBSET DueRequests :
         /\ \A r \in Request \ S : approval[r].commit = k => ~Conflicts(approval[r])
         /\ approval' = ExpireRows(S)
    /\ creating' = [creating EXCEPT ![k] = @ + 1]
    /\ UNCHANGED <<keys, call, rack, rackVars>>

\* After GitHub verification: the conflict check again, then the insert under the unique index.
InsertRequest(k) ==
    /\ creating[k] > 0
    /\ ~ConflictFor(k)
    /\ ~Taken(k)
    /\ \E r \in Request \ Inserted :
         /\ \A s \in Request \ Inserted : r <= s
         /\ approval' = [approval EXCEPT ![r] = NewRow(k)]
    /\ creating' = [creating EXCEPT ![k] = @ - 1]
    /\ UNCHANGED <<keys, call, rack, rackVars>>

\* Verification failed, the request conflicts, or its creator is over a rate limit.
RefuseCreate(k) ==
    /\ creating[k] > 0
    /\ creating' = [creating EXCEPT ![k] = @ - 1]
    /\ UNCHANGED <<approval, keys, call, rack, rackVars>>

Approve(r) ==
    /\ CanApprove(approval[r])
    /\ approval' = [approval EXCEPT ![r] = Approved(@)]
    /\ UNCHANGED <<creating, keys, call, rack, rackVars>>

Reject(r) ==
    /\ CanReject(approval[r])
    /\ approval' = [approval EXCEPT ![r] = Rejected(@)]
    /\ UNCHANGED <<creating, keys, call, rack, rackVars>>

\* An expired approval is active again, unless the unique index holds another active request.
Extend(r) ==
    /\ CanExtend(approval[r])
    /\ Active(approval[r]) \/ ~Taken(approval[r].commit)
    /\ approval' = [approval EXCEPT ![r] = Extended(@)]
    /\ UNCHANGED <<creating, keys, call, rack, rackVars>>

\* Time passes the end of r's window, or of the time r may be pending.
Lapse(r) ==
    /\ Active(approval[r])
    /\ ~approval[r].lapsed
    /\ approval' = [approval EXCEPT ![r].lapsed = TRUE]
    /\ UNCHANGED <<creating, keys, call, rack, rackVars>>

\* One batch of the periodic sweep: due rows, less those another transaction has locked.
Sweep(S) ==
    /\ S # {}
    /\ approval' = ExpireRows(S)
    /\ UNCHANGED <<creating, keys, call, rack, rackVars>>

(***************************************************************************)
(* A call's way through the gateway                                        *)
(***************************************************************************)
At(c, kind, label) == call[c].kind = kind /\ call[c].at = label
Goto(c, label) == call' = [call EXCEPT ![c].at = label]

\* The handler returns, or dies.
End(c) ==
    /\ call' = [call EXCEPT ![c] = IF rack[c] = "running" THEN [@ EXCEPT !.at = "gone"] ELSE Idle]
    /\ rack' = [rack EXCEPT ![c] = IF @ = "running" THEN @ ELSE "none"]

Begin(c, kind, label, r, k, a, b) ==
    /\ call[c] = Idle
    /\ call' = [call EXCEPT ![c] = [kind |-> kind, at |-> label, req |-> r, key |-> k,
                                    archive |-> a, build |-> b]]
    /\ UNCHANGED <<approval, creating, keys, rack, rackVars>>

\* findApprovalForObjectCreate: the newest open approval, if it alone waits for an archive.
Waiting == {r \in Request : CanClaimUpload(approval[r])}
BeginUpload(c, k, a) ==
    \E r \in Request :
        /\ IsNewest(r, {s \in Request : Authorizes(approval[s])})
        /\ Waiting = {r}
        /\ Begin(c, "upload", "claimKey", r, k, a, None)

BeginDirectUpload(c, k, a) == Begin(c, "upload", "claimKey", None, k, a, None)

\* findApprovalForBuildCreate: the open approval whose archive the build names.
BeginBuild(c, k, r) ==
    /\ Authorizes(approval[r])
    /\ approval[r].object = k
    /\ approval[r].build = None
    /\ approval[r].release = None
    /\ Begin(c, "build", "claim", r, k, None, None)

BeginDirectBuild(c, k) == Begin(c, "build", "checkKey", None, k, None, None)

\* findApprovalForBuildRead; a read changes something only while the release isn't recorded.
BeginRead(c, r) ==
    /\ Authorizes(approval[r])
    /\ approval[r].build # None
    /\ approval[r].release = None
    /\ Begin(c, "read", "record", r, None, None, approval[r].build)

\* findApprovalForReleasePromote: the newest request with the release, if it is open.
BeginPromote(c, b) ==
    \E r \in Request :
        /\ IsNewest(r, {s \in Request : approval[s].release = b})
        /\ Authorizes(approval[r])
        /\ Begin(c, "promote", "claim", r, None, None, b)

-----------------------------------------------------------------------------
\* claimObjectUpload: the key first, then the approval.  A claimed key is never released.
ClaimKey(c) ==
    /\ At(c, "upload", "claimKey")
    /\ IF keys[call[c].key] = "free"
         THEN /\ keys' = [keys EXCEPT ![call[c].key] = "claimed"]
              /\ Goto(c, IF call[c].req = None THEN "send" ELSE "claim")
              /\ UNCHANGED rack
         ELSE End(c) /\ UNCHANGED keys
    /\ UNCHANGED <<approval, creating, rackVars>>

ClaimUpload(c) ==
    LET r == call[c].req
        k == call[c].key IN
    /\ At(c, "upload", "claim")
    /\ CanClaimUpload(approval[r])
    /\ \A s \in Request : approval[s].object # k
    /\ approval' = [approval EXCEPT ![r] = ClaimedUpload(@, k)]
    /\ Goto(c, "send")
    /\ UNCHANGED <<creating, keys, rack, rackVars>>

ClaimBuild(c) ==
    LET r == call[c].req IN
    /\ At(c, "build", "claim")
    /\ CanClaimBuild(approval[r])
    /\ approval' = [approval EXCEPT ![r] = ClaimedBuild(@)]
    /\ Goto(c, "checkKey")
    /\ UNCHANGED <<creating, keys, rack, rackVars>>

ClaimPromote(c) ==
    LET r == call[c].req IN
    /\ At(c, "promote", "claim")
    /\ CanClaimPromote(approval[r])
    /\ approval' = [approval EXCEPT ![r] = ClaimedPromote(@)]
    /\ Goto(c, "send")
    /\ UNCHANGED <<creating, keys, rack, rackVars>>

\* The claim's UPDATE matches no row, or violates an index: the call is refused.
RefuseClaim(c) ==
    LET row == approval[call[c].req] IN
    /\ call[c].at = "claim"
    /\ \/ /\ call[c].kind = "upload"
          /\ ~CanClaimUpload(row) \/ \E s \in Request : approval[s].object = call[c].key
       \/ call[c].kind = "build" /\ ~CanClaimBuild(row)
       \/ call[c].kind = "promote" /\ ~CanClaimPromote(row)
    /\ End(c)
    /\ UNCHANGED <<approval, creating, keys, rackVars>>

-----------------------------------------------------------------------------
\* Slip: an upload in progress doesn't stop the check (BuiltWhatWasChecked).
CheckKeyInUpload(c) ==
    /\ At(c, "build", "checkKey")
    /\ Goto(c, "verify")
    /\ UNCHANGED <<approval, creating, keys, rack, rackVars>>

\* validateBuildManifest: the archive's key is claimed, so it can't be written any more, before
\* the archive is read.
CheckKey(c) ==
    /\ At(c, "build", "checkKey")
    /\ IF keys[call[c].key] = "claimed"
         THEN Goto(c, "release") /\ UNCHANGED keys
         ELSE /\ keys' = [keys EXCEPT ![call[c].key] = "uploaded"]
              /\ Goto(c, "verify")
    /\ UNCHANGED <<approval, creating, rack, rackVars>>

\* Slip: the manifest's images aren't held to the approved commit (PromotedIsApprovedCommit).
VerifyAnyCommit(c) ==
    /\ At(c, "build", "verify")
    /\ IF stored[call[c].key] # None
         THEN call' = [call EXCEPT ![c].at = "send", ![c].archive = stored[call[c].key]]
         ELSE Goto(c, "release")
    /\ UNCHANGED <<approval, creating, keys, rack, rackVars>>

\* An approval's archive must be of the approved commit.  A failed check is a request not sent.
Verify(c) ==
    LET archive == stored[call[c].key]
        r == call[c].req IN
    /\ At(c, "build", "verify")
    /\ IF archive # None /\ (r # None => archive = approval[r].commit)
         THEN call' = [call EXCEPT ![c].at = "send", ![c].archive = archive]
         ELSE Goto(c, "release")
    /\ UNCHANGED <<approval, creating, keys, rack, rackVars>>

Send(c) ==
    /\ call[c].at = "send"
    /\ rack' = [rack EXCEPT ![c] = "running"]
    /\ Goto(c, "wait")
    /\ UNCHANGED <<approval, creating, keys, rackVars>>

\* neverReachedRack: the gateway refused the request itself, or couldn't connect.
NotSent(c) ==
    /\ call[c].at \in {"verify", "send"}
    /\ Goto(c, "release")
    /\ UNCHANGED <<approval, creating, keys, rack, rackVars>>

\* Slip: a promote is recorded whatever the rack's status (DeployedMeansApplied).
AnswerAnyStatus(c) ==
    /\ call[c].at = "wait"
    /\ \/ rack[c] = "done" /\ Goto(c, IF call[c].kind = "upload" THEN "mark" ELSE "record")
       \/ rack[c] = "refused" /\ Goto(c, IF call[c].kind = "promote" THEN "record" ELSE "release")
    /\ UNCHANGED <<approval, creating, keys, rack, rackVars>>

Answer(c) ==
    /\ call[c].at = "wait"
    /\ \/ rack[c] = "done" /\ Goto(c, IF call[c].kind = "upload" THEN "mark" ELSE "record")
       \/ rack[c] = "refused" /\ Goto(c, "release")
    /\ UNCHANGED <<approval, creating, keys, rack, rackVars>>

\* Slip: a promote that timed out is retried (OnePromoteApplied).
ReleasesPromote(c) == Goto(c, "release") /\ UNCHANGED rack
\* promoteMayHaveApplied: a promote whose outcome isn't known keeps its claim.
KeepsPromote(c) == End(c)

\* The gateway times out, or can't read the answer to the end.
GiveUp(c) ==
    /\ call[c].at = "wait"
    /\ IF call[c].kind = "promote" THEN KeepsPromote(c) ELSE Goto(c, "release") /\ UNCHANGED rack
    /\ UNCHANGED <<approval, creating, keys, rackVars>>

-----------------------------------------------------------------------------
\* captureObjectUpload: the key is marked uploaded, then the approval.
MarkObjectUploaded(c) ==
    /\ At(c, "upload", "mark")
    /\ keys' = [keys EXCEPT ![call[c].key] = "uploaded"]
    /\ Goto(c, IF call[c].req = None THEN "release" ELSE "record")
    /\ UNCHANGED <<approval, creating, rack, rackVars>>

RecordUpload(c) ==
    LET r == call[c].req IN
    /\ At(c, "upload", "record")
    /\ CanConfirmUpload(approval[r], call[c].key)
    /\ approval' = [approval EXCEPT ![r] = ConfirmedUpload(@)]
    /\ Goto(c, "release")
    /\ UNCHANGED <<creating, keys, rack, rackVars>>

\* MarkDeployApprovalRequestBuildStarted, by the build itself or by a later read of it.  A direct
\* build records nothing.
RecordBuild(c) ==
    LET r == call[c].req
        b == call[c].build IN
    /\ At(c, "build", "record")
    /\ r # None
    /\ \E rel \in {None} \cup {x \in {b} : built[x].state = "finished"} :
         /\ CanRecordBuild(approval[r], b, rel)
         /\ approval' = [approval EXCEPT ![r] = RecordedBuild(@, b, rel)]
    /\ Goto(c, "release")
    /\ UNCHANGED <<creating, keys, rack, rackVars>>

RecordRead(c) ==
    LET r == call[c].req
        b == call[c].build IN
    /\ At(c, "read", "record")
    /\ built[b].state = "finished"
    /\ CanRecordBuild(approval[r], b, b)
    /\ approval' = [approval EXCEPT ![r] = RecordedBuild(@, b, b)]
    /\ End(c)
    /\ UNCHANGED <<creating, keys, rackVars>>

RecordDeployed(c) ==
    LET r == call[c].req IN
    /\ At(c, "promote", "record")
    /\ CanMarkDeployed(approval[r])
    /\ approval' = [approval EXCEPT ![r] = MarkedDeployed(@)]
    /\ End(c)
    /\ UNCHANGED <<creating, keys, rackVars>>

\* Nothing is recorded: the write failed at every retry, it matched no row, or (for a read) the
\* build hasn't finished.
RecordNothing(c) ==
    /\ call[c].at \in {"mark", "record"}
    /\ IF call[c].kind \in {"upload", "build"} THEN Goto(c, "release") /\ UNCHANGED rack ELSE End(c)
    /\ UNCHANGED <<approval, creating, keys, rackVars>>

\* releaseDeployApprovalClaims runs after every upload and build, and after a promote that
\* certainly didn't apply.
Release(c) ==
    LET r == call[c].req
        k == call[c].key IN
    /\ call[c].at = "release"
    /\ approval' =
         IF r = None THEN approval
         ELSE [approval EXCEPT ![r] = CASE call[c].kind = "upload" -> ReleasedUpload(@, k)
                                        [] call[c].kind = "build" -> ReleasedBuild(@)
                                        [] call[c].kind = "promote" -> ReleasedPromote(@)]
    /\ End(c)
    /\ UNCHANGED <<creating, keys, rackVars>>

\* The gateway process dies, or the release itself fails (which is only logged).
Abandon(c) ==
    /\ MayAbandon
    /\ call[c].at \notin {"idle", "gone"}
    /\ End(c)
    /\ UNCHANGED <<approval, creating, keys, rackVars>>

(***************************************************************************)
(* The rack                                                                *)
(***************************************************************************)
\* The rack is done with call c.  A call whose handler is gone is done with altogether.
RackEnds(c, result, next) ==
    /\ rack[c] = "running"
    /\ rack' = [rack EXCEPT ![c] = IF call[c].at = "gone" THEN "none" ELSE result]
    /\ call' = [call EXCEPT ![c] = IF @.at = "gone" THEN Idle ELSE next]
    /\ UNCHANGED <<approval, creating, keys>>

RackStores(c) ==
    /\ call[c].kind = "upload"
    /\ stored' = [stored EXCEPT ![call[c].key] = call[c].archive]
    /\ RackEnds(c, "done", call[c])
    /\ UNCHANGED <<built, applied>>

RackBuilds(c, b) ==
    /\ call[c].kind = "build"
    /\ built[b].state = "none"
    /\ built' = [built EXCEPT ![b] = [state |-> "running", source |-> call[c].key,
                                      archive |-> None, checked |-> call[c].archive]]
    /\ RackEnds(c, "done", [call[c] EXCEPT !.build = b])
    /\ UNCHANGED <<stored, applied>>

RackPromotes(c) ==
    /\ call[c].kind = "promote"
    /\ applied' = [applied EXCEPT ![call[c].req] = Append(@, call[c].build)]
    /\ RackEnds(c, "done", call[c])
    /\ UNCHANGED <<stored, built>>

RackRefuses(c) ==
    /\ RackEnds(c, "refused", call[c])
    /\ UNCHANGED rackVars

\* A running build reads its object some time after the rack has answered.
RackFinishesBuild(b) ==
    /\ built[b].state = "running"
    /\ built' = [built EXCEPT ![b].state = "finished", ![b].archive = stored[built[b].source]]
    /\ UNCHANGED <<gatewayVars, rack, stored, applied>>

(***************************************************************************)
(* The specification                                                       *)
(***************************************************************************)
Init ==
    /\ approval = [r \in Request |-> NoRow]
    /\ creating = [k \in Commit |-> 0]
    /\ keys = [k \in Key |-> "free"]
    /\ call = [c \in Call |-> Idle]
    /\ rack = [c \in Call |-> "none"]
    /\ stored \in {s \in [Key -> Commit \cup {None}] : \A k \in Key : k \in LegacyKey <=> s[k] # None}
    /\ built = [b \in Build |-> NoBuild]
    /\ applied = [r \in Request |-> <<>>]

Decide ==
    \/ \E k \in Commit : AdmitCreate(k) \/ InsertRequest(k) \/ RefuseCreate(k)
    \/ \E r \in Request : Approve(r) \/ Reject(r) \/ Extend(r) \/ Lapse(r)
    \/ \E S \in SUBSET DueRequests : Sweep(S)

BeginCall(c) ==
    \/ \E k \in Key, a \in Commit : c \in Tracked /\ BeginUpload(c, k, a)
    \/ \E k \in Key, a \in Commit : c \in Direct /\ BeginDirectUpload(c, k, a)
    \/ \E k \in Key, r \in Request : c \in Tracked /\ BeginBuild(c, k, r)
    \/ \E k \in Key : c \in Direct /\ BeginDirectBuild(c, k)
    \/ \E r \in Request : c \in Tracked /\ BeginRead(c, r)
    \/ \E b \in Build : c \in Tracked /\ BeginPromote(c, b)

\* The steps of an open handler.
Handle(c) ==
    \/ ClaimKey(c) \/ ClaimUpload(c) \/ ClaimBuild(c) \/ ClaimPromote(c) \/ RefuseClaim(c)
    \/ CheckKey(c) \/ Verify(c) \/ Send(c) \/ NotSent(c) \/ Answer(c) \/ GiveUp(c)
    \/ MarkObjectUploaded(c) \/ RecordUpload(c) \/ RecordBuild(c) \/ RecordRead(c)
    \/ RecordDeployed(c) \/ RecordNothing(c) \/ Release(c)

RackWorks(c) ==
    \/ RackStores(c) \/ RackPromotes(c) \/ RackRefuses(c)
    \/ \E b \in Build : RackBuilds(c, b)

Next ==
    \/ Decide
    \/ \E c \in Call : BeginCall(c) \/ Handle(c) \/ Abandon(c) \/ RackWorks(c)
    \/ \E b \in Build : RackFinishesBuild(b)

Spec == Init /\ [][Next]_vars

\* Every step of a handler is bounded in time: the forward by its timeout, the database writes by
\* theirs.  The sweep runs every five minutes, and a row it skipped is due again the next time.
Fairness ==
    /\ \A c \in Call : WF_vars(Handle(c))
    /\ \A r \in Request : WF_vars(\E S \in SUBSET DueRequests : r \in S /\ Sweep(S))

FairSpec == Spec /\ Fairness

(***************************************************************************)
(* Properties                                                              *)
(***************************************************************************)
TypeOK ==
    /\ approval \in [Request -> Row]
    /\ creating \in [Commit -> Nat]
    /\ keys \in [Key -> {"free", "claimed", "uploaded"}]
    /\ call \in [Call -> CallState]
    /\ rack \in [Call -> {"none", "running", "done", "refused"}]
    /\ stored \in [Key -> Commit \cup {None}]
    /\ built \in [Build -> BuildState]
    /\ applied \in [Request -> Seq(Build)]

\* Call c may have r's promote at the rack, or is about to send it, or to say how it ended.
Promoting(c, r) ==
    /\ call[c].kind = "promote"
    /\ call[c].req = r
    /\ call[c].at \in {"send", "wait", "record", "release", "gone"}

\* "Two concurrent promotes with the same approval can't both be forwarded", and a promote isn't
\* retried while an earlier one may still apply: whatever times out, fails to be recorded or dies
\* with its process, and however often the approval lapses and is extended, the rack applies at
\* most one promote under it.
OnePromoteApplied == \A r \in Request : Len(applied[r]) <= 1

\* A promote claim is only released once the rack can't be working on the promote it was taken
\* for: without a claim, no promote of the approval is anywhere, nor has one been applied.
FreeClaimMeansNoPromote ==
    \A r \in Request : ~approval[r].promoteStarted =>
        /\ applied[r] = <<>>
        /\ \A c \in Call : ~Promoting(c, r)

\* A request an admin rejected has had no release promoted, and never will: the rejection can't
\* overtake a promote the rack is working on.
RejectedNeverPromoted ==
    \A r \in Request : approval[r].status = "rejected" =>
        /\ applied[r] = <<>>
        /\ \A c \in Call : ~Promoting(c, r)

\* What the rack promotes under an approval was built from an archive of the approved commit,
\* although uploads of any commit go on beside it, and the object is read after the check.
PromotedIsApprovedCommit ==
    \A r \in Request : \A i \in DOMAIN applied[r] :
        built[applied[r][i]].archive = approval[r].commit

\* The rack builds the archive the gateway checked: no upload, tracked or direct, in flight or
\* given up, replaces an object between its check and the build's reading it.
BuiltWhatWasChecked ==
    \A b \in Build : built[b].state = "finished" => built[b].archive = built[b].checked

\* A request marked deployed had exactly its own release applied.
DeployedMeansApplied ==
    \A r \in Request : approval[r].status = "deployed" => applied[r] = <<approval[r].release>>

\* A build recorded under an approval was built from the object the approval says it uploaded.
BuiltFromBoundArchive ==
    \A r \in Request : approval[r].build # None => built[approval[r].build].source = approval[r].object

\* CI can find one open request per commit: at most one is pending or approved.
OneOpenRequest ==
    \A r, s \in Request :
        Active(approval[r]) /\ Active(approval[s]) /\ approval[r].commit = approval[s].commit => r = s

\* While no process dies, an upload or build claim doesn't outlive its call: it is recorded or
\* released, so CI can carry on or retry.
Unsettled(row) ==
    \/ row.object # None /\ ~row.uploaded
    \/ row.buildStarted /\ row.build = None
ClaimsSettle == \A r \in Request : Unsettled(approval[r]) ~> ~Unsettled(approval[r])

\* A request past its time doesn't stay open and block a new one for its commit: it is expired,
\* unless an admin decides on it (or extends it) before.
LapsedRequestsClose ==
    \A r \in Request :
        (Active(approval[r]) /\ approval[r].lapsed) ~> ~(Active(approval[r]) /\ approval[r].lapsed)

\* A step's result is never taken back or replaced: a finished upload, a recorded build and its
\* release stay bound through lapses, extensions, late answers and the release of later claims.
BindingsKept ==
    [][\A r \in Request :
         /\ approval[r].uploaded => approval'[r].uploaded /\ approval'[r].object = approval[r].object
         /\ approval[r].build # None => approval'[r].build = approval[r].build
         /\ approval[r].release # None => approval'[r].release = approval[r].release]_vars

(***************************************************************************)
(* The inductive invariant behind the promote's safety                     *)
(***************************************************************************)
\* What each step of a handler can rely on: what its call names, and where its rack request is.
CallOK(c) ==
    LET s == call[c] IN
    /\ s.kind = "none" <=> s.at = "idle"
    /\ s.kind \in {"upload", "build"} => s.key \in Key
    /\ s.kind \in {"read", "promote"} \/ s.at = "claim" => s.req \in Request
    /\ s.kind \in {"read", "promote"} => s.build \in Build
    /\ s.kind = "read" => s.at = "record"
    /\ s.kind = "promote" => s.at \in {"claim", "send", "wait", "record", "release", "gone"}
    /\ s.at \in {"idle", "claimKey", "claim", "checkKey", "verify", "send"} => rack[c] = "none"
    /\ rack[c] = "running" => s.at \in {"wait", "release", "gone"}
    /\ s.at = "gone" => rack[c] = "running"
    /\ s.kind = "promote" /\ s.at = "release" => rack[c] \in {"none", "refused"}
    /\ s.kind = "promote" /\ s.at = "record" => rack[c] = "done"

BuildOK(b) == built[b].state = "running" => built[b].source \in Key

\* Request r's promote claim stands for the one call that may have a promote of it at the rack,
\* and stays behind once a promote was applied.
ClaimOK(r) ==
    /\ approval[r].promoteStarted => approval[r].status \in {"approved", "expired", "deployed"}
    /\ \A c \in Call : Promoting(c, r) => approval[r].promoteStarted
    /\ \A c, d \in Call : Promoting(c, r) /\ Promoting(d, r) => c = d
    /\ applied[r] # <<>> =>
         /\ Len(applied[r]) = 1
         /\ approval[r].promoteStarted
         /\ \A c \in Call : Promoting(c, r) => call[c].at \in {"wait", "record"} /\ rack[c] = "done"

ShapeOK == TypeOK /\ (\A c \in Call : CallOK(c)) /\ (\A b \in Build : BuildOK(b))
IInv == ShapeOK /\ \A r \in Request : ClaimOK(r)

(***************************************************************************)
(* The inductive invariant behind what is promoted, built and recorded     *)
(***************************************************************************)
\* Only an approved request has a standing grant, and takes a promote's claim.
GrantOK(row) ==
    /\ row.status = "approved" => row.approved
    /\ row.status \in {"none", "pending"} => ~row.approved
    /\ row.promoteStarted => row.approved

\* The rack has answered r's promote, and the answer hasn't been dealt with.
Answered(c, r) == call[c].kind = "promote" /\ call[c].req = r /\ rack[c] = "done"

ReportOK(r) ==
    /\ approval[r].status = "deployed" => applied[r] # <<>>
    /\ \A c \in Call : Answered(c, r) => applied[r] # <<>>

PromiseInv == IInv /\ \A r \in Request : GrantOK(approval[r]) /\ ReportOK(r)

\* A row holds nothing before its insert, and a step's result only with what the step worked on.
RowOK(row) ==
    /\ row.status = "none" => row = NoRow
    /\ row.uploaded => row.object # None
    /\ row.release # None => row.release = row.build

\* What a call was begun with is still what its request is bound to.
NamesOK(c) ==
    LET s == call[c] IN
    /\ s.req # None => approval[s.req].status # "none"
    /\ s.kind = "read" => s.build = approval[s.req].build
    /\ s.kind = "promote" => s.build = approval[s.req].release

BindingInv ==
    /\ ShapeOK
    /\ \A r \in Request : RowOK(approval[r])
    /\ \A c \in Call : NamesOK(c)

\* Upload c has claimed its key; it may still change what the key's object holds.
Uploading(c) == call[c].kind = "upload" /\ call[c].at # "claimKey"
MayStore(c) == Uploading(c) /\ (call[c].at \in {"claim", "send"} \/ rack[c] = "running")

\* A key is claimed by one upload, and until that is done nobody takes the object for complete.
KeysOK ==
    /\ \A c \in Call : Uploading(c) => keys[call[c].key] # "free"
    /\ \A c, d \in Call : Uploading(c) /\ Uploading(d) /\ call[c].key = call[d].key => c = d
    /\ \A c \in Call : MayStore(c) => keys[call[c].key] = "claimed"

\* Build c is past its check: what it checked is the object, of the approved commit.
Checked(c) == call[c].kind = "build" /\ (call[c].at = "send" \/ rack[c] = "running")

CheckOK(c) ==
    LET s == call[c] IN
    /\ (s.kind = "build" /\ s.at = "verify") \/ Checked(c) => keys[s.key] = "uploaded"
    /\ Checked(c) => s.archive = stored[s.key] /\ (s.req # None => s.archive = approval[s.req].commit)
    /\ s.kind = "build" /\ s.at = "record" => rack[c] = "done"
    /\ s.kind = "build" /\ rack[c] = "done" =>
         /\ s.build \in Build
         /\ built[s.build].state # "none"
         /\ s.req # None => built[s.build].checked = approval[s.req].commit

SourceOK(b) ==
    /\ built[b].state # "none" =>
         /\ built[b].source \in Key
         /\ keys[built[b].source] = "uploaded"
         /\ built[b].checked = stored[built[b].source]
    /\ built[b].state = "finished" => built[b].archive = built[b].checked

ArchiveInv ==
    /\ BindingInv
    /\ KeysOK
    /\ \A c \in Call : CheckOK(c)
    /\ \A b \in Build : SourceOK(b)

\* r's build is of its commit, its release is of a finished build, and nothing else was promoted.
RecordedOK(r) ==
    /\ approval[r].build # None =>
         /\ built[approval[r].build].state # "none"
         /\ built[approval[r].build].checked = approval[r].commit
    /\ approval[r].release # None => built[approval[r].release].state = "finished"
    /\ \A i \in DOMAIN applied[r] : applied[r][i] = approval[r].release

DeployInv == PromiseInv /\ ArchiveInv /\ \A r \in Request : RecordedOK(r)

(***************************************************************************)
(* The gateway keeps an approval's promise (DeployPromise)                 *)
(***************************************************************************)
Standing(row) ==
    CASE row.status = "deployed" -> "deployed"
      [] row.status = "rejected" \/ (row.status = "expired" /\ ~row.approved) -> "withdrawn"
      [] row.status \in {"approved", "expired"} /\ row.approved -> "granted"
      [] OTHER -> "waiting"

PromoteRunning(r) ==
    \E c \in Call : call[c].kind = "promote" /\ call[c].req = r /\ rack[c] = "running"

PromoteOf(r) ==
    IF applied[r] # <<>> THEN "applied" ELSE IF PromoteRunning(r) THEN "running" ELSE "none"

Promise == INSTANCE DeployPromise WITH
    standing <- [r \in Request |-> Standing(approval[r])],
    promote <- [r \in Request |-> PromoteOf(r)]

\* Whatever the database says of a request, what the rack does under it is what was promised:
\* promotes run only under a standing grant, one at a time, and never again once one has applied.
PromiseKept == Promise!PromiseSpec
=============================================================================
