------------------------------- MODULE AppEnv -------------------------------
(***************************************************************************)
(* Changes to an app's env.  The rack stores an env as part of a release,  *)
(* whole: a change reads the latest release's env, merges what was asked   *)
(* into it and posts a new release.  The gateway runs every change under   *)
(* the app's env lock, and a build whose manifest was checked with the env *)
(* keeps changes away until it has read that env.                          *)
(*                                                                         *)
(* The lock lives in a database transaction, so it can be lost while its   *)
(* holder goes on; the gateway stops waiting for the rack after a while    *)
(* and gives the lock up, while the rack may still carry the request out.  *)
(* One app is modelled.                                                    *)
(***************************************************************************)
EXTENDS FiniteSets

CONSTANTS
    Writer,      \* env changes: a release create through the proxy, or the web editor's PUT
    Builder,     \* build creates whose manifest is checked with the env
    EnvKey,      \* names of env vars
    Secret,      \* the names that are secrets
    Protected,   \* the names that are protected
    Val,         \* values of env vars
    FirstEnv,    \* the app's env at the start
    Ask,         \* what writers may ask for
    Unset,       \* no value
    None         \* no process, no env

Process == Writer \cup Builder
Env == [EnvKey -> Val \cup {Unset}]

\* What a request may say of a key: a value, the mask shown in a value's place, that the key is to
\* be removed (the web editor's list), or nothing.
Posted == Val \cup {"mask", "remove", "omit"}

AskType == [via : {"proxy", "web"}, post : [EnvKey -> Posted], secrets : BOOLEAN,
            optIn : SUBSET EnvKey]

ASSUME ConstantsAssumption ==
    /\ Secret \subseteq EnvKey
    /\ Protected \subseteq EnvKey
    /\ Unset \notin Val
    /\ Val \cap {"mask", "remove", "omit"} = {}
    /\ FirstEnv \in Env
    /\ Ask \subseteq AskType
    /\ None \notin Process
    /\ None \notin Env
    /\ None \notin Ask
    /\ Writer \cap Builder = {}

VARIABLES
    env,      \* the env of the app's latest release, at the rack
    lock,     \* the holder of the app env lock's transaction, or None
    row,      \* [Builder -> ...]: the checked_builds table, a row per build create
    aged,     \* the rows older than CheckedBuildMaxAge
    at,       \* [Process -> ...]: where each request's handler is
    ask,      \* [Writer -> Ask]: what the writer asks for
    base,     \* [Process -> Env]: the env the handler read
    rack,     \* [Process -> ...]: what the rack does with the forwarded request
    readEnv,  \* [Builder -> Env]: the env the rack's build read
    late,     \* history: handlers that lost their lock, or left a release create at the rack
    crossed   \* history: handlers whose env a late one changed, or whose row went with its age

vars == <<env, lock, row, aged, at, ask, base, rack, readEnv, late, crossed>>

history == <<late, crossed>>

Label == {"idle", "locked", "checked", "merged", "ready", "sent", "done"}
RackState == {"none", "asked", "done", "refused", "ended"}

TypeOK ==
    /\ env \in Env
    /\ lock \in Process \cup {None}
    /\ row \in [Builder -> {"none", "unnamed", "named"}]
    /\ aged \subseteq Builder
    /\ at \in [Process -> Label]
    /\ ask \in [Writer -> Ask \cup {None}]
    /\ base \in [Process -> Env \cup {None}]
    /\ rack \in [Process -> RackState]
    /\ readEnv \in [Builder -> Env \cup {None}]
    /\ late \subseteq Process
    /\ crossed \subseteq Process

Init ==
    /\ env = FirstEnv
    /\ lock = None
    /\ row = [b \in Builder |-> "none"]
    /\ aged = {}
    /\ at = [p \in Process |-> "idle"]
    /\ ask = [w \in Writer |-> None]
    /\ base = [p \in Process |-> None]
    /\ rack = [p \in Process |-> "none"]
    /\ readEnv = [b \in Builder |-> None]
    /\ late = {}
    /\ crossed = {}

(***************************************************************************)
(* Merging a change into the env                                           *)
(***************************************************************************)

\* The web editor lists what it removes.  A release create posts the whole env, so what it leaves
\* out goes, unless the key is protected and the request didn't opt in to changing it.
Removes(a, k) ==
    \/ a.post[k] = "remove"
    \/ /\ a.via = "proxy"
       /\ a.post[k] = "omit"
       /\ k \in Protected => k \in a.optIn

\* Slip: only what was posted goes into the new env (OnlyAskedKeysChange).
MergedPosted(a, e) ==
    [k \in EnvKey |-> IF a.post[k] \in Val THEN a.post[k]
                      ELSE IF a.post[k] = "mask" THEN e[k]
                      ELSE Unset]
\* mergeEnvAndComputeDiffs and recomposeEnvString; MergeEnv for the web editor.
Merged(a, e) ==
    [k \in EnvKey |-> IF Removes(a, k) THEN Unset
                      ELSE IF a.post[k] \in Val THEN a.post[k]
                      ELSE e[k]]

\* The keys a release create would change, seen from its caller: they need secret:set for a secret,
\* and an opt-in (with the permission and MFA) for a protected key.
AcceptsProxy(a, e) ==
    \A k \in EnvKey :
        LET changes == a.post[k] \in Val \/ (Removes(a, k) /\ e[k] # Unset) IN
        /\ a.post[k] = "mask" => e[k] # Unset
        /\ k \in Secret /\ changes => a.secrets
        /\ k \in Protected /\ changes => k \in a.optIn

\* The web editor has no opt-in: a protected key it names is refused.
AcceptsWeb(a, e) ==
    \A k \in EnvKey :
        LET changes == a.post[k] \in Val \/ (Removes(a, k) /\ e[k] # Unset) IN
        /\ a.post[k] = "mask" => e[k] # Unset
        /\ k \in Secret /\ changes => a.secrets
        /\ k \in Protected => a.post[k] = "omit"

Accepts(a, e) == IF a.via = "web" THEN AcceptsWeb(a, e) ELSE AcceptsProxy(a, e)

(***************************************************************************)
(* The lock                                                                *)
(***************************************************************************)
Goto(p, label) == at' = [at EXCEPT ![p] = label]

Released(p) == IF lock = p THEN None ELSE lock

\* The end of a handler: its deferred release.
Finish(p) == Goto(p, "done") /\ lock' = Released(p)

\* Slip: the lock is taken over from its holder (EnvIInv).
TakeOver(p) == lock' = p
\* tryLockAppEnv: a caller who doesn't get the lock tries again for a while, holding nothing.
TryLock(p) == lock = None /\ lock' = p

LockAppEnv(p) ==
    /\ at[p] = "idle"
    /\ TryLock(p)
    /\ Goto(p, "locked")
    /\ IF p \in Writer THEN \E a \in Ask : ask' = [ask EXCEPT ![p] = a] ELSE UNCHANGED ask
    /\ UNCHANGED <<env, row, aged, base, rack, readEnv, history>>

\* The handler ends early: a failed read or check, a timeout of its request to the rack, or an
\* answer (a 5xx) that doesn't say what the rack did.  The process may also have died, which ends
\* the lock's transaction.
\* Slip: an early return forgets the deferred release (LockComesBack).
LeaveLocked(p) == Goto(p, "done") /\ UNCHANGED lock
Leave(p) == Finish(p)

GiveUp(p) ==
    /\ at[p] \notin {"idle", "done"}
    /\ Leave(p)
    /\ late' = IF p \in Writer /\ rack[p] = "asked" THEN late \cup {p} ELSE late
    /\ UNCHANGED <<env, row, aged, ask, base, rack, readEnv, crossed>>

\* The connection of the lock's transaction is lost.  Its holder doesn't notice.
LoseLock(p) ==
    /\ lock = p
    /\ lock' = None
    /\ late' = IF p \in Writer \/ at[p] \in {"locked", "checked"} THEN late \cup {p} ELSE late
    /\ UNCHANGED <<env, row, aged, at, ask, base, rack, readEnv, crossed>>

(***************************************************************************)
(* Env changes                                                             *)
(***************************************************************************)
Web(w) == ask[w] # None /\ ask[w].via = "web"

\* FetchLatestEnvMap, and the merge.  A proxied create comes here after the build check, the web
\* editor before it.  A web change that changes nothing writes no release.
ReadEnv(w) ==
    /\ at[w] = IF Web(w) THEN "locked" ELSE "checked"
    /\ base' = [base EXCEPT ![w] = env]
    /\ IF ~Accepts(ask[w], env) \/ (Web(w) /\ Merged(ask[w], env) = env)
         THEN Finish(w)
         ELSE Goto(w, IF Web(w) THEN "merged" ELSE "ready") /\ UNCHANGED lock
    /\ UNCHANGED <<env, row, aged, ask, rack, readEnv, history>>

Listed == {b \in Builder : row[b] # "none" /\ b \notin aged}
Finished(b) == row[b] = "named" /\ rack[b] = "ended"

\* The rows left when old rows and those of S are deleted.
RowsWithout(S) == [b \in Builder |-> IF b \in S \cup aged THEN "none" ELSE row[b]]

\* Slip: a build the rack hasn't named yet doesn't count (BuildsReadCheckedEnv).
HeldUpOnlyByNamed(b) == row[b] = "named" /\ rack[b] # "ended"
HoldsUp(b) == ~Finished(b)

\* CheckNoBuildReadingEnv: rows past their age go first.  The rest are asked about in order, and
\* those finished forgotten, up to the first that may still read the env, or can't be asked about.
CheckNoBuildReadingEnv(w) ==
    /\ at[w] = IF Web(w) THEN "merged" ELSE "locked"
    /\ \/ /\ \A b \in Listed : ~HoldsUp(b)
          /\ row' = RowsWithout(Listed)
          /\ Goto(w, IF Web(w) THEN "ready" ELSE "checked")
          /\ UNCHANGED lock
       \/ \E S \in SUBSET {b \in Listed : Finished(b)} :
            /\ row' = RowsWithout(S)
            /\ Finish(w)
    /\ crossed' = crossed \cup {b \in aged : row[b] # "none" /\ readEnv[b] = None}
    /\ aged' = {}
    /\ UNCHANGED <<env, ask, base, rack, readEnv, late>>

\* Slip: the lock is given up when the request has been sent (ChangesAreAtomic).
ForwardUnlocked(p) ==
    /\ at[p] = "ready"
    /\ Goto(p, "sent")
    /\ rack' = [rack EXCEPT ![p] = "asked"]
    /\ lock' = Released(p)
    /\ UNCHANGED <<env, row, aged, ask, base, readEnv, history>>
Forward(p) ==
    /\ at[p] = "ready"
    /\ Goto(p, "sent")
    /\ rack' = [rack EXCEPT ![p] = "asked"]
    /\ UNCHANGED <<env, lock, row, aged, ask, base, readEnv, history>>

Refuse(p) ==
    /\ rack[p] = "asked"
    /\ rack' = [rack EXCEPT ![p] = "refused"]
    /\ UNCHANGED <<env, lock, row, aged, at, ask, base, readEnv, history>>

\* The rack creates the release.  One whose handler is late crosses whoever has read the env.
CreateRelease(w) ==
    /\ rack[w] = "asked"
    /\ rack' = [rack EXCEPT ![w] = "done"]
    /\ env' = Merged(ask[w], base[w])
    /\ crossed' = IF w \in late THEN crossed \cup {p \in Process : base[p] # None} ELSE crossed
    /\ UNCHANGED <<lock, row, aged, at, ask, base, readEnv, late>>

\* The rack's answer comes in time.
AnswerWriter(w) ==
    /\ at[w] = "sent"
    /\ rack[w] \in {"done", "refused"}
    /\ Finish(w)
    /\ UNCHANGED <<env, row, aged, ask, base, rack, readEnv, history>>

(***************************************************************************)
(* Builds                                                                  *)
(***************************************************************************)

\* validateBuildManifest, from its lock on: the env is read and the manifest checked with it.
CheckManifest(b) ==
    /\ at[b] = "locked"
    /\ base' = [base EXCEPT ![b] = env]
    /\ (Goto(b, "checked") /\ UNCHANGED lock) \/ Finish(b)
    /\ UNCHANGED <<env, row, aged, ask, rack, readEnv, history>>

RecordCheckedBuild(b) ==
    /\ at[b] = "checked"
    /\ row' = [row EXCEPT ![b] = "unnamed"]
    /\ Goto(b, "ready")
    /\ UNCHANGED <<env, lock, aged, ask, base, rack, readEnv, history>>

\* The rack was never reached, or refused the build (4xx), before it was named: the row goes, if
\* its DELETE succeeds.
SettleCheckedBuild(b) ==
    /\ \/ at[b] = "ready"
       \/ at[b] = "sent" /\ rack[b] = "refused"
    /\ row' \in {row, [row EXCEPT ![b] = "none"]}
    /\ Finish(b)
    /\ UNCHANGED <<env, aged, ask, base, rack, readEnv, history>>

StartBuild(b) ==
    /\ rack[b] = "asked"
    /\ rack' = [rack EXCEPT ![b] = "done"]
    /\ UNCHANGED <<env, lock, row, aged, at, ask, base, readEnv, history>>

\* captureBuildCreation names the row, if its UPDATE succeeds (and it is still there).
NameCheckedBuild(b) ==
    /\ at[b] = "sent"
    /\ rack[b] \in {"done", "ended"}
    /\ row' \in {row, [row EXCEPT ![b] = IF @ = "none" THEN @ ELSE "named"]}
    /\ Finish(b)
    /\ UNCHANGED <<env, aged, ask, base, rack, readEnv, history>>

\* The build reads the env as it starts.
ReadEnvInBuild(b) ==
    /\ rack[b] = "done"
    /\ readEnv[b] = None
    /\ readEnv' = [readEnv EXCEPT ![b] = env]
    /\ UNCHANGED <<env, lock, row, aged, at, ask, base, rack, history>>

\* The build completes, or fails, which it may do before it reads the env.
EndBuild(b) ==
    /\ rack[b] = "done"
    /\ rack' = [rack EXCEPT ![b] = "ended"]
    /\ UNCHANGED <<env, lock, row, aged, at, ask, base, readEnv, history>>

\* An hour passes; the request is long over.
PassMaxAge(b) ==
    /\ row[b] # "none"
    /\ at[b] = "done"
    /\ b \notin aged
    /\ aged' = aged \cup {b}
    /\ UNCHANGED <<env, lock, row, at, ask, base, rack, readEnv, history>>

WriterNext(w) ==
    \/ CheckNoBuildReadingEnv(w)
    \/ ReadEnv(w)
    \/ CreateRelease(w)
    \/ AnswerWriter(w)

BuilderNext(b) ==
    \/ CheckManifest(b)
    \/ RecordCheckedBuild(b)
    \/ SettleCheckedBuild(b)
    \/ StartBuild(b)
    \/ NameCheckedBuild(b)
    \/ ReadEnvInBuild(b)
    \/ EndBuild(b)
    \/ PassMaxAge(b)

Next ==
    \/ \E p \in Process : LockAppEnv(p) \/ GiveUp(p) \/ LoseLock(p) \/ Forward(p) \/ Refuse(p)
    \/ \E w \in Writer : WriterNext(w)
    \/ \E b \in Builder : BuilderNext(b)

Spec == Init /\ [][Next]_vars

\* Every request of a handler has a timeout, so it ends.
FairSpec == Spec /\ \A p \in Process : WF_vars(GiveUp(p))

(***************************************************************************)
(* What should hold                                                        *)
(***************************************************************************)

\* A release create that kept its lock until the rack had created the release changes the env as
\* if it had been read and written at once: no other change is undone.  The exceptions are those
\* the lock can't cover: the handler lost its lock or stopped waiting for the rack (late), or a
\* handler that had done so changed the env in between (crossed).
ChangesAreAtomic ==
    [][\A w \in Writer :
         CreateRelease(w) /\ w \notin late \cup crossed => env' = Merged(ask[w], env)]_vars

\* Such a create changes no key that its caller left alone, masked or may not change: whatever was
\* changed since the caller last saw the env, a masked secret or protected key keeps its value.
MayChange(a, k) ==
    /\ a.post[k] # "mask"
    /\ a.via = "web" => a.post[k] # "omit"
    /\ k \in Secret => a.secrets
    /\ k \in Protected => a.via = "proxy" /\ k \in a.optIn
OnlyAskedKeysChange ==
    [][\A w \in Writer : CreateRelease(w) /\ w \notin late \cup crossed =>
         \A k \in EnvKey : env'[k] # env[k] => MayChange(ask[w], k)]_vars

\* A build reads the env its manifest was checked with: no change comes between the check and the
\* build's own read, whenever that is, unless the row was forgotten with its age, or by a late one.
BuildsReadCheckedEnv ==
    \A b \in Builder : readEnv[b] # None /\ b \notin late \cup crossed => readEnv[b] = base[b]

\* No handler keeps the app's env locked, however it ends.
LockComesBack == \A p \in Process : lock = p ~> lock # p

(***************************************************************************)
(* The inductive invariant                                                 *)
(***************************************************************************)
InTime(p) == p \notin late \cup crossed

\* What a handler has, by where it is.
HandlersInOrder ==
    /\ \A w \in Writer :
         /\ at[w] = "idle" => base[w] = None
         /\ at[w] # "idle" => ask[w] \in Ask
         /\ at[w] \in {"merged", "ready", "sent"} \/ rack[w] = "asked" => base[w] \in Env
         /\ rack[w] = "asked" => at[w] = "sent" \/ w \in late
    /\ \A b \in Builder :
         /\ at[b] \in {"idle", "locked"} => base[b] = None
         /\ at[b] \in {"checked", "ready", "sent"} \/ rack[b] # "none" => base[b] \in Env
         /\ row[b] = "named" => at[b] = "done"
         /\ rack[b] = "none" => readEnv[b] = None
    /\ \A p \in Process : at[p] \notin {"sent", "done"} => rack[p] = "none"

\* Between taking the lock and the end of its handler, a writer holds it; a builder until its row.
HoldersHold ==
    \A p \in Process :
        /\ \/ at[p] \in {"locked", "checked"}
           \/ p \in Writer /\ at[p] \in {"merged", "ready", "sent"}
        /\ p \notin late
        => lock = p

\* A writer that has read the env works with the latest, until its own release.
BaseIsLatest ==
    \A w \in Writer :
        /\ at[w] \notin {"idle", "done"}
        /\ base[w] # None
        /\ rack[w] # "done"
        /\ InTime(w)
        => base[w] = env

\* A checked build that may still read the env.
Awaits(b) ==
    /\ readEnv[b] = None
    /\ at[b] \in {"checked", "ready"} \/ rack[b] \in {"asked", "done"}

\* It would find the env it was checked with, and its row keeps changes away.
AwaitingBuildsKept ==
    \A b \in Builder :
        Awaits(b) /\ InTime(b) => /\ base[b] = env
                                  /\ at[b] = "checked" \/ row[b] # "none"

\* So a writer past the build check finds none.
NoneAwaitsPastTheCheck ==
    \A w \in Writer, b \in Builder :
        at[w] \in {"checked", "ready", "sent"} /\ w \notin late /\ InTime(b) => ~Awaits(b)

\* A change that goes to the rack was accepted for the env it goes into.
ChangesAccepted ==
    \A w \in Writer :
        at[w] \in {"merged", "ready", "sent"} \/ rack[w] = "asked" => Accepts(ask[w], base[w])

EnvIInv ==
    /\ TypeOK
    /\ HandlersInOrder
    /\ ChangesAccepted
    /\ HoldersHold
    /\ BaseIsLatest
    /\ AwaitingBuildsKept
    /\ NoneAwaitsPastTheCheck
    /\ BuildsReadCheckedEnv
=============================================================================
