------------------------------ MODULE Accounts ------------------------------
(***************************************************************************)
(* Changes to user accounts, the sign-ins they race, and the audit events  *)
(* appended with them, as the database transactions they are.  A           *)
(* transaction is a row of statements; each takes its locks, waits for     *)
(* those it can't have, and sees what was committed when it ran (read      *)
(* committed).  Nothing a transaction wrote shows before it commits.       *)
(*                                                                         *)
(* The locks: Postgres's four modes of row lock on the users table, where  *)
(* a foreign key that names a user takes the weakest of them, and the      *)
(* advisory lock of the audit chain.                                       *)
(***************************************************************************)
EXTENDS Naturals, Sequences, FiniteSets

CONSTANTS
    User,     \* user ids, in the order row locks are taken in
    Tx,       \* transactions
    Email,    \* email addresses
    FirstRow, \* [User -> ...]: the users at the start
    None      \* no transaction, no event

Op == {"lock", "autoLock", "unlock", "changeEmail", "resetMFA", "changeRoles", "login", "append"}
Row == [admin : BOOLEAN, locked : BOOLEAN, enrolled : BOOLEAN, email : Email]

ASSUME ConstantsAssumption ==
    /\ User \subseteq Nat
    /\ Tx \cap User = {}
    /\ FirstRow \in [User -> Row]
    /\ None \notin Tx \cup User
    /\ None \notin Op
    /\ None \notin [index : Nat, id : Nat, prev : Nat]
    /\ None \notin Row

\* A session is named by the transaction that created it, or by its user when it's from before.
Session == User \cup Tx

VARIABLES
    users,     \* [User -> Row]: the users table
    live,      \* the sessions that aren't revoked
    seen,      \* [Session -> Row]: the user as the session's sign-in loaded them
    chain,     \* the audit events, in chain order: their ids and the ids of those before them
    nextId,    \* the sequence event ids come from
    chainLock, \* the holder of the chain lock, or None
    held,      \* row locks
    at,        \* [Tx -> ...]: the statement each transaction runs next
    op,        \* [Tx -> ...]: what it does
    target,    \* [Tx -> User]: to whom
    by,        \* [Tx -> User]: the admin who does it
    admins,    \* [Tx -> ...]: LockUser's admins whose row locks it has yet to take
    others,    \* [Tx -> ...]: those it found unlocked, but the target
    revoking,  \* [Tx -> SUBSET Session]: the sessions it revokes
    event      \* [Tx -> ...]: the audit event it appends, or None

vars == <<users, live, seen, chain, nextId, chainLock, held, at, op, target, by, admins, others,
          revoking, event>>

Statement == {"load", "chain", "admins", "row", "key", "revoke", "link", "insert", "commit"}
Event == [index : Nat, id : Nat, prev : Nat]
Mode == {"keyShare", "share", "noKeyUpdate", "update"}

TypeOK ==
    /\ users \in [User -> Row]
    /\ live \subseteq Session
    /\ seen \in [Session -> Row \cup {None}]
    /\ chain \in Seq(Event)
    /\ nextId \in Nat
    /\ chainLock \in Tx \cup {None}
    /\ held \subseteq [row : User, tx : Tx, mode : Mode]
    /\ at \in [Tx -> Statement \cup {"idle", "done"}]
    /\ op \in [Tx -> Op \cup {None}]
    /\ target \in [Tx -> User \cup {None}]
    /\ by \in [Tx -> User \cup {None}]
    /\ admins \in [Tx -> SUBSET User]
    /\ others \in [Tx -> SUBSET User]
    /\ revoking \in [Tx -> SUBSET Session]
    /\ event \in [Tx -> Event \cup {None}]

Init ==
    /\ users = FirstRow
    /\ live = {u \in User : ~FirstRow[u].locked}
    /\ seen = [s \in Session |-> IF s \in User THEN FirstRow[s] ELSE None]
    /\ chain = <<>>
    /\ nextId = 1
    /\ chainLock = None
    /\ held = {}
    /\ at = [t \in Tx |-> "idle"]
    /\ op = [t \in Tx |-> None]
    /\ target = [t \in Tx |-> None]
    /\ by = [t \in Tx |-> None]
    /\ admins = [t \in Tx |-> {}]
    /\ others = [t \in Tx |-> {}]
    /\ revoking = [t \in Tx |-> {}]
    /\ event = [t \in Tx |-> None]

(***************************************************************************)
(* The transactions' statements                                            *)
(***************************************************************************)
\* Slip: an event's place is read without the chain lock (AccountIInv).
FirstUnchained(o) ==
    CASE o = "login" -> "load"
      [] o = "lock" -> "admins"
      [] o = "autoLock" -> "chain"
      [] o = "append" -> "link"
      [] OTHER -> "row"
First(o) ==
    CASE o = "login" -> "load"
      [] o = "lock" -> "admins"
      [] o \in {"autoLock", "append"} -> "chain"
      [] OTHER -> "row"

\* Slip: an admin's lock is audited in its own transaction (ChainLockMovesOn).
ThenAudited(o, s) ==
    CASE s = "load" -> "row"
      [] s = "chain" -> IF o = "autoLock" THEN "row" ELSE "link"
      [] s = "admins" -> "row"
      [] s = "row" -> CASE o \in {"unlock", "changeRoles", "login"} -> "commit"
                        [] o = "lock" -> "key"
                        [] OTHER -> "revoke"
      [] s = "key" -> IF o = "lock" THEN "revoke" ELSE "commit"
      [] s = "revoke" -> CASE o = "autoLock" -> "link" [] o = "lock" -> "chain" [] OTHER -> "key"
      [] s = "link" -> "insert"
      [] OTHER -> "commit"
\* The statement that follows s: LockUser, LockUserAudited, UnlockUser, UpdateUser (of an email, of
\* roles), ResetUserMFA, CreateUserSession (and the load of its user before it), CreateAuditLog.
Then(o, s) ==
    CASE s = "load" -> "row"
      [] s = "chain" -> IF o = "autoLock" THEN "row" ELSE "link"
      [] s = "admins" -> "row"
      [] s = "row" -> CASE o \in {"unlock", "changeRoles", "login"} -> "commit"
                        [] o = "lock" -> "key"
                        [] OTHER -> "revoke"
      [] s = "key" -> IF o = "lock" THEN "revoke" ELSE "commit"
      [] s = "revoke" -> CASE o = "autoLock" -> "link" [] o = "lock" -> "commit" [] OTHER -> "key"
      [] s = "link" -> "insert"
      [] OTHER -> "commit"

GoOn(t) == at' = [at EXCEPT ![t] = Then(op[t], at[t])]

(***************************************************************************)
(* Locks                                                                   *)
(***************************************************************************)
Conflict(m, n) ==
    CASE m = "keyShare" -> n = "update"
      [] m = "share" -> n \in {"noKeyUpdate", "update"}
      [] m = "noKeyUpdate" -> n # "keyShare"
      [] OTHER -> TRUE

Blockers(t, u, m) == {l.tx : l \in {k \in held : k.row = u /\ k.tx # t /\ Conflict(k.mode, m)}}

TakeRowLock(t, u, m) ==
    /\ Blockers(t, u, m) = {}
    /\ held' = held \cup {[row |-> u, tx |-> t, mode |-> m]}

ReleaseLocks(t) ==
    /\ held' = {l \in held : l.tx # t}
    /\ chainLock' = IF chainLock = t THEN None ELSE chainLock

\* Slip: a sign-in checks its user without their row lock (SessionsMatchUsers).
RowModeNoLogin(o) ==
    CASE o = "login" -> "keyShare"
      [] o \in {"changeEmail", "changeRoles", "resetMFA"} -> "update"
      [] OTHER -> "noKeyUpdate"
\* How a transaction locks its user's row: SELECT FOR SHARE, SELECT FOR UPDATE, or an UPDATE.
RowMode(o) ==
    CASE o = "login" -> "share"
      [] o \in {"changeEmail", "changeRoles", "resetMFA"} -> "update"
      [] OTHER -> "noKeyUpdate"

(***************************************************************************)
(* Statements                                                              *)
(***************************************************************************)
UnlockedAdmin(u) == users[u].admin /\ ~users[u].locked

\* A request comes, from an admin who may make it, or a sign-in, or the gateway's own lock.
Begin(t) ==
    /\ at[t] = "idle"
    /\ \E o \in Op, u \in User :
         /\ op' = [op EXCEPT ![t] = o]
         /\ target' = [target EXCEPT ![t] = u]
         /\ at' = [at EXCEPT ![t] = First(o)]
         /\ \/ /\ o \in {"login", "append", "autoLock"}
               /\ UNCHANGED <<by, admins>>
            \/ /\ o \notin {"login", "append", "autoLock"}
               /\ \E a \in User \ {u} :
                    /\ UnlockedAdmin(a)
                    /\ by' = [by EXCEPT ![t] = a]
               /\ admins' = [admins EXCEPT ![t] =
                               IF o = "lock" THEN {a \in User : UnlockedAdmin(a)} ELSE {}]
    /\ UNCHANGED <<users, live, seen, chain, nextId, chainLock, held, others, revoking, event>>

\* A transaction ends without a trace but the ids it drew: its check failed, its time was up, or
\* Postgres chose it to end a deadlock.
Abort(t) ==
    /\ at[t] \notin {"idle", "done"}
    /\ at' = [at EXCEPT ![t] = "done"]
    /\ ReleaseLocks(t)
    /\ UNCHANGED <<users, live, seen, chain, nextId, op, target, by, admins, others, revoking,
                   event>>

\* The sign-in reads the user, and goes on outside any transaction.
Load(t) ==
    /\ at[t] = "load"
    /\ seen' = [seen EXCEPT ![t] = users[target[t]]]
    /\ GoOn(t)
    /\ UNCHANGED <<users, live, chain, nextId, chainLock, held, op, target, by, admins, others,
                   revoking, event>>

\* Slip: the admins are counted as they were before their row locks (AdminLocksLeaveAnAdmin).
TakeAdminAsFound(t) ==
    /\ at[t] = "admins"
    /\ \E a \in admins[t] :
         /\ \A b \in admins[t] : a <= b
         /\ TakeRowLock(t, a, "update")
         /\ admins' = [admins EXCEPT ![t] = @ \ {a}]
         /\ others' = [others EXCEPT ![t] = (@ \cup {a}) \ {target[t]}]
    /\ UNCHANGED <<users, live, seen, chain, nextId, chainLock, at, op, target, by, revoking,
                   event>>
\* checkLockLeavesAnAdminTx: its SELECT FOR UPDATE takes the row locks of the admins it found, in
\* the order of their ids, and looks at each again once it has its lock.
TakeAdmin(t) ==
    /\ at[t] = "admins"
    /\ \E a \in admins[t] :
         /\ \A b \in admins[t] : a <= b
         /\ TakeRowLock(t, a, "update")
         /\ admins' = [admins EXCEPT ![t] = @ \ {a}]
         /\ others' = [others EXCEPT ![t] =
                         IF UnlockedAdmin(a) /\ a # target[t] THEN @ \cup {a} ELSE @]
    /\ UNCHANGED <<users, live, seen, chain, nextId, chainLock, at, op, target, by, revoking,
                   event>>

\* And its answer: a target who is an unlocked admin with no others isn't locked.
AdminsTaken(t) ==
    /\ at[t] = "admins"
    /\ admins[t] = {}
    /\ others[t] # {} \/ ~UnlockedAdmin(target[t])
    /\ GoOn(t)
    /\ UNCHANGED <<users, live, seen, chain, nextId, chainLock, held, op, target, by, admins,
                   others, revoking, event>>

\* Whether the row, as it is once its lock is had, is still the statement's.
RowQualifies(t) ==
    LET r == users[target[t]] IN
    CASE op[t] = "login" -> /\ r.email = seen[t].email
                            /\ ~r.locked
                            /\ seen[t].enrolled => r.enrolled
      [] op[t] = "autoLock" -> ~r.locked
      [] OTHER -> TRUE

TakeRow(t) ==
    /\ at[t] = "row"
    /\ TakeRowLock(t, target[t], RowMode(op[t]))
    /\ RowQualifies(t)
    /\ GoOn(t)
    /\ UNCHANGED <<users, live, seen, chain, nextId, chainLock, op, target, by, admins, others,
                   revoking, event>>

\* Whether a row names the admin: locked_by_user_id of the user's row, revoked_by_user_id of a
\* session's.
NeedsKey(t) == IF op[t] = "lock" THEN ~users[target[t]].locked ELSE revoking[t] # {}

\* The foreign key's check.
CheckForeignKey(t) ==
    /\ at[t] = "key"
    /\ IF NeedsKey(t)
         THEN TakeRowLock(t, by[t], "keyShare")
         ELSE UNCHANGED held
    /\ GoOn(t)
    /\ UNCHANGED <<users, live, seen, chain, nextId, chainLock, op, target, by, admins, others,
                   revoking, event>>

Owner(s) == IF s \in User THEN s ELSE target[s]
SessionsOf(u) == {s \in live : Owner(s) = u}

\* revokeUserSessionsTx: the sessions that are there now.
RevokeSessions(t) ==
    /\ at[t] = "revoke"
    /\ revoking' = [revoking EXCEPT ![t] = SessionsOf(target[t])]
    /\ GoOn(t)
    /\ UNCHANGED <<users, live, seen, chain, nextId, chainLock, held, op, target, by, admins,
                   others, event>>

TakeChain(t) ==
    /\ at[t] = "chain"
    /\ chainLock = None
    /\ chainLock' = t
    /\ GoOn(t)
    /\ UNCHANGED <<users, live, seen, chain, nextId, held, op, target, by, admins, others,
                   revoking, event>>

LatestId == IF chain = <<>> THEN 0 ELSE chain[Len(chain)].id

\* linkAuditChainRow, once it has the chain lock.
ReadLatest(t) ==
    /\ at[t] = "link"
    /\ event' = [event EXCEPT ![t] =
                   [index |-> Len(chain) + 1, id |-> nextId, prev |-> LatestId]]
    /\ nextId' = nextId + 1
    /\ GoOn(t)
    /\ UNCHANGED <<users, live, seen, chain, chainLock, held, op, target, by, admins, others,
                   revoking>>

\* Whether audit.append_audit_event takes the event: it must follow the latest.
Follows(e) == e.index = Len(chain) + 1 /\ e.prev = LatestId

Insert(t) ==
    /\ at[t] = "insert"
    /\ Follows(event[t])
    /\ GoOn(t)
    /\ UNCHANGED <<users, live, seen, chain, nextId, chainLock, held, op, target, by, admins,
                   others, revoking, event>>

\* What the transaction makes of its user's row.
Changed(o, r) ==
    CASE o \in {"lock", "autoLock"} -> {[r EXCEPT !.locked = TRUE]}
      [] o = "unlock" -> {[r EXCEPT !.locked = FALSE]}
      [] o = "changeEmail" -> {[r EXCEPT !.email = e] : e \in Email \ {r.email}}
      [] o = "resetMFA" -> {[r EXCEPT !.enrolled = FALSE]}
      [] o = "changeRoles" -> {[r EXCEPT !.admin = ~@]}
      [] OTHER -> {r}

Commit(t) ==
    /\ at[t] = "commit"
    /\ at' = [at EXCEPT ![t] = "done"]
    /\ \E r \in Changed(op[t], users[target[t]]) : users' = [users EXCEPT ![target[t]] = r]
    /\ live' = (live \ revoking[t]) \cup {s \in {t} : op[t] = "login"}
    /\ chain' = IF event[t] = None THEN chain ELSE Append(chain, event[t])
    /\ ReleaseLocks(t)
    /\ UNCHANGED <<seen, nextId, op, target, by, admins, others, revoking, event>>

TxNext(t) ==
    \/ Begin(t)
    \/ Abort(t)
    \/ Load(t)
    \/ TakeAdmin(t)
    \/ AdminsTaken(t)
    \/ TakeRow(t)
    \/ CheckForeignKey(t)
    \/ RevokeSessions(t)
    \/ TakeChain(t)
    \/ ReadLatest(t)
    \/ Insert(t)
    \/ Commit(t)

Next == \E t \in Tx : TxNext(t)

Spec == Init /\ [][Next]_vars

(***************************************************************************)
(* What should hold                                                        *)
(***************************************************************************)

\* A user who is locked has no session, and nobody has one from before an email change or an MFA
\* reset: none of these misses a session that a sign-in is about to add.
SessionsMatchUsers ==
    \A s \in live :
        LET r == users[Owner(s)] IN
        /\ ~r.locked
        /\ r.email = seen[s].email
        /\ seen[s].enrolled => r.enrolled

\* When an admin locks an unlocked admin, another is left, whatever other admins do meanwhile.  (The
\* code decides this of a target it found to be an unlocked admin.)
AdminLocksLeaveAnAdmin ==
    [][\A t \in Tx :
         /\ Commit(t)
         /\ op[t] = "lock"
         /\ UnlockedAdmin(target[t])
         /\ [row |-> target[t], tx |-> t, mode |-> "update"] \in held
         => \E u \in User : UnlockedAdmin(u)']_vars

\* The transactions t waits for.
WaitsFor(t) ==
    CASE at[t] = "chain" -> {chainLock} \ {None}
      [] at[t] = "admins" -> UNION {Blockers(t, a, "update") :
                                      a \in {b \in admins[t] : \A c \in admins[t] : b <= c}}
      [] at[t] = "row" -> Blockers(t, target[t], RowMode(op[t]))
      [] at[t] = "key" /\ NeedsKey(t) -> Blockers(t, by[t], "keyShare")
      [] OTHER -> {}

\* The sets of transactions that wait for each other in a circle.
Stuck(S) == S # {} /\ \A t \in S : WaitsFor(t) \cap S # {}
Deadlocks == {S \in SUBSET Tx : Stuck(S) /\ \A R \in SUBSET S : Stuck(R) => R = S}

\* Whoever holds the chain lock, for which every audit event waits, is in no such circle.
ChainLockMovesOn == \A S \in Deadlocks : chainLock \notin S

\* An admin's reset of a user's MFA "takes the user's row lock first, like every other change to a
\* user's MFA, so it can't deadlock with them" (db/mfa.go).
MFAResetsDontDeadlock == \A S \in Deadlocks : \E t \in S : op[t] # "resetMFA"

(***************************************************************************)
(* The inductive invariant                                                 *)
(***************************************************************************)
Holds(t, u, m) == [row |-> u, tx |-> t, mode |-> m] \in held

\* A transaction runs its own statements only, and an idle one has done nothing.
StatementsOf(o) ==
    CASE o = "login" -> {"load", "row", "commit"}
      [] o = "lock" -> {"admins", "row", "key", "revoke", "commit"}
      [] o = "autoLock" -> {"chain", "row", "revoke", "link", "insert", "commit"}
      [] o = "append" -> {"chain", "link", "insert", "commit"}
      [] o \in {"unlock", "changeRoles"} -> {"row", "commit"}
      [] OTHER -> {"row", "revoke", "key", "commit"}
StatementsInOrder ==
    \A t \in Tx :
        IF at[t] = "idle"
          THEN /\ op[t] = None /\ event[t] = None
               /\ admins[t] = {} /\ others[t] = {} /\ revoking[t] = {}
          ELSE /\ op[t] # None /\ target[t] # None
               /\ at[t] = "done" \/ at[t] \in StatementsOf(op[t])
               /\ op[t] \notin {"login", "append", "autoLock"} => by[t] # None
               /\ op[t] \in {"login", "append"} => revoking[t] = {}

LocksExclude ==
    \A k, l \in held : k.row = l.row /\ k.tx # l.tx => ~Conflict(k.mode, l.mode)

OnlyTheRunningHold ==
    \A t \in Tx : at[t] \in {"idle", "done"} => chainLock # t /\ \A l \in held : l.tx # t

\* Past its row's statement a transaction has the row's lock.
PastRow(t) == op[t] # "append" /\ at[t] \in {"key", "revoke", "link", "insert", "commit"}
RowsLocked == \A t \in Tx : PastRow(t) => Holds(t, target[t], RowMode(op[t]))

\* What a sign-in checked stays so until it commits.
Matches(r, s) == ~r.locked /\ r.email = s.email /\ (s.enrolled => r.enrolled)
SignInsStillMatch ==
    \A t \in Tx :
        /\ op[t] = "login" /\ at[t] \in {"row", "commit"} => seen[t] # None
        /\ op[t] = "login" /\ at[t] = "commit" => Matches(users[target[t]], seen[t])

\* Nor does a session come after they were revoked, until the revocation commits.
Revoked(t) ==
    \/ op[t] \in {"changeEmail", "resetMFA"} /\ at[t] \in {"key", "commit"}
    \/ op[t] = "lock" /\ at[t] = "commit"
    \/ op[t] = "autoLock" /\ at[t] \in {"link", "insert", "commit"}
RevocationsComplete == \A t \in Tx : Revoked(t) => SessionsOf(target[t]) \subseteq revoking[t]

SessionsInOrder ==
    /\ \A s \in live : seen[s] # None
    /\ \A s \in live \cap Tx : op[s] = "login" /\ at[s] = "done"

\* The events are numbered from 1, and each names the one before it.
ChainLinked ==
    /\ 0 < nextId
    /\ \A i \in 1..Len(chain) :
         /\ chain[i].index = i
         /\ chain[i].prev = IF i = 1 THEN 0 ELSE chain[i - 1].id
         /\ 0 < chain[i].id /\ chain[i].id < nextId
         /\ \A j \in 1..(i - 1) : chain[j].id < chain[i].id

\* An event is chosen and appended under the chain lock.
InChain(t) ==
    \/ op[t] = "append" /\ at[t] \in {"link", "insert", "commit"}
    \/ op[t] = "autoLock" /\ at[t] \in {"row", "revoke", "link", "insert", "commit"}
AppendsInOrder ==
    \A t \in Tx :
        /\ InChain(t) => chainLock = t
        /\ InChain(t) /\ at[t] \in {"insert", "commit"} =>
             /\ event[t] # None
             /\ Follows(event[t])
             /\ LatestId < event[t].id /\ event[t].id < nextId
        /\ op[t] \notin {"append", "autoLock"} => event[t] = None

\* The chain lock is only held by who appends, and was taken before any row's.
ChainLockFirst ==
    \A t \in Tx :
        /\ chainLock = t => InChain(t)
        /\ at[t] = "chain" \/ (op[t] = "autoLock" /\ at[t] = "row") => \A l \in held : l.tx # t

\* The admins LockUser counted stay as they were until it commits.
AdminsCounted ==
    \A t \in Tx :
        op[t] = "lock" /\ at[t] # "done" =>
          /\ \A a \in others[t] : Holds(t, a, "update") /\ UnlockedAdmin(a) /\ a # target[t]
          /\ at[t] # "admins" /\ Holds(t, target[t], "update") =>
               others[t] # {} \/ ~UnlockedAdmin(target[t])

AccountIInv ==
    /\ TypeOK
    /\ StatementsInOrder
    /\ LocksExclude
    /\ OnlyTheRunningHold
    /\ RowsLocked
    /\ SignInsStillMatch
    /\ RevocationsComplete
    /\ SessionsInOrder
    /\ SessionsMatchUsers
    /\ ChainLinked
    /\ AppendsInOrder
    /\ ChainLockFirst
    /\ AdminsCounted
=============================================================================
