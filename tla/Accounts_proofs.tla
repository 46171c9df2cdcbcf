--------------------------- MODULE Accounts_proofs ---------------------------
(***************************************************************************)
(* Proofs about Accounts: its inductive invariant, with the sessions that  *)
(* match their users and the linked audit chain in it; and that an admin's *)
(* lock leaves an admin.                                                   *)
(***************************************************************************)
EXTENDS Accounts, TLAPS

USE ConstantsAssumption


\* Of two modes of row lock that conflict, each keeps the other out.
LEMMA ConflictIsMutual ==
    ASSUME NEW m \in Mode, NEW n \in Mode
    PROVE  Conflict(m, n) <=> Conflict(n, m)
<1>1. QED
  BY DEF Mode, Conflict

LEMMA TakenLocksExclude ==
    ASSUME TypeOK, LocksExclude,
           NEW t \in Tx, NEW u \in User, NEW m \in Mode, TakeRowLock(t, u, m)
    PROVE  /\ held' \subseteq [row : User, tx : Tx, mode : Mode]
           /\ LocksExclude'
<1> DEFINE new == [row |-> u, tx |-> t, mode |-> m]
<1>1. held' = held \cup {new} /\ new \in [row : User, tx : Tx, mode : Mode]
  BY DEF TakeRowLock
<1>2. held' \subseteq [row : User, tx : Tx, mode : Mode]
  BY <1>1 DEF TypeOK
<1>3. \A k \in held : k.row = u /\ k.tx # t => ~Conflict(k.mode, m)
  BY DEF TakeRowLock, Blockers
<1>4. \A k \in held : k.row = u /\ k.tx # t => ~Conflict(m, k.mode)
  BY <1>3, ConflictIsMutual DEF TypeOK
<1>5. new.row = u /\ new.tx = t /\ new.mode = m
  OBVIOUS
<1>6. \A k, l \in held' : k.row = l.row /\ k.tx # l.tx => ~Conflict(k.mode, l.mode)
  <2> HIDE DEF new
  <2>1. QED
    BY <1>1, <1>3, <1>4, <1>5 DEF LocksExclude
<1>7. QED
  BY <1>2, <1>6 DEF LocksExclude

\* A transaction's statements are its own.
LEMMA NextStatements ==
    ASSUME NEW o \in Op
    PROVE  /\ StatementsOf(o) \subseteq Statement
           /\ First(o) \in StatementsOf(o)
           /\ \A s \in StatementsOf(o) \ {"commit"} : Then(o, s) \in StatementsOf(o)
<1>1. QED
  BY DEF Statement, StatementsOf, First, Then

LEMMA ChangedRowsAreRows ==
    ASSUME NEW o \in Op, NEW w \in Row
    PROVE  Changed(o, w) \subseteq Row
<1>1. \A e \in Email : [w EXCEPT !.email = e] \in Row
  BY DEF Row
<1>2. /\ [w EXCEPT !.locked = TRUE] \in Row
      /\ [w EXCEPT !.locked = FALSE] \in Row
      /\ [w EXCEPT !.enrolled = FALSE] \in Row
      /\ [w EXCEPT !.admin = ~w.admin] \in Row
  BY DEF Row
<1>3. QED
  BY <1>1, <1>2 DEF Changed

\* What a commit does to the users.
LEMMA CommitsChangeTheirUser ==
    ASSUME AccountIInv, NEW t \in Tx, Commit(t)
    PROVE  /\ op[t] \in Op /\ target[t] \in User
           /\ users' \in [User -> Row]
           /\ users'[target[t]] \in Changed(op[t], users[target[t]])
           /\ \A u \in User \ {target[t]} : users'[u] = users[u]
<1>1. op[t] \in Op /\ target[t] \in User /\ users \in [User -> Row]
  BY DEF AccountIInv, TypeOK, StatementsInOrder, Commit
<1>2. PICK r \in Changed(op[t], users[target[t]]) : users' = [users EXCEPT ![target[t]] = r]
  BY DEF Commit
<1>3. r \in Row
  BY <1>1, <1>2, ChangedRowsAreRows
<1>4. QED
  BY <1>1, <1>2, <1>3

\* No transaction changes a user's row that another has locked in a mode but the weakest.
LEMMA LockedRowsStay ==
    ASSUME AccountIInv, NEW t \in Tx, Commit(t), NEW s \in Tx \ {t}, NEW u \in User,
           NEW m \in {"share", "noKeyUpdate", "update"}, Holds(s, u, m)
    PROVE  users'[u] = users[u]
<1>1. CASE op[t] \in {"login", "append"}
  BY <1>1, CommitsChangeTheirUser DEF Changed
<1>2. CASE op[t] \notin {"login", "append"}
  <2>1. Holds(t, target[t], RowMode(op[t])) /\ RowMode(op[t]) \in {"noKeyUpdate", "update"}
    BY <1>2 DEF AccountIInv, RowsLocked, PastRow, Commit, RowMode
  <2>2. Conflict(m, RowMode(op[t]))
    BY <2>1 DEF Conflict
  <2>3. u # target[t]
    BY <2>1, <2>2 DEF AccountIInv, LocksExclude, Holds
  <2>4. QED
    BY <2>3, CommitsChangeTheirUser
<1>3. QED
  BY <1>1, <1>2

THEOREM InitHasInv == Init => AccountIInv
<1> SUFFICES ASSUME Init PROVE AccountIInv
  OBVIOUS
<1> USE DEF Init
<1>1. TypeOK
  <2>1. users \in [User -> Row] /\ seen \in [Session -> Row \cup {None}] /\ live \subseteq Session
    BY DEF Session
  <2>2. chain \in Seq(Event) /\ nextId \in Nat /\ chainLock = None
    OBVIOUS
  <2>3. QED
    BY <2>1, <2>2 DEF TypeOK
<1>2. StatementsInOrder
  BY DEF StatementsInOrder
<1>3. LocksExclude
  BY DEF LocksExclude
<1>4. OnlyTheRunningHold
  BY DEF OnlyTheRunningHold
<1>5. RowsLocked
  BY DEF RowsLocked, PastRow
<1>6. SignInsStillMatch
  BY DEF SignInsStillMatch
<1>7. RevocationsComplete
  BY DEF RevocationsComplete, Revoked
<1>8. SessionsInOrder
  BY DEF SessionsInOrder, Session
<1>9. SessionsMatchUsers
  BY DEF SessionsMatchUsers, Owner, Session
<1>10. ChainLinked
  BY DEF ChainLinked
<1>11. AppendsInOrder
  BY DEF AppendsInOrder, InChain
<1>12. AdminsCounted
  BY DEF AdminsCounted, Holds
<1>13. ChainLockFirst
  BY ConstantsAssumption DEF ChainLockFirst
<1>14. QED
  BY <1>1, <1>2, <1>3, <1>4, <1>5, <1>6, <1>7, <1>8, <1>9, <1>10, <1>11, <1>12, <1>13 DEF AccountIInv

LEMMA BeginKeepsInv ==
    ASSUME AccountIInv, NEW t \in Tx, Begin(t)
    PROVE  AccountIInv'
<1> USE DEF AccountIInv, Begin, First, UnlockedAdmin
<1>1. TypeOK'
  <2>1. PICK o \in Op, u \in User :
          /\ op' = [op EXCEPT ![t] = o]
          /\ target' = [target EXCEPT ![t] = u]
          /\ at' = [at EXCEPT ![t] = First(o)]
          /\ \/ o \in {"login", "append", "autoLock"} /\ by' = by
             \/ \E a \in User : by' = [by EXCEPT ![t] = a]
    OBVIOUS
  <2>2. First(o) \in StatementsOf(o) /\ StatementsOf(o) \subseteq Statement 
    BY NextStatements, <2>1
  <2>3. op' \in [Tx -> Op \cup {None}] /\ target' \in [Tx -> User \cup {None}]
    BY <2>1 DEF TypeOK
  <2>4. at' \in [Tx -> Statement \cup {"idle", "done"}]
    BY <2>1, <2>2 DEF TypeOK
  <2>5. by' \in [Tx -> User \cup {None}]
    BY <2>1 DEF TypeOK
  <2>6. \E S \in SUBSET User : admins' = [admins EXCEPT ![t] = S] \/ admins' = admins
    <3>1. {a \in User : users[a].admin /\ ~users[a].locked} \in SUBSET User
      OBVIOUS
    <3>2. QED
      BY <3>1
  <2>7. admins' \in [Tx -> SUBSET User]
    <3>1. PICK S \in SUBSET User : admins' = [admins EXCEPT ![t] = S] \/ admins' = admins
      BY <2>6
    <3>2. admins \in [Tx -> SUBSET User]
      BY DEF TypeOK
    <3>3. [admins EXCEPT ![t] = S] \in [Tx -> SUBSET User]
      BY <3>2
    <3>4. QED
      BY <3>1, <3>2, <3>3
  <2>8. QED
    BY <2>3, <2>4, <2>5, <2>7 DEF TypeOK
<1>2. StatementsInOrder'
  <2>1. PICK o \in Op, u \in User :
          /\ op' = [op EXCEPT ![t] = o]
          /\ target' = [target EXCEPT ![t] = u]
          /\ at' = [at EXCEPT ![t] = First(o)]
          /\ \/ o \in {"login", "append", "autoLock"} /\ by' = by
             \/ \E a \in User : by' = [by EXCEPT ![t] = a]
    OBVIOUS
  <2>2. First(o) \in StatementsOf(o) /\ StatementsOf(o) \subseteq Statement 
    BY NextStatements, <2>1
  <2>3. at'[t] # "idle" /\ o # None /\ u # None
    BY <2>1, <2>2 DEF TypeOK, Statement
  <2>4. QED
    BY <2>1, <2>2, <2>3 DEF TypeOK, StatementsInOrder
<1>3. LocksExclude'
  BY DEF LocksExclude
<1>4. OnlyTheRunningHold'
  BY DEF OnlyTheRunningHold
<1>5. RowsLocked'
  BY DEF RowsLocked, PastRow, Holds
<1>6. SignInsStillMatch'
  BY DEF TypeOK, SignInsStillMatch
<1>7. RevocationsComplete'
  BY DEF RevocationsComplete, Revoked, SessionsOf, Owner, SessionsInOrder
<1>8. SessionsInOrder'
  BY DEF SessionsInOrder
<1>9. SessionsMatchUsers'
  BY DEF SessionsMatchUsers, Owner, SessionsInOrder
<1>10. ChainLinked'
  BY DEF ChainLinked
<1>11. AppendsInOrder'
  BY DEF TypeOK, AppendsInOrder, InChain, Follows, LatestId, StatementsInOrder
<1>12. AdminsCounted'
  BY DEF TypeOK, AdminsCounted, Holds, StatementsInOrder
<1>13. ChainLockFirst'
  BY DEF ChainLockFirst, TypeOK, InChain, StatementsInOrder, StatementsOf, OnlyTheRunningHold, Then
<1>14. QED
  BY <1>1, <1>2, <1>3, <1>4, <1>5, <1>6, <1>7, <1>8, <1>9, <1>10, <1>11, <1>12, <1>13

LEMMA AbortKeepsInv ==
    ASSUME AccountIInv, NEW t \in Tx, Abort(t)
    PROVE  AccountIInv'
<1> USE DEF AccountIInv, Abort, ReleaseLocks
<1>1. TypeOK'
  BY DEF TypeOK
<1>2. StatementsInOrder'
  BY DEF StatementsInOrder
<1>3. LocksExclude'
  BY DEF LocksExclude
<1>4. OnlyTheRunningHold'
  BY DEF OnlyTheRunningHold
<1>5. RowsLocked'
  BY DEF TypeOK, RowsLocked, PastRow, Holds
<1>6. SignInsStillMatch'
  BY DEF SignInsStillMatch
<1>7. RevocationsComplete'
  BY DEF RevocationsComplete, Revoked, SessionsOf, Owner
<1>8. SessionsInOrder'
  BY DEF SessionsInOrder
<1>9. SessionsMatchUsers'
  BY DEF SessionsMatchUsers, Owner
<1>10. ChainLinked'
  BY DEF ChainLinked
<1>11. AppendsInOrder'
  BY DEF TypeOK, AppendsInOrder, InChain, Follows, LatestId
<1>12. AdminsCounted'
  BY DEF TypeOK, AdminsCounted, Holds, UnlockedAdmin
<1>13. ChainLockFirst'
  BY DEF ChainLockFirst, TypeOK, InChain, StatementsInOrder, StatementsOf, OnlyTheRunningHold, Then
<1>14. QED
  BY <1>1, <1>2, <1>3, <1>4, <1>5, <1>6, <1>7, <1>8, <1>9, <1>10, <1>11, <1>12, <1>13

LEMMA LoadKeepsInv ==
    ASSUME AccountIInv, NEW t \in Tx, Load(t)
    PROVE  AccountIInv'
<1> USE DEF AccountIInv, Load, GoOn
<1>1. TypeOK'
  <2>1. op[t] \in Op /\ at[t] \in StatementsOf(op[t]) \ {"commit"}
    BY DEF TypeOK, StatementsInOrder
  <2>2. at' \in [Tx -> Statement \cup {"idle", "done"}]
    BY <2>1, NextStatements DEF TypeOK
  <2>3. t \in Session /\ target[t] \in User
    BY DEF Session, StatementsInOrder, TypeOK
  <2>4. seen' \in [Session -> Row \cup {None}]
    BY <2>3 DEF TypeOK
  <2>5. QED
    BY <2>2, <2>4 DEF TypeOK
<1>2. StatementsInOrder'
  BY DEF StatementsInOrder, StatementsOf, Then
<1>3. LocksExclude'
  BY DEF LocksExclude
<1>4. OnlyTheRunningHold'
  BY DEF OnlyTheRunningHold, Then
<1>5. RowsLocked'
  BY DEF RowsLocked, PastRow, Holds, Then
<1>6. SignInsStillMatch'
  <2>1. t \in Session /\ users[target[t]] \in Row /\ seen'[t] = users[target[t]]
    BY DEF Session, StatementsInOrder, TypeOK
  <2>2. seen'[t] # None
    BY <2>1
  <2>3. \A s \in Tx \ {t} : seen'[s] = seen[s] /\ at'[s] = at[s]
    OBVIOUS
  <2>4. at'[t] = "row"
    BY DEF TypeOK, Then
  <2>5. QED
    BY <2>2, <2>3, <2>4 DEF SignInsStillMatch, TypeOK
<1>7. RevocationsComplete'
  BY DEF RevocationsComplete, Revoked, SessionsOf, Owner, StatementsInOrder, StatementsOf
<1>8. SessionsInOrder'
  BY DEF SessionsInOrder
<1>9. SessionsMatchUsers'
  BY DEF SessionsMatchUsers, Owner
<1>10. ChainLinked'
  BY DEF ChainLinked
<1>11. AppendsInOrder'
  BY DEF AppendsInOrder, InChain, Follows, LatestId, StatementsInOrder, StatementsOf, Then
<1>12. AdminsCounted'
  BY DEF AdminsCounted, Holds, UnlockedAdmin
<1>13. ChainLockFirst'
  BY DEF ChainLockFirst, TypeOK, InChain, StatementsInOrder, StatementsOf, OnlyTheRunningHold, Then
<1>14. QED
  BY <1>1, <1>2, <1>3, <1>4, <1>5, <1>6, <1>7, <1>8, <1>9, <1>10, <1>11, <1>12, <1>13

LEMMA TakeAdminKeepsInv ==
    ASSUME AccountIInv, NEW t \in Tx, TakeAdmin(t)
    PROVE  AccountIInv'
<1> USE DEF AccountIInv, TakeAdmin, TakeRowLock, UnlockedAdmin
<1>1. TypeOK'
  BY DEF TypeOK, Mode
<1>2. StatementsInOrder'
  BY DEF StatementsInOrder
<1>3. LocksExclude'
  <2>1. PICK a \in admins[t] : TakeRowLock(t, a, "update")
    OBVIOUS
  <2>2. a \in User /\ "update" \in Mode
    BY DEF TypeOK, Mode
  <2>3. QED
    BY <2>1, <2>2, TakenLocksExclude
<1>4. OnlyTheRunningHold'
  BY DEF OnlyTheRunningHold
<1>5. RowsLocked'
  BY DEF RowsLocked, PastRow, Holds
<1>6. SignInsStillMatch'
  BY DEF SignInsStillMatch
<1>7. RevocationsComplete'
  BY DEF RevocationsComplete, Revoked, SessionsOf, Owner
<1>8. SessionsInOrder'
  BY DEF SessionsInOrder
<1>9. SessionsMatchUsers'
  BY DEF SessionsMatchUsers, Owner
<1>10. ChainLinked'
  BY DEF ChainLinked
<1>11. AppendsInOrder'
  BY DEF AppendsInOrder, InChain, Follows, LatestId
<1>12. AdminsCounted'
  BY DEF AdminsCounted, Holds
<1>13. ChainLockFirst'
  BY DEF ChainLockFirst, TypeOK, InChain, StatementsInOrder, StatementsOf, OnlyTheRunningHold, Then
<1>14. QED
  BY <1>1, <1>2, <1>3, <1>4, <1>5, <1>6, <1>7, <1>8, <1>9, <1>10, <1>11, <1>12, <1>13

LEMMA AdminsTakenKeepsInv ==
    ASSUME AccountIInv, NEW t \in Tx, AdminsTaken(t)
    PROVE  AccountIInv'
<1> USE DEF AccountIInv, AdminsTaken, GoOn
<1>1. TypeOK'
  BY DEF TypeOK, Statement, Then
<1>2. StatementsInOrder'
  BY DEF StatementsInOrder, StatementsOf, Then
<1>3. LocksExclude'
  BY DEF LocksExclude
<1>4. OnlyTheRunningHold'
  BY DEF OnlyTheRunningHold, Then
<1>5. RowsLocked'
  BY DEF RowsLocked, PastRow, Holds, Then
<1>6. SignInsStillMatch'
  BY DEF SignInsStillMatch, StatementsInOrder, StatementsOf
<1>7. RevocationsComplete'
  BY DEF RevocationsComplete, Revoked, SessionsOf, Owner, Then
<1>8. SessionsInOrder'
  BY DEF SessionsInOrder
<1>9. SessionsMatchUsers'
  BY DEF SessionsMatchUsers, Owner
<1>10. ChainLinked'
  BY DEF ChainLinked
<1>11. AppendsInOrder'
  BY DEF AppendsInOrder, InChain, Follows, LatestId, StatementsInOrder, StatementsOf
<1>12. AdminsCounted'
  BY DEF AdminsCounted, Holds, UnlockedAdmin
<1>13. ChainLockFirst'
  BY DEF ChainLockFirst, TypeOK, InChain, StatementsInOrder, StatementsOf, OnlyTheRunningHold, Then
<1>14. QED
  BY <1>1, <1>2, <1>3, <1>4, <1>5, <1>6, <1>7, <1>8, <1>9, <1>10, <1>11, <1>12, <1>13

LEMMA TakeRowKeepsInv ==
    ASSUME AccountIInv, NEW t \in Tx, TakeRow(t)
    PROVE  AccountIInv'
<1> USE DEF AccountIInv, TakeRow, TakeRowLock, RowMode, GoOn
<1>1. TypeOK'
  <2>1. op[t] \in Op /\ at[t] \in StatementsOf(op[t]) \ {"commit"}
    BY DEF TypeOK, StatementsInOrder
  <2>2. at' \in [Tx -> Statement \cup {"idle", "done"}]
    BY <2>1, NextStatements DEF TypeOK
  <2>3. target[t] \in User /\ RowMode(op[t]) \in Mode
    BY DEF StatementsInOrder, TypeOK, Mode
  <2>4. held' \subseteq [row : User, tx : Tx, mode : Mode]
    BY <2>3, TakenLocksExclude
  <2>5. QED
    BY <2>2, <2>4 DEF TypeOK
<1>2. StatementsInOrder'
  BY DEF StatementsInOrder, StatementsOf, Then
<1>3. LocksExclude'
  <2>1. target[t] \in User /\ RowMode(op[t]) \in Mode
    BY DEF StatementsInOrder, TypeOK, Mode
  <2>2. QED
    BY <2>1, TakenLocksExclude
<1>4. OnlyTheRunningHold'
  BY DEF OnlyTheRunningHold, Then
<1>5. RowsLocked'
  BY DEF RowsLocked, PastRow, Holds
<1>6. SignInsStillMatch'
  <2>1. op[t] = "login" => Matches(users[target[t]], seen[t])
    BY DEF RowQualifies, Matches
  <2>2. op[t] = "login" => seen[t] # None
    BY DEF SignInsStillMatch
  <2>3. \A s \in Tx \ {t} : at'[s] = at[s]
    OBVIOUS
  <2>4. QED
    BY <2>1, <2>2, <2>3 DEF SignInsStillMatch, TypeOK
<1>7. RevocationsComplete'
  BY DEF RevocationsComplete, Revoked, SessionsOf, Owner, Then
<1>8. SessionsInOrder'
  BY DEF SessionsInOrder
<1>9. SessionsMatchUsers'
  BY DEF SessionsMatchUsers, Owner
<1>10. ChainLinked'
  BY DEF ChainLinked
<1>11. AppendsInOrder'
  BY DEF AppendsInOrder, InChain, Follows, LatestId, Then
<1>12. AdminsCounted'
  BY DEF AdminsCounted, Holds, UnlockedAdmin
<1>13. ChainLockFirst'
  BY DEF ChainLockFirst, TypeOK, InChain, StatementsInOrder, StatementsOf, OnlyTheRunningHold, Then
<1>14. QED
  BY <1>1, <1>2, <1>3, <1>4, <1>5, <1>6, <1>7, <1>8, <1>9, <1>10, <1>11, <1>12, <1>13

LEMMA CheckForeignKeyKeepsInv ==
    ASSUME AccountIInv, NEW t \in Tx, CheckForeignKey(t)
    PROVE  AccountIInv'
<1> USE DEF AccountIInv, CheckForeignKey, TakeRowLock, GoOn
<1>1. TypeOK'
  <2>1. op[t] \in Op /\ at[t] \in StatementsOf(op[t]) \ {"commit"}
    BY DEF TypeOK, StatementsInOrder
  <2>2. at' \in [Tx -> Statement \cup {"idle", "done"}]
    BY <2>1, NextStatements DEF TypeOK
  <2>3. by[t] \in User /\ "keyShare" \in Mode
    BY <2>1 DEF StatementsInOrder, TypeOK, StatementsOf, Mode
  <2>4. held' \subseteq [row : User, tx : Tx, mode : Mode]
    BY <2>3, TakenLocksExclude DEF TypeOK
  <2>5. QED
    BY <2>2, <2>4 DEF TypeOK
<1>2. StatementsInOrder'
  BY DEF StatementsInOrder, StatementsOf, Then
<1>3. LocksExclude'
  <2>1. by[t] \in User /\ "keyShare" \in Mode
    BY DEF StatementsInOrder, TypeOK, StatementsOf, Mode
  <2>2. QED
    BY <2>1, TakenLocksExclude DEF LocksExclude
<1>4. OnlyTheRunningHold'
  BY DEF OnlyTheRunningHold, Then
<1>5. RowsLocked'
  BY DEF RowsLocked, PastRow, Holds
<1>6. SignInsStillMatch'
  BY DEF SignInsStillMatch, StatementsInOrder, StatementsOf
<1>7. RevocationsComplete'
  BY DEF RevocationsComplete, Revoked, SessionsOf, Owner, StatementsInOrder, StatementsOf, Then,
     Session
<1>8. SessionsInOrder'
  BY DEF SessionsInOrder
<1>9. SessionsMatchUsers'
  BY DEF SessionsMatchUsers, Owner
<1>10. ChainLinked'
  BY DEF ChainLinked
<1>11. AppendsInOrder'
  BY DEF AppendsInOrder, InChain, Follows, LatestId, StatementsInOrder, StatementsOf
<1>12. AdminsCounted'
  BY DEF AdminsCounted, Holds, UnlockedAdmin
<1>13. ChainLockFirst'
  BY DEF ChainLockFirst, TypeOK, InChain, StatementsInOrder, StatementsOf, OnlyTheRunningHold, Then
<1>14. QED
  BY <1>1, <1>2, <1>3, <1>4, <1>5, <1>6, <1>7, <1>8, <1>9, <1>10, <1>11, <1>12, <1>13

LEMMA RevokeSessionsKeepsInv ==
    ASSUME AccountIInv, NEW t \in Tx, RevokeSessions(t)
    PROVE  AccountIInv'
<1> USE DEF AccountIInv, RevokeSessions, GoOn
<1>1. TypeOK'
  BY DEF TypeOK, Statement, Then, SessionsOf
<1>2. StatementsInOrder'
  BY DEF StatementsInOrder, StatementsOf, Then
<1>3. LocksExclude'
  BY DEF LocksExclude
<1>4. OnlyTheRunningHold'
  BY DEF OnlyTheRunningHold, Then
<1>5. RowsLocked'
  BY DEF RowsLocked, PastRow, Holds
<1>6. SignInsStillMatch'
  BY DEF SignInsStillMatch, StatementsInOrder, StatementsOf
<1>7. RevocationsComplete'
  BY DEF TypeOK, RevocationsComplete, Revoked, SessionsOf, Owner
<1>8. SessionsInOrder'
  BY DEF SessionsInOrder
<1>9. SessionsMatchUsers'
  BY DEF SessionsMatchUsers, Owner
<1>10. ChainLinked'
  BY DEF ChainLinked
<1>11. AppendsInOrder'
  BY DEF AppendsInOrder, InChain, Follows, LatestId, Then
<1>12. AdminsCounted'
  BY DEF AdminsCounted, Holds, UnlockedAdmin
<1>13. ChainLockFirst'
  BY DEF ChainLockFirst, TypeOK, InChain, StatementsInOrder, StatementsOf, OnlyTheRunningHold, Then
<1>14. QED
  BY <1>1, <1>2, <1>3, <1>4, <1>5, <1>6, <1>7, <1>8, <1>9, <1>10, <1>11, <1>12, <1>13

LEMMA TakeChainKeepsInv ==
    ASSUME AccountIInv, NEW t \in Tx, TakeChain(t)
    PROVE  AccountIInv'
<1> USE DEF AccountIInv, TakeChain, GoOn
<1>1. TypeOK'
  BY DEF TypeOK, Statement, Then
<1>2. StatementsInOrder'
  BY DEF StatementsInOrder, StatementsOf, Then
<1>3. LocksExclude'
  BY DEF LocksExclude
<1>4. OnlyTheRunningHold'
  BY DEF OnlyTheRunningHold, Then
<1>5. RowsLocked'
  BY DEF RowsLocked, PastRow, Holds, StatementsInOrder, StatementsOf, Then
<1>6. SignInsStillMatch'
  BY DEF SignInsStillMatch, StatementsInOrder, StatementsOf
<1>7. RevocationsComplete'
  BY DEF RevocationsComplete, Revoked, SessionsOf, Owner, Then
<1>8. SessionsInOrder'
  BY DEF SessionsInOrder
<1>9. SessionsMatchUsers'
  BY DEF SessionsMatchUsers, Owner
<1>10. ChainLinked'
  BY DEF ChainLinked
<1>11. AppendsInOrder'
  BY DEF AppendsInOrder, InChain, Then
<1>12. AdminsCounted'
  BY DEF AdminsCounted, Holds, UnlockedAdmin
<1>13. ChainLockFirst'
  BY DEF ChainLockFirst, TypeOK, InChain, StatementsInOrder, StatementsOf, OnlyTheRunningHold, Then
<1>14. QED
  BY <1>1, <1>2, <1>3, <1>4, <1>5, <1>6, <1>7, <1>8, <1>9, <1>10, <1>11, <1>12, <1>13

LEMMA ReadLatestKeepsInv ==
    ASSUME AccountIInv, NEW t \in Tx, ReadLatest(t)
    PROVE  AccountIInv'
<1> USE DEF AccountIInv, ReadLatest, GoOn
<1>1. TypeOK'
  <2>1. op[t] \in Op /\ at[t] \in StatementsOf(op[t]) \ {"commit"}
    BY DEF TypeOK, StatementsInOrder
  <2>2. at' \in [Tx -> Statement \cup {"idle", "done"}]
    BY <2>1, NextStatements DEF TypeOK
  <2>3. LatestId \in Nat
    <3>1. Len(chain) \in Nat /\ (chain # <<>> => chain[Len(chain)] \in Event)
      BY DEF TypeOK
    <3>2. QED
      BY <3>1 DEF LatestId, Event
  <2>4. event' \in [Tx -> Event \cup {None}]
    BY <2>3 DEF TypeOK, Event
  <2>5. QED
    BY <2>2, <2>4 DEF TypeOK
<1>2. StatementsInOrder'
  BY DEF StatementsInOrder, StatementsOf, Then
<1>3. LocksExclude'
  BY DEF LocksExclude
<1>4. OnlyTheRunningHold'
  BY DEF OnlyTheRunningHold, Then
<1>5. RowsLocked'
  BY DEF RowsLocked, PastRow, Holds
<1>6. SignInsStillMatch'
  BY DEF SignInsStillMatch, StatementsInOrder, StatementsOf
<1>7. RevocationsComplete'
  BY DEF RevocationsComplete, Revoked, SessionsOf, Owner, StatementsInOrder, StatementsOf
<1>8. SessionsInOrder'
  BY DEF SessionsInOrder
<1>9. SessionsMatchUsers'
  BY DEF SessionsMatchUsers, Owner
<1>10. ChainLinked'
  <2>1. \A i \in 1..Len(chain) : chain[i] \in Event
    BY DEF TypeOK
  <2>2. \A i \in 1..Len(chain) : chain[i].id \in Nat /\ chain[i].id < nextId + 1
    BY <2>1 DEF ChainLinked, TypeOK, Event
  <2>3. QED
    BY <2>2 DEF ChainLinked, TypeOK
<1>11. AppendsInOrder'
  <2>1. Len(chain) \in Nat /\ \A i \in 1..Len(chain) : chain[i] \in Event
    BY DEF TypeOK
  <2>2. LatestId \in Nat /\ LatestId < nextId /\ LatestId' = LatestId
    BY <2>1 DEF LatestId, ChainLinked, Event, TypeOK
  <2>3. event'[t] = [index |-> Len(chain) + 1, id |-> nextId, prev |-> LatestId]
    BY DEF TypeOK
  <2>4. event'[t] # None /\ event'[t].id = nextId /\ event'[t].index = Len(chain) + 1
        /\ event'[t].prev = LatestId
    BY <2>1, <2>2, <2>3 DEF TypeOK
  <2>5. InChain(t)
    BY DEF InChain, StatementsInOrder, StatementsOf
  <2>6. \A s \in Tx \ {t} : event'[s] = event[s] /\ at'[s] = at[s] /\ (InChain(s)' => InChain(s))
    BY DEF InChain
  <2>7. \A s \in Tx \ {t} : ~InChain(s)
    BY <2>5 DEF AppendsInOrder
  <2>8. op[t] \in {"append", "autoLock"} /\ chainLock = t
    BY <2>5 DEF InChain, AppendsInOrder
  <2>9. Follows(event[t])'
    BY <2>2, <2>4 DEF Follows
  <2>10. nextId < nextId'
    BY DEF TypeOK
  <2>11. QED
    BY <2>2, <2>4, <2>6, <2>7, <2>8, <2>9, <2>10 DEF AppendsInOrder
<1>12. AdminsCounted'
  BY DEF AdminsCounted, Holds, UnlockedAdmin
<1>13. ChainLockFirst'
  BY DEF ChainLockFirst, TypeOK, InChain, StatementsInOrder, StatementsOf, OnlyTheRunningHold, Then
<1>14. QED
  BY <1>1, <1>2, <1>3, <1>4, <1>5, <1>6, <1>7, <1>8, <1>9, <1>10, <1>11, <1>12, <1>13

LEMMA InsertKeepsInv ==
    ASSUME AccountIInv, NEW t \in Tx, Insert(t)
    PROVE  AccountIInv'
<1> USE DEF AccountIInv, Insert, GoOn
<1>1. TypeOK'
  BY DEF TypeOK, Statement, Then
<1>2. StatementsInOrder'
  BY DEF StatementsInOrder, StatementsOf, Then
<1>3. LocksExclude'
  BY DEF LocksExclude
<1>4. OnlyTheRunningHold'
  BY DEF OnlyTheRunningHold, Then
<1>5. RowsLocked'
  BY DEF RowsLocked, PastRow, Holds
<1>6. SignInsStillMatch'
  BY DEF SignInsStillMatch, StatementsInOrder, StatementsOf
<1>7. RevocationsComplete'
  BY DEF RevocationsComplete, Revoked, SessionsOf, Owner, StatementsInOrder, StatementsOf
<1>8. SessionsInOrder'
  BY DEF SessionsInOrder
<1>9. SessionsMatchUsers'
  BY DEF SessionsMatchUsers, Owner
<1>10. ChainLinked'
  BY DEF ChainLinked
<1>11. AppendsInOrder'
  BY DEF AppendsInOrder, InChain, Follows, LatestId
<1>12. AdminsCounted'
  BY DEF AdminsCounted, Holds, UnlockedAdmin
<1>13. ChainLockFirst'
  BY DEF ChainLockFirst, TypeOK, InChain, StatementsInOrder, StatementsOf, OnlyTheRunningHold, Then
<1>14. QED
  BY <1>1, <1>2, <1>3, <1>4, <1>5, <1>6, <1>7, <1>8, <1>9, <1>10, <1>11, <1>12, <1>13

LEMMA CommitKeepsInv ==
    ASSUME AccountIInv, NEW t \in Tx, Commit(t)
    PROVE  AccountIInv'
<1> USE DEF AccountIInv, Commit, ReleaseLocks
<1>1. TypeOK'
  <2>1. users' \in [User -> Row]
    BY CommitsChangeTheirUser
  <2>2. chain' \in Seq(Event)
    BY DEF TypeOK
  <2>3. QED
    BY <2>1, <2>2 DEF TypeOK, Session
<1>2. StatementsInOrder'
  BY DEF StatementsInOrder
<1>3. LocksExclude'
  BY DEF LocksExclude
<1>4. OnlyTheRunningHold'
  BY DEF OnlyTheRunningHold
<1>5. RowsLocked'
  BY DEF TypeOK, RowsLocked, PastRow, Holds
<1>6. SignInsStillMatch'
  <2>1. ASSUME NEW s \in Tx, op'[s] = "login", at'[s] = "commit"
        PROVE  Matches(users'[target[s]], seen[s])
    <3>1. s # t /\ op[s] = "login" /\ at[s] = "commit" /\ target[s] \in User
      BY <2>1 DEF TypeOK, StatementsInOrder
    <3>2. Holds(s, target[s], "share") /\ Matches(users[target[s]], seen[s])
      BY <3>1 DEF RowsLocked, PastRow, RowMode, SignInsStillMatch
    <3>3. users'[target[s]] = users[target[s]]
      BY <3>1, <3>2, LockedRowsStay
    <3>4. QED
      BY <3>2, <3>3
  <2>2. QED
    BY <2>1 DEF SignInsStillMatch, TypeOK
<1>7. RevocationsComplete'
  <2> SUFFICES ASSUME NEW s \in Tx, Revoked(s)'
               PROVE  SessionsOf(target[s])' \subseteq revoking[s]
    BY DEF RevocationsComplete
  <2>1. s # t /\ Revoked(s) /\ target[s] \in User /\ at[s] \in {"key", "link", "insert", "commit"}
    BY DEF Revoked, TypeOK, StatementsInOrder
  <2>2. SessionsOf(target[s]) \subseteq revoking[s]
    BY <2>1 DEF RevocationsComplete
  <2>3. op[t] = "login" => target[t] # target[s]
    <3>1. op[t] = "login" => Holds(t, target[t], "share")
      BY DEF RowsLocked, PastRow, RowMode
    <3>2. Holds(s, target[s], RowMode(op[s])) /\ RowMode(op[s]) \in {"noKeyUpdate", "update"}
      BY <2>1 DEF Revoked, RowsLocked, PastRow, RowMode
    <3>3. Conflict("share", RowMode(op[s]))
      BY <3>2 DEF Conflict
    <3>4. QED
      BY <2>1, <3>1, <3>2, <3>3 DEF LocksExclude, Holds
  <2>4. live' \subseteq live \cup {r \in {t} : op[t] = "login"}
    OBVIOUS
  <2>5. t \notin User /\ Owner(t) = target[t]
    BY DEF Owner
  <2>6. SessionsOf(target[s])' \subseteq SessionsOf(target[s])
    BY <2>3, <2>4, <2>5 DEF SessionsOf, Owner
  <2>7. QED
    BY <2>2, <2>6
<1>8. SessionsInOrder'
  <2>1. t \notin live
    BY DEF SessionsInOrder
  <2>2. op[t] = "login" => seen[t] # None
    BY DEF SignInsStillMatch
  <2>3. live' \subseteq live \cup {r \in {t} : op[t] = "login"}
    OBVIOUS
  <2>4. at'[t] = "done" /\ \A s \in Tx \ {t} : at'[s] = at[s]
    BY DEF TypeOK
  <2>5. QED
    BY <2>1, <2>2, <2>3, <2>4 DEF SessionsInOrder
<1>9. SessionsMatchUsers'
  <2> SUFFICES ASSUME NEW s \in live'
               PROVE  Matches(users'[Owner(s)], seen[s])
    BY DEF SessionsMatchUsers, Matches, Owner
  <2> DEFINE r == users[target[t]]
  <2>1. CASE s = t /\ op[t] = "login"
    <3>1. Owner(s) = target[t] /\ users'[target[t]] = r
      BY <2>1, CommitsChangeTheirUser DEF Changed, Owner
    <3>2. QED
      BY <2>1, <3>1 DEF SignInsStillMatch
  <2>2. CASE s \in live \ revoking[t]
    <3>1. Matches(users[Owner(s)], seen[s]) /\ Owner(s) \in User
      BY <2>2 DEF SessionsMatchUsers, Matches, SessionsInOrder, StatementsInOrder, TypeOK, Session,
         Owner
    <3>2. CASE Owner(s) # target[t]
      BY <3>1, <3>2, CommitsChangeTheirUser
    <3>3. CASE Owner(s) = target[t]
      <4>1. ~Revoked(t)
        BY <2>2, <3>3 DEF RevocationsComplete, SessionsOf
      <4>2. op[t] \in {"login", "append", "unlock", "changeRoles"}
        BY <4>1, CommitsChangeTheirUser DEF Revoked, Op
      <4>3. /\ users'[target[t]] \in Changed(op[t], r)
            /\ r \in Row
        BY CommitsChangeTheirUser DEF TypeOK
      <4>4. Matches(r, seen[s]) /\ ~r.locked
        BY <3>1, <3>3 DEF Matches
      <4>5. Matches(users'[target[t]], seen[s])
        BY <4>2, <4>3, <4>4 DEF Changed, Matches, Row
      <4>6. QED
        BY <3>3, <4>5
    <3>4. QED
      BY <3>2, <3>3
  <2>3. QED
    BY <2>1, <2>2
<1>10. ChainLinked'
  <2>1. CASE event[t] = None
    BY <2>1 DEF ChainLinked
  <2>2. CASE event[t] # None
    <3> DEFINE n == Len(chain)
               e == event[t]
    <3>1. e \in Event /\ n \in Nat /\ \A i \in 1..n : chain[i] \in Event
      BY <2>2 DEF TypeOK
    <3>2. Follows(e) /\ LatestId < e.id /\ e.id < nextId
      BY <2>2 DEF AppendsInOrder, InChain
    <3>3. chain' = Append(chain, e) /\ Len(chain') = n + 1 /\ chain'[n + 1] = e
          /\ \A i \in 1..n : chain'[i] = chain[i]
      BY <2>2, <3>1 DEF TypeOK
    <3>4. e.index = n + 1 /\ e.prev = (IF n = 0 THEN 0 ELSE chain[n].id) /\ 0 < e.id
          /\ (n # 0 => chain[n].id < e.id)
      BY <3>1, <3>2 DEF Follows, LatestId, TypeOK, Event
    <3>5. \A j \in 1..n : chain[j].id < e.id
      BY <3>1, <3>4 DEF ChainLinked, Event
    <3> HIDE DEF n, e
    <3>6. ASSUME NEW i \in 1..(n + 1)
          PROVE  /\ chain'[i].index = i
                 /\ chain'[i].prev = IF i = 1 THEN 0 ELSE chain'[i - 1].id
                 /\ 0 < chain'[i].id /\ chain'[i].id < nextId
                 /\ \A j \in 1..(i - 1) : chain'[j].id < chain'[i].id
      <4>1. CASE i = n + 1
        BY <4>1, <3>1, <3>2, <3>3, <3>4, <3>5
      <4>2. CASE i \in 1..n
        BY <4>2, <3>1, <3>3 DEF ChainLinked, n
      <4>3. i = n + 1 \/ i \in 1..n
        BY <3>1
      <4>4. QED
        BY <4>1, <4>2, <4>3
    <3>7. QED
      BY <3>3, <3>6 DEF ChainLinked
  <2>3. QED
    BY <2>1, <2>2
<1>11. AppendsInOrder'
  BY DEF TypeOK, AppendsInOrder, InChain, Follows, LatestId
<1>12. AdminsCounted'
  <2> SUFFICES ASSUME NEW s \in Tx, op[s] = "lock", at'[s] # "done"
               PROVE  /\ \A a \in others[s] : Holds(s, a, "update")' /\ UnlockedAdmin(a)'
                                              /\ a # target[s]
                      /\ at[s] # "admins" /\ Holds(s, target[s], "update")' =>
                           others[s] # {} \/ ~UnlockedAdmin(target[s])'
    BY DEF AdminsCounted
  <2>1. s # t /\ at[s] # "done" /\ at[s] # "idle"
    BY DEF TypeOK, StatementsInOrder, Op
  <2>2. target[s] \in User /\ others[s] \subseteq User
    BY <2>1 DEF TypeOK, StatementsInOrder
  <2>3. \A u \in User : Holds(s, u, "update") <=> Holds(s, u, "update")'
    BY <2>1 DEF Holds
  <2>4. \A u \in User : Holds(s, u, "update") => users'[u] = users[u]
    BY <2>1, LockedRowsStay
  <2>5. QED
    BY <2>1, <2>2, <2>3, <2>4 DEF AdminsCounted, UnlockedAdmin
<1>13. ChainLockFirst'
  BY DEF ChainLockFirst, TypeOK, InChain, StatementsInOrder, StatementsOf, OnlyTheRunningHold, Then
<1>14. QED
  BY <1>1, <1>2, <1>3, <1>4, <1>5, <1>6, <1>7, <1>8, <1>9, <1>10, <1>11, <1>12, <1>13

THEOREM StepKeepsInv == AccountIInv /\ [Next]_vars => AccountIInv'
<1> SUFFICES ASSUME AccountIInv, [Next]_vars PROVE AccountIInv'
  OBVIOUS
<1>1. ASSUME NEW t \in Tx, TxNext(t) PROVE AccountIInv'
  BY <1>1, BeginKeepsInv, AbortKeepsInv, LoadKeepsInv, TakeAdminKeepsInv, AdminsTakenKeepsInv,
     TakeRowKeepsInv, CheckForeignKeyKeepsInv, RevokeSessionsKeepsInv, TakeChainKeepsInv,
     ReadLatestKeepsInv, InsertKeepsInv, CommitKeepsInv DEF TxNext
<1>2. CASE UNCHANGED vars
  BY <1>2 DEF vars, AccountIInv, TypeOK, StatementsInOrder, LocksExclude, OnlyTheRunningHold,
     RowsLocked, SignInsStillMatch, RevocationsComplete, SessionsInOrder, SessionsMatchUsers,
     ChainLinked, AppendsInOrder, ChainLockFirst, AdminsCounted, Blockers, PastRow, Holds, RowMode, Revoked,
     SessionsOf, Owner, InChain, Follows, LatestId, UnlockedAdmin
<1>3. QED
  BY <1>1, <1>2 DEF Next

\* Locks exclude each other, sign-ins and revocations don't miss each other, and the audit events
\* are one chain, in every run.
THEOREM AccountsSafe == Spec => []AccountIInv
<1>1. QED
  BY InitHasInv, StepKeepsInv, PTL DEF Spec

\* No session outlives a lock, an email change or an MFA reset of its user.
THEOREM SessionsAreTheirUsers == Spec => []SessionsMatchUsers
<1>1. AccountIInv => SessionsMatchUsers
  BY DEF AccountIInv
<1>2. QED
  BY <1>1, AccountsSafe, PTL

\* Who waits for another waits for a row lock, unless it waits for the chain lock.
LEMMA RowWaits ==
    ASSUME NEW s \in Tx, NEW x \in WaitsFor(s), at[s] # "chain"
    PROVE  \E l \in held : l.tx = x
<1>1. CASE at[s] = "admins"
  BY <1>1 DEF WaitsFor, Blockers
<1>2. CASE at[s] = "row"
  BY <1>2 DEF WaitsFor, Blockers
<1>3. CASE at[s] = "key" /\ NeedsKey(s)
  BY <1>3 DEF WaitsFor, Blockers
<1>4. WaitsFor(s) = {} \/ at[s] = "admins" \/ at[s] = "row" \/ (at[s] = "key" /\ NeedsKey(s))
  BY DEF WaitsFor
<1>5. QED
  BY <1>1, <1>2, <1>3, <1>4

\* The chain lock's holder is in no circle of waiting transactions: it holds no row while it waits
\* for one, and nor do those who wait for it, so the circle would close without them.
THEOREM ChainIsNoDeadlock == Spec => []ChainLockMovesOn
<1>1. AccountIInv => ChainLockMovesOn
  <2> SUFFICES ASSUME AccountIInv, NEW S \in Deadlocks, chainLock \in S PROVE FALSE
    BY DEF ChainLockMovesOn
  <2> DEFINE t == chainLock
             NoRows(s) == \A l \in held : l.tx # s
             R == {s \in S : at[s] # "chain"} \ {t}
  <2>1. /\ S \in SUBSET Tx /\ t \in Tx
        /\ \A s \in S : WaitsFor(s) \cap S # {}
        /\ \A Q \in SUBSET S : Stuck(Q) => Q = S
    BY DEF Deadlocks, Stuck
  <2>2. at[t] = "row" /\ op[t] = "autoLock"
    <3>1. InChain(t)
      BY <2>1 DEF AccountIInv, ChainLockFirst
    <3>2. WaitsFor(t) # {}
      BY <2>1
    <3>3. at[t] \in {"chain", "admins", "row", "key"}
      BY <3>2 DEF WaitsFor
    <3>4. QED
      BY <3>1, <3>3 DEF InChain
  <2>3. \A s \in S : at[s] = "chain" \/ s = t => NoRows(s)
    BY <2>1, <2>2 DEF AccountIInv, ChainLockFirst
  <2>4. ASSUME NEW s \in S, at[s] # "chain" PROVE WaitsFor(s) \cap R # {}
    <3>1. PICK x \in S : x \in WaitsFor(s)
      BY <2>1
    <3>2. ~NoRows(x)
      BY <2>1, <2>4, <3>1, RowWaits
    <3>3. x \in R
      BY <2>3, <3>2
    <3>4. QED
      BY <3>1, <3>3
  <2>5. Stuck(R)
    <3>1. R # {}
      BY <2>2, <2>4
    <3>2. \A s \in R : WaitsFor(s) \cap R # {}
      BY <2>4
    <3>3. QED
      BY <3>1, <3>2 DEF Stuck
  <2>6. R = S
    BY <2>1, <2>5
  <2>7. QED
    BY <2>6
<1>2. QED
  BY <1>1, AccountsSafe, PTL

\* An admin's lock of an admin leaves another, whatever the others do.
THEOREM LocksLeaveAnAdmin == Spec => AdminLocksLeaveAnAdmin
<1>1. AccountIInv /\ [Next]_vars =>
        [\A t \in Tx :
           /\ Commit(t)
           /\ op[t] = "lock"
           /\ UnlockedAdmin(target[t])
           /\ [row |-> target[t], tx |-> t, mode |-> "update"] \in held
           => \E u \in User : UnlockedAdmin(u)']_vars
  <2> SUFFICES ASSUME AccountIInv, NEW t \in Tx, Commit(t), op[t] = "lock",
                      UnlockedAdmin(target[t]), Holds(t, target[t], "update")
               PROVE  \E u \in User : UnlockedAdmin(u)'
    BY DEF Holds
  <2>1. PICK a \in others[t] : UnlockedAdmin(a) /\ a # target[t]
    BY DEF AccountIInv, AdminsCounted, Commit
  <2>2. a \in User /\ UnlockedAdmin(a)'
    BY <2>1 DEF AccountIInv, TypeOK, UnlockedAdmin, Commit
  <2>3. QED
    BY <2>2
<1>2. QED
  BY <1>1, AccountsSafe, PTL DEF Spec, AdminLocksLeaveAnAdmin
=============================================================================
