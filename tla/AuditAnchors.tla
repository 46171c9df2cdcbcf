---------------------------- MODULE AuditAnchors ----------------------------
(***************************************************************************)
(* Audit anchors: every hour an anchor records the head of the audit chain *)
(* in a bucket whose objects can't be changed, and names the anchor before *)
(* it by its hash.                                                         *)
(*                                                                         *)
(* Each write holds the anchor lock from its look at the hour's key to the *)
(* answer of its PUT.  A job that times out, or loses its database         *)
(* connection, gives the lock up while its PUT may still be on its way.    *)
(* The database may be restored from a backup: events are lost, and others *)
(* are written in their place.                                             *)
(***************************************************************************)
EXTENDS Naturals, Sequences, FiniteSets

CONSTANTS
    Job,       \* anchor jobs, and runs of write-anchor
    Hour,      \* the hours there are keys for
    HourOf,    \* [Job -> Hour]: the hour a job anchors
    Legacy,    \* how many events are from before hash v2
    None,      \* no job
    MaxEvent,  \* bound: events ever written
    MaxAnchor, \* bound: PUTs ever sent
    MaxSecond, \* bound: seconds of S3's clock
    MaxRestore \* bound: restores

ASSUME ConstantsAssumption ==
    /\ Hour \subseteq Nat
    /\ HourOf \in [Job -> Hour]
    /\ Legacy \in Nat
    /\ None \notin Job
    /\ MaxEvent \in Nat /\ MaxAnchor \in Nat /\ MaxSecond \in Nat /\ MaxRestore \in Nat

\* An event's id stands for its hash, which its place and everything before it determine.
Event == [id : Nat, v2 : BOOLEAN]

\* The head of the chain as AuditChainHead reads it.  No events: 0; no hash v2 event: 0.
ChainHead == [last : Nat, event : Nat, v2 : Nat]

\* An anchor: its hour, its own hash (id), the head it records, the hash of the anchor before it (0
\* for none), the second S3 stored it in; history: the ids of the events that were in the chain.
Anchor == [hour : Hour, id : Nat, head : ChainHead, prev : Nat, covers : SUBSET Nat, stored : Nat]

VARIABLES
    chain,     \* the audit events in the database
    events,    \* how many events were ever written
    second,    \* S3's clock
    bucket,    \* the versions of anchors, in the order S3 stored them
    inFlight,  \* anchors sent to S3 that it has neither stored nor lost
    sent,      \* how many PUTs were sent
    lock,      \* the job whose transaction holds the anchor lock, or None
    at,        \* [Job -> ...]: what each job's attempt did last
    base,      \* [Job -> Anchor]: the anchor it makes
    restores,  \* how often the database was restored
    late       \* history: whether a lock was given up while its PUT could still be stored

dbVars == <<chain, events, restores>>
s3Vars == <<second, bucket, inFlight, sent>>
jobVars == <<lock, at, base, late>>
anchorVars == <<chain, events, restores, second, bucket, inFlight, sent, lock, at, base, late>>

Ids(c) == {c[i].id : i \in DOMAIN c}

\* Where hash v2 starts: the index of the first event that has it, or 0.
HashV2From(c) ==
    LET before == {i \in DOMAIN c : \A k \in 1..i : ~c[k].v2} IN
    IF before = DOMAIN c THEN 0 ELSE Cardinality(before) + 1

\* auditChainHead, in one statement.
HeadOf(c) ==
    [last  |-> Len(c),
     event |-> IF c = <<>> THEN 0 ELSE c[Len(c)].id,
     v2    |-> HashV2From(c)]

Blank(j) ==
    [hour |-> HourOf[j], id |-> 0, head |-> [last |-> 0, event |-> 0, v2 |-> 0], prev |-> 0,
     covers |-> {}, stored |-> 0]

TypeOK ==
    /\ chain \in Seq(Event)
    /\ events \in Nat /\ restores \in Nat /\ second \in Nat /\ sent \in Nat
    /\ bucket \in Seq(Anchor)
    /\ inFlight \subseteq Anchor
    /\ lock \in Job \cup {None}
    /\ at \in [Job -> {"idle", "locked", "read", "sent"}]
    /\ base \in [Job -> Anchor]
    /\ late \in BOOLEAN

AnchorInit ==
    /\ chain = [i \in 1..Legacy |-> [id |-> i, v2 |-> FALSE]]
    /\ events = Legacy
    /\ restores = 0
    /\ second = 0
    /\ bucket = <<>>
    /\ inFlight = {}
    /\ sent = 0
    /\ lock = None
    /\ at = [j \in Job |-> "idle"]
    /\ base = [j \in Job |-> Blank(j)]
    /\ late = FALSE

(***************************************************************************)
(* The database                                                            *)
(***************************************************************************)

\* An event is appended; since the upgrade they all have hash v2.
AppendEvent ==
    /\ events < MaxEvent
    /\ events' = events + 1
    /\ chain' = Append(chain, [id |-> events + 1, v2 |-> TRUE])
    /\ UNCHANGED <<restores, s3Vars, jobVars>>

\* The database is restored from a backup.
Restore ==
    /\ restores < MaxRestore
    /\ restores' = restores + 1
    /\ \E n \in 0..Len(chain) : chain' = SubSeq(chain, 1, n)
    /\ UNCHANGED <<events, s3Vars, jobVars>>

(***************************************************************************)
(* S3                                                                      *)
(***************************************************************************)
Tick ==
    /\ second < MaxSecond
    /\ second' = second + 1
    /\ UNCHANGED <<bucket, inFlight, sent, dbVars, jobVars>>

\* Slip: the SDK sends the object again when the answer is lost (VerifyInv).
StoreAndResend(a) ==
    /\ bucket' = Append(bucket, [a EXCEPT !.stored = second])
    /\ UNCHANGED <<inFlight, second, sent, dbVars, jobVars>>
\* S3 stores an object it was sent: a version of its key, once for each PUT.
Store(a) ==
    /\ bucket' = Append(bucket, [a EXCEPT !.stored = second])
    /\ inFlight' = inFlight \ {a}
    /\ UNCHANGED <<second, sent, dbVars, jobVars>>

\* Or never gets it.
Drop(a) ==
    /\ inFlight' = inFlight \ {a}
    /\ UNCHANGED <<bucket, second, sent, dbVars, jobVars>>

(***************************************************************************)
(* Anchor jobs                                                             *)
(***************************************************************************)
Goto(j, s) == at' = [at EXCEPT ![j] = s]

\* Slip: the lock's connection was closed, and the job goes on without it (AnchorsLinked).
TakeAnyLock(j) ==
    /\ at[j] = "idle"
    /\ lock' = j
    /\ Goto(j, "locked")
    /\ UNCHANGED <<base, late, dbVars, s3Vars>>
\* WithAuditAnchorLock doesn't wait: a job that finds the lock taken is tried again later.
TakeLock(j) ==
    /\ at[j] = "idle"
    /\ lock = None
    /\ lock' = j
    /\ Goto(j, "locked")
    /\ UNCHANGED <<base, late, dbVars, s3Vars>>

Release(j) == lock' = IF lock = j THEN None ELSE lock

\* anchorWrittenAt, then ReadHead: an anchor already there ends the attempt; the head is read in the
\* lock's own transaction.
ReadHead(j) ==
    /\ at[j] = "locked"
    /\ IF \E i \in DOMAIN bucket : bucket[i].hour = HourOf[j]
         THEN /\ Goto(j, "idle")
              /\ Release(j)
              /\ UNCHANGED base
         ELSE /\ Goto(j, "read")
              /\ base' = [base EXCEPT ![j] = [Blank(j) EXCEPT !.head = HeadOf(chain),
                                                              !.covers = Ids(chain)]]
              /\ UNCHANGED lock
    /\ UNCHANGED <<late, dbVars, s3Vars>>

\* findLatestAnchors: of the keys' latest versions, those stored in the latest second.
LatestAnchors(b) ==
    LET current == {i \in DOMAIN b : \A k \in DOMAIN b : k > i => b[k].hour # b[i].hour} IN
    {i \in current : \A k \in current : b[k].stored <= b[i].stored}

\* chainTip: those no other of them links to.
Tips(b) ==
    LET latest == LatestAnchors(b) IN {i \in latest : \A k \in latest : b[k].prev # b[i].id}

\* getLatestAnchor, then putAnchorObject, which sends its object once.  When it can't tell which
\* anchor was written last, the attempt Fails.
Put(j) ==
    /\ at[j] = "read"
    /\ sent < MaxAnchor
    /\ sent' = sent + 1
    /\ \E prev \in 0..MaxAnchor :
         /\ \/ bucket = <<>> /\ prev = 0
            \/ \E i \in DOMAIN bucket : Tips(bucket) = {i} /\ prev = bucket[i].id
         /\ base' = [base EXCEPT ![j].id = sent + 1, ![j].prev = prev]
    /\ inFlight' = inFlight \cup {base'[j]}
    /\ Goto(j, "sent")
    /\ UNCHANGED <<lock, late, second, bucket, dbVars>>

\* S3 answers that it stored the object.
Answer(j) ==
    /\ at[j] = "sent"
    /\ \E i \in DOMAIN bucket : bucket[i].id = base[j].id
    /\ Goto(j, "idle")
    /\ Release(j)
    /\ base' = [base EXCEPT ![j] = Blank(j)]
    /\ UNCHANGED <<late, dbVars, s3Vars>>

\* The attempt fails, or the job's time is up, or the gateway stops; the job may be tried again.
Fail(j) ==
    /\ at[j] # "idle"
    /\ Goto(j, "idle")
    /\ Release(j)
    /\ late' = (late \/ base[j] \in inFlight)
    /\ base' = [base EXCEPT ![j] = Blank(j)]
    /\ UNCHANGED <<dbVars, s3Vars>>

\* Postgres ends the lock's transaction with its connection, and the job doesn't see it; one that
\* has yet to read the head in that transaction Fails.  Bound: no lock is lost any more once one was
\* given up too early.
LoseLock(j) ==
    /\ lock = j
    /\ at[j] \in {"read", "sent"}
    /\ ~late
    /\ lock' = None
    /\ late' = (at[j] # "sent" \/ base[j] \in inFlight)
    /\ UNCHANGED <<at, base, dbVars, s3Vars>>

JobNext(j) ==
    \/ TakeLock(j)
    \/ ReadHead(j)
    \/ Put(j)
    \/ Answer(j)
    \/ Fail(j)
    \/ LoseLock(j)

AnchorNext ==
    \/ AppendEvent
    \/ Restore
    \/ Tick
    \/ \E a \in inFlight : Store(a) \/ Drop(a)
    \/ \E j \in Job : JobNext(j)

AnchorSpec == AnchorInit /\ [][AnchorNext]_anchorVars

(***************************************************************************)
(* What should hold                                                        *)
(***************************************************************************)

\* As long as no lock was given up too early, an hour has one anchor, and each anchor names the one
\* stored before it: no two anchors name the same one.
AnchorsLinked ==
    ~late =>
      \A i \in DOMAIN bucket :
          /\ bucket[i].prev = IF i = 1 THEN 0 ELSE bucket[i - 1].id
          /\ \A k \in DOMAIN bucket : k # i => bucket[k].hour # bucket[i].hour

\* Without a restore either, no anchor records fewer events than one stored before it.
AnchorsGrow ==
    ~late /\ restores = 0 =>
      \A i, k \in DOMAIN bucket : i < k => bucket[i].head.last <= bucket[k].head.last

\* Every object sent has an id of its own; S3 has stored or lost it, or may still store it.
IdsDiffer ==
    /\ \A j \in Job : base[j].id \in 0..sent
    /\ \A i \in DOMAIN bucket : bucket[i].id \in 1..sent
    /\ \A i, k \in DOMAIN bucket : i # k => bucket[i].id # bucket[k].id
    /\ \A a \in inFlight :
         /\ a.id \in 1..sent
         /\ \A b \in inFlight : a.id = b.id => a = b
         /\ \A i \in DOMAIN bucket : bucket[i].id # a.id

StoredInOrder ==
    \A i \in DOMAIN bucket :
        /\ bucket[i].stored <= second
        /\ \A k \in DOMAIN bucket : i < k => bucket[i].stored <= bucket[k].stored

\* Job j's anchor follows the last one: its hour has none, it names the last one, and it records no
\* fewer events than those before it.
Follows(j) ==
    /\ base[j].hour = HourOf[j]
    /\ \A i \in DOMAIN bucket :
         /\ bucket[i].hour # HourOf[j]
         /\ restores = 0 => bucket[i].head.last <= base[j].head.last
    /\ at[j] = "sent" => base[j].prev = IF bucket = <<>> THEN 0 ELSE bucket[Len(bucket)].id

\* Until a lock is given up too early, only its holder's anchor is on its way.
LockProtects ==
    ~late =>
      /\ \A j \in Job : at[j] \in {"locked", "read"} => lock = j
      /\ \A a \in inFlight : \E j \in Job : lock = j /\ at[j] = "sent" /\ a = base[j]
      /\ \A j \in Job :
           at[j] = "read" \/ (at[j] = "sent" /\ base[j] \in inFlight) => Follows(j)

\* Without a restore, what an anchor records is still in the chain.
RecordsChain ==
    restores = 0 =>
      /\ \A i \in DOMAIN bucket : bucket[i].head.last <= Len(chain)
      /\ \A a \in inFlight : a.head.last <= Len(chain)
      /\ \A j \in Job : base[j].head.last <= Len(chain)

AnchorIInv ==
    /\ TypeOK
    /\ AnchorsLinked
    /\ AnchorsGrow
    /\ IdsDiffer
    /\ StoredInOrder
    /\ LockProtects
    /\ RecordsChain
=============================================================================
