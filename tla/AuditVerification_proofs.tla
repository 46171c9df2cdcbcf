---------------------- MODULE AuditVerification_proofs ----------------------
(***************************************************************************)
(* Proofs about AuditAnchors and AuditVerification: the anchors' inductive *)
(* invariant, and with it that each anchor names the one stored before it; *)
(* then the invariant of verification runs beside them, and with it that a *)
(* loss is reported, and nothing else is.                                  *)
(***************************************************************************)
EXTENDS AuditVerification, FiniteSetTheorems, SequenceTheorems, TLAPS

USE ConstantsAssumption DEF dbVars, s3Vars, jobVars


LEMMA AnchorNumbers ==
    ASSUME TypeOK, NEW i \in DOMAIN bucket
    PROVE  bucket[i].stored \in Nat /\ bucket[i].head.last \in Nat
<1>1. bucket[i] \in Anchor
  BY DEF TypeOK
<1>2. QED
  BY <1>1 DEF Anchor, ChainHead

LEMMA HeadOfChain ==
    ASSUME NEW c \in Seq(Event)
    PROVE  /\ HeadOf(c) \in ChainHead
           /\ HeadOf(c).last = Len(c)
<1> DEFINE before == {i \in DOMAIN c : \A k \in 1..i : ~c[k].v2}
<1>1. IsFiniteSet(before)
  <2>1. IsFiniteSet(1..Len(c))
    BY FS_Interval
  <2>2. before \subseteq 1..Len(c)
    OBVIOUS
  <2>3. QED
    BY <2>1, <2>2, FS_Subset
<1>2. Cardinality(before) \in Nat
  BY <1>1, FS_CardinalityType
<1>3. HashV2From(c) \in Nat
  BY <1>2 DEF HashV2From
<1>4. ASSUME c # <<>> PROVE c[Len(c)].id \in Nat
  <2>1. Len(c) \in DOMAIN c
    BY <1>4
  <2>2. c[Len(c)] \in Event
    BY <2>1
  <2>3. QED
    BY <2>2 DEF Event
<1>5. QED
  BY <1>3, <1>4 DEF HeadOf, ChainHead

\* The only anchor that no other names is the last one.
LEMMA TipIsLast ==
    ASSUME TypeOK, AnchorsLinked, IdsDiffer, StoredInOrder, ~late,
           NEW i \in DOMAIN bucket, Tips(bucket) = {i}
    PROVE  i = Len(bucket)
<1> DEFINE n == Len(bucket)
<1>1. n \in DOMAIN bucket /\ n \in Nat
  BY DEF TypeOK
<1>2. n \in LatestAnchors(bucket)
  <2>1. \A k \in DOMAIN bucket : k \in Nat /\ k <= n
    BY DEF TypeOK
  <2>2. \A k \in DOMAIN bucket : bucket[k].stored <= bucket[n].stored
    <3>1. bucket[n].stored \in Nat
      BY <1>1, AnchorNumbers
    <3>2. QED
      BY <1>1, <2>1, <3>1 DEF StoredInOrder
  <2>3. QED
    BY <1>1, <2>1, <2>2 DEF LatestAnchors
<1>3. ASSUME NEW k \in DOMAIN bucket PROVE bucket[k].prev # bucket[n].id
  <2>1. CASE k = 1
    BY <1>1, <2>1 DEF AnchorsLinked, IdsDiffer, TypeOK
  <2>2. CASE k # 1
    <3>1. k - 1 \in DOMAIN bucket /\ k - 1 # n
      BY <2>2, <1>1 DEF TypeOK
    <3>2. QED
      BY <1>1, <2>2, <3>1 DEF AnchorsLinked, IdsDiffer
  <2>3. QED
    BY <2>1, <2>2
<1>4. n \in Tips(bucket)
  BY <1>2, <1>3 DEF Tips, LatestAnchors
<1>5. QED
  BY <1>4

LEMMA BlankIsAnchor ==
    ASSUME NEW j \in Job
    PROVE  Blank(j) \in Anchor /\ Blank(j).hour = HourOf[j] /\ Blank(j).id = 0
<1>1. QED
  BY DEF Blank, Anchor, ChainHead

THEOREM InitHasInv == AnchorInit => AnchorIInv
<1> SUFFICES ASSUME AnchorInit PROVE AnchorIInv
  OBVIOUS
<1> USE DEF AnchorInit
<1>1. TypeOK
  <2>1. chain \in Seq(Event)
    BY DEF Event
  <2>2. base \in [Job -> Anchor]
    BY BlankIsAnchor
  <2>3. bucket \in Seq(Anchor) /\ at \in [Job -> {"idle", "locked", "read", "sent"}]
    OBVIOUS
  <2>4. QED
    BY <2>1, <2>2, <2>3 DEF TypeOK
<1>2. AnchorsLinked
  BY DEF AnchorsLinked
<1>3. AnchorsGrow
  BY DEF AnchorsGrow
<1>4. IdsDiffer
  BY DEF IdsDiffer, Blank
<1>5. StoredInOrder
  BY DEF StoredInOrder
<1>6. LockProtects
  BY DEF LockProtects, Follows
<1>7. RecordsChain
  BY DEF RecordsChain, Blank, TypeOK
<1>8. QED
  BY <1>1, <1>2, <1>3, <1>4, <1>5, <1>6, <1>7 DEF AnchorIInv

LEMMA AppendEventKeepsInv ==
    ASSUME AnchorIInv, AppendEvent
    PROVE  AnchorIInv'
<1> USE DEF AnchorIInv, AppendEvent
<1>1. TypeOK'
  BY DEF TypeOK, Event, Anchor, ChainHead
<1>2. AnchorsLinked'
  BY DEF TypeOK, AnchorsLinked
<1>3. AnchorsGrow'
  BY DEF TypeOK, AnchorsGrow
<1>4. IdsDiffer'
  BY DEF TypeOK, IdsDiffer
<1>5. StoredInOrder'
  BY DEF TypeOK, StoredInOrder
<1>6. LockProtects'
  BY DEF TypeOK, LockProtects, Follows
<1>7. RecordsChain'
  <2>1. Len(chain') = Len(chain) + 1 /\ Len(chain) \in Nat
    BY DEF TypeOK
  <2>2. \A a \in inFlight : a.head.last \in Nat
    BY DEF TypeOK, Anchor, ChainHead
  <2>3. \A j \in Job : base[j].head.last \in Nat
    BY DEF TypeOK, Anchor, ChainHead
  <2>4. QED
    BY <2>1, <2>2, <2>3, AnchorNumbers DEF RecordsChain
<1>8. QED
  BY <1>1, <1>2, <1>3, <1>4, <1>5, <1>6, <1>7

LEMMA RestoreKeepsInv ==
    ASSUME AnchorIInv, Restore
    PROVE  AnchorIInv'
<1> USE DEF AnchorIInv, Restore
<1>1. TypeOK'
  <2>1. PICK n \in 0..Len(chain) : chain' = SubSeq(chain, 1, n)
    OBVIOUS
  <2>2. chain' \in Seq(Event)
    BY <2>1, SubSeqProperties DEF TypeOK
  <2>3. QED
    BY <2>2 DEF TypeOK
<1>2. AnchorsLinked'
  BY DEF TypeOK, AnchorsLinked
<1>3. AnchorsGrow'
  BY DEF TypeOK, AnchorsGrow
<1>4. IdsDiffer'
  BY DEF TypeOK, IdsDiffer
<1>5. StoredInOrder'
  BY DEF TypeOK, StoredInOrder
<1>6. LockProtects'
  BY DEF TypeOK, LockProtects, Follows
<1>7. RecordsChain'
  BY DEF TypeOK, RecordsChain
<1>8. QED
  BY <1>1, <1>2, <1>3, <1>4, <1>5, <1>6, <1>7

LEMMA TickKeepsInv ==
    ASSUME AnchorIInv, Tick
    PROVE  AnchorIInv'
<1> USE DEF AnchorIInv, Tick
<1>1. TypeOK'
  BY DEF TypeOK, Event, Anchor, ChainHead
<1>2. AnchorsLinked'
  BY DEF TypeOK, AnchorsLinked
<1>3. AnchorsGrow'
  BY DEF TypeOK, AnchorsGrow
<1>4. IdsDiffer'
  BY DEF TypeOK, IdsDiffer
<1>5. StoredInOrder'
  BY AnchorNumbers DEF TypeOK, StoredInOrder
<1>6. LockProtects'
  BY DEF TypeOK, LockProtects, Follows
<1>7. RecordsChain'
  BY DEF TypeOK, RecordsChain
<1>8. QED
  BY <1>1, <1>2, <1>3, <1>4, <1>5, <1>6, <1>7

LEMMA StoreKeepsInv ==
    ASSUME AnchorIInv, NEW a \in inFlight, Store(a)
    PROVE  AnchorIInv'
<1> USE DEF AnchorIInv, Store
<1> DEFINE stored == [a EXCEPT !.stored = second]
<1>a. /\ stored \in Anchor
      /\ stored.hour = a.hour /\ stored.id = a.id /\ stored.prev = a.prev
      /\ stored.head = a.head /\ stored.stored = second
  BY DEF TypeOK, Anchor
<1>b. /\ bucket' = Append(bucket, stored) /\ bucket' \in Seq(Anchor)
      /\ Len(bucket') = Len(bucket) + 1 /\ Len(bucket) \in Nat
      /\ DOMAIN bucket' = 1..Len(bucket) + 1
      /\ \A i \in DOMAIN bucket : bucket'[i] = bucket[i]
      /\ bucket'[Len(bucket) + 1] = stored
  BY <1>a DEF TypeOK
<1>c. ASSUME ~late
      PROVE  \E j \in Job : lock = j /\ at[j] = "sent" /\ a = base[j] /\ Follows(j)
  BY <1>c DEF LockProtects
<1> HIDE DEF stored
<1>1. TypeOK'
  BY <1>b DEF TypeOK
<1>2. AnchorsLinked'
  <2> SUFFICES ASSUME ~late, NEW i \in DOMAIN bucket'
               PROVE  /\ bucket'[i].prev = IF i = 1 THEN 0 ELSE bucket'[i - 1].id
                      /\ \A k \in DOMAIN bucket' : k # i => bucket'[k].hour # bucket'[i].hour
    BY DEF AnchorsLinked
  <2>1. PICK j \in Job : a = base[j] /\ at[j] = "sent" /\ Follows(j)
    BY <1>c
  <2>2. \A k \in DOMAIN bucket : bucket[k].hour # a.hour
    BY <2>1 DEF Follows
  <2>3. a.prev = IF bucket = <<>> THEN 0 ELSE bucket[Len(bucket)].id
    BY <2>1 DEF Follows
  <2>4. CASE i \in DOMAIN bucket
    BY <2>2, <2>4, <1>a, <1>b DEF AnchorsLinked, TypeOK
  <2>5. CASE i = Len(bucket) + 1
    BY <2>2, <2>3, <2>5, <1>a, <1>b DEF TypeOK
  <2>6. QED
    BY <2>4, <2>5, <1>b DEF TypeOK
<1>3. AnchorsGrow'
  <2> SUFFICES ASSUME ~late, restores = 0, NEW i \in DOMAIN bucket', NEW k \in DOMAIN bucket', i < k
               PROVE  bucket'[i].head.last <= bucket'[k].head.last
    BY DEF AnchorsGrow
  <2>1. \A m \in DOMAIN bucket : bucket[m].head.last <= a.head.last
    BY <1>c DEF Follows
  <2>2. i \in DOMAIN bucket
    BY <1>b DEF TypeOK
  <2>3. k \in DOMAIN bucket \/ k = Len(bucket) + 1
    BY <1>b DEF TypeOK
  <2>4. QED
    BY <2>1, <2>2, <2>3, <1>a, <1>b DEF AnchorsGrow
<1>4. IdsDiffer'
  BY <1>a, <1>b DEF TypeOK, IdsDiffer
<1>5. StoredInOrder'
  BY <1>a, <1>b, AnchorNumbers DEF TypeOK, StoredInOrder
<1>6. LockProtects'
  <2> SUFFICES ASSUME ~late
               PROVE  LockProtects'
    BY DEF LockProtects
  <2>1. PICK j \in Job : lock = j /\ at[j] = "sent" /\ a = base[j]
    BY <1>c
  <2>2. inFlight' = {}
    BY <2>1 DEF LockProtects
  <2>3. QED
    BY <2>1, <2>2 DEF LockProtects
<1>7. RecordsChain'
  BY <1>a, <1>b DEF TypeOK, RecordsChain
<1>8. QED
  BY <1>1, <1>2, <1>3, <1>4, <1>5, <1>6, <1>7

LEMMA DropKeepsInv ==
    ASSUME AnchorIInv, NEW a \in inFlight, Drop(a)
    PROVE  AnchorIInv'
<1> USE DEF AnchorIInv, Drop
<1>1. TypeOK'
  BY DEF TypeOK, Event, Anchor, ChainHead
<1>2. AnchorsLinked'
  BY DEF TypeOK, AnchorsLinked
<1>3. AnchorsGrow'
  BY DEF TypeOK, AnchorsGrow
<1>4. IdsDiffer'
  BY DEF TypeOK, IdsDiffer
<1>5. StoredInOrder'
  BY DEF TypeOK, StoredInOrder
<1>6. LockProtects'
  BY DEF TypeOK, LockProtects, Follows
<1>7. RecordsChain'
  BY DEF TypeOK, RecordsChain
<1>8. QED
  BY <1>1, <1>2, <1>3, <1>4, <1>5, <1>6, <1>7

LEMMA TakeLockKeepsInv ==
    ASSUME AnchorIInv, NEW j \in Job, TakeLock(j)
    PROVE  AnchorIInv'
<1> USE DEF AnchorIInv, TakeLock, Goto
<1>1. TypeOK'
  BY DEF TypeOK, Event, Anchor, ChainHead
<1>2. AnchorsLinked'
  BY DEF TypeOK, AnchorsLinked
<1>3. AnchorsGrow'
  BY DEF TypeOK, AnchorsGrow
<1>4. IdsDiffer'
  BY DEF TypeOK, IdsDiffer
<1>5. StoredInOrder'
  BY DEF TypeOK, StoredInOrder
<1>6. LockProtects'
  BY DEF TypeOK, LockProtects, Follows
<1>7. RecordsChain'
  BY DEF TypeOK, RecordsChain
<1>8. QED
  BY <1>1, <1>2, <1>3, <1>4, <1>5, <1>6, <1>7

LEMMA ReadHeadKeepsInv ==
    ASSUME AnchorIInv, NEW j \in Job, ReadHead(j)
    PROVE  AnchorIInv'
<1> USE DEF AnchorIInv, ReadHead, Goto, Release, Blank
<1> DEFINE read == [Blank(j) EXCEPT !.head = HeadOf(chain), !.covers = Ids(chain)]
<1>a. /\ read \in Anchor /\ read.hour = HourOf[j] /\ read.id = 0
      /\ read.head.last = Len(chain)
  <2>1. Ids(chain) \in SUBSET Nat
    <3>1. \A i \in DOMAIN chain : chain[i] \in Event
      BY DEF TypeOK
    <3>2. QED
      BY <3>1 DEF Ids, Event
  <2>2. HeadOf(chain) \in ChainHead /\ HeadOf(chain).last = Len(chain)
    BY HeadOfChain DEF TypeOK
  <2>3. QED
    BY <2>1, <2>2 DEF Anchor
<1>b. \/ /\ at' = [at EXCEPT ![j] = "idle"]
         /\ lock' = IF lock = j THEN None ELSE lock
         /\ base' = base
      \/ /\ \A i \in DOMAIN bucket : bucket[i].hour # HourOf[j]
         /\ at' = [at EXCEPT ![j] = "read"]
         /\ base' = [base EXCEPT ![j] = read]
         /\ lock' = lock
  OBVIOUS
<1>c. /\ at[j] = "locked" /\ late' = late
      /\ UNCHANGED <<dbVars, s3Vars>>
  OBVIOUS
<1> HIDE DEF read, ReadHead, Blank, Goto, Release
<1>1. TypeOK'
  BY <1>a, <1>b, <1>c DEF TypeOK
<1>2. AnchorsLinked'
  BY <1>a, <1>b, <1>c DEF TypeOK, AnchorsLinked
<1>3. AnchorsGrow'
  BY <1>a, <1>b, <1>c DEF TypeOK, AnchorsGrow
<1>4. IdsDiffer'
  BY <1>a, <1>b, <1>c DEF TypeOK, IdsDiffer
<1>5. StoredInOrder'
  BY <1>a, <1>b, <1>c DEF TypeOK, StoredInOrder
<1>6. LockProtects'
  BY <1>a, <1>b, <1>c DEF TypeOK, LockProtects, Follows, RecordsChain
<1>7. RecordsChain'
  BY <1>a, <1>b, <1>c DEF TypeOK, RecordsChain
<1>8. QED
  BY <1>1, <1>2, <1>3, <1>4, <1>5, <1>6, <1>7

LEMMA PutKeepsInv ==
    ASSUME AnchorIInv, NEW j \in Job, Put(j)
    PROVE  AnchorIInv'
<1> USE DEF AnchorIInv, Put, Goto
<1>a. PICK prev \in 0..MaxAnchor :
        /\ \/ bucket = <<>> /\ prev = 0
           \/ \E i \in DOMAIN bucket : Tips(bucket) = {i} /\ prev = bucket[i].id
        /\ base' = [base EXCEPT ![j].id = sent + 1, ![j].prev = prev]
  OBVIOUS
<1> DEFINE new == [base[j] EXCEPT !.id = sent + 1, !.prev = prev]
<1>b. /\ new \in Anchor /\ new.id = sent + 1 /\ new.prev = prev
      /\ new.hour = base[j].hour /\ new.head = base[j].head
  <2>1. base[j] \in Anchor /\ sent + 1 \in Nat /\ prev \in Nat
    BY <1>a DEF TypeOK
  <2>2. QED
    BY <2>1 DEF Anchor
<1>c. base' = [base EXCEPT ![j] = new] /\ base'[j] = new
  BY <1>a DEF TypeOK
<1>d. /\ at[j] = "read" /\ at' = [at EXCEPT ![j] = "sent"]
      /\ sent' = sent + 1 /\ sent \in Nat
      /\ inFlight' = inFlight \cup {new}
      /\ UNCHANGED <<lock, late, second, bucket, dbVars>>
  BY <1>c DEF TypeOK
<1>e. ~late => prev = IF bucket = <<>> THEN 0 ELSE bucket[Len(bucket)].id
  BY <1>a, TipIsLast
<1> HIDE DEF new, Put, Goto
<1>1. TypeOK'
  BY <1>b, <1>c, <1>d DEF TypeOK
<1>2. AnchorsLinked'
  BY <1>b, <1>c, <1>d DEF TypeOK, AnchorsLinked
<1>3. AnchorsGrow'
  BY <1>b, <1>c, <1>d DEF TypeOK, AnchorsGrow
<1>4. IdsDiffer'
  BY <1>b, <1>c, <1>d DEF TypeOK, IdsDiffer
<1>5. StoredInOrder'
  BY <1>b, <1>c, <1>d DEF TypeOK, StoredInOrder
<1>6. LockProtects'
  <2> SUFFICES ASSUME ~late
               PROVE  LockProtects'
    BY <1>d DEF LockProtects
  <2>1. lock = j /\ inFlight = {}
    BY <1>d DEF LockProtects
  <2>2. Follows(j)'
    BY <1>b, <1>c, <1>d, <1>e DEF LockProtects, Follows, TypeOK
  <2>3. \A i \in Job \ {j} : at[i] \notin {"locked", "read"} /\ base'[i] # new
    <3>1. \A i \in Job : base[i].id # sent + 1
      BY <1>d DEF IdsDiffer, TypeOK
    <3>2. QED
      BY <2>1, <3>1, <1>b, <1>c DEF LockProtects, TypeOK
  <2>4. QED
    BY <2>1, <2>2, <2>3, <1>c, <1>d DEF LockProtects, TypeOK
<1>7. RecordsChain'
  BY <1>b, <1>c, <1>d DEF TypeOK, RecordsChain
<1>8. QED
  BY <1>1, <1>2, <1>3, <1>4, <1>5, <1>6, <1>7

LEMMA AnswerKeepsInv ==
    ASSUME AnchorIInv, NEW j \in Job, Answer(j)
    PROVE  AnchorIInv'
<1> USE DEF AnchorIInv, Answer, Goto, Release, Blank
<1>1. TypeOK'
  BY DEF TypeOK, Event, Anchor, ChainHead
<1>2. AnchorsLinked'
  BY DEF TypeOK, AnchorsLinked
<1>3. AnchorsGrow'
  BY DEF TypeOK, AnchorsGrow
<1>4. IdsDiffer'
  BY DEF TypeOK, IdsDiffer
<1>5. StoredInOrder'
  BY DEF TypeOK, StoredInOrder
<1>6. LockProtects'
  <2> SUFFICES ASSUME ~late'
               PROVE  LockProtects'
    BY DEF LockProtects
  <2>1. ~late /\ base[j] \notin inFlight
    BY DEF IdsDiffer
  <2>2. \A i \in Job \ {j} : at'[i] = at[i] /\ base'[i] = base[i] /\ (Follows(i) => Follows(i)')
    BY DEF TypeOK, Follows
  <2>3. at'[j] = "idle" /\ (lock' = lock \/ lock = j)
    BY DEF TypeOK
  <2>4. QED
    BY <2>1, <2>2, <2>3 DEF LockProtects, TypeOK
<1>7. RecordsChain'
  BY DEF TypeOK, RecordsChain
<1>8. QED
  BY <1>1, <1>2, <1>3, <1>4, <1>5, <1>6, <1>7

LEMMA FailKeepsInv ==
    ASSUME AnchorIInv, NEW j \in Job, Fail(j)
    PROVE  AnchorIInv'
<1> USE DEF AnchorIInv, Fail, Goto, Release, Blank
<1>1. TypeOK'
  BY DEF TypeOK, Event, Anchor, ChainHead
<1>2. AnchorsLinked'
  BY DEF TypeOK, AnchorsLinked
<1>3. AnchorsGrow'
  BY DEF TypeOK, AnchorsGrow
<1>4. IdsDiffer'
  BY DEF TypeOK, IdsDiffer
<1>5. StoredInOrder'
  BY DEF TypeOK, StoredInOrder
<1>6. LockProtects'
  <2> SUFFICES ASSUME ~late'
               PROVE  LockProtects'
    BY DEF LockProtects
  <2>1. ~late /\ base[j] \notin inFlight
    BY DEF IdsDiffer
  <2>2. \A i \in Job \ {j} : at'[i] = at[i] /\ base'[i] = base[i] /\ (Follows(i) => Follows(i)')
    BY DEF TypeOK, Follows
  <2>3. at'[j] = "idle" /\ (lock' = lock \/ lock = j)
    BY DEF TypeOK
  <2>4. QED
    BY <2>1, <2>2, <2>3 DEF LockProtects, TypeOK
<1>7. RecordsChain'
  BY DEF TypeOK, RecordsChain
<1>8. QED
  BY <1>1, <1>2, <1>3, <1>4, <1>5, <1>6, <1>7

LEMMA LoseLockKeepsInv ==
    ASSUME AnchorIInv, NEW j \in Job, LoseLock(j)
    PROVE  AnchorIInv'
<1> USE DEF AnchorIInv, LoseLock
<1>1. TypeOK'
  BY DEF TypeOK, Event, Anchor, ChainHead
<1>2. AnchorsLinked'
  BY DEF TypeOK, AnchorsLinked
<1>3. AnchorsGrow'
  BY DEF TypeOK, AnchorsGrow
<1>4. IdsDiffer'
  BY DEF TypeOK, IdsDiffer
<1>5. StoredInOrder'
  BY DEF TypeOK, StoredInOrder
<1>6. LockProtects'
  BY DEF TypeOK, LockProtects, Follows
<1>7. RecordsChain'
  BY DEF TypeOK, RecordsChain
<1>8. QED
  BY <1>1, <1>2, <1>3, <1>4, <1>5, <1>6, <1>7

LEMMA StutterKeepsInv ==
    ASSUME AnchorIInv, UNCHANGED anchorVars
    PROVE  AnchorIInv'
BY DEF anchorVars, AnchorIInv, TypeOK, AnchorsLinked, AnchorsGrow, IdsDiffer, StoredInOrder,
   LockProtects, RecordsChain, Follows

THEOREM StepKeepsInv == AnchorIInv /\ [Next]_vars => AnchorIInv'
<1> SUFFICES ASSUME AnchorIInv, [Next]_vars PROVE AnchorIInv'
  OBVIOUS
<1>1. CASE AnchorNext
  BY <1>1, AppendEventKeepsInv, RestoreKeepsInv, TickKeepsInv, StoreKeepsInv, DropKeepsInv,
     TakeLockKeepsInv, ReadHeadKeepsInv, PutKeepsInv, AnswerKeepsInv, FailKeepsInv,
     LoseLockKeepsInv DEF AnchorNext, JobNext
<1>2. CASE UNCHANGED anchorVars
  BY <1>2, StutterKeepsInv
<1>3. VerifyNext => UNCHANGED anchorVars
  BY DEF VerifyNext, StartRun, CheckVerifiedEvent, LoadAnchors, EndRun, Restart
<1>4. QED
  BY <1>1, <1>2, <1>3 DEF Next, vars

\* The anchors' invariant holds in every run, with verification runs beside the jobs.
THEOREM AnchorsSafe == Spec => []AnchorIInv
<1>1. Init => AnchorIInv
  BY InitHasInv DEF Init
<1>2. QED
  BY <1>1, StepKeepsInv, PTL DEF Spec

\* As long as no lock was given up too early, the anchors are one chain.
THEOREM AnchorsAreOneChain == Spec => []AnchorsLinked
<1>1. AnchorIInv => AnchorsLinked
  BY DEF AnchorIInv
<1>2. QED
  BY <1>1, AnchorsSafe, PTL

(***************************************************************************)
(* The order in which a run checks anchors                                 *)
(***************************************************************************)

\* A set of natural numbers has a least element.
LEMMA LeastNumber ==
    ASSUME NEW S \in SUBSET Nat, S # {}
    PROVE  \E m \in S : \A k \in S : m <= k
<1>1. PICK m \in S : \A k \in S : <<k, m>> \notin OpToRel(<, Nat)
  BY NatLessThanWellFounded, WFMin
<1>2. \A k \in S : ~(k < m)
  BY <1>1 DEF OpToRel
<1>3. QED
  BY <1>2

\* A run lists anchors of the bucket, at most as many as there are versions.
LEMMA OrderLists ==
    ASSUME TypeOK, NEW l \in WriteOrders({bucket[i] : i \in DOMAIN bucket})
    PROVE  /\ l \in Seq(Anchor)
           /\ Len(l) \in Nat /\ Len(l) <= Len(bucket) /\ DOMAIN l = 1..Len(l)
           /\ \A i \in DOMAIN l : l[i] \in {bucket[k] : k \in DOMAIN bucket}
<1> DEFINE S == {bucket[i] : i \in DOMAIN bucket}
<1>1. bucket \in Surjection(DOMAIN bucket, S)
  BY DEF Surjection, TypeOK
<1>2. /\ IsFiniteSet(DOMAIN bucket) /\ Cardinality(DOMAIN bucket) = Len(bucket)
      /\ Len(bucket) \in Nat
  <2>1. Len(bucket) \in Nat /\ DOMAIN bucket = 1..Len(bucket)
    BY DEF TypeOK
  <2>2. /\ IsFiniteSet(1..Len(bucket))
        /\ Cardinality(1..Len(bucket)) = IF 1 > Len(bucket) THEN 0 ELSE Len(bucket) - 1 + 1
    BY <2>1, FS_Interval
  <2>3. QED
    BY <2>1, <2>2
<1>3. IsFiniteSet(S) /\ Cardinality(S) <= Len(bucket) /\ Cardinality(S) \in Nat
  BY <1>1, <1>2, FS_Surjection, FS_CardinalityType
<1>4. l \in [1..Cardinality(S) -> S] /\ S \subseteq Anchor
  BY DEF WriteOrders, TypeOK
<1>5. l \in [1..Cardinality(S) -> Anchor]
  BY <1>4
<1>6. l \in Seq(Anchor)
  <2>1. \E n \in Nat : l \in [1..n -> Anchor]
    BY <1>3, <1>5
  <2>2. QED
    BY <2>1, SeqDef
<1>7. DOMAIN l = 1..Cardinality(S) /\ Len(l) = Cardinality(S)
  BY <1>3, <1>4, <1>6
<1>8. QED
  BY <1>3, <1>4, <1>6, <1>7

LEMMA ForemostOfOne ==
    ASSUME NEW x PROVE Foremost({x}) = x
BY DEF Foremost

\* Of the anchors left from index m on, the one that names the anchor before m comes next.
LEMMA NextIsStoredNext ==
    ASSUME AnchorIInv, ~late, NEW m \in DOMAIN bucket,
           NEW T, T = {bucket[k] : k \in {i \in DOMAIN bucket : m <= i}}
    PROVE  NextAnchor(T, IF m = 1 THEN 0 ELSE bucket[m - 1].id) = bucket[m]
<1> DEFINE prev == IF m = 1 THEN 0 ELSE bucket[m - 1].id
           ties == {a \in T : \A b \in T : a.stored <= b.stored}
           linked == {a \in ties : a.prev = prev}
<1> USE DEF AnchorIInv
<1>1. m \in Nat /\ m >= 1 /\ DOMAIN bucket = 1..Len(bucket) /\ Len(bucket) \in Nat
  BY DEF TypeOK
<1>2. bucket[m] \in ties
  <2>1. bucket[m].stored <= bucket[m].stored
    BY AnchorNumbers
  <2>2. ASSUME NEW k \in DOMAIN bucket, m <= k PROVE bucket[m].stored <= bucket[k].stored
    BY <1>1, <2>1, <2>2 DEF StoredInOrder
  <2>3. QED
    BY <1>1, <2>2
<1>3. bucket[m] \in linked
  BY <1>1, <1>2 DEF AnchorsLinked
<1>4. ASSUME NEW a \in linked PROVE a = bucket[m]
  <2>1. PICK k \in DOMAIN bucket : m <= k /\ a = bucket[k]
    OBVIOUS
  <2>2. CASE k # m
    <3>1. k - 1 \in DOMAIN bucket /\ m <= k - 1 /\ k # 1
      BY <1>1, <2>1, <2>2
    <3>2. a.prev = bucket[k - 1].id
      BY <2>1, <3>1 DEF AnchorsLinked
    <3>3. bucket[k - 1].id # 0
      BY <3>1 DEF IdsDiffer, TypeOK
    <3>4. CASE m # 1
      <4>1. m - 1 \in DOMAIN bucket /\ m - 1 # k - 1
        BY <1>1, <3>4, <2>2
      <4>2. QED
        BY <3>1, <3>2, <3>4, <4>1 DEF IdsDiffer
    <3>5. QED
      BY <3>2, <3>3, <3>4
  <2>3. QED
    BY <2>1, <2>2
<1>5. linked = {bucket[m]}
  BY <1>3, <1>4
<1>6. QED
  BY <1>5, ForemostOfOne DEF NextAnchor

\* Until a lock is given up too early, a run lists the anchors in the order S3 stored them.
LEMMA OrderIsStored ==
    ASSUME AnchorIInv, ~late, NEW l \in WriteOrders({bucket[i] : i \in DOMAIN bucket}),
           NEW i \in DOMAIN l
    PROVE  l[i] = bucket[i]
<1> DEFINE S == {bucket[k] : k \in DOMAIN bucket}
           wrong == {k \in DOMAIN l : l[k] # bucket[k]}
<1> USE DEF AnchorIInv
<1>1. DOMAIN l \subseteq DOMAIN bucket /\ DOMAIN l = 1..Len(l) /\ Len(l) \in Nat
  BY OrderLists DEF TypeOK
<1>2. SUFFICES ASSUME wrong # {} PROVE FALSE
  OBVIOUS
<1>3. wrong \in SUBSET Nat
  BY <1>1
<1>4. PICK m \in wrong : \A k \in wrong : m <= k
  BY <1>2, <1>3, LeastNumber
<1> DEFINE T == S \ {l[k] : k \in 1..m - 1}
<1>5. /\ m \in DOMAIN l /\ m \in DOMAIN bucket /\ m \in Nat
      /\ \A k \in 1..m - 1 : k \in DOMAIN bucket /\ l[k] = bucket[k]
  BY <1>1, <1>4
<1>6. T = {bucket[k] : k \in {h \in DOMAIN bucket : m <= h}}
  <2>1. ASSUME NEW k \in DOMAIN bucket PROVE bucket[k] \in T <=> m <= k
    <3>1. k \in Nat /\ k >= 1
      BY DEF TypeOK
    <3>2. \A h \in DOMAIN bucket : bucket[h] = bucket[k] => h = k
      BY DEF IdsDiffer
    <3>3. bucket[k] \in {l[h] : h \in 1..m - 1} <=> k \in 1..m - 1
      BY <1>5, <3>2
    <3>4. k \in 1..m - 1 <=> ~(m <= k)
      BY <1>5, <3>1
    <3>5. QED
      BY <3>3, <3>4
  <2>2. QED
    BY <2>1
<1>7. (IF m = 1 THEN 0 ELSE l[m - 1].id) = IF m = 1 THEN 0 ELSE bucket[m - 1].id
  <2>1. m # 1 => m - 1 \in 1..m - 1
    BY <1>5, <1>1
  <2>2. QED
    BY <1>5, <2>1
<1>8. l[m] = NextAnchor(T, IF m = 1 THEN 0 ELSE bucket[m - 1].id)
  BY <1>5, <1>7 DEF WriteOrders
<1>9. l[m] = bucket[m]
  <2> HIDE DEF T
  <2>1. QED
    BY <1>5, <1>6, <1>8, NextIsStoredNext
<1>10. QED
  BY <1>4, <1>9
\* Then there is just one order to list them in, and a run finds it.
THEOREM AnchorsHaveOneOrder ==
    ASSUME AnchorIInv, ~late
    PROVE  WriteOrders({bucket[i] : i \in DOMAIN bucket}) = {bucket}
<1> DEFINE S == {bucket[i] : i \in DOMAIN bucket}
<1>1. /\ bucket \in Seq(Anchor) /\ TypeOK
      /\ DOMAIN bucket = 1..Len(bucket) /\ Len(bucket) \in Nat
  BY DEF AnchorIInv, TypeOK
<1>2. IsFiniteSet(DOMAIN bucket) /\ Cardinality(DOMAIN bucket) = Len(bucket)
  <2>1. /\ IsFiniteSet(1..Len(bucket))
        /\ Cardinality(1..Len(bucket)) = IF 1 > Len(bucket) THEN 0 ELSE Len(bucket) - 1 + 1
    BY <1>1, FS_Interval
  <2>2. QED
    BY <1>1, <2>1
<1>3. \A h, k \in DOMAIN bucket : bucket[h] = bucket[k] => h = k
  BY DEF AnchorIInv, IdsDiffer
<1>4. Cardinality(S) = Len(bucket)
  <2>1. bucket \in [DOMAIN bucket -> S]
    BY <1>1
  <2>2. bucket \in Surjection(DOMAIN bucket, S)
    BY <2>1 DEF Surjection
  <2>3. bucket \in Injection(DOMAIN bucket, S)
    <3> HIDE DEF S
    <3>1. IsInjective(bucket)
      BY <1>3, Zenon DEF IsInjective
    <3>2. QED
      BY <2>1, <3>1, Zenon DEF Injection
  <2>4. QED
    BY <1>2, <2>2, <2>3, FS_Surjection
<1>5. bucket \in [1..Cardinality(S) -> S]
  <2>1. bucket \in [DOMAIN bucket -> S]
    BY <1>1
  <2> HIDE DEF S
  <2>2. DOMAIN bucket = 1..Cardinality(S)
    BY <1>1, <1>4
  <2>3. QED
    BY <2>1, <2>2, Zenon
<1>6. ASSUME NEW m \in DOMAIN bucket
      PROVE  bucket[m] = NextAnchor(S \ {bucket[k] : k \in 1..m - 1},
                                    IF m = 1 THEN 0 ELSE bucket[m - 1].id)
  <2> DEFINE T == S \ {bucket[k] : k \in 1..m - 1}
  <2>1. m \in Nat /\ 1..m - 1 \subseteq DOMAIN bucket
    BY <1>1
  <2>2. ASSUME NEW k \in DOMAIN bucket PROVE bucket[k] \in T <=> m <= k
    <3>1. k \in Nat /\ k >= 1
      BY <1>1
    <3>2. bucket[k] \in {bucket[h] : h \in 1..m - 1} <=> k \in 1..m - 1
      BY <1>3, <2>1
    <3>3. k \in 1..m - 1 <=> ~(m <= k)
      BY <2>1, <3>1
    <3>4. QED
      BY <3>2, <3>3
  <2>3. T = {bucket[k] : k \in {h \in DOMAIN bucket : m <= h}}
    BY <2>2
  <2> HIDE DEF T
  <2>4. bucket[m] = NextAnchor(T, IF m = 1 THEN 0 ELSE bucket[m - 1].id)
    BY <2>3, NextIsStoredNext
  <2>5. QED
    BY <2>4 DEF T
<1>7. bucket \in WriteOrders(S)
  BY <1>5, <1>6 DEF WriteOrders
<1>8. ASSUME NEW l \in WriteOrders(S) PROVE l = bucket
  <2>1. l \in [1..Cardinality(S) -> S]
    BY DEF WriteOrders
  <2>2. \A i \in DOMAIN l : l[i] = bucket[i]
    BY OrderIsStored
  <2> HIDE DEF S
  <2> DEFINE N == 1..Cardinality(S)
  <2>3. l \in [N -> S] /\ bucket \in [N -> S]
    BY <1>5, <2>1
  <2>4. \A i \in N : l[i] = bucket[i]
    BY <2>1, <2>2
  <2> HIDE DEF N
  <2>5. QED
    BY <2>3, <2>4
<1>9. QED
  BY <1>7, <1>8

(***************************************************************************)
(* What a record of the chain's head is worth later                        *)
(***************************************************************************)

\* The ids of the chain are those up to its last index.
LEMMA HeadStands ==
    ASSUME TypeOK, events \in Nat, \A i \in DOMAIN chain : chain[i].id <= events
    PROVE  /\ HeadOf(chain) \in ChainHead
           /\ HeadOf(chain).last = Len(chain)
           /\ Stands(HeadOf(chain).last, HeadOf(chain).event, Ids(chain))
           /\ Present(HeadOf(chain).last, HeadOf(chain).event)
           /\ Ids(chain) \subseteq Nat
<1>1. chain \in Seq(Event) /\ DOMAIN chain = 1..Len(chain) /\ Len(chain) \in Nat
  BY DEF TypeOK
<1>2. HeadOf(chain) \in ChainHead /\ HeadOf(chain).last = Len(chain)
  BY <1>1, HeadOfChain
<1>3. HeadOf(chain).event = IF chain = <<>> THEN 0 ELSE chain[Len(chain)].id
  BY DEF HeadOf
<1>4. CASE chain = <<>>
  BY <1>2, <1>3, <1>4 DEF Stands, Present, HasEvent, Ids
<1>5. CASE chain # <<>>
  <2>1. Len(chain) \in DOMAIN chain /\ Len(chain) # 0
    BY <1>1, <1>5
  <2>2. Ids(chain) = {chain[k].id : k \in 1..Len(chain)}
    BY <1>1 DEF Ids
  <2>3. \A i \in DOMAIN chain : chain[i].id \in Nat
    <3>1. \A i \in DOMAIN chain : chain[i] \in Event
      BY <1>1
    <3>2. QED
      BY <3>1 DEF Event
  <2>4. QED
    BY <1>2, <1>3, <1>5, <2>1, <2>2, <2>3 DEF Stands, Present, HasEvent
<1>6. QED
  BY <1>2, <1>4, <1>5

\* Where hash v2 starts in a chain that lost nothing.
LEMMA HashV2AfterLegacy ==
    ASSUME NEW c \in Seq(Event), Len(c) >= Legacy, \A i \in DOMAIN c : c[i].v2 <=> i > Legacy
    PROVE  HashV2From(c) = IF Len(c) > Legacy THEN Legacy + 1 ELSE 0
<1> DEFINE before == {i \in DOMAIN c : \A k \in 1..i : ~c[k].v2}
<1>1. DOMAIN c = 1..Len(c) /\ Len(c) \in Nat /\ Legacy \in Nat /\ Len(c) >= Legacy
  OBVIOUS
<1>2. before = 1..Legacy
  <2>1. ASSUME NEW i \in DOMAIN c PROVE (\A k \in 1..i : ~c[k].v2) <=> i <= Legacy
    <3>1. \A k \in 1..i : k \in DOMAIN c /\ (c[k].v2 <=> k > Legacy)
      BY <1>1
    <3>2. i \in 1..i /\ i \in Nat
      BY <1>1
    <3>3. QED
      BY <1>1, <3>1, <3>2
  <2>2. QED
    BY <1>1, <2>1
<1>3. Cardinality(1..Legacy) = Legacy
  BY <1>1, FS_Interval
<1>4. HashV2From(c) = IF before = DOMAIN c THEN 0 ELSE Cardinality(before) + 1
  BY DEF HashV2From
<1> HIDE DEF before
<1>5. before = DOMAIN c <=> ~(Len(c) > Legacy)
  <2>1. CASE Len(c) > Legacy
    <3>1. Legacy + 1 \in DOMAIN c /\ Legacy + 1 \notin 1..Legacy
      BY <1>1, <2>1
    <3>2. QED
      BY <1>2, <2>1, <3>1
  <2>2. CASE ~(Len(c) > Legacy)
    <3>1. Len(c) = Legacy
      <4>1. \A n, m \in Nat : n >= m /\ ~(n > m) => n = m
        OBVIOUS
      <4>2. QED
        BY <1>1, <2>2, <4>1, Zenon
    <3>2. QED
      BY <1>1, <1>2, <2>2, <3>1
  <2>3. QED
    BY <2>1, <2>2
<1>6. QED
  BY <1>2, <1>3, <1>4, <1>5

\* The steps that change the database, or leave it alone.
DbStep == AppendEvent \/ Restore \/ UNCHANGED dbVars

\* No event comes back once it is lost: a new one has another id.
LEMMA NoEventReturns ==
    ASSUME TypeOK, \A i \in DOMAIN chain : chain[i].id <= events, DbStep,
           NEW index \in Nat, NEW id \in Nat, id <= events, HasEvent(chain', index, id)
    PROVE  /\ HasEvent(chain, index, id)
           /\ \A k \in 1..index : k \in DOMAIN chain' /\ k \in DOMAIN chain /\ chain'[k] = chain[k]
<1>1. chain \in Seq(Event) /\ DOMAIN chain = 1..Len(chain) /\ Len(chain) \in Nat /\ events \in Nat
  BY DEF TypeOK
<1>2. CASE AppendEvent
  <2>1. /\ DOMAIN chain' = 1..Len(chain) + 1
        /\ \A k \in DOMAIN chain : chain'[k] = chain[k]
        /\ chain'[Len(chain) + 1].id = events + 1
    BY <1>1, <1>2 DEF AppendEvent
  <2>2. index # Len(chain) + 1
    BY <1>1, <2>1 DEF HasEvent
  <2>3. QED
    BY <1>1, <2>1, <2>2 DEF HasEvent
<1>3. CASE Restore
  <2>1. PICK n \in 0..Len(chain) : chain' = SubSeq(chain, 1, n)
    BY <1>3 DEF Restore
  <2>2. DOMAIN chain' = 1..n /\ \A k \in 1..n : chain'[k] = chain[k]
    BY <1>1, <2>1, SubSeqProperties
  <2>3. QED
    BY <1>1, <2>1, <2>2 DEF HasEvent
<1>4. CASE UNCHANGED dbVars
  BY <1>1, <1>4 DEF HasEvent
<1>5. QED
  BY <1>2, <1>3, <1>4 DEF DbStep

LEMMA StandsLater ==
    ASSUME TypeOK, \A i \in DOMAIN chain : chain[i].id <= events, DbStep,
           NEW index \in Nat, NEW id \in Nat, NEW ids, Stands(index, id, ids)
    PROVE  Stands(index, id, ids)'
<1>1. events' >= events /\ events \in Nat /\ events' \in Nat
  BY DEF DbStep, AppendEvent, Restore, TypeOK
<1>2. ASSUME HasEvent(chain', index, id)
      PROVE  ids \subseteq {chain'[k].id : k \in 1..index}
  BY <1>2, NoEventReturns DEF Stands
<1>3. QED
  BY <1>1, <1>2 DEF Stands

\* Only a restore loses events.
LEMMA PresentLater ==
    ASSUME TypeOK, AppendEvent \/ UNCHANGED dbVars,
           NEW index, NEW id, Present(index, id)
    PROVE  Present(index, id)'
<1>1. CASE AppendEvent
  <2>1. \A k \in DOMAIN chain : k \in DOMAIN chain' /\ chain'[k] = chain[k]
    BY <1>1 DEF AppendEvent, TypeOK
  <2>2. QED
    BY <2>1 DEF Present, HasEvent
<1>2. QED
  BY <1>1 DEF Present, HasEvent

\* What a run relies on is in the chain as long as the head it read.
LEMMA PresentWithHead ==
    ASSUME TypeOK, \A i \in DOMAIN chain : chain[i].id <= events, DbStep,
           NEW head \in Nat, NEW event \in Nat, event <= events, HasEvent(chain', head, event),
           NEW index \in Nat, NEW id, index <= head, Present(index, id)
    PROVE  Present(index, id)'
<1>1. \A k \in 1..head : k \in DOMAIN chain' /\ chain'[k] = chain[k]
  BY NoEventReturns
<1>2. QED
  BY <1>1 DEF Present, HasEvent, TypeOK
(***************************************************************************)
(* The invariant of verification                                           *)
(***************************************************************************)
LEMMA MadeAnchors ==
    ASSUME TypeOK, listed \in Seq(Anchor), NEW a \in Made
    PROVE  a \in Anchor /\ a.head \in ChainHead /\ a.head.last \in Nat /\ a.head.event \in Nat
<1>1. a \in Anchor
  BY DEF Made, TypeOK
<1>2. QED
  BY <1>1 DEF Anchor, ChainHead

\* The bucket with one more anchor.
LEMMA StoreAppends ==
    ASSUME TypeOK, NEW a \in inFlight, Store(a)
    PROVE  /\ Len(bucket) \in Nat /\ Len(bucket') = Len(bucket) + 1
           /\ DOMAIN bucket = 1..Len(bucket) /\ DOMAIN bucket' = 1..Len(bucket) + 1
           /\ \A i \in DOMAIN bucket : bucket'[i] = bucket[i]
           /\ bucket'[Len(bucket) + 1] = [a EXCEPT !.stored = second]
<1> DEFINE x == [a EXCEPT !.stored = second]
<1>1. x \in Anchor
  <2>1. a \in Anchor /\ second \in Nat
    BY DEF TypeOK
  <2>2. QED
    BY <2>1 DEF Anchor
<1>2. bucket \in Seq(Anchor) /\ bucket' = Append(bucket, x)
  BY DEF TypeOK, Store
<1> HIDE DEF x
<1>3. /\ Len(bucket') = Len(bucket) + 1 /\ bucket' \in Seq(Anchor)
      /\ \A i \in 1..Len(bucket) : bucket'[i] = bucket[i]
      /\ bucket'[Len(bucket) + 1] = x
  BY <1>1, <1>2, AppendProperties
<1>4. QED
  BY <1>2, <1>3 DEF x

\* An anchor that is made, or stored, keeps the record it was made with: of the chain as it is now,
\* or what one had before the step.
LEMMA StepMakes ==
    ASSUME AnchorIInv, AnchorNext, listed' = listed, NEW a \in Made'
    PROVE  \/ \E b \in Made : a.head = b.head /\ a.covers = b.covers
           \/ UNCHANGED dbVars /\ a.head = HeadOf(chain) /\ a.covers = Ids(chain)
<1> USE DEF AnchorIInv
<1>1. ASSUME UNCHANGED <<bucket, inFlight, at, base>> PROVE a \in Made
  BY <1>1 DEF Made
<1>2. CASE AppendEvent \/ Restore \/ Tick
  BY <1>1, <1>2 DEF AppendEvent, Restore, Tick
<1>3. ASSUME NEW s \in inFlight, Store(s)
      PROVE  \E b \in Made : a.head = b.head /\ a.covers = b.covers
  <2>1. s \in Anchor /\ s \in Made
    BY DEF TypeOK, Made
  <2>2. [s EXCEPT !.stored = second].head = s.head /\ [s EXCEPT !.stored = second].covers = s.covers
    BY <2>1 DEF Anchor
  <2>3. a \in Made \/ a = [s EXCEPT !.stored = second]
    <3>1. /\ Len(bucket) \in Nat
          /\ DOMAIN bucket = 1..Len(bucket) /\ DOMAIN bucket' = 1..Len(bucket) + 1
          /\ \A i \in DOMAIN bucket : bucket'[i] = bucket[i]
          /\ bucket'[Len(bucket) + 1] = [s EXCEPT !.stored = second]
          /\ inFlight' = inFlight \ {s} /\ UNCHANGED <<at, base>>
      BY <1>3, StoreAppends DEF Store
    <3>2. \A i \in DOMAIN bucket' : i \in DOMAIN bucket \/ i = Len(bucket) + 1
      BY <3>1
    <3>3. QED
      BY <3>1, <3>2 DEF Made
  <2>4. QED
    BY <2>1, <2>2, <2>3
<1>4. ASSUME NEW s \in inFlight, Drop(s) PROVE a \in Made
  BY <1>4 DEF Drop, Made
<1>5. ASSUME NEW j \in Job, JobNext(j)
      PROVE  \/ \E b \in Made : a.head = b.head /\ a.covers = b.covers
             \/ UNCHANGED dbVars /\ a.head = HeadOf(chain) /\ a.covers = Ids(chain)
  <2>1. CASE TakeLock(j)
    BY <2>1 DEF TakeLock, Goto, Made, TypeOK
  <2>2. CASE ReadHead(j)
    <3> DEFINE read == [Blank(j) EXCEPT !.head = HeadOf(chain), !.covers = Ids(chain)]
    <3>1. read.head = HeadOf(chain) /\ read.covers = Ids(chain)
      BY DEF Blank
    <3>2. \/ UNCHANGED base /\ at' = [at EXCEPT ![j] = "idle"]
          \/ base' = [base EXCEPT ![j] = read] /\ at' = [at EXCEPT ![j] = "read"]
      BY <2>2 DEF ReadHead, Goto
    <3>3. UNCHANGED <<dbVars, bucket, inFlight>>
      BY <2>2 DEF ReadHead
    <3> HIDE DEF read
    <3>4. a \in Made \/ a = read
      BY <3>2, <3>3 DEF Made, TypeOK
    <3>5. QED
      BY <3>1, <3>3, <3>4
  <2>3. CASE Put(j)
    <3>1. PICK prev : base' = [base EXCEPT ![j].id = sent + 1, ![j].prev = prev]
      BY <2>3 DEF Put
    <3> DEFINE new == [base[j] EXCEPT !.id = sent + 1, !.prev = prev]
    <3>2. base' = [base EXCEPT ![j] = new] /\ base'[j] = new
      BY <3>1 DEF TypeOK
    <3>3. base[j] \in Anchor
      BY DEF TypeOK
    <3>4. new.head = base[j].head /\ new.covers = base[j].covers
      BY <3>3 DEF Anchor
    <3>5. /\ at[j] = "read" /\ at' = [at EXCEPT ![j] = "sent"]
          /\ inFlight' = inFlight \cup {new} /\ UNCHANGED bucket
      BY <2>3, <3>2 DEF Put, Goto
    <3>6. base[j] \in Made
      BY <3>5 DEF Made
    <3> HIDE DEF new
    <3>7. a \in Made \/ a = new
      BY <3>2, <3>5 DEF Made, TypeOK
    <3>8. QED
      BY <3>4, <3>6, <3>7
  <2>4. CASE Answer(j) \/ Fail(j)
    BY <2>4 DEF Answer, Fail, Goto, Made, TypeOK
  <2>5. CASE LoseLock(j)
    BY <2>5, <1>1 DEF LoseLock
  <2>6. QED
    BY <1>5, <2>1, <2>2, <2>3, <2>4, <2>5 DEF JobNext
<1>6. QED
  BY <1>2, <1>3, <1>4, <1>5 DEF AnchorNext

\* What the anchors' steps do with the database and the bucket.
LEMMA StepOfAnchors ==
    ASSUME AnchorIInv, AnchorNext
    PROVE  /\ DbStep
           /\ restores' = restores => AppendEvent \/ UNCHANGED dbVars
           /\ Restore => restores' # restores
           /\ restores' = 0 => restores = 0 /\ restores' = restores
           /\ late => late'
           /\ Len(bucket) <= Len(bucket')
           /\ \A i \in DOMAIN bucket : i \in DOMAIN bucket' /\ bucket'[i] = bucket[i]
<1>1. CASE AppendEvent
  BY <1>1 DEF AppendEvent, Restore, DbStep, AnchorIInv, TypeOK
<1>2. CASE Restore
  BY <1>2 DEF AppendEvent, Restore, DbStep, AnchorIInv, TypeOK
<1>3. CASE Tick
  BY <1>3 DEF Tick, Restore, DbStep, AnchorIInv, TypeOK
<1>4. ASSUME NEW a \in inFlight, Store(a) \/ Drop(a)
      PROVE  /\ UNCHANGED dbVars /\ UNCHANGED late
             /\ Len(bucket) <= Len(bucket')
             /\ \A i \in DOMAIN bucket : i \in DOMAIN bucket' /\ bucket'[i] = bucket[i]
  <2>1. TypeOK
    BY DEF AnchorIInv
  <2>2. CASE Store(a)
    BY <2>1, <2>2, StoreAppends DEF Store
  <2>3. CASE Drop(a)
    BY <2>1, <2>3 DEF Drop, TypeOK
  <2>4. QED
    BY <1>4, <2>2, <2>3
<1>5. ASSUME NEW j \in Job, JobNext(j)
      PROVE  UNCHANGED dbVars /\ UNCHANGED bucket /\ (late => late')
  <2>1. CASE TakeLock(j)
    BY <2>1 DEF TakeLock
  <2>2. CASE ReadHead(j)
    BY <2>2 DEF ReadHead
  <2>3. CASE Put(j)
    BY <2>3 DEF Put
  <2>4. CASE Answer(j)
    BY <2>4 DEF Answer
  <2>5. CASE Fail(j)
    BY <2>5 DEF Fail
  <2>6. CASE LoseLock(j)
    BY <2>6 DEF LoseLock
  <2>7. QED
    BY <1>5, <2>1, <2>2, <2>3, <2>4, <2>5, <2>6 DEF JobNext
<1>6. CASE UNCHANGED dbVars
  BY <1>6, <1>4, <1>5, <1>3, <1>1, <1>2 DEF AnchorNext, Restore, DbStep, AnchorIInv, TypeOK
<1>7. QED
  BY <1>1, <1>2, <1>3, <1>4, <1>5, <1>6 DEF AnchorNext
LEMMA InitHasVerifyInv == Init => VerifyInv
<1> SUFFICES ASSUME Init PROVE VerifyInv
  OBVIOUS
<1>1. AnchorIInv
  BY InitHasInv DEF Init
<1>2. VerifyTypeOK
  <2>1. NoHead \in ChainHead /\ NoEvent \in [index : Nat, id : Nat] /\ <<>> \in Seq(Anchor)
    BY DEF NoHead, NoEvent, ChainHead
  <2>2. QED
    BY <2>1 DEF Init, VerifyTypeOK
<1>3. chain = [i \in 1..Legacy |-> [id |-> i, v2 |-> FALSE]] /\ events = Legacy
  BY DEF Init, AnchorInit
<1>4. DOMAIN chain = 1..Legacy /\ Len(chain) = Legacy
  <2>1. chain \in Seq(Event)
    BY <1>1 DEF AnchorIInv, TypeOK
  <2>2. QED
    BY <1>3, <2>1
<1>5. Made = {}
  BY DEF Init, AnchorInit, Made
<1>6. RecordsStand
  BY <1>3, <1>4, <1>5 DEF Init, RecordsStand, Stands, HasEvent, NoHead, NoEvent
<1>7. RunHolds
  BY DEF Init, RunHolds
<1>8. NothingLost
  BY <1>3, <1>4, <1>5 DEF Init, NothingLost, Present, NoEvent
<1>9. ListedAsStored
  BY DEF Init, ListedAsStored
<1>10. QED
  BY <1>1, <1>2, <1>6, <1>7, <1>8, <1>9 DEF VerifyInv

\* A step of the chain, of S3 or of a job, beside a run.
LEMMA AnchorStepKeepsVerifyInv ==
    ASSUME VerifyInv, AnchorIInv', AnchorNext,
           upset' = (run # "idle" /\ (upset \/ restores' # restores)),
           UNCHANGED <<run, runHead, listed, failing, verified, seen, runSeen>>
    PROVE  VerifyInv'
<1> DEFINE Old(a) == \E b \in Made : a.head = b.head /\ a.covers = b.covers
           New(a) == UNCHANGED dbVars /\ a.head = HeadOf(chain) /\ a.covers = Ids(chain)
<1>1. /\ AnchorIInv /\ TypeOK /\ TypeOK'
      /\ VerifyTypeOK /\ RecordsStand /\ RunHolds /\ NothingLost /\ ListedAsStored
  BY DEF VerifyInv, AnchorIInv
<1>2. /\ DbStep
      /\ restores' = restores => AppendEvent \/ UNCHANGED dbVars
      /\ restores' = 0 => restores = 0 /\ restores' = restores
      /\ late => late'
      /\ Len(bucket) <= Len(bucket')
      /\ \A i \in DOMAIN bucket : i \in DOMAIN bucket' /\ bucket'[i] = bucket[i]
  BY <1>1, StepOfAnchors
<1>3. \A i \in DOMAIN chain : chain[i].id <= events
  BY <1>1 DEF RecordsStand
<1>4. /\ runHead.last \in Nat /\ runHead.event \in Nat
      /\ verified.index \in Nat /\ verified.id \in Nat
      /\ listed \in Seq(Anchor)
      /\ events \in Nat /\ events' \in Nat
  BY <1>1 DEF VerifyTypeOK, ChainHead, TypeOK
<1>5. \A a \in Made' : Old(a) \/ New(a)
  BY <1>1, StepMakes
<1>6. \A b \in Made : b.head.last \in Nat /\ b.head.event \in Nat
  BY <1>1, <1>4, MadeAnchors
<1>7. VerifyTypeOK'
  BY <1>1 DEF VerifyTypeOK
<1>8. RecordsStand'
  <2>1. \A i \in DOMAIN chain' : chain'[i].id <= events'
    <3>1. CASE AppendEvent
      <4>1. /\ DOMAIN chain' = 1..Len(chain) + 1 /\ Len(chain) \in Nat
            /\ DOMAIN chain = 1..Len(chain)
            /\ \A k \in DOMAIN chain : chain'[k] = chain[k]
            /\ chain'[Len(chain) + 1].id = events + 1
        BY <1>1, <3>1 DEF AppendEvent, TypeOK
      <4>2. \A k \in DOMAIN chain : chain[k].id \in Nat
        <5>1. \A k \in DOMAIN chain : chain[k] \in Event
          BY <1>1 DEF TypeOK
        <5>2. QED
          BY <5>1 DEF Event
      <4>3. events' = events + 1
        BY <3>1 DEF AppendEvent
      <4>4. QED
        BY <1>3, <1>4, <4>1, <4>2, <4>3
    <3>2. CASE Restore
      <4>1. PICK n \in 0..Len(chain) : chain' = SubSeq(chain, 1, n)
        BY <3>2 DEF Restore
      <4>2. DOMAIN chain' = 1..n /\ \A k \in 1..n : chain'[k] = chain[k] /\ k \in DOMAIN chain
        BY <1>1, <4>1, SubSeqProperties DEF TypeOK
      <4>3. QED
        BY <1>3, <3>2, <4>2 DEF Restore
    <3>3. QED
      BY <1>2, <1>3, <3>1, <3>2 DEF DbStep
  <2>2. ASSUME NEW a \in Made' PROVE Stands(a.head.last, a.head.event, a.covers)'
    <3>1. CASE Old(a)
      <4>1. PICK b \in Made : a.head = b.head /\ a.covers = b.covers
        BY <3>1
      <4>2. Stands(b.head.last, b.head.event, b.covers)
        BY <1>1 DEF RecordsStand
      <4>3. QED
        BY <1>1, <1>2, <1>3, <1>6, <4>1, <4>2, StandsLater
    <3>2. CASE New(a)
      <4>1. Stands(HeadOf(chain).last, HeadOf(chain).event, Ids(chain))
        BY <1>1, <1>3, <1>4, HeadStands
      <4>2. QED
        BY <3>2, <4>1 DEF Stands
    <3>3. QED
      BY <1>5, <3>1, <3>2
  <2>3. Stands(verified.index, verified.id, seen)'
    <3>1. Stands(verified.index, verified.id, seen)
      BY <1>1 DEF RecordsStand
    <3>2. QED
      BY <1>1, <1>2, <1>3, <1>4, <3>1, StandsLater DEF Stands
  <2>4. Stands(runHead.last, runHead.event, runSeen)'
    <3>1. Stands(runHead.last, runHead.event, runSeen)
      BY <1>1 DEF RecordsStand
    <3>2. QED
      BY <1>1, <1>2, <1>3, <1>4, <3>1, StandsLater DEF Stands
  <2>5. QED
    BY <2>1, <2>2, <2>3, <2>4 DEF RecordsStand
<1>9. RunHolds'
  <2>1. ASSUME run' # "idle", ~upset' PROVE Present(runHead.last, runHead.event)'
    <3>1. run # "idle" /\ ~upset /\ restores' = restores
      BY <2>1
    <3>2. Present(runHead.last, runHead.event) /\ (AppendEvent \/ UNCHANGED dbVars)
      BY <1>1, <1>2, <3>1 DEF RunHolds
    <3>3. QED
      BY <1>1, <3>2, PresentLater DEF Present
  <2>2. ASSUME run' \in {"verified", "listed"}, ~failing'
        PROVE  /\ verified'.index <= runHead'.last
               /\ HasEvent(chain', runHead'.last, runHead'.event)
                    => Present(verified.index, verified.id)'
    <3>1. /\ verified.index <= runHead.last
          /\ HasEvent(chain, runHead.last, runHead.event) => Present(verified.index, verified.id)
      BY <1>1, <2>2 DEF RunHolds
    <3>2. ASSUME HasEvent(chain', runHead.last, runHead.event)
          PROVE  Present(verified.index, verified.id)'
      <4>1. runHead.event <= events
        BY <1>1 DEF RecordsStand, Stands
      <4>2. HasEvent(chain, runHead.last, runHead.event)
        BY <1>1, <1>2, <1>3, <1>4, <3>2, <4>1, NoEventReturns
      <4>3. QED
        BY <1>1, <1>2, <1>3, <1>4, <3>1, <3>2, <4>1, <4>2, PresentWithHead DEF Present
    <3>3. QED
      BY <3>1, <3>2
  <2>3. QED
    BY <2>1, <2>2 DEF RunHolds
<1>10. NothingLost'
  <2> SUFFICES ASSUME restores' = 0
               PROVE  /\ Len(chain') >= Legacy
                      /\ \A i \in DOMAIN chain' : chain'[i].v2 <=> i > Legacy
                      /\ \A a \in Made' : HeadHolds(a.head)'
                      /\ Present(verified.index, verified.id)'
                      /\ run' # "idle" =>
                           HeadHolds(runHead)' /\ verified'.index <= runHead'.last
                      /\ ~failing'
    BY DEF NothingLost
  <2>1. /\ Len(chain) >= Legacy /\ \A i \in DOMAIN chain : chain[i].v2 <=> i > Legacy
        /\ \A a \in Made : HeadHolds(a.head)
        /\ Present(verified.index, verified.id)
        /\ run # "idle" => HeadHolds(runHead) /\ verified.index <= runHead.last
        /\ ~failing
        /\ AppendEvent \/ UNCHANGED dbVars
    BY <1>1, <1>2 DEF NothingLost
  <2>2. Len(chain') >= Legacy /\ \A i \in DOMAIN chain' : chain'[i].v2 <=> i > Legacy
    <3>1. CASE AppendEvent
      <4>1. /\ DOMAIN chain' = 1..Len(chain) + 1 /\ Len(chain') = Len(chain) + 1
            /\ Len(chain) \in Nat /\ DOMAIN chain = 1..Len(chain)
            /\ \A k \in DOMAIN chain : chain'[k] = chain[k]
            /\ chain'[Len(chain) + 1].v2 = TRUE
        BY <1>1, <3>1 DEF AppendEvent, TypeOK
      <4>2. Len(chain') >= Legacy /\ Len(chain) + 1 > Legacy
        BY <2>1, <4>1
      <4>3. \A i \in DOMAIN chain' : i \in DOMAIN chain \/ i = Len(chain) + 1
        BY <4>1
      <4>4. QED
        BY <2>1, <4>1, <4>2, <4>3, Zenon
    <3>2. CASE UNCHANGED dbVars
      BY <2>1, <3>2, Zenon
    <3>3. QED
      BY <2>1, <3>1, <3>2
  <2>3. \A h : HeadHolds(h) => HeadHolds(h)'
    BY <1>1, <2>1, PresentLater DEF HeadHolds
  <2>4. ASSUME NEW a \in Made' PROVE HeadHolds(a.head)'
    <3>1. CASE Old(a)
      BY <2>1, <2>3, <3>1
    <3>2. CASE New(a)
      <4>1. /\ HeadOf(chain).last = Len(chain)
            /\ Present(HeadOf(chain).last, HeadOf(chain).event)
        BY <1>1, <1>3, <1>4, HeadStands
      <4>2. HeadOf(chain).v2 = HashV2From(chain) /\ chain \in Seq(Event)
        BY <1>1 DEF HeadOf, TypeOK
      <4>3. HashV2From(chain) = IF Len(chain) > Legacy THEN Legacy + 1 ELSE 0
        BY <2>1, <4>2, HashV2AfterLegacy
      <4>4. HeadHolds(HeadOf(chain))
        BY <2>1, <4>1, <4>2, <4>3 DEF HeadHolds
      <4>5. QED
        BY <2>3, <3>2, <4>4
    <3>3. QED
      BY <1>5, <3>1, <3>2
  <2>5. Present(verified.index, verified.id)'
    BY <1>1, <2>1, PresentLater DEF Present
  <2>6. run' # "idle" => HeadHolds(runHead)' /\ verified'.index <= runHead'.last
    BY <2>1, <2>3 DEF HeadHolds, Present
  <2>7. QED
    BY <2>1, <2>2, <2>4, <2>5, <2>6
<1>11. ListedAsStored'
  <2> SUFFICES ASSUME run = "listed", ~late
               PROVE  /\ Len(listed) <= Len(bucket')
                      /\ \A i \in DOMAIN listed : listed[i] = bucket'[i]
    BY <1>2 DEF ListedAsStored
  <2>1. /\ Len(listed) \in Nat /\ Len(bucket) \in Nat /\ Len(bucket') \in Nat
        /\ DOMAIN listed = 1..Len(listed) /\ DOMAIN bucket = 1..Len(bucket)
    BY <1>1, <1>4 DEF TypeOK
  <2>2. QED
    BY <1>1, <1>2, <2>1 DEF ListedAsStored
<1>12. QED
  BY <1>7, <1>8, <1>9, <1>10, <1>11 DEF VerifyInv
\* The steps of a run leave events and anchors alone, and list no others.
LEMMA RunStepKeeps ==
    ASSUME VerifyInv, UNCHANGED anchorVars, Made' \subseteq Made
    PROVE  /\ AnchorIInv'
           /\ \A i \in DOMAIN chain' : chain'[i].id <= events'
           /\ \A a \in Made' : Stands(a.head.last, a.head.event, a.covers)'
           /\ restores' = 0 =>
                /\ restores = 0
                /\ Len(chain') >= Legacy /\ \A i \in DOMAIN chain' : chain'[i].v2 <=> i > Legacy
                /\ \A a \in Made' : HeadHolds(a.head)'
<1>1. AnchorIInv'
  BY StutterKeepsInv DEF VerifyInv
<1>2. UNCHANGED <<chain, events, restores>>
  BY DEF anchorVars
<1>3. \A index, id, ids : Stands(index, id, ids) => Stands(index, id, ids)'
  BY <1>2 DEF Stands, HasEvent
<1>4. \A h : HeadHolds(h) => HeadHolds(h)'
  BY <1>2 DEF HeadHolds, Present, HasEvent
<1>5. \A a \in Made' : Stands(a.head.last, a.head.event, a.covers)'
  BY <1>3 DEF VerifyInv, RecordsStand
<1>6. restores' = 0 => \A a \in Made' : HeadHolds(a.head)'
  BY <1>2, <1>4 DEF VerifyInv, NothingLost
<1>7. \A i \in DOMAIN chain' : chain'[i].id <= events'
  BY <1>2 DEF VerifyInv, RecordsStand
<1>8. restores' = 0 =>
        Len(chain') >= Legacy /\ \A i \in DOMAIN chain' : chain'[i].v2 <=> i > Legacy
  BY <1>2, Zenon DEF VerifyInv, NothingLost
<1>9. QED
  BY <1>1, <1>2, <1>5, <1>6, <1>7, <1>8

LEMMA StartRunKeepsVerifyInv ==
    ASSUME VerifyInv, StartRun
    PROVE  VerifyInv'
<1> DEFINE head == HeadOf(chain)
<1>1. TypeOK /\ VerifyTypeOK /\ RecordsStand /\ NothingLost /\ events \in Nat
  BY DEF VerifyInv, AnchorIInv, TypeOK
<1>2. /\ run' = "head" /\ runHead' = head /\ runSeen' = Ids(chain) /\ upset' = FALSE
      /\ UNCHANGED <<chain, events, restores, bucket, inFlight, at, base, late>>
      /\ UNCHANGED <<listed, failing, verified, seen, anchorVars>>
  BY DEF StartRun, anchorVars
<1>3. /\ AnchorIInv'
      /\ \A i \in DOMAIN chain' : chain'[i].id <= events'
      /\ \A a \in Made' : Stands(a.head.last, a.head.event, a.covers)'
      /\ restores' = 0 =>
           /\ Len(chain') >= Legacy /\ \A i \in DOMAIN chain' : chain'[i].v2 <=> i > Legacy
           /\ \A a \in Made' : HeadHolds(a.head)'
  <2>1. Made' \subseteq Made
    BY <1>2 DEF Made
  <2>2. QED
    BY <1>2, <2>1, RunStepKeeps
<1>4. /\ head \in ChainHead /\ head.last = Len(chain)
      /\ Stands(head.last, head.event, Ids(chain)) /\ Present(head.last, head.event)
      /\ Ids(chain) \subseteq Nat
  BY <1>1, HeadStands DEF RecordsStand
<1>5. restores = 0 => HeadHolds(head)
  <2>1. head.v2 = HashV2From(chain) /\ chain \in Seq(Event)
    BY <1>1 DEF HeadOf, TypeOK
  <2>2. restores = 0 => HashV2From(chain) = IF Len(chain) > Legacy THEN Legacy + 1 ELSE 0
    BY <1>1, <2>1, HashV2AfterLegacy DEF NothingLost
  <2>3. QED
    BY <1>1, <1>4, <2>1, <2>2 DEF NothingLost, HeadHolds
<1> HIDE DEF head
<1>6. VerifyTypeOK'
  BY <1>1, <1>2, <1>4 DEF VerifyTypeOK
<1>7. RecordsStand'
  BY <1>1, <1>2, <1>3, <1>4 DEF RecordsStand, Stands, HasEvent
<1>8. RunHolds'
  BY <1>2, <1>4 DEF RunHolds, Present, HasEvent
<1>9. NothingLost'
  <2>1. restores = 0 => verified.index <= head.last
    <3>1. verified.index \in Nat /\ chain \in Seq(Event)
      BY <1>1 DEF VerifyTypeOK, TypeOK
    <3>2. restores = 0 => verified.index = 0 \/ verified.index \in 1..Len(chain)
      BY <1>1, <3>1 DEF NothingLost, Present, HasEvent
    <3>3. QED
      BY <1>4, <3>1, <3>2
  <2>2. restores = 0 => HeadHolds(runHead)'
    BY <1>2, <1>5 DEF HeadHolds, Present, HasEvent
  <2>3. restores = 0 => Present(verified.index, verified.id)' /\ ~failing'
    BY <1>1, <1>2 DEF NothingLost, Present, HasEvent
  <2>4. verified'.index = verified.index /\ runHead'.last = head.last
    BY <1>2
  <2>5. QED
    BY <1>2, <1>3, <2>1, <2>2, <2>3, <2>4 DEF NothingLost
<1>10. ListedAsStored'
  BY <1>2 DEF ListedAsStored
<1>11. QED
  BY <1>3, <1>6, <1>7, <1>8, <1>9, <1>10 DEF VerifyInv

LEMMA CheckVerifiedEventKeepsVerifyInv ==
    ASSUME VerifyInv, CheckVerifiedEvent
    PROVE  VerifyInv'
<1>1. VerifyTypeOK /\ RecordsStand /\ RunHolds /\ NothingLost
  BY DEF VerifyInv
<1>2. /\ run = "head" /\ run' = "verified"
      /\ UNCHANGED <<chain, events, restores, bucket, inFlight, at, base, late>>
      /\ UNCHANGED <<runHead, listed, verified, seen, runSeen, upset, anchorVars>>
  BY DEF CheckVerifiedEvent, anchorVars
<1>3. failing' = (/\ verified # NoEvent
                  /\ \/ runHead.last < verified.index
                     \/ ~HasEvent(chain, verified.index, verified.id))
  BY DEF CheckVerifiedEvent
<1>4. /\ AnchorIInv'
      /\ \A i \in DOMAIN chain' : chain'[i].id <= events'
      /\ \A a \in Made' : Stands(a.head.last, a.head.event, a.covers)'
      /\ restores' = 0 =>
           /\ Len(chain') >= Legacy /\ \A i \in DOMAIN chain' : chain'[i].v2 <=> i > Legacy
           /\ \A a \in Made' : HeadHolds(a.head)'
  <2>1. Made' \subseteq Made
    BY <1>2 DEF Made
  <2>2. QED
    BY <1>2, <2>1, RunStepKeeps
<1>5. /\ verified \in [index : Nat, id : Nat] /\ runHead.last \in Nat
      /\ verified.index \in Nat /\ verified.id \in Nat
  BY <1>1 DEF VerifyTypeOK, ChainHead
<1>6. VerifyTypeOK'
  BY <1>1, <1>2, <1>3 DEF VerifyTypeOK
<1>7. RecordsStand'
  BY <1>1, <1>2, <1>4 DEF RecordsStand, Stands, HasEvent
<1>8. RunHolds'
  <2>1. ~failing' => verified.index <= runHead.last /\ Present(verified.index, verified.id)
    <3>1. CASE verified = NoEvent
      BY <3>1, <1>5 DEF NoEvent, Present
    <3>2. CASE verified # NoEvent
      BY <3>2, <1>3, <1>5 DEF Present
    <3>3. QED
      BY <3>1, <3>2
  <2>2. ~upset => Present(runHead.last, runHead.event)
    BY <1>1, <1>2 DEF RunHolds
  <2>3. QED
    BY <1>2, <2>1, <2>2 DEF RunHolds, Present, HasEvent
<1>9. NothingLost'
  <2> SUFFICES ASSUME restores = 0
               PROVE  /\ HeadHolds(runHead)' /\ verified.index <= runHead.last
                      /\ Present(verified.index, verified.id)'
                      /\ ~failing'
    BY <1>2, <1>4 DEF NothingLost
  <2>1. /\ HeadHolds(runHead) /\ verified.index <= runHead.last
        /\ Present(verified.index, verified.id)
    BY <1>1, <1>2 DEF NothingLost
  <2>2. verified # NoEvent => verified.index # 0
    <3>1. verified.index = 0 => verified.id = 0
      BY <1>1 DEF RecordsStand, Stands
    <3>2. QED
      BY <1>5, <3>1 DEF NoEvent
  <2>3. ~failing'
    BY <1>3, <1>5, <2>1, <2>2 DEF Present
  <2>4. QED
    BY <1>2, <2>1, <2>3 DEF HeadHolds, Present, HasEvent
<1>10. ListedAsStored'
  BY <1>2 DEF ListedAsStored
<1>11. QED
  BY <1>4, <1>6, <1>7, <1>8, <1>9, <1>10 DEF VerifyInv

LEMMA LoadAnchorsKeepsVerifyInv ==
    ASSUME VerifyInv, LoadAnchors
    PROVE  VerifyInv'
<1>1. AnchorIInv /\ TypeOK /\ VerifyTypeOK /\ RecordsStand /\ RunHolds /\ NothingLost
  BY DEF VerifyInv, AnchorIInv
<1>2. /\ run = "verified" /\ run' = "listed"
      /\ listed' \in WriteOrders({bucket[i] : i \in DOMAIN bucket})
      /\ UNCHANGED <<chain, events, restores, bucket, inFlight, at, base, late>>
      /\ UNCHANGED <<runHead, failing, verified, seen, runSeen, upset, anchorVars>>
  BY DEF LoadAnchors, anchorVars
<1>3. /\ listed' \in Seq(Anchor) /\ Len(listed') <= Len(bucket)
      /\ \A i \in DOMAIN listed' : listed'[i] \in {bucket[k] : k \in DOMAIN bucket}
  BY <1>1, <1>2, OrderLists
<1>4. /\ AnchorIInv'
      /\ \A i \in DOMAIN chain' : chain'[i].id <= events'
      /\ \A a \in Made' : Stands(a.head.last, a.head.event, a.covers)'
      /\ restores' = 0 =>
           /\ Len(chain') >= Legacy /\ \A i \in DOMAIN chain' : chain'[i].v2 <=> i > Legacy
           /\ \A a \in Made' : HeadHolds(a.head)'
  <2>1. Made' \subseteq Made
    BY <1>2, <1>3 DEF Made
  <2>2. QED
    BY <1>2, <2>1, RunStepKeeps
<1>5. VerifyTypeOK'
  BY <1>1, <1>2, <1>3 DEF VerifyTypeOK
<1>6. RecordsStand'
  BY <1>1, <1>2, <1>4 DEF RecordsStand, Stands, HasEvent
<1>7. RunHolds'
  BY <1>1, <1>2 DEF RunHolds, Present, HasEvent
<1>8. NothingLost'
  BY <1>1, <1>2, <1>4 DEF NothingLost, HeadHolds, Present, HasEvent
<1>9. ListedAsStored'
  BY <1>1, <1>2, <1>3, OrderIsStored DEF ListedAsStored
<1>10. QED
  BY <1>4, <1>5, <1>6, <1>7, <1>8, <1>9 DEF VerifyInv

LEMMA EndRunKeepsVerifyInv ==
    ASSUME VerifyInv, EndRun \/ Restart
    PROVE  VerifyInv'
<1>1. VerifyTypeOK /\ RecordsStand /\ RunHolds /\ NothingLost
  BY DEF VerifyInv
<1>2. /\ run' = "idle" /\ runHead' = NoHead /\ listed' = <<>> /\ failing' = FALSE
      /\ runSeen' = {} /\ upset' = FALSE
      /\ UNCHANGED <<chain, events, restores, bucket, inFlight, at, base, late, anchorVars>>
  BY DEF EndRun, Restart, Idle, anchorVars
<1>3. /\ AnchorIInv'
      /\ \A i \in DOMAIN chain' : chain'[i].id <= events'
      /\ \A a \in Made' : Stands(a.head.last, a.head.event, a.covers)'
      /\ restores' = 0 =>
           /\ Len(chain') >= Legacy /\ \A i \in DOMAIN chain' : chain'[i].v2 <=> i > Legacy
           /\ \A a \in Made' : HeadHolds(a.head)'
  <2>1. Made' \subseteq Made
    BY <1>2 DEF Made
  <2>2. QED
    BY <1>2, <2>1, RunStepKeeps
<1>4. \/ UNCHANGED <<verified, seen>>
      \/ verified' = NoEvent /\ seen' = {}
      \/ /\ run = "listed" /\ ~failing
         /\ verified' = [index |-> runHead.last, id |-> runHead.event]
         /\ seen' = seen \cup runSeen
  BY DEF EndRun, Restart
<1>5. /\ runHead.last \in Nat /\ runHead.event \in Nat
      /\ verified.index \in Nat /\ verified.id \in Nat
      /\ events \in Nat
  BY DEF VerifyInv, VerifyTypeOK, ChainHead, AnchorIInv, TypeOK
<1>6. /\ Stands(verified'.index, verified'.id, seen')
      /\ restores = 0 => Present(verified'.index, verified'.id)
  <2>1. CASE UNCHANGED <<verified, seen>>
    BY <1>1, <2>1 DEF RecordsStand, NothingLost
  <2>2. CASE verified' = NoEvent /\ seen' = {}
    BY <1>5, <2>2 DEF NoEvent, Stands, Present, HasEvent
  <2>3. CASE /\ run = "listed" /\ ~failing
             /\ verified' = [index |-> runHead.last, id |-> runHead.event]
             /\ seen' = seen \cup runSeen
    <3>1. /\ Stands(verified.index, verified.id, seen)
          /\ Stands(runHead.last, runHead.event, runSeen)
          /\ verified.index <= runHead.last
          /\ HasEvent(chain, runHead.last, runHead.event) => Present(verified.index, verified.id)
      BY <1>1, <2>3 DEF RecordsStand, RunHolds
    <3>2. runHead.last = 0 => runHead.event = 0 /\ seen \cup runSeen = {}
      BY <1>5, <3>1 DEF Stands
    <3>3. ASSUME HasEvent(chain, runHead.last, runHead.event)
          PROVE  seen \cup runSeen \subseteq {chain[k].id : k \in 1..runHead.last}
      <4>1. runSeen \subseteq {chain[k].id : k \in 1..runHead.last}
        BY <3>1, <3>3 DEF Stands
      <4>2. seen \subseteq {chain[k].id : k \in 1..verified.index}
        BY <3>1, <3>3 DEF Stands, Present
      <4>3. 1..verified.index \subseteq 1..runHead.last
        BY <1>5, <3>1
      <4>4. QED
        BY <4>1, <4>2, <4>3
    <3>4. runHead.event <= events
      BY <3>1 DEF Stands
    <3>5. Stands(runHead.last, runHead.event, seen \cup runSeen)
      BY <3>2, <3>3, <3>4 DEF Stands
    <3>6. restores = 0 => Present(runHead.last, runHead.event)
      BY <1>1, <2>3 DEF NothingLost, HeadHolds
    <3>7. QED
      BY <2>3, <3>5, <3>6
  <2>4. QED
    BY <1>4, <2>1, <2>2, <2>3
<1>7. VerifyTypeOK'
  <2>1. verified' \in [index : Nat, id : Nat] /\ seen' \subseteq Nat
    <3>1. /\ seen \subseteq Nat /\ runSeen \subseteq Nat
          /\ verified \in [index : Nat, id : Nat] /\ NoEvent \in [index : Nat, id : Nat]
          /\ [index |-> runHead.last, id |-> runHead.event] \in [index : Nat, id : Nat]
      BY <1>1, <1>5 DEF VerifyTypeOK, NoEvent
    <3>2. QED
      BY <1>4, <3>1
  <2>2. NoHead \in ChainHead /\ <<>> \in Seq(Anchor)
    BY DEF NoHead, ChainHead
  <2>3. QED
    BY <1>2, <2>1, <2>2 DEF VerifyTypeOK
<1>8. RecordsStand'
  <2>1. Stands(0, 0, {})
    BY <1>5 DEF Stands, HasEvent
  <2>2. QED
    BY <1>2, <1>3, <1>6, <2>1 DEF RecordsStand, Stands, HasEvent, NoHead
<1>9. RunHolds'
  BY <1>2 DEF RunHolds
<1>10. NothingLost'
  BY <1>2, <1>3, <1>6 DEF NothingLost, Present, HasEvent
<1>11. ListedAsStored'
  BY <1>2 DEF ListedAsStored
<1>12. QED
  BY <1>3, <1>7, <1>8, <1>9, <1>10, <1>11 DEF VerifyInv

LEMMA StepKeepsVerifyInv == VerifyInv /\ [Next]_vars => VerifyInv'
<1> SUFFICES ASSUME VerifyInv, [Next]_vars PROVE VerifyInv'
  OBVIOUS
<1>1. AnchorIInv'
  BY StepKeepsInv DEF VerifyInv
<1>2. CASE VerifyNext
  BY <1>2, StartRunKeepsVerifyInv, CheckVerifiedEventKeepsVerifyInv, LoadAnchorsKeepsVerifyInv,
     EndRunKeepsVerifyInv DEF VerifyNext
<1>3. CASE /\ AnchorNext
           /\ upset' = (run # "idle" /\ (upset \/ restores' # restores))
           /\ UNCHANGED <<run, runHead, listed, failing, verified, seen, runSeen>>
  BY <1>1, <1>3, AnchorStepKeepsVerifyInv
<1>4. CASE UNCHANGED vars
  BY <1>1, <1>4 DEF vars, anchorVars, verifyVars, VerifyInv, VerifyTypeOK, RecordsStand, RunHolds,
     NothingLost, ListedAsStored, Stands, Present, HeadHolds, HasEvent, Made
<1>5. QED
  BY <1>2, <1>3, <1>4 DEF Next
\* The invariant of verification holds in every run: what was recorded of the chain stands as long
\* as its head is there, and without a restore all of it is there.
THEOREM VerifySafe == Spec => []VerifyInv
<1>1. QED
  BY InitHasVerifyInv, StepKeepsVerifyInv, PTL DEF Spec

\* Ids that stand for a head in the chain are the chain's.
LEMMA StandingIds ==
    ASSUME TypeOK, NEW index \in Nat, NEW id, NEW ids,
           Stands(index, id, ids), Present(index, id)
    PROVE  ids \subseteq Ids(chain)
<1>1. CASE index = 0
  BY <1>1 DEF Stands
<1>2. CASE HasEvent(chain, index, id)
  <2>1. 1..index \subseteq DOMAIN chain
    BY <1>2 DEF HasEvent, TypeOK
  <2>2. ids \subseteq {chain[k].id : k \in 1..index}
    BY <1>2 DEF Stands
  <2>3. QED
    BY <2>1, <2>2 DEF Ids
<1>3. QED
  BY <1>1, <1>2 DEF Present

\* A run that passes has every event an anchor covers, and every one an earlier run passed.
THEOREM LossIsReported == Spec => LossReported
<1>1. VerifyInv /\ [Next]_vars =>
        [Passes /\ ~upset =>
           /\ seen \subseteq Ids(chain)
           /\ \A i \in DOMAIN listed : listed[i].covers \subseteq Ids(chain)]_vars
  <2> SUFFICES ASSUME VerifyInv, Passes, ~upset
               PROVE  /\ seen \subseteq Ids(chain)
                      /\ \A i \in DOMAIN listed : listed[i].covers \subseteq Ids(chain)
    OBVIOUS
  <2>1. TypeOK /\ VerifyTypeOK /\ RecordsStand /\ RunHolds
    BY DEF VerifyInv, AnchorIInv
  <2>2. run = "listed" /\ ~failing /\ ~EventsMissing(listed, chain)
    BY DEF Passes, EndRun, AnchorsFail
  <2>3. seen \subseteq Ids(chain)
    <3>1. verified.index \in Nat /\ runHead.last \in Nat
      BY <2>1 DEF VerifyTypeOK, ChainHead
    <3>2. /\ Present(runHead.last, runHead.event)
          /\ verified.index <= runHead.last
          /\ HasEvent(chain, runHead.last, runHead.event) => Present(verified.index, verified.id)
      BY <2>1, <2>2 DEF RunHolds
    <3>3. Present(verified.index, verified.id)
      BY <3>1, <3>2 DEF Present
    <3>4. QED
      BY <2>1, <3>1, <3>3, StandingIds DEF RecordsStand
  <2>4. ASSUME NEW i \in DOMAIN listed PROVE listed[i].covers \subseteq Ids(chain)
    <3>1. listed[i] \in Made
      BY DEF Made
    <3>2. listed[i].head.last \in Nat
      BY <2>1, <3>1, MadeAnchors DEF VerifyTypeOK
    <3>3. Present(listed[i].head.last, listed[i].head.event)
      BY <2>2 DEF EventsMissing, Present
    <3>4. QED
      BY <2>1, <3>1, <3>2, <3>3, StandingIds DEF RecordsStand
  <2>5. QED
    BY <2>3, <2>4
<1>2. QED
  BY VerifySafe, <1>1, PTL DEF Spec, LossReported

\* Heads that hold agree on where hash v2 starts, unless it started after the head was read.
LEMMA HeadsAgree ==
    ASSUME NEW a, NEW h, a.head.last \in Nat, h.last \in Nat,
           HeadHolds(a.head), HeadHolds(h), ~(h.v2 = 0 /\ a.head.v2 # 0)
    PROVE  AnchoredV2(a, h) = h.v2
<1>1. Legacy \in Nat
  OBVIOUS
<1>2. CASE a.head.last > Legacy
  BY <1>1, <1>2 DEF HeadHolds, AnchoredV2
<1>3. CASE a.head.last = Legacy
  BY <1>1, <1>3 DEF HeadHolds, AnchoredV2
<1>4. QED
  BY <1>1, <1>2, <1>3 DEF HeadHolds

\* A run fails for a reason only.
THEOREM NoAlarmIsFalse == Spec => NoFalseAlarm
<1>1. VerifyInv /\ [Next]_vars =>
        [Fails =>
           \/ restores > 0
           \/ late
           \/ NoAnchors(listed, runHead)
           \/ runHead.v2 = 0 /\ \E i \in DOMAIN listed : listed[i].head.v2 # 0]_vars
  <2> SUFFICES ASSUME VerifyInv, Fails, ~(restores > 0), ~late, ~NoAnchors(listed, runHead),
                      ~(runHead.v2 = 0 /\ \E i \in DOMAIN listed : listed[i].head.v2 # 0)
               PROVE  FALSE
    OBVIOUS
  <2>1. /\ AnchorIInv /\ TypeOK /\ VerifyTypeOK /\ NothingLost /\ ListedAsStored
        /\ AnchorsLinked /\ AnchorsGrow
    BY DEF VerifyInv, AnchorIInv
  <2>2. run = "listed" /\ (failing \/ AnchorsFail) /\ restores = 0
    BY <2>1 DEF Fails, EndRun, TypeOK
  <2>3. /\ ~failing
        /\ HeadHolds(runHead)
        /\ \A a \in Made : HeadHolds(a.head)
    BY <2>1, <2>2 DEF NothingLost
  <2>4. /\ \A i \in DOMAIN listed : i \in DOMAIN bucket /\ listed[i] = bucket[i]
        /\ DOMAIN listed = 1..Len(listed) /\ Len(listed) \in Nat
    BY <2>1, <2>2 DEF ListedAsStored, VerifyTypeOK, TypeOK
  <2>5. \A i \in DOMAIN listed : listed[i] \in Made /\ HeadHolds(listed[i].head)
    BY <2>3 DEF Made
  <2>6. ~Overwritten(listed)
    BY <2>1, <2>4 DEF AnchorsLinked, Overwritten
  <2>7. ~Unlinked(listed)
    <3>1. ASSUME NEW i \in DOMAIN listed, i > 1 PROVE listed[i].prev = listed[i - 1].id
      <4>1. i - 1 \in DOMAIN listed /\ i # 1
        BY <2>4, <3>1
      <4>2. QED
        BY <2>1, <2>4, <4>1 DEF AnchorsLinked
    <3>2. QED
      BY <3>1 DEF Unlinked
  <2>8. ~Shrinks(listed)
    <3>1. ASSUME NEW i \in DOMAIN listed, NEW k \in DOMAIN listed, i < k
          PROVE  ~(listed[k].head.last < listed[i].head.last)
      <4>1. bucket[i].head.last <= bucket[k].head.last
        BY <2>1, <2>2, <2>4, <3>1 DEF AnchorsGrow
      <4>2. bucket[i].head.last \in Nat /\ bucket[k].head.last \in Nat
        BY <2>1, <2>4, AnchorNumbers
      <4>3. QED
        BY <2>4, <4>1, <4>2
    <3>2. QED
      BY <3>1 DEF Shrinks
  <2>9. ~V2StartDiffers(listed, runHead)
    <3>1. runHead.last \in Nat
      BY <2>1 DEF VerifyTypeOK, ChainHead
    <3>2. \A i \in DOMAIN listed : listed[i].head.last \in Nat
      BY <2>1, <2>5, MadeAnchors DEF VerifyTypeOK
    <3>3. QED
      BY <2>3, <2>5, <3>1, <3>2, HeadsAgree DEF V2StartDiffers
  <2>10. ~EventsMissing(listed, chain)
    BY <2>5 DEF HeadHolds, Present, EventsMissing
  <2>11. QED
    BY <2>2, <2>3, <2>6, <2>7, <2>8, <2>9, <2>10 DEF AnchorsFail
<1>2. QED
  BY VerifySafe, <1>1, PTL DEF Spec, NoFalseAlarm
=============================================================================
