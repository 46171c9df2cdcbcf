------------------------------ MODULE MFA_proofs ------------------------------
(***************************************************************************)
(* Proofs about MFA: its inductive invariant, and with it the limit of     *)
(* attempts, the automatic lock and the end of exemptions, for any number  *)
(* of attempts, kinds of factor, methods and sign-ins.                     *)
(***************************************************************************)
EXTENDS MFA, FiniteSetTheorems, TLAPS

USE ConstantsAssumption DEF attemptVars, factorVars, sessionVars, lockVars

\* The failures the automatic lock has to heed.
Heeded == Failed \ (excused \cup Checking)

LEMMA Smaller ==
    ASSUME NEW B \in SUBSET Attempt, NEW A \in SUBSET B
    PROVE  /\ Cardinality(A) \in Nat /\ Cardinality(B) \in Nat
           /\ Cardinality(A) <= Cardinality(B)
<1>1. IsFiniteSet(B)
  BY FS_Subset
<1>2. QED
  BY <1>1, FS_Subset, FS_CardinalityType

LEMMA OneMore ==
    ASSUME NEW B \in SUBSET Attempt, NEW a \in Attempt, NEW A \in SUBSET (B \cup {a})
    PROVE  Cardinality(A) <= Cardinality(B) + 1
<1> DEFINE C == B \cup {a}
<1>1. IsFiniteSet(B) /\ C \in SUBSET Attempt
  BY FS_Subset
<1>2. Cardinality(C) = IF a \in B THEN Cardinality(B) ELSE Cardinality(B) + 1
  BY <1>1, FS_AddElement
<1>3. Cardinality(A) <= Cardinality(C) /\ Cardinality(A) \in Nat /\ Cardinality(C) \in Nat
  BY <1>1, Smaller
<1>4. Cardinality(B) \in Nat
  BY Smaller
<1> HIDE DEF C
<1>5. QED
  BY <1>2, <1>3, <1>4

LEMMA SetsOfAttempts ==
    /\ \A k : Counted(k) \in SUBSET Attempt /\ Cardinality(Counted(k)) \in Nat
    /\ Heeded \in SUBSET Attempt /\ Cardinality(Heeded) \in Nat
    /\ Failed \in SUBSET Attempt /\ Cardinality(Failed) \in Nat
<1>1. /\ \A k : Counted(k) \in SUBSET Attempt
      /\ Heeded \in SUBSET Attempt
      /\ Failed \in SUBSET Attempt
  BY DEF Counted, Heeded, Failed
<1>2. QED
  BY <1>1, Smaller

\* A step that makes no attempt count keeps the limit, and what was counted.
LEMMA FewerCount ==
    ASSUME \A k : Counted(k)' \subseteq Counted(k), AttemptsWithinLimit
    PROVE  /\ AttemptsWithinLimit'
           /\ \A k : Cardinality(Counted(k)') <= Cardinality(Counted(k))
<1>1. \A k : Cardinality(Counted(k)') <= Cardinality(Counted(k))
  BY SetsOfAttempts, Smaller
<1>2. \A k : Cardinality(Counted(k)') \in Nat
  BY SetsOfAttempts, Smaller
<1>3. QED
  BY <1>1, <1>2, SetsOfAttempts DEF AttemptsWithinLimit

\* A step that leaves no more failures to heed keeps FailuresLock.
LEMMA FewerHeeded ==
    ASSUME Heeded' \subseteq Heeded, locked \/ FailuresLock, locked => locked'
    PROVE  FailuresLock'
<1>1. Cardinality(Heeded') <= Cardinality(Heeded) /\ Cardinality(Heeded') \in Nat
  BY SetsOfAttempts, Smaller
<1>2. QED
  BY <1>1, SetsOfAttempts DEF FailuresLock, Heeded

THEOREM InitHasInv == Init => MFAIInv
<1> SUFFICES ASSUME Init PROVE MFAIInv
  OBVIOUS
<1> USE DEF Init
<1>1. TypeOK
  BY DEF TypeOK
<1>2. \A k : Counted(k) = {}
  BY DEF Counted
<1>3. Failed \ (excused \cup Checking) = {}
  BY DEF Failed
<1>4. AttemptsWithinLimit /\ FailuresLock
  BY <1>2, <1>3, FS_EmptySet DEF AttemptsWithinLimit, FailuresLock
<1>5. EnrolledWithAMethod /\ ExemptionEndsAtEnrollment
  BY DEF EnrolledWithAMethod, ExemptionEndsAtEnrollment
<1>6. RowLockHeld
  BY DEF RowLockHeld
<1>7. ReadsHold
  BY DEF ReadsHold
<1>8. QED
  BY <1>1, <1>4, <1>5, <1>6, <1>7 DEF MFAIInv

LEMMA BeginKeepsInv ==
    ASSUME MFAIInv, NEW a \in Attempt, Begin(a)
    PROVE  MFAIInv'
<1> USE DEF MFAIInv, Begin, LockRow, RowFree, Goto
<1>1. TypeOK'
  BY DEF TypeOK
<1>a. (\A k : Counted(k)' = Counted(k)) /\ Failed' = Failed
  BY DEF Counted, Failed
<1>2. AttemptsWithinLimit'
  BY <1>a, FewerCount
<1>3. FailuresLock'
  <2>1. Heeded' \subseteq Heeded
    BY <1>a DEF TypeOK, ReadsHold, Heeded, Failed, Checking
  <2>2. QED
    BY <2>1, FewerHeeded
<1>4. EnrolledWithAMethod'
  BY DEF TypeOK, EnrolledWithAMethod, RowLockHeld, ReadsHold
<1>5. ExemptionEndsAtEnrollment'
  BY DEF TypeOK, ExemptionEndsAtEnrollment, RowLockHeld, ReadsHold
<1>6. RowLockHeld'
  BY DEF TypeOK, RowLockHeld
<1>7. ReadsHold'
  BY <1>a, FewerCount, SetsOfAttempts DEF TypeOK, ReadsHold, RowLockHeld
<1>8. QED
  BY <1>1, <1>2, <1>3, <1>4, <1>5, <1>6, <1>7

LEMMA CountAttemptsKeepsInv ==
    ASSUME MFAIInv, NEW a \in Attempt, CountAttempts(a)
    PROVE  MFAIInv'
<1> USE DEF MFAIInv, CountAttempts, Goto
<1>1. TypeOK'
  BY SetsOfAttempts DEF TypeOK
<1>a. (\A k : Counted(k)' = Counted(k)) /\ Failed' = Failed
  BY DEF Counted, Failed
<1>2. AttemptsWithinLimit'
  BY <1>a, FewerCount
<1>3. FailuresLock'
  <2>1. Heeded' \subseteq Heeded
    BY <1>a DEF TypeOK, ReadsHold, Heeded, Failed, Checking
  <2>2. QED
    BY <2>1, FewerHeeded
<1>4. EnrolledWithAMethod'
  BY DEF TypeOK, EnrolledWithAMethod, RowLockHeld, ReadsHold
<1>5. ExemptionEndsAtEnrollment'
  BY DEF TypeOK, ExemptionEndsAtEnrollment, RowLockHeld, ReadsHold
<1>6. RowLockHeld'
  BY DEF TypeOK, RowLockHeld
<1>7. ReadsHold'
  BY <1>a, FewerCount, SetsOfAttempts DEF TypeOK, ReadsHold, RowLockHeld
<1>8. QED
  BY <1>1, <1>2, <1>3, <1>4, <1>5, <1>6, <1>7

LEMMA LogAttemptKeepsInv ==
    ASSUME MFAIInv, NEW a \in Attempt, LogAttempt(a)
    PROVE  MFAIInv'
<1> USE DEF MFAIInv, LogAttempt, Release, Goto
<1>1. TypeOK'
  BY DEF TypeOK
<1>a. /\ \A k : Counted(k)' \subseteq Counted(k) \cup {a}
      /\ \A k : k # KindOf[a] \/ count[a] >= Limit => Counted(k)' \subseteq Counted(k)
  BY DEF TypeOK, Counted, ReadsHold
<1>2. AttemptsWithinLimit'
  <2> SUFFICES ASSUME NEW k \in Kind
               PROVE  Cardinality(Counted(k)') <= Limit
    BY DEF AttemptsWithinLimit
  <2>1. CASE k # KindOf[a] \/ count[a] >= Limit
    <3>1. Cardinality(Counted(k)') <= Cardinality(Counted(k)) /\ Cardinality(Counted(k)') \in Nat
      BY <2>1, <1>a, SetsOfAttempts, Smaller
    <3>2. QED
      BY <3>1, SetsOfAttempts DEF AttemptsWithinLimit
  <2>2. CASE k = KindOf[a] /\ count[a] < Limit
    <3>1. Cardinality(Counted(k)') <= Cardinality(Counted(k)) + 1
      BY <1>a, SetsOfAttempts, OneMore
    <3>2. Cardinality(Counted(k)) <= count[a] /\ count[a] \in Nat
      BY <2>2 DEF ReadsHold, TypeOK
    <3>3. Cardinality(Counted(k)') \in Nat /\ Cardinality(Counted(k)) \in Nat
      BY <1>a, SetsOfAttempts, Smaller
    <3>4. QED
      BY <2>2, <3>1, <3>2, <3>3
  <2>3. QED
    BY <2>1, <2>2 DEF TypeOK
<1>3. FailuresLock'
  <2>1. Heeded' \subseteq Heeded
    BY DEF TypeOK, ReadsHold, Heeded, Failed, Checking
  <2>2. QED
    BY <2>1, FewerHeeded
<1>4. EnrolledWithAMethod'
  BY DEF TypeOK, EnrolledWithAMethod, RowLockHeld, ReadsHold
<1>5. ExemptionEndsAtEnrollment'
  BY DEF TypeOK, ExemptionEndsAtEnrollment, RowLockHeld, ReadsHold
<1>6. RowLockHeld'
  BY DEF TypeOK, RowLockHeld
<1>7. ReadsHold'
  BY DEF TypeOK, ReadsHold, RowLockHeld
<1>8. QED
  BY <1>1, <1>2, <1>3, <1>4, <1>5, <1>6, <1>7

LEMMA SucceedKeepsInv ==
    ASSUME MFAIInv, NEW a \in Attempt, Succeed(a)
    PROVE  MFAIInv'
<1> USE DEF MFAIInv, Succeed, Record, Goto
<1>1. TypeOK'
  BY DEF TypeOK
<1>a. \A k : Counted(k)' \subseteq Counted(k)
  BY DEF TypeOK, Counted, ReadsHold
<1>2. AttemptsWithinLimit'
  BY <1>a, FewerCount
<1>3. FailuresLock'
  <2>1. Heeded' \subseteq Heeded
    BY DEF TypeOK, ReadsHold, Heeded, Failed, Checking
  <2>2. QED
    BY <2>1, FewerHeeded
<1>4. EnrolledWithAMethod'
  BY DEF TypeOK, EnrolledWithAMethod, RowLockHeld, ReadsHold
<1>5. ExemptionEndsAtEnrollment'
  BY DEF TypeOK, ExemptionEndsAtEnrollment, RowLockHeld, ReadsHold
<1>6. RowLockHeld'
  BY DEF TypeOK, RowLockHeld
<1>7. ReadsHold'
  <2>1. \A b \in Attempt : at'[b] \in {"begun", "counted"} => ~locked' /\ row'[b] = "none"
    BY DEF TypeOK, ReadsHold
  <2>2. ASSUME NEW b \in Attempt, at'[b] = "counted"
        PROVE  Cardinality(Counted(KindOf[b])') <= count'[b]
    <3>1. Cardinality(Counted(KindOf[b])) <= count[b] /\ count'[b] = count[b] /\ count[b] \in Nat
      BY <2>2 DEF TypeOK, ReadsHold
    <3>2. /\ Cardinality(Counted(KindOf[b])') <= Cardinality(Counted(KindOf[b]))
          /\ Cardinality(Counted(KindOf[b])') \in Nat /\ Cardinality(Counted(KindOf[b])) \in Nat
      BY <1>a, FewerCount, SetsOfAttempts, Smaller
    <3>3. QED
      BY <3>1, <3>2
  <2>3. \A b \in Attempt : at'[b] = "reserved" => row'[b] \in {"none", "in_progress"}
    BY DEF TypeOK, ReadsHold
  <2>4. \A m \in Method :
          change'[m] = "read" => was'[m] = enrolled' /\ left'[m] = (confirmed' \ {m} # {})
    BY DEF ReadsHold
  <2>5. QED
    BY <2>1, <2>2, <2>3, <2>4 DEF ReadsHold
<1>8. QED
  BY <1>1, <1>2, <1>3, <1>4, <1>5, <1>6, <1>7

LEMMA FailKeepsInv ==
    ASSUME MFAIInv, NEW a \in Attempt, Fail(a)
    PROVE  MFAIInv'
<1> USE DEF MFAIInv, Fail, Record, Goto
<1>1. TypeOK'
  BY DEF TypeOK
<1>a. \A k : Counted(k)' \subseteq Counted(k)
  BY DEF TypeOK, Counted, ReadsHold
<1>2. AttemptsWithinLimit'
  BY <1>a, FewerCount
<1>3. FailuresLock'
  <2>1. Heeded' \subseteq Heeded
    BY DEF TypeOK, ReadsHold, Heeded, Failed, Checking
  <2>2. QED
    BY <2>1, FewerHeeded
<1>4. EnrolledWithAMethod'
  BY DEF TypeOK, EnrolledWithAMethod, RowLockHeld, ReadsHold
<1>5. ExemptionEndsAtEnrollment'
  BY DEF TypeOK, ExemptionEndsAtEnrollment, RowLockHeld, ReadsHold
<1>6. RowLockHeld'
  BY DEF TypeOK, RowLockHeld
<1>7. ReadsHold'
  <2>1. \A b \in Attempt : at'[b] \in {"begun", "counted"} => ~locked' /\ row'[b] = "none"
    BY DEF TypeOK, ReadsHold
  <2>2. ASSUME NEW b \in Attempt, at'[b] = "counted"
        PROVE  Cardinality(Counted(KindOf[b])') <= count'[b]
    <3>1. Cardinality(Counted(KindOf[b])) <= count[b] /\ count'[b] = count[b] /\ count[b] \in Nat
      BY <2>2 DEF TypeOK, ReadsHold
    <3>2. /\ Cardinality(Counted(KindOf[b])') <= Cardinality(Counted(KindOf[b]))
          /\ Cardinality(Counted(KindOf[b])') \in Nat /\ Cardinality(Counted(KindOf[b])) \in Nat
      BY <1>a, FewerCount, SetsOfAttempts, Smaller
    <3>3. QED
      BY <3>1, <3>2
  <2>3. \A b \in Attempt : at'[b] = "reserved" => row'[b] \in {"none", "in_progress"}
    BY DEF TypeOK, ReadsHold
  <2>4. \A m \in Method :
          change'[m] = "read" => was'[m] = enrolled' /\ left'[m] = (confirmed' \ {m} # {})
    BY DEF ReadsHold
  <2>5. QED
    BY <2>1, <2>2, <2>3, <2>4 DEF ReadsHold
<1>8. QED
  BY <1>1, <1>2, <1>3, <1>4, <1>5, <1>6, <1>7

LEMMA ErrKeepsInv ==
    ASSUME MFAIInv, NEW a \in Attempt, Err(a)
    PROVE  MFAIInv'
<1> USE DEF MFAIInv, Err, Record, Goto
<1>1. TypeOK'
  BY DEF TypeOK
<1>a. \A k : Counted(k)' \subseteq Counted(k)
  BY DEF TypeOK, Counted, ReadsHold
<1>2. AttemptsWithinLimit'
  BY <1>a, FewerCount
<1>3. FailuresLock'
  <2>1. Heeded' \subseteq Heeded
    BY DEF TypeOK, ReadsHold, Heeded, Failed, Checking
  <2>2. QED
    BY <2>1, FewerHeeded
<1>4. EnrolledWithAMethod'
  BY DEF TypeOK, EnrolledWithAMethod, RowLockHeld, ReadsHold
<1>5. ExemptionEndsAtEnrollment'
  BY DEF TypeOK, ExemptionEndsAtEnrollment, RowLockHeld, ReadsHold
<1>6. RowLockHeld'
  BY DEF TypeOK, RowLockHeld
<1>7. ReadsHold'
  <2>1. \A b \in Attempt : at'[b] \in {"begun", "counted"} => ~locked' /\ row'[b] = "none"
    BY DEF TypeOK, ReadsHold
  <2>2. ASSUME NEW b \in Attempt, at'[b] = "counted"
        PROVE  Cardinality(Counted(KindOf[b])') <= count'[b]
    <3>1. Cardinality(Counted(KindOf[b])) <= count[b] /\ count'[b] = count[b] /\ count[b] \in Nat
      BY <2>2 DEF TypeOK, ReadsHold
    <3>2. /\ Cardinality(Counted(KindOf[b])') <= Cardinality(Counted(KindOf[b]))
          /\ Cardinality(Counted(KindOf[b])') \in Nat /\ Cardinality(Counted(KindOf[b])) \in Nat
      BY <1>a, FewerCount, SetsOfAttempts, Smaller
    <3>3. QED
      BY <3>1, <3>2
  <2>3. \A b \in Attempt : at'[b] = "reserved" => row'[b] \in {"none", "in_progress"}
    BY DEF TypeOK, ReadsHold
  <2>4. \A m \in Method :
          change'[m] = "read" => was'[m] = enrolled' /\ left'[m] = (confirmed' \ {m} # {})
    BY DEF ReadsHold
  <2>5. QED
    BY <2>1, <2>2, <2>3, <2>4 DEF ReadsHold
<1>8. QED
  BY <1>1, <1>2, <1>3, <1>4, <1>5, <1>6, <1>7

LEMMA CountFailedKeepsInv ==
    ASSUME MFAIInv, NEW a \in Attempt, CountFailed(a)
    PROVE  MFAIInv'
<1> USE DEF MFAIInv, CountFailed, Goto
<1>1. TypeOK'
  BY DEF TypeOK
<1>a. (\A k : Counted(k)' = Counted(k)) /\ Failed' = Failed
  BY DEF Counted, Failed
<1>2. AttemptsWithinLimit'
  BY <1>a, FewerCount
<1>3. FailuresLock'
  <2>1. CASE Cardinality(Failed) < LockLimit
    <3>1. Cardinality(Heeded') <= Cardinality(Failed) /\ Cardinality(Heeded') \in Nat
      <4>1. Heeded' \subseteq Failed
        BY <1>a DEF Heeded
      <4>2. QED
        BY <4>1, SetsOfAttempts, Smaller
    <3>2. QED
      BY <2>1, <3>1, SetsOfAttempts DEF FailuresLock, Heeded
  <2>2. CASE ~(Cardinality(Failed) < LockLimit)
    <3>1. Heeded' \subseteq Heeded
      BY <1>a, <2>2 DEF TypeOK, Heeded, Checking
    <3>2. QED
      BY <3>1, FewerHeeded
  <2>3. QED
    BY <2>1, <2>2
<1>4. EnrolledWithAMethod'
  BY DEF TypeOK, EnrolledWithAMethod, RowLockHeld, ReadsHold
<1>5. ExemptionEndsAtEnrollment'
  BY DEF TypeOK, ExemptionEndsAtEnrollment, RowLockHeld, ReadsHold
<1>6. RowLockHeld'
  BY DEF TypeOK, RowLockHeld
<1>7. ReadsHold'
  BY <1>a, FewerCount, SetsOfAttempts DEF TypeOK, ReadsHold, RowLockHeld
<1>8. QED
  BY <1>1, <1>2, <1>3, <1>4, <1>5, <1>6, <1>7

LEMMA AutoLockKeepsInv ==
    ASSUME MFAIInv, NEW a \in Attempt, AutoLock(a)
    PROVE  MFAIInv'
<1> USE DEF MFAIInv, AutoLock, LockUser, RowFree, Goto
<1>1. TypeOK'
  BY DEF TypeOK
<1>a. (\A k : Counted(k)' = Counted(k)) /\ Failed' = Failed
  BY DEF Counted, Failed
<1>2. AttemptsWithinLimit'
  BY <1>a, FewerCount
<1>3. FailuresLock'
  BY DEF FailuresLock
<1>4. EnrolledWithAMethod'
  BY DEF TypeOK, EnrolledWithAMethod, RowLockHeld, ReadsHold
<1>5. ExemptionEndsAtEnrollment'
  BY DEF TypeOK, ExemptionEndsAtEnrollment, RowLockHeld, ReadsHold
<1>6. RowLockHeld'
  BY DEF TypeOK, RowLockHeld
<1>7. ReadsHold'
  BY <1>a, FewerCount, SetsOfAttempts DEF TypeOK, ReadsHold, RowLockHeld
<1>8. QED
  BY <1>1, <1>2, <1>3, <1>4, <1>5, <1>6, <1>7

LEMMA DieKeepsInv ==
    ASSUME MFAIInv, NEW a \in Attempt, Die(a)
    PROVE  MFAIInv'
<1> USE DEF MFAIInv, Die, Release, Goto
<1>1. TypeOK'
  BY DEF TypeOK
<1>a. (\A k : Counted(k)' = Counted(k)) /\ Failed' = Failed
  BY DEF Counted, Failed
<1>2. AttemptsWithinLimit'
  BY <1>a, FewerCount
<1>3. FailuresLock'
  <2>1. Heeded' \subseteq Heeded
    BY <1>a DEF TypeOK, ReadsHold, Heeded, Failed, Checking
  <2>2. QED
    BY <2>1, FewerHeeded
<1>4. EnrolledWithAMethod'
  BY DEF TypeOK, EnrolledWithAMethod, RowLockHeld, ReadsHold
<1>5. ExemptionEndsAtEnrollment'
  BY DEF TypeOK, ExemptionEndsAtEnrollment, RowLockHeld, ReadsHold
<1>6. RowLockHeld'
  BY DEF TypeOK, RowLockHeld
<1>7. ReadsHold'
  BY <1>a, FewerCount, SetsOfAttempts DEF TypeOK, ReadsHold, RowLockHeld
<1>8. QED
  BY <1>1, <1>2, <1>3, <1>4, <1>5, <1>6, <1>7

LEMMA PassTimeKeepsInv ==
    ASSUME MFAIInv, NEW a \in Attempt, PassTime(a)
    PROVE  MFAIInv'
<1> USE DEF MFAIInv, PassTime
<1>1. TypeOK'
  BY DEF TypeOK
<1>a. \A k : Counted(k)' \subseteq Counted(k)
  BY DEF TypeOK, Counted, ReadsHold
<1>2. AttemptsWithinLimit'
  BY <1>a, FewerCount
<1>3. FailuresLock'
  <2>1. Heeded' \subseteq Heeded
    BY DEF TypeOK, ReadsHold, Heeded, Failed, Checking
  <2>2. QED
    BY <2>1, FewerHeeded
<1>4. EnrolledWithAMethod'
  BY DEF TypeOK, EnrolledWithAMethod, RowLockHeld, ReadsHold
<1>5. ExemptionEndsAtEnrollment'
  BY DEF TypeOK, ExemptionEndsAtEnrollment, RowLockHeld, ReadsHold
<1>6. RowLockHeld'
  BY DEF TypeOK, RowLockHeld
<1>7. ReadsHold'
  <2>1. \A b \in Attempt : at'[b] \in {"begun", "counted"} => ~locked' /\ row'[b] = "none"
    BY DEF TypeOK, ReadsHold
  <2>2. ASSUME NEW b \in Attempt, at'[b] = "counted"
        PROVE  Cardinality(Counted(KindOf[b])') <= count'[b]
    <3>1. Cardinality(Counted(KindOf[b])) <= count[b] /\ count'[b] = count[b] /\ count[b] \in Nat
      BY <2>2 DEF TypeOK, ReadsHold
    <3>2. /\ Cardinality(Counted(KindOf[b])') <= Cardinality(Counted(KindOf[b]))
          /\ Cardinality(Counted(KindOf[b])') \in Nat /\ Cardinality(Counted(KindOf[b])) \in Nat
      BY <1>a, FewerCount, SetsOfAttempts, Smaller
    <3>3. QED
      BY <3>1, <3>2
  <2>3. \A b \in Attempt : at'[b] = "reserved" => row'[b] \in {"none", "in_progress"}
    BY DEF TypeOK, ReadsHold
  <2>4. \A m \in Method :
          change'[m] = "read" => was'[m] = enrolled' /\ left'[m] = (confirmed' \ {m} # {})
    BY DEF ReadsHold
  <2>5. QED
    BY <2>1, <2>2, <2>3, <2>4 DEF ReadsHold
<1>8. QED
  BY <1>1, <1>2, <1>3, <1>4, <1>5, <1>6, <1>7

LEMMA AdminLockKeepsInv ==
    ASSUME MFAIInv, AdminLock
    PROVE  MFAIInv'
<1> USE DEF MFAIInv, AdminLock, LockUser, RowFree
<1>1. TypeOK'
  BY DEF TypeOK
<1>a. (\A k : Counted(k)' = Counted(k)) /\ Failed' = Failed
  BY DEF Counted, Failed
<1>2. AttemptsWithinLimit'
  BY <1>a, FewerCount
<1>3. FailuresLock'
  BY DEF FailuresLock
<1>4. EnrolledWithAMethod'
  BY DEF TypeOK, EnrolledWithAMethod, RowLockHeld, ReadsHold
<1>5. ExemptionEndsAtEnrollment'
  BY DEF TypeOK, ExemptionEndsAtEnrollment, RowLockHeld, ReadsHold
<1>6. RowLockHeld'
  BY DEF TypeOK, RowLockHeld
<1>7. ReadsHold'
  BY <1>a, FewerCount, SetsOfAttempts DEF TypeOK, ReadsHold, RowLockHeld
<1>8. QED
  BY <1>1, <1>2, <1>3, <1>4, <1>5, <1>6, <1>7

LEMMA UnlockKeepsInv ==
    ASSUME MFAIInv, Unlock
    PROVE  MFAIInv'
<1> USE DEF MFAIInv, Unlock, RowFree
<1>1. TypeOK'
  BY SetsOfAttempts DEF TypeOK
<1>a. (\A k : Counted(k)' = Counted(k)) /\ Failed' = Failed
  BY DEF Counted, Failed
<1>2. AttemptsWithinLimit'
  BY <1>a, FewerCount
<1>3. FailuresLock'
  <2>1. (Failed \ (excused \cup Checking))' = {}
    BY <1>a
  <2>2. QED
    BY <2>1, FS_EmptySet DEF FailuresLock
<1>4. EnrolledWithAMethod'
  BY DEF TypeOK, EnrolledWithAMethod, RowLockHeld, ReadsHold
<1>5. ExemptionEndsAtEnrollment'
  BY DEF TypeOK, ExemptionEndsAtEnrollment, RowLockHeld, ReadsHold
<1>6. RowLockHeld'
  BY DEF TypeOK, RowLockHeld
<1>7. ReadsHold'
  BY <1>a, FewerCount, SetsOfAttempts DEF TypeOK, ReadsHold, RowLockHeld
<1>8. QED
  BY <1>1, <1>2, <1>3, <1>4, <1>5, <1>6, <1>7

LEMMA BeginChangeKeepsInv ==
    ASSUME MFAIInv, NEW m \in Method, BeginChange(m)
    PROVE  MFAIInv'
<1> USE DEF MFAIInv, BeginChange, LockRow, RowFree, Step
<1>1. TypeOK'
  BY DEF TypeOK
<1>a. (\A k : Counted(k)' = Counted(k)) /\ Failed' = Failed
  BY DEF Counted, Failed
<1>2. AttemptsWithinLimit'
  BY <1>a, FewerCount
<1>3. FailuresLock'
  <2>1. Heeded' \subseteq Heeded
    BY <1>a DEF TypeOK, ReadsHold, Heeded, Failed, Checking
  <2>2. QED
    BY <2>1, FewerHeeded
<1>4. EnrolledWithAMethod'
  BY DEF TypeOK, EnrolledWithAMethod, RowLockHeld, ReadsHold
<1>5. ExemptionEndsAtEnrollment'
  BY DEF TypeOK, ExemptionEndsAtEnrollment, RowLockHeld, ReadsHold
<1>6. RowLockHeld'
  BY DEF TypeOK, RowLockHeld
<1>7. ReadsHold'
  BY <1>a, FewerCount, SetsOfAttempts DEF TypeOK, ReadsHold, RowLockHeld
<1>8. QED
  BY <1>1, <1>2, <1>3, <1>4, <1>5, <1>6, <1>7

LEMMA ReadFactorsKeepsInv ==
    ASSUME MFAIInv, NEW m \in Method, ReadFactors(m)
    PROVE  MFAIInv'
<1> USE DEF MFAIInv, ReadFactors, Step
<1>1. TypeOK'
  BY DEF TypeOK
<1>a. (\A k : Counted(k)' = Counted(k)) /\ Failed' = Failed
  BY DEF Counted, Failed
<1>2. AttemptsWithinLimit'
  BY <1>a, FewerCount
<1>3. FailuresLock'
  <2>1. Heeded' \subseteq Heeded
    BY <1>a DEF TypeOK, ReadsHold, Heeded, Failed, Checking
  <2>2. QED
    BY <2>1, FewerHeeded
<1>4. EnrolledWithAMethod'
  BY DEF TypeOK, EnrolledWithAMethod, RowLockHeld, ReadsHold
<1>5. ExemptionEndsAtEnrollment'
  BY DEF TypeOK, ExemptionEndsAtEnrollment, RowLockHeld, ReadsHold
<1>6. RowLockHeld'
  BY DEF TypeOK, RowLockHeld
<1>7. ReadsHold'
  BY <1>a, FewerCount, SetsOfAttempts DEF TypeOK, ReadsHold, RowLockHeld
<1>8. QED
  BY <1>1, <1>2, <1>3, <1>4, <1>5, <1>6, <1>7

LEMMA FinalizeMFAEnrollmentKeepsInv ==
    ASSUME MFAIInv, NEW m \in Method, FinalizeMFAEnrollment(m)
    PROVE  MFAIInv'
<1> USE DEF MFAIInv, FinalizeMFAEnrollment, EndChange, Release, Step
<1>1. TypeOK'
  BY DEF TypeOK
<1>a. (\A k : Counted(k)' = Counted(k)) /\ Failed' = Failed
  BY DEF Counted, Failed
<1>2. AttemptsWithinLimit'
  BY <1>a, FewerCount
<1>3. FailuresLock'
  <2>1. Heeded' \subseteq Heeded
    BY <1>a DEF TypeOK, ReadsHold, Heeded, Failed, Checking
  <2>2. QED
    BY <2>1, FewerHeeded
<1>4. EnrolledWithAMethod'
  BY DEF TypeOK, EnrolledWithAMethod, RowLockHeld, ReadsHold
<1>5. ExemptionEndsAtEnrollment'
  BY DEF TypeOK, ExemptionEndsAtEnrollment, RowLockHeld, ReadsHold
<1>6. RowLockHeld'
  BY DEF TypeOK, RowLockHeld
<1>7. ReadsHold'
  <2>1. \A n \in Method : change'[n] = "idle"
    BY DEF TypeOK, RowLockHeld
  <2>2. QED
    BY <1>a, <2>1 DEF ReadsHold
<1>8. QED
  BY <1>1, <1>2, <1>3, <1>4, <1>5, <1>6, <1>7

LEMMA DeleteUserMFAMethodKeepsInv ==
    ASSUME MFAIInv, NEW m \in Method, DeleteUserMFAMethod(m)
    PROVE  MFAIInv'
<1> USE DEF MFAIInv, DeleteUserMFAMethod, EndChange, Release, Step
<1>1. TypeOK'
  BY DEF TypeOK
<1>a. (\A k : Counted(k)' = Counted(k)) /\ Failed' = Failed
  BY DEF Counted, Failed
<1>2. AttemptsWithinLimit'
  BY <1>a, FewerCount
<1>3. FailuresLock'
  <2>1. Heeded' \subseteq Heeded
    BY <1>a DEF TypeOK, ReadsHold, Heeded, Failed, Checking
  <2>2. QED
    BY <2>1, FewerHeeded
<1>4. EnrolledWithAMethod'
  BY DEF TypeOK, EnrolledWithAMethod, RowLockHeld, ReadsHold
<1>5. ExemptionEndsAtEnrollment'
  BY DEF TypeOK, ExemptionEndsAtEnrollment, RowLockHeld, ReadsHold
<1>6. RowLockHeld'
  BY DEF TypeOK, RowLockHeld
<1>7. ReadsHold'
  <2>1. \A n \in Method : change'[n] = "idle"
    BY DEF TypeOK, RowLockHeld
  <2>2. QED
    BY <1>a, <2>1 DEF ReadsHold
<1>8. QED
  BY <1>1, <1>2, <1>3, <1>4, <1>5, <1>6, <1>7

LEMMA AbortChangeKeepsInv ==
    ASSUME MFAIInv, NEW m \in Method, AbortChange(m)
    PROVE  MFAIInv'
<1> USE DEF MFAIInv, AbortChange, EndChange, Release, Step
<1>1. TypeOK'
  BY DEF TypeOK
<1>a. (\A k : Counted(k)' = Counted(k)) /\ Failed' = Failed
  BY DEF Counted, Failed
<1>2. AttemptsWithinLimit'
  BY <1>a, FewerCount
<1>3. FailuresLock'
  <2>1. Heeded' \subseteq Heeded
    BY <1>a DEF TypeOK, ReadsHold, Heeded, Failed, Checking
  <2>2. QED
    BY <2>1, FewerHeeded
<1>4. EnrolledWithAMethod'
  BY DEF TypeOK, EnrolledWithAMethod, RowLockHeld, ReadsHold
<1>5. ExemptionEndsAtEnrollment'
  BY DEF TypeOK, ExemptionEndsAtEnrollment, RowLockHeld, ReadsHold
<1>6. RowLockHeld'
  BY DEF TypeOK, RowLockHeld
<1>7. ReadsHold'
  BY <1>a, FewerCount, SetsOfAttempts DEF TypeOK, ReadsHold, RowLockHeld
<1>8. QED
  BY <1>1, <1>2, <1>3, <1>4, <1>5, <1>6, <1>7

LEMMA SignInKeepsInv ==
    ASSUME MFAIInv, NEW s \in Session, SignIn(s)
    PROVE  MFAIInv'
<1> USE DEF MFAIInv, SignIn
<1>1. TypeOK'
  BY DEF TypeOK
<1>a. (\A k : Counted(k)' = Counted(k)) /\ Failed' = Failed
  BY DEF Counted, Failed
<1>2. AttemptsWithinLimit'
  BY <1>a, FewerCount
<1>3. FailuresLock'
  <2>1. Heeded' \subseteq Heeded
    BY <1>a DEF TypeOK, ReadsHold, Heeded, Failed, Checking
  <2>2. QED
    BY <2>1, FewerHeeded
<1>4. EnrolledWithAMethod'
  BY DEF TypeOK, EnrolledWithAMethod, RowLockHeld, ReadsHold
<1>5. ExemptionEndsAtEnrollment'
  BY DEF TypeOK, ExemptionEndsAtEnrollment, RowLockHeld, ReadsHold
<1>6. RowLockHeld'
  BY DEF TypeOK, RowLockHeld
<1>7. ReadsHold'
  BY <1>a, FewerCount, SetsOfAttempts DEF TypeOK, ReadsHold, RowLockHeld
<1>8. QED
  BY <1>1, <1>2, <1>3, <1>4, <1>5, <1>6, <1>7

LEMMA ShareKeepsInv ==
    ASSUME MFAIInv, NEW s \in Session, Share(s)
    PROVE  MFAIInv'
<1> USE DEF MFAIInv, Share
<1>1. TypeOK'
  BY DEF TypeOK
<1>a. (\A k : Counted(k)' = Counted(k)) /\ Failed' = Failed
  BY DEF Counted, Failed
<1>2. AttemptsWithinLimit'
  BY <1>a, FewerCount
<1>3. FailuresLock'
  <2>1. Heeded' \subseteq Heeded
    BY <1>a DEF TypeOK, ReadsHold, Heeded, Failed, Checking
  <2>2. QED
    BY <2>1, FewerHeeded
<1>4. EnrolledWithAMethod'
  BY DEF TypeOK, EnrolledWithAMethod, RowLockHeld, ReadsHold
<1>5. ExemptionEndsAtEnrollment'
  BY DEF TypeOK, ExemptionEndsAtEnrollment, RowLockHeld, ReadsHold
<1>6. RowLockHeld'
  BY DEF TypeOK, RowLockHeld
<1>7. ReadsHold'
  BY <1>a, FewerCount, SetsOfAttempts DEF TypeOK, ReadsHold, RowLockHeld
<1>8. QED
  BY <1>1, <1>2, <1>3, <1>4, <1>5, <1>6, <1>7

LEMMA ExemptKeepsInv ==
    ASSUME MFAIInv, NEW s \in Session, Exempt(s)
    PROVE  MFAIInv'
<1> USE DEF MFAIInv, Exempt
<1>1. TypeOK'
  BY DEF TypeOK
<1>a. (\A k : Counted(k)' = Counted(k)) /\ Failed' = Failed
  BY DEF Counted, Failed
<1>2. AttemptsWithinLimit'
  BY <1>a, FewerCount
<1>3. FailuresLock'
  <2>1. Heeded' \subseteq Heeded
    BY <1>a DEF TypeOK, ReadsHold, Heeded, Failed, Checking
  <2>2. QED
    BY <2>1, FewerHeeded
<1>4. EnrolledWithAMethod'
  BY DEF TypeOK, EnrolledWithAMethod, RowLockHeld, ReadsHold
<1>5. ExemptionEndsAtEnrollment'
  BY DEF TypeOK, ExemptionEndsAtEnrollment, RowLockHeld, ReadsHold
<1>6. RowLockHeld'
  BY DEF TypeOK, RowLockHeld
<1>7. ReadsHold'
  BY <1>a, FewerCount, SetsOfAttempts DEF TypeOK, ReadsHold, RowLockHeld
<1>8. QED
  BY <1>1, <1>2, <1>3, <1>4, <1>5, <1>6, <1>7

LEMMA SignOutKeepsInv ==
    ASSUME MFAIInv, NEW s \in Session, SignOut(s)
    PROVE  MFAIInv'
<1> USE DEF MFAIInv, SignOut
<1>1. TypeOK'
  BY DEF TypeOK
<1>a. (\A k : Counted(k)' = Counted(k)) /\ Failed' = Failed
  BY DEF Counted, Failed
<1>2. AttemptsWithinLimit'
  BY <1>a, FewerCount
<1>3. FailuresLock'
  <2>1. Heeded' \subseteq Heeded
    BY <1>a DEF TypeOK, ReadsHold, Heeded, Failed, Checking
  <2>2. QED
    BY <2>1, FewerHeeded
<1>4. EnrolledWithAMethod'
  BY DEF TypeOK, EnrolledWithAMethod, RowLockHeld, ReadsHold
<1>5. ExemptionEndsAtEnrollment'
  BY DEF TypeOK, ExemptionEndsAtEnrollment, RowLockHeld, ReadsHold
<1>6. RowLockHeld'
  BY DEF TypeOK, RowLockHeld
<1>7. ReadsHold'
  BY <1>a, FewerCount, SetsOfAttempts DEF TypeOK, ReadsHold, RowLockHeld
<1>8. QED
  BY <1>1, <1>2, <1>3, <1>4, <1>5, <1>6, <1>7

THEOREM StepKeepsInv == MFAIInv /\ [Next]_vars => MFAIInv'
<1> SUFFICES ASSUME MFAIInv, [Next]_vars PROVE MFAIInv'
  OBVIOUS
<1>1. ASSUME NEW a \in Attempt, AttemptNext(a) PROVE MFAIInv'
  BY <1>1, BeginKeepsInv, CountAttemptsKeepsInv, LogAttemptKeepsInv, SucceedKeepsInv,
     FailKeepsInv, ErrKeepsInv, CountFailedKeepsInv, AutoLockKeepsInv, DieKeepsInv,
     PassTimeKeepsInv DEF AttemptNext
<1>2. ASSUME NEW m \in Method, MethodNext(m) PROVE MFAIInv'
  BY <1>2, BeginChangeKeepsInv, ReadFactorsKeepsInv, FinalizeMFAEnrollmentKeepsInv,
     DeleteUserMFAMethodKeepsInv, AbortChangeKeepsInv DEF MethodNext
<1>3. ASSUME NEW s \in Session, SessionNext(s) PROVE MFAIInv'
  BY <1>3, SignInKeepsInv, ShareKeepsInv, ExemptKeepsInv, SignOutKeepsInv DEF SessionNext
<1>4. CASE UNCHANGED vars
  <2>1. (\A k : Counted(k)' = Counted(k)) /\ Failed' = Failed /\ Checking' = Checking
    BY <1>4 DEF vars, Counted, Failed, Checking
  <2>2. QED
    BY <1>4, <2>1 DEF vars, MFAIInv, TypeOK, AttemptsWithinLimit, FailuresLock,
       EnrolledWithAMethod, ExemptionEndsAtEnrollment, RowLockHeld, ReadsHold
<1>5. QED
  BY <1>1, <1>2, <1>3, <1>4, AdminLockKeepsInv, UnlockKeepsInv DEF Next

\* The invariant of MFA holds in every run.
THEOREM MFASafe == Spec => []MFAIInv
<1>1. QED
  BY InitHasInv, StepKeepsInv, PTL DEF Spec

\* Concurrent attempts don't pass the limit together.
THEOREM AttemptsAreLimited == Spec => []AttemptsWithinLimit
<1>1. MFAIInv => AttemptsWithinLimit
  BY DEF MFAIInv
<1>2. QED
  BY <1>1, MFASafe, PTL

\* No number of concurrent failures escapes the automatic lock.
THEOREM FailuresLockTheUser == Spec => []FailuresLock
<1>1. MFAIInv => FailuresLock
  BY DEF MFAIInv
<1>2. QED
  BY <1>1, MFASafe, PTL

\* No sign-in is exempt once its user has a factor.
THEOREM ExemptionsEnd == Spec => []ExemptionEndsAtEnrollment
<1>1. MFAIInv => ExemptionEndsAtEnrollment
  BY DEF MFAIInv
<1>2. QED
  BY <1>1, MFASafe, PTL
\* mfa_enrolled follows the user's confirmed methods.
THEOREM EnrolledHasAMethod == Spec => []EnrolledWithAMethod
<1>1. MFAIInv => EnrolledWithAMethod
  BY DEF MFAIInv
<1>2. QED
  BY <1>1, MFASafe, PTL
=============================================================================
