--------------------------------- MODULE MFA ---------------------------------
(***************************************************************************)
(* MFA of one user: attempts with a factor, the automatic lock after too   *)
(* many failures, and the enrollment of factors, while sign-ins of a user  *)
(* who has none are exempt from the challenge.                             *)
(*                                                                         *)
(* All of them go through the user's row: attempts and changes of factors  *)
(* lock it FOR UPDATE, an exemption locks it FOR SHARE, and a row that was *)
(* waited for is read as it is then.  A request may die at any point, and  *)
(* recording an attempt's outcome may fail: the code goes on.  A row of an *)
(* attempt matters while it is in the window the code counts in; an        *)
(* attempt outside of it may be made anew.                                 *)
(***************************************************************************)
EXTENDS Naturals, FiniteSets

CONSTANTS
    Attempt,   \* requests that verify a factor
    Kind,      \* the kinds of factor that are counted apart: codes and security keys
    KindOf,    \* [Attempt -> Kind]
    Method,    \* MFA methods
    Session,   \* sign-ins, each with the session it creates
    Limit,     \* attemptLimit
    LockLimit, \* autoLockAttempts
    None       \* no transaction

ASSUME ConstantsAssumption ==
    /\ IsFiniteSet(Attempt)
    /\ KindOf \in [Attempt -> Kind]
    /\ Limit \in Nat /\ LockLimit \in Nat \ {0}
    /\ None \notin Attempt \cup Method
    /\ Attempt \cap Method = {}

VARIABLES
    at,        \* [Attempt -> ...]: what each attempt did last
    count,     \* [Attempt -> Nat]: the recent attempts it counted
    row,       \* [Attempt -> ...]: its row in mfa_attempts, "none" when there is none in the window
    locked,    \* whether the user is locked
    excused,   \* history: failed attempts that no check for the automatic lock has to heed
    change,    \* [Method -> ...]: what the change of each method, to or from confirmed, did last
    confirmed, \* the user's confirmed methods
    left,      \* [Method -> BOOLEAN]: whether its deletion found others confirmed
    was,       \* [Method -> BOOLEAN]: whether its confirmation found the user enrolled
    enrolled,  \* mfa_enrolled
    sign,      \* [Session -> ...]: what each sign-in did last
    exempt,    \* the sessions that are MFA-verified without a factor
    rowLock,   \* the attempt or the method's change that holds the user's row FOR UPDATE, or None
    sharers    \* the sign-ins that hold it FOR SHARE

attemptVars == <<at, count, row, locked, excused>>
factorVars == <<change, confirmed, left, was, enrolled>>
sessionVars == <<sign, exempt>>
lockVars == <<rowLock, sharers>>
vars == <<at, count, row, locked, excused, change, confirmed, left, was, enrolled, sign, exempt,
          rowLock, sharers>>

\* The attempts with a kind of factor that count toward its limit: failed or still being verified.
Counted(k) == {a \in Attempt : KindOf[a] = k /\ row[a] \in {"in_progress", "failed"}}

\* The failed attempts of either kind.
Failed == {a \in Attempt : row[a] = "failed"}

\* Those that are recorded and have yet to check for the automatic lock.
Checking == {a \in Attempt : at[a] \in {"failed", "locking"}}

TypeOK ==
    /\ at \in [Attempt -> {"idle", "begun", "counted", "reserved", "failed", "locking"}]
    /\ count \in [Attempt -> Nat]
    /\ row \in [Attempt -> {"none", "in_progress", "rate_limited", "success", "failed"}]
    /\ locked \in BOOLEAN
    /\ excused \subseteq Attempt
    /\ change \in [Method -> {"idle", "begun", "read"}]
    /\ confirmed \subseteq Method
    /\ left \in [Method -> BOOLEAN] /\ was \in [Method -> BOOLEAN]
    /\ enrolled \in BOOLEAN
    /\ sign \in [Session -> {"out", "free", "sharing", "in"}]
    /\ exempt \subseteq Session
    /\ rowLock \in Attempt \cup Method \cup {None}
    /\ sharers \subseteq Session

Init ==
    /\ at = [a \in Attempt |-> "idle"]
    /\ count = [a \in Attempt |-> 0]
    /\ row = [a \in Attempt |-> "none"]
    /\ locked = FALSE
    /\ excused = {}
    /\ change = [m \in Method |-> "idle"]
    /\ confirmed = {}
    /\ left = [m \in Method |-> FALSE] /\ was = [m \in Method |-> FALSE]
    /\ enrolled = FALSE
    /\ sign = [s \in Session |-> "out"]
    /\ exempt = {}
    /\ rowLock = None
    /\ sharers = {}

(***************************************************************************)
(* The user's row                                                          *)
(***************************************************************************)
RowFree == rowLock = None /\ sharers = {}

LockRow(t) ==
    /\ RowFree
    /\ rowLock' = t
    /\ UNCHANGED sharers

Release(t) ==
    /\ rowLock' = IF rowLock = t THEN None ELSE rowLock
    /\ UNCHANGED sharers

(***************************************************************************)
(* An attempt                                                              *)
(***************************************************************************)
Goto(a, s) == at' = [at EXCEPT ![a] = s]

\* Slip: the user's row is read, but not locked (MFAIInv).
BeginUnlocked(a) ==
    /\ at[a] = "idle" /\ row[a] = "none"
    /\ RowFree
    /\ ~locked
    /\ Goto(a, "begun")
    /\ UNCHANGED <<count, row, locked, excused, factorVars, sessionVars, lockVars>>
\* ReserveMFAAttempt locks the user's row, and refuses a user who is locked.
Begin(a) ==
    /\ at[a] = "idle" /\ row[a] = "none"
    /\ ~locked
    /\ LockRow(a)
    /\ Goto(a, "begun")
    /\ UNCHANGED <<count, row, locked, excused, factorVars, sessionVars>>

\* Slip: attempts that are still being verified aren't counted (AttemptsWithinLimit).
CountFinished(a) ==
    /\ at[a] = "begun"
    /\ count' = [count EXCEPT ![a] = Cardinality({f \in Failed : KindOf[f] = KindOf[a]})]
    /\ Goto(a, "counted")
    /\ UNCHANGED <<row, locked, excused, factorVars, sessionVars, lockVars>>
\* It counts the attempts of its kind.
CountAttempts(a) ==
    /\ at[a] = "begun"
    /\ count' = [count EXCEPT ![a] = Cardinality(Counted(KindOf[a]))]
    /\ Goto(a, "counted")
    /\ UNCHANGED <<row, locked, excused, factorVars, sessionVars, lockVars>>

\* It records itself before its factor is checked, or that it was refused, and commits.
LogAttempt(a) ==
    /\ at[a] = "counted"
    /\ IF count[a] < Limit
         THEN row' = [row EXCEPT ![a] = "in_progress"] /\ Goto(a, "reserved")
         ELSE row' = [row EXCEPT ![a] = "rate_limited"] /\ Goto(a, "idle")
    /\ count' = [count EXCEPT ![a] = 0]
    /\ Release(a)
    /\ UNCHANGED <<locked, excused, factorVars, sessionVars>>

\* Finish and Discard: their error is ignored.
Record(a, outcome) ==
    \/ row' = [row EXCEPT ![a] = IF row[a] = "none" THEN "none" ELSE outcome]
    \/ row' = row

\* The factor is right, or the attempt couldn't have verified anything.
Succeed(a) ==
    /\ at[a] = "reserved"
    /\ Record(a, "success") \/ Record(a, "none")
    /\ Goto(a, "idle")
    /\ UNCHANGED <<count, locked, excused, factorVars, sessionVars, lockVars>>

\* The code is wrong or was used before, or the key's assertion isn't valid.
Fail(a) ==
    /\ at[a] = "reserved"
    /\ Record(a, "failed")
    /\ Goto(a, "failed")
    /\ UNCHANGED <<count, locked, excused, factorVars, sessionVars, lockVars>>

\* The attempt ends with an error, which is recorded as a failure without a check for the lock.
Err(a) ==
    /\ at[a] = "reserved"
    /\ Record(a, "failed")
    /\ Goto(a, "idle")
    /\ excused' = excused \cup {a}
    /\ UNCHANGED <<count, locked, factorVars, sessionVars, lockVars>>

\* Slip: only the failures with the attempt's own kind of factor are counted (FailuresLock).
CountFailedOfKind(a) ==
    /\ at[a] = "failed"
    /\ Goto(a, IF Cardinality({f \in Failed : KindOf[f] = KindOf[a]}) < LockLimit
                 THEN "idle" ELSE "locking")
    /\ UNCHANGED <<count, row, locked, excused, factorVars, sessionVars, lockVars>>
\* checkAndLockAccount counts after the failure is recorded.
CountFailed(a) ==
    /\ at[a] = "failed"
    /\ Goto(a, IF Cardinality(Failed) < LockLimit THEN "idle" ELSE "locking")
    /\ UNCHANGED <<count, row, locked, excused, factorVars, sessionVars, lockVars>>

\* LockUserAudited, in a transaction of its own, revokes the user's sessions.
LockUser ==
    /\ RowFree
    /\ locked' = TRUE
    /\ sign' = [s \in Session |-> "out"]
    /\ exempt' = {}

AutoLock(a) ==
    /\ at[a] = "locking"
    /\ LockUser
    /\ Goto(a, "idle")
    /\ UNCHANGED <<count, row, excused, factorVars, lockVars>>

\* An admin locks the user.
AdminLock ==
    /\ ~locked
    /\ LockUser
    /\ UNCHANGED <<at, count, row, excused, factorVars, lockVars>>

\* The gateway stops, or the database fails: what isn't committed is rolled back.
Die(a) ==
    /\ at[a] # "idle"
    /\ Goto(a, "idle")
    /\ count' = [count EXCEPT ![a] = 0]
    /\ excused' = IF a \in Checking THEN excused \cup {a} ELSE excused
    /\ Release(a)
    /\ UNCHANGED <<row, locked, factorVars, sessionVars>>

\* The attempt leaves the window.
PassTime(a) ==
    /\ row[a] # "none"
    /\ row' = [row EXCEPT ![a] = "none"]
    /\ excused' = excused \ {a}
    /\ UNCHANGED <<at, count, locked, factorVars, sessionVars, lockVars>>

\* An admin unlocks the user: the failures so far don't lock them again by themselves.
Unlock ==
    /\ locked
    /\ RowFree
    /\ locked' = FALSE
    /\ excused' = excused \cup Failed
    /\ UNCHANGED <<at, count, row, factorVars, sessionVars, lockVars>>

AttemptNext(a) ==
    \/ Begin(a)
    \/ CountAttempts(a)
    \/ LogAttempt(a)
    \/ Succeed(a)
    \/ Fail(a)
    \/ Err(a)
    \/ CountFailed(a)
    \/ AutoLock(a)
    \/ Die(a)
    \/ PassTime(a)

(***************************************************************************)
(* Factors                                                                 *)
(***************************************************************************)
Step(m, s) == change' = [change EXCEPT ![m] = s]

\* Slip: a method's change doesn't lock the user's row (EnrolledWithAMethod).
BeginChangeUnlocked(m) ==
    /\ change[m] = "idle"
    /\ Step(m, "begun")
    /\ UNCHANGED <<confirmed, left, was, enrolled, attemptVars, sessionVars, lockVars>>
\* FinalizeMFAEnrollment of a method that isn't confirmed, or DeleteUserMFAMethod of one that is.
BeginChange(m) ==
    /\ change[m] = "idle"
    /\ LockRow(m)
    /\ Step(m, "begun")
    /\ UNCHANGED <<confirmed, left, was, enrolled, attemptVars, sessionVars>>

\* A confirmation reads mfa_enrolled, a deletion counts the confirmed methods that remain.
ReadFactors(m) ==
    /\ change[m] = "begun"
    /\ was' = [was EXCEPT ![m] = enrolled]
    /\ left' = [left EXCEPT ![m] = confirmed \ {m} # {}]
    /\ Step(m, "read")
    /\ UNCHANGED <<confirmed, enrolled, attemptVars, sessionVars, lockVars>>

\* The change commits or is rolled back.
EndChange(m) ==
    /\ Step(m, "idle")
    /\ was' = [was EXCEPT ![m] = FALSE]
    /\ left' = [left EXCEPT ![m] = FALSE]
    /\ Release(m)

\* A first enrollment ends the exemption of every session.
FinalizeMFAEnrollment(m) ==
    /\ change[m] = "read"
    /\ m \notin confirmed
    /\ confirmed' = confirmed \cup {m}
    /\ enrolled' = TRUE
    /\ exempt' = IF was[m] THEN exempt ELSE {}
    /\ EndChange(m)
    /\ UNCHANGED <<sign, attemptVars>>

\* The deletion of the last confirmed method ends the enrollment.
DeleteUserMFAMethod(m) ==
    /\ change[m] = "read"
    /\ m \in confirmed
    /\ confirmed' = confirmed \ {m}
    /\ enrolled' = (enrolled /\ left[m])
    /\ EndChange(m)
    /\ UNCHANGED <<attemptVars, sessionVars>>

AbortChange(m) ==
    /\ change[m] # "idle"
    /\ EndChange(m)
    /\ UNCHANGED <<confirmed, enrolled, attemptVars, sessionVars>>

MethodNext(m) ==
    \/ BeginChange(m)
    \/ ReadFactors(m)
    \/ FinalizeMFAEnrollment(m)
    \/ DeleteUserMFAMethod(m)
    \/ AbortChange(m)

(***************************************************************************)
(* Sign-ins                                                                *)
(***************************************************************************)

\* A sign-in creates its session, unless the user is locked; it finds whether they need a challenge
\* (isMFARequired).
SignIn(s) ==
    /\ sign[s] = "out"
    /\ rowLock = None /\ ~locked
    /\ sign' = [sign EXCEPT ![s] = IF enrolled THEN "in" ELSE "free"]
    /\ UNCHANGED <<exempt, attemptVars, factorVars, lockVars>>

\* Slip: the sign-in relies on what it found before (ExemptionEndsAtEnrollment).
ShareUnread(s) ==
    /\ sign[s] = "free"
    /\ rowLock = None
    /\ sign' = [sign EXCEPT ![s] = "sharing"]
    /\ sharers' = sharers \cup {s}
    /\ UNCHANGED <<exempt, rowLock, attemptVars, factorVars>>
\* ExemptSessionFromMFAChallenge reads mfa_enrolled again FOR SHARE; it refuses when it is set.
Share(s) ==
    /\ sign[s] = "free"
    /\ rowLock = None
    /\ IF enrolled
         THEN sign' = [sign EXCEPT ![s] = "in"] /\ UNCHANGED sharers
         ELSE sign' = [sign EXCEPT ![s] = "sharing"] /\ sharers' = sharers \cup {s}
    /\ UNCHANGED <<exempt, rowLock, attemptVars, factorVars>>

\* It marks the session and commits.
Exempt(s) ==
    /\ sign[s] = "sharing"
    /\ exempt' = exempt \cup {s}
    /\ sign' = [sign EXCEPT ![s] = "in"]
    /\ sharers' = sharers \ {s}
    /\ UNCHANGED <<rowLock, attemptVars, factorVars>>

\* The session ends, or the sign-in fails.
SignOut(s) ==
    /\ sign[s] # "out"
    /\ sign' = [sign EXCEPT ![s] = "out"]
    /\ exempt' = exempt \ {s}
    /\ sharers' = sharers \ {s}
    /\ UNCHANGED <<rowLock, attemptVars, factorVars>>

SessionNext(s) ==
    \/ SignIn(s)
    \/ Share(s)
    \/ Exempt(s)
    \/ SignOut(s)

Next ==
    \/ \E a \in Attempt : AttemptNext(a)
    \/ AdminLock
    \/ Unlock
    \/ \E m \in Method : MethodNext(m)
    \/ \E s \in Session : SessionNext(s)

Spec == Init /\ [][Next]_vars

(***************************************************************************)
(* What should hold                                                        *)
(***************************************************************************)

\* However many requests are made at once, no more attempts with one kind of factor are failed or
\* still being verified than the limit.
AttemptsWithinLimit == \A k \in Kind : Cardinality(Counted(k)) <= Limit

\* A user with as many recent failures as lock an account is locked.  Not counted are failures that
\* a request has recorded and is yet to check, an error's, those from before an unlock, and those
\* whose request died before its check.
FailuresLock == ~locked => Cardinality(Failed \ (excused \cup Checking)) < LockLimit

\* mfa_enrolled says whether the user has a confirmed method, also when a method is deleted while
\* another is confirmed.
EnrolledWithAMethod == enrolled <=> confirmed # {}

\* No session of an enrolled user is verified without a factor: a sign-in that found no factor
\* doesn't exempt its session once there is one.
ExemptionEndsAtEnrollment == enrolled => exempt = {}

\* The row lock: one transaction FOR UPDATE, or any number of sign-ins FOR SHARE.
RowLockHeld ==
    /\ rowLock # None => sharers = {}
    /\ \A a \in Attempt : at[a] \in {"begun", "counted"} => rowLock = a
    /\ \A m \in Method : change[m] # "idle" => rowLock = m
    /\ sharers = {s \in Session : sign[s] = "sharing"}
    /\ sharers # {} => ~enrolled

\* What a transaction has read holds until it ends.
ReadsHold ==
    /\ \A a \in Attempt : at[a] \in {"begun", "counted"} => ~locked /\ row[a] = "none"
    /\ \A a \in Attempt : at[a] = "counted" => Cardinality(Counted(KindOf[a])) <= count[a]
    /\ \A a \in Attempt : at[a] = "reserved" => row[a] \in {"none", "in_progress"}
    /\ \A m \in Method :
         change[m] = "read" => was[m] = enrolled /\ left[m] = (confirmed \ {m} # {})

MFAIInv ==
    /\ TypeOK
    /\ AttemptsWithinLimit
    /\ FailuresLock
    /\ EnrolledWithAMethod
    /\ ExemptionEndsAtEnrollment
    /\ RowLockHeld
    /\ ReadsHold
=============================================================================
