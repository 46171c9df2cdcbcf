---------------------------- MODULE AppEnv_proofs ----------------------------
(***************************************************************************)
(* Proofs about AppEnv: its inductive invariant, and that a change made    *)
(* under the lock is atomic.                                               *)
(***************************************************************************)
EXTENDS AppEnv, TLAPS

\* A merge makes an env of an env.
LEMMA MergedIsEnv ==
    ASSUME NEW a \in AskType, NEW e \in Env
    PROVE  Merged(a, e) \in Env
BY DEF Merged, Env

LEMMA LockAppEnvKeepsInv ==
    ASSUME EnvIInv, NEW p \in Process, LockAppEnv(p)
    PROVE  EnvIInv'
<1> USE ConstantsAssumption DEF EnvIInv, LockAppEnv, TryLock, Goto, Process
<1>1. TypeOK'
  BY DEF TypeOK, Label, history
<1>2. HandlersInOrder'
  BY DEF TypeOK, history, HandlersInOrder
<1>3. HoldersHold'
  BY DEF history, HoldersHold
<1>4. BaseIsLatest'
  BY DEF history, HandlersInOrder, BaseIsLatest, InTime
<1>5. AwaitingBuildsKept'
  BY DEF history, AwaitingBuildsKept, InTime, Awaits
<1>6. NoneAwaitsPastTheCheck'
  BY DEF history, HoldersHold, NoneAwaitsPastTheCheck
<1>7. BuildsReadCheckedEnv'
  BY DEF history, BuildsReadCheckedEnv
<1>8. ChangesAccepted'
  BY DEF TypeOK, history, HandlersInOrder, ChangesAccepted
<1>9. QED
  BY <1>1, <1>2, <1>3, <1>4, <1>5, <1>6, <1>7, <1>8

LEMMA GiveUpKeepsInv ==
    ASSUME EnvIInv, NEW p \in Process, GiveUp(p)
    PROVE  EnvIInv'
<1> USE ConstantsAssumption DEF EnvIInv, GiveUp, Leave, Finish, Goto, Released, Process
<1>1. TypeOK'
  BY DEF TypeOK, Label
<1>2. HandlersInOrder'
  BY DEF HandlersInOrder
<1>3. HoldersHold'
  BY DEF TypeOK, HoldersHold
<1>4. BaseIsLatest'
  BY DEF BaseIsLatest, InTime
<1>5. AwaitingBuildsKept'
  BY DEF HandlersInOrder, AwaitingBuildsKept, InTime, Awaits
<1>6. NoneAwaitsPastTheCheck'
  BY DEF NoneAwaitsPastTheCheck, InTime, Awaits
<1>7. BuildsReadCheckedEnv'
  BY DEF BuildsReadCheckedEnv
<1>8. ChangesAccepted'
  BY DEF TypeOK, history, HandlersInOrder, ChangesAccepted
<1>9. QED
  BY <1>1, <1>2, <1>3, <1>4, <1>5, <1>6, <1>7, <1>8

LEMMA LoseLockKeepsInv ==
    ASSUME EnvIInv, NEW p \in Process, LoseLock(p)
    PROVE  EnvIInv'
<1> USE ConstantsAssumption DEF EnvIInv, LoseLock, Process
<1>1. TypeOK'
  BY DEF TypeOK
<1>2. HandlersInOrder'
  BY DEF HandlersInOrder
<1>3. HoldersHold'
  BY DEF HoldersHold
<1>4. BaseIsLatest'
  BY DEF BaseIsLatest, InTime
<1>5. AwaitingBuildsKept'
  BY DEF AwaitingBuildsKept, InTime, Awaits
<1>6. NoneAwaitsPastTheCheck'
  BY DEF HoldersHold, NoneAwaitsPastTheCheck
<1>7. BuildsReadCheckedEnv'
  BY DEF BuildsReadCheckedEnv
<1>8. ChangesAccepted'
  BY DEF TypeOK, history, HandlersInOrder, ChangesAccepted
<1>9. QED
  BY <1>1, <1>2, <1>3, <1>4, <1>5, <1>6, <1>7, <1>8

LEMMA ForwardKeepsInv ==
    ASSUME EnvIInv, NEW p \in Process, Forward(p)
    PROVE  EnvIInv'
<1> USE ConstantsAssumption DEF EnvIInv, Forward, Goto, Process
<1>1. TypeOK'
  BY DEF TypeOK, Label, RackState, history
<1>2. HandlersInOrder'
  BY DEF TypeOK, history, HandlersInOrder
<1>3. HoldersHold'
  BY DEF history, HoldersHold
<1>4. BaseIsLatest'
  BY DEF history, HandlersInOrder, BaseIsLatest, InTime
<1>5. AwaitingBuildsKept'
  BY DEF history, AwaitingBuildsKept, InTime, Awaits
<1>6. NoneAwaitsPastTheCheck'
  BY DEF history, NoneAwaitsPastTheCheck, InTime, Awaits
<1>7. BuildsReadCheckedEnv'
  BY DEF history, BuildsReadCheckedEnv
<1>8. ChangesAccepted'
  BY DEF TypeOK, history, HandlersInOrder, ChangesAccepted
<1>9. QED
  BY <1>1, <1>2, <1>3, <1>4, <1>5, <1>6, <1>7, <1>8

LEMMA RefuseKeepsInv ==
    ASSUME EnvIInv, NEW p \in Process, Refuse(p)
    PROVE  EnvIInv'
<1> USE ConstantsAssumption DEF EnvIInv, Refuse, Process
<1>1. TypeOK'
  BY DEF TypeOK, RackState, history
<1>2. HandlersInOrder'
  BY DEF history, HandlersInOrder
<1>3. HoldersHold'
  BY DEF history, HoldersHold
<1>4. BaseIsLatest'
  BY DEF history, BaseIsLatest, InTime
<1>5. AwaitingBuildsKept'
  BY DEF history, AwaitingBuildsKept, InTime, Awaits
<1>6. NoneAwaitsPastTheCheck'
  BY DEF history, NoneAwaitsPastTheCheck, InTime, Awaits
<1>7. BuildsReadCheckedEnv'
  BY DEF history, BuildsReadCheckedEnv
<1>8. ChangesAccepted'
  BY DEF TypeOK, history, HandlersInOrder, ChangesAccepted
<1>9. QED
  BY <1>1, <1>2, <1>3, <1>4, <1>5, <1>6, <1>7, <1>8

LEMMA CheckNoBuildReadingEnvKeepsInv ==
    ASSUME EnvIInv, NEW w \in Writer, CheckNoBuildReadingEnv(w)
    PROVE  EnvIInv'
<1> USE ConstantsAssumption DEF EnvIInv, CheckNoBuildReadingEnv, Goto, Finish, Released,
       Listed, Finished, HoldsUp, RowsWithout, Web, Process
<1>1. TypeOK'
  BY DEF TypeOK, Label
<1>2. HandlersInOrder'
  BY DEF TypeOK, HandlersInOrder
<1>3. HoldersHold'
  BY DEF TypeOK, HoldersHold
<1>4. BaseIsLatest'
  BY DEF TypeOK, BaseIsLatest, InTime
<1>5. AwaitingBuildsKept'
  BY DEF TypeOK, HandlersInOrder, AwaitingBuildsKept, InTime, Awaits
<1>6. NoneAwaitsPastTheCheck'
  BY DEF TypeOK, HandlersInOrder, HoldersHold, AwaitingBuildsKept, NoneAwaitsPastTheCheck, InTime,
     Awaits
<1>7. BuildsReadCheckedEnv'
  BY DEF BuildsReadCheckedEnv
<1>8. ChangesAccepted'
  BY DEF TypeOK, history, HandlersInOrder, ChangesAccepted
<1>9. QED
  BY <1>1, <1>2, <1>3, <1>4, <1>5, <1>6, <1>7, <1>8

LEMMA ReadEnvKeepsInv ==
    ASSUME EnvIInv, NEW w \in Writer, ReadEnv(w)
    PROVE  EnvIInv'
<1> USE ConstantsAssumption DEF EnvIInv, ReadEnv, Goto, Finish, Released, Web, Process
<1>1. TypeOK'
  BY DEF TypeOK, Label, history
<1>2. HandlersInOrder'
  BY DEF TypeOK, history, HandlersInOrder
<1>3. HoldersHold'
  BY DEF TypeOK, history, HoldersHold
<1>4. BaseIsLatest'
  BY DEF TypeOK, history, BaseIsLatest, InTime
<1>5. AwaitingBuildsKept'
  BY DEF TypeOK, history, AwaitingBuildsKept, InTime, Awaits
<1>6. NoneAwaitsPastTheCheck'
  BY DEF TypeOK, history, NoneAwaitsPastTheCheck, InTime, Awaits
<1>7. BuildsReadCheckedEnv'
  BY DEF history, BuildsReadCheckedEnv
<1>8. ChangesAccepted'
  BY DEF TypeOK, history, HandlersInOrder, ChangesAccepted
<1>9. QED
  BY <1>1, <1>2, <1>3, <1>4, <1>5, <1>6, <1>7, <1>8

LEMMA CreateReleaseKeepsInv ==
    ASSUME EnvIInv, NEW w \in Writer, CreateRelease(w)
    PROVE  EnvIInv'
<1> USE ConstantsAssumption DEF EnvIInv, CreateRelease, Process
<1>1. TypeOK'
  <2>1. ask[w] \in AskType /\ base[w] \in Env
    BY DEF HandlersInOrder
  <2>2. env' \in Env
    BY <2>1, MergedIsEnv
  <2>3. QED
    BY <2>2 DEF TypeOK, RackState
<1>2. HandlersInOrder'
  BY DEF HandlersInOrder
<1>3. HoldersHold'
  BY DEF HoldersHold
<1>4. BaseIsLatest'
  <2> SUFFICES ASSUME NEW v \in Writer, at[v] \notin {"idle", "done"}, base[v] # None,
                      rack'[v] # "done", v \notin late, v \notin crossed'
               PROVE  base[v] = env'
    BY DEF BaseIsLatest, InTime
  <2>1. v # w
    BY DEF TypeOK
  <2>2. w \notin late
    OBVIOUS
  <2>3. at[w] = "sent"
    BY <2>2 DEF HandlersInOrder
  <2>4. lock = w
    BY <2>2, <2>3 DEF HoldersHold
  <2>5. lock = v
    BY DEF HoldersHold, TypeOK, Label
  <2>6. QED
    BY <2>1, <2>4, <2>5
<1>5. AwaitingBuildsKept'
  BY DEF HandlersInOrder, AwaitingBuildsKept, NoneAwaitsPastTheCheck, InTime, Awaits
<1>6. NoneAwaitsPastTheCheck'
  BY DEF NoneAwaitsPastTheCheck, InTime, Awaits
<1>7. BuildsReadCheckedEnv'
  BY DEF BuildsReadCheckedEnv
<1>8. ChangesAccepted'
  BY DEF TypeOK, history, HandlersInOrder, ChangesAccepted
<1>9. QED
  BY <1>1, <1>2, <1>3, <1>4, <1>5, <1>6, <1>7, <1>8

LEMMA AnswerWriterKeepsInv ==
    ASSUME EnvIInv, NEW w \in Writer, AnswerWriter(w)
    PROVE  EnvIInv'
<1> USE ConstantsAssumption DEF EnvIInv, AnswerWriter, Goto, Finish, Released, Process
<1>1. TypeOK'
  BY DEF TypeOK, Label, history
<1>2. HandlersInOrder'
  BY DEF history, HandlersInOrder
<1>3. HoldersHold'
  BY DEF TypeOK, history, HoldersHold
<1>4. BaseIsLatest'
  BY DEF history, BaseIsLatest, InTime
<1>5. AwaitingBuildsKept'
  BY DEF history, AwaitingBuildsKept, InTime, Awaits
<1>6. NoneAwaitsPastTheCheck'
  BY DEF history, NoneAwaitsPastTheCheck, InTime, Awaits
<1>7. BuildsReadCheckedEnv'
  BY DEF history, BuildsReadCheckedEnv
<1>8. ChangesAccepted'
  BY DEF TypeOK, history, HandlersInOrder, ChangesAccepted
<1>9. QED
  BY <1>1, <1>2, <1>3, <1>4, <1>5, <1>6, <1>7, <1>8

LEMMA CheckManifestKeepsInv ==
    ASSUME EnvIInv, NEW b \in Builder, CheckManifest(b)
    PROVE  EnvIInv'
<1> USE ConstantsAssumption DEF EnvIInv, CheckManifest, Goto, Finish, Released, Process
<1>1. TypeOK'
  BY DEF TypeOK, Label, history
<1>2. HandlersInOrder'
  BY DEF TypeOK, history, HandlersInOrder
<1>3. HoldersHold'
  BY DEF TypeOK, history, HoldersHold
<1>4. BaseIsLatest'
  BY DEF TypeOK, history, BaseIsLatest, InTime
<1>5. AwaitingBuildsKept'
  BY DEF TypeOK, history, AwaitingBuildsKept, InTime, Awaits
<1>6. NoneAwaitsPastTheCheck'
  BY DEF TypeOK, history, HoldersHold, NoneAwaitsPastTheCheck, InTime, Awaits
<1>7. BuildsReadCheckedEnv'
  BY DEF history, HandlersInOrder, BuildsReadCheckedEnv
<1>8. ChangesAccepted'
  BY DEF TypeOK, history, HandlersInOrder, ChangesAccepted
<1>9. QED
  BY <1>1, <1>2, <1>3, <1>4, <1>5, <1>6, <1>7, <1>8

LEMMA RecordCheckedBuildKeepsInv ==
    ASSUME EnvIInv, NEW b \in Builder, RecordCheckedBuild(b)
    PROVE  EnvIInv'
<1> USE ConstantsAssumption DEF EnvIInv, RecordCheckedBuild, Goto, Process
<1>1. TypeOK'
  BY DEF TypeOK, Label, history
<1>2. HandlersInOrder'
  BY DEF history, HandlersInOrder
<1>3. HoldersHold'
  BY DEF history, HoldersHold
<1>4. BaseIsLatest'
  BY DEF history, BaseIsLatest, InTime
<1>5. AwaitingBuildsKept'
  BY DEF TypeOK, history, AwaitingBuildsKept, InTime, Awaits
<1>6. NoneAwaitsPastTheCheck'
  BY DEF history, NoneAwaitsPastTheCheck, InTime, Awaits
<1>7. BuildsReadCheckedEnv'
  BY DEF history, BuildsReadCheckedEnv
<1>8. ChangesAccepted'
  BY DEF TypeOK, history, HandlersInOrder, ChangesAccepted
<1>9. QED
  BY <1>1, <1>2, <1>3, <1>4, <1>5, <1>6, <1>7, <1>8

LEMMA SettleCheckedBuildKeepsInv ==
    ASSUME EnvIInv, NEW b \in Builder, SettleCheckedBuild(b)
    PROVE  EnvIInv'
<1> USE ConstantsAssumption DEF EnvIInv, SettleCheckedBuild, Finish, Goto, Released, Process
<1>1. TypeOK'
  BY DEF TypeOK, Label, history
<1>2. HandlersInOrder'
  BY DEF TypeOK, history, HandlersInOrder
<1>3. HoldersHold'
  BY DEF history, HoldersHold
<1>4. BaseIsLatest'
  BY DEF history, BaseIsLatest, InTime
<1>5. AwaitingBuildsKept'
  BY DEF TypeOK, history, HandlersInOrder, AwaitingBuildsKept, InTime, Awaits
<1>6. NoneAwaitsPastTheCheck'
  BY DEF history, NoneAwaitsPastTheCheck, InTime, Awaits
<1>7. BuildsReadCheckedEnv'
  BY DEF history, BuildsReadCheckedEnv
<1>8. ChangesAccepted'
  BY DEF TypeOK, history, HandlersInOrder, ChangesAccepted
<1>9. QED
  BY <1>1, <1>2, <1>3, <1>4, <1>5, <1>6, <1>7, <1>8

LEMMA StartBuildKeepsInv ==
    ASSUME EnvIInv, NEW b \in Builder, StartBuild(b)
    PROVE  EnvIInv'
<1> USE ConstantsAssumption DEF EnvIInv, StartBuild, Process
<1>1. TypeOK'
  BY DEF TypeOK, RackState, history
<1>2. HandlersInOrder'
  BY DEF history, HandlersInOrder
<1>3. HoldersHold'
  BY DEF history, HoldersHold
<1>4. BaseIsLatest'
  BY DEF history, BaseIsLatest, InTime
<1>5. AwaitingBuildsKept'
  BY DEF history, AwaitingBuildsKept, InTime, Awaits
<1>6. NoneAwaitsPastTheCheck'
  BY DEF history, NoneAwaitsPastTheCheck, InTime, Awaits
<1>7. BuildsReadCheckedEnv'
  BY DEF history, BuildsReadCheckedEnv
<1>8. ChangesAccepted'
  BY DEF TypeOK, history, HandlersInOrder, ChangesAccepted
<1>9. QED
  BY <1>1, <1>2, <1>3, <1>4, <1>5, <1>6, <1>7, <1>8

LEMMA NameCheckedBuildKeepsInv ==
    ASSUME EnvIInv, NEW b \in Builder, NameCheckedBuild(b)
    PROVE  EnvIInv'
<1> USE ConstantsAssumption DEF EnvIInv, NameCheckedBuild, Finish, Goto, Released, Process
<1>1. TypeOK'
  BY DEF TypeOK, Label, history
<1>2. HandlersInOrder'
  BY DEF TypeOK, history, HandlersInOrder
<1>3. HoldersHold'
  BY DEF history, HoldersHold
<1>4. BaseIsLatest'
  BY DEF history, BaseIsLatest, InTime
<1>5. AwaitingBuildsKept'
  BY DEF TypeOK, history, AwaitingBuildsKept, InTime, Awaits
<1>6. NoneAwaitsPastTheCheck'
  BY DEF history, NoneAwaitsPastTheCheck, InTime, Awaits
<1>7. BuildsReadCheckedEnv'
  BY DEF history, BuildsReadCheckedEnv
<1>8. ChangesAccepted'
  BY DEF TypeOK, history, HandlersInOrder, ChangesAccepted
<1>9. QED
  BY <1>1, <1>2, <1>3, <1>4, <1>5, <1>6, <1>7, <1>8

LEMMA ReadEnvInBuildKeepsInv ==
    ASSUME EnvIInv, NEW b \in Builder, ReadEnvInBuild(b)
    PROVE  EnvIInv'
<1> USE ConstantsAssumption DEF EnvIInv, ReadEnvInBuild, Process
<1>1. TypeOK'
  BY DEF TypeOK, history
<1>2. HandlersInOrder'
  BY DEF history, HandlersInOrder
<1>3. HoldersHold'
  BY DEF history, HoldersHold
<1>4. BaseIsLatest'
  BY DEF history, BaseIsLatest, InTime
<1>5. AwaitingBuildsKept'
  BY DEF history, AwaitingBuildsKept, InTime, Awaits
<1>6. NoneAwaitsPastTheCheck'
  BY DEF history, NoneAwaitsPastTheCheck, InTime, Awaits
<1>7. BuildsReadCheckedEnv'
  BY DEF history, AwaitingBuildsKept, BuildsReadCheckedEnv, InTime, Awaits
<1>8. ChangesAccepted'
  BY DEF TypeOK, history, HandlersInOrder, ChangesAccepted
<1>9. QED
  BY <1>1, <1>2, <1>3, <1>4, <1>5, <1>6, <1>7, <1>8

LEMMA EndBuildKeepsInv ==
    ASSUME EnvIInv, NEW b \in Builder, EndBuild(b)
    PROVE  EnvIInv'
<1> USE ConstantsAssumption DEF EnvIInv, EndBuild, Process
<1>1. TypeOK'
  BY DEF TypeOK, RackState, history
<1>2. HandlersInOrder'
  BY DEF history, HandlersInOrder
<1>3. HoldersHold'
  BY DEF history, HoldersHold
<1>4. BaseIsLatest'
  BY DEF history, BaseIsLatest, InTime
<1>5. AwaitingBuildsKept'
  BY DEF history, AwaitingBuildsKept, InTime, Awaits
<1>6. NoneAwaitsPastTheCheck'
  BY DEF history, NoneAwaitsPastTheCheck, InTime, Awaits
<1>7. BuildsReadCheckedEnv'
  BY DEF history, BuildsReadCheckedEnv
<1>8. ChangesAccepted'
  BY DEF TypeOK, history, HandlersInOrder, ChangesAccepted
<1>9. QED
  BY <1>1, <1>2, <1>3, <1>4, <1>5, <1>6, <1>7, <1>8

LEMMA PassMaxAgeKeepsInv ==
    ASSUME EnvIInv, NEW b \in Builder, PassMaxAge(b)
    PROVE  EnvIInv'
<1> USE ConstantsAssumption DEF EnvIInv, PassMaxAge, Process
<1>1. TypeOK'
  BY DEF TypeOK, history
<1>2. HandlersInOrder'
  BY DEF history, HandlersInOrder
<1>3. HoldersHold'
  BY DEF history, HoldersHold
<1>4. BaseIsLatest'
  BY DEF history, BaseIsLatest, InTime
<1>5. AwaitingBuildsKept'
  BY DEF history, AwaitingBuildsKept, InTime, Awaits
<1>6. NoneAwaitsPastTheCheck'
  BY DEF history, NoneAwaitsPastTheCheck, InTime, Awaits
<1>7. BuildsReadCheckedEnv'
  BY DEF history, BuildsReadCheckedEnv
<1>8. ChangesAccepted'
  BY DEF TypeOK, history, HandlersInOrder, ChangesAccepted
<1>9. QED
  BY <1>1, <1>2, <1>3, <1>4, <1>5, <1>6, <1>7, <1>8

LEMMA InitHasInv == Init => EnvIInv
BY ConstantsAssumption DEF Init, Process, EnvIInv, TypeOK, Label, RackState, HandlersInOrder,
   HoldersHold, BaseIsLatest, AwaitingBuildsKept, NoneAwaitsPastTheCheck, BuildsReadCheckedEnv,
   ChangesAccepted, Awaits

LEMMA StepKeepsInv == EnvIInv /\ [Next]_vars => EnvIInv'
<1> SUFFICES ASSUME EnvIInv, [Next]_vars
             PROVE  EnvIInv'
  OBVIOUS
<1>1. CASE \E p \in Process : LockAppEnv(p) \/ GiveUp(p) \/ LoseLock(p) \/ Forward(p) \/ Refuse(p)
  BY <1>1, LockAppEnvKeepsInv, GiveUpKeepsInv, LoseLockKeepsInv, ForwardKeepsInv, RefuseKeepsInv
<1>2. CASE \E w \in Writer : WriterNext(w)
  BY <1>2, CheckNoBuildReadingEnvKeepsInv, ReadEnvKeepsInv, CreateReleaseKeepsInv,
     AnswerWriterKeepsInv DEF WriterNext
<1>3. CASE \E b \in Builder : BuilderNext(b)
  BY <1>3, CheckManifestKeepsInv, RecordCheckedBuildKeepsInv, SettleCheckedBuildKeepsInv,
     StartBuildKeepsInv, NameCheckedBuildKeepsInv, ReadEnvInBuildKeepsInv, EndBuildKeepsInv,
     PassMaxAgeKeepsInv DEF BuilderNext
<1>4. CASE UNCHANGED vars
  BY <1>4 DEF vars, EnvIInv, TypeOK, HandlersInOrder, HoldersHold, BaseIsLatest,
     AwaitingBuildsKept, NoneAwaitsPastTheCheck, BuildsReadCheckedEnv, ChangesAccepted, InTime,
     Awaits
<1>5. QED
  BY <1>1, <1>2, <1>3, <1>4 DEF Next

\* The lock's holder works with the latest env, and a checked build that may still read the env
\* would find the one it was checked with, unless a handler's lock went or its wait ended early.
THEOREM EnvSafe == Spec => []EnvIInv
<1>1. EnvIInv /\ [Next]_vars => EnvIInv'
  BY StepKeepsInv
<1>2. QED
  BY InitHasInv, <1>1, PTL DEF Spec

\* A build reads the env its manifest was checked with.
THEOREM BuildsReadWhatWasChecked == Spec => []BuildsReadCheckedEnv
<1>1. EnvIInv => BuildsReadCheckedEnv
  BY DEF EnvIInv
<1>2. QED
  BY EnvSafe, <1>1, PTL

\* A release create under its lock changes the env as if it were read and written at once.
THEOREM ReleasesAreAtomic == Spec => ChangesAreAtomic
<1>1. EnvIInv /\ [Next]_vars =>
        [\A w \in Writer :
           CreateRelease(w) /\ w \notin late \cup crossed => env' = Merged(ask[w], env)]_vars
  <2> SUFFICES ASSUME EnvIInv, NEW w \in Writer, CreateRelease(w), w \notin late \cup crossed
               PROVE  env' = Merged(ask[w], env)
    OBVIOUS
  <2>1. at[w] = "sent" /\ rack[w] = "asked" /\ base[w] # None
    BY ConstantsAssumption DEF EnvIInv, HandlersInOrder, CreateRelease
  <2>2. base[w] = env
    BY <2>1 DEF EnvIInv, BaseIsLatest, InTime
  <2>3. QED
    BY <2>2 DEF CreateRelease
<1>2. QED
  BY EnvSafe, <1>1, PTL DEF Spec, ChangesAreAtomic
\* What an accepted change makes of the env it was accepted for.
LEMMA AcceptedChangesOnlyAsked ==
    ASSUME NEW a \in AskType, NEW e \in Env, Accepts(a, e),
           NEW k \in EnvKey, Merged(a, e)[k] # e[k]
    PROVE  MayChange(a, k)
<1> DEFINE changes == a.post[k] \in Val \/ (Removes(a, k) /\ e[k] # Unset)
<1>1. a.via \in {"proxy", "web"} /\ a.post[k] \in Posted
  BY DEF AskType
<1>2. changes
  BY DEF Merged
<1>3. CASE a.via = "web"
  BY <1>1, <1>2, <1>3, ConstantsAssumption DEF Accepts, AcceptsWeb, Removes, MayChange, Posted
<1>4. CASE a.via = "proxy"
  BY <1>1, <1>2, <1>4, ConstantsAssumption DEF Accepts, AcceptsProxy, Removes, MayChange, Posted
<1>5. QED
  BY <1>1, <1>3, <1>4

\* A release create under its lock changes no key its caller left alone, masked or may not change.
THEOREM OnlyAskedChange == Spec => OnlyAskedKeysChange
<1>1. EnvIInv /\ [Next]_vars =>
        [\A w \in Writer : CreateRelease(w) /\ w \notin late \cup crossed =>
           \A k \in EnvKey : env'[k] # env[k] => MayChange(ask[w], k)]_vars
  <2> SUFFICES ASSUME EnvIInv, NEW w \in Writer, CreateRelease(w), w \notin late \cup crossed,
                      NEW k \in EnvKey, env'[k] # env[k]
               PROVE  MayChange(ask[w], k)
    OBVIOUS
  <2>1. at[w] = "sent" /\ rack[w] = "asked" /\ base[w] # None /\ ask[w] \in AskType
    BY ConstantsAssumption DEF EnvIInv, HandlersInOrder, CreateRelease
  <2>2. base[w] = env /\ env \in Env
    BY <2>1 DEF EnvIInv, TypeOK, BaseIsLatest, InTime
  <2>3. Accepts(ask[w], env)
    BY <2>1, <2>2 DEF EnvIInv, ChangesAccepted
  <2>4. env' = Merged(ask[w], env)
    BY <2>2 DEF CreateRelease
  <2>5. QED
    BY <2>1, <2>2, <2>3, <2>4, AcceptedChangesOnlyAsked
<1>2. QED
  BY EnvSafe, <1>1, PTL DEF Spec, OnlyAskedKeysChange
=============================================================================
