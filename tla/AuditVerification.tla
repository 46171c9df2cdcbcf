------------------------- MODULE AuditVerification --------------------------
(***************************************************************************)
(* Scheduled verification of the audit chain and its anchors, while events *)
(* and anchors are written: a run reads the head of the chain, the event   *)
(* an earlier run verified, the anchors and the events they record one     *)
(* after the other.  The worker remembers in memory the last event a       *)
(* passing run verified.                                                   *)
(*                                                                         *)
(* Nothing here changes an event or an anchor, so the walk along the       *)
(* events' links and HMACs, and the checks of an anchor's form and times,  *)
(* are left out.                                                           *)
(***************************************************************************)
EXTENDS AuditAnchors

VARIABLES
    run,       \* what the run did last
    runHead,   \* the head it read
    listed,    \* the anchors it listed, in the order it checks them
    failing,   \* whether it has found a failure
    verified,  \* the event the last passing run verified: its index and id, 0 for none
    seen,      \* history: the ids of the events runs have passed, since the gateway started
    runSeen,   \* history: the ids in the chain when the run read its head
    upset      \* history: whether the database was restored since then

verifyVars == <<run, runHead, listed, failing, verified, seen, runSeen, upset>>
vars == <<anchorVars, verifyVars>>

NoHead == [last |-> 0, event |-> 0, v2 |-> 0]
NoEvent == [index |-> 0, id |-> 0]

VerifyTypeOK ==
    /\ run \in {"idle", "head", "verified", "listed"}
    /\ runHead \in ChainHead
    /\ listed \in Seq(Anchor)
    /\ failing \in BOOLEAN
    /\ verified \in [index : Nat, id : Nat]
    /\ seen \subseteq Nat /\ runSeen \subseteq Nat
    /\ upset \in BOOLEAN

Init ==
    /\ AnchorInit
    /\ run = "idle"
    /\ runHead = NoHead
    /\ listed = <<>>
    /\ failing = FALSE
    /\ verified = NoEvent
    /\ seen = {} /\ runSeen = {}
    /\ upset = FALSE

\* Whether the chain c holds the event with this id at this index (AuditChainRowAt).
HasEvent(c, index, id) == index \in DOMAIN c /\ c[index].id = id

(***************************************************************************)
(* The order of anchors                                                    *)
(***************************************************************************)
WrittenBefore(a, b) ==
    \/ a.stored < b.stored
    \/ a.stored = b.stored /\ a.hour < b.hour
    \/ a.stored = b.stored /\ a.hour = b.hour /\ a.id < b.id

Foremost(S) == CHOOSE a \in S : \A b \in S \ {a} : WrittenBefore(a, b)

\* Slip: anchors stored in one second are checked in the order of their keys (NoFalseAlarm).
KeyOrders(S) ==
    {l \in [1..Cardinality(S) -> S] :
       \A i \in DOMAIN l : l[i] = Foremost(S \ {l[k] : k \in 1..i - 1})}

\* chainTies: of the anchors T that are left, the next among those stored in one second is the one
\* that names the last, or one that names none of them.
NextAnchor(T, prev) ==
    LET ties   == {a \in T : \A b \in T : a.stored <= b.stored}
        linked == {a \in ties : a.prev = prev}
        starts == {a \in ties : \A b \in ties : a.prev # b.id}
    IN  Foremost(IF linked # {} THEN linked ELSE IF starts # {} THEN starts ELSE ties)

\* loadAnchors: by the second they were stored in; those of one second as they link.
WriteOrders(S) ==
    {l \in [1..Cardinality(S) -> S] :
       \A i \in DOMAIN l :
         l[i] = NextAnchor(S \ {l[k] : k \in 1..i - 1}, IF i = 1 THEN 0 ELSE l[i - 1].id)}

(***************************************************************************)
(* The checks of anchors                                                   *)
(***************************************************************************)

\* reportOverwrittenAnchors
Overwritten(l) == \E i, k \in DOMAIN l : i # k /\ l[i].hour = l[k].hour

\* checkLinkToPrevious; the first may name an anchor that is gone.
Unlinked(l) == \E i \in DOMAIN l : i > 1 /\ l[i].prev # l[i - 1].id

\* checkSequence
Shrinks(l) == \E i, k \in DOMAIN l : i < k /\ l[k].head.last < l[i].head.last

\* anchoredHashV2Start: an anchor without hash v2 events says the next event is the first.
AnchoredV2(a, h) ==
    CASE a.head.v2 # 0 -> a.head.v2
      [] a.head.v2 = 0 /\ h.last > a.head.last -> a.head.last + 1
      [] OTHER -> 0

\* checkHashV2Start
V2StartDiffers(l, h) == \E i \in DOMAIN l : AnchoredV2(l[i], h) # h.v2

\* Slip: an anchored event is looked for by its index only (LossReported).
EventsMissingByIndex(l, c) ==
    \E i \in DOMAIN l : l[i].head.last # 0 /\ l[i].head.last \notin DOMAIN c
\* checkAnchoredEvent
EventsMissing(l, c) ==
    \E i \in DOMAIN l : l[i].head.last # 0 /\ ~HasEvent(c, l[i].head.last, l[i].head.event)

\* reportNoAnchors
NoAnchors(l, h) == l = <<>> /\ h.last # 0

AnchorsFail ==
    \/ Overwritten(listed)
    \/ Unlinked(listed)
    \/ Shrinks(listed)
    \/ V2StartDiffers(listed, runHead)
    \/ EventsMissing(listed, chain)
    \/ NoAnchors(listed, runHead)

(***************************************************************************)
(* A run                                                                   *)
(***************************************************************************)
Idle ==
    /\ run' = "idle"
    /\ runHead' = NoHead
    /\ listed' = <<>>
    /\ failing' = FALSE
    /\ runSeen' = {}
    /\ upset' = FALSE

StartRun ==
    /\ run = "idle"
    /\ run' = "head"
    /\ runHead' = HeadOf(chain)
    /\ runSeen' = Ids(chain)
    /\ upset' = FALSE
    /\ UNCHANGED <<anchorVars, listed, failing, verified, seen>>

\* checkVerifiedEvent
CheckVerifiedEvent ==
    /\ run = "head"
    /\ run' = "verified"
    /\ failing' = (/\ verified # NoEvent
                   /\ \/ runHead.last < verified.index
                      \/ ~HasEvent(chain, verified.index, verified.id))
    /\ UNCHANGED <<anchorVars, runHead, listed, verified, seen, runSeen, upset>>

LoadAnchors ==
    /\ run = "verified"
    /\ run' = "listed"
    /\ listed' \in WriteOrders({bucket[i] : i \in DOMAIN bucket})
    /\ UNCHANGED <<anchorVars, runHead, failing, verified, seen, runSeen, upset>>

\* A passing run moves the verified event to the head it read; a failing one leaves it.
EndRun ==
    /\ run = "listed"
    /\ Idle
    /\ IF failing \/ AnchorsFail
         THEN UNCHANGED <<verified, seen>>
         ELSE /\ verified' = [index |-> runHead.last, id |-> runHead.event]
              /\ seen' = seen \cup runSeen
    /\ UNCHANGED anchorVars

\* The gateway is restarted, or a run can't read what it needs: it records nothing.
Restart ==
    /\ Idle
    /\ verified' = NoEvent
    /\ seen' = {}
    /\ UNCHANGED anchorVars

VerifyNext ==
    \/ StartRun
    \/ CheckVerifiedEvent
    \/ LoadAnchors
    \/ EndRun
    \/ Restart

Next ==
    \/ VerifyNext
    \/ /\ AnchorNext
       /\ upset' = (run # "idle" /\ (upset \/ restores' # restores))
       /\ UNCHANGED <<run, runHead, listed, failing, verified, seen, runSeen>>

Spec == Init /\ [][Next]_vars

(***************************************************************************)
(* What should hold                                                        *)
(***************************************************************************)
Passes == EndRun /\ ~(failing \/ AnchorsFail)
Fails == EndRun /\ (failing \/ AnchorsFail)

\* A run that passes means that no event is lost of all those an anchor covers, or an earlier run of
\* this gateway passed: a restore shows in every run from then on, also once others events were
\* written in the place of those that were lost.
LossReported ==
    [][Passes /\ ~upset =>
         /\ seen \subseteq Ids(chain)
         /\ \A i \in DOMAIN listed : listed[i].covers \subseteq Ids(chain)]_vars

\* A run only fails when there is a reason: a restore, a PUT that outlived its lock, or events but
\* no anchors yet; or the first hash v2 event was anchored after the run read the head.
NoFalseAlarm ==
    [][Fails =>
         \/ restores > 0
         \/ late
         \/ NoAnchors(listed, runHead)
         \/ runHead.v2 = 0 /\ \E i \in DOMAIN listed : listed[i].head.v2 # 0]_vars

(***************************************************************************)
(* The inductive invariant                                                 *)
(***************************************************************************)

\* The chain holds the event that was recorded for this index, 0 for none.
Present(index, id) == index = 0 \/ HasEvent(chain, index, id)

\* Where the recorded event is still at its index, so are the events before it: an event that takes
\* the place of a lost one has another id.
Stands(index, id, ids) ==
    /\ id <= events
    /\ index = 0 => id = 0 /\ ids = {}
    /\ HasEvent(chain, index, id) => ids \subseteq {chain[k].id : k \in 1..index}

\* The anchors there are, and those in the making that have read the head.
Made ==
    {bucket[i] : i \in DOMAIN bucket} \cup inFlight \cup {listed[i] : i \in DOMAIN listed}
      \cup {base[j] : j \in {k \in Job : at[k] \in {"read", "sent"}}}

RecordsStand ==
    /\ \A i \in DOMAIN chain : chain[i].id <= events
    /\ \A a \in Made : Stands(a.head.last, a.head.event, a.covers)
    /\ Stands(verified.index, verified.id, seen)
    /\ Stands(runHead.last, runHead.event, runSeen)

\* What a run has read holds until a restore; what it has checked holds while its head does.
RunHolds ==
    /\ run # "idle" /\ ~upset => Present(runHead.last, runHead.event)
    /\ run \in {"verified", "listed"} /\ ~failing =>
         /\ verified.index <= runHead.last
         /\ HasEvent(chain, runHead.last, runHead.event) => Present(verified.index, verified.id)

\* A head that was read since the upgrade, and is in the chain: hash v2 starts after the legacy
\* events.
HeadHolds(h) ==
    /\ Present(h.last, h.event)
    /\ h.last >= Legacy
    /\ h.v2 = IF h.last > Legacy THEN Legacy + 1 ELSE 0

\* Without a restore nothing is lost, and a run finds what was recorded.
NothingLost ==
    restores = 0 =>
      /\ Len(chain) >= Legacy /\ \A i \in DOMAIN chain : chain[i].v2 <=> i > Legacy
      /\ \A a \in Made : HeadHolds(a.head)
      /\ Present(verified.index, verified.id)
      /\ run # "idle" => HeadHolds(runHead) /\ verified.index <= runHead.last
      /\ ~failing

\* Until a lock is given up too early, a run checks the anchors in the order S3 stored them.
ListedAsStored ==
    run = "listed" /\ ~late =>
      /\ Len(listed) <= Len(bucket)
      /\ \A i \in DOMAIN listed : listed[i] = bucket[i]

VerifyInv ==
    /\ AnchorIInv
    /\ VerifyTypeOK
    /\ RecordsStand
    /\ RunHolds
    /\ NothingLost
    /\ ListedAsStored
=============================================================================
