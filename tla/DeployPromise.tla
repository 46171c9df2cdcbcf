---------------------------- MODULE DeployPromise ----------------------------
(***************************************************************************)
(* What an approval promises the people who grant it, whatever the gateway *)
(* does to keep it: a release is promoted under a request only once the    *)
(* request is granted and not after it is withdrawn, one promote at a      *)
(* time, and none after one has been applied; and the request is reported  *)
(* deployed only when its promote has been applied.                        *)
(***************************************************************************)
CONSTANT Request

VARIABLES
    standing,  \* what people have been told of each request
    promote    \* what the rack does, or did, under it

promiseVars == <<standing, promote>>

PromiseTypeOK ==
    /\ standing \in [Request -> {"waiting", "granted", "withdrawn", "deployed"}]
    /\ promote \in [Request -> {"none", "running", "applied"}]

PromiseInit ==
    /\ standing = [r \in Request |-> "waiting"]
    /\ promote = [r \in Request |-> "none"]

Grant(r) ==
    /\ standing[r] = "waiting"
    /\ standing' = [standing EXCEPT ![r] = "granted"]
    /\ UNCHANGED promote

\* A rejection withdraws one request, an expiry sweep all those that waited too long.
Withdraw(S) ==
    /\ \A r \in S : standing[r] \in {"waiting", "granted"} /\ promote[r] = "none"
    /\ standing' = [r \in Request |-> IF r \in S THEN "withdrawn" ELSE standing[r]]
    /\ UNCHANGED promote

Start(r) ==
    /\ standing[r] = "granted"
    /\ promote[r] = "none"
    /\ promote' = [promote EXCEPT ![r] = "running"]
    /\ UNCHANGED standing

Cancel(r) ==
    /\ promote[r] = "running"
    /\ promote' = [promote EXCEPT ![r] = "none"]
    /\ UNCHANGED standing

Apply(r) ==
    /\ promote[r] = "running"
    /\ promote' = [promote EXCEPT ![r] = "applied"]
    /\ UNCHANGED standing

Report(r) ==
    /\ standing[r] = "granted"
    /\ promote[r] = "applied"
    /\ standing' = [standing EXCEPT ![r] = "deployed"]
    /\ UNCHANGED promote

PromiseNext ==
    \/ \E r \in Request : Grant(r) \/ Start(r) \/ Cancel(r) \/ Apply(r) \/ Report(r)
    \/ \E S \in SUBSET Request : Withdraw(S)

PromiseSpec == PromiseInit /\ [][PromiseNext]_promiseVars
=============================================================================
