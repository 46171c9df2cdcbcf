-------------------------------- MODULE MCMFA --------------------------------
(***************************************************************************)
(* A small instance of MFA: three attempts with codes and one with a       *)
(* security key, two methods and a sign-in; two failures lock.             *)
(***************************************************************************)
EXTENDS MFA, TLC

CONSTANTS c1, c2, c3, k1, m1, m2, s1

Kinds == {"totp", "webauthn"}
KindsOf == [a \in Attempt |-> IF a = k1 THEN "webauthn" ELSE "totp"]
Symmetry == Permutations({c1, c2, c3}) \cup Permutations({m1, m2})
=============================================================================
