------------------------------ MODULE MCAppEnv ------------------------------
(***************************************************************************)
(* A small instance of AppEnv: a plain, a secret and a protected key.      *)
(***************************************************************************)
EXTENDS AppEnv

Keys == {"plain", "secret", "protected"}
Values == {"v1", "v2"}

Start == [k \in Keys |-> "v1"]

Post(p, s, q) == [k \in Keys |-> CASE k = "plain" -> p [] k = "secret" -> s [] OTHER -> q]

\* The web editor changes or removes what it names; a proxied create posts the whole env, with
\* masks for what its caller can't see, perhaps from an env that has changed since.
Asks ==
    {[via |-> "web", post |-> Post("remove", "v2", "omit"), secrets |-> TRUE, optIn |-> {}],
     [via |-> "proxy", post |-> Post("v1", "mask", "omit"), secrets |-> FALSE, optIn |-> {}],
     [via |-> "proxy", post |-> Post("omit", "v2", "v2"), secrets |-> TRUE,
      optIn |-> {"protected"}]}
=============================================================================
