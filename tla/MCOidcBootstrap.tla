-------------------------- MODULE MCOidcBootstrap --------------------------
(* Small instances of OidcBootstrap: a request that passes every check, and *)
(* variations of it that fail one or two.                                   *)
EXTENDS OidcBootstrap

CONSTANTS i1, k1, k2, a, b

Good ==
  [post |-> TRUE, decodes |-> TRUE, complete |-> TRUE, audience |-> TRUE, parses |-> TRUE,
   scopes |-> {a}, issuer |-> i1, kid |-> k1, genuine |-> TRUE, exp |-> 9, sub |-> "ci", ttl |-> 0]

\* Every way out of the handler.
MCPost ==
  {[Good EXCEPT !.post = FALSE, !.decodes = FALSE],
   [Good EXCEPT !.decodes = FALSE],
   [Good EXCEPT !.complete = FALSE, !.audience = FALSE],
   [Good EXCEPT !.audience = FALSE, !.scopes = {}],
   [Good EXCEPT !.scopes = {}, !.issuer = "elsewhere"],
   [Good EXCEPT !.issuer = "elsewhere", !.parses = FALSE],
   [Good EXCEPT !.parses = FALSE],
   [Good EXCEPT !.genuine = FALSE],
   [Good EXCEPT !.kid = k2, !.sub = "stranger"],
   [Good EXCEPT !.scopes = {a, b}],
   [Good EXCEPT !.kid = k2, !.sub = "open", !.exp = 1, !.ttl = 3],
   [Good EXCEPT !.ttl = 7]}

\* One row names no lifetime.
MCPolicy ==
  [x \in {i1} \X {"ci", "open", "stranger"} |->
     [enabled |-> x[2] # "stranger", scopes |-> {a}, maxTtl |-> IF x[2] = "open" THEN 0 ELSE 3]]
=============================================================================
