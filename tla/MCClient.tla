------------------------------ MODULE MCClient ------------------------------
EXTENDS Client

(* Secrets that can be read or not, or whose path cannot be resolved.      *)
AnySecret   == [i \in Selected |-> SecretOutcomes]
TildeSecret == [i \in Selected |-> IF i = 1 THEN {"unresolvable"} ELSE {"readable"}]
=============================================================================
