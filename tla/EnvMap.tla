------------------------------- MODULE EnvMap -------------------------------
(***************************************************************************)
(* What the environment of a run promises its users, delta and apply: it   *)
(* is a map, a binding replaces the one before it and touches no other.    *)
(***************************************************************************)
CONSTANTS Key, Value

VARIABLES
  env,
  asked   \* the name and value of the last binding

vars == <<env, asked>>

Init == env = << >> /\ asked = << >>

Bind(key, value) ==
  /\ env' = [k \in DOMAIN env \cup {key} |-> IF k = key THEN value ELSE env[k]]
  /\ asked' = <<key, value>>

Next == \E key \in Key, value \in Value : Bind(key, value)

Spec == Init /\ [][Next]_vars
=============================================================================
