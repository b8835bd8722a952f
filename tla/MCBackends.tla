----------------------------- MODULE MCBackends -----------------------------
(***************************************************************************)
(* Every line of up to six bytes over ten of the bytes the classifiers    *)
(* tell apart: long enough for each fault of a key, of a value and of a    *)
(* quoted value, and for two faults in one line.                           *)
(***************************************************************************)
EXTENDS Ports
=============================================================================
