------------------------------ MODULE MCParts -------------------------------
(***************************************************************************)
(* The parts of the C program that work on what is in memory, one at a     *)
(* time: the classifiers on a line, subst_value on a value, or the table   *)
(* of the environment from the process to the listing.                     *)
(*                                                                         *)
(* Lines: as in MCBackends.  Values: all of up to five bytes over a dollar *)
(* sign, the braces, a letter and a digit, in environments where the names *)
(* bound are the letter, the letter twice, or a name that only braces can  *)
(* quote, and where a bound value itself looks like a reference.  Table:   *)
(* four names, the third of them an ENVFILE_ name, two values, a first     *)
(* capacity of one, so that the array grows twice, and process             *)
(* environments that repeat a name, have no name, or fill the array.       *)
(***************************************************************************)
EXTENDS MCBackends, SubstValue, EnvTable, SequencesExt

MCValues == BoundedSeq({"$", "{", "}", "A", "1"}, 5)

MCEnvs == {
  << >>,
  (<<"A">> :> <<"$", "A", "A">>) @@ (<<"A", "A">> :> << >>),
  (<<"1">> :> <<"x">>) @@ (<<"{">> :> <<"}">>) }

E(k, v) == [key |-> k, value |-> v]

MCEnvirons ==
  { << >>,
    <<E(1, "v"), E(2, "v"), E(1, "w")>>,
    <<E(4, "v"), E(0, "v"), E(3, "v"), E(4, "w"), E(4, "v")>> }

VARIABLE part   \* the part that is at work

\* subst_value has returned from an empty value, and the process environment was
\* empty too.
SubstRests ==
  pc = "done" /\ value = << >> /\ env = << >> /\ val = 0 /\ out = << >> /\ errors = 0

TableRests == TableInit /\ environ = << >>

PartsInit ==
  \/ part = "line" /\ LineInit /\ SubstRests /\ TableRests
  \/ part = "value" /\ Init /\ LineInit /\ TableRests
  \/ part = "table" /\ TableInit /\ LineInit /\ SubstRests

LineStep == part = "line" /\ LineNext /\ UNCHANGED <<part, vars, tableVars>>

ValueStep == part = "value" /\ Next /\ UNCHANGED <<part, grown, tableVars>>

TableStep == part = "table" /\ TableNext /\ UNCHANGED <<part, grown, vars>>

PartsNext == LineStep \/ ValueStep \/ TableStep

PartsSpec == PartsInit /\ [][PartsNext]_<<part, grown, vars, tableVars>>
=============================================================================
