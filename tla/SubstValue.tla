----------------------------- MODULE SubstValue -----------------------------
(***************************************************************************)
(* subst_value of src/src/c/envfile.c: one call, one action per turn of    *)
(* its loop.  Every turn appends to the result buffer; an append, or the   *)
(* copy of a name, may fail for want of memory, and the call then returns  *)
(* NULL.                                                                   *)
(***************************************************************************)
EXTENDS AwkRecord

CONSTANTS
  Values,   \* the values the call may receive: C strings, so without NUL
  Envs      \* the environments it may resolve them in

ASSUME Arguments ==
  /\ Values \subseteq Seq(Byte \ {NUL})
  /\ \A env \in Envs : \A k \in DOMAIN env : k \in Seq(Byte) /\ env[k] \in Seq(Byte)

VARIABLES
  pc,       \* "loop", "done", or "oom" when NULL is returned
  value, env,
  val,      \* how many bytes of the value have been consumed
  out,      \* the result buffer
  errors    \* LINE_ERROR_UNBOUND_REF diagnostics

vars == <<pc, value, env, val, out, errors>>

Init ==
  /\ pc = "loop"
  /\ value \in Values /\ env \in Envs
  /\ val = 0 /\ out = <<>> /\ errors = 0

Rest == After(value, val)

Dollar == Index(Rest, DOLLAR)

Before == SubSeq(Rest, 1, Dollar - 1)

\* `*rest == '{'`, rest being what follows the dollar sign.
Brace == Dollar < Len(Rest) /\ Rest[Dollar + 1] = LBRACE

Close == Index(After(Rest, Dollar + 1), RBRACE)

\* p - rest, after the walk over is_var_start and is_var_rest.
NameLen == NameLength(Rest, Dollar)

AtDollar == pc = "loop" /\ Dollar > 0

\* `while (*val)` fails: the result is returned.
Return ==
  /\ pc = "loop" /\ Rest = <<>>
  /\ pc' = "done"
  /\ UNCHANGED <<value, env, val, out, errors>>

NoDollar ==
  /\ pc = "loop" /\ Rest # <<>> /\ Dollar = 0
  /\ out' = out \o Rest
  /\ pc' = "done"
  /\ UNCHANGED <<value, env, val, errors>>

\* Mutant of Unclosed: forgets what stands before the dollar sign.
UnclosedAlone ==
  /\ AtDollar /\ Brace /\ Close = 0
  /\ out' = out \o <<DOLLAR>> \o After(Rest, Dollar)
  /\ pc' = "done"
  /\ UNCHANGED <<value, env, val, errors>>

Unclosed ==
  /\ AtDollar /\ Brace /\ Close = 0
  /\ out' = out \o Before \o <<DOLLAR>> \o After(Rest, Dollar)
  /\ pc' = "done"
  /\ UNCHANGED <<value, env, val, errors>>

\* The name is looked up, its value appended or the reference reported.
Resolve(name) ==
  /\ out' = out \o Before \o (IF name \in DOMAIN env THEN env[name] ELSE <<>>)
  /\ errors' = IF name \in DOMAIN env THEN errors ELSE errors + 1
  /\ UNCHANGED <<pc, value, env>>

Braced ==
  /\ AtDollar /\ Brace /\ Close > 0
  /\ Resolve(SubSeq(Rest, Dollar + 2, Dollar + Close))
  /\ val' = val + Dollar + 1 + Close

\* Mutant of LoneDollar: stays at the dollar sign.
LoneDollarAgain ==
  /\ AtDollar /\ ~Brace /\ NameLen = 0
  /\ out' = out \o Before \o <<DOLLAR>>
  /\ val' = val + Dollar - 1
  /\ UNCHANGED <<pc, value, env, errors>>

LoneDollar ==
  /\ AtDollar /\ ~Brace /\ NameLen = 0
  /\ out' = out \o Before \o <<DOLLAR>>
  /\ val' = val + Dollar
  /\ UNCHANGED <<pc, value, env, errors>>

\* Mutant of Named: the last byte of the name is scanned again.
NamedShort ==
  /\ AtDollar /\ ~Brace /\ NameLen > 0
  /\ Resolve(SubSeq(Rest, Dollar + 1, Dollar + NameLen))
  /\ val' = val + Dollar + NameLen - 1

Named ==
  /\ AtDollar /\ ~Brace /\ NameLen > 0
  /\ Resolve(SubSeq(Rest, Dollar + 1, Dollar + NameLen))
  /\ val' = val + Dollar + NameLen

\* An append or a malloc fails, or the strdup of an empty result does.
OutOfMemory ==
  /\ pc = "loop"
  /\ Rest # <<>> \/ out = <<>>
  /\ pc' = "oom"
  /\ out' = <<>>
  /\ UNCHANGED <<value, env, val, errors>>

Next ==
  \/ Return \/ NoDollar \/ Unclosed \/ Braced \/ LoneDollar \/ Named
  \/ OutOfMemory

Spec == Init /\ [][Next]_vars

-----------------------------------------------------------------------------
TypeOK ==
  /\ pc \in {"loop", "done", "oom"}
  /\ value \in Seq(Byte) /\ out \in Seq(Byte)
  /\ val \in 0..Len(value) /\ errors \in 0..Len(value)

\* At every turn, what has been resolved so far and what the reference makes
\* of the rest are together what the reference makes of the whole value: the
\* C pointer walk and the reference's string cutting never disagree on where a
\* reference begins or ends, and no resolved text is scanned a second time.
ResolvedSoFar ==
  pc = "loop" =>
    Then([text |-> out, unbound |-> errors], Subst(Rest, env)) = Subst(value, env)

\* A completed call returns the reference's text and reports its errors.
ResolvesAsReference ==
  pc = "done" => [text |-> out, unbound |-> errors] = Subst(value, env)

\* Every turn that does not end the call consumes at least a byte, so that the
\* loop ends with the value, whatever its dollar signs and braces
\* (envfile.c:279-342).
Advances == [][val' >= val /\ (pc' = "loop" => val' > val)]_vars
=============================================================================
