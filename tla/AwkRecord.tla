----------------------------- MODULE AwkRecord ------------------------------
(***************************************************************************)
(* What the reference implementation, src/bin/envfile.awk, makes of one    *)
(* logical line: whether it is a record, which fault it has, its key and   *)
(* its value, and what a value becomes when its references are resolved.   *)
(***************************************************************************)
EXTENDS Bytes

CONSTANT SOH   \* the byte \001

ASSUME SentinelByte == SOH \in Byte \ (Special \cup Space \cup Letter \cup Digit)

\* Only a blank or a comment line is not a record.  The carriage return of a
\* CRLF file does not make a line a record, but it stays in key and value.
NotARecord(line) ==
  LET trimmed == StripCr(line, TRUE)
  IN \/ \A i \in 1..Len(trimmed) : trimmed[i] \in Space
     \/ trimmed # <<>> /\ trimmed[1] = HASH

\* The two sides of the first `=`; of a line that has one.
Key(line) == SubSeq(line, 1, Index(line, EQ) - 1)
Value(line) == After(line, Index(line, EQ))

Quoted(v) == v # <<>> /\ v[1] \in {SQ, DQ}

\* Position of the closing quote of a quoted value, counted after the opening one.
Closing(v) == Index(After(v, 1), v[1])

\* unquote: what is wrong with a shell value.
ValueFault(v) ==
  IF Quoted(v)
  THEN IF Closing(v) = 0
       THEN IF v[1] = DQ THEN "DOUBLE_QUOTE_UNTERMINATED" ELSE "SINGLE_QUOTE_UNTERMINATED"
       ELSE IF Closing(v) < Len(v) - 1 THEN "TRAILING_CONTENT" ELSE "NONE"
  ELSE IF \E i \in 1..Len(v) : v[i] \in Space \cup {SQ, DQ, BSL}
       THEN "VALUE_INVALID_CHAR" ELSE "NONE"

\* unquote: the value without its quotes; of a value without fault.
Unquote(v) == IF Quoted(v) THEN SubSeq(v, 2, Closing(v)) ELSE v

\* validate, after the test for `=`: the first fault of a record.
ShellFault(k, v) ==
  IF k = <<>> THEN "EMPTY_KEY"
  ELSE IF k[1] \in Space THEN "KEY_LEADING_WHITESPACE"
  ELSE IF k[Len(k)] \in Space THEN "KEY_TRAILING_WHITESPACE"
  ELSE IF v # <<>> /\ v[1] \in Space THEN "VALUE_LEADING_WHITESPACE"
  ELSE IF ~IsName(k) THEN "KEY_INVALID"
  ELSE ValueFault(v)

NativeFault(k) == IF k = <<>> THEN "EMPTY_KEY" ELSE "NONE"

Fault(native, line) ==
  IF ~Has(line, EQ) THEN "NO_EQUALS"
  ELSE IF native THEN NativeFault(Key(line)) ELSE ShellFault(Key(line), Value(line))

\* The value dump() receives.
Parsed(native, line) == IF native THEN Value(line) ELSE Unquote(Value(line))

\* The value by which unquote tells dump() of a fault, though a record may have
\* it without one.
Sentinel == <<SOH>>

\* Single-quoted shell values are literal; everything else is substituted.
Substituted(native, line) ==
  native \/ Value(line) = <<>> \/ Value(line)[1] # SQ

-----------------------------------------------------------------------------
(* subst: the value with $NAME and ${NAME} replaced from env, and how many  *)
(* of its references name nothing.                                          *)

Lookup(env, name) ==
  IF name \in DOMAIN env THEN [text |-> env[name], unbound |-> 0]
  ELSE [text |-> <<>>, unbound |-> 1]

\* a and then b.
Then(a, b) == [text |-> a.text \o b.text, unbound |-> a.unbound + b.unbound]

Literally(s) == [text |-> s, unbound |-> 0]

Subst(val, env) ==
  LET \* what the bytes after position n become
      rest[n \in 0..Len(val)] ==
        LET brace == Index(After(val, n + 2), RBRACE)
            name  == NameLength(val, n + 1)
        IN IF n = Len(val) THEN Literally(<<>>)
           ELSE IF val[n + 1] # DOLLAR
                THEN Then(Literally(<<val[n + 1]>>), rest[n + 1])
           ELSE IF n + 1 < Len(val) /\ val[n + 2] = LBRACE
                THEN IF brace = 0 THEN Literally(After(val, n))
                     ELSE Then(Lookup(env, SubSeq(val, n + 3, n + 1 + brace)), rest[n + 2 + brace])
           ELSE IF name = 0 THEN Then(Literally(<<DOLLAR>>), rest[n + 1])
           ELSE Then(Lookup(env, SubSeq(val, n + 2, n + 1 + name)), rest[n + 1 + name])
  IN rest[0]
=============================================================================
