------------------------------ MODULE CBackend ------------------------------
(***************************************************************************)
(* The record classifier of the C implementation, src/src/c/backend.c, and *)
(* the one written in assembly, src/src/c/backend.asm, that is linked in   *)
(* its place.  Each returns a status and, with OK, the record.             *)
(***************************************************************************)
EXTENDS Bytes

NoRecord(status) == [status |-> status, key |-> <<>>, value |-> <<>>, kind |-> "PLAIN"]

FillRecord(key, value, kind) == [status |-> "OK", key |-> key, value |-> value, kind |-> kind]

BlankOrComment(s) ==
  LET len == IF Len(s) > 0 /\ s[Len(s)] = CR THEN Len(s) - 1 ELSE Len(s)
  IN len > 0 => s[1] = HASH \/ \A i \in 1..len : s[i] \in Space

\* Mutant of KeyFault: the last byte of the name is not looked at.
KeyFaultShort(key) ==
  IF key = <<>> THEN "EMPTY_KEY"
  ELSE IF key[1] \in Space THEN "KEY_LEADING_WHITESPACE"
  ELSE IF key[Len(key)] \in Space THEN "KEY_TRAILING_WHITESPACE"
  ELSE IF key[1] \notin Letter \/ \E i \in 2..(Len(key) - 1) : key[i] \notin Letter \cup Digit
       THEN "KEY_INVALID"
  ELSE "NONE"

KeyFault(key) ==
  IF key = <<>> THEN "EMPTY_KEY"
  ELSE IF key[1] \in Space THEN "KEY_LEADING_WHITESPACE"
  ELSE IF key[Len(key)] \in Space THEN "KEY_TRAILING_WHITESPACE"
  ELSE IF key[1] \notin Letter \/ \E i \in 2..Len(key) : key[i] \notin Letter \cup Digit
       THEN "KEY_INVALID"
  ELSE "NONE"

Kind(quote) == IF quote = SQ THEN "SINGLE_QUOTED" ELSE "DOUBLE_QUOTED"

\* The part of parse_shell from the value's first byte on.
ShellValue(key, value) ==
  IF value # <<>> /\ value[1] \in {SQ, DQ}
  THEN LET rest  == After(value, 1)
           close == Index(rest, value[1])
       IN IF close = 0
          THEN NoRecord(IF value[1] = DQ THEN "DOUBLE_QUOTE_UNTERMINATED"
                                         ELSE "SINGLE_QUOTE_UNTERMINATED")
          ELSE IF close # Len(rest) THEN NoRecord("TRAILING_CONTENT")
          ELSE FillRecord(key, SubSeq(rest, 1, close - 1), Kind(value[1]))
  ELSE IF \E i \in 1..Len(value) : value[i] \in Space \cup {SQ, DQ, BSL}
       THEN NoRecord("VALUE_INVALID_CHAR")
       ELSE FillRecord(key, value, "PLAIN")

ParseShell(line) ==
  LET eq    == Index(line, EQ)
      key   == SubSeq(line, 1, eq - 1)
      value == After(line, eq)
  IN IF BlankOrComment(line) THEN NoRecord("SKIP")
     ELSE IF Has(line, NUL) THEN NoRecord("VALUE_INVALID_CHAR")
     ELSE IF eq = 0 THEN NoRecord("NO_EQUALS")
     ELSE IF KeyFault(key) # "NONE" THEN NoRecord(KeyFault(key))
     ELSE IF value # <<>> /\ value[1] \in Space THEN NoRecord("VALUE_LEADING_WHITESPACE")
     ELSE ShellValue(key, value)

ParseNative(line) ==
  LET eq == Index(line, EQ)
  IN IF BlankOrComment(line) THEN NoRecord("SKIP")
     ELSE IF Has(line, NUL) THEN NoRecord("VALUE_INVALID_CHAR")
     ELSE IF eq = 0 THEN NoRecord("NO_EQUALS")
     ELSE IF eq = 1 THEN NoRecord("EMPTY_KEY")
     ELSE FillRecord(SubSeq(line, 1, eq - 1), After(line, eq), "PLAIN")

-----------------------------------------------------------------------------
(* backend.asm *)

\* Mutant of AsmSkips: looks at the first byte only.
AsmSkipsFirst(line) == line = <<>> \/ line[1] \in Space \cup {HASH}

AsmSkips(line) ==
  \/ \A i \in 1..Len(line) : line[i] \in Space
  \/ line[1] = HASH

\* .find_eq counts down from the length: with length 0 it does not stop at the
\* end of the line, and what it finds lies outside the model.
Runaway == NoRecord("RUNAWAY")

AsmShellRecord(key, value) ==
  IF key = <<>> THEN NoRecord("EMPTY_KEY")
  ELSE IF key[1] \in Space THEN NoRecord("KEY_LEADING_WHITESPACE")
  ELSE IF key[Len(key)] \in Space THEN NoRecord("KEY_TRAILING_WHITESPACE")
  ELSE IF value # <<>> /\ value[1] \in Space THEN NoRecord("VALUE_LEADING_WHITESPACE")
  ELSE IF ~IsName(key) THEN NoRecord("KEY_INVALID")
  ELSE IF value # <<>> /\ value[1] \notin {SQ, DQ} /\ Has(value, NUL)
       THEN NoRecord("VALUE_INVALID_CHAR")
  ELSE ShellValue(key, value)

AsmShell(line) ==
  LET work == StripCr(line, TRUE)
      eq   == Index(work, EQ)
  IN IF AsmSkips(line) THEN NoRecord("SKIP")
     ELSE IF work = <<>> THEN Runaway
     ELSE IF eq = 0 THEN NoRecord("NO_EQUALS")
     ELSE AsmShellRecord(SubSeq(work, 1, eq - 1), After(work, eq))

AsmNative(line) ==
  LET eq == Index(line, EQ)
  IN IF AsmSkips(line) THEN NoRecord("SKIP")
     ELSE IF eq = 0 THEN NoRecord("NO_EQUALS")
     ELSE IF eq = 1 THEN NoRecord("EMPTY_KEY")
     ELSE IF Has(After(line, eq), NUL) THEN NoRecord("VALUE_INVALID_CHAR")
     ELSE FillRecord(SubSeq(line, 1, eq - 1), After(line, eq), "PLAIN")
=============================================================================
