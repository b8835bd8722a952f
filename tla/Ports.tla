-------------------------------- MODULE Ports --------------------------------
(***************************************************************************)
(* The record classifier that the other implementations share, written     *)
(* over and over: process_file of src/src/rust/main.rs and its likes, next *)
(* to the classifiers of Backends.                                         *)
(*                                                                         *)
(* They take one CR off the line first.  A shell record is parsed from     *)
(* what is left, a native one from the line as it stands.  Where they      *)
(* differ is in what they take for white space.                            *)
(***************************************************************************)
EXTENDS Backends

\* blank: the bytes a line without a record may consist of; white: those that
\* may not stand around `=`; whole: whether a native record keeps its CR.
Port(blank, white, whole) == [blank |-> blank, white |-> white, whole |-> whole]

Rust == Port(Space, Space, TRUE)   \* and Go, JavaScript, Python

Zig == Port(Space \cup {CR}, Space \cup {CR}, TRUE)

Ruby == Port(Space \cup {CR, NUL}, Space, TRUE)

Perl == Port(Space \cup {CR}, Space \cup {CR}, FALSE)

\* The shells hand files with NUL bytes to the reference.
Bash == Port(Space \cup {CR}, Space \cup {CR}, TRUE)

Sh == Port(Space, Space \cup {CR}, TRUE)

\* Mutant of PortKeyFault: the white space before the value is looked for last.
PortKeyFaultLate(p, key, value) ==
  IF key # <<>> /\ key[1] \in p.white THEN "KEY_LEADING_WHITESPACE"
  ELSE IF key # <<>> /\ key[Len(key)] \in p.white THEN "KEY_TRAILING_WHITESPACE"
  ELSE IF key = <<>> THEN "EMPTY_KEY"
  ELSE IF ~IsName(key) THEN "KEY_INVALID"
  ELSE IF value # <<>> /\ value[1] \in p.white THEN "VALUE_LEADING_WHITESPACE"
  ELSE "NONE"

\* The faults of a name, with the one of the value that is looked for between them.
PortKeyFault(p, key, value) ==
  IF key # <<>> /\ key[1] \in p.white THEN "KEY_LEADING_WHITESPACE"
  ELSE IF key # <<>> /\ key[Len(key)] \in p.white THEN "KEY_TRAILING_WHITESPACE"
  ELSE IF value # <<>> /\ value[1] \in p.white THEN "VALUE_LEADING_WHITESPACE"
  ELSE IF key = <<>> THEN "EMPTY_KEY"
  ELSE IF ~IsName(key) THEN "KEY_INVALID"
  ELSE "NONE"

\* unquote_shell_value: what becomes of the value of a record with a good name.
PortUnquote(key, value) ==
  IF Quoted(value)
  THEN LET rest == After(value, 1)
           pos  == Index(rest, value[1])
       IN IF pos = 0
          THEN NoRecord(IF value[1] = DQ THEN "DOUBLE_QUOTE_UNTERMINATED"
                                         ELSE "SINGLE_QUOTE_UNTERMINATED")
          ELSE IF After(rest, pos) # <<>> THEN NoRecord("TRAILING_CONTENT")
          ELSE FillRecord(key, SubSeq(rest, 1, pos - 1), Kind(value[1]))
  ELSE IF \E k \in 1..Len(value) : value[k] \in Space \cup {SQ, DQ, BSL}
       THEN NoRecord("VALUE_INVALID_CHAR")
       ELSE FillRecord(key, value, "PLAIN")

PortSkips(p, trimmed) ==
  (\A k \in 1..Len(trimmed) : trimmed[k] \in p.blank) \/ trimmed[1] = HASH

\* process_file: what becomes of one logical line.
PortVerdict(p, native, s) ==
  LET trimmed == StripCr(s, TRUE)
      work    == IF native /\ p.whole THEN s ELSE trimmed
      eq      == Index(work, EQ)
      key     == SubSeq(work, 1, eq - 1)
      value   == After(work, eq)
      fault   == PortKeyFault(p, key, value)
  IN IF PortSkips(p, trimmed) THEN NoRecord("SKIP")
     ELSE IF eq = 0 THEN NoRecord("NO_EQUALS")
     ELSE IF native
          THEN IF key = <<>> THEN NoRecord("EMPTY_KEY") ELSE FillRecord(key, value, "PLAIN")
     ELSE IF fault # "NONE" THEN NoRecord(fault)
     ELSE PortUnquote(key, value)

-----------------------------------------------------------------------------

\* The line with two faults of which the ports report the other one first: it
\* has no name, and white space before the value.
NoNameNoValue(s) == Len(s) > 1 /\ s[1] = EQ /\ s[2] \in Space

Quotes(kind) == CASE kind = "SINGLE_QUOTED" -> <<SQ>> [] kind = "DOUBLE_QUOTED" -> <<DQ>> [] OTHER -> <<>>

\* r is a record, and s is its text and a CR behind it: that CR is lost.
CrLost(r, s) ==
  r.status = "OK" /\ s = r.key \o <<EQ>> \o Quotes(r.kind) \o r.value \o Quotes(r.kind) \o <<CR>>

\* The ports find in every line what the reference finds in it, but in a shell
\* line for the order of two faults and for the CR at the end of a record; a NUL
\* byte, which only ENVFILE_NUL=ignore lets through, is a byte like the others
\* (main.rs:215-291, envfile.awk:107-154).  Perl loses the CR of a native record
\* too.  Those that take more for white space do so as long as no CR but one at
\* the end, and for Ruby no NUL byte, is in the line.
PortsAsAwk ==
  LET work == StripCr(grown, TRUE)
  IN \A native \in BOOLEAN :
       LET rust == PortVerdict(Rust, native, grown)
       IN /\ \/ rust = AwkVerdict(native, grown)
             \/ ~native /\ (NoNameNoValue(grown) \/ CrLost(rust, grown))
          /\ ~Has(work, CR) /\ ~Has(work, NUL) =>
               \A p \in {Zig, Ruby, Perl, Bash, Sh} :
                 LET port == PortVerdict(p, native, grown)
                 IN port = rust \/ (native /\ ~p.whole /\ CrLost(port, grown))

\* "convert only if *all* line endings are `\r\n`. Mixed or mid-line `\r` passes
\* through unchanged. `ignore`: no conversion." (docs/PIPELINE.md:51-53): that pass
\* done, a CR at the end of a shell line belongs to its record.
CrPassesThrough ==
  \A p \in {Rust, Zig, Ruby, Perl, Bash, Sh} : ~CrLost(PortVerdict(p, FALSE, grown), grown)
=============================================================================
