------------------------------ MODULE Backends ------------------------------
(***************************************************************************)
(* Three classifiers of one logical line, side by side: the reference's    *)
(* (validate and unquote of envfile.awk), the C backend's and the assembly *)
(* backend's.  The line grows byte by byte, so every line of at most       *)
(* MaxLine bytes over LineBytes is a state.                                *)
(***************************************************************************)
EXTENDS AwkRecord, CBackend

CONSTANTS LineBytes, MaxLine

ASSUME LineBounds == LineBytes \subseteq Byte \ {LF} /\ MaxLine \in Nat

VARIABLE grown   \* the line so far

LineInit == grown = <<>>

LineNext == /\ Len(grown) < MaxLine
            /\ \E c \in LineBytes : grown' = Append(grown, c)

LineSpec == LineInit /\ [][LineNext]_grown

LineTypeOK == grown \in Seq(Byte)

-----------------------------------------------------------------------------
(* The reference's verdict in the form of the backends'. *)

AwkKind(native, s) ==
  IF native \/ ~Quoted(Value(s)) THEN "PLAIN" ELSE Kind(Value(s)[1])

AwkVerdict(native, s) ==
  IF NotARecord(s) THEN NoRecord("SKIP")
  ELSE IF Fault(native, s) # "NONE" THEN NoRecord(Fault(native, s))
  ELSE FillRecord(Key(s), Parsed(native, s), AwkKind(native, s))

\* The one place where the C backend reports another fault than the reference:
\* it looks at the name before it looks at the first byte of the value.
OtherFaultFirst(s) ==
  /\ ParseShell(s).status = "KEY_INVALID"
  /\ AwkVerdict(FALSE, s).status = "VALUE_LEADING_WHITESPACE"

\* The C backend takes the same lines for records as the reference, with the
\* same key, value and quoting, and reports the same fault but for that one
\* order; lines with a NUL byte, which only ENVFILE_NUL=ignore lets through,
\* are apart (backend.c:48-119, envfile.awk:107-154).
CAsAwk ==
  ~Has(grown, NUL) =>
    /\ ParseShell(grown) = AwkVerdict(FALSE, grown) \/ OtherFaultFirst(grown)
    /\ ParseNative(grown) = AwkVerdict(TRUE, grown)

\* The assembly backend agrees with the reference, fault order included, on
\* every line that does not end in a carriage return (backend.asm:117-419).
AsmAsAwk ==
  ~Has(grown, NUL) /\ ~(grown # <<>> /\ grown[Len(grown)] = CR) =>
    /\ AsmShell(grown) = AwkVerdict(FALSE, grown)
    /\ AsmNative(grown) = AwkVerdict(TRUE, grown)

\* "Both backends implement the same tiny record-classifier ABI [...] so the
\* front-end never needs to know which one was linked in" (envfile.c:8-11).
BackendsAgree ==
  /\ AsmShell(grown) = ParseShell(grown)
  /\ AsmNative(grown) = ParseNative(grown)
=============================================================================
