----------------------------- MODULE AwkPrePass -----------------------------
(***************************************************************************)
(* How src/bin/envfile.awk gets from the bytes of a file to its logical    *)
(* lines: the pre-passes over the whole file, and the joining of continued *)
(* lines.  o is the record of the run's settings.                          *)
(***************************************************************************)
EXTENDS AwkRecord

\* The lines getline returns: a last one without newline counts.
SplitLines(bytes) ==
  LET rest[p \in 0..Len(bytes)] ==
        LET nl == Index(After(bytes, p), LF)
        IN IF p = Len(bytes) THEN <<>>
           ELSE IF nl = 0 THEN <<After(bytes, p)>>
           ELSE <<SubSeq(bytes, p + 1, p + nl - 1)>> \o rest[p + nl]
  IN rest[0]

StartsWithBom(ls) == ls # <<>> /\ ls[1] # <<>> /\ ls[1][1] = BOM

StripBom(o, ls) ==
  IF StartsWithBom(ls) /\ o.bom = "strip" THEN [ls EXCEPT ![1] = After(ls[1], 1)] ELSE ls

EndsInCr(line) == line # <<>> /\ line[Len(line)] = CR

\* CRs are stripped only if every line of the file ends in one.
StripCrlf(o, ls) ==
  IF o.crlf = "strip" /\ \A k \in 1..Len(ls) : EndsInCr(ls[k])
  THEN [k \in 1..Len(ls) |-> SubSeq(ls[k], 1, Len(ls[k]) - 1)] ELSE ls

PrePasses(o, bytes) == StripCrlf(o, StripBom(o, SplitLines(bytes)))

\* What makes the program give up on a whole file.
FileFault(o, arg) ==
  IF arg.kind = "unreadable" THEN "FILE_UNREADABLE"
  ELSE IF o.nul = "reject" /\ Has(arg.bytes, NUL) THEN "FILE_NUL"
  ELSE IF o.bom = "reject" /\ StartsWithBom(SplitLines(arg.bytes)) THEN "FILE_BOM"
  ELSE "NONE"

\* Line a of ls and the lines joined to it: `j` lines up to line b.
Joined(ls, a, b) ==
  LET upto[k \in a..b] ==
        IF k = a THEN ls[a] ELSE SubSeq(upto[k - 1], 1, Len(upto[k - 1]) - 1) \o ls[k]
  IN upto[b]

\* Where the logical line that begins at line a ends.
LastLine(o, ls, a) ==
  CHOOSE b \in a..Len(ls) :
    /\ b = Len(ls) \/ o.cont = "ignore" \/ ~OddBackslashes(Joined(ls, a, b))
    /\ \A k \in a..(b - 1) : o.cont = "accept" /\ OddBackslashes(Joined(ls, a, k))
=============================================================================
