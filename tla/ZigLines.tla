------------------------------ MODULE ZigLines -------------------------------
(***************************************************************************)
(* The joining of continued lines in src/src/zig/main.zig, which looks at  *)
(* each physical line by itself, beside a run of the reference, which      *)
(* looks at what it has joined so far.                                     *)
(***************************************************************************)
EXTENDS Reference

\* isContinuation
IsContinuation(physical) == OddBackslashes(physical)

\* Where the record that begins at line a of ls ends, in the Zig program.
ZigLast(ls, a) ==
  CHOOSE b \in a..Len(ls) :
    /\ b = Len(ls) \/ ~IsContinuation(ls[b])
    /\ \A k \in a..(b - 1) : IsContinuation(ls[k])

\* Mutant of ZigJoined: the lines after the first keep their backslash.
ZigJoinedKeeps(ls, a, b) ==
  LET upto[k \in a..b] ==
        LET piece == IF k = a /\ IsContinuation(ls[k]) THEN SubSeq(ls[k], 1, Len(ls[k]) - 1) ELSE ls[k]
        IN IF k = a THEN piece ELSE upto[k - 1] \o piece
  IN upto[b]

\* Each continued line without its last backslash, the last line of the file too.
ZigJoined(ls, a, b) ==
  LET upto[k \in a..b] ==
        LET piece == IF IsContinuation(ls[k]) THEN SubSeq(ls[k], 1, Len(ls[k]) - 1) ELSE ls[k]
        IN IF k = a THEN piece ELSE upto[k - 1] \o piece
  IN upto[b]

\* The Zig program's record ends where the reference's does, and reads the same,
\* however many backslashes meet where two lines are joined; except that of a
\* file which ends inside a continued line it drops the last backslash, before it
\* knows that no line follows (main.zig:389-411, envfile.awk:89-104).
ZigJoins ==
  pc = "line" /\ i <= Len(lines) /\ opt.cont = "accept" =>
    LET b == ZigLast(lines, i)
    IN /\ b = lineno
       /\ ZigJoined(lines, i, b) =
            IF IsContinuation(lines[b]) THEN SubSeq(line, 1, Len(line) - 1) ELSE line
=============================================================================
