------------------------------- MODULE Lines -------------------------------
(***************************************************************************)
(* What every reader of an env file does to the bytes of a physical line:  *)
(* cut it out of a buffer, take a carriage return off its end, and decide  *)
(* whether it continues on the next line.                                  *)
(*                                                                         *)
(* Bytes are uninterpreted except for the three the readers look at.       *)
(***************************************************************************)
EXTENDS Integers, Sequences

CONSTANTS
  Byte,   \* the bytes a file may hold
  LF,     \* newline
  CR,     \* carriage return
  BSL     \* backslash

ASSUME SpecialBytes ==
  /\ {LF, CR, BSL} \subseteq Byte
  /\ LF # CR /\ LF # BSL /\ CR # BSL

\* The n elements of buf that follow position lo.
Slice(buf, lo, n) == [i \in 1..n |-> buf[lo + i]]

\* All but the last byte.
DropLast(s) == Slice(s, 0, Len(s) - 1)

\* memcpy(buf + lo, s, Len(s)).  A copy that runs past the end of buf makes
\* its domain grow, so the type invariant of the owner of buf rules it out.
CopyTo(buf, lo, s) ==
  [i \in DOMAIN buf \cup (lo+1)..(lo+Len(s)) |->
     IF lo < i /\ i <= lo + Len(s) THEN s[i - lo] ELSE buf[i]]

\* `if (strip_cr && len > 0 && line[len - 1] == '\r') len--`
StripCr(s, strip) ==
  IF strip /\ Len(s) > 0 /\ s[Len(s)] = CR THEN DropLast(s) ELSE s

\* trailing_backslashes(s) % 2 == 1: the line continues on the next one.
OddBackslashes(s) ==
  \E k \in 1..Len(s) :
    /\ k % 2 = 1
    /\ \A i \in (Len(s) - k + 1)..Len(s) : s[i] = BSL
    /\ k < Len(s) => s[Len(s) - k] # BSL
=============================================================================
