------------------------------- MODULE Bytes --------------------------------
(***************************************************************************)
(* The bytes the record parsers tell apart, and what they search for in a  *)
(* line.  A line, a key and a value are sequences of bytes.  The byte      *)
(* order mark is one element BOM: no parser looks inside it.               *)
(***************************************************************************)
EXTENDS Lines

CONSTANTS
  Space,            \* space and tab
  Letter, Digit,    \* A-Z a-z _, and 0-9
  EQ, HASH, SQ, DQ, DOLLAR, LBRACE, RBRACE, NUL, BOM

Special == {LF, CR, BSL, EQ, HASH, SQ, DQ, DOLLAR, LBRACE, RBRACE, NUL, BOM}

ASSUME ByteClasses ==
  /\ Special \cup Space \cup Letter \cup Digit \subseteq Byte
  /\ Special \cap (Space \cup Letter \cup Digit) = {}
  /\ Space \cap (Letter \cup Digit) = {} /\ Letter \cap Digit = {}

ASSUME SyntaxBytes ==
  /\ EQ \notin {LF, CR, BSL, HASH, SQ, DQ, DOLLAR, LBRACE, RBRACE, NUL, BOM}
  /\ HASH \notin {LF, CR, BSL, SQ, DQ, DOLLAR, LBRACE, RBRACE, NUL, BOM}
  /\ SQ \notin {LF, CR, BSL, DQ, DOLLAR, LBRACE, RBRACE, NUL, BOM}
  /\ DQ \notin {LF, CR, BSL, DOLLAR, LBRACE, RBRACE, NUL, BOM}
  /\ DOLLAR \notin {LF, CR, BSL, LBRACE, RBRACE, NUL, BOM}
  /\ LBRACE \notin {LF, CR, BSL, RBRACE, NUL, BOM}
  /\ RBRACE \notin {LF, CR, BSL, NUL, BOM}
  /\ NUL \notin {LF, CR, BSL, BOM} /\ BOM \notin {LF, CR, BSL}

Has(s, c) == \E i \in 1..Len(s) : s[i] = c

\* Position of the first c in s, 0 if there is none: index(s, c), memchr.
Index(s, c) ==
  IF Has(s, c)
  THEN CHOOSE i \in 1..Len(s) : s[i] = c /\ \A j \in 1..(i - 1) : s[j] # c
  ELSE 0

\* The bytes after position n: substr(s, n + 1).
After(s, n) == SubSeq(s, n + 1, Len(s))

\* ^[A-Za-z_][A-Za-z0-9_]*$
IsName(s) ==
  /\ s # <<>> /\ s[1] \in Letter
  /\ \A i \in 1..Len(s) : s[i] \in Letter \cup Digit

\* Length of the longest name that begins after position n of s.
NameLength(s, n) ==
  CHOOSE k \in 0..(Len(s) - n) :
    /\ k > 0 => IsName(SubSeq(s, n + 1, n + k))
    /\ \A j \in (k + 1)..(Len(s) - n) : ~IsName(SubSeq(s, n + 1, n + j))
=============================================================================
