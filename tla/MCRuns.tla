------------------------------- MODULE MCRuns -------------------------------
(***************************************************************************)
(* The settings, files, command lines and environments that runs of the    *)
(* program are checked on.  A name E stands for the ENVFILE_* names.       *)
(***************************************************************************)
EXTENDS Sequences, SequencesExt, TLC

Settings(natives, boms, nuls) ==
  [native : natives, action : {"normalize", "validate", "dump", "delta", "apply"},
   bom : boms, crlf : {"strip", "ignore"}, nul : nuls, cont : {"accept", "ignore"}]

\* Every action, format, CRLF and continuation mode; the BOM and NUL modes that
\* are not the default, and the settings the program refuses, without the rest.
MCOptions ==
  Settings({FALSE}, {"strip"}, {"reject"}) \cup Settings({TRUE}, {"literal"}, {"reject"})
  \cup [native : BOOLEAN, action : {"dump"}, bom : {"literal", "strip", "reject", "other"},
        crlf : {"ignore"}, nul : {"reject", "ignore"}, cont : {"ignore"}]

\* A binding, a reference, a literal reference, a continued line, and a blank.
Plain == {<<"A", "=", "1">>, <<"A", "=", "$", "A">>, <<"B", "=", "SQ", "$", "A", "SQ">>,
          <<"B", "=", "$", "A", "BSL">>, <<>>}

\* A comment, two faults of a line, an ENVFILE_* name, an odd quote.
Odd == {<<"#">>, <<"=", "1">>, <<"1", "=", "SP">>, <<"E", "=", "1">>, <<"A", "=", "DQ">>}

Ended(lines, ends) == {l \o e : l \in lines, e \in ends}

LfOrCrlf == {<<"LF">>, <<"CR", "LF">>}

\* Two lines: of any kind, the second without newline; or plain ones, the first
\* with a CRLF, the second with any end.
Contents ==
  {<<>>}
  \cup {a \o b : a \in Ended(Plain \cup Odd, {<<"LF">>}), b \in Plain \cup Odd}
  \cup {a \o b : a \in Ended(Plain, {<<"CR", "LF">>}), b \in Ended(Plain, LfOrCrlf \cup {<<>>, <<"CR">>})}

\* One, two or three backslashes.
Backslashes == {<<"BSL">>, <<"BSL", "BSL">>, <<"BSL", "BSL", "BSL">>}

\* Two lines with any ends, three plain lines, and lines that are joined where
\* backslashes meet.
LongContents ==
  {a \o b : a \in Ended(Plain, LfOrCrlf), b \in Ended(Plain \cup Odd, LfOrCrlf)}
  \cup {a \o b \o c : a, b, c \in Ended(Plain, {<<"LF">>})}
  \cup {<<"A", "=">> \o a \o <<"LF">> \o b \o <<"LF">> \o c : a, b \in Backslashes, c \in {<<>>, <<"1">>}}

File(bytes) == [kind |-> "file", bytes |-> bytes]

\* Files that are refused, or not, depending on the settings.
Refusable == {File(<<"BOM", "A", "=", "1">>), File(<<"BOM">>), File(<<"A", "=", "1", "LF", "NUL">>),
              [kind |-> "unreadable", bytes |-> <<>>]}

\* Bindings that meet across files.
Meeting == {File(<<"A", "=", "1", "LF">>), File(<<"B", "=", "$", "A", "LF">>),
            File(<<"A", "=", "1", "BSL", "LF">>)}

MCArgs ==
  {<<File(c)>> : c \in Contents \cup {<<"BOM">>}} \cup {<<>>} \cup {<<[kind |-> "unnamed", bytes |-> <<>>]>>}
  \cup {<<f, g>> : f, g \in Refusable \cup Meeting}

\* A reference in a value, and the value the reference uses as a sentinel.
MCLiteralArgs ==
  {<<File(l)>> : l \in {<<"A", "=", "SOH">>, <<"B", "=", "$", "A">>, <<"B", "=", "$", "B">>}}

MCLongArgs == MCArgs \cup MCLiteralArgs \cup {<<File(c)>> : c \in LongContents}

MCConfigNames == {<<"E">>}

MCEnvirons == {(<<"B">> :> <<"x">>) @@ (<<"E">> :> <<"1">>)}
=============================================================================
