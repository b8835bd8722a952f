----------------------------- MODULE MCEnvfileC -----------------------------
(***************************************************************************)
(* The C program on the command lines of MCRuns, next to the reference;    *)
(* and on lines and joined lines that exceed its buffers, with every       *)
(* allocation free to fail: one file of up to three lines, or two files.   *)
(***************************************************************************)
EXTENDS EnvfileC, MCRuns

Ones(k) == [j \in 1..k |-> "1"]

\* From shorter than WORK_BUF - READ_BUF to longer than WORK_BUF.
Pieces == {<<"A", "=", "$", "A">>, <<"B", "=">> \o Ones(13) \o <<"BSL">>, <<"A", "=">> \o Ones(17),
           <<"=">>, <<"1", "BSL">>, <<>>}

MCTightArgs ==
  {<<File(a \o b \o c)>> : a, b \in Ended(Pieces, {<<"LF">>}), c \in Pieces}
  \cup {<<File(a), File(b)>> : a \in Ended(Pieces, {<<"CR", "LF">>}), b \in Pieces}

MCTightOptions == Settings(BOOLEAN, {"literal"}, {"reject"})

MCAllArgs == MCArgs \cup MCTightArgs

MCAllOptions == MCOptions \cup MCTightOptions

MCInit ==
  /\ Init
  /\ IF args \in MCTightArgs THEN opt \in MCTightOptions ELSE opt \in MCOptions /\ ~scarce

MCSpec == MCInit /\ [][Next]_vars
=============================================================================
