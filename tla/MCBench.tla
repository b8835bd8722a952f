------------------------------ MODULE MCBench -------------------------------
(***************************************************************************)
(* Three languages of which up to two can be run; more fixtures, and more  *)
(* files in the corpus, than are taken; warm-ups that settle, stay flat,   *)
(* become worse again, or are cut off by either limit.                     *)
(***************************************************************************)
EXTENDS Bench, TLC

Entry(execution, exec, extension, preference) ==
  [execution |-> execution, exec |-> exec, extension |-> extension, preference |-> preference]

MCEntries ==
  ("awk" :> Entry("scripted", "awk", None, 0)) @@ ("c" :> Entry("built", None, None, 5))
  @@ ("sh" :> Entry("scripted", "sh", None, 10))

MCByPath == <<"awk", "c", "sh">>

Host(present, path, runtime) ==
  [present |-> present, path |-> path, runtime |-> runtime,
   fixtures |-> "shell" :> {3, 1, 2} @@ "native" :> {}, corpus |-> {{1}, {2, 3}}]

\* Two of the languages; one, as the other's interpreter is not on the path;
\* none; and a checkout without the directories.
MCHosts ==
  {Host(p, {"awk", "sh"}, None) : p \in {{"awk", "c"}, {"awk", "sh"}, {"c", "sh"}, {}}}
  \cup {Host({"awk", "sh"}, {"awk", "sh"}, {"sh"}), Host({"awk", "c"}, {"sh"}, None),
        [Host({"c"}, {}, None) EXCEPT !.fixtures = "shell" :> None @@ "native" :> None, !.corpus = None]}
=============================================================================
