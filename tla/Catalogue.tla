----------------------------- MODULE Catalogue ------------------------------
(***************************************************************************)
(* languages.env and what src/bin/lang makes of it: the implementations    *)
(* there are, and which of them can be run here.                           *)
(***************************************************************************)
EXTENDS Integers, Sequences, FiniteSetsExt, SequencesExt

CONSTANTS
  Entries,   \* a function from languages to their entries of languages.env
  None       \* no extension, no search path

ASSUME CatalogueOk ==
  /\ \A l \in DOMAIN Entries :
       /\ Entries[l].execution \in {"built", "scripted"}
       /\ Entries[l].preference \in Nat
  /\ \A l, m \in DOMAIN Entries : l # m =>
       /\ Entries[l].preference # Entries[m].preference
       /\ Entries[l].extension = Entries[m].extension => Entries[l].extension = None

\* lang list built, lang list scripted: the most preferred first.
Listed(bucket) ==
  LET ls       == {l \in DOMAIN Entries : Entries[l].execution = bucket}
      place(l) == Cardinality({m \in ls : Entries[m].preference <= Entries[l].preference})
  IN [n \in 1..Cardinality(ls) |-> CHOOSE l \in ls : place(l) = n]

\* An extension stands for its language (rs for rust).
Alias(name) ==
  IF name # None /\ \E l \in DOMAIN Entries : Entries[l].extension = name
  THEN CHOOSE l \in DOMAIN Entries : Entries[l].extension = name ELSE name

-----------------------------------------------------------------------------
(* What a checkout of the repository on some machine offers: host.present   *)
(* are the languages whose bin/envfile.* is executable, host.path the tools *)
(* on PATH, host.runtime those on ENVFILE_RUNTIME_PATH, or None.            *)

\* The tools lang looks among: ENVFILE_RUNTIME_PATH, if set, instead of PATH.
ToolsSeen(host) == IF host.runtime = None THEN host.path ELSE host.runtime

\* lang NAME envfile succeeds: the file is executable, and a script's
\* interpreter can be found.
Available(host, name) ==
  LET l == Alias(name)
  IN /\ l \in DOMAIN Entries
     /\ Entries[l].execution = "scripted" => Entries[l].exec \in ToolsSeen(host)
     /\ l \in host.present
=============================================================================
