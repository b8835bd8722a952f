------------------------------ MODULE EnvTable ------------------------------
(***************************************************************************)
(* EnvTable of src/src/c/envfile.c, the environment that delta and apply   *)
(* resolve references in: an array of pairs that grows by doubling, is     *)
(* searched from its end, is filled from the process environment and then  *)
(* by the records, and is at last listed in the order of its keys.         *)
(*                                                                         *)
(* Every allocation may fail.  A key is its rank in the order of strcmp.   *)
(***************************************************************************)
EXTENDS Integers, Sequences, FiniteSets

CONSTANTS
  EnvKey,       \* names a pair may have
  ConfigKey,    \* those that begin with ENVFILE_
  NoKey,        \* of an environment entry without `=`, or with nothing before it
  EnvValue,
  Environs,     \* process environments: entries in their order, repeated names too
  MinCap        \* first capacity (32 in the code)

ASSUME Keys == EnvKey \subseteq Int /\ ConfigKey \subseteq EnvKey /\ NoKey \notin EnvKey

ASSUME Entries == Environs \subseteq Seq([key : EnvKey \cup {NoKey}, value : EnvValue])

ASSUME FirstCapacity == MinCap \in Nat \ {0}

VARIABLES
  phase,     \* "init", "run", then "listed", "unlisted" or "fatal"
  environ,
  ep,        \* entries of environ taken so far
  pairs,     \* the first `len` elements of the array
  cap,       \* elements allocated
  asked,     \* arguments of the last call of env_table_set_n that succeeded
  listing    \* what apply has printed

tableVars == <<phase, environ, ep, pairs, cap, asked, listing>>

TableInit ==
  /\ phase = "init"
  /\ environ \in Environs /\ ep = 0
  /\ pairs = << >> /\ cap = 0 /\ asked = << >> /\ listing = << >>

-----------------------------------------------------------------------------
(* env_table_find_n, env_table_reserve and env_table_set_n *)

Bound(key) == \E i \in 1..Len(pairs) : pairs[i].key = key

\* The search begins at the last pair.
Find(key) ==
  CHOOSE i \in 1..Len(pairs) :
    pairs[i].key = key /\ \A j \in (i + 1)..Len(pairs) : pairs[j].key # key

\* Mutant of Reserved: makes room for the pairs there are, not for one more.
ReservedShort == IF Len(pairs) <= cap THEN cap ELSE IF cap = 0 THEN MinCap ELSE 2 * cap

\* `while (cap < need) cap *= 2`, of which one more pair needs one turn at most.
Reserved ==
  LET need  == Len(pairs) + 1
      start == IF cap = 0 THEN MinCap ELSE cap
  IN IF need <= cap THEN cap
     ELSE IF start < need THEN 2 * start ELSE start

\* Mutant of Replace: keeps the old value.
ReplaceNothing(key, value) == Bound(key) /\ UNCHANGED <<pairs, cap>>

\* Mutant of Replace: writes to the last pair.
ReplaceLast(key, value) ==
  /\ Bound(key)
  /\ pairs' = [pairs EXCEPT ![Len(pairs)].value = value]
  /\ UNCHANGED cap

Replace(key, value) ==
  /\ Bound(key)
  /\ pairs' = [pairs EXCEPT ![Find(key)].value = value]
  /\ UNCHANGED cap

Add(key, value) ==
  /\ ~Bound(key)
  /\ cap' = Reserved
  /\ pairs' = Append(pairs, [key |-> key, value |-> value])

Set(key, value) ==
  /\ Replace(key, value) \/ Add(key, value)
  /\ asked' = <<key, value>>

\* Returns 0: the copy of the value, the array or the new pair could not be
\* allocated; the array may have grown all the same.
SetFails(key) ==
  /\ UNCHANGED <<pairs, asked>>
  /\ cap' \in {cap, IF Bound(key) THEN cap ELSE Reserved}

-----------------------------------------------------------------------------
(* env_table_init_from_process *)

Entry == environ[ep + 1]

AtEntry == phase = "init" /\ ep < Len(environ)

SkipEntry ==
  /\ AtEntry
  /\ Entry.key \in ConfigKey \cup {NoKey}
  /\ ep' = ep + 1
  /\ UNCHANGED <<phase, environ, pairs, cap, asked, listing>>

\* Mutant of SeedEntry: without the test for an entry that has no name.
SeedUnnamed ==
  /\ AtEntry
  /\ Entry.key \notin ConfigKey
  /\ Set(Entry.key, Entry.value)
  /\ ep' = ep + 1
  /\ UNCHANGED <<phase, environ, listing>>

SeedEntry ==
  /\ AtEntry
  /\ Entry.key \notin ConfigKey \cup {NoKey}
  /\ Set(Entry.key, Entry.value)
  /\ ep' = ep + 1
  /\ UNCHANGED <<phase, environ, listing>>

\* main gives up with exit status 1.
SeedFails ==
  /\ AtEntry
  /\ Entry.key \notin ConfigKey \cup {NoKey}
  /\ SetFails(Entry.key)
  /\ phase' = "fatal"
  /\ UNCHANGED <<environ, ep, listing>>

Seeded ==
  /\ phase = "init" /\ ep = Len(environ)
  /\ phase' = "run"
  /\ UNCHANGED <<environ, ep, pairs, cap, asked, listing>>

-----------------------------------------------------------------------------
(* The records of the files, and the listing at the end. *)

\* scan_stream binds a record, whatever its name.
BindRecord ==
  /\ phase = "run"
  /\ \E key \in EnvKey, value \in EnvValue : Set(key, value)
  /\ UNCHANGED <<phase, environ, ep, listing>>

BindFails ==
  /\ phase = "run"
  /\ \E key \in EnvKey : SetFails(key)
  /\ UNCHANGED <<phase, environ, ep, listing>>

\* Mutant of ShouldEmit: ENVFILE_ names are not left out.
EmitAll == 1..Len(pairs)

ShouldEmit == {i \in 1..Len(pairs) : pairs[i].key \notin ConfigKey}

\* What qsort may make of the pairs: it does not keep the order of equal keys.
Sorts(order) ==
  /\ \A a, b \in DOMAIN order : a # b => order[a] # order[b]
  /\ \A i \in ShouldEmit : \E a \in DOMAIN order : order[a] = i
  /\ \A a, b \in DOMAIN order : a < b => pairs[order[a]].key <= pairs[order[b]].key

EmitSorted ==
  /\ phase = "run"
  /\ phase' = "listed"
  /\ \E order \in [1..Cardinality(ShouldEmit) -> ShouldEmit] :
       Sorts(order) /\ listing' = [a \in DOMAIN order |-> pairs[order[a]]]
  /\ UNCHANGED <<environ, ep, pairs, cap, asked>>

\* malloc(env->len * sizeof *sorted) fails: nothing is printed.
EmitFails ==
  /\ phase = "run" /\ pairs # << >>
  /\ phase' = "unlisted"
  /\ UNCHANGED <<environ, ep, pairs, cap, asked, listing>>

TableNext ==
  \/ SkipEntry \/ SeedEntry \/ SeedFails \/ Seeded
  \/ BindRecord \/ BindFails \/ EmitSorted \/ EmitFails

TableSpec == TableInit /\ [][TableNext]_tableVars

-----------------------------------------------------------------------------
(* Properties. *)

Pair == [key : EnvKey, value : EnvValue]

TableTypeOK ==
  /\ phase \in {"init", "run", "listed", "unlisted", "fatal"}
  /\ environ \in Environs /\ ep \in 0..Len(environ)
  /\ pairs \in Seq(Pair) /\ cap \in Nat
  /\ listing \in Seq(Pair)

\* However names repeat, in the process environment or in the records, the
\* array never holds a name twice, nor more pairs than it has room for.
TableInv ==
  /\ \A i, j \in 1..Len(pairs) : pairs[i].key = pairs[j].key => i = j
  /\ Len(pairs) <= cap

\* What is listed does not depend on how qsort treats equal keys: each name
\* that is bound is there once, in strictly increasing order, with the value
\* it is bound to, and nothing else is.
ListingInv ==
  phase = "listed" =>
    /\ \A a, b \in 1..Len(listing) : a < b => listing[a].key < listing[b].key
    /\ \A a \in 1..Len(listing) :
         /\ listing[a].key \notin ConfigKey
         /\ \E i \in 1..Len(pairs) : pairs[i] = listing[a]
    /\ \A i \in 1..Len(pairs) :
         pairs[i].key \notin ConfigKey => \E a \in 1..Len(listing) : listing[a] = pairs[i]

\* The entries taken so far that count.
Seeds == {e \in 1..ep : environ[e].key \notin ConfigKey \cup {NoKey}}

\* Of a name that the process environment repeats the last entry counts.
LastEntryWins ==
  phase = "init" =>
    \A e \in Seeds :
      (\A d \in Seeds : d > e => environ[d].key # environ[e].key) =>
        Bound(environ[e].key) /\ pairs[Find(environ[e].key)].value = environ[e].value

BoundKeys == {pairs[i].key : i \in 1..Len(pairs)}

Env == INSTANCE EnvMap WITH Key <- EnvKey, Value <- EnvValue,
                           env <- [k \in BoundKeys |-> pairs[Find(k)].value]

\* Searched as it is, the array is a map: a call that succeeds binds the name it
\* was asked to and touches no other, a failed call leaves it as it was.
ImplementsMap == Env!Spec
=============================================================================
