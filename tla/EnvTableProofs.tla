--------------------------- MODULE EnvTableProofs ---------------------------
(***************************************************************************)
(* The environment table of the C front-end is a map, for every set of     *)
(* names, every process environment and every first capacity.  That no     *)
(* name is there twice is inductive together with the types; it makes the  *)
(* backward search find the only pair of a name (FindOnly), and from that  *)
(* follow the listing and the refinement.                                  *)
(***************************************************************************)
EXTENDS EnvTable, FiniteSetTheorems, SequenceTheorems, TLAPS

Unique == \A i, j \in 1..Len(pairs) : pairs[i].key = pairs[j].key => i = j

\* The search for a name that is bound finds a pair of that name.
LEMMA FindFinds ==
  ASSUME TableTypeOK, Unique, NEW key, Bound(key)
  PROVE  /\ Find(key) \in 1..Len(pairs)
         /\ pairs[Find(key)].key = key
<1>1. PICK i \in 1..Len(pairs) : pairs[i].key = key
  BY DEF Bound
<1>2. Len(pairs) \in Nat
  BY DEF TableTypeOK
<1>3. \A j \in (i + 1)..Len(pairs) : pairs[j].key # key
  BY <1>1, <1>2 DEF Unique
<1>4. QED
  BY <1>1, <1>3 DEF Find

\* What the search finds for the name of a pair is that pair.
LEMMA FindOnly ==
  ASSUME TableTypeOK, Unique, NEW i \in 1..Len(pairs)
  PROVE  Find(pairs[i].key) = i
<1>1. Bound(pairs[i].key)
  BY DEF Bound
<1>2. /\ Find(pairs[i].key) \in 1..Len(pairs)
      /\ pairs[Find(pairs[i].key)].key = pairs[i].key
  BY <1>1, FindFinds
<1>3. QED
  BY <1>2 DEF Unique

\* A pair that is replaced keeps its place and its name, the others everything.
LEMMA ReplaceEffect ==
  ASSUME TableTypeOK, Unique, NEW key \in EnvKey, NEW value \in EnvValue, Replace(key, value)
  PROVE  /\ Find(key) \in 1..Len(pairs) /\ pairs[Find(key)].key = key
         /\ pairs' \in Seq(Pair) /\ Len(pairs') = Len(pairs)
         /\ \A i \in 1..Len(pairs) :
              pairs'[i] = IF i = Find(key) THEN [key |-> key, value |-> value] ELSE pairs[i]
         /\ cap' = cap
<1>1. Find(key) \in 1..Len(pairs) /\ pairs[Find(key)].key = key
  BY FindFinds DEF Replace
<1>2. pairs \in Seq(Pair) /\ pairs[Find(key)] \in Pair
  BY <1>1 DEF TableTypeOK
<1>3. [pairs[Find(key)] EXCEPT !.value = value] = [key |-> key, value |-> value]
  BY <1>1, <1>2 DEF Pair
<1> DEFINE at == Find(key)
           new == [key |-> key, value |-> value]
<1> HIDE DEF at
<1>4. pairs' = [pairs EXCEPT ![at] = new]
  BY <1>3 DEF Replace, at
<1>5. new \in Pair
  BY DEF Pair
<1>6. at \in 1..Len(pairs)
  BY <1>1 DEF at
<1>7. pairs' \in Seq(Pair) /\ Len(pairs') = Len(pairs)
  BY <1>2, <1>4, <1>5, <1>6
<1>8. \A i \in 1..Len(pairs) : pairs'[i] = IF i = at THEN new ELSE pairs[i]
  BY <1>2, <1>4, <1>6
<1>9. QED
  BY <1>1, <1>7, <1>8 DEF Replace, at

\* A pair that is added is the last one; there is room for it.
LEMMA AddEffect ==
  ASSUME TableTypeOK, Len(pairs) <= cap, NEW key \in EnvKey, NEW value \in EnvValue, Add(key, value)
  PROVE  /\ pairs' \in Seq(Pair) /\ Len(pairs') = Len(pairs) + 1
         /\ \A i \in 1..Len(pairs) : pairs'[i] = pairs[i]
         /\ pairs'[Len(pairs) + 1] = [key |-> key, value |-> value]
         /\ \A i \in 1..Len(pairs) : pairs[i].key # key
         /\ cap' \in Nat /\ Len(pairs') <= cap'
<1>1. [key |-> key, value |-> value] \in Pair /\ pairs \in Seq(Pair) /\ Len(pairs) \in Nat
  BY DEF Pair, TableTypeOK
<1>2. pairs' \in Seq(Pair) /\ Len(pairs') = Len(pairs) + 1
  BY <1>1 DEF Add
<1>3. \A i \in 1..Len(pairs) : pairs'[i] = pairs[i]
  BY <1>1 DEF Add
<1>4. pairs'[Len(pairs) + 1] = [key |-> key, value |-> value]
  BY <1>1 DEF Add
<1>5. \A i \in 1..Len(pairs) : pairs[i].key # key
  BY DEF Add, Bound
<1>6. Reserved \in Nat /\ Len(pairs) + 1 <= Reserved
  BY <1>1, FirstCapacity DEF Reserved, TableTypeOK
<1>7. QED
  BY <1>2, <1>3, <1>4, <1>5, <1>6 DEF Add

Table == TableTypeOK /\ TableInv

LEMMA TableUnique == Table => TableTypeOK /\ Unique /\ Len(pairs) <= cap
BY DEF Table, TableInv, Unique

\* A call of env_table_set_n, whether it succeeds or fails, keeps the table one.
LEMMA SetKeeps ==
  ASSUME Table, NEW key \in EnvKey, NEW value \in EnvValue, Set(key, value)
  PROVE  pairs' \in Seq(Pair) /\ cap' \in Nat /\ TableInv'
<1>1. CASE Replace(key, value)
  <2> DEFINE at == Find(key)
  <2>1. /\ at \in 1..Len(pairs) /\ pairs[at].key = key
        /\ pairs' \in Seq(Pair) /\ Len(pairs') = Len(pairs)
        /\ \A i \in 1..Len(pairs) :
             pairs'[i] = IF i = at THEN [key |-> key, value |-> value] ELSE pairs[i]
        /\ cap' = cap
    BY <1>1, TableUnique, ReplaceEffect
  <2> HIDE DEF at
  <2>2. /\ pairs' \in Seq(Pair) /\ Len(pairs') = Len(pairs) /\ cap' = cap
        /\ \A i \in 1..Len(pairs) : pairs'[i].key = pairs[i].key
    BY <2>1
  <2>3. QED
    BY <2>2 DEF Table, TableInv, TableTypeOK
<1>2. CASE Add(key, value)
  <2>1. /\ pairs' \in Seq(Pair) /\ Len(pairs') = Len(pairs) + 1
        /\ \A i \in 1..Len(pairs) : pairs'[i] = pairs[i]
        /\ pairs'[Len(pairs) + 1].key = key
        /\ \A i \in 1..Len(pairs) : pairs[i].key # key
        /\ cap' \in Nat /\ Len(pairs') <= cap'
    <3>1. /\ pairs' \in Seq(Pair) /\ Len(pairs') = Len(pairs) + 1
          /\ \A i \in 1..Len(pairs) : pairs'[i] = pairs[i]
          /\ pairs'[Len(pairs) + 1] = [key |-> key, value |-> value]
          /\ \A i \in 1..Len(pairs) : pairs[i].key # key
          /\ cap' \in Nat /\ Len(pairs') <= cap'
      BY <1>2, TableUnique, AddEffect
    <3>2. QED
      BY <3>1
  <2>2. ASSUME NEW i \in 1..Len(pairs'), NEW j \in 1..Len(pairs'), pairs'[i].key = pairs'[j].key
        PROVE  i = j
    <3>1. Len(pairs) \in Nat
      BY DEF Table, TableTypeOK
    <3>2. CASE i \in 1..Len(pairs) /\ j \in 1..Len(pairs)
      BY <2>1, <2>2, <3>2 DEF Table, TableInv
    <3>3. CASE i = Len(pairs) + 1 /\ j \in 1..Len(pairs)
      BY <2>1, <2>2, <3>3
    <3>4. CASE j = Len(pairs) + 1 /\ i \in 1..Len(pairs)
      BY <2>1, <2>2, <3>4
    <3>5. CASE i = Len(pairs) + 1 /\ j = Len(pairs) + 1
      BY <3>5
    <3>6. QED
      BY <2>1, <3>1, <3>2, <3>3, <3>4, <3>5
  <2>3. QED
    BY <2>1, <2>2 DEF TableInv
<1>3. QED
  BY <1>1, <1>2 DEF Set

LEMMA FailureKeeps ==
  ASSUME Table, NEW key \in EnvKey, SetFails(key)
  PROVE  pairs' \in Seq(Pair) /\ cap' \in Nat /\ TableInv'
<1>1. Reserved \in Nat /\ Len(pairs) <= Reserved
  BY FirstCapacity DEF Reserved, Table, TableInv, TableTypeOK
<1>2. cap' \in Nat /\ Len(pairs) <= cap' /\ pairs' = pairs
  BY <1>1 DEF SetFails, Table, TableInv, TableTypeOK
<1>3. QED
  BY <1>2 DEF Table, TableInv, TableTypeOK

\* The entry that is taken is an entry.
LEMMA EntryType ==
  ASSUME TableTypeOK, AtEntry
  PROVE  /\ ep + 1 \in 0..Len(environ)
         /\ Entry.key \in EnvKey \cup {NoKey} /\ Entry.value \in EnvValue
<1>1. environ \in Seq([key : EnvKey \cup {NoKey}, value : EnvValue])
  BY Entries DEF TableTypeOK
<1>2. ep \in 0..Len(environ) /\ ep < Len(environ)
  BY DEF TableTypeOK, AtEntry
<1>3. Len(environ) \in Nat
  BY <1>1
<1>4. ep + 1 \in 1..Len(environ)
  BY <1>2, <1>3
<1> DEFINE E == [key : EnvKey \cup {NoKey}, value : EnvValue]
<1> HIDE DEF E
<1>5. environ \in Seq(E)
  BY <1>1 DEF E
<1>6. environ[ep + 1] \in E
  BY <1>4, <1>5, ElementOfSeq
<1>7. environ[ep + 1] \in [key : EnvKey \cup {NoKey}, value : EnvValue]
  BY <1>6 DEF E
<1>8. QED
  BY <1>3, <1>4, <1>7 DEF Entry

LEMMA HowMany == ASSUME TableTypeOK PROVE Cardinality(ShouldEmit) \in Nat
<1>1. IsFiniteSet(1..Len(pairs))
  BY FS_Interval DEF TableTypeOK
<1>2. IsFiniteSet(ShouldEmit)
  BY <1>1, FS_Subset DEF ShouldEmit
<1>3. QED
  BY <1>2, FS_CardinalityType

LEMMA InitTable == TableInit => Table
BY DEF TableInit, Table, TableTypeOK, TableInv, Pair

LEMMA NextTable == Table /\ [TableNext]_tableVars => Table'
<1> SUFFICES ASSUME Table, [TableNext]_tableVars PROVE Table'
  OBVIOUS
<1>1. TableTypeOK
  BY DEF Table
<1>2. CASE SkipEntry
  <2>1. ep' \in 0..Len(environ)
    BY <1>1, <1>2, EntryType DEF SkipEntry
  <2>2. QED
    BY <1>2, <2>1 DEF SkipEntry, Table, TableTypeOK, TableInv
<1>3. CASE SeedEntry
  <2>1. AtEntry /\ Entry.key \in EnvKey /\ Entry.value \in EnvValue
    BY <1>1, <1>3, EntryType DEF SeedEntry
  <2>2. ep' \in 0..Len(environ)
    BY <1>1, <1>3, EntryType DEF SeedEntry
  <2>3. pairs' \in Seq(Pair) /\ cap' \in Nat /\ TableInv'
    BY <1>3, <2>1, SetKeeps DEF SeedEntry
  <2>4. QED
    BY <1>1, <1>3, <2>2, <2>3 DEF SeedEntry, Table, TableTypeOK
<1>4. CASE SeedFails
  <2>1. AtEntry /\ Entry.key \in EnvKey
    BY <1>1, <1>4, EntryType DEF SeedFails
  <2>2. pairs' \in Seq(Pair) /\ cap' \in Nat /\ TableInv'
    BY <1>4, <2>1, FailureKeeps DEF SeedFails
  <2>3. QED
    BY <1>1, <1>4, <2>2 DEF SeedFails, Table, TableTypeOK
<1>5. CASE Seeded
  BY <1>5 DEF Seeded, Table, TableTypeOK, TableInv
<1>6. CASE BindRecord
  <2>1. pairs' \in Seq(Pair) /\ cap' \in Nat /\ TableInv'
    BY <1>6, SetKeeps DEF BindRecord
  <2>2. QED
    BY <1>1, <1>6, <2>1 DEF BindRecord, Table, TableTypeOK
<1>7. CASE BindFails
  <2>1. pairs' \in Seq(Pair) /\ cap' \in Nat /\ TableInv'
    BY <1>7, FailureKeeps DEF BindFails
  <2>2. QED
    BY <1>1, <1>7, <2>1 DEF BindFails, Table, TableTypeOK
<1>8. CASE EmitSorted
  <2>1. listing' \in Seq(Pair)
    <3>1. PICK order \in [1..Cardinality(ShouldEmit) -> ShouldEmit] :
            listing' = [a \in DOMAIN order |-> pairs[order[a]]]
      BY <1>8 DEF EmitSorted
    <3>2. \A i \in ShouldEmit : pairs[i] \in Pair
      BY <1>1 DEF ShouldEmit, TableTypeOK
    <3> DEFINE m == Cardinality(ShouldEmit)
    <3>3. m \in Nat /\ DOMAIN order = 1..m
      BY <1>1, <3>1, HowMany
    <3> HIDE DEF m
    <3>4. \A a \in 1..m : pairs[order[a]] \in Pair
      BY <3>1, <3>2, <3>3
    <3>5. listing' = [a \in 1..m |-> pairs[order[a]]]
      BY <3>1, <3>3
    <3>6. QED
      BY <3>3, <3>4, <3>5
  <2>2. QED
    BY <1>1, <1>8, <2>1 DEF EmitSorted, Table, TableTypeOK, TableInv
<1>9. CASE EmitFails
  BY <1>9 DEF EmitFails, Table, TableTypeOK, TableInv
<1>10. CASE UNCHANGED tableVars
  BY <1>10 DEF tableVars, Table, TableTypeOK, TableInv
<1>11. QED
  BY <1>2, <1>3, <1>4, <1>5, <1>6, <1>7, <1>8, <1>9, <1>10 DEF TableNext
\* The types of the table, its environment and its listing are as declared.
THEOREM TypeCorrect == TableSpec => []TableTypeOK
<1>1. TableSpec => []Table
  BY InitTable, NextTable, PTL DEF TableSpec
<1>2. Table => TableTypeOK
  BY DEF Table
<1>3. QED
  BY <1>1, <1>2, PTL

\* No name is ever in the table twice, and the table never exceeds its room,
\* whatever the process environment repeats and whatever allocation fails.
THEOREM KeysUnique == TableSpec => []TableInv
<1>1. TableSpec => []Table
  BY InitTable, NextTable, PTL DEF TableSpec
<1>2. Table => TableInv
  BY DEF Table
<1>3. QED
  BY <1>1, <1>2, PTL

-----------------------------------------------------------------------------
(* The listing. *)

LEMMA EmitLists == ASSUME Table, EmitSorted PROVE ListingInv'
<1>1. PICK order \in [1..Cardinality(ShouldEmit) -> ShouldEmit] :
        Sorts(order) /\ listing' = [a \in DOMAIN order |-> pairs[order[a]]]
  BY DEF EmitSorted
<1> DEFINE m == Cardinality(ShouldEmit)
<1>2. m \in Nat /\ DOMAIN order = 1..m
  BY <1>1, HowMany DEF Table
<1> HIDE DEF m
<1>3. listing' = [a \in 1..m |-> pairs[order[a]]]
  BY <1>1, <1>2
<1>4. Len(listing') = m
  BY <1>2, <1>3
<1>5. \A a \in 1..m : order[a] \in 1..Len(pairs) /\ pairs[order[a]].key \notin ConfigKey
  BY <1>1, <1>2 DEF ShouldEmit
<1>6. pairs' = pairs
  BY DEF EmitSorted
<1>7. \A i \in 1..Len(pairs) : pairs[i].key \in Int
  <2>1. \A i \in 1..Len(pairs) : pairs[i] \in Pair
    BY ElementOfSeq DEF Table, TableTypeOK
  <2>2. QED
    BY <2>1, Keys DEF Pair
<1>8. ASSUME NEW a \in 1..m, NEW b \in 1..m, a < b
      PROVE  pairs[order[a]].key < pairs[order[b]].key
  <2>1. order[a] # order[b] /\ pairs[order[a]].key <= pairs[order[b]].key
    BY <1>1, <1>2, <1>8 DEF Sorts
  <2>2. pairs[order[a]].key # pairs[order[b]].key
    BY <1>5, <2>1 DEF Table, TableInv
  <2>3. pairs[order[a]].key \in Int /\ pairs[order[b]].key \in Int
    BY <1>5, <1>7
  <2>4. QED
    BY <2>1, <2>2, <2>3
<1>9. \A i \in 1..Len(pairs) :
        pairs[i].key \notin ConfigKey => \E a \in 1..m : order[a] = i
  BY <1>1, <1>2 DEF Sorts, ShouldEmit
<1>10. QED
  BY <1>3, <1>4, <1>5, <1>6, <1>8, <1>9 DEF ListingInv

\* The listing of apply holds every bound name that is not an ENVFILE_ name
\* once, in order, with its value, although qsort is not stable.
THEOREM ListedOnce == TableSpec => []ListingInv
<1>1. TableInit => ListingInv
  BY DEF TableInit, ListingInv
<1>2. Table /\ ListingInv /\ [TableNext]_tableVars => ListingInv'
  <2> SUFFICES ASSUME Table, ListingInv, [TableNext]_tableVars PROVE ListingInv'
    OBVIOUS
  <2>1. CASE EmitSorted
    BY <2>1, EmitLists
  <2>2. CASE UNCHANGED tableVars
    BY <2>2 DEF tableVars, ListingInv
  <2>3. CASE phase' # "listed"
    BY <2>3 DEF ListingInv
  <2>4. QED
    BY <2>1, <2>2, <2>3
    DEF TableNext, SkipEntry, SeedEntry, SeedFails, Seeded, BindRecord, BindFails, EmitFails, AtEntry
<1>3. QED
  BY <1>1, <1>2, InitTable, NextTable, PTL DEF TableSpec

-----------------------------------------------------------------------------
(* The refinement. *)

\* The map an array of pairs stands for, of any array.
FindIn(p, key) ==
  CHOOSE i \in 1..Len(p) : p[i].key = key /\ \A j \in (i + 1)..Len(p) : p[j].key # key

EnvIn(p) == [k \in {p[i].key : i \in 1..Len(p)} |-> p[FindIn(p, k)].value]

UniqueIn(p) == \A i, j \in 1..Len(p) : p[i].key = p[j].key => i = j

LEMMA EnvInValue ==
  ASSUME NEW p, Len(p) \in Nat, UniqueIn(p), NEW i \in 1..Len(p)
  PROVE  EnvIn(p)[p[i].key] = p[i].value
<1>1. \A j \in (i + 1)..Len(p) : p[j].key # p[i].key
  BY DEF UniqueIn
<1>2. FindIn(p, p[i].key) \in 1..Len(p) /\ p[FindIn(p, p[i].key)].key = p[i].key
  BY <1>1 DEF FindIn
<1>3. FindIn(p, p[i].key) = i
  BY <1>2 DEF UniqueIn
<1>4. QED
  BY <1>3 DEF EnvIn

\* The second array binds key to value and is otherwise the first.
Updates(p, q, key, value) ==
  /\ \A i \in 1..Len(p) :
       \E j \in 1..Len(q) : q[j].key = p[i].key /\ (p[i].key # key => q[j] = p[i])
  /\ \A j \in 1..Len(q) : q[j].key = key \/ \E i \in 1..Len(p) : q[j] = p[i]
  /\ \E j \in 1..Len(q) : q[j].key = key /\ q[j].value = value

\* The second map is the first with value bound to key.
Rebound(e, f, key, value) ==
  /\ DOMAIN f = DOMAIN e \cup {key}
  /\ f[key] = value
  /\ \A k \in DOMAIN f : k # key => f[k] = e[k]

LEMMA EnvInBound ==
  ASSUME NEW p, NEW q, Len(p) \in Nat, Len(q) \in Nat, UniqueIn(p), UniqueIn(q),
         NEW key, NEW value, Updates(p, q, key, value)
  PROVE  Rebound(EnvIn(p), EnvIn(q), key, value)
<1>1. /\ \A i \in 1..Len(p) :
           \E j \in 1..Len(q) : q[j].key = p[i].key /\ (p[i].key # key => q[j] = p[i])
      /\ \A j \in 1..Len(q) : q[j].key = key \/ \E i \in 1..Len(p) : q[j] = p[i]
      /\ \E j \in 1..Len(q) : q[j].key = key /\ q[j].value = value
  BY DEF Updates
<1>2. DOMAIN EnvIn(p) = {p[i].key : i \in 1..Len(p)} /\ DOMAIN EnvIn(q) = {q[j].key : j \in 1..Len(q)}
  BY DEF EnvIn
<1>3. DOMAIN EnvIn(q) = DOMAIN EnvIn(p) \cup {key}
  <2>1. DOMAIN EnvIn(q) \subseteq DOMAIN EnvIn(p) \cup {key}
    BY <1>1, <1>2
  <2>2. DOMAIN EnvIn(p) \cup {key} \subseteq DOMAIN EnvIn(q)
    BY <1>1, <1>2
  <2>3. QED
    BY <2>1, <2>2
<1>4. EnvIn(q)[key] = value
  BY <1>1, EnvInValue
<1>5. ASSUME NEW k \in DOMAIN EnvIn(q), k # key
      PROVE  EnvIn(q)[k] = EnvIn(p)[k]
  <2>1. PICK i \in 1..Len(p) : p[i].key = k
    BY <1>2, <1>3, <1>5
  <2>2. PICK j \in 1..Len(q) : q[j] = p[i]
    BY <1>1, <1>5, <2>1
  <2>3. EnvIn(p)[k] = p[i].value
    BY <2>1, EnvInValue
  <2>4. EnvIn(q)[k] = q[j].value
    BY <2>1, <2>2, EnvInValue
  <2>5. QED
    BY <2>2, <2>3, <2>4
<1>6. QED
  BY <1>3, <1>4, <1>5 DEF Rebound

EnvOf == [k \in BoundKeys |-> pairs[Find(k)].value]

LEMMA EnvOfIs == EnvOf = EnvIn(pairs) /\ EnvOf' = EnvIn(pairs')
BY DEF EnvOf, EnvIn, FindIn, BoundKeys, Find

LEMMA SetUpdates ==
  ASSUME Table, NEW key \in EnvKey, NEW value \in EnvValue, Set(key, value)
  PROVE  Updates(pairs, pairs', key, value)
<1>1. CASE Replace(key, value)
  <2> DEFINE at == Find(key)
             new == [key |-> key, value |-> value]
  <2>1. /\ at \in 1..Len(pairs) /\ pairs[at].key = key /\ Len(pairs') = Len(pairs)
        /\ \A i \in 1..Len(pairs) : pairs'[i] = IF i = at THEN new ELSE pairs[i]
    BY <1>1, TableUnique, ReplaceEffect
  <2>2. new.key = key /\ new.value = value
    OBVIOUS
  <2> HIDE DEF at, new
  <2>3. QED
    BY <2>1, <2>2 DEF Updates
<1>2. CASE Add(key, value)
  <2> DEFINE new == [key |-> key, value |-> value]
  <2>1. /\ Len(pairs') = Len(pairs) + 1
        /\ \A i \in 1..Len(pairs) : pairs'[i] = pairs[i]
        /\ pairs'[Len(pairs) + 1] = new
    BY <1>2, TableUnique, AddEffect
  <2>2. new.key = key /\ new.value = value
    OBVIOUS
  <2> HIDE DEF new
  <2>3. QED
    BY <2>1, <2>2 DEF Updates
<1>3. QED
  BY <1>1, <1>2 DEF Set

LEMMA SetBinds ==
  ASSUME Table, NEW key \in EnvKey, NEW value \in EnvValue, Set(key, value), Table'
  PROVE  Env!Bind(key, value)
<1>1. Len(pairs) \in Nat /\ Len(pairs') \in Nat /\ UniqueIn(pairs) /\ UniqueIn(pairs')
  BY DEF Table, TableTypeOK, TableInv, UniqueIn
<1>2. Updates(pairs, pairs', key, value)
  BY SetUpdates
<1>3. PICK q : q = pairs'
  OBVIOUS
<1>4. Len(q) \in Nat /\ UniqueIn(q) /\ Updates(pairs, q, key, value)
  BY <1>1, <1>2, <1>3
<1>5. Rebound(EnvIn(pairs), EnvIn(q), key, value)
  BY <1>1, <1>4, EnvInBound
<1>6. EnvIn(q) = [k \in DOMAIN EnvIn(q) |-> EnvIn(q)[k]]
  BY DEF EnvIn
<1>7. EnvIn(q) = [k \in DOMAIN EnvIn(pairs) \cup {key} |->
                    IF k = key THEN value ELSE EnvIn(pairs)[k]]
  BY <1>5, <1>6 DEF Rebound
<1>8. EnvOf' = EnvIn(q)
  BY <1>3, EnvOfIs
<1>9. asked' = <<key, value>>
  BY DEF Set
<1>10. QED
  BY <1>7, <1>8, <1>9, EnvOfIs DEF Env!Bind, EnvOf

\* The array, searched from its end, implements a map: a call that succeeds
\* binds its name and changes no other, any other step changes nothing.
THEOREM TableIsMap == TableSpec => ImplementsMap
<1>1. TableInit => Env!Init
  BY DEF TableInit, Env!Init, BoundKeys
<1>2. Table /\ [TableNext]_tableVars /\ Table' => [Env!Next]_<<EnvOf, asked>>
  <2> SUFFICES ASSUME Table, [TableNext]_tableVars, Table' PROVE [Env!Next]_<<EnvOf, asked>>
    OBVIOUS
  <2>1. CASE SeedEntry
    <3>1. Entry.key \in EnvKey /\ Entry.value \in EnvValue
      BY <2>1, EntryType DEF SeedEntry, Table
    <3>2. Env!Bind(Entry.key, Entry.value)
      BY <2>1, <3>1, SetBinds DEF SeedEntry
    <3>3. QED
      BY <3>1, <3>2 DEF Env!Next
  <2>2. CASE BindRecord
    <3>1. PICK key \in EnvKey, value \in EnvValue : Set(key, value)
      BY <2>2 DEF BindRecord
    <3>2. Env!Bind(key, value)
      BY <3>1, SetBinds
    <3>3. QED
      BY <3>1, <3>2 DEF Env!Next
  <2>3. CASE pairs' = pairs /\ asked' = asked
    BY <2>3, EnvOfIs
  <2>4. QED
    BY <2>1, <2>2, <2>3
    DEF TableNext, tableVars, SkipEntry, SeedFails, SetFails, Seeded, BindFails, EmitSorted, EmitFails
<1>3. TableSpec => []Table
  BY InitTable, NextTable, PTL DEF TableSpec
<1>4. QED
  BY <1>1, <1>2, <1>3, PTL DEF TableSpec, ImplementsMap, Env!Spec, Env!vars, EnvOf
-----------------------------------------------------------------------------
(* The last entry of a name. *)

\* The last entry of every name so far has a pair, wherever it is.
SeedsHeld ==
  \A e \in Seeds :
    (\A d \in Seeds : d > e => environ[d].key # environ[e].key) =>
      \E i \in 1..Len(pairs) :
        pairs[i].key = environ[e].key /\ pairs[i].value = environ[e].value

LEMMA HeldWins == Table /\ SeedsHeld => LastEntryWins
<1> SUFFICES ASSUME Table, SeedsHeld, NEW e \in Seeds,
                    \A d \in Seeds : d > e => environ[d].key # environ[e].key
             PROVE  Bound(environ[e].key) /\ pairs[Find(environ[e].key)].value = environ[e].value
  BY DEF LastEntryWins
<1>1. PICK i \in 1..Len(pairs) :
        pairs[i].key = environ[e].key /\ pairs[i].value = environ[e].value
  BY DEF SeedsHeld
<1>2. Bound(environ[e].key)
  BY <1>1 DEF Bound
<1>3. Find(environ[e].key) = i
  BY <1>1, TableUnique, FindOnly
<1>4. QED
  BY <1>1, <1>2, <1>3

LEMMA SeedHeld ==
  ASSUME Table, SeedsHeld, SeedEntry
  PROVE  SeedsHeld'
<1> DEFINE key == environ[ep + 1].key
           value == environ[ep + 1].value
<1>1. AtEntry /\ key \in EnvKey /\ value \in EnvValue /\ key \notin ConfigKey \cup {NoKey}
  BY EntryType DEF SeedEntry, Table, Entry
<1>2. Set(key, value)
  BY DEF SeedEntry, Entry
<1> HIDE DEF key, value
<1>3. Updates(pairs, pairs', key, value)
  BY <1>1, <1>2, SetUpdates
<1>4. ep \in Nat /\ ep' = ep + 1 /\ environ' = environ
  BY DEF SeedEntry, Table, TableTypeOK
<1>5. Seeds' = Seeds \cup {ep + 1} /\ \A e \in Seeds : e \in 1..ep
  BY <1>1, <1>4 DEF Seeds, key
<1> SUFFICES ASSUME NEW e \in Seeds',
                    \A d \in Seeds' : d > e => environ[d].key # environ[e].key
             PROVE  \E i \in 1..Len(pairs') :
                      pairs'[i].key = environ[e].key /\ pairs'[i].value = environ[e].value
  BY <1>4 DEF SeedsHeld
<1>6. CASE e = ep + 1
  BY <1>3, <1>6 DEF Updates, key, value
<1>7. CASE e \in Seeds
  <2>1. environ[e].key # key
    BY <1>4, <1>5, <1>7 DEF key
  <2>2. PICK i \in 1..Len(pairs) :
          pairs[i].key = environ[e].key /\ pairs[i].value = environ[e].value
    BY <1>5, <1>7 DEF SeedsHeld
  <2>3. PICK j \in 1..Len(pairs') : pairs'[j] = pairs[i]
    BY <1>3, <2>1, <2>2 DEF Updates
  <2>4. QED
    BY <2>2, <2>3
<1>8. QED
  BY <1>5, <1>6, <1>7

\* Of a name that the process environment repeats the last entry is the one
\* references are resolved with, for every environment (envfile.c:256-263).
THEOREM LastEntryHeld == TableSpec => []LastEntryWins
<1> DEFINE Held == phase = "init" => SeedsHeld
<1>1. TableInit => Held
  BY DEF TableInit, SeedsHeld, Seeds
<1>2. Table /\ Held /\ [TableNext]_tableVars => Held'
  <2> SUFFICES ASSUME Table, Held, [TableNext]_tableVars, phase' = "init" PROVE SeedsHeld'
    OBVIOUS
  <2>1. CASE SkipEntry
    <3>1. ep \in Nat /\ ep' = ep + 1 /\ UNCHANGED <<environ, pairs>> /\ SeedsHeld
      BY <2>1 DEF SkipEntry, AtEntry, Table, TableTypeOK
    <3>2. Seeds' = Seeds
      BY <2>1, <3>1 DEF SkipEntry, Seeds, Entry
    <3>3. QED
      BY <3>1, <3>2 DEF SeedsHeld
  <2>2. CASE SeedEntry
    BY <2>2, SeedHeld DEF SeedEntry, AtEntry
  <2>3. CASE UNCHANGED tableVars
    BY <2>3 DEF tableVars, SeedsHeld, Seeds
  <2>4. QED
    BY <2>1, <2>2, <2>3
    DEF TableNext, SeedFails, Seeded, BindRecord, BindFails, EmitSorted, EmitFails
<1>3. Table /\ Held => LastEntryWins
  BY HeldWins DEF LastEntryWins
<1>4. QED
  BY <1>1, <1>2, <1>3, InitTable, NextTable, PTL DEF TableSpec
=============================================================================
