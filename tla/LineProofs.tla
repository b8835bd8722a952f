----------------------------- MODULE LineProofs -----------------------------
(***************************************************************************)
(* What the parsers make of bytes, for files and lines of any length and   *)
(* whatever the bytes are: what their searches find, the lines a file has, *)
(* and the record a line is.  The C and the assembly backend and the other *)
(* ports classify every line as the reference does: the blank test on the  *)
(* untrimmed line equals the reference's on the trimmed one (SameBlanks,   *)
(* RustSkips), the two tests of a name are one (SameNames), and the text   *)
(* between the quotes is the same however it is cut out (SameValues,       *)
(* PortUnquotes).  The proofs about whole programs rest on these lemmas.   *)
(***************************************************************************)
EXTENDS Ports, AwkPrePass, WellFoundedInduction, SequenceTheorems, TLAPS

-----------------------------------------------------------------------------
(* Searching. *)

\* A set of positions has a first one.
LEMMA First ==
  ASSUME NEW T \in SUBSET Nat, T # {}
  PROVE  \E i \in T : \A j \in T : i <= j
<1> DEFINE R == OpToRel(<, Nat)
<1>1. \A i, j \in Nat : i < j => <<i, j>> \in R
  BY DEF OpToRel
<1>2. \E i \in T : \A j \in T : <<j, i>> \notin R
  BY NatLessThanWellFounded, WFMin
<1> HIDE DEF R
<1>3. PICK i \in T : \A j \in T : <<j, i>> \notin R
  BY <1>2
<1>4. \A j \in T : ~ (j < i)
  BY <1>1, <1>3
<1>5. \A j \in T : i <= j
  BY <1>4
<1>6. QED
  BY <1>5

LEMMA IndexFinds ==
  ASSUME NEW s \in Seq(Byte), NEW c
  PROVE  /\ Index(s, c) \in 0..Len(s)
         /\ Index(s, c) = 0 <=> ~Has(s, c)
         /\ Index(s, c) > 0 => s[Index(s, c)] = c /\ \A j \in 1..(Index(s, c) - 1) : s[j] # c
<1>1. CASE ~Has(s, c)
  BY <1>1 DEF Index
<1>2. CASE Has(s, c)
  <2> DEFINE T == {i \in 1..Len(s) : s[i] = c}
  <2>1. T \in SUBSET Nat /\ T # {}
    BY <1>2 DEF Has
  <2>2. PICK i \in T : \A j \in T : i <= j
    BY <2>1, First
  <2>3. s[i] = c /\ \A j \in 1..(i - 1) : s[j] # c
    BY <2>2
  <2>4. QED
    BY <1>2, <2>3 DEF Index
<1>3. QED
  BY <1>1, <1>2

LEMMA AfterType ==
  ASSUME NEW s \in Seq(Byte), NEW n \in 0..Len(s)
  PROVE  /\ After(s, n) \in Seq(Byte)
         /\ Len(After(s, n)) = Len(s) - n
         /\ \A i \in 1..(Len(s) - n) : After(s, n)[i] = s[n + i]
BY DEF After

\* The names that begin after position n have a longest one.
LEMMA NameLengthFinds ==
  ASSUME NEW s \in Seq(Byte), NEW n \in 0..Len(s)
  PROVE  NameLength(s, n) \in 0..(Len(s) - n)
<1> DEFINE m == Len(s) - n
           Named(k) == IsName(SubSeq(s, n + 1, n + k))
           T == {k \in 0..m : \A j \in (k + 1)..m : ~Named(j)}
<1>1. m \in Nat
  OBVIOUS
<1> HIDE DEF Named, m
<1>2. m \in T
  BY <1>1
<1>3. PICK k \in T : \A j \in T : k <= j
  <2>1. T \in SUBSET Nat /\ T # {}
    BY <1>1, <1>2
  <2>2. QED
    BY <2>1, First
<1>4. k > 0 => Named(k)
  <2>1. ASSUME k > 0, ~Named(k) PROVE k - 1 \in T
    <3>1. k - 1 \in 0..m /\ \A j \in ((k - 1) + 1)..m : j = k \/ j \in (k + 1)..m
      BY <1>1, <1>3, <2>1
    <3>2. QED
      BY <1>3, <2>1, <3>1
  <2>2. QED
    BY <1>1, <1>3, <2>1
<1>5. QED
  BY <1>3, <1>4 DEF NameLength, Named, m
-----------------------------------------------------------------------------
(* Recursive functions.  An index has a measure, and what a function is at *)
(* an index depends only on what it is at indices of a smaller measure.    *)

\* A set that goes on does not end.
LEMMA SetInduction ==
  ASSUME NEW T, 0 \in T, \A j \in Nat : j \in T => j + 1 \in T
  PROVE  Nat \subseteq T
<1> SUFFICES ASSUME Nat \ T # {} PROVE FALSE
  OBVIOUS
<1>1. PICK l \in Nat \ T : \A j \in Nat \ T : l <= j
  BY First
<1>2. l # 0 /\ l - 1 \in Nat /\ (l - 1) + 1 = l
  BY <1>1
<1>3. l - 1 \in T
  BY <1>1, <1>2
<1>4. QED
  BY <1>1, <1>2, <1>3

\* What holds at an index if it holds at those of a smaller measure holds.
LEMMA MeasureInduction ==
  ASSUME NEW I, NEW mu \in [I -> Nat], NEW T,
         \A n \in I : (\A k \in I : mu[k] < mu[n] => k \in T) => n \in T
  PROVE  I \subseteq T
<1> SUFFICES ASSUME NEW o \in I, o \notin T PROVE FALSE
  OBVIOUS
<1> DEFINE Left == {mu[n] : n \in I \ T}
<1>1. Left \in SUBSET Nat /\ Left # {}
  OBVIOUS
<1>2. PICK l \in Left : \A j \in Left : l <= j
  BY <1>1, First
<1>3. PICK n \in I \ T : mu[n] = l
  OBVIOUS
<1>4. ASSUME NEW k \in I, mu[k] < mu[n] PROVE k \in T
  <2>1. ASSUME k \notin T PROVE mu[k] \in Left /\ l <= mu[k]
    BY <1>2, <2>1
  <2>2. QED
    BY <1>3, <1>4, <2>1
<1>5. QED
  BY <1>3, <1>4

\* g is a solution as far as the measure is below j.
Solves(I, mu, D, g, j) == \A n \in I : mu[n] < j => g[n] = D[<<g, n>>]

\* What D makes of a function at an index lies in R, and depends only on the
\* function at indices of a smaller measure, which is at most m.
Recurses(I, R, m, mu, D) ==
  /\ m \in Nat /\ R # {} /\ mu \in [I -> 0..m]
  /\ D \in [[I -> R] \X I -> R]
  /\ \A g, h \in [I -> R] : \A n \in I :
       (\A k \in I : mu[k] < mu[n] => g[k] = h[k]) => D[<<g, n>>] = D[<<h, n>>]

\* There is a function that D makes itself of.
Solved(I, R, D) == \E g \in [I -> R] : \A n \in I : g[n] = D[<<g, n>>]

LEMMA RecursionSolved ==
  ASSUME NEW I, NEW R, NEW m, NEW mu, NEW D, Recurses(I, R, m, mu, D)
  PROVE  Solved(I, R, D)
<1> USE DEF Recurses
<1> DEFINE T == {j \in Nat : \E g \in [I -> R] : Solves(I, mu, D, g, j)}
<1>1. 0 \in T
  <2> PICK r \in R : TRUE
    OBVIOUS
  <2>1. [n \in I |-> r] \in [I -> R] /\ \A n \in I : ~(mu[n] < 0)
    OBVIOUS
  <2>2. QED
    BY <2>1 DEF Solves
<1>2. ASSUME NEW j \in Nat, NEW g \in [I -> R], Solves(I, mu, D, g, j)
      PROVE  \E h \in [I -> R] : Solves(I, mu, D, h, j + 1)
  <2> DEFINE h == [n \in I |-> IF mu[n] = j THEN D[<<g, n>>] ELSE g[n]]
  <2>1. h \in [I -> R]
    OBVIOUS
  <2>2. \A n \in I : mu[n] < j => h[n] = g[n] /\ g[n] = D[<<g, n>>]
    BY <1>2 DEF Solves
  <2>3. \A n \in I : mu[n] = j => h[n] = D[<<g, n>>]
    OBVIOUS
  <2> HIDE DEF h
  <2>4. \A n \in I : mu[n] < j + 1 => mu[n] < j \/ mu[n] = j
    <3>1. \A n \in I : mu[n] \in Nat
      OBVIOUS
    <3>2. \A q \in Nat : q < j + 1 => q < j \/ q = j
      OBVIOUS
    <3>3. QED
      BY <3>1, <3>2
  <2>5. \A n \in I : mu[n] < j + 1 => h[n] = D[<<g, n>>]
    BY <2>2, <2>3, <2>4
  <2>6. ASSUME NEW n \in I, mu[n] < j + 1 PROVE D[<<h, n>>] = D[<<g, n>>]
    <3>1. \A k \in I : mu[k] < mu[n] => mu[k] < j
      BY <2>6
    <3>2. \A k \in I : mu[k] < mu[n] => h[k] = g[k]
      BY <2>2, <3>1
    <3>3. \A f1, f2 \in [I -> R] :
            (\A k \in I : mu[k] < mu[n] => f1[k] = f2[k]) => D[<<f1, n>>] = D[<<f2, n>>]
      BY Zenon
    <3> DEFINE E(f) == D[<<f, n>>]
    <3> HIDE DEF E
    <3>5. \A f1, f2 \in [I -> R] :
            (\A k \in I : mu[k] < mu[n] => f1[k] = f2[k]) => E(f1) = E(f2)
      BY <3>3 DEF E
    <3>6. E(h) = E(g)
      BY <2>1, <3>2, <3>5
    <3>7. QED
      BY <3>6 DEF E
  <2> HIDE DEF Recurses
  <2>7. \A n \in I : mu[n] < j + 1 => h[n] = D[<<h, n>>]
    BY <2>5, <2>6, Zenon
  <2>8. Solves(I, mu, D, h, j + 1)
    BY <2>7 DEF Solves
  <2>9. QED
    BY <2>1, <2>8, Zenon
<1>3. \A j \in Nat : j \in T => j + 1 \in T
  BY <1>2
<1>4. m + 1 \in T
  <2> HIDE DEF T
  <2>1. Nat \subseteq T
    BY <1>1, <1>3, SetInduction
  <2>2. QED
    BY <2>1
<1>5. PICK g \in [I -> R] : Solves(I, mu, D, g, m + 1)
  BY <1>4
<1>6. \A n \in I : g[n] = D[<<g, n>>]
  BY <1>5 DEF Solves
<1>7. QED
  BY <1>6 DEF Solved
-----------------------------------------------------------------------------
(* subst, of a value and an environment in which only bytes of B occur.    *)

Results(B) == [text : Seq(B), unbound : Nat]

\* What the bytes after position n become, given what those further on do.
SubstFrom(val, env, g, n) ==
  LET brace == Index(After(val, n + 2), RBRACE)
      name  == NameLength(val, n + 1)
  IN IF n = Len(val) THEN Literally(<<>>)
     ELSE IF val[n + 1] # DOLLAR
          THEN Then(Literally(<<val[n + 1]>>), g[n + 1])
     ELSE IF n + 1 < Len(val) /\ val[n + 2] = LBRACE
          THEN IF brace = 0 THEN Literally(After(val, n))
               ELSE Then(Lookup(env, SubSeq(val, n + 3, n + 1 + brace)), g[n + 2 + brace])
     ELSE IF name = 0 THEN Then(Literally(<<DOLLAR>>), g[n + 1])
     ELSE Then(Lookup(env, SubSeq(val, n + 2, n + 1 + name)), g[n + 1 + name])

LEMMA ThenType ==
  ASSUME NEW B, NEW a \in Results(B), NEW b \in Results(B)
  PROVE  Then(a, b) \in Results(B)
BY DEF Then, Results

LEMMA LookupType ==
  ASSUME NEW B, NEW env, \A k \in DOMAIN env : env[k] \in Seq(B), NEW name
  PROVE  Lookup(env, name) \in Results(B)
<1>1. << >> \in Seq(B)
  OBVIOUS
<1>2. QED
  BY <1>1 DEF Lookup, Results

\* The searches of a turn that finds a dollar sign after position n.
LEMMA TurnFinds ==
  ASSUME NEW B \in SUBSET Byte, NEW val \in Seq(B), NEW n \in 0..Len(val), n < Len(val)
  PROVE  /\ val \in Seq(Byte) /\ val[n + 1] \in B /\ After(val, n) \in Seq(B)
         /\ NameLength(val, n + 1) \in 0..(Len(val) - (n + 1))
         /\ n + 1 < Len(val) => Index(After(val, n + 2), RBRACE) \in 0..(Len(val) - (n + 2))
<1>1. val \in Seq(Byte) /\ val[n + 1] \in B /\ After(val, n) \in Seq(B)
  BY DEF After
<1>2. n + 1 \in 0..Len(val) /\ (n + 1 < Len(val) => n + 2 \in 0..Len(val))
  OBVIOUS
<1>3. n + 1 < Len(val) => After(val, n + 2) \in Seq(Byte) /\ Len(After(val, n + 2)) = Len(val) - (n + 2)
  BY <1>1, <1>2, AfterType
<1>4. n + 1 < Len(val) => Index(After(val, n + 2), RBRACE) \in 0..(Len(val) - (n + 2))
  BY <1>3, IndexFinds
<1>5. QED
  BY <1>1, <1>2, <1>4, NameLengthFinds

LEMMA SubstFromType ==
  ASSUME NEW B \in SUBSET Byte, NEW val \in Seq(B), NEW n \in 0..Len(val),
         NEW env, \A k \in DOMAIN env : env[k] \in Seq(B),
         NEW g, \A k \in (n + 1)..Len(val) : g[k] \in Results(B)
  PROVE  SubstFrom(val, env, g, n) \in Results(B)
<1> DEFINE brace == Index(After(val, n + 2), RBRACE)
           name  == NameLength(val, n + 1)
<1>1. CASE n = Len(val)
  <2>1. << >> \in Seq(B)
    OBVIOUS
  <2>2. QED
    BY <1>1, <2>1 DEF SubstFrom, Literally, Results
<1>2. CASE n < Len(val)
  <2>1. /\ val[n + 1] \in B /\ After(val, n) \in Seq(B) /\ name \in 0..(Len(val) - (n + 1))
        /\ n + 1 < Len(val) => brace \in 0..(Len(val) - (n + 2))
    BY <1>2, TurnFinds
  <2>2. Literally(<<val[n + 1]>>) \in Results(B) /\ Literally(After(val, n)) \in Results(B)
    BY <2>1 DEF Literally, Results
  <2>3. \A s : Lookup(env, s) \in Results(B)
    BY LookupType
  <2>4. /\ g[n + 1] \in Results(B)
        /\ name > 0 => g[n + 1 + name] \in Results(B)
        /\ n + 1 < Len(val) /\ brace > 0 => g[n + 2 + brace] \in Results(B)
    <3> HIDE DEF brace, name
    <3>1. QED
      BY <1>2, <2>1
  <2>5. \A k : g[k] \in Results(B) =>
           Then(Literally(<<val[n + 1]>>), g[k]) \in Results(B)
           /\ \A s : Then(Lookup(env, s), g[k]) \in Results(B)
    BY <2>2, <2>3, ThenType
  <2> HIDE DEF brace, name
  <2>6. CASE val[n + 1] # DOLLAR
    BY <1>2, <2>4, <2>5, <2>6 DEF SubstFrom
  <2>7. CASE val[n + 1] = DOLLAR /\ n + 1 < Len(val) /\ val[n + 2] = LBRACE
    <3>1. brace = 0 \/ brace > 0
      BY <2>1, <2>7
    <3>2. QED
      BY <1>2, <2>2, <2>4, <2>5, <2>7, <3>1 DEF SubstFrom, brace
  <2>8. CASE val[n + 1] = DOLLAR /\ ~(n + 1 < Len(val) /\ val[n + 2] = LBRACE)
    <3>1. name = 0 \/ name > 0
      BY <2>1
    <3>2. QED
      BY <1>2, <2>4, <2>5, <2>8, <3>1 DEF SubstFrom, name
  <2>9. QED
    BY <2>6, <2>7, <2>8
<1>3. QED
  BY <1>1, <1>2

\* A turn depends only on what comes after it.
LEMMA SubstFromAgrees ==
  ASSUME NEW B \in SUBSET Byte, NEW val \in Seq(B), NEW n \in 0..Len(val), NEW env,
         NEW g, NEW h, \A k \in (n + 1)..Len(val) : g[k] = h[k]
  PROVE  SubstFrom(val, env, g, n) = SubstFrom(val, env, h, n)
<1> DEFINE brace == Index(After(val, n + 2), RBRACE)
           name  == NameLength(val, n + 1)
<1>1. CASE n = Len(val)
  BY <1>1 DEF SubstFrom
<1>2. CASE n < Len(val)
  <2>1. /\ name \in 0..(Len(val) - (n + 1))
        /\ n + 1 < Len(val) => brace \in 0..(Len(val) - (n + 2))
    BY <1>2, TurnFinds
  <2> HIDE DEF brace, name
  <2>2. /\ g[n + 1] = h[n + 1]
        /\ name > 0 => g[n + 1 + name] = h[n + 1 + name]
        /\ n + 1 < Len(val) /\ brace > 0 => g[n + 2 + brace] = h[n + 2 + brace]
    BY <1>2, <2>1
  <2>3. (name = 0 \/ name > 0) /\ (n + 1 < Len(val) => brace = 0 \/ brace > 0)
    BY <2>1
  <2>4. QED
    BY <1>2, <2>2, <2>3 DEF SubstFrom, brace, name
<1>3. QED
  BY <1>1, <1>2

LEMMA SubstRest ==
  ASSUME NEW B \in SUBSET Byte, NEW val \in Seq(B),
         NEW env, \A k \in DOMAIN env : env[k] \in Seq(B)
  PROVE  \E f \in [0..Len(val) -> Results(B)] :
           /\ Subst(val, env) = f[0]
           /\ \A n \in 0..Len(val) : f[n] = SubstFrom(val, env, f, n)
<1> DEFINE m == Len(val)
           I == 0..m
           R == Results(B)
           mu == [n \in I |-> m - n]
           D == [x \in [I -> R] \X I |-> SubstFrom(val, env, x[1], x[2])]
           Solution(f) == f = [n \in I |-> SubstFrom(val, env, f, n)]
<1>1. m \in Nat /\ mu \in [I -> 0..m] /\ R # {}
  <2>1. [text |-> << >>, unbound |-> 0] \in R
    BY DEF Results
  <2>2. QED
    BY <2>1
<1>2. \A n \in I : \A k \in (n + 1)..m : k \in I /\ mu[k] < mu[n]
  BY <1>1
<1>3. \A g, n : n \in I /\ (\A k \in (n + 1)..m : g[k] \in R) => SubstFrom(val, env, g, n) \in R
  BY SubstFromType
<1>4. \A g, h, n : n \in I /\ (\A k \in (n + 1)..m : g[k] = h[k]) =>
        SubstFrom(val, env, g, n) = SubstFrom(val, env, h, n)
  BY SubstFromAgrees
<1>5. \A g \in [I -> R], n \in I : D[<<g, n>>] = SubstFrom(val, env, g, n)
  OBVIOUS
<1>6. D \in [[I -> R] \X I -> R]
  <2> HIDE DEF I, R, m, mu
  <2>1. \A x \in [I -> R] \X I : SubstFrom(val, env, x[1], x[2]) \in R
    BY <1>2, <1>3
  <2>2. QED
    BY <2>1
<1>7. \E g : Solution(g)
  <2> HIDE DEF mu, D, I, R, m
  <2>1. \A g, h \in [I -> R] : \A n \in I :
          (\A k \in I : mu[k] < mu[n] => g[k] = h[k]) => D[<<g, n>>] = D[<<h, n>>]
    <3> SUFFICES ASSUME NEW g \in [I -> R], NEW h \in [I -> R], NEW n \in I,
                        \A k \in I : mu[k] < mu[n] => g[k] = h[k]
                 PROVE  D[<<g, n>>] = D[<<h, n>>]
      OBVIOUS
    <3>1. \A k \in (n + 1)..m : g[k] = h[k]
      BY <1>2
    <3>2. QED
      BY <1>4, <1>5, <3>1
  <2>2. Recurses(I, R, m, mu, D)
    BY <1>1, <1>6, <2>1 DEF Recurses
  <2>3. Solved(I, R, D)
    BY <2>2, RecursionSolved
  <2>4. PICK g \in [I -> R] : \A n \in I : g[n] = D[<<g, n>>]
    BY <2>3 DEF Solved
  <2>5. g = [n \in I |-> SubstFrom(val, env, g, n)]
    BY <1>5, <2>4
  <2>6. QED
    BY <2>5
<1> DEFINE f == CHOOSE g : Solution(g)
<1>8. Solution(f)
  BY <1>7
<1>9. Subst(val, env) = f[0]
  BY DEF Subst, SubstFrom
<1> HIDE DEF f
<1>10. \A n \in I : f[n] = SubstFrom(val, env, f, n)
  BY <1>8
<1>11. \A n \in I : f[n] \in R
  <2> DEFINE T == {n \in I : f[n] \in R}
  <2>1. \A n \in I : (\A k \in I : mu[k] < mu[n] => k \in T) => n \in T
    <3> SUFFICES ASSUME NEW n \in I, \A k \in I : mu[k] < mu[n] => k \in T PROVE n \in T
      OBVIOUS
    <3> HIDE DEF mu, R, I, m
    <3>1. \A k \in (n + 1)..m : f[k] \in R
      BY <1>2
    <3>2. QED
      BY <1>3, <1>10, <3>1
  <2>2. mu \in [I -> Nat]
    BY <1>1
  <2> HIDE DEF T, mu, I, R, m
  <2>3. I \subseteq T
    BY <2>1, <2>2, MeasureInduction
  <2>4. QED
    BY <2>3 DEF T
<1>12. f \in [I -> R]
  BY <1>8, <1>11
<1>13. QED
  BY <1>9, <1>10, <1>12

\* subst makes text of text, and counts.
LEMMA SubstType ==
  ASSUME NEW B \in SUBSET Byte, NEW val \in Seq(B),
         NEW env, \A k \in DOMAIN env : env[k] \in Seq(B)
  PROVE  Subst(val, env) \in Results(B)
<1>1. PICK f \in [0..Len(val) -> Results(B)] : Subst(val, env) = f[0]
  BY SubstRest
<1>2. 0 \in 0..Len(val)
  OBVIOUS
<1>3. QED
  BY <1>1, <1>2
-----------------------------------------------------------------------------
(* The pre-passes. *)

\* The lines that begin at position p, given those that begin further on.
LinesFrom(bytes, g, p) ==
  LET nl == Index(After(bytes, p), LF)
  IN IF p = Len(bytes) THEN <<>>
     ELSE IF nl = 0 THEN <<After(bytes, p)>>
     ELSE <<SubSeq(bytes, p + 1, p + nl - 1)>> \o g[p + nl]

LEMMA CutType ==
  ASSUME NEW B, NEW s \in Seq(B), NEW a \in Nat \ {0}, NEW b \in Int, b <= Len(s)
  PROVE  SubSeq(s, a, b) \in Seq(B) /\ Len(SubSeq(s, a, b)) = IF a <= b THEN b - a + 1 ELSE 0
OBVIOUS

\* Where the line that begins at position p ends.
LEMMA NewlineFound ==
  ASSUME NEW B \in SUBSET Byte, NEW bytes \in Seq(B), NEW p \in 0..Len(bytes)
  PROVE  /\ bytes \in Seq(Byte) /\ After(bytes, p) \in Seq(B)
         /\ Index(After(bytes, p), LF) \in 0..(Len(bytes) - p)
<1>1. bytes \in Seq(Byte)
  OBVIOUS
<1>2. After(bytes, p) \in Seq(Byte) /\ Len(After(bytes, p)) = Len(bytes) - p
  BY <1>1, AfterType
<1>3. After(bytes, p) \in Seq(B)
  BY DEF After
<1>4. QED
  BY <1>1, <1>2, <1>3, IndexFinds

LEMMA LinesFromType ==
  ASSUME NEW B \in SUBSET Byte, NEW bytes \in Seq(B), NEW p \in 0..Len(bytes),
         NEW g, \A k \in (p + 1)..Len(bytes) : g[k] \in Seq(Seq(B))
  PROVE  LinesFrom(bytes, g, p) \in Seq(Seq(B))
<1> DEFINE nl == Index(After(bytes, p), LF)
<1>1. nl \in 0..(Len(bytes) - p) /\ After(bytes, p) \in Seq(B)
  BY NewlineFound
<1>2. nl > 0 => SubSeq(bytes, p + 1, p + nl - 1) \in Seq(B)
  BY <1>1
<1>3. nl > 0 => p + nl \in (p + 1)..Len(bytes)
  BY <1>1
<1> HIDE DEF nl
<1>4. nl > 0 => g[p + nl] \in Seq(Seq(B))
  BY <1>3
<1>5. QED
  BY <1>1, <1>2, <1>4 DEF LinesFrom, nl

LEMMA SplitLinesRest ==
  ASSUME NEW B \in SUBSET Byte, NEW bytes \in Seq(B)
  PROVE  \E f \in [0..Len(bytes) -> Seq(Seq(B))] :
           /\ SplitLines(bytes) = f[0]
           /\ \A p \in 0..Len(bytes) : f[p] = LinesFrom(bytes, f, p)
<1> DEFINE m == Len(bytes)
           I == 0..m
           R == Seq(Seq(B))
           mu == [p \in I |-> m - p]
           D == [x \in [I -> R] \X I |-> LinesFrom(bytes, x[1], x[2])]
           Solution(f) == f = [p \in I |-> LinesFrom(bytes, f, p)]
<1>1. m \in Nat /\ << >> \in R /\ mu \in [I -> 0..m]
  OBVIOUS
<1>2. D \in [[I -> R] \X I -> R]
  <2>1. ASSUME NEW g \in [I -> R], NEW p \in I PROVE LinesFrom(bytes, g, p) \in R
    <3>1. \A k \in (p + 1)..m : k \in I
      BY <1>1
    <3>2. \A k \in (p + 1)..Len(bytes) : g[k] \in Seq(Seq(B))
      BY <3>1
    <3>3. QED
      BY <3>2, LinesFromType
  <2> HIDE DEF I, R
  <2>2. \A x \in [I -> R] \X I : LinesFrom(bytes, x[1], x[2]) \in R
    BY <2>1
  <2>3. QED
    BY <2>2
<1>3. ASSUME NEW g, NEW h, NEW p \in I, \A k \in I : mu[k] < mu[p] => g[k] = h[k]
      PROVE  LinesFrom(bytes, g, p) = LinesFrom(bytes, h, p)
  <2> DEFINE nl == Index(After(bytes, p), LF)
  <2>1. nl \in 0..(m - p)
    BY NewlineFound
  <2>2. nl > 0 => p + nl \in I /\ mu[p + nl] < mu[p]
    BY <1>1, <2>1
  <2> HIDE DEF mu, nl
  <2>3. nl > 0 => g[p + nl] = h[p + nl]
    BY <1>3, <2>2
  <2>4. QED
    BY <2>1, <2>3 DEF LinesFrom, nl
<1>4. \A g \in [I -> R], p \in I : D[<<g, p>>] = LinesFrom(bytes, g, p)
  OBVIOUS
<1>5. \E g : Solution(g)
  <2>1. \A g, h \in [I -> R] : \A p \in I :
          (\A k \in I : mu[k] < mu[p] => g[k] = h[k]) => D[<<g, p>>] = D[<<h, p>>]
    <3> HIDE DEF mu, D, I, R
    <3>1. QED
      BY <1>3, <1>4
  <2> HIDE DEF mu, D, I, R, m
  <2>2. Recurses(I, R, m, mu, D)
    BY <1>1, <1>2, <2>1 DEF Recurses
  <2>3. Solved(I, R, D)
    BY <2>2, RecursionSolved
  <2>4. PICK g \in [I -> R] : \A p \in I : g[p] = D[<<g, p>>]
    BY <2>3 DEF Solved
  <2>5. g = [p \in I |-> LinesFrom(bytes, g, p)]
    BY <1>4, <2>4
  <2>6. QED
    BY <2>5
<1> DEFINE f == CHOOSE g : Solution(g)
<1>6. Solution(f)
  BY <1>5
<1>7. SplitLines(bytes) = f[0]
  BY DEF SplitLines, LinesFrom
<1> HIDE DEF f
<1>8. \A p \in I : f[p] = LinesFrom(bytes, f, p)
  BY <1>6
<1>9. \A p \in I : f[p] \in R
  <2> DEFINE T == {p \in I : f[p] \in R}
  <2>1. \A p \in I : (\A k \in I : mu[k] < mu[p] => k \in T) => p \in T
    <3> SUFFICES ASSUME NEW p \in I, \A k \in I : mu[k] < mu[p] => k \in T PROVE f[p] \in R
      BY <1>8
    <3>1. \A k \in (p + 1)..m : k \in I /\ mu[k] < mu[p]
      BY <1>1
    <3> HIDE DEF mu
    <3>2. \A k \in (p + 1)..m : f[k] \in R
      BY <3>1
    <3>3. QED
      BY <1>8, <3>2, LinesFromType
  <2>2. mu \in [I -> Nat]
    BY <1>1
  <2> HIDE DEF T, mu, I
  <2>3. I \subseteq T
    BY <2>1, <2>2, MeasureInduction
  <2>4. QED
    BY <2>3 DEF T
<1>10. f \in [I -> R]
  BY <1>6, <1>9
<1>11. QED
  BY <1>7, <1>8, <1>10
LEMMA SplitLinesType ==
  ASSUME NEW B \in SUBSET Byte, NEW bytes \in Seq(B)
  PROVE  SplitLines(bytes) \in Seq(Seq(B))
<1>1. PICK f \in [0..Len(bytes) -> Seq(Seq(B))] : SplitLines(bytes) = f[0]
  BY SplitLinesRest
<1>2. 0 \in 0..Len(bytes)
  OBVIOUS
<1>3. QED
  BY <1>1, <1>2

\* No pre-pass invents a byte.
LEMMA PrePassesType ==
  ASSUME NEW B \in SUBSET Byte, NEW bytes \in Seq(B), NEW o
  PROVE  PrePasses(o, bytes) \in Seq(Seq(B))
<1> DEFINE split == SplitLines(bytes)
           stripped == StripBom(o, split)
<1>1. split \in Seq(Seq(B))
  BY SplitLinesType
<1> HIDE DEF split
<1>2. stripped \in Seq(Seq(B))
  <2>1. CASE StartsWithBom(split) /\ o.bom = "strip"
    <3>1. split # << >> /\ split[1] # << >>
      BY <2>1 DEF StartsWithBom
    <3>2. 1 \in 1..Len(split) /\ split[1] \in Seq(B) /\ 1 \in 0..Len(split[1])
      BY <1>1, <3>1
    <3>3. After(split[1], 1) \in Seq(B)
      BY <3>2, CutType DEF After
    <3>4. stripped = [split EXCEPT ![1] = After(split[1], 1)]
      BY <2>1 DEF StripBom
    <3>5. QED
      BY <1>1, <3>2, <3>3, <3>4
  <2>2. CASE ~(StartsWithBom(split) /\ o.bom = "strip")
    BY <1>1, <2>2 DEF StripBom
  <2>3. QED
    BY <2>1, <2>2
<1> HIDE DEF stripped
<1>3. \A k \in 1..Len(stripped) : SubSeq(stripped[k], 1, Len(stripped[k]) - 1) \in Seq(B)
  <2> SUFFICES ASSUME NEW k \in 1..Len(stripped) PROVE SubSeq(stripped[k], 1, Len(stripped[k]) - 1) \in Seq(B)
    OBVIOUS
  <2>1. stripped[k] \in Seq(B)
    BY <1>2
  <2>2. QED
    BY <2>1, CutType
<1>4. StripCrlf(o, stripped) \in Seq(Seq(B))
  BY <1>2, <1>3 DEF StripCrlf
<1>5. QED
  BY <1>4 DEF PrePasses, split, stripped

-----------------------------------------------------------------------------
(* Logical lines. *)

\* A logical line ends somewhere.
LEMMA LastLineFound ==
  ASSUME NEW o, o.cont \in {"accept", "ignore"}, NEW ls, Len(ls) \in Nat, NEW a \in 1..Len(ls)
  PROVE  /\ LastLine(o, ls, a) \in a..Len(ls)
         /\ LET b == LastLine(o, ls, a)
            IN /\ b = Len(ls) \/ o.cont = "ignore" \/ ~OddBackslashes(Joined(ls, a, b))
               /\ \A k \in a..(b - 1) : o.cont = "accept" /\ OddBackslashes(Joined(ls, a, k))
<1> DEFINE Ends(b) == b = Len(ls) \/ ~(o.cont = "accept" /\ OddBackslashes(Joined(ls, a, b)))
           T == {b \in a..Len(ls) : Ends(b)}
<1>1. PICK b \in T : \A c \in T : b <= c
  <2>1. Len(ls) \in T /\ T \in SUBSET Nat
    OBVIOUS
  <2> HIDE DEF T
  <2>2. QED
    BY <2>1, First
<1>2. \A k \in a..(b - 1) : o.cont = "accept" /\ OddBackslashes(Joined(ls, a, k))
  <2> SUFFICES ASSUME NEW k \in a..(b - 1) PROVE ~Ends(k)
    OBVIOUS
  <2>1. k \notin T
    BY <1>1
  <2>2. QED
    BY <2>1
<1>3. QED
  BY <1>1, <1>2 DEF LastLine
\* What lines a to k read joined, given what they read up to k - 1.
JoinedTo(ls, a, g, k) ==
  IF k = a THEN ls[a] ELSE SubSeq(g[k - 1], 1, Len(g[k - 1]) - 1) \o ls[k]

LEMMA JoinedToType ==
  ASSUME NEW B, NEW ls \in Seq(Seq(B)), NEW a \in 1..Len(ls), NEW k \in a..Len(ls),
         NEW g, k > a => g[k - 1] \in Seq(B)
  PROVE  JoinedTo(ls, a, g, k) \in Seq(B)
<1>1. ls[k] \in Seq(B) /\ ls[a] \in Seq(B)
  OBVIOUS
<1>2. k > a => SubSeq(g[k - 1], 1, Len(g[k - 1]) - 1) \in Seq(B)
  BY CutType
<1>3. QED
  BY <1>1, <1>2 DEF JoinedTo

LEMMA JoinedRest ==
  ASSUME NEW B, NEW ls \in Seq(Seq(B)), NEW a \in 1..Len(ls), NEW b \in a..Len(ls)
  PROVE  \E f \in [a..b -> Seq(B)] :
           /\ Joined(ls, a, b) = f[b]
           /\ \A k \in a..b : f[k] = JoinedTo(ls, a, f, k)
<1> DEFINE m == b - a
           I == a..b
           R == Seq(B)
           mu == [k \in I |-> k - a]
           D == [x \in [I -> R] \X I |-> JoinedTo(ls, a, x[1], x[2])]
           Solution(f) == f = [k \in I |-> JoinedTo(ls, a, f, k)]
<1>1. m \in Nat /\ << >> \in R /\ mu \in [I -> 0..m]
  OBVIOUS
<1>2. \A k \in I : k \in a..Len(ls) /\ (k > a => k - 1 \in I /\ mu[k - 1] < mu[k])
  OBVIOUS
<1>3. D \in [[I -> R] \X I -> R]
  <2>1. ASSUME NEW g \in [I -> R], NEW k \in I PROVE JoinedTo(ls, a, g, k) \in R
    BY <1>2, JoinedToType
  <2> HIDE DEF I, R
  <2>2. \A x \in [I -> R] \X I : JoinedTo(ls, a, x[1], x[2]) \in R
    BY <2>1
  <2>3. QED
    BY <2>2
<1>4. ASSUME NEW g, NEW h, NEW k \in I, \A j \in I : mu[j] < mu[k] => g[j] = h[j]
      PROVE  JoinedTo(ls, a, g, k) = JoinedTo(ls, a, h, k)
  <2> HIDE DEF mu
  <2>1. CASE k = a
    BY <2>1 DEF JoinedTo
  <2>2. CASE k > a
    <3>1. g[k - 1] = h[k - 1]
      BY <1>2, <1>4, <2>2
    <3>2. QED
      BY <3>1 DEF JoinedTo
  <2>3. QED
    BY <2>1, <2>2
<1>5. \A g \in [I -> R], k \in I : D[<<g, k>>] = JoinedTo(ls, a, g, k)
  OBVIOUS
<1>6. \E g : Solution(g)
  <2> HIDE DEF mu, D, I, R, m
  <2>1. \A g, h \in [I -> R] : \A k \in I :
          (\A j \in I : mu[j] < mu[k] => g[j] = h[j]) => D[<<g, k>>] = D[<<h, k>>]
    <3> SUFFICES ASSUME NEW g \in [I -> R], NEW h \in [I -> R], NEW k \in I,
                        \A j \in I : mu[j] < mu[k] => g[j] = h[j]
                 PROVE  D[<<g, k>>] = D[<<h, k>>]
      OBVIOUS
    <3>1. JoinedTo(ls, a, g, k) = JoinedTo(ls, a, h, k)
      BY <1>4
    <3>2. QED
      BY <1>5, <3>1
  <2>2. Recurses(I, R, m, mu, D)
    BY <1>1, <1>3, <2>1 DEF Recurses
  <2>3. Solved(I, R, D)
    BY <2>2, RecursionSolved
  <2>4. PICK g \in [I -> R] : \A k \in I : g[k] = D[<<g, k>>]
    BY <2>3 DEF Solved
  <2>5. g = [k \in I |-> JoinedTo(ls, a, g, k)]
    BY <1>5, <2>4
  <2>6. QED
    BY <2>5
<1> DEFINE f == CHOOSE g : Solution(g)
<1>7. Solution(f)
  BY <1>6
<1>8. Joined(ls, a, b) = f[b]
  BY DEF Joined, JoinedTo
<1> HIDE DEF f
<1>9. \A k \in I : f[k] = JoinedTo(ls, a, f, k)
  BY <1>7
<1>10. \A k \in I : f[k] \in R
  <2> DEFINE T == {k \in I : f[k] \in R}
  <2>1. \A k \in I : (\A j \in I : mu[j] < mu[k] => j \in T) => k \in T
    <3> SUFFICES ASSUME NEW k \in I, \A j \in I : mu[j] < mu[k] => j \in T PROVE f[k] \in R
      OBVIOUS
    <3> HIDE DEF mu
    <3>1. k > a => f[k - 1] \in R
      BY <1>2
    <3>2. QED
      BY <1>2, <1>9, <3>1, JoinedToType
  <2>2. mu \in [I -> Nat]
    BY <1>1
  <2> HIDE DEF T, mu, I
  <2>3. I \subseteq T
    BY <2>1, <2>2, MeasureInduction
  <2>4. QED
    BY <2>3 DEF T
<1>11. f \in [I -> R]
  BY <1>7, <1>10
<1>12. QED
  BY <1>8, <1>9, <1>11

LEMMA JoinedType ==
  ASSUME NEW B, NEW ls \in Seq(Seq(B)), NEW a \in 1..Len(ls), NEW b \in a..Len(ls)
  PROVE  Joined(ls, a, b) \in Seq(B)
<1>1. PICK f \in [a..b -> Seq(B)] : Joined(ls, a, b) = f[b]
  BY JoinedRest
<1>2. QED
  BY <1>1

\* An odd number less one changes no parity.
LEMMA OddSum ==
  ASSUME NEW n \in Nat, NEW j \in Nat, j % 2 = 1
  PROVE  (n + (j - 1)) % 2 = n % 2
OBVIOUS

\* A function that joins the lines from a to b as their recursion does.
Joins(B, ls, a, b) ==
  \E f \in [a..b -> Seq(B)] :
    Joined(ls, a, b) = f[b] /\ \A k \in a..b : f[k] = JoinedTo(ls, a, f, k)

LEMMA JoinedByLines ==
  ASSUME NEW B, NEW ls \in Seq(Seq(B)), NEW a \in 1..Len(ls), NEW b \in a..Len(ls)
  PROVE  Joins(B, ls, a, b)
BY JoinedRest DEF Joins

\* A line that is joined to those before it replaces their last backslash.
LEMMA JoinedStep ==
  ASSUME NEW B, NEW ls \in Seq(Seq(B)), NEW a \in 1..Len(ls), NEW b \in a..Len(ls)
  PROVE  /\ b = a => Joined(ls, a, b) = ls[a]
         /\ b > a => Joined(ls, a, b) =
                       SubSeq(Joined(ls, a, b - 1), 1, Len(Joined(ls, a, b - 1)) - 1) \o ls[b]
<1>1. PICK f \in [a..b -> Seq(B)] :
        Joined(ls, a, b) = f[b] /\ \A k \in a..b : f[k] = JoinedTo(ls, a, f, k)
  BY JoinedRest
<1>2. f[b] = JoinedTo(ls, a, f, b)
  BY <1>1
<1>3. CASE b = a
  <2>1. Joined(ls, a, b) = ls[a]
    BY <1>1, <1>2, <1>3 DEF JoinedTo
  <2>2. ~(b > a)
    BY <1>3
  <2>3. QED
    BY <2>1, <2>2
<1>4. CASE b > a
  <2>1. b - 1 \in a..Len(ls)
    BY <1>4
  <2>a. Joins(B, ls, a, b - 1)
    BY <2>1, JoinedByLines
  <2> DEFINE I == a..(b - 1)
             mu == [k \in I |-> k - a]
  <2>2. PICK g \in [I -> Seq(B)] :
          Joined(ls, a, b - 1) = g[b - 1] /\ \A k \in I : g[k] = JoinedTo(ls, a, g, k)
    BY <2>a DEF Joins
  <2> DEFINE T == {k \in I : f[k] = g[k]}
  <2>3. \A k \in I : k \in a..b /\ (k # a => k - 1 \in I /\ mu[k - 1] < mu[k])
    BY <1>4
  <2>4. \A k \in I : (\A j \in I : mu[j] < mu[k] => j \in T) => k \in T
    <3> SUFFICES ASSUME NEW k \in I, \A j \in I : mu[j] < mu[k] => j \in T PROVE f[k] = g[k]
      OBVIOUS
    <3>1. k # a => k - 1 \in T
      BY <2>3
    <3> HIDE DEF mu
    <3>2. JoinedTo(ls, a, f, k) = JoinedTo(ls, a, g, k)
      BY <3>1 DEF JoinedTo, T
    <3>3. QED
      BY <1>1, <2>2, <2>3, <3>2
  <2>5. mu \in [I -> Nat]
    OBVIOUS
  <2>6. b - 1 \in I
    BY <1>4
  <2> HIDE DEF T, mu, I
  <2>7. I \subseteq T
    BY <2>4, <2>5, MeasureInduction
  <2>8. f[b - 1] = g[b - 1]
    BY <2>6, <2>7 DEF T
  <2>9. b # a
    BY <1>4
  <2>10. f[b] = SubSeq(f[b - 1], 1, Len(f[b - 1]) - 1) \o ls[b]
    BY <1>2, <2>9 DEF JoinedTo
  <2>11. QED
    BY <1>1, <2>2, <2>8, <2>9, <2>10
<1>5. QED
  BY <1>3, <1>4

\* Where nothing continues, and all before does, the logical line ends.
LEMMA LastLineIs ==
  ASSUME NEW o, o.cont \in {"accept", "ignore"}, NEW ls, Len(ls) \in Nat,
         NEW a \in 1..Len(ls), NEW b \in a..Len(ls),
         b = Len(ls) \/ o.cont = "ignore" \/ ~OddBackslashes(Joined(ls, a, b)),
         \A k \in a..(b - 1) : o.cont = "accept" /\ OddBackslashes(Joined(ls, a, k))
  PROVE  LastLine(o, ls, a) = b
<1> DEFINE c == LastLine(o, ls, a)
<1>1. /\ c \in a..Len(ls)
      /\ c = Len(ls) \/ o.cont = "ignore" \/ ~OddBackslashes(Joined(ls, a, c))
      /\ \A k \in a..(c - 1) : o.cont = "accept" /\ OddBackslashes(Joined(ls, a, k))
  BY LastLineFound
<1> HIDE DEF c
<1>2. ~(c < b)
  <2> SUFFICES ASSUME c < b PROVE FALSE
    OBVIOUS
  <2>1. c \in a..(b - 1) /\ c # Len(ls)
    BY <1>1
  <2>2. QED
    BY <1>1, <2>1
<1>3. ~(b < c)
  <2> SUFFICES ASSUME b < c PROVE FALSE
    OBVIOUS
  <2>1. b \in a..(c - 1) /\ b # Len(ls)
    BY <1>1
  <2>2. QED
    BY <1>1, <2>1
<1>4. QED
  BY <1>1, <1>2, <1>3 DEF c

\* Behind j - 1 backslashes, and j is odd, a line continues as it would alone.
Behind(u, t, m, n, j) ==
  /\ Len(u) = m + n /\ Len(t) = n /\ \A i \in 1..n : u[m + i] = t[i]
  /\ j % 2 = 1 /\ j <= m + 1 /\ \A i \in (m - j + 2)..m : u[i] = BSL
  /\ j <= m => u[m - j + 1] # BSL

LEMMA OddBehind ==
  ASSUME NEW u, NEW t, NEW m \in Nat, NEW n \in Nat, NEW j \in Nat \ {0}, Behind(u, t, m, n, j)
  PROVE  OddBackslashes(u) <=> OddBackslashes(t)
<1> USE DEF Behind
<1>1. ASSUME OddBackslashes(t) PROVE OddBackslashes(u)
  <2>1. PICK k \in 1..n : /\ k % 2 = 1
                          /\ \A i \in (n - k + 1)..n : t[i] = BSL
                          /\ k < n => t[n - k] # BSL
    BY <1>1 DEF OddBackslashes
  <2>2. CASE k < n
    <3>1. \A i \in (Len(u) - k + 1)..Len(u) : i - m \in (n - k + 1)..n /\ i - m \in 1..n /\ m + (i - m) = i
      <4> SUFFICES ASSUME NEW i \in (m + n - k + 1)..(m + n)
                   PROVE i - m \in (n - k + 1)..n /\ i - m \in 1..n /\ m + (i - m) = i
        OBVIOUS
      <4>1. k \in Nat /\ k < n /\ i \in Int /\ m + n - k + 1 <= i /\ i <= m + n
        BY <2>1, <2>2
      <4>2. QED
        BY <4>1
    <3>2. n - k \in 1..n /\ m + (n - k) = Len(u) - k /\ k \in 1..Len(u)
      BY <2>1, <2>2
    <3>3. \A i \in (Len(u) - k + 1)..Len(u) : u[i] = BSL
      BY <2>1, <3>1
    <3>4. u[Len(u) - k] # BSL
      BY <2>1, <2>2, <3>2
    <3>5. QED
      BY <2>1, <3>2, <3>3, <3>4 DEF OddBackslashes
  <2>3. CASE k = n
    <3> DEFINE l == n + (j - 1)
    <3>1. l \in 1..Len(u)
      BY <2>1, <2>3
    <3>7. l % 2 = 1
      BY <2>1, <2>3, OddSum
    <3>2. \A i \in (Len(u) - l + 1)..Len(u) :
            \/ i \in (m - j + 2)..m
            \/ i - m \in (n - k + 1)..n /\ i - m \in 1..n /\ m + (i - m) = i
      BY <2>1, <2>3
    <3>3. \A i \in (Len(u) - l + 1)..Len(u) : u[i] = BSL
      BY <2>1, <3>2
    <3>4. l < Len(u) => j <= m /\ Len(u) - l = m - j + 1
      OBVIOUS
    <3>5. l < Len(u) => u[Len(u) - l] # BSL
      BY <3>4
    <3> HIDE DEF l
    <3>6. QED
      BY <3>1, <3>3, <3>5, <3>7 DEF OddBackslashes
  <2>4. QED
    BY <2>1, <2>2, <2>3
<1>2. ASSUME OddBackslashes(u) PROVE OddBackslashes(t)
  <2>1. PICK k \in 1..Len(u) : /\ k % 2 = 1
                               /\ \A i \in (Len(u) - k + 1)..Len(u) : u[i] = BSL
                               /\ k < Len(u) => u[Len(u) - k] # BSL
    BY <1>2 DEF OddBackslashes
  <2>2. CASE k <= n
    <3>1. \A i \in (n - k + 1)..n : i \in 1..n /\ m + i \in (Len(u) - k + 1)..Len(u)
      BY <2>1, <2>2
    <3>2. k < n => n - k \in 1..n /\ m + (n - k) = Len(u) - k /\ k < Len(u)
      BY <2>1, <2>2
    <3>3. \A i \in (n - k + 1)..n : t[i] = BSL
      BY <2>1, <3>1
    <3>4. k < n => t[n - k] # BSL
      BY <2>1, <3>2
    <3>5. k \in 1..n
      BY <2>1, <2>2
    <3>6. QED
      BY <2>1, <3>3, <3>4, <3>5 DEF OddBackslashes
  <2>3. CASE k > n
    <3>1. \A i \in 1..n : m + i \in (Len(u) - k + 1)..Len(u)
      BY <2>1, <2>3
    <3>2. \A i \in 1..n : t[i] = BSL
      BY <2>1, <3>1
    <3>3. ~(k - n < j - 1)
      <4> SUFFICES ASSUME k - n < j - 1 PROVE FALSE
        OBVIOUS
      <4>1. Len(u) - k \in (m - j + 2)..m /\ k < Len(u)
        BY <2>1, <2>3
      <4>2. QED
        BY <2>1, <4>1
    <3>4. ~(k - n > j - 1)
      <4> SUFFICES ASSUME k - n > j - 1 PROVE FALSE
        OBVIOUS
      <4>1. m - j + 1 \in (Len(u) - k + 1)..Len(u) /\ j <= m
        BY <2>1, <2>3
      <4>2. QED
        BY <2>1, <4>1
    <3>5. k - n = j - 1
      BY <2>1, <3>3, <3>4
    <3>6. n \in 1..n /\ n % 2 = 1
      <4>1. k = n + (j - 1) /\ j \in Nat /\ k \in Nat
        BY <2>1, <3>5
      <4>2. n % 2 = 1
        BY <2>1, <4>1, OddSum
      <4>3. n # 0
        BY <4>2
      <4>4. QED
        BY <4>2, <4>3
    <3>7. QED
      BY <3>2, <3>6 DEF OddBackslashes
  <2>4. QED
    BY <2>1, <2>2, <2>3
<1>3. QED
  BY <1>1, <1>2

LEMMA OneAfterOther ==
  ASSUME NEW B, NEW h \in Seq(B), NEW t \in Seq(B)
  PROVE  /\ h \o t \in Seq(B) /\ Len(h \o t) = Len(h) + Len(t) /\ Len(h) \in Nat /\ Len(t) \in Nat
         /\ \A i \in 1..Len(h) : (h \o t)[i] = h[i]
         /\ \A i \in 1..Len(t) : (h \o t)[Len(h) + i] = t[i]
OBVIOUS

\* An odd number of backslashes less one, in front of a line, does not change
\* whether that line continues.
LEMMA OddJoined ==
  ASSUME NEW B, NEW s \in Seq(B), NEW t \in Seq(B), OddBackslashes(s)
  PROVE  OddBackslashes(SubSeq(s, 1, Len(s) - 1) \o t) <=> OddBackslashes(t)
<1> DEFINE h == SubSeq(s, 1, Len(s) - 1)
           u == h \o t
           m == Len(h)
           n == Len(t)
<1>1. PICK j \in 1..Len(s) :
        /\ j % 2 = 1
        /\ \A i \in (Len(s) - j + 1)..Len(s) : s[i] = BSL
        /\ j < Len(s) => s[Len(s) - j] # BSL
  BY DEF OddBackslashes
<1> DEFINE L == Len(s)
<1>2. L \in Nat \ {0} /\ L - 1 \in Nat /\ L - 1 <= L
  BY <1>1
<1>3. h \in Seq(B) /\ m = L - 1 /\ m \in Nat /\ \A i \in 1..m : h[i] = s[i]
  <2>1. h \in Seq(B) /\ Len(h) = IF 1 <= L - 1 THEN (L - 1) - 1 + 1 ELSE 0
    BY <1>2, CutType
  <2> HIDE DEF L
  <2>2. m = L - 1 /\ m \in Nat
    BY <1>2, <2>1
  <2>3. \A i \in 1..(L - 1) : h[i] = s[i]
    BY <1>2 DEF L
  <2> HIDE DEF h, m
  <2>4. QED
    BY <2>1, <2>2, <2>3
<1> HIDE DEF h
<1>4. h \in Seq(B) /\ t \in Seq(B)
  BY <1>3
<1>5. /\ u \in Seq(B) /\ Len(u) = m + n /\ n \in Nat
      /\ (\A i \in 1..m : u[i] = h[i]) /\ (\A i \in 1..n : u[m + i] = t[i])
  BY <1>4, OneAfterOther
<1>6. /\ j \in 1..L /\ j % 2 = 1
      /\ \A i \in (L - j + 1)..L : s[i] = BSL
      /\ j < L => s[L - j] # BSL
  BY <1>1
<1> HIDE DEF u, L, m, n
<1>7. (\A i \in (m - j + 2)..m : u[i] = BSL) /\ (j <= m => u[m - j + 1] # BSL)
  <2>1. \A i \in (m - j + 2)..m : i \in 1..m /\ i \in (L - j + 1)..L
    BY <1>2, <1>6, <1>3
  <2>2. j <= m => m - j + 1 \in 1..m /\ m - j + 1 = L - j /\ j < L
    BY <1>2, <1>6, <1>3
  <2>3. \A i \in (m - j + 2)..m : u[i] = BSL
    BY <1>6, <1>3, <1>5, <2>1
  <2>4. j <= m => u[m - j + 1] # BSL
    BY <1>6, <1>3, <1>5, <2>2
  <2>5. QED
    BY <2>3, <2>4
<1>8. m \in Nat /\ n \in Nat /\ j \in Nat \ {0} /\ j <= m + 1
  BY <1>2, <1>6, <1>3, <1>5
<1>9. Len(t) = n
  BY DEF n
<1>10. OddBackslashes(u) <=> OddBackslashes(t)
  <2>1. Behind(u, t, m, n, j)
    BY <1>5, <1>6, <1>7, <1>8, <1>9 DEF Behind
  <2>2. QED
    BY <1>8, <2>1, OddBehind
<1>11. QED
  BY <1>10 DEF u, h

-----------------------------------------------------------------------------
(* A record.                                                               *)

LEMMA SidesType ==
  ASSUME NEW B \in SUBSET Byte, NEW s \in Seq(B), Has(s, EQ)
  PROVE  Index(s, EQ) \in 1..Len(s) /\ Key(s) \in Seq(B) /\ Value(s) \in Seq(B)
<1>1. s \in Seq(Byte)
  OBVIOUS
<1>2. Index(s, EQ) \in 1..Len(s)
  BY <1>1, IndexFinds
<1>3. QED
  BY <1>2, CutType DEF Key, Value, After

\* The codes of diagnostics.
Faults == {"NO_EQUALS", "EMPTY_KEY", "KEY_LEADING_WHITESPACE", "KEY_TRAILING_WHITESPACE",
  "VALUE_LEADING_WHITESPACE", "KEY_INVALID", "DOUBLE_QUOTE_UNTERMINATED",
  "SINGLE_QUOTE_UNTERMINATED", "TRAILING_CONTENT", "VALUE_INVALID_CHAR", "NONE"}
Codes == Faults \cup {"UNBOUND_REF", "FILE_UNREADABLE", "FILE_NUL", "FILE_BOM"}

LEMMA FaultCodes ==
  ASSUME NEW native, NEW s
  PROVE  /\ Fault(native, s) \in Codes /\ Fault(native, s) # "UNBOUND_REF"
         /\ Fault(native, s) = "NONE" => Has(s, EQ)
         /\ ~Has(s, EQ) => Fault(native, s) # "NONE"
<1>1. \A v : ValueFault(v) \in Faults
  BY DEF ValueFault, Faults
<1>2. \A k, v : ShellFault(k, v) \in Faults
  BY <1>1 DEF ShellFault, Faults
<1>3. \A k : NativeFault(k) \in Faults
  BY DEF NativeFault, Faults
<1>4. ~Has(s, EQ) => Fault(native, s) = "NO_EQUALS"
  BY DEF Fault
<1>5. Has(s, EQ) => Fault(native, s) \in Faults
  BY <1>2, <1>3 DEF Fault
<1>6. "NO_EQUALS" \in Faults /\ "UNBOUND_REF" \notin Faults /\ Faults \subseteq Codes
  BY DEF Faults, Codes
<1>7. QED
  BY <1>4, <1>5, <1>6

LEMMA ParsedType ==
  ASSUME NEW B \in SUBSET Byte, NEW s \in Seq(B), Has(s, EQ), NEW native
  PROVE  Parsed(native, s) \in Seq(B)
<1> DEFINE v == Value(s)
<1>1. v \in Seq(B) /\ v \in Seq(Byte)
  BY SidesType
<1> HIDE DEF v
<1>2. CASE Quoted(v)
  <2>1. 1 \in 0..Len(v)
    BY <1>1, <1>2 DEF Quoted
  <2>2. After(v, 1) \in Seq(Byte) /\ Len(After(v, 1)) = Len(v) - 1
    BY <1>1, <2>1, AfterType
  <2>3. Closing(v) \in 0..(Len(v) - 1)
    BY <2>2, IndexFinds DEF Closing
  <2>4. SubSeq(v, 2, Closing(v)) \in Seq(B)
    BY <1>1, <2>1, <2>3, CutType
  <2>5. QED
    BY <1>1, <1>2, <2>4 DEF Parsed, Unquote, v
<1>3. CASE ~Quoted(v)
  BY <1>1, <1>3 DEF Parsed, Unquote, v
<1>4. QED
  BY <1>2, <1>3

-----------------------------------------------------------------------------
(* Searching and cutting. *)

\* The text between two quotes, cut out of what follows the first, or at once.
LEMMA SubSeqOfAfter ==
  ASSUME NEW v \in Seq(Byte), v # << >>, NEW c \in 1..(Len(v) - 1)
  PROVE  SubSeq(After(v, 1), 1, c - 1) = SubSeq(v, 2, c)
<1> DEFINE w == After(v, 1)
<1>1. 1 \in 0..Len(v) /\ Len(v) \in Nat
  OBVIOUS
<1>2. w \in Seq(Byte) /\ Len(w) = Len(v) - 1
  BY <1>1, AfterType
<1>3. \A i \in 1..(Len(v) - 1) : w[i] = v[1 + i]
  BY <1>1, AfterType
<1> HIDE DEF w
<1>4. SubSeq(w, 1, c - 1) \in Seq(Byte) /\ Len(SubSeq(w, 1, c - 1)) = c - 1
  BY <1>2
<1>5. SubSeq(v, 2, c) \in Seq(Byte) /\ Len(SubSeq(v, 2, c)) = c - 1
  OBVIOUS
<1>6. \A i \in 1..(c - 1) : SubSeq(w, 1, c - 1)[i] = SubSeq(v, 2, c)[i]
  BY <1>2, <1>3
<1>7. SubSeq(w, 1, c - 1) = SubSeq(v, 2, c)
  BY <1>4, <1>5, <1>6, SeqEqual
<1>8. QED
  BY <1>7 DEF w

\* The two sides of the `=` of a line that has one.
LEMMA Sides ==
  ASSUME NEW s \in Seq(Byte), Has(s, EQ)
  PROVE  /\ Index(s, EQ) \in 1..Len(s)
         /\ Key(s) \in Seq(Byte) /\ Value(s) \in Seq(Byte)
         /\ Len(Key(s)) = Index(s, EQ) - 1
         /\ \A i \in 1..Len(Value(s)) : \E j \in 1..Len(s) : Value(s)[i] = s[j]
<1> DEFINE eq == Index(s, EQ)
<1>1. eq \in 1..Len(s)
  BY IndexFinds
<1> HIDE DEF eq
<1>2. /\ SubSeq(s, 1, eq - 1) \in Seq(Byte) /\ Len(SubSeq(s, 1, eq - 1)) = eq - 1
  BY <1>1
<1>3. /\ After(s, eq) \in Seq(Byte) /\ Len(After(s, eq)) = Len(s) - eq
      /\ \A i \in 1..(Len(s) - eq) : After(s, eq)[i] = s[eq + i]
  BY <1>1, AfterType
<1>4. \A i \in 1..Len(After(s, eq)) : \E j \in 1..Len(s) : After(s, eq)[i] = s[j]
  BY <1>1, <1>3
<1>5. QED
  BY <1>1, <1>2, <1>3, <1>4 DEF Key, Value, eq

-----------------------------------------------------------------------------
(* The parts of the classifiers. *)

LEMMA SameBlanks ==
  ASSUME NEW s \in Seq(Byte)
  PROVE  BlankOrComment(s) <=> NotARecord(s)
<1> DEFINE len == IF Len(s) > 0 /\ s[Len(s)] = CR THEN Len(s) - 1 ELSE Len(s)
           trimmed == StripCr(s, TRUE)
<1>1. len \in Nat /\ Len(trimmed) = len /\ \A i \in 1..len : trimmed[i] = s[i]
  <2>1. CASE Len(s) > 0 /\ s[Len(s)] = CR
    BY <2>1 DEF StripCr, DropLast, Slice
  <2>2. CASE ~(Len(s) > 0 /\ s[Len(s)] = CR)
    BY <2>2 DEF StripCr
  <2>3. QED
    BY <2>1, <2>2
<1>2. trimmed # << >> <=> len > 0
  <2>1. CASE Len(s) > 0 /\ s[Len(s)] = CR
    BY <2>1, <1>1 DEF StripCr, DropLast, Slice
  <2>2. CASE ~(Len(s) > 0 /\ s[Len(s)] = CR)
    BY <2>2 DEF StripCr
  <2>3. QED
    BY <2>1, <2>2
<1>3. BlankOrComment(s) <=> (len > 0 => s[1] = HASH \/ \A i \in 1..len : s[i] \in Space)
  BY DEF BlankOrComment
<1>4. NotARecord(s) <=> \/ \A i \in 1..Len(trimmed) : trimmed[i] \in Space
                        \/ trimmed # << >> /\ trimmed[1] = HASH
  BY DEF NotARecord
<1> HIDE DEF len, trimmed
<1>5. QED
  BY <1>1, <1>2, <1>3, <1>4

\* A line that does not end in a CR is blank for the assembly backend, too.
LEMMA SameAsmBlanks ==
  ASSUME NEW s \in Seq(Byte), ~(s # << >> /\ s[Len(s)] = CR)
  PROVE  /\ StripCr(s, TRUE) = s
         /\ s # << >> => (AsmSkips(s) <=> NotARecord(s))
         /\ s = << >> => AsmSkips(s) /\ NotARecord(s)
<1> DEFINE trimmed == StripCr(s, TRUE)
<1>1. trimmed = s
  BY DEF StripCr
<1>2. NotARecord(s) <=> \/ \A i \in 1..Len(trimmed) : trimmed[i] \in Space
                        \/ trimmed # << >> /\ trimmed[1] = HASH
  BY DEF NotARecord
<1>3. AsmSkips(s) <=> (\A i \in 1..Len(s) : s[i] \in Space) \/ s[1] = HASH
  BY DEF AsmSkips
<1>4. trimmed = s /\ (s # << >> => (AsmSkips(s) <=> NotARecord(s)))
  <2> HIDE DEF trimmed
  <2>1. QED
    BY <1>1, <1>2, <1>3
<1>5. s = << >> => AsmSkips(s) /\ NotARecord(s)
  <2> HIDE DEF trimmed
  <2>1. QED
    BY <1>1, <1>2, <1>3
<1>6. QED
  BY <1>4, <1>5

LEMMA SameNames ==
  ASSUME NEW k \in Seq(Byte)
  PROVE  KeyFault(k) =
           IF k = << >> THEN "EMPTY_KEY"
           ELSE IF k[1] \in Space THEN "KEY_LEADING_WHITESPACE"
           ELSE IF k[Len(k)] \in Space THEN "KEY_TRAILING_WHITESPACE"
           ELSE IF ~IsName(k) THEN "KEY_INVALID" ELSE "NONE"
<1>1. CASE k = << >>
  BY <1>1 DEF KeyFault
<1>2. CASE k # << >>
  <2>1. (k[1] \notin Letter \/ \E i \in 2..Len(k) : k[i] \notin Letter \cup Digit) <=> ~IsName(k)
    BY <1>2 DEF IsName
  <2>2. QED
    BY <1>2, <2>1 DEF KeyFault
<1>3. QED
  BY <1>1, <1>2

LEMMA SameValues ==
  ASSUME NEW k, NEW v \in Seq(Byte)
  PROVE  ShellValue(k, v) =
           IF ValueFault(v) # "NONE" THEN NoRecord(ValueFault(v))
           ELSE FillRecord(k, Unquote(v), IF Quoted(v) THEN Kind(v[1]) ELSE "PLAIN")
<1>1. CASE Quoted(v)
  <2> DEFINE rest == After(v, 1)
             close == Index(rest, v[1])
  <2>1. v # << >> /\ v[1] \in {SQ, DQ}
    BY <1>1 DEF Quoted
  <2>2. rest \in Seq(Byte) /\ Len(rest) = Len(v) - 1
    BY <2>1, AfterType
  <2>3. close \in 0..Len(rest) /\ Closing(v) = close
    BY <2>2, IndexFinds DEF Closing
  <2>4. ShellValue(k, v) =
          IF close = 0
          THEN NoRecord(IF v[1] = DQ THEN "DOUBLE_QUOTE_UNTERMINATED" ELSE "SINGLE_QUOTE_UNTERMINATED")
          ELSE IF close # Len(rest) THEN NoRecord("TRAILING_CONTENT")
          ELSE FillRecord(k, SubSeq(rest, 1, close - 1), Kind(v[1]))
    BY <2>1 DEF ShellValue
  <2>5. ValueFault(v) =
          IF close = 0
          THEN IF v[1] = DQ THEN "DOUBLE_QUOTE_UNTERMINATED" ELSE "SINGLE_QUOTE_UNTERMINATED"
          ELSE IF close < Len(v) - 1 THEN "TRAILING_CONTENT" ELSE "NONE"
    BY <1>1, <2>3 DEF ValueFault
  <2>6. Unquote(v) = SubSeq(v, 2, close)
    BY <1>1, <2>3 DEF Unquote
  <2>7. close > 0 => SubSeq(rest, 1, close - 1) = SubSeq(v, 2, close)
    BY <2>1, <2>2, <2>3, SubSeqOfAfter
  <2> HIDE DEF rest, close
  <2>8. CASE close = 0 /\ v[1] = DQ
    BY <2>4, <2>5, <2>8
  <2>9. CASE close = 0 /\ v[1] # DQ
    BY <2>4, <2>5, <2>9
  <2>10. CASE close # 0 /\ close # Len(rest)
    BY <2>2, <2>3, <2>4, <2>5, <2>10
  <2>11. CASE close # 0 /\ close = Len(rest)
    <3>1. ValueFault(v) = "NONE"
      BY <2>1, <2>2, <2>3, <2>5, <2>11
    <3>2. close > 0
      BY <2>2, <2>3, <2>11
    <3>3. SubSeq(rest, 1, close - 1) = Unquote(v)
      BY <2>6, <2>7, <3>2
    <3>4. ShellValue(k, v) = FillRecord(k, SubSeq(rest, 1, close - 1), Kind(v[1]))
      BY <2>4, <2>11
    <3>5. QED
      BY <1>1, <3>1, <3>3, <3>4
  <2>12. QED
    BY <2>8, <2>9, <2>10, <2>11
<1>2. CASE ~Quoted(v)
  <2> DEFINE Bad == \E i \in 1..Len(v) : v[i] \in Space \cup {SQ, DQ, BSL}
  <2>1. ShellValue(k, v) = IF Bad THEN NoRecord("VALUE_INVALID_CHAR") ELSE FillRecord(k, v, "PLAIN")
    BY <1>2 DEF Quoted, ShellValue
  <2>2. ValueFault(v) = IF Bad THEN "VALUE_INVALID_CHAR" ELSE "NONE"
    BY <1>2 DEF ValueFault
  <2>3. Unquote(v) = v
    BY <1>2 DEF Unquote
  <2> HIDE DEF Bad
  <2>4. QED
    BY <1>2, <2>1, <2>2, <2>3
<1>3. QED
  BY <1>1, <1>2

\* A record that parses has its name and a value without fault, in both.
LEMMA SameRecords ==
  ASSUME NEW s \in Seq(Byte), ~NotARecord(s), Has(s, EQ), KeyFault(Key(s)) = "NONE",
         ~(Value(s) # << >> /\ Value(s)[1] \in Space)
  PROVE  ShellValue(Key(s), Value(s)) = AwkVerdict(FALSE, s)
<1> DEFINE k == Key(s)
           v == Value(s)
           kind == IF Quoted(v) THEN Kind(v[1]) ELSE "PLAIN"
<1>1. k \in Seq(Byte) /\ v \in Seq(Byte)
  BY Sides
<1>2. ShellFault(k, v) = ValueFault(v)
  BY <1>1, SameNames DEF ShellFault
<1>3. Fault(FALSE, s) = ValueFault(v)
  BY <1>2 DEF Fault
<1>4. Parsed(FALSE, s) = Unquote(v) /\ AwkKind(FALSE, s) = kind
  BY DEF Parsed, AwkKind
<1>5. ShellValue(k, v) =
        IF ValueFault(v) # "NONE" THEN NoRecord(ValueFault(v)) ELSE FillRecord(k, Unquote(v), kind)
  BY <1>1, SameValues
<1>6. AwkVerdict(FALSE, s) =
        IF Fault(FALSE, s) # "NONE" THEN NoRecord(Fault(FALSE, s))
        ELSE FillRecord(k, Parsed(FALSE, s), AwkKind(FALSE, s))
  BY DEF AwkVerdict
<1> HIDE DEF kind
<1>7. CASE ValueFault(v) # "NONE"
  BY <1>3, <1>5, <1>6, <1>7
<1>8. CASE ValueFault(v) = "NONE"
  <2>1. AwkVerdict(FALSE, s) = FillRecord(k, Unquote(v), kind)
    BY <1>3, <1>4, <1>6, <1>8
  <2>2. QED
    BY <1>5, <1>8, <2>1
<1>9. QED
  BY <1>7, <1>8

-----------------------------------------------------------------------------
(* The classifiers. *)

LEMMA CShellAsAwk ==
  ASSUME NEW s \in Seq(Byte), ~Has(s, NUL)
  PROVE  ParseShell(s) = AwkVerdict(FALSE, s) \/ OtherFaultFirst(s)
<1> DEFINE k == Key(s)
           v == Value(s)
           late == v # << >> /\ v[1] \in Space
<1>1. BlankOrComment(s) <=> NotARecord(s)
  BY SameBlanks
<1>2. CASE NotARecord(s)
  BY <1>1, <1>2 DEF ParseShell, AwkVerdict
<1>3. CASE ~NotARecord(s) /\ ~Has(s, EQ)
  <2>1. ParseShell(s) = NoRecord("NO_EQUALS")
    BY <1>1, <1>3, IndexFinds DEF ParseShell
  <2>2. Fault(FALSE, s) = "NO_EQUALS"
    BY <1>3 DEF Fault
  <2>3. QED
    BY <1>3, <2>1, <2>2 DEF AwkVerdict
<1>4. CASE ~NotARecord(s) /\ Has(s, EQ)
  <2>1. k \in Seq(Byte) /\ v \in Seq(Byte) /\ Index(s, EQ) # 0
    BY <1>4, Sides
  <2>2. ParseShell(s) =
          IF KeyFault(k) # "NONE" THEN NoRecord(KeyFault(k))
          ELSE IF late THEN NoRecord("VALUE_LEADING_WHITESPACE") ELSE ShellValue(k, v)
    BY <1>1, <1>4, <2>1 DEF ParseShell, Key, Value
  <2>3. Fault(FALSE, s) = ShellFault(k, v)
    BY <1>4 DEF Fault
  <2>4. ShellFault(k, v) # "NONE" => AwkVerdict(FALSE, s) = NoRecord(ShellFault(k, v))
    BY <1>4, <2>3 DEF AwkVerdict
  <2>5. ShellFault(k, v) =
          IF k = << >> THEN "EMPTY_KEY"
          ELSE IF k[1] \in Space THEN "KEY_LEADING_WHITESPACE"
          ELSE IF k[Len(k)] \in Space THEN "KEY_TRAILING_WHITESPACE"
          ELSE IF late THEN "VALUE_LEADING_WHITESPACE"
          ELSE IF ~IsName(k) THEN "KEY_INVALID" ELSE ValueFault(v)
    BY DEF ShellFault
  <2>6. KeyFault(k) =
          IF k = << >> THEN "EMPTY_KEY"
          ELSE IF k[1] \in Space THEN "KEY_LEADING_WHITESPACE"
          ELSE IF k[Len(k)] \in Space THEN "KEY_TRAILING_WHITESPACE"
          ELSE IF ~IsName(k) THEN "KEY_INVALID" ELSE "NONE"
    BY <2>1, SameNames
  <2>7. KeyFault(k) = "NONE" /\ ~late => ShellValue(k, v) = AwkVerdict(FALSE, s)
    BY <1>4, SameRecords
  <2>8. NoRecord("KEY_INVALID").status = "KEY_INVALID"
        /\ NoRecord("VALUE_LEADING_WHITESPACE").status = "VALUE_LEADING_WHITESPACE"
    BY DEF NoRecord
  <2> HIDE DEF k, v, late
  <2>9. CASE KeyFault(k) = "NONE" /\ ~late
    BY <2>2, <2>7, <2>9
  <2>10. CASE KeyFault(k) = "NONE" /\ late
    BY <2>2, <2>4, <2>5, <2>6, <2>10
  <2>11. CASE KeyFault(k) = "KEY_INVALID" /\ late
    <3>1. ParseShell(s) = NoRecord("KEY_INVALID")
      BY <2>2, <2>11
    <3>2. ShellFault(k, v) = "VALUE_LEADING_WHITESPACE"
      BY <2>5, <2>6, <2>11
    <3>3. AwkVerdict(FALSE, s) = NoRecord("VALUE_LEADING_WHITESPACE")
      BY <2>4, <3>2
    <3>4. QED
      BY <2>8, <3>1, <3>3 DEF OtherFaultFirst
  <2>12. CASE KeyFault(k) # "NONE" /\ ~(KeyFault(k) = "KEY_INVALID" /\ late)
    <3>1. ShellFault(k, v) = KeyFault(k)
      BY <2>5, <2>6, <2>12
    <3>2. QED
      BY <2>2, <2>4, <2>12, <3>1
  <2>13. QED
    BY <2>9, <2>10, <2>11, <2>12
<1>5. QED
  BY <1>2, <1>3, <1>4

LEMMA NativeVerdict ==
  ASSUME NEW s \in Seq(Byte), ~NotARecord(s)
  PROVE  AwkVerdict(TRUE, s) =
           IF Index(s, EQ) = 0 THEN NoRecord("NO_EQUALS")
           ELSE IF Index(s, EQ) = 1 THEN NoRecord("EMPTY_KEY")
           ELSE FillRecord(Key(s), Value(s), "PLAIN")
<1>1. CASE ~Has(s, EQ)
  <2>1. Index(s, EQ) = 0
    BY <1>1, IndexFinds
  <2>2. Fault(TRUE, s) = "NO_EQUALS"
    BY <1>1 DEF Fault
  <2>3. QED
    BY <2>1, <2>2 DEF AwkVerdict
<1>2. CASE Has(s, EQ)
  <2>1. Index(s, EQ) \in 1..Len(s) /\ Key(s) \in Seq(Byte) /\ Len(Key(s)) = Index(s, EQ) - 1
    BY <1>2, Sides
  <2>2. Key(s) = << >> <=> Index(s, EQ) = 1
    BY <2>1
  <2>3. Fault(TRUE, s) = IF Key(s) = << >> THEN "EMPTY_KEY" ELSE "NONE"
    BY <1>2 DEF Fault, NativeFault
  <2>4. AwkVerdict(TRUE, s) =
          IF Fault(TRUE, s) # "NONE" THEN NoRecord(Fault(TRUE, s))
          ELSE FillRecord(Key(s), Parsed(TRUE, s), AwkKind(TRUE, s))
    BY DEF AwkVerdict
  <2>5. Parsed(TRUE, s) = Value(s) /\ AwkKind(TRUE, s) = "PLAIN"
    BY DEF Parsed, AwkKind
  <2> DEFINE verdict == AwkVerdict(TRUE, s)
             fault   == Fault(TRUE, s)
             value   == Parsed(TRUE, s)
             kind    == AwkKind(TRUE, s)
  <2> HIDE DEF verdict, fault, value, kind
  <2>6. verdict = IF fault # "NONE" THEN NoRecord(fault) ELSE FillRecord(Key(s), value, kind)
    BY <2>4 DEF verdict, fault, value, kind
  <2>7. value = Value(s) /\ kind = "PLAIN" /\ fault = IF Key(s) = << >> THEN "EMPTY_KEY" ELSE "NONE"
    BY <2>3, <2>5 DEF fault, value, kind
  <2>8. Index(s, EQ) = 1 => verdict = NoRecord("EMPTY_KEY")
    BY <2>2, <2>6, <2>7
  <2>9. Index(s, EQ) # 1 => verdict = FillRecord(Key(s), Value(s), "PLAIN")
    BY <2>2, <2>6, <2>7
  <2>10. verdict = IF Index(s, EQ) = 0 THEN NoRecord("NO_EQUALS")
                  ELSE IF Index(s, EQ) = 1 THEN NoRecord("EMPTY_KEY")
                  ELSE FillRecord(Key(s), Value(s), "PLAIN")
    <3>1. Index(s, EQ) # 0
      BY <2>1
    <3>2. QED
      BY <2>8, <2>9, <3>1, Zenon
  <2>11. QED
    BY <2>10, Zenon DEF verdict
<1>3. QED
  BY <1>1, <1>2

LEMMA CNativeAsAwk ==
  ASSUME NEW s \in Seq(Byte), ~Has(s, NUL)
  PROVE  ParseNative(s) = AwkVerdict(TRUE, s)
<1>1. CASE NotARecord(s)
  BY <1>1, SameBlanks DEF ParseNative, AwkVerdict
<1>2. CASE ~NotARecord(s)
  BY <1>2, SameBlanks, NativeVerdict DEF ParseNative, Key, Value
<1>3. QED
  BY <1>1, <1>2

\* Every line the model can grow to is a line.
THEOREM LinesTyped == LineSpec => []LineTypeOK
<1>1. LineInit => LineTypeOK
  BY DEF LineInit, LineTypeOK
<1>2. LineTypeOK /\ [LineNext]_grown => LineTypeOK'
  BY LineBounds DEF LineTypeOK, LineNext
<1>3. QED
  BY <1>1, <1>2, PTL DEF LineSpec

\* On every line without a NUL byte the C backend finds the record, or the
\* fault, that the reference finds, but for the one order of two faults.
THEOREM CClassifiesAsAwk == LineSpec => []CAsAwk
<1>1. LineTypeOK => CAsAwk
  BY CShellAsAwk, CNativeAsAwk DEF LineTypeOK, CAsAwk
<1>2. QED
  BY <1>1, LinesTyped, PTL

-----------------------------------------------------------------------------
(* The assembly backend. *)

LEMMA AsmShellAsAwk ==
  ASSUME NEW s \in Seq(Byte), ~Has(s, NUL), ~(s # << >> /\ s[Len(s)] = CR)
  PROVE  AsmShell(s) = AwkVerdict(FALSE, s)
<1> DEFINE k == Key(s)
           v == Value(s)
           late == v # << >> /\ v[1] \in Space
           work == StripCr(s, TRUE)
<1>1. AsmShell(s) =
        IF AsmSkips(s) THEN NoRecord("SKIP")
        ELSE IF work = << >> THEN Runaway
        ELSE IF Index(work, EQ) = 0 THEN NoRecord("NO_EQUALS")
        ELSE AsmShellRecord(SubSeq(work, 1, Index(work, EQ) - 1), After(work, Index(work, EQ)))
  BY DEF AsmShell
<1>2. work = s
  BY SameAsmBlanks
<1>3. CASE NotARecord(s)
  BY <1>1, <1>3, SameAsmBlanks DEF AwkVerdict
<1>4. CASE ~NotARecord(s) /\ ~Has(s, EQ)
  <2>1. AsmShell(s) = NoRecord("NO_EQUALS")
    BY <1>1, <1>2, <1>4, SameAsmBlanks, IndexFinds
  <2>2. Fault(FALSE, s) = "NO_EQUALS"
    BY <1>4 DEF Fault
  <2>3. QED
    BY <1>4, <2>1, <2>2 DEF AwkVerdict
<1>5. CASE ~NotARecord(s) /\ Has(s, EQ)
  <2>1. k \in Seq(Byte) /\ v \in Seq(Byte) /\ Index(s, EQ) # 0
    BY <1>5, Sides
  <2>2. s # << >> /\ ~AsmSkips(s)
    BY <1>5, SameAsmBlanks
  <2>3. AsmShell(s) = AsmShellRecord(k, v)
    BY <1>1, <1>2, <2>1, <2>2 DEF Key, Value
  <2>4. ~Has(v, NUL)
    <3>1. \A i \in 1..Len(v) : \E j \in 1..Len(s) : v[i] = s[j]
      BY <1>5, Sides
    <3>2. QED
      BY <3>1 DEF Has
  <2>5. AsmShellRecord(k, v) =
          IF k = << >> THEN NoRecord("EMPTY_KEY")
          ELSE IF k[1] \in Space THEN NoRecord("KEY_LEADING_WHITESPACE")
          ELSE IF k[Len(k)] \in Space THEN NoRecord("KEY_TRAILING_WHITESPACE")
          ELSE IF late THEN NoRecord("VALUE_LEADING_WHITESPACE")
          ELSE IF ~IsName(k) THEN NoRecord("KEY_INVALID") ELSE ShellValue(k, v)
    BY <2>4 DEF AsmShellRecord
  <2>6. ShellFault(k, v) =
          IF k = << >> THEN "EMPTY_KEY"
          ELSE IF k[1] \in Space THEN "KEY_LEADING_WHITESPACE"
          ELSE IF k[Len(k)] \in Space THEN "KEY_TRAILING_WHITESPACE"
          ELSE IF late THEN "VALUE_LEADING_WHITESPACE"
          ELSE IF ~IsName(k) THEN "KEY_INVALID" ELSE ValueFault(v)
    BY DEF ShellFault
  <2>7. KeyFault(k) =
          IF k = << >> THEN "EMPTY_KEY"
          ELSE IF k[1] \in Space THEN "KEY_LEADING_WHITESPACE"
          ELSE IF k[Len(k)] \in Space THEN "KEY_TRAILING_WHITESPACE"
          ELSE IF ~IsName(k) THEN "KEY_INVALID" ELSE "NONE"
    BY <2>1, SameNames
  <2>8. KeyFault(k) = "NONE" /\ ~late => ShellValue(k, v) = AwkVerdict(FALSE, s)
    BY <1>5, SameRecords
  <2>9. ShellFault(k, v) # "NONE" => AwkVerdict(FALSE, s) = NoRecord(ShellFault(k, v))
    BY <1>5 DEF AwkVerdict, Fault
  <2> HIDE DEF k, v, late
  <2>10. CASE KeyFault(k) = "NONE" /\ ~late
    BY <2>3, <2>5, <2>7, <2>8, <2>10
  <2>11. CASE ~(KeyFault(k) = "NONE" /\ ~late)
    <3>1. ShellFault(k, v) # "NONE" /\ AsmShellRecord(k, v) = NoRecord(ShellFault(k, v))
      BY <2>5, <2>6, <2>7, <2>11
    <3>2. QED
      BY <2>3, <2>9, <3>1
  <2>12. QED
    BY <2>10, <2>11
<1>6. QED
  BY <1>3, <1>4, <1>5

LEMMA AsmNativeAsAwk ==
  ASSUME NEW s \in Seq(Byte), ~Has(s, NUL), ~(s # << >> /\ s[Len(s)] = CR)
  PROVE  AsmNative(s) = AwkVerdict(TRUE, s)
<1>1. AsmSkips(s) <=> NotARecord(s)
  BY SameAsmBlanks
<1>2. CASE NotARecord(s)
  BY <1>1, <1>2 DEF AsmNative, AwkVerdict
<1>3. CASE ~NotARecord(s)
  <2>1. ASSUME Has(s, EQ) PROVE ~Has(Value(s), NUL)
    <3>1. \A i \in 1..Len(Value(s)) : \E j \in 1..Len(s) : Value(s)[i] = s[j]
      BY <2>1, Sides
    <3>2. QED
      BY <3>1 DEF Has
  <2>2. Index(s, EQ) # 0 => Has(s, EQ)
    BY IndexFinds
  <2>3. QED
    BY <1>1, <1>3, <2>1, <2>2, NativeVerdict DEF AsmNative, Key, Value
<1>4. QED
  BY <1>2, <1>3

\* The assembly backend finds what the reference finds, the order of faults
\* included, on every line that holds no NUL byte and does not end in a CR.
THEOREM AsmClassifiesAsAwk == LineSpec => []AsmAsAwk
<1>1. LineTypeOK => AsmAsAwk
  BY AsmShellAsAwk, AsmNativeAsAwk DEF LineTypeOK, AsmAsAwk
<1>2. QED
  BY <1>1, LinesTyped, PTL

-----------------------------------------------------------------------------
(* The other implementations. *)

LEMMA Stripped ==
  ASSUME NEW s \in Seq(Byte)
  PROVE  /\ StripCr(s, TRUE) \in Seq(Byte) /\ Len(StripCr(s, TRUE)) \in {Len(s), Len(s) - 1}
         /\ \A i \in 1..Len(StripCr(s, TRUE)) : i \in 1..Len(s) /\ StripCr(s, TRUE)[i] = s[i]
         /\ StripCr(s, TRUE) = IF s # << >> /\ s[Len(s)] = CR THEN DropLast(s) ELSE s
         /\ s # << >> /\ s[Len(s)] = CR => Len(StripCr(s, TRUE)) = Len(s) - 1
<1> DEFINE n == Len(s)
           d == DropLast(s)
<1>1. n \in Nat /\ (s # << >> <=> n > 0)
  OBVIOUS
<1>2. ASSUME n > 0
      PROVE  d \in Seq(Byte) /\ Len(d) = n - 1 /\ \A i \in 1..(n - 1) : d[i] = s[i]
  <2>1. d = [i \in 1..(n - 1) |-> s[0 + i]]
    BY DEF DropLast, Slice
  <2>2. \A i \in 1..(n - 1) : s[0 + i] = s[i] /\ s[i] \in Byte
    OBVIOUS
  <2> HIDE DEF d
  <2>3. n - 1 \in Nat
    BY <1>1, <1>2
  <2>4. d \in Seq(Byte) /\ Len(d) = n - 1
    BY <2>1, <2>2, <2>3
  <2>5. QED
    BY <2>1, <2>2, <2>4
<1>3. StripCr(s, TRUE) = IF n > 0 /\ s[n] = CR THEN d ELSE s
  BY DEF StripCr
<1> HIDE DEF d
<1>4. CASE n > 0 /\ s[n] = CR
  <2>1. StripCr(s, TRUE) = d /\ Len(d) = n - 1 /\ d \in Seq(Byte) /\ s # << >>
    BY <1>1, <1>2, <1>3, <1>4
  <2>2. \A i \in 1..Len(d) : i \in 1..n /\ d[i] = s[i]
    BY <1>1, <1>2, <1>4
  <2>3. QED
    BY <1>4, <2>1, <2>2 DEF d
<1>5. CASE ~(n > 0 /\ s[n] = CR)
  BY <1>1, <1>3, <1>5 DEF d
<1>6. QED
  BY <1>4, <1>5

\* The value is taken apart as the C backend does.
LEMMA PortUnquotes ==
  ASSUME NEW k, NEW v \in Seq(Byte)
  PROVE  PortUnquote(k, v) = ShellValue(k, v)
<1>1. CASE Quoted(v)
  <2> DEFINE rest == After(v, 1)
             pos  == Index(rest, v[1])
             open == NoRecord(IF v[1] = DQ THEN "DOUBLE_QUOTE_UNTERMINATED"
                                           ELSE "SINGLE_QUOTE_UNTERMINATED")
             full == FillRecord(k, SubSeq(rest, 1, pos - 1), Kind(v[1]))
  <2>1. v # << >> /\ v[1] \in {SQ, DQ}
    BY <1>1 DEF Quoted
  <2>2. rest \in Seq(Byte) /\ Len(rest) \in Nat
    BY <2>1, AfterType
  <2>3. pos \in 0..Len(rest)
    BY <2>2, IndexFinds
  <2>4. PortUnquote(k, v) = IF pos = 0 THEN open
                            ELSE IF After(rest, pos) # << >> THEN NoRecord("TRAILING_CONTENT") ELSE full
    BY <1>1 DEF PortUnquote
  <2>5. ShellValue(k, v) = IF pos = 0 THEN open
                           ELSE IF pos # Len(rest) THEN NoRecord("TRAILING_CONTENT") ELSE full
    BY <2>1 DEF ShellValue
  <2> HIDE DEF rest, pos, open, full
  <2>6. After(rest, pos) # << >> <=> pos # Len(rest)
    <3>1. After(rest, pos) \in Seq(Byte) /\ Len(After(rest, pos)) = Len(rest) - pos
      BY <2>2, <2>3, AfterType
    <3>2. QED
      BY <2>2, <2>3, <3>1
  <2>7. QED
    BY <2>4, <2>5, <2>6
<1>2. CASE ~Quoted(v)
  BY <1>2 DEF Quoted, PortUnquote, ShellValue
<1>3. QED
  BY <1>1, <1>2

\* What a port makes of a line and of what it parses the record from.
Classified(p, native, trimmed, work) ==
  IF PortSkips(p, trimmed) THEN NoRecord("SKIP")
  ELSE IF Index(work, EQ) = 0 THEN NoRecord("NO_EQUALS")
  ELSE IF native
       THEN IF Key(work) = << >> THEN NoRecord("EMPTY_KEY") ELSE FillRecord(Key(work), Value(work), "PLAIN")
  ELSE IF PortKeyFault(p, Key(work), Value(work)) # "NONE"
       THEN NoRecord(PortKeyFault(p, Key(work), Value(work)))
  ELSE PortUnquote(Key(work), Value(work))

LEMMA PortClassifies ==
  ASSUME NEW p, NEW native, NEW s
  PROVE  PortVerdict(p, native, s) =
           Classified(p, native, StripCr(s, TRUE), IF native /\ p.whole THEN s ELSE StripCr(s, TRUE))
BY DEF PortVerdict, Classified, Key, Value

\* Rust skips what is no record.
LEMMA RustSkips ==
  ASSUME NEW s \in Seq(Byte)
  PROVE  PortSkips(Rust, StripCr(s, TRUE)) <=> NotARecord(s)
<1> DEFINE t == StripCr(s, TRUE)
<1>1. t \in Seq(Byte)
  BY Stripped
<1>2. NotARecord(s) <=> (\A i \in 1..Len(t) : t[i] \in Space) \/ (t # << >> /\ t[1] = HASH)
  BY DEF NotARecord
<1>3. PortSkips(Rust, t) <=> (\A i \in 1..Len(t) : t[i] \in Space) \/ t[1] = HASH
  BY DEF PortSkips, Rust, Port
<1> HIDE DEF t
<1>4. Len(t) \in Nat /\ (t = << >> <=> Len(t) = 0)
  BY <1>1
<1>5. PortSkips(Rust, t) <=> NotARecord(s)
  BY <1>2, <1>3, <1>4
<1>6. QED
  BY <1>5 DEF t

LEMMA RustNative ==
  ASSUME NEW s \in Seq(Byte)
  PROVE  PortVerdict(Rust, TRUE, s) = AwkVerdict(TRUE, s)
<1>1. PortVerdict(Rust, TRUE, s) = Classified(Rust, TRUE, StripCr(s, TRUE), s)
  BY PortClassifies DEF Rust, Port
<1>2. PortSkips(Rust, StripCr(s, TRUE)) <=> NotARecord(s)
  BY RustSkips
<1>3. CASE NotARecord(s)
  BY <1>1, <1>2, <1>3 DEF Classified, AwkVerdict
<1>4. CASE ~NotARecord(s)
  <2>1. Classified(Rust, TRUE, StripCr(s, TRUE), s) =
          IF Index(s, EQ) = 0 THEN NoRecord("NO_EQUALS")
          ELSE IF Key(s) = << >> THEN NoRecord("EMPTY_KEY") ELSE FillRecord(Key(s), Value(s), "PLAIN")
    BY <1>2, <1>4 DEF Classified
  <2>2. Index(s, EQ) # 0 => (Key(s) = << >> <=> Index(s, EQ) = 1)
    <3>1. Index(s, EQ) # 0 => /\ Index(s, EQ) \in 1..Len(s) /\ Key(s) \in Seq(Byte)
                              /\ Len(Key(s)) = Index(s, EQ) - 1
      BY IndexFinds, Sides
    <3>2. QED
      BY <3>1
  <2>3. QED
    BY <1>1, <1>4, <2>1, <2>2, NativeVerdict
<1>5. QED
  BY <1>3, <1>4

\* A line is its two sides and the `=`.
LEMMA Rejoined ==
  ASSUME NEW s \in Seq(Byte), NEW eq \in 1..Len(s), s[eq] = EQ
  PROVE  SubSeq(s, 1, eq - 1) \o <<EQ>> \o After(s, eq) = s
<1>1. SubSeq(s, 1, eq - 1) \o <<EQ>> = SubSeq(s, 1, eq)
  BY SubSeqRecursiveSecond
<1>2. SubSeq(s, 1, eq) \o SubSeq(s, eq + 1, Len(s)) = SubSeq(s, 1, Len(s))
  BY ConcatAdjacentSubSeq
<1>3. SubSeq(s, 1, Len(s)) = s
  BY SubSeqFull
<1>4. QED
  BY <1>1, <1>2, <1>3 DEF After

\* Rust looks for the faults of a shell record in an order of its own, which
\* shows only if the name is missing.
LEMMA FaultOrder ==
  ASSUME NEW s \in Seq(Byte), Has(s, EQ), ~NoNameNoValue(s),
         NEW port, port = PortKeyFault(Rust, Key(s), Value(s))
  PROVE  /\ ShellFault(Key(s), Value(s)) = IF port # "NONE" THEN port ELSE ValueFault(Value(s))
         /\ port = "NONE" => KeyFault(Key(s)) = "NONE" /\ ~(Value(s) # << >> /\ Value(s)[1] \in Space)
<1> DEFINE k == Key(s)
           v == Value(s)
           late == v # << >> /\ v[1] \in Space
<1>1. k \in Seq(Byte) /\ v \in Seq(Byte)
  BY Sides
<1>2. ShellFault(k, v) =
        IF k = << >> THEN "EMPTY_KEY"
        ELSE IF k[1] \in Space THEN "KEY_LEADING_WHITESPACE"
        ELSE IF k[Len(k)] \in Space THEN "KEY_TRAILING_WHITESPACE"
        ELSE IF late THEN "VALUE_LEADING_WHITESPACE"
        ELSE IF ~IsName(k) THEN "KEY_INVALID" ELSE ValueFault(v)
  BY DEF ShellFault
<1>3. port =
        IF k # << >> /\ k[1] \in Space THEN "KEY_LEADING_WHITESPACE"
        ELSE IF k # << >> /\ k[Len(k)] \in Space THEN "KEY_TRAILING_WHITESPACE"
        ELSE IF late THEN "VALUE_LEADING_WHITESPACE"
        ELSE IF k = << >> THEN "EMPTY_KEY"
        ELSE IF ~IsName(k) THEN "KEY_INVALID" ELSE "NONE"
  BY DEF PortKeyFault, Rust, Port
<1>4. ~(k = << >> /\ late)
  <2>1. SUFFICES ASSUME k = << >>, late PROVE NoNameNoValue(s)
    OBVIOUS
  <2>2. Index(s, EQ) = 1 /\ Len(s) \in Nat /\ s[1] = EQ
    <3>1. Index(s, EQ) \in 1..Len(s) /\ Len(k) = Index(s, EQ) - 1
      BY Sides
    <3>2. Len(k) = 0
      BY <2>1
    <3>3. Index(s, EQ) = 1
      BY <3>1, <3>2
    <3>4. QED
      BY <3>3, IndexFinds
  <2>3. v = After(s, 1) /\ 1 \in 0..Len(s)
    BY <2>2, Sides DEF Value
  <2>4. Len(v) = Len(s) - 1 /\ \A i \in 1..(Len(s) - 1) : v[i] = s[1 + i]
    BY <2>3, AfterType
  <2>5. Len(v) > 0 /\ v[1] \in Space
    BY <1>1, <2>1
  <2>6. Len(s) > 1 /\ 1 \in 1..(Len(s) - 1) /\ 1 + 1 = 2
    BY <2>2, <2>4, <2>5
  <2>7. s[2] \in Space
    BY <2>4, <2>5, <2>6
  <2>8. QED
    BY <2>2, <2>6, <2>7 DEF NoNameNoValue
<1>5. KeyFault(k) =
        IF k = << >> THEN "EMPTY_KEY"
        ELSE IF k[1] \in Space THEN "KEY_LEADING_WHITESPACE"
        ELSE IF k[Len(k)] \in Space THEN "KEY_TRAILING_WHITESPACE"
        ELSE IF ~IsName(k) THEN "KEY_INVALID" ELSE "NONE"
  BY <1>1, SameNames
<1> HIDE DEF k, v, late
<1>6. ShellFault(k, v) = IF port # "NONE" THEN port ELSE ValueFault(v)
  BY <1>2, <1>3, <1>4
<1>7. port = "NONE" => KeyFault(k) = "NONE" /\ ~late
  BY <1>3, <1>5
<1>8. QED
  BY <1>6, <1>7 DEF k, v, late

\* In a shell record that does not end in a CR, Rust finds what the reference finds.
LEMMA RustShell ==
  ASSUME NEW s \in Seq(Byte), ~PortSkips(Rust, s), ~NotARecord(s), ~NoNameNoValue(s)
  PROVE  Classified(Rust, FALSE, s, s) = AwkVerdict(FALSE, s)
<1> DEFINE k == Key(s)
           v == Value(s)
           port == PortKeyFault(Rust, k, v)
<1>1. CASE ~Has(s, EQ)
  <2>1. Classified(Rust, FALSE, s, s) = NoRecord("NO_EQUALS")
    BY <1>1, IndexFinds DEF Classified
  <2>2. Fault(FALSE, s) = "NO_EQUALS"
    BY <1>1 DEF Fault
  <2>3. QED
    BY <2>1, <2>2 DEF AwkVerdict
<1>2. CASE Has(s, EQ)
  <2>1. k \in Seq(Byte) /\ v \in Seq(Byte) /\ Index(s, EQ) # 0
    BY <1>2, Sides
  <2>2. Classified(Rust, FALSE, s, s) = IF port # "NONE" THEN NoRecord(port) ELSE ShellValue(k, v)
    BY <2>1, PortUnquotes DEF Classified
  <2>3. Fault(FALSE, s) = ShellFault(k, v)
    BY <1>2 DEF Fault
  <2>4. ShellFault(k, v) # "NONE" => AwkVerdict(FALSE, s) = NoRecord(ShellFault(k, v))
    BY <2>3 DEF AwkVerdict
  <2>5. /\ ShellFault(k, v) = IF port # "NONE" THEN port ELSE ValueFault(v)
        /\ port = "NONE" => KeyFault(k) = "NONE" /\ ~(v # << >> /\ v[1] \in Space)
    BY <1>2, FaultOrder
  <2>6. KeyFault(k) = "NONE" /\ ~(v # << >> /\ v[1] \in Space) => ShellValue(k, v) = AwkVerdict(FALSE, s)
    BY <1>2, SameRecords
  <2> HIDE DEF k, v, port
  <2>7. QED
    BY <2>2, <2>4, <2>5, <2>6
<1>3. QED
  BY <1>1, <1>2

LEMMA Regrouped ==
  ASSUME NEW a \in Seq(Byte), NEW b \in Seq(Byte), NEW c \in Seq(Byte)
  PROVE  a \o (b \o c) = (a \o b) \o c
OBVIOUS

\* A record that was taken without the CR behind it.
LEMMA LostBehind ==
  ASSUME NEW k \in Seq(Byte), NEW text \in Seq(Byte), NEW kind,
         NEW v, v = Quotes(kind) \o text \o Quotes(kind),
         NEW s, s = k \o <<EQ>> \o v \o <<CR>>
  PROVE  CrLost(FillRecord(k, text, kind), s)
<1>1. Quotes(kind) \in Seq(Byte) /\ <<EQ>> \in Seq(Byte) /\ <<CR>> \in Seq(Byte)
  <2>1. SQ \in Byte /\ DQ \in Byte /\ EQ \in Byte /\ CR \in Byte
    BY ByteClasses DEF Special
  <2>2. Quotes(kind) \in {<<SQ>>, <<DQ>>, << >>}
    BY DEF Quotes
  <2>3. << >> \in Seq(Byte) /\ \A c \in Byte : <<c>> \in Seq(Byte)
    OBVIOUS
  <2>4. QED
    BY <2>1, <2>2, <2>3
<1>2. ASSUME NEW a \in Seq(Byte), NEW q \in Seq(Byte)
      PROVE  a \o (q \o text \o q) = a \o q \o text \o q
  <2> DEFINE b == q \o text
  <2>1. b \in Seq(Byte)
    BY <1>2
  <2>2. a \o b = (a \o q) \o text
    BY <1>2, Regrouped
  <2>3. a \o (b \o q) = (a \o b) \o q
    <3> HIDE DEF b
    <3>1. QED
      BY <1>2, <2>1, Regrouped
  <2>4. QED
    BY <2>2, <2>3
<1>3. k \o <<EQ>> \in Seq(Byte)
  BY <1>1
<1>4. s = k \o <<EQ>> \o Quotes(kind) \o text \o Quotes(kind) \o <<CR>>
  BY <1>1, <1>2, <1>3
<1>5. QED
  BY <1>4 DEF CrLost, FillRecord

\* u is t and a CR behind it.
WithCr(u, t) ==
  Len(u) = Len(t) + 1 /\ u[Len(u)] = CR /\ \A i \in 1..Len(t) : u[i] = t[i]

LEMMA CrBehind ==
  ASSUME NEW u \in Seq(Byte), NEW t \in Seq(Byte), WithCr(u, t)
  PROVE  /\ u = t \o <<CR>>
         /\ \A c : c # CR => Index(u, c) = Index(t, c)
         /\ \A n \in 0..Len(t) : WithCr(After(u, n), After(t, n)) /\ SubSeq(u, 1, n) = SubSeq(t, 1, n)
<1>1. /\ Len(u) = Len(t) + 1 /\ u[Len(u)] = CR /\ Len(t) \in Nat
      /\ \A i \in 1..Len(t) : u[i] = t[i]
  BY DEF WithCr
<1>2. u = t \o <<CR>>
  <2> DEFINE j == t \o <<CR>>
  <2>1. CR \in Byte
    BY ByteClasses DEF Special
  <2>2. j \in Seq(Byte) /\ Len(j) = Len(t) + 1 /\ \A i \in 1..Len(j) : j[i] = IF i <= Len(t) THEN t[i] ELSE CR
    BY <2>1
  <2> HIDE DEF j
  <2>3. \A i \in 1..Len(u) : u[i] = IF i <= Len(t) THEN t[i] ELSE CR
    BY <1>1
  <2>4. Len(j) = Len(u) /\ \A i \in 1..Len(u) : j[i] = u[i]
    BY <1>1, <2>2, <2>3
  <2>5. j = u
    BY <2>2, <2>4, SeqEqual
  <2>6. QED
    BY <2>5 DEF j
<1>3. ASSUME NEW c, c # CR PROVE Index(u, c) = Index(t, c)
  <2> DEFINE m == Index(u, c)
             n == Index(t, c)
  <2>1. m \in 0..Len(u) /\ (m = 0 <=> ~Has(u, c)) /\ (m > 0 => u[m] = c /\ \A j \in 1..(m - 1) : u[j] # c)
    BY IndexFinds
  <2>2. n \in 0..Len(t) /\ (n = 0 <=> ~Has(t, c)) /\ (n > 0 => t[n] = c /\ \A j \in 1..(n - 1) : t[j] # c)
    BY IndexFinds
  <2>3. Has(u, c) <=> Has(t, c)
    BY <1>1, <1>3 DEF Has
  <2> SUFFICES m = n
    OBVIOUS
  <2> HIDE DEF m, n
  <2>4. CASE m = 0 \/ n = 0
    BY <2>1, <2>2, <2>3, <2>4
  <2>5. CASE m > 0 /\ n > 0
    <3>1. m # Len(u)
      BY <1>1, <1>3, <2>1, <2>5
    <3>2. m \in 1..Len(t) /\ n \in 1..Len(t)
      BY <1>1, <2>1, <2>2, <2>5, <3>1
    <3>3. t[m] = c /\ u[n] = c
      BY <1>1, <2>1, <2>2, <2>5, <3>2
    <3>4. ~(m < n)
      BY <2>2, <2>5, <3>2, <3>3
    <3>5. ~(n < m)
      BY <2>1, <2>5, <3>2, <3>3
    <3>6. QED
      BY <3>2, <3>4, <3>5
  <2>6. QED
    BY <2>1, <2>2, <2>4, <2>5
<1>4. ASSUME NEW n \in 0..Len(t)
      PROVE  WithCr(After(u, n), After(t, n)) /\ SubSeq(u, 1, n) = SubSeq(t, 1, n)
  <2> DEFINE a == After(u, n)
             b == After(t, n)
  <2>1. Len(a) = Len(u) - n /\ \A i \in 1..(Len(u) - n) : a[i] = u[n + i]
    <3>1. n \in 0..Len(u)
      BY <1>1
    <3>2. QED
      BY <3>1, AfterType
  <2>2. Len(b) = Len(t) - n /\ \A i \in 1..(Len(t) - n) : b[i] = t[n + i]
    BY AfterType
  <2> HIDE DEF a, b
  <2>3. Len(a) = Len(b) + 1 /\ Len(a) \in 1..(Len(u) - n) /\ n + Len(a) = Len(u)
    BY <1>1, <2>1, <2>2
  <2>4. a[Len(a)] = CR
    BY <1>1, <2>1, <2>3
  <2>5. \A i \in 1..Len(b) : a[i] = b[i]
    <3>1. \A i \in 1..Len(b) : i \in 1..(Len(u) - n) /\ i \in 1..(Len(t) - n) /\ n + i \in 1..Len(t)
      BY <1>1, <2>2
    <3>2. QED
      BY <1>1, <2>1, <2>2, <3>1
  <2>6. WithCr(a, b)
    BY <2>3, <2>4, <2>5 DEF WithCr
  <2>7. SubSeq(u, 1, n) = SubSeq(t, 1, n)
    <3>1. \A i \in 1..n : u[i] = t[i]
      BY <1>1
    <3>2. SubSeq(u, 1, n) \in Seq(Byte) /\ SubSeq(t, 1, n) \in Seq(Byte)
      BY <1>1
    <3>3. /\ Len(SubSeq(u, 1, n)) = n /\ Len(SubSeq(t, 1, n)) = n
          /\ \A i \in 1..n : SubSeq(u, 1, n)[i] = u[i] /\ SubSeq(t, 1, n)[i] = t[i]
      BY <1>1
    <3>4. QED
      BY <3>1, <3>2, <3>3, SeqEqual
  <2>8. QED
    BY <2>6, <2>7 DEF a, b
<1>5. QED
  BY <1>2, <1>3, <1>4

\* A value that a port reads without the CR behind it has the fault it has with
\* it, or is accepted and the CR is lost.
LEMMA CrUnquote ==
  ASSUME NEW k \in Seq(Byte), NEW v \in Seq(Byte), NEW u \in Seq(Byte), WithCr(u, v),
         NEW s, s = k \o <<EQ>> \o v \o <<CR>>
  PROVE  \/ ValueFault(u) # "NONE" /\ ShellValue(k, v) = NoRecord(ValueFault(u))
         \/ CrLost(ShellValue(k, v), s)
<1>1. /\ Len(u) = Len(v) + 1 /\ Len(v) \in Nat /\ u[Len(u)] = CR
      /\ \A i \in 1..Len(v) : u[i] = v[i]
  BY DEF WithCr
<1>2. v # << >> => Len(v) > 0 /\ u # << >> /\ u[1] = v[1]
  BY <1>1
<1>3. CR \notin Space \cup {SQ, DQ, BSL}
  BY ByteClasses, SyntaxBytes, SpecialBytes DEF Special
<1>4. Quoted(u) <=> Quoted(v)
  <2>1. CASE v = << >>
    BY <1>1, <1>3, <2>1 DEF Quoted
  <2>2. CASE v # << >>
    BY <1>2, <2>2 DEF Quoted
  <2>3. QED
    BY <2>1, <2>2
<1>5. CASE ~Quoted(v)
  <2> DEFINE bad(w) == \E i \in 1..Len(w) : w[i] \in Space \cup {SQ, DQ, BSL}
  <2>1. ValueFault(u) = IF bad(u) THEN "VALUE_INVALID_CHAR" ELSE "NONE"
    BY <1>4, <1>5 DEF ValueFault
  <2>2. ShellValue(k, v) = IF bad(v) THEN NoRecord("VALUE_INVALID_CHAR") ELSE FillRecord(k, v, "PLAIN")
    BY <1>5 DEF ShellValue, Quoted
  <2>3. bad(v) => bad(u)
    <3>1. \A i \in 1..Len(v) : i \in 1..Len(u)
      BY <1>1
    <3>2. QED
      BY <1>1, <3>1
  <2> HIDE DEF bad
  <2>4. CASE bad(v)
    BY <2>1, <2>2, <2>3, <2>4
  <2>5. CASE ~bad(v)
    <3>1. Quotes("PLAIN") = << >>
      BY DEF Quotes
    <3>2. v = Quotes("PLAIN") \o v \o Quotes("PLAIN")
      BY <3>1
    <3>3. CrLost(FillRecord(k, v, "PLAIN"), s)
      BY <3>2, LostBehind
    <3>4. QED
      BY <2>2, <2>5, <3>3
  <2>6. QED
    BY <2>4, <2>5
<1>6. CASE Quoted(v)
  <2> DEFINE q == v[1]
             rest == After(v, 1)
             pos == Index(rest, q)
             text == SubSeq(rest, 1, pos - 1)
             open == IF q = DQ THEN "DOUBLE_QUOTE_UNTERMINATED" ELSE "SINGLE_QUOTE_UNTERMINATED"
  <2>1. v # << >> /\ q \in {SQ, DQ} /\ q # CR /\ 1 \in 0..Len(v) /\ u[1] = q /\ q \in Byte
    <3>1. v # << >> /\ q \in {SQ, DQ}
      BY <1>6 DEF Quoted
    <3>2. QED
      BY <1>1, <1>2, <1>3, <3>1
  <2>2. rest \in Seq(Byte) /\ Len(rest) = Len(v) - 1 /\ \A i \in 1..(Len(v) - 1) : rest[i] = v[1 + i]
    BY <2>1, AfterType
  <2>3. WithCr(After(u, 1), rest) /\ After(u, 1) \in Seq(Byte)
    BY <1>1, <2>1, CrBehind, AfterType
  <2>4. Closing(u) = pos
    <3>1. Index(After(u, 1), q) = Index(rest, q)
      <4> HIDE DEF rest, q
      <4>1. QED
        BY <2>1, <2>2, <2>3, CrBehind
    <3>2. QED
      BY <2>1, <3>1 DEF Closing
  <2>5. pos \in 0..Len(rest) /\ (pos > 0 => rest[pos] = q)
    BY <2>2, IndexFinds
  <2>6. ShellValue(k, v) = IF pos = 0 THEN NoRecord(open)
                           ELSE IF pos # Len(rest) THEN NoRecord("TRAILING_CONTENT")
                           ELSE FillRecord(k, text, Kind(q))
    BY <2>1 DEF ShellValue
  <2>7. ValueFault(u) = IF pos = 0 THEN open
                        ELSE IF pos < Len(u) - 1 THEN "TRAILING_CONTENT" ELSE "NONE"
    BY <1>4, <1>6, <2>1, <2>4 DEF ValueFault
  <2>8. open # "NONE"
    OBVIOUS
  <2>9. CASE pos = 0
    <3> HIDE DEF open, pos, rest, text, q
    <3>1. QED
      BY <2>6, <2>7, <2>8, <2>9
  <2>10. CASE pos # 0 /\ pos # Len(rest)
    <3> HIDE DEF open, pos, rest, text, q
    <3>1. pos < Len(u) - 1
      BY <1>1, <2>2, <2>5, <2>10
    <3>2. QED
      BY <2>6, <2>7, <2>10, <3>1
  <2>11. CASE pos # 0 /\ pos = Len(rest)
    <3>1. text \in Seq(Byte) /\ Len(text) = pos - 1 /\ \A i \in 1..(pos - 1) : text[i] = rest[i]
      <4> HIDE DEF rest, pos
      <4>1. QED
        BY <2>2, <2>5, <2>11
    <3>2. Quotes(Kind(q)) = <<q>>
      BY <2>1 DEF Kind, Quotes
    <3>3. v = <<q>> \o text \o <<q>>
      <4> DEFINE j == <<q>> \o text \o <<q>>
      <4>1. q = v[1] /\ q \in Byte
        BY <2>1
      <4> HIDE DEF q, text, rest, pos
      <4>2. /\ j \in Seq(Byte) /\ Len(j) = Len(text) + 2
            /\ \A i \in 1..Len(j) : j[i] = IF i = 1 \/ i = Len(text) + 2 THEN q ELSE text[i - 1]
        BY <3>1, <4>1
      <4>3. Len(v) = Len(text) + 2
        BY <1>1, <2>2, <2>5, <2>11, <3>1
      <4> HIDE DEF j
      <4>4. ASSUME NEW i \in 1..Len(v) PROVE v[i] = IF i = 1 \/ i = Len(text) + 2 THEN q ELSE text[i - 1]
        <5>1. CASE i = 1
          BY <4>1, <5>1
        <5>2. CASE i # 1
          <6>1. i - 1 \in 1..(Len(v) - 1) /\ 1 + (i - 1) = i
            BY <1>1, <5>2
          <6>2. rest[i - 1] = v[i]
            BY <2>2, <6>1
          <6>3. CASE i = Len(text) + 2
            BY <2>5, <2>11, <3>1, <6>2, <6>3
          <6>4. CASE i # Len(text) + 2
            <7>1. i - 1 \in 1..(pos - 1)
              BY <1>1, <3>1, <4>3, <6>1, <6>4
            <7>2. QED
              BY <3>1, <5>2, <6>2, <6>4, <7>1
          <6>5. QED
            BY <6>3, <6>4
        <5>3. QED
          BY <5>1, <5>2
      <4>5. v = j
        BY <4>2, <4>3, <4>4, SeqEqual
      <4>6. QED
        BY <4>5 DEF j
    <3>4. ShellValue(k, v) = FillRecord(k, text, Kind(q))
      <4> HIDE DEF open, pos, rest, text, q
      <4>1. QED
        BY <2>6, <2>11
    <3> HIDE DEF text, q, rest, pos, open
    <3>5. CrLost(FillRecord(k, text, Kind(q)), s)
      BY <3>1, <3>2, <3>3, LostBehind
    <3>6. QED
      BY <3>4, <3>5
  <2>12. QED
    BY <2>9, <2>10, <2>11
<1>7. QED
  BY <1>5, <1>6

\* In a shell record that ends in a CR Rust finds the fault that the reference
\* finds, or it takes the record without the CR.
LEMMA RustShellCr ==
  ASSUME NEW s \in Seq(Byte), NEW w \in Seq(Byte), WithCr(s, w),
         ~PortSkips(Rust, w), ~NotARecord(s), ~NoNameNoValue(s)
  PROVE  \/ Classified(Rust, FALSE, w, w) = AwkVerdict(FALSE, s)
         \/ CrLost(Classified(Rust, FALSE, w, w), s)
<1>1. CR # EQ /\ CR \notin Space /\ EQ \in Byte
  BY ByteClasses, SyntaxBytes DEF Special
<1>2. Index(s, EQ) = Index(w, EQ)
  BY <1>1, CrBehind
<1>3. CASE ~Has(s, EQ)
  <2>1. Classified(Rust, FALSE, w, w) = NoRecord("NO_EQUALS")
    BY <1>2, <1>3, IndexFinds DEF Classified
  <2>2. Fault(FALSE, s) = "NO_EQUALS"
    BY <1>3 DEF Fault
  <2>3. QED
    BY <2>1, <2>2 DEF AwkVerdict
<1>4. CASE Has(s, EQ)
  <2> DEFINE eq == Index(w, EQ)
             k == Key(s)
             v == Value(w)
             u == Value(s)
             port == PortKeyFault(Rust, k, v)
  <2>1. Has(w, EQ) /\ eq \in 1..Len(w) /\ w[eq] = EQ
    BY <1>2, <1>4, IndexFinds, Sides
  <2>2. k = Key(w) /\ v = After(w, eq) /\ u = After(s, eq) /\ WithCr(u, v)
    <3> HIDE DEF eq
    <3>1. eq - 1 \in 0..Len(w) /\ eq \in 0..Len(w)
      BY <2>1
    <3>2. SubSeq(s, 1, eq - 1) = SubSeq(w, 1, eq - 1) /\ WithCr(After(s, eq), After(w, eq))
      BY <3>1, CrBehind
    <3>3. QED
      BY <1>2, <3>2 DEF Key, Value, eq
  <2>3. k \in Seq(Byte) /\ v \in Seq(Byte) /\ u \in Seq(Byte)
    BY <1>4, <2>1, <2>2, Sides
  <2>4. Classified(Rust, FALSE, w, w) = IF port # "NONE" THEN NoRecord(port) ELSE ShellValue(k, v)
    BY <2>1, <2>2, <2>3, PortUnquotes DEF Classified
  <2>5. Fault(FALSE, s) = ShellFault(k, u)
    BY <1>4 DEF Fault
  <2>6. ShellFault(k, u) # "NONE" => AwkVerdict(FALSE, s) = NoRecord(ShellFault(k, u))
    BY <2>5 DEF AwkVerdict
  <2>7. port = PortKeyFault(Rust, k, u)
    <3>1. (v # << >> /\ v[1] \in Space) <=> (u # << >> /\ u[1] \in Space)
      <4>1. Len(u) = Len(v) + 1 /\ u[Len(u)] = CR /\ \A i \in 1..Len(v) : u[i] = v[i]
        BY <2>2 DEF WithCr
      <4> HIDE DEF k, v, u, port
      <4>2. QED
        BY <1>1, <2>3, <4>1
    <3> HIDE DEF k, v, u
    <3>2. QED
      BY <3>1 DEF PortKeyFault, Rust, Port
  <2>8. ShellFault(k, u) = IF port # "NONE" THEN port ELSE ValueFault(u)
    <3> HIDE DEF port
    <3>1. QED
      BY <1>4, <2>7, FaultOrder
  <2>9. CASE port # "NONE"
    <3> HIDE DEF k, v, u, port
    <3>1. QED
      BY <2>4, <2>6, <2>8, <2>9
  <2>10. CASE port = "NONE"
    <3>1. Classified(Rust, FALSE, w, w) = ShellValue(k, v) /\ ShellFault(k, u) = ValueFault(u)
      <4> HIDE DEF k, v, u, port
      <4>1. QED
        BY <2>4, <2>8, <2>10
    <3>2. s = k \o <<EQ>> \o v \o <<CR>>
      <4>1. SubSeq(w, 1, eq - 1) \o <<EQ>> \o After(w, eq) = w
        <5> HIDE DEF eq
        <5>1. QED
          BY <2>1, Rejoined
      <4>2. QED
        BY <2>2, <4>1, CrBehind DEF Key
    <3> HIDE DEF k, v, u, port
    <3>3. \/ ValueFault(u) # "NONE" /\ ShellValue(k, v) = NoRecord(ValueFault(u))
          \/ CrLost(ShellValue(k, v), s)
      BY <2>2, <2>3, <3>2, CrUnquote
    <3>4. QED
      BY <2>6, <3>1, <3>3
  <2>11. QED
    BY <2>9, <2>10
<1>5. QED
  BY <1>3, <1>4

LEMMA RustAsAwk ==
  ASSUME NEW s \in Seq(Byte)
  PROVE  \/ PortVerdict(Rust, FALSE, s) = AwkVerdict(FALSE, s)
         \/ NoNameNoValue(s) \/ CrLost(PortVerdict(Rust, FALSE, s), s)
<1> DEFINE w == StripCr(s, TRUE)
<1>1. w \in Seq(Byte)
  BY Stripped
<1>2. PortVerdict(Rust, FALSE, s) = Classified(Rust, FALSE, w, w)
  BY PortClassifies
<1>3. PortSkips(Rust, w) <=> NotARecord(s)
  BY RustSkips
<1>4. CASE NotARecord(s)
  BY <1>2, <1>3, <1>4 DEF Classified, AwkVerdict
<1>5. CASE ~NotARecord(s) /\ ~(s # << >> /\ s[Len(s)] = CR)
  <2>1. w = s
    BY <1>5, Stripped
  <2> HIDE DEF w
  <2>2. QED
    BY <1>2, <1>3, <1>5, <2>1, RustShell
<1>6. CASE ~NotARecord(s) /\ s # << >> /\ s[Len(s)] = CR
  <2>1. WithCr(s, w)
    <3>1. Len(w) = Len(s) - 1 /\ \A i \in 1..Len(w) : w[i] = s[i]
      BY <1>6, Stripped
    <3> HIDE DEF w
    <3>2. QED
      BY <1>6, <3>1 DEF WithCr
  <2> HIDE DEF w
  <2>2. QED
    BY <1>1, <1>2, <1>3, <1>6, <2>1, RustShellCr
<1>7. QED
  BY <1>4, <1>5, <1>6

\* More white space than Rust's does not show in a line without it.
LEMMA SameWhite ==
  ASSUME NEW w \in Seq(Byte), ~Has(w, CR), ~Has(w, NUL), NEW work \in Seq(Byte), NEW native \in BOOLEAN,
         native \/ work = w, NEW p,
         p.blank \ {CR, NUL} = Space, p.white \ {CR} = Space, Space \subseteq p.blank, Space \subseteq p.white
  PROVE  Classified(p, native, w, work) = Classified(Rust, native, w, work)
<1>1. CR \notin Space /\ NUL \notin Space
  BY ByteClasses DEF Special
<1>2. Rust.blank = Space /\ Rust.white = Space
  BY DEF Rust, Port
<1>3. PortSkips(p, w) <=> PortSkips(Rust, w)
  <2>1. \A i \in 1..Len(w) : w[i] \in p.blank <=> w[i] \in Space
    BY DEF Has
  <2>2. QED
    BY <1>2, <2>1 DEF PortSkips
<1>4. ASSUME work = w, Index(w, EQ) # 0
      PROVE  PortKeyFault(p, Key(w), Value(w)) = PortKeyFault(Rust, Key(w), Value(w))
  <2> DEFINE k == Key(w)
             v == Value(w)
             eq == Index(w, EQ)
  <2>1. Has(w, EQ)
    BY <1>4, IndexFinds
  <2>2. /\ k \in Seq(Byte) /\ v \in Seq(Byte) /\ Len(k) = eq - 1 /\ eq \in 1..Len(w)
        /\ \A i \in 1..Len(v) : \E j \in 1..Len(w) : v[i] = w[j]
    BY <2>1, Sides
  <2>3. \A i \in 1..Len(k) : i \in 1..Len(w) /\ k[i] = w[i]
    BY <2>2 DEF Key
  <2> HIDE DEF k, v, eq
  <2>4. \A i \in 1..Len(k) : k[i] # CR
    BY <2>3 DEF Has
  <2>5. \A i \in 1..Len(v) : v[i] # CR
    BY <2>2 DEF Has
  <2>6. k # << >> => 1 \in 1..Len(k) /\ Len(k) \in 1..Len(k)
    BY <2>2
  <2>7. v # << >> => 1 \in 1..Len(v)
    BY <2>2
  <2>8. \A c : c # CR => (c \in p.white <=> c \in Space)
    OBVIOUS
  <2>9. PortKeyFault(p, k, v) = PortKeyFault(Rust, k, v)
    BY <1>2, <2>4, <2>5, <2>6, <2>7, <2>8 DEF PortKeyFault
  <2>10. QED
    BY <2>9 DEF k, v
<1>5. CASE native
  BY <1>3, <1>5 DEF Classified
<1>6. CASE ~native
  BY <1>3, <1>4, <1>6 DEF Classified
<1>7. QED
  BY <1>5, <1>6

\* A native record without the CR that stands behind it.
LEMMA NativeCr ==
  ASSUME NEW s \in Seq(Byte), NEW w \in Seq(Byte), WithCr(s, w)
  PROVE  \/ Classified(Rust, TRUE, w, w) = Classified(Rust, TRUE, w, s)
         \/ CrLost(Classified(Rust, TRUE, w, w), s)
<1> DEFINE eq == Index(w, EQ)
           k == Key(w)
           v == Value(w)
<1>1. Index(s, EQ) = eq
  <2>1. CR # EQ
    BY SyntaxBytes
  <2>2. QED
    BY <2>1, CrBehind
<1>2. CASE PortSkips(Rust, w) \/ eq = 0
  BY <1>1, <1>2 DEF Classified
<1>3. CASE ~PortSkips(Rust, w) /\ eq # 0
  <2>1. eq \in 1..Len(w) /\ w[eq] = EQ
    BY <1>3, IndexFinds
  <2>2. Key(s) = k
    <3>1. SubSeq(s, 1, eq - 1) = SubSeq(w, 1, eq - 1)
      <4> HIDE DEF eq
      <4>1. eq - 1 \in 0..Len(w)
        BY <2>1
      <4>2. QED
        BY <4>1, CrBehind
    <3>2. QED
      BY <1>1, <3>1 DEF Key
  <2>3. CASE k = << >>
    BY <1>1, <1>3, <2>2, <2>3 DEF Classified
  <2>4. CASE k # << >>
    <3>1. Classified(Rust, TRUE, w, w) = FillRecord(k, v, "PLAIN")
      BY <1>3, <2>4 DEF Classified
    <3>2. s = w \o <<CR>> /\ k \o <<EQ>> \o v = w
      <4>1. SubSeq(w, 1, eq - 1) \o <<EQ>> \o After(w, eq) = w
        <5> HIDE DEF eq
        <5>1. QED
          BY <2>1, Rejoined
      <4>2. QED
        BY <4>1, CrBehind DEF Key, Value
    <3>3. k \in Seq(Byte) /\ v \in Seq(Byte)
      <4>1. Has(w, EQ)
        BY <1>3, IndexFinds
      <4>2. QED
        BY <4>1, Sides
    <3> HIDE DEF k, v, eq
    <3>4. v = Quotes("PLAIN") \o v \o Quotes("PLAIN")
      BY <3>3 DEF Quotes
    <3>5. s = k \o <<EQ>> \o v \o <<CR>>
      BY <3>2
    <3>6. CrLost(FillRecord(k, v, "PLAIN"), s)
      BY <3>3, <3>4, <3>5, LostBehind
    <3>7. QED
      BY <3>1, <3>6
  <2>5. QED
    BY <2>3, <2>4
<1>4. QED
  BY <1>2, <1>3

\* The ports with more white space find what Rust finds in a line without it;
\* Perl takes the native record without its CR.
LEMMA OthersAsRust ==
  ASSUME NEW s \in Seq(Byte), ~Has(StripCr(s, TRUE), CR), ~Has(StripCr(s, TRUE), NUL),
         NEW native \in BOOLEAN, NEW p \in {Zig, Ruby, Perl, Bash, Sh}
  PROVE  \/ PortVerdict(p, native, s) = PortVerdict(Rust, native, s)
         \/ native /\ ~p.whole /\ CrLost(PortVerdict(p, native, s), s)
<1> DEFINE w == StripCr(s, TRUE)
<1>1. w \in Seq(Byte)
  BY Stripped
<1>2. /\ p.blank \ {CR, NUL} = Space /\ p.white \ {CR} = Space
      /\ Space \subseteq p.blank /\ Space \subseteq p.white /\ p.whole \in BOOLEAN
  <2>1. CR \notin Space /\ NUL \notin Space
    BY ByteClasses DEF Special
  <2>2. CASE p \in {Zig, Perl, Bash}
    <3>1. p.blank = Space \cup {CR} /\ p.white = Space \cup {CR} /\ p.whole \in BOOLEAN
      <4>1. CASE p = Zig \/ p = Bash
        <5>1. Zig = Port(Space \cup {CR}, Space \cup {CR}, TRUE) /\ Bash = Zig
          BY DEF Zig, Bash
        <5>2. p.blank = Space \cup {CR} /\ p.white = Space \cup {CR} /\ p.whole
          BY <4>1, <5>1 DEF Port
        <5>3. QED
          BY <5>2
      <4>2. CASE p = Perl
        <5>1. p.blank = Space \cup {CR} /\ p.white = Space \cup {CR} /\ p.whole = FALSE
          BY <4>2 DEF Perl, Port
        <5>2. QED
          BY <5>1
      <4>3. QED
        BY <2>2, <4>1, <4>2
    <3>2. QED
      BY <2>1, <3>1
  <2>3. CASE p = Ruby
    <3>1. p.blank = Space \cup {CR, NUL} /\ p.white = Space /\ p.whole
      BY <2>3 DEF Ruby, Port
    <3>2. QED
      BY <2>1, <3>1
  <2>4. CASE p = Sh
    <3>1. p.blank = Space /\ p.white = Space \cup {CR} /\ p.whole
      BY <2>4 DEF Sh, Port
    <3>2. QED
      BY <2>1, <3>1
  <2>5. QED
    BY <2>2, <2>3, <2>4
<1>3. Rust.whole
  BY DEF Rust, Port
<1>4. PortVerdict(p, native, s) = Classified(p, native, w, IF native /\ p.whole THEN s ELSE w)
  BY PortClassifies
<1>5. \A work \in Seq(Byte) : native \/ work = w => Classified(p, native, w, work) = Classified(Rust, native, w, work)
  <2>1. ~Has(w, CR) /\ ~Has(w, NUL)
    OBVIOUS
  <2> HIDE DEF w
  <2>2. SUFFICES ASSUME NEW work \in Seq(Byte), native \/ work = w
                 PROVE  Classified(p, native, w, work) = Classified(Rust, native, w, work)
    OBVIOUS
  <2>3. QED
    BY <1>1, <1>2, <2>1, <2>2, SameWhite
<1>6. PortVerdict(p, native, s) = Classified(Rust, native, w, IF native /\ p.whole THEN s ELSE w)
  BY <1>1, <1>4, <1>5
<1>7. PortVerdict(Rust, native, s) = Classified(Rust, native, w, IF native THEN s ELSE w)
  BY <1>3, PortClassifies
<1>8. CASE ~native \/ p.whole
  <2>1. CASE native
    <3>1. PortVerdict(p, native, s) = Classified(Rust, native, w, s)
      BY <1>6, <1>8, <2>1
    <3>2. QED
      BY <1>7, <2>1, <3>1
  <2>2. CASE ~native
    <3>1. PortVerdict(p, native, s) = Classified(Rust, native, w, w)
      BY <1>6, <2>2
    <3>2. QED
      BY <1>7, <2>2, <3>1
  <2>3. QED
    BY <2>1, <2>2
<1>9. CASE native /\ ~p.whole
  <2> DEFINE r == Classified(Rust, TRUE, w, w)
  <2>1. PortVerdict(p, native, s) = r
    BY <1>6, <1>9
  <2>2. r = Classified(Rust, TRUE, w, s) \/ CrLost(r, s)
    <3>1. CASE ~(s # << >> /\ s[Len(s)] = CR)
      <4>1. w = s
        BY <3>1, Stripped
      <4> HIDE DEF w
      <4>2. QED
        BY <4>1
    <3>2. CASE s # << >> /\ s[Len(s)] = CR
      <4>1. WithCr(s, w)
        <5>1. Len(w) = Len(s) - 1 /\ \A i \in 1..Len(w) : w[i] = s[i]
          BY <3>2, Stripped
        <5> HIDE DEF w
        <5>2. QED
          BY <3>2, <5>1 DEF WithCr
      <4> HIDE DEF w
      <4>2. QED
        BY <1>1, <4>1, NativeCr DEF r
    <3>3. QED
      BY <3>1, <3>2
  <2> HIDE DEF r
  <2>3. QED
    BY <1>7, <1>9, <2>1, <2>2
<1>10. QED
  BY <1>8, <1>9

\* The other implementations find in lines of any length what the reference
\* finds in them, but for the order of two faults, the white space that is their
\* own and the CR that they take off (main.rs:215-291, envfile.awk:107-154).
THEOREM PortsClassifyAsAwk == LineSpec => []PortsAsAwk
<1>1. LineTypeOK => PortsAsAwk
  BY RustNative, RustAsAwk, OthersAsRust DEF LineTypeOK, PortsAsAwk
<1>2. QED
  BY <1>1, LinesTyped, PTL
=============================================================================
