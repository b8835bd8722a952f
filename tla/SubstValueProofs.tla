-------------------------- MODULE SubstValueProofs --------------------------
(***************************************************************************)
(* The walk of subst_value stays inside its value, never stands still, and *)
(* makes of the value what the reference makes of it, for every value and  *)
(* every environment.                                                      *)
(***************************************************************************)
EXTENDS SubstValue, LineProofs

\* No more references are reported than bytes were consumed.
WalkInv == TypeOK /\ env \in Envs /\ errors <= val

\* Where a turn that finds a dollar sign stands.
LEMMA AtDollarPlace ==
  ASSUME WalkInv, AtDollar
  PROVE  /\ Rest \in Seq(Byte) /\ Len(Rest) = Len(value) - val
         /\ Dollar \in 1..Len(Rest) /\ Before \in Seq(Byte)
<1>1. Rest \in Seq(Byte) /\ Len(Rest) = Len(value) - val
  BY AfterType DEF WalkInv, TypeOK, Rest
<1>2. Dollar \in 1..Len(Rest)
  BY <1>1, IndexFinds DEF AtDollar, Dollar
<1>3. Before \in Seq(Byte)
  BY <1>1, <1>2 DEF Before
<1>4. QED
  BY <1>1, <1>2, <1>3

LEMMA ResolveTypes ==
  ASSUME WalkInv, NEW name, Before \in Seq(Byte), Resolve(name)
  PROVE  out' \in Seq(Byte) /\ errors' \in {errors, errors + 1} /\ UNCHANGED <<pc, value, env>>
<1> DEFINE text == IF name \in DOMAIN env THEN env[name] ELSE << >>
<1>1. out \in Seq(Byte)
  BY DEF WalkInv, TypeOK
<1>2. text \in Seq(Byte)
  BY Arguments DEF WalkInv
<1>3. out' = out \o Before \o text /\ errors' \in {errors, errors + 1} /\ UNCHANGED <<pc, value, env>>
  BY DEF Resolve
<1> HIDE DEF text
<1>4. out \o Before \in Seq(Byte)
  BY <1>1, ConcatProperties
<1>5. out \o Before \o text \in Seq(Byte)
  BY <1>2, <1>4, ConcatProperties
<1>6. QED
  BY <1>3, <1>5

\* A turn that goes on consumes a byte at least, and none that is not there.
LEMMA Consumes ==
  ASSUME WalkInv, Braced \/ LoneDollar \/ Named
  PROVE  val' \in Nat /\ val' > val /\ val' <= Len(value)
<1>1. Rest \in Seq(Byte) /\ Len(Rest) = Len(value) - val /\ Dollar \in 1..Len(Rest)
  BY AtDollarPlace DEF Braced, LoneDollar, Named
<1>2. val \in Nat /\ Len(value) \in Nat
  BY DEF WalkInv, TypeOK
<1>3. CASE Braced
  <2> DEFINE inside == After(Rest, Dollar + 1)
  <2>1. Dollar + 1 \in 0..Len(Rest) /\ Close > 0 /\ val' = val + Dollar + 1 + Close
    BY <1>1, <1>3 DEF Braced, Brace
  <2>2. inside \in Seq(Byte) /\ Len(inside) = Len(Rest) - (Dollar + 1)
    BY <1>1, <2>1, AfterType
  <2>3. Close \in 0..Len(inside)
    BY <2>2, IndexFinds DEF Close
  <2> HIDE DEF inside
  <2>4. QED
    BY <1>1, <1>2, <2>1, <2>2, <2>3
<1>4. CASE LoneDollar
  BY <1>1, <1>2, <1>4 DEF LoneDollar
<1>5. CASE Named
  <2>1. NameLen \in 0..(Len(Rest) - Dollar)
    BY <1>1, NameLengthFinds DEF NameLen
  <2>2. val' = val + Dollar + NameLen /\ NameLen > 0
    BY <1>5 DEF Named
  <2>3. QED
    BY <1>1, <1>2, <2>1, <2>2
<1>6. QED
  BY <1>3, <1>4, <1>5

LEMMA InitWalk == Init => WalkInv
BY Arguments DEF Init, WalkInv, TypeOK

LEMMA WalkKeeps == WalkInv /\ [Next]_vars => WalkInv'
<1> SUFFICES ASSUME WalkInv, [Next]_vars PROVE WalkInv'
  OBVIOUS
<1>1. out \in Seq(Byte) /\ val \in Nat /\ errors \in Nat /\ Len(value) \in Nat /\ value \in Seq(Byte)
  BY DEF WalkInv, TypeOK
<1>2. CASE Braced \/ LoneDollar \/ Named
  <2>1. val' \in Nat /\ val' > val /\ val' <= Len(value)
    BY <1>2, Consumes
  <2>2. out' \in Seq(Byte) /\ errors' \in {errors, errors + 1} /\ UNCHANGED <<pc, value, env>>
    <3>1. Before \in Seq(Byte)
      BY <1>2, AtDollarPlace DEF Braced, LoneDollar, Named
    <3>2. CASE Braced
      BY <3>1, <3>2, ResolveTypes DEF Braced
    <3>3. CASE Named
      BY <3>1, <3>3, ResolveTypes DEF Named
    <3>4. CASE LoneDollar
      <4>1. <<DOLLAR>> \in Seq(Byte)
        BY ByteClasses DEF Special
      <4>2. out \o Before \in Seq(Byte)
        BY <1>1, <3>1, ConcatProperties
      <4>3. out \o Before \o <<DOLLAR>> \in Seq(Byte)
        BY <4>1, <4>2, ConcatProperties
      <4>4. QED
        BY <3>4, <4>3 DEF LoneDollar
    <3>5. QED
      BY <1>2, <3>2, <3>3, <3>4
  <2>3. QED
    BY <1>1, <2>1, <2>2 DEF WalkInv, TypeOK
<1>3. CASE Unclosed
  <2>1. Before \in Seq(Byte) /\ Rest \in Seq(Byte) /\ Dollar \in 1..Len(Rest)
    BY <1>3, AtDollarPlace DEF Unclosed
  <2>2. <<DOLLAR>> \in Seq(Byte) /\ After(Rest, Dollar) \in Seq(Byte)
    BY <2>1, ByteClasses, AfterType DEF Special
  <2>3. out \o Before \in Seq(Byte)
    BY <1>1, <2>1, ConcatProperties
  <2>4. out \o Before \o <<DOLLAR>> \in Seq(Byte)
    BY <2>2, <2>3, ConcatProperties
  <2>5. out \o Before \o <<DOLLAR>> \o After(Rest, Dollar) \in Seq(Byte)
    BY <2>2, <2>4, ConcatProperties
  <2>6. QED
    BY <1>3, <2>5 DEF Unclosed, WalkInv, TypeOK
<1>4. CASE NoDollar
  <2>1. Rest \in Seq(Byte)
    BY AfterType DEF WalkInv, TypeOK, Rest
  <2>2. out \o Rest \in Seq(Byte)
    BY <1>1, <2>1, ConcatProperties
  <2>3. QED
    BY <1>4, <2>2 DEF NoDollar, WalkInv, TypeOK
<1>5. CASE Return \/ OutOfMemory \/ UNCHANGED vars
  <2>1. UNCHANGED <<value, env, val, errors>> /\ pc' \in {"loop", "done", "oom"}
    BY <1>5 DEF Return, OutOfMemory, vars, WalkInv, TypeOK
  <2>2. out' \in Seq(Byte)
    <3>1. << >> \in Seq(Byte)
      OBVIOUS
    <3>2. out' = out \/ out' = << >>
      BY <1>5 DEF Return, OutOfMemory, vars
    <3>3. QED
      BY <1>1, <3>1, <3>2
  <2>3. QED
    BY <2>1, <2>2 DEF WalkInv, TypeOK
<1>6. QED
  BY <1>2, <1>3, <1>4, <1>5 DEF Next

\* The result and the position are as declared: no byte beyond the end of the
\* value is looked at, and no value reports more references than it has bytes.
THEOREM TypeCorrect == Spec => []TypeOK
<1>1. WalkInv => TypeOK
  BY DEF WalkInv
<1>2. QED
  BY <1>1, InitWalk, WalkKeeps, PTL DEF Spec

\* Every turn of the loop but the last consumes a byte, whatever the value and
\* the environment (envfile.c:279-340).
THEOREM WalkAdvances == Spec => Advances
<1>1. WalkInv /\ [Next]_vars => [val' >= val /\ (pc' = "loop" => val' > val)]_vars
  <2> SUFFICES ASSUME WalkInv, Next PROVE val' >= val /\ (pc' = "loop" => val' > val)
    OBVIOUS
  <2>1. val \in Nat
    BY DEF WalkInv, TypeOK
  <2>2. CASE Braced \/ LoneDollar \/ Named
    BY <2>1, <2>2, Consumes
  <2>3. CASE Return \/ NoDollar \/ Unclosed \/ OutOfMemory
    BY <2>1, <2>3 DEF Return, NoDollar, Unclosed, OutOfMemory
  <2>4. QED
    BY <2>2, <2>3 DEF Next
<1>2. QED
  BY <1>1, InitWalk, WalkKeeps, PTL DEF Spec, Advances
-----------------------------------------------------------------------------
(* The reference's recursion, as one on the value that is left.            *)

LEMMA AfterAfter ==
  ASSUME NEW s \in Seq(Byte), NEW a \in 0..Len(s), NEW b \in 0..(Len(s) - a)
  PROVE  /\ After(After(s, a), b) = After(s, a + b)
         /\ \A c \in 1..(b + 1) : SubSeq(After(s, a), c, b) = SubSeq(s, a + c, a + b)
<1>1. After(s, a) \in Seq(Byte) /\ Len(After(s, a)) = Len(s) - a
      /\ \A k \in 1..(Len(s) - a) : After(s, a)[k] = s[a + k]
  BY AfterType
<1>2. Len(s) \in Nat
  OBVIOUS
<1> DEFINE t == After(s, a)
<1>3. After(t, b) = After(s, a + b)
  <2> HIDE DEF t
  <2>1. t \in Seq(Byte) /\ b \in 0..Len(t) /\ Len(t) = Len(s) - a
        /\ \A k \in 1..(Len(s) - a) : t[k] = s[a + k]
    BY <1>1, <1>2 DEF t
  <2>2. After(t, b) \in Seq(Byte) /\ Len(After(t, b)) = Len(t) - b
        /\ \A k \in 1..(Len(t) - b) : After(t, b)[k] = t[b + k]
    BY <2>1, AfterType
  <2>3. a + b \in 0..Len(s)
    BY <1>2
  <2>4. After(s, a + b) \in Seq(Byte) /\ Len(After(s, a + b)) = Len(s) - (a + b)
        /\ \A k \in 1..(Len(s) - (a + b)) : After(s, a + b)[k] = s[a + b + k]
    BY <2>3, AfterType
  <2>5. ASSUME NEW k \in 1..(Len(t) - b) PROVE After(t, b)[k] = After(s, a + b)[k]
    <3>1. b + k \in 1..(Len(s) - a) /\ a + (b + k) = a + b + k /\ k \in 1..(Len(s) - (a + b))
      BY <1>2, <2>1
    <3>2. After(t, b)[k] = t[b + k] /\ t[b + k] = s[a + (b + k)]
      BY <2>1, <2>2, <3>1
    <3>3. QED
      BY <2>4, <3>1, <3>2
  <2>6. Len(After(t, b)) = Len(After(s, a + b)) /\ Len(After(t, b)) = Len(t) - b
    BY <1>2, <2>1, <2>2, <2>4
  <2>7. QED
    BY <2>2, <2>4, <2>5, <2>6, SeqEqual
<1>4. ASSUME NEW c \in 1..(b + 1) PROVE SubSeq(t, c, b) = SubSeq(s, a + c, a + b)
  <2> HIDE DEF t
  <2>1. t \in Seq(Byte) /\ Len(t) = Len(s) - a /\ \A k \in 1..Len(t) : t[k] = s[a + k]
    BY <1>1 DEF t
  <2>2. /\ SubSeq(t, c, b) \in Seq(Byte) /\ Len(SubSeq(t, c, b)) = b - c + 1
        /\ \A k \in 1..(b - c + 1) : SubSeq(t, c, b)[k] = t[c + k - 1]
    BY <1>2, <2>1
  <2>3. /\ SubSeq(s, a + c, a + b) \in Seq(Byte) /\ Len(SubSeq(s, a + c, a + b)) = b - c + 1
        /\ \A k \in 1..(b - c + 1) : SubSeq(s, a + c, a + b)[k] = s[a + c + k - 1]
    BY <1>2
  <2>4. \A k \in 1..(b - c + 1) : SubSeq(t, c, b)[k] = SubSeq(s, a + c, a + b)[k]
    BY <1>2, <2>1, <2>2, <2>3
  <2>5. QED
    BY <1>2, <2>2, <2>3, <2>4, SeqEqual
<1>5. QED
  BY <1>3, <1>4

\* A name is as long in what is left of a line as in the line.
LEMMA NameLengthAfter ==
  ASSUME NEW s \in Seq(Byte), NEW a \in 0..Len(s), NEW b \in 0..(Len(s) - a)
  PROVE  NameLength(After(s, a), b) = NameLength(s, a + b)
<1> DEFINE t == After(s, a)
<1>1. Len(t) = Len(s) - a /\ Len(s) \in Nat
  BY AfterType
<1>2. Len(t) - b = Len(s) - (a + b)
  BY <1>1
<1>3. \A k \in 1..(Len(t) - b) : SubSeq(t, b + 1, b + k) = SubSeq(s, (a + b) + 1, (a + b) + k)
  <2> SUFFICES ASSUME NEW k \in 1..(Len(t) - b)
               PROVE  SubSeq(t, b + 1, b + k) = SubSeq(s, (a + b) + 1, (a + b) + k)
    OBVIOUS
  <2>1. b + k \in 0..(Len(s) - a) /\ b + 1 \in 1..(b + k)
    BY <1>1
  <2>2. b + 1 \in 1..((b + k) + 1)
    BY <1>1
  <2>3. SubSeq(t, b + 1, b + k) = SubSeq(s, a + (b + 1), a + (b + k))
    BY <2>1, <2>2, AfterAfter
  <2>4. a + (b + 1) = (a + b) + 1 /\ a + (b + k) = (a + b) + k
    BY <1>1
  <2>5. QED
    BY <2>3, <2>4
<1> HIDE DEF t
<1> DEFINE r == Len(t) - b
           Longest(q, m, k) == /\ k > 0 => IsName(SubSeq(q, m + 1, m + k))
                               /\ \A j \in (k + 1)..r : ~IsName(SubSeq(q, m + 1, m + j))
<1>4. r \in Nat /\ Len(s) - (a + b) = r
  BY <1>1, <1>2
<1> HIDE DEF r
<1>5. \A k \in 0..r : Longest(t, b, k) <=> Longest(s, a + b, k)
  <2> SUFFICES ASSUME NEW k \in 0..r PROVE Longest(t, b, k) <=> Longest(s, a + b, k)
    OBVIOUS
  <2>1. \A j \in 1..r : SubSeq(t, b + 1, b + j) = SubSeq(s, (a + b) + 1, (a + b) + j)
    BY <1>3 DEF r
  <2>2. (k > 0 => k \in 1..r) /\ \A j \in (k + 1)..r : j \in 1..r
    BY <1>4
  <2>3. QED
    BY <2>1, <2>2
<1> HIDE DEF Longest
<1>6. (CHOOSE k \in 0..r : Longest(t, b, k)) = (CHOOSE k \in 0..r : Longest(s, a + b, k))
  BY <1>5
<1>7. NameLength(t, b) = CHOOSE k \in 0..r : Longest(t, b, k)
  BY DEF NameLength, Longest, r
<1>8. NameLength(s, a + b) = CHOOSE k \in 0..r : Longest(s, a + b, k)
  BY <1>4 DEF NameLength, Longest
<1>9. QED
  BY <1>6, <1>7, <1>8 DEF t

\* After position k, h is what f is a positions further on.
Follows(h, f, s, a, k) == \A j \in (k + 1)..(Len(s) - a) : h[j] = f[a + j]

\* A turn sees no more than what is left.
LEMMA TurnAfter ==
  ASSUME NEW s \in Seq(Byte), NEW a \in 0..Len(s), NEW k \in 0..(Len(s) - a)
  PROVE  \A e, f, h : Follows(h, f, s, a, k) =>
           SubstFrom(After(s, a), e, h, k) = SubstFrom(s, e, f, a + k)
<1> DEFINE t == After(s, a)
<1>0. /\ After(s, a) \in Seq(Byte) /\ Len(After(s, a)) = Len(s) - a
      /\ \A j \in 1..(Len(s) - a) : After(s, a)[j] = s[a + j]
  BY AfterType
<1>1. /\ t \in Seq(Byte) /\ Len(t) = Len(s) - a /\ Len(s) \in Nat
      /\ \A j \in 1..(Len(s) - a) : t[j] = s[a + j]
  <2>1. Len(s) \in Nat
    OBVIOUS
  <2> HIDE DEF t
  <2>2. QED
    BY <1>0, <2>1 DEF t
<1> SUFFICES ASSUME NEW e, NEW f, NEW h, Follows(h, f, s, a, k)
             PROVE  SubstFrom(t, e, h, k) = SubstFrom(s, e, f, a + k)
  OBVIOUS
<1> HIDE DEF t
<1> DEFINE m == a + k
           brace == Index(After(t, k + 2), RBRACE)
           name == NameLength(t, k + 1)
<1>2. \A j \in (k + 1)..(Len(s) - a) : h[j] = f[a + j]
  BY DEF Follows
<1>3. CASE k = Len(t)
  BY <1>1, <1>3 DEF SubstFrom, t
<1>4. CASE k < Len(t)
  <2>1. /\ k # Len(t) /\ m # Len(s) /\ t[k + 1] = s[m + 1]
        /\ (k + 1 < Len(t) <=> m + 1 < Len(s))
        /\ k + 1 < Len(t) => t[k + 2] = s[m + 2]
    <3>1. k + 1 \in 1..(Len(s) - a) /\ a + (k + 1) = m + 1 /\ a + (k + 2) = m + 2
      BY <1>1, <1>4
    <3>2. k + 1 < Len(t) => k + 2 \in 1..(Len(s) - a)
      BY <1>1, <1>4
    <3> HIDE DEF m
    <3>3. t[k + 1] = s[m + 1] /\ (k + 1 < Len(t) => t[k + 2] = s[m + 2])
      <4>1. t[k + 1] = s[a + (k + 1)]
        BY <1>1, <3>1
      <4>2. k + 1 < Len(t) => t[k + 2] = s[a + (k + 2)]
        BY <1>1, <3>2
      <4>3. QED
        BY <3>1, <4>1, <4>2
    <3>4. QED
      BY <1>1, <1>4, <3>3 DEF m
  <2>2. /\ name \in 0..(Len(t) - (k + 1))
        /\ k + 1 < Len(t) => brace \in 0..(Len(t) - (k + 2))
    BY <1>1, <1>4, TurnFinds
  <2>3. After(t, k) = After(s, m) /\ NameLength(s, m + 1) = name
    <3>1. k + 1 \in 0..(Len(s) - a) /\ a + (k + 1) = m + 1
      BY <1>1, <1>4
    <3>2. QED
      BY <3>1, AfterAfter, NameLengthAfter DEF t
  <2>4. k + 1 < Len(t) => brace = Index(After(s, m + 2), RBRACE)
    <3>1. k + 1 < Len(t) => k + 2 \in 0..(Len(s) - a) /\ a + (k + 2) = m + 2
      BY <1>1
    <3>2. QED
      BY <3>1, AfterAfter DEF t
  <2> HIDE DEF brace, name
  <2>5. k + 1 < Len(t) /\ brace > 0 =>
          /\ SubSeq(t, k + 3, k + 1 + brace) = SubSeq(s, m + 3, m + 1 + brace)
          /\ h[k + 2 + brace] = f[m + 2 + brace]
    <3> SUFFICES ASSUME k + 1 < Len(t), brace > 0
                 PROVE  /\ SubSeq(t, k + 3, k + 1 + brace) = SubSeq(s, m + 3, m + 1 + brace)
                        /\ h[k + 2 + brace] = f[m + 2 + brace]
      OBVIOUS
    <3>0. brace \in Nat /\ brace > 0 /\ brace <= Len(t) - (k + 2) /\ a \in Nat /\ k \in Nat
      BY <1>1, <2>2
    <3>1. /\ k + 1 + brace \in 0..(Len(s) - a) /\ k + 3 \in 1..(k + 1 + brace + 1)
          /\ a + (k + 3) = m + 3 /\ a + (k + 1 + brace) = m + 1 + brace
          /\ k + 2 + brace \in (k + 1)..(Len(s) - a) /\ a + (k + 2 + brace) = m + 2 + brace
      BY <1>1, <3>0
    <3> HIDE DEF m
    <3>2. SubSeq(t, k + 3, k + 1 + brace) = SubSeq(s, a + (k + 3), a + (k + 1 + brace))
      BY <3>1, AfterAfter DEF t
    <3>3. h[k + 2 + brace] = f[a + (k + 2 + brace)]
      BY <1>2, <3>1
    <3>4. QED
      BY <3>1, <3>2, <3>3
  <2>6. name > 0 =>
          /\ SubSeq(t, k + 2, k + 1 + name) = SubSeq(s, m + 2, m + 1 + name)
          /\ h[k + 1 + name] = f[m + 1 + name]
    <3> SUFFICES ASSUME name > 0
                 PROVE  /\ SubSeq(t, k + 2, k + 1 + name) = SubSeq(s, m + 2, m + 1 + name)
                        /\ h[k + 1 + name] = f[m + 1 + name]
      OBVIOUS
    <3>1. /\ k + 1 + name \in 0..(Len(s) - a) /\ k + 2 \in 1..(k + 1 + name + 1)
          /\ a + (k + 2) = m + 2 /\ a + (k + 1 + name) = m + 1 + name
          /\ k + 1 + name \in (k + 1)..(Len(s) - a)
      BY <1>1, <2>2
    <3> HIDE DEF m
    <3>2. SubSeq(t, k + 2, k + 1 + name) = SubSeq(s, a + (k + 2), a + (k + 1 + name))
      BY <3>1, AfterAfter DEF t
    <3>3. h[k + 1 + name] = f[a + (k + 1 + name)]
      BY <1>2, <3>1
    <3>4. QED
      BY <3>1, <3>2, <3>3
  <2>7. h[k + 1] = f[m + 1]
    <3>1. k + 1 \in (k + 1)..(Len(s) - a) /\ a + (k + 1) = m + 1
      BY <1>1, <1>4
    <3>2. QED
      BY <1>2, <3>1
  <2>8. (name = 0 \/ name > 0) /\ (k + 1 < Len(t) => brace = 0 \/ brace > 0)
    BY <2>2
  <2> HIDE DEF m
  <2>9. SubstFrom(t, e, h, k) = SubstFrom(s, e, f, m)
    BY <2>1, <2>3, <2>4, <2>5, <2>6, <2>7, <2>8 DEF SubstFrom, brace, name
  <2>10. QED
    BY <2>9 DEF m
<1>5. k = Len(t) \/ k < Len(t)
  <2>1. Len(t) = Len(s) - a /\ Len(s) \in Nat
    BY <1>1
  <2> HIDE DEF m, brace, name
  <2>2. \A x, y \in Int : x \in 0..y => x = y \/ x < y
    OBVIOUS
  <2>3. k \in 0..Len(t) /\ Len(t) \in Int /\ k \in Int
    BY <2>1
  <2>4. QED
    BY <2>2, <2>3
<1>6. QED
  BY <1>3, <1>4, <1>5

\* An environment of texts.
Texts(e) == \A k \in DOMAIN e : e[k] \in Seq(Byte)

\* f says of each position what becomes of what follows it.
Unrolled(f, s, e) == \A k \in 0..Len(s) : f[k] = SubstFrom(s, e, f, k)

LEMMA SubstUnrolled ==
  ASSUME NEW s \in Seq(Byte), NEW e, Texts(e)
  PROVE  \E f : Subst(s, e) = f[0] /\ Unrolled(f, s, e)
<1>1. PICK f \in [0..Len(s) -> Results(Byte)] :
         Subst(s, e) = f[0] /\ \A k \in 0..Len(s) : f[k] = SubstFrom(s, e, f, k)
  BY SubstRest DEF Texts
<1>2. QED
  BY <1>1 DEF Unrolled

LEMMA SubstSuffix ==
  ASSUME NEW s \in Seq(Byte), NEW a \in 0..Len(s), NEW e, Texts(e), NEW f, Unrolled(f, s, e)
  PROVE  Subst(After(s, a), e) = f[a]
<1> DEFINE t == After(s, a)
           m == Len(t)
           I == 0..m
           mu == [k \in I |-> m - k]
<1>1. t \in Seq(Byte) /\ m = Len(s) - a /\ m \in Nat
  BY AfterType
<1> HIDE DEF t
<1>2. PICK h : Subst(t, e) = h[0] /\ Unrolled(h, t, e)
  BY <1>1, SubstUnrolled
<1>3. \A k \in 0..(Len(s) - a) : Follows(h, f, s, a, k) =>
        SubstFrom(After(s, a), e, h, k) = SubstFrom(s, e, f, a + k)
  BY TurnAfter
<1> DEFINE T == {k \in I : h[k] = f[a + k]}
<1>4. \A k \in I : (\A j \in I : mu[j] < mu[k] => j \in T) => k \in T
  <2> SUFFICES ASSUME NEW k \in I, \A j \in I : mu[j] < mu[k] => j \in T PROVE h[k] = f[a + k]
    OBVIOUS
  <2>1. \A j \in (k + 1)..m : j \in I /\ mu[j] < mu[k]
    BY <1>1
  <2> HIDE DEF mu
  <2>2. Follows(h, f, s, a, k)
    BY <1>1, <2>1 DEF Follows
  <2>3. k \in 0..(Len(s) - a) /\ a + k \in 0..Len(s)
    BY <1>1
  <2>4. SubstFrom(t, e, h, k) = SubstFrom(s, e, f, a + k)
    BY <1>3, <2>2, <2>3 DEF t
  <2>5. h[k] = SubstFrom(t, e, h, k) /\ f[a + k] = SubstFrom(s, e, f, a + k)
    BY <1>2, <2>3 DEF Unrolled
  <2>6. QED
    BY <2>4, <2>5
<1>5. mu \in [I -> Nat] /\ 0 \in I
  BY <1>1
<1> HIDE DEF T, mu, I
<1>6. I \subseteq T
  BY <1>4, <1>5, MeasureInduction
<1>7. h[0] = f[a + 0]
  BY <1>5, <1>6 DEF T
<1>8. QED
  BY <1>2, <1>7 DEF t

\* What becomes of a value, by its first bytes.
Turn(s, e) ==
  LET brace == Index(After(s, 2), RBRACE)
      name  == NameLength(s, 1)
  IN IF s[1] # DOLLAR THEN Then(Literally(<<s[1]>>), Subst(After(s, 1), e))
     ELSE IF 1 < Len(s) /\ s[2] = LBRACE
          THEN IF brace = 0 THEN Literally(s)
               ELSE Then(Lookup(e, SubSeq(s, 3, 1 + brace)), Subst(After(s, 2 + brace), e))
     ELSE IF name = 0 THEN Then(Literally(<<DOLLAR>>), Subst(After(s, 1), e))
     ELSE Then(Lookup(e, SubSeq(s, 2, 1 + name)), Subst(After(s, 1 + name), e))

LEMMA SubstUnfolds ==
  ASSUME NEW s \in Seq(Byte), NEW e, Texts(e)
  PROVE  /\ Len(s) = 0 => Subst(s, e) = Literally(<< >>)
         /\ Len(s) > 0 => Subst(s, e) = Turn(s, e)
<1>1. PICK f : Subst(s, e) = f[0] /\ Unrolled(f, s, e)
  BY SubstUnrolled
<1>2. \A k \in 0..Len(s) : Subst(After(s, k), e) = f[k]
  BY <1>1, SubstSuffix
<1>3. f[0] = SubstFrom(s, e, f, 0) /\ Len(s) \in Nat
  BY <1>1 DEF Unrolled
<1>4. CASE Len(s) = 0
  BY <1>1, <1>3, <1>4 DEF SubstFrom
<1>5. CASE Len(s) > 0
  <2> DEFINE brace == Index(After(s, 2), RBRACE)
             name  == NameLength(s, 1)
  <2>1. name \in 0..(Len(s) - 1) /\ (1 < Len(s) => brace \in 0..(Len(s) - 2))
    <3>1. 0 \in 0..Len(s) /\ 0 < Len(s) /\ 0 + 1 = 1 /\ 0 + 2 = 2
      BY <1>3, <1>5
    <3>2. /\ NameLength(s, 0 + 1) \in 0..(Len(s) - (0 + 1))
          /\ 0 + 1 < Len(s) => Index(After(s, 0 + 2), RBRACE) \in 0..(Len(s) - (0 + 2))
      BY <3>1, TurnFinds
    <3>3. QED
      BY <3>1, <3>2
  <2> HIDE DEF brace, name
  <2>2. /\ f[1] = Subst(After(s, 1), e) /\ f[1 + name] = Subst(After(s, 1 + name), e)
        /\ 1 < Len(s) => f[2 + brace] = Subst(After(s, 2 + brace), e)
    BY <1>2, <1>3, <1>5, <2>1
  <2>3. After(s, 0) = s
    BY DEF After
  <2>4. SubstFrom(s, e, f, 0) =
          IF s[1] # DOLLAR THEN Then(Literally(<<s[1]>>), f[1])
          ELSE IF 1 < Len(s) /\ s[2] = LBRACE
               THEN IF brace = 0 THEN Literally(After(s, 0))
                    ELSE Then(Lookup(e, SubSeq(s, 3, 1 + brace)), f[2 + brace])
          ELSE IF name = 0 THEN Then(Literally(<<DOLLAR>>), f[1])
          ELSE Then(Lookup(e, SubSeq(s, 2, 1 + name)), f[1 + name])
    <3>1. 0 # Len(s) /\ 0 + 1 = 1 /\ 0 + 2 = 2 /\ 0 + 3 = 3
      BY <1>5
    <3>2. QED
      BY <3>1 DEF SubstFrom, brace, name
  <2>5. QED
    BY <1>1, <1>3, <1>5, <2>2, <2>3, <2>4 DEF Turn, brace, name
<1>6. QED
  BY <1>3, <1>4, <1>5

\* One piece after the other, and then a third.
LEMMA ThenAssociates ==
  ASSUME NEW a \in Results(Byte), NEW b \in Results(Byte), NEW c \in Results(Byte)
  PROVE  Then(Then(a, b), c) = Then(a, Then(b, c))
<1>1. /\ a.text \in Seq(Byte) /\ b.text \in Seq(Byte) /\ c.text \in Seq(Byte)
      /\ a.unbound \in Nat /\ b.unbound \in Nat /\ c.unbound \in Nat
  BY DEF Results
<1>2. (a.text \o b.text) \o c.text = a.text \o (b.text \o c.text)
  <2>1. \A s, t, u \in Seq(Byte) : (s \o t) \o u = s \o (t \o u)
    BY ConcatAssociative
  <2>2. QED
    BY <1>1, <2>1, Zenon
<1>3. (a.unbound + b.unbound) + c.unbound = a.unbound + (b.unbound + c.unbound)
  BY <1>1
<1>4. QED
  BY <1>2, <1>3 DEF Then

LEMMA LiterallyType ==
  ASSUME NEW s \in Seq(Byte)
  PROVE  Literally(s) \in Results(Byte)
BY DEF Literally, Results

LEMMA ThenLiterally ==
  ASSUME NEW s \in Seq(Byte), NEW t \in Seq(Byte)
  PROVE  Then(Literally(s), Literally(t)) = Literally(s \o t)
BY DEF Then, Literally

LEMMA ThenNothing ==
  ASSUME NEW a \in Results(Byte)
  PROVE  Then(Literally(<< >>), a) = a /\ Then(a, Literally(<< >>)) = a
<1>1. a = [text |-> a.text, unbound |-> a.unbound] /\ a.text \in Seq(Byte) /\ a.unbound \in Nat
  BY DEF Results
<1>2. << >> \o a.text = a.text /\ a.text \o << >> = a.text
  BY <1>1
<1>3. QED
  BY <1>1, <1>2 DEF Then, Literally

\* One byte more.
LEMMA CutGrows ==
  ASSUME NEW s \in Seq(Byte), NEW k \in 0..Len(s), k < Len(s)
  PROVE  /\ SubSeq(s, 1, k) \in Seq(Byte) /\ <<s[k + 1]>> \in Seq(Byte)
         /\ SubSeq(s, 1, k + 1) = SubSeq(s, 1, k) \o <<s[k + 1]>>
<1>1. SubSeq(s, 1, k) \in Seq(Byte) /\ s[k + 1] \in Byte
  OBVIOUS
<1>2. 1 \in 1..Len(s) /\ k + 1 \in 1..Len(s) /\ (k + 1) - 1 = k
  OBVIOUS
<1>3. SubSeq(s, 1, k + 1) = SubSeq(s, 1, (k + 1) - 1) \o <<s[k + 1]>>
  BY <1>2, SubSeqRecursiveSecond
<1>4. QED
  BY <1>1, <1>2, <1>3

\* Bytes before the first dollar sign stay.
LEMMA SubstPlain ==
  ASSUME NEW s \in Seq(Byte), NEW k \in 0..Len(s), \A j \in 1..k : s[j] # DOLLAR,
         NEW e, Texts(e)
  PROVE  Subst(s, e) = Then(Literally(SubSeq(s, 1, k)), Subst(After(s, k), e))
<1> DEFINE Holds(j) == Subst(s, e) = Then(Literally(SubSeq(s, 1, j)), Subst(After(s, j), e))
           T == {j \in Nat : j <= k => Holds(j)}
<1>1. Holds(0)
  <2>1. SubSeq(s, 1, 0) = << >> /\ After(s, 0) = s
    BY DEF After
  <2>2. Subst(s, e) \in Results(Byte)
    BY SubstType DEF Texts
  <2>3. QED
    BY <2>1, <2>2, ThenNothing
<1>2. ASSUME NEW j \in Nat, j + 1 <= k, Holds(j) PROVE Holds(j + 1)
  <2> DEFINE t == After(s, j)
             one == Literally(<<s[j + 1]>>)
             rest == Subst(After(s, j + 1), e)
  <2>1. j \in 0..Len(s) /\ j < Len(s) /\ j + 1 \in 1..k /\ 1 \in 0..(Len(s) - j) /\ Len(s) \in Nat
    BY <1>2
  <2>2. t \in Seq(Byte) /\ Len(t) = Len(s) - j /\ t[1] = s[j + 1]
    <3>1. After(s, j) \in Seq(Byte) /\ Len(After(s, j)) = Len(s) - j
          /\ \A i \in 1..(Len(s) - j) : After(s, j)[i] = s[j + i]
      BY <2>1, AfterType
    <3>2. 1 \in 1..(Len(s) - j)
      BY <2>1
    <3>3. QED
      BY <3>1, <3>2
  <2>3. After(t, 1) = After(s, j + 1)
    BY <2>1, AfterAfter
  <2> HIDE DEF t
  <2>4. Subst(t, e) = Turn(t, e)
    BY <2>1, <2>2, SubstUnfolds
  <2>5. t[1] # DOLLAR
    BY <2>1, <2>2
  <2>6. Subst(t, e) = Then(one, rest)
    BY <2>2, <2>3, <2>4, <2>5 DEF Turn
  <2>7. /\ SubSeq(s, 1, j) \in Seq(Byte) /\ <<s[j + 1]>> \in Seq(Byte)
        /\ SubSeq(s, 1, j + 1) = SubSeq(s, 1, j) \o <<s[j + 1]>>
    BY <2>1, CutGrows
  <2>8. one \in Results(Byte) /\ Literally(SubSeq(s, 1, j)) \in Results(Byte)
    BY <2>7, LiterallyType
  <2>9. rest \in Results(Byte)
    <3>1. j + 1 \in 0..Len(s)
      BY <2>1
    <3>2. After(s, j + 1) \in Seq(Byte)
      BY <3>1, AfterType
    <3>3. QED
      BY <3>2, SubstType DEF Texts
  <2>10. Subst(s, e) = Then(Literally(SubSeq(s, 1, j)), Then(one, rest))
    BY <1>2, <2>6 DEF t
  <2>11. Then(Literally(SubSeq(s, 1, j)), one) = Literally(SubSeq(s, 1, j + 1))
    BY <2>7, ThenLiterally
  <2> HIDE DEF one, rest
  <2>12. Subst(s, e) = Then(Then(Literally(SubSeq(s, 1, j)), one), rest)
    BY <2>8, <2>9, <2>10, ThenAssociates
  <2>13. QED
    BY <2>11, <2>12 DEF rest
<1> HIDE DEF Holds
<1>3. 0 \in T /\ \A j \in Nat : j \in T => j + 1 \in T
  BY <1>1, <1>2
<1> HIDE DEF T
<1>4. k \in T
  BY <1>3, SetInduction
<1>5. QED
  BY <1>4 DEF T, Holds
\* What becomes of a value whose first dollar sign is at d.
DollarTurn(s, d, e) ==
  LET brace == Index(After(s, d + 1), RBRACE)
      name  == NameLength(s, d)
  IN IF d < Len(s) /\ s[d + 1] = LBRACE
     THEN IF brace = 0 THEN Literally(<<DOLLAR>> \o After(s, d))
          ELSE Then(Lookup(e, SubSeq(s, d + 2, d + brace)), Subst(After(s, d + 1 + brace), e))
     ELSE IF name = 0 THEN Then(Literally(<<DOLLAR>>), Subst(After(s, d), e))
     ELSE Then(Lookup(e, SubSeq(s, d + 1, d + name)), Subst(After(s, d + name), e))

\* What is left from a byte on is that byte and what is left after it.
LEMMA AfterSplits ==
  ASSUME NEW s \in Seq(Byte), NEW d \in 1..Len(s)
  PROVE  After(s, d - 1) = <<s[d]>> \o After(s, d)
<1>1. d - 1 \in 0..Len(s) /\ d \in 0..Len(s) /\ s[d] \in Byte /\ Len(s) \in Nat
  OBVIOUS
<1>2. /\ After(s, d - 1) \in Seq(Byte) /\ Len(After(s, d - 1)) = Len(s) - (d - 1)
      /\ \A j \in 1..(Len(s) - (d - 1)) : After(s, d - 1)[j] = s[(d - 1) + j]
  BY <1>1, AfterType
<1>3. /\ After(s, d) \in Seq(Byte) /\ Len(After(s, d)) = Len(s) - d
      /\ \A j \in 1..(Len(s) - d) : After(s, d)[j] = s[d + j]
  BY <1>1, AfterType
<1> DEFINE t == <<s[d]>> \o After(s, d)
<1>4. /\ t \in Seq(Byte) /\ Len(t) = 1 + (Len(s) - d) /\ t[1] = s[d]
      /\ \A j \in 2..(1 + (Len(s) - d)) : t[j] = After(s, d)[j - 1]
  BY <1>1, <1>3
<1> HIDE DEF t
<1>5. ASSUME NEW j \in 1..Len(After(s, d - 1)) PROVE After(s, d - 1)[j] = t[j]
  <2>0. j \in 1..(Len(s) - (d - 1))
    BY <1>2
  <2>1. After(s, d - 1)[j] = s[(d - 1) + j]
    BY <1>2, <2>0
  <2>2. CASE j = 1
    <3>1. (d - 1) + j = d
      BY <1>1, <2>2
    <3>2. QED
      BY <1>4, <2>1, <2>2, <3>1
  <2>3. CASE j # 1
    <3>1. j - 1 \in 1..(Len(s) - d) /\ d + (j - 1) = (d - 1) + j /\ j \in 2..(1 + (Len(s) - d))
      BY <1>1, <2>0, <2>3
    <3>2. t[j] = After(s, d)[j - 1] /\ After(s, d)[j - 1] = s[d + (j - 1)]
      BY <1>3, <1>4, <3>1
    <3>3. QED
      BY <2>1, <3>1, <3>2
  <2>4. QED
    BY <2>2, <2>3
<1>6. Len(After(s, d - 1)) = Len(t)
  BY <1>1, <1>2, <1>4
<1>7. QED
  BY <1>2, <1>4, <1>5, <1>6, SeqEqual DEF t

LEMMA SubstAtDollar ==
  ASSUME NEW s \in Seq(Byte), NEW d \in 1..Len(s), s[d] = DOLLAR, \A j \in 1..(d - 1) : s[j] # DOLLAR,
         NEW e, Texts(e)
  PROVE  Subst(s, e) = Then(Literally(SubSeq(s, 1, d - 1)), DollarTurn(s, d, e))
<1> DEFINE a == d - 1
           t == After(s, a)
           brace == Index(After(s, d + 1), RBRACE)
           name  == NameLength(s, d)
<1>1. a \in 0..Len(s) /\ a + 1 = d /\ a + 2 = d + 1 /\ d \in Nat /\ Len(s) \in Nat
  OBVIOUS
<1>2. Subst(s, e) = Then(Literally(SubSeq(s, 1, a)), Subst(t, e))
  BY <1>1, SubstPlain
<1>3. /\ t \in Seq(Byte) /\ Len(t) = Len(s) - a
      /\ \A j \in 1..(Len(s) - a) : t[j] = s[a + j]
  BY <1>1, AfterType
<1>4. /\ \A b \in 0..(Len(s) - a) : After(t, b) = After(s, a + b)
      /\ \A b \in 0..(Len(s) - a) : \A c \in 1..(b + 1) : SubSeq(t, c, b) = SubSeq(s, a + c, a + b)
      /\ \A b \in 0..(Len(s) - a) : NameLength(t, b) = NameLength(s, a + b)
  BY <1>1, AfterAfter, NameLengthAfter
<1>5. t = <<DOLLAR>> \o After(s, d)
  BY AfterSplits
<1> HIDE DEF t, a
<1>6. t[1] = DOLLAR /\ (1 < Len(t) => t[2] = s[d + 1]) /\ (1 < Len(t) <=> d < Len(s)) /\ Len(t) > 0
  <2>1. 1 \in 1..(Len(s) - a) /\ (1 < Len(t) => 2 \in 1..(Len(s) - a)) /\ (1 < Len(t) <=> d < Len(s)) /\ Len(t) > 0
    BY <1>1, <1>3
  <2>2. t[1] = s[a + 1] /\ (1 < Len(t) => t[2] = s[a + 2])
    BY <1>3, <2>1
  <2>3. QED
    BY <1>1, <2>1, <2>2
<1>7. NameLength(t, 1) = name /\ After(t, 1) = After(s, d)
  <2>1. 1 \in 0..(Len(s) - a)
    BY <1>1
  <2>2. NameLength(t, 1) = NameLength(s, a + 1) /\ After(t, 1) = After(s, a + 1)
    BY <1>4, <2>1
  <2>3. QED
    BY <1>1, <2>2
<1>8. 1 < Len(t) => After(t, 2) = After(s, d + 1)
  <2>1. 1 < Len(t) => 2 \in 0..(Len(s) - a)
    BY <1>1, <1>3
  <2>2. QED
    BY <1>1, <1>4, <2>1
<1>9. /\ name \in 0..(Len(s) - d)
      /\ d < Len(s) => brace \in 0..(Len(s) - (d + 1))
  <2>1. name \in 0..(Len(s) - d)
    BY NameLengthFinds
  <2>2. ASSUME d < Len(s) PROVE brace \in 0..(Len(s) - (d + 1))
    <3>1. d + 1 \in 0..Len(s)
      BY <1>1, <2>2
    <3>2. After(s, d + 1) \in Seq(Byte) /\ Len(After(s, d + 1)) = Len(s) - (d + 1)
      BY <3>1, AfterType
    <3>3. QED
      BY <3>2, IndexFinds
  <2>3. QED
    BY <2>1, <2>2
<1> HIDE DEF brace, name
<1>10. /\ SubSeq(t, 2, 1 + name) = SubSeq(s, d + 1, d + name)
       /\ After(t, 1 + name) = After(s, d + name)
  <2>1. 1 + name \in 0..(Len(s) - a) /\ 2 \in 1..((1 + name) + 1) /\ a + (1 + name) = d + name
    BY <1>1, <1>9
  <2>2. SubSeq(t, 2, 1 + name) = SubSeq(s, a + 2, a + (1 + name)) /\ After(t, 1 + name) = After(s, a + (1 + name))
    BY <1>4, <2>1
  <2>3. QED
    BY <1>1, <2>1, <2>2
<1>11. d < Len(s) /\ brace > 0 =>
         /\ SubSeq(t, 3, 1 + brace) = SubSeq(s, d + 2, d + brace)
         /\ After(t, 2 + brace) = After(s, d + 1 + brace)
  <2> SUFFICES ASSUME d < Len(s), brace > 0
               PROVE  /\ SubSeq(t, 3, 1 + brace) = SubSeq(s, d + 2, d + brace)
                      /\ After(t, 2 + brace) = After(s, d + 1 + brace)
    OBVIOUS
  <2>0. brace \in Nat /\ brace > 0 /\ brace <= Len(s) - (d + 1) /\ a \in Nat
    BY <1>1, <1>9
  <2>1. /\ 1 + brace \in 0..(Len(s) - a) /\ 3 \in 1..((1 + brace) + 1)
        /\ a + (1 + brace) = d + brace /\ a + 3 = d + 2
        /\ 2 + brace \in 0..(Len(s) - a) /\ a + (2 + brace) = d + 1 + brace
    BY <1>1, <2>0
  <2>2. SubSeq(t, 3, 1 + brace) = SubSeq(s, a + 3, a + (1 + brace)) /\ After(t, 2 + brace) = After(s, a + (2 + brace))
    BY <1>4, <2>1
  <2>3. QED
    BY <2>1, <2>2
<1>12. Subst(t, e) = Turn(t, e)
  BY <1>3, <1>6, SubstUnfolds
<1>13. (d < Len(s) => brace = 0 \/ brace > 0)
  BY <1>9
<1>14. Turn(t, e) = DollarTurn(s, d, e)
  BY <1>5, <1>6, <1>7, <1>8, <1>10, <1>11, <1>13 DEF Turn, DollarTurn, brace, name
<1>15. QED
  BY <1>2, <1>12, <1>14 DEF a
-----------------------------------------------------------------------------
(* The walk and the reference make the same of the value.                  *)

\* What the call has so far.
SoFar == [text |-> out, unbound |-> errors]

ValueInv == WalkInv /\ ResolvedSoFar /\ ResolvesAsReference

LEMMA Adds ==
  ASSUME WalkInv, Before \in Seq(Byte), NEW w \in Results(Byte), NEW r \in Results(Byte),
         out' = out \o Before \o w.text, errors' = errors + w.unbound
  PROVE  Then(SoFar', r) = Then(SoFar, Then(Literally(Before), Then(w, r)))
<1> DEFINE p == Literally(Before)
<1>1. SoFar \in Results(Byte) /\ p \in Results(Byte)
  <2>1. out \in Seq(Byte) /\ errors \in Nat
    BY DEF WalkInv, TypeOK
  <2>2. QED
    BY <2>1, LiterallyType DEF SoFar, Results
<1>2. SoFar' = Then(Then(SoFar, p), w)
  <2>1. errors \in Nat
    BY DEF WalkInv, TypeOK
  <2>2. errors + 0 = errors
    BY <2>1
  <2>3. QED
    BY <2>2 DEF SoFar, Then, Literally
<1> HIDE DEF p
<1>3. Then(SoFar, p) \in Results(Byte) /\ Then(w, r) \in Results(Byte)
  BY <1>1, ThenType
<1>4. Then(Then(Then(SoFar, p), w), r) = Then(Then(SoFar, p), Then(w, r))
  BY <1>3, ThenAssociates
<1>5. Then(Then(SoFar, p), Then(w, r)) = Then(SoFar, Then(p, Then(w, r)))
  BY <1>1, <1>3, ThenAssociates
<1>6. QED
  BY <1>2, <1>4, <1>5 DEF p

\* The environments of the call are of texts.
LEMMA EnvTexts == WalkInv => Texts(env)
BY Arguments DEF WalkInv, Texts

\* A turn that finds a dollar sign, and what it makes of the rest.
LEMMA TurnAtDollar ==
  ASSUME WalkInv, AtDollar
  PROVE  Subst(Rest, env) = Then(Literally(Before), DollarTurn(Rest, Dollar, env))
<1>1. Rest \in Seq(Byte) /\ Dollar \in 1..Len(Rest) /\ Texts(env)
  BY AtDollarPlace, EnvTexts
<1>2. Rest[Dollar] = DOLLAR /\ \A j \in 1..(Dollar - 1) : Rest[j] # DOLLAR
  BY <1>1, IndexFinds DEF Dollar
<1> HIDE DEF Rest, Dollar
<1>3. QED
  BY <1>1, <1>2, SubstAtDollar DEF Before

\* A turn that goes on: w is what it appends after Before, c bytes consumed.
LEMMA TurnGoesOn ==
  ASSUME ValueInv, AtDollar, NEW c \in 0..Len(Rest), NEW w \in Results(Byte),
         DollarTurn(Rest, Dollar, env) = Then(w, Subst(After(Rest, c), env)),
         out' = out \o Before \o w.text, errors' = errors + w.unbound,
         val' = val + c, UNCHANGED <<pc, value, env>>
  PROVE  ResolvedSoFar'
<1>1. Rest \in Seq(Byte) /\ Before \in Seq(Byte) /\ WalkInv /\ Texts(env)
  BY AtDollarPlace, EnvTexts DEF ValueInv
<1> DEFINE r == Subst(After(Rest, c), env)
<1>2. After(Rest, c) \in Seq(Byte) /\ Len(Rest) = Len(value) - val /\ value \in Seq(Byte) /\ val \in 0..Len(value)
  BY <1>1, AfterType, AtDollarPlace DEF WalkInv, TypeOK
<1>3. r \in Results(Byte)
  BY <1>1, <1>2, SubstType DEF Texts
<1>4. Subst(Rest, env) = Then(Literally(Before), Then(w, r))
  BY <1>1, TurnAtDollar
<1>5. Then(SoFar, Subst(Rest, env)) = Subst(value, env)
  BY DEF ValueInv, ResolvedSoFar, AtDollar, SoFar
<1>6. After(value, val') = After(Rest, c)
  BY <1>2, AfterAfter DEF Rest
<1> HIDE DEF r
<1>7. Then(SoFar', r) = Then(SoFar, Then(Literally(Before), Then(w, r)))
  BY <1>1, <1>3, Adds
<1>8. Then(SoFar', Subst(After(value, val'), env)) = Subst(value, env)
  BY <1>4, <1>5, <1>6, <1>7 DEF r
<1>9. QED
  BY <1>8 DEF ResolvedSoFar, SoFar, Rest

\* What Resolve appends and reports is the reference's.
LEMMA ResolveLooks ==
  ASSUME WalkInv, NEW name, Resolve(name)
  PROVE  /\ Lookup(env, name) \in Results(Byte)
         /\ out' = out \o Before \o Lookup(env, name).text
         /\ errors' = errors + Lookup(env, name).unbound
         /\ UNCHANGED <<pc, value, env>>
<1>1. Lookup(env, name) \in Results(Byte)
  BY EnvTexts, LookupType DEF Texts
<1>2. errors + 0 = errors
  BY DEF WalkInv, TypeOK
<1>3. QED
  BY <1>1, <1>2 DEF Resolve, Lookup

LEMMA GoesOnKeeps ==
  ASSUME ValueInv, Braced \/ LoneDollar \/ Named
  PROVE  ResolvedSoFar'
<1>1. AtDollar /\ WalkInv
  BY DEF ValueInv, Braced, LoneDollar, Named
<1>2. Rest \in Seq(Byte) /\ Len(Rest) \in Nat /\ Dollar \in 1..Len(Rest)
  <2>1. Rest \in Seq(Byte) /\ Dollar \in 1..Len(Rest)
    BY <1>1, AtDollarPlace
  <2>2. QED
    BY <2>1
<1>3. CASE Braced
  <2> DEFINE name == SubSeq(Rest, Dollar + 2, Dollar + Close)
             c == Dollar + 1 + Close
  <2>1. Dollar < Len(Rest) /\ Rest[Dollar + 1] = LBRACE /\ Close # 0 /\ Close > 0
    BY <1>3 DEF Braced, Brace
  <2>2. DollarTurn(Rest, Dollar, env) = Then(Lookup(env, name), Subst(After(Rest, c), env))
    BY <2>1 DEF DollarTurn, Close
  <2>3. Close \in 0..(Len(Rest) - (Dollar + 1))
    <3>1. Dollar + 1 \in 0..Len(Rest)
      BY <1>2, <2>1
    <3>2. After(Rest, Dollar + 1) \in Seq(Byte) /\ Len(After(Rest, Dollar + 1)) = Len(Rest) - (Dollar + 1)
      BY <1>2, <3>1, AfterType
    <3>3. QED
      BY <3>2, IndexFinds DEF Close
  <2>4. Resolve(name) /\ val' = val + Dollar + 1 + Close
    BY <1>3 DEF Braced
  <2>5. val \in Nat
    BY <1>1 DEF WalkInv, TypeOK
  <2>6. c \in 0..Len(Rest) /\ val' = val + c
    BY <1>2, <2>3, <2>4, <2>5
  <2> HIDE DEF name, c
  <2>7. QED
    BY <1>1, <2>2, <2>4, <2>6, ResolveLooks, TurnGoesOn
<1>4. CASE LoneDollar
  <2> DEFINE w == Literally(<<DOLLAR>>)
  <2>1. ~(Dollar < Len(Rest) /\ Rest[Dollar + 1] = LBRACE) /\ NameLen = 0
    BY <1>4 DEF LoneDollar, Brace
  <2>2. DollarTurn(Rest, Dollar, env) = Then(w, Subst(After(Rest, Dollar), env))
    BY <2>1 DEF DollarTurn, NameLen
  <2>3. w \in Results(Byte) /\ w.text = <<DOLLAR>> /\ w.unbound = 0
    <3>1. <<DOLLAR>> \in Seq(Byte)
      BY ByteClasses DEF Special
    <3>2. QED
      BY <3>1, LiterallyType DEF Literally
  <2> HIDE DEF w
  <2>4. errors + 0 = errors
    BY <1>1 DEF WalkInv, TypeOK
  <2>5. out' = out \o Before \o w.text /\ errors' = errors + w.unbound
    <3>1. out' = out \o Before \o <<DOLLAR>> /\ errors' = errors
      BY <1>4 DEF LoneDollar
    <3>2. QED
      BY <2>3, <2>4, <3>1, Zenon
  <2>6. val' = val + Dollar /\ UNCHANGED <<pc, value, env>> /\ Dollar \in 0..Len(Rest)
    BY <1>2, <1>4 DEF LoneDollar
  <2>7. QED
    BY <1>1, <2>2, <2>3, <2>5, <2>6, TurnGoesOn
<1>5. CASE Named
  <2> DEFINE name == SubSeq(Rest, Dollar + 1, Dollar + NameLen)
             c == Dollar + NameLen
  <2>1. ~(Dollar < Len(Rest) /\ Rest[Dollar + 1] = LBRACE) /\ NameLen > 0
    BY <1>5 DEF Named, Brace
  <2>2. NameLen \in 0..(Len(Rest) - Dollar)
    BY <1>2, NameLengthFinds DEF NameLen
  <2>3. NameLen # 0
    BY <2>1, <2>2
  <2>4. DollarTurn(Rest, Dollar, env) = Then(Lookup(env, name), Subst(After(Rest, c), env))
    BY <2>1, <2>3 DEF DollarTurn, NameLen
  <2>5. Resolve(name) /\ val' = val + Dollar + NameLen
    BY <1>5 DEF Named
  <2>6. val \in Nat
    BY <1>1 DEF WalkInv, TypeOK
  <2>7. c \in 0..Len(Rest) /\ val' = val + c
    BY <1>2, <2>2, <2>5, <2>6
  <2> HIDE DEF name, c
  <2>8. QED
    BY <1>1, <2>4, <2>5, <2>7, ResolveLooks, TurnGoesOn
<1>6. QED
  BY <1>3, <1>4, <1>5
\* The last turns: nothing is left, no dollar sign is, or no brace closes.
LEMMA DoneKeeps ==
  ASSUME ValueInv, Return \/ NoDollar \/ Unclosed
  PROVE  SoFar' = Subst(value, env)
<1>1. WalkInv /\ Texts(env) /\ Rest \in Seq(Byte) /\ Len(Rest) \in Nat
  <2>1. WalkInv /\ Texts(env)
    BY EnvTexts DEF ValueInv
  <2>2. Rest \in Seq(Byte)
    BY <2>1, AfterType DEF WalkInv, TypeOK, Rest
  <2>3. QED
    BY <2>1, <2>2
<1>2. Then(SoFar, Subst(Rest, env)) = Subst(value, env)
  BY DEF ValueInv, ResolvedSoFar, SoFar, Return, NoDollar, Unclosed, AtDollar
<1>3. out \in Seq(Byte) /\ errors \in Nat /\ errors + 0 = errors
  BY <1>1 DEF WalkInv, TypeOK
<1>4. SoFar \in Results(Byte)
  BY <1>3 DEF SoFar, Results
<1>5. CASE Return
  <2>1. Len(Rest) = 0 /\ SoFar' = SoFar
    BY <1>5 DEF Return, SoFar
  <2>2. Subst(Rest, env) = Literally(<< >>)
    BY <1>1, <2>1, SubstUnfolds
  <2>3. QED
    BY <1>2, <1>4, <2>1, <2>2, ThenNothing
<1>6. CASE NoDollar
  <2>1. Dollar = 0 /\ out' = out \o Rest /\ errors' = errors
    BY <1>6 DEF NoDollar
  <2>2. \A j \in 1..Len(Rest) : Rest[j] # DOLLAR
    BY <1>1, <2>1, IndexFinds DEF Dollar, Has
  <2>3. SubSeq(Rest, 1, Len(Rest)) = Rest /\ After(Rest, Len(Rest)) = << >>
    BY <1>1 DEF After
  <2>4. Subst(<< >>, env) = Literally(<< >>)
    <3>1. << >> \in Seq(Byte) /\ Len(<< >>) = 0
      OBVIOUS
    <3>2. QED
      BY <1>1, <3>1, SubstUnfolds
  <2>5. Literally(Rest) \in Results(Byte)
    BY <1>1, LiterallyType
  <2>6. Subst(Rest, env) = Then(Literally(Rest), Literally(<< >>))
    <3>1. Len(Rest) \in 0..Len(Rest)
      BY <1>1
    <3> HIDE DEF Rest
    <3>2. Subst(Rest, env) = Then(Literally(SubSeq(Rest, 1, Len(Rest))), Subst(After(Rest, Len(Rest)), env))
      BY <1>1, <2>2, <3>1, SubstPlain
    <3>3. QED
      BY <2>3, <2>4, <3>2
  <2>7. Subst(Rest, env) = Literally(Rest)
    BY <2>5, <2>6, ThenNothing
  <2>8. SoFar' = Then(SoFar, Literally(Rest))
    BY <1>3, <2>1 DEF SoFar, Then, Literally
  <2>9. QED
    BY <1>2, <2>7, <2>8
<1>7. CASE Unclosed
  <2>1. AtDollar /\ Dollar < Len(Rest) /\ Rest[Dollar + 1] = LBRACE /\ Close = 0
    BY <1>7 DEF Unclosed, Brace
  <2> DEFINE tail == <<DOLLAR>> \o After(Rest, Dollar)
  <2>2. DollarTurn(Rest, Dollar, env) = Literally(tail)
    BY <2>1 DEF DollarTurn, Close
  <2>3. Subst(Rest, env) = Then(Literally(Before), Literally(tail))
    BY <1>1, <2>1, <2>2, TurnAtDollar
  <2>4. Before \in Seq(Byte) /\ tail \in Seq(Byte) /\ <<DOLLAR>> \in Seq(Byte) /\ After(Rest, Dollar) \in Seq(Byte)
    <3>1. Before \in Seq(Byte) /\ Dollar \in 1..Len(Rest)
      BY <1>1, <2>1, AtDollarPlace
    <3>2. <<DOLLAR>> \in Seq(Byte) /\ After(Rest, Dollar) \in Seq(Byte)
      BY <1>1, <3>1, ByteClasses, AfterType DEF Special
    <3>3. QED
      BY <3>1, <3>2, ConcatProperties
  <2>5. out' = out \o Before \o <<DOLLAR>> \o After(Rest, Dollar) /\ errors' = errors
    BY <1>7 DEF Unclosed
  <2>6. out' = out \o (Before \o tail)
    <3>1. \A s, t, u \in Seq(Byte) : (s \o t) \o u = s \o (t \o u)
      BY ConcatAssociative
    <3>2. out \o Before \in Seq(Byte)
      BY <1>3, <2>4, ConcatProperties
    <3>3. ((out \o Before) \o <<DOLLAR>>) \o After(Rest, Dollar) = (out \o Before) \o tail
      BY <2>4, <3>1, <3>2, Zenon
    <3>4. (out \o Before) \o tail = out \o (Before \o tail)
      BY <1>3, <2>4, <3>1, Zenon
    <3>5. QED
      BY <2>5, <3>3, <3>4, Zenon
  <2> HIDE DEF tail
  <2>7. Subst(Rest, env) = Literally(Before \o tail)
    BY <2>3, <2>4, ThenLiterally
  <2>8. SoFar' = Then(SoFar, Literally(Before \o tail))
    BY <1>3, <2>5, <2>6 DEF SoFar, Then, Literally
  <2>9. QED
    BY <1>2, <2>7, <2>8
<1>8. QED
  BY <1>5, <1>6, <1>7

LEMMA InitValue == Init => ValueInv
<1> SUFFICES ASSUME Init PROVE ValueInv
  OBVIOUS
<1>1. WalkInv /\ Texts(env) /\ value \in Seq(Byte)
  BY InitWalk, EnvTexts DEF WalkInv, TypeOK
<1>2. pc = "loop" /\ out = << >> /\ errors = 0 /\ Rest = value
  BY <1>1 DEF Init, Rest, After
<1>3. Subst(value, env) \in Results(Byte)
  BY <1>1, SubstType DEF Texts
<1>4. Then(Literally(<< >>), Subst(value, env)) = Subst(value, env)
  BY <1>3, ThenNothing
<1>5. QED
  BY <1>1, <1>2, <1>4 DEF ValueInv, ResolvedSoFar, ResolvesAsReference, Literally

LEMMA ValueKeeps == ValueInv /\ [Next]_vars => ValueInv'
<1> SUFFICES ASSUME ValueInv, [Next]_vars PROVE ValueInv'
  OBVIOUS
<1>1. WalkInv'
  BY WalkKeeps DEF ValueInv
<1>2. CASE Braced \/ LoneDollar \/ Named
  <2>1. ResolvedSoFar'
    BY <1>2, GoesOnKeeps
  <2>2. pc' = "loop"
    BY <1>2 DEF Braced, LoneDollar, Named, AtDollar, Resolve
  <2>3. QED
    BY <1>1, <2>1, <2>2 DEF ValueInv, ResolvesAsReference
<1>3. CASE Return \/ NoDollar \/ Unclosed
  <2>1. SoFar' = Subst(value, env)
    BY <1>3, DoneKeeps
  <2>2. pc' = "done" /\ UNCHANGED <<value, env>>
    BY <1>3 DEF Return, NoDollar, Unclosed
  <2>3. QED
    BY <1>1, <2>1, <2>2 DEF ValueInv, ResolvesAsReference, ResolvedSoFar, SoFar
<1>4. CASE OutOfMemory
  BY <1>1, <1>4 DEF OutOfMemory, ValueInv, ResolvesAsReference, ResolvedSoFar
<1>5. CASE UNCHANGED vars
  BY <1>1, <1>5 DEF vars, ValueInv, ResolvesAsReference, ResolvedSoFar, Rest
<1>6. QED
  BY <1>2, <1>3, <1>4, <1>5 DEF Next

\* At every turn the text resolved so far, and what the reference makes of the
\* rest, are what the reference makes of the whole value: the walk over
\* pointers and the cutting of strings agree on where a reference begins and
\* ends, and what was put in is not scanned again (envfile.c:279-340).
THEOREM WalkAgrees == Spec => []ResolvedSoFar
<1>1. ValueInv => ResolvedSoFar
  BY DEF ValueInv
<1>2. QED
  BY <1>1, InitValue, ValueKeeps, PTL DEF Spec

\* A call that returns a text returns the reference's, and reports as many
\* unbound references, whatever the value and the environment.
THEOREM CallAgrees == Spec => []ResolvesAsReference
<1>1. ValueInv => ResolvesAsReference
  BY DEF ValueInv
<1>2. QED
  BY <1>1, InitValue, ValueKeeps, PTL DEF Spec
=============================================================================
