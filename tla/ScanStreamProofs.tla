-------------------------- MODULE ScanStreamProofs --------------------------
(***************************************************************************)
(* Proofs about the chunked reader for every file, every READ_BUF and      *)
(* every WORK_BUF >= READ_BUF.                                             *)
(***************************************************************************)
EXTENDS ScanStream, SequenceTheorems, FiniteSetTheorems, TLAPS

-----------------------------------------------------------------------------
(* The operators on buffers. *)

\* A slice has the length asked for and the elements of the buffer.
LEMMA SliceLen ==
  ASSUME NEW buf, NEW lo \in Int, NEW n \in Nat
  PROVE  /\ Len(Slice(buf, lo, n)) = n
         /\ \A i \in 1..n : Slice(buf, lo, n)[i] = buf[lo + i]
<1> DEFINE S == {buf[lo + i] : i \in 1..n}
<1>1. Slice(buf, lo, n) \in [1..n -> S]
  BY DEF Slice
<1>2. Slice(buf, lo, n) \in Seq(S)
  BY <1>1, SeqDef
<1>3. Len(Slice(buf, lo, n)) = n
  BY <1>1, <1>2, LenProperties
<1>4. QED
  BY <1>3 DEF Slice

\* A slice whose elements lie in S is a sequence over S.
LEMMA SliceType ==
  ASSUME NEW S, NEW buf, NEW lo \in Int, NEW n \in Nat,
         \A i \in 1..n : buf[lo + i] \in S
  PROVE  Slice(buf, lo, n) \in Seq(S)
<1>1. Slice(buf, lo, n) \in [1..n -> S]
  BY DEF Slice
<1>2. QED
  BY <1>1, SeqDef

\* Two buffers that agree on a region have the same slice there.
LEMMA SliceEqual ==
  ASSUME NEW f, NEW g, NEW a \in Int, NEW b \in Int, NEW n \in Nat,
         \A i \in 1..n : f[a + i] = g[b + i]
  PROVE  Slice(f, a, n) = Slice(g, b, n)
BY DEF Slice

\* Cutting a carriage return off a text leaves a text that is no longer.
LEMMA StripCrType ==
  ASSUME NEW S, NEW s \in Seq(S), NEW strip \in BOOLEAN
  PROVE  /\ StripCr(s, strip) \in Seq(S)
         /\ Len(StripCr(s, strip)) \in Nat
         /\ Len(StripCr(s, strip)) <= Len(s)
<1>1. CASE strip /\ Len(s) > 0 /\ s[Len(s)] = CR
  <2>1. \A i \in 1..(Len(s) - 1) : s[0 + i] \in S
    BY ElementOfSeq
  <2>2. Len(s) - 1 \in Nat
    BY <1>1, LenProperties
  <2>3. DropLast(s) \in Seq(S) /\ Len(DropLast(s)) = Len(s) - 1
    BY <2>1, <2>2, SliceLen, SliceType DEF DropLast
  <2>4. QED
    BY <1>1, <2>2, <2>3 DEF StripCr
<1>2. CASE ~(strip /\ Len(s) > 0 /\ s[Len(s)] = CR)
  BY <1>2, LenProperties DEF StripCr
<1>3. QED
  BY <1>1, <1>2

\* A copy that fits changes the copied region and nothing else.
LEMMA CopyToType ==
  ASSUME NEW T, NEW N \in Nat, NEW buf \in [1..N -> T],
         NEW s \in Seq(T), NEW lo \in Nat, lo + Len(s) <= N
  PROVE  /\ CopyTo(buf, lo, s) \in [1..N -> T]
         /\ \A i \in 1..lo : CopyTo(buf, lo, s)[i] = buf[i]
         /\ \A i \in 1..Len(s) : CopyTo(buf, lo, s)[lo + i] = s[i]
<1>1. Len(s) \in Nat /\ \A i \in 1..Len(s) : s[i] \in T
  BY LenProperties, ElementOfSeq
<1>2. DOMAIN buf \cup (lo+1)..(lo+Len(s)) = 1..N
  BY <1>1
<1>3. CopyTo(buf, lo, s) =
        [i \in 1..N |-> IF lo < i /\ i <= lo + Len(s) THEN s[i - lo] ELSE buf[i]]
  BY <1>2 DEF CopyTo
<1>4. ASSUME NEW i \in 1..N
      PROVE  (IF lo < i /\ i <= lo + Len(s) THEN s[i - lo] ELSE buf[i]) \in T
  BY <1>1
<1>5. CopyTo(buf, lo, s) \in [1..N -> T]
  BY <1>3, <1>4
<1>6. \A i \in 1..lo : CopyTo(buf, lo, s)[i] = buf[i]
  BY <1>1, <1>3
<1>7. ASSUME NEW i \in 1..Len(s)
      PROVE  CopyTo(buf, lo, s)[lo + i] = s[i]
  <2>1. lo + i \in 1..N /\ lo < lo + i /\ lo + i <= lo + Len(s) /\ (lo + i) - lo = i
    BY <1>1
  <2>2. QED
    BY <1>3, <2>1
<1>8. QED
  BY <1>5, <1>6, <1>7

\* A copy to the front of the array.
LEMMA CopyToFront ==
  ASSUME NEW T, NEW N \in Nat, NEW buf \in [1..N -> T],
         NEW s \in Seq(T), Len(s) <= N
  PROVE  /\ CopyTo(buf, 0, s) \in [1..N -> T]
         /\ \A i \in 1..Len(s) : CopyTo(buf, 0, s)[i] = s[i]
<1>1. Len(s) \in Nat /\ \A i \in 1..Len(s) : s[i] \in T
  BY LenProperties, ElementOfSeq
<1>2. DOMAIN buf \cup (0+1)..(0+Len(s)) = 1..N
  BY <1>1
<1>3. CopyTo(buf, 0, s) = [i \in 1..N |-> IF 0 < i /\ i <= Len(s) THEN s[i] ELSE buf[i]]
  <2>1. \A i \in 1..N : i - 0 = i /\ (i <= 0 + Len(s) <=> i <= Len(s))
    BY <1>1
  <2>2. QED
    BY <1>2, <2>1 DEF CopyTo
<1>4. QED
  BY <1>1, <1>3

-----------------------------------------------------------------------------
(* The inductive invariant. *)

Inv == TypeOK /\ WindowInv /\ JoinInv

LEMMA InitInv == Init => Inv
<1> SUFFICES ASSUME Init PROVE Inv
  OBVIOUS
<1>1. WORK_BUF \in Nat /\ Blank \in [1..WORK_BUF -> Byte \cup {Uninit}]
  BY BufferSizes DEF Blank
<1>2. file \in Seq(Byte) /\ Len(file) \in Nat
  BY Inputs, LenProperties DEF Init
<1>3. fed \in Seq([text : Seq(Byte), no : Nat \ {0}])
  BY DEF Init
<1>4. TypeOK
  <2>1. /\ work_buf \in [1..WORK_BUF -> Byte \cup {Uninit}]
        /\ join_buf \in [1..WORK_BUF -> Byte \cup {Uninit}]
    BY <1>1 DEF Init
  <2>2. 0 \in 0..WORK_BUF /\ 0 \in 0..Len(file)
    BY <1>1, <1>2
  <2>3. QED
    BY <1>2, <1>3, <2>1, <2>2 DEF Init, TypeOK
<1>5. WindowInv /\ JoinInv
  BY <1>2 DEF Init, WindowInv, Holds, JoinInv, Scanned
<1>6. QED
  BY <1>4, <1>5 DEF Inv

\* What the fread returns.
LEMMA NrType ==
  ASSUME TypeOK
  PROVE  /\ Len(file) \in Nat
         /\ Nr \in 0..READ_BUF
         /\ off + Nr \in 0..Len(file)
         /\ Nr = 0 => off = Len(file)
         /\ ReadBuf \in Seq(Byte)
         /\ Len(ReadBuf) = Nr
         /\ \A i \in 1..Nr : ReadBuf[i] = file[off + i]
<1>1. Len(file) \in Nat
  BY LenProperties DEF TypeOK
<1>2. Nr \in 0..READ_BUF /\ off + Nr \in 0..Len(file) /\ (Nr = 0 => off = Len(file))
  BY <1>1, BufferSizes DEF TypeOK, Nr
<1>3. \A i \in 1..Nr : file[off + i] \in Byte
  BY <1>1, <1>2, ElementOfSeq DEF TypeOK
<1>4. off \in Int /\ Nr \in Nat
  BY <1>1, <1>2 DEF TypeOK
<1>5. /\ Slice(file, off, Nr) \in Seq(Byte)
      /\ Len(Slice(file, off, Nr)) = Nr
      /\ \A i \in 1..Nr : Slice(file, off, Nr)[i] = file[off + i]
  BY <1>3, <1>4, SliceLen, SliceType
<1>6. QED
  BY <1>1, <1>2, <1>5 DEF ReadBuf

\* After the memcpy the window ends where the stream stands.
LEMMA RefillWindow ==
  ASSUME Inv, Refill
  PROVE  /\ work_buf' \in [1..WORK_BUF -> Byte \cup {Uninit}]
         /\ off' \in 0..Len(file) /\ filled' \in 0..WORK_BUF /\ eof' \in BOOLEAN
         /\ filled' <= off'
         /\ \A i \in 1..filled' : work_buf'[i] = file[off' - filled' + i]
         /\ \A i \in 1..tail : work_buf'[i] # LF
<1> USE DEF Inv
<1>1. TypeOK /\ pc = "read"
  BY DEF Refill
<1>2. /\ tail <= off
      /\ \A i \in 1..tail : work_buf[i] = file[off - tail + i]
      /\ \A i \in 1..tail : work_buf[i] # LF
  BY <1>1 DEF WindowInv, Holds
<1>3. /\ tail \in Nat /\ off \in Nat /\ Nr \in Nat /\ Len(file) \in Nat /\ WORK_BUF \in Nat
      /\ tail + Nr <= WORK_BUF
      /\ off' = off + Nr /\ filled' = tail + Nr /\ off' \in 0..Len(file)
  BY <1>1, NrType, BufferSizes DEF TypeOK, Refill
<1>4. /\ work_buf' \in [1..WORK_BUF -> Byte \cup {Uninit}]
      /\ \A i \in 1..tail : work_buf'[i] = work_buf[i]
      /\ \A i \in 1..Nr : work_buf'[tail + i] = ReadBuf[i]
  <2> DEFINE T == Byte \cup {Uninit}
  <2>1. ReadBuf \in Seq(T) /\ Len(ReadBuf) = Nr
    BY <1>1, NrType, SeqMonotonic
  <2>2. work_buf \in [1..WORK_BUF -> T]
    BY <1>1 DEF TypeOK
  <2>3. tail + Len(ReadBuf) <= WORK_BUF
    BY <1>3, <2>1
  <2>4. /\ CopyTo(work_buf, tail, ReadBuf) \in [1..WORK_BUF -> T]
        /\ \A i \in 1..tail : CopyTo(work_buf, tail, ReadBuf)[i] = work_buf[i]
        /\ \A i \in 1..Len(ReadBuf) : CopyTo(work_buf, tail, ReadBuf)[tail + i] = ReadBuf[i]
    <3> HIDE DEF T
    <3>1. WORK_BUF \in Nat /\ tail \in Nat
      BY <1>3
    <3>2. CopyTo(work_buf, tail, ReadBuf) \in [1..WORK_BUF -> T]
      BY <2>1, <2>2, <2>3, <3>1, CopyToType
    <3>3. \A i \in 1..tail : CopyTo(work_buf, tail, ReadBuf)[i] = work_buf[i]
      BY <2>1, <2>2, <2>3, <3>1, CopyToType
    <3>4. \A i \in 1..Len(ReadBuf) : CopyTo(work_buf, tail, ReadBuf)[tail + i] = ReadBuf[i]
      BY <2>1, <2>2, <2>3, <3>1, CopyToType
    <3> QED BY <3>2, <3>3, <3>4
  <2>5. QED
    BY <2>1, <2>4 DEF Refill
<1>5. ASSUME NEW i \in 1..filled'
      PROVE  work_buf'[i] = file[off' - filled' + i]
  <2>1. CASE i <= tail
    <3>1. off' - filled' + i = off - tail + i /\ i \in 1..tail
      BY <1>3, <2>1
    <3>2. QED
      BY <1>2, <1>4, <3>1
  <2>2. CASE i > tail
    <3>1. i - tail \in 1..Nr /\ tail + (i - tail) = i
      BY <1>3, <2>2
    <3>2. work_buf'[i] = ReadBuf[i - tail]
      BY <1>4, <3>1
    <3>3. ReadBuf[i - tail] = file[off + (i - tail)]
      BY <1>1, <3>1, NrType
    <3>4. off + (i - tail) = off' - filled' + i
      BY <1>3
    <3>5. QED
      BY <3>2, <3>3, <3>4
  <2>3. QED
    BY <1>3, <2>1, <2>2
<1>6. eof' \in BOOLEAN
  BY DEF Refill
<1>7. filled' <= off'
  BY <1>2, <1>3
<1>8. \A i \in 1..tail : work_buf'[i] # LF
  BY <1>2, <1>4
<1>9. off' \in 0..Len(file) /\ filled' \in 0..WORK_BUF
  BY <1>3
<1>10. QED
  BY <1>4, <1>5, <1>6, <1>7, <1>8, <1>9

\* The read half of the loop preserves the invariant.
LEMMA ReadInv ==
  ASSUME Inv, Read
  PROVE  Inv'
<1>1. CASE ReadTooLong
  <2>1. off' \in 0..Len(file) /\ Len(file) \in Nat
    BY <1>1, NrType DEF Inv, ReadTooLong
  <2>2. TypeOK'
    BY <1>1, <2>1 DEF Inv, TypeOK, ReadTooLong, inputs, joining
  <2>3. WindowInv'
    BY <1>1 DEF WindowInv, ReadTooLong
  <2>4. join_len <= Len(file)
    BY <1>1, <2>1 DEF Inv, TypeOK, JoinInv, Scanned, ReadTooLong
  <2>5. JoinInv'
    BY <1>1, <2>4 DEF Inv, JoinInv, Scanned, ReadTooLong, joining, inputs
  <2>6. QED
    BY <2>2, <2>3, <2>5 DEF Inv
<1>2. CASE ReadNothing \/ ReadEof \/ ReadLines \/ ReadPartOfLine \/ ReadFull
  <2>1. Refill
    BY <1>2 DEF ReadNothing, ReadEof, ReadLines, ReadPartOfLine, ReadFull
  <2>2. /\ work_buf' \in [1..WORK_BUF -> Byte \cup {Uninit}]
        /\ off' \in 0..Len(file) /\ filled' \in 0..WORK_BUF /\ eof' \in BOOLEAN
        /\ filled' <= off'
        /\ \A i \in 1..filled' : work_buf'[i] = file[off' - filled' + i]
        /\ \A i \in 1..tail : work_buf'[i] # LF
    BY <2>1, RefillWindow
  <2>3. /\ pc = "read" /\ file' = file /\ strip_cr' = strip_cr /\ shell_cont' = shell_cont
        /\ join_buf' = join_buf /\ join_len' = join_len /\ line_no' = line_no /\ fed' = fed
        /\ filled' = tail + Nr /\ off' = off + Nr /\ (eof' <=> Nr = 0)
    BY <2>1 DEF Refill, inputs, joining
  <2>4. /\ Len(file) \in Nat /\ Nr \in Nat /\ WORK_BUF \in Nat /\ tail \in Nat /\ off \in Nat
        /\ Nr = 0 => off = Len(file)
    BY NrType, BufferSizes DEF Inv, TypeOK
  <2>5. join_len <= off - tail /\ join_len \in Nat
    BY <2>3 DEF Inv, TypeOK, JoinInv, Scanned
  <2>6. pc' \in {"read", "scan", "done"} /\ tail' \in 0..WORK_BUF /\ too_long' \in Nat
        /\ limit' \in 0..WORK_BUF /\ pos' \in 0..WORK_BUF
        /\ (pc' = "scan" => pos' = 0 /\ limit' <= filled')
    <3>1. /\ pc \in {"read", "scan", "done"} /\ too_long \in Nat /\ too_long + 1 \in Nat
          /\ limit \in 0..WORK_BUF /\ pos \in 0..WORK_BUF /\ tail \in 0..WORK_BUF
      BY DEF Inv, TypeOK
    <3>2. CASE ReadNothing
      BY <2>3, <3>1, <3>2 DEF ReadNothing
    <3>3. CASE ReadEof
      BY <2>3, <2>4, <3>1, <3>3 DEF ReadEof
    <3>4. CASE ReadLines
      <4>1. limit' \in 1..filled' /\ pos' = 0 /\ pc' = "scan" /\ UNCHANGED <<tail, too_long>>
        BY <2>3, <3>4 DEF ReadLines
      <4>2. QED
        BY <2>2, <2>4, <3>1, <4>1
    <3>5. CASE ReadPartOfLine
      BY <2>2, <2>3, <2>4, <3>1, <3>5 DEF ReadPartOfLine
    <3>6. CASE ReadFull
      BY <2>3, <3>1, <3>6 DEF ReadFull
    <3>7. QED
      BY <1>2, <3>2, <3>3, <3>4, <3>5, <3>6
  <2>7. TypeOK'
    <3>1. /\ file' \in Seq(Byte) /\ strip_cr' \in BOOLEAN /\ shell_cont' \in BOOLEAN
          /\ line_no' \in Nat /\ fed' \in Seq([text : Seq(Byte), no : Nat \ {0}])
          /\ join_buf' \in [1..WORK_BUF -> Byte \cup {Uninit}] /\ join_len' \in 0..WORK_BUF
      BY <2>3 DEF Inv, TypeOK
    <3>2. off' \in 0..Len(file')
      BY <2>2, <2>3
    <3>3. pc' = "scan" => pos' <= limit' /\ limit' <= filled'
      BY <2>6
    <3>4. QED
      BY <2>2, <2>6, <3>1, <3>2, <3>3 DEF TypeOK
  <2>8. WindowInv'
    <3>1. CASE ReadNothing \/ ReadFull
      BY <3>1 DEF WindowInv, ReadNothing, ReadFull
    <3>2. CASE ReadEof
      <4>1. pc' = "scan" /\ limit' = tail /\ filled' = tail /\ eof' /\ off' = Len(file)
        BY <2>3, <2>4, <3>2 DEF ReadEof
      <4>2. QED
        BY <2>2, <2>3, <2>4, <4>1 DEF WindowInv, Holds
    <3>3. CASE ReadLines
      <4>1. pc' = "scan" /\ ~eof'
        BY <2>3, <2>4, <3>3 DEF ReadLines
      <4>2. /\ limit' \in 1..filled' /\ work_buf'[limit'] = LF
            /\ \A i \in (limit' + 1)..filled' : work_buf'[i] # LF
        BY <2>3, <3>3 DEF ReadLines
      <4>3. limit' > 0
        BY <4>2
      <4>4. QED
        BY <2>2, <2>3, <4>1, <4>2, <4>3 DEF WindowInv, Holds
    <3>4. CASE ReadPartOfLine
      BY <2>2, <2>3, <2>4, <3>4 DEF WindowInv, Holds, ReadPartOfLine, NoNewline
    <3>5. QED
      BY <1>2, <3>1, <3>2, <3>3, <3>4
  <2>9. Scanned' >= off - tail
    <3>1. CASE pc' = "read"
      BY <1>2, <2>3, <2>4, <3>1
         DEF Scanned, ReadNothing, ReadEof, ReadLines, ReadPartOfLine, ReadFull
    <3>2. CASE pc' = "scan"
      BY <2>3, <2>4, <2>6, <3>2 DEF Scanned
    <3>3. CASE pc' = "done"
      BY <2>2, <2>3, <2>4, <3>3 DEF Scanned, Inv, TypeOK
    <3>4. QED
      BY <2>6, <3>1, <3>2, <3>3
  <2>10. Scanned' \in Int
    <3>1. Len(file') \in Int /\ off' \in Int /\ filled' \in Int
      BY <2>2, <2>3, <2>4
    <3>2. tail' \in Int /\ pos' \in Int
      BY <2>4, <2>6
    <3>3. QED
      BY <3>1, <3>2 DEF Scanned
  <2>11. JoinInv'
    BY <2>3, <2>4, <2>5, <2>9, <2>10 DEF Inv, JoinInv
  <2>12. QED
    BY <2>7, <2>8, <2>11 DEF Inv
<1>3. QED
  BY <1>1, <1>2 DEF Read

\* The line that a scan step takes out of the window is a line of the file.
LEMMA LineOfFile ==
  ASSUME Inv, NEW end, pc = "scan", pos < limit, EndsAt(end)
  PROVE  /\ end \in Nat /\ pos \in Nat /\ limit \in Nat /\ pos <= end /\ end <= limit
         /\ Scanned \in Nat /\ Scanned = off - filled + pos
         /\ Scanned + (end - pos) <= Len(file) /\ Len(file) \in Nat
         /\ \A i \in 1..(limit - pos) : work_buf[pos + i] = file[Scanned + i]
         /\ end = limit => Scanned + (end - pos) = Len(file)
         /\ end < limit => Scanned + (end - pos) < Len(file)
         /\ Piece(end) = StripCr(Slice(file, Scanned, end - pos), strip_cr)
         /\ Piece(end) \in Seq(Byte)
         /\ Len(Piece(end)) \in Nat /\ Len(Piece(end)) <= end - pos
<1>1. /\ pos \in Nat /\ limit \in Nat /\ filled \in Nat /\ off \in Nat /\ Len(file) \in Nat
      /\ end \in pos..limit /\ limit <= filled /\ off <= Len(file)
  BY BufferSizes, LenProperties DEF Inv, TypeOK, EndsAt
<1>2. end \in Nat /\ pos <= end /\ end <= limit
  BY <1>1
<1>3. /\ filled <= off
      /\ \A i \in 1..filled : work_buf[i] = file[off - filled + i]
      /\ eof => off = Len(file) /\ limit = filled
      /\ ~eof => limit > 0 /\ work_buf[limit] = LF
  BY DEF Inv, WindowInv, Holds
<1>4. Scanned = off - filled + pos /\ Scanned \in Nat
  BY <1>1, <1>3 DEF Scanned
<1>5. ASSUME NEW i \in 1..(limit - pos)
      PROVE  work_buf[pos + i] = file[Scanned + i]
  <2>1. pos + i \in 1..filled /\ off - filled + (pos + i) = Scanned + i
    BY <1>1, <1>4
  <2>2. QED
    BY <1>3, <2>1
<1>6. end = limit => eof
  <2>1. SUFFICES ASSUME end = limit, ~eof PROVE FALSE
    OBVIOUS
  <2>2. limit \in (pos + 1)..end
    BY <1>1, <2>1
  <2>3. QED
    BY <1>3, <2>1, <2>2 DEF EndsAt
<1>7. /\ Scanned + (end - pos) <= Len(file)
      /\ end = limit => Scanned + (end - pos) = Len(file)
      /\ end < limit => Scanned + (end - pos) < Len(file)
  <2>1. Scanned + (end - pos) = off - filled + end
    BY <1>1, <1>4
  <2>2. end = limit => off = Len(file) /\ limit = filled
    BY <1>3, <1>6
  <2>3. QED
    BY <1>1, <1>2, <1>3, <2>1, <2>2
<1>8. ASSUME NEW i \in 1..(end - pos)
      PROVE  work_buf[pos + i] = file[Scanned + i] /\ file[Scanned + i] \in Byte
  <2>1. i \in 1..(limit - pos)
    BY <1>1
  <2>2. Scanned + i \in 1..Len(file)
    BY <1>1, <1>4, <1>7
  <2>3. QED
    BY <1>5, <2>1, <2>2, ElementOfSeq DEF Inv, TypeOK
<1>9. end - pos \in Nat /\ pos \in Int /\ Scanned \in Int
  BY <1>1, <1>4
<1>10. Slice(work_buf, pos, end - pos) = Slice(file, Scanned, end - pos)
  <2>1. \A i \in 1..(end - pos) : work_buf[pos + i] = file[Scanned + i]
    BY <1>8
  <2>2. QED
    BY <1>9, <2>1, SliceEqual
<1>11. /\ Slice(file, Scanned, end - pos) \in Seq(Byte)
       /\ Len(Slice(file, Scanned, end - pos)) = end - pos
  BY <1>8, <1>9, SliceLen, SliceType
<1>12. strip_cr \in BOOLEAN
  BY DEF Inv, TypeOK
<1>13. Piece(end) = StripCr(Slice(file, Scanned, end - pos), strip_cr)
  BY <1>10 DEF Piece
<1>14. /\ Piece(end) \in Seq(Byte)
       /\ Len(Piece(end)) \in Nat /\ Len(Piece(end)) <= end - pos
  BY <1>11, <1>12, <1>13, StripCrType
<1>15. QED
  BY <1>1, <1>2, <1>4, <1>5, <1>7, <1>13, <1>14

\* What taking a line does to the position.
LEMMA NextLineMoves ==
  ASSUME Inv, NEW end, NextLine(end)
  PROVE  /\ pos' \in Nat /\ pos' <= limit
         /\ Scanned' = IF end < limit THEN Scanned + (end - pos) + 1 ELSE Len(file)
         /\ Scanned' >= Scanned + (end - pos) /\ Scanned' \in Nat
         /\ WindowInv'
<1>1. pc = "scan" /\ pos < limit /\ EndsAt(end)
  BY DEF NextLine
<1>2. /\ end \in Nat /\ pos \in Nat /\ limit \in Nat /\ pos <= end /\ end <= limit
      /\ Scanned \in Nat /\ Scanned = off - filled + pos
      /\ Scanned + (end - pos) <= Len(file) /\ Len(file) \in Nat
      /\ end = limit => Scanned + (end - pos) = Len(file)
  BY <1>1, LineOfFile
<1>3. /\ pos' = IF end < limit THEN end + 1 ELSE limit
      /\ pc' = pc /\ file' = file /\ off' = off /\ filled' = filled /\ limit' = limit
      /\ work_buf' = work_buf /\ eof' = eof /\ tail' = tail
  BY DEF NextLine, Found, inputs
<1>4. pos' \in Nat /\ pos' <= limit
  BY <1>2, <1>3
<1>5. off \in Nat /\ filled \in Nat
  BY LenProperties, BufferSizes DEF Inv, TypeOK
<1>6. Scanned' = off - filled + pos'
  BY <1>1, <1>3 DEF Scanned
<1>7. Scanned' = IF end < limit THEN Scanned + (end - pos) + 1 ELSE Len(file)
  BY <1>2, <1>3, <1>5, <1>6
<1>8. WindowInv'
  BY <1>1, <1>3 DEF Inv, WindowInv, Holds
<1>9. QED
  BY <1>2, <1>4, <1>7, <1>8

\* After the append the join buffer holds the old text and then the piece.
LEMMA JoinedText ==
  ASSUME Inv, NEW end, AppendToJoin(end)
  PROVE  /\ join_buf' \in [1..WORK_BUF -> Byte \cup {Uninit}]
         /\ Joined(end) = Slice(join_buf, 0, join_len) \o Piece(end)
         /\ Joined(end) \in Seq(Byte)
         /\ Len(Joined(end)) = join_len + Len(Piece(end))
         /\ Len(Joined(end)) \in 0..WORK_BUF
         /\ \A i \in 1..Len(Joined(end)) : join_buf'[i] \in Byte
<1> DEFINE T == Byte \cup {Uninit}
           n == Len(Piece(end))
<1>1. NextLine(end) /\ pc = "scan" /\ pos < limit /\ EndsAt(end)
  BY DEF AppendToJoin, NextLine
<1>2. Piece(end) \in Seq(Byte) /\ n \in Nat
  BY <1>1, LineOfFile
<1>3. /\ join_len \in Nat /\ WORK_BUF \in Nat /\ join_len + n <= WORK_BUF
      /\ join_buf' = CopyTo(join_buf, join_len, Piece(end))
      /\ join_buf \in [1..WORK_BUF -> T]
      /\ \A i \in 1..join_len : join_buf[i] \in Byte
  BY BufferSizes DEF Inv, TypeOK, JoinInv, AppendToJoin
<1>4. Piece(end) \in Seq(T)
  BY <1>2, SeqMonotonic
<1>5. /\ join_buf' \in [1..WORK_BUF -> T]
      /\ \A i \in 1..join_len : join_buf'[i] = join_buf[i]
      /\ \A i \in 1..n : join_buf'[join_len + i] = Piece(end)[i]
  <2> HIDE DEF T
  <2>1. CopyTo(join_buf, join_len, Piece(end)) \in [1..WORK_BUF -> T]
    BY <1>3, <1>4, CopyToType
  <2>2. \A i \in 1..join_len : CopyTo(join_buf, join_len, Piece(end))[i] = join_buf[i]
    BY <1>3, <1>4, CopyToType
  <2>3. \A i \in 1..n : CopyTo(join_buf, join_len, Piece(end))[join_len + i] = Piece(end)[i]
    BY <1>3, <1>4, CopyToType
  <2>4. QED
    BY <1>3, <2>1, <2>2, <2>3
<1>6. ASSUME NEW i \in 1..(join_len + n)
      PROVE  join_buf'[i] = (IF i <= join_len THEN join_buf[i] ELSE Piece(end)[i - join_len])
             /\ join_buf'[i] \in Byte
  <2>1. CASE i <= join_len
    <3>1. i \in 1..join_len
      BY <1>3, <2>1
    <3>2. QED
      BY <1>3, <1>5, <2>1, <3>1
  <2>2. CASE i > join_len
    <3>1. i - join_len \in 1..n /\ join_len + (i - join_len) = i
      BY <1>2, <1>3, <2>2
    <3>2. join_buf'[i] = Piece(end)[i - join_len]
      BY <1>5, <3>1
    <3>3. Piece(end)[i - join_len] \in Byte
      BY <1>2, <3>1, ElementOfSeq
    <3>4. ~(i <= join_len)
      BY <1>3, <2>2
    <3>5. QED
      BY <3>2, <3>3, <3>4
  <2>3. QED
    BY <1>3, <2>1, <2>2
<1>7. /\ join_len + n \in Nat /\ 0 \in Int
      /\ \A i \in 1..(join_len + n) : join_buf'[0 + i] \in Byte
  BY <1>2, <1>3, <1>6
<1>8. /\ Joined(end) \in Seq(Byte) /\ Len(Joined(end)) = join_len + n
      /\ \A i \in 1..(join_len + n) : Joined(end)[i] = join_buf'[0 + i]
  BY <1>7, SliceLen, SliceType DEF Joined
<1>9. /\ Slice(join_buf, 0, join_len) \in Seq(Byte) /\ Len(Slice(join_buf, 0, join_len)) = join_len
      /\ \A i \in 1..join_len : Slice(join_buf, 0, join_len)[i] = join_buf[0 + i]
  <2>1. \A i \in 1..join_len : join_buf[0 + i] \in Byte
    BY <1>3
  <2>2. QED
    BY <1>3, <2>1, SliceLen, SliceType
<1>10. /\ Slice(join_buf, 0, join_len) \o Piece(end) \in Seq(Byte)
       /\ Len(Slice(join_buf, 0, join_len) \o Piece(end)) = join_len + n
  BY <1>2, <1>9, ConcatProperties
<1>11. Joined(end) = Slice(join_buf, 0, join_len) \o Piece(end)
  <2>1. ASSUME NEW i \in 1..(join_len + n)
        PROVE  Joined(end)[i] = (Slice(join_buf, 0, join_len) \o Piece(end))[i]
    <3>1. Joined(end)[i] = join_buf'[i]
      BY <1>3, <1>8
    <3>2. (Slice(join_buf, 0, join_len) \o Piece(end))[i] =
            IF i <= join_len THEN Slice(join_buf, 0, join_len)[i] ELSE Piece(end)[i - join_len]
      BY <1>2, <1>9, ConcatProperties
    <3>3. CASE i <= join_len
      <4>1. Slice(join_buf, 0, join_len)[i] = join_buf[i]
        BY <1>3, <1>9, <3>3
      <4>2. QED
        BY <1>6, <3>1, <3>2, <3>3, <4>1
    <3>4. CASE ~(i <= join_len)
      BY <1>6, <3>1, <3>2, <3>4
    <3>5. QED
      BY <3>3, <3>4
  <2>2. QED
    BY <1>8, <1>10, <2>1, SeqEqual
<1>12. Len(Joined(end)) \in 0..WORK_BUF
  BY <1>2, <1>3, <1>8
<1>13. \A i \in 1..Len(Joined(end)) : join_buf'[i] \in Byte
  BY <1>6, <1>8
<1>14. QED
  BY <1>5, <1>8, <1>11, <1>12, <1>13

\* A record handed on is well typed.
LEMMA FedType ==
  ASSUME TypeOK, NEW t \in Seq(Byte)
  PROVE  Append(fed, [text |-> t, no |-> line_no + 1]) \in Seq([text : Seq(Byte), no : Nat \ {0}])
<1>1. [text |-> t, no |-> line_no + 1] \in [text : Seq(Byte), no : Nat \ {0}]
  BY DEF TypeOK
<1>2. QED
  BY <1>1, AppendProperties DEF TypeOK

\* The scanning half of the loop preserves the invariant.
LEMMA ScanInv ==
  ASSUME Inv, NEW end, Scan(end)
  PROVE  Inv'
<1>1. NextLine(end) /\ pc = "scan" /\ pos < limit /\ EndsAt(end)
  BY DEF Scan, FeedLine, JoinTooLong, JoinLine, FeedJoined, AppendToJoin, NextLine
<1>2. /\ Piece(end) \in Seq(Byte)
      /\ Len(Piece(end)) \in Nat /\ Len(Piece(end)) <= end - pos
      /\ end \in Nat /\ pos \in Nat /\ Scanned \in Nat /\ limit \in Nat
  BY <1>1, LineOfFile
<1>3. /\ pos' \in Nat /\ pos' <= limit
      /\ Scanned' >= Scanned + (end - pos) /\ Scanned' \in Nat
      /\ WindowInv'
  BY <1>1, NextLineMoves
<1>4. /\ pc' = pc /\ file' = file /\ strip_cr' = strip_cr /\ shell_cont' = shell_cont
      /\ off' = off /\ filled' = filled /\ limit' = limit /\ work_buf' = work_buf
      /\ eof' = eof /\ tail' = tail /\ line_no' = line_no + 1
  BY <1>1 DEF NextLine, inputs
<1>5. WORK_BUF \in Nat /\ join_len \in Nat /\ join_len <= Scanned /\ too_long \in Nat
  BY BufferSizes DEF Inv, TypeOK, JoinInv
<1>6. pos' \in 0..WORK_BUF /\ (pc = "scan" => pos' <= limit')
  BY <1>2, <1>3, <1>4, <1>5 DEF Inv, TypeOK
<1> SUFFICES
      /\ join_buf' \in [1..WORK_BUF -> Byte \cup {Uninit}]
      /\ join_len' \in 0..WORK_BUF /\ join_len' <= Scanned'
      /\ \A i \in 1..join_len' : join_buf'[i] \in Byte
      /\ too_long' \in Nat
      /\ fed' \in Seq([text : Seq(Byte), no : Nat \ {0}])
  <2>1. ASSUME /\ join_buf' \in [1..WORK_BUF -> Byte \cup {Uninit}]
               /\ join_len' \in 0..WORK_BUF /\ too_long' \in Nat
               /\ fed' \in Seq([text : Seq(Byte), no : Nat \ {0}])
        PROVE  TypeOK'
    BY <1>4, <1>6, <2>1 DEF Inv, TypeOK
  <2>2. ASSUME join_len' <= Scanned', \A i \in 1..join_len' : join_buf'[i] \in Byte
        PROVE  JoinInv'
    BY <2>2 DEF JoinInv
  <2>3. QED
    BY <1>3, <2>1, <2>2 DEF Inv
<1>7. CASE FeedLine(end)
  <2>1. join_buf' = join_buf /\ join_len' = join_len /\ too_long' = too_long
    BY <1>7 DEF FeedLine, joining
  <2>2. fed' \in Seq([text : Seq(Byte), no : Nat \ {0}])
    BY <1>2, <1>7, FedType DEF Inv, FeedLine
  <2>3. QED
    BY <1>2, <1>3, <1>5, <2>1, <2>2 DEF Inv, TypeOK, JoinInv
<1>8. CASE JoinTooLong(end)
  <2>1. join_buf' = join_buf /\ join_len' = 0 /\ too_long' = too_long + 1 /\ fed' = fed
    BY <1>8 DEF JoinTooLong
  <2>2. QED
    BY <1>3, <1>5, <2>1 DEF Inv, TypeOK
<1>9. ASSUME AppendToJoin(end)
      PROVE  /\ join_buf' \in [1..WORK_BUF -> Byte \cup {Uninit}]
             /\ too_long' = too_long
             /\ Joined(end) \in Seq(Byte)
             /\ Len(Joined(end)) \in 0..WORK_BUF /\ Len(Joined(end)) <= Scanned'
             /\ \A i \in 1..Len(Joined(end)) : join_buf'[i] \in Byte
  <2>1. Len(Joined(end)) = join_len + Len(Piece(end))
    BY <1>9, JoinedText
  <2>2. Len(Joined(end)) <= Scanned'
    BY <1>2, <1>3, <1>5, <2>1
  <2>3. QED
    BY <1>9, <2>2, JoinedText DEF AppendToJoin
<1>10. CASE JoinLine(end)
  <2>1. AppendToJoin(end) /\ join_len' = Len(Joined(end)) - 1 /\ fed' = fed
    BY <1>10 DEF JoinLine
  <2>2. Len(Joined(end)) > 0
    <3>1. \E k \in 1..Len(Joined(end)) : TRUE
      BY <1>10 DEF JoinLine, OddBackslashes
    <3>2. Len(Joined(end)) \in Nat
      <4>1. Len(Joined(end)) \in 0..WORK_BUF
        BY <1>9, <2>1
      <4>2. QED
        BY <4>1
    <3>3. QED
      BY <3>1, <3>2
  <2>3. Len(Joined(end)) \in 0..WORK_BUF /\ Len(Joined(end)) <= Scanned'
    BY <1>9, <2>1
  <2>4. join_len' \in 0..WORK_BUF /\ join_len' <= Scanned' /\ join_len' < Len(Joined(end))
    <3> DEFINE len == Len(Joined(end))
               scanned == Scanned'
    <3>1. scanned \in Nat /\ len \in 0..WORK_BUF /\ len <= scanned /\ len > 0 /\ join_len' = len - 1
      BY <1>3, <2>1, <2>2, <2>3
    <3> HIDE DEF len, scanned
    <3>2. join_len' \in 0..WORK_BUF /\ join_len' <= scanned /\ join_len' < len
      BY <1>5, <3>1
    <3>3. QED
      BY <3>2 DEF len, scanned
  <2>5. \A i \in 1..join_len' : join_buf'[i] \in Byte
    BY <1>9, <2>1, <2>3, <2>4
  <2>6. QED
    BY <1>3, <1>5, <1>9, <2>1, <2>4, <2>5 DEF Inv, TypeOK
<1>11. CASE FeedJoined(end)
  <2>1. /\ AppendToJoin(end) /\ join_len' = 0
        /\ fed' = Append(fed, [text |-> Joined(end), no |-> line_no + 1])
    BY <1>11 DEF FeedJoined
  <2>2. fed' \in Seq([text : Seq(Byte), no : Nat \ {0}])
    BY <1>9, <2>1, FedType DEF Inv
  <2>3. QED
    BY <1>3, <1>5, <1>9, <2>1, <2>2
<1>12. QED
  BY <1>7, <1>8, <1>10, <1>11 DEF Scan

\* Moving the rest of the window to its front preserves the invariant.
LEMMA ShiftInv ==
  ASSUME Inv, ShiftWindow
  PROVE  Inv' /\ Scanned' = Scanned
<1> DEFINE T == Byte \cup {Uninit}
           n == filled - limit
<1>1. /\ pc = "scan" /\ pos = limit /\ ~eof /\ tail' = n /\ pc' = "read"
      /\ work_buf' = CopyTo(work_buf, 0, Slice(work_buf, limit, n))
      /\ file' = file /\ strip_cr' = strip_cr /\ shell_cont' = shell_cont
      /\ off' = off /\ filled' = filled /\ limit' = limit /\ pos' = pos /\ eof' = eof
      /\ join_buf' = join_buf /\ join_len' = join_len
      /\ line_no' = line_no /\ fed' = fed /\ too_long' = too_long
  BY DEF ShiftWindow, inputs, joining
<1>2. /\ filled \in Nat /\ limit \in Nat /\ n \in 0..WORK_BUF /\ WORK_BUF \in Nat /\ off \in Nat
      /\ filled <= WORK_BUF /\ limit <= filled /\ filled <= off
      /\ work_buf \in [1..WORK_BUF -> T]
      /\ \A i \in 1..filled : work_buf[i] = file[off - filled + i]
      /\ \A i \in (limit + 1)..filled : work_buf[i] # LF
  BY <1>1, LenProperties, BufferSizes DEF Inv, TypeOK, WindowInv, Holds
<1>3. ASSUME NEW i \in 1..n
      PROVE  limit + i \in 1..WORK_BUF /\ limit + i \in (limit + 1)..filled /\ limit + i \in 1..filled
  BY <1>2
<1>4. /\ Slice(work_buf, limit, n) \in Seq(T) /\ Len(Slice(work_buf, limit, n)) = n
      /\ \A i \in 1..n : Slice(work_buf, limit, n)[i] = work_buf[limit + i]
  <2>1. \A i \in 1..n : work_buf[limit + i] \in T
    BY <1>2, <1>3
  <2>2. n \in Nat /\ limit \in Int
    BY <1>2
  <2> HIDE DEF n, T
  <2>3. QED
    BY <2>1, <2>2, SliceLen, SliceType
<1>5. /\ work_buf' \in [1..WORK_BUF -> T]
      /\ \A i \in 1..n : work_buf'[i] = work_buf[limit + i]
  <2> DEFINE s == Slice(work_buf, limit, n)
  <2>1. s \in Seq(T) /\ Len(s) = n /\ Len(s) <= WORK_BUF
    BY <1>2, <1>4
  <2>2. \A i \in 1..n : s[i] = work_buf[limit + i]
    BY <1>4
  <2>3. work_buf' = CopyTo(work_buf, 0, s)
    BY <1>1
  <2> HIDE DEF s, T, n
  <2>4. CopyTo(work_buf, 0, s) \in [1..WORK_BUF -> T]
    BY <1>2, <2>1, CopyToFront
  <2>5. \A i \in 1..Len(s) : CopyTo(work_buf, 0, s)[i] = s[i]
    BY <1>2, <2>1, CopyToFront
  <2>6. QED
    BY <2>1, <2>2, <2>3, <2>4, <2>5
<1>6. TypeOK'
  BY <1>1, <1>2, <1>5 DEF Inv, TypeOK
<1>7. ASSUME NEW i \in 1..n
      PROVE  work_buf'[i] = file[off - n + i] /\ work_buf'[i] # LF
  <2>1. off - filled + (limit + i) = off - n + i
    BY <1>2
  <2>2. QED
    BY <1>2, <1>3, <1>5, <2>1
<1>8. WindowInv'
  <2>1. n <= off
    BY <1>2
  <2>2. QED
    BY <1>1, <1>7, <2>1 DEF WindowInv, Holds
<1>9. Scanned' = Scanned
  <2>1. off - n = off - filled + limit
    BY <1>2
  <2>2. QED
    BY <1>1, <2>1 DEF Scanned
<1>10. JoinInv'
  BY <1>1, <1>9 DEF Inv, JoinInv
<1>11. QED
  BY <1>6, <1>8, <1>9, <1>10 DEF Inv

\* Leaving the loop at the end of the file preserves the invariant.
LEMMA EofInv ==
  ASSUME Inv, ScanEof
  PROVE  Inv'
<1>1. /\ pc = "scan" /\ pos = limit /\ eof /\ pc' = "done"
      /\ UNCHANGED <<inputs, window, joining, line_no, fed, too_long>>
  BY DEF ScanEof
<1>2. TypeOK' /\ WindowInv'
  BY <1>1 DEF Inv, TypeOK, WindowInv, inputs, window, joining
<1>3. off = Len(file) /\ limit = filled /\ pos = limit
  BY <1>1 DEF Inv, WindowInv
<1>4. Scanned = Len(file)
  <2>1. filled \in Nat /\ off \in Nat
    BY BufferSizes, LenProperties DEF Inv, TypeOK
  <2>2. QED
    BY <1>1, <1>3, <2>1 DEF Scanned
<1>5. JoinInv'
  BY <1>1, <1>4 DEF Inv, JoinInv, Scanned, inputs, joining
<1>6. QED
  BY <1>2, <1>5 DEF Inv

LEMMA NextInv == Inv /\ [Next]_vars => Inv'
<1> SUFFICES ASSUME Inv, [Next]_vars PROVE Inv'
  OBVIOUS
<1>1. CASE UNCHANGED vars
  BY <1>1 DEF Inv, TypeOK, WindowInv, Holds, JoinInv, Scanned, vars, inputs, window, joining
<1>2. CASE Next
  BY <1>2, ReadInv, ScanInv, ShiftInv, EofInv DEF Next
<1>3. QED
  BY <1>1, <1>2

LEMMA AlwaysInv == Spec => []Inv
BY InitInv, NextInv, PTL DEF Spec

\* No copy of the reader leaves its array and its indices stay ordered,
\* whatever the file and the sizes of the buffers.
THEOREM TypeCorrect == Spec => []TypeOK
<1>1. Inv => TypeOK
  BY DEF Inv
<1>2. QED
  BY <1>1, AlwaysInv, PTL

\* The window always shows the file where the stream stands: nothing is
\* lost, repeated or shifted by the memmove between two reads.
THEOREM WindowShowsFile == Spec => []WindowInv
<1>1. Inv => WindowInv
  BY DEF Inv
<1>2. QED
  BY <1>1, AlwaysInv, PTL

\* What is joined is what this call read: no byte of the join buffer is used
\* before it was written, and none is there that was not scanned
\* (envfile.c:566-588).
THEOREM JoinedIsRead == Spec => []JoinInv
<1>1. Inv => JoinInv
  BY DEF Inv
<1>2. QED
  BY <1>1, AlwaysInv, PTL

-----------------------------------------------------------------------------
(* Lines that fit are not refused. *)

\* A region of the file without a newline is as short as the lines are.
LEMMA NoLongRun ==
  ASSUME NEW n \in Nat, Len(file) \in Nat, LinesAtMost(n),
         NEW lo \in Nat, NEW k \in Nat, lo + k <= Len(file),
         \A i \in 1..k : file[lo + i] # LF
  PROVE  k <= n
<1> SUFFICES ASSUME k > n PROVE FALSE
  OBVIOUS
<1>1. lo \in 0..(Len(file) - n - 1)
  OBVIOUS
<1>2. PICK j \in (lo + 1)..(lo + n + 1) : file[j] = LF
  BY <1>1 DEF LinesAtMost
<1>3. j - lo \in 1..k /\ lo + (j - lo) = j
  BY <1>2
<1>4. QED
  BY <1>2, <1>3

\* The window is given up only where a line has outgrown WORK_BUF - READ_BUF.
LEMMA LongRun ==
  ASSUME Inv, ReadTooLong \/ ReadFull
  PROVE  \E k \in Nat :
           /\ k > WORK_BUF - READ_BUF /\ WORK_BUF - READ_BUF \in Nat
           /\ off - tail \in Nat /\ off - tail + k <= Len(file) /\ Len(file) \in Nat
           /\ \A i \in 1..k : file[off - tail + i] # LF
<1>1. /\ Len(file) \in Nat /\ Nr \in 0..READ_BUF /\ off + Nr <= Len(file)
      /\ READ_BUF \in Nat \ {0} /\ WORK_BUF \in Nat /\ READ_BUF <= WORK_BUF
      /\ tail \in Nat /\ off \in Nat
  BY NrType, BufferSizes DEF Inv, TypeOK
<1>2. pc = "read"
  BY DEF ReadTooLong, ReadFull, Refill
<1>3. /\ tail <= off
      /\ \A i \in 1..tail : work_buf[i] = file[off - tail + i] /\ work_buf[i] # LF
  BY <1>2 DEF Inv, WindowInv, Holds
<1>4. CASE ReadTooLong
  <2>1. tail > WORK_BUF - READ_BUF
    BY <1>1, <1>4 DEF ReadTooLong
  <2>2. WORK_BUF - READ_BUF \in Nat /\ off - tail \in Nat /\ off - tail + tail <= Len(file)
    BY <1>1, <1>3
  <2>3. \A i \in 1..tail : file[off - tail + i] # LF
    BY <1>3
  <2>4. QED
    BY <1>1, <2>1, <2>2, <2>3
<1>5. CASE ReadFull
  <2> DEFINE k == tail + Nr
  <2>1. /\ Refill /\ k = WORK_BUF /\ filled' = k /\ off' = off + Nr
        /\ \A i \in 1..k : work_buf'[i] # LF
    BY <1>5 DEF ReadFull, NoNewline, Refill
  <2>2. \A i \in 1..filled' : work_buf'[i] = file[off' - filled' + i]
    BY <2>1, RefillWindow
  <2>3. ASSUME NEW i \in 1..k
        PROVE  file[off - tail + i] # LF
    <3>1. off' - filled' + i = off - tail + i
      BY <1>1, <2>1
    <3>2. QED
      BY <2>1, <2>2, <3>1
  <2>4. /\ k \in Nat /\ k > WORK_BUF - READ_BUF /\ WORK_BUF - READ_BUF \in Nat
        /\ off - tail \in Nat /\ off - tail + k <= Len(file)
    BY <1>1, <1>3, <2>1
  <2>5. QED
    BY <1>1, <2>3, <2>4
<1>6. QED
  BY <1>4, <1>5

LEMMA NoSpuriousStep == Inv /\ NoSpuriousTooLong /\ [Next]_vars => NoSpuriousTooLong'
<1> SUFFICES ASSUME Inv, NoSpuriousTooLong, [Next]_vars,
                    LinesAtMost(WORK_BUF - READ_BUF)', (shell_cont => Len(file) <= WORK_BUF)'
             PROVE  too_long' = 0
  BY DEF NoSpuriousTooLong
<1>1. file' = file /\ shell_cont' = shell_cont
  BY DEF vars, inputs, Next, Read, ReadTooLong, ReadNothing, ReadEof, ReadLines, ReadPartOfLine,
         ReadFull, Refill, Scan, FeedLine, JoinTooLong, JoinLine, FeedJoined, AppendToJoin,
         NextLine, ShiftWindow, ScanEof
<1>2. LinesAtMost(WORK_BUF - READ_BUF) /\ (shell_cont => Len(file) <= WORK_BUF)
  BY <1>1 DEF LinesAtMost
<1>3. too_long = 0
  BY <1>2 DEF NoSpuriousTooLong
<1>4. CASE ReadTooLong \/ ReadFull
  <2>1. PICK k \in Nat :
           /\ k > WORK_BUF - READ_BUF /\ WORK_BUF - READ_BUF \in Nat
           /\ off - tail \in Nat /\ off - tail + k <= Len(file) /\ Len(file) \in Nat
           /\ \A i \in 1..k : file[off - tail + i] # LF
    BY <1>4, LongRun
  <2> DEFINE n == WORK_BUF - READ_BUF
             lo == off - tail
  <2>2. /\ n \in Nat /\ lo \in Nat /\ lo + k <= Len(file) /\ k > n
        /\ \A i \in 1..k : file[lo + i] # LF
        /\ LinesAtMost(n)
    BY <1>2, <2>1
  <2> HIDE DEF n, lo
  <2>3. k <= n
    BY <2>1, <2>2, NoLongRun
  <2>4. QED
    BY <2>2, <2>3
<1>5. ASSUME NEW end, JoinTooLong(end)
      PROVE  FALSE
  <2>1. shell_cont /\ NextLine(end) /\ join_len + Len(Piece(end)) > WORK_BUF
    BY <1>5 DEF JoinTooLong
  <2>2. pc = "scan" /\ pos < limit /\ EndsAt(end)
    BY <2>1 DEF NextLine
  <2>3. /\ Len(Piece(end)) \in Nat /\ Len(Piece(end)) <= end - pos /\ end \in Nat /\ pos \in Nat
        /\ Scanned \in Nat /\ Scanned + (end - pos) <= Len(file) /\ Len(file) \in Nat
    BY <2>2, LineOfFile
  <2>4. join_len \in Nat /\ join_len <= Scanned /\ WORK_BUF \in Nat
    BY BufferSizes DEF Inv, TypeOK, JoinInv
  <2>5. Len(file) <= WORK_BUF
    BY <1>2, <2>1
  <2>6. QED
    BY <2>1, <2>3, <2>4, <2>5
<1>6. CASE UNCHANGED vars
  BY <1>3, <1>6 DEF vars
<1>7. CASE ReadNothing \/ ReadEof \/ ReadLines \/ ReadPartOfLine \/ ShiftWindow \/ ScanEof
  BY <1>3, <1>7 DEF ReadNothing, ReadEof, ReadLines, ReadPartOfLine, ShiftWindow, ScanEof
<1>8. ASSUME NEW end, FeedLine(end) \/ JoinLine(end) \/ FeedJoined(end)
      PROVE  too_long' = too_long
  BY <1>8 DEF FeedLine, JoinLine, FeedJoined, AppendToJoin
<1>9. QED
  BY <1>3, <1>4, <1>5, <1>6, <1>7, <1>8 DEF Next, Read, Scan

\* However a file happens to fall into reads, no line of at most
\* WORK_BUF - READ_BUF bytes is refused for its length (envfile.c:527-552,
\* 567-573), nor a join when the whole file fits the join buffer.
THEOREM ShortLinesAccepted == Spec => []NoSpuriousTooLong
<1>1. Init => NoSpuriousTooLong
  BY DEF Init, NoSpuriousTooLong
<1>2. QED
  BY <1>1, AlwaysInv, NoSpuriousStep, PTL DEF Spec

-----------------------------------------------------------------------------
(* Line numbers. *)

\* Taking a terminated line adds one newline to those scanned.
LEMMA OneMoreNewline ==
  ASSUME NEW n \in Nat, NEW k \in Nat,
         \A i \in 1..k : file[n + i] # LF, file[n + k + 1] = LF
  PROVE  /\ Cardinality(Newlines(n)) \in Nat
         /\ Cardinality(Newlines(n + k + 1)) = Cardinality(Newlines(n)) + 1
<1>1. IsFiniteSet(1..n)
  BY FS_Interval
<1>2. IsFiniteSet(Newlines(n))
  BY <1>1, FS_Subset DEF Newlines
<1>3. Newlines(n + k + 1) = Newlines(n) \cup {n + k + 1}
  <2>1. ASSUME NEW i \in Newlines(n + k + 1), i \notin Newlines(n)
        PROVE  i = n + k + 1
    <3>1. i \in 1..(n + k + 1) /\ file[i] = LF /\ ~(i \in 1..n)
      BY <2>1 DEF Newlines
    <3>2. SUFFICES ASSUME i # n + k + 1 PROVE FALSE
      OBVIOUS
    <3>3. i - n \in 1..k /\ n + (i - n) = i
      BY <3>1, <3>2
    <3>4. QED
      BY <3>1, <3>3
  <2>2. Newlines(n) \subseteq Newlines(n + k + 1) /\ n + k + 1 \in Newlines(n + k + 1)
    BY DEF Newlines
  <2>3. QED
    BY <2>1, <2>2
<1>4. n + k + 1 \notin Newlines(n)
  BY DEF Newlines
<1>5. QED
  BY <1>2, <1>3, <1>4, FS_AddElement, FS_CardinalityType

LEMMA ScannedKept ==
  ASSUME Inv, ReadEof \/ ReadLines \/ ReadPartOfLine
  PROVE  Scanned' = Scanned
<1>1. Refill
  BY DEF ReadEof, ReadLines, ReadPartOfLine
<1>2. off' = off + Nr /\ filled' = tail + Nr /\ pc = "read"
  BY <1>1 DEF Refill
<1>3. off \in Nat /\ tail \in Nat /\ Nr \in Nat
  BY NrType, BufferSizes DEF Inv, TypeOK
<1>4. CASE ReadEof \/ ReadLines
  <2>1. pc' = "scan" /\ pos' = 0
    BY <1>4 DEF ReadEof, ReadLines
  <2>2. QED
    BY <1>2, <1>3, <2>1 DEF Scanned
<1>5. CASE ReadPartOfLine
  <2>1. pc' = "read" /\ tail' = tail + Nr
    BY <1>2, <1>5 DEF ReadPartOfLine
  <2>2. QED
    BY <1>2, <1>3, <2>1 DEF Scanned
<1>6. QED
  BY <1>4, <1>5

LEMMA LineNumbersStep == Inv /\ LineNumbers /\ [Next]_vars => LineNumbers'
<1> SUFFICES ASSUME Inv, LineNumbers, [Next]_vars, pc' # "done", Scanned' < Len(file')
             PROVE  line_no' = Cardinality(Newlines(Scanned)')
  BY DEF LineNumbers
<1>1. CASE UNCHANGED vars
  <2>1. pc # "done" /\ Scanned < Len(file) /\ line_no' = line_no /\ Newlines(Scanned)' = Newlines(Scanned)
    BY <1>1 DEF vars, inputs, window, joining, Scanned, Newlines
  <2>2. QED
    BY <2>1 DEF LineNumbers
<1>2. CASE ReadTooLong \/ ReadNothing \/ ReadFull \/ ScanEof
  BY <1>2 DEF ReadTooLong, ReadNothing, ReadFull, ScanEof
<1>3. CASE ReadEof \/ ReadLines \/ ReadPartOfLine \/ ShiftWindow
  <2>1. Scanned' = Scanned
    BY <1>3, ScannedKept, ShiftInv
  <2>2. file' = file /\ line_no' = line_no /\ pc # "done"
    BY <1>3 DEF ReadEof, ReadLines, ReadPartOfLine, Refill, ShiftWindow, inputs
  <2>3. Newlines(Scanned)' = Newlines(Scanned)
    BY <2>1, <2>2 DEF Newlines
  <2>4. QED
    BY <2>1, <2>2, <2>3 DEF LineNumbers
<1>4. ASSUME NEW end, Scan(end)
      PROVE  line_no' = Cardinality(Newlines(Scanned)')
  <2> DEFINE k == end - pos
  <2>1. NextLine(end) /\ pc = "scan" /\ pos < limit /\ EndsAt(end)
    BY <1>4 DEF Scan, FeedLine, JoinTooLong, JoinLine, FeedJoined, AppendToJoin, NextLine
  <2>2. /\ Scanned \in Nat /\ k \in Nat /\ limit \in Nat /\ end \in Nat /\ pos \in Nat
        /\ end <= limit /\ Len(file) \in Nat
        /\ \A i \in 1..(limit - pos) : work_buf[pos + i] = file[Scanned + i]
        /\ end < limit => Scanned + k < Len(file)
    BY <2>1, LineOfFile
  <2>3. file' = file /\ line_no' = line_no + 1
    BY <2>1 DEF NextLine, inputs
  <2>4. end < limit /\ Scanned' = Scanned + k + 1
    BY <2>1, <2>2, <2>3, NextLineMoves
  <2>5. \A i \in 1..k : file[Scanned + i] # LF
    <3>1. ASSUME NEW i \in 1..k PROVE file[Scanned + i] # LF
      <4>1. i \in 1..(limit - pos) /\ pos + i \in (pos + 1)..end
        BY <2>2
      <4>2. QED
        BY <2>1, <2>2, <4>1 DEF EndsAt
    <3>2. QED
      BY <3>1
  <2>6. file[Scanned + k + 1] = LF
    <3>1. k + 1 \in 1..(limit - pos) /\ pos + (k + 1) = end + 1 /\ Scanned + (k + 1) = Scanned + k + 1
      BY <2>2, <2>4
    <3>2. work_buf[end + 1] = LF
      BY <2>1, <2>4 DEF EndsAt
    <3>3. work_buf[pos + (k + 1)] = file[Scanned + (k + 1)]
      <4> DEFINE j == k + 1
      <4>1. j \in 1..(limit - pos)
        BY <3>1
      <4> HIDE DEF j
      <4>2. work_buf[pos + j] = file[Scanned + j]
        BY <2>2, <4>1
      <4>3. QED
        BY <4>2 DEF j
    <3>4. QED
      BY <3>1, <3>2, <3>3
  <2>7. Newlines(Scanned)' = Newlines(Scanned + k + 1)
    BY <2>3, <2>4 DEF Newlines
  <2>8. line_no = Cardinality(Newlines(Scanned))
    BY <2>1, <2>2, <2>4 DEF LineNumbers
  <2> HIDE DEF k
  <2>9. QED
    BY <2>2, <2>3, <2>5, <2>6, <2>7, <2>8, OneMoreNewline
<1>5. QED
  BY <1>1, <1>2, <1>3, <1>4 DEF Next, Read

\* The line number of every record and diagnostic is the number of newlines
\* before the rest of the file, whatever was joined or refused on the way.
THEOREM LinesCounted == Spec => []LineNumbers
<1>1. Init => LineNumbers
  <2>1. ASSUME Init PROVE Newlines(Scanned) = {} /\ line_no = 0
    BY <2>1 DEF Init, Newlines, Scanned
  <2>2. QED
    BY <2>1, FS_EmptySet DEF LineNumbers
<1>2. QED
  BY <1>1, AlwaysInv, LineNumbersStep, PTL DEF Spec

-----------------------------------------------------------------------------
(* The reader implements the line-by-line one, for every file and every    *)
(* size of the buffers: a line taken out of the window is the next line of *)
(* the file (LineOfFile), a joined text is the concatenation of the lines  *)
(* it was joined from (JoinedText), reads and moves of the window are      *)
(* stutters, and the two "buffer is full" exits are GiveUp.                *)


\* The operators of Lines that the instance carries are those of this module.
LEMMA SameOperators ==
  /\ \A s : Feed!OddBackslashes(s) <=> OddBackslashes(s)
  /\ \A s : Feed!DropLast(s) = DropLast(s)
  /\ \A s, strip : Feed!StripCr(s, strip) = StripCr(s, strip)
  /\ \A s, lo, n : Feed!Slice(s, lo, n) = Slice(s, lo, n)
<1>1. \A s, lo, n : Feed!Slice(s, lo, n) = Slice(s, lo, n)
  BY DEF Feed!Slice, Slice
<1>2. \A s : Feed!DropLast(s) = DropLast(s)
  BY DEF Feed!DropLast, DropLast, Feed!Slice, Slice
<1>3. \A s, strip : Feed!StripCr(s, strip) = StripCr(s, strip)
  BY <1>2 DEF Feed!StripCr, StripCr
<1>4. \A s : Feed!OddBackslashes(s) <=> OddBackslashes(s)
  BY DEF Feed!OddBackslashes, OddBackslashes
<1>5. QED
  BY <1>1, <1>2, <1>3, <1>4

\* The empty slice.
LEMMA SliceZero == ASSUME NEW buf PROVE Slice(buf, 0, 0) = << >>
BY DEF Slice

LEMMA InitRefines == Init => Feed!Init
<1> SUFFICES ASSUME Init PROVE Feed!Init
  OBVIOUS
<1>1. pc = "read" /\ Scanned = 0
  BY DEF Init, Scanned
<1>2. Slice(join_buf, 0, join_len) = << >>
  BY SliceZero DEF Init
<1>3. QED
  BY <1>1, <1>2 DEF Init, Feed!Init

\* Taking a line out of the window takes the next line of the file.
LEMMA NextLineTakes ==
  ASSUME Inv, NEW end, NextLine(end)
  PROVE  /\ Scanned + (end - pos) \in 0..Len(file)
         /\ Feed!Take(Scanned + (end - pos))
         /\ Feed!Piece(Scanned + (end - pos)) = Piece(end)
         /\ (Feed!Terminated(Scanned + (end - pos)) <=> Found(end))
<1> DEFINE e == Scanned + (end - pos)
<1>1. pc = "scan" /\ pos < limit /\ EndsAt(end)
  BY DEF NextLine
<1>2. /\ end \in Nat /\ pos \in Nat /\ limit \in Nat /\ pos <= end /\ end <= limit
      /\ Scanned \in Nat /\ e <= Len(file) /\ Len(file) \in Nat
      /\ \A i \in 1..(limit - pos) : work_buf[pos + i] = file[Scanned + i]
      /\ end = limit => e = Len(file)
      /\ end < limit => e < Len(file)
      /\ Piece(end) = StripCr(Slice(file, Scanned, end - pos), strip_cr)
  BY <1>1, LineOfFile
<1>3. e \in Scanned..Len(file) /\ e \in 0..Len(file) /\ e - Scanned = end - pos
  BY <1>2
<1>4. (e < Len(file)) <=> (end < limit)
  BY <1>2
<1>5. ASSUME NEW i \in (Scanned + 1)..e
      PROVE  file[i] # LF
  <2>1. i - Scanned \in 1..(limit - pos) /\ Scanned + (i - Scanned) = i
    BY <1>2
  <2>2. pos + (i - Scanned) \in (pos + 1)..end
    BY <1>2
  <2>3. work_buf[pos + (i - Scanned)] = file[i]
    BY <1>2, <2>1
  <2>4. QED
    BY <1>1, <2>2, <2>3 DEF EndsAt
<1>6. ASSUME e < Len(file)
      PROVE  file[e + 1] = LF
  <2> DEFINE j == end - pos + 1
  <2>1. j \in 1..(limit - pos) /\ Scanned + j = e + 1 /\ pos + j = end + 1
    BY <1>2, <1>4, <1>6
  <2>2. work_buf[end + 1] = LF
    BY <1>1, <1>4, <1>6 DEF EndsAt
  <2> HIDE DEF j, e
  <2>3. work_buf[pos + j] = file[Scanned + j]
    BY <1>2, <2>1
  <2>4. QED
    BY <2>1, <2>2, <2>3
<1>7. Feed!EndsAt(e)
  BY <1>3, <1>5, <1>6 DEF Feed!EndsAt
<1>8. Feed!Piece(e) = Piece(end)
  <2>1. Feed!Piece(e) = StripCr(Slice(file, Scanned, e - Scanned), strip_cr)
    BY SameOperators DEF Feed!Piece
  <2> HIDE DEF e
  <2>2. QED
    BY <1>2, <1>3, <2>1
<1>9. Feed!Terminated(e) <=> Found(end)
  BY <1>4 DEF Feed!Terminated, Found
<1>10. Feed!Take(e)
  <2>1. Scanned < Len(file)
    BY <1>1, <1>2
  <2>2. e - Scanned <= WORK_BUF
    BY <1>2, <1>3, BufferSizes DEF Inv, TypeOK
  <2>3. Scanned' = IF end < limit THEN e + 1 ELSE Len(file)
    BY NextLineMoves
  <2>4. Scanned' = IF Feed!Terminated(e) THEN e + 1 ELSE e
    BY <1>2, <1>4, <2>3 DEF Feed!Terminated
  <2>5. pc' = pc /\ file' = file /\ strip_cr' = strip_cr /\ shell_cont' = shell_cont
        /\ line_no' = line_no + 1
    BY DEF NextLine, inputs
  <2> HIDE DEF e
  <2>6. QED
    BY <1>1, <1>7, <2>1, <2>2, <2>4, <2>5 DEF Feed!Take
<1>11. QED
  BY <1>3, <1>8, <1>9, <1>10

\* A line that is appended to the join buffer is appended to the partial line.
LEMMA AppendJoins ==
  ASSUME Inv, NEW end, AppendToJoin(end)
  PROVE  /\ Feed!Take(Scanned + (end - pos)) /\ shell_cont
         /\ Feed!Fits(Scanned + (end - pos))
         /\ Slice(join_buf, 0, join_len) \o Feed!Piece(Scanned + (end - pos)) = Joined(end)
         /\ (Feed!Continues(Scanned + (end - pos)) <=> OddBackslashes(Joined(end)) /\ Found(end))
<1> DEFINE e == Scanned + (end - pos)
<1>1. NextLine(end) /\ shell_cont /\ join_len + Len(Piece(end)) <= WORK_BUF
  BY DEF AppendToJoin
<1>2. Feed!Take(e) /\ Feed!Piece(e) = Piece(end) /\ (Feed!Terminated(e) <=> Found(end))
  BY <1>1, NextLineTakes
<1>3. Joined(end) = Slice(join_buf, 0, join_len) \o Piece(end)
  BY JoinedText
<1>4. join_len \in Nat
  BY BufferSizes DEF Inv, TypeOK
<1>5. Len(Slice(join_buf, 0, join_len)) = join_len
  BY <1>4, SliceLen
<1> HIDE DEF e
<1>6. Feed!Fits(e)
  BY <1>1, <1>2, <1>5 DEF Feed!Fits
<1>7. Feed!Continues(e) <=> OddBackslashes(Joined(end)) /\ Found(end)
  <2>1. Feed!Continues(e) <=>
          OddBackslashes(Slice(join_buf, 0, join_len) \o Feed!Piece(e)) /\ Feed!Terminated(e)
    BY SameOperators DEF Feed!Continues
  <2>2. QED
    BY <1>2, <1>3, <2>1
<1>8. QED
  BY <1>1, <1>2, <1>3, <1>6, <1>7 DEF e

\* Each scan step takes one line of the file in the same way.
LEMMA ScanRefines ==
  ASSUME Inv, NEW end, Scan(end)
  PROVE  Feed!Next
<1> DEFINE e == Scanned + (end - pos)
<1>1. NextLine(end)
  BY DEF Scan, FeedLine, JoinTooLong, JoinLine, FeedJoined, AppendToJoin
<1>2. /\ e \in 0..Len(file) /\ Feed!Take(e) /\ Feed!Piece(e) = Piece(end)
  BY <1>1, NextLineTakes
<1>3. join_len \in Nat /\ WORK_BUF \in Nat
  BY BufferSizes DEF Inv, TypeOK
<1>4. CASE FeedLine(end)
  <2>1. /\ ~shell_cont /\ join_buf' = join_buf /\ join_len' = join_len /\ too_long' = too_long
        /\ fed' = Append(fed, [text |-> Piece(end), no |-> line_no + 1])
    BY <1>4 DEF FeedLine, joining
  <2> HIDE DEF e
  <2>2. Feed!FeedLine(e)
    BY <1>2, <2>1 DEF Feed!FeedLine
  <2>3. QED
    BY <1>2, <2>2 DEF Feed!Next
<1>5. CASE JoinTooLong(end)
  <2>1. /\ shell_cont /\ join_len + Len(Piece(end)) > WORK_BUF
        /\ too_long' = too_long + 1 /\ join_len' = 0 /\ fed' = fed
    BY <1>5 DEF JoinTooLong
  <2>2. Slice(join_buf', 0, join_len') = << >>
    BY <2>1, SliceZero
  <2>3. Len(Slice(join_buf, 0, join_len)) = join_len
    BY <1>3, SliceLen
  <2>4. Len(Piece(end)) \in Nat
    BY <1>1, LineOfFile DEF NextLine
  <2> HIDE DEF e
  <2>5. ~Feed!Fits(e)
    BY <1>2, <1>3, <2>1, <2>3, <2>4 DEF Feed!Fits
  <2>6. Feed!DropJoined(e)
    BY <1>2, <2>1, <2>2, <2>5 DEF Feed!DropJoined
  <2>7. QED
    BY <1>2, <2>6 DEF Feed!Next
<1>6. CASE JoinLine(end)
  <2>1. /\ AppendToJoin(end) /\ OddBackslashes(Joined(end)) /\ Found(end)
        /\ join_len' = Len(Joined(end)) - 1 /\ fed' = fed /\ too_long' = too_long
    BY <1>6 DEF JoinLine, AppendToJoin
  <2>2. Feed!Take(e) /\ shell_cont /\ Feed!Fits(e) /\ Feed!Continues(e)
        /\ Slice(join_buf, 0, join_len) \o Feed!Piece(e) = Joined(end)
    BY <2>1, AppendJoins
  <2>3. Slice(join_buf', 0, join_len') = DropLast(Joined(end))
    <3>1. /\ Len(Joined(end)) = join_len + Len(Piece(end)) /\ Len(Joined(end)) \in 0..WORK_BUF
      BY <2>1, JoinedText
    <3>2. Len(Joined(end)) > 0
      <4>1. \E k \in 1..Len(Joined(end)) : TRUE
        BY <2>1 DEF OddBackslashes
      <4>2. QED
        BY <3>1, <4>1, <1>3
    <3>3. join_len + Len(Piece(end)) \in Nat
      BY <3>1, <1>3
    <3>4. \A i \in 1..(join_len + Len(Piece(end))) : Joined(end)[i] = join_buf'[0 + i]
      BY <3>3, SliceLen DEF Joined
    <3> DEFINE n == Len(Joined(end)) - 1
    <3>5. n \in Nat
      BY <1>3, <3>1, <3>2
    <3>6. \A i \in 1..n : join_buf'[0 + i] = Joined(end)[0 + i]
      <4>1. ASSUME NEW i \in 1..n PROVE join_buf'[0 + i] = Joined(end)[0 + i]
        <5>1. i \in 1..(join_len + Len(Piece(end))) /\ 0 + i = i
          BY <1>3, <3>1
        <5>2. QED
          BY <3>4, <5>1
      <4>2. QED
        BY <4>1
    <3>7. Slice(join_buf', 0, n) = Slice(Joined(end), 0, n)
      <4> HIDE DEF n
      <4>1. QED
        BY <3>5, <3>6, SliceEqual
    <3>8. QED
      BY <2>1, <3>7 DEF DropLast
  <2> HIDE DEF e
  <2>4. Feed!JoinLine(e)
    BY <2>1, <2>2, <2>3, SameOperators DEF Feed!JoinLine
  <2>5. QED
    BY <1>2, <2>4 DEF Feed!Next
<1>7. CASE FeedJoined(end)
  <2>1. /\ AppendToJoin(end) /\ ~(OddBackslashes(Joined(end)) /\ Found(end))
        /\ fed' = Append(fed, [text |-> Joined(end), no |-> line_no + 1])
        /\ join_len' = 0 /\ too_long' = too_long
    BY <1>7 DEF FeedJoined, AppendToJoin
  <2>2. Feed!Take(e) /\ shell_cont /\ Feed!Fits(e) /\ ~Feed!Continues(e)
        /\ Slice(join_buf, 0, join_len) \o Feed!Piece(e) = Joined(end)
    BY <2>1, AppendJoins
  <2>3. Slice(join_buf', 0, join_len') = << >>
    BY <2>1, SliceZero
  <2> HIDE DEF e
  <2>4. Feed!FeedJoined(e)
    BY <2>1, <2>2, <2>3 DEF Feed!FeedJoined
  <2>5. QED
    BY <1>2, <2>4 DEF Feed!Next
<1>8. QED
  BY <1>4, <1>5, <1>6, <1>7 DEF Scan

\* Running into the end of the window gives the rest of the file up.
LEMMA TooLongRefines ==
  ASSUME Inv, ReadTooLong \/ ReadFull
  PROVE  Feed!GiveUp
<1>1. PICK k \in Nat :
         /\ k > WORK_BUF - READ_BUF /\ WORK_BUF - READ_BUF \in Nat
         /\ off - tail \in Nat /\ off - tail + k <= Len(file) /\ Len(file) \in Nat
         /\ \A i \in 1..k : file[off - tail + i] # LF
  BY LongRun
<1>2. /\ pc = "read" /\ pc' = "done" /\ too_long' = too_long + 1
      /\ file' = file /\ strip_cr' = strip_cr /\ shell_cont' = shell_cont
      /\ join_buf' = join_buf /\ join_len' = join_len /\ line_no' = line_no /\ fed' = fed
  BY DEF ReadTooLong, ReadFull, Refill, inputs, joining
<1>3. Scanned = off - tail /\ Scanned' = Len(file)
  BY <1>2 DEF Scanned
<1> DEFINE n == WORK_BUF - READ_BUF
<1>4. /\ Scanned + n < Len(file)
      /\ \A i \in (Scanned + 1)..(Scanned + n + 1) : file[i] # LF
  <2>1. ASSUME NEW i \in (Scanned + 1)..(Scanned + n + 1) PROVE file[i] # LF
    <3>1. i - Scanned \in 1..k /\ Scanned + (i - Scanned) = i
      BY <1>1, <1>3
    <3>2. QED
      BY <1>1, <1>3, <3>1
  <2>2. QED
    BY <1>1, <1>3, <2>1
<1>5. QED
  BY <1>2, <1>3, <1>4 DEF Feed!GiveUp

\* Every step of the reader is a step of the line-by-line one or a stutter.
LEMMA NextRefines == Inv /\ [Next]_vars => [Feed!Next]_Feed!vars
<1> SUFFICES ASSUME Inv, [Next]_vars PROVE Feed!Next \/ UNCHANGED Feed!vars
  OBVIOUS
<1>1. CASE UNCHANGED vars
  BY <1>1 DEF vars, inputs, window, joining, Feed!vars, Scanned
<1>2. CASE ReadTooLong \/ ReadFull
  BY <1>2, TooLongRefines DEF Feed!Next
<1>3. CASE ReadNothing \/ ScanEof
  <2>1. /\ pc # "done" /\ pc' = "done" /\ file' = file /\ strip_cr' = strip_cr
        /\ shell_cont' = shell_cont /\ join_buf' = join_buf /\ join_len' = join_len
        /\ line_no' = line_no /\ fed' = fed /\ too_long' = too_long
    BY <1>3 DEF ReadNothing, Refill, ScanEof, inputs, joining
  <2>2. Scanned' = Len(file)
    BY <2>1 DEF Scanned
  <2>3. Scanned = Len(file)
    <3>1. CASE ReadNothing
      <4>1. pc = "read" /\ tail + Nr = 0 /\ tail \in Nat /\ Nr \in Nat /\ off \in Nat
            /\ (Nr = 0 => off = Len(file))
        BY <3>1, NrType, BufferSizes DEF ReadNothing, Refill, Inv, TypeOK
      <4>2. QED
        BY <4>1 DEF Scanned
    <3>2. CASE ScanEof
      <4>1. pc = "scan" /\ pos = limit /\ off = Len(file) /\ limit = filled
        BY <3>2 DEF ScanEof, Inv, WindowInv
      <4>2. filled \in Nat /\ off \in Nat
        BY BufferSizes DEF Inv, TypeOK
      <4>3. QED
        BY <4>1, <4>2 DEF Scanned
    <3>3. QED
      BY <1>3, <3>1, <3>2
  <2>4. Feed!Finish
    BY <2>1, <2>2, <2>3 DEF Feed!Finish
  <2>5. QED
    BY <2>4 DEF Feed!Next
<1>4. CASE ReadEof \/ ReadLines \/ ReadPartOfLine \/ ShiftWindow
  <2>1. Scanned' = Scanned
    BY <1>4, ScannedKept, ShiftInv
  <2>2. /\ pc # "done" /\ pc' # "done" /\ file' = file /\ strip_cr' = strip_cr
        /\ shell_cont' = shell_cont /\ join_buf' = join_buf /\ join_len' = join_len
        /\ line_no' = line_no /\ fed' = fed /\ too_long' = too_long
    BY <1>4 DEF ReadEof, ReadLines, ReadPartOfLine, Refill, ShiftWindow, inputs, joining
  <2>3. QED
    BY <2>1, <2>2 DEF Feed!vars
<1>5. CASE \E end \in 0..WORK_BUF : Scan(end)
  BY <1>5, ScanRefines
<1>6. QED
  BY <1>1, <1>2, <1>3, <1>4, <1>5 DEF Next, Read

\* Reading through a window of any size hands the record parser the same
\* lines with the same numbers as taking the file line by line
\* (envfile.c:497-648), so everything above the reader can be reasoned about
\* without its buffers.
THEOREM ReaderRefinesLines == Spec => FeedsLines
<1>1. QED
  BY InitRefines, NextRefines, AlwaysInv, PTL DEF Spec, FeedsLines, Feed!Spec
=============================================================================
