--------------------------- MODULE EnvfileCProofs ---------------------------
(***************************************************************************)
(* What holds of every run of the C program, whatever the files, the sizes *)
(* of the buffers, the settings and the allocations that fail; and that a  *)
(* run which is meant to do what the reference does, does it.              *)
(***************************************************************************)
EXTENDS EnvfileC, LineProofs

-----------------------------------------------------------------------------
(* What the backend returns. *)

Statuses == Faults \cup {"SKIP", "OK"}

LEMMA ParseStatus == ASSUME NEW s PROVE Parse(s).status \in Statuses
<1>1. {"SKIP", "OK", "VALUE_INVALID_CHAR", "VALUE_LEADING_WHITESPACE", "NO_EQUALS", "EMPTY_KEY"} \subseteq Statuses
  BY DEF Statuses, Faults
<1>2. \A k : KeyFault(k) \in Statuses
  BY DEF KeyFault, Statuses, Faults
<1>3. \A k, v : ShellValue(k, v).status \in Statuses
  BY DEF ShellValue, NoRecord, FillRecord, Statuses, Faults
<1>4. ParseShell(s).status \in Statuses
  BY <1>1, <1>2, <1>3 DEF ParseShell, NoRecord
<1>5. ParseNative(s).status \in Statuses
  BY <1>1 DEF ParseNative, NoRecord, FillRecord
<1>6. QED
  BY <1>4, <1>5 DEF Parse

\* A record consists of bytes of its line.
LEMMA ParseType ==
  ASSUME NEW s \in Seq(Byte), Parse(s).status = "OK"
  PROVE  Parse(s).key \in Seq(Byte) /\ Parse(s).value \in Seq(Byte)
<1>1. ~Has(s, NUL)
  BY DEF Parse, ParseShell, ParseNative, NoRecord
<1>2. Parse(s) = AwkVerdict(opt.native, s)
  <2>1. CASE opt.native
    <3>1. AwkVerdict(opt.native, s) = AwkVerdict(TRUE, s)
      BY <2>1 DEF AwkVerdict, Fault, AwkKind, Parsed
    <3>2. QED
      BY <1>1, <2>1, <3>1, CNativeAsAwk DEF Parse
  <2>2. CASE ~opt.native
    <3>1. AwkVerdict(opt.native, s) = AwkVerdict(FALSE, s)
      BY <2>2 DEF AwkVerdict, Fault, AwkKind, Parsed
    <3>2. QED
      BY <1>1, <2>2, <3>1, CShellAsAwk DEF Parse, OtherFaultFirst
  <2>3. QED
    BY <2>1, <2>2
<1>3. "OK" \notin Codes /\ Fault(opt.native, s) \in Codes
  BY FaultCodes DEF Codes, Faults
<1>4. ~NotARecord(s) /\ Fault(opt.native, s) = "NONE"
  BY <1>2, <1>3 DEF AwkVerdict, NoRecord
<1>5. Has(s, EQ)
  BY <1>4, FaultCodes
<1>6. Parse(s) = FillRecord(Key(s), Parsed(opt.native, s), AwkKind(opt.native, s))
  BY <1>2, <1>4 DEF AwkVerdict
<1>7. Key(s) \in Seq(Byte) /\ Parsed(opt.native, s) \in Seq(Byte)
  BY <1>5, SidesType, ParsedType
<1>8. QED
  BY <1>6, <1>7 DEF FillRecord

-----------------------------------------------------------------------------
(* What the variables hold. *)

Reports == Faults \cup {"CANNOT_OPEN", "FILE_NUL", "FILE_BOM", "OUT_OF_MEMORY", "LINE_TOO_LONG", "UNBOUND_REF"}
Diagnostic == [code : Reports, file : Nat, line : Nat]
Line == [key : Seq(Byte), value : Seq(Byte), file : Nat, line : Nat]
Counts == [checked : Nat, errors : Nat]

DataInv ==
  /\ opt \in Options /\ args \in Args /\ environ \in Environs
  /\ pc \in {"start", "file", "scan", "exit"} /\ n \in Nat \ {0}
  /\ phase \in {"busy", "done"}
  /\ file \in Seq(Byte) /\ at \in 0..Len(file) /\ partial \in Seq(Byte) /\ line_no \in Nat
  /\ fed \in Seq([text : Seq(Byte), no : Nat])
  /\ \A k \in DOMAIN env : env[k] \in Seq(Byte)
  /\ counts \in Counts /\ total \in Counts
  /\ out \in Seq(Line) /\ diags \in Seq(Diagnostic)

LEMMA PieceType ==
  ASSUME DataInv, NEW end \in at..Len(file)
  PROVE  Feed!Piece(end) \in Seq(Byte)
<1> DEFINE s == Feed!Slice(file, at, end - at)
<1>1. file \in Seq(Byte) /\ at \in 0..Len(file) /\ Len(file) \in Nat
  BY DEF DataInv
<1>2. s = [i \in 1..(end - at) |-> file[at + i]]
  BY DEF Feed!Slice
<1>3. \A i \in 1..(end - at) : file[at + i] \in Byte
  BY <1>1
<1>4. end - at \in Nat
  BY <1>1
<1>5. s \in Seq(Byte)
  BY <1>2, <1>3, <1>4
<1> HIDE DEF s
<1>6. Feed!DropLast(s) \in Seq(Byte) \/ s = << >>
  <2>1. CASE s # << >>
    <3>1. Len(s) \in Nat \ {0}
      BY <1>5, <2>1
    <3>2. Feed!DropLast(s) = [i \in 1..(Len(s) - 1) |-> s[0 + i]]
      BY DEF Feed!DropLast, Feed!Slice
    <3>3. \A i \in 1..(Len(s) - 1) : s[0 + i] \in Byte
      BY <1>5, <3>1
    <3>4. QED
      BY <3>1, <3>2, <3>3
  <2>2. QED
    BY <2>1
<1>7. QED
  BY <1>5, <1>6 DEF Feed!Piece, Feed!StripCr, s
\* The lines of a file from each of its positions.
RestOf(bytes) ==
  CHOOSE f \in [0..Len(bytes) -> Seq(Seq(Byte))] :
    SplitLines(bytes) = f[0] /\ \A p \in 0..Len(bytes) : f[p] = LinesFrom(bytes, f, p)

Remaining(p) == Len(RestOf(file)[p])

LEMMA RestIs ==
  ASSUME NEW bytes \in Seq(Byte)
  PROVE  /\ RestOf(bytes) \in [0..Len(bytes) -> Seq(Seq(Byte))]
         /\ SplitLines(bytes) = RestOf(bytes)[0]
         /\ \A p \in 0..Len(bytes) : RestOf(bytes)[p] = LinesFrom(bytes, RestOf(bytes), p)
<1>1. \E f \in [0..Len(bytes) -> Seq(Seq(Byte))] :
        SplitLines(bytes) = f[0] /\ \A p \in 0..Len(bytes) : f[p] = LinesFrom(bytes, f, p)
  BY SplitLinesRest
<1>2. QED
  BY <1>1 DEF RestOf

\* No line is left at the end of a file, and a line that is taken is one of them.
LEMMA NoneRemains == ASSUME DataInv PROVE Remaining(Len(file)) = 0
<1>1. file \in Seq(Byte) /\ Len(file) \in 0..Len(file)
  BY DEF DataInv
<1>2. RestOf(file)[Len(file)] = << >>
  BY <1>1, RestIs DEF LinesFrom
<1>3. QED
  BY <1>2 DEF Remaining

LEMMA Taken ==
  ASSUME DataInv, NEW end, Feed!Take(end)
  PROVE  /\ end \in at..Len(file) /\ at < Len(file) /\ at' \in 0..Len(file) /\ line_no' = line_no + 1
         /\ file' = file /\ phase = "busy" /\ phase' = phase /\ shell_cont' = shell_cont
         /\ Remaining(at') \in Nat /\ Remaining(at) = 1 + Remaining(at')
<1> DEFINE rest == RestOf(file)
           nl == Index(After(file, at), LF)
           next == IF end < Len(file) THEN end + 1 ELSE end
<1>1. file \in Seq(Byte) /\ at \in 0..Len(file) /\ Len(file) \in Nat
  BY DEF DataInv
<1>2. /\ phase = "busy" /\ at < Len(file) /\ end \in at..Len(file) /\ at' = next
      /\ line_no' = line_no + 1 /\ UNCHANGED <<phase, file, strip_cr, shell_cont>>
      /\ \A i \in (at + 1)..end : file[i] # LF
      /\ end < Len(file) => file[end + 1] = LF
  BY DEF Feed!Take, Feed!EndsAt, Feed!Terminated
<1>3. next \in 0..Len(file)
  BY <1>1, <1>2
<1>4. /\ rest \in [0..Len(file) -> Seq(Seq(Byte))]
      /\ rest[at] = LinesFrom(file, rest, at) /\ rest[Len(file)] = LinesFrom(file, rest, Len(file))
  BY <1>1, RestIs
<1>5. nl = IF end < Len(file) THEN end - at + 1 ELSE 0
  <2> DEFINE s == After(file, at)
  <2>1. s \in Seq(Byte) /\ Len(s) = Len(file) - at /\ \A i \in 1..(Len(file) - at) : s[i] = file[at + i]
    BY <1>1, AfterType
  <2>2. /\ Index(s, LF) \in 0..Len(s) /\ (Index(s, LF) = 0 <=> ~Has(s, LF))
        /\ Index(s, LF) > 0 => s[Index(s, LF)] = LF /\ \A j \in 1..(Index(s, LF) - 1) : s[j] # LF
    BY <2>1, IndexFinds
  <2> HIDE DEF s
  <2>3. \A i \in 1..(end - at) : s[i] # LF
    <3>1. \A i \in 1..(end - at) : at + i \in (at + 1)..end /\ i \in 1..(Len(file) - at)
      BY <1>1, <1>2
    <3>2. QED
      BY <1>2, <2>1, <3>1
  <2>4. CASE end < Len(file)
    <3>1. end - at + 1 \in 1..Len(s) /\ end - at + 1 \in 1..(Len(file) - at) /\ at + (end - at + 1) = end + 1
      BY <1>1, <1>2, <2>1, <2>4
    <3>2. s[end - at + 1] = LF
      BY <1>2, <2>1, <2>4, <3>1
    <3>3. Has(s, LF)
      BY <3>1, <3>2 DEF Has
    <3>4. Index(s, LF) \in 1..Len(s) /\ s[Index(s, LF)] = LF
      BY <2>2, <3>3
    <3>5. ~(Index(s, LF) \in 1..(end - at))
      BY <2>3, <3>4
    <3>6. ~(end - at + 1 \in 1..(Index(s, LF) - 1))
      BY <2>2, <3>2, <3>4
    <3>7. Index(s, LF) = end - at + 1
      BY <1>1, <1>2, <3>1, <3>4, <3>5, <3>6
    <3>8. QED
      BY <2>4, <3>7 DEF s
  <2>5. CASE ~(end < Len(file))
    <3>1. end - at = Len(s)
      BY <1>1, <1>2, <2>1, <2>5
    <3>2. ~Has(s, LF)
      BY <2>3, <3>1 DEF Has
    <3>3. QED
      BY <2>2, <2>5, <3>2 DEF s
  <2>6. QED
    BY <2>4, <2>5
<1> HIDE DEF rest, nl
<1>6. rest[next] \in Seq(Seq(Byte)) /\ Len(rest[next]) \in Nat
  BY <1>3, <1>4
<1>7. Len(rest[at]) = 1 + Len(rest[next])
  <2>1. CASE end < Len(file)
    <3>1. nl # 0 /\ at + nl = next /\ at # Len(file)
      BY <1>1, <1>2, <1>5, <2>1
    <3>2. rest[at] = <<SubSeq(file, at + 1, at + nl - 1)>> \o rest[next]
      BY <1>4, <3>1 DEF LinesFrom, nl
    <3>3. QED
      BY <1>6, <3>2
  <2>2. CASE ~(end < Len(file))
    <3>1. nl = 0 /\ next = Len(file) /\ at # Len(file)
      BY <1>1, <1>2, <1>5, <2>2
    <3>2. rest[at] = <<After(file, at)>> /\ rest[next] = << >>
      BY <1>4, <3>1 DEF LinesFrom, nl
    <3>3. QED
      BY <3>2
  <2>3. QED
    BY <2>1, <2>2
<1>8. QED
  BY <1>1, <1>2, <1>3, <1>6, <1>7 DEF Remaining, rest

\* A line that is handed on is made of bytes of the file.
LEMMA LineHandedOn ==
  ASSUME DataInv, ScanLine
  PROVE  /\ rec.text \in Seq(Byte) /\ rec.no \in Nat
         /\ fed' \in Seq([text : Seq(Byte), no : Nat]) /\ partial' \in Seq(Byte) /\ line_no' \in Nat
         /\ at' \in 0..Len(file) /\ UNCHANGED <<file, phase>>
         /\ pc = "scan" /\ phase = "busy"
         /\ line_no' + Remaining(at') = line_no + Remaining(at)
<1>1. PICK end : Feed!FeedLine(end) \/ Feed!FeedJoined(end)
  BY DEF ScanLine
<1>2. Feed!Take(end)
  BY <1>1 DEF Feed!FeedLine, Feed!FeedJoined
<1>3. /\ end \in at..Len(file) /\ at' \in 0..Len(file) /\ line_no' = line_no + 1
      /\ file' = file /\ phase = "busy" /\ phase' = phase
      /\ Remaining(at') \in Nat /\ Remaining(at) = 1 + Remaining(at')
  BY <1>2, Taken
<1>4. Feed!Piece(end) \in Seq(Byte)
  BY <1>3, PieceType
<1>5. partial \in Seq(Byte) /\ line_no \in Nat /\ fed \in Seq([text : Seq(Byte), no : Nat])
  BY DEF DataInv
<1>6. \E text \in Seq(Byte) : fed' = Append(fed, [text |-> text, no |-> line_no + 1]) /\ partial' \in Seq(Byte)
  <2>1. CASE Feed!FeedLine(end)
    BY <1>4, <1>5, <2>1 DEF Feed!FeedLine
  <2>2. CASE Feed!FeedJoined(end)
    <3>1. partial \o Feed!Piece(end) \in Seq(Byte) /\ << >> \in Seq(Byte)
      BY <1>4, <1>5
    <3>2. QED
      BY <2>2, <3>1 DEF Feed!FeedJoined
  <2>3. QED
    BY <1>1, <2>1, <2>2
<1>7. PICK text \in Seq(Byte) : fed' = Append(fed, [text |-> text, no |-> line_no + 1]) /\ partial' \in Seq(Byte)
  BY <1>6
<1>8. [text |-> text, no |-> line_no + 1] \in [text : Seq(Byte), no : Nat]
  BY <1>5
<1>9. rec = [text |-> text, no |-> line_no + 1] /\ fed' \in Seq([text : Seq(Byte), no : Nat])
  BY <1>5, <1>7, <1>8 DEF rec
<1>10. QED
  BY <1>3, <1>5, <1>7, <1>9 DEF ScanLine
-----------------------------------------------------------------------------
(* What a line leaves in the counts, on the two output streams and in env. *)

LineStep ==
  SkipLine \/ NormalizeLine \/ RejectLine \/ ValidateLine \/ DumpLine \/ DeltaLine \/ DeltaMemory

Prints == opt.action \in {"normalize", "dump", "delta"}

\* c records are checked, o printed, e errors counted and reported.
Leaves(c, o, e) ==
  /\ c \in {0, 1} /\ o \in {0, 1} /\ e \in Nat
  /\ counts' = [checked |-> counts.checked + c, errors |-> counts.errors + e]
  /\ diags' \in Seq(Diagnostic) /\ Len(diags') = Len(diags) + e
  /\ out' \in Seq(Line) /\ Len(out') = Len(out) + o
  /\ \A k \in DOMAIN env' : env'[k] \in Seq(Byte)
  /\ Prints /\ e = 0 => o = c

LEMMA Repeated ==
  ASSUME NEW S, NEW x \in S, NEW k \in Nat
  PROVE  [u \in 1..k |-> x] \in Seq(S) /\ Len([u \in 1..k |-> x]) = k
OBVIOUS

LEMMA OneMore ==
  ASSUME NEW S, NEW s \in Seq(S), NEW x \in S
  PROVE  Append(s, x) \in Seq(S) /\ Len(Append(s, x)) = Len(s) + 1
OBVIOUS

LEMMA MoreOf ==
  ASSUME NEW S, NEW s \in Seq(S), NEW t \in Seq(S)
  PROVE  s \o t \in Seq(S) /\ Len(s \o t) = Len(s) + Len(t)
OBVIOUS

LEMMA Diagnosed ==
  ASSUME DataInv, ScanLine, NEW code \in Reports
  PROVE  Diag(code) \in Diagnostic
BY LineHandedOn DEF Diag, Diagnostic, DataInv

LEMMA NothingLeft ==
  ASSUME DataInv, UNCHANGED <<env, counts, out, diags>>
  PROVE  Leaves(0, 0, 0)
BY DEF DataInv, Leaves, Counts

LEMMA AcceptedType ==
  ASSUME DataInv, Accept
  PROVE  /\ Parse(rec.text).key \in Seq(Byte) /\ Parse(rec.text).value \in Seq(Byte)
         /\ Resolve(Parse(rec.text)) \in Results(Byte)
<1> DEFINE r == Parse(rec.text)
<1>1. r.key \in Seq(Byte) /\ r.value \in Seq(Byte)
  BY LineHandedOn, ParseType DEF Accept
<1>2. \A k \in DOMAIN env : env[k] \in Seq(Byte)
  BY DEF DataInv
<1> HIDE DEF r
<1>3. Subst(r.value, env) \in Results(Byte)
  BY <1>1, <1>2, SubstType
<1>4. Literally(r.value) \in Results(Byte)
  BY <1>1 DEF Literally, Results
<1>5. Resolve(r) \in Results(Byte)
  BY <1>3, <1>4 DEF Resolve
<1>6. QED
  BY <1>1, <1>5 DEF r

LEMMA NormalizeLeaves ==
  ASSUME DataInv, NormalizeLine
  PROVE  \E c, o, e \in Nat : Leaves(c, o, e)
<1> DEFINE s == rec.text
           eq == Index(s, EQ)
<1>1. ScanLine /\ env' = env
  BY DEF NormalizeLine
<1>2. s \in Seq(Byte) /\ rec.no \in Nat /\ n \in Nat
  BY <1>1, LineHandedOn DEF DataInv
<1>3. \A k \in DOMAIN env' : env'[k] \in Seq(Byte)
  BY <1>1 DEF DataInv
<1>4. out \in Seq(Line) /\ diags \in Seq(Diagnostic) /\ counts \in Counts
  BY DEF DataInv
<1>5. CASE eq = 0
  <2>1. "NO_EQUALS" \in Reports
    BY DEF Reports, Faults
  <2>2. Diag("NO_EQUALS") \in Diagnostic
    BY <1>1, <2>1, Diagnosed
  <2>3. counts' = Errors(1) /\ diags' = Append(diags, Diag("NO_EQUALS")) /\ out' = out
    BY <1>5 DEF NormalizeLine
  <2>4. diags' \in Seq(Diagnostic) /\ Len(diags') = Len(diags) + 1
    BY <1>4, <2>2, <2>3, OneMore
  <2>5. Leaves(1, 0, 1)
    BY <1>3, <1>4, <2>3, <2>4 DEF Leaves, Errors, Counts
  <2>6. QED
    BY <2>5
<1>6. CASE eq # 0
  <2> DEFINE x == Shown(SubSeq(s, 1, eq - 1), After(s, eq))
  <2>1. Has(s, EQ)
    BY <1>2, <1>6, IndexFinds
  <2>2. SubSeq(s, 1, eq - 1) \in Seq(Byte) /\ After(s, eq) \in Seq(Byte)
    BY <1>2, <2>1, SidesType DEF Key, Value
  <2>3. x \in Line
    BY <1>2, <2>2 DEF Shown, Line
  <2>4. counts' = Errors(0) /\ diags' = diags /\ out' = Append(out, x)
    BY <1>6 DEF NormalizeLine
  <2> HIDE DEF x
  <2>5. out' \in Seq(Line) /\ Len(out') = Len(out) + 1
    BY <1>4, <2>3, <2>4, OneMore
  <2>6. Leaves(1, 1, 0)
    BY <1>3, <1>4, <2>4, <2>5 DEF Leaves, Errors, Counts
  <2>7. QED
    BY <2>6
<1>7. QED
  BY <1>5, <1>6

LEMMA RejectLeaves == ASSUME DataInv, RejectLine PROVE Leaves(1, 0, 1)
<1> DEFINE code == Parse(rec.text).status
<1>1. ScanLine /\ counts' = Errors(1) /\ diags' = Append(diags, Diag(code)) /\ env' = env /\ out' = out
  BY DEF RejectLine
<1>2. code \in Reports
  <2>1. code \in Statuses \ {"SKIP", "OK"}
    BY ParseStatus DEF RejectLine
  <2>2. QED
    BY <2>1 DEF Statuses, Reports
<1> HIDE DEF code
<1>3. diags' \in Seq(Diagnostic) /\ Len(diags') = Len(diags) + 1
  BY <1>1, <1>2, Diagnosed, OneMore DEF DataInv
<1>4. QED
  BY <1>1, <1>3 DEF DataInv, Leaves, Errors, Counts

LEMMA DumpLeaves == ASSUME DataInv, DumpLine PROVE Leaves(1, 1, 0)
<1> DEFINE x == Shown(Parse(rec.text).key, Parse(rec.text).value)
<1>1. ScanLine /\ Accept /\ counts' = Errors(0) /\ diags' = diags /\ env' = env /\ out' = Append(out, x)
  BY DEF DumpLine, Accept
<1>2. x \in Line
  BY <1>1, AcceptedType, LineHandedOn DEF Shown, Line, DataInv
<1> HIDE DEF x
<1>3. out' \in Seq(Line) /\ Len(out') = Len(out) + 1
  BY <1>1, <1>2, OneMore DEF DataInv
<1>4. QED
  BY <1>1, <1>3 DEF DataInv, Leaves, Errors, Counts

\* The reports of an unbound reference, or of memory that ran out.
LEMMA ManyDiagnosed ==
  ASSUME DataInv, ScanLine, NEW k \in Nat
  PROVE  /\ Unbound(k) \in Seq(Diagnostic) /\ Len(Unbound(k)) = k
         /\ LET memory == [u \in 1..k |-> [code |-> "OUT_OF_MEMORY", file |-> n, line |-> 0]]
            IN memory \in Seq(Diagnostic) /\ Len(memory) = k
<1>1. "UNBOUND_REF" \in Reports /\ "OUT_OF_MEMORY" \in Reports
  BY DEF Reports
<1>2. Diag("UNBOUND_REF") \in Diagnostic
  BY <1>1, Diagnosed
<1>3. [code |-> "OUT_OF_MEMORY", file |-> n, line |-> 0] \in Diagnostic
  BY <1>1 DEF Diagnostic, DataInv
<1>4. QED
  BY <1>2, <1>3, Repeated DEF Unbound

LEMMA DeltaLeaves ==
  ASSUME DataInv, DeltaLine
  PROVE  \E c, o, e \in Nat : Leaves(c, o, e)
<1> DEFINE key == Parse(rec.text).key
           res == Resolve(Parse(rec.text))
           x == Shown(key, res.text)
<1>1. /\ ScanLine /\ Accept /\ counts' = Errors(res.unbound) /\ diags' = diags \o Unbound(res.unbound)
      /\ env' = [k \in DOMAIN env \cup {key} |-> IF k = key THEN res.text ELSE env[k]]
      /\ out' = IF opt.action = "delta" THEN Append(out, x) ELSE out
  BY DEF DeltaLine, Accept
<1>2. key \in Seq(Byte) /\ res.text \in Seq(Byte) /\ res.unbound \in Nat
  BY <1>1, AcceptedType DEF Results
<1>3. x \in Line
  BY <1>1, <1>2, LineHandedOn DEF Shown, Line, DataInv
<1> HIDE DEF key, res, x
<1>4. diags' \in Seq(Diagnostic) /\ Len(diags') = Len(diags) + res.unbound
  <2>1. Unbound(res.unbound) \in Seq(Diagnostic) /\ Len(Unbound(res.unbound)) = res.unbound
    BY <1>1, <1>2, ManyDiagnosed
  <2>2. QED
    BY <1>1, <2>1, MoreOf DEF DataInv
<1>5. \A k \in DOMAIN env' : env'[k] \in Seq(Byte)
  BY <1>1, <1>2 DEF DataInv
<1>6. CASE opt.action = "delta"
  <2>1. out' \in Seq(Line) /\ Len(out') = Len(out) + 1
    BY <1>1, <1>3, <1>6, OneMore DEF DataInv
  <2>2. Leaves(1, 1, res.unbound)
    BY <1>1, <1>2, <1>4, <1>5, <2>1 DEF Leaves, Errors
  <2>3. QED
    BY <1>2, <2>2
<1>7. CASE opt.action # "delta"
  <2>1. ~Prints /\ out' = out
    BY <1>1, <1>7 DEF Prints, DeltaLine, Seeds
  <2>2. Leaves(1, 0, res.unbound)
    BY <1>1, <1>2, <1>4, <1>5, <2>1 DEF Leaves, Errors, DataInv
  <2>3. QED
    BY <1>2, <2>2
<1>8. QED
  BY <1>6, <1>7

LEMMA DeltaMemoryLeaves ==
  ASSUME DataInv, DeltaMemory
  PROVE  \E c, o, e \in Nat : Leaves(c, o, e)
<1> DEFINE memory(k) == [u \in 1..k |-> [code |-> "OUT_OF_MEMORY", file |-> n, line |-> 0]]
<1>1. ScanLine /\ Accept /\ env' = env /\ out' = out
  BY DEF DeltaMemory, Accept
<1>2. Resolve(Parse(rec.text)).unbound \in Nat
  BY <1>1, AcceptedType DEF Results
<1>3. PICK unbound \in 0..Resolve(Parse(rec.text)).unbound, k \in {1, 2} :
        counts' = Errors(unbound + k) /\ diags' = diags \o Unbound(unbound) \o memory(k)
  BY DEF DeltaMemory
<1>4. unbound \in Nat /\ k \in Nat /\ k # 0
  BY <1>2
<1>5. /\ Unbound(unbound) \in Seq(Diagnostic) /\ Len(Unbound(unbound)) = unbound
      /\ memory(k) \in Seq(Diagnostic) /\ Len(memory(k)) = k
  BY <1>1, <1>4, ManyDiagnosed
<1> HIDE DEF memory
<1>6. /\ diags \o Unbound(unbound) \in Seq(Diagnostic)
      /\ Len(diags \o Unbound(unbound)) = Len(diags) + unbound
  BY <1>5, MoreOf DEF DataInv
<1>7. diags' \in Seq(Diagnostic) /\ Len(diags') = Len(diags) + unbound + k
  BY <1>3, <1>5, <1>6, MoreOf
<1>8. Len(diags) \in Nat
  BY DEF DataInv
<1>9. Len(diags') = Len(diags) + (unbound + k) /\ unbound + k \in Nat /\ unbound + k # 0
  BY <1>4, <1>7, <1>8
<1>10. Leaves(1, 0, unbound + k)
  BY <1>1, <1>3, <1>7, <1>9 DEF Leaves, Errors, DataInv
<1>11. QED
  BY <1>9, <1>10

LEMMA LineLeaves ==
  ASSUME DataInv, LineStep
  PROVE  ScanLine /\ \E c, o, e \in Nat : Leaves(c, o, e)
<1>1. CASE SkipLine
  BY <1>1, NothingLeft DEF SkipLine
<1>2. CASE NormalizeLine
  BY <1>2, NormalizeLeaves DEF NormalizeLine
<1>3. CASE RejectLine
  BY <1>3, RejectLeaves DEF RejectLine
<1>4. CASE ValidateLine
  <2>1. ScanLine /\ ~Prints /\ counts' = Errors(0) /\ UNCHANGED <<env, out, diags>>
    BY <1>4 DEF ValidateLine, Accept, Prints
  <2>2. Leaves(1, 0, 0)
    BY <2>1 DEF DataInv, Leaves, Errors, Counts
  <2>3. QED
    BY <2>1, <2>2
<1>5. CASE DumpLine
  BY <1>5, DumpLeaves DEF DumpLine, Accept
<1>6. CASE DeltaLine
  BY <1>6, DeltaLeaves DEF DeltaLine, Accept
<1>7. CASE DeltaMemory
  BY <1>7, DeltaMemoryLeaves DEF DeltaMemory, Accept
<1>8. QED
  BY <1>1, <1>2, <1>3, <1>4, <1>5, <1>6, <1>7 DEF LineStep
-----------------------------------------------------------------------------
(* The invariant. *)

\* Errors are counted as they are reported; as long as there is none, what was
\* checked was printed, and the lines taken and those that remain of the file
\* are all it has.  Between two files nothing is counted.
CountInv ==
  /\ total.errors + counts.errors = Len(diags)
  /\ Prints /\ total.errors + counts.errors = 0 => Len(out) = total.checked + counts.checked
  /\ pc # "scan" => counts = Zero
  /\ pc = "scan" /\ counts.errors = 0 =>
       /\ line_no + Remaining(at) = Len(SplitLines(file))
       /\ phase = "done" => at = Len(file)
  /\ status = 0 => pc = "exit" /\ total.errors = 0

RunInv == DataInv /\ CountInv

LEMMA InitRun == Init => RunInv
<1> SUFFICES ASSUME Init PROVE RunInv
  OBVIOUS
<1>1. << >> \in Seq(Byte) /\ Len(<< >>) = 0 /\ \A S : << >> \in Seq(S)
  OBVIOUS
<1>2. DataInv
  BY <1>1 DEF Init, DataInv, Zero, Counts
<1>3. CountInv
  BY <1>1 DEF Init, CountInv, Zero
<1>4. QED
  BY <1>2, <1>3 DEF RunInv

LEMMA LineKeeps ==
  ASSUME RunInv, LineStep
  PROVE  RunInv'
<1>1. DataInv /\ ScanLine
  BY LineLeaves DEF RunInv
<1>2. PICK c \in Nat, o \in Nat, e \in Nat : Leaves(c, o, e)
  BY LineLeaves DEF RunInv
<1>3. UNCHANGED <<pc, inputs, n, total, listing, status>>
  BY <1>1 DEF ScanLine
<1>4. /\ pc = "scan" /\ phase = "busy" /\ file' = file /\ phase' = phase /\ at' \in 0..Len(file)
      /\ fed' \in Seq([text : Seq(Byte), no : Nat]) /\ partial' \in Seq(Byte) /\ line_no' \in Nat
      /\ line_no' + Remaining(at') = line_no + Remaining(at)
  BY <1>1, LineHandedOn
<1>5. counts' \in Counts /\ counts'.errors = counts.errors + e /\ counts'.checked = counts.checked + c
  <2>1. counts.checked \in Nat /\ counts.errors \in Nat
    BY <1>1 DEF DataInv, Counts
  <2>2. counts' = [checked |-> counts.checked + c, errors |-> counts.errors + e]
    BY <1>2 DEF Leaves
  <2>3. counts.checked + c \in Nat /\ counts.errors + e \in Nat
    BY <1>2, <2>1
  <2>4. QED
    BY <2>2, <2>3 DEF Counts
<1>6. DataInv'
  BY <1>1, <1>2, <1>3, <1>4, <1>5 DEF DataInv, Leaves, inputs
<1>7. Remaining(at)' = Remaining(at')
  BY <1>4 DEF Remaining
<1>8. CountInv'
  <2>1. total.errors \in Nat /\ total.checked \in Nat /\ counts.errors \in Nat /\ counts.checked \in Nat
    BY <1>1 DEF DataInv, Counts
  <2>2. Len(diags) \in Nat /\ Len(out) \in Nat
    BY <1>1 DEF DataInv
  <2>3. Prints' = Prints /\ total' = total /\ status' = status /\ pc' = pc
    BY <1>3 DEF Prints, inputs
  <2>4. total'.errors + counts'.errors = Len(diags')
    <3>1. total.errors + counts.errors = Len(diags)
      BY DEF RunInv, CountInv
    <3>2. Len(diags') = Len(diags) + e
      BY <1>2 DEF Leaves
    <3>3. total'.errors = total.errors /\ counts'.errors = counts.errors + e
      BY <1>5, <2>3
    <3>4. \A a, b, d, k \in Nat : a + b = d => a + (b + k) = d + k
      OBVIOUS
    <3>5. total.errors + (counts.errors + e) = Len(diags) + e
      BY <2>1, <2>2, <3>1, <3>4
    <3>6. QED
      BY <3>2, <3>3, <3>5
  <2>5. Prints /\ total'.errors + counts'.errors = 0 => Len(out') = total'.checked + counts'.checked
    <3>1. SUFFICES ASSUME Prints, total.errors + counts'.errors = 0
                   PROVE  Len(out') = total.checked + counts'.checked
      BY <2>3
    <3>2. e = 0 /\ total.errors + counts.errors = 0
      BY <1>5, <2>1, <3>1
    <3>3. Len(out) = total.checked + counts.checked /\ o = c /\ Len(out') = Len(out) + o
      BY <1>2, <3>1, <3>2 DEF RunInv, CountInv, Leaves
    <3>4. QED
      BY <1>5, <2>1, <3>3
  <2>6. counts'.errors = 0 => line_no' + Remaining(at') = Len(SplitLines(file))
    <3>1. counts'.errors = 0 => counts.errors = 0
      BY <1>5, <2>1
    <3>2. QED
      BY <1>4, <3>1 DEF RunInv, CountInv
  <2>7. status' # 0
    BY <1>4, <2>3 DEF RunInv, CountInv
  <2> HIDE DEF Remaining
  <2>8. QED
    BY <1>4, <1>7, <2>3, <2>4, <2>5, <2>6, <2>7 DEF CountInv
<1>9. QED
  BY <1>6, <1>8 DEF RunInv

\* The bytes of the argument at hand.
LEMMA ArgType ==
  ASSUME DataInv, AtFile
  PROVE  Bytes \in Seq(Byte)
<1> DEFINE A == [kind : {"file", "unreadable", "unnamed"}, bytes : Seq(Byte)]
<1>1. args \in Seq(A)
  BY ProgramInputs DEF DataInv
<1> HIDE DEF A
<1>2. n \in 1..Len(args)
  BY <1>1 DEF DataInv, AtFile
<1>3. args[n] \in A
  BY <1>1, <1>2
<1>4. QED
  BY <1>3 DEF A, Bytes

LEMMA DropKeeps ==
  ASSUME RunInv, pc = "file", NEW code \in Reports, DropFile(code)
  PROVE  RunInv'
<1> DEFINE x == [code |-> code, file |-> n, line |-> 0]
<1>1. /\ total' = [total EXCEPT !.errors = @ + 1] /\ diags' = Append(diags, x) /\ n' = n + 1
      /\ UNCHANGED <<pc, inputs, scanner, env, counts, out, listing, status>>
  BY DEF DropFile
<1>2. /\ total \in Counts /\ total.errors \in Nat /\ total.checked \in Nat
      /\ counts.errors \in Nat /\ n \in Nat /\ diags \in Seq(Diagnostic) /\ Len(diags) \in Nat
  BY DEF RunInv, DataInv, Counts
<1>3. x \in Diagnostic
  BY <1>2 DEF Diagnostic
<1> HIDE DEF x
<1>4. diags' \in Seq(Diagnostic) /\ Len(diags') = Len(diags) + 1
  BY <1>1, <1>2, <1>3, OneMore
<1>5. total' \in Counts /\ total'.errors = total.errors + 1 /\ total'.checked = total.checked
  BY <1>1, <1>2 DEF Counts
<1>6. DataInv'
  <2>1. n' \in Nat \ {0}
    BY <1>1, <1>2
  <2>2. UNCHANGED <<opt, args, environ, pc, phase, file, at, partial, line_no, fed, env, counts, out>>
    BY <1>1 DEF inputs, scanner
  <2> HIDE DEF Diagnostic, Counts
  <2>3. QED
    BY <1>4, <1>5, <2>1, <2>2 DEF RunInv, DataInv
<1>7. CountInv'
  <2>1. total.errors + counts.errors = Len(diags) /\ counts = Zero /\ status # 0
    BY DEF RunInv, CountInv
  <2>2. total'.errors + counts'.errors = Len(diags')
    BY <1>1, <1>2, <1>4, <1>5, <2>1
  <2>3. total'.errors + counts'.errors # 0
    <3>1. total'.errors = total.errors + 1 /\ counts'.errors = counts.errors
      BY <1>1, <1>5
    <3>2. QED
      BY <1>2, <3>1
  <2>4. QED
    <3>1. /\ pc' = pc /\ pc = "file" /\ status' = status /\ counts' = counts
          /\ (Prints /\ total'.errors + counts'.errors = 0 => Len(out') = total'.checked + counts'.checked)
      BY <1>1, <2>3
    <3>2. Prints' = Prints
      BY <1>1 DEF Prints, inputs
    <3>3. QED
      BY <2>1, <2>2, <2>3, <3>1, <3>2 DEF CountInv
<1>8. QED
  BY <1>6, <1>7 DEF RunInv

LEMMA ScanFileKeeps ==
  ASSUME RunInv, ScanFile
  PROVE  RunInv'
<1>1. DataInv /\ Bytes \in Seq(Byte)
  BY ArgType DEF RunInv, ScanFile
<1>2. Data \in Seq(Byte)
  <2>1. CASE HasBom /\ opt.bom = "strip"
    <3>1. 1 \in 0..Len(Bytes)
      BY <1>1, <2>1 DEF HasBom
    <3>2. QED
      BY <1>1, <2>1, <3>1, AfterType DEF Data
  <2>2. CASE ~(HasBom /\ opt.bom = "strip")
    BY <1>1, <2>2 DEF Data
  <2>3. QED
    BY <2>1, <2>2
<1>3. /\ pc = "file" /\ pc' = "scan" /\ phase' = "busy" /\ file' = Data /\ at' = 0 /\ partial' = << >>
      /\ line_no' = 0 /\ fed' = << >> /\ counts' = Zero
      /\ UNCHANGED <<inputs, n, env, total, out, listing, diags, status>>
  BY DEF ScanFile, AtFile
<1> HIDE DEF Data
<1>4. Zero \in Counts /\ Zero.errors = 0 /\ Zero.checked = 0
  BY DEF Zero, Counts
<1>5. DataInv'
  <2>1. Len(Data) \in Nat /\ << >> \in Seq(Byte) /\ << >> \in Seq([text : Seq(Byte), no : Nat])
    BY <1>2
  <2>2. QED
    BY <1>1, <1>2, <1>3, <1>4, <2>1 DEF DataInv, inputs
<1>6. Remaining(at)' = Len(SplitLines(file)) '
  BY <1>2, <1>3, RestIs DEF Remaining
<1>7. CountInv'
  <2>1. counts = Zero /\ status # 0 /\ Prints' = Prints
    BY <1>3 DEF RunInv, CountInv, Prints, inputs
  <2>2. Len(SplitLines(Data)) \in Nat
    BY <1>2, SplitLinesType
  <2>3. line_no' + Remaining(at)' = Len(SplitLines(file)) '
    BY <1>3, <1>6, <2>2
  <2>4. QED
    BY <1>3, <2>1, <2>3 DEF RunInv, CountInv
<1>8. QED
  BY <1>5, <1>7 DEF RunInv

LEMMA DropLastType ==
  ASSUME NEW s \in Seq(Byte), s # << >>
  PROVE  Feed!DropLast(s) \in Seq(Byte)
<1>1. Len(s) \in Nat \ {0}
  OBVIOUS
<1>2. Feed!DropLast(s) = [i \in 1..(Len(s) - 1) |-> s[0 + i]]
  BY DEF Feed!DropLast, Feed!Slice
<1>3. \A i \in 1..(Len(s) - 1) : s[0 + i] \in Byte
  BY <1>1
<1>4. QED
  BY <1>1, <1>2, <1>3

\* A line is joined, or the stream ends.
LEMMA ScanOnKeeps ==
  ASSUME RunInv, ScanOn
  PROVE  RunInv'
<1>1. DataInv /\ pc = "scan" /\ UNCHANGED <<pc, inputs, n, env, counts, total, out, listing, diags, status>>
  BY DEF RunInv, ScanOn
<1>2. /\ file' = file /\ at' \in 0..Len(file) /\ partial' \in Seq(Byte) /\ line_no' \in Nat /\ fed' = fed
      /\ phase' \in {"busy", "done"} /\ (phase' = "done" => at' = Len(file))
      /\ line_no' + Remaining(at') = line_no + Remaining(at)
  <2>0. /\ line_no \in Nat /\ partial \in Seq(Byte) /\ at \in 0..Len(file) /\ phase \in {"busy", "done"}
    BY <1>1 DEF DataInv
  <2>1. ASSUME NEW end, Feed!JoinLine(end)
        PROVE  /\ file' = file /\ at' \in 0..Len(file) /\ partial' \in Seq(Byte) /\ line_no' \in Nat /\ fed' = fed
               /\ phase' = "busy"
               /\ line_no' + Remaining(at') = line_no + Remaining(at)
    <3> DEFINE s == partial \o Feed!Piece(end)
    <3>1. /\ Feed!Take(end) /\ Feed!OddBackslashes(s) /\ partial' = Feed!DropLast(s)
          /\ UNCHANGED <<fed, too_long>>
      BY <2>1 DEF Feed!JoinLine, Feed!Continues
    <3>2. /\ end \in at..Len(file) /\ at' \in 0..Len(file) /\ line_no' = line_no + 1
          /\ file' = file /\ phase = "busy" /\ phase' = phase
          /\ Remaining(at') \in Nat /\ Remaining(at) = 1 + Remaining(at')
      BY <1>1, <3>1, Taken
    <3>3. s \in Seq(Byte)
      <4>1. Feed!Piece(end) \in Seq(Byte)
        BY <1>1, <3>2, PieceType
      <4>2. QED
        BY <2>0, <4>1
    <3> HIDE DEF s
    <3>4. s # << >>
      <4>1. Len(<< >>) = 0
        OBVIOUS
      <4>2. QED
        BY <3>1, <4>1 DEF Feed!OddBackslashes
    <3>5. partial' \in Seq(Byte)
      BY <3>1, <3>3, <3>4, DropLastType
    <3>6. QED
      BY <2>0, <3>1, <3>2, <3>5
  <2>2. CASE Feed!Finish
    BY <2>0, <2>2 DEF Feed!Finish
  <2>3. QED
    BY <2>1, <2>2 DEF ScanOn
<1>3. DataInv'
  BY <1>1, <1>2 DEF DataInv, inputs
<1>4. Remaining(at)' = Remaining(at')
  BY <1>2 DEF Remaining
<1>5. CountInv'
  <2> HIDE DEF Remaining
  <2>1. Prints' = Prints
    BY <1>1 DEF Prints, inputs
  <2>2. QED
    BY <1>1, <1>2, <1>4, <2>1 DEF RunInv, CountInv
<1>6. QED
  BY <1>3, <1>5 DEF RunInv

LEMMA TooLongKeeps ==
  ASSUME RunInv, LineTooLong
  PROVE  RunInv'
<1> DEFINE x == [code |-> "LINE_TOO_LONG", file |-> n, line |-> 0]
<1>1. /\ DataInv /\ pc = "scan" /\ counts' = [counts EXCEPT !.errors = @ + 1] /\ diags' = Append(diags, x)
      /\ UNCHANGED <<pc, inputs, n, env, total, out, listing, status>>
  BY DEF RunInv, LineTooLong
<1>2. /\ counts \in Counts /\ total.errors \in Nat /\ counts.checked \in Nat /\ counts.errors \in Nat
      /\ n \in Nat /\ diags \in Seq(Diagnostic) /\ Len(diags) \in Nat
      /\ line_no \in Nat /\ fed \in Seq([text : Seq(Byte), no : Nat]) /\ partial \in Seq(Byte)
      /\ phase \in {"busy", "done"} /\ file \in Seq(Byte) /\ Len(file) \in Nat
  BY <1>1 DEF DataInv, Counts
<1>3. x \in Diagnostic
  BY <1>2 DEF Diagnostic, Reports
<1> HIDE DEF x
<1>4. diags' \in Seq(Diagnostic) /\ Len(diags') = Len(diags) + 1
  BY <1>1, <1>2, <1>3, OneMore
<1>5. counts' \in Counts /\ counts'.errors = counts.errors + 1
  <2>1. counts' = [counts EXCEPT !.errors = @ + 1]
    BY <1>1
  <2>2. counts \in [checked : Nat, errors : Nat] /\ counts.errors + 1 \in Nat
    BY <1>2 DEF Counts
  <2>3. QED
    BY <2>1, <2>2 DEF Counts
<1>6. /\ file' = file /\ at' \in 0..Len(file) /\ partial' \in Seq(Byte) /\ line_no' \in Nat /\ fed' = fed
      /\ phase' \in {"busy", "done"}
  <2>1. ASSUME NEW end, Feed!DropJoined(end)
        PROVE  /\ file' = file /\ at' \in 0..Len(file) /\ partial' \in Seq(Byte) /\ line_no' \in Nat /\ fed' = fed
               /\ phase' = phase
    <3>1. Feed!Take(end) /\ partial' = << >> /\ fed' = fed
      BY <2>1 DEF Feed!DropJoined
    <3>2. at' \in 0..Len(file) /\ line_no' = line_no + 1 /\ file' = file /\ phase' = phase
      BY <1>1, <3>1, Taken
    <3>3. QED
      BY <1>2, <3>1, <3>2
  <2>2. CASE Feed!GiveUp
    BY <1>2, <2>2 DEF Feed!GiveUp
  <2>3. QED
    BY <1>2, <2>1, <2>2 DEF LineTooLong
<1>7. DataInv'
  BY <1>1, <1>2, <1>4, <1>5, <1>6 DEF DataInv, inputs
<1>8. CountInv'
  <2>1. total.errors + counts.errors = Len(diags) /\ status # 0
    BY <1>1 DEF RunInv, CountInv
  <2>2. total'.errors + counts'.errors = Len(diags') /\ counts'.errors # 0 /\ total'.errors + counts'.errors # 0
    <3>1. total' = total /\ counts'.errors = counts.errors + 1
      BY <1>1, <1>5
    <3>2. total.errors \in Nat /\ counts.errors \in Nat /\ Len(diags) \in Nat
      BY <1>2
    <3>3. QED
      BY <1>4, <2>1, <3>1, <3>2
  <2>3. QED
    BY <1>1, <2>1, <2>2 DEF CountInv
<1>9. QED
  BY <1>7, <1>8 DEF RunInv

LEMMA EndFileKeeps ==
  ASSUME RunInv, EndFile
  PROVE  RunInv'
<1>1. /\ DataInv /\ pc = "scan" /\ total' = AddedUp /\ counts' = Zero /\ pc' = "file" /\ n' = n + 1 /\ fed' = << >>
      /\ UNCHANGED <<inputs, phase, file, strip_cr, shell_cont, at, partial, line_no, too_long,
                     env, out, listing, diags, status>>
  BY DEF RunInv, EndFile
<1>2. /\ total.errors \in Nat /\ total.checked \in Nat /\ counts.errors \in Nat /\ counts.checked \in Nat
      /\ n \in Nat /\ Zero \in Counts /\ Zero.errors = 0 /\ Zero.checked = 0
  BY <1>1 DEF DataInv, Counts, Zero
<1>3. /\ total' \in Counts /\ total'.errors = total.errors + counts.errors
      /\ total'.checked = total.checked + counts.checked
  BY <1>1, <1>2 DEF AddedUp, Counts
<1>4. DataInv'
  <2>1. << >> \in Seq([text : Seq(Byte), no : Nat]) /\ n + 1 \in Nat
    BY <1>2
  <2>2. QED
    BY <1>1, <1>2, <1>3, <2>1 DEF DataInv, inputs
<1>5. CountInv'
  <2>1. Prints' = Prints
    BY <1>1 DEF Prints, inputs
  <2>2. total'.errors + counts'.errors = total.errors + counts.errors
    BY <1>1, <1>2, <1>3
  <2>3. total'.checked + counts'.checked = total.checked + counts.checked
    BY <1>1, <1>2, <1>3
  <2>4. QED
    BY <1>1, <2>1, <2>2, <2>3 DEF RunInv, CountInv
<1>6. QED
  BY <1>4, <1>5 DEF RunInv

LEMMA ExitKeeps ==
  ASSUME RunInv, Exit
  PROVE  RunInv'
<1>1. /\ DataInv /\ pc = "file" /\ pc' = "exit" /\ status' = ExitStatus
      /\ UNCHANGED <<inputs, n, scanner, env, counts, total, out, diags>>
  BY DEF RunInv, Exit
<1>2. total.errors \in Nat /\ Prints' = Prints
  BY <1>1 DEF DataInv, Counts, Prints, inputs
<1>3. DataInv'
  BY <1>1 DEF DataInv, inputs, scanner
<1>4. CountInv'
  BY <1>1, <1>2 DEF RunInv, CountInv, ExitStatus
<1>5. QED
  BY <1>3, <1>4 DEF RunInv

LEMMA StartKeeps ==
  ASSUME RunInv, Fatal \/ FatalMemory \/ InitFromProcess
  PROVE  RunInv'
<1>1. /\ DataInv /\ pc = "start" /\ UNCHANGED <<inputs, n, scanner, counts, total, out, listing, diags>>
      /\ \/ pc' = "exit" /\ status' = 1 /\ env' = env
         \/ pc' = "file" /\ status' = status
  BY DEF RunInv, Fatal, FatalMemory, InitFromProcess
<1>2. \A k \in DOMAIN env' : env'[k] \in Seq(Byte)
  BY <1>1, ProgramInputs DEF DataInv, Fatal, FatalMemory, InitFromProcess
<1>3. DataInv'
  BY <1>1, <1>2 DEF DataInv, inputs, scanner
<1>4. CountInv'
  BY <1>1 DEF RunInv, CountInv, Prints, inputs
<1>5. QED
  BY <1>3, <1>4 DEF RunInv

LEMMA RunKeeps == RunInv /\ [Next]_vars => RunInv'
<1> SUFFICES ASSUME RunInv, [Next]_vars PROVE RunInv'
  OBVIOUS
<1>1. CASE Fatal \/ FatalMemory \/ InitFromProcess
  BY <1>1, StartKeeps
<1>2. CASE CannotOpen \/ RejectNul \/ RejectBom \/ FileMemory
  <2>1. {"CANNOT_OPEN", "FILE_NUL", "FILE_BOM", "OUT_OF_MEMORY"} \subseteq Reports
    BY DEF Reports
  <2>2. pc = "file" /\ \E code \in Reports : DropFile(code)
    BY <1>2, <2>1 DEF CannotOpen, RejectNul, RejectBom, FileMemory, AtFile
  <2>3. QED
    BY <2>2, DropKeeps
<1>3. CASE ScanFile
  BY <1>3, ScanFileKeeps
<1>4. CASE ScanOn
  BY <1>4, ScanOnKeeps
<1>5. CASE LineTooLong
  BY <1>5, TooLongKeeps
<1>6. CASE LineStep
  BY <1>6, LineKeeps
<1>7. CASE EndFile
  BY <1>7, EndFileKeeps
<1>8. CASE Exit
  BY <1>8, ExitKeeps
<1>9. CASE UNCHANGED vars
  <2>1. DataInv'
    BY <1>9 DEF RunInv, DataInv, vars, inputs, scanner
  <2>2. CountInv'
    BY <1>9 DEF RunInv, CountInv, Remaining, Prints, vars, inputs, scanner
  <2>3. QED
    BY <2>1, <2>2 DEF RunInv
<1>10. QED
  BY <1>1, <1>2, <1>3, <1>4, <1>5, <1>6, <1>7, <1>8, <1>9 DEF Next, LineStep

\* The error count and the diagnostics never drift apart, though errors are
\* counted per file and added up late, and one failed copy counts twice
\* (envfile.c:555-647, 698-732).
THEOREM EveryErrorReported == Spec => []ErrorsReported
<1>1. RunInv => ErrorsReported
  BY DEF RunInv, CountInv, ErrorsReported
<1>2. QED
  BY <1>1, InitRun, RunKeeps, PTL DEF Spec

\* A run that ends with status 0 has printed every record it checked, whatever
\* allocation failed (envfile.c:590-636).
THEOREM NothingLostSilently == Spec => []AllOrError
<1>1. RunInv => AllOrError
  <2>1. SUFFICES ASSUME RunInv, pc = "exit", status = 0, Prints PROVE Len(out) = total.checked
    BY DEF AllOrError, Prints
  <2>2. total.errors = 0 /\ counts = Zero
    BY <2>1 DEF RunInv, CountInv
  <2>3. Zero.errors = 0 /\ Zero.checked = 0 /\ total.checked \in Nat
    BY <2>1 DEF Zero, RunInv, DataInv, Counts
  <2>4. QED
    BY <2>1, <2>2, <2>3 DEF RunInv, CountInv
<1>2. QED
  BY <1>1, InitRun, RunKeeps, PTL DEF Spec

\* A file that ends without an error was read to its last line, whatever the
\* sizes of the buffers (envfile.c:508-645).
THEOREM NoLineUnread == Spec => []ScannedWhole
<1>1. RunInv => ScannedWhole
  <2>1. SUFFICES ASSUME RunInv, pc = "scan", phase = "done", counts.errors = 0
                 PROVE  line_no = Len(SplitLines(file))
    BY DEF ScannedWhole
  <2>2. line_no + Remaining(at) = Len(SplitLines(file)) /\ at = Len(file)
    BY <2>1 DEF RunInv, CountInv
  <2>3. Remaining(Len(file)) = 0 /\ line_no \in Nat
    BY <2>1, NoneRemains DEF RunInv, DataInv
  <2>4. QED
    BY <2>2, <2>3
<1>2. QED
  BY <1>1, InitRun, RunKeeps, PTL DEF Spec

-----------------------------------------------------------------------------
(* The lines of a file, and what the pre-passes of the reference leave.    *)

\* The line that begins after position p ends at the first newline, or it is
\* the last of the file.
NoLineFeed(bytes, p, q) == \A j \in (p + 1)..q : bytes[j] # LF

LEMMA NextLine ==
  ASSUME NEW bytes \in Seq(Byte), NEW p \in 0..(Len(bytes) - 1)
  PROVE  \/ NoLineFeed(bytes, p, Len(bytes)) /\ RestOf(bytes)[p] = <<After(bytes, p)>>
         \/ \E q \in (p + 1)..Len(bytes) :
              /\ bytes[q] = LF /\ NoLineFeed(bytes, p, q - 1)
              /\ RestOf(bytes)[p] = <<SubSeq(bytes, p + 1, q - 1)>> \o RestOf(bytes)[q]
<1> DEFINE s == After(bytes, p)
           nl == Index(s, LF)
           L == Len(bytes)
<1>1. L \in Nat /\ p \in 0..L /\ p \in Nat /\ p < L /\ p # L
  OBVIOUS
<1>2. s \in Seq(Byte) /\ Len(s) = L - p /\ \A i \in 1..(L - p) : s[i] = bytes[p + i]
  BY <1>1, AfterType
<1>3. /\ nl \in 0..Len(s) /\ (nl = 0 <=> ~Has(s, LF))
      /\ nl > 0 => s[nl] = LF /\ \A j \in 1..(nl - 1) : s[j] # LF
  BY <1>2, IndexFinds
<1>4. RestOf(bytes)[p] = LinesFrom(bytes, RestOf(bytes), p)
  BY <1>1, RestIs
<1>5. RestOf(bytes)[p] =
        IF nl = 0 THEN <<s>> ELSE <<SubSeq(bytes, p + 1, p + nl - 1)>> \o RestOf(bytes)[p + nl]
  BY <1>1, <1>4 DEF LinesFrom
<1> HIDE DEF s, nl, L
<1>6. CASE nl = 0
  <2>1. \A j \in (p + 1)..L : j - p \in 1..(L - p) /\ p + (j - p) = j
    BY <1>1
  <2>2. \A i \in 1..(L - p) : s[i] # LF
    BY <1>2, <1>3, <1>6 DEF Has
  <2>3. NoLineFeed(bytes, p, L)
    BY <1>2, <2>1, <2>2 DEF NoLineFeed
  <2>4. QED
    BY <1>5, <1>6, <2>3 DEF s, L
<1>7. CASE nl # 0
  <2> DEFINE q == p + nl
  <2>1. nl \in 1..(L - p) /\ nl > 0 /\ q \in (p + 1)..L /\ p + nl - 1 = q - 1
    BY <1>1, <1>2, <1>3, <1>7
  <2>2. bytes[q] = LF
    BY <1>2, <1>3, <2>1
  <2>3. \A j \in (p + 1)..(q - 1) : j - p \in 1..(nl - 1) /\ j - p \in 1..(L - p) /\ p + (j - p) = j
    BY <1>1, <2>1
  <2>4. NoLineFeed(bytes, p, q - 1)
    BY <1>2, <1>3, <2>1, <2>3 DEF NoLineFeed
  <2>5. RestOf(bytes)[p] = <<SubSeq(bytes, p + 1, q - 1)>> \o RestOf(bytes)[q]
    BY <1>5, <1>7, <2>1
  <2> HIDE DEF q
  <2>6. QED
    BY <2>1, <2>2, <2>4, <2>5 DEF L
<1>8. QED
  BY <1>6, <1>7

LEMMA NothingBehind ==
  ASSUME NEW bytes \in Seq(Byte)
  PROVE  RestOf(bytes)[Len(bytes)] = << >>
<1>1. Len(bytes) \in 0..Len(bytes)
  OBVIOUS
<1>2. QED
  BY <1>1, RestIs DEF LinesFrom

LEMMA RestLines ==
  ASSUME NEW bytes \in Seq(Byte), NEW p \in 0..Len(bytes)
  PROVE  RestOf(bytes)[p] \in Seq(Seq(Byte))
BY RestIs

\* The first line of a list.
LEMMA OneBefore ==
  ASSUME NEW S, NEW x \in S, NEW t \in Seq(S)
  PROVE  /\ <<x>> \o t \in Seq(S) /\ Len(<<x>> \o t) = Len(t) + 1 /\ (<<x>> \o t)[1] = x
         /\ \A k \in 1..Len(t) : (<<x>> \o t)[k + 1] = t[k]
         /\ Tail(<<x>> \o t) = t
OBVIOUS

\* The first line begins with the byte order mark if the file does.
LEMMA BomFirst ==
  ASSUME NEW bytes \in Seq(Byte)
  PROVE  StartsWithBom(SplitLines(bytes)) <=> bytes # << >> /\ bytes[1] = BOM
<1> DEFINE sp == SplitLines(bytes)
<1>1. sp = RestOf(bytes)[0]
  BY RestIs
<1>2. CASE bytes = << >>
  <2>1. Len(bytes) = 0
    BY <1>2
  <2>2. sp = << >>
    BY <1>1, <2>1, NothingBehind
  <2>3. QED
    BY <1>2, <2>2 DEF StartsWithBom
<1>3. CASE bytes # << >>
  <2>1. Len(bytes) \in Nat \ {0} /\ 0 \in 0..(Len(bytes) - 1) /\ 1 \in 1..Len(bytes)
    BY <1>3
  <2>2. CASE sp = <<After(bytes, 0)>>
    <3>1. After(bytes, 0) = bytes
      BY DEF After
    <3>2. sp # << >> /\ sp[1] = bytes
      BY <2>2, <3>1
    <3>3. QED
      BY <1>3, <3>2 DEF StartsWithBom
  <2>3. CASE \E q \in 1..Len(bytes) :
               /\ bytes[q] = LF
               /\ sp = <<SubSeq(bytes, 1, q - 1)>> \o RestOf(bytes)[q]
    <3>1. PICK q \in 1..Len(bytes) :
            bytes[q] = LF /\ sp = <<SubSeq(bytes, 1, q - 1)>> \o RestOf(bytes)[q]
      BY <2>3
    <3> DEFINE x == SubSeq(bytes, 1, q - 1)
    <3>2. x \in Seq(Byte) /\ RestOf(bytes)[q] \in Seq(Seq(Byte))
      BY CutType, RestLines
    <3>3. Len(x) = q - 1 /\ q - 1 \in Nat /\ (q > 1 => x[1] = bytes[1])
      BY <2>1
    <3> HIDE DEF x
    <3>4. sp[1] = x /\ Len(sp) > 0
      BY <3>1, <3>2, OneBefore DEF x
    <3>5. sp # << >>
      BY <3>4
    <3>6. StartsWithBom(sp) <=> x # << >> /\ x[1] = BOM
      BY <3>4, <3>5 DEF StartsWithBom
    <3>7. CASE q = 1
      <4>1. x = << >> /\ bytes[1] # BOM
        BY <3>1, <3>2, <3>3, <3>7, SyntaxBytes
      <4>2. QED
        BY <3>6, <4>1
    <3>8. CASE q > 1
      <4>1. x # << >>
        BY <3>3, <3>8
      <4>2. QED
        BY <1>3, <3>3, <3>6, <3>8, <4>1
    <3>9. QED
      BY <3>7, <3>8
  <2>4. \/ RestOf(bytes)[0] = <<After(bytes, 0)>>
        \/ \E q \in (0 + 1)..Len(bytes) :
             bytes[q] = LF /\ RestOf(bytes)[0] = <<SubSeq(bytes, 0 + 1, q - 1)>> \o RestOf(bytes)[q]
    <3> HIDE DEF sp
    <3>1. QED
      BY <2>1, NextLine
  <2>5. 0 + 1 = 1
    OBVIOUS
  <2>6. \/ sp = <<After(bytes, 0)>>
        \/ \E q \in 1..Len(bytes) :
             bytes[q] = LF /\ sp = <<SubSeq(bytes, 1, q - 1)>> \o RestOf(bytes)[q]
    <3> HIDE DEF sp
    <3>1. QED
      BY <1>1, <2>4, <2>5
  <2>7. QED
    BY <2>2, <2>3, <2>6
<1>4. QED
  BY <1>2, <1>3

\* Where a line ends is all it takes to know the lines that are left.
LEMMA LastLineLeft ==
  ASSUME NEW bytes \in Seq(Byte), NEW p \in 0..(Len(bytes) - 1), NoLineFeed(bytes, p, Len(bytes))
  PROVE  RestOf(bytes)[p] = <<After(bytes, p)>>
<1>1. ASSUME NEW q \in (p + 1)..Len(bytes), bytes[q] = LF PROVE FALSE
  BY <1>1 DEF NoLineFeed
<1>2. QED
  BY <1>1, NextLine

LEMMA LineLeft ==
  ASSUME NEW bytes \in Seq(Byte), NEW p \in 0..(Len(bytes) - 1), NEW q \in (p + 1)..Len(bytes),
         bytes[q] = LF, NoLineFeed(bytes, p, q - 1)
  PROVE  RestOf(bytes)[p] = <<SubSeq(bytes, p + 1, q - 1)>> \o RestOf(bytes)[q]
<1>1. ~NoLineFeed(bytes, p, Len(bytes))
  BY DEF NoLineFeed
<1>2. PICK r \in (p + 1)..Len(bytes) :
        /\ bytes[r] = LF /\ NoLineFeed(bytes, p, r - 1)
        /\ RestOf(bytes)[p] = <<SubSeq(bytes, p + 1, r - 1)>> \o RestOf(bytes)[r]
  BY <1>1, NextLine
<1>3. p \in Nat /\ q \in Nat /\ r \in Nat
  OBVIOUS
<1>4. ~(q < r)
  <2> SUFFICES ASSUME q < r PROVE FALSE
    OBVIOUS
  <2>1. q \in (p + 1)..(r - 1)
    BY <1>3
  <2>2. QED
    BY <1>2, <2>1 DEF NoLineFeed
<1>5. ~(r < q)
  <2> SUFFICES ASSUME r < q PROVE FALSE
    OBVIOUS
  <2>1. r \in (p + 1)..(q - 1)
    BY <1>3
  <2>2. QED
    BY <1>2, <2>1 DEF NoLineFeed
<1>6. r = q
  BY <1>3, <1>4, <1>5
<1>7. QED
  BY <1>2, <1>6

\* What holds of the lines from the end, and of the lines from a position
\* when it holds from every later one, holds of all lines.
LEMMA FromTheEnd ==
  ASSUME NEW m \in Nat, NEW T, m \in T,
         \A p \in 0..(m - 1) : (\A q \in (p + 1)..m : q \in T) => p \in T
  PROVE  0..m \subseteq T
<1> DEFINE I == 0..m
           mu == [p \in I |-> m - p]
<1>1. mu \in [I -> Nat]
  OBVIOUS
<1>2. \A p \in I : (\A q \in I : mu[q] < mu[p] => q \in T) => p \in T
  <2> SUFFICES ASSUME NEW p \in I, \A q \in I : mu[q] < mu[p] => q \in T PROVE p \in T
    OBVIOUS
  <2>1. \A q \in (p + 1)..m : q \in I /\ mu[q] < mu[p]
    OBVIOUS
  <2>2. \A q \in (p + 1)..m : q \in T
    BY <2>1
  <2>3. p = m \/ p \in 0..(m - 1)
    OBVIOUS
  <2>4. QED
    BY <2>2, <2>3
<1> HIDE DEF I, mu
<1>3. I \subseteq T
  BY <1>1, <1>2, MeasureInduction
<1>4. QED
  BY <1>3 DEF I

\* A piece of a file is the piece one further on of the file with a byte before it.
LEMMA SameCut ==
  ASSUME NEW bytes \in Seq(Byte), Len(bytes) > 0, NEW a \in Nat, NEW b \in Nat,
         a <= b, b <= Len(bytes) - 1
  PROVE  SubSeq(After(bytes, 1), a + 1, b) = SubSeq(bytes, a + 2, b + 1)
<1> DEFINE c == After(bytes, 1)
           L == Len(bytes)
           x == SubSeq(c, a + 1, b)
           y == SubSeq(bytes, a + 2, b + 1)
<1>1. L \in Nat \ {0} /\ 1 \in 0..L
  OBVIOUS
<1>2. c \in Seq(Byte) /\ Len(c) = L - 1 /\ \A j \in 1..(L - 1) : c[j] = bytes[1 + j]
  BY <1>1, AfterType
<1> HIDE DEF c
<1>3. x \in Seq(Byte) /\ Len(x) = b - a /\ \A j \in 1..(b - a) : x[j] = c[a + j]
  <2>1. x \in Seq(Byte)
    BY <1>1, <1>2, CutType
  <2>2. Len(x) = b - a
    BY <1>2
  <2>3. \A j \in 1..(b - a) : x[j] = c[a + 1 + j - 1] /\ a + 1 + j - 1 = a + j
    BY <1>2, <2>2
  <2>4. QED
    BY <2>1, <2>2, <2>3
<1>4. y \in Seq(Byte) /\ Len(y) = b - a /\ \A j \in 1..(b - a) : y[j] = bytes[a + 1 + j]
  <2>1. y \in Seq(Byte)
    BY <1>1, CutType
  <2>2. Len(y) = b - a
    BY <1>1
  <2>3. \A j \in 1..(b - a) : y[j] = bytes[a + 2 + j - 1] /\ a + 2 + j - 1 = a + 1 + j
    BY <1>1, <2>2
  <2>4. QED
    BY <2>1, <2>2, <2>3
<1> HIDE DEF x, y
<1>5. \A j \in 1..(b - a) : a + j \in 1..(L - 1) /\ 1 + (a + j) = a + 1 + j
  BY <1>1
<1>6. \A j \in 1..(b - a) : x[j] = y[j]
  BY <1>2, <1>3, <1>4, <1>5
<1>7. x = y
  BY <1>3, <1>4, <1>6, SeqEqual
<1>8. QED
  BY <1>7 DEF x, y, c

\* Newlines are one further on, too.
LEMMA SameNewlines ==
  ASSUME NEW bytes \in Seq(Byte), Len(bytes) > 0
  PROVE  /\ After(bytes, 1) \in Seq(Byte) /\ Len(After(bytes, 1)) = Len(bytes) - 1
         /\ \A j \in 1..(Len(bytes) - 1) : After(bytes, 1)[j] = bytes[j + 1]
         /\ \A p \in Nat, q \in Nat : q <= Len(bytes) - 1 /\ NoLineFeed(After(bytes, 1), p, q) =>
              NoLineFeed(bytes, p + 1, q + 1)
<1> DEFINE c == After(bytes, 1)
           L == Len(bytes)
<1>1. L \in Nat \ {0} /\ 1 \in 0..L
  OBVIOUS
<1>2. c \in Seq(Byte) /\ Len(c) = L - 1 /\ \A j \in 1..(L - 1) : c[j] = bytes[j + 1]
  <2>1. c \in Seq(Byte) /\ Len(c) = L - 1 /\ \A j \in 1..(L - 1) : c[j] = bytes[1 + j]
    BY <1>1, AfterType
  <2>2. \A j \in 1..(L - 1) : 1 + j = j + 1
    BY <1>1
  <2>3. QED
    BY <2>1, <2>2
<1> HIDE DEF c
<1>3. ASSUME NEW p \in Nat, NEW q \in Nat, q <= L - 1, NoLineFeed(c, p, q)
      PROVE  NoLineFeed(bytes, p + 1, q + 1)
  <2> SUFFICES ASSUME NEW j \in (p + 1 + 1)..(q + 1) PROVE bytes[j] # LF
    BY DEF NoLineFeed
  <2>1. j - 1 \in (p + 1)..q /\ j - 1 \in 1..(L - 1) /\ j - 1 + 1 = j
    BY <1>1, <1>3
  <2>2. c[j - 1] # LF
    BY <1>3, <2>1 DEF NoLineFeed
  <2>3. QED
    BY <1>2, <2>1, <2>2
<1>4. QED
  BY <1>2, <1>3 DEF c

\* Without its first byte, a file has the same lines but for the first.
LEMMA LaterLines ==
  ASSUME NEW bytes \in Seq(Byte), Len(bytes) > 0
  PROVE  \A p \in 0..(Len(bytes) - 1) : RestOf(After(bytes, 1))[p] = RestOf(bytes)[p + 1]
<1> DEFINE c == After(bytes, 1)
           m == Len(bytes) - 1
           T == {p \in 0..m : RestOf(c)[p] = RestOf(bytes)[p + 1]}
<1>1. m \in Nat /\ Len(bytes) = m + 1
  OBVIOUS
<1>2. /\ c \in Seq(Byte) /\ Len(c) = m /\ \A j \in 1..m : c[j] = bytes[j + 1]
      /\ \A p \in Nat, q \in Nat : q <= m /\ NoLineFeed(c, p, q) => NoLineFeed(bytes, p + 1, q + 1)
  BY SameNewlines
<1>3. m \in T
  <2>1. RestOf(c)[Len(c)] = << >> /\ RestOf(bytes)[Len(bytes)] = << >>
    BY <1>2, NothingBehind
  <2>2. RestOf(c)[m] = RestOf(bytes)[m + 1]
    BY <1>1, <1>2, <2>1
  <2>3. QED
    BY <1>1, <2>2
<1>4. \A a, b \in Nat : a <= b /\ b <= m => SubSeq(c, a + 1, b) = SubSeq(bytes, a + 2, b + 1)
  BY SameCut
<1> HIDE DEF c, m
<1>5. ASSUME NEW p \in 0..(m - 1), \A q \in (p + 1)..m : q \in T
      PROVE  p \in T
  <2>1. p \in Nat /\ p \in 0..m /\ p \in 0..(Len(c) - 1) /\ p + 1 \in 0..(Len(bytes) - 1) /\ p <= m
    BY <1>1, <1>2
  <2>2. CASE NoLineFeed(c, p, Len(c)) /\ RestOf(c)[p] = <<After(c, p)>>
    <3>1. NoLineFeed(bytes, p + 1, m + 1)
      BY <1>1, <1>2, <2>1, <2>2
    <3>2. RestOf(bytes)[p + 1] = <<After(bytes, p + 1)>>
      BY <1>1, <2>1, <3>1, LastLineLeft
    <3>3. SubSeq(c, p + 1, m) = SubSeq(bytes, p + 2, m + 1)
      <4>1. p \in Nat /\ m \in Nat /\ p <= m /\ m <= m
        BY <1>1, <2>1
      <4>2. QED
        BY <1>4, <4>1
    <3>4. After(c, p) = SubSeq(c, p + 1, m)
      BY <1>2 DEF After
    <3>5. After(bytes, p + 1) = SubSeq(bytes, p + 1 + 1, m + 1) /\ p + 1 + 1 = p + 2
      BY <1>1, <2>1 DEF After
    <3>6. RestOf(c)[p] = RestOf(bytes)[p + 1]
      BY <2>2, <3>2, <3>3, <3>4, <3>5
    <3>7. QED
      BY <2>1, <3>6
  <2>3. CASE \E q \in (p + 1)..Len(c) :
               /\ c[q] = LF /\ NoLineFeed(c, p, q - 1)
               /\ RestOf(c)[p] = <<SubSeq(c, p + 1, q - 1)>> \o RestOf(c)[q]
    <3>1. PICK q \in (p + 1)..m :
            /\ c[q] = LF /\ NoLineFeed(c, p, q - 1)
            /\ RestOf(c)[p] = <<SubSeq(c, p + 1, q - 1)>> \o RestOf(c)[q]
      BY <1>2, <2>3
    <3>2. /\ q \in Nat /\ q - 1 \in Nat /\ q \in 1..m /\ q - 1 <= m /\ p <= q - 1
          /\ q - 1 + 1 = q + 1 - 1 /\ q + 1 \in (p + 1 + 1)..Len(bytes) /\ p + 1 + 1 = p + 2
      BY <1>1, <2>1
    <3>3. bytes[q + 1] = LF /\ NoLineFeed(bytes, p + 1, q + 1 - 1)
      BY <1>2, <2>1, <3>1, <3>2
    <3>4. RestOf(bytes)[p + 1] = <<SubSeq(bytes, p + 2, q + 1 - 1)>> \o RestOf(bytes)[q + 1]
      BY <2>1, <3>2, <3>3, LineLeft
    <3>5. SubSeq(c, p + 1, q - 1) = SubSeq(bytes, p + 2, q + 1 - 1)
      BY <1>4, <2>1, <3>2
    <3>6. RestOf(c)[q] = RestOf(bytes)[q + 1]
      BY <1>5
    <3>7. RestOf(c)[p] = RestOf(bytes)[p + 1]
      BY <3>1, <3>4, <3>5, <3>6
    <3>8. QED
      BY <2>1, <3>7
  <2>4. QED
    BY <1>2, <2>1, <2>2, <2>3, NextLine
<1> HIDE DEF T
<1>6. 0..m \subseteq T
  BY <1>1, <1>3, <1>5, FromTheEnd
<1>7. QED
  BY <1>6 DEF T, m, c

-----------------------------------------------------------------------------
(* What a byte order mark and carriage returns are to the lines. *)

LEMMA AfterPrefix ==
  ASSUME NEW bytes \in Seq(Byte), NEW r \in 1..Len(bytes)
  PROVE  After(SubSeq(bytes, 1, r), 1) = SubSeq(bytes, 2, r)
<1> DEFINE h == SubSeq(bytes, 1, r)
           x == After(h, 1)
           y == SubSeq(bytes, 2, r)
<1>1. r \in Nat \ {0} /\ r <= Len(bytes)
  OBVIOUS
<1>2. h \in Seq(Byte)
  BY <1>1, CutType
<1>3. Len(h) = r /\ \A j \in 1..r : h[j] = bytes[j]
  BY <1>1
<1> HIDE DEF h
<1>4. 1 \in 0..Len(h)
  BY <1>1, <1>3
<1>5. x \in Seq(Byte) /\ Len(x) = r - 1 /\ \A j \in 1..(r - 1) : x[j] = h[1 + j]
  BY <1>2, <1>3, <1>4, AfterType
<1>6. y \in Seq(Byte)
  BY <1>1, CutType
<1>7. Len(y) = r - 1
  BY <1>1
<1>8. \A j \in 1..(r - 1) : y[j] = bytes[2 + j - 1] /\ 2 + j - 1 = 1 + j
  BY <1>1, <1>7
<1>9. \A j \in 1..(r - 1) : 1 + j \in 1..r
  BY <1>1
<1> HIDE DEF x, y
<1>10. \A j \in 1..(r - 1) : x[j] = y[j]
  BY <1>3, <1>5, <1>8, <1>9
<1>11. x = y
  BY <1>5, <1>6, <1>7, <1>10, SeqEqual
<1>12. QED
  BY <1>11 DEF x, y, h

\* A file without its byte order mark has the lines of the file, the first
\* without the mark.
LEMMA WithoutBom ==
  ASSUME NEW bytes \in Seq(Byte), Len(bytes) > 1, bytes[1] = BOM
  PROVE  [SplitLines(bytes) EXCEPT ![1] = After(SplitLines(bytes)[1], 1)] = SplitLines(After(bytes, 1))
<1> DEFINE c == After(bytes, 1)
           m == Len(bytes) - 1
           sp == SplitLines(bytes)
           sc == SplitLines(c)
           L == Len(bytes)
<1>1. /\ m \in Nat \ {0} /\ L = m + 1 /\ L \in Nat /\ L > 0 /\ 0 \in 0..(L - 1) /\ 0 \in 0..(m - 1)
      /\ 0 + 1 = 1 /\ 0 + 2 = 2
  <2>1. L \in Nat
    OBVIOUS
  <2>2. QED
    BY <2>1
<1>2. /\ c \in Seq(Byte) /\ Len(c) = m /\ \A j \in 1..m : c[j] = bytes[j + 1]
      /\ \A p \in Nat, q \in Nat : q <= m /\ NoLineFeed(c, p, q) => NoLineFeed(bytes, p + 1, q + 1)
  BY SameNewlines
<1>3. sp = RestOf(bytes)[0] /\ sc = RestOf(c)[0]
  BY <1>2, RestIs
<1>4. bytes[1] # LF
  BY SyntaxBytes
<1>5. ASSUME NEW q \in Nat, NoLineFeed(bytes, 1, q) PROVE NoLineFeed(bytes, 0, q)
  <2> SUFFICES ASSUME NEW j \in (0 + 1)..q PROVE bytes[j] # LF
    BY DEF NoLineFeed
  <2>1. j = 1 \/ j \in (1 + 1)..q
    OBVIOUS
  <2>2. QED
    BY <1>4, <1>5, <2>1 DEF NoLineFeed
<1>6. RestOf(c)[m] = RestOf(bytes)[m + 1] /\ \A p \in 0..m : RestOf(c)[p] = RestOf(bytes)[p + 1]
  <2>1. \A p \in 0..(Len(bytes) - 1) : RestOf(c)[p] = RestOf(bytes)[p + 1]
    BY <1>1, LaterLines
  <2>2. QED
    BY <1>1, <2>1
<1>7. ASSUME NEW x \in Seq(Byte), NEW t \in Seq(Seq(Byte)), NEW y \in Seq(Byte), y = After(x, 1)
      PROVE  [(<<x>> \o t) EXCEPT ![1] = After((<<x>> \o t)[1], 1)] = <<y>> \o t
  <2> DEFINE u == <<x>> \o t
             v == [u EXCEPT ![1] = After(u[1], 1)]
             w == <<y>> \o t
  <2>1. /\ u \in Seq(Seq(Byte)) /\ Len(u) = Len(t) + 1 /\ u[1] = x
        /\ \A k \in 1..Len(t) : u[k + 1] = t[k]
    BY OneBefore
  <2>2. /\ w \in Seq(Seq(Byte)) /\ Len(w) = Len(t) + 1 /\ w[1] = y
        /\ \A k \in 1..Len(t) : w[k + 1] = t[k]
    BY OneBefore
  <2> HIDE DEF u, w
  <2>3. Len(t) \in Nat
    OBVIOUS
  <2>4. 1 \in DOMAIN u
    BY <2>1, <2>3
  <2>5. v \in Seq(Seq(Byte)) /\ Len(v) = Len(u) /\ v[1] = y /\ \A k \in 2..Len(u) : v[k] = u[k]
    BY <1>7, <2>1, <2>4
  <2> HIDE DEF v
  <2>6. \A k \in 2..Len(u) : k - 1 \in 1..Len(t) /\ k - 1 + 1 = k
    BY <2>1, <2>3
  <2>7. \A k \in 2..Len(u) : v[k] = w[k]
    BY <2>1, <2>2, <2>5, <2>6
  <2>8. \A k \in 1..Len(u) : k = 1 \/ k \in 2..Len(u)
    BY <2>1, <2>3
  <2>9. \A k \in 1..Len(u) : v[k] = w[k]
    BY <2>2, <2>5, <2>7, <2>8
  <2>10. v = w
    BY <2>1, <2>2, <2>5, <2>9, SeqEqual
  <2>11. QED
    BY <2>10 DEF v, u, w
<1> HIDE DEF c, m, sp, sc, L
<1>8. After(bytes, 0) = bytes /\ After(c, 0) = c
  BY <1>2 DEF After
<1>9. CASE NoLineFeed(c, 0, m)
  <2>1. NoLineFeed(bytes, 1, m + 1)
    BY <1>1, <1>2, <1>9
  <2>2. NoLineFeed(bytes, 0, L)
    BY <1>1, <1>5, <2>1
  <2>3. sc = <<c>>
    BY <1>1, <1>2, <1>3, <1>8, <1>9, LastLineLeft
  <2>4. sp = <<bytes>>
    BY <1>1, <1>3, <1>8, <2>2, LastLineLeft DEF L
  <2>5. << >> \in Seq(Seq(Byte)) /\ <<bytes>> \o << >> = <<bytes>> /\ <<c>> \o << >> = <<c>>
    BY <1>2
  <2>6. QED
    BY <1>2, <1>7, <2>3, <2>4, <2>5 DEF sp, sc, c
<1>10. CASE \E q \in (0 + 1)..m :
              /\ c[q] = LF /\ NoLineFeed(c, 0, q - 1)
              /\ RestOf(c)[0] = <<SubSeq(c, 0 + 1, q - 1)>> \o RestOf(c)[q]
  <2>1. PICK q \in 1..m :
          /\ c[q] = LF /\ NoLineFeed(c, 0, q - 1)
          /\ RestOf(c)[0] = <<SubSeq(c, 1, q - 1)>> \o RestOf(c)[q]
    BY <1>1, <1>10
  <2>2. /\ q \in Nat /\ q - 1 \in Nat /\ q - 1 <= m /\ q - 1 + 1 = q /\ q + 1 - 1 = q /\ q \in 0..m
        /\ q + 1 \in (0 + 1)..L /\ 0 + 1 = 1 /\ q \in 1..L /\ q + 1 \in 0..L /\ 0 <= q - 1 /\ q - 1 <= L - 1
    BY <1>1
  <2>3. bytes[q + 1] = LF
    BY <1>2, <2>1, <2>2
  <2>4. NoLineFeed(bytes, 1, q)
    <3>1. NoLineFeed(bytes, 0 + 1, q - 1 + 1)
      BY <1>2, <2>1, <2>2
    <3>2. QED
      BY <2>2, <3>1
  <2>5. NoLineFeed(bytes, 0, q + 1 - 1)
    BY <1>5, <2>2, <2>4
  <2>6. RestOf(bytes)[0] = <<SubSeq(bytes, 0 + 1, q + 1 - 1)>> \o RestOf(bytes)[q + 1]
    <3> DEFINE r == q + 1
               z == 0
    <3>1. r \in (z + 1)..Len(bytes) /\ bytes[r] = LF /\ NoLineFeed(bytes, z, r - 1) /\ z \in 0..(Len(bytes) - 1)
      BY <1>1, <2>2, <2>3, <2>5 DEF L
    <3> HIDE DEF r, z
    <3>2. RestOf(bytes)[z] = <<SubSeq(bytes, z + 1, r - 1)>> \o RestOf(bytes)[r]
      BY <3>1, LineLeft
    <3>3. QED
      BY <3>2 DEF r, z
  <2>7. sp = <<SubSeq(bytes, 1, q)>> \o RestOf(bytes)[q + 1]
    BY <1>3, <2>2, <2>6
  <2>8. sc = <<SubSeq(c, 1, q - 1)>> \o RestOf(bytes)[q + 1]
    BY <1>3, <1>6, <2>1, <2>2
  <2>9. SubSeq(c, 1, q - 1) = After(SubSeq(bytes, 1, q), 1)
    <3> DEFINE b == q - 1
    <3>1. SubSeq(c, 1, b) = SubSeq(bytes, 2, q)
      <4>1. b \in Nat /\ 0 \in Nat /\ 0 <= b /\ b <= L - 1 /\ b + 1 = q
        BY <1>1, <2>2
      <4> HIDE DEF b
      <4>2. SubSeq(c, 0 + 1, b) = SubSeq(bytes, 0 + 2, b + 1)
        BY <1>1, <4>1, SameCut DEF c, L
      <4>3. QED
        BY <1>1, <4>1, <4>2
    <3>2. After(SubSeq(bytes, 1, q), 1) = SubSeq(bytes, 2, q)
      BY <2>2, AfterPrefix DEF L
    <3>3. QED
      BY <3>1, <3>2
  <2>10. SubSeq(bytes, 1, q) \in Seq(Byte) /\ SubSeq(c, 1, q - 1) \in Seq(Byte)
    <3>1. q - 1 \in Int /\ q - 1 <= Len(c) /\ q \in Int /\ q <= Len(bytes) /\ 1 \in Nat \ {0}
      BY <1>2, <2>2 DEF L
    <3>2. QED
      BY <1>2, <3>1, CutType
  <2>11. RestOf(bytes)[q + 1] \in Seq(Seq(Byte))
    BY <2>2, RestLines DEF L
  <2>12. [sp EXCEPT ![1] = After(sp[1], 1)] = sc
    <3> DEFINE x == SubSeq(bytes, 1, q)
               t == RestOf(bytes)[q + 1]
               y == SubSeq(c, 1, q - 1)
    <3>1. x \in Seq(Byte) /\ t \in Seq(Seq(Byte)) /\ y \in Seq(Byte) /\ y = After(x, 1)
      BY <2>9, <2>10, <2>11
    <3>2. sp = <<x>> \o t /\ sc = <<y>> \o t
      BY <2>7, <2>8
    <3> HIDE DEF x, t, y
    <3>3. [(<<x>> \o t) EXCEPT ![1] = After((<<x>> \o t)[1], 1)] = <<y>> \o t
      BY <1>7, <3>1
    <3>4. QED
      BY <3>2, <3>3
  <2>13. QED
    BY <2>12 DEF sp, sc, c
<1>11. \/ RestOf(c)[0] = <<After(c, 0)>> /\ NoLineFeed(c, 0, m)
       \/ \E q \in (0 + 1)..m :
            /\ c[q] = LF /\ NoLineFeed(c, 0, q - 1)
            /\ RestOf(c)[0] = <<SubSeq(c, 0 + 1, q - 1)>> \o RestOf(c)[q]
  BY <1>1, <1>2, NextLine
<1>12. QED
  BY <1>9, <1>10, <1>11

\* Every line from position p on ends in a CR, as the C program finds by
\* looking at the byte before each newline and at the last byte.
CrFrom(bytes, p) ==
  p < Len(bytes) =>
    /\ \A j \in (p + 1)..Len(bytes) : bytes[j] = LF => j > p + 1 /\ bytes[j - 1] = CR
    /\ bytes[Len(bytes)] \in {CR, LF}

AllEndInCr(ls) == \A k \in 1..Len(ls) : EndsInCr(ls[k])

LEMMA OneMoreEndsInCr ==
  ASSUME NEW x \in Seq(Byte), NEW t \in Seq(Seq(Byte))
  PROVE  AllEndInCr(<<x>> \o t) <=> EndsInCr(x) /\ AllEndInCr(t)
<1> DEFINE u == <<x>> \o t
<1>1. /\ u \in Seq(Seq(Byte)) /\ Len(u) = Len(t) + 1 /\ u[1] = x
      /\ \A k \in 1..Len(t) : u[k + 1] = t[k]
  BY OneBefore
<1>2. Len(t) \in Nat
  OBVIOUS
<1> HIDE DEF u
<1>3. ASSUME AllEndInCr(u) PROVE EndsInCr(x) /\ AllEndInCr(t)
  <2>1. 1 \in 1..Len(u) /\ \A k \in 1..Len(t) : k + 1 \in 1..Len(u)
    BY <1>1, <1>2
  <2>2. QED
    BY <1>1, <1>3, <2>1 DEF AllEndInCr
<1>4. ASSUME EndsInCr(x), AllEndInCr(t) PROVE AllEndInCr(u)
  <2>1. \A k \in 1..Len(u) : k = 1 \/ (k - 1 \in 1..Len(t) /\ k - 1 + 1 = k)
    BY <1>1, <1>2
  <2>2. QED
    BY <1>1, <1>4, <2>1 DEF AllEndInCr
<1>5. QED
  BY <1>3, <1>4 DEF u

LEMMA PieceEndsInCr ==
  ASSUME NEW bytes \in Seq(Byte), NEW p \in Nat, NEW q \in Nat, p <= q, q <= Len(bytes)
  PROVE  /\ SubSeq(bytes, p + 1, q) \in Seq(Byte)
         /\ EndsInCr(SubSeq(bytes, p + 1, q)) <=> p < q /\ bytes[q] = CR
<1> DEFINE x == SubSeq(bytes, p + 1, q)
<1>1. x \in Seq(Byte) /\ Len(x) = q - p
  <2>1. x \in Seq(Byte)
    BY CutType
  <2>2. Len(x) = q - p
    OBVIOUS
  <2>3. QED
    BY <2>1, <2>2
<1>2. p < q => x[q - p] = bytes[q]
  OBVIOUS
<1> HIDE DEF x
<1>3. x = << >> <=> p = q
  BY <1>1
<1>4. QED
  BY <1>1, <1>2, <1>3 DEF EndsInCr, x

LEMMA CrOnEveryLine ==
  ASSUME NEW bytes \in Seq(Byte)
  PROVE  AllEndInCr(SplitLines(bytes)) <=> CrFrom(bytes, 0)
<1> DEFINE m == Len(bytes)
           T == {p \in 0..m : AllEndInCr(RestOf(bytes)[p]) <=> CrFrom(bytes, p)}
<1>1. m \in Nat
  OBVIOUS
<1>2. m \in T
  <2>1. RestOf(bytes)[m] = << >>
    BY NothingBehind
  <2>2. AllEndInCr(RestOf(bytes)[m])
    BY <2>1 DEF AllEndInCr
  <2>3. CrFrom(bytes, m)
    BY <1>1 DEF CrFrom
  <2>4. QED
    BY <1>1, <2>2, <2>3
<1>3. ASSUME NEW p \in 0..(m - 1), \A q \in (p + 1)..m : q \in T PROVE p \in T
  <2>1. p \in Nat /\ p < m /\ p <= m /\ m <= m /\ p \in 0..m /\ p \in 0..(Len(bytes) - 1)
    BY <1>1
  <2>2. CASE NoLineFeed(bytes, p, m) /\ RestOf(bytes)[p] = <<After(bytes, p)>>
    <3>1. After(bytes, p) \in Seq(Byte) /\ (EndsInCr(After(bytes, p)) <=> bytes[m] = CR)
      BY <1>1, <2>1, PieceEndsInCr DEF After
    <3>2. << >> \in Seq(Seq(Byte)) /\ AllEndInCr(<< >>) /\ <<After(bytes, p)>> \o << >> = <<After(bytes, p)>>
      BY DEF AllEndInCr
    <3>3. AllEndInCr(RestOf(bytes)[p]) <=> bytes[m] = CR
      <4> DEFINE x == After(bytes, p)
      <4> HIDE DEF x
      <4>1. AllEndInCr(<<x>> \o << >>) <=> EndsInCr(x) /\ AllEndInCr(<< >>)
        BY <3>1, <3>2, OneMoreEndsInCr DEF x
      <4>2. QED
        BY <2>2, <3>1, <3>2, <4>1 DEF x
    <3>4. m \in (p + 1)..m
      BY <1>1, <2>1
    <3>5. bytes[m] # LF
      BY <2>2, <3>4 DEF NoLineFeed
    <3>6. CrFrom(bytes, p) <=> bytes[m] = CR
      BY <2>1, <2>2, <3>5 DEF CrFrom, NoLineFeed
    <3>7. QED
      BY <2>1, <3>3, <3>6
  <2>3. CASE \E q \in (p + 1)..m :
               /\ bytes[q] = LF /\ NoLineFeed(bytes, p, q - 1)
               /\ RestOf(bytes)[p] = <<SubSeq(bytes, p + 1, q - 1)>> \o RestOf(bytes)[q]
    <3>1. PICK q \in (p + 1)..m :
            /\ bytes[q] = LF /\ NoLineFeed(bytes, p, q - 1)
            /\ RestOf(bytes)[p] = <<SubSeq(bytes, p + 1, q - 1)>> \o RestOf(bytes)[q]
      BY <2>3
    <3>2. q \in Nat /\ q - 1 \in Nat /\ p <= q - 1 /\ q - 1 <= m /\ q <= m /\ q \in 0..m
      BY <1>1, <2>1
    <3>3. /\ SubSeq(bytes, p + 1, q - 1) \in Seq(Byte)
          /\ EndsInCr(SubSeq(bytes, p + 1, q - 1)) <=> p < q - 1 /\ bytes[q - 1] = CR
      BY <2>1, <3>2, PieceEndsInCr
    <3>4. RestOf(bytes)[q] \in Seq(Seq(Byte))
      BY <3>2, RestLines
    <3>5. AllEndInCr(RestOf(bytes)[q]) <=> CrFrom(bytes, q)
      BY <1>3
    <3>6. AllEndInCr(RestOf(bytes)[p]) <=> (p < q - 1 /\ bytes[q - 1] = CR) /\ CrFrom(bytes, q)
      <4> DEFINE x == SubSeq(bytes, p + 1, q - 1)
                 t == RestOf(bytes)[q]
      <4>1. x \in Seq(Byte) /\ t \in Seq(Seq(Byte)) /\ RestOf(bytes)[p] = <<x>> \o t
        BY <3>1, <3>3, <3>4
      <4>2. EndsInCr(x) <=> p < q - 1 /\ bytes[q - 1] = CR
        BY <3>3
      <4>3. AllEndInCr(t) <=> CrFrom(bytes, q)
        BY <3>5
      <4> HIDE DEF x, t
      <4>4. AllEndInCr(<<x>> \o t) <=> EndsInCr(x) /\ AllEndInCr(t)
        BY <4>1, OneMoreEndsInCr
      <4>5. QED
        BY <4>1, <4>2, <4>3, <4>4
    <3> HIDE DEF m
    <3>7. ASSUME CrFrom(bytes, p) PROVE p < q - 1 /\ bytes[q - 1] = CR /\ CrFrom(bytes, q)
      <4>1. /\ \A j \in (p + 1)..m : bytes[j] = LF => j > p + 1 /\ bytes[j - 1] = CR
            /\ bytes[m] \in {CR, LF}
        BY <2>1, <3>7 DEF CrFrom, m
      <4>2. p < q - 1 /\ bytes[q - 1] = CR
        <5>1. q > p + 1 /\ bytes[q - 1] = CR
          BY <3>1, <4>1
        <5>2. QED
          BY <2>1, <3>2, <5>1
      <4>3. ASSUME NEW j \in (q + 1)..m, bytes[j] = LF PROVE j > q + 1 /\ bytes[j - 1] = CR
        <5>1. j \in (p + 1)..m /\ j \in Nat
          BY <2>1, <3>2
        <5>2. bytes[j - 1] = CR
          BY <4>1, <4>3, <5>1
        <5>3. j # q + 1
          <6>1. j = q + 1 => j - 1 = q
            BY <3>2
          <6>2. QED
            BY <3>1, <5>2, <6>1, SpecialBytes
        <5>4. QED
          BY <3>2, <5>1, <5>2, <5>3
      <4>4. QED
        BY <4>1, <4>2, <4>3 DEF CrFrom, m
    <3>8. ASSUME p < q - 1, bytes[q - 1] = CR, CrFrom(bytes, q) PROVE CrFrom(bytes, p)
      <4>1. ASSUME NEW j \in (p + 1)..m, bytes[j] = LF PROVE j > p + 1 /\ bytes[j - 1] = CR
        <5>1. j \in Nat /\ (j \in (p + 1)..(q - 1) \/ j = q \/ j \in (q + 1)..m)
          BY <2>1, <3>2
        <5>2. CASE j \in (p + 1)..(q - 1)
          BY <3>1, <4>1, <5>2 DEF NoLineFeed
        <5>3. CASE j = q
          BY <2>1, <3>2, <3>8, <5>3
        <5>4. CASE j \in (q + 1)..m
          <6>1. q < m
            BY <1>1, <3>2, <5>4
          <6>2. j > q + 1 /\ bytes[j - 1] = CR
            BY <3>8, <4>1, <5>4, <6>1 DEF CrFrom, m
          <6>3. QED
            BY <2>1, <3>2, <5>1, <6>2
        <5>5. QED
          BY <5>1, <5>2, <5>3, <5>4
      <4>2. bytes[m] \in {CR, LF}
        <5>1. q = m \/ q < m
          BY <1>1, <3>2
        <5>2. QED
          BY <3>1, <3>8, <5>1 DEF CrFrom, m
      <4>3. QED
        BY <4>1, <4>2 DEF CrFrom, m
    <3>9. AllEndInCr(RestOf(bytes)[p]) <=> CrFrom(bytes, p)
      BY <3>6, <3>7, <3>8
    <3>10. QED
      BY <2>1, <3>9
  <2>4. QED
    BY <2>1, <2>2, <2>3, NextLine
<1> HIDE DEF m, T
<1>4. 0..m \subseteq T
  BY <1>1, <1>2, <1>3, FromTheEnd
<1>5. 0 \in 0..m
  BY <1>1
<1>6. AllEndInCr(RestOf(bytes)[0]) <=> CrFrom(bytes, 0)
  BY <1>4, <1>5 DEF T
<1>7. QED
  BY <1>6, RestIs

-----------------------------------------------------------------------------
(* The pre-passes of the reference and the bytes that are scanned. *)

LEMMA DropIsCut ==
  ASSUME NEW s \in Seq(Byte), s # << >>
  PROVE  /\ DropLast(s) = SubSeq(s, 1, Len(s) - 1)
         /\ DropLast(s) \in Seq(Byte) /\ Len(DropLast(s)) = Len(s) - 1
<1> DEFINE m == Len(s) - 1
           x == SubSeq(s, 1, m)
<1>1. m \in Nat /\ Len(s) = m + 1
  OBVIOUS
<1>2. x \in Seq(Byte)
  BY <1>1, CutType
<1>3. Len(x) = m
  BY <1>1
<1>4. \A i \in 1..m : x[i] = s[i]
  BY <1>1
<1>5. DropLast(s) = [i \in 1..m |-> s[0 + i]]
  BY DEF DropLast, Slice
<1>6. \A i \in 1..m : 0 + i = i /\ s[i] \in Byte
  BY <1>1
<1>7. [i \in 1..m |-> s[0 + i]] = [i \in 1..m |-> s[i]]
  BY <1>6
<1>8. [i \in 1..m |-> s[i]] \in Seq(Byte) /\ Len([i \in 1..m |-> s[i]]) = m
  BY <1>1, <1>6
<1> HIDE DEF x, m
<1>9. \A i \in 1..m : x[i] = [j \in 1..m |-> s[j]][i]
  BY <1>4
<1>10. x = [i \in 1..m |-> s[i]]
  BY <1>2, <1>3, <1>8, <1>9, SeqEqual
<1>11. QED
  BY <1>2, <1>3, <1>5, <1>7, <1>10 DEF x, m

\* What the C program scans, and the CRs it strips.
Scanned(o, bytes) == IF bytes # << >> /\ bytes[1] = BOM /\ o.bom = "strip" THEN After(bytes, 1) ELSE bytes

StripsCr(o, d) == o.crlf = "strip" /\ d # << >> /\ CrFrom(d, 0)

LEMMA ScannedType ==
  ASSUME NEW bytes \in Seq(Byte), NEW o
  PROVE  /\ Scanned(o, bytes) \in Seq(Byte) /\ Len(Scanned(o, bytes)) \in Nat
         /\ Len(bytes) \in Nat /\ Len(Scanned(o, bytes)) <= Len(bytes)
         /\ Scanned(o, bytes) # << >> =>
              bytes # << >> /\ Scanned(o, bytes)[Len(Scanned(o, bytes))] = bytes[Len(bytes)]
<1>1. CASE Scanned(o, bytes) = bytes
  BY <1>1
<1>2. CASE bytes # << >> /\ Scanned(o, bytes) = After(bytes, 1)
  <2> DEFINE c == After(bytes, 1)
  <2>1. Len(bytes) \in Nat \ {0} /\ Len(bytes) > 0
    BY <1>2
  <2>2. c \in Seq(Byte) /\ Len(c) = Len(bytes) - 1 /\ \A j \in 1..(Len(bytes) - 1) : c[j] = bytes[j + 1]
    BY <2>1, SameNewlines
  <2> HIDE DEF c
  <2>3. c # << >> => Len(bytes) - 1 \in 1..(Len(bytes) - 1) /\ Len(bytes) - 1 + 1 = Len(bytes)
    BY <2>1, <2>2
  <2>4. c # << >> => c[Len(c)] = bytes[Len(bytes)]
    BY <2>2, <2>3
  <2>5. Len(c) \in Nat /\ Len(c) <= Len(bytes)
    BY <2>1, <2>2
  <2>6. QED
    BY <1>2, <2>1, <2>2, <2>4, <2>5 DEF c
<1>3. QED
  BY <1>1, <1>2 DEF Scanned

LEMMA BomStripped ==
  ASSUME NEW bytes \in Seq(Byte), NEW o, Scanned(o, bytes) # << >>
  PROVE  StripBom(o, SplitLines(bytes)) = SplitLines(Scanned(o, bytes))
<1>1. StartsWithBom(SplitLines(bytes)) <=> bytes # << >> /\ bytes[1] = BOM
  BY BomFirst
<1>2. CASE bytes # << >> /\ bytes[1] = BOM /\ o.bom = "strip"
  <2>1. Scanned(o, bytes) = After(bytes, 1)
    BY <1>2 DEF Scanned
  <2>2. Len(bytes) > 0 /\ Len(bytes) \in Nat
    BY <1>2
  <2>3. After(bytes, 1) \in Seq(Byte) /\ Len(After(bytes, 1)) = Len(bytes) - 1
    BY <2>2, SameNewlines
  <2>4. Len(bytes) > 1
    BY <2>1, <2>2, <2>3
  <2>5. [SplitLines(bytes) EXCEPT ![1] = After(SplitLines(bytes)[1], 1)] = SplitLines(After(bytes, 1))
    BY <1>2, <2>4, WithoutBom
  <2>6. QED
    BY <1>1, <1>2, <2>1, <2>5 DEF StripBom
<1>3. CASE ~(bytes # << >> /\ bytes[1] = BOM /\ o.bom = "strip")
  BY <1>1, <1>3 DEF StripBom, Scanned
<1>4. QED
  BY <1>2, <1>3

\* The lines of the reference after its pre-passes are the lines of what the C
\* program scans, each without its CR if the program strips them.
LEMMA PrePassed ==
  ASSUME NEW bytes \in Seq(Byte), NEW o, Scanned(o, bytes) # << >>
  PROVE  LET d == Scanned(o, bytes)
         IN /\ Len(PrePasses(o, bytes)) = Len(SplitLines(d))
            /\ \A k \in 1..Len(SplitLines(d)) :
                 PrePasses(o, bytes)[k] = StripCr(SplitLines(d)[k], StripsCr(o, d))
<1> DEFINE d == Scanned(o, bytes)
           ls == SplitLines(d)
           pp == PrePasses(o, bytes)
<1>1. d \in Seq(Byte) /\ d # << >>
  BY ScannedType
<1>2. ls \in Seq(Seq(Byte)) /\ Len(ls) \in Nat
  <2> HIDE DEF d
  <2>1. ls \in Seq(Seq(Byte))
    BY <1>1, SplitLinesType
  <2>2. QED
    BY <2>1
<1>3. AllEndInCr(ls) <=> CrFrom(d, 0)
  <2> HIDE DEF d
  <2>1. QED
    BY <1>1, CrOnEveryLine
<1>4. pp = StripCrlf(o, ls)
  BY BomStripped DEF PrePasses
<1> HIDE DEF d, ls, pp
<1>5. CASE o.crlf = "strip" /\ AllEndInCr(ls)
  <2>1. pp = [k \in 1..Len(ls) |-> SubSeq(ls[k], 1, Len(ls[k]) - 1)]
    BY <1>4, <1>5 DEF StripCrlf, AllEndInCr
  <2>2. Len(pp) = Len(ls)
    BY <1>2, <2>1
  <2>3. StripsCr(o, d)
    BY <1>1, <1>3, <1>5 DEF StripsCr
  <2>4. ASSUME NEW k \in 1..Len(ls) PROVE pp[k] = StripCr(ls[k], StripsCr(o, d))
    <3>1. ls[k] \in Seq(Byte) /\ ls[k] # << >> /\ ls[k][Len(ls[k])] = CR
      BY <1>2, <1>5 DEF AllEndInCr, EndsInCr
    <3>2. Len(ls[k]) > 0
      BY <3>1
    <3>3. DropLast(ls[k]) = SubSeq(ls[k], 1, Len(ls[k]) - 1)
      BY <3>1, DropIsCut
    <3>4. QED
      BY <2>1, <2>3, <3>1, <3>2, <3>3 DEF StripCr
  <2>5. QED
    BY <2>2, <2>4 DEF d, ls, pp
<1>6. CASE ~(o.crlf = "strip" /\ AllEndInCr(ls))
  <2>1. pp = ls
    BY <1>4, <1>6 DEF StripCrlf, AllEndInCr
  <2>2. ~StripsCr(o, d)
    BY <1>3, <1>6 DEF StripsCr
  <2>3. QED
    BY <2>1, <2>2 DEF d, ls, pp, StripCr
<1>7. QED
  BY <1>5, <1>6

\* Of a file that is nothing but a byte order mark one empty line is left.
LEMMA NothingPrePassed ==
  ASSUME NEW bytes \in Seq(Byte), NEW o, Scanned(o, bytes) = << >>
  PROVE  PrePasses(o, bytes) \in {<< >>, << << >> >>}
<1>1. CASE bytes = << >>
  <2>1. Len(bytes) = 0
    BY <1>1
  <2>2. SplitLines(bytes) = << >>
    BY <2>1, NothingBehind, RestIs
  <2>3. StripBom(o, << >>) = << >>
    BY DEF StripBom, StartsWithBom
  <2>4. StripCrlf(o, << >>) = << >>
    BY DEF StripCrlf
  <2>5. QED
    BY <2>2, <2>3, <2>4 DEF PrePasses
<1>2. CASE bytes # << >>
  <2>1. bytes[1] = BOM /\ o.bom = "strip" /\ After(bytes, 1) = << >> /\ Len(bytes) \in Nat \ {0}
    BY <1>2 DEF Scanned
  <2>2. Len(After(bytes, 1)) = Len(bytes) - 1
    <3>1. Len(bytes) > 0
      BY <2>1
    <3>2. QED
      BY <3>1, SameNewlines
  <2>3. Len(bytes) = 1 /\ 0 \in 0..(Len(bytes) - 1)
    BY <2>1, <2>2
  <2>4. NoLineFeed(bytes, 0, Len(bytes))
    <3>1. \A j \in (0 + 1)..1 : j = 1
      OBVIOUS
    <3>2. QED
      BY <2>1, <2>3, <3>1, SyntaxBytes DEF NoLineFeed
  <2>5. After(bytes, 0) = bytes
    BY DEF After
  <2>6. SplitLines(bytes) = <<bytes>>
    BY <2>3, <2>4, <2>5, LastLineLeft, RestIs
  <2>7. StartsWithBom(<<bytes>>)
    BY <1>2, <2>1 DEF StartsWithBom
  <2>8. StripBom(o, <<bytes>>) = [<<bytes>> EXCEPT ![1] = << >>]
    BY <2>1, <2>7 DEF StripBom
  <2>9. [<<bytes>> EXCEPT ![1] = << >>] = << << >> >>
    OBVIOUS
  <2>10. ~EndsInCr(<< << >> >>[1]) /\ 1 \in 1..Len(<< << >> >>)
    BY DEF EndsInCr
  <2>11. StripCrlf(o, << << >> >>) = << << >> >>
    BY <2>10 DEF StripCrlf
  <2>12. QED
    BY <2>6, <2>8, <2>9, <2>11 DEF PrePasses
<1>3. QED
  BY <1>1, <1>2

-----------------------------------------------------------------------------
(* A line that is taken. *)

LEMMA CutAt ==
  ASSUME NEW S, NEW s \in Seq(S), NEW a \in Nat \ {0}, NEW b \in Nat, b <= Len(s), NEW i \in 1..(b - a + 1)
  PROVE  SubSeq(s, a, b)[i] = s[a + i - 1]
OBVIOUS

LEMMA SliceIsCut ==
  ASSUME NEW s \in Seq(Byte), NEW a \in Nat, NEW b \in Nat, a <= b, b <= Len(s)
  PROVE  /\ Slice(s, a, b - a) = SubSeq(s, a + 1, b)
         /\ SubSeq(s, a + 1, b) \in Seq(Byte) /\ Len(SubSeq(s, a + 1, b)) = b - a
<1> DEFINE x == SubSeq(s, a + 1, b)
           y == [i \in 1..(b - a) |-> s[a + i]]
<1>1. x \in Seq(Byte)
  BY CutType
<1>2. Len(x) = b - a
  OBVIOUS
<1>3. ASSUME NEW i \in 1..(b - a) PROVE x[i] = s[a + i]
  <2> DEFINE c == a + 1
  <2>1. c \in Nat \ {0} /\ b - c + 1 = b - a /\ c + i - 1 = a + i
    OBVIOUS
  <2>2. i \in 1..(b - c + 1)
    BY <2>1
  <2> HIDE DEF c, x
  <2>3. SubSeq(s, c, b)[i] = s[c + i - 1]
    BY <2>1, <2>2, CutAt
  <2>4. x[i] = s[c + i - 1]
    BY <2>3 DEF c, x
  <2>5. QED
    BY <2>1, <2>4
<1>4. \A i \in 1..(b - a) : s[a + i] \in Byte
  OBVIOUS
<1>5. b - a \in Nat
  OBVIOUS
<1>6. y \in Seq(Byte) /\ Len(y) = b - a /\ \A i \in 1..(b - a) : y[i] = s[a + i]
  BY <1>4, <1>5
<1> HIDE DEF x, y
<1>7. \A i \in 1..(b - a) : x[i] = y[i]
  BY <1>3, <1>6
<1>8. x = y
  BY <1>1, <1>2, <1>5, <1>6, <1>7, SeqEqual
<1>9. QED
  BY <1>1, <1>2, <1>8 DEF x, y, Slice

LEMMA FeedsPiece ==
  ASSUME NEW end
  PROVE  Feed!Piece(end) = StripCr(Slice(file, at, end - at), strip_cr)
BY DEF Feed!Piece, Feed!StripCr, Feed!DropLast, Feed!Slice, StripCr, DropLast, Slice

LEMMA StrippedType ==
  ASSUME NEW s \in Seq(Byte), NEW strip
  PROVE  StripCr(s, strip) \in Seq(Byte) /\ Len(StripCr(s, strip)) <= Len(s)
<1>1. Len(s) \in Nat
  OBVIOUS
<1>2. CASE StripCr(s, strip) = s
  BY <1>1, <1>2
<1>3. CASE Len(s) > 0 /\ StripCr(s, strip) = DropLast(s)
  <2>1. s # << >>
    BY <1>3
  <2>2. DropLast(s) \in Seq(Byte) /\ Len(DropLast(s)) = Len(s) - 1
    BY <2>1, DropIsCut
  <2>3. QED
    BY <1>1, <1>3, <2>2
<1>4. QED
  BY <1>2, <1>3 DEF StripCr

\* The line that is taken is the first of those that are left.
LEMMA LineTaken ==
  ASSUME DataInv, NEW end, Feed!Take(end)
  PROVE  /\ end \in at..Len(file) /\ at < Len(file) /\ at' \in 0..Len(file) /\ at \in 0..Len(file)
         /\ RestOf(file)[at] = <<Slice(file, at, end - at)>> \o RestOf(file)[at']
         /\ Slice(file, at, end - at) \in Seq(Byte) /\ Len(Slice(file, at, end - at)) = end - at
         /\ RestOf(file)[at'] \in Seq(Seq(Byte))
         /\ Feed!Terminated(end) => at' = end + 1 /\ file[at'] = LF
         /\ ~Feed!Terminated(end) => at' = end /\ end = Len(file) /\ RestOf(file)[at'] = << >>
<1>1. file \in Seq(Byte) /\ at \in 0..Len(file) /\ Len(file) \in Nat
  BY DEF DataInv
<1>2. /\ at < Len(file) /\ end \in at..Len(file) /\ at' = IF end < Len(file) THEN end + 1 ELSE end
      /\ \A i \in (at + 1)..end : file[i] # LF
      /\ end < Len(file) => file[end + 1] = LF
  BY DEF Feed!Take, Feed!EndsAt, Feed!Terminated
<1>3. at' \in 0..Len(file)
  BY <1>1, <1>2
<1>4. RestOf(file)[at'] \in Seq(Seq(Byte))
  BY <1>1, <1>3, RestLines
<1>5. /\ Slice(file, at, end - at) = SubSeq(file, at + 1, end)
      /\ SubSeq(file, at + 1, end) \in Seq(Byte) /\ Len(SubSeq(file, at + 1, end)) = end - at
  <2>1. at \in Nat /\ end \in Nat /\ at <= end /\ end <= Len(file)
    BY <1>1, <1>2
  <2>2. QED
    BY <1>1, <2>1, SliceIsCut
<1>6. NoLineFeed(file, at, end)
  BY <1>2 DEF NoLineFeed
<1>7. at \in 0..(Len(file) - 1)
  BY <1>1, <1>2
<1>8. CASE end < Len(file)
  <2> DEFINE q == end + 1
  <2>1. q \in (at + 1)..Len(file) /\ file[q] = LF /\ q - 1 = end /\ at' = q
    BY <1>1, <1>2, <1>8
  <2> HIDE DEF q
  <2>2. RestOf(file)[at] = <<SubSeq(file, at + 1, q - 1)>> \o RestOf(file)[q]
    BY <1>1, <1>6, <1>7, <2>1, LineLeft
  <2>3. at' = end + 1
    BY <2>1 DEF q
  <2>4. QED
    BY <1>1, <1>2, <1>3, <1>4, <1>5, <1>8, <2>1, <2>2, <2>3 DEF Feed!Terminated
<1>9. CASE ~(end < Len(file))
  <2>1. end = Len(file) /\ at' = end
    BY <1>1, <1>2, <1>9
  <2>2. RestOf(file)[at] = <<After(file, at)>>
    BY <1>1, <1>6, <1>7, <2>1, LastLineLeft
  <2>3. After(file, at) = SubSeq(file, at + 1, end)
    BY <2>1 DEF After
  <2>4. RestOf(file)[at'] = << >>
    BY <1>1, <2>1, NothingBehind
  <2>5. <<After(file, at)>> \o << >> = <<After(file, at)>>
    BY <1>5, <2>3
  <2>6. QED
    BY <1>1, <1>2, <1>3, <1>4, <1>5, <2>1, <2>2, <2>3, <2>4, <2>5, <1>9 DEF Feed!Terminated
<1>10. QED
  BY <1>8, <1>9
-----------------------------------------------------------------------------
(* Where the scan stands in the lines of the reference. *)

\* The lines that are left are those the reference has not taken.
Ahead ==
  /\ line_no + Remaining(at) = Len(RefLines)
  /\ \A k \in 1..Remaining(at) : RefLines[line_no + k] = StripCr(RestOf(file)[at][k], strip_cr)

\* The line being assembled is what the reference has joined so far.
Pending ==
  /\ RefLine \in 1..(line_no + 1)
  /\ partial = IF RefLine = line_no + 1 THEN << >> ELSE DropLast(Joined(RefLines, RefLine, line_no))
  /\ RefLine <= line_no => shell_cont /\ file[at] = LF
  /\ \A k \in RefLine..line_no : OddBackslashes(Joined(RefLines, RefLine, k))
  /\ Len(partial) <= at

MatchInv ==
  pc = "scan" =>
    /\ n <= Len(args) /\ args[n].kind = "file" /\ ~NulFound /\ ~(HasBom /\ opt.bom = "reject")
    /\ file = Scanned(opt, Bytes) /\ strip_cr = StripsCr(opt, file)
    /\ shell_cont = (~opt.native /\ opt.cont = "accept")
    /\ phase = "busy" => IF file = << >> THEN fed = << >> ELSE Ahead /\ Pending

\* Taking a line, the reader takes the next line of the reference.
LEMMA NextTaken ==
  ASSUME DataInv, MatchInv, pc = "scan", NEW end, Feed!Take(end)
  PROVE  /\ Ahead /\ Pending /\ line_no + 1 \in 1..Len(RefLines) /\ Len(RefLines) \in Nat /\ line_no \in Nat
         /\ Feed!Piece(end) = RefLines[line_no + 1] /\ Feed!Piece(end) \in Seq(Byte)
         /\ Len(Feed!Piece(end)) <= end - at
         /\ line_no + 1 + Remaining(at') = Len(RefLines)
         /\ \A k \in 1..Remaining(at') :
              RefLines[line_no + 1 + k] = StripCr(RestOf(file)[at'][k], strip_cr)
         /\ ~Feed!Terminated(end) => line_no + 1 = Len(RefLines)
<1> DEFINE x == Slice(file, at, end - at)
           t == RestOf(file)[at']
           r == RestOf(file)[at]
<1>1. /\ at < Len(file) /\ at' \in 0..Len(file) /\ at \in 0..Len(file)
      /\ r = <<x>> \o t /\ x \in Seq(Byte) /\ Len(x) = end - at /\ t \in Seq(Seq(Byte))
      /\ ~Feed!Terminated(end) => t = << >>
  BY LineTaken
<1>2. phase = "busy" /\ file # << >>
  <2>1. Len(<< >>) = 0 /\ Len(file) \in Nat
    BY DEF DataInv
  <2>2. QED
    BY <1>1, <2>1 DEF Feed!Take
<1>3. Ahead /\ Pending
  BY <1>2 DEF MatchInv
<1>4. line_no \in Nat
  BY DEF DataInv
<1>5. Remaining(at) = Len(r) /\ Remaining(at') = Len(t)
  BY DEF Remaining
<1>6. Feed!Piece(end) = StripCr(x, strip_cr)
  BY FeedsPiece
<1>7. StripCr(x, strip_cr) \in Seq(Byte) /\ Len(StripCr(x, strip_cr)) <= end - at
  BY <1>1, StrippedType
<1> HIDE DEF x, t, r
<1>8. r \in Seq(Seq(Byte)) /\ Len(r) = Len(t) + 1 /\ r[1] = x /\ \A k \in 1..Len(t) : r[k + 1] = t[k]
  BY <1>1, OneBefore
<1>9. Len(t) \in Nat
  BY <1>1
<1>10. line_no + Len(r) = Len(RefLines) /\ \A k \in 1..Len(r) : RefLines[line_no + k] = StripCr(r[k], strip_cr)
  BY <1>3, <1>5 DEF Ahead, r
<1>11. Len(RefLines) \in Nat /\ line_no + 1 \in 1..Len(RefLines) /\ line_no + 1 + Len(t) = Len(RefLines)
  BY <1>4, <1>8, <1>9, <1>10
<1>12. RefLines[line_no + 1] = StripCr(x, strip_cr)
  BY <1>8, <1>9, <1>10
<1>13. ASSUME NEW k \in 1..Len(t) PROVE RefLines[line_no + 1 + k] = StripCr(t[k], strip_cr)
  <2>1. k + 1 \in 1..Len(r) /\ line_no + (k + 1) = line_no + 1 + k
    BY <1>4, <1>8, <1>9
  <2>2. QED
    BY <1>8, <1>10, <2>1
<1>14. ~Feed!Terminated(end) => line_no + 1 = Len(RefLines)
  BY <1>1, <1>4, <1>11
<1>15. QED
  BY <1>3, <1>4, <1>5, <1>6, <1>7, <1>11, <1>12, <1>13, <1>14 DEF t

-----------------------------------------------------------------------------
(* The line that is assembled is the line the reference joins. *)

LEMMA ScannedArg ==
  ASSUME DataInv, MatchInv, pc = "scan"
  PROVE  /\ Bytes \in Seq(Byte) /\ RefLines = PrePasses(opt, Bytes)
         /\ RefLines \in Seq(Seq(Byte)) /\ Len(RefLines) \in Nat
         /\ opt.cont \in {"accept", "ignore"}
<1>1. args \in Seq([kind : {"file", "unreadable", "unnamed"}, bytes : Seq(Byte)]) /\ n \in Nat \ {0}
  BY ProgramInputs DEF DataInv
<1>2. n \in 1..Len(args)
  BY <1>1 DEF MatchInv
<1>3. args[n] \in [kind : {"file", "unreadable", "unnamed"}, bytes : Seq(Byte)]
  <2> DEFINE T == [kind : {"file", "unreadable", "unnamed"}, bytes : Seq(Byte)]
  <2>1. args \in Seq(T)
    BY <1>1
  <2> HIDE DEF T
  <2>2. args[n] \in T
    BY <1>2, <2>1
  <2>3. QED
    BY <2>2 DEF T
<1>4. Bytes \in Seq(Byte)
  BY <1>3 DEF Bytes
<1>5. RefLines = PrePasses(opt, Bytes)
  BY DEF RefLines
<1>6. PrePasses(opt, Bytes) \in Seq(Seq(Byte))
  <2> DEFINE b == Bytes
  <2>1. b \in Seq(Byte) /\ Byte \in SUBSET Byte
    BY <1>4
  <2> HIDE DEF b
  <2>2. PrePasses(opt, b) \in Seq(Seq(Byte))
    BY <2>1, PrePassesType
  <2>3. QED
    BY <2>2 DEF b
<1>7. RefLines \in Seq(Seq(Byte))
  BY <1>5, <1>6
<1>8. opt.cont \in {"accept", "ignore"}
  BY ProgramInputs DEF DataInv
<1>9. QED
  BY <1>4, <1>5, <1>7, <1>8

\* Joined with the next line, it is what the reference joins there.
LEMMA JoinedSoFar ==
  ASSUME DataInv, MatchInv, pc = "scan", NEW end, Feed!Take(end)
  PROVE  /\ RefLine \in 1..(line_no + 1) /\ RefLine \in 1..Len(RefLines) /\ line_no + 1 \in RefLine..Len(RefLines)
         /\ partial \o Feed!Piece(end) = Joined(RefLines, RefLine, line_no + 1)
         /\ RefLine = line_no + 1 => partial = << >>
<1> DEFINE a == RefLine
           ls == RefLines
           b == line_no + 1
           J(k) == Joined(ls, a, k)
<1>1. /\ Ahead /\ Pending /\ b \in 1..Len(ls) /\ Len(ls) \in Nat /\ line_no \in Nat
      /\ Feed!Piece(end) = ls[b] /\ Feed!Piece(end) \in Seq(Byte)
  BY NextTaken
<1>2. ls \in Seq(Seq(Byte))
  BY ScannedArg
<1>3. a \in 1..b /\ partial = (IF a = b THEN << >> ELSE DropLast(J(line_no)))
      /\ \A k \in a..line_no : OddBackslashes(J(k))
  BY <1>1 DEF Pending
<1> HIDE DEF a, ls
<1>4. a \in 1..Len(ls) /\ b \in a..Len(ls) /\ b - 1 = line_no
  BY <1>1, <1>3
<1>5. /\ b = a => J(b) = ls[a]
      /\ b > a => J(b) = SubSeq(J(line_no), 1, Len(J(line_no)) - 1) \o ls[b]
  <2> HIDE DEF b
  <2>1. /\ b = a => Joined(ls, a, b) = ls[a]
        /\ b > a => Joined(ls, a, b) = SubSeq(Joined(ls, a, b - 1), 1, Len(Joined(ls, a, b - 1)) - 1) \o ls[b]
    BY <1>2, <1>4, JoinedStep
  <2>2. QED
    BY <1>4, <2>1
<1>6. CASE a = b
  <2>1. partial = << >> /\ J(b) = ls[b]
    BY <1>3, <1>5, <1>6
  <2>2. << >> \o ls[b] = ls[b]
    BY <1>1
  <2>3. QED
    BY <1>1, <1>3, <1>4, <2>1, <2>2 DEF a, ls
<1>7. CASE a # b
  <2>1. line_no \in a..line_no /\ line_no \in a..Len(ls) /\ b > a
    BY <1>1, <1>3, <1>4, <1>7
  <2>2. OddBackslashes(J(line_no)) /\ J(line_no) \in Seq(Byte)
    BY <1>2, <1>3, <1>4, <2>1, JoinedType
  <2>3. J(line_no) # << >>
    <3>1. Len(J(line_no)) # 0
      BY <2>2 DEF OddBackslashes
    <3>2. QED
      BY <3>1
  <2>4. DropLast(J(line_no)) = SubSeq(J(line_no), 1, Len(J(line_no)) - 1)
    BY <2>2, <2>3, DropIsCut
  <2>5. partial = SubSeq(J(line_no), 1, Len(J(line_no)) - 1)
    BY <1>3, <1>7, <2>4
  <2>6. QED
    BY <1>1, <1>3, <1>4, <1>5, <1>7, <2>1, <2>5 DEF a, ls
<1>8. QED
  BY <1>6, <1>7

LEMMA FeedsOdd == \A s : Feed!OddBackslashes(s) <=> OddBackslashes(s)
BY DEF Feed!OddBackslashes, OddBackslashes

\* A line that is handed on is the next logical line of the reference.
LEMMA SameLine ==
  ASSUME DataInv, MatchInv, Agreed, pc = "scan", NEW end, Feed!FeedLine(end) \/ Feed!FeedJoined(end)
  PROVE  /\ RefLine \in 1..Len(RefLines)
         /\ LastLine(opt, RefLines, RefLine) = line_no + 1
         /\ fed' = Append(fed, [text |-> Joined(RefLines, RefLine, line_no + 1), no |-> line_no + 1])
         /\ partial' = << >>
<1> DEFINE a == RefLine
           ls == RefLines
           b == line_no + 1
<1>1. Feed!Take(end)
  BY DEF Feed!FeedLine, Feed!FeedJoined
<1>2. /\ Ahead /\ Pending /\ Len(ls) \in Nat /\ Feed!Piece(end) \in Seq(Byte)
      /\ ~Feed!Terminated(end) => b = Len(ls)
  BY <1>1, NextTaken
<1>3. /\ a \in 1..b /\ a \in 1..Len(ls) /\ b \in a..Len(ls)
      /\ partial \o Feed!Piece(end) = Joined(ls, a, b)
      /\ a = b => partial = << >>
  BY <1>1, JoinedSoFar
<1>4. opt.cont \in {"accept", "ignore"} /\ shell_cont = (~opt.native /\ opt.cont = "accept")
      /\ ~(opt.native /\ opt.cont = "accept")
  BY ScannedArg DEF MatchInv, Agreed, Compared, AllComparable
<1>5. (a <= line_no => shell_cont) /\ \A k \in a..line_no : OddBackslashes(Joined(ls, a, k))
  BY <1>2 DEF Pending
<1>6. line_no \in Nat
  BY DEF DataInv
<1> HIDE DEF a, ls
<1>7. fed' = Append(fed, [text |-> Joined(ls, a, b), no |-> b]) /\ partial' = << >>
      /\ (b = Len(ls) \/ opt.cont = "ignore" \/ ~OddBackslashes(Joined(ls, a, b)))
  <2>1. CASE Feed!FeedLine(end)
    <3>1. ~shell_cont /\ fed' = Append(fed, [text |-> Feed!Piece(end), no |-> b]) /\ partial' = partial
      BY <2>1 DEF Feed!FeedLine
    <3>2. a = b
      BY <1>3, <1>5, <1>6, <3>1
    <3>3. partial = << >> /\ Feed!Piece(end) = Joined(ls, a, b)
      BY <1>2, <1>3, <3>2
    <3>4. QED
      BY <1>4, <3>1, <3>3
  <2>2. CASE Feed!FeedJoined(end)
    <3>1. /\ fed' = Append(fed, [text |-> partial \o Feed!Piece(end), no |-> b]) /\ partial' = << >>
          /\ ~(OddBackslashes(partial \o Feed!Piece(end)) /\ Feed!Terminated(end))
      BY <2>2, FeedsOdd DEF Feed!FeedJoined, Feed!Continues
    <3>2. QED
      BY <1>2, <1>3, <3>1
  <2>3. QED
    BY <2>1, <2>2
<1>8. \A k \in a..(b - 1) : opt.cont = "accept" /\ OddBackslashes(Joined(ls, a, k))
  <2>1. \A k \in a..(b - 1) : k \in a..line_no /\ a <= line_no
    BY <1>3, <1>6
  <2>2. QED
    BY <1>4, <1>5, <2>1
<1> HIDE DEF b
<1>9. LastLine(opt, ls, a) = b
  BY <1>2, <1>3, <1>4, <1>7, <1>8, LastLineIs
<1>10. QED
  BY <1>3, <1>7, <1>9 DEF a, ls, b

-----------------------------------------------------------------------------
(* What taking a line does to the invariant. *)

ScanStep ==
  /\ pc = "scan" /\ pc' = pc /\ n' = n /\ UNCHANGED inputs
  /\ UNCHANGED <<file, strip_cr, shell_cont>>

LEMMA SameFile ==
  ASSUME MatchInv, ScanStep,
         phase' = "busy" => IF file = << >> THEN fed' = << >> ELSE Ahead' /\ Pending'
  PROVE  MatchInv'
BY DEF MatchInv, ScanStep, inputs, NulFound, HasBom, Bytes, Scanned, StripsCr

LEMMA SameLines ==
  ASSUME ScanStep
  PROVE  RefLines' = RefLines
BY DEF ScanStep, inputs, RefLines, Bytes

LEMMA AheadKeeps ==
  ASSUME DataInv, MatchInv, ScanStep, NEW end, Feed!Take(end)
  PROVE  Ahead'
<1>1. /\ line_no + 1 + Remaining(at') = Len(RefLines)
      /\ \A k \in 1..Remaining(at') :
           RefLines[line_no + 1 + k] = StripCr(RestOf(file)[at'][k], strip_cr)
  BY NextTaken DEF ScanStep
<1>2. line_no' = line_no + 1 /\ file' = file /\ strip_cr' = strip_cr /\ RefLines' = RefLines
  BY SameLines DEF ScanStep, Feed!Take
<1>3. Remaining(at)' = Remaining(at')
  BY <1>2 DEF Remaining
<1>4. RestOf(file)'[at'] = RestOf(file)[at']
  BY <1>2
<1>5. QED
  BY <1>1, <1>2, <1>3, <1>4 DEF Ahead

LEMMA SomethingTaken ==
  ASSUME DataInv, NEW end, Feed!Take(end)
  PROVE  file # << >>
<1>1. at < Len(file) /\ at \in 0..Len(file)
  BY LineTaken
<1>2. file \in Seq(Byte) /\ Len(<< >>) = 0
  BY DEF DataInv
<1>3. QED
  BY <1>1, <1>2

LEMMA LineMatches ==
  ASSUME DataInv, MatchInv, Agreed, ScanStep,
         NEW end, Feed!FeedLine(end) \/ Feed!FeedJoined(end)
  PROVE  MatchInv'
<1>1. Feed!Take(end)
  BY DEF Feed!FeedLine, Feed!FeedJoined
<1>2. Ahead'
  BY <1>1, AheadKeeps
<1>3. pc = "scan" /\ phase = "busy" /\ phase' = "busy" /\ line_no' = line_no + 1 /\ line_no \in Nat
  BY <1>1 DEF Feed!Take, ScanStep, DataInv
<1>4. fed' = Append(fed, [text |-> Joined(RefLines, RefLine, line_no + 1), no |-> line_no + 1]) /\ partial' = << >>
  BY <1>3, SameLine
<1>5. fed' # << >> /\ fed'[Len(fed')].no = line_no + 1
  <2> DEFINE x == [text |-> Joined(RefLines, RefLine, line_no + 1), no |-> line_no + 1]
  <2>1. x.no = line_no + 1
    OBVIOUS
  <2> HIDE DEF x
  <2>2. \E S : fed \in Seq(S)
    BY DEF DataInv
  <2>3. Len(fed') > 0 /\ fed'[Len(fed')] = x
    BY <1>4, <2>2 DEF x
  <2>4. QED
    BY <2>1, <2>3
<1>6. RefLine' = line_no' + 1
  BY <1>3, <1>5 DEF RefLine, ScanStep
<1>7. Len(partial') <= at'
  <2>1. at' \in 0..Len(file)
    BY <1>1, LineTaken
  <2>2. Len(partial') = 0 /\ Len(file) \in Nat
    BY <1>4 DEF DataInv
  <2>3. QED
    BY <2>1, <2>2
<1>8. Pending'
  <2>1. line_no' \in Nat
    BY <1>3
  <2>2. RefLine' \in 1..(line_no' + 1) /\ ~(RefLine' <= line_no') /\ RefLine'..line_no' = {}
    <3>1. \A k \in Nat : k + 1 \in 1..(k + 1) /\ ~(k + 1 <= k) /\ (k + 1)..k = {}
      OBVIOUS
    <3>2. QED
      BY <1>6, <2>1, <3>1
  <2>3. QED
    BY <1>4, <1>6, <1>7, <2>2 DEF Pending
<1>9. file # << >>
  BY <1>1, SomethingTaken
<1>10. QED
  BY <1>2, <1>8, <1>9, SameFile

LEMMA FeedsDrop == \A s : Feed!DropLast(s) = DropLast(s)
BY DEF Feed!DropLast, DropLast, Feed!Slice, Slice

LEMMA JoinMatches ==
  ASSUME DataInv, MatchInv, ScanStep, NEW end, Feed!JoinLine(end)
  PROVE  MatchInv' /\ RefLine' = RefLine
<1> DEFINE s == partial \o Feed!Piece(end)
           a == RefLine
           ls == RefLines
           b == line_no + 1
<1>1. /\ Feed!Take(end) /\ shell_cont /\ fed' = fed /\ partial' = DropLast(s)
      /\ OddBackslashes(s) /\ Feed!Terminated(end)
  BY FeedsOdd, FeedsDrop DEF Feed!JoinLine, Feed!Continues
<1>2. Ahead'
  BY <1>1, AheadKeeps
<1>3. /\ pc = "scan" /\ pc' = pc /\ phase = "busy" /\ phase' = phase /\ line_no' = b /\ line_no \in Nat
      /\ shell_cont' = shell_cont /\ file' = file
  BY <1>1 DEF Feed!Take, ScanStep, DataInv
<1>4. /\ Ahead /\ Pending /\ Feed!Piece(end) \in Seq(Byte) /\ Len(Feed!Piece(end)) <= end - at
  BY <1>1, <1>3, NextTaken
<1>5. a \in 1..b /\ s = Joined(ls, a, b)
  BY <1>1, <1>3, JoinedSoFar
<1>6. RefLine' = RefLine /\ RefLines' = RefLines
  BY <1>1, <1>3, SameLines DEF RefLine
<1>7. at' = end + 1 /\ file[at'] = LF /\ end \in at..Len(file) /\ at \in 0..Len(file) /\ file # << >>
  <2>2. file # << >>
    BY <1>1, SomethingTaken
  <2>3. QED
    BY <1>1, <2>2, LineTaken
<1>8. Len(partial') <= at'
  <2>1. partial \in Seq(Byte) /\ Len(partial) <= at
    BY <1>4 DEF DataInv, Pending
  <2>2. s \in Seq(Byte) /\ Len(s) = Len(partial) + Len(Feed!Piece(end))
    BY <1>4, <2>1
  <2>3. Len(partial) \in Nat /\ Len(Feed!Piece(end)) \in Nat /\ Len(s) \in Nat /\ at \in Nat /\ end \in Nat
    BY <1>4, <1>7, <2>1, <2>2
  <2>4. s # << >>
    <3>1. Len(s) # 0
      BY <1>1 DEF OddBackslashes
    <3>2. QED
      BY <3>1
  <2> HIDE DEF s
  <2>5. Len(partial') = Len(s) - 1
    BY <1>1, <2>2, <2>4, DropIsCut
  <2>6. QED
    BY <1>4, <1>7, <2>1, <2>2, <2>3, <2>5
<1>9. \A k \in a..b : OddBackslashes(Joined(ls, a, k))
  <2>1. \A k \in a..line_no : OddBackslashes(Joined(ls, a, k))
    BY <1>4 DEF Pending
  <2>2. \A k \in a..b : k \in a..line_no \/ k = b
    BY <1>3, <1>5
  <2>3. OddBackslashes(Joined(ls, a, b))
    BY <1>1, <1>5
  <2>4. QED
    BY <2>1, <2>2, <2>3
<1>10. Pending'
  <2>1. a \in 1..(b + 1) /\ a # b + 1
    BY <1>3, <1>5
  <2>2. partial' = DropLast(Joined(ls, a, b))
    BY <1>1, <1>5
  <2> HIDE DEF a, ls, b, s
  <2>3. RefLine' = a /\ RefLines' = ls
    BY <1>6 DEF a, ls
  <2>4. QED
    BY <1>1, <1>3, <1>7, <1>8, <1>9, <2>1, <2>2, <2>3 DEF Pending
<1>11. QED
  BY <1>2, <1>6, <1>7, <1>10, SameFile

-----------------------------------------------------------------------------
(* The ends and the beginning of a file. *)

\* If a line joined from others is continued, so is the last of them.
LEMMA LastIsOdd ==
  ASSUME NEW ls \in Seq(Seq(Byte)), NEW a \in 1..Len(ls), NEW b \in a..Len(ls),
         \A k \in a..b : OddBackslashes(Joined(ls, a, k))
  PROVE  OddBackslashes(ls[b])
<1>1. /\ b = a => Joined(ls, a, b) = ls[a]
      /\ b > a => Joined(ls, a, b) =
                    SubSeq(Joined(ls, a, b - 1), 1, Len(Joined(ls, a, b - 1)) - 1) \o ls[b]
  BY JoinedStep
<1>2. b \in a..b /\ b \in Nat /\ a \in Nat /\ ls[b] \in Seq(Byte)
  OBVIOUS
<1>3. CASE b = a
  BY <1>1, <1>2, <1>3
<1>4. CASE b > a
  <2> DEFINE c == b - 1
             s == Joined(ls, a, c)
  <2>1. c \in a..b /\ c \in a..Len(ls)
    BY <1>2, <1>4
  <2> HIDE DEF c
  <2>2. s \in Seq(Byte)
    BY <2>1, JoinedType
  <2>3. OddBackslashes(s)
    BY <2>1
  <2>4. OddBackslashes(Joined(ls, a, b))
    BY <1>2
  <2>5. Joined(ls, a, b) = SubSeq(s, 1, Len(s) - 1) \o ls[b]
    BY <1>1, <1>4 DEF c
  <2> HIDE DEF s
  <2>6. QED
    BY <1>2, <2>2, <2>3, <2>4, <2>5, OddJoined
<1>5. QED
  BY <1>2, <1>3, <1>4

\* At the end of the file the reference has no line left.
LEMMA NoneLeft ==
  ASSUME DataInv, MatchInv, Agreed, pc = "scan", Feed!Finish
  PROVE  IF file = << >> THEN fed = << >> ELSE RefLine = Len(RefLines) + 1
<1>1. phase = "busy" /\ at = Len(file)
  BY DEF Feed!Finish
<1>2. CASE file = << >>
  BY <1>1, <1>2 DEF MatchInv
<1>3. CASE file # << >>
  <2>1. Ahead /\ Pending
    BY <1>1, <1>3 DEF MatchInv
  <2>2. Remaining(at) = 0
    BY <1>1, NoneRemains
  <2>3. line_no \in Nat /\ line_no = Len(RefLines)
    BY <2>1, <2>2 DEF Ahead, DataInv
  <2>4. RefLine \in 1..(line_no + 1)
    BY <2>1 DEF Pending
  <2>5. ASSUME RefLine <= line_no PROVE FALSE
    <3>1. /\ shell_cont /\ file[at] = LF
          /\ \A k \in RefLine..line_no : OddBackslashes(Joined(RefLines, RefLine, k))
      BY <2>1, <2>5 DEF Pending
    <3>2. RefLine \in 1..Len(RefLines) /\ line_no \in RefLine..Len(RefLines)
      BY <2>3, <2>4, <2>5
    <3>3. OddBackslashes(RefLines[Len(RefLines)])
      BY <2>3, <3>1, <3>2, ScannedArg, LastIsOdd
    <3>4. opt.cont = "accept" /\ file = Scanned(opt, Bytes)
      BY <3>1 DEF MatchInv
    <3>5. Bytes # << >> /\ Bytes[Len(Bytes)] = LF
      BY <1>1, <1>3, <3>1, <3>4, ScannedArg, ScannedType
    <3>6. Dangles(opt, Bytes)
      BY <3>3, <3>4, <3>5, ScannedArg DEF Dangles
    <3>7. n \in 1..Len(args)
      BY ProgramInputs DEF DataInv, MatchInv
    <3>8. QED
      BY <3>6, <3>7 DEF Agreed, NoneDangles, Bytes
  <2>6. QED
    BY <1>3, <2>3, <2>4, <2>5
<1>4. QED
  BY <1>2, <1>3

\* No line of a file that is compared is too long.
LEMMA NeverTooLong ==
  ASSUME DataInv, MatchInv, Agreed
  PROVE  ~LineTooLong
<1> SUFFICES ASSUME LineTooLong PROVE FALSE
  OBVIOUS
<1>1. pc = "scan" /\ ((\E end : Feed!DropJoined(end)) \/ Feed!GiveUp)
  BY DEF LineTooLong
<1>2. n \in 1..Len(args)
  BY <1>1, ProgramInputs DEF DataInv, MatchInv
<1>3. Len(Bytes) <= WORK_BUF - READ_BUF
  BY <1>2 DEF Agreed, Compared, AllComparable, Comparable, FitsBuffers, Bytes
<1>4. file = Scanned(opt, Bytes) /\ Bytes \in Seq(Byte)
  BY <1>1, ScannedArg DEF MatchInv
<1>5. Len(file) \in Nat /\ Len(Bytes) \in Nat /\ Len(file) <= Len(Bytes)
  BY <1>4, ScannedType
<1>6. at \in 0..Len(file) /\ WORK_BUF \in Nat /\ READ_BUF \in Nat
  BY BufferSizes DEF DataInv
<1>7. CASE Feed!GiveUp
  <2>1. at + (WORK_BUF - READ_BUF) < Len(file)
    BY <1>7 DEF Feed!GiveUp
  <2>2. QED
    BY <1>3, <1>5, <1>6, <2>1
<1>8. CASE \E end : Feed!DropJoined(end)
  <2>1. PICK end : Feed!DropJoined(end)
    BY <1>8
  <2>2. Feed!Take(end) /\ ~(Len(partial) + Len(Feed!Piece(end)) <= WORK_BUF)
    BY <2>1 DEF Feed!DropJoined, Feed!Fits
  <2>3. Pending /\ Feed!Piece(end) \in Seq(Byte) /\ Len(Feed!Piece(end)) <= end - at
    BY <1>1, <2>2, NextTaken
  <2>4. Len(partial) <= at /\ partial \in Seq(Byte)
    BY <2>3 DEF Pending, DataInv
  <2>5. end \in at..Len(file)
    BY <2>2, LineTaken
  <2>6. Len(partial) \in Nat /\ Len(Feed!Piece(end)) \in Nat
    BY <2>3, <2>4
  <2>7. QED
    BY <1>3, <1>5, <1>6, <2>2, <2>3, <2>4, <2>5, <2>6
<1>9. QED
  BY <1>1, <1>7, <1>8

LEMMA DataIsScanned == Data = Scanned(opt, Bytes)
BY DEF Data, HasBom, Scanned

LEMMA CrFound ==
  ASSUME Bytes \in Seq(Byte)
  PROVE  (opt.crlf = "strip" /\ AllRecordsHaveTrailingCr) = StripsCr(opt, Data)
<1> DEFINE d == Data
<1>1. d \in Seq(Byte)
  BY DataIsScanned, ScannedType
<1>2. AllRecordsHaveTrailingCr <=>
        /\ d # << >>
        /\ \A j \in 1..Len(d) : d[j] = LF => j > 1 /\ d[j - 1] = CR
        /\ d[Len(d)] \in {CR, LF}
  BY DEF AllRecordsHaveTrailingCr
<1> HIDE DEF d
<1>3. Len(d) \in Nat /\ (d # << >> <=> 0 < Len(d)) /\ 0 + 1 = 1
  BY <1>1
<1>4. CrFrom(d, 0) <=>
        (0 < Len(d) =>
           /\ \A j \in 1..Len(d) : d[j] = LF => j > 1 /\ d[j - 1] = CR
           /\ d[Len(d)] \in {CR, LF})
  BY <1>3 DEF CrFrom
<1>5. AllRecordsHaveTrailingCr <=> d # << >> /\ CrFrom(d, 0)
  BY <1>2, <1>3, <1>4
<1>6. QED
  BY <1>5 DEF StripsCr, d

LEMMA OpensMatching ==
  ASSUME DataInv, ScanFile
  PROVE  MatchInv'
<1>1. AtFile /\ Bytes \in Seq(Byte)
  BY ArgType DEF ScanFile
<1>2. /\ n <= Len(args) /\ args[n].kind = "file" /\ ~NulFound /\ ~(HasBom /\ opt.bom = "reject")
      /\ pc' = "scan" /\ UNCHANGED <<opt, args, environ, scarce, n>>
      /\ file' = Data /\ strip_cr' = (opt.crlf = "strip" /\ AllRecordsHaveTrailingCr)
      /\ shell_cont' = (~opt.native /\ opt.cont = "accept")
      /\ at' = 0 /\ partial' = << >> /\ line_no' = 0 /\ fed' = << >>
  BY DEF ScanFile, AtFile, inputs
<1>3. Bytes' = Bytes
  BY <1>2 DEF Bytes
<1>4. NulFound' = NulFound /\ HasBom' = HasBom
  BY <1>2, <1>3 DEF NulFound, HasBom
<1>5. file' = Scanned(opt, Bytes) /\ strip_cr' = StripsCr(opt, file')
  BY <1>1, <1>2, DataIsScanned, CrFound
<1>6. RefLine' = 1 \/ phase' # "busy"
  BY <1>2 DEF RefLine
<1>7. RefLines' = PrePasses(opt, Bytes)
  BY <1>2, <1>3 DEF RefLines
<1>8. ASSUME phase' = "busy", file' # << >> PROVE Ahead' /\ Pending'
  <2> DEFINE d == Scanned(opt, Bytes)
             sp == SplitLines(d)
  <2>1. d # << >> /\ d \in Seq(Byte)
    BY <1>1, <1>5, <1>8, ScannedType
  <2>2. /\ Len(PrePasses(opt, Bytes)) = Len(sp)
        /\ \A k \in 1..Len(sp) : PrePasses(opt, Bytes)[k] = StripCr(sp[k], StripsCr(opt, d))
    BY <1>1, <2>1, PrePassed
  <2> HIDE DEF d
  <2>3. RestOf(d)[0] = sp
    BY <2>1, RestIs
  <2>4. RestOf(file)'[at'] = sp /\ Remaining(at)' = Len(sp)
    BY <1>2, <1>5, <2>3 DEF Remaining, d
  <2>5. sp \in Seq(Seq(Byte))
    BY <2>1, SplitLinesType
  <2> HIDE DEF sp
  <2>6. Len(sp) \in Nat /\ \A k \in 1..Len(sp) : 0 + k = k
    BY <2>5
  <2>7. 0 + Len(sp) = Len(sp)
    BY <2>6
  <2>8. Ahead'
    BY <1>2, <1>5, <1>7, <2>2, <2>4, <2>6, <2>7 DEF Ahead, d
  <2>9. RefLine' = 1
    BY <1>6, <1>8
  <2>10. 1 \in 1..(0 + 1) /\ 1 = 0 + 1 /\ ~(1 <= 0) /\ 1..0 = {} /\ Len(<< >>) <= 0
    OBVIOUS
  <2>11. Pending'
    BY <1>2, <2>9, <2>10 DEF Pending
  <2>12. QED
    BY <2>8, <2>11
<1>9. QED
  BY <1>2, <1>3, <1>4, <1>5, <1>8 DEF MatchInv

-----------------------------------------------------------------------------
(* The invariant is kept. *)

LEMMA FinishMatches ==
  ASSUME MatchInv, ScanStep, Feed!Finish
  PROVE  MatchInv'
<1>1. phase' = "done"
  BY DEF Feed!Finish
<1>2. QED
  BY <1>1, SameFile

LEMMA LineStepScans ==
  ASSUME LineStep
  PROVE  /\ ScanLine /\ pc = "scan" /\ UNCHANGED <<pc, inputs, n, total, listing, status>>
         /\ \E end : Feed!FeedLine(end) \/ Feed!FeedJoined(end)
<1>1. ScanLine
  BY DEF LineStep, SkipLine, NormalizeLine, RejectLine, ValidateLine, DumpLine, DeltaLine, DeltaMemory, Accept
<1>2. QED
  BY <1>1 DEF ScanLine

LEMMA OnlyScans ==
  ASSUME pc = "scan", UNCHANGED <<pc, inputs, n>>, UNCHANGED <<file, strip_cr, shell_cont>>
  PROVE  ScanStep
BY DEF ScanStep

LEMMA MatchKeeps ==
  ASSUME DataInv, Agreed, MatchInv, [Next]_vars
  PROVE  MatchInv'
<1>1. CASE Fatal \/ FatalMemory \/ InitFromProcess \/ EndFile \/ Exit
  <2>1. pc' # "scan"
    BY <1>1 DEF Fatal, FatalMemory, InitFromProcess, EndFile, Exit
  <2>2. QED
    BY <2>1 DEF MatchInv
<1>2. CASE CannotOpen \/ RejectNul \/ RejectBom \/ FileMemory
  <2>1. pc' # "scan"
    BY <1>2 DEF CannotOpen, RejectNul, RejectBom, FileMemory, DropFile, AtFile
  <2>2. QED
    BY <2>1 DEF MatchInv
<1>3. CASE ScanFile
  BY <1>3, OpensMatching
<1>4. CASE ScanOn
  <2>1. pc = "scan" /\ UNCHANGED <<pc, inputs, n>> /\ ((\E end : Feed!JoinLine(end)) \/ Feed!Finish)
    BY <1>4 DEF ScanOn
  <2>2. UNCHANGED <<file, strip_cr, shell_cont>>
    BY <2>1 DEF Feed!JoinLine, Feed!Finish, Feed!Take
  <2>3. ScanStep
    BY <2>1, <2>2, OnlyScans
  <2>4. QED
    BY <2>1, <2>3, JoinMatches, FinishMatches
<1>5. CASE LineTooLong
  BY <1>5, NeverTooLong
<1>6. CASE LineStep
  <2>1. PICK end : Feed!FeedLine(end) \/ Feed!FeedJoined(end)
    BY <1>6, LineStepScans
  <2>2. pc = "scan" /\ UNCHANGED <<pc, inputs, n>>
    BY <1>6, LineStepScans
  <2>3. UNCHANGED <<file, strip_cr, shell_cont>>
    BY <2>1 DEF Feed!FeedLine, Feed!FeedJoined, Feed!Take
  <2>4. ScanStep
    BY <2>2, <2>3, OnlyScans
  <2>5. QED
    BY <2>1, <2>4, LineMatches
<1>7. CASE UNCHANGED vars
  <2>1. /\ UNCHANGED <<pc, opt, args, environ, scarce, n, phase, file, strip_cr, shell_cont>>
        /\ UNCHANGED <<at, partial, line_no, fed>>
    BY <1>7 DEF vars, inputs, scanner
  <2>2. Bytes' = Bytes /\ RefLines' = RefLines /\ RefLine' = RefLine /\ Remaining(at)' = Remaining(at)
    BY <2>1 DEF Bytes, RefLines, RefLine, Remaining
  <2>3. (NulFound <=> NulFound') /\ (HasBom <=> HasBom')
    BY <2>1, <2>2 DEF NulFound, HasBom
  <2>4. (Ahead => Ahead') /\ (Pending => Pending')
    BY <2>1, <2>2 DEF Ahead, Pending
  <2>5. QED
    BY <2>1, <2>2, <2>3, <2>4 DEF MatchInv
<1>8. QED
  BY <1>1, <1>2, <1>3, <1>4, <1>5, <1>6, <1>7 DEF Next, LineStep
-----------------------------------------------------------------------------
(* The reference's operators, seen from here. *)

LEMMA SameFinds ==
  /\ \A s, c : Ref!Has(s, c) <=> Has(s, c)
  /\ \A s, c : Ref!Index(s, c) = Index(s, c)
  /\ \A s, m : Ref!After(s, m) = After(s, m)
  /\ \A s, strip : Ref!StripCr(s, strip) = StripCr(s, strip)
  /\ \A s : Ref!OddBackslashes(s) <=> OddBackslashes(s)
  /\ \A s : Ref!IsName(s) <=> IsName(s)
  /\ \A s, m : Ref!NameLength(s, m) = NameLength(s, m)
<1>1. \A s, c : Ref!Has(s, c) <=> Has(s, c)
  BY DEF Ref!Has, Has
<1>2. \A s, c : Ref!Index(s, c) = Index(s, c)
  BY DEF Ref!Index, Index, Ref!Has, Has
<1>3. \A s, m : Ref!After(s, m) = After(s, m)
  BY DEF Ref!After, After
<1>4. \A s : Ref!DropLast(s) = DropLast(s)
  BY DEF Ref!DropLast, DropLast, Ref!Slice, Slice
<1>5. \A s, strip : Ref!StripCr(s, strip) = StripCr(s, strip)
  BY <1>4 DEF Ref!StripCr, StripCr
<1>6. \A s : Ref!OddBackslashes(s) <=> OddBackslashes(s)
  BY DEF Ref!OddBackslashes, OddBackslashes
<1>7. \A s : Ref!IsName(s) <=> IsName(s)
  BY DEF Ref!IsName, IsName
<1>8. \A s, m : Ref!NameLength(s, m) = NameLength(s, m)
  BY DEF Ref!NameLength, NameLength, Ref!IsName, IsName
<1>9. QED
  BY <1>1, <1>2, <1>3, <1>5, <1>6, <1>7, <1>8

LEMMA SameLogicalLines ==
  /\ \A ls, a, b : Ref!Joined(ls, a, b) = Joined(ls, a, b)
  /\ \A o, ls, a : Ref!LastLine(o, ls, a) = LastLine(o, ls, a)
<1>1. \A ls, a, b : Ref!Joined(ls, a, b) = Joined(ls, a, b)
  BY DEF Ref!Joined, Joined
<1>2. \A o, ls, a : Ref!LastLine(o, ls, a) = LastLine(o, ls, a)
  BY DEF Ref!Joined, Joined, LastLine, Ref!LastLine, OddBackslashes, Ref!OddBackslashes
<1>3. QED
  BY <1>1, <1>2

LEMMA SamePrePasses ==
  /\ \A ls : Ref!StartsWithBom(ls) <=> StartsWithBom(ls)
  /\ \A s : Ref!SplitLines(s) = SplitLines(s)
  /\ \A o, s : Ref!PrePasses(o, s) = PrePasses(o, s)
<1>1. \A s : Ref!SplitLines(s) = SplitLines(s)
  BY DEF Ref!SplitLines, SplitLines, Index, Ref!Index, Has, Ref!Has, After, Ref!After
<1>2. \A o, ls : Ref!StripBom(o, ls) = StripBom(o, ls)
  BY DEF Ref!StripBom, StripBom, Ref!StartsWithBom, StartsWithBom, Ref!After, After
<1>3. \A o, ls : Ref!StripCrlf(o, ls) = StripCrlf(o, ls)
  BY DEF Ref!StripCrlf, StripCrlf, Ref!EndsInCr, EndsInCr
<1>4. \A ls : Ref!StartsWithBom(ls) <=> StartsWithBom(ls)
  BY DEF Ref!StartsWithBom, StartsWithBom
<1>5. QED
  BY <1>1, <1>2, <1>3, <1>4 DEF Ref!PrePasses, PrePasses

LEMMA SameSubst == \A v, e : Ref!Subst(v, e) = Subst(v, e)
BY DEF Subst, Ref!Subst, Index, Ref!Index, Has, Ref!Has, After, Ref!After, NameLength, Ref!NameLength,
  Ref!IsName, IsName, Then, Ref!Then, Lookup, Ref!Lookup, Literally, Ref!Literally

LEMMA SameRecord ==
  /\ \A s : Ref!NotARecord(s) <=> NotARecord(s)
  /\ \A s : Ref!Key(s) = Key(s) /\ Ref!Value(s) = Value(s)
  /\ \A v, s : Ref!Fault(v, s) = Fault(v, s)
  /\ \A v, s : Ref!Parsed(v, s) = Parsed(v, s)
  /\ \A v, s : Ref!Substituted(v, s) <=> Substituted(v, s)
  /\ \A s : Ref!Literally(s) = Literally(s)
  /\ Ref!Sentinel = Sentinel
<1>1. \A s : Ref!NotARecord(s) <=> NotARecord(s)
  BY SameFinds DEF Ref!NotARecord, NotARecord
<1>2. \A s : Ref!Key(s) = Key(s) /\ Ref!Value(s) = Value(s)
  BY SameFinds DEF Ref!Key, Key, Ref!Value, Value
<1>3. \A v : (Ref!Quoted(v) <=> Quoted(v)) /\ Ref!Closing(v) = Closing(v)
  BY SameFinds DEF Ref!Quoted, Quoted, Ref!Closing, Closing
<1>4. \A v : Ref!ValueFault(v) = ValueFault(v) /\ Ref!Unquote(v) = Unquote(v)
  BY <1>3 DEF Ref!ValueFault, ValueFault, Ref!Unquote, Unquote
<1>5. \A k, v : Ref!ShellFault(k, v) = ShellFault(k, v)
  BY <1>4, SameFinds DEF Ref!ShellFault, ShellFault
<1>6. \A v, s : Ref!Fault(v, s) = Fault(v, s)
  BY <1>2, <1>5, SameFinds DEF Ref!Fault, Fault, Ref!NativeFault, NativeFault
<1>7. \A v, s : Ref!Parsed(v, s) = Parsed(v, s)
  BY <1>2, <1>4 DEF Ref!Parsed, Parsed
<1>8. \A v, s : Ref!Substituted(v, s) <=> Substituted(v, s)
  BY <1>2 DEF Ref!Substituted, Substituted
<1>9. \A s : Ref!Literally(s) = Literally(s)
  BY DEF Ref!Literally, Literally
<1>10. Ref!Sentinel = Sentinel
  BY DEF Ref!Sentinel, Sentinel
<1>11. QED
  BY <1>1, <1>2, <1>6, <1>7, <1>8, <1>9, <1>10

-----------------------------------------------------------------------------
(* Of a line both programs make the same. *)

LEMMA VerdictIs ==
  ASSUME NEW native, NEW s
  PROVE  /\ NotARecord(s) => AwkVerdict(native, s).status = "SKIP"
         /\ ~NotARecord(s) /\ Fault(native, s) # "NONE" => AwkVerdict(native, s).status = Fault(native, s)
         /\ ~NotARecord(s) /\ Fault(native, s) = "NONE" =>
              /\ AwkVerdict(native, s).status = "OK"
              /\ AwkVerdict(native, s).key = Key(s) /\ AwkVerdict(native, s).value = Parsed(native, s)
              /\ AwkVerdict(native, s).kind = AwkKind(native, s)
BY DEF AwkVerdict, NoRecord, FillRecord

\* The C parser reports another fault first only of a line that has two.
LEMMA OtherIsSecond ==
  ASSUME NEW s \in Seq(Byte), OtherFaultFirst(s)
  PROVE  Has(s, EQ) /\ Fault(FALSE, s) = "VALUE_LEADING_WHITESPACE" /\ ~IsName(Key(s))
<1>1. ParseShell(s).status = "KEY_INVALID" /\ AwkVerdict(FALSE, s).status = "VALUE_LEADING_WHITESPACE"
  BY DEF OtherFaultFirst
<1>2. Fault(FALSE, s) = "VALUE_LEADING_WHITESPACE"
  BY <1>1, VerdictIs
<1>3. Has(s, EQ)
  BY <1>2 DEF Fault
<1>4. Key(s) \in Seq(Byte) /\ Value(s) \in Seq(Byte) /\ Index(s, EQ) # 0
  BY <1>3, Sides
<1>5. ShellValue(Key(s), Value(s)).status # "KEY_INVALID"
  <2>1. ValueFault(Value(s)) # "KEY_INVALID"
    BY DEF ValueFault
  <2>2. QED
    BY <1>4, <2>1, SameValues DEF NoRecord, FillRecord
<1>6. \A code : NoRecord(code).status = code
  BY DEF NoRecord
<1>7. KeyFault(Key(s)) = "KEY_INVALID"
  BY <1>1, <1>5, <1>6 DEF ParseShell, Key, Value
<1>8. ~IsName(Key(s))
  BY <1>4, <1>7, SameNames
<1>9. QED
  BY <1>2, <1>3, <1>8

\* Of a line that is compared both make the same.
LEMMA SameVerdict ==
  ASSUME NEW s \in Seq(Byte), ~Has(s, NUL), ~TwoFaults(opt, s), opt.native \in BOOLEAN
  PROVE  Parse(s) = AwkVerdict(opt.native, s)
<1>1. CASE opt.native
  BY <1>1, CNativeAsAwk DEF Parse
<1>2. CASE ~opt.native
  <2>1. ~OtherFaultFirst(s)
    BY <1>2, OtherIsSecond DEF TwoFaults
  <2>2. Parse(s) = AwkVerdict(FALSE, s)
    BY <1>2, <2>1, CShellAsAwk DEF Parse
  <2>3. opt.native = FALSE
    BY <1>2
  <2>4. QED
    BY <2>2, <2>3
<1>3. QED
  BY <1>1, <1>2

\* What is known of a line that is handed on, and of the step that does it.
LEMMA SameStep ==
  ASSUME DataInv, MatchInv, Agreed, LineStep
  PROVE  /\ Ref!Validate
         /\ Ref!lineno = rec.no /\ Ref!line = rec.text
         /\ rec.text \in Seq(Byte) /\ (BlankOrComment(rec.text) <=> NotARecord(rec.text))
         /\ Parse(rec.text) = AwkVerdict(opt.native, rec.text)
         /\ ~IsSentinel(opt, rec.text)
<1> DEFINE a == RefLine
           ls == RefLines
           b == line_no + 1
           text == Joined(ls, a, b)
<1>1. pc = "scan" /\ UNCHANGED <<pc, inputs, n, total, listing, status>>
  BY LineStepScans
<1>2. PICK end : Feed!FeedLine(end) \/ Feed!FeedJoined(end)
  BY LineStepScans
<1>3. a \in 1..Len(ls) /\ LastLine(opt, ls, a) = b /\ fed' = Append(fed, [text |-> text, no |-> b])
  BY <1>1, <1>2, SameLine
<1>4. phase' = "busy" /\ line_no \in Nat
  BY <1>2 DEF DataInv, Feed!FeedLine, Feed!FeedJoined, Feed!Take
<1>5. fed' # << >> /\ rec = [text |-> text, no |-> b]
  <2> DEFINE x == [text |-> text, no |-> b]
  <2> HIDE DEF x
  <2>1. \E S : fed \in Seq(S)
    BY DEF DataInv
  <2>2. fed' = Append(fed, x)
    BY <1>3 DEF x
  <2>3. Len(fed') > 0 /\ fed'[Len(fed')] = x
    BY <2>1, <2>2
  <2>4. QED
    BY <2>3 DEF x, rec
<1>6. rec.text = text /\ rec.no = b
  BY <1>5
<1>7. RefLines' = RefLines
  BY <1>1 DEF inputs, RefLines, Bytes
<1>8. RefLine' = b + 1
  BY <1>1, <1>4, <1>5, <1>6 DEF RefLine, rec
<1>9. Bytes \in Seq(Byte) /\ ls = PrePasses(opt, Bytes) /\ ls \in Seq(Seq(Byte)) /\ Len(ls) \in Nat
      /\ opt.cont \in {"accept", "ignore"}
  BY <1>1, ScannedArg
<1> HIDE DEF a, ls
<1>10. b \in a..Len(ls)
  BY <1>3, <1>9, LastLineFound
<1> HIDE DEF b
<1>11. Ref!lineno = rec.no /\ Ref!line = rec.text
  <2>1. Ref!lineno = LastLine(opt, ls, a)
    BY SameLogicalLines DEF Ref!lineno, ls, a
  <2>2. Ref!line = Joined(ls, a, Ref!lineno)
    BY SameLogicalLines DEF Ref!line, ls, a
  <2>3. QED
    BY <1>3, <1>6, <2>1, <2>2
<1>12. Ref!Validate
  <2>1. RefStage = "line" /\ RefStage' = "line"
    BY <1>1 DEF RefStage
  <2>2. RefLine <= Len(RefLines)
    BY <1>3, <1>9 DEF a, ls
  <2>3. RefLine' = Ref!lineno + 1
    BY <1>6, <1>8, <1>11
  <2>4. QED
    BY <1>1, <1>7, <2>1, <2>2, <2>3 DEF Ref!Validate, Ref!inputs, inputs
<1>13. text \in Seq(Byte) /\ ~Has(text, NUL)
  <2>1. n \in 1..Len(args) /\ ~NulFound
    BY <1>1, ProgramInputs DEF DataInv, MatchInv
  <2>2. ~Has(Bytes, NUL)
    BY <2>1 DEF Agreed, Compared, AllComparable, Comparable, NulAgreed, NulFound, Bytes
  <2> DEFINE B == Byte \ {NUL}
             d == Bytes
  <2>3. d \in Seq(B)
    <3>1. \A i \in 1..Len(d) : d[i] # NUL /\ d[i] \in Byte
      BY <1>9, <2>2 DEF Has
    <3>2. QED
      BY <1>9, <3>1
  <2>4. B \in SUBSET Byte
    OBVIOUS
  <2> HIDE DEF B, d
  <2>5. PrePasses(opt, d) \in Seq(Seq(B))
    BY <2>3, <2>4, PrePassesType
  <2>6. ls \in Seq(Seq(B))
    BY <1>9, <2>5 DEF d
  <2>7. text \in Seq(B)
    BY <1>3, <1>10, <2>6, JoinedType
  <2> HIDE DEF text
  <2>8. text \in Seq(Byte)
    <3>1. \A i \in 1..Len(text) : text[i] \in Byte
      BY <2>4, <2>7
    <3>2. QED
      BY <2>7, <3>1
  <2>9. ~Has(text, NUL)
    BY <2>7 DEF Has, B
  <2>10. QED
    BY <2>8, <2>9
<1>14. ~TwoFaults(opt, text) /\ ~IsSentinel(opt, text)
  <2>1. n \in 1..Len(args)
    BY <1>1, ProgramInputs DEF DataInv, MatchInv
  <2>2. \A t \in Handed(opt, Bytes) : ~TwoFaults(opt, t) /\ ~IsSentinel(opt, t)
    BY <2>1 DEF Agreed, Compared, AllComparable, Comparable, Bytes
  <2>3. Handed(opt, Bytes) = {Joined(ls, k, LastLine(opt, ls, k)) : k \in 1..Len(ls)}
    BY <1>9 DEF Handed
  <2>4. text \in Handed(opt, Bytes)
    BY <1>3, <2>3
  <2>5. QED
    BY <2>2, <2>4
<1>15. opt.native \in BOOLEAN
  BY ProgramInputs DEF DataInv
<1> HIDE DEF text
<1>16. BlankOrComment(text) <=> NotARecord(text)
  BY <1>13, SameBlanks
<1>17. Parse(text) = AwkVerdict(opt.native, text)
  BY <1>13, <1>14, <1>15, SameVerdict
<1>18. QED
  BY <1>6, <1>11, <1>12, <1>13, <1>14, <1>16, <1>17

-----------------------------------------------------------------------------
(* The results, as the reference keeps them. *)

LEMMA AllMapped ==
  ASSUME NEW S, diags \in Seq(S), NEW t \in Seq(S), diags' = diags \o t,
         \A k \in 1..Len(t) : AsReference(t[k]) = t[k]
  PROVE  RefDiags' = RefDiags \o t
<1> DEFINE F(d) == AsReference(d)
<1>1. RefDiags' = [k \in 1..Len(diags') |-> F(diags'[k])] /\ RefDiags = [k \in 1..Len(diags) |-> F(diags[k])]
  BY DEF RefDiags
<1>2. [k \in 1..Len(t) |-> F(t[k])] = t
  <2>1. [k \in 1..Len(t) |-> F(t[k])] = [k \in 1..Len(t) |-> t[k]]
    OBVIOUS
  <2>2. QED
    BY <2>1
<1> HIDE DEF F
<1>3. [k \in 1..Len(diags \o t) |-> F((diags \o t)[k])] =
           [k \in 1..Len(diags) |-> F(diags[k])] \o [k \in 1..Len(t) |-> F(t[k])]
  OBVIOUS
<1>4. QED
  BY <1>1, <1>2, <1>3

\* A diagnostic of the program but one is worded as the reference words it.
LEMMA OneMapped ==
  ASSUME DataInv, NEW d \in Diagnostic, diags' = Append(diags, d)
  PROVE  RefDiags' = Append(RefDiags, AsReference(d))
<1> DEFINE F(x) == AsReference(x)
<1>1. RefDiags' = [k \in 1..Len(diags') |-> F(diags'[k])] /\ RefDiags = [k \in 1..Len(diags) |-> F(diags[k])]
  BY DEF RefDiags
<1>2. diags \in Seq(Diagnostic)
  BY DEF DataInv
<1> HIDE DEF F
<1>3. [k \in 1..Len(Append(diags, d)) |-> F(Append(diags, d)[k])] = Append([k \in 1..Len(diags) |-> F(diags[k])], F(d))
  BY <1>2
<1>4. QED
  BY <1>1, <1>3 DEF F

LEMMA DiagReported ==
  ASSUME DataInv, ScanLine, NEW code \in Reports \ {"CANNOT_OPEN"}, diags' = Append(diags, Diag(code))
  PROVE  RefDiags' = Append(RefDiags, Diag(code))
<1>1. Diag(code) \in Diagnostic
  BY Diagnosed
<1>2. AsReference(Diag(code)) = Diag(code)
  BY DEF AsReference, Diag
<1>3. QED
  BY <1>1, <1>2, OneMapped

LEMMA UnboundReported ==
  ASSUME DataInv, ScanLine, NEW k \in Nat, diags' = diags \o Unbound(k)
  PROVE  RefDiags' = RefDiags \o Unbound(k)
<1>1. Unbound(k) \in Seq(Diagnostic) /\ Len(Unbound(k)) = k
  BY ManyDiagnosed
<1>2. \A u \in 1..k : AsReference(Unbound(k)[u]) = Unbound(k)[u]
  <2>1. AsReference(Diag("UNBOUND_REF")) = Diag("UNBOUND_REF")
    BY DEF AsReference, Diag
  <2>2. \A u \in 1..k : Unbound(k)[u] = Diag("UNBOUND_REF")
    BY DEF Unbound
  <2>3. QED
    BY <2>1, <2>2
<1>3. diags \in Seq(Diagnostic)
  BY DEF DataInv
<1>4. QED
  BY <1>1, <1>2, <1>3, AllMapped

LEMMA SameCounted ==
  ASSUME DataInv, ScanLine, NEW k \in Nat, counts' = Errors(k)
  PROVE  RefChecked' = RefChecked + 1 /\ RefErrors' = RefErrors + k
<1>1. total' = total
  BY DEF ScanLine
<1>2. counts \in Counts /\ total \in Counts
  BY DEF DataInv
<1>3. counts'.checked = counts.checked + 1 /\ counts'.errors = counts.errors + k
  BY DEF Errors
<1>4. counts.checked \in Nat /\ counts.errors \in Nat /\ total.checked \in Nat /\ total.errors \in Nat
  BY <1>2 DEF Counts
<1>5. QED
  BY <1>1, <1>3, <1>4 DEF RefChecked, RefErrors

LEMMA SameResults ==
  /\ UNCHANGED counts /\ UNCHANGED total => RefChecked' = RefChecked /\ RefErrors' = RefErrors
  /\ UNCHANGED diags => RefDiags' = RefDiags
BY DEF RefChecked, RefErrors, RefDiags

LEMMA SamePlace ==
  ASSUME DataInv, MatchInv, Agreed, LineStep
  PROVE  /\ \A code : Ref!Diag(code) = Diag(code)
         /\ \A key, value : Ref!Shown(key, value) = Shown(key, value)
BY SameStep DEF Ref!Diag, Diag, Ref!Shown, Shown

LEMMA SkipsAsReference ==
  ASSUME DataInv, MatchInv, Agreed, SkipLine
  PROVE  Ref!SkipLine
<1>1. LineStep /\ BlankOrComment(rec.text) /\ UNCHANGED <<env, counts, out, diags>>
  BY DEF SkipLine, LineStep
<1>2. Ref!Validate /\ Ref!line = rec.text /\ NotARecord(rec.text) /\ total' = total
  BY <1>1, SameStep, LineStepScans
<1>3. Ref!NotARecord(Ref!line)
  BY <1>2, SameRecord
<1>4. QED
  BY <1>1, <1>2, <1>3, SameResults DEF Ref!SkipLine

\* A line that is checked.
LEMMA ChecksAsReference ==
  ASSUME DataInv, MatchInv, Agreed, LineStep, ~BlankOrComment(rec.text), NEW k \in Nat, counts' = Errors(k)
  PROVE  /\ Ref!Check /\ RefErrors' = RefErrors + k
         /\ Ref!line = rec.text /\ rec.text \in Seq(Byte) /\ ~NotARecord(rec.text)
<1>1. /\ Ref!Validate /\ Ref!line = rec.text /\ rec.text \in Seq(Byte) /\ ~NotARecord(rec.text)
      /\ ScanLine
  BY SameStep, LineStepScans
<1>2. ~Ref!NotARecord(Ref!line)
  BY <1>1, SameRecord
<1>3. RefChecked' = RefChecked + 1 /\ RefErrors' = RefErrors + k
  BY <1>1, SameCounted
<1>4. QED
  BY <1>1, <1>2, <1>3 DEF Ref!Check

LEMMA NormalizesAsReference ==
  ASSUME DataInv, MatchInv, Agreed, NormalizeLine
  PROVE  Ref!NormalizeRecord \/ Ref!RejectRecord
<1> DEFINE s == rec.text
           eq == Index(s, EQ)
<1>1. LineStep /\ ScanLine /\ opt.action = "normalize" /\ ~BlankOrComment(s) /\ env' = env
  BY DEF NormalizeLine, LineStep
<1>2. Ref!line = s /\ s \in Seq(Byte)
  BY <1>1, SameStep
<1>3. CASE eq = 0
  <2>1. counts' = Errors(1) /\ diags' = Append(diags, Diag("NO_EQUALS")) /\ out' = out
    BY <1>3 DEF NormalizeLine
  <2>2. Ref!Check /\ RefErrors' = RefErrors + 1
    BY <1>1, <2>1, ChecksAsReference
  <2>3. ~Has(s, EQ)
    BY <1>2, <1>3, IndexFinds
  <2>4. ~Ref!Has(Ref!line, EQ) /\ Ref!Fault(opt.native, Ref!line) = "NO_EQUALS"
    BY <1>2, <2>3, SameFinds, SameRecord DEF Fault
  <2>5. "NO_EQUALS" \in Reports \ {"CANNOT_OPEN"}
    BY DEF Reports, Faults
  <2>6. RefDiags' = Append(RefDiags, Ref!Diag("NO_EQUALS"))
    BY <1>1, <2>1, <2>5, DiagReported, SamePlace
  <2>7. Ref!RejectRecord
    BY <1>1, <2>1, <2>2, <2>4, <2>6 DEF Ref!RejectRecord
  <2>8. QED
    BY <2>7
<1>4. CASE eq # 0
  <2>1. counts' = Errors(0) /\ out' = Append(out, Shown(Key(s), Value(s))) /\ diags' = diags
    BY <1>4 DEF NormalizeLine, Key, Value
  <2>2. Ref!Check /\ RefErrors' = RefErrors + 0
    BY <1>1, <2>1, ChecksAsReference
  <2>3. RefErrors' = RefErrors /\ RefDiags' = RefDiags
    <3>1. counts.errors \in Nat /\ total.errors \in Nat
      BY DEF DataInv, Counts
    <3>2. RefErrors \in Nat
      BY <3>1 DEF RefErrors
    <3>3. QED
      BY <2>1, <2>2, <3>2, SameResults
  <2>4. Has(s, EQ)
    BY <1>2, <1>4, IndexFinds
  <2>5. Ref!Has(Ref!line, EQ)
    BY <1>2, <2>4, SameFinds
  <2>6. out' = Append(out, Ref!Shown(Ref!Key(Ref!line), Ref!Value(Ref!line)))
    BY <1>1, <1>2, <2>1, SamePlace, SameRecord
  <2>7. Ref!NormalizeRecord
    BY <1>1, <2>2, <2>3, <2>5, <2>6 DEF Ref!NormalizeRecord
  <2>8. QED
    BY <2>7
<1>5. QED
  BY <1>3, <1>4

\* What the parser's verdict says of the reference's.
LEMMA VerdictTells ==
  ASSUME DataInv, MatchInv, Agreed, LineStep
  PROVE  LET r == Parse(rec.text)
             s == rec.text
         IN /\ r.status \notin {"SKIP", "OK"} =>
                 ~NotARecord(s) /\ r.status = Fault(opt.native, s) /\ Fault(opt.native, s) # "NONE"
            /\ r.status = "OK" =>
                 /\ ~NotARecord(s) /\ Fault(opt.native, s) = "NONE"
                 /\ r.key = Key(s) /\ r.value = Parsed(opt.native, s) /\ r.kind = AwkKind(opt.native, s)
<1> DEFINE s == rec.text
           r == Parse(s)
<1>1. r = AwkVerdict(opt.native, s) /\ s \in Seq(Byte)
  BY SameStep
<1> HIDE DEF r, s
<1>2. Fault(opt.native, s) \in Codes /\ "OK" \notin Codes /\ "SKIP" \notin Codes
  BY <1>1, FaultCodes DEF Codes, Faults
<1>3. /\ NotARecord(s) => r.status = "SKIP"
      /\ ~NotARecord(s) /\ Fault(opt.native, s) # "NONE" => r.status = Fault(opt.native, s)
      /\ ~NotARecord(s) /\ Fault(opt.native, s) = "NONE" =>
           /\ r.status = "OK" /\ r.key = Key(s) /\ r.value = Parsed(opt.native, s)
           /\ r.kind = AwkKind(opt.native, s)
  BY <1>1, VerdictIs
<1>4. QED
  BY <1>2, <1>3 DEF r, s

LEMMA RejectsAsReference ==
  ASSUME DataInv, MatchInv, Agreed, RejectLine
  PROVE  Ref!RejectRecord
<1> DEFINE s == rec.text
           code == Parse(s).status
<1>1. /\ LineStep /\ ScanLine /\ opt.action # "normalize" /\ code \notin {"SKIP", "OK"}
      /\ counts' = Errors(1) /\ diags' = Append(diags, Diag(code)) /\ UNCHANGED <<env, out>>
  BY DEF RejectLine, LineStep
<1>2. ~NotARecord(s) /\ code = Fault(opt.native, s) /\ code # "NONE"
  BY <1>1, VerdictTells
<1>3. Ref!line = s /\ ~BlankOrComment(s)
  BY <1>1, <1>2, SameStep
<1>4. Ref!Check /\ RefErrors' = RefErrors + 1
  BY <1>1, <1>3, ChecksAsReference
<1>5. code \in Reports \ {"CANNOT_OPEN"}
  <2>1. code \in Statuses \ {"SKIP", "OK"}
    BY <1>1, ParseStatus
  <2>2. QED
    BY <2>1 DEF Statuses, Reports, Faults
<1>6. Ref!Fault(opt.native, Ref!line) = code
  BY <1>2, <1>3, SameRecord
<1> HIDE DEF code, s
<1>7. RefDiags' = Append(RefDiags, Ref!Diag(code))
  BY <1>1, <1>5, DiagReported, SamePlace
<1>8. QED
  BY <1>1, <1>2, <1>4, <1>6, <1>7 DEF Ref!RejectRecord

\* A record that is accepted.
LEMMA AcceptsAsReference ==
  ASSUME DataInv, MatchInv, Agreed, LineStep, Accept, NEW k \in Nat, counts' = Errors(k)
  PROVE  /\ Ref!Valid /\ Ref!Dumps /\ RefErrors' = RefErrors + k
         /\ Ref!line = rec.text /\ Parse(rec.text).key = Key(rec.text)
         /\ Parse(rec.text).value = Parsed(opt.native, rec.text)
         /\ Parse(rec.text).kind = AwkKind(opt.native, rec.text)
<1> DEFINE s == rec.text
           r == Parse(s)
<1>1. opt.action # "normalize" /\ r.status = "OK"
  BY DEF Accept
<1>2. /\ ~NotARecord(s) /\ Fault(opt.native, s) = "NONE"
      /\ r.key = Key(s) /\ r.value = Parsed(opt.native, s) /\ r.kind = AwkKind(opt.native, s)
  BY <1>1, VerdictTells
<1>3. Ref!line = s /\ ~BlankOrComment(s) /\ ~IsSentinel(opt, s)
  BY <1>2, SameStep
<1>4. Ref!Check /\ RefErrors' = RefErrors + k
  BY <1>3, ChecksAsReference
<1>5. Ref!Valid
  BY <1>1, <1>2, <1>3, <1>4, SameRecord DEF Ref!Valid
<1>6. Has(s, EQ)
  BY <1>2 DEF Fault
<1>7. Parsed(opt.native, s) # Sentinel
  BY <1>3, <1>6 DEF IsSentinel
<1>8. Ref!Dumps
  BY <1>3, <1>5, <1>7, SameRecord DEF Ref!Dumps
<1>9. QED
  BY <1>2, <1>3, <1>4, <1>5, <1>8

\* Adding no error leaves the errors.
LEMMA NoError ==
  ASSUME DataInv, RefErrors' = RefErrors + 0
  PROVE  RefErrors' = RefErrors
<1>1. counts.errors \in Nat /\ total.errors \in Nat
  BY DEF DataInv, Counts
<1>2. RefErrors \in Nat
  BY <1>1 DEF RefErrors
<1>3. QED
  BY <1>2

LEMMA ValidatesAsReference ==
  ASSUME DataInv, MatchInv, Agreed, ValidateLine
  PROVE  Ref!ValidateRecord
<1>1. LineStep /\ Accept /\ opt.action = "validate" /\ counts' = Errors(0) /\ UNCHANGED <<env, out, diags>>
  BY DEF ValidateLine, LineStep
<1>2. Ref!Valid /\ RefErrors' = RefErrors
  BY <1>1, AcceptsAsReference, NoError
<1>3. QED
  BY <1>1, <1>2, SameResults DEF Ref!ValidateRecord

LEMMA DumpsAsReference ==
  ASSUME DataInv, MatchInv, Agreed, DumpLine
  PROVE  Ref!DumpRecord
<1> DEFINE r == Parse(rec.text)
<1>1. /\ LineStep /\ Accept /\ opt.action = "dump" /\ counts' = Errors(0) /\ UNCHANGED <<env, diags>>
      /\ out' = Append(out, Shown(r.key, r.value))
  BY DEF DumpLine, LineStep
<1>2. Ref!Dumps /\ RefErrors' = RefErrors
  BY <1>1, AcceptsAsReference, NoError
<1>3. r.key = Ref!Key(Ref!line) /\ r.value = Ref!Parsed(opt.native, Ref!line)
  BY <1>1, AcceptsAsReference, SameRecord
<1> HIDE DEF r
<1>4. out' = Append(out, Ref!Shown(Ref!Key(Ref!line), Ref!Parsed(opt.native, Ref!line)))
  BY <1>1, <1>3, SamePlace
<1>5. QED
  BY <1>1, <1>2, <1>4, SameResults DEF Ref!DumpRecord

\* References are resolved in the values of the same records.
LEMMA SameResolved ==
  ASSUME NEW s, NEW r, r.value = Parsed(opt.native, s), r.kind = AwkKind(opt.native, s)
  PROVE  Ref!Resolved(opt, s, env) = Resolve(r)
<1>1. r.kind = "SINGLE_QUOTED" /\ ~opt.native <=> ~Substituted(opt.native, s)
  BY DEF AwkKind, Kind, Quoted, Substituted
<1>2. Ref!Resolved(opt, s, env) =
        IF Substituted(opt.native, s) THEN Subst(r.value, env) ELSE Literally(r.value)
  BY SameRecord, SameSubst DEF Ref!Resolved
<1>3. QED
  BY <1>1, <1>2 DEF Resolve

LEMMA DeltasAsReference ==
  ASSUME DataInv, MatchInv, Agreed, DeltaLine
  PROVE  Ref!DeltaRecord
<1> DEFINE r == Parse(rec.text)
           key == r.key
           res == Resolve(r)
<1>1. /\ LineStep /\ ScanLine /\ Accept /\ Seeds
      /\ counts' = Errors(res.unbound) /\ diags' = diags \o Unbound(res.unbound)
      /\ env' = [k \in DOMAIN env \cup {key} |-> IF k = key THEN res.text ELSE env[k]]
      /\ out' = IF opt.action = "delta" THEN Append(out, Shown(key, res.text)) ELSE out
  BY DEF DeltaLine, Accept, LineStep
<1>2. res.unbound \in Nat
  BY <1>1, AcceptedType DEF Results
<1>3. /\ Ref!Dumps /\ RefErrors' = RefErrors + res.unbound
      /\ Ref!line = rec.text /\ key = Key(rec.text)
      /\ r.value = Parsed(opt.native, rec.text) /\ r.kind = AwkKind(opt.native, rec.text)
  BY <1>1, <1>2, AcceptsAsReference
<1> HIDE DEF r
<1>4. key = Ref!Key(Ref!line) /\ res = Ref!Resolved(opt, Ref!line, env)
  BY <1>3, SameRecord, SameResolved
<1> HIDE DEF key, res
<1>5. RefDiags' = RefDiags \o [u \in 1..res.unbound |-> Ref!Diag("UNBOUND_REF")]
  <2>1. RefDiags' = RefDiags \o Unbound(res.unbound)
    BY <1>1, <1>2, UnboundReported
  <2>2. Ref!Diag("UNBOUND_REF") = Diag("UNBOUND_REF")
    BY <1>1, SamePlace
  <2>3. QED
    BY <2>1, <2>2 DEF Unbound
<1>6. out' = IF opt.action = "delta" THEN Append(out, Ref!Shown(key, res.text)) ELSE out
  BY <1>1, SamePlace
<1>7. env' = Ref!Bound(key, res.text)
  BY <1>1 DEF Ref!Bound
<1>8. Ref!Binds(opt)
  BY <1>1 DEF Ref!Binds, Seeds
<1>9. QED
  BY <1>3, <1>4, <1>5, <1>6, <1>7, <1>8 DEF Ref!DeltaRecord

LEMMA LineAsReference ==
  ASSUME DataInv, MatchInv, Agreed, LineStep
  PROVE  Ref!Next
<1>1. CASE SkipLine
  BY <1>1, SkipsAsReference DEF Ref!Next
<1>2. CASE NormalizeLine
  BY <1>2, NormalizesAsReference DEF Ref!Next
<1>3. CASE RejectLine
  BY <1>3, RejectsAsReference DEF Ref!Next
<1>4. CASE ValidateLine
  BY <1>4, ValidatesAsReference DEF Ref!Next
<1>5. CASE DumpLine
  BY <1>5, DumpsAsReference DEF Ref!Next
<1>6. CASE DeltaLine
  BY <1>6, DeltasAsReference DEF Ref!Next
<1>7. CASE DeltaMemory
  BY <1>7 DEF DeltaMemory, Agreed, Compared
<1>8. QED
  BY <1>1, <1>2, <1>3, <1>4, <1>5, <1>6, <1>7 DEF LineStep

\* Between two lines nothing shows.
LEMMA ScansSilently ==
  ASSUME ScanOn
  PROVE  /\ ScanStep /\ UNCHANGED <<pc, opt, args, environ, n, env, out, listing, status>>
         /\ RefStage' = RefStage /\ RefLines' = RefLines /\ RefChecked' = RefChecked
         /\ RefErrors' = RefErrors /\ RefDiags' = RefDiags
<1>1. /\ pc = "scan" /\ UNCHANGED <<pc, inputs, n, env, counts, total, out, listing, diags, status>>
      /\ ((\E end : Feed!JoinLine(end)) \/ Feed!Finish)
  BY DEF ScanOn
<1>2. UNCHANGED <<file, strip_cr, shell_cont>>
  BY <1>1 DEF Feed!JoinLine, Feed!Finish, Feed!Take
<1>3. ScanStep
  BY <1>1, <1>2, OnlyScans
<1>4. RefStage' = RefStage
  BY <1>1 DEF RefStage
<1>5. QED
  BY <1>1, <1>3, <1>4, SameLines, SameResults DEF inputs

\* The end of a file of which the program scans nothing: if the byte order
\* mark was all of it, the reference still has an empty line.
LEMMA FinishesNothing ==
  ASSUME DataInv, MatchInv, Agreed, ScanOn, Feed!Finish, file = << >>
  PROVE  Ref!SkipLine \/ UNCHANGED Ref!vars
<1> DEFINE ls == RefLines
<1>1. /\ pc = "scan" /\ UNCHANGED <<pc, opt, args, environ, n, env, out, listing, status>>
      /\ RefStage' = RefStage /\ RefLines' = ls /\ RefChecked' = RefChecked
      /\ RefErrors' = RefErrors /\ RefDiags' = RefDiags /\ pc' = pc
  BY ScansSilently DEF ScanOn
<1>2. fed = << >> /\ phase = "busy" /\ phase' = "done"
  BY <1>1, NoneLeft DEF Feed!Finish
<1>3. RefLine = 1 /\ RefLine' = Len(ls) + 1
  BY <1>1, <1>2 DEF RefLine
<1>4. Bytes \in Seq(Byte) /\ ls = PrePasses(opt, Bytes) /\ opt.cont \in {"accept", "ignore"}
  BY <1>1, ScannedArg
<1>5. Scanned(opt, Bytes) = << >>
  BY <1>1 DEF MatchInv
<1>6. CASE ls = << >>
  <2>1. RefLine' = RefLine
    BY <1>3, <1>6
  <2>2. QED
    BY <1>1, <2>1 DEF Ref!vars, Ref!inputs, Ref!results
<1>7. CASE ls = << << >> >>
  <2>1. Len(ls) = 1 /\ ls[1] = << >> /\ ls \in Seq(Seq(Byte)) /\ 1 \in 1..Len(ls) /\ RefLine' = 2
    BY <1>3, <1>7
  <2>2. LastLine(opt, ls, 1) = 1
    <3> HIDE DEF ls
    <3>1. Len(ls) \in Nat /\ RefLine \in 1..Len(ls)
      BY <1>3, <2>1
    <3>2. LastLine(opt, ls, RefLine) \in RefLine..Len(ls)
      BY <1>4, <3>1, LastLineFound
    <3>3. QED
      BY <1>3, <2>1, <3>2
  <2>3. Joined(ls, 1, 1) = << >>
    BY <2>1, JoinedStep
  <2> HIDE DEF ls
  <2>4. Ref!lineno = 1 /\ Ref!line = << >>
    BY <1>3, <2>2, <2>3, SameLogicalLines DEF Ref!lineno, Ref!line, ls
  <2>5. Ref!NotARecord(Ref!line)
    <3>1. << >> \in Seq(Byte) /\ BlankOrComment(<< >>)
      BY DEF BlankOrComment
    <3>2. ~Has(<< >>, NUL)
      BY DEF Has
    <3>3. NotARecord(<< >>)
      BY <3>1, <3>2, SameBlanks
    <3>4. QED
      BY <2>4, <3>3, SameRecord
  <2>6. Ref!Validate
    <3>1. RefStage = "line" /\ 1 <= Len(ls) /\ 1 + 1 = 2
      BY <1>1, <2>1 DEF RefStage
    <3>2. QED
      BY <1>1, <1>3, <2>1, <2>4, <3>1 DEF Ref!Validate, Ref!inputs, ls
  <2>7. Ref!SkipLine
    BY <1>1, <2>5, <2>6 DEF Ref!SkipLine, ScanOn
  <2>8. QED
    BY <2>7
<1>8. QED
  BY <1>4, <1>5, <1>6, <1>7, NothingPrePassed

LEMMA ScanOnAsReference ==
  ASSUME DataInv, MatchInv, Agreed, ScanOn
  PROVE  Ref!Next \/ UNCHANGED Ref!vars
<1>1. /\ pc = "scan" /\ ScanStep /\ UNCHANGED <<pc, opt, args, environ, n, env, out, listing, status>>
      /\ RefStage' = RefStage /\ RefLines' = RefLines /\ RefChecked' = RefChecked
      /\ RefErrors' = RefErrors /\ RefDiags' = RefDiags /\ pc' = pc
  BY ScansSilently DEF ScanOn
<1>2. RefLine' = RefLine => UNCHANGED Ref!vars
  BY <1>1 DEF Ref!vars, Ref!inputs, Ref!results
<1>3. CASE \E end : Feed!JoinLine(end)
  BY <1>1, <1>2, <1>3, JoinMatches
<1>4. CASE Feed!Finish
  <2>1. CASE file = << >>
    BY <1>4, <2>1, FinishesNothing DEF Ref!Next
  <2>2. CASE file # << >>
    <3>1. RefLine = Len(RefLines) + 1
      BY <1>1, <1>4, <2>2, NoneLeft
    <3>2. RefLine' = Len(RefLines) + 1
      BY <1>1, <1>4 DEF RefLine, Feed!Finish
    <3>3. QED
      BY <1>2, <3>1, <3>2
  <2>3. QED
    BY <2>1, <2>2
<1>5. QED
  BY <1>3, <1>4 DEF ScanOn

-----------------------------------------------------------------------------
(* Files, the beginning and the end. *)

\* Of a command line that is compared.
LEMMA ComparableArg ==
  ASSUME DataInv, Agreed, AtFile
  PROVE  /\ n \in 1..Len(args) /\ Comparable(opt, args[n]) /\ Bytes \in Seq(Byte)
         /\ args[n].kind \in {"file", "unreadable"}
<1> DEFINE A == [kind : {"file", "unreadable", "unnamed"}, bytes : Seq(Byte)]
<1>1. args \in Seq(A)
  BY ProgramInputs DEF DataInv
<1> HIDE DEF A
<1>2. n \in 1..Len(args)
  BY <1>1 DEF DataInv, AtFile
<1>3. args[n] \in A
  BY <1>1, <1>2
<1>4. args[n].kind \in {"file", "unreadable", "unnamed"} /\ args[n].bytes \in Seq(Byte)
  BY <1>3 DEF A
<1>5. Comparable(opt, args[n])
  BY <1>2 DEF Agreed, Compared, AllComparable
<1>6. QED
  BY <1>2, <1>4, <1>5 DEF Comparable, Bytes

LEMMA SameFault ==
  ASSUME Bytes \in Seq(Byte), args[n].kind # "unreadable"
  PROVE  Ref!FileFault(opt, args[n]) =
           IF NulFound THEN "FILE_NUL"
           ELSE IF HasBom /\ opt.bom = "reject" THEN "FILE_BOM" ELSE "NONE"
<1>1. StartsWithBom(SplitLines(Bytes)) <=> HasBom
  BY BomFirst DEF HasBom
<1>2. Ref!StartsWithBom(Ref!SplitLines(Bytes)) <=> HasBom
  BY <1>1, SamePrePasses
<1>3. Ref!Has(Bytes, NUL) <=> Has(Bytes, NUL)
  BY SameFinds
<1>4. QED
  BY <1>2, <1>3 DEF Ref!FileFault, NulFound, Bytes

LEMMA RejectsFileAsReference ==
  ASSUME DataInv, CountInv, Agreed, AtFile, NEW code \in {"CANNOT_OPEN", "FILE_NUL", "FILE_BOM"},
         DropFile(code), Ref!FileFault(opt, args[n]) = (IF code = "CANNOT_OPEN" THEN "FILE_UNREADABLE" ELSE code)
  PROVE  Ref!RejectFile
<1> DEFINE x == [code |-> code, file |-> n, line |-> 0]
<1>1. /\ total' = [total EXCEPT !.errors = @ + 1] /\ diags' = Append(diags, x) /\ n' = n + 1
      /\ UNCHANGED <<pc, opt, args, environ, env, counts, out, listing, status>>
  BY DEF DropFile, inputs
<1>2. pc = "file" /\ n <= Len(args) /\ pc' = "file" /\ args[n].kind # "unnamed"
  BY <1>1, ComparableArg DEF AtFile
<1>3. x \in Diagnostic
  <2>1. code \in Reports
    BY DEF Reports
  <2>2. n \in Nat
    BY DEF DataInv
  <2>3. QED
    BY <2>1, <2>2 DEF Diagnostic
<1>4. AsReference(x) = [code |-> Ref!FileFault(opt, args[n]), file |-> n, line |-> 0]
  BY DEF AsReference
<1> HIDE DEF x
<1>5. RefDiags' = Append(RefDiags, AsReference(x))
  BY <1>1, <1>3, OneMapped
<1>6. RefErrors' = RefErrors + 1 /\ RefChecked' = RefChecked
  <2>1. counts \in Counts /\ total \in Counts
    BY DEF DataInv
  <2>2. total'.errors = total.errors + 1 /\ total'.checked = total.checked /\ counts' = counts
    BY <1>1, <2>1 DEF Counts
  <2>3. total.errors \in Nat /\ counts.errors \in Nat
    BY <2>1 DEF Counts
  <2>4. QED
    BY <2>2, <2>3 DEF RefErrors, RefChecked
<1>7. RefStage = "file" /\ RefStage' = "file" /\ RefLines' = RefLines /\ RefLine' = RefLine
  BY <1>2 DEF RefStage, RefLines, RefLine
<1>8. Ref!AtFile /\ Ref!FileFault(opt, args[n]) # "NONE"
  BY <1>2, <1>7 DEF Ref!AtFile
<1>9. QED
  BY <1>1, <1>2, <1>4, <1>5, <1>6, <1>7, <1>8 DEF Ref!RejectFile, Ref!inputs

LEMMA DropsAsReference ==
  ASSUME DataInv, CountInv, Agreed, CannotOpen \/ RejectNul \/ RejectBom
  PROVE  Ref!RejectFile
<1>1. AtFile
  BY DEF CannotOpen, RejectNul, RejectBom
<1>2. Bytes \in Seq(Byte) /\ args[n].kind \in {"file", "unreadable"}
  BY <1>1, ComparableArg
<1>3. CASE CannotOpen
  <2>1. DropFile("CANNOT_OPEN") /\ args[n].kind = "unreadable"
    BY <1>2, <1>3 DEF CannotOpen
  <2>2. Ref!FileFault(opt, args[n]) = "FILE_UNREADABLE"
    BY <2>1 DEF Ref!FileFault
  <2>3. QED
    BY <1>1, <2>1, <2>2, RejectsFileAsReference
<1>4. CASE RejectNul
  <2>1. DropFile("FILE_NUL") /\ args[n].kind = "file" /\ NulFound
    BY <1>4 DEF RejectNul
  <2>2. Ref!FileFault(opt, args[n]) = "FILE_NUL"
    BY <1>2, <2>1, SameFault
  <2>3. QED
    BY <1>1, <2>1, <2>2, RejectsFileAsReference
<1>5. CASE RejectBom
  <2>1. DropFile("FILE_BOM") /\ args[n].kind = "file" /\ ~NulFound /\ HasBom /\ opt.bom = "reject"
    BY <1>5 DEF RejectBom
  <2>2. Ref!FileFault(opt, args[n]) = "FILE_BOM"
    BY <1>2, <2>1, SameFault
  <2>3. QED
    BY <1>1, <2>1, <2>2, RejectsFileAsReference
<1>6. QED
  BY <1>3, <1>4, <1>5

LEMMA OpensAsReference ==
  ASSUME DataInv, CountInv, Agreed, ScanFile
  PROVE  Ref!OpenFile
<1>1. /\ AtFile /\ args[n].kind = "file" /\ ~NulFound /\ ~(HasBom /\ opt.bom = "reject")
      /\ pc' = "scan" /\ phase' = "busy" /\ fed' = << >> /\ counts' = Zero
      /\ UNCHANGED <<opt, args, environ, n, env, total, out, listing, diags, status>>
  BY DEF ScanFile, inputs
<1>2. pc = "file" /\ n <= Len(args) /\ counts = Zero
  BY <1>1 DEF AtFile, CountInv
<1>3. Ref!FileFault(opt, args[n]) = "NONE"
  <2>1. Bytes \in Seq(Byte)
    BY <1>1, ArgType
  <2>2. QED
    BY <1>1, <2>1, SameFault
<1>4. RefLines' = Ref!PrePasses(opt, args[n].bytes)
  BY <1>1, SamePrePasses DEF RefLines, Bytes
<1>5. RefStage = "file" /\ RefStage' = "line" /\ RefLine = 1 /\ RefLine' = 1
  BY <1>1, <1>2 DEF RefStage, RefLine
<1>6. RefChecked' = RefChecked /\ RefErrors' = RefErrors /\ RefDiags' = RefDiags
  BY <1>1, <1>2, SameResults
<1>7. QED
  BY <1>1, <1>2, <1>3, <1>4, <1>5, <1>6 DEF Ref!OpenFile, Ref!AtFile, Ref!inputs, Ref!results

LEMMA StartsAsReference ==
  ASSUME DataInv, CountInv, Agreed, Fatal \/ FatalMemory \/ InitFromProcess
  PROVE  Ref!Refuse \/ Ref!Begin
<1>1. /\ pc = "start" /\ pc' # "scan"
      /\ UNCHANGED <<opt, args, environ, n, counts, total, out, listing, diags>>
  BY DEF Fatal, FatalMemory, InitFromProcess, inputs
<1>2. /\ RefStage = "start" /\ RefStage' = pc' /\ RefLines' = RefLines /\ RefLine' = RefLine
      /\ RefChecked' = RefChecked /\ RefErrors' = RefErrors /\ RefDiags' = RefDiags
  BY <1>1, SameResults DEF RefStage, RefLines, RefLine
<1>3. Ref!BadOptions(opt) <=> BadBom
  BY DEF Ref!BadOptions, BadBom
<1>4. CASE Fatal
  BY <1>1, <1>2, <1>3, <1>4 DEF Fatal, Ref!Refuse, Ref!inputs, Ref!results
<1>5. CASE FatalMemory
  BY <1>5 DEF FatalMemory, Agreed, Compared
<1>6. CASE InitFromProcess
  <2>1. DOMAIN environ \ (ConfigNames \cup {<< >>}) = DOMAIN environ \ ConfigNames
    BY DEF Agreed, Compared, AllComparable
  <2>2. env' = IF Ref!Binds(opt) THEN Ref!WithoutConfig(environ) ELSE env
    BY <1>6, <2>1 DEF InitFromProcess, Ref!Binds, Seeds, Ref!WithoutConfig
  <2>3. pc' = "file" /\ ~BadBom /\ status' = status
    BY <1>6 DEF InitFromProcess
  <2>4. QED
    BY <1>1, <1>2, <1>3, <2>2, <2>3 DEF Ref!Begin, Ref!inputs
<1>7. QED
  BY <1>4, <1>5, <1>6

LEMMA EndsFileAsReference ==
  ASSUME DataInv, MatchInv, Agreed, EndFile
  PROVE  Ref!EndFile
<1>1. /\ pc = "scan" /\ phase = "done" /\ pc' = "file" /\ n' = n + 1
      /\ total' = AddedUp /\ counts' = Zero
      /\ UNCHANGED <<opt, args, environ, env, out, listing, diags, status>>
  BY DEF EndFile, inputs
<1>2. RefStage = "line" /\ RefStage' = "file" /\ RefLines' = << >> /\ RefLine' = 1
  BY <1>1 DEF RefStage, RefLines, RefLine
<1>3. RefLine > Len(RefLines)
  <2>1. Len(RefLines) \in Nat
    BY <1>1, ScannedArg
  <2>2. RefLine = Len(RefLines) + 1
    BY <1>1 DEF RefLine
  <2>3. QED
    BY <2>1, <2>2
<1>4. RefChecked' = RefChecked /\ RefErrors' = RefErrors
  <2>1. counts \in Counts /\ total \in Counts
    BY DEF DataInv
  <2>2. /\ counts.checked \in Nat /\ counts.errors \in Nat
        /\ total.checked \in Nat /\ total.errors \in Nat
    BY <2>1 DEF Counts
  <2>3. /\ counts'.checked = 0 /\ counts'.errors = 0
        /\ total'.checked = total.checked + counts.checked /\ total'.errors = total.errors + counts.errors
    BY <1>1 DEF Zero, AddedUp
  <2>4. QED
    BY <2>2, <2>3 DEF RefChecked, RefErrors
<1>5. RefDiags' = RefDiags
  BY <1>1, SameResults
<1>6. QED
  BY <1>1, <1>2, <1>3, <1>4, <1>5 DEF Ref!EndFile, Ref!inputs, Ref!results

LEMMA ExitsAsReference ==
  ASSUME DataInv, CountInv, Agreed, Exit
  PROVE  Ref!Exit
<1>1. /\ pc = "file" /\ n > Len(args) /\ pc' = "exit"
      /\ UNCHANGED <<opt, args, environ, n, env, counts, total, out, diags>>
      /\ status' = ExitStatus
  BY DEF Exit, inputs
<1>2. /\ RefStage = "file" /\ RefStage' = "exit" /\ RefLines' = RefLines /\ RefLine' = RefLine
      /\ RefChecked' = RefChecked /\ RefErrors' = RefErrors /\ RefDiags' = RefDiags
  BY <1>1, SameResults DEF RefStage, RefLines, RefLine
<1>3. listing' = IF opt.action = "apply" THEN Ref!WithoutConfig(env) ELSE listing
  BY DEF Exit, Listing, Agreed, Compared, Ref!WithoutConfig
<1>4. RefErrors = total.errors
  <2>1. counts = Zero /\ total \in Counts
    BY <1>1 DEF CountInv, DataInv
  <2>2. counts.errors = 0 /\ total.errors \in Nat
    BY <2>1 DEF Zero, Counts
  <2>3. QED
    BY <2>2 DEF RefErrors
<1>5. status' = IF RefErrors > 0 THEN 1 ELSE 0
  BY <1>1, <1>4 DEF ExitStatus
<1>6. QED
  BY <1>1, <1>2, <1>3, <1>5 DEF Ref!Exit, Ref!inputs

\* A step of a compared run is a step of the reference, or none.
LEMMA StepAsReference ==
  ASSUME DataInv, CountInv, MatchInv, Agreed, [Next]_vars
  PROVE  [Ref!Next]_(Ref!vars)
<1>1. CASE Fatal \/ FatalMemory \/ InitFromProcess
  BY <1>1, StartsAsReference DEF Ref!Next
<1>2. CASE CannotOpen \/ RejectNul \/ RejectBom
  BY <1>2, DropsAsReference DEF Ref!Next
<1>3. CASE FileMemory
  BY <1>3 DEF FileMemory, Agreed, Compared
<1>4. CASE ScanFile
  BY <1>4, OpensAsReference DEF Ref!Next
<1>5. CASE ScanOn
  BY <1>5, ScanOnAsReference
<1>6. CASE LineTooLong
  BY <1>6, NeverTooLong
<1>7. CASE LineStep
  BY <1>7, LineAsReference
<1>8. CASE EndFile
  BY <1>8, EndsFileAsReference DEF Ref!Next
<1>9. CASE Exit
  BY <1>9, ExitsAsReference DEF Ref!Next
<1>10. CASE UNCHANGED vars
  <2>1. UNCHANGED <<pc, opt, args, environ, n, phase, fed, env, counts, total, out, listing, diags, status>>
    BY <1>10 DEF vars, inputs, scanner
  <2>2. RefStage' = RefStage /\ RefLines' = RefLines
    BY <2>1 DEF RefStage, RefLines, Bytes
  <2>3. RefLine' = RefLine
    BY <2>1, <2>2 DEF RefLine
  <2>4. QED
    BY <2>1, <2>2, <2>3, SameResults DEF Ref!vars, Ref!inputs, Ref!results
<1>11. QED
  BY <1>1, <1>2, <1>3, <1>4, <1>5, <1>6, <1>7, <1>8, <1>9, <1>10 DEF Next, LineStep

LEMMA InitAsReference == Init => Ref!Init
<1> SUFFICES ASSUME Init PROVE Ref!Init
  OBVIOUS
<1>1. RefStage = "start" /\ RefLines = << >> /\ RefLine = 1
  BY DEF Init, RefStage, RefLines, RefLine
<1>2. RefChecked = 0 /\ RefErrors = 0
  BY DEF Init, Zero, RefChecked, RefErrors
<1>3. RefDiags = << >>
  BY DEF Init, RefDiags
<1>4. QED
  BY <1>1, <1>2, <1>3 DEF Init, Ref!Init

LEMMA SameInputs == [Next]_vars => UNCHANGED inputs
BY DEF Next, vars, Fatal, FatalMemory, InitFromProcess, CannotOpen, RejectNul, RejectBom, FileMemory,
  DropFile, ScanFile, ScanOn, LineTooLong, SkipLine, NormalizeLine, RejectLine, ValidateLine, DumpLine,
  DeltaLine, DeltaMemory, Accept, ScanLine, EndFile, Exit

\* The program does what the reference does, step by step (envfile.awk, and
\* envfile.c from main to normalize_stream), on every run that does not end a
\* file inside a continued line and that no allocation and no size hinders.
THEOREM ProgramIsReference == Spec => ImplementsReference
<1> DEFINE Inv == RunInv /\ (Agreed => MatchInv)
<1>1. Init => Inv
  <2>1. Init => MatchInv
    BY DEF Init, MatchInv
  <2>2. QED
    BY <2>1, InitRun
<1>2. Inv /\ [Next]_vars => Inv'
  <2>1. ASSUME RunInv, [Next]_vars PROVE RunInv'
    BY <2>1, RunKeeps
  <2>2. ASSUME Inv, [Next]_vars, Agreed' PROVE MatchInv'
    <3>1. UNCHANGED <<opt, args, environ, scarce>>
      BY <2>2, SameInputs DEF inputs
    <3>2. Agreed
      BY <2>2, <3>1 DEF Agreed, Compared, AllComparable, NoneDangles
    <3>3. QED
      BY <2>2, <3>2, MatchKeeps DEF RunInv
  <2>3. QED
    BY <2>1, <2>2
<1>3. Inv /\ [Next]_vars => (Agreed => [Ref!Next]_(Ref!vars))
  BY StepAsReference DEF RunInv
<1>4. Init => (Agreed => Ref!Init)
  BY InitAsReference
<1> HIDE DEF Inv
<1>5. QED
  BY <1>1, <1>2, <1>3, <1>4, PTL DEF Spec, ImplementsReference
=============================================================================
