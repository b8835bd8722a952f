--------------------------- MODULE ReferenceProofs --------------------------
(***************************************************************************)
(* What holds of every run of the reference, whatever the files, the       *)
(* settings and the environment.                                           *)
(***************************************************************************)
EXTENDS ZigLines, LineProofs, FiniteSetTheorems

-----------------------------------------------------------------------------
(* What the variables hold. *)

LEMMA ResolvedType ==
  ASSUME NEW s \in Seq(Byte), Has(s, EQ), NEW o,
         NEW e, \A k \in DOMAIN e : e[k] \in Seq(Byte)
  PROVE  Resolved(o, s, e) \in Results(Byte)
<1>1. Parsed(o.native, s) \in Seq(Byte)
  BY ParsedType
<1>2. Subst(Parsed(o.native, s), e) \in Results(Byte)
  BY <1>1, SubstType
<1>3. Literally(Parsed(o.native, s)) \in Results(Byte)
  BY <1>1 DEF Literally, Results
<1>4. QED
  BY <1>2, <1>3 DEF Resolved

Entry == [key : Seq(Byte), value : Seq(Byte), file : Nat \ {0}, line : Nat \ {0}]
Diagnostic == [code : Codes, file : Nat \ {0}, line : Nat]

DataInv ==
  /\ opt \in Options /\ args \in Args /\ environ \in Environs
  /\ pc \in {"start", "file", "line", "exit"}
  /\ n \in 1..(Len(args) + 1) /\ (pc = "line" => n <= Len(args))
  /\ lines \in Seq(Seq(Byte)) /\ i \in 1..(Len(lines) + 1) /\ (pc # "line" => i = 1)
  /\ NoSentinel => lines \in Seq(Seq(Byte \ {SOH}))
  /\ \A k \in DOMAIN env : env[k] \in Seq(Byte)
  /\ checked \in Nat /\ errors \in Nat
  /\ out \in Seq(Entry) /\ diags \in Seq(Diagnostic)

\* The line in hand.
LEMMA LineInHand ==
  ASSUME DataInv, pc = "line", i <= Len(lines)
  PROVE  /\ i \in Nat \ {0} /\ n \in Nat \ {0} /\ lineno \in i..Len(lines) /\ line \in Seq(Byte)
         /\ NoSentinel => line \in Seq(Byte \ {SOH})
<1>1. lines \in Seq(Seq(Byte)) /\ i \in 1..Len(lines) /\ n \in Nat \ {0}
  BY DEF DataInv
<1>2. opt.cont \in {"accept", "ignore"}
  BY RunInputs DEF DataInv
<1>3. lineno \in i..Len(lines)
  BY <1>1, <1>2, LastLineFound DEF lineno
<1>4. line \in Seq(Byte)
  BY <1>1, <1>3, JoinedType DEF line
<1>5. ASSUME NoSentinel PROVE line \in Seq(Byte \ {SOH})
  <2>1. lines \in Seq(Seq(Byte \ {SOH}))
    BY <1>5 DEF DataInv
  <2>2. QED
    BY <1>1, <1>3, <2>1, JoinedType DEF line
<1>6. QED
  BY <1>1, <1>3, <1>4, <1>5

\* What a record leaves: at most one line of output, or diagnostics.
LEMMA DeltaEffect ==
  ASSUME DataInv, DeltaRecord
  PROVE  \E res \in Results(Byte) :
           /\ res = Resolved(opt, line, env) /\ Key(line) \in Seq(Byte)
           /\ env' = Bound(Key(line), res.text)
           /\ out' = IF opt.action = "delta" THEN Append(out, Shown(Key(line), res.text)) ELSE out
           /\ errors' = errors + res.unbound
           /\ diags' = diags \o [u \in 1..res.unbound |-> Diag("UNBOUND_REF")]
<1>1. line \in Seq(Byte) /\ Has(line, EQ)
  BY LineInHand, FaultCodes DEF DeltaRecord, Dumps, Valid, Check, Validate
<1>2. Key(line) \in Seq(Byte)
  BY <1>1, SidesType
<1>3. Resolved(opt, line, env) \in Results(Byte)
  BY <1>1, ResolvedType DEF DataInv
<1>4. QED
  BY <1>2, <1>3 DEF DeltaRecord

LEMMA DataInit == Init => DataInv
<1> SUFFICES ASSUME Init PROVE DataInv
  OBVIOUS
<1>1. args \in Seq([kind : {"file", "unreadable", "unnamed"}, bytes : Seq(Byte)])
  BY RunInputs DEF Init
<1>2. Len(args) \in Nat
  BY <1>1
<1>3. QED
  BY <1>2 DEF Init, DataInv

LEMMA RecordTypes ==
  ASSUME DataInv, Validate
  PROVE  /\ i' \in 1..(Len(lines') + 1) /\ i' > i /\ i' = lineno + 1
         /\ UNCHANGED <<pc, opt, args, environ, n, lines, listing, status>>
         /\ pc = "line" /\ i <= Len(lines)
         /\ Diag(Fault(opt.native, line)) \in Diagnostic /\ Diag("UNBOUND_REF") \in Diagnostic
         /\ \A k, v \in Seq(Byte) : Shown(k, v) \in Entry
<1>1. i \in Nat \ {0} /\ n \in Nat \ {0} /\ lineno \in i..Len(lines) /\ lines \in Seq(Seq(Byte))
  BY LineInHand DEF Validate, DataInv
<1>2. i' = lineno + 1 /\ UNCHANGED <<pc, opt, args, environ, n, lines, listing, status>>
  BY DEF Validate, inputs
<1>3. lineno \in Nat \ {0}
  BY <1>1
<1>4. Diag(Fault(opt.native, line)) \in Diagnostic
  BY <1>1, <1>3, FaultCodes DEF Diag, Diagnostic
<1>5. Diag("UNBOUND_REF") \in Diagnostic
  BY <1>1, <1>3 DEF Diag, Diagnostic, Codes
<1>6. \A k, v \in Seq(Byte) : Shown(k, v) \in Entry
  BY <1>1, <1>3 DEF Shown, Entry
<1>7. i' \in 1..(Len(lines') + 1) /\ i' > i
  BY <1>1, <1>2
<1>8. QED
  BY <1>2, <1>4, <1>5, <1>6, <1>7 DEF Validate

LEMMA RecordKeepsData ==
  ASSUME DataInv,
         SkipLine \/ NormalizeRecord \/ RejectRecord \/ ValidateRecord \/ DumpRecord \/ DeltaRecord
  PROVE  DataInv'
<1>1. Validate
  BY DEF SkipLine, NormalizeRecord, RejectRecord, ValidateRecord, DumpRecord, DeltaRecord, Dumps, Valid, Check
<1>2. line \in Seq(Byte)
  BY <1>1, LineInHand DEF Validate
<1>3. /\ i' \in 1..(Len(lines') + 1)
      /\ UNCHANGED <<pc, opt, args, environ, n, lines>>
      /\ Diag(Fault(opt.native, line)) \in Diagnostic /\ Diag("UNBOUND_REF") \in Diagnostic
      /\ \A k, v \in Seq(Byte) : Shown(k, v) \in Entry
  BY <1>1, RecordTypes
<1>4. checked' \in Nat
  <2>1. checked' = checked \/ checked' = checked + 1
    BY DEF SkipLine, NormalizeRecord, RejectRecord, ValidateRecord, DumpRecord, DeltaRecord, Dumps, Valid, Check
  <2>2. checked \in Nat
    BY DEF DataInv
  <2>3. QED
    BY <2>1, <2>2
<1>5. /\ out' \in Seq(Entry) /\ diags' \in Seq(Diagnostic) /\ errors' \in Nat
      /\ \A k \in DOMAIN env' : env'[k] \in Seq(Byte)
  <2>1. CASE SkipLine \/ ValidateRecord
    BY <2>1 DEF SkipLine, ValidateRecord, DataInv
  <2>2. CASE NormalizeRecord
    <3>1. Key(line) \in Seq(Byte) /\ Value(line) \in Seq(Byte)
      BY <1>2, <2>2, SidesType DEF NormalizeRecord
    <3>2. Shown(Key(line), Value(line)) \in Entry
      BY <1>3, <3>1
    <3>3. QED
      BY <2>2, <3>2 DEF NormalizeRecord, DataInv
  <2>3. CASE RejectRecord
    <3>1. diags' = Append(diags, Diag(Fault(opt.native, line)))
      BY <2>3 DEF RejectRecord
    <3>2. diags' \in Seq(Diagnostic)
      BY <1>3, <3>1 DEF DataInv
    <3>3. QED
      BY <2>3, <3>2 DEF RejectRecord, DataInv
  <2>4. CASE DumpRecord
    <3>1. Has(line, EQ)
      BY <2>4, FaultCodes DEF DumpRecord, Dumps, Valid
    <3>2. Key(line) \in Seq(Byte) /\ Parsed(opt.native, line) \in Seq(Byte)
      BY <1>2, <3>1, SidesType, ParsedType
    <3>3. Shown(Key(line), Parsed(opt.native, line)) \in Entry
      BY <1>3, <3>2
    <3>4. QED
      BY <2>4, <3>3 DEF DumpRecord, DataInv
  <2>5. CASE DeltaRecord
    <3>1. PICK res \in Results(Byte) :
             /\ Key(line) \in Seq(Byte)
             /\ env' = Bound(Key(line), res.text)
             /\ out' = IF opt.action = "delta" THEN Append(out, Shown(Key(line), res.text)) ELSE out
             /\ errors' = errors + res.unbound
             /\ diags' = diags \o [u \in 1..res.unbound |-> Diag("UNBOUND_REF")]
      BY <2>5, DeltaEffect
    <3>2. res.text \in Seq(Byte) /\ res.unbound \in Nat
      BY DEF Results
    <3>3. Shown(Key(line), res.text) \in Entry
      BY <1>3, <3>1, <3>2
    <3>4. [u \in 1..res.unbound |-> Diag("UNBOUND_REF")] \in Seq(Diagnostic)
      BY <1>3, <3>2
    <3>5. diags' \in Seq(Diagnostic)
      BY <3>1, <3>4, ConcatProperties DEF DataInv
    <3>6. out' \in Seq(Entry)
      BY <3>1, <3>3 DEF DataInv
    <3>7. \A k \in DOMAIN env' : env'[k] \in Seq(Byte)
      BY <3>1, <3>2 DEF Bound, DataInv
    <3>8. errors' \in Nat
      <4>1. errors \in Nat /\ errors' = errors + res.unbound
        BY <3>1 DEF DataInv
      <4>2. QED
        BY <3>2, <4>1
    <3>9. QED
      BY <3>5, <3>6, <3>7, <3>8
  <2>6. QED
    BY <2>1, <2>2, <2>3, <2>4, <2>5
<1>6. NoSentinel' = NoSentinel /\ pc = "line"
  BY <1>1, <1>3 DEF NoSentinel, Validate
<1>7. QED
  BY <1>3, <1>4, <1>5, <1>6 DEF DataInv

LEMMA ArgsType ==
  ASSUME args \in Args
  PROVE  Len(args) \in Nat /\ \A k \in 1..Len(args) : args[k].bytes \in Seq(Byte)
<1> DEFINE File == [kind : {"file", "unreadable", "unnamed"}, bytes : Seq(Byte)]
<1>1. args \in Seq(File)
  BY RunInputs
<1>2. \A f \in File : f.bytes \in Seq(Byte)
  OBVIOUS
<1> HIDE DEF File
<1>3. Len(args) \in Nat /\ \A k \in 1..Len(args) : args[k] \in File
  BY <1>1
<1>4. QED
  BY <1>2, <1>3

LEMMA DataKeeps == DataInv /\ [Next]_vars => DataInv'
<1> SUFFICES ASSUME DataInv, [Next]_vars PROVE DataInv'
  OBVIOUS
<1>1. Len(args) \in Nat /\ \A k \in 1..Len(args) : args[k].bytes \in Seq(Byte)
  BY ArgsType DEF DataInv
<1>2. CASE SkipLine \/ NormalizeRecord \/ RejectRecord \/ ValidateRecord \/ DumpRecord \/ DeltaRecord
  BY <1>2, RecordKeepsData
<1>3. CASE Refuse \/ Exit \/ UNCHANGED vars
  BY <1>3 DEF Refuse, Exit, vars, inputs, results, DataInv, NoSentinel
<1>4. CASE Begin
  <2>1. \A k \in DOMAIN env' : env'[k] \in Seq(Byte)
    BY <1>4, RunInputs DEF Begin, WithoutConfig, DataInv
  <2>2. QED
    BY <1>4, <2>1 DEF Begin, inputs, DataInv, NoSentinel
<1>5. CASE SkipArg
  BY <1>1, <1>5 DEF SkipArg, AtFile, inputs, results, DataInv, NoSentinel
<1>6. CASE RejectFile
  <2>1. [code |-> FileFault(opt, args[n]), file |-> n, line |-> 0] \in Diagnostic
    <3>1. FileFault(opt, args[n]) \in Codes
      BY DEF FileFault, Codes, Faults
    <3>2. n \in Nat \ {0}
      BY <1>1 DEF DataInv
    <3>3. QED
      BY <3>1, <3>2 DEF Diagnostic
  <2>2. diags' \in Seq(Diagnostic)
    BY <1>6, <2>1 DEF RejectFile, DataInv
  <2>3. QED
    BY <1>1, <1>6, <2>2 DEF RejectFile, AtFile, inputs, DataInv, NoSentinel
<1>7. CASE OpenFile
  <2>1. n \in 1..Len(args) /\ args[n].bytes \in Seq(Byte)
    <3>1. n \in 1..Len(args)
      BY <1>1, <1>7 DEF OpenFile, AtFile, DataInv
    <3>2. QED
      BY <1>1, <3>1
  <2>2. lines' \in Seq(Seq(Byte))
    BY <1>7, <2>1, PrePassesType DEF OpenFile
  <2>3. ASSUME NoSentinel PROVE lines' \in Seq(Seq(Byte \ {SOH}))
    <3>1. args[n].bytes \in Seq(Byte \ {SOH})
      BY <2>1, <2>3 DEF NoSentinel, Has
    <3>2. QED
      BY <1>7, <3>1, PrePassesType DEF OpenFile
  <2>4. i = 1 /\ 1 \in 1..(Len(lines') + 1)
    BY <1>7, <2>2 DEF OpenFile, AtFile, DataInv
  <2>5. QED
    BY <1>7, <2>1, <2>2, <2>3, <2>4 DEF OpenFile, inputs, results, DataInv, NoSentinel
<1>8. CASE EndFile
  <2>1. << >> \in Seq(Seq(Byte)) /\ << >> \in Seq(Seq(Byte \ {SOH}))
    OBVIOUS
  <2>2. QED
    BY <1>1, <1>8, <2>1 DEF EndFile, inputs, results, DataInv, NoSentinel
<1>9. QED
  BY <1>2, <1>3, <1>4, <1>5, <1>6, <1>7, <1>8 DEF Next
-----------------------------------------------------------------------------
(* What the two output streams say of a line. *)

FaultyIn(d) == {Place(d[k]) : k \in {k \in 1..Len(d) : d[k].line > 0 /\ d[k].code # "UNBOUND_REF"}}
RejectedIn(d) == {d[k].file : k \in {k \in 1..Len(d) : d[k].line = 0}}

LEMMA OnePrinted ==
  ASSUME NEW o \in Seq(Entry), NEW e
  PROVE  /\ Len(Append(o, e)) = Len(o) + 1
         /\ {Place(Append(o, e)[k]) : k \in 1..Len(Append(o, e))}
              = {Place(o[k]) : k \in 1..Len(o)} \cup {Place(e)}
<1> DEFINE a == Append(o, e)
<1>1. Len(a) = Len(o) + 1 /\ a[Len(o) + 1] = e /\ \A k \in 1..Len(o) : a[k] = o[k]
  OBVIOUS
<1>2. 1..Len(a) = 1..Len(o) \cup {Len(o) + 1}
  BY <1>1
<1> HIDE DEF a
<1>3. {Place(a[k]) : k \in 1..Len(a)} = {Place(o[k]) : k \in 1..Len(o)} \cup {Place(e)}
  BY <1>1, <1>2
<1>4. QED
  BY <1>1, <1>3 DEF a

LEMMA OneDiagnosed ==
  ASSUME NEW d \in Seq(Diagnostic), NEW e
  PROVE  /\ Len(Append(d, e)) = Len(d) + 1
         /\ e.line > 0 /\ e.code # "UNBOUND_REF" =>
              FaultyIn(Append(d, e)) = FaultyIn(d) \cup {Place(e)}
         /\ e.line > 0 => RejectedIn(Append(d, e)) = RejectedIn(d)
         /\ e.line = 0 => FaultyIn(Append(d, e)) = FaultyIn(d)
                          /\ RejectedIn(Append(d, e)) = RejectedIn(d) \cup {e.file}
<1> DEFINE a == Append(d, e)
           Counts(x) == x.line > 0 /\ x.code # "UNBOUND_REF"
<1>1. Len(a) = Len(d) + 1 /\ a[Len(d) + 1] = e /\ \A k \in 1..Len(d) : a[k] = d[k]
  OBVIOUS
<1>2. 1..Len(a) = 1..Len(d) \cup {Len(d) + 1}
  BY <1>1
<1> HIDE DEF a, Counts
<1>3. {k \in 1..Len(a) : Counts(a[k])} =
        {k \in 1..Len(d) : Counts(d[k])} \cup {k \in {Len(d) + 1} : Counts(e)}
  BY <1>1, <1>2
<1>4. {k \in 1..Len(a) : a[k].line = 0} =
        {k \in 1..Len(d) : d[k].line = 0} \cup {k \in {Len(d) + 1} : e.line = 0}
  BY <1>1, <1>2
<1>5. {Place(a[k]) : k \in {k \in 1..Len(a) : Counts(a[k])}} =
        {Place(d[k]) : k \in {k \in 1..Len(d) : Counts(d[k])}} \cup (IF Counts(e) THEN {Place(e)} ELSE {})
  BY <1>1, <1>3
<1>6. {a[k].file : k \in {k \in 1..Len(a) : a[k].line = 0}} =
        {d[k].file : k \in {k \in 1..Len(d) : d[k].line = 0}} \cup (IF e.line = 0 THEN {e.file} ELSE {})
  BY <1>1, <1>4
<1>7. FaultyIn(a) = FaultyIn(d) \cup (IF Counts(e) THEN {Place(e)} ELSE {})
  BY <1>5 DEF FaultyIn, Counts
<1>8. RejectedIn(a) = RejectedIn(d) \cup (IF e.line = 0 THEN {e.file} ELSE {})
  BY <1>6 DEF RejectedIn
<1>9. e.line > 0 => e.line # 0
  OBVIOUS
<1>10. QED
  BY <1>1, <1>7, <1>8, <1>9 DEF a, Counts

\* Reports of unbound references neither reject a record nor a file.
LEMMA UnboundDiagnosed ==
  ASSUME NEW d \in Seq(Diagnostic), NEW e \in Diagnostic, e.line > 0, e.code = "UNBOUND_REF", NEW m \in Nat
  PROVE  LET a == d \o [u \in 1..m |-> e]
         IN Len(a) = Len(d) + m /\ FaultyIn(a) = FaultyIn(d) /\ RejectedIn(a) = RejectedIn(d)
<1> DEFINE a == d \o [u \in 1..m |-> e]
<1>1. Len(a) = Len(d) + m /\ Len(d) \in Nat
  OBVIOUS
<1>2. \A k \in 1..Len(a) : k \in 1..Len(d) \/ k > Len(d)
  BY <1>1
<1>3. /\ \A k \in 1..Len(d) : a[k] = d[k] /\ k \in 1..Len(a)
      /\ \A k \in 1..Len(a) : k > Len(d) => a[k] = e
  BY <1>1
<1> HIDE DEF a
<1>4. e.line # 0
  OBVIOUS
<1>5. FaultyIn(a) = FaultyIn(d)
  BY <1>2, <1>3 DEF FaultyIn
<1>6. RejectedIn(a) = RejectedIn(d)
  BY <1>2, <1>3, <1>4 DEF RejectedIn
<1>7. QED
  BY <1>1, <1>5, <1>6 DEF a

\* Every record of an action that prints is printed or reported.
Counted == opt.action \in {"normalize", "dump", "delta"} /\ NoSentinel

\* What the step of a logical line adds to the two streams.
LEMMA RecordEffect ==
  ASSUME DataInv,
         SkipLine \/ NormalizeRecord \/ RejectRecord \/ ValidateRecord \/ DumpRecord \/ DeltaRecord
  PROVE  /\ Rejected' = Rejected
         /\ \/ Printed' = Printed /\ Faulty' = Faulty /\ out' = out /\ (Counted => checked' = checked)
            \/ /\ Printed' = Printed \cup {<<n, lineno>>} /\ Faulty' = Faulty
               /\ Len(out') = Len(out) + 1 /\ checked' = checked + 1
            \/ /\ Printed' = Printed /\ Faulty' = Faulty \cup {<<n, lineno>>}
               /\ out' = out /\ checked' = checked + 1
<1>1. Validate
  BY DEF SkipLine, NormalizeRecord, RejectRecord, ValidateRecord, DumpRecord, DeltaRecord, Dumps, Valid, Check
<1>2. line \in Seq(Byte) /\ lineno > 0 /\ (NoSentinel => line \in Seq(Byte \ {SOH}))
  BY <1>1, LineInHand DEF Validate
<1>3. /\ Diag(Fault(opt.native, line)) \in Diagnostic /\ Diag("UNBOUND_REF") \in Diagnostic
      /\ out \in Seq(Entry) /\ diags \in Seq(Diagnostic)
  BY <1>1, RecordTypes DEF DataInv
<1>4. Faulty = FaultyIn(diags) /\ Faulty' = FaultyIn(diags') /\ Rejected = RejectedIn(diags)
      /\ Rejected' = RejectedIn(diags')
  BY DEF Faulty, FaultyIn, Rejected, RejectedIn
<1>5. ASSUME NEW k, NEW v, out' = Append(out, Shown(k, v))
      PROVE  Printed' = Printed \cup {<<n, lineno>>} /\ Len(out') = Len(out) + 1
  <2>1. Place(Shown(k, v)) = <<n, lineno>>
    BY DEF Place, Shown
  <2>2. QED
    BY <1>3, <1>5, <2>1, OnePrinted DEF Printed
<1>6. CASE SkipLine
  BY <1>6 DEF SkipLine, Printed, Faulty, Rejected
<1>7. CASE ValidateRecord
  <2>1. ASSUME Counted PROVE FALSE
    <3>1. Parsed(opt.native, line) = <<SOH>> /\ Has(line, EQ)
      BY <1>7, <2>1, FaultCodes DEF ValidateRecord, Counted, Sentinel, Valid
    <3>2. line \in Seq(Byte \ {SOH})
      BY <1>2, <2>1 DEF Counted
    <3>3. Parsed(opt.native, line) \in Seq(Byte \ {SOH})
      BY <3>1, <3>2, ParsedType
    <3>4. QED
      BY <3>1, <3>3
  <2>2. QED
    BY <1>7, <2>1 DEF ValidateRecord, Printed, Faulty, Rejected
<1>8. CASE NormalizeRecord
  <2>1. out' = Append(out, Shown(Key(line), Value(line))) /\ diags' = diags /\ checked' = checked + 1
    BY <1>8 DEF NormalizeRecord, Check
  <2>2. QED
    BY <1>4, <1>5, <2>1
<1>9. CASE DumpRecord
  <2>1. out' = Append(out, Shown(Key(line), Parsed(opt.native, line))) /\ diags' = diags
        /\ checked' = checked + 1
    BY <1>9 DEF DumpRecord, Dumps, Valid, Check
  <2>2. QED
    BY <1>4, <1>5, <2>1
<1>10. CASE RejectRecord
  <2> DEFINE d == Diag(Fault(opt.native, line))
  <2>1. diags' = Append(diags, d) /\ out' = out /\ checked' = checked + 1
    BY <1>10 DEF RejectRecord, Check
  <2>2. d.line > 0 /\ d.code # "UNBOUND_REF" /\ Place(d) = <<n, lineno>>
    BY <1>2, FaultCodes DEF Diag, Place
  <2> HIDE DEF d
  <2>3. FaultyIn(diags') = FaultyIn(diags) \cup {<<n, lineno>>} /\ RejectedIn(diags') = RejectedIn(diags)
    <3>1. diags \in Seq(Diagnostic)
      BY DEF DataInv
    <3>2. /\ FaultyIn(Append(diags, d)) = FaultyIn(diags) \cup {Place(d)}
          /\ RejectedIn(Append(diags, d)) = RejectedIn(diags)
      BY <2>2, <3>1, OneDiagnosed
    <3>3. QED
      BY <2>1, <2>2, <3>2
  <2>4. Printed' = Printed
    BY <2>1 DEF Printed
  <2>5. QED
    BY <1>4, <2>1, <2>3, <2>4
<1>11. CASE DeltaRecord
  <2>1. PICK res \in Results(Byte) :
           /\ out' = IF opt.action = "delta" THEN Append(out, Shown(Key(line), res.text)) ELSE out
           /\ diags' = diags \o [u \in 1..res.unbound |-> Diag("UNBOUND_REF")]
    BY <1>11, DeltaEffect
  <2>2. Diag("UNBOUND_REF").line > 0 /\ Diag("UNBOUND_REF").code = "UNBOUND_REF" /\ res.unbound \in Nat
    BY <1>2 DEF Diag, Results
  <2>3. FaultyIn(diags') = FaultyIn(diags) /\ RejectedIn(diags') = RejectedIn(diags)
    BY <1>3, <2>1, <2>2, UnboundDiagnosed
  <2>4. checked' = checked + 1 /\ opt.action \in {"delta", "apply"}
    BY <1>11 DEF DeltaRecord, Dumps, Valid, Check, Binds
  <2>5. CASE opt.action = "delta"
    BY <1>4, <1>5, <2>1, <2>3, <2>4, <2>5
  <2>6. CASE opt.action = "apply"
    <3>1. out' = out /\ ~Counted
      BY <2>1, <2>6 DEF Counted
    <3>2. Printed' = Printed
      BY <3>1 DEF Printed
    <3>3. QED
      BY <1>4, <2>3, <3>1, <3>2
  <2>7. QED
    BY <2>4, <2>5, <2>6
<1>12. QED
  BY <1>6, <1>7, <1>8, <1>9, <1>10, <1>11
-----------------------------------------------------------------------------
(* The places of what was printed and of what was reported: lines that have *)
(* been read, of files that are not refused.                                *)

Places ==
  /\ \A p \in Printed \cup Faulty :
       /\ p[1] \in 1..n /\ p[2] \in Nat /\ p[1] \notin Rejected
       /\ p[1] = n => pc = "line" /\ p[2] < i
  /\ \A f \in Rejected : f \in 1..(n - 1)

Tally ==
  /\ IsFiniteSet(Printed) /\ IsFiniteSet(Faulty) /\ Printed \cap Faulty = {}
  /\ Cardinality(Printed) = Len(out)
  /\ Counted => checked = Cardinality(Printed) + Cardinality(Faulty)

AccountInv == DataInv /\ Places /\ Tally

LEMMA AccountInit == Init => AccountInv
<1> SUFFICES ASSUME Init PROVE AccountInv
  OBVIOUS
<1>1. out = << >> /\ diags = << >> /\ checked = 0
  BY DEF Init
<1>2. Printed = {} /\ Faulty = {} /\ Rejected = {} /\ Len(out) = 0
  BY <1>1 DEF Printed, Faulty, Rejected
<1>3. IsFiniteSet({}) /\ Cardinality({}) = 0
  BY FS_EmptySet
<1>4. QED
  BY <1>1, <1>2, <1>3, DataInit DEF AccountInv, Places, Tally

\* The two streams are as they were.
LEMMA StreamsStay ==
  ASSUME UNCHANGED <<out, diags>>
  PROVE  UNCHANGED <<Printed, Faulty, Rejected>>
BY DEF Printed, Faulty, Rejected

LEMMA RecordAccounted ==
  ASSUME AccountInv,
         SkipLine \/ NormalizeRecord \/ RejectRecord \/ ValidateRecord \/ DumpRecord \/ DeltaRecord
  PROVE  Places' /\ Tally'
<1> DEFINE p == <<n, lineno>>
<1>1. Validate /\ DataInv
  BY DEF AccountInv, SkipLine, NormalizeRecord, RejectRecord, ValidateRecord, DumpRecord, DeltaRecord,
         Dumps, Valid, Check
<1>2. /\ i \in Nat \ {0} /\ n \in Nat \ {0} /\ lineno \in Nat /\ lineno >= i /\ i' = lineno + 1
      /\ pc = "line" /\ UNCHANGED <<pc, n, opt, args>>
  BY <1>1, LineInHand, RecordTypes DEF Validate, DataInv
<1>3. Counted' = Counted
  BY <1>2 DEF Counted, NoSentinel
<1>4. p[1] = n /\ p[2] = lineno
  OBVIOUS
<1> HIDE DEF p
<1>5. p \notin Printed /\ p \notin Faulty
  BY <1>2, <1>4 DEF AccountInv, Places
<1>6. n \notin Rejected
  BY <1>2 DEF AccountInv, Places
<1>7. IsFiniteSet(Printed) /\ IsFiniteSet(Faulty) /\ out \in Seq(Entry)
  BY <1>1 DEF AccountInv, Tally, DataInv
<1>8. /\ IsFiniteSet(Printed \cup {p}) /\ Cardinality(Printed \cup {p}) = Cardinality(Printed) + 1
      /\ IsFiniteSet(Faulty \cup {p}) /\ Cardinality(Faulty \cup {p}) = Cardinality(Faulty) + 1
      /\ Cardinality(Printed) \in Nat /\ Cardinality(Faulty) \in Nat
  BY <1>5, <1>7, FS_AddElement, FS_CardinalityType
<1>9. /\ Rejected' = Rejected
      /\ \/ Printed' = Printed /\ Faulty' = Faulty /\ out' = out /\ (Counted => checked' = checked)
         \/ Printed' = Printed \cup {p} /\ Faulty' = Faulty /\ Len(out') = Len(out) + 1 /\ checked' = checked + 1
         \/ Printed' = Printed /\ Faulty' = Faulty \cup {p} /\ out' = out /\ checked' = checked + 1
  BY <1>1, RecordEffect DEF p
<1>10. Places'
  <2>1. \A q \in Printed' \cup Faulty' : q \in Printed \cup Faulty \/ q = p
    BY <1>9
  <2>2. \A q \in Printed \cup Faulty :
          q[1] \in 1..n /\ q[2] \in Nat /\ q[1] \notin Rejected /\ (q[1] = n => q[2] < i')
    BY <1>2 DEF AccountInv, Places
  <2>3. p[1] \in 1..n /\ p[2] \in Nat /\ p[1] \notin Rejected /\ p[2] < i'
    BY <1>2, <1>4, <1>6
  <2>4. QED
    BY <1>2, <1>9, <2>1, <2>2, <2>3 DEF AccountInv, Places
<1>11. Tally'
  <2>1. /\ Cardinality(Printed) = Len(out) /\ Printed \cap Faulty = {}
        /\ Counted => checked = Cardinality(Printed) + Cardinality(Faulty)
    BY DEF AccountInv, Tally
  <2>2. CASE Printed' = Printed /\ Faulty' = Faulty /\ out' = out /\ (Counted => checked' = checked)
    BY <1>3, <1>7, <2>1, <2>2 DEF Tally
  <2>3. CASE /\ Printed' = Printed \cup {p} /\ Faulty' = Faulty
             /\ Len(out') = Len(out) + 1 /\ checked' = checked + 1
    BY <1>3, <1>5, <1>7, <1>8, <2>1, <2>3 DEF Tally
  <2>4. CASE Printed' = Printed /\ Faulty' = Faulty \cup {p} /\ out' = out /\ checked' = checked + 1
    BY <1>3, <1>5, <1>7, <1>8, <2>1, <2>4 DEF Tally
  <2>5. QED
    BY <1>9, <2>2, <2>3, <2>4
<1>12. QED
  BY <1>10, <1>11

LEMMA AccountKeeps == AccountInv /\ [Next]_vars => AccountInv'
<1> SUFFICES ASSUME AccountInv, [Next]_vars PROVE AccountInv'
  OBVIOUS
<1>1. DataInv /\ DataInv'
  BY DataKeeps DEF AccountInv
<1>2. n \in Nat \ {0} /\ (pc # "line" => i = 1) /\ diags \in Seq(Diagnostic)
  BY <1>1 DEF DataInv
<1>3. CASE SkipLine \/ NormalizeRecord \/ RejectRecord \/ ValidateRecord \/ DumpRecord \/ DeltaRecord
  BY <1>1, <1>3, RecordAccounted DEF AccountInv
<1>4. CASE Refuse \/ Begin \/ SkipArg \/ OpenFile \/ EndFile \/ Exit \/ UNCHANGED vars
  <2>1. UNCHANGED <<out, diags, checked, opt, args>>
    BY <1>4 DEF Refuse, Begin, SkipArg, OpenFile, EndFile, Exit, vars, inputs, results
  <2>2. UNCHANGED <<Printed, Faulty, Rejected, Counted>>
    BY <2>1, StreamsStay DEF Counted, NoSentinel
  <2>3. Tally'
    BY <2>1, <2>2 DEF AccountInv, Tally
  <2>4. CASE SkipArg \/ EndFile
    <3>1. n' = n + 1
      BY <2>4 DEF SkipArg, EndFile
    <3>2. QED
      BY <1>1, <1>2, <2>2, <2>3, <3>1 DEF AccountInv, Places
  <2>5. CASE ~(SkipArg \/ EndFile)
    <3>1. n' = n /\ i' = i /\ (pc = "line" => pc' = "line")
      BY <1>4, <2>5 DEF Refuse, Begin, OpenFile, Exit, vars, inputs, results, AtFile
    <3>2. QED
      BY <1>1, <2>2, <2>3, <3>1 DEF AccountInv, Places
  <2>6. QED
    BY <2>4, <2>5
<1>5. CASE RejectFile
  <2> DEFINE d == [code |-> FileFault(opt, args[n]), file |-> n, line |-> 0]
  <2>1. /\ diags' = Append(diags, d) /\ n' = n + 1 /\ pc = "file"
        /\ UNCHANGED <<pc, out, checked, opt, args, i>>
    BY <1>5 DEF RejectFile, AtFile, inputs
  <2>2. d.line = 0 /\ d.file = n
    OBVIOUS
  <2> HIDE DEF d
  <2>3. FaultyIn(diags') = FaultyIn(diags) /\ RejectedIn(diags') = RejectedIn(diags) \cup {n}
    BY <1>2, <2>1, <2>2, OneDiagnosed
  <2>4. Faulty' = Faulty /\ Rejected' = Rejected \cup {n} /\ Printed' = Printed /\ Counted' = Counted
    BY <2>1, <2>3 DEF Faulty, FaultyIn, Rejected, RejectedIn, Printed, Counted, NoSentinel
  <2>5. Places'
    <3>1. \A p \in Printed \cup Faulty : p[1] \in 1..(n - 1)
      BY <1>2, <2>1 DEF AccountInv, Places
    <3>2. QED
      BY <1>2, <2>1, <2>4, <3>1 DEF AccountInv, Places
  <2>6. Tally'
    BY <2>1, <2>4 DEF AccountInv, Tally
  <2>7. QED
    BY <1>1, <2>5, <2>6 DEF AccountInv
<1>6. QED
  BY <1>3, <1>4, <1>5 DEF Next

\* No record is lost, printed twice, or both printed and reported, whatever the
\* files and the settings (envfile.awk:107-171).
THEOREM EveryRecordAccounted == Spec => []RecordsAccounted
<1>1. AccountInv => RecordsAccounted
  BY DEF AccountInv, Tally, Counted, RecordsAccounted
<1>2. QED
  BY <1>1, AccountInit, AccountKeeps, PTL DEF Spec

\* A file that is refused as a whole was refused before any record of it was
\* printed or reported (envfile.awk:58-76).
THEOREM RefusalIsWhole == Spec => []RefusedWhole
<1>1. AccountInv => RefusedWhole
  BY DEF AccountInv, Places, RefusedWhole
<1>2. QED
  BY <1>1, AccountInit, AccountKeeps, PTL DEF Spec

-----------------------------------------------------------------------------
(* Errors. *)

ReportInv ==
  /\ DataInv
  /\ pc \in {"file", "line"} => ~BadOptions(opt)
  /\ pc = "start" => diags = << >>
  /\ ErrorsReported

LEMMA ReportKeeps == ReportInv /\ [Next]_vars => ReportInv'
<1> SUFFICES ASSUME ReportInv, [Next]_vars PROVE ReportInv'
  OBVIOUS
<1>1. DataInv /\ DataInv' /\ diags \in Seq(Diagnostic) /\ errors \in Nat /\ errors = Len(diags)
  BY DataKeeps DEF ReportInv, DataInv, ErrorsReported
<1>2. CASE SkipLine \/ NormalizeRecord \/ RejectRecord \/ ValidateRecord \/ DumpRecord \/ DeltaRecord
  <2>1. Validate
    BY <1>2 DEF SkipLine, NormalizeRecord, RejectRecord, ValidateRecord, DumpRecord, DeltaRecord,
                Dumps, Valid, Check
  <2>2. pc = "line" /\ pc' = pc /\ opt' = opt
    BY <2>1 DEF Validate, inputs
  <2>3. errors' = Len(diags')
    <3>1. CASE SkipLine \/ NormalizeRecord \/ ValidateRecord \/ DumpRecord
      BY <1>1, <3>1 DEF SkipLine, NormalizeRecord, ValidateRecord, DumpRecord
    <3>2. CASE RejectRecord
      BY <1>1, <3>2 DEF RejectRecord
    <3>3. CASE DeltaRecord
      <4>1. PICK res \in Results(Byte) :
               /\ errors' = errors + res.unbound
               /\ diags' = diags \o [u \in 1..res.unbound |-> Diag("UNBOUND_REF")]
        BY <1>1, <3>3, DeltaEffect
      <4>2. res.unbound \in Nat
        BY DEF Results
      <4>3. QED
        BY <1>1, <4>1, <4>2
    <3>4. QED
      BY <1>2, <3>1, <3>2, <3>3
  <2>4. QED
    BY <1>1, <2>2, <2>3 DEF ReportInv, ErrorsReported
<1>3. CASE Refuse
  BY <1>1, <1>3 DEF Refuse, inputs, results, ReportInv, ErrorsReported
<1>4. CASE Begin \/ SkipArg \/ OpenFile \/ EndFile
  BY <1>1, <1>4 DEF Begin, SkipArg, OpenFile, EndFile, AtFile, inputs, results, ReportInv, ErrorsReported
<1>5. CASE RejectFile
  BY <1>1, <1>5 DEF RejectFile, AtFile, inputs, ReportInv, ErrorsReported
<1>6. CASE Exit
  <2>1. /\ UNCHANGED <<errors, diags, opt>> /\ pc' = "exit" /\ pc = "file"
        /\ status' = IF errors > 0 THEN 1 ELSE 0
    BY <1>6 DEF Exit, inputs
  <2>2. errors > 0 <=> diags # << >>
    BY <1>1
  <2>3. QED
    BY <1>1, <2>1, <2>2 DEF ReportInv, ErrorsReported
<1>7. CASE UNCHANGED vars
  BY <1>1, <1>7 DEF vars, inputs, results, ReportInv, ErrorsReported
<1>8. QED
  BY <1>2, <1>3, <1>4, <1>5, <1>6, <1>7 DEF Next

\* Every error that is counted is reported, an unbound reference each time, and
\* the exit status says whether there was one (envfile.awk:22-29, 48-53, 216-219).
THEOREM EveryErrorReported == Spec => []ErrorsReported
<1>1. Init => ReportInv
  <2>1. Init => DataInv
    BY DataInit
  <2>2. QED
    BY <2>1 DEF Init, ReportInv, ErrorsReported
<1>2. ReportInv => ErrorsReported
  BY DEF ReportInv
<1>3. QED
  BY <1>1, <1>2, ReportKeeps, PTL DEF Spec

-----------------------------------------------------------------------------
(* Bindings. *)

WinsInv ==
  /\ DataInv /\ LastRecordWins
  /\ pc = "start" => out = << >>

\* The last line printed for a key, after one line more.
LEMMA LastOfOneMore ==
  ASSUME NEW o \in Seq(Entry), NEW e, NEW k \in 1..(Len(o) + 1), NEW key,
         Append(o, e)[k].key = key,
         \A j \in (k + 1)..(Len(o) + 1) : Append(o, e)[j].key # key
  PROVE  IF e.key = key THEN k = Len(o) + 1
         ELSE k \in 1..Len(o) /\ o[k].key = key /\ \A j \in (k + 1)..Len(o) : o[j].key # key
<1>1. Append(o, e)[Len(o) + 1] = e /\ \A j \in 1..Len(o) : Append(o, e)[j] = o[j]
  OBVIOUS
<1>2. Len(o) \in Nat
  OBVIOUS
<1>3. CASE e.key = key
  <2>1. k < Len(o) + 1 => Len(o) + 1 \in (k + 1)..(Len(o) + 1)
    BY <1>2
  <2>2. QED
    BY <1>1, <1>2, <1>3, <2>1
<1>4. CASE e.key # key
  BY <1>1, <1>2, <1>4
<1>5. QED
  BY <1>3, <1>4

LEMMA WinsKeeps == WinsInv /\ [Next]_vars => WinsInv'
<1> SUFFICES ASSUME WinsInv, [Next]_vars PROVE WinsInv'
  OBVIOUS
<1>1. DataInv /\ DataInv' /\ out \in Seq(Entry)
  BY DataKeeps DEF WinsInv, DataInv
<1>2. CASE DeltaRecord /\ opt.action = "delta"
  <2> DEFINE name == Key(line)
  <2>1. PICK res \in Results(Byte) :
           /\ env' = Bound(name, res.text)
           /\ out' = Append(out, Shown(name, res.text))
    BY <1>1, <1>2, DeltaEffect
  <2>2. pc = "line" /\ UNCHANGED <<pc, opt, environ>>
    BY <1>2 DEF DeltaRecord, Dumps, Valid, Check, Validate, inputs
  <2> DEFINE e == Shown(name, res.text)
  <2>3. e.key = name /\ e.value = res.text
    BY DEF Shown
  <2>4. /\ DOMAIN env' = DOMAIN env \cup {name}
        /\ \A key \in DOMAIN env' : env'[key] = IF key = name THEN e.value ELSE env[key]
    BY <2>1, <2>3 DEF Bound
  <2>5. /\ Len(out') = Len(out) + 1 /\ out'[Len(out) + 1] = e /\ Len(out) \in Nat
        /\ \A k \in 1..Len(out) : out'[k] = out[k]
    BY <1>1, <2>1
  <2>6. \A key : \A k \in LastPrinted(key)' :
          IF key = name THEN out'[k].value = e.value
          ELSE k \in LastPrinted(key) /\ out'[k] = out[k]
    <3> SUFFICES ASSUME NEW key, NEW k \in LastPrinted(key)'
                 PROVE  IF key = name THEN out'[k].value = e.value
                        ELSE k \in LastPrinted(key) /\ out'[k] = out[k]
      OBVIOUS
    <3>1. /\ k \in 1..(Len(out) + 1) /\ out'[k].key = key
          /\ \A j \in (k + 1)..(Len(out) + 1) : out'[j].key # key
      BY <2>5 DEF LastPrinted
    <3> HIDE DEF e
    <3>2. out' = Append(out, e)
      BY <2>1 DEF e
    <3>3. IF e.key = key THEN k = Len(out) + 1
          ELSE k \in 1..Len(out) /\ out[k].key = key /\ \A j \in (k + 1)..Len(out) : out[j].key # key
      BY <1>1, <3>1, <3>2, LastOfOneMore
    <3>4. QED
      BY <2>3, <2>5, <3>3 DEF LastPrinted
  <2> HIDE DEF e, name
  <2>7. ASSUME NEW key \in DOMAIN env'
        PROVE  IF \E k \in 1..Len(out') : out'[k].key = key
               THEN \A k \in LastPrinted(key)' : env'[key] = out'[k].value
               ELSE key \in DOMAIN environ \ ConfigNames /\ env'[key] = environ[key]
    <3>1. CASE key = name
      <4>1. \E k \in 1..Len(out') : out'[k].key = key
        BY <2>3, <2>5, <3>1
      <4>2. QED
        BY <2>4, <2>6, <3>1, <4>1
    <3>2. CASE key # name
      <4>1. key \in DOMAIN env /\ env'[key] = env[key]
        BY <2>4, <3>2
      <4>2. IF \E k \in 1..Len(out) : out[k].key = key
            THEN \A k \in LastPrinted(key) : env[key] = out[k].value
            ELSE key \in DOMAIN environ \ ConfigNames /\ env[key] = environ[key]
        BY <1>2, <2>2, <4>1 DEF WinsInv, LastRecordWins
      <4>3. (\E k \in 1..Len(out') : out'[k].key = key) <=> (\E k \in 1..Len(out) : out[k].key = key)
        <5>1. 1..Len(out') = 1..Len(out) \cup {Len(out) + 1}
          BY <2>5
        <5>2. QED
          BY <2>3, <2>5, <3>2, <5>1
      <4>4. QED
        BY <2>6, <3>2, <4>1, <4>2, <4>3
    <3>3. QED
      BY <3>1, <3>2
  <2>8. QED
    BY <1>1, <2>2, <2>7 DEF WinsInv, LastRecordWins
<1>3. CASE Begin
  <2>1. /\ pc = "start" /\ out = << >> /\ out' = out /\ UNCHANGED <<opt, environ>>
        /\ opt.action = "delta" => env' = WithoutConfig(environ)
    BY <1>3 DEF Begin, WinsInv, Binds, inputs
  <2>2. ~\E k \in 1..Len(out') : TRUE
    BY <2>1
  <2>3. opt.action = "delta" => \A key \in DOMAIN env' :
           key \in DOMAIN environ \ ConfigNames /\ env'[key] = environ[key]
    BY <2>1 DEF WithoutConfig
  <2>4. pc' = "file"
    BY <1>3 DEF Begin
  <2>5. QED
    BY <1>1, <2>1, <2>2, <2>3, <2>4 DEF WinsInv, LastRecordWins
<1>4. CASE ~(Begin \/ (DeltaRecord /\ opt.action = "delta"))
  <2>1. UNCHANGED <<opt, environ>>
    BY DEF Next, Refuse, Begin, SkipArg, RejectFile, OpenFile, SkipLine, NormalizeRecord, RejectRecord,
      ValidateRecord, DumpRecord, DeltaRecord, EndFile, Exit, vars, inputs, Dumps, Valid, Check, Validate
  <2>2. opt.action = "delta" => UNCHANGED <<env, out>>
    BY <1>4 DEF Next, Refuse, Begin, SkipArg, RejectFile, OpenFile, SkipLine, NormalizeRecord, RejectRecord,
      ValidateRecord, DumpRecord, EndFile, Exit, vars, results, Valid, Check
  <2>3. pc' = pc \/ pc' \in {"exit", "line", "file"}
    BY DEF Next, Refuse, Begin, SkipArg, RejectFile, OpenFile, SkipLine, NormalizeRecord, RejectRecord,
      ValidateRecord, DumpRecord, DeltaRecord, EndFile, Exit, vars, Dumps, Valid, Check, Validate
  <2>4. pc' # "exit" /\ pc' # "start" => pc # "start" /\ pc # "exit"
    BY <1>4 DEF Next, Refuse, Begin, SkipArg, RejectFile, OpenFile, SkipLine, NormalizeRecord, RejectRecord,
      ValidateRecord, DumpRecord, DeltaRecord, EndFile, Exit, vars, Dumps, Valid, Check, Validate, AtFile
  <2>5. pc' = "start" => out' = << >>
    BY <2>3 DEF Next, Refuse, Begin, SkipArg, RejectFile, OpenFile, SkipLine, NormalizeRecord, RejectRecord,
      ValidateRecord, DumpRecord, DeltaRecord, EndFile, Exit, vars, results, Dumps, Valid, Check, Validate,
      AtFile, WinsInv
  <2>6. ASSUME opt.action = "delta", pc' # "exit", pc' # "start" PROVE LastRecordWins'
    BY <2>1, <2>2, <2>4, <2>6 DEF WinsInv, LastRecordWins, LastPrinted
  <2>7. LastRecordWins'
    BY <2>1, <2>6 DEF LastRecordWins
  <2>8. QED
    BY <1>1, <2>5, <2>7 DEF WinsInv
<1>5. QED
  BY <1>2, <1>3, <1>4

\* References are resolved in what delta has printed last for each name, and in
\* the process environment for the others (envfile.awk:37-40, 164-171).
THEOREM LastRecordHeld == Spec => []LastRecordWins
<1>1. Init => WinsInv
  <2>1. Init => DataInv
    BY DataInit
  <2>2. QED
    BY <2>1 DEF Init, WinsInv, LastRecordWins
<1>2. WinsInv => LastRecordWins
  BY DEF WinsInv
<1>3. QED
  BY <1>1, <1>2, WinsKeeps, PTL DEF Spec
-----------------------------------------------------------------------------
(* The lines as the Zig program joins them. *)

\* A line without its last backslash, if it ends in an odd number of them.
Uncontinued(s) == IF IsContinuation(s) THEN SubSeq(s, 1, Len(s) - 1) ELSE s

\* What lines a to k read joined, given what they read up to k - 1.
ZigJoinedTo(ls, a, g, k) == IF k = a THEN Uncontinued(ls[k]) ELSE g[k - 1] \o Uncontinued(ls[k])

LEMMA UncontinuedType ==
  ASSUME NEW s \in Seq(Byte)
  PROVE  Uncontinued(s) \in Seq(Byte)
<1>1. SubSeq(s, 1, Len(s) - 1) \in Seq(Byte)
  BY CutType
<1>2. QED
  BY <1>1 DEF Uncontinued

LEMMA ZigJoinedRest ==
  ASSUME NEW ls \in Seq(Seq(Byte)), NEW a \in 1..Len(ls), NEW b \in a..Len(ls)
  PROVE  \E f \in [a..b -> Seq(Byte)] :
           /\ ZigJoined(ls, a, b) = f[b]
           /\ \A k \in a..b : f[k] = ZigJoinedTo(ls, a, f, k)
<1> DEFINE m == b - a
           I == a..b
           R == Seq(Byte)
           mu == [k \in I |-> k - a]
           D == [x \in [I -> R] \X I |-> ZigJoinedTo(ls, a, x[1], x[2])]
           Solution(f) == f = [k \in I |-> ZigJoinedTo(ls, a, f, k)]
<1>1. m \in Nat /\ << >> \in R /\ mu \in [I -> 0..m]
  OBVIOUS
<1>2. \A k \in I : ls[k] \in R /\ k >= a /\ (k # a => k - 1 \in I /\ mu[k - 1] < mu[k])
  OBVIOUS
<1>3. ASSUME NEW g, NEW k \in I, k # a => g[k - 1] \in R PROVE ZigJoinedTo(ls, a, g, k) \in R
  <2>1. Uncontinued(ls[k]) \in R
    BY <1>2, UncontinuedType
  <2>2. QED
    BY <1>3, <2>1 DEF ZigJoinedTo
<1>4. D \in [[I -> R] \X I -> R]
  <2>1. ASSUME NEW g \in [I -> R], NEW k \in I PROVE ZigJoinedTo(ls, a, g, k) \in R
    BY <1>2, <1>3
  <2> HIDE DEF I, R
  <2>2. QED
    BY <2>1
<1>5. ASSUME NEW g, NEW h, NEW k \in I, \A j \in I : mu[j] < mu[k] => g[j] = h[j]
      PROVE  ZigJoinedTo(ls, a, g, k) = ZigJoinedTo(ls, a, h, k)
  <2> HIDE DEF mu
  <2>1. k # a => g[k - 1] = h[k - 1]
    BY <1>2, <1>5
  <2>2. QED
    BY <2>1 DEF ZigJoinedTo
<1>6. \A g \in [I -> R], k \in I : D[<<g, k>>] = ZigJoinedTo(ls, a, g, k)
  OBVIOUS
<1>7. \E g : Solution(g)
  <2> HIDE DEF mu, D, I, R, m
  <2>1. \A g, h \in [I -> R] : \A k \in I :
          (\A j \in I : mu[j] < mu[k] => g[j] = h[j]) => D[<<g, k>>] = D[<<h, k>>]
    <3> SUFFICES ASSUME NEW g \in [I -> R], NEW h \in [I -> R], NEW k \in I,
                        \A j \in I : mu[j] < mu[k] => g[j] = h[j]
                 PROVE  D[<<g, k>>] = D[<<h, k>>]
      OBVIOUS
    <3>1. ZigJoinedTo(ls, a, g, k) = ZigJoinedTo(ls, a, h, k)
      BY <1>5
    <3>2. QED
      BY <1>6, <3>1
  <2>2. Recurses(I, R, m, mu, D)
    BY <1>1, <1>4, <2>1 DEF Recurses
  <2>3. PICK g \in [I -> R] : \A k \in I : g[k] = D[<<g, k>>]
    BY <2>2, RecursionSolved DEF Solved
  <2>4. g = [k \in I |-> ZigJoinedTo(ls, a, g, k)]
    BY <1>6, <2>3
  <2>5. QED
    BY <2>4
<1> DEFINE f == CHOOSE g : Solution(g)
<1>8. Solution(f)
  BY <1>7
<1>9. ZigJoined(ls, a, b) = f[b]
  BY DEF ZigJoined, ZigJoinedTo, Uncontinued
<1> HIDE DEF f
<1>10. \A k \in I : f[k] = ZigJoinedTo(ls, a, f, k)
  BY <1>8
<1>11. \A k \in I : f[k] \in R
  <2> DEFINE T == {k \in I : f[k] \in R}
  <2>1. \A k \in I : (\A j \in I : mu[j] < mu[k] => j \in T) => k \in T
    <3> SUFFICES ASSUME NEW k \in I, \A j \in I : mu[j] < mu[k] => j \in T PROVE f[k] \in R
      OBVIOUS
    <3> HIDE DEF mu
    <3>1. k # a => f[k - 1] \in R
      BY <1>2
    <3>2. QED
      BY <1>3, <1>10, <3>1
  <2>2. mu \in [I -> Nat]
    BY <1>1
  <2> HIDE DEF T, mu, I
  <2>3. I \subseteq T
    BY <2>1, <2>2, MeasureInduction
  <2>4. QED
    BY <2>3 DEF T
<1>12. f \in [I -> R]
  BY <1>8, <1>11
<1>13. QED
  BY <1>9, <1>10, <1>12

\* As long as what is joined continues, so does its last line by itself.
LEMMA ContinuesAlone ==
  ASSUME NEW ls \in Seq(Seq(Byte)), NEW a \in 1..Len(ls), NEW b \in a..Len(ls),
         \A k \in a..(b - 1) : OddBackslashes(Joined(ls, a, k))
  PROVE  \A k \in a..b : OddBackslashes(Joined(ls, a, k)) <=> IsContinuation(ls[k])
<1> SUFFICES ASSUME NEW k \in a..b PROVE OddBackslashes(Joined(ls, a, k)) <=> IsContinuation(ls[k])
  OBVIOUS
<1>1. k \in a..Len(ls) /\ ls[k] \in Seq(Byte)
  OBVIOUS
<1>2. CASE k = a
  BY <1>1, <1>2, JoinedStep DEF IsContinuation
<1>3. CASE k > a
  <2> DEFINE s == Joined(ls, a, k - 1)
  <2>1. k - 1 \in a..(b - 1) /\ k - 1 \in a..Len(ls)
    BY <1>3
  <2>2. s \in Seq(Byte) /\ OddBackslashes(s)
    BY <2>1, JoinedType
  <2>3. Joined(ls, a, k) = SubSeq(s, 1, Len(s) - 1) \o ls[k]
    BY <1>1, <1>3, JoinedStep
  <2> HIDE DEF s
  <2>4. QED
    BY <1>1, <2>2, <2>3, OddJoined DEF IsContinuation
<1>4. QED
  BY <1>2, <1>3

LEMMA ZigEndsWhere ==
  ASSUME NEW ls, Len(ls) \in Nat, NEW a \in 1..Len(ls), NEW b \in a..Len(ls),
         b = Len(ls) \/ ~IsContinuation(ls[b]),
         \A k \in a..(b - 1) : IsContinuation(ls[k])
  PROVE  ZigLast(ls, a) = b
<1> DEFINE Ends(c) == /\ c = Len(ls) \/ ~IsContinuation(ls[c])
                      /\ \A k \in a..(c - 1) : IsContinuation(ls[k])
           c == ZigLast(ls, a)
<1>1. c \in a..Len(ls) /\ Ends(c)
  BY DEF ZigLast
<1> HIDE DEF c
<1>2. ~(c < b)
  <2> SUFFICES ASSUME c < b PROVE FALSE
    OBVIOUS
  <2>1. c \in a..(b - 1) /\ c # Len(ls)
    BY <1>1
  <2>2. QED
    BY <1>1, <2>1
<1>3. ~(b < c)
  <2> SUFFICES ASSUME b < c PROVE FALSE
    OBVIOUS
  <2>1. b \in a..(c - 1) /\ b # Len(ls)
    BY <1>1
  <2>2. QED
    BY <1>1, <2>1
<1>4. QED
  BY <1>1, <1>2, <1>3 DEF c

\* The last character goes with the second part.
LEMMA DropFromSecond ==
  ASSUME NEW B, NEW h \in Seq(B), NEW t \in Seq(B), Len(t) > 0
  PROVE  SubSeq(h \o t, 1, Len(h \o t) - 1) = h \o SubSeq(t, 1, Len(t) - 1)
OBVIOUS

LEMMA ZigReadsAs ==
  ASSUME NEW ls \in Seq(Seq(Byte)), NEW a \in 1..Len(ls), NEW b \in a..Len(ls),
         \A k \in a..(b - 1) : IsContinuation(ls[k])
  PROVE  ZigJoined(ls, a, b) = IF IsContinuation(ls[b])
                               THEN SubSeq(Joined(ls, a, b), 1, Len(Joined(ls, a, b)) - 1)
                               ELSE Joined(ls, a, b)
<1> DEFINE I == a..b
           mu == [k \in I |-> k - a]
           J(k) == Joined(ls, a, k)
           Cut(s) == SubSeq(s, 1, Len(s) - 1)
<1>1. PICK f \in [I -> Seq(Byte)] :
        ZigJoined(ls, a, b) = f[b] /\ \A k \in I : f[k] = ZigJoinedTo(ls, a, f, k)
  BY ZigJoinedRest
<1> DEFINE T == {k \in I : f[k] = IF IsContinuation(ls[k]) THEN Cut(J(k)) ELSE J(k)}
<1>2. \A k \in I : k \in a..Len(ls) /\ ls[k] \in Seq(Byte)
                   /\ (k # a => k > a /\ k - 1 \in I /\ k - 1 \in a..(b - 1) /\ k - 1 \in a..Len(ls) /\ mu[k - 1] < mu[k])
  OBVIOUS
<1>3. \A k \in I : (\A j \in I : mu[j] < mu[k] => j \in T) => k \in T
  <2> SUFFICES ASSUME NEW k \in I, \A j \in I : mu[j] < mu[k] => j \in T PROVE k \in T
    OBVIOUS
  <2> HIDE DEF mu, Cut
  <2>1. CASE k = a
    <3>1. f[k] = Uncontinued(ls[k]) /\ J(k) = ls[k]
      BY <1>1, <1>2, <2>1, JoinedStep DEF ZigJoinedTo
    <3>2. QED
      BY <3>1 DEF Uncontinued, Cut
  <2>2. CASE k # a
    <3> DEFINE s == J(k - 1)
               t == ls[k]
    <3>1. k - 1 \in T /\ IsContinuation(ls[k - 1])
      BY <1>2, <2>2
    <3>2. f[k - 1] = Cut(s)
      BY <3>1
    <3>3. s \in Seq(Byte) /\ t \in Seq(Byte)
      BY <1>2, <2>2, JoinedType
    <3>4. Cut(s) \in Seq(Byte)
      BY <3>3, CutType DEF Cut
    <3>5. J(k) = Cut(s) \o t
      BY <1>2, <2>2, JoinedStep DEF Cut
    <3>6. f[k] = Cut(s) \o Uncontinued(t)
      BY <1>1, <2>2, <3>2 DEF ZigJoinedTo
    <3> HIDE DEF J, s, t
    <3>7. IsContinuation(t) => Len(t) > 0
      BY <3>3 DEF IsContinuation, OddBackslashes
    <3>8. IsContinuation(t) => Cut(J(k)) = Cut(s) \o Cut(t)
      BY <3>3, <3>4, <3>5, <3>7, DropFromSecond DEF Cut
    <3>9. f[k] = IF IsContinuation(t) THEN Cut(J(k)) ELSE J(k)
      BY <3>5, <3>6, <3>8 DEF Uncontinued, Cut
    <3>10. QED
      BY <3>9 DEF t
  <2>3. QED
    BY <2>1, <2>2
<1>4. mu \in [I -> Nat]
  OBVIOUS
<1>5. b \in I
  OBVIOUS
<1> HIDE DEF T, mu, I, J, Cut
<1>6. I \subseteq T
  BY <1>3, <1>4, MeasureInduction
<1>7. f[b] = IF IsContinuation(ls[b]) THEN Cut(J(b)) ELSE J(b)
  BY <1>6, <1>5 DEF T
<1>8. QED
  BY <1>1, <1>7 DEF J, Cut

\* Looking at each physical line by itself, the Zig program ends every logical
\* line where the reference does, and reads the same, but for the backslash a
\* file ends in (main.zig:389-411, envfile.awk:89-104).
THEOREM ZigJoinsAsAwk == Spec => []ZigJoins
<1>1. DataInv => ZigJoins
  <2> SUFFICES ASSUME DataInv, pc = "line", i <= Len(lines), opt.cont = "accept"
               PROVE  /\ ZigLast(lines, i) = lineno
                      /\ ZigJoined(lines, i, lineno) =
                           IF IsContinuation(lines[lineno]) THEN SubSeq(line, 1, Len(line) - 1) ELSE line
    BY DEF ZigJoins
  <2>1. lines \in Seq(Seq(Byte)) /\ i \in 1..Len(lines) /\ Len(lines) \in Nat
    BY DEF DataInv
  <2>2. /\ lineno \in i..Len(lines)
        /\ lineno = Len(lines) \/ ~OddBackslashes(Joined(lines, i, lineno))
        /\ \A k \in i..(lineno - 1) : OddBackslashes(Joined(lines, i, k))
    BY <2>1, LastLineFound DEF lineno
  <2> HIDE DEF lineno
  <2>3. \A k \in i..lineno : OddBackslashes(Joined(lines, i, k)) <=> IsContinuation(lines[k])
    BY <2>1, <2>2, ContinuesAlone
  <2>4. lineno = Len(lines) \/ ~IsContinuation(lines[lineno])
    BY <2>1, <2>2, <2>3
  <2>5. \A k \in i..(lineno - 1) : IsContinuation(lines[k])
    <3>1. \A k \in i..(lineno - 1) : k \in i..lineno
      BY <2>1, <2>2
    <3>2. QED
      BY <2>2, <2>3, <3>1
  <2>6. ZigLast(lines, i) = lineno
    BY <2>1, <2>2, <2>4, <2>5, ZigEndsWhere
  <2>7. QED
    BY <2>1, <2>2, <2>5, <2>6, ZigReadsAs DEF line
<1>2. QED
  BY <1>1, DataInit, DataKeeps, PTL DEF Spec
=============================================================================
