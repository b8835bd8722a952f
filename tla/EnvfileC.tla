------------------------------ MODULE EnvfileC ------------------------------
(***************************************************************************)
(* src/src/c/envfile.c with the backend of backend.c: one run over the     *)
(* files of its command line.  The reading of a stream is LineFeed, which  *)
(* the chunked reader is proved to implement (ScanStreamProofs); the       *)
(* resolution of references is Subst, which subst_value is checked to      *)
(* compute (SubstValue).                                                   *)
(*                                                                         *)
(* Unlike the reference the program works on the bytes of the file and not *)
(* on an array of lines, joins lines while it scans, counts per file and   *)
(* adds the counts up when the file is finished, and may run out of memory.*)
(***************************************************************************)
EXTENDS CBackend, AwkPrePass

CONSTANTS
  READ_BUF, WORK_BUF,
  Options, Args, Environs, ConfigNames    \* as in Reference

ASSUME BufferSizes ==
  /\ READ_BUF \in Nat \ {0} /\ WORK_BUF \in Nat
  /\ READ_BUF <= WORK_BUF

ASSUME ProgramInputs ==
  /\ Options \subseteq
       [native : BOOLEAN, action : {"normalize", "validate", "dump", "delta", "apply"},
        bom : {"literal", "strip", "reject", "other"}, crlf : {"strip", "ignore"},
        nul : {"reject", "ignore"}, cont : {"accept", "ignore"}]
  /\ Args \subseteq Seq([kind : {"file", "unreadable", "unnamed"}, bytes : Seq(Byte)])
  /\ \A e \in Environs : \A k \in DOMAIN e : k \in Seq(Byte) /\ e[k] \in Seq(Byte)

VARIABLES
  pc,                  \* "start", between two "file"s, "scan", or "exit"
  opt, args, environ,
  scarce,              \* whether an allocation of this run may fail
  n,
  phase, file, strip_cr, shell_cont, at, partial, line_no, fed, too_long,
  env, counts, total,  \* counts of this file, and of the files before it
  out, listing, diags, status

inputs == <<opt, args, environ, scarce>>
scanner == <<phase, file, strip_cr, shell_cont, at, partial, line_no, fed, too_long>>
vars == <<pc, inputs, n, scanner, env, counts, total, out, listing, diags, status>>

Feed == INSTANCE LineFeed WITH Files <- {}

Zero == [checked |-> 0, errors |-> 0]

Init ==
  /\ pc = "start"
  /\ opt \in Options /\ args \in Args /\ environ \in Environs /\ scarce \in BOOLEAN
  /\ n = 1
  /\ phase = "done" /\ file = <<>> /\ strip_cr = FALSE /\ shell_cont = FALSE
  /\ at = 0 /\ partial = <<>> /\ line_no = 0 /\ fed = <<>> /\ too_long = 0
  /\ env = <<>> /\ counts = Zero /\ total = Zero
  /\ out = <<>> /\ listing = <<>> /\ diags = <<>> /\ status = -1

-----------------------------------------------------------------------------
(* main, up to the loop over the files. *)

BadBom == opt.bom \notin {"literal", "strip", "reject"} \/ (opt.native /\ opt.bom # "literal")

Seeds == opt.action \in {"delta", "apply"}

Fatal ==
  /\ pc = "start"
  /\ BadBom
  /\ pc' = "exit" /\ status' = 1
  /\ UNCHANGED <<inputs, n, scanner, env, counts, total, out, listing, diags>>

\* env_table_init_from_process fails.
FatalMemory ==
  /\ pc = "start"
  /\ ~BadBom /\ Seeds /\ scarce
  /\ pc' = "exit" /\ status' = 1
  /\ UNCHANGED <<inputs, n, scanner, env, counts, total, out, listing, diags>>

InitFromProcess ==
  /\ pc = "start"
  /\ ~BadBom
  /\ pc' = "file"
  /\ env' = IF Seeds THEN [k \in DOMAIN environ \ (ConfigNames \cup {<<>>}) |-> environ[k]]
            ELSE env
  /\ UNCHANGED <<inputs, n, scanner, counts, total, out, listing, diags, status>>

-----------------------------------------------------------------------------
(* process_file *)

AtFile == pc = "file" /\ n <= Len(args)

\* total.errors++ without a scan.
DropFile(code) ==
  /\ total' = [total EXCEPT !.errors = @ + 1]
  /\ diags' = Append(diags, [code |-> code, file |-> n, line |-> 0])
  /\ n' = n + 1
  /\ UNCHANGED <<pc, inputs, scanner, env, counts, out, listing, status>>

\* fopen fails, also for an empty name.
CannotOpen ==
  /\ AtFile /\ args[n].kind # "file"
  /\ DropFile("CANNOT_OPEN")

Bytes == args[n].bytes

NulFound == opt.nul = "reject" /\ Has(Bytes, NUL)

HasBom == Bytes # <<>> /\ Bytes[1] = BOM

RejectNul ==
  /\ AtFile /\ args[n].kind = "file"
  /\ NulFound
  /\ DropFile("FILE_NUL")

RejectBom ==
  /\ AtFile /\ args[n].kind = "file"
  /\ ~NulFound /\ HasBom /\ opt.bom = "reject"
  /\ DropFile("FILE_BOM")

\* The slurp or the fmemopen fails.
FileMemory ==
  /\ AtFile /\ args[n].kind = "file" /\ scarce
  /\ DropFile("OUT_OF_MEMORY")

Data == IF HasBom /\ opt.bom = "strip" THEN After(Bytes, 1) ELSE Bytes

\* Mutant of AllRecordsHaveTrailingCr: the last record may lack its CR.
AllLinesHaveTrailingCr ==
  Data # <<>> /\ \A j \in 1..Len(Data) : Data[j] = LF => j > 1 /\ Data[j - 1] = CR

\* No record of the data lacks its CR: the byte before every newline, and the
\* last byte, are CRs.
AllRecordsHaveTrailingCr ==
  /\ Data # <<>>
  /\ \A j \in 1..Len(Data) : Data[j] = LF => j > 1 /\ Data[j - 1] = CR
  /\ Data[Len(Data)] \in {CR, LF}

ScanFile ==
  /\ AtFile /\ args[n].kind = "file"
  /\ ~NulFound /\ ~(HasBom /\ opt.bom = "reject")
  /\ pc' = "scan"
  /\ phase' = "busy"
  /\ file' = Data
  /\ strip_cr' = (opt.crlf = "strip" /\ AllRecordsHaveTrailingCr)
  /\ shell_cont' = (~opt.native /\ opt.cont = "accept")
  /\ at' = 0 /\ partial' = <<>> /\ line_no' = 0 /\ fed' = <<>> /\ too_long' = 0
  /\ counts' = Zero
  /\ UNCHANGED <<inputs, n, env, total, out, listing, diags, status>>

-----------------------------------------------------------------------------
(* scan_stream and normalize_stream: what they do with a line. *)

rec == fed'[Len(fed')]    \* the line just handed on

Parse(text) == IF opt.native THEN ParseNative(text) ELSE ParseShell(text)

Diag(code) == [code |-> code, file |-> n, line |-> rec.no]
Shown(key, value) == [key |-> key, value |-> value, file |-> n, line |-> rec.no]
Errors(k) == [checked |-> counts.checked + 1, errors |-> counts.errors + k]

\* A line is joined, or nothing is left of the stream.
ScanOn ==
  /\ pc = "scan"
  /\ (\E end \in 0..Len(file) : Feed!JoinLine(end)) \/ Feed!Finish
  /\ UNCHANGED <<pc, inputs, n, env, counts, total, out, listing, diags, status>>

\* Mutant of LineTooLong: reports it without counting it.
LineTooLongUncounted ==
  /\ pc = "scan"
  /\ (\E end \in 0..Len(file) : Feed!DropJoined(end)) \/ Feed!GiveUp
  /\ diags' = Append(diags, [code |-> "LINE_TOO_LONG", file |-> n, line |-> 0])
  /\ UNCHANGED <<pc, inputs, n, env, counts, total, out, listing, status>>

\* LINE_ERROR_LINE_TOO_LONG has no line number.
LineTooLong ==
  /\ pc = "scan"
  /\ (\E end \in 0..Len(file) : Feed!DropJoined(end)) \/ Feed!GiveUp
  /\ counts' = [counts EXCEPT !.errors = @ + 1]
  /\ diags' = Append(diags, [code |-> "LINE_TOO_LONG", file |-> n, line |-> 0])
  /\ UNCHANGED <<pc, inputs, n, env, total, out, listing, status>>

\* A logical line is handed to the parser.
ScanLine ==
  /\ pc = "scan"
  /\ \E end \in 0..Len(file) : Feed!FeedLine(end) \/ Feed!FeedJoined(end)
  /\ UNCHANGED <<pc, inputs, n, total, listing, status>>

SkipLine ==
  /\ ScanLine
  /\ BlankOrComment(rec.text)
  /\ UNCHANGED <<env, counts, out, diags>>

NormalizeLine ==
  /\ ScanLine
  /\ opt.action = "normalize" /\ ~BlankOrComment(rec.text)
  /\ LET eq == Index(rec.text, EQ)
     IN IF eq = 0
        THEN /\ counts' = Errors(1)
             /\ diags' = Append(diags, Diag("NO_EQUALS"))
             /\ UNCHANGED out
        ELSE /\ counts' = Errors(0)
             /\ out' = Append(out, Shown(SubSeq(rec.text, 1, eq - 1), After(rec.text, eq)))
             /\ UNCHANGED diags
  /\ UNCHANGED env

RejectLine ==
  /\ ScanLine
  /\ opt.action # "normalize"
  /\ Parse(rec.text).status \notin {"SKIP", "OK"}
  /\ counts' = Errors(1)
  /\ diags' = Append(diags, Diag(Parse(rec.text).status))
  /\ UNCHANGED <<env, out>>

Accept ==
  /\ ScanLine
  /\ opt.action # "normalize"
  /\ Parse(rec.text).status = "OK"

ValidateLine ==
  /\ Accept /\ opt.action = "validate"
  /\ counts' = Errors(0)
  /\ UNCHANGED <<env, out, diags>>

DumpLine ==
  /\ Accept /\ opt.action = "dump"
  /\ counts' = Errors(0)
  /\ out' = Append(out, Shown(Parse(rec.text).key, Parse(rec.text).value))
  /\ UNCHANGED <<env, diags>>

Resolve(record) ==
  IF opt.native \/ record.kind # "SINGLE_QUOTED" THEN Subst(record.value, env)
  ELSE Literally(record.value)

Unbound(k) == [u \in 1..k |-> Diag("UNBOUND_REF")]

DeltaLine ==
  /\ Accept /\ Seeds
  /\ LET record == Parse(rec.text)
         res    == Resolve(record)
     IN /\ counts' = Errors(res.unbound)
        /\ diags' = diags \o Unbound(res.unbound)
        /\ env' = [k \in DOMAIN env \cup {record.key} |->
                     IF k = record.key THEN res.text ELSE env[k]]
        /\ out' = IF opt.action = "delta" THEN Append(out, Shown(record.key, res.text)) ELSE out

\* The copy of the value fails (which is reported twice), the substitution
\* does, after some of its reports, or the table cannot hold the binding.
DeltaMemory ==
  /\ Accept /\ Seeds /\ scarce
  /\ \E unbound \in 0..Resolve(Parse(rec.text)).unbound, k \in {1, 2} :
       /\ k = 2 => unbound = 0
       /\ counts' = Errors(unbound + k)
       /\ diags' = diags \o Unbound(unbound) \o
                     [u \in 1..k |-> [code |-> "OUT_OF_MEMORY", file |-> n, line |-> 0]]
  /\ UNCHANGED <<env, out>>

\* Mutant of AddedUp: only the errors of the last file are kept.
LastErrors == [checked |-> total.checked + counts.checked, errors |-> counts.errors]

\* total->checked += counts.checked; total->errors += counts.errors
AddedUp ==
  [checked |-> total.checked + counts.checked, errors |-> total.errors + counts.errors]

EndFile ==
  /\ pc = "scan" /\ phase = "done"
  /\ total' = AddedUp
  /\ counts' = Zero
  /\ pc' = "file" /\ n' = n + 1 /\ fed' = <<>>
  /\ UNCHANGED <<inputs, phase, file, strip_cr, shell_cont, at, partial, line_no, too_long,
                 env, out, listing, diags, status>>

-----------------------------------------------------------------------------
\* env_table_emit_sorted prints nothing if it cannot allocate its array.
Listing ==
  {[k \in DOMAIN env \ ConfigNames |-> env[k]]} \cup (IF scarce THEN {<<>>} ELSE {})

ExitStatus == IF total.errors > 0 THEN 1 ELSE 0

\* The listing of apply, the summary and the exit status.
Exit ==
  /\ pc = "file" /\ n > Len(args)
  /\ pc' = "exit"
  /\ IF opt.action = "apply" THEN listing' \in Listing ELSE listing' = listing
  /\ status' = ExitStatus
  /\ UNCHANGED <<inputs, n, scanner, env, counts, total, out, diags>>

Next ==
  \/ Fatal \/ FatalMemory \/ InitFromProcess
  \/ CannotOpen \/ RejectNul \/ RejectBom \/ FileMemory \/ ScanFile
  \/ ScanOn \/ LineTooLong
  \/ SkipLine \/ NormalizeLine \/ RejectLine \/ ValidateLine \/ DumpLine
  \/ DeltaLine \/ DeltaMemory
  \/ EndFile \/ Exit

Spec == Init /\ [][Next]_vars

-----------------------------------------------------------------------------
(* Properties. *)

\* For which inputs the program is to do what the reference does.
Handed(o, bytes) ==
  LET ls == PrePasses(o, bytes)
  IN {Joined(ls, a, LastLine(o, ls, a)) : a \in 1..Len(ls)}

\* The last line is terminated and ends in an odd number of backslashes.
Dangles(o, bytes) ==
  LET ls == PrePasses(o, bytes)
  IN /\ o.cont = "accept" /\ bytes # <<>> /\ bytes[Len(bytes)] = LF
     /\ OddBackslashes(ls[Len(ls)])

\* The C parser looks at the name before the first byte of the value.
TwoFaults(o, text) ==
  /\ ~o.native /\ Has(text, EQ)
  /\ Fault(FALSE, text) = "VALUE_LEADING_WHITESPACE" /\ ~IsName(Key(text))

\* The one value the reference loses.
IsSentinel(o, text) == Has(text, EQ) /\ Parsed(o.native, text) = Sentinel

\* Short enough for the buffers of the reader.
FitsBuffers(o, bytes) == Len(bytes) <= WORK_BUF - READ_BUF

\* No NUL byte, except where both programs refuse it.
NulAgreed(o, bytes) == Has(bytes, NUL) => o.nul = "reject"

Comparable(o, arg) ==
  /\ arg.kind # "unnamed"
  /\ NulAgreed(o, arg.bytes) /\ FitsBuffers(o, arg.bytes)
  /\ \A text \in Handed(o, arg.bytes) : ~TwoFaults(o, text) /\ ~IsSentinel(o, text)

\* The dispatcher refuses native with continuation (bin/envfile:156).  An entry
\* of the process environment that has no name is skipped (envfile.c:258), but
\* the reference may resolve ${} with it.
AllComparable ==
  /\ args # <<>> /\ ~(opt.native /\ opt.cont = "accept")
  /\ <<>> \notin DOMAIN environ
  /\ \A k \in 1..Len(args) : Comparable(opt, args[k])

NoneDangles == \A k \in 1..Len(args) : ~Dangles(opt, args[k].bytes)

\* The runs that are compared with the reference; Agreed ones do not end inside
\* a continued line.
Compared == AllComparable /\ ~scarce

Agreed == Compared /\ NoneDangles

ComparedSpec == Init /\ Compared /\ [][Next]_vars

\* The two programs word this one diagnostic differently.
AsReference(d) == IF d.code = "CANNOT_OPEN" THEN [d EXCEPT !.code = "FILE_UNREADABLE"] ELSE d

\* The variables of the reference.  It takes lines as far as the last one that
\* was handed on, and at the end of the file it has taken all of them.
RefStage == IF pc = "scan" THEN "line" ELSE pc
RefLines == IF pc = "scan" THEN PrePasses(opt, Bytes) ELSE <<>>
RefLine ==
  IF pc # "scan" THEN 1
  ELSE IF phase = "done" THEN Len(RefLines) + 1
  ELSE IF fed # <<>> THEN fed[Len(fed)].no + 1 ELSE 1
RefChecked == total.checked + counts.checked
RefErrors == total.errors + counts.errors
RefDiags == [k \in 1..Len(diags) |-> AsReference(diags[k])]

Ref == INSTANCE Reference WITH
  pc <- RefStage, lines <- RefLines, i <- RefLine,
  checked <- RefChecked, errors <- RefErrors, diags <- RefDiags

\* "bin/envfile.awk is the canonical reference implementation. All other
\* implementations are verified against its output" (README.md:111-112): every
\* compared run is a run of the reference.
RefinesReference == Ref!Spec

\* Step by step the program checks, reports, prints and binds what the
\* reference does, in the same order and under the same line numbers, although
\* it joins lines while scanning, strips CRs line by line and counts per file;
\* on files that do not end inside a continued line.
ImplementsReference ==
  (Agreed => Ref!Init) /\ [][Agreed => [Ref!Next]_(Ref!vars)]_vars

\* What the run could not keep shows in the exit status: a run that ends with
\* status 0 has printed every record it checked, whatever allocation failed.
AllOrError ==
  pc = "exit" /\ status = 0 /\ opt.action \in {"normalize", "dump", "delta"}
    => Len(out) = total.checked

\* A file that ends without an error was scanned to its end: a line too long
\* for the buffers may cost the rest of the file, but never silently.
ScannedWhole ==
  pc = "scan" /\ phase = "done" /\ counts.errors = 0 => line_no = Len(SplitLines(file))

\* The error count and the diagnostics on stderr never drift apart, while a
\* file is scanned and when its counts are added up.
ErrorsReported == total.errors + counts.errors = Len(diags)
=============================================================================
