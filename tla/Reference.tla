------------------------------ MODULE Reference -----------------------------
(***************************************************************************)
(* src/bin/envfile.awk, the implementation the others are measured by: one *)
(* run of the program over the files of its command line.                  *)
(*                                                                         *)
(* A run reads a whole file, puts it through the pre-passes, and takes its *)
(* logical lines through normalize, validate, dump, delta and apply as far *)
(* as the action goes.  The bindings of one record are visible to all the  *)
(* records after it, in this file and in the next ones.                    *)
(***************************************************************************)
EXTENDS AwkPrePass, FiniteSets

CONSTANTS
  Options,       \* settings of the ENVFILE_* variables a run may have
  Args,          \* command lines: sequences of files
  Environs,      \* process environments
  ConfigNames    \* the names that begin with ENVFILE_

ASSUME RunInputs ==
  /\ Options \subseteq
       [native : BOOLEAN, action : {"normalize", "validate", "dump", "delta", "apply"},
        bom : {"literal", "strip", "reject", "other"}, crlf : {"strip", "ignore"},
        nul : {"reject", "ignore"}, cont : {"accept", "ignore"}]
  /\ Args \subseteq Seq([kind : {"file", "unreadable", "unnamed"}, bytes : Seq(Byte)])
  /\ \A e \in Environs : \A k \in DOMAIN e : k \in Seq(Byte) /\ e[k] \in Seq(Byte)

VARIABLES
  pc,        \* "start", between two "file"s, at a "line", or "exit"
  opt, args, environ,
  n,         \* the file being processed, an index into args
  lines,     \* its lines after the pre-passes
  i,         \* the next of them
  env, checked, errors,
  out,       \* what was printed for records: key, value, and where it came from
  listing,   \* what apply prints at the end
  diags,     \* the diagnostics
  status     \* exit status, -1 before the exit

inputs == <<opt, args, environ>>
results == <<env, checked, errors, out, listing, diags>>
vars == <<pc, inputs, n, lines, i, results, status>>

Init ==
  /\ pc = "start"
  /\ opt \in Options /\ args \in Args /\ environ \in Environs
  /\ n = 1 /\ lines = <<>> /\ i = 1
  /\ env = <<>> /\ checked = 0 /\ errors = 0
  /\ out = <<>> /\ listing = <<>> /\ diags = <<>> /\ status = -1

-----------------------------------------------------------------------------
(* BEGIN, up to the first file. *)

BadOptions(o) ==
  o.bom \notin {"literal", "strip", "reject"} \/ (o.native /\ o.bom # "literal")

\* FATAL_ERROR_BAD_ENVFILE_VALUE, FATAL_ERROR_UNSUPPORTED
Refuse ==
  /\ pc = "start"
  /\ BadOptions(opt)
  /\ pc' = "exit" /\ status' = 1
  /\ UNCHANGED <<inputs, n, lines, i, results>>

WithoutConfig(e) == [k \in DOMAIN e \ ConfigNames |-> e[k]]

Binds(o) == o.action \in {"delta", "apply"}

Begin ==
  /\ pc = "start"
  /\ ~BadOptions(opt)
  /\ pc' = "file"
  /\ env' = IF Binds(opt) THEN WithoutConfig(environ) ELSE env
  /\ UNCHANGED <<inputs, n, lines, i, checked, errors, out, listing, diags, status>>

-----------------------------------------------------------------------------
(* normalize: from the file to its logical lines. *)

AtFile == pc = "file" /\ n <= Len(args)

SkipArg ==
  /\ AtFile /\ args[n].kind = "unnamed"
  /\ n' = n + 1
  /\ UNCHANGED <<pc, inputs, lines, i, results, status>>

\* Mutant of RejectFile: the error is not counted.
RejectFileUncounted ==
  /\ AtFile /\ args[n].kind # "unnamed"
  /\ FileFault(opt, args[n]) # "NONE"
  /\ diags' = Append(diags, [code |-> FileFault(opt, args[n]), file |-> n, line |-> 0])
  /\ n' = n + 1
  /\ UNCHANGED <<pc, inputs, lines, i, env, checked, errors, out, listing, status>>

\* Mutant of RejectFile: reports the fault and goes on with the file.
RejectFileLate ==
  /\ AtFile /\ args[n].kind # "unnamed"
  /\ FileFault(opt, args[n]) # "NONE"
  /\ errors' = errors + 1
  /\ diags' = Append(diags, [code |-> FileFault(opt, args[n]), file |-> n, line |-> 0])
  /\ pc' = "line" /\ lines' = PrePasses(opt, args[n].bytes)
  /\ UNCHANGED <<inputs, n, i, env, checked, out, listing, status>>

RejectFile ==
  /\ AtFile /\ args[n].kind # "unnamed"
  /\ FileFault(opt, args[n]) # "NONE"
  /\ errors' = errors + 1
  /\ diags' = Append(diags, [code |-> FileFault(opt, args[n]), file |-> n, line |-> 0])
  /\ n' = n + 1
  /\ UNCHANGED <<pc, inputs, lines, i, env, checked, out, listing, status>>

OpenFile ==
  /\ AtFile /\ args[n].kind # "unnamed"
  /\ FileFault(opt, args[n]) = "NONE"
  /\ lines' = PrePasses(opt, args[n].bytes)
  /\ pc' = "line"
  /\ UNCHANGED <<inputs, n, i, results, status>>

-----------------------------------------------------------------------------
(* validate, unquote, dump and delta: one logical line. *)

lineno == LastLine(opt, lines, i)
line == Joined(lines, i, lineno)

Diag(code) == [code |-> code, file |-> n, line |-> lineno]
Shown(key, value) == [key |-> key, value |-> value, file |-> n, line |-> lineno]

\* Mutant of Validate: a joined line is followed by its own second line.
ValidateNext ==
  /\ pc = "line" /\ i <= Len(lines)
  /\ i' = i + 1
  /\ UNCHANGED <<pc, inputs, n, lines, listing, status>>

Validate ==
  /\ pc = "line" /\ i <= Len(lines)
  /\ i' = lineno + 1
  /\ UNCHANGED <<pc, inputs, n, lines, listing, status>>

SkipLine ==
  /\ Validate
  /\ NotARecord(line)
  /\ UNCHANGED <<env, checked, errors, out, diags>>

Check == Validate /\ ~NotARecord(line) /\ checked' = checked + 1

\* normalize prints every record that has a `=`.
NormalizeRecord ==
  /\ Check
  /\ opt.action = "normalize" /\ Has(line, EQ)
  /\ out' = Append(out, Shown(Key(line), Value(line)))
  /\ UNCHANGED <<env, errors, diags>>

RejectRecord ==
  /\ Check
  /\ IF opt.action = "normalize" THEN ~Has(line, EQ) ELSE Fault(opt.native, line) # "NONE"
  /\ diags' = Append(diags, Diag(Fault(opt.native, line)))
  /\ errors' = errors + 1
  /\ UNCHANGED <<env, out>>

Valid == Check /\ opt.action # "normalize" /\ Fault(opt.native, line) = "NONE"

Dumps == Valid /\ Parsed(opt.native, line) # Sentinel

\* The action goes no further, or dump() takes the value for a reported fault.
ValidateRecord ==
  /\ Valid
  /\ opt.action = "validate" \/ Parsed(opt.native, line) = Sentinel
  /\ UNCHANGED <<env, errors, out, diags>>

DumpRecord ==
  /\ Dumps /\ opt.action = "dump"
  /\ out' = Append(out, Shown(Key(line), Parsed(opt.native, line)))
  /\ UNCHANGED <<env, errors, diags>>

Resolved(o, text, e) ==
  IF Substituted(o.native, text) THEN Subst(Parsed(o.native, text), e)
  ELSE Literally(Parsed(o.native, text))

\* Mutant of Bound: a name that is bound keeps its value.
BoundOnce(key, text) ==
  [k \in DOMAIN env \cup {key} |-> IF k \in DOMAIN env THEN env[k] ELSE text]

\* The environment with one binding more.
Bound(key, text) ==
  [k \in DOMAIN env \cup {key} |-> IF k = key THEN text ELSE env[k]]

\* The binding is made even if a reference in the value was unbound.
DeltaRecord ==
  /\ Dumps /\ Binds(opt)
  /\ LET key == Key(line)
         res == Resolved(opt, line, env)
     IN /\ env' = Bound(key, res.text)
        /\ out' = IF opt.action = "delta" THEN Append(out, Shown(key, res.text)) ELSE out
        /\ errors' = errors + res.unbound
        /\ diags' = diags \o [u \in 1..res.unbound |-> Diag("UNBOUND_REF")]

EndFile ==
  /\ pc = "line" /\ i > Len(lines)
  /\ pc' = "file" /\ n' = n + 1 /\ lines' = <<>> /\ i' = 1
  /\ UNCHANGED <<inputs, results, status>>

\* emit_env_sorted, the summary and the exit status
Exit ==
  /\ pc = "file" /\ n > Len(args)
  /\ pc' = "exit"
  /\ listing' = IF opt.action = "apply" THEN WithoutConfig(env) ELSE listing
  /\ status' = IF errors > 0 THEN 1 ELSE 0
  /\ UNCHANGED <<inputs, n, lines, i, env, checked, errors, out, diags>>

-----------------------------------------------------------------------------
Next ==
  \/ Refuse \/ Begin
  \/ SkipArg \/ RejectFile \/ OpenFile
  \/ SkipLine \/ NormalizeRecord \/ RejectRecord \/ ValidateRecord
  \/ DumpRecord \/ DeltaRecord
  \/ EndFile \/ Exit

Spec == Init /\ [][Next]_vars

-----------------------------------------------------------------------------
(* Properties. *)

Place(entry) == <<entry.file, entry.line>>

Printed == {Place(out[k]) : k \in 1..Len(out)}

Faulty == {Place(diags[k]) : k \in {k \in 1..Len(diags) :
                                     diags[k].line > 0 /\ diags[k].code # "UNBOUND_REF"}}

Rejected == {diags[k].file : k \in {k \in 1..Len(diags) : diags[k].line = 0}}

\* No value can be the sentinel.
NoSentinel == \A k \in 1..Len(args) : ~Has(args[k].bytes, SOH)

\* No record is lost, printed twice, or both printed and rejected: those that
\* were checked are those printed and those reported, each at its own line;
\* unless dump() takes a value for a reported fault (envfile.awk:158-170).
RecordsAccounted ==
  /\ Printed \cap Faulty = {} /\ Cardinality(Printed) = Len(out)
  /\ opt.action \in {"normalize", "dump", "delta"} /\ NoSentinel =>
       checked = Cardinality(Printed) + Cardinality(Faulty)

\* A file that is refused as a whole leaves no other trace: none of its records
\* was printed, reported or bound before the refusal (envfile.awk:58-76).
RefusedWhole ==
  \A p \in Printed \cup Faulty : p[1] \notin Rejected

\* The last of the lines printed for a key.
LastPrinted(key) ==
  {k \in 1..Len(out) : out[k].key = key /\ \A j \in (k + 1)..Len(out) : out[j].key # key}

\* The environment references are resolved in is the one delta has printed: the
\* last record of a name wins, over the process environment too, and across
\* files; ENVFILE_* names of the process are not in it.
LastRecordWins ==
  opt.action = "delta" /\ pc \notin {"start", "exit"} =>
    \A key \in DOMAIN env :
      IF \E k \in 1..Len(out) : out[k].key = key
      THEN \A k \in LastPrinted(key) : env[key] = out[k].value
      ELSE key \in DOMAIN environ \ ConfigNames /\ env[key] = environ[key]

\* The errors counted are those reported, and the exit status tells.
ErrorsReported ==
  /\ errors = Len(diags)
  /\ pc = "exit" => (status = 0 <=> diags = <<>> /\ ~BadOptions(opt))

\* "For `native`: identity - values are literal bytes, no substitution"
\* (docs/PIPELINE.md:89): of a native file dump and delta print every record
\* without fault, as it stands.
NativeIdentity ==
  opt.native /\ opt.cont = "ignore" /\ opt.action \in {"dump", "delta"} /\ pc = "line" =>
    \A k \in 1..(i - 1) :
      ~NotARecord(lines[k]) /\ Fault(TRUE, lines[k]) = "NONE" =>
        \E e \in 1..Len(out) :
          out[e] = [key |-> Key(lines[k]), value |-> Value(lines[k]), file |-> n, line |-> k]
=============================================================================
