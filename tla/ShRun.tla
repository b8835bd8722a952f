-------------------------------- MODULE ShRun --------------------------------
(***************************************************************************)
(* src/bin/envfile.sh as a process among files: the copies its pre-passes  *)
(* make under TMPDIR, the file that holds the environment of delta and     *)
(* apply, and the clean-up of both.  Its functions share one set of        *)
(* variables; `tmp` is the name of the last copy, whoever made it.         *)
(*                                                                         *)
(* The lines of a file are records already: [key, ref, text, bad], a value *)
(* being a text or a reference, and bad if the record is refused, for want *)
(* of a name if key is "".  A key ENVFILE stands for ENVFILE_* names.      *)
(***************************************************************************)
EXTENDS Integers, Sequences, FiniteSetsExt, SequencesExt, Functions

CONSTANT Temps   \* the names mktemp gives

STORE == "store"          \* $ENV_STORE
SPARE == "store.tmp"      \* $ENV_STORE.tmp

ASSUME TempsApart == Temps \cap {STORE, SPARE, "", "-"} = {}

VARIABLES
  step,      \* "idle", ..., "end", or "delegated"
  shell,     \* [files, piped, intmp, lines, full, signal]: the caller's files,
             \* standard input, which files are under TMPDIR, what env prints,
             \* whether mktemp may fail, whether a signal may come
  sets,      \* [format, action, bom, crlf, nul, cont]
  given,     \* the operands of the command line
  operands,  \* those not finished
  piped,     \* what is left of standard input
  disk,      \* the files there are: contents [nul, bom, crs, records], or lines
  input, tmp,
  at_line,   \* the next record of the input
  source,    \* what a loop has still to read of the store it opened
  binding,   \* what env_set is binding
  errs, listing, code,
  signalled  \* a signal came

paths == <<input, tmp>>
loop == <<source, binding>>
shellVars == <<step, shell, sets, given, operands, piped, disk, paths, at_line, loop, errs, listing,
               code, signalled>>

Nothing == [nul |-> FALSE, bom |-> FALSE, crs |-> TRUE, records |-> <<>>]

ShellIdle(s) ==
  /\ step = "idle" /\ shell = s
  /\ sets = [action |-> "", format |-> "", bom |-> "", crlf |-> "", nul |-> "", cont |-> ""]
  /\ given = <<>> /\ operands = <<>> /\ piped = s.piped /\ disk = s.files
  /\ input = "" /\ tmp = "" /\ at_line = 1
  /\ source = <<>> /\ binding = [key |-> "", text |-> ""]
  /\ errs = 0 /\ listing = <<>> /\ code = -1 /\ signalled = FALSE

-----------------------------------------------------------------------------
(* The settings and the environment. *)

Default(value, default) == IF value = "" THEN default ELSE value

\* What it refuses of the settings does not get past the dispatcher.  Lines with
\* NUL bytes are left to the reference.
Configure(s, files) ==
  /\ step = "idle"
  /\ given' = (IF files = <<>> THEN <<"-">> ELSE files) /\ operands' = given'
  /\ sets' = [s EXCEPT !.bom = Default(@, IF s.format = "native" THEN "literal" ELSE "strip"),
                       !.crlf = Default(@, "ignore"), !.nul = Default(@, "reject"),
                       !.cont = Default(@, "ignore")]
  /\ step' = IF s.nul = "ignore" THEN "delegated" ELSE "seed"
  /\ UNCHANGED <<shell, piped, disk, paths, at_line, loop, errs, listing, code, signalled>>

Keeps == sets.action \in {"delta", "apply"}

Written(path, content) == [p \in DOMAIN disk \cup {path} |-> IF p = path THEN content ELSE disk[p]]
Removed(these) == Restrict(disk, DOMAIN disk \ these)

\* exit, and the trap on it.
End(status) ==
  /\ code' = status /\ step' = "end" /\ disk' = Removed({STORE, SPARE})
  /\ UNCHANGED <<shell, sets, given, operands, piped, paths, at_line, loop, errs, listing, signalled>>

\* mktemp ... || exit 1
NoTemp ==
  /\ shell.full
  /\ \/ step = "seed" /\ Keeps
     \/ step = "file" /\ operands # <<>> /\ Head(operands) = "-"
  /\ End(1)

InitEnvStore ==
  /\ step = "seed"
  /\ IF Keeps THEN source' = shell.lines /\ disk' = Written(STORE, <<>>) /\ step' = "fill"
              ELSE step' = "file" /\ UNCHANGED <<source, disk>>
  /\ UNCHANGED <<shell, sets, given, operands, piped, paths, at_line, binding, errs, listing, code, signalled>>

\* A redirection from a store that is gone fails: nothing is read.
Store == IF STORE \in DOMAIN disk THEN disk[STORE] ELSE <<>>

\* One turn of its loop; a line of env without `=` has the key "".  A trap waits
\* for the end of the pipeline.
FillStore ==
  /\ step = "fill" /\ source # <<>>
  /\ disk' = IF Head(source).key \in {"", "ENVFILE"} THEN disk
             ELSE Written(STORE, Append(Store, Head(source)))
  /\ source' = Tail(source)
  /\ UNCHANGED <<step, shell, sets, given, operands, piped, paths, at_line, binding, errs, listing, code, signalled>>

StoreFilled ==
  /\ step = "fill" /\ source = <<>>
  /\ step' = "file"
  /\ UNCHANGED <<shell, sets, given, operands, piped, disk, paths, at_line, loop, errs, listing, code, signalled>>

-----------------------------------------------------------------------------
(* process_file: the pre-passes. *)

\* mktemp gives a name that is not there; Temps bounds how many there are.
Fresh == CHOOSE t \in Temps : t \notin DOMAIN disk
IsFresh == Temps \ DOMAIN disk # {}

OpenFile ==
  /\ step = "file" /\ operands # <<>> /\ Head(operands) # "-"
  /\ input' = Head(operands) /\ step' = "nul"
  /\ UNCHANGED <<shell, sets, given, operands, piped, disk, tmp, at_line, loop, errs, listing, code, signalled>>

SlurpStdin ==
  /\ step = "file" /\ operands # <<>> /\ Head(operands) = "-" /\ IsFresh
  /\ disk' = Written(Fresh, piped) /\ piped' = Nothing
  /\ input' = Fresh /\ tmp' = Fresh /\ step' = "nul"
  /\ UNCHANGED <<shell, sets, given, operands, at_line, loop, errs, listing, code, signalled>>

\* What a command reads from $input, a file that cannot be opened included.
Content == IF input \in DOMAIN disk THEN disk[input] ELSE Nothing

RejectInput ==
  /\ \/ step = "nul" /\ (input \notin DOMAIN disk \/ Content.nul)
     \/ step = "bom" /\ Content.bom /\ sets.bom = "reject"
  /\ errs' = errs + 1 /\ step' = "drop"
  /\ UNCHANGED <<shell, sets, given, operands, piped, disk, paths, at_line, loop, listing, code, signalled>>

Stage == [nul |-> "bom", bom |-> "crlf", crlf |-> "cont", cont |-> "line"]

\* Whether the stage makes a copy.
Copies ==
  \/ step = "bom" /\ Content.bom /\ sets.bom = "strip"
  \/ step = "crlf" /\ Content.crs /\ sets.crlf = "strip"
  \/ step = "cont" /\ sets.cont = "accept"

PassOver ==
  /\ step \in DOMAIN Stage /\ ~Copies
  /\ step = "nul" => input \in DOMAIN disk /\ ~Content.nul
  /\ step = "bom" => ~(Content.bom /\ sets.bom = "reject")
  /\ step' = Stage[step]
  /\ UNCHANGED <<shell, sets, given, operands, piped, disk, paths, at_line, loop, errs, listing, code, signalled>>

Copy ==
  /\ Copies /\ IsFresh
  /\ disk' = Written(Fresh, IF step = "bom" THEN [Content EXCEPT !.bom = FALSE] ELSE Content)
  /\ tmp' = Fresh /\ input' = Fresh
  /\ step' = Stage[step]
  /\ UNCHANGED <<shell, sets, given, operands, piped, at_line, loop, errs, listing, code, signalled>>

\* mktemp fails here without consequences: the input has no name from then on.
CopyNowhere ==
  /\ Copies /\ shell.full
  /\ tmp' = "" /\ input' = ""
  /\ step' = Stage[step]
  /\ UNCHANGED <<shell, sets, given, operands, piped, disk, at_line, loop, errs, listing, code, signalled>>

-----------------------------------------------------------------------------
(* validate_line and do_delta. *)

\* A BOM that was not stripped is part of the first name.
WithBom(r) == [r EXCEPT !.key = "other", !.bad = sets.format # "native" \/ (@ /\ r.key # "")]

Record ==
  LET r == Content.records[at_line]
  IN IF at_line = 1 /\ Content.bom THEN WithBom(r) ELSE r

AtRecord == step = "line" /\ at_line <= Len(Content.records)

\* Validated, printed, or refused.
CheckRecord ==
  /\ AtRecord /\ (Record.bad \/ ~Keeps)
  /\ errs' = IF Record.bad THEN errs + 1 ELSE errs
  /\ at_line' = at_line + 1
  /\ UNCHANGED <<step, shell, sets, given, operands, piped, disk, paths, loop, listing, code, signalled>>

Named(lines, name) == {i \in 1..Len(lines) : lines[i].key = name}

\* env_get: what the last line of the name says.
Value(lines, name) == lines[Max(Named(lines, name))].text

BindRecord ==
  /\ AtRecord /\ ~Record.bad /\ Keeps
  /\ LET unbound == Record.ref # "" /\ Named(Store, Record.ref) = {}
     IN binding' =
          [key |-> Record.key,
           text |-> IF Record.ref = "" THEN Record.text
                    ELSE IF unbound THEN "" ELSE Value(Store, Record.ref)]
        /\ errs' = IF unbound THEN errs + 1 ELSE errs
  /\ source' = Store /\ disk' = Written(SPARE, <<>>) /\ step' = "copy"
  /\ UNCHANGED <<shell, sets, given, operands, piped, paths, at_line, listing, code, signalled>>

Spare == IF SPARE \in DOMAIN disk THEN disk[SPARE] ELSE <<>>

\* Mutant of CopyLine: env_set keeps the line of the name.
CopyEveryLine ==
  /\ step = "copy" /\ source # <<>>
  /\ disk' = Written(SPARE, Append(Spare, Head(source)))
  /\ source' = Tail(source)
  /\ UNCHANGED <<step, shell, sets, given, operands, piped, paths, at_line, binding, errs, listing, code, signalled>>

\* One turn of the loop of env_set, or of emit_env_sorted once no operand is
\* left; >> makes the file anew if it is gone.
CopyLine ==
  /\ step = "copy" /\ source # <<>>
  /\ disk' = IF Head(source).key = (IF operands = <<>> THEN "ENVFILE" ELSE binding.key)
             THEN disk ELSE Written(SPARE, Append(Spare, Head(source)))
  /\ source' = Tail(source)
  /\ UNCHANGED <<step, shell, sets, given, operands, piped, paths, at_line, binding, errs, listing, code, signalled>>

AppendBinding ==
  /\ step = "copy" /\ source = <<>> /\ operands # <<>>
  /\ disk' = Written(SPARE, Append(Spare, binding)) /\ step' = "move"
  /\ UNCHANGED <<shell, sets, given, operands, piped, paths, at_line, loop, errs, listing, code, signalled>>

\* mv fails if its file is gone.
MoveStore ==
  /\ step = "move"
  /\ disk' = IF SPARE \in DOMAIN disk
             THEN [p \in (DOMAIN disk \ {SPARE}) \cup {STORE} |-> IF p = STORE THEN disk[SPARE] ELSE disk[p]]
             ELSE disk
  /\ at_line' = at_line + 1 /\ step' = "line"
  /\ UNCHANGED <<shell, sets, given, operands, piped, paths, loop, errs, listing, code, signalled>>

-----------------------------------------------------------------------------
(* Clean-up, and the end. *)

InTmp(p) == p \in Temps \cup shell.intmp

\* Mutant of CleanUp: every input is removed.
CleanUpAll ==
  /\ step = "line" /\ at_line > Len(Content.records)
  /\ disk' = Removed({input}) /\ step' = "drop"
  /\ UNCHANGED <<shell, sets, given, operands, piped, paths, at_line, loop, errs, listing, code, signalled>>

\* Clean up temp files
CleanUp ==
  /\ step = "line" /\ at_line > Len(Content.records)
  /\ disk' = (IF InTmp(input) THEN Removed({input}) ELSE disk) /\ step' = "drop"
  /\ UNCHANGED <<shell, sets, given, operands, piped, paths, at_line, loop, errs, listing, code, signalled>>

\* After standard input rm -f "$tmp", whatever tmp is by then.
NextOperand ==
  /\ step = "drop"
  /\ disk' = IF Head(operands) = "-" THEN Removed({tmp}) ELSE disk
  /\ operands' = Tail(operands) /\ at_line' = 1 /\ step' = "file"
  /\ UNCHANGED <<shell, sets, given, piped, paths, loop, errs, listing, code, signalled>>

EmitEnv ==
  /\ step = "file" /\ operands = <<>> /\ sets.action = "apply"
  /\ source' = Store /\ disk' = Written(SPARE, <<>>) /\ step' = "copy"
  /\ UNCHANGED <<shell, sets, given, operands, piped, paths, at_line, binding, errs, listing, code, signalled>>

\* sort prints what it finds.
Sort ==
  /\ step = "copy" /\ source = <<>> /\ operands = <<>>
  /\ listing' = Spare /\ step' = "exit"
  /\ UNCHANGED <<shell, sets, given, operands, piped, disk, paths, at_line, loop, errs, code, signalled>>

ShellExit ==
  /\ \/ step = "exit"
     \/ step = "file" /\ operands = <<>> /\ sets.action # "apply"
  /\ End(IF errs > 0 THEN 1 ELSE 0)

\* HUP, INT or TERM: the trap removes the store between two commands, and the
\* script goes on.
Interrupted ==
  /\ shell.signal /\ step \notin {"idle", "seed", "fill", "end", "delegated"} /\ Keeps
  /\ disk' = Removed({STORE, SPARE}) /\ signalled' = TRUE
  /\ UNCHANGED <<step, shell, sets, given, operands, piped, paths, at_line, loop, errs, listing, code>>

ShellNext ==
  \/ NoTemp \/ InitEnvStore \/ FillStore \/ StoreFilled \/ OpenFile \/ SlurpStdin
  \/ RejectInput \/ PassOver \/ Copy \/ CopyNowhere
  \/ CheckRecord \/ BindRecord \/ CopyLine \/ AppendBinding \/ MoveStore
  \/ CleanUp \/ NextOperand \/ EmitEnv \/ Sort \/ ShellExit \/ Interrupted

-----------------------------------------------------------------------------
(* Properties. *)

Count(cond) == IF cond THEN 1 ELSE 0

\* How many copies the pre-passes make of a file at most.
Passes == Count(sets.bom = "strip") + Count(sets.crlf = "strip") + Count(sets.cont = "accept")

Copied(c) ==
  \/ c.bom /\ sets.bom = "strip"
  \/ c.crs /\ sets.crlf = "strip"
  \/ sets.cont = "accept"

\* The copies that the last is not: <<i, k>> is the k-th of operand i.
MayStay(n) == {c \in (1..n) \X (1..Passes) : given[c[1]] = "-" \/ c[2] < Passes}

\* What is left on the disk, whatever was refused, failed or was interrupted: of
\* the caller's files all, unchanged, but those under TMPDIR that were read in
\* place; of the copies at the end all but the last of each operand, as many for
\* standard input as were made of it; never the store (envfile.sh:51-54, 386-467).
DiskAccounted ==
  /\ \A p \in DOMAIN shell.files :
       IF p \in DOMAIN disk THEN disk[p] = shell.files[p]
       ELSE p \in shell.intmp /\ Contains(given, p) /\ ~Copied(shell.files[p])
  /\ step = "end" =>
       /\ {STORE, SPARE} \cap DOMAIN disk = {}
       /\ Cardinality(Temps \cap DOMAIN disk) <= Cardinality(MayStay(Len(given)))

\* "Clean up temp files" (envfile.sh:446): nothing else is removed.
CleansUpTempsOnly == \A p \in DOMAIN shell.files : p \in DOMAIN disk

\* What operand k holds, standard input being read by the first "-" only.
Original(k) ==
  IF given[k] = "-" THEN IF \E j \in 1..(k - 1) : given[j] = "-" THEN Nothing ELSE shell.piped
  ELSE IF given[k] \in DOMAIN shell.files THEN shell.files[given[k]] ELSE Nothing

RecordsRead(k) ==
  LET c == Original(k)
  IN [i \in 1..Len(c.records) |->
        IF i = 1 /\ c.bom /\ sets.bom # "strip" THEN WithBom(c.records[i]) ELSE c.records[i]]

\* env with the record bound, references resolved in what was bound before.
Extended(env, r) ==
  [k \in DOMAIN env \cup {r.key} |->
     IF k # r.key THEN env[k] ELSE IF r.ref = "" THEN r.text ELSE env[r.ref]]

\* env with the first i records bound.
Bound(env, rs) ==
  LET after[i \in 0..Len(rs)] == IF i = 0 THEN env ELSE Extended(after[i - 1], rs[i]) IN after

\* The lines whose name has a later one that says something else.
Earlier(lines) == {l \in ToSet(lines) : l.text # Value(lines, l.key)}

Inherited ==
  [k \in {l.key : l \in ToSet(shell.lines)} \ {"", "ENVFILE"} |-> Value(shell.lines, k)]

\* env with the records of the first k files bound.
Through(env, files) ==
  LET after[k \in 0..Len(files)] ==
        IF k = 0 THEN env ELSE Bound(after[k - 1], files[k])[Len(files[k])]
  IN after

EnvAfter == Through(Inherited, [k \in 1..Len(given) |-> RecordsRead(k)])

\* If apply ends without an error its listing holds every name of the
\* environment and of the files with the last value given to it, although each
\* binding rewrites a file line by line; and nothing else, but for a name that
\* env printed twice (as it does if a value of two lines reads like a binding).
\* No line is printed twice if env printed none twice.  A signal, and a copy that
\* could not be made, are apart: the status does not tell of them
\* (envfile.sh:83-104, 110-182).
ListsAll ==
  code = 0 /\ sets.action = "apply" /\ ~signalled /\ ~shell.full =>
    LET final == EnvAfter[Len(given)]
        wanted == {[key |-> k, text |-> final[k]] : k \in DOMAIN final \ {"ENVFILE"}}
    IN /\ wanted \subseteq ToSet(listing) /\ ToSet(listing) \subseteq wanted \cup Earlier(shell.lines)
       /\ IsInjective(shell.lines) => IsInjective(listing)
=============================================================================
