----------------------------- MODULE Dispatcher -----------------------------
(***************************************************************************)
(* src/bin/envfile: from a command line, a configuration file and the      *)
(* environment to the one implementation that is started, and the settings *)
(* it sees.                                                                *)
(*                                                                         *)
(* The configuration file is read by the reference in a process of its     *)
(* own, which inherits the caller's environment.  A setting that is unset  *)
(* or empty is "".                                                         *)
(***************************************************************************)
EXTENDS Catalogue

CONSTANTS
  Calls,     \* [argv, env, file, host]: command line, environment, configuration file, machine
  REFERENCE  \* the language of envfile.awk

\* Arguments are words, of which None is none, and lines are in order.
CallOk(c) ==
  /\ c.argv \in Seq(ToSet(c.argv)) /\ c.file.lines \in Seq(ToSet(c.file.lines))
  /\ \A i \in 1..Len(c.argv) : c.argv[i].value # None
  /\ DOMAIN c.host = {"present", "path", "runtime"}

ASSUME CallsOk == None # "UNAVAILABLE" /\ \A c \in Calls : CallOk(c)

Knobs == {"BOM", "CRLF", "NUL", "BACKSLASH_CONTINUATION"}

Allowed == [BOM |-> {"literal", "strip", "reject"}, CRLF |-> {"strip", "ignore"},
            NUL |-> {"reject", "ignore"}, BACKSLASH_CONTINUATION |-> {"accept", "ignore"}]

Actions == {"normalize", "validate", "dump", "delta", "apply"}

VARIABLES
  pc,        \* "argv", "config", "gaps", "gate", "choose", "build", "exec", or an end:
             \* "started", "unrunnable", "astray", "fatal"
  call, host,\* host.present grows when a language is built
  argv,      \* what has not been shifted yet
  format, language, action, config, envfile,
  entries,   \* what the loop has still to read of the configuration file
  knob,      \* envfile_bom, envfile_crlf, envfile_nul, envfile_backslash_continuation
  why,       \* the code of a fatal error
  program    \* the language of the implementation that is started

routing == <<format, language, action, config, envfile>>
vars == <<pc, call, host, argv, routing, entries, knob, why, program>>

Start(c) ==
  /\ pc = "argv" /\ call = c /\ host = c.host /\ argv = c.argv
  /\ format = "shell" /\ language = None /\ action = "validate"
  /\ config = FALSE /\ envfile = None
  /\ entries = <<>> /\ knob = [k \in Knobs |-> ""] /\ why = None /\ program = None

Init == \E c \in Calls : Start(c)

Fatal(code) ==
  /\ pc' = "fatal" /\ why' = code
  /\ UNCHANGED <<call, host, argv, routing, entries, knob, program>>

-----------------------------------------------------------------------------
(* ARGV.  An argument is [name, value]; an operand's name is None.  A word, *)
(* a language or a file that is not one has the value "bad".                *)

AtSetting == pc = "argv" /\ argv # <<>> /\ Head(argv).name # None

BadSetting ==
  LET a == Head(argv)
  IN \/ a.name \notin {"format", "language", "action", "config", "env"}
     \/ a.name = "action" /\ a.value \notin Actions
     \/ a.name # "action" /\ a.value = "bad"

RefuseSetting == AtSetting /\ BadSetting /\ Fatal("BAD_ARG_OR_NOT_FOUND")

\* Later settings replace earlier ones.
TakeSetting ==
  /\ AtSetting /\ ~BadSetting
  /\ LET a == Head(argv)
         Set(name, old) == IF a.name = name THEN a.value ELSE old
     IN /\ format' = Set("format", format) /\ language' = Set("language", language)
        /\ action' = Set("action", action) /\ envfile' = Set("env", envfile)
        /\ config' = (config \/ a.name = "config")
  /\ argv' = Tail(argv)
  /\ UNCHANGED <<pc, call, host, entries, knob, why, program>>

AtOperands == pc = "argv" /\ (argv # <<>> => Head(argv).name = None)

RefuseFormat ==
  AtOperands /\ format \notin {"shell", "native", "compat"} /\ Fatal("UNSUPPORTED_FORMAT")

-----------------------------------------------------------------------------
(* The configuration file: [readable, bom, nul, lines], a line being        *)
(* [knob, value, bsl, cr] where bsl tells that a backslash, and cr that a   *)
(* carriage return ends it.  "" is no value, "garbled" one nobody wrote.    *)

\* The reference may not be there to be run; with ENVFILE_FORMAT=native it
\* refuses every other BOM mode, and a NUL byte makes it give up on the file.
\* Its diagnostics and its status are discarded.
ReaderRefuses(env, file) ==
  \/ REFERENCE \notin host.present \/ Entries[REFERENCE].exec \notin host.path
  \/ env["BOM"] \notin {"", "literal"}
  \/ ~file.readable
  \/ file.nul /\ env["NUL"] \in {"", "reject"}

CrsStripped(env, file) == env["CRLF"] = "strip" /\ \A i \in 1..Len(file.lines) : file.lines[i].cr

\* Line i continues on the next.
Continues(env, file, i) ==
  /\ env["BACKSLASH_CONTINUATION"] = "accept"
  /\ file.lines[i].bsl /\ (file.lines[i].cr => CrsStripped(env, file))
  /\ i < Len(file.lines)

\* What dump prints for the logical line that begins with line i.
Dumped(env, file, i) ==
  LET line == file.lines[i]
  IN [knob |-> IF i = 1 /\ file.bom THEN "other" ELSE line.knob,
      value |-> IF line.bsl \/ (line.cr /\ ~CrsStripped(env, file)) THEN "garbled" ELSE line.value]

\* The nth smallest of the numbers in S.
Nth(S, n) == CHOOSE i \in S : Cardinality({j \in S : j <= i}) = n

ConfigEntries(env, file) ==
  IF ReaderRefuses(env, file) THEN <<>>
  ELSE LET heads == {i \in 1..Len(file.lines) : i > 1 => ~Continues(env, file, i - 1)}
       IN [n \in 1..Cardinality(heads) |-> Dumped(env, file, Nth(heads, n))]

LoadConfig ==
  /\ AtOperands /\ format \in {"shell", "native", "compat"}
  /\ pc' = "config"
  /\ entries' = IF config THEN ConfigEntries(call.env, call.file) ELSE <<>>
  /\ UNCHANGED <<call, host, argv, routing, knob, why, program>>

AtEntry == pc = "config" /\ entries # <<>>

IgnoreEntry ==
  /\ AtEntry /\ Head(entries).knob \notin Knobs
  /\ entries' = Tail(entries)
  /\ UNCHANGED <<pc, call, host, argv, routing, knob, why, program>>

\* Mutant of TakeEntry: a knob that is set is kept.
TakeEntryOnce ==
  /\ AtEntry /\ Head(entries).knob \in Knobs
  /\ Head(entries).value \in Allowed[Head(entries).knob]
  /\ knob' = [knob EXCEPT ![Head(entries).knob] = IF @ = "" THEN Head(entries).value ELSE @]
  /\ entries' = Tail(entries)
  /\ UNCHANGED <<pc, call, host, argv, routing, why, program>>

TakeEntry ==
  /\ AtEntry /\ Head(entries).knob \in Knobs
  /\ Head(entries).value \in Allowed[Head(entries).knob]
  /\ knob' = [knob EXCEPT ![Head(entries).knob] = Head(entries).value]
  /\ entries' = Tail(entries)
  /\ UNCHANGED <<pc, call, host, argv, routing, why, program>>

RefuseEntry ==
  /\ AtEntry /\ Head(entries).knob \in Knobs
  /\ Head(entries).value \notin Allowed[Head(entries).knob]
  /\ Fatal("BAD_ENVFILE_VALUE")

-----------------------------------------------------------------------------
(* The environment fills the gaps, the format gates. *)

Gaps == {k \in Knobs : knob[k] = "" /\ call.env[k] # ""}

RefuseEnv ==
  /\ pc = "config" /\ entries = <<>>
  /\ \E k \in Gaps : call.env[k] \notin Allowed[k]
  /\ Fatal("BAD_ENVFILE_VALUE")

FillGaps ==
  /\ pc = "config" /\ entries = <<>>
  /\ \A k \in Gaps : call.env[k] \in Allowed[k]
  /\ knob' = [k \in Knobs |-> IF k \in Gaps THEN call.env[k] ELSE knob[k]]
  /\ pc' = "gate"
  /\ UNCHANGED <<call, host, argv, routing, entries, why, program>>

\* Mutant of NotForNative: the mode of the BOM is not looked at.
NotForNativeCont == knob["BACKSLASH_CONTINUATION"] = "accept"

NotForNative ==
  knob["BOM"] \notin {"", "literal"} \/ knob["BACKSLASH_CONTINUATION"] = "accept"

RefuseNative ==
  pc = "gate" /\ format = "native" /\ NotForNative /\ Fatal("UNSUPPORTED_KNOB")

-----------------------------------------------------------------------------
(* choose_impl and exec *)

Wanted == IF language = None THEN REFERENCE ELSE language

\* Languages choose_impl tries to build, by these names only.
Built == {"c", "go", "rust", "zig", "asm"}

FindImpl ==
  /\ pc = "gate" /\ ~(format = "native" /\ NotForNative)
  /\ pc' = IF Available(host, Wanted) THEN "exec" ELSE "build"
  /\ UNCHANGED <<call, host, argv, routing, entries, knob, why, program>>

\* make, whether it makes anything or not.
Build ==
  /\ pc = "build" /\ Wanted \in Built
  /\ \E made \in SUBSET ({Wanted} \cap DOMAIN Entries) : host' = [host EXCEPT !.present = @ \cup made]
  /\ pc' = "choose"
  /\ UNCHANGED <<call, argv, routing, entries, knob, why, program>>

\* Mutant of Unavailable: what was looked up before the build is believed.
UnavailableStale ==
  /\ pc = "choose" \/ (pc = "build" /\ Wanted \notin Built)
  /\ Fatal("UNAVAILABLE")

Unavailable ==
  /\ \/ pc = "choose" /\ ~Available(host, Wanted)
     \/ pc = "build" /\ Wanted \notin Built
  /\ Fatal("UNAVAILABLE")

FoundAfterBuild ==
  /\ pc = "choose" /\ Available(host, Wanted)
  /\ pc' = "exec"
  /\ UNCHANGED <<call, host, argv, routing, entries, knob, why, program>>

\* The interpreters of node, bun and deno are looked for as lang does, on PATH
\* as a fallback; every other script's is found by its first line, on PATH.
Interpreted(l) ==
  Entries[l].execution = "scripted" =>
    \/ Entries[l].exec \in host.path
    \/ l \in {"node", "bun", "deno"} /\ Entries[l].exec \in ToolsSeen(host)

\* env VAR=value ... program: ENVFILE_ENV is not quoted, so the second word of a
\* file's name is the program that env starts.
Exec ==
  /\ pc = "exec"
  /\ IF envfile = "two words" THEN pc' = "astray" /\ UNCHANGED program
     ELSE /\ program' = Alias(Wanted)
          /\ pc' = IF Interpreted(Alias(Wanted)) THEN "started" ELSE "unrunnable"
  /\ UNCHANGED <<call, host, argv, routing, entries, knob, why>>

Next ==
  \/ RefuseSetting \/ TakeSetting \/ RefuseFormat
  \/ LoadConfig \/ IgnoreEntry \/ TakeEntry \/ RefuseEntry
  \/ RefuseEnv \/ FillGaps \/ RefuseNative
  \/ FindImpl \/ Build \/ FoundAfterBuild \/ Unavailable \/ Exec

Spec == Init /\ [][Next]_vars

-----------------------------------------------------------------------------
(* Properties. *)

\* What the implementation finds in its environment: a knob that is not set on
\* env's command line is inherited.
Seen(k) == IF knob[k] # "" THEN knob[k] ELSE call.env[k]

\* An implementation that is started never dies of its settings: whatever the
\* sources said, what it sees passes the checks of envfile.awk:22-29, and a
\* native file is never joined (bin/envfile:148-157).
NoSettingRefused ==
  pc = "started" =>
    /\ format \in {"shell", "native", "compat"} /\ action \in Actions
    /\ \A k \in Knobs : Seen(k) \in Allowed[k] \cup {""}
    /\ format = "native" => /\ Seen("BOM") \in {"", "literal"}
                           /\ Seen("BACKSLASH_CONTINUATION") # "accept"

\* A file that can be read in any mode, without CRs and backslashes.
PlainFile(file) ==
  /\ file.readable /\ ~file.bom /\ ~file.nul
  /\ \A i \in 1..Len(file.lines) : ~file.lines[i].cr /\ ~file.lines[i].bsl

\* The last value the file gives a knob.
FileSays(k) ==
  LET set == {i \in 1..Len(call.file.lines) : call.file.lines[i].knob = k}
  IN IF set = {} THEN "" ELSE call.file.lines[Max(set)].value

\* A plain configuration file is given, and the reference is there to read it.
FileIsRead ==
  /\ config /\ PlainFile(call.file)
  /\ REFERENCE \in call.host.present /\ Entries[REFERENCE].exec \in call.host.path

\* Where the sources of a knob do not contradict each other, none is lost: the
\* last of the file's lines for it or the environment's value is seen, and no gap
\* is left that either would fill, as long as the caller's ENVFILE_BOM is one that
\* the reference takes when it reads the file (bin/envfile:136-151).
ConfigHeard ==
  pc = "started" /\ FileIsRead /\ call.env["BOM"] \in {"", "literal"} =>
    \A k \in Knobs : LET said == {FileSays(k), call.env[k]} \ {""}
                     IN IF said = {} THEN Seen(k) = "" ELSE Seen(k) \in said

\* "POSIX env vars override config file" (bin/envfile:147); "resolved in priority
\* order (later wins)": file, then environment (docs/PIPELINE.md:141-144).
EnvironmentWins ==
  pc = "started" => \A k \in Knobs : call.env[k] # "" => Seen(k) = call.env[k]

\* The arguments before the first operand.
Settings ==
  {i \in 1..Len(call.argv) : \A j \in 1..i : call.argv[j].name # None}

LastOf(name, default) ==
  LET given == {i \in Settings : call.argv[i].name = name}
  IN IF given = {} THEN default ELSE call.argv[Max(given)].value

\* What is started is what the command line asked for last, on the operands it
\* gave; it was there to be started, unless lang was told to look for
\* interpreters elsewhere; and nothing that is there is called unavailable, a
\* language that was only just built included (bin/envfile:58-82, 159-194).
RunsWhatWasAsked ==
  /\ pc \in {"started", "unrunnable"} =>
       /\ program = Alias(LastOf("language", REFERENCE)) /\ program \in host.present
       /\ format = LastOf("format", "shell") /\ action = LastOf("action", "validate")
       /\ argv = SubSeq(call.argv, Cardinality(Settings) + 1, Len(call.argv))
  /\ pc = "unrunnable" => host.runtime # None
  /\ why = "UNAVAILABLE" => ~Available(host, LastOf("language", REFERENCE))
=============================================================================
