# Verification of envfile

TLA+ models of `envfile`, their model-checking runs and machine-checked proofs.
`envfile` is one pipeline over env files (`normalize -> validate -> dump ->
delta -> apply`), written about fifteen times: `bin/envfile.awk` is the
reference, and the others are measured by it.  The project models the reference
and the C implementation with both its backends and relates the two programs by
refinement; it models the dispatcher that chooses among the implementations, the
POSIX shell one as a process among files, the record code the other compiled
ones share, the NUL scanner and the benchmark, and states what each promises.

Paths below are relative to the repository.

## Inventory

| Component | State | Operations | What makes it hard |
|---|---|---|---|
| Reference, `bin/envfile.awk` | lines of the file, `env`, `checked`, `errors` | normalize (slurp, NUL, BOM, CRLF, join), validate, unquote, dump, delta, subst, apply | order of pre-passes, line numbers of joined lines, a file refused after part of it was read, bindings that meet across files |
| C reader, `scan_stream` and `normalize_stream` in `src/c/envfile.c` | `work_buf`, `join_buf` and their indices, `line_no` | read a chunk, find the complete lines, join, move the rest to the front | a line cut by any read, lines that fill a buffer, stale buffer contents, dropping the rest of a file |
| C run, `main` and `process_file` | file bytes, per-file and total counts, exit status | slurp, NUL, BOM, CR check, scan, count, list | a check on the whole file used line by line, failing allocations in the middle of a record, counts added up late |
| `EnvTable` in `src/c/envfile.c` | array of pairs, length, capacity | find, reserve, set, seed, list | growth, partial failure, repeated names of the process environment, unstable `qsort` |
| `subst_value` in `src/c/envfile.c` | pointer into the value, result buffer | one reference per turn | where a reference ends, termination, memory |
| Record classifiers `src/c/backend.c`, `src/c/backend.asm` | none | classify a line | order of faults, carriage returns, byte ranges |
| Dispatcher `bin/envfile` | settings from arguments, configuration file and environment; the implementation found | parse, read the file by a run of the reference, fill gaps, gate, choose, build, exec | precedence, discarded errors, inherited variables, a look-up repeated after a build |
| Catalogue `bin/lang`, `languages.env` | none | list, alias, find an implementation | extensions as aliases, two search paths |
| `bin/envfile.sh` | copies of inputs, an environment file, shared shell variables | pre-passes through `mktemp`, `env_get`, `env_set`, list, clean up | whose files are removed, a store rewritten line by line, signals, `mktemp` that fails |
| Go, Rust, JavaScript, Python, Zig, Ruby, Perl, Nu, bash | as the reference | as the reference | each has its own record code, Zig its own join |
| `src/c/nullscan.c` | a buffer, the list of names | scan by chunks, aggregate | where chunks end, read errors, a list that names itself |
| `src/c/bench.c` | counters and statistics of a warm-up, results | collect, resolve, warm up, measure, rank | when a warm-up ends, which counts belong to which clock |

No two threads or processes of this program share anything while they run:
the dispatcher execs the implementation, the benchmark waits for each child, and
the one asynchronous event is a signal to `envfile.sh`.  Nothing is persisted
beyond a run but the files `envfile.sh` leaves behind.  The hazards are those of
buffers, of order, of failing in the middle, and of fifteen programs that are to
agree; `PROJECT.json` lists them with their lines.

How the components interact: the dispatcher resolves the settings and replaces
itself by an implementation, with everything in `ENVFILE_*` variables.  The C
`main` opens each file and calls `process_file`, which slurps it, runs the
pre-passes and hands a memory stream to `scan_stream`; that cuts lines and calls
the backend's `parse` through a function pointer, `subst_value` on the value,
and `env_table_set_n`.  In the reference each stage calls the next.  `bin/lang`
is asked by the dispatcher and by the benchmark; the drivers of the native tests
run `nullscan` on a file and, if it succeeds, the dispatcher.  `envfile.sh` calls
`nullscan` for its NUL check and hands over to the reference if NUL bytes are to
be tolerated.

## Modules

| Module | What it is |
|---|---|
| `Lines`, `Bytes` | bytes, buffers and the few operations on lines every reader has |
| `LineFeed` | abstract: a file is taken line by line and fed to the parser |
| `ScanStream` | the chunked C reader, array by array; `ScanStreamProofs`, its invariants and its refinement |
| `AwkRecord` | the reference's view of one line: validate, unquote, subst |
| `CBackend` | `parse_shell`, `parse_native` and their assembly counterparts |
| `Backends` | the three classifiers side by side |
| `EnvMap` | abstract: the environment is a map |
| `EnvTable` | the array of pairs of the C program; `EnvTableProofs` |
| `SubstValue` | `subst_value`, one action per turn of its loop; `SubstValueProofs` |
| `AwkPrePass` | from the bytes of a file to the logical lines of the reference |
| `Reference` | a run of `bin/envfile.awk` over its command line; `ReferenceProofs`, for `ZigLines` too |
| `EnvfileC` | a run of the C program over its command line; `EnvfileCProofs` |
| `Ports` | the record classifier the other implementations share; `LineProofs`, lemmas on bytes, lines, recursive functions and pre-passes, and the theorems on all classifiers |
| `ZigLines` | Zig's join loop beside a run of the reference |
| `Catalogue` | `languages.env` and what `bin/lang` makes of it |
| `Dispatcher` | a run of `bin/envfile` |
| `Nullscan` | a run of `nullscan.c` |
| `ShRun` | a run of `bin/envfile.sh` and the files around it |
| `Gate` | scanner, dispatcher and `envfile.sh` as the drivers use them together; `GateProofs`, for the dispatcher and the scanner alone and for `envfile.sh` too |
| `Bench` | a run of `bench.c`; `BenchProofs` |
| `MC*` | the inputs the runs are checked on |

How they are composed:

    EnvfileC  --implements-->  Reference          (TLC and TLAPS)
     | reads by LineFeed      <--implements-- ScanStream   (TLC and TLAPS)
     | classifies by CBackend  = AwkRecord        (TLC and TLAPS, Backends)
     | substitutes by Subst    = SubstValue       (TLC and TLAPS)
     ` keeps env as a map     <--implements-- EnvTable     (TLC and TLAPS)

    Backends, Reference       <--compared with-- Ports, ZigLines   (TLC and TLAPS)
    Nullscan --gates--> Dispatcher --starts--> ShRun       (Gate)
    Catalogue <--asked by-- Dispatcher, Bench

`EnvfileC` uses the abstract form of each part, and a module of its own shows
that the code of the part is that form.  `LineFeed` is instantiated in
`EnvfileC` and is the abstract specification of `ScanStream`.

### State and code

- `ScanStream`: `work_buf`, `tail`, `filled`, `limit`, `pos`, `eof`,
  `join_buf`, `join_len`, `line_no` are the locals of `scan_stream`
  (envfile.c:508-553).  Each outcome of the read at the top of the loop is an
  action (`ReadTooLong` .. `ReadFull`), each way of going round the inner loop
  another.  The arrays begin uninitialised, and what lies behind an index is
  whatever was left there.  `fed` is the history of calls of `parse`.
  A copy that leaves its array makes the array's domain grow, which `TypeOK`
  excludes.
- `EnvTable`: `pairs` is the array up to `len`, `cap` its capacity; `asked` keeps
  the arguments of the last `env_table_set_n` that succeeded, a history with which
  `EnvMap` says which name a step bound.  `SetFails`
  is `env_table_set_n` returning 0, after which the array may have grown.  A
  name is its rank in the order of `strcmp`.
- `SubstValue`: `val` is the distance the pointer has come, `out` the buffer.
- `Backends`: `grown` is the argument; there is no other state, and `LineSpec`
  merely enumerates lines, byte by byte.
- `Reference`: `lines` and `i` are the array and the index of `normalize`; the
  chain validate -> unquote -> dump -> delta is one step per logical line, as
  nothing can come between.  `out` and `diags` are the two output streams as
  records with the place each entry came from.
- `EnvfileC`: the scanner's variables are `LineFeed`'s; `counts` is the local
  of `scan_stream`, `total` that of `main`.  A call of `parse` and all that
  follows for the line is one step.

- `Dispatcher`: the variables are those of the script; `pc` names the sections
  separated by comments in it.  A configuration file is a sequence of lines with
  the features that make the reference hear them or not.  `host` is what is
  installed; a build may add to it.
- `Nullscan`: `rest` is what the stream being scanned still holds, `todo` the
  names of the command line or of the list on standard input.
- `ShRun`: `disk` is a function from paths to contents, `step` the place in
  `process_file` or in the main loop.  The loops that fill the store from `env` and copy it
  are taken line by line (`FillStore`, `CopyLine`), as a signal may come between; a pre-pass, which works
  on a file of its own, is one step.  A record is given as parsed.
  `mktemp` yields a name of `Temps` that is not there (`Fresh`), and the run stops
  if there is none (`IsFresh`).
- `Gate`: one driver, of which each program is an interleaved part that begins
  where the driver starts it; `Spawn` hands the settings the dispatcher put into
  the environment to `envfile.sh`.
- `Bench`: a turn of the warm-up or of the measurement is a step.  `spent` is the
  clock, and the CV that Welford's recurrence yields is arbitrary.

Bytes: a line is a sequence of bytes, and the parsers' special bytes, spaces,
letters and digits are constants with the assumptions of `Bytes.tla`; all other
bytes are alike.  The byte order mark is one element.  A name beginning with
`ENVFILE_` is a member of `ConfigNames`.

## Runs

| Run | Shows | Instance |
|---|---|---|
| `scan_stream` | the reader stays in its arrays (`TypeOK`); the window is a contiguous piece of the file (`WindowInv`); the join buffer holds bytes of this call (`JoinInv`); chunk boundaries never make a line too long (`NoSpuriousTooLong`); lines are numbered by newlines (`LineNumbers`); it implements `LineFeed` (`FeedsLines`) and returns (`Termination`) | every file of up to 7 bytes over newline, backslash and another byte, and of up to 5 with CR, through 2-byte reads and 4-byte buffers |
| `parts` | one part at a time.  Lines: the classifiers agree with the reference, except where `CAsAwk`, `AsmAsAwk` and `PortsAsAwk` say.  Values: after every turn, result so far and rest resolve to what the whole does (`ResolvedSoFar`, `ResolvesAsReference`); every turn moves on (`Advances`).  Table: pairs stay pairs (`TableTypeOK`), names are unique (`TableInv`), listed once and in order (`ListingInv`), the last entry of a repeated one counts (`LastEntryWins`), and the array is a map (`ImplementsMap`) | every line of up to 6 bytes over 10 bytes; every value of up to 5 bytes over `$ { } A 1`, three environments; four names, two values, growth from capacity 1, failing allocations |
| `reference` | every checked record is printed or reported, once (`RecordsAccounted`, apart from a value that is the reference's sentinel, which `dump` takes for a fault); a refused file leaves no trace (`RefusedWhole`); references see the last binding delta printed (`LastRecordWins`); errors, diagnostics and exit status agree (`ErrorsReported`); Zig's records end and read as the reference's (`ZigJoins`) | all actions, formats and modes; files of up to three lines, pairs of files |
| `envfile_c` | `ImplementsReference`: where the two are comparable the C program refines the reference, step by step; exit status 0 means every checked record was printed (`AllOrError`); a file without error was scanned to its end (`ScannedWhole`); errors and diagnostics agree (`ErrorsReported`) | the settings of `reference`, files of two lines, pairs of files; and lines that exceed buffers of 18 bytes, alone or joined, with every allocation free to fail |
| `bench` | a warm-up ends exactly when it is steady, flat or spent (`SteadyOrSpent`); figures that are divided are of the same runs (`MeanBelowBest`); a report compares all that lang finds (`ComparedAll`); the benchmark ends (`Terminates`) | three languages, seven machines, two durations, four CVs, warm-ups of up to 11 runs |
| `dispatch` | what is started accepts its settings (`NoSettingRefused`), hears the configuration file or the environment and loses neither while they do not contradict each other, where the reference can be run to read the file (`ConfigHeard`) and is what was asked for (`RunsWhatWasAsked`); every name before the first "-" is printed or noted rightly, at its place (`ScanAccounts`); nothing passes the gate unscanned (`GateHolds`); `envfile.sh` leaves the caller's files as `DiskAccounted` says, and lists every binding (`ListsAll`) | up to three arguments, files of one and two lines, six languages; lists of three names, chunks of two bytes; one or two operands, failing `mktemp`, a signal at any point |
| `dangling` | *violated*: see Findings 1 | as `envfile_c`, any file |
| `backends_agree` | *violated*: see Findings 2 | the lines of `parts` |
| `native_identity` | *violated*: see Findings 3 | three one-line files |
| `temp_files` | *violated*: see Findings 4 | as `dispatch` |
| `ports_keep_cr` | *violated*: see Findings 5 | the lines of `parts` |
| `environment_wins` | *violated*: see Findings 6 | as `dispatch` |

Why the bounds are enough.  The reader compares lengths with two constants and
looks at three bytes; with reads of 2 and buffers of 4 a line may be cut at any
byte, fill the window exactly, exceed it by one, exceed it by a whole read, and
exceed the join buffer only after joining, and several windows follow one
another.  The classifiers look at a key's first, last and other bytes, a value's
first, other and closing bytes: six bytes hold two faults and a quoted value.
A reference needs at most four bytes and one before or after it.  In a run what
matters is what two records, or two files, do to each other.  Three arguments
are two settings that may contradict each other and an operand; two lines of a
configuration file may set a knob twice, or be joined.  A list of three names has
one before and one after the name that reads the list.  A chunk of two bytes may
end before, at and after the NUL.  Six is the most copies
two operands have at once (three left by standard input, three of a file), so the
names never run out.  Two operands of `envfile.sh` may be the same
file, or standard input and a file, and the store is rewritten by four records
with a name it has, one it has not, and one that is a line of another's value.
Eleven runs of a warm-up hold the burn-in and four checkpoints, twice the streak.

`ImplementsReference` compares only what the two programs are meant to do alike; the
restrictions are `Comparable` and `NoneDangles` in `EnvfileC.tla`: no argument
without a name, no nameless entry in the process environment, no line with two faults (`TwoFaults`), no value that is the
reference's sentinel, no NUL byte where it is tolerated, a file that fits the
buffers, and none that ends inside a continued line.  Native with continuation
is left out, as the dispatcher refuses it (bin/envfile:156).  The refinement
mapping reads the scanner's `line_no` as the reference's index, since both count
physical lines, and adds the two counts; once the scan is done the index is at
the end, also where the file was nothing but a byte order mark, which is an
empty line to the reference and nothing to scan for the C program.
docs/PIPELINE.md:164-173 lists as known limitations that the C program's
normalize prints stripped values and that delta and apply are stubs in it.  Both
are out of date: `normalize_stream` prints lines as they are joined
(envfile.c:371-495), and `scan_stream` resolves, binds and lists
(envfile.c:597-631).  The model is of the code, and `ImplementsReference` covers
all five actions.

Deadlock checking is off in every run: each specification is of a call or a run
that ends.

Every property has a mutant, a definition named in `PROJECT.json` and marked
`Mutant of` in its module: the code with a likely slip in it, on which the run
fails.

### Fairness

`ScanStream` and `Bench` state liveness, and assume weak fairness of their whole
next-state relation.  The first is one sequential call on bytes in memory
(`scan_stream` reads an `fmemopen` stream), waits for nothing, and its process
keeps running; so a step that is possible is taken.  The loop of `subst_value`
needs no fairness: by `Advances` it is over after as many turns as the value has
bytes.  The benchmark waits for its children: that each of them ends, and that the monotonic clock advances
while it runs (`Durations` are positive), is assumed and named in `Times`.

## Proofs

For every size of the buffers, every file, line, value and environment, every
setting and every running time:

| Theorem | Statement |
|---|---|
| `ScanStreamProofs!TypeCorrect` | `Spec => []TypeOK` |
| `ScanStreamProofs!WindowShowsFile` | `Spec => []WindowInv` |
| `ScanStreamProofs!JoinedIsRead` | `Spec => []JoinInv` |
| `ScanStreamProofs!ShortLinesAccepted` | `Spec => []NoSpuriousTooLong` |
| `ScanStreamProofs!LinesCounted` | `Spec => []LineNumbers` |
| `ScanStreamProofs!ReaderRefinesLines` | `Spec => FeedsLines` |
| `LineProofs!CClassifiesAsAwk` | `LineSpec => []CAsAwk` |
| `LineProofs!AsmClassifiesAsAwk` | `LineSpec => []AsmAsAwk` |
| `LineProofs!PortsClassifyAsAwk` | `LineSpec => []PortsAsAwk` |
| `EnvTableProofs!TypeCorrect` | `TableSpec => []TableTypeOK` |
| `EnvTableProofs!KeysUnique` | `TableSpec => []TableInv` |
| `EnvTableProofs!ListedOnce` | `TableSpec => []ListingInv` |
| `EnvTableProofs!TableIsMap` | `TableSpec => ImplementsMap` |
| `EnvTableProofs!LastEntryHeld` | `TableSpec => []LastEntryWins` |
| `SubstValueProofs!TypeCorrect` | `Spec => []TypeOK` |
| `SubstValueProofs!WalkAdvances` | `Spec => Advances` |
| `SubstValueProofs!WalkAgrees` | `Spec => []ResolvedSoFar` |
| `SubstValueProofs!CallAgrees` | `Spec => []ResolvesAsReference` |
| `ReferenceProofs!EveryRecordAccounted` | `Spec => []RecordsAccounted` |
| `ReferenceProofs!RefusalIsWhole` | `Spec => []RefusedWhole` |
| `ReferenceProofs!EveryErrorReported` | `Spec => []ErrorsReported` |
| `ReferenceProofs!LastRecordHeld` | `Spec => []LastRecordWins` |
| `ReferenceProofs!ZigJoinsAsAwk` | `Spec => []ZigJoins` |
| `EnvfileCProofs!EveryErrorReported` | `Spec => []ErrorsReported` |
| `EnvfileCProofs!NothingLostSilently` | `Spec => []AllOrError` |
| `EnvfileCProofs!NoLineUnread` | `Spec => []ScannedWhole` |
| `EnvfileCProofs!ProgramIsReference` | `Spec => ImplementsReference` |
| `GateProofs!SettingsAccepted`, `SettingsAcceptedTogether` | `Spec`, `GateSpec => []NoSettingRefused` |
| `GateProofs!RunsAsAsked`, `RunsAsAskedTogether` | `Spec`, `GateSpec => []RunsWhatWasAsked` |
| `GateProofs!ConfigIsHeard`, `ConfigIsHeardTogether` | `Spec`, `GateSpec => []ConfigHeard` |
| `GateProofs!ScanIsAccounted`, `ScanIsAccountedTogether` | `ScanSpec`, `GateSpec => []ScanAccounts` |
| `GateProofs!GateKeepsNulOut` | `GateSpec => []GateHolds` |
| `GateProofs!DiskIsAccounted` | `GateSpec => []DiskAccounted` |
| `GateProofs!ListingIsComplete` | `GateSpec => []ListsAll` |
| `BenchProofs!MeanBounded` | `Spec => []MeanBelowBest` |
| `BenchProofs!WarmupExact` | `Spec => []SteadyOrSpent` |
| `BenchProofs!AllAreCompared` | `Spec => []ComparedAll` |

Assumptions, all of them named in the modules and evaluated by the runs: the
special bytes are distinct and belong to no other class (`SpecialBytes`,
`ByteClasses`, `SyntaxBytes`, `SentinelByte`); a read is at least one byte and at most the
window (`BufferSizes`); files are sequences of bytes (`Inputs`); names are
ordered (`Keys`), the first capacity is positive (`FirstCapacity`); an
environment is a sequence of entries (`Entries`), values hold no NUL byte
(`Arguments`); a run takes time, its limits are positive (`Times`), and one of
the durations is the longest (`Bounded`); the chunk holds at least a byte, and
names and contents are sequences (`ScansOk`); a gated driver scans the operands
it then calls with, by name and not from a list (`DrivesOk`, native.just:164-169);
the names of copies are not "-", empty, or the store's (`TempsApart`), and no
operand or file of the caller has one of them or the store's two (`DrivesOk`:
`mktemp` sees to it for its own names, for `$ENV_STORE.tmp` nobody does); what
files hold and `env` prints has its type (`ShellOk`);
settings, files and environments of a run are of their types (`RunInputs`,
`ProgramInputs`), a command line is a sequence of arguments (`CallsOk`), and
`ByPath` orders all languages (`EachHasAPath`).

The arguments.

- *Reader.*  `TypeOK` is inductive with the order of the indices while a window
  is scanned.  `WindowInv` is inductive with it: a read extends the window by
  what follows in the file, and the shift keeps a suffix of it, which is again
  what precedes the stream position.  For `NoSpuriousTooLong` the invariant is
  strengthened by what joins can have accumulated: the join buffer is never
  longer than what was scanned, so a refusal needs a run of bytes without a
  newline, which the shape of the file excludes.  `LineNumbers` counts the
  newlines before the scan position; the step adds exactly one of them.
- *Refinement.*  The mapping takes the abstract position from `off`, `filled`,
  `tail` and `pos`, and the partial line from the join buffer.  A read or a
  shift is a stutter, a turn of the inner loop the abstract step of the same
  name; by `WindowInv` the line in the window is the line of the file.
- *Classifiers.*  `Index` is the first occurrence (its existence needs that a
  set of positions has a minimum), so `memchr` and the reference's `index` cut
  the line at the same place; then each fault is compared, in order.
- *Table.*  `TableInv` and the type invariant make `Find` a function of the
  name; a replacement and an addition are then one binding of the map.
- *Last entry.*  While the process environment is read, the table holds for each
  name the value of its last entry so far; the next entry replaces it or adds it.
- *Recursive functions.*  `SplitLines`, `Joined`, `Subst` and their like are
  functions whose recursion makes a number smaller.  That the recursive equation
  has a solution (`RecursionSolved`) and that what follows from smaller measures
  holds for all (`MeasureInduction`) is proved once, by well-founded induction;
  each function then has a lemma with its equation, and an induction of its own
  is an induction over a number.
- *Reference.*  One invariant ties checked records, printed ones and diagnostics
  to the places already passed: files before `n`, and in file `n` lines before
  `i`, which only grows.  A printed place is thus new, and a refusal comes before
  the first place of its file.  `env` is the process environment overridden by
  the last printed record of each name, which a step that prints extends by one.
- *Zig's join.*  Its join looks only at the last line taken, the reference at
  what is joined so far.  A line that is continued gives up one of an odd number
  of trailing backslashes, so what is left at the seam is even and does not change
  the parity of the backslashes that follow (`OddSum`, `OddJoined`).
- *C run.*  The counters of the file in hand and of those before it are the
  diagnostics counted; a record is printed or has one.  A scan that stops early
  has counted an error, and otherwise the lines before `at` are `line_no` many.
- *C run as a run of the reference.*  The two meet in `MatchInv`: between two
  lines, what is left of the file from `at` on, stripped line by line, is what
  the reference has left of its lines from `line_no + 1` on (`Ahead`), and
  `partial` is what the reference joins of its lines from its index to `line_no`
  (`Pending`).  It holds when a file is opened because the bytes before the
  newlines tell whether every line ends in CR (`CrOnEveryLine`), and because the
  first byte of the file is the first of its first line, with or without the
  mark (`WithoutBom`).  A step that joins keeps both and is a stutter; one that
  hands a line on takes the line the reference has (`SameLine`), which both
  classify and resolve alike (`CClassifiesAsAwk`'s lemmas).  Nothing is too long
  since `partial` is no longer than what was read, and at the end of a file the
  reference has a line left only if the last one continues, which `NoneDangles`
  excludes.
- *Ports.*  As for the classifiers; white space and the order of the faults are
  where the property says.  A line that ends in a CR is cut at the same `=` with
  it and without it (`CrBehind`), and a value without its CR has the fault it has
  with it or is accepted (`CrUnquote`): then the line is the record and the CR.
- *Command line and configuration.*  While arguments are shifted, each setting is
  the last of those shifted; while the file is read, each knob the last of the
  lines heard, and no line that is taken sets a knob to nothing (`HeardAll`).
  `FillGaps` leaves what is set alone.
- *Scan.*  Printed and noted names are, in order, the names behind the scanner
  with the one verdict or the other; the rank of a name among its like is then
  its index.
- *Comparison.*  What `lang` lists is resolved one by one, with nothing dropped
  but what has no implementation, and the sort keeps what it sorts.
- *Substitution.*  A turn either finds no further `$`, which ends the call, or
  stands behind at least one byte that it consumed.  It reports at most one
  reference, hence the bound on `errors`.
- *Settings.*  A knob is empty or has a value that was checked, whichever source
  set it.  `FillGaps` leaves no knob empty for which the environment has a value
  (`NoGap`), so what exec passes on was checked; the gate adds that a native
  call is none that cannot be.
- *Gate.*  As long as nothing is noted, a name that is not clean is still ahead
  of the scanner or is the file in hand (`BehindClean`), and what is left of that
  file still holds its NUL or still fails (`InHand`).  At the end nothing is
  ahead, and the dispatcher's operands are among the names.
- *The disk of `envfile.sh`.*  `ShInv` ties three things.  What the run was given
  and where it stands (`ShGiven`); the caller's files, each unchanged or removed
  for a reason (`FilesKept`); and how many copies lie about (`CopiesBounded`):
  at most what the finished operands may leave (`MayLie`) and what standard
  input (`Slurped`) and the stages so far (`Made`) had copied for this one.
  `DiskAccounted` speaks of the end only and does not say which copies there
  are.  The invariant does, through the place of the input: the operand itself
  (`InPlace`), the last copy (`InCopy`), or nowhere, after a `mktemp` that failed
  (`Nowhere`).  Clean-up removes the input, so the first costs the caller a file
  that no stage copied, and the second brings the copies back to `MayLie`; in the
  third one copy less was made than counted.
- *The listing of `envfile.sh`.*  `ListInv` adds what the store says.  While
  nothing went wrong (`Faultless`; `StoreInv` claims nothing after a signal, an
  error or a failed `mktemp`, nor does `ListsAll`), the content of the input is
  the operand's but for the mark (`SourceIs`), and the store says of each name
  what the environment bound so far does (`Mirrors`).  Inside a loop that copies
  it, lines kept and lines still to be read together say what the store said of
  every name that is not being dropped (`Thins`).  A line that is kept moves
  from one to the other, a dropped one concerns no name that counts, so at the
  end of the loop the copy can stand for the store.  The environment is a
  recursive function over the records, and over the operands; each equation it
  needs is proved by induction over its domain (`GoesOn`).
- *Benchmark.*  `count * min_ns <= spent` is inductive over a measurement, which
  resets all three together.  `slope_streak` counts the flat checkpoints since
  the last that was not flat (`Streak`), a statement about the whole history of
  the CV; the tests at the end of a turn then say what `SteadyOrSpent` says.

Only model-checked: liveness (`Termination` of the reader, `Terminates` of the
benchmark), which the prover does not handle under fairness.  Every other property of a passing run is a theorem.  The
properties of the findings are refuted by TLC.

## Findings

1. *A continued last line is lost by the C program* (run `dangling`).  With
   continuation, `B=$A\` and a newline at the end of the file: the reference
   takes the line as it stands, `scan_stream` joins it to a line that never
   comes and returns (envfile.c:577-581, 640).  No output, no diagnostic, exit
   status 0.
2. *The backends differ* (run `backends_agree`).  The assembly one strips a CR
   before parsing but not before looking for a blank line; the C one the other
   way round.  A line of one CR sends the assembly search past the line.
3. *Native values are not literal in the reference* (run `native_identity`).
   It substitutes references in them, and drops the value that is its sentinel.

4. *`envfile.sh` removes its caller's file* (run `temp_files`).  The comment says
   "Clean up temp files" (bin/envfile.sh:446); what it removes is any input
   under TMPDIR, and an input that needed no pre-pass is the caller's own.

5. *The ports lose a CR* (run `ports_keep_cr`).  Once the pass over the whole file
   has left the CRs alone, each port takes one off the end of every line before it
   parses a shell record (main.rs:224-256 and its likes): `A=` and a CR is a record
   with an empty value, `A="x"` and a CR one with the value x.  The reference keeps
   the CR, as docs/PIPELINE.md:51-53 says: a value, and trailing content.  But for
   that, for white space and for the order of two faults, the ports find what the
   reference finds (`PortsAsAwk`).
6. *The configuration file wins over the environment* (run `environment_wins`).
   The comment bin/envfile:147, docs/PIPELINE.md:141-144 and README.md:54 say the
   reverse; the code (bin/envfile:148-151) only fills gaps.
   `ConfigHeard` is what is left: where the two do not contradict each other,
   none is lost.

Also seen, without a run of its own:

- *Settings.*  The environment may also silence the file: with `ENVFILE_BOM` other
  than `literal` in the caller's environment the reference refuses to read it, the
  message goes to /dev/null, and every setting in it is ignored (bin/envfile:144),
  where README.md:58-59 lets the environment only fill gaps (`FileIsRead`, and the
  condition of `ConfigHeard`).  The name of an `env=` file is not quoted: its second word becomes
  the program that `env` starts (bin/envfile:169, 177; `Exec`).  bin/envfile:144 uses process
  substitution under `#!/bin/sh`, which dash does not parse; the model is of a
  shell that does.
- *`envfile.sh`.*  A `mktemp` that fails in a pre-pass leaves the input without a
  name: "0 checked, 0 errors", status 0 (`CopyNowhere`).  A signal during apply
  removes the store, the script goes on, and the listing is partial, with status
  0 (`Interrupted`).  Superseded copies stay in TMPDIR, the copy of standard
  input too (`DiskAccounted` says how many).  A value of two lines in the
  environment is read as two lines of the store.  Joined lines are numbered
  after the join.
- *Benchmark.*  `bin/lang` prints absolute paths, so no name is ever "awk" or
  "sh" and the baseline is always the fastest, where bench.c:413 and README.md:69
  name the reference (`Baseline`, `Path`).  Which fixtures are taken, when there
  are more than MAX_SPECS, depends on the order of the directory (`Walks`).  A
  child that cannot be run is timed like any other (bench.c:132-135).
- *Ports.*  Zig takes CR, vertical tab and form feed for white space, and drops the last
  backslash of a file that ends in a continued line (`ZigJoins`); Perl and the
  shells take a CR for white space too.  All ports report a line without a name
  and with a blank before its value as VALUE_LEADING_WHITESPACE, and Perl takes
  the CR off a native value too (envfile.pl:61; `PortsAsAwk`).  Perl numbers joined lines after the join.
- *Scanner.*  "-" in a list on standard input scans what is left of the list.
- *C program.*  An entry of the process environment without a name (`=x`) is
  skipped (envfile.c:258), where the reference may resolve `${}` with it.
  `env_table_emit_sorted` prints nothing and reports nothing when
  its array cannot be allocated (envfile.c:235-236); a failed copy of a value is
  counted twice (envfile.c:602-613).

## Not modelled

- `bin/envfile.nu`, `bin/bench.py`, `bin/nullscan.awk`: the same stages again in
  other languages, with the language's own strings and arrays in place of what
  the models are about.
- Of Go, Rust, JavaScript, Python, Zig, Ruby, Perl and bash: files, references
  and counts, whose code follows the reference's line by line.
- Of `envfile.sh`: its record code, and its arithmetic of line numbers.
- Of `bin/lang`: `status` and the printing of fields.  Of `bench.c`: `escalate`
  and the floating-point arithmetic of the CV.
- Formatting of diagnostics; reading of standard input as opposed to a file in
  the reference and the C program; a read error in the middle of a file there (a
  file is readable or not); the order in which the reference's `apply` lists
  names; `env_table_free`.
- Fixtures, corpus, and the comparisons of their drivers.

## Plan

Done, in this order: reader and its abstract specification; record classifiers;
environment table; substitution; reference run; C run and its refinement; then
catalogue and dispatcher, scanner, `envfile.sh` and their composition, the
classifier of the ports, Zig's join, the benchmark.

Proved as each was checked, `envfile.sh` last, a section at a time.  Left: the
record code of `envfile.sh`, and the files, references and counts of the ports.
