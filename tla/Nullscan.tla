------------------------------ MODULE Nullscan ------------------------------
(***************************************************************************)
(* src/src/c/nullscan.c: of the files named on the command line, or listed *)
(* on standard input, print those without a NUL byte.                      *)
(***************************************************************************)
EXTENDS Integers, Sequences, FiniteSetsExt, SequencesExt

CONSTANTS
  NUL,
  BUF_SIZE,   \* bytes a read returns at most
  Scans       \* [names, listed, files, stdin]: the names to scan, whether they are
              \* listed on stdin, and what the files and stdin hold

ASSUME ScansOk ==
  /\ BUF_SIZE \in Nat \ {0}
  /\ \A s \in Scans :
       /\ s.names \in Seq(ToSet(s.names)) /\ "-" \notin DOMAIN s.files
       /\ \A n \in DOMAIN s.files : LET b == s.files[n].bytes IN b \in Seq(ToSet(b))
       /\ \A n \in DOMAIN s.files : DOMAIN s.files[n] = {"bytes", "fails"}

VARIABLES
  scan,
  at,       \* "next" name, "chunk" by chunk through one, or "end"
  todo,     \* names still to be scanned
  name,     \* the one being scanned
  rest,     \* what has not been read of it: [bytes, fails]
  stdin,    \* what has not been read of standard input
  printed, noted

stream == <<name, rest, stdin>>
output == <<printed, noted>>
scanVars == <<scan, at, todo, stream, output>>

StartScan(s) ==
  /\ scan = s /\ at = "next" /\ todo = s.names
  /\ name = "" /\ rest = s.stdin /\ stdin = s.stdin
  /\ printed = <<>> /\ noted = <<>>

ScanInit == \E s \in Scans : StartScan(s)

Note(n) == noted' = Append(noted, n) /\ UNCHANGED printed

\* An empty line of a list.
SkipName ==
  /\ at = "next" /\ todo # <<>> /\ Head(todo) = "" /\ scan.listed
  /\ todo' = Tail(todo)
  /\ UNCHANGED <<scan, at, stream, output>>

AtName == at = "next" /\ todo # <<>> /\ (Head(todo) = "" => ~scan.listed)

CannotOpen ==
  /\ AtName /\ Head(todo) \notin DOMAIN scan.files \cup {"-"}
  /\ Note(Head(todo))
  /\ todo' = Tail(todo)
  /\ UNCHANGED <<scan, at, stream>>

OpenName ==
  /\ AtName /\ Head(todo) \in DOMAIN scan.files
  /\ name' = Head(todo) /\ rest' = scan.files[Head(todo)] /\ todo' = Tail(todo)
  /\ at' = "chunk"
  /\ UNCHANGED <<scan, stdin, output>>

\* "-" in a list reads what is left of the list itself; a name counts as one byte.
OpenStdin ==
  /\ AtName /\ Head(todo) = "-"
  /\ name' = "-"
  /\ IF scan.listed
     THEN rest' = [stdin EXCEPT !.bytes = Tail(todo)] /\ todo' = <<>>
     ELSE rest' = stdin /\ todo' = Tail(todo)
  /\ at' = "chunk"
  /\ UNCHANGED <<scan, stdin, output>>

\* What fread returns: less than a buffer only at the end or before an error.
Chunk == SubSeq(rest.bytes, 1, Min({BUF_SIZE, Len(rest.bytes)}))

ReadChunk ==
  /\ at = "chunk"
  /\ rest' = [rest EXCEPT !.bytes = SubSeq(@, Len(Chunk) + 1, Len(@))]
  /\ stdin' = IF name = "-" THEN rest' ELSE stdin
  /\ UNCHANGED <<scan, todo, name>>

FindNul ==
  /\ ReadChunk
  /\ Contains(Chunk, NUL)
  /\ Note(name) /\ at' = "next"

ReadOn ==
  /\ ReadChunk
  /\ ~Contains(Chunk, NUL) /\ Len(Chunk) = BUF_SIZE
  /\ UNCHANGED <<at, output>>

ReadError ==
  /\ ReadChunk
  /\ ~Contains(Chunk, NUL) /\ Len(Chunk) < BUF_SIZE /\ rest.fails
  /\ Note(name) /\ at' = "next"

\* Mutant of PrintName: a last chunk is neither searched nor checked for an error.
PrintNameAnyway ==
  /\ ReadChunk
  /\ Len(Chunk) < BUF_SIZE
  /\ printed' = Append(printed, name) /\ UNCHANGED noted
  /\ at' = "next"

PrintName ==
  /\ ReadChunk
  /\ ~Contains(Chunk, NUL) /\ Len(Chunk) < BUF_SIZE /\ ~rest.fails
  /\ printed' = Append(printed, name) /\ UNCHANGED noted
  /\ at' = "next"

EndScan ==
  /\ at = "next" /\ todo = <<>>
  /\ IF scan.listed /\ stdin.fails THEN Note("-") ELSE UNCHANGED output
  /\ at' = "end"
  /\ UNCHANGED <<scan, todo, stream>>

ScanNext ==
  \/ SkipName \/ CannotOpen \/ OpenName \/ OpenStdin
  \/ FindNul \/ ReadOn \/ ReadError \/ PrintName \/ EndScan

ScanSpec == ScanInit /\ [][ScanNext]_scanVars

\* Each verdict of a failure also sets `failed`, which is the exit status.
Status == IF noted = <<>> THEN 0 ELSE 1

-----------------------------------------------------------------------------
(* Properties. *)

\* The names before the first "-": those that nothing but themselves decides.
Plain ==
  {i \in 1..Len(scan.names) :
     /\ \A j \in 1..i : scan.names[j] # "-"
     /\ ~(scan.listed /\ scan.names[i] = "")}

Clean(n) ==
  n \in DOMAIN scan.files /\ ~scan.files[n].fails /\ ~Contains(scan.files[n].bytes, NUL)

CleanAt(i) == Clean(scan.names[i])

\* How many of the names up to position i have its verdict.
Alike(i) == Cardinality({j \in Plain : j <= i /\ (CleanAt(j) <=> CleanAt(i))})

\* Every name up to the first "-" is printed or noted, once and in order, and
\* printed exactly if all of its file could be read and holds no NUL byte,
\* wherever chunks end; the status tells whether one was noted (nullscan.c:15-88).
ScanAccounts ==
  at = "end" =>
    /\ \A i \in Plain :
         LET verdict == IF CleanAt(i) THEN printed ELSE noted
         IN Alike(i) <= Len(verdict) /\ verdict[Alike(i)] = scan.names[i]
    /\ (\A i \in 1..Len(scan.names) : scan.names[i] # "-") =>
         Len(printed) + Len(noted) = Cardinality(Plain) + (IF scan.listed /\ scan.stdin.fails THEN 1 ELSE 0)
=============================================================================
