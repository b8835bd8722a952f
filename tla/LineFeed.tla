------------------------------ MODULE LineFeed ------------------------------
(***************************************************************************)
(* What the C front-end's reader promises: the physical lines of the file  *)
(* are taken one after the other, continued lines are joined, and each     *)
(* logical line is handed to the record parser with the number of its last *)
(* physical line.  There are no buffers here, only the file and how far    *)
(* it has been read.                                                       *)
(*                                                                         *)
(* The two capacities of the implementation remain visible in three ways:  *)
(* a physical line longer than WORK_BUF is never handed on, one of at most *)
(* WORK_BUF - READ_BUF bytes is never refused for its length, and between  *)
(* the two the reader may do either.                                       *)
(***************************************************************************)
EXTENDS Lines

CONSTANTS
  READ_BUF,   \* bytes asked of one fread
  WORK_BUF,   \* capacity of the line window and of the join buffer, at least READ_BUF
  Files       \* the contents scan_stream may be called with

VARIABLES
  phase,        \* "busy" or "done"
  file,         \* contents of the stream being scanned
  strip_cr,     \* ENVFILE_CRLF=strip survived the whole-file check
  shell_cont,   \* ENVFILE_BACKSLASH_CONTINUATION=accept, not native
  at,           \* bytes of the file taken so far; always a line boundary
  partial,      \* continued line being assembled
  line_no,      \* physical lines taken so far
  fed,          \* the record parser's calls: line text and line number
  too_long      \* LINE_ERROR_LINE_TOO_LONG diagnostics

vars == <<phase, file, strip_cr, shell_cont, at, partial, line_no, fed, too_long>>

\* A call of scan_stream.
Init ==
  /\ phase = "busy"
  /\ file \in Files /\ strip_cr \in BOOLEAN /\ shell_cont \in BOOLEAN
  /\ at = 0 /\ partial = <<>> /\ line_no = 0 /\ fed = <<>> /\ too_long = 0

-----------------------------------------------------------------------------
\* The physical line that begins at `at` ends just after byte `end`.
EndsAt(end) ==
  /\ end \in at..Len(file)
  /\ \A i \in (at + 1)..end : file[i] # LF
  /\ end < Len(file) => file[end + 1] = LF

Terminated(end) == end < Len(file)

Piece(end) == StripCr(Slice(file, at, end - at), strip_cr)

\* Takes the physical line that ends at `end` and its newline.
Take(end) ==
  /\ phase = "busy"
  /\ at < Len(file)
  /\ EndsAt(end)
  /\ end - at <= WORK_BUF
  /\ at' = IF Terminated(end) THEN end + 1 ELSE end
  /\ line_no' = line_no + 1
  /\ UNCHANGED <<phase, file, strip_cr, shell_cont>>

Continues(end) == OddBackslashes(partial \o Piece(end)) /\ Terminated(end)

Fits(end) == Len(partial) + Len(Piece(end)) <= WORK_BUF

\* Without continuation every physical line is a logical line.
FeedLine(end) ==
  /\ ~shell_cont
  /\ Take(end)
  /\ fed' = Append(fed, [text |-> Piece(end), no |-> line_no + 1])
  /\ UNCHANGED <<partial, too_long>>

\* The line continues: all but its last backslash is kept.
JoinLine(end) ==
  /\ shell_cont
  /\ Take(end)
  /\ Fits(end)
  /\ Continues(end)
  /\ partial' = DropLast(partial \o Piece(end))
  /\ UNCHANGED <<fed, too_long>>

FeedJoined(end) ==
  /\ shell_cont
  /\ Take(end)
  /\ Fits(end)
  /\ ~Continues(end)
  /\ fed' = Append(fed, [text |-> partial \o Piece(end), no |-> line_no + 1])
  /\ partial' = <<>>
  /\ UNCHANGED too_long

\* The joined line is too long: what was joined so far is forgotten, and the
\* next physical line starts a record of its own.
DropJoined(end) ==
  /\ shell_cont
  /\ Take(end)
  /\ ~Fits(end)
  /\ too_long' = too_long + 1
  /\ partial' = <<>>
  /\ UNCHANGED fed

\* The physical line is too long for the window: the rest of the file is
\* given up.  No line of at most WORK_BUF - READ_BUF bytes leads here.
GiveUp ==
  /\ phase = "busy"
  /\ at + (WORK_BUF - READ_BUF) < Len(file)
  /\ \A i \in (at + 1)..(at + (WORK_BUF - READ_BUF) + 1) : file[i] # LF
  /\ phase' = "done"
  /\ at' = Len(file)
  /\ too_long' = too_long + 1
  /\ UNCHANGED <<file, strip_cr, shell_cont, partial, line_no, fed>>

Finish ==
  /\ phase = "busy"
  /\ at = Len(file)
  /\ phase' = "done"
  /\ UNCHANGED <<file, strip_cr, shell_cont, at, partial, line_no, fed, too_long>>

Next ==
  \/ \E end \in 0..Len(file) :
       FeedLine(end) \/ JoinLine(end) \/ FeedJoined(end) \/ DropJoined(end)
  \/ GiveUp
  \/ Finish

Spec == Init /\ [][Next]_vars
=============================================================================
