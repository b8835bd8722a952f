----------------------------- MODULE ScanStream -----------------------------
(***************************************************************************)
(* scan_stream of src/src/c/envfile.c (and normalize_stream, whose reading *)
(* half is the same text): the stream is read READ_BUF bytes at a time     *)
(* into a window of WORK_BUF bytes, the complete lines of the window are   *)
(* processed, and what follows the last newline is moved to the front of   *)
(* the window before the next read.                                        *)
(*                                                                         *)
(* The buffers are arrays as in the code: what lies beyond `tail`,         *)
(* `filled` or `join_len` is whatever was left there.  The stream is an    *)
(* fmemopen of the bytes process_file has read, so fread returns less than *)
(* READ_BUF only at its end, and ferror is never set.                      *)
(***************************************************************************)
EXTENDS Lines, FiniteSets

CONSTANTS
  READ_BUF,   \* bytes asked of one fread (4096 in the code)
  WORK_BUF,   \* capacity of work_buf and of join_buf (65536)
  Files,      \* the contents scan_stream may be called with
  Uninit      \* an array element that was never written

ASSUME BufferSizes ==
  /\ READ_BUF \in Nat \ {0}
  /\ WORK_BUF \in Nat
  /\ READ_BUF <= WORK_BUF

ASSUME Inputs ==
  /\ Files \subseteq Seq(Byte)
  /\ Uninit \notin Byte

VARIABLES
  pc,           \* at the "read" or in the "scan" of a window, or "done"
  file,         \* contents of the stream
  strip_cr,
  shell_cont,
  off,          \* position of the stream
  work_buf,     \* the window
  tail,         \* bytes of the window left over by the previous round
  filled,       \* bytes in the window after the read
  limit,        \* end of the last complete line of the window
  pos,          \* bytes of the window already processed
  eof,
  join_buf,     \* continued line being assembled
  join_len,
  line_no,
  fed,          \* the calls of parse(): line text and line number
  too_long      \* LINE_ERROR_LINE_TOO_LONG diagnostics

inputs == <<file, strip_cr, shell_cont>>
window == <<off, work_buf, tail, filled, limit, pos, eof>>
joining == <<join_buf, join_len>>
vars == <<pc, inputs, window, joining, line_no, fed, too_long>>

Blank == [i \in 1..WORK_BUF |-> Uninit]

\* Entry: the arguments and the locals of a call; the arrays are not initialised.
Init ==
  /\ pc = "read"
  /\ file \in Files /\ strip_cr \in BOOLEAN /\ shell_cont \in BOOLEAN
  /\ off = 0
  /\ work_buf = Blank /\ tail = 0 /\ filled = 0 /\ limit = 0 /\ pos = 0 /\ eof = FALSE
  /\ join_buf = Blank /\ join_len = 0
  /\ line_no = 0 /\ fed = <<>> /\ too_long = 0

-----------------------------------------------------------------------------
(* The read at the top of the loop. *)

\* fread(read_buf, 1, READ_BUF, f)
Nr == IF Len(file) - off < READ_BUF THEN Len(file) - off ELSE READ_BUF

ReadBuf == Slice(file, off, Nr)

\* Mutant of ReadTooLong: a read that just fits is refused.
ReadTooLongEarly ==
  /\ pc = "read"
  /\ tail + Nr >= WORK_BUF
  /\ off' = off + Nr
  /\ too_long' = too_long + 1
  /\ pc' = "done"
  /\ UNCHANGED <<inputs, work_buf, tail, filled, limit, pos, eof, joining, line_no, fed>>

\* The read would overflow the window: the loop is left, and with it the file.
ReadTooLong ==
  /\ pc = "read"
  /\ tail + Nr > WORK_BUF
  /\ off' = off + Nr
  /\ too_long' = too_long + 1
  /\ pc' = "done"
  /\ UNCHANGED <<inputs, work_buf, tail, filled, limit, pos, eof, joining, line_no, fed>>

\* Mutant of Refill: the capacity check is one byte off.
RefillPastEnd ==
  /\ pc = "read"
  /\ tail + Nr <= WORK_BUF + 1
  /\ off' = off + Nr
  /\ work_buf' = CopyTo(work_buf, tail, ReadBuf)
  /\ filled' = tail + Nr
  /\ eof' = (Nr = 0)
  /\ UNCHANGED <<inputs, joining, line_no, fed>>

\* memcpy(work_buf + tail, read_buf, nr)
Refill ==
  /\ pc = "read"
  /\ tail + Nr <= WORK_BUF
  /\ off' = off + Nr
  /\ work_buf' = CopyTo(work_buf, tail, ReadBuf)
  /\ filled' = tail + Nr
  /\ eof' = (Nr = 0)
  /\ UNCHANGED <<inputs, joining, line_no, fed>>

\* Mutant of ReadNothing: a continue in place of its break.
ReadNothingAgain ==
  /\ Refill
  /\ tail + Nr = 0
  /\ UNCHANGED <<pc, tail, limit, pos, too_long>>

ReadNothing ==
  /\ Refill
  /\ tail + Nr = 0
  /\ pc' = "done"
  /\ UNCHANGED <<tail, limit, pos, too_long>>

\* End of file: what is left is an unterminated last line.
ReadEof ==
  /\ Refill
  /\ Nr = 0 /\ tail > 0
  /\ limit' = tail
  /\ pos' = 0
  /\ pc' = "scan"
  /\ UNCHANGED <<tail, too_long>>

\* limit = find_last_newline(work_buf, filled) + 1
ReadLines ==
  /\ Refill
  /\ Nr > 0
  /\ \E nl \in 1..(tail + Nr) :
       /\ work_buf'[nl] = LF
       /\ \A i \in (nl + 1)..(tail + Nr) : work_buf'[i] # LF
       /\ limit' = nl
  /\ pos' = 0
  /\ pc' = "scan"
  /\ UNCHANGED <<tail, too_long>>

NoNewline == \A i \in 1..(tail + Nr) : work_buf'[i] # LF

ReadPartOfLine ==
  /\ Refill
  /\ Nr > 0
  /\ NoNewline
  /\ tail + Nr < WORK_BUF
  /\ tail' = tail + Nr
  /\ UNCHANGED <<pc, limit, pos, too_long>>

ReadFull ==
  /\ Refill
  /\ Nr > 0
  /\ NoNewline
  /\ tail + Nr = WORK_BUF
  /\ too_long' = too_long + 1
  /\ pc' = "done"
  /\ UNCHANGED <<tail, limit, pos>>

-----------------------------------------------------------------------------
(* The lines of the window. *)

\* memchr(work_buf + pos, '\n', limit - pos): the line ends just after `end`.
EndsAt(end) ==
  /\ end \in pos..limit
  /\ \A i \in (pos + 1)..end : work_buf[i] # LF
  /\ end < limit => work_buf[end + 1] = LF

Found(end) == end < limit

Piece(end) == StripCr(Slice(work_buf, pos, end - pos), strip_cr)

\* Mutant of NextLine: empty lines are not counted.
NextLineUncounted(end) ==
  /\ pc = "scan"
  /\ pos < limit
  /\ EndsAt(end)
  /\ pos' = IF Found(end) THEN end + 1 ELSE limit
  /\ line_no' = IF end > pos THEN line_no + 1 ELSE line_no
  /\ UNCHANGED <<pc, inputs, off, work_buf, tail, filled, limit, eof>>

NextLine(end) ==
  /\ pc = "scan"
  /\ pos < limit
  /\ EndsAt(end)
  /\ pos' = IF Found(end) THEN end + 1 ELSE limit
  /\ line_no' = line_no + 1
  /\ UNCHANGED <<pc, inputs, off, work_buf, tail, filled, limit, eof>>

FeedLine(end) ==
  /\ ~shell_cont
  /\ NextLine(end)
  /\ fed' = Append(fed, [text |-> Piece(end), no |-> line_no + 1])
  /\ UNCHANGED <<joining, too_long>>

JoinTooLong(end) ==
  /\ shell_cont
  /\ NextLine(end)
  /\ join_len + Len(Piece(end)) > WORK_BUF
  /\ too_long' = too_long + 1
  /\ join_len' = 0
  /\ UNCHANGED <<join_buf, fed>>

\* Mutant of AppendToJoin: copies one byte too far to the right.
AppendAfterGap(end) ==
  /\ shell_cont
  /\ NextLine(end)
  /\ join_len + Len(Piece(end)) < WORK_BUF
  /\ join_buf' = CopyTo(join_buf, join_len + 1, Piece(end))
  /\ UNCHANGED too_long

\* memcpy(join_buf + join_len, line, len)
AppendToJoin(end) ==
  /\ shell_cont
  /\ NextLine(end)
  /\ join_len + Len(Piece(end)) <= WORK_BUF
  /\ join_buf' = CopyTo(join_buf, join_len, Piece(end))
  /\ UNCHANGED too_long

Joined(end) == Slice(join_buf', 0, join_len + Len(Piece(end)))

\* Mutant of JoinLine: keeps the backslash.
JoinWithBackslash(end) ==
  /\ AppendToJoin(end)
  /\ OddBackslashes(Joined(end)) /\ Found(end)
  /\ join_len' = Len(Joined(end))
  /\ UNCHANGED fed

JoinLine(end) ==
  /\ AppendToJoin(end)
  /\ OddBackslashes(Joined(end)) /\ Found(end)
  /\ join_len' = Len(Joined(end)) - 1
  /\ UNCHANGED fed

FeedJoined(end) ==
  /\ AppendToJoin(end)
  /\ ~(OddBackslashes(Joined(end)) /\ Found(end))
  /\ fed' = Append(fed, [text |-> Joined(end), no |-> line_no + 1])
  /\ join_len' = 0

\* Mutant of ShiftWindow: without the memmove.
KeepWindow ==
  /\ pc = "scan"
  /\ pos = limit
  /\ ~eof
  /\ tail' = filled - limit
  /\ pc' = "read"
  /\ UNCHANGED <<inputs, off, work_buf, filled, limit, pos, eof, joining, line_no, fed, too_long>>

\* memmove(work_buf, work_buf + limit, tail) and around the loop.
ShiftWindow ==
  /\ pc = "scan"
  /\ pos = limit
  /\ ~eof
  /\ tail' = filled - limit
  /\ work_buf' = CopyTo(work_buf, 0, Slice(work_buf, limit, filled - limit))
  /\ pc' = "read"
  /\ UNCHANGED <<inputs, off, filled, limit, pos, eof, joining, line_no, fed, too_long>>

ScanEof ==
  /\ pc = "scan"
  /\ pos = limit
  /\ eof
  /\ pc' = "done"
  /\ UNCHANGED <<inputs, window, joining, line_no, fed, too_long>>

-----------------------------------------------------------------------------
Read == ReadTooLong \/ ReadNothing \/ ReadEof \/ ReadLines \/ ReadPartOfLine \/ ReadFull

Scan(end) == FeedLine(end) \/ JoinTooLong(end) \/ JoinLine(end) \/ FeedJoined(end)

Next == Read \/ (\E end \in 0..WORK_BUF : Scan(end)) \/ ShiftWindow \/ ScanEof

Spec == Init /\ [][Next]_vars

\* One sequential call on bytes that are in memory: nothing can block it.
FairSpec == Spec /\ WF_vars(Next)

-----------------------------------------------------------------------------
(* Properties. *)

\* Every memcpy and memmove stays inside its array, and the indices stay
\* ordered: 0 <= pos <= limit <= filled <= WORK_BUF, join_len <= WORK_BUF.
TypeOK ==
  /\ pc \in {"read", "scan", "done"}
  /\ file \in Seq(Byte)
  /\ strip_cr \in BOOLEAN /\ shell_cont \in BOOLEAN /\ eof \in BOOLEAN
  /\ off \in 0..Len(file)
  /\ work_buf \in [1..WORK_BUF -> Byte \cup {Uninit}]
  /\ join_buf \in [1..WORK_BUF -> Byte \cup {Uninit}]
  /\ tail \in 0..WORK_BUF /\ filled \in 0..WORK_BUF
  /\ limit \in 0..WORK_BUF /\ pos \in 0..WORK_BUF /\ join_len \in 0..WORK_BUF
  /\ pc = "scan" => pos <= limit /\ limit <= filled
  /\ line_no \in Nat /\ too_long \in Nat
  /\ fed \in Seq([text : Seq(Byte), no : Nat \ {0}])

\* The first n bytes of the window are the n bytes before the stream position.
Holds(n) == n <= off /\ \A i \in 1..n : work_buf[i] = file[off - n + i]

\* The window shows the file without loss, repetition or shift, the bytes kept
\* for the next round are the beginning of one physical line, a window is
\* scanned up to a newline unless it is the last one, and everything that is
\* left to scan at the end of the file is one line without a newline.
WindowInv ==
  /\ pc = "read" => /\ Holds(tail)
                    /\ \A i \in 1..tail : work_buf[i] # LF
  /\ pc = "scan" => /\ Holds(filled)
                    /\ \A i \in (limit + 1)..filled : work_buf[i] # LF
                    /\ eof => off = Len(file) /\ limit = filled
                    /\ eof => \A i \in 1..filled : work_buf[i] # LF
                    /\ ~eof => limit > 0 /\ work_buf[limit] = LF

\* Bytes of the file that have been scanned.
Scanned ==
  IF pc = "done" THEN Len(file)
  ELSE IF pc = "scan" THEN off - filled + pos
  ELSE off - tail

\* The text assembled in the join buffer was written by this call, and it is
\* no longer than what has been read to assemble it.
JoinInv ==
  /\ \A i \in 1..join_len : join_buf[i] \in Byte
  /\ join_len <= Scanned

\* Every run of n + 1 bytes of the file contains a newline.
LinesAtMost(n) ==
  \A i \in 0..(Len(file) - n - 1) : \E j \in (i + 1)..(i + n + 1) : file[j] = LF

\* How the file happens to fall into reads never makes a line too long that
\* would fit: a file whose lines have at most WORK_BUF - READ_BUF bytes, and
\* that cannot join to more than the join buffer, is scanned to its end
\* without LINE_ERROR_LINE_TOO_LONG.
NoSpuriousTooLong ==
  LinesAtMost(WORK_BUF - READ_BUF) /\ (shell_cont => Len(file) <= WORK_BUF)
    => too_long = 0

\* The number a diagnostic carries is that of the record's last physical line,
\* whatever was joined, skipped or left in the window in between.
Newlines(n) == {i \in 1..n : file[i] = LF}

LineNumbers ==
  pc # "done" /\ Scanned < Len(file) => line_no = Cardinality(Newlines(Scanned))

\* Every call of scan_stream returns.
Termination == <>(pc = "done")

Feed ==
  INSTANCE LineFeed WITH
    phase   <- IF pc = "done" THEN "done" ELSE "busy",
    at      <- Scanned,
    partial <- Slice(join_buf, 0, join_len)

\* Reading through a window is the same as taking the file line by line.
FeedsLines == Feed!Spec
=============================================================================
