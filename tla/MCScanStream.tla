---------------------------- MODULE MCScanStream ----------------------------
(***************************************************************************)
(* Every file of up to seven bytes over newline, backslash and an ordinary *)
(* byte, and of up to five with a carriage return among them, with and     *)
(* without CR stripping and continuation, through a window of four bytes   *)
(* filled two at a time: a line may be cut by any read, fill the window    *)
(* exactly, exceed it, or exceed it only once it has been joined.          *)
(***************************************************************************)
EXTENDS ScanStream, SequencesExt

MCFiles ==
  BoundedSeq({"LF", "BSL", "x"}, 7) \cup BoundedSeq({"LF", "CR", "BSL", "x"}, 5)
=============================================================================
