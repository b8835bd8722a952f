---------------------------- MODULE MCReference -----------------------------
(***************************************************************************)
(* The reference on the command lines of MCRuns: every file of two lines   *)
(* or fewer, of three plain lines, and pairs of files.                     *)
(***************************************************************************)
EXTENDS ZigLines, MCRuns
=============================================================================
