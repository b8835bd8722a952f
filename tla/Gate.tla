-------------------------------- MODULE Gate --------------------------------
(***************************************************************************)
(* How the drivers of the tests use the programs together: a native file   *)
(* is first scanned for NUL bytes, and is given to an implementation only  *)
(* if the scan succeeds (src/native.just:164-169).  A scan, or a run of    *)
(* the dispatcher, may also stand alone.  Of the implementations           *)
(* envfile.sh is followed beyond its start, with the settings the          *)
(* dispatcher gives it.                                                    *)
(***************************************************************************)
EXTENDS Dispatcher, Nullscan, ShRun

CONSTANT Drives   \* [drive, scans, calls, shells]: what a driver does, and with what

\* The scan is of every operand of the call, by its name.
ScansOperands(s, c) ==
  /\ ~s.listed /\ \A i \in 1..Len(s.names) : s.names[i] # "-"
  /\ \A i, j \in 1..Len(c.argv) :
       c.argv[i].name = None /\ i <= j => \E k \in 1..Len(s.names) : s.names[k] = c.argv[j].value

\* Of a run of envfile.sh: what a file holds and env prints, and that mktemp's
\* names are nobody else's.
ShellOk(h) ==
  /\ \A c \in Range(h.files) \cup {h.piped} :
       DOMAIN c = DOMAIN Nothing /\ c.records \in Seq(ToSet(c.records))
  /\ h.lines \in Seq(ToSet(h.lines)) /\ \A l \in ToSet(h.lines) : l = [key |-> l.key, text |-> l.text]
  /\ DOMAIN h.files \cap (Temps \cup {STORE, SPARE, ""}) = {}

ASSUME DrivesOk ==
  \A d \in Drives :
    /\ d.drive \in {"scan", "call", "gated"} /\ d.scans \subseteq Scans
    /\ \A c \in d.calls :
         CallOk(c) /\ \A i \in 1..Len(c.argv) : c.argv[i].value \notin Temps \cup {STORE, SPARE}
    /\ \A h \in d.shells : ShellOk(h)
    /\ d.drive = "gated" => \A s \in d.scans, c \in d.calls : ScansOperands(s, c)

VARIABLE drive

gateVars == <<drive, scanVars, vars, shellVars>>

GateInit ==
  \E d \in Drives : \E s \in d.scans, c \in d.calls, h \in d.shells :
    drive = d.drive /\ StartScan(s) /\ Start(c) /\ ShellIdle(h)

Scan == drive # "call" /\ ScanNext /\ UNCHANGED <<drive, vars, shellVars>>

\* Mutant of MayCall: the status of the scan is not looked at.
MayCallAnyway == drive = "call" \/ (drive = "gated" /\ at = "end")

MayCall == drive = "call" \/ (drive = "gated" /\ at = "end" /\ Status = 0)

Call == MayCall /\ Next /\ UNCHANGED <<drive, scanVars, shellVars>>

\* The process that exec leaves behind: its settings are what env put into its
\* environment, or what it inherits.
Spawn ==
  /\ pc = "started" /\ program = "sh"
  /\ Configure([format |-> format, action |-> action, bom |-> Seen("BOM"), crlf |-> Seen("CRLF"),
                nul |-> Seen("NUL"), cont |-> Seen("BACKSLASH_CONTINUATION")],
               [i \in 1..Len(argv) |-> argv[i].value])
  /\ UNCHANGED <<drive, scanVars, vars>>

Shell == ShellNext /\ UNCHANGED <<drive, scanVars, vars>>

GateNext == Scan \/ Call \/ Spawn \/ Shell

GateSpec == GateInit /\ [][GateNext]_gateVars

\* Behind the gate no implementation meets a NUL byte or a file that cannot be
\* read, whatever its settings say about NUL bytes (nullscan.c:15-51,
\* native.just:164-169).
GateHolds ==
  drive = "gated" /\ pc = "started" =>
    \A i \in 1..Len(argv) : Clean(argv[i].value)
=============================================================================
