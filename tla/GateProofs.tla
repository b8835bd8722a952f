----------------------------- MODULE GateProofs -----------------------------
(***************************************************************************)
(* Whatever the command line, the configuration file and the environment   *)
(* say, and whatever a build makes, an implementation that is started      *)
(* accepts the settings it sees, sees those of the configuration file, and *)
(* is the one that was asked for.  The scanner gives every name the        *)
(* verdict of all of its file, and behind the gate no implementation meets *)
(* a NUL byte, whatever the files and the size of the scanner's buffer.    *)
(* Of the files among which envfile.sh runs it removes only what it may,   *)
(* and what its apply lists is what the environment and the files say.     *)
(***************************************************************************)
EXTENDS Gate, FiniteSetTheorems, SequenceTheorems, WellFoundedInduction, TLAPS

-----------------------------------------------------------------------------
(* The settings an implementation is started with.  Only values that were   *)
(* checked are kept, and behind FillGaps a knob that is still empty is      *)
(* empty in the environment too, so that exec leaves nothing unchecked.     *)

Formats == {"shell", "native", "compat"}

\* The ends and the sections behind FillGaps, and behind the format gate.
Routed  == {"config", "gate", "choose", "build", "exec", "started", "unrunnable", "astray"}
Filled  == Routed \ {"config"}
Gated   == Filled \ {"gate"}
Places  == Routed \cup {"argv", "fatal"}

\* What is known of a knob: it is empty or was checked.
KnobsChecked ==
  /\ DOMAIN knob = Knobs
  /\ \A k \in Knobs : knob[k] \in Allowed[k] \cup {""}

\* Nothing is left to be inherited.
NoGap == \A k \in Knobs : knob[k] = "" => call.env[k] = ""

IInv ==
  /\ pc \in Places
  /\ action \in Actions
  /\ KnobsChecked
  /\ pc \in Routed => format \in Formats
  /\ pc \in Filled => NoGap
  /\ pc \in Gated => (format = "native" => ~NotForNative)

LEMMA StartChecked == ASSUME NEW c, Start(c) PROVE IInv
BY DEF Start, IInv, Places, Routed, Filled, Gated, Actions, KnobsChecked, Knobs, Allowed

\* A step that takes no knob keeps what is known of them.
LEMMA Unchanged ==
  ASSUME IInv, UNCHANGED <<knob, call>>
  PROVE  KnobsChecked' /\ (NoGap => NoGap')
BY DEF IInv, KnobsChecked, NoGap

LEMMA FatalKeeps ==
  ASSUME NEW fault, IInv, Fatal(fault)
  PROVE  IInv'
<1>1. KnobsChecked'
  BY Unchanged DEF Fatal, routing
<1>2. QED
  BY <1>1 DEF Fatal, IInv, Places, Routed, Filled, Gated, routing

LEMMA StepKeeps == IInv /\ [Next]_vars => IInv'
<1> SUFFICES ASSUME IInv, [Next]_vars
             PROVE  IInv'
  OBVIOUS
<1> USE DEF IInv, Places, Routed, Filled, Gated, Formats
<1>1. CASE RefuseSetting
  BY <1>1, FatalKeeps DEF RefuseSetting
<1>2. CASE TakeSetting
  <2>1. action' \in Actions
    BY <1>2 DEF TakeSetting, BadSetting
  <2>2. pc' = "argv"
    BY <1>2 DEF TakeSetting, AtSetting
  <2>3. KnobsChecked'
    BY <1>2, Unchanged DEF TakeSetting
  <2>4. QED
    BY <2>1, <2>2, <2>3
<1>3. CASE RefuseFormat
  BY <1>3, FatalKeeps DEF RefuseFormat
<1>4. CASE LoadConfig
  <2>1. KnobsChecked'
    BY <1>4, Unchanged DEF LoadConfig
  <2>2. QED
    BY <1>4, <2>1 DEF LoadConfig, routing
<1>5. CASE IgnoreEntry
  <2>1. KnobsChecked'
    BY <1>5, Unchanged DEF IgnoreEntry
  <2>2. QED
    BY <1>5, <2>1 DEF IgnoreEntry, AtEntry, routing
<1>6. CASE TakeEntry
  <2>1. KnobsChecked'
    BY <1>6 DEF TakeEntry, KnobsChecked
  <2>2. QED
    BY <1>6, <2>1 DEF TakeEntry, AtEntry, routing
<1>7. CASE RefuseEntry
  BY <1>7, FatalKeeps DEF RefuseEntry
<1>8. CASE RefuseEnv
  BY <1>8, FatalKeeps DEF RefuseEnv
<1>9. CASE FillGaps
  <2>1. KnobsChecked'
    BY <1>9 DEF FillGaps, KnobsChecked, Gaps
  <2>2. NoGap'
    BY <1>9 DEF FillGaps, NoGap, Gaps
  <2>3. QED
    BY <1>9, <2>1, <2>2 DEF FillGaps, routing
<1>10. CASE RefuseNative
  BY <1>10, FatalKeeps DEF RefuseNative
<1>11. CASE FindImpl
  <2>1. KnobsChecked' /\ NoGap'
    BY <1>11, Unchanged DEF FindImpl
  <2>2. format' = "native" => ~NotForNative'
    BY <1>11 DEF FindImpl, NotForNative, routing
  <2>3. QED
    BY <1>11, <2>1, <2>2 DEF FindImpl, routing
<1>12. ASSUME Build \/ FoundAfterBuild \/ Exec
       PROVE  IInv'
  <2>1. UNCHANGED <<call, knob, format, action>> /\ pc \in Gated /\ pc' \in Gated
    BY <1>12 DEF Build, FoundAfterBuild, Exec, routing
  <2>2. KnobsChecked' /\ NoGap'
    BY <2>1, Unchanged
  <2>3. QED
    BY <2>1, <2>2 DEF NotForNative
<1>13. CASE Unavailable
  BY <1>13, FatalKeeps DEF Unavailable
<1>14. CASE UNCHANGED vars
  BY <1>14 DEF vars, routing, KnobsChecked, NoGap, NotForNative
<1>15. QED
  BY <1>1, <1>2, <1>3, <1>4, <1>5, <1>6, <1>7, <1>8, <1>9, <1>10, <1>11, <1>12, <1>13, <1>14 DEF Next

LEMMA CheckedAccepts == IInv => NoSettingRefused
<1> SUFFICES ASSUME IInv, pc = "started"
             PROVE  /\ format \in Formats /\ action \in Actions
                    /\ \A k \in Knobs : Seen(k) \in Allowed[k] \cup {""}
                    /\ format = "native" => /\ Seen("BOM") \in {"", "literal"}
                                            /\ Seen("BACKSLASH_CONTINUATION") # "accept"
  BY DEF NoSettingRefused, Formats
<1>1. KnobsChecked /\ NoGap /\ format \in Formats /\ action \in Actions
      /\ (format = "native" => ~NotForNative)
  BY DEF IInv, Routed, Filled, Gated
<1>2. \A k \in Knobs : Seen(k) = knob[k]
  BY <1>1 DEF Seen, NoGap
<1>3. QED
  BY <1>1, <1>2 DEF KnobsChecked, NotForNative, Knobs

\* To the dispatcher, what the others do is nothing.
LEMMA GateCalls == [GateNext]_gateVars => [Next]_vars
BY DEF GateNext, Scan, Call, Spawn, Shell, gateVars

\* Every implementation that is started accepts its settings: they pass the
\* checks of envfile.awk:22-29, and a native file is never joined
\* (bin/envfile:136-157).
THEOREM SettingsAccepted == Spec => []NoSettingRefused
<1>1. Init => IInv
  BY StartChecked DEF Init
<1>2. QED
  BY <1>1, StepKeeps, CheckedAccepts, PTL DEF Spec

\* The same behind the gate, and beside the scanner and envfile.sh.
THEOREM SettingsAcceptedTogether == GateSpec => []NoSettingRefused
<1>1. GateInit => IInv
  BY StartChecked DEF GateInit
<1>2. IInv /\ [GateNext]_gateVars => IInv'
  BY StepKeeps, GateCalls
<1>3. QED
  BY <1>1, <1>2, CheckedAccepts, PTL DEF GateSpec

-----------------------------------------------------------------------------
(* What the command line asked for last. *)

\* The last setting w among the first n arguments.
GivenIn(w, n) == {i \in 1..n : call.argv[i].name = w}
LastIn(w, default, n) == IF GivenIn(w, n) = {} THEN default ELSE call.argv[Max(GivenIn(w, n))].value

LEMMA MaxGrows ==
  ASSUME NEW n \in Nat, NEW S \in SUBSET (1..n)
  PROVE  Max(S \cup {n + 1}) = n + 1
<1> DEFINE T == S \cup {n + 1}
<1>1. n + 1 \in T /\ \A y \in T : n + 1 >= y
  OBVIOUS
<1>2. \A x \in T : (\A y \in T : x >= y) => x = n + 1
  OBVIOUS
<1> HIDE DEF T
<1>3. QED
  BY <1>1, <1>2 DEF Max, T

LEMMA LastGrows ==
  ASSUME NEW n \in Nat, NEW w, NEW default
  PROVE  LastIn(w, default, n + 1) =
           IF call.argv[n + 1].name = w THEN call.argv[n + 1].value ELSE LastIn(w, default, n)
<1> DEFINE S == GivenIn(w, n)
           T == GivenIn(w, n + 1)
<1>1. S \in SUBSET (1..n) /\ T = IF call.argv[n + 1].name = w THEN S \cup {n + 1} ELSE S
  BY DEF GivenIn
<1>2. Max(S \cup {n + 1}) = n + 1
  BY <1>1, MaxGrows
<1> HIDE DEF S, T
<1>3. QED
  BY <1>1, <1>2 DEF LastIn, S, T

\* The arguments behind the shifted ones are the call's, and the settings are
\* the last among those shifted.
ShiftedTo(n) ==
  /\ argv = SubSeq(call.argv, n + 1, Len(call.argv))
  /\ \A i \in 1..n : call.argv[i].name # None
  /\ format = LastIn("format", "shell", n) /\ action = LastIn("action", "validate", n)
  /\ Wanted = LastIn("language", REFERENCE, n)

Shifted == why = "UNAVAILABLE" \/ pc \notin {"argv", "fatal"}

AskedInv ==
  /\ CallOk(call)
  /\ \E n \in 0..Len(call.argv) :
       ShiftedTo(n) /\ (Shifted => n = Len(call.argv) \/ call.argv[n + 1].name = None)

\* What is started was there when it was looked for last.
FoundInv ==
  /\ pc \in Places \ {"fatal"} => why = None
  /\ pc = "build" => ~Available(host, Wanted)
  /\ pc = "exec" => Available(host, Wanted)
  /\ pc \in {"started", "unrunnable"} => Available(host, Wanted) /\ program = Alias(Wanted)
  /\ pc = "unrunnable" => host.runtime # None
  /\ why = "UNAVAILABLE" => ~Available(host, Wanted)

LEMMA StartAsked == ASSUME NEW c, CallOk(c), Start(c) PROVE AskedInv
<1>1. /\ call = c /\ argv = c.argv /\ pc = "argv" /\ why = None
      /\ format = "shell" /\ action = "validate" /\ language = None
  BY DEF Start
<1>2. PICK S : c.argv \in Seq(S)
  BY DEF CallOk
<1>3. Len(c.argv) \in Nat /\ SubSeq(c.argv, 0 + 1, Len(c.argv)) = c.argv
  BY <1>2
<1>4. \A w, x : LastIn(w, x, 0) = x
  BY DEF LastIn, GivenIn
<1>5. 0 \in 0..Len(call.argv) /\ ShiftedTo(0) /\ ~Shifted
  BY <1>1, <1>3, <1>4, CallsOk DEF ShiftedTo, Shifted, Wanted
<1>6. QED
  BY <1>1, <1>5 DEF AskedInv

LEMMA StartFound == ASSUME NEW c, Start(c) PROVE FoundInv
BY CallsOk DEF Start, FoundInv

\* Only TakeSetting shifts, and only AtOperands ends the shifting.
LEMMA ShiftsOnly ==
  ASSUME Next
  PROVE  /\ call' = call
         /\ ~TakeSetting => UNCHANGED <<argv, format, action, language>>
         /\ ~TakeSetting /\ Shifted' => Shifted \/ AtOperands
<1> USE DEF RefuseSetting, RefuseFormat, LoadConfig, IgnoreEntry, TakeEntry, RefuseEntry,
            RefuseEnv, FillGaps, RefuseNative, FindImpl, Build, FoundAfterBuild, Unavailable, Exec,
            AtEntry, AtSetting, routing
<1>1. call' = call /\ (~TakeSetting => UNCHANGED <<argv, format, action, language>>)
  BY DEF Next, Fatal, TakeSetting
<1>2. ASSUME ~TakeSetting, Shifted', ~Shifted PROVE AtOperands
  <2>1. pc \in {"argv", "fatal"} /\ why # "UNAVAILABLE"
    BY <1>2 DEF Shifted
  <2>2. CASE RefuseSetting \/ RefuseFormat
    BY <1>2, <2>2 DEF Fatal, Shifted
  <2>3. CASE LoadConfig
    BY <2>3
  <2>4. QED
    BY <1>2, <2>1, <2>2, <2>3 DEF Next, Fatal
<1>3. QED
  BY <1>1, <1>2

LEMMA AskedKeeps == AskedInv /\ [Next]_vars => AskedInv'
<1> SUFFICES ASSUME AskedInv, [Next]_vars PROVE AskedInv'
  OBVIOUS
<1>1. CASE UNCHANGED vars
  <2>1. UNCHANGED <<call, argv, format, language, action, why, pc>>
    BY <1>1 DEF vars, routing
  <2>2. PICK n \in 0..Len(call.argv) : ShiftedTo(n) /\ (Shifted => n = Len(call.argv) \/ call.argv[n + 1].name = None)
    BY DEF AskedInv
  <2>3. \A w, x : LastIn(w, x, n)' = LastIn(w, x, n)
    BY <2>1 DEF LastIn, GivenIn
  <2>4. ShiftedTo(n)' /\ (Shifted' <=> Shifted)
    BY <2>1, <2>2, <2>3 DEF ShiftedTo, Shifted, Wanted
  <2>5. CallOk(call)'
    BY <2>1 DEF AskedInv
  <2>6. QED
    BY <2>1, <2>2, <2>4, <2>5 DEF AskedInv
<1>2. CASE Next
  <2> DEFINE all == call.argv
  <2>1. PICK S : all \in Seq(S)
    BY DEF AskedInv, CallOk
  <2>2. PICK n \in 0..Len(all) : ShiftedTo(n) /\ (Shifted => n = Len(all) \/ all[n + 1].name = None)
    BY DEF AskedInv
  <2>3. call' = call /\ CallOk(call)
    BY <1>2, ShiftsOnly DEF AskedInv
  <2>4. \A w, x, m : LastIn(w, x, m)' = LastIn(w, x, m)
    BY <2>3 DEF LastIn, GivenIn
  <2>5. argv \in Seq(S) /\ Len(argv) = Len(all) - n /\ (argv # << >> => n < Len(all) /\ Head(argv) = all[n + 1])
    <3> HIDE DEF all
    <3>1. argv = SubSeq(all, n + 1, Len(all)) /\ Len(all) \in Nat
      BY <2>1, <2>2 DEF ShiftedTo, all
    <3>2. argv \in Seq(S) /\ Len(argv) = Len(all) - n /\ (Len(argv) > 0 => n < Len(all) /\ argv[1] = all[n + 1])
      BY <2>1, <3>1
    <3>3. QED
      BY <3>2
  <2>6. CASE TakeSetting
    <3> DEFINE a == Head(argv)
    <3>1. /\ argv # << >> /\ a.name # None /\ ~BadSetting /\ pc = "argv" /\ UNCHANGED <<pc, why>>
          /\ argv' = Tail(argv)
      BY <2>6 DEF TakeSetting, AtSetting
    <3>2. /\ format' = IF a.name = "format" THEN a.value ELSE format
          /\ action' = IF a.name = "action" THEN a.value ELSE action
          /\ language' = IF a.name = "language" THEN a.value ELSE language
      BY <2>6 DEF TakeSetting
    <3>3. a = all[n + 1] /\ n < Len(all) /\ n \in Nat /\ n + 1 \in 0..Len(all)
      BY <2>1, <2>5, <3>1
    <3>4. argv' = SubSeq(all, (n + 1) + 1, Len(all))
      <4> HIDE DEF all
      <4>1. argv = SubSeq(all, n + 1, Len(all))
        BY <2>2 DEF ShiftedTo, all
      <4>2. QED
        BY <2>1, <3>1, <3>3, <4>1
    <3>5. \A i \in 1..(n + 1) : all[i].name # None
      BY <2>2, <3>1, <3>3 DEF ShiftedTo
    <3>6. \A w, x : LastIn(w, x, n + 1) = IF a.name = w THEN a.value ELSE LastIn(w, x, n)
      BY <3>3, LastGrows
    <3>11. a.value # None
      BY <2>3, <3>3 DEF CallOk
    <3> HIDE DEF a
    <3>12. Wanted' = IF a.name = "language" THEN a.value ELSE Wanted
      BY <3>2, <3>11 DEF Wanted
    <3>7. ShiftedTo(n + 1)'
      BY <2>2, <2>3, <2>4, <3>2, <3>4, <3>5, <3>6, <3>12 DEF ShiftedTo
    <3>8. Shifted => all[n + 1].name = None
      BY <2>2, <3>3
    <3>9. ~Shifted'
      BY <2>5, <3>1, <3>3, <3>8 DEF Shifted, a
    <3>10. QED
      BY <2>3, <3>3, <3>7, <3>9 DEF AskedInv
  <2>7. CASE ~TakeSetting
    <3>1. UNCHANGED <<argv, format, action, language>> /\ (Shifted' => Shifted \/ AtOperands)
      BY <1>2, <2>7, ShiftsOnly
    <3>2. ShiftedTo(n)'
      BY <2>2, <2>3, <2>4, <3>1 DEF ShiftedTo, Wanted
    <3>3. AtOperands => n = Len(all) \/ all[n + 1].name = None
      <4>1. CASE argv = << >>
        BY <2>1, <2>2, <2>5, <4>1
      <4>2. CASE argv # << >>
        BY <2>5, <4>2 DEF AtOperands
      <4>3. QED
        BY <4>1, <4>2
    <3>4. QED
      BY <2>2, <2>3, <3>1, <3>2, <3>3 DEF AskedInv
  <2>8. QED
    BY <2>6, <2>7
<1>3. QED
  BY <1>1, <1>2

LEMMA FoundKeeps == IInv /\ AskedInv /\ FoundInv /\ [Next]_vars => FoundInv'
<1> SUFFICES ASSUME IInv, AskedInv, FoundInv, [Next]_vars PROVE FoundInv'
  OBVIOUS
<1> USE DEF Places, Routed
<1>0. pc \in Places /\ None # "UNAVAILABLE"
  BY CallsOk DEF IInv
<1>1. CASE RefuseSetting \/ RefuseFormat \/ RefuseEntry \/ RefuseEnv \/ RefuseNative
  <2>1. pc' = "fatal" /\ why' # "UNAVAILABLE"
    BY <1>1 DEF RefuseSetting, RefuseFormat, RefuseEntry, RefuseEnv, RefuseNative, Fatal
  <2>2. QED
    BY <2>1 DEF FoundInv
<1>2. CASE TakeSetting \/ LoadConfig \/ IgnoreEntry \/ TakeEntry \/ FillGaps
  <2>1. pc \in {"argv", "config"} /\ pc' \in {"argv", "config", "gate"} /\ why' = why
    BY <1>2 DEF TakeSetting, LoadConfig, IgnoreEntry, TakeEntry, FillGaps, AtSetting, AtOperands, AtEntry
  <2>2. QED
    BY <1>0, <2>1 DEF FoundInv
<1>3. CASE FindImpl
  <2>1. pc = "gate" /\ UNCHANGED <<host, language, why>> /\ pc' = IF Available(host, Wanted) THEN "exec" ELSE "build"
    BY <1>3 DEF FindImpl, routing
  <2>2. QED
    BY <1>0, <2>1 DEF FoundInv, Wanted
<1>4. CASE Build
  BY <1>0, <1>4 DEF Build, FoundInv
<1>5. CASE FoundAfterBuild
  BY <1>0, <1>5 DEF FoundAfterBuild, FoundInv, Wanted, routing
<1>6. CASE Unavailable
  BY <1>0, <1>6 DEF Unavailable, Fatal, FoundInv, Wanted, routing
<1>7. CASE Exec
  <2>1. pc = "exec" /\ Available(host, Wanted) /\ why = None /\ UNCHANGED <<host, language, why>>
    BY <1>7 DEF Exec, FoundInv, routing
  <2>2. ~Interpreted(Alias(Wanted)) => host.runtime # None
    BY <2>1 DEF Interpreted, Available, ToolsSeen
  <2>3. \/ pc' = "astray"
        \/ /\ program' = Alias(Wanted)
           /\ pc' = IF Interpreted(Alias(Wanted)) THEN "started" ELSE "unrunnable"
    BY <1>7 DEF Exec
  <2>4. QED
    BY <1>0, <2>1, <2>2, <2>3 DEF FoundInv, Wanted
<1>8. CASE UNCHANGED vars
  BY <1>8 DEF vars, FoundInv, Wanted, routing
<1>9. QED
  BY <1>1, <1>2, <1>3, <1>4, <1>5, <1>6, <1>7, <1>8 DEF Next

LEMMA AskedRuns == IInv /\ AskedInv /\ FoundInv => RunsWhatWasAsked
<1> SUFFICES ASSUME IInv, AskedInv, FoundInv PROVE RunsWhatWasAsked
  OBVIOUS
<1>1. PICK n \in 0..Len(call.argv) : ShiftedTo(n) /\ (Shifted => n = Len(call.argv) \/ call.argv[n + 1].name = None)
  BY DEF AskedInv
<1>2. Len(call.argv) \in Nat
  <2>1. call.argv \in Seq(ToSet(call.argv))
    BY DEF AskedInv, CallOk
  <2>2. QED
    BY <2>1
<1>3. ASSUME Shifted PROVE Settings = 1..n
  <2>1. \A i \in 1..n : call.argv[i].name # None
    BY <1>1 DEF ShiftedTo
  <2>2. \A i \in 1..Len(call.argv) : i \notin 1..n => n < Len(call.argv) /\ n + 1 \in 1..i
    BY <1>2
  <2>3. n < Len(call.argv) => call.argv[n + 1].name = None
    BY <1>1, <1>2, <1>3
  <2>4. \A i \in 1..n : i \in 1..Len(call.argv) /\ 1..i \subseteq 1..n
    BY <1>2
  <2>5. QED
    BY <2>1, <2>2, <2>3, <2>4 DEF Settings
<1>4. ASSUME Shifted, NEW w, NEW x PROVE LastOf(w, x) = LastIn(w, x, n)
  BY <1>3, <1>4 DEF LastOf, LastIn, GivenIn
<1>5. ASSUME Shifted PROVE Cardinality(Settings) = n
  BY <1>3, <1>5, FS_Interval
<1>6. ASSUME pc \in {"started", "unrunnable"}
      PROVE  /\ program = Alias(LastOf("language", REFERENCE)) /\ program \in host.present
             /\ format = LastOf("format", "shell") /\ action = LastOf("action", "validate")
             /\ argv = SubSeq(call.argv, Cardinality(Settings) + 1, Len(call.argv))
  <2>1. Shifted
    BY <1>6 DEF Shifted
  <2>2. program = Alias(Wanted) /\ program \in host.present
    BY <1>6 DEF FoundInv, Available
  <2>3. QED
    BY <1>1, <1>4, <1>5, <2>1, <2>2 DEF ShiftedTo
<1>7. ASSUME why = "UNAVAILABLE" PROVE ~Available(host, LastOf("language", REFERENCE))
  <2>1. Shifted
    BY <1>7 DEF Shifted
  <2>2. QED
    BY <1>1, <1>4, <1>7, <2>1 DEF FoundInv, ShiftedTo
<1>8. QED
  BY <1>6, <1>7 DEF RunsWhatWasAsked, FoundInv

\* What is started is what the command line asked for last, on its operands; it
\* was there; and what is there, newly built or not, is not called unavailable
\* (bin/envfile:58-82, 90-126, 159-194).
THEOREM RunsAsAsked == Spec => []RunsWhatWasAsked
<1>1. Init => IInv /\ AskedInv /\ FoundInv
  BY CallsOk, StartChecked, StartAsked, StartFound DEF Init
<1>2. QED
  BY <1>1, StepKeeps, AskedKeeps, FoundKeeps, AskedRuns, PTL DEF Spec

\* The same behind the gate, and beside the scanner and envfile.sh.
THEOREM RunsAsAskedTogether == GateSpec => []RunsWhatWasAsked
<1>1. GateInit => IInv /\ AskedInv /\ FoundInv
  BY DrivesOk, StartChecked, StartAsked, StartFound DEF GateInit
<1>2. QED
  BY <1>1, GateCalls, StepKeeps, AskedKeeps, FoundKeeps, AskedRuns, PTL DEF GateSpec

-----------------------------------------------------------------------------
(* What the configuration file said last. *)

\* The last line of knob k among the first m lines.
LinesOf(k, m) == {i \in 1..m : call.file.lines[i].knob = k}
HeardIn(k, default, m) == IF LinesOf(k, m) = {} THEN default ELSE call.file.lines[Max(LinesOf(k, m))].value

LEMMA HeardGrows ==
  ASSUME NEW m \in Nat, NEW k, NEW default
  PROVE  HeardIn(k, default, m + 1) =
           IF call.file.lines[m + 1].knob = k THEN call.file.lines[m + 1].value ELSE HeardIn(k, default, m)
<1> DEFINE S == LinesOf(k, m)
           T == LinesOf(k, m + 1)
<1>1. S \in SUBSET (1..m) /\ T = IF call.file.lines[m + 1].knob = k THEN S \cup {m + 1} ELSE S
  BY DEF LinesOf
<1>2. Max(S \cup {m + 1}) = m + 1
  BY <1>1, MaxGrows
<1> HIDE DEF S, T
<1>3. QED
  BY <1>1, <1>2 DEF HeardIn, S, T

\* The reference is there and the file is plain; how many lines it then reads.
Readable ==
  PlainFile(call.file) /\ REFERENCE \in call.host.present /\ Entries[REFERENCE].exec \in call.host.path

Shown == IF call.env["BOM"] \in {"", "literal"} THEN Len(call.file.lines) ELSE 0

Entry(i) == [knob |-> call.file.lines[i].knob, value |-> call.file.lines[i].value]

Remaining(m) == [i \in 1..(Shown - m) |-> Entry(m + i)]

\* In 1..n the jth is j.
LEMMA NthOfAll ==
  ASSUME NEW n \in Nat, NEW j \in 1..n
  PROVE  Nth(1..n, j) = j
<1>1. \A i \in 1..n : Cardinality({x \in 1..n : x <= i}) = i
  <2> SUFFICES ASSUME NEW i \in 1..n PROVE Cardinality({x \in 1..n : x <= i}) = i
    OBVIOUS
  <2>1. {x \in 1..n : x <= i} = 1..i
    OBVIOUS
  <2>2. Cardinality(1..i) = i
    BY FS_Interval
  <2>3. QED
    BY <2>1, <2>2
<1>2. QED
  BY <1>1 DEF Nth

LEMMA ConfigRead ==
  ASSUME CallOk(call), Readable, host = call.host
  PROVE  ConfigEntries(call.env, call.file) = Remaining(0) /\ Shown \in Nat
<1> DEFINE file == call.file
           m == Len(file.lines)
<1>1. m \in Nat
  <2>1. file.lines \in Seq(ToSet(file.lines))
    BY DEF CallOk
  <2>2. QED
    BY <2>1
<1>2. CASE call.env["BOM"] \in {"", "literal"}
  <2>1. Shown = m /\ ~ReaderRefuses(call.env, file)
    BY <1>2 DEF Shown, ReaderRefuses, Readable, PlainFile
  <2>2. \A i \in 1..m : ~file.lines[i].cr /\ ~file.lines[i].bsl /\ ~file.bom
    BY DEF Readable, PlainFile
  <2> DEFINE heads == {i \in 1..m : i > 1 => ~Continues(call.env, file, i - 1)}
  <2>3. heads = 1..m
    <3>1. \A i \in 1..m : i > 1 => i - 1 \in 1..m
      BY <1>1
    <3>2. \A i \in 1..m : i > 1 => ~Continues(call.env, file, i - 1)
      BY <2>2, <3>1 DEF Continues
    <3>3. QED
      BY <3>2
  <2>4. ConfigEntries(call.env, file) = [n \in 1..m |-> Dumped(call.env, file, Nth(1..m, n))]
    <3>1. Cardinality(1..m) = m
      BY <1>1, FS_Interval
    <3>2. ConfigEntries(call.env, file) = [n \in 1..Cardinality(heads) |-> Dumped(call.env, file, Nth(heads, n))]
      BY <2>1 DEF ConfigEntries
    <3> HIDE DEF heads, m
    <3>3. QED
      BY <2>3, <3>1, <3>2
  <2>5. \A n \in 1..m : Dumped(call.env, file, Nth(1..m, n)) = Entry(n)
    <3> SUFFICES ASSUME NEW n \in 1..m PROVE Dumped(call.env, file, Nth(1..m, n)) = Entry(n)
      OBVIOUS
    <3>1. Nth(1..m, n) = n
      BY <1>1, NthOfAll
    <3>2. Dumped(call.env, file, n) = Entry(n)
      BY <2>2 DEF Dumped, Entry
    <3>3. QED
      BY <3>1, <3>2
  <2>6. Remaining(0) = [n \in 1..m |-> Entry(n)]
    <3> HIDE DEF m
    <3>1. m - 0 = m /\ \A n \in 1..m : 0 + n = n
      BY <1>1
    <3>2. QED
      BY <2>1, <3>1 DEF Remaining
  <2> HIDE DEF m
  <2>7. QED
    BY <1>1, <2>1, <2>4, <2>5, <2>6
<1>3. CASE call.env["BOM"] \notin {"", "literal"}
  <2>1. Shown = 0 /\ ConfigEntries(call.env, file) = << >>
    BY <1>3 DEF Shown, ConfigEntries, ReaderRefuses
  <2>2. Remaining(0) = << >>
    BY <2>1 DEF Remaining
  <2>3. QED
    BY <2>1, <2>2
<1>4. QED
  BY <1>2, <1>3

LEMMA RemainingShrinks ==
  ASSUME Shown \in Nat, NEW m \in 0..Shown
  PROVE  /\ Remaining(m) = << >> <=> m = Shown
         /\ m < Shown => Head(Remaining(m)) = Entry(m + 1) /\ Tail(Remaining(m)) = Remaining(m + 1)
<1> DEFINE r == Remaining(m)
           n == Shown - m
           S == {Entry(m + i) : i \in 1..n}
<1>1. r \in Seq(S) /\ Len(r) = n /\ n \in Nat /\ \A i \in 1..n : r[i] = Entry(m + i)
  <2>1. n \in Nat /\ \A i \in 1..n : Entry(m + i) \in S
    OBVIOUS
  <2>2. r = [i \in 1..n |-> Entry(m + i)]
    BY DEF Remaining
  <2> HIDE DEF r, n, S
  <2>3. QED
    BY <2>1, <2>2
<1> HIDE DEF r, S
<1>2. r = << >> <=> m = Shown
  <2>1. r = << >> <=> Len(r) = 0
    BY <1>1
  <2>2. QED
    BY <1>1, <2>1
<1>3. ASSUME m < Shown PROVE Head(r) = Entry(m + 1) /\ Tail(r) = Remaining(m + 1)
  <2> DEFINE l == n - 1
  <2>1. 1 \in 1..n /\ l \in Nat /\ Shown - (m + 1) = l /\ r # << >>
    BY <1>2, <1>3
  <2>2. Tail(r) \in Seq(S) /\ Len(Tail(r)) = l /\ \A i \in 1..l : Tail(r)[i] = r[i + 1]
    BY <1>1, <2>1, HeadTailProperties
  <2>3. \A i \in 1..l : i + 1 \in 1..n /\ m + (i + 1) = (m + 1) + i
    BY <2>1
  <2>4. \A i \in 1..l : Tail(r)[i] = Entry((m + 1) + i)
    BY <1>1, <2>2, <2>3
  <2> HIDE DEF l
  <2>5. Tail(r) = [i \in 1..l |-> Entry((m + 1) + i)]
    <3> DEFINE q == Tail(r)
    <3>1. q \in Seq(S) /\ Len(q) = l /\ \A i \in 1..l : q[i] = Entry((m + 1) + i)
      BY <2>2, <2>4
    <3> HIDE DEF q
    <3>2. q = [i \in 1..Len(q) |-> q[i]]
      BY <3>1
    <3>3. QED
      BY <3>1, <3>2 DEF q
  <2>6. Head(r) = Entry(m + 1)
    BY <1>1, <2>1
  <2>7. QED
    BY <2>1, <2>5, <2>6 DEF Remaining
<1>4. QED
  BY <1>2, <1>3 DEF r

\* While the file is read the knobs are what its lines so far said last, and
\* behind FillGaps what all of it did, which is never nothing, or the environment.
ReadTo(m) ==
  /\ entries = Remaining(m)
  /\ \A k \in Knobs : knob[k] = HeardIn(k, "", m) /\ (LinesOf(k, m) # {} => knob[k] # "")

HeardAll(k) ==
  /\ knob[k] = HeardIn(k, call.env[k], Shown)
  /\ LinesOf(k, Shown) # {} => knob[k] # ""

HeardInv ==
  /\ pc = "argv" => host = call.host /\ \A k \in Knobs : knob[k] = ""
  /\ config /\ Readable =>
       /\ pc = "config" => Shown \in Nat /\ \E m \in 0..Shown : ReadTo(m)
       /\ pc \in Filled => \A k \in Knobs : HeardAll(k)

LEMMA StartHeard == ASSUME NEW c, Start(c) PROVE HeardInv
BY DEF Start, HeardInv, Filled, Routed

\* A step that reads no line.
LEMMA HeardStays ==
  ASSUME HeardInv, UNCHANGED <<call, config, entries, knob>>,
         \/ pc' = pc /\ host' = host
         \/ pc' = "fatal"
         \/ pc \in Filled /\ pc' \in Filled
  PROVE  HeardInv'
<1>1. (Readable' <=> Readable) /\ Shown' = Shown
  BY DEF Readable, Shown, PlainFile
<1>2. \A k, x, m : HeardIn(k, x, m)' = HeardIn(k, x, m) /\ LinesOf(k, m)' = LinesOf(k, m)
  BY DEF HeardIn, LinesOf
<1>3. \A m : Remaining(m)' = Remaining(m)
  BY <1>1 DEF Remaining, Entry
<1>4. (\A m : ReadTo(m)' <=> ReadTo(m)) /\ (\A k : HeardAll(k)' <=> HeardAll(k))
  BY <1>1, <1>2, <1>3 DEF ReadTo, HeardAll
<1>5. CASE pc' = pc /\ host' = host
  BY <1>1, <1>2, <1>4, <1>5 DEF HeardInv
<1>6. CASE pc' = "fatal"
  BY <1>6 DEF HeardInv, Filled, Routed
<1>7. CASE pc \in Filled /\ pc' \in Filled
  BY <1>1, <1>4, <1>7 DEF HeardInv, Filled, Routed
<1>8. QED
  BY <1>5, <1>6, <1>7

\* The steps that read lines leave the call alone.
LEMMA SameFile ==
  ASSUME UNCHANGED <<call, config>>
  PROVE  /\ Readable' <=> Readable
         /\ Shown' = Shown
         /\ \A k, x, m : HeardIn(k, x, m)' = HeardIn(k, x, m) /\ LinesOf(k, m)' = LinesOf(k, m)
         /\ \A m : Remaining(m)' = Remaining(m)
<1>1. (Readable' <=> Readable) /\ Shown' = Shown
  BY DEF Readable, Shown, PlainFile
<1>2. \A k, x, m : HeardIn(k, x, m)' = HeardIn(k, x, m) /\ LinesOf(k, m)' = LinesOf(k, m)
  BY DEF HeardIn, LinesOf
<1>3. \A m : Remaining(m)' = Remaining(m)
  BY <1>1 DEF Remaining, Entry
<1>4. QED
  BY <1>1, <1>2, <1>3

LEMMA LoadHeard ==
  ASSUME CallOk(call), HeardInv, LoadConfig
  PROVE  HeardInv'
<1>1. /\ pc = "argv" /\ pc' = "config" /\ UNCHANGED <<call, config, knob>> /\ host = call.host
      /\ entries' = IF config THEN ConfigEntries(call.env, call.file) ELSE << >>
      /\ \A k \in Knobs : knob[k] = ""
  BY DEF LoadConfig, AtOperands, HeardInv, routing
<1>2. ASSUME config, Readable PROVE Shown \in Nat /\ ReadTo(0)'
  <2>1. entries' = Remaining(0) /\ Shown \in Nat
    BY <1>1, <1>2, ConfigRead
  <2>2. \A k, x : LinesOf(k, 0) = {} /\ HeardIn(k, x, 0) = x
    BY DEF HeardIn, LinesOf
  <2>3. QED
    BY <1>1, <2>1, <2>2, SameFile DEF ReadTo
<1>3. \A m : m \in Nat => 0 \in 0..m
  OBVIOUS
<1>4. QED
  BY <1>1, <1>2, <1>3, SameFile DEF HeardInv, Filled, Routed

\* A line that is read, and perhaps taken.
LEMMA LineHeard ==
  ASSUME IInv, HeardInv, IgnoreEntry \/ TakeEntry
  PROVE  HeardInv'
<1>1. /\ pc = "config" /\ entries # << >> /\ entries' = Tail(entries) /\ UNCHANGED <<pc, call, config>>
  BY DEF IgnoreEntry, TakeEntry, AtEntry, routing
<1>2. SUFFICES ASSUME config, Readable PROVE Shown \in Nat /\ \E m \in 0..Shown : ReadTo(m)'
  BY <1>1, SameFile DEF HeardInv, Filled, Routed
<1>3. Shown \in Nat /\ \E m \in 0..Shown : ReadTo(m)
  BY <1>1, <1>2 DEF HeardInv
<1>4. PICK m \in 0..Shown : ReadTo(m)
  BY <1>3
<1>5. m # Shown /\ Head(entries) = Entry(m + 1) /\ entries' = Remaining(m + 1)
  <2>1. entries = Remaining(m) /\ m # Shown
    BY <1>1, <1>3, <1>4, RemainingShrinks DEF ReadTo
  <2>2. m < Shown
    BY <1>3, <2>1
  <2>3. QED
    BY <1>1, <1>3, <2>1, <2>2, RemainingShrinks
<1>6. m \in Nat /\ m + 1 \in 0..Shown
  BY <1>3, <1>5
<1> DEFINE l == call.file.lines[m + 1]
<1>7. Head(entries).knob = l.knob /\ Head(entries).value = l.value
  BY <1>5 DEF Entry
<1>8. \A k : HeardIn(k, "", m + 1) = IF l.knob = k THEN l.value ELSE HeardIn(k, "", m)
  BY <1>6, HeardGrows
<1>9. \A k : LinesOf(k, m + 1) # {} => l.knob = k \/ LinesOf(k, m) # {}
  <2>1. \A i \in 1..(m + 1) : i = m + 1 \/ i \in 1..m
    BY <1>6
  <2>2. QED
    BY <2>1 DEF LinesOf
<1>10. \A k \in Knobs : knob'[k] = IF l.knob = k THEN l.value ELSE knob[k]
  <2>1. DOMAIN knob = Knobs
    BY DEF IInv, KnobsChecked
  <2>2. CASE IgnoreEntry
    BY <1>7, <2>2 DEF IgnoreEntry
  <2>3. CASE TakeEntry
    BY <1>7, <2>1, <2>3 DEF TakeEntry
  <2>4. QED
    BY <2>2, <2>3
<1>11. \A k \in Knobs : l.knob = k => l.value # ""
  <2>1. CASE IgnoreEntry
    BY <1>7, <2>1 DEF IgnoreEntry
  <2>2. CASE TakeEntry
    <3>1. \A k \in Knobs : "" \notin Allowed[k]
      <4>1. /\ Allowed["BOM"] = {"literal", "strip", "reject"} /\ Allowed["CRLF"] = {"strip", "ignore"}
            /\ Allowed["NUL"] = {"reject", "ignore"}
            /\ Allowed["BACKSLASH_CONTINUATION"] = {"accept", "ignore"}
        BY DEF Allowed
      <4>2. /\ "" \notin Allowed["BOM"] /\ "" \notin Allowed["CRLF"] /\ "" \notin Allowed["NUL"]
            /\ "" \notin Allowed["BACKSLASH_CONTINUATION"]
        BY <4>1
      <4>3. QED
        BY <4>2 DEF Knobs
    <3>2. l.knob \in Knobs /\ l.value \in Allowed[l.knob]
      BY <1>7, <2>2 DEF TakeEntry
    <3>3. QED
      BY <3>1, <3>2
  <2>3. QED
    BY <2>1, <2>2
<1> HIDE DEF l
<1>12. \A k \in Knobs : knob'[k] = HeardIn(k, "", m + 1) /\ (LinesOf(k, m + 1) # {} => knob'[k] # "")
  BY <1>4, <1>8, <1>9, <1>10, <1>11 DEF ReadTo
<1>13. ReadTo(m + 1)'
  BY <1>1, <1>5, <1>12, SameFile DEF ReadTo
<1>14. QED
  BY <1>3, <1>6, <1>13

LEMMA FillHeard ==
  ASSUME HeardInv, FillGaps
  PROVE  HeardInv'
<1>1. /\ pc = "config" /\ entries = << >> /\ pc' = "gate" /\ UNCHANGED <<call, config>>
      /\ knob' = [k \in Knobs |-> IF k \in Gaps THEN call.env[k] ELSE knob[k]]
  BY DEF FillGaps, routing
<1>2. SUFFICES ASSUME config, Readable PROVE \A k \in Knobs : HeardAll(k)'
  BY <1>1, SameFile DEF HeardInv, Filled, Routed
<1>3. Shown \in Nat /\ ReadTo(Shown)
  <2>1. Shown \in Nat /\ \E m \in 0..Shown : ReadTo(m)
    BY <1>1, <1>2 DEF HeardInv
  <2>2. PICK m \in 0..Shown : ReadTo(m)
    BY <2>1
  <2>3. m = Shown
    BY <1>1, <2>1, <2>2, RemainingShrinks DEF ReadTo
  <2>4. QED
    BY <2>1, <2>2, <2>3
<1>4. TAKE k \in Knobs
<1>5. knob[k] = HeardIn(k, "", Shown) /\ (LinesOf(k, Shown) # {} => knob[k] # "")
  BY <1>3 DEF ReadTo
<1>6. knob'[k] = IF knob[k] = "" THEN call.env[k] ELSE knob[k]
  BY <1>1 DEF Gaps
<1>7. knob'[k] = HeardIn(k, call.env[k], Shown) /\ (LinesOf(k, Shown) # {} => knob'[k] # "")
  BY <1>5, <1>6 DEF HeardIn
<1>8. call' = call /\ Shown' = Shown
  BY <1>1, SameFile
<1>9. \A x, m : HeardIn(k, x, m)' = HeardIn(k, x, m) /\ LinesOf(k, m)' = LinesOf(k, m)
  BY <1>1, SameFile
<1>10. HeardIn(k, call.env[k], Shown)' = HeardIn(k, call.env[k], Shown) /\ LinesOf(k, Shown)' = LinesOf(k, Shown)
  BY <1>8, <1>9 DEF HeardIn, LinesOf
<1>11. QED
  BY <1>7, <1>10 DEF HeardAll

LEMMA HeardKeeps == IInv /\ AskedInv /\ HeardInv /\ [Next]_vars => HeardInv'
<1> SUFFICES ASSUME IInv, AskedInv, HeardInv, [Next]_vars PROVE HeardInv'
  OBVIOUS
<1>1. CASE RefuseSetting \/ RefuseFormat \/ RefuseEntry \/ RefuseEnv \/ RefuseNative \/ Unavailable
  <2>1. pc' = "fatal" /\ UNCHANGED <<call, config, entries, knob>>
    BY <1>1 DEF RefuseSetting, RefuseFormat, RefuseEntry, RefuseEnv, RefuseNative, Unavailable, Fatal, routing
  <2>2. QED
    BY <2>1, HeardStays
<1>2. CASE TakeSetting
  <2>1. pc = "argv" /\ UNCHANGED <<pc, call, host, knob>>
    BY <1>2 DEF TakeSetting, AtSetting
  <2>2. QED
    BY <2>1 DEF HeardInv, Filled, Routed
<1>3. CASE LoadConfig
  BY <1>3, LoadHeard DEF AskedInv
<1>4. CASE IgnoreEntry \/ TakeEntry
  BY <1>4, LineHeard
<1>5. CASE FillGaps
  BY <1>5, FillHeard
<1>6. CASE FindImpl \/ Build \/ FoundAfterBuild \/ Exec
  <2>1. pc \in Filled /\ pc' \in Filled /\ UNCHANGED <<call, config, entries, knob>>
    BY <1>6 DEF FindImpl, Build, FoundAfterBuild, Exec, routing, Filled, Routed
  <2>2. QED
    BY <2>1, HeardStays
<1>7. CASE UNCHANGED vars
  BY <1>7, HeardStays DEF vars, routing
<1>8. QED
  BY <1>1, <1>2, <1>3, <1>4, <1>5, <1>6, <1>7 DEF Next

LEMMA HeardSeen == IInv /\ HeardInv => ConfigHeard
<1> SUFFICES ASSUME IInv, HeardInv, pc = "started", FileIsRead, call.env["BOM"] \in {"", "literal"},
                    NEW k \in Knobs, NEW said, said = {FileSays(k), call.env[k]} \ {""}
             PROVE  IF said = {} THEN Seen(k) = "" ELSE Seen(k) \in said
  BY DEF ConfigHeard
<1>1. NoGap /\ HeardAll(k)
  BY DEF IInv, HeardInv, FileIsRead, Readable, Filled, Routed
<1>2. /\ Seen(k) = HeardIn(k, call.env[k], Shown)
      /\ LinesOf(k, Shown) # {} => Seen(k) # ""
  BY <1>1 DEF Seen, NoGap, HeardAll
<1>3. FileSays(k) = HeardIn(k, "", Shown)
  BY DEF FileSays, HeardIn, LinesOf, Shown
<1>4. QED
  BY <1>2, <1>3 DEF HeardIn

\* Of what a plain configuration file and the environment say of a knob, an
\* implementation that is started sees one, and nothing only if neither speaks:
\* for files of any length (bin/envfile:136-151).
THEOREM ConfigIsHeard == Spec => []ConfigHeard
<1>1. Init => IInv /\ AskedInv /\ HeardInv
  BY CallsOk, StartChecked, StartAsked, StartHeard DEF Init
<1>2. QED
  BY <1>1, StepKeeps, AskedKeeps, HeardKeeps, HeardSeen, PTL DEF Spec

\* The same behind the gate, and beside the scanner and envfile.sh.
THEOREM ConfigIsHeardTogether == GateSpec => []ConfigHeard
<1>1. GateInit => IInv /\ AskedInv /\ HeardInv
  BY DrivesOk, StartChecked, StartAsked, StartHeard DEF GateInit
<1>2. QED
  BY <1>1, GateCalls, StepKeeps, AskedKeeps, HeardKeeps, HeardSeen, PTL DEF GateSpec

-----------------------------------------------------------------------------
(* The scan. *)

\* A name that is not clean stays ahead of the scanner, or is the one it is in,
\* until it is noted.
Plainly == ~scan.listed /\ \A i \in 1..Len(scan.names) : scan.names[i] # "-"

\* Everything in hand is a sequence or a file.
ScanTypes ==
  /\ scan \in Scans /\ at \in {"next", "chunk", "end"}
  /\ \E S : todo \in Seq(S)
  /\ \E S : noted \in Seq(S)
  /\ \A j \in 1..Len(todo) : todo[j] # "-"

\* The file in hand: what is left of it decides as the whole would.
InHand ==
  /\ name \in DOMAIN scan.files
  /\ DOMAIN rest = {"bytes", "fails"}
  /\ \E S : rest.bytes \in Seq(S)
  /\ rest.fails = scan.files[name].fails
  /\ Contains(scan.files[name].bytes, NUL) <=> Contains(rest.bytes, NUL)

Ahead(n) == \E j \in 1..Len(todo) : todo[j] = n

\* As long as nothing was noted, whatever is behind the scanner is clean.
BehindClean ==
  noted = << >> =>
    \A i \in 1..Len(scan.names) :
      \/ Clean(scan.names[i]) \/ Ahead(scan.names[i])
      \/ at = "chunk" /\ name = scan.names[i]

ScanInv ==
  /\ ScanTypes
  /\ at = "chunk" => InHand
  /\ at = "end" => todo = << >>
  /\ BehindClean

LEMMA StartScanInv ==
  ASSUME NEW s \in Scans, StartScan(s), Plainly
  PROVE  ScanInv
<1>1. scan = s /\ at = "next" /\ todo = s.names /\ noted = << >>
  BY DEF StartScan
<1>2. s.names \in Seq(ToSet(s.names)) /\ << >> \in Seq({})
  BY ScansOk
<1>3. ScanTypes
  BY <1>1, <1>2 DEF ScanTypes, Plainly
<1>4. BehindClean
  BY <1>1 DEF BehindClean, Ahead
<1>5. QED
  BY <1>1, <1>3, <1>4 DEF ScanInv

\* What is noted stays noted.
LEMMA NoteNotes ==
  ASSUME ScanTypes, NEW n, Note(n)
  PROVE  noted' # << >> /\ \E S : noted' \in Seq(S)
<1>1. PICK S : noted \in Seq(S)
  BY DEF ScanTypes
<1>2. noted \in Seq(S \cup {n})
  BY <1>1
<1>3. noted' \in Seq(S \cup {n}) /\ Len(noted') = Len(noted) + 1 /\ Len(noted) \in Nat
  BY <1>2 DEF Note
<1>4. QED
  BY <1>3

\* The names ahead once the first has been taken.
LEMMA TakeName ==
  ASSUME ScanTypes, todo # << >>, todo' = Tail(todo)
  PROVE  /\ \E S : todo' \in Seq(S)
         /\ \A j \in 1..Len(todo') : todo'[j] # "-"
         /\ \A n : Ahead(n) => Ahead(n)' \/ n = Head(todo)
<1>1. PICK S : todo \in Seq(S)
  BY DEF ScanTypes
<1>2. /\ todo' \in Seq(S) /\ Len(todo') = Len(todo) - 1 /\ Len(todo) \in Nat
      /\ \A j \in 1..Len(todo') : todo'[j] = todo[j + 1]
  BY <1>1
<1>3. \A j \in 1..Len(todo') : todo'[j] # "-"
  BY <1>2 DEF ScanTypes
<1>4. ASSUME NEW n, Ahead(n), n # Head(todo) PROVE Ahead(n)'
  <2>1. PICK j \in 1..Len(todo) : todo[j] = n
    BY <1>4 DEF Ahead
  <2>2. j # 1
    BY <1>1, <1>4, <2>1
  <2>3. j - 1 \in 1..Len(todo') /\ todo'[j - 1] = n
    BY <1>2, <2>1, <2>2
  <2>4. QED
    BY <2>3 DEF Ahead
<1>5. QED
  BY <1>2, <1>3, <1>4

\* A NUL byte in a chunk is one of the file; a chunk without one leaves those of
\* the file ahead; the last chunk, a short one, leaves none.
LEMMA ChunkRead ==
  ASSUME InHand, ReadChunk
  PROVE  /\ DOMAIN rest' = {"bytes", "fails"} /\ rest'.fails = rest.fails
         /\ \E S : rest'.bytes \in Seq(S)
         /\ Contains(Chunk, NUL) => Contains(rest.bytes, NUL)
         /\ ~Contains(Chunk, NUL) =>
              /\ Contains(rest.bytes, NUL) <=> Contains(rest'.bytes, NUL)
              /\ Len(Chunk) < BUF_SIZE => ~Contains(rest.bytes, NUL)
<1> DEFINE b == rest.bytes
           n == Min({BUF_SIZE, Len(b)})
<1>1. PICK S : b \in Seq(S)
  BY DEF InHand
<1>2. Len(b) \in Nat /\ BUF_SIZE \in Nat \ {0}
  BY <1>1, ScansOk
<1>3. n \in {BUF_SIZE, Len(b)} /\ n <= BUF_SIZE /\ n <= Len(b)
  <2>1. \E x \in {BUF_SIZE, Len(b)} : \A y \in {BUF_SIZE, Len(b)} : x <= y
    BY <1>2
  <2>2. QED
    BY <2>1 DEF Min
<1>4. Chunk = SubSeq(b, 1, n)
  BY DEF Chunk
<1>5. rest' = [rest EXCEPT !.bytes = SubSeq(b, Len(Chunk) + 1, Len(b))]
  BY DEF ReadChunk
<1> DEFINE left == SubSeq(b, Len(Chunk) + 1, Len(b))
<1>6. rest'.bytes = left /\ rest'.fails = rest.fails /\ DOMAIN rest' = {"bytes", "fails"}
  BY <1>5 DEF InHand
<1> HIDE DEF b, n, left
<1>7. Len(Chunk) = n /\ \A i \in 1..n : Chunk[i] = b[i]
  BY <1>1, <1>2, <1>3, <1>4
<1>8. left \in Seq(S) /\ Len(left) = Len(b) - n /\ \A i \in 1..(Len(b) - n) : left[i] = b[n + i]
  BY <1>1, <1>2, <1>3, <1>7 DEF left
<1>9. ASSUME Contains(Chunk, NUL) PROVE Contains(b, NUL)
  BY <1>1, <1>2, <1>3, <1>7, <1>9 DEF Contains
<1>10. ASSUME Contains(left, NUL) PROVE Contains(b, NUL)
  <2>1. PICK i \in 1..(Len(b) - n) : left[i] = NUL
    BY <1>8, <1>10 DEF Contains
  <2>2. n + i \in 1..Len(b) /\ b[n + i] = NUL
    BY <1>2, <1>3, <1>8, <2>1
  <2>3. QED
    BY <2>2 DEF Contains
<1>11. ASSUME ~Contains(Chunk, NUL), Contains(b, NUL) PROVE Contains(left, NUL)
  <2>1. PICK i \in 1..Len(b) : b[i] = NUL
    BY <1>11 DEF Contains
  <2>2. \A k \in 1..n : b[k] # NUL
    BY <1>7, <1>11 DEF Contains
  <2>3. i > n
    BY <1>2, <1>3, <2>1, <2>2
  <2>4. i - n \in 1..(Len(b) - n) /\ n + (i - n) = i
    BY <1>2, <1>3, <2>1, <2>3
  <2>5. left[i - n] = NUL
    BY <1>8, <2>1, <2>4
  <2>6. QED
    BY <1>8, <2>4, <2>5 DEF Contains
<1>12. ASSUME ~Contains(Chunk, NUL), Len(Chunk) < BUF_SIZE PROVE ~Contains(b, NUL)
  BY <1>2, <1>3, <1>7, <1>12 DEF Contains
<1>13. QED
  BY <1>6, <1>8, <1>9, <1>10, <1>11, <1>12 DEF b

\* What does not touch the scan leaves what is known of it.
LEMMA ScanStays == ASSUME ScanInv, UNCHANGED scanVars PROVE ScanInv'
BY DEF ScanInv, ScanTypes, InHand, BehindClean, Ahead, Clean, scanVars, stream, output

LEMMA Opened == ASSUME ScanInv, OpenName PROVE ScanInv'
<1> DEFINE n == Head(todo)
<1>1. /\ n \in DOMAIN scan.files /\ name' = n /\ rest' = scan.files[n] /\ at' = "chunk"
      /\ todo # << >> /\ todo' = Tail(todo) /\ UNCHANGED <<scan, noted>>
  BY DEF OpenName, AtName, output
<1>2. ScanTypes'
  BY <1>1, TakeName DEF ScanInv, ScanTypes
<1>3. InHand'
  <2>1. DOMAIN scan.files[n] = {"bytes", "fails"} /\ \E S : scan.files[n].bytes \in Seq(S)
    BY <1>1, ScansOk DEF ScanInv, ScanTypes
  <2>2. QED
    BY <1>1, <2>1 DEF InHand
<1>4. BehindClean'
  <2>1. at # "chunk" /\ \A m : Ahead(m) => Ahead(m)' \/ m = n
    BY <1>1, TakeName DEF ScanInv, OpenName, AtName
  <2>2. \A m : Clean(m)' <=> Clean(m)
    BY <1>1 DEF Clean
  <2> HIDE DEF n
  <2>3. QED
    BY <1>1, <2>1, <2>2 DEF ScanInv, BehindClean
<1>5. QED
  BY <1>1, <1>2, <1>3, <1>4 DEF ScanInv

\* A step that notes something.
LEMMA Noted ==
  ASSUME ScanInv, NEW n, Note(n), scan' = scan, at' \in {"next", "end"},
         todo' = todo \/ (todo # << >> /\ todo' = Tail(todo)), at' = "end" => todo' = << >>
  PROVE  ScanInv'
<1>1. noted' # << >> /\ \E S : noted' \in Seq(S)
  BY NoteNotes DEF ScanInv
<1>2. (\E S : todo' \in Seq(S)) /\ \A j \in 1..Len(todo') : todo'[j] # "-"
  BY TakeName DEF ScanInv, ScanTypes
<1>3. QED
  BY <1>1, <1>2 DEF ScanInv, ScanTypes, BehindClean

LEMMA ReadOnKeeps == ASSUME ScanInv, ReadOn PROVE ScanInv'
<1>1. InHand /\ at = "chunk" /\ at' = at /\ UNCHANGED <<scan, todo, name, noted>>
  BY DEF ScanInv, ReadOn, ReadChunk, output
<1>2. InHand'
  BY <1>1, ChunkRead DEF ReadOn, InHand
<1>3. QED
  BY <1>1, <1>2 DEF ScanInv, ScanTypes, BehindClean, Ahead, Clean

\* A name is printed only if it is clean.
LEMMA PrintKeeps == ASSUME ScanInv, PrintName PROVE ScanInv'
<1>1. /\ InHand /\ at' = "next" /\ UNCHANGED <<scan, todo, name, noted>>
  BY DEF ScanInv, PrintName, ReadChunk
<1>2. Clean(name)
  BY <1>1, ChunkRead DEF PrintName, InHand, Clean
<1>3. \A m : (Clean(m)' <=> Clean(m)) /\ (Ahead(m)' <=> Ahead(m))
  BY <1>1 DEF Clean, Ahead
<1>4. QED
  BY <1>1, <1>2, <1>3 DEF ScanInv, ScanTypes, BehindClean

LEMMA EndKeeps == ASSUME ScanInv, Plainly, EndScan PROVE ScanInv'
BY DEF ScanInv, ScanTypes, BehindClean, Ahead, Clean, EndScan, Plainly, output, stream

LEMMA ScanKeeps == ASSUME ScanInv, Plainly, ScanNext PROVE ScanInv'
<1>1. ~SkipName
  BY DEF SkipName, Plainly
<1>2. ~OpenStdin
  <2>1. PICK S : todo \in Seq(S)
    BY DEF ScanInv, ScanTypes
  <2>2. ASSUME todo # << >> PROVE Head(todo) # "-"
    BY <2>1, <2>2 DEF ScanInv, ScanTypes
  <2>3. QED
    BY <2>2 DEF OpenStdin, AtName
<1>3. CASE CannotOpen
  BY <1>3, Noted DEF CannotOpen, AtName
<1>4. CASE FindNul
  BY <1>4, Noted DEF FindNul, ReadChunk
<1>5. CASE ReadError
  BY <1>5, Noted DEF ReadError, ReadChunk
<1>6. QED
  BY <1>1, <1>2, <1>3, <1>4, <1>5, Opened, ReadOnKeeps, PrintKeeps, EndKeeps DEF ScanNext

\* A scan without a verdict against a name found every name clean.
LEMMA ScanClears ==
  ASSUME ScanInv, at = "end", noted = << >>
  PROVE  \A i \in 1..Len(scan.names) : Clean(scan.names[i])
BY DEF ScanInv, BehindClean, Ahead

-----------------------------------------------------------------------------
(* What a scan has printed and noted. *)

\* The names up to position q with the verdict v.
WithVerdict(q, v) == {j \in Plain : j <= q /\ (CleanAt(j) <=> v)}

Verdicts(v) == IF v THEN printed ELSE noted

\* The name at position i stands where its verdict says.
ToldAt(i) ==
  /\ Alike(i) <= Len(Verdicts(CleanAt(i)))
  /\ Verdicts(CleanAt(i))[Alike(i)] = scan.names[i]

Told(q) == \A i \in Plain : i <= q => ToldAt(i)

\* No more was printed and noted than the names up to position q.
Counted(q) ==
  /\ Len(printed) = Cardinality(WithVerdict(q, TRUE))
  /\ Len(noted) = Cardinality(WithVerdict(q, FALSE))

\* p names were taken, none of them "-", and all decided but one in hand.
TakenTo(p) ==
  /\ \A j \in 1..p : scan.names[j] # "-"
  /\ todo = SubSeq(scan.names, p + 1, Len(scan.names))
  /\ stdin = scan.stdin
  /\ at = "next" => Told(p) /\ Counted(p)
  /\ at = "chunk" =>
       p \in Plain /\ name = scan.names[p] /\ InHand /\ Told(p - 1) /\ Counted(p - 1)

AllTold == \A i \in Plain : ToldAt(i)

\* Before the first "-", behind it, and at the end.
ScanCount ==
  /\ scan \in Scans /\ at \in {"next", "chunk", "end"}
  /\ (\E S : printed \in Seq(S)) /\ (\E S : noted \in Seq(S))
  /\ \/ at # "end" /\ \E p \in 0..Len(scan.names) : TakenTo(p)
     \/ AllTold /\ \E j \in 1..Len(scan.names) : scan.names[j] = "-"
     \/ at = "end" /\ ScanAccounts

LEMMA NamesType ==
  ASSUME scan \in Scans
  PROVE  /\ Len(scan.names) \in Nat /\ \E S : scan.names \in Seq(S)
         /\ Plain \subseteq 1..Len(scan.names)
<1>1. scan.names \in Seq(ToSet(scan.names))
  BY ScansOk
<1>2. Len(scan.names) \in Nat
  BY <1>1
<1>3. \E S : scan.names \in Seq(S)
  BY <1>1
<1>4. Plain \subseteq 1..Len(scan.names)
  BY DEF Plain
<1>5. QED
  BY <1>2, <1>3, <1>4

\* The names with a verdict, one position further on.
LEMMA VerdictGrows ==
  ASSUME scan \in Scans, NEW q \in Nat, NEW v \in BOOLEAN
  PROVE  /\ Cardinality(WithVerdict(q, v)) \in Nat
         /\ Cardinality(WithVerdict(q + 1, v)) =
              IF q + 1 \in Plain /\ (CleanAt(q + 1) <=> v) THEN Cardinality(WithVerdict(q, v)) + 1
              ELSE Cardinality(WithVerdict(q, v))
<1> DEFINE S == WithVerdict(q, v)
<1>1. Plain \subseteq 1..Len(scan.names) /\ Len(scan.names) \in Nat
  BY NamesType
<1>2. IsFiniteSet(S)
  <2>1. S \subseteq 1..Len(scan.names)
    BY <1>1 DEF WithVerdict
  <2>2. IsFiniteSet(1..Len(scan.names))
    BY <1>1, FS_Interval
  <2>3. QED
    BY <2>1, <2>2, FS_Subset
<1>3. WithVerdict(q + 1, v) = IF q + 1 \in Plain /\ (CleanAt(q + 1) <=> v) THEN S \cup {q + 1} ELSE S
  <2>1. \A j \in Plain : j <= q + 1 <=> j <= q \/ j = q + 1
    BY <1>1
  <2>2. QED
    BY <2>1 DEF WithVerdict
<1>4. q + 1 \notin S
  BY DEF WithVerdict
<1> HIDE DEF S
<1>5. Cardinality(S) \in Nat /\ Cardinality(S \cup {q + 1}) = Cardinality(S) + 1
  BY <1>2, <1>4, FS_CardinalityType, FS_AddElement
<1>6. QED
  BY <1>3, <1>5 DEF S

\* What was told stays told when more is.
LEMMA TellsMore ==
  ASSUME NEW S, printed \in Seq(S), NEW T, noted \in Seq(T), scan \in Scans, scan' = scan,
         NEW n, (printed' = Append(printed, n) /\ noted' = noted)
                \/ (noted' = Append(noted, n) /\ printed' = printed)
                \/ UNCHANGED <<printed, noted>>,
         NEW i \in Plain, ToldAt(i)
  PROVE  ToldAt(i)'
<1> DEFINE k == Alike(i)
           s == Verdicts(CleanAt(i))
<1>1. k = Cardinality(WithVerdict(i, CleanAt(i))) /\ CleanAt(i) \in BOOLEAN /\ i \in Plain /\ i \in Nat
  BY NamesType DEF Alike, WithVerdict, CleanAt, Clean
<1>2. k \in Nat /\ k > 0
  <2>1. k \in Nat /\ i - 1 \in Nat /\ (i - 1) + 1 = i
    <3>1. k \in Nat
      BY <1>1, VerdictGrows
    <3>2. i >= 1
      BY NamesType
    <3>3. QED
      BY <1>1, <3>1, <3>2
  <2>2. k = Cardinality(WithVerdict(i - 1, CleanAt(i))) + 1 /\ Cardinality(WithVerdict(i - 1, CleanAt(i))) \in Nat
    BY <1>1, <2>1, VerdictGrows
  <2>3. QED
    BY <2>1, <2>2
<1>3. k <= Len(s) /\ s[k] = scan.names[i]
  BY DEF ToldAt
<1>4. Alike(i)' = k /\ CleanAt(i)' = CleanAt(i)
  BY DEF Alike, Plain, CleanAt, Clean
<1>5. (\E Z : s \in Seq(Z)) /\ (s' = s \/ s' = Append(s, n))
  BY DEF Verdicts, CleanAt, Clean
<1> HIDE DEF k, s
<1>6. k <= Len(s') /\ s'[k] = s[k]
  <2>1. PICK Z : s \in Seq(Z)
    BY <1>5
  <2>2. Len(s) \in Nat
    BY <2>1
  <2>3. k \in 1..Len(s)
    BY <1>2, <1>3, <2>2
  <2>4. CASE s' = s
    BY <1>3, <2>4
  <2>5. CASE s' = Append(s, n)
    <3>1. Len(s') = Len(s) + 1 /\ s'[k] = s[k]
      BY <2>1, <2>3, <2>5, AppendProperties
    <3>2. QED
      BY <2>2, <2>3, <3>1
  <2>6. QED
    BY <1>5, <2>4, <2>5
<1>7. QED
  BY <1>3, <1>4, <1>6 DEF ToldAt, s

\* The next name, n, is printed or noted.
Tells(v, n) ==
  IF v THEN printed' = Append(printed, n) /\ noted' = noted
  ELSE noted' = Append(noted, n) /\ printed' = printed

OutputType == (\E S : printed \in Seq(S)) /\ (\E S : noted \in Seq(S))

LEMMA TellsType ==
  ASSUME OutputType, (\E v \in BOOLEAN : \E n : Tells(v, n)) \/ UNCHANGED output
  PROVE  OutputType'
<1>1. CASE UNCHANGED output
  BY <1>1 DEF OutputType, output
<1>2. ASSUME NEW v \in BOOLEAN, NEW n, Tells(v, n) PROVE OutputType'
  <2>1. PICK S : printed \in Seq(S)
    BY DEF OutputType
  <2>2. PICK T : noted \in Seq(T)
    BY DEF OutputType
  <2>3. printed \in Seq(S \cup {n}) /\ noted \in Seq(T \cup {n}) /\ n \in S \cup {n} /\ n \in T \cup {n}
    BY <2>1, <2>2
  <2>4. Append(printed, n) \in Seq(S \cup {n}) /\ Append(noted, n) \in Seq(T \cup {n})
    BY <2>3, AppendProperties
  <2>5. QED
    BY <1>2, <2>3, <2>4 DEF Tells, OutputType
<1>3. QED
  BY <1>1, <1>2

LEMMA ToldStays ==
  ASSUME OutputType, scan \in Scans, scan' = scan,
         (\E v \in BOOLEAN : \E n : Tells(v, n)) \/ UNCHANGED output,
         NEW i \in Plain, ToldAt(i)
  PROVE  ToldAt(i)'
<1>1. PICK S : printed \in Seq(S)
  BY DEF OutputType
<1>2. PICK T : noted \in Seq(T)
  BY DEF OutputType
<1>3. CASE UNCHANGED output
  BY <1>1, <1>2, <1>3, TellsMore DEF output
<1>4. ASSUME NEW v \in BOOLEAN, NEW n, Tells(v, n) PROVE ToldAt(i)'
  BY <1>1, <1>2, <1>4, TellsMore DEF Tells
<1>5. QED
  BY <1>3, <1>4

\* A name with a verdict of its own is counted and told by it.
LEMMA Decides ==
  ASSUME OutputType, scan \in Scans, scan' = scan, NEW q \in Nat, q + 1 \in Plain,
         Told(q), Counted(q), Tells(CleanAt(q + 1), scan.names[q + 1])
  PROVE  Told(q + 1)' /\ Counted(q + 1)'
<1> DEFINE v == CleanAt(q + 1)
           n == scan.names[q + 1]
<1>1. v \in BOOLEAN
  BY DEF CleanAt, Clean
<1>2. Plain' = Plain /\ (\A i : CleanAt(i)' = CleanAt(i)) /\ \A w : WithVerdict(q + 1, w)' = WithVerdict(q + 1, w)
  BY DEF Plain, CleanAt, Clean, WithVerdict
<1>3. \A w \in BOOLEAN :
        /\ Cardinality(WithVerdict(q, w)) \in Nat
        /\ Cardinality(WithVerdict(q + 1, w)) =
             IF w = v THEN Cardinality(WithVerdict(q, w)) + 1 ELSE Cardinality(WithVerdict(q, w))
  BY <1>1, VerdictGrows
<1>4. PICK S : printed \in Seq(S)
  BY DEF OutputType
<1>5. PICK T : noted \in Seq(T)
  BY DEF OutputType
<1>6. /\ Len(Append(printed, n)) = Len(printed) + 1 /\ Append(printed, n)[Len(printed) + 1] = n
      /\ Len(Append(noted, n)) = Len(noted) + 1 /\ Append(noted, n)[Len(noted) + 1] = n
  BY <1>4, <1>5
<1>7. Alike(q + 1) = Cardinality(WithVerdict(q + 1, v)) /\ Alike(q + 1)' = Alike(q + 1)
  BY <1>2 DEF Alike, WithVerdict
<1>8. Tells(v, n)
  OBVIOUS
<1>9. v' = v /\ n' = n
  BY <1>2
<1> HIDE DEF v
<1>10. ToldAt(q + 1)'
  <2>1. Alike(q + 1) = Len(Verdicts(v)) + 1
    BY <1>1, <1>3, <1>7 DEF Counted, Verdicts
  <2>2. Verdicts(v)' = Append(Verdicts(v), n)
    BY <1>1, <1>8, <1>9 DEF Tells, Verdicts
  <2>3. Len(Verdicts(v)) + 1 \in Nat /\ Len(Append(Verdicts(v), n)) = Len(Verdicts(v)) + 1
        /\ Append(Verdicts(v), n)[Len(Verdicts(v)) + 1] = n
    <3>1. Len(printed) \in Nat /\ Len(noted) \in Nat
      BY <1>4, <1>5
    <3>2. QED
      BY <1>1, <1>6, <3>1 DEF Verdicts
  <2>4. Alike(q + 1)' <= Len(Verdicts(v)') /\ Verdicts(v)'[Alike(q + 1)'] = n'
    BY <1>7, <1>9, <2>1, <2>2, <2>3
  <2>5. QED
    BY <1>9, <2>4 DEF ToldAt, v, Verdicts
<1>11. Told(q + 1)'
  <2>1. \A i \in Plain : i <= q + 1 => i <= q \/ i = q + 1
    BY NamesType
  <2>2. \E w \in BOOLEAN : \E m : Tells(w, m)
    BY <1>1, <1>8
  <2>3. QED
    BY <1>2, <1>10, <2>1, <2>2, ToldStays DEF Told
<1>12. Counted(q + 1)'
  <2>1. Len(printed') = Cardinality(WithVerdict(q + 1, TRUE)) /\ Len(noted') = Cardinality(WithVerdict(q + 1, FALSE))
    BY <1>1, <1>3, <1>6, <1>8 DEF Counted, Tells
  <2>2. QED
    BY <1>2, <2>1 DEF Counted
<1>13. QED
  BY <1>11, <1>12

\* A name that is skipped counts for nothing.
LEMMA Skips ==
  ASSUME scan \in Scans, UNCHANGED <<scan, output>>, NEW q \in Nat, q + 1 \notin Plain,
         Told(q), Counted(q)
  PROVE  Told(q + 1)' /\ Counted(q + 1)'
<1>1. \A w \in BOOLEAN : Cardinality(WithVerdict(q + 1, w)) = Cardinality(WithVerdict(q, w))
  BY VerdictGrows
<1>2. \A i \in Plain : i <= q + 1 => i <= q
  BY NamesType
<1>3. Told(q + 1) /\ Counted(q + 1)
  BY <1>1, <1>2 DEF Told, Counted
<1>4. Plain' = Plain /\ (\A i : CleanAt(i)' = CleanAt(i)) /\ \A w : WithVerdict(q + 1, w)' = WithVerdict(q + 1, w)
  BY DEF Plain, CleanAt, Clean, WithVerdict
<1>5. Counted(q + 1)'
  BY <1>3, <1>4 DEF Counted, output
<1>6. \A i : ToldAt(i) => ToldAt(i)'
  BY <1>4 DEF ToldAt, Alike, Verdicts, output
<1>7. QED
  BY <1>3, <1>4, <1>5, <1>6 DEF Told

\* The name at the head of those ahead.
LEMMA NextName ==
  ASSUME scan \in Scans, NEW p \in 0..Len(scan.names),
         todo = SubSeq(scan.names, p + 1, Len(scan.names)), todo # << >>
  PROVE  /\ p + 1 \in 1..Len(scan.names) /\ Head(todo) = scan.names[p + 1]
         /\ Tail(todo) = SubSeq(scan.names, (p + 1) + 1, Len(scan.names))
<1> DEFINE s == scan.names
<1>1. PICK S : s \in Seq(S)
  BY NamesType
<1>2. Len(s) \in Nat
  BY <1>1
<1> HIDE DEF s
<1>3. todo = SubSeq(s, p + 1, Len(s)) /\ p \in 0..Len(s)
  BY DEF s
<1>4. p < Len(s)
  BY <1>1, <1>2, <1>3
<1>5. s \in Seq(S) /\ p + 1 \in 1..Len(s) /\ Len(s) \in (p + 1)..Len(s)
  BY <1>1, <1>2, <1>3, <1>4 DEF s
<1>6. Head(todo) = s[p + 1] /\ Tail(todo) = SubSeq(s, (p + 1) + 1, Len(s))
  BY <1>3, <1>5, HeadTailOfSubSeq
<1>7. QED
  BY <1>5, <1>6 DEF s

LEMMA StepTells ==
  ScanNext => /\ scan' = scan /\ at # "end" /\ at' \in {"next", "chunk", "end"}
              /\ (\E v \in BOOLEAN : \E n : Tells(v, n)) \/ UNCHANGED output
<1> SUFFICES ASSUME ScanNext
             PROVE  /\ scan' = scan /\ at # "end" /\ at' \in {"next", "chunk", "end"}
                    /\ (\E v \in BOOLEAN : \E n : Tells(v, n)) \/ UNCHANGED output
  OBVIOUS
<1>1. CASE SkipName \/ OpenName \/ OpenStdin \/ ReadOn
  BY <1>1 DEF SkipName, OpenName, OpenStdin, ReadOn, ReadChunk, AtName
<1>2. CASE CannotOpen \/ FindNul \/ ReadError \/ PrintName
  <2>1. \E n : Note(n) \/ (printed' = Append(printed, n) /\ UNCHANGED noted)
    BY <1>2 DEF CannotOpen, FindNul, ReadError, PrintName
  <2>2. \E n : Tells(FALSE, n) \/ Tells(TRUE, n)
    BY <2>1 DEF Note, Tells
  <2>3. QED
    BY <1>2, <2>2 DEF CannotOpen, FindNul, ReadError, PrintName, ReadChunk, AtName
<1>3. CASE EndScan
  <2>1. Tells(FALSE, "-") \/ UNCHANGED output
    BY <1>3 DEF EndScan, Note, Tells
  <2>2. QED
    BY <1>3, <2>1 DEF EndScan
<1>4. QED
  BY <1>1, <1>2, <1>3 DEF ScanNext

\* A name is taken from the head of those ahead.
LEMMA TakesOne ==
  ASSUME scan \in Scans, OutputType, at = "next", NEW p \in 0..Len(scan.names), TakenTo(p),
         SkipName \/ CannotOpen \/ OpenName
  PROVE  p \in Nat /\ TakenTo(p + 1)' /\ p + 1 \in 1..Len(scan.names)
<1>1. Len(scan.names) \in Nat /\ p \in Nat /\ (p + 1) - 1 = p
  BY NamesType
<1>2. /\ todo # << >> /\ UNCHANGED <<scan, stdin>> /\ todo' = Tail(todo)
      /\ Head(todo) # "-" /\ (SkipName \/ (Head(todo) = "" => ~scan.listed))
  BY ScansOk DEF SkipName, CannotOpen, OpenName, AtName, stream
<1>3. /\ p + 1 \in 1..Len(scan.names) /\ Head(todo) = scan.names[p + 1]
      /\ Tail(todo) = SubSeq(scan.names, (p + 1) + 1, Len(scan.names))
  BY <1>2, NextName DEF TakenTo
<1>4. /\ \A j \in 1..(p + 1) : scan'.names[j] # "-"
      /\ todo' = SubSeq(scan'.names, (p + 1) + 1, Len(scan'.names))
      /\ stdin' = scan'.stdin
  <2>1. \A j \in 1..(p + 1) : j \in 1..p \/ j = p + 1
    BY <1>1
  <2>2. QED
    BY <1>2, <1>3, <2>1 DEF TakenTo
<1>5. ~SkipName => p + 1 \in Plain
  BY <1>2, <1>3, <1>4 DEF Plain
<1>6. Told(p) /\ Counted(p)
  BY DEF TakenTo
<1>7. CASE SkipName
  <2>1. p + 1 \notin Plain
    BY <1>3, <1>7 DEF SkipName, Plain
  <2>2. Told(p + 1)' /\ Counted(p + 1)'
    BY <1>1, <1>6, <1>7, <2>1, Skips DEF SkipName
  <2>3. at' = "next"
    BY <1>7 DEF SkipName
  <2>4. QED
    BY <1>1, <1>3, <1>4, <2>2, <2>3 DEF TakenTo
<1>8. CASE CannotOpen
  <2>1. ~CleanAt(p + 1) /\ p + 1 \in Plain /\ Tells(FALSE, scan.names[p + 1])
    BY <1>3, <1>5, <1>8 DEF CannotOpen, SkipName, AtName, CleanAt, Clean, Note, Tells
  <2>2. Told(p + 1)' /\ Counted(p + 1)'
    <3>1. CleanAt(p + 1) = FALSE
      BY <2>1 DEF CleanAt, Clean
    <3>2. Tells(CleanAt(p + 1), scan.names[p + 1])
      BY <2>1, <3>1
    <3>3. QED
      BY <1>1, <1>2, <1>6, <1>8, <2>1, <3>2, Decides
  <2>3. at' = "next"
    BY <1>8 DEF CannotOpen, AtName
  <2>4. QED
    BY <1>1, <1>3, <1>4, <2>2, <2>3 DEF TakenTo
<1>9. CASE OpenName
  <2>1. /\ Head(todo) \in DOMAIN scan.files /\ name' = Head(todo) /\ rest' = scan.files[Head(todo)]
        /\ at' = "chunk" /\ p + 1 \in Plain /\ UNCHANGED output
    BY <1>5, <1>9 DEF OpenName, SkipName, AtName
  <2>2. DOMAIN scan.files[Head(todo)] = {"bytes", "fails"} /\ \E S : scan.files[Head(todo)].bytes \in Seq(S)
    BY <2>1, ScansOk
  <2>3. InHand'
    BY <1>2, <2>1, <2>2 DEF InHand
  <2>4. Told(p)' /\ Counted(p)'
    <3>1. Plain' = Plain /\ (\A i : CleanAt(i)' = CleanAt(i)) /\ \A w : WithVerdict(p, w)' = WithVerdict(p, w)
      BY <1>2 DEF Plain, CleanAt, Clean, WithVerdict
    <3>2. \A i : ToldAt(i) => ToldAt(i)'
      BY <1>2, <2>1, <3>1 DEF ToldAt, Alike, Verdicts, output
    <3>3. QED
      BY <1>6, <2>1, <3>1, <3>2 DEF Told, Counted, output
  <2>5. (p + 1 \in Plain)' /\ name' = scan'.names[p + 1]
    BY <1>2, <1>3, <2>1 DEF Plain
  <2>6. QED
    BY <1>1, <1>3, <1>4, <2>1, <2>3, <2>4, <2>5 DEF TakenTo
<1>10. QED
  BY <1>1, <1>3, <1>7, <1>8, <1>9

\* What a chunk tells of the name in hand.
LEMMA ReadsOne ==
  ASSUME scan \in Scans, OutputType, at = "chunk", NEW p \in 0..Len(scan.names), TakenTo(p),
         ReadOn \/ FindNul \/ ReadError \/ PrintName
  PROVE  TakenTo(p)'
<1>1. Len(scan.names) \in Nat /\ p \in Nat /\ p - 1 \in Nat /\ (p - 1) + 1 = p /\ p \in 1..p
  <2>1. Len(scan.names) \in Nat /\ p \in 1..Len(scan.names)
    BY NamesType DEF TakenTo
  <2>2. QED
    BY <2>1
<1>2. /\ p \in Plain /\ name = scan.names[p] /\ InHand /\ Told(p - 1) /\ Counted(p - 1)
      /\ name # "-" /\ ReadChunk
  BY <1>1 DEF TakenTo, ReadOn, FindNul, ReadError, PrintName
<1>3. UNCHANGED <<scan, todo, name, stdin>>
  BY <1>2 DEF ReadChunk
<1>4. /\ \A j \in 1..p : scan'.names[j] # "-"
      /\ todo' = SubSeq(scan'.names, p + 1, Len(scan'.names))
      /\ stdin' = scan'.stdin
  BY <1>3 DEF TakenTo
<1>5. ASSUME Tells(CleanAt(p), name), at' = "next" PROVE TakenTo(p)'
  <2>1. Told(p)' /\ Counted(p)'
    <3>1. Told((p - 1) + 1)' /\ Counted((p - 1) + 1)'
      BY <1>1, <1>2, <1>3, <1>5, Decides
    <3>2. QED
      BY <1>1, <3>1
  <2>2. QED
    BY <1>4, <1>5, <2>1 DEF TakenTo
<1>6. CleanAt(p) <=> ~rest.fails /\ ~Contains(rest.bytes, NUL)
  BY <1>2 DEF CleanAt, Clean, InHand
<1>7. CASE FindNul \/ ReadError
  <2>1. ~CleanAt(p)
    BY <1>2, <1>6, <1>7, ChunkRead DEF FindNul, ReadError
  <2>2. CleanAt(p) = FALSE
    BY <2>1 DEF CleanAt, Clean
  <2>3. QED
    BY <1>5, <1>7, <2>2 DEF FindNul, ReadError, Note, Tells
<1>8. CASE PrintName
  <2>1. CleanAt(p)
    BY <1>2, <1>6, <1>8, ChunkRead DEF PrintName
  <2>2. CleanAt(p) = TRUE
    BY <2>1 DEF CleanAt, Clean
  <2>3. QED
    BY <1>5, <1>8, <2>2 DEF PrintName, Tells
<1>9. CASE ReadOn
  <2>1. InHand'
    BY <1>2, <1>3, <1>9, ChunkRead DEF ReadOn, InHand
  <2>2. Plain' = Plain /\ (\A i : CleanAt(i)' = CleanAt(i)) /\ \A w : WithVerdict(p - 1, w)' = WithVerdict(p - 1, w)
    BY <1>3 DEF Plain, CleanAt, Clean, WithVerdict
  <2>3. \A i : ToldAt(i) => ToldAt(i)'
    BY <1>3, <1>9, <2>2 DEF ReadOn, ToldAt, Alike, Verdicts, output
  <2>4. Told(p - 1)' /\ Counted(p - 1)'
    BY <1>2, <1>9, <2>2, <2>3 DEF ReadOn, Told, Counted, output
  <2>5. at' = "chunk"
    BY <1>9 DEF ReadOn
  <2>6. QED
    BY <1>2, <1>3, <1>4, <2>1, <2>2, <2>4, <2>5 DEF TakenTo
<1>10. QED
  BY <1>7, <1>8, <1>9

\* The two verdicts make up the names.
LEMMA BothVerdicts ==
  ASSUME scan \in Scans
  PROVE  /\ Cardinality(Plain) =
              Cardinality(WithVerdict(Len(scan.names), TRUE)) + Cardinality(WithVerdict(Len(scan.names), FALSE))
         /\ \A v \in BOOLEAN : Cardinality(WithVerdict(Len(scan.names), v)) \in Nat
<1> DEFINE N == Len(scan.names)
           A == WithVerdict(N, TRUE)
           B == WithVerdict(N, FALSE)
<1>1. N \in Nat /\ Plain \subseteq 1..N
  BY NamesType
<1>2. Plain = A \cup B /\ A \cap B = {} /\ A \subseteq 1..N /\ B \subseteq 1..N
  <2>1. \A j \in Plain : j <= N
    BY <1>1
  <2>2. QED
    BY <1>1, <2>1 DEF WithVerdict
<1> HIDE DEF A, B
<1>3. IsFiniteSet(A) /\ IsFiniteSet(B)
  <2>1. IsFiniteSet(1..N)
    BY <1>1, FS_Interval
  <2>2. QED
    BY <1>2, <2>1, FS_Subset
<1>4. Cardinality(A \cup B) = Cardinality(A) + Cardinality(B) - Cardinality(A \cap B)
  BY <1>3, FS_Union
<1>5. Cardinality(A \cap B) = 0 /\ Cardinality(A) \in Nat /\ Cardinality(B) \in Nat
  BY <1>2, <1>3, FS_EmptySet, FS_CardinalityType
<1>6. Cardinality(Plain) = Cardinality(A) + Cardinality(B)
  BY <1>2, <1>4, <1>5
<1>7. QED
  BY <1>5, <1>6 DEF A, B

\* Behind the last name everything is told and counted.
LEMMA EndTold ==
  ASSUME scan \in Scans, OutputType, NEW p \in 0..Len(scan.names), TakenTo(p), EndScan
  PROVE  ScanAccounts'
<1> DEFINE N == Len(scan.names)
<1>1. N \in Nat /\ Plain \subseteq 1..N
  BY NamesType
<1>2. PICK S : scan.names \in Seq(S)
  BY NamesType
<1>3. todo = << >> /\ at = "next" /\ UNCHANGED scan
  BY DEF EndScan
<1>4. p = N
  <2>1. Len(SubSeq(scan.names, p + 1, N)) = IF p + 1 <= N THEN N - (p + 1) + 1 ELSE 0
    BY <1>1, <1>2
  <2>2. Len(SubSeq(scan.names, p + 1, N)) = 0
    <3>1. SubSeq(scan.names, p + 1, N) = << >>
      BY <1>3 DEF TakenTo
    <3>2. Len(<< >>) = 0
      OBVIOUS
    <3>3. QED
      BY <3>1, <3>2
  <2>3. QED
    BY <1>1, <2>1, <2>2
<1>5. Told(N) /\ Counted(N)
  BY <1>3, <1>4 DEF TakenTo
<1>6. AllTold
  BY <1>1, <1>5 DEF Told, AllTold
<1>7. AllTold'
  <2>1. (\E v \in BOOLEAN : \E n : Tells(v, n)) \/ UNCHANGED output
    BY StepTells DEF ScanNext
  <2>2. Plain' = Plain
    BY <1>3 DEF Plain
  <2>3. QED
    BY <1>3, <1>6, <2>1, <2>2, ToldStays DEF AllTold
<1>8. Len(printed') + Len(noted') = Cardinality(Plain) + (IF scan.listed /\ scan.stdin.fails THEN 1 ELSE 0)
  <2>1. Len(printed) + Len(noted) = Cardinality(Plain) /\ Len(printed) \in Nat /\ Len(noted) \in Nat
    BY <1>5, BothVerdicts DEF Counted
  <2>2. stdin = scan.stdin
    BY DEF TakenTo
  <2>3. PICK T : noted \in Seq(T)
    BY DEF OutputType
  <2>4. Len(Append(noted, "-")) = Len(noted) + 1
    BY <2>3
  <2>5. CASE scan.listed /\ stdin.fails
    BY <2>1, <2>2, <2>4, <2>5 DEF EndScan, Note
  <2>6. CASE ~(scan.listed /\ stdin.fails)
    BY <2>1, <2>2, <2>6 DEF EndScan, output
  <2>7. QED
    BY <2>5, <2>6
<1>9. Plain' = Plain
  BY <1>3 DEF Plain
<1>10. \A i \in Plain' : ToldAt(i)'
  BY <1>7 DEF AllTold
<1>11. QED
  BY <1>3, <1>8, <1>9, <1>10 DEF ScanAccounts, ToldAt, Verdicts

\* From the first "-" on, nothing is lost.
LEMMA DashMet ==
  ASSUME scan \in Scans, at = "next", NEW p \in 0..Len(scan.names), TakenTo(p), OpenStdin
  PROVE  AllTold /\ \E j \in 1..Len(scan.names) : scan.names[j] = "-"
<1>1. Len(scan.names) \in Nat /\ Plain \subseteq 1..Len(scan.names) /\ p \in Nat
  BY NamesType
<1>2. todo # << >> /\ Head(todo) = "-"
  BY DEF OpenStdin, AtName
<1>3. p + 1 \in 1..Len(scan.names) /\ scan.names[p + 1] = "-"
  BY <1>2, NextName DEF TakenTo
<1>4. \A i \in Plain : i <= p
  <2>1. \A i \in Plain : ~(p + 1 \in 1..i)
    BY <1>3 DEF Plain
  <2>2. QED
    BY <1>1, <2>1
<1>5. QED
  BY <1>3, <1>4 DEF TakenTo, Told, AllTold

LEMMA ScanCountKeeps == ScanCount /\ [ScanNext]_scanVars => ScanCount'
<1> SUFFICES ASSUME ScanCount, [ScanNext]_scanVars PROVE ScanCount'
  OBVIOUS
<1>1. scan \in Scans /\ OutputType
  BY DEF ScanCount, OutputType
<1>2. CASE UNCHANGED scanVars
  <2>1. UNCHANGED <<scan, at, todo, name, rest, stdin, printed, noted>>
    BY <1>2 DEF scanVars, stream, output
  <2>2. Plain' = Plain /\ (\A i : CleanAt(i)' = CleanAt(i)) /\ \A q, w : WithVerdict(q, w)' = WithVerdict(q, w)
    BY <2>1 DEF Plain, CleanAt, Clean, WithVerdict
  <2>3. \A i : ToldAt(i)' <=> ToldAt(i)
    BY <2>1, <2>2 DEF ToldAt, Alike, Verdicts
  <2>4. /\ \A q : (Told(q)' <=> Told(q)) /\ (Counted(q)' <=> Counted(q))
        /\ (AllTold' <=> AllTold) /\ (InHand' <=> InHand)
    BY <2>1, <2>2, <2>3 DEF Told, Counted, AllTold, InHand
  <2>5. \A p : TakenTo(p)' <=> TakenTo(p)
    BY <2>1, <2>2, <2>4 DEF TakenTo
  <2>6. ScanAccounts' <=> ScanAccounts
    BY <2>1, <2>2 DEF ScanAccounts, Alike
  <2>7. QED
    BY <2>1, <2>4, <2>5, <2>6 DEF ScanCount
<1>3. CASE ScanNext
  <2>1. /\ scan' = scan /\ at # "end" /\ at' \in {"next", "chunk", "end"}
        /\ (\E v \in BOOLEAN : \E n : Tells(v, n)) \/ UNCHANGED output
    BY <1>3, StepTells
  <2>2. OutputType'
    BY <1>1, <2>1, TellsType
  <2>3. AllTold => AllTold'
    <3>1. Plain' = Plain
      BY <2>1 DEF Plain
    <3>2. QED
      BY <1>1, <2>1, <3>1, ToldStays DEF AllTold
  <2>4. CASE AllTold /\ \E j \in 1..Len(scan.names) : scan.names[j] = "-"
    BY <1>1, <2>1, <2>2, <2>3, <2>4 DEF ScanCount, OutputType
  <2>5. ASSUME NEW p \in 0..Len(scan.names), TakenTo(p) PROVE ScanCount'
    <3>1. ASSUME at' # "end", NEW q \in 0..Len(scan.names), TakenTo(q)' PROVE ScanCount'
      BY <1>1, <2>1, <2>2, <3>1 DEF ScanCount, OutputType
    <3>2. CASE SkipName \/ CannotOpen \/ OpenName
      <4>1. at = "next" /\ at' # "end"
        BY <3>2 DEF SkipName, CannotOpen, OpenName, AtName
      <4>2. p + 1 \in 0..Len(scan.names) /\ TakenTo(p + 1)'
        BY <1>1, <2>5, <3>2, <4>1, TakesOne
      <4>3. QED
        BY <3>1, <4>1, <4>2
    <3>3. CASE OpenStdin
      <4>1. at = "next"
        BY <3>3 DEF OpenStdin, AtName
      <4>2. AllTold /\ \E j \in 1..Len(scan.names) : scan.names[j] = "-"
        BY <1>1, <2>5, <3>3, <4>1, DashMet
      <4>3. QED
        BY <2>4, <4>2
    <3>4. CASE ReadOn \/ FindNul \/ ReadError \/ PrintName
      <4>1. at = "chunk" /\ at' # "end"
        BY <3>4 DEF ReadOn, FindNul, ReadError, PrintName, ReadChunk
      <4>2. TakenTo(p)'
        BY <1>1, <2>5, <3>4, <4>1, ReadsOne
      <4>3. QED
        BY <3>1, <4>1, <4>2
    <3>5. CASE EndScan
      <4>1. ScanAccounts' /\ at' = "end"
        BY <1>1, <2>5, <3>5, EndTold DEF EndScan
      <4>2. QED
        BY <1>1, <2>1, <2>2, <4>1 DEF ScanCount, OutputType
    <3>6. QED
      BY <1>3, <3>2, <3>3, <3>4, <3>5 DEF ScanNext
  <2>6. QED
    BY <2>1, <2>4, <2>5 DEF ScanCount
<1>4. QED
  BY <1>2, <1>3

LEMMA StartCount == ASSUME NEW s \in Scans, StartScan(s) PROVE ScanCount
<1>1. /\ scan = s /\ at = "next" /\ todo = s.names /\ stdin = s.stdin
      /\ printed = << >> /\ noted = << >>
  BY DEF StartScan
<1>2. scan \in Scans /\ Len(scan.names) \in Nat /\ Plain \subseteq 1..Len(scan.names)
  BY <1>1, NamesType
<1>3. << >> \in Seq({}) /\ Len(<< >>) = 0
  OBVIOUS
<1>4. todo = SubSeq(scan.names, 0 + 1, Len(scan.names))
  <2>1. PICK S : scan.names \in Seq(S)
    BY <1>2, NamesType
  <2>2. QED
    BY <1>1, <2>1, SubSeqFull
<1>5. \A v : WithVerdict(0, v) = {}
  <2>1. \A j \in Plain : ~(j <= 0)
    BY <1>2
  <2>2. QED
    BY <2>1 DEF WithVerdict
<1>6. Counted(0)
  BY <1>1, <1>3, <1>5, FS_EmptySet DEF Counted
<1>7. Told(0)
  BY <1>2 DEF Told
<1>8. TakenTo(0)
  BY <1>1, <1>4, <1>6, <1>7 DEF TakenTo
<1>9. QED
  BY <1>1, <1>2, <1>3, <1>8 DEF ScanCount

LEMMA CountAccounts == ScanCount => ScanAccounts
<1> SUFFICES ASSUME ScanCount, at = "end" PROVE ScanAccounts
  BY DEF ScanAccounts
<1>1. CASE AllTold /\ \E j \in 1..Len(scan.names) : scan.names[j] = "-"
  BY <1>1 DEF ScanAccounts, AllTold, ToldAt, Verdicts
<1>2. QED
  BY <1>1 DEF ScanCount

\* Every name before the first "-" gets the verdict of all of its file, once and
\* in order, wherever its chunks end (nullscan.c:15-88).
THEOREM ScanIsAccounted == ScanSpec => []ScanAccounts
<1>1. ScanInit => ScanCount
  BY StartCount DEF ScanInit
<1>2. QED
  BY <1>1, ScanCountKeeps, CountAccounts, PTL DEF ScanSpec

\* The same beside the dispatcher, behind the gate or not.
THEOREM ScanIsAccountedTogether == GateSpec => []ScanAccounts
<1>1. GateInit => ScanCount
  BY DrivesOk, StartCount DEF GateInit
<1>2. [GateNext]_gateVars => [ScanNext]_scanVars
  BY DEF GateNext, Scan, Call, Spawn, Shell, gateVars
<1>3. QED
  BY <1>1, <1>2, ScanCountKeeps, CountAccounts, PTL DEF GateSpec

-----------------------------------------------------------------------------
(* The dispatcher behind it. *)

GatedInv ==
  drive = "gated" =>
    /\ ScansOperands(scan, call) /\ ScanInv
    /\ pc = "started" => at = "end" /\ noted = << >>

LEMMA InitGated == GateInit => GatedInv
<1> SUFFICES ASSUME GateInit, drive = "gated" PROVE GatedInv
  BY DEF GatedInv
<1>0. PICK d \in Drives : \E s \in d.scans, c \in d.calls : drive = d.drive /\ StartScan(s) /\ Start(c)
  BY DEF GateInit
<1>1. PICK s \in d.scans, c \in d.calls : drive = d.drive /\ StartScan(s) /\ Start(c)
  BY <1>0
<1>2. scan = s /\ call = c /\ argv = c.argv /\ pc = "argv"
  BY <1>1 DEF StartScan, Start
<1>3. ScansOperands(scan, call) /\ s \in Scans
  BY <1>1, <1>2, DrivesOk
<1>4. ScanInv
  BY <1>1, <1>2, <1>3, StartScanInv DEF ScansOperands, Plainly
<1>5. QED
  BY <1>2, <1>3, <1>4 DEF GatedInv

LEMMA GatedKeeps == GatedInv /\ [GateNext]_gateVars => GatedInv'
<1> SUFFICES ASSUME GatedInv, [GateNext]_gateVars, drive' = "gated" PROVE GatedInv'
  BY DEF GatedInv
<1>1. /\ drive = "gated" /\ ScansOperands(scan, call) /\ ScanInv /\ Plainly
      /\ pc = "started" => at = "end" /\ noted = << >>
  BY DEF GatedInv, GateNext, Scan, Call, Spawn, Shell, gateVars, ScansOperands, Plainly
<1>2. CASE Scan
  <2>1. ScanInv'
    BY <1>1, <1>2, ScanKeeps DEF Scan
  <2>2. at # "end" /\ scan' = scan /\ UNCHANGED <<call, argv, pc>>
    BY <1>1, <1>2 DEF Scan, ScanNext, SkipName, CannotOpen, OpenName, OpenStdin, FindNul, ReadOn, ReadError,
                PrintName, EndScan, AtName, ReadChunk, vars
  <2>3. QED
    BY <1>1, <2>1, <2>2 DEF GatedInv
<1>3. CASE Call
  <2>1. Next /\ at = "end" /\ noted = << >> /\ UNCHANGED scanVars
    BY <1>1, <1>3 DEF Call, MayCall, Status
  <2>2. ScanInv' /\ UNCHANGED <<scan, at, noted>>
    BY <1>1, <2>1, ScanStays DEF scanVars, output
  <2>3. call' = call
    BY <2>1, ShiftsOnly
  <2>4. QED
    BY <1>1, <2>1, <2>2, <2>3 DEF GatedInv
<1>4. CASE UNCHANGED <<scanVars, vars>>
  <2>1. ScanInv' /\ UNCHANGED <<scan, at, noted, call, argv, pc>>
    BY <1>1, <1>4, ScanStays DEF scanVars, output, vars
  <2>2. QED
    BY <1>1, <2>1 DEF GatedInv
<1>5. QED
  BY <1>2, <1>3, <1>4 DEF GateNext, Spawn, Shell, gateVars

LEMMA GatedClean == AskedInv /\ GatedInv => GateHolds
<1> SUFFICES ASSUME AskedInv, GatedInv, drive = "gated", pc = "started", NEW i \in 1..Len(argv)
             PROVE  Clean(argv[i].value)
  BY DEF GateHolds
<1> DEFINE all == call.argv
<1>1. /\ ScansOperands(scan, call) /\ all \in Seq(ToSet(all))
      /\ \A k \in 1..Len(scan.names) : Clean(scan.names[k])
  BY ScanClears DEF GatedInv, AskedInv, CallOk
<1>2. PICK n \in 0..Len(all) :
        argv = SubSeq(all, n + 1, Len(all)) /\ (n = Len(all) \/ all[n + 1].name = None)
  BY DEF AskedInv, ShiftedTo, Shifted
<1>3. PICK S : all \in Seq(S)
  BY <1>1
<1>4. n + 1 \in 1..Len(all) /\ n + i \in 1..Len(all) /\ n + 1 <= n + i /\ argv[i] = all[n + i]
  <2> HIDE DEF all
  <2>1. QED
    BY <1>2, <1>3
<1>5. all[n + 1].name = None
  BY <1>2, <1>4
<1>6. \E k \in 1..Len(scan.names) : scan.names[k] = all[n + i].value
  BY <1>1, <1>4, <1>5 DEF ScansOperands
<1>7. QED
  BY <1>1, <1>4, <1>6

\* No implementation that is started behind the gate meets a NUL byte or a file
\* that cannot be read, for files and buffers of any size (nullscan.c:15-51,
\* native.just:164-169).
THEOREM GateKeepsNulOut == GateSpec => []GateHolds
<1>1. GateInit => AskedInv
  BY DrivesOk, StartAsked DEF GateInit
<1>2. QED
  BY <1>1, GateCalls, AskedKeeps, InitGated, GatedKeeps, GatedClean, PTL DEF GateSpec
-----------------------------------------------------------------------------
(* envfile.sh among files.  What lies under TMPDIR is bounded by what the   *)
(* operands finished may leave and by what the one being read may have had  *)
(* copied so far; which of them is removed depends on where the input is by *)
(* then: in place, in a copy, or nowhere.                                   *)

ShSteps == {"idle", "seed", "fill", "file", "nul", "bom", "crlf", "cont", "line", "copy", "move",
            "drop", "exit", "end", "delegated"}

Done == Len(given) - Len(operands)
Slurped == Count(Head(operands) = "-")

\* The copies there are, and those that may be left by the first n operands.
Lying == Temps \cap DOMAIN disk
MayLie(n) == Cardinality(MayStay(n))

BeforeCrlf == {"nul", "bom"}
BeforeCont == BeforeCrlf \cup {"crlf"}
BeforeLine == BeforeCont \cup {"cont"}

\* How many copies the stages so far make at most, and whether they make one.
Made ==
  Count(step \notin BeforeCrlf /\ sets.bom = "strip") + Count(step \notin BeforeCont /\ sets.crlf = "strip")
  + Count(step \notin BeforeLine /\ sets.cont = "accept")
CopiedYet(c) ==
  \/ step \notin BeforeCrlf /\ c.bom /\ sets.bom = "strip"
  \/ step \notin BeforeCont /\ c.crs /\ sets.crlf = "strip"
  \/ step \notin BeforeLine /\ sets.cont = "accept"

InPlace ==
  /\ Head(operands) # "-" /\ input = Head(operands)
  /\ step # "nul" => input \in DOMAIN shell.files \cap DOMAIN disk /\ ~CopiedYet(shell.files[input])
  /\ Cardinality(Lying) <= MayLie(Done)
InCopy ==
  /\ input \in Lying /\ tmp = input /\ Slurped + Made > 0
  /\ Cardinality(Lying) <= MayLie(Done) + (Slurped + Made)
Nowhere ==
  /\ input = "" /\ step # "nul" /\ Made > 0
  /\ Cardinality(Lying) < MayLie(Done) + (Slurped + Made)

Reading == step \in BeforeLine \cup {"line", "move"} \/ (step = "copy" /\ operands # <<>>)
Resting == step \in {"idle", "seed", "fill", "file", "exit"} \/ (step = "copy" /\ operands = <<>>)

\* What a run is given, and where it stands.
ShGiven ==
  /\ ShellOk(shell)
  /\ given \in Seq(ToSet(given)) /\ \A i \in 1..Len(given) : given[i] \notin Temps \cup {STORE, SPARE}
  /\ Done \in 0..Len(given) /\ operands = SubSeq(given, Done + 1, Len(given))
  /\ step \in ShSteps
  /\ (step = "idle" => given = <<>>) /\ (step = "exit" => operands = <<>>)
  /\ Reading \/ step = "drop" => operands # <<>>

FilesKept ==
  /\ DOMAIN disk \subseteq DOMAIN shell.files \cup Temps \cup {STORE, SPARE}
  /\ \A p \in DOMAIN shell.files :
       IF p \in DOMAIN disk THEN disk[p] = shell.files[p]
       ELSE p \in shell.intmp /\ Contains(given, p) /\ ~Copied(shell.files[p])

CopiesBounded ==
  /\ IsFiniteSet(Lying) /\ tmp \in Temps \cup {""}
  /\ Resting => Cardinality(Lying) <= MayLie(Done)
  /\ Reading => InPlace \/ InCopy \/ Nowhere
  /\ step = "drop" =>
       \/ Cardinality(Lying) <= MayLie(Done + 1)
       \/ Head(operands) = "-" /\ tmp \in Lying /\ Cardinality(Lying) <= MayLie(Done) + 1
  /\ step = "end" => {STORE, SPARE} \cap DOMAIN disk = {} /\ Cardinality(Lying) <= MayLie(Len(given))

ShInv == ShGiven /\ FilesKept /\ CopiesBounded

\* What the operands may leave, as numbers.
LEMMA MayLieType == ASSUME NEW n \in Nat PROVE IsFiniteSet(MayStay(n)) /\ MayLie(n) \in Nat
<1> DEFINE All == (1..n) \X (1..Passes)
<1>1. Passes \in 0..3
  BY DEF Passes, Count
<1>2. IsFiniteSet(1..n) /\ IsFiniteSet(1..Passes)
  BY <1>1, FS_Interval
<1>3. IsFiniteSet(All)
  BY <1>2, FS_Product
<1>4. MayStay(n) \in SUBSET All
  BY DEF MayStay
<1> HIDE DEF All
<1>5. QED
  BY <1>3, <1>4, FS_Subset, FS_CardinalityType DEF MayLie

LEMMA MayLieNone == MayLie(0) = 0
<1>1. MayStay(0) = {}
  BY DEF MayStay
<1>2. QED
  BY <1>1, FS_EmptySet DEF MayLie

LEMMA MayLieMonotone == ASSUME NEW n \in Nat, NEW m \in Nat, n <= m PROVE MayLie(n) <= MayLie(m)
<1>1. MayStay(n) \in SUBSET MayStay(m)
  BY DEF MayStay
<1>2. QED
  BY <1>1, MayLieType, FS_Subset DEF MayLie

LEMMA MayLieGrows ==
  ASSUME NEW n \in Nat
  PROVE  /\ given[n + 1] = "-" => MayLie(n + 1) = MayLie(n) + Passes
         /\ given[n + 1] # "-" /\ Passes > 0 => MayLie(n + 1) = MayLie(n) + Passes - 1
<1> DEFINE m == IF given[n + 1] = "-" THEN Passes ELSE Passes - 1
           New == {<<n + 1, k>> : k \in 1..m}
           f == [k \in 1..m |-> <<n + 1, k>>]
<1>1. SUFFICES ASSUME given[n + 1] = "-" \/ Passes > 0 PROVE MayLie(n + 1) = MayLie(n) + m
  BY MayLieType DEF Passes, Count
<1>2. m \in Nat
  BY <1>1 DEF Passes, Count
<1>3. f \in Bijection(1..m, New)
  <2>1. f \in [1..m -> New] /\ \A k, l \in 1..m : f[k] = f[l] => k = l
    OBVIOUS
  <2>2. \A t \in New : \E k \in 1..m : f[k] = t
    OBVIOUS
  <2> HIDE DEF f, New
  <2>3. QED
    BY <2>1, <2>2 DEF Bijection, Injection, Surjection, IsInjective
<1>4. IsFiniteSet(New) /\ Cardinality(New) = m
  <2> HIDE DEF m, New, f
  <2>1. IsFiniteSet(1..m) /\ Cardinality(1..m) = m
    BY <1>2, FS_Interval
  <2>2. ExistsBijection(1..m, New)
    BY <1>3 DEF ExistsBijection
  <2>3. QED
    BY <2>1, <2>2, FS_Bijection
<1>5. MayStay(n + 1) = MayStay(n) \cup New /\ MayStay(n) \cap New = {}
  BY DEF MayStay, Passes, Count
<1> HIDE DEF New, m
<1>6. IsFiniteSet(MayStay(n)) /\ Cardinality(MayStay(n)) \in Nat
  BY MayLieType DEF MayLie
<1> DEFINE Old == MayStay(n)
<1> HIDE DEF Old
<1>7. Cardinality(Old \cup New) = Cardinality(Old) + Cardinality(New) - 0
  BY <1>4, <1>5, <1>6, FS_Union, FS_EmptySet DEF Old
<1>8. MayLie(n) = Cardinality(Old) /\ MayLie(n + 1) = Cardinality(Old \cup New)
  BY <1>5 DEF MayLie, Old
<1> HIDE DEF f
<1>9. QED
  BY <1>2, <1>4, <1>6, <1>7, <1>8 DEF Old

-----------------------------------------------------------------------------
(* Steps on files. *)

LEMMA WrittenIs ==
  ASSUME NEW p, NEW c
  PROVE  /\ DOMAIN Written(p, c) = DOMAIN disk \cup {p} /\ Written(p, c)[p] = c
         /\ \A q \in DOMAIN disk : q # p => Written(p, c)[q] = disk[q]
BY DEF Written

LEMMA RemovedIs ==
  ASSUME NEW these
  PROVE  /\ DOMAIN Removed(these) = DOMAIN disk \ these
         /\ \A q \in DOMAIN disk \ these : Removed(these)[q] = disk[q]
BY DEF Removed, Restrict

\* Of the caller's files a step may remove one.
LEMMA FilesStay ==
  ASSUME FilesKept, UNCHANGED <<shell, sets, given>>,
         DOMAIN disk' \subseteq DOMAIN disk \cup Temps \cup {STORE, SPARE},
         \A p \in DOMAIN shell.files \cap DOMAIN disk :
           IF p \in DOMAIN disk' THEN disk'[p] = disk[p]
           ELSE p \in shell.intmp /\ Contains(given, p) /\ ~Copied(shell.files[p]),
         \A p \in DOMAIN shell.files : p \in DOMAIN disk' => p \in DOMAIN disk
  PROVE  FilesKept'
<1>1. \A c : Copied(c)' <=> Copied(c)
  BY DEF Copied
<1>2. QED
  BY <1>1 DEF FilesKept

LEMMA GivenStays ==
  ASSUME ShGiven, UNCHANGED <<shell, given, operands>>, step' \in ShSteps, step' # "idle" \/ step = "idle",
         step' = "exit" => operands = <<>>,
         (Reading \/ step = "drop")' => operands # <<>>
  PROVE  ShGiven'
BY DEF ShGiven, Done

LEMMA LiesFewer ==
  ASSUME IsFiniteSet(Lying), Lying' \subseteq Lying
  PROVE  IsFiniteSet(Lying') /\ Cardinality(Lying') <= Cardinality(Lying)
BY FS_Subset

LEMMA NumbersSame ==
  ASSUME UNCHANGED <<sets, given, operands>>
  PROVE  Slurped' = Slurped /\ Done' = Done /\ Passes' = Passes /\ \A n : MayLie(n)' = MayLie(n)
BY DEF Slurped, Done, MayLie, MayStay, Passes, Count

-----------------------------------------------------------------------------
(* The steps of envfile.sh keep the invariant. *)

LEMMA AtOperand ==
  ASSUME ShGiven, operands # <<>>
  PROVE  /\ Done \in Nat /\ Done + 1 \in 1..Len(given) /\ Head(operands) = given[Done + 1]
         /\ Head(operands) \notin Temps \cup {STORE, SPARE} /\ Contains(given, Head(operands))
         /\ Tail(operands) = SubSeq(given, (Done + 1) + 1, Len(given))
         /\ Len(given) - Len(Tail(operands)) = Done + 1
<1> DEFINE S == ToSet(given)
           d == Done
           m == Len(given)
<1>1. /\ given \in Seq(S) /\ \A i \in 1..m : given[i] \notin Temps \cup {STORE, SPARE}
      /\ d \in 0..m /\ operands = SubSeq(given, d + 1, m) /\ m \in Nat
  BY DEF ShGiven
<1> HIDE DEF S, d
<1>2. Len(operands) = m - d /\ Len(operands) > 0 /\ d + 1 \in 1..m /\ Head(operands) = given[d + 1]
  BY <1>1
<1>3. Tail(operands) = SubSeq(given, (d + 1) + 1, m) /\ Len(Tail(operands)) = m - (d + 1)
  BY <1>1, <1>2
<1>4. Contains(given, Head(operands))
  BY <1>2 DEF Contains
<1>5. QED
  BY <1>1, <1>2, <1>3, <1>4 DEF d

LEMMA NumberTypes ==
  /\ Made \in 0..3 /\ Slurped \in 0..1 /\ Passes \in 0..3
  /\ step \notin BeforeLine => Made = Passes
  /\ step = "nul" => Made = 0
BY DEF Made, Slurped, Passes, Count, BeforeLine, BeforeCont, BeforeCrlf

\* The files apart, no file is where a copy or the store may be.
LEMMA Apart ==
  ASSUME ShGiven
  PROVE  DOMAIN shell.files \cap (Temps \cup {STORE, SPARE, ""}) = {} /\ Temps \cap {STORE, SPARE, ""} = {}
BY TempsApart DEF ShGiven, ShellOk

\* Where the input is does not change while records are read.
LEMMA PlaceStays ==
  ASSUME UNCHANGED <<shell, sets, given, operands, paths>>, Lying' = Lying,
         input \in DOMAIN disk /\ input \in DOMAIN shell.files => input \in DOMAIN disk',
         step' = step \/ {step, step'} \subseteq {"line", "copy", "move"}
  PROVE  /\ InPlace => InPlace'
         /\ InCopy => InCopy'
         /\ Nowhere => Nowhere'
<1>1. Made' = Made /\ (\A c : CopiedYet(c)' <=> CopiedYet(c))
  BY DEF Made, CopiedYet, Count, BeforeLine, BeforeCont, BeforeCrlf
<1>2. UNCHANGED <<input, tmp>> /\ (step' = "nul" <=> step = "nul")
  BY DEF paths
<1>3. QED
  BY <1>1, <1>2, NumbersSame DEF InPlace, InCopy, Nowhere

\* A step that writes and removes nothing but the store.
LEMMA StoreKeeps ==
  ASSUME ShInv, UNCHANGED <<shell, sets, given, operands, paths>>,
         DOMAIN disk' \subseteq DOMAIN disk \cup {STORE, SPARE},
         \A q \in DOMAIN disk \ {STORE, SPARE} : q \in DOMAIN disk' /\ disk'[q] = disk[q],
         \/ step' = step /\ step # "end"
         \/ {step, step'} \subseteq {"line", "copy", "move"} /\ operands # <<>>
         \/ Resting /\ Resting' /\ step' # "idle" /\ (step' = "exit" => operands = <<>>)
  PROVE  ShInv'
<1> USE DEF ShInv
<1>1. Lying' = Lying
  BY Apart DEF Lying
<1>2. FilesKept'
  BY Apart, FilesStay
<1>3. ShGiven'
  <2>1. step' \in ShSteps
    BY DEF ShGiven, ShSteps, Resting
  <2>2. (Reading \/ step = "drop")' => operands # <<>>
    BY DEF ShGiven, Reading, Resting, BeforeLine, BeforeCont, BeforeCrlf
  <2>3. (step' # "idle" \/ step = "idle") /\ (step' = "exit" => operands = <<>>)
    BY DEF ShGiven
  <2>4. QED
    BY <2>1, <2>2, <2>3, GivenStays
<1>4. UNCHANGED <<input, tmp>>
  BY DEF paths
<1>5. Reading' => (InPlace \/ InCopy \/ Nowhere)'
  <2> SUFFICES ASSUME Reading' PROVE (InPlace \/ InCopy \/ Nowhere)'
    OBVIOUS
  <2>1. Reading /\ (step' = step \/ {step, step'} \subseteq {"line", "copy", "move"})
    BY DEF Reading, Resting, BeforeLine, BeforeCont, BeforeCrlf
  <2>2. InPlace \/ InCopy \/ Nowhere
    BY <2>1 DEF CopiesBounded
  <2>3. input \in DOMAIN disk /\ input \in DOMAIN shell.files => input \in DOMAIN disk'
    BY Apart
  <2>4. QED
    BY <1>1, <2>1, <2>2, <2>3, PlaceStays
<1>6. CopiesBounded'
  <2>1. (step' = step /\ step # "end") \/ step' \in {"line", "copy", "move"} \/ Resting'
    OBVIOUS
  <2>2. Resting' => Resting
    BY DEF Resting
  <2>3. step' = "drop" => step = "drop"
    BY DEF Resting
  <2>4. step' # "end"
    BY DEF Resting
  <2>5. QED
    BY <1>1, <1>4, <1>5, <2>2, <2>3, <2>4, NumbersSame DEF CopiesBounded
<1>7. QED
  BY <1>2, <1>3, <1>6

LEMMA ExitKeeps ==
  ASSUME ShInv, NEW status, End(status), Resting
  PROVE  ShInv'
<1> USE DEF ShInv
<1>1. UNCHANGED <<shell, sets, given, operands, input, tmp>> /\ step' = "end" /\ disk' = Removed({STORE, SPARE})
  BY DEF End, paths
<1>2. DOMAIN disk' = DOMAIN disk \ {STORE, SPARE} /\ \A q \in DOMAIN disk' : disk'[q] = disk[q]
  BY <1>1, RemovedIs
<1>3. Lying' = Lying
  BY <1>2, Apart DEF Lying
<1>4. FilesKept'
  BY <1>1, <1>2, Apart, FilesStay
<1>5. ShGiven'
  BY <1>1, GivenStays DEF ShSteps, Reading, BeforeLine, BeforeCont, BeforeCrlf
<1>6. MayLie(Done) <= MayLie(Len(given)) /\ MayLie(Done) \in Nat /\ MayLie(Len(given)) \in Nat
  <2>1. Done \in Nat /\ Len(given) \in Nat /\ Done <= Len(given)
    BY DEF ShGiven
  <2>2. QED
    BY <2>1, MayLieMonotone, MayLieType
<1>7. Cardinality(Lying) \in Nat /\ Cardinality(Lying) <= MayLie(Done) /\ IsFiniteSet(Lying)
  BY FS_CardinalityType DEF CopiesBounded
<1>8. Cardinality(Lying') <= MayLie(Len(given))'
  BY <1>1, <1>3, <1>6, <1>7, NumbersSame
<1>9. CopiesBounded'
  BY <1>1, <1>2, <1>3, <1>7, <1>8 DEF CopiesBounded, Resting, Reading, BeforeLine, BeforeCont, BeforeCrlf
<1>10. QED
  BY <1>4, <1>5, <1>9

\* The numbers of the invariant, while an operand is left.
LEMMA NumbersAt ==
  ASSUME ShInv, operands # <<>>
  PROVE  /\ Done \in Nat /\ MayLie(Done) \in Nat /\ MayLie(Done + 1) \in Nat /\ MayLie(Done) <= MayLie(Done + 1)
         /\ Slurped = 1 => MayLie(Done + 1) = MayLie(Done) + Passes
         /\ Slurped = 0 /\ Passes > 0 => MayLie(Done + 1) = MayLie(Done) + Passes - 1
         /\ Slurped = 1 <=> Head(operands) = "-"
         /\ Made \in Nat /\ Slurped \in 0..1 /\ Passes \in Nat
         /\ IsFiniteSet(Lying) /\ Cardinality(Lying) \in Nat
<1> DEFINE d == Done
           e == d + 1
<1>1. d \in Nat /\ e \in Nat /\ d <= e /\ Head(operands) = given[e]
  BY AtOperand DEF ShInv
<1>2. /\ given[e] = "-" => MayLie(e) = MayLie(d) + Passes
      /\ given[e] # "-" /\ Passes > 0 => MayLie(e) = MayLie(d) + Passes - 1
  <2> HIDE DEF d
  <2>1. QED
    BY <1>1, MayLieGrows
<1>3. MayLie(d) \in Nat /\ MayLie(e) \in Nat /\ MayLie(d) <= MayLie(e)
  <2> HIDE DEF d, e
  <2>1. QED
    BY <1>1, MayLieType, MayLieMonotone
<1>4. Made \in Nat /\ Slurped \in 0..1 /\ Passes \in Nat /\ (Slurped = 1 <=> Head(operands) = "-")
  BY NumberTypes DEF Slurped, Count
<1>5. IsFiniteSet(Lying) /\ Cardinality(Lying) \in Nat
  BY FS_CardinalityType DEF ShInv, CopiesBounded
<1> HIDE DEF d, e
<1>6. /\ Slurped = 1 => MayLie(e) = MayLie(d) + Passes
      /\ Slurped = 0 /\ Passes > 0 => MayLie(e) = MayLie(d) + Passes - 1
  BY <1>1, <1>2, <1>4
<1>7. QED
  BY <1>1, <1>3, <1>4, <1>5, <1>6 DEF d, e

LEMMA OpenKeeps == ASSUME ShInv, OpenFile PROVE ShInv'
<1> USE DEF ShInv
<1>1. /\ step = "file" /\ operands # <<>> /\ Head(operands) # "-" /\ input' = Head(operands) /\ step' = "nul"
      /\ UNCHANGED <<shell, sets, given, operands, disk, tmp>>
  BY DEF OpenFile
<1>2. Lying' = Lying
  BY <1>1 DEF Lying
<1>3. FilesKept'
  BY <1>1, FilesStay
<1>4. ShGiven'
  BY <1>1, GivenStays DEF ShSteps
<1>5. Cardinality(Lying) <= MayLie(Done)
  BY <1>1 DEF CopiesBounded, Resting
<1>6. InPlace'
  BY <1>1, <1>2, <1>5, NumbersSame DEF InPlace
<1>7. CopiesBounded'
  BY <1>1, <1>2, <1>6 DEF CopiesBounded, Resting
<1>8. QED
  BY <1>3, <1>4, <1>7

\* A copy is made under a name that is not there.
LEMMA FreshCopy ==
  ASSUME ShInv, IsFresh, NEW c, disk' = Written(Fresh, c), UNCHANGED <<shell, sets, given>>
  PROVE  /\ Fresh \in Temps /\ Fresh \in Lying' /\ FilesKept'
         /\ IsFiniteSet(Lying') /\ Cardinality(Lying') = Cardinality(Lying) + 1
<1> USE DEF ShInv
<1>1. Fresh \in Temps /\ Fresh \notin DOMAIN disk
  BY DEF Fresh, IsFresh
<1>2. DOMAIN disk' = DOMAIN disk \cup {Fresh} /\ \A q \in DOMAIN disk : disk'[q] = disk[q]
  <2> DEFINE t == Fresh
             new == Written(t, c)
  <2>1. t \notin DOMAIN disk /\ disk' = new
    BY <1>1
  <2> HIDE DEF t
  <2>2. DOMAIN new = DOMAIN disk \cup {t} /\ \A q \in DOMAIN disk : q # t => new[q] = disk[q]
    BY DEF Written
  <2>3. \A q \in DOMAIN disk : q # t
    BY <2>1
  <2> HIDE DEF new
  <2>4. DOMAIN disk' = DOMAIN disk \cup {t} /\ \A q \in DOMAIN disk : disk'[q] = disk[q]
    BY <2>1, <2>2, <2>3
  <2>5. QED
    BY <2>4 DEF t
<1>3. Lying' = Lying \cup {Fresh} /\ Fresh \notin Lying
  BY <1>1, <1>2 DEF Lying
<1>4. FilesKept'
  BY <1>1, <1>2, Apart, FilesStay
<1>5. IsFiniteSet(Lying)
  BY DEF CopiesBounded
<1>6. QED
  BY <1>1, <1>3, <1>4, <1>5, FS_AddElement

LEMMA SlurpKeeps == ASSUME ShInv, SlurpStdin PROVE ShInv'
<1> USE DEF ShInv
<1>1. /\ step = "file" /\ operands # <<>> /\ Head(operands) = "-" /\ IsFresh /\ disk' = Written(Fresh, piped)
      /\ input' = Fresh /\ tmp' = Fresh /\ step' = "nul" /\ UNCHANGED <<shell, sets, given, operands>>
  BY DEF SlurpStdin
<1>2. /\ Fresh \in Temps /\ Fresh \in Lying' /\ FilesKept'
      /\ IsFiniteSet(Lying') /\ Cardinality(Lying') = Cardinality(Lying) + 1
  BY <1>1, FreshCopy
<1>3. ShGiven'
  BY <1>1, GivenStays DEF ShSteps
<1>4. Cardinality(Lying) <= MayLie(Done) /\ Cardinality(Lying) \in Nat
  BY <1>1, FS_CardinalityType DEF CopiesBounded, Resting
<1>5. Slurped' = 1 /\ Made' = 0
  BY <1>1, NumberTypes DEF Slurped, Count, Made, BeforeLine, BeforeCont, BeforeCrlf
<1>6. MayLie(Done)' = MayLie(Done) /\ MayLie(Done) \in Nat
  BY <1>1, NumbersSame, MayLieType, AtOperand
<1>7. InCopy'
  BY <1>1, <1>2, <1>4, <1>5, <1>6 DEF InCopy
<1>8. CopiesBounded'
  BY <1>1, <1>2, <1>7 DEF CopiesBounded, Resting
<1>9. QED
  BY <1>2, <1>3, <1>8

LEMMA RejectKeeps == ASSUME ShInv, RejectInput PROVE ShInv'
<1> USE DEF ShInv
<1>1. /\ step \in {"nul", "bom"} /\ step' = "drop"
      /\ UNCHANGED <<shell, sets, given, operands, disk, input, tmp>>
  BY DEF RejectInput, paths
<1>2. Lying' = Lying /\ Reading
  BY <1>1 DEF Lying, Reading, BeforeLine, BeforeCont, BeforeCrlf
<1>3. FilesKept'
  BY <1>1, FilesStay
<1>4. operands # <<>>
  BY <1>2 DEF ShGiven
<1>5. ShGiven'
  BY <1>1, <1>4, GivenStays DEF ShSteps
<1>6. /\ Done \in Nat /\ MayLie(Done) \in Nat /\ MayLie(Done + 1) \in Nat /\ MayLie(Done) <= MayLie(Done + 1)
      /\ Cardinality(Lying) \in Nat
  BY <1>4, NumbersAt
<1>7. Made = 0 /\ Slurped = Count(Head(operands) = "-")
  BY <1>1 DEF Made, Count, BeforeLine, BeforeCont, BeforeCrlf, Slurped
<1>8. InPlace \/ InCopy
  <2>1. InPlace \/ InCopy \/ Nowhere
    BY <1>2 DEF CopiesBounded
  <2>2. ~Nowhere
    BY <1>7 DEF Nowhere
  <2>3. QED
    BY <2>1, <2>2
<1>9. \/ Cardinality(Lying) <= MayLie(Done + 1)
      \/ Head(operands) = "-" /\ tmp \in Lying /\ Cardinality(Lying) <= MayLie(Done) + 1
  <2>1. CASE InPlace
    BY <1>6, <2>1 DEF InPlace
  <2>2. CASE InCopy
    BY <1>6, <1>7, <2>2 DEF InCopy, Count
  <2>3. QED
    BY <1>8, <2>1, <2>2
<1>10. CopiesBounded'
  BY <1>1, <1>2, <1>9, NumbersSame DEF CopiesBounded, Resting, Reading, BeforeLine, BeforeCont, BeforeCrlf
<1>11. QED
  BY <1>3, <1>5, <1>10

\* A file that was opened and found is one of the caller's.
LEMMA PlaceIsFile ==
  ASSUME ShInv, InPlace, operands # <<>>, input \in DOMAIN disk
  PROVE  input \in DOMAIN shell.files /\ Content = shell.files[input]
<1>1. input \in DOMAIN shell.files
  BY AtOperand DEF ShInv, InPlace, FilesKept
<1>2. QED
  BY <1>1 DEF ShInv, FilesKept, Content

LEMMA StageMakes ==
  ASSUME step \in DOMAIN Stage, step' = Stage[step], UNCHANGED sets
  PROVE  /\ Made' >= Made /\ (Copies => Made' = Made + 1)
         /\ step' \in ShSteps \ {"nul"} /\ Reading /\ Reading' /\ ~Resting /\ ~Resting'
         /\ \A c : ~CopiedYet(c) /\ Content = c /\ ~Copies => ~CopiedYet(c)'
<1>1. step \in {"nul", "bom", "crlf", "cont"} /\ step' = IF step = "nul" THEN "bom" ELSE IF step = "bom" THEN "crlf"
        ELSE IF step = "crlf" THEN "cont" ELSE "line"
  BY DEF Stage
<1> USE DEF BeforeLine, BeforeCont, BeforeCrlf
<1>2. Made' >= Made /\ (Copies => Made' = Made + 1)
  BY <1>1 DEF Made, Copies, Count
<1>3. \A c : ~CopiedYet(c) /\ Content = c /\ ~Copies => ~CopiedYet(c)'
  BY <1>1 DEF CopiedYet, Copies
<1>4. QED
  BY <1>1, <1>2, <1>3 DEF ShSteps, Reading, Resting

LEMMA PassOverKeeps == ASSUME ShInv, PassOver PROVE ShInv'
<1> USE DEF ShInv
<1>1. /\ step \in DOMAIN Stage /\ step' = Stage[step] /\ ~Copies
      /\ step = "nul" => input \in DOMAIN disk
      /\ UNCHANGED <<shell, sets, given, operands, disk, input, tmp>>
  BY DEF PassOver, paths
<1>2. /\ Made' >= Made /\ step' \in ShSteps \ {"nul"} /\ Reading /\ Reading' /\ ~Resting'
      /\ \A c : ~CopiedYet(c) /\ Content = c => ~CopiedYet(c)'
  BY <1>1, StageMakes
<1>3. Lying' = Lying
  BY <1>1 DEF Lying
<1>4. FilesKept'
  BY <1>1, FilesStay
<1>5. operands # <<>> /\ Done \in Nat /\ MayLie(Done) \in Nat /\ Cardinality(Lying) \in Nat
  BY <1>2, NumbersAt DEF ShGiven
<1>6. step' # "drop" /\ step' # "end"
  BY <1>1 DEF Stage
<1>7. ShGiven'
  BY <1>1, <1>2, <1>5, <1>6, GivenStays DEF Resting
<1>8. InPlace => InPlace'
  <2> SUFFICES ASSUME InPlace PROVE InPlace'
    OBVIOUS
  <2>1. input \in DOMAIN disk
    BY <1>1 DEF InPlace
  <2>2. input \in DOMAIN shell.files /\ Content = shell.files[input]
    BY <1>5, <2>1, PlaceIsFile
  <2>3. ~CopiedYet(shell.files[input])
    BY DEF InPlace, CopiedYet, BeforeLine, BeforeCont, BeforeCrlf
  <2>4. ~CopiedYet(shell.files[input])'
    BY <1>1, <1>2, <2>2, <2>3 DEF CopiedYet
  <2>5. QED
    BY <1>1, <1>3, <2>1, <2>2, <2>4, NumbersSame DEF InPlace
<1>9. Made \in Nat /\ Made' \in Nat /\ Slurped \in Nat /\ Slurped' = Slurped /\ MayLie(Done)' = MayLie(Done)
  <2>1. Made' \in Nat
    BY DEF Made, Count
  <2>2. QED
    BY <1>1, <2>1, NumberTypes, NumbersSame
<1>10. /\ Slurped + Made > 0 => Slurped' + Made' > 0
       /\ Made > 0 => Made' > 0
       /\ (MayLie(Done) + (Slurped + Made))' >= MayLie(Done) + (Slurped + Made)
  <2> DEFINE m == MayLie(Done)
             s == Slurped
             k == Made
  <2>1. /\ m \in Nat /\ m' = m /\ s \in Nat /\ s' = s /\ k \in Nat /\ k' \in Nat /\ k' >= k
        /\ m' \in Nat /\ s' \in Nat
    BY <1>2, <1>5, <1>9
  <2>4. \A x, y, z, w \in Nat :
          w >= z => (y + z > 0 => y + w > 0) /\ (z > 0 => w > 0) /\ x + (y + w) >= x + (y + z)
    OBVIOUS
  <2> HIDE DEF m, s, k
  <2>2. (s + k > 0 => s' + k' > 0) /\ (k > 0 => k' > 0) /\ m' + (s' + k') >= m + (s + k)
    BY <2>1, <2>4
  <2>3. QED
    BY <2>2 DEF m, s, k
<1>11. Cardinality(Lying)' = Cardinality(Lying)
  BY <1>3
<1> DEFINE b == MayLie(Done) + (Slurped + Made)
<1>14. b \in Nat /\ b' \in Nat /\ b' >= b
  BY <1>5, <1>9, <1>10
<1>12. (InCopy => InCopy') /\ (Nowhere => Nowhere')
  <2>1. Cardinality(Lying) <= b => Cardinality(Lying)' <= b'
    <3> HIDE DEF b
    <3>1. QED
      BY <1>5, <1>11, <1>14
  <2>2. Cardinality(Lying) < b => Cardinality(Lying)' < b'
    <3> HIDE DEF b
    <3>1. QED
      BY <1>5, <1>11, <1>14
  <2>3. InCopy => InCopy'
    BY <1>1, <1>3, <1>10, <2>1 DEF InCopy
  <2>4. Nowhere => Nowhere'
    BY <1>1, <1>2, <1>10, <2>2 DEF Nowhere
  <2>5. QED
    BY <2>3, <2>4
<1>13. CopiesBounded'
  BY <1>1, <1>2, <1>3, <1>6, <1>8, <1>12 DEF CopiesBounded
<1>15. QED
  BY <1>4, <1>7, <1>13

\* The copies before a stage that makes one.
LEMMA BeforeCopy ==
  ASSUME ShInv, Copies, step' = Stage[step], UNCHANGED <<shell, sets, given, operands>>
  PROVE  /\ step \in DOMAIN Stage /\ Cardinality(Lying) \in Nat /\ MayLie(Done)' \in Nat /\ Slurped' \in Nat /\ Made' \in Nat
         /\ Cardinality(Lying) < MayLie(Done)' + (Slurped' + Made') /\ Made' > 0
         /\ step' \in ShSteps \ {"nul", "drop", "end"} /\ Reading' /\ ~Resting' /\ ShGiven'
<1> USE DEF ShInv
<1>1. step \in DOMAIN Stage
  BY DEF Copies, Stage
<1>2. Made' = Made + 1 /\ step' \in ShSteps \ {"nul"} /\ Reading /\ Reading' /\ ~Resting'
  BY <1>1, StageMakes
<1>3. step' # "drop" /\ step' # "end"
  BY <1>1 DEF Stage
<1>4. operands # <<>> /\ Done \in Nat /\ MayLie(Done) \in Nat /\ Cardinality(Lying) \in Nat
  BY <1>2, NumbersAt DEF ShGiven
<1>5. ShGiven'
  BY <1>2, <1>3, <1>4, GivenStays DEF Resting
<1>6. Made \in Nat /\ Slurped \in Nat /\ Slurped' = Slurped /\ MayLie(Done)' = MayLie(Done)
  BY NumberTypes, NumbersSame
<1>7. Cardinality(Lying) <= MayLie(Done) + (Slurped + Made)
  <2>1. InPlace \/ InCopy \/ Nowhere
    BY <1>2 DEF CopiesBounded
  <2>2. CASE InPlace
    BY <1>4, <1>6, <2>2 DEF InPlace
  <2>3. CASE InCopy
    BY <2>3 DEF InCopy
  <2>4. CASE Nowhere
    <3>1. Cardinality(Lying) < MayLie(Done) + (Slurped + Made)
      BY <2>4 DEF Nowhere
    <3>2. MayLie(Done) + (Slurped + Made) \in Nat
      BY <1>4, <1>6
    <3>3. QED
      BY <1>4, <3>1, <3>2
  <2>5. QED
    BY <2>1, <2>2, <2>3, <2>4
<1>8. QED
  BY <1>1, <1>2, <1>3, <1>4, <1>5, <1>6, <1>7

LEMMA CopyKeeps == ASSUME ShInv, Copy PROVE ShInv'
<1>1. /\ Copies /\ IsFresh /\ tmp' = Fresh /\ input' = Fresh /\ step' = Stage[step]
      /\ disk' = Written(Fresh, IF step = "bom" THEN [Content EXCEPT !.bom = FALSE] ELSE Content)
      /\ UNCHANGED <<shell, sets, given, operands>>
  BY DEF Copy
<1>2. /\ Fresh \in Temps /\ Fresh \in Lying' /\ FilesKept'
      /\ IsFiniteSet(Lying') /\ Cardinality(Lying') = Cardinality(Lying) + 1
  BY <1>1, FreshCopy
<1>3. /\ Cardinality(Lying) \in Nat /\ MayLie(Done)' \in Nat /\ Slurped' \in Nat /\ Made' \in Nat
      /\ Cardinality(Lying) < MayLie(Done)' + (Slurped' + Made') /\ Made' > 0
      /\ step' \in ShSteps \ {"nul", "drop", "end"} /\ Reading' /\ ~Resting' /\ ShGiven'
  BY <1>1, BeforeCopy
<1>4. InCopy'
  BY <1>1, <1>2, <1>3 DEF InCopy
<1>5. QED
  BY <1>1, <1>2, <1>3, <1>4 DEF ShInv, CopiesBounded

LEMMA CopyNowhereKeeps == ASSUME ShInv, CopyNowhere PROVE ShInv'
<1>1. /\ Copies /\ tmp' = "" /\ input' = "" /\ step' = Stage[step]
      /\ UNCHANGED <<shell, sets, given, operands, disk>>
  BY DEF CopyNowhere
<1>2. Lying' = Lying
  BY <1>1 DEF Lying
<1>3. FilesKept'
  BY <1>1, FilesStay DEF ShInv
<1>4. /\ Cardinality(Lying) < MayLie(Done)' + (Slurped' + Made') /\ Made' > 0
      /\ step' \in ShSteps \ {"nul", "drop", "end"} /\ Reading' /\ ~Resting' /\ ShGiven'
  BY <1>1, BeforeCopy
<1>5. Nowhere'
  BY <1>1, <1>2, <1>4 DEF Nowhere
<1>6. QED
  BY <1>1, <1>2, <1>3, <1>4, <1>5 DEF ShInv, CopiesBounded

LEMMA CleanUpKeeps == ASSUME ShInv, CleanUp PROVE ShInv'
<1> USE DEF ShInv
<1>1. /\ step = "line" /\ step' = "drop" /\ UNCHANGED <<shell, sets, given, operands, input, tmp>>
      /\ disk' = IF InTmp(input) THEN Removed({input}) ELSE disk
  BY DEF CleanUp, paths
<1>2. Reading /\ operands # <<>>
  BY <1>1 DEF Reading, ShGiven
<1>3. /\ DOMAIN disk' = IF InTmp(input) THEN DOMAIN disk \ {input} ELSE DOMAIN disk
      /\ \A q \in DOMAIN disk' : disk'[q] = disk[q]
  BY <1>1, RemovedIs
<1>4. Contains(given, Head(operands))
  BY <1>2, AtOperand
<1>5. /\ MayLie(Done) \in Nat /\ MayLie(Done + 1) \in Nat /\ MayLie(Done) <= MayLie(Done + 1)
      /\ Slurped = 1 => MayLie(Done + 1) = MayLie(Done) + Passes
      /\ Slurped = 0 /\ Passes > 0 => MayLie(Done + 1) = MayLie(Done) + Passes - 1
  BY <1>2, NumbersAt
<1>6. Made = Passes /\ Passes \in Nat /\ Slurped \in 0..1
  BY <1>1, NumberTypes DEF BeforeLine, BeforeCont, BeforeCrlf
<1>7. InPlace \/ InCopy \/ Nowhere
  BY <1>2 DEF CopiesBounded
<1>8. /\ IsFiniteSet(Lying) /\ Cardinality(Lying) \in Nat
      /\ IsFiniteSet(Lying') /\ Cardinality(Lying') <= Cardinality(Lying) /\ Cardinality(Lying') \in Nat
  <2>1. Lying' \subseteq Lying
    BY <1>3 DEF Lying
  <2>2. QED
    BY <2>1, LiesFewer, FS_CardinalityType DEF CopiesBounded
<1>9. Cardinality(Lying') <= MayLie(Done + 1)
  <2>1. CASE InPlace
    BY <1>5, <1>8, <2>1 DEF InPlace
  <2>2. CASE InCopy
    <3>1. Lying' = Lying \ {input} /\ input \in Lying
      BY <1>3, <2>2 DEF InCopy, Lying, InTmp
    <3>2. Cardinality(Lying') = Cardinality(Lying) - 1
      BY <1>8, <3>1, FS_RemoveElement
    <3>3. Cardinality(Lying) <= MayLie(Done) + (Slurped + Made) /\ Slurped + Made > 0
      BY <2>2 DEF InCopy
    <3>4. QED
      BY <1>5, <1>6, <1>8, <3>2, <3>3
  <2>3. CASE Nowhere
    <3>1. Cardinality(Lying) < MayLie(Done) + (Slurped + Made) /\ Made > 0
      BY <2>3 DEF Nowhere
    <3>2. MayLie(Done) + (Slurped + Made) = MayLie(Done + 1) + 1
      BY <1>5, <1>6, <3>1
    <3>3. QED
      BY <1>5, <1>6, <1>8, <3>1, <3>2
  <2>4. QED
    BY <1>7, <2>1, <2>2, <2>3
<1>10. FilesKept'
  <2>1. ASSUME NEW p \in DOMAIN shell.files \cap DOMAIN disk, p \notin DOMAIN disk'
        PROVE  p \in shell.intmp /\ Contains(given, p) /\ ~Copied(shell.files[p])
    <3>1. p = input /\ InTmp(p)
      BY <1>3, <2>1
    <3>2. p \notin Temps /\ p # ""
      BY <2>1, Apart
    <3>3. InPlace
      BY <1>7, <3>1, <3>2 DEF InCopy, Nowhere, Lying
    <3>4. ~CopiedYet(shell.files[p]) /\ p = Head(operands)
      BY <1>1, <3>1, <3>3 DEF InPlace
    <3>5. ~Copied(shell.files[p])
      BY <1>1, <3>4 DEF Copied, CopiedYet, BeforeLine, BeforeCont, BeforeCrlf
    <3>6. QED
      BY <1>4, <3>1, <3>2, <3>4, <3>5 DEF InTmp
  <2>2. QED
    BY <1>1, <1>3, <2>1, FilesStay
<1>11. ShGiven'
  BY <1>1, <1>2, GivenStays DEF ShSteps
<1>12. CopiesBounded'
  <2>1. (Cardinality(Lying) <= MayLie(Done + 1))'
    BY <1>1, <1>9, NumbersSame
  <2>2. ~Resting' /\ ~Reading' /\ step' # "end"
    BY <1>1 DEF Resting, Reading, BeforeLine, BeforeCont, BeforeCrlf
  <2>3. QED
    BY <1>1, <1>8, <2>1, <2>2 DEF CopiesBounded
<1>13. QED
  BY <1>10, <1>11, <1>12

LEMMA NextOperandKeeps == ASSUME ShInv, NextOperand PROVE ShInv'
<1> USE DEF ShInv
<1>1. /\ step = "drop" /\ step' = "file" /\ UNCHANGED <<shell, sets, given, input, tmp>>
      /\ operands' = Tail(operands) /\ disk' = IF Head(operands) = "-" THEN Removed({tmp}) ELSE disk
  BY DEF NextOperand, paths
<1>2. operands # <<>>
  BY <1>1 DEF ShGiven
<1>3. /\ DOMAIN disk' = IF Head(operands) = "-" THEN DOMAIN disk \ {tmp} ELSE DOMAIN disk
      /\ \A q \in DOMAIN disk' : disk'[q] = disk[q]
  BY <1>1, RemovedIs
<1>4. /\ Done \in Nat /\ Done + 1 \in 1..Len(given) /\ Head(operands) = given[Done + 1]
      /\ Tail(operands) = SubSeq(given, (Done + 1) + 1, Len(given))
      /\ Len(given) - Len(Tail(operands)) = Done + 1
  BY <1>2, AtOperand
<1>5. Done' = Done + 1
  BY <1>1, <1>4 DEF Done
<1>6. MayLie(Done) \in Nat /\ MayLie(Done + 1) \in Nat /\ MayLie(Done) <= MayLie(Done + 1)
  BY <1>4, MayLieType, MayLieMonotone
<1>7. /\ IsFiniteSet(Lying) /\ Cardinality(Lying) \in Nat
      /\ IsFiniteSet(Lying') /\ Cardinality(Lying') <= Cardinality(Lying) /\ Cardinality(Lying') \in Nat
  <2>1. Lying' \subseteq Lying
    BY <1>3 DEF Lying
  <2>2. QED
    BY <2>1, LiesFewer, FS_CardinalityType DEF CopiesBounded
<1>8. Cardinality(Lying') <= MayLie(Done + 1)
  <2>1. CASE Cardinality(Lying) <= MayLie(Done + 1)
    BY <1>6, <1>7, <2>1
  <2>2. CASE Head(operands) = "-" /\ tmp \in Lying /\ Cardinality(Lying) <= MayLie(Done) + 1
    <3>1. Lying' = Lying \ {tmp}
      BY <1>3, <2>2 DEF Lying
    <3>2. Cardinality(Lying') = Cardinality(Lying) - 1
      BY <1>7, <2>2, <3>1, FS_RemoveElement
    <3>3. QED
      BY <1>6, <1>7, <2>2, <3>2
  <2>3. QED
    BY <1>1, <2>1, <2>2 DEF CopiesBounded
<1>9. (Cardinality(Lying) <= MayLie(Done))'
  <2>1. \A n : MayLie(n)' = MayLie(n)
    BY <1>1 DEF MayLie, MayStay, Passes, Count
  <2>2. QED
    BY <1>5, <1>8, <2>1
<1>10. FilesKept'
  <2>1. tmp \notin DOMAIN shell.files
    BY Apart DEF CopiesBounded
  <2>2. QED
    BY <1>1, <1>3, <2>1, FilesStay
<1>11. ShGiven'
  <2> DEFINE m == Len(given)
             e == Done + 1
  <2>3. e \in 1..m /\ operands' = SubSeq(given, e + 1, m) /\ Done' = e
    BY <1>1, <1>4, <1>5
  <2>4. m \in Nat
    BY DEF ShGiven
  <2>1. operands' = SubSeq(given, Done' + 1, m) /\ Done' \in 0..m
    <3> HIDE DEF m, e
    <3>1. QED
      BY <2>3, <2>4
  <2>2. QED
    BY <1>1, <2>1 DEF ShGiven, ShSteps, Reading, BeforeLine, BeforeCont, BeforeCrlf
<1>12. CopiesBounded'
  <2>1. ~Reading' /\ step' # "end" /\ step' # "drop"
    BY <1>1 DEF Reading, BeforeLine, BeforeCont, BeforeCrlf
  <2>2. QED
    BY <1>1, <1>7, <1>9, <2>1 DEF CopiesBounded
<1>13. QED
  BY <1>10, <1>11, <1>12

LEMMA StoreWritten ==
  ASSUME NEW p \in {STORE, SPARE}, NEW c, disk' = Written(p, c)
  PROVE  /\ DOMAIN disk' \subseteq DOMAIN disk \cup {STORE, SPARE}
         /\ \A q \in DOMAIN disk \ {STORE, SPARE} : q \in DOMAIN disk' /\ disk'[q] = disk[q]
BY DEF Written

LEMMA ShellStepKeeps == ASSUME ShInv, ShellNext PROVE ShInv'
<1>1. CASE NoTemp
  BY <1>1, ExitKeeps DEF NoTemp, Resting
<1>2. CASE InitEnvStore
  <2>1. UNCHANGED <<shell, sets, given, operands, paths>> /\ step = "seed" /\ step' \in {"fill", "file"}
    BY <1>2 DEF InitEnvStore
  <2>2. disk' = Written(STORE, <<>>) \/ disk' = disk
    BY <1>2 DEF InitEnvStore
  <2>9. /\ DOMAIN disk' \subseteq DOMAIN disk \cup {STORE, SPARE}
        /\ \A q \in DOMAIN disk \ {STORE, SPARE} : q \in DOMAIN disk' /\ disk'[q] = disk[q]
    BY <2>1, <2>2, StoreWritten
  <2>3. QED
    BY <2>1, <2>2, <2>9, StoreKeeps DEF Resting
<1>3. CASE FillStore
  <2>1. UNCHANGED <<shell, sets, given, operands, paths>> /\ step = "fill" /\ step' = "fill"
    BY <1>3 DEF FillStore
  <2>2. disk' = Written(STORE, Append(Store, Head(source))) \/ disk' = disk
    BY <1>3 DEF FillStore
  <2>9. /\ DOMAIN disk' \subseteq DOMAIN disk \cup {STORE, SPARE}
        /\ \A q \in DOMAIN disk \ {STORE, SPARE} : q \in DOMAIN disk' /\ disk'[q] = disk[q]
    BY <2>1, <2>2, StoreWritten
  <2>3. QED
    BY <2>1, <2>2, <2>9, StoreKeeps
<1>4. CASE StoreFilled
  <2>1. UNCHANGED <<shell, sets, given, operands, paths, disk>> /\ step = "fill" /\ step' = "file"
    BY <1>4 DEF StoreFilled
  <2>2. QED
    BY <2>1, StoreKeeps DEF Resting
<1>5. CASE CheckRecord
  <2>1. UNCHANGED <<step, shell, sets, given, operands, paths, disk>> /\ step = "line"
    BY <1>5 DEF CheckRecord, AtRecord
  <2>2. QED
    BY <2>1, StoreKeeps
<1>6. CASE BindRecord
  <2>1. UNCHANGED <<shell, sets, given, operands, paths>> /\ step = "line" /\ step' = "copy"
        /\ disk' = Written(SPARE, <<>>)
    BY <1>6 DEF BindRecord, AtRecord
  <2>2. operands # <<>>
    BY <2>1 DEF ShInv, ShGiven, Reading
  <2>9. /\ DOMAIN disk' \subseteq DOMAIN disk \cup {STORE, SPARE}
        /\ \A q \in DOMAIN disk \ {STORE, SPARE} : q \in DOMAIN disk' /\ disk'[q] = disk[q]
    BY <2>1, <2>2, StoreWritten
  <2>3. QED
    BY <2>1, <2>2, <2>9, StoreKeeps
<1>7. CASE CopyLine
  <2>1. UNCHANGED <<step, shell, sets, given, operands, paths>> /\ step = "copy"
    BY <1>7 DEF CopyLine
  <2>2. disk' = Written(SPARE, Append(Spare, Head(source))) \/ disk' = disk
    BY <1>7 DEF CopyLine
  <2>9. /\ DOMAIN disk' \subseteq DOMAIN disk \cup {STORE, SPARE}
        /\ \A q \in DOMAIN disk \ {STORE, SPARE} : q \in DOMAIN disk' /\ disk'[q] = disk[q]
    BY <2>1, <2>2, StoreWritten
  <2>3. QED
    BY <2>1, <2>2, <2>9, StoreKeeps
<1>8. CASE AppendBinding
  <2>1. UNCHANGED <<shell, sets, given, operands, paths>> /\ step = "copy" /\ step' = "move" /\ operands # <<>>
        /\ disk' = Written(SPARE, Append(Spare, binding))
    BY <1>8 DEF AppendBinding
  <2>9. /\ DOMAIN disk' \subseteq DOMAIN disk \cup {STORE, SPARE}
        /\ \A q \in DOMAIN disk \ {STORE, SPARE} : q \in DOMAIN disk' /\ disk'[q] = disk[q]
    BY <2>1, StoreWritten
  <2>2. QED
    BY <2>1, <2>9, StoreKeeps
<1>9. CASE MoveStore
  <2>1. UNCHANGED <<shell, sets, given, operands, paths>> /\ step = "move" /\ step' = "line"
    BY <1>9 DEF MoveStore
  <2>2. operands # <<>>
    BY <2>1 DEF ShInv, ShGiven, Reading
  <2>3. /\ DOMAIN disk' \subseteq DOMAIN disk \cup {STORE, SPARE}
        /\ \A q \in DOMAIN disk \ {STORE, SPARE} : q \in DOMAIN disk' /\ disk'[q] = disk[q]
    BY <1>9 DEF MoveStore
  <2>4. QED
    BY <2>1, <2>2, <2>3, StoreKeeps
<1>10. CASE EmitEnv
  <2>1. UNCHANGED <<shell, sets, given, operands, paths>> /\ step = "file" /\ step' = "copy" /\ operands = <<>>
        /\ disk' = Written(SPARE, <<>>)
    BY <1>10 DEF EmitEnv
  <2>9. /\ DOMAIN disk' \subseteq DOMAIN disk \cup {STORE, SPARE}
        /\ \A q \in DOMAIN disk \ {STORE, SPARE} : q \in DOMAIN disk' /\ disk'[q] = disk[q]
    BY <2>1, StoreWritten
  <2>2. QED
    BY <2>1, <2>9, StoreKeeps DEF Resting
<1>11. CASE Sort
  <2>1. UNCHANGED <<shell, sets, given, operands, paths, disk>> /\ step = "copy" /\ step' = "exit" /\ operands = <<>>
    BY <1>11 DEF Sort
  <2>2. QED
    BY <2>1, StoreKeeps DEF Resting
<1>12. CASE ShellExit
  BY <1>12, ExitKeeps DEF ShellExit, Resting
<1>13. CASE Interrupted
  <2>1. UNCHANGED <<step, shell, sets, given, operands, paths>> /\ step # "end" /\ disk' = Removed({STORE, SPARE})
    BY <1>13 DEF Interrupted
  <2>2. QED
    BY <2>1, RemovedIs, StoreKeeps
<1>14. QED
  BY <1>1, <1>2, <1>3, <1>4, <1>5, <1>6, <1>7, <1>8, <1>9, <1>10, <1>11, <1>12, <1>13, OpenKeeps, SlurpKeeps,
     RejectKeeps, PassOverKeeps, CopyKeeps, CopyNowhereKeeps, CleanUpKeeps, NextOperandKeeps DEF ShellNext

LEMMA StutterKeeps == ASSUME ShInv, UNCHANGED shellVars PROVE ShInv'
<1>1. UNCHANGED <<step, shell, sets, given, operands, disk, input, tmp>>
  BY DEF shellVars, paths
<1>2. Made' = Made /\ (\A c : (CopiedYet(c)' <=> CopiedYet(c)) /\ (Copied(c)' <=> Copied(c))) /\ Lying' = Lying
      /\ (Reading' <=> Reading) /\ (Resting' <=> Resting)
  BY <1>1 DEF Made, CopiedYet, Copied, Lying, Reading, Resting, Count, BeforeLine, BeforeCont, BeforeCrlf
<1>3. FilesKept'
  BY <1>1, <1>2 DEF ShInv, FilesKept
<1>4. ShGiven'
  BY <1>1, <1>2 DEF ShInv, ShGiven, Done
<1>5. CopiesBounded'
  BY <1>1, <1>2, NumbersSame DEF ShInv, CopiesBounded, InPlace, InCopy, Nowhere
<1>6. QED
  BY <1>3, <1>4, <1>5 DEF ShInv

LEMMA ShellStarts == ASSUME NEW h, ShellOk(h), ShellIdle(h) PROVE ShInv
<1>1. step = "idle" /\ shell = h /\ given = <<>> /\ operands = <<>> /\ disk = h.files /\ tmp = ""
  BY DEF ShellIdle
<1>2. Done = 0 /\ 0 \in 0..Len(given) /\ operands = SubSeq(given, 0 + 1, Len(given)) /\ given \in Seq(ToSet(given))
  <2> DEFINE g == given
  <2>4. g = <<>>
    BY <1>1
  <2> HIDE DEF g
  <2>1. g \in Seq(ToSet(g)) /\ Len(g) = 0
    <3>1. Len(<<>>) = 0 /\ \A S : <<>> \in Seq(S)
      OBVIOUS
    <3>2. QED
      BY <2>4, <3>1
  <2>2. SubSeq(g, 0 + 1, Len(g)) = g
    BY <2>1
  <2>5. operands = g /\ Len(operands) = 0
    BY <1>1, <2>1, <2>4
  <2>6. Done = Len(g) - Len(operands)
    BY DEF Done, g
  <2>7. Done = 0
    BY <2>1, <2>5, <2>6
  <2>8. 0 \in 0..Len(g) /\ operands = SubSeq(g, 0 + 1, Len(g))
    BY <2>1, <2>2, <2>5
  <2>3. QED
    BY <2>1, <2>7, <2>8 DEF g
<1>3. ~Reading
  BY <1>1 DEF Reading, BeforeLine, BeforeCont, BeforeCrlf
<1>10. step = "idle" /\ shell = h /\ (step = "idle" => given = <<>>) /\ Len(given) = 0
  BY <1>1
<1>4. ShGiven
  <2>1. \A i \in 1..Len(given) : given[i] \notin Temps \cup {STORE, SPARE}
    BY <1>10
  <2>2. step \in ShSteps /\ step # "exit" /\ step # "drop" /\ ShellOk(shell)
    BY <1>10 DEF ShSteps
  <2>3. Done \in 0..Len(given) /\ operands = SubSeq(given, Done + 1, Len(given)) /\ given \in Seq(ToSet(given))
    BY <1>2
  <2>4. step = "idle" => given = <<>>
    BY <1>1
  <2>5. QED
    BY <1>3, <2>1, <2>2, <2>3, <2>4 DEF ShGiven
<1>5. Lying = {}
  BY <1>1, Apart, <1>4 DEF Lying
<1>6. FilesKept
  BY <1>1 DEF FilesKept
<1>7. IsFiniteSet(Lying) /\ Cardinality(Lying) <= MayLie(Done)
  BY <1>2, <1>5, MayLieNone, FS_EmptySet
<1>8. CopiesBounded
  BY <1>1, <1>3, <1>7 DEF CopiesBounded
<1>9. QED
  BY <1>4, <1>6, <1>8 DEF ShInv

LEMMA ConfigureKeeps ==
  ASSUME ShInv, NEW s, NEW files, files \in Seq(ToSet(files)), Configure(s, files),
         \A i \in 1..Len(files) : files[i] \notin Temps \cup {STORE, SPARE}
  PROVE  ShInv'
<1> USE DEF ShInv
<1>1. /\ step = "idle" /\ step' \in {"delegated", "seed"} /\ UNCHANGED <<shell, disk, input, tmp>>
      /\ given' = (IF files = <<>> THEN <<"-">> ELSE files) /\ operands' = given'
  BY DEF Configure, paths
<1>2. given' \in Seq(ToSet(given')) /\ \A i \in 1..Len(given') : given'[i] \notin Temps \cup {STORE, SPARE}
  <2>1. CASE files = <<>>
    <3> DEFINE one == <<"-">>
    <3>1. one \in Seq({"-"}) /\ Len(one) = 1 /\ one[1] = "-" /\ "-" \in ToSet(one)
      BY DEF ToSet
    <3> HIDE DEF one
    <3>2. one \in Seq(ToSet(one)) /\ \A i \in 1..Len(one) : one[i] = "-"
      BY <3>1
    <3>3. "-" \notin Temps \cup {STORE, SPARE}
      BY TempsApart DEF STORE, SPARE
    <3>4. QED
      BY <1>1, <2>1, <3>2, <3>3 DEF one
  <2>2. CASE files # <<>>
    BY <1>1, <2>2
  <2>3. QED
    BY <2>1, <2>2
<1>3. Done' = 0 /\ 0 \in 0..Len(given') /\ operands' = SubSeq(given', 0 + 1, Len(given'))
  <2> DEFINE g == given'
  <2>1. g \in Seq(ToSet(g)) /\ operands' = g
    BY <1>1, <1>2
  <2> HIDE DEF g
  <2>2. Len(g) \in Nat /\ SubSeq(g, 0 + 1, Len(g)) = g
    BY <2>1
  <2>3. QED
    BY <2>1, <2>2 DEF g, Done
<1>4. ~Reading' /\ step' # "drop"
  BY <1>1 DEF Reading, BeforeLine, BeforeCont, BeforeCrlf
<1>5. ShGiven'
  BY <1>1, <1>2, <1>3, <1>4 DEF ShGiven, ShSteps
<1>6. given = <<>> /\ Done = 0 /\ Resting
  BY <1>1 DEF ShGiven, Done, Resting
<1>7. FilesKept'
  <2>1. DOMAIN shell.files \subseteq DOMAIN disk
    BY <1>6 DEF FilesKept, Contains
  <2>2. QED
    BY <1>1, <2>1 DEF FilesKept
<1>8. Lying' = Lying /\ IsFiniteSet(Lying) /\ Cardinality(Lying) <= 0
  BY <1>1, <1>6, MayLieNone DEF Lying, CopiesBounded
<1>9. MayLie(Done)' = 0
  <2>1. MayStay(0)' = {}
    BY DEF MayStay
  <2>2. QED
    BY <1>3, <2>1, FS_EmptySet DEF MayLie
<1>10. CopiesBounded'
  BY <1>1, <1>4, <1>8, <1>9 DEF CopiesBounded
<1>11. QED
  BY <1>5, <1>7, <1>10

LEMMA ShInvAccounts == ShInv => DiskAccounted
<1> SUFFICES ASSUME ShInv PROVE DiskAccounted
  OBVIOUS
<1>1. /\ \A p \in DOMAIN shell.files :
           IF p \in DOMAIN disk THEN disk[p] = shell.files[p]
           ELSE p \in shell.intmp /\ Contains(given, p) /\ ~Copied(shell.files[p])
  BY DEF ShInv, FilesKept
<1>2. step = "end" => /\ {STORE, SPARE} \cap DOMAIN disk = {}
                      /\ Cardinality(Temps \cap DOMAIN disk) <= Cardinality(MayStay(Len(given)))
  BY DEF ShInv, CopiesBounded, Lying, MayLie
<1>3. QED
  BY <1>1, <1>2 DEF DiskAccounted

-----------------------------------------------------------------------------
(* What apply lists.  While nothing went wrong the lines of the store say  *)
(* the last value of every name bound so far; a loop that rewrites them    *)
(* drops the lines of some names and keeps the order of the others, so     *)
(* that what is kept and what is still to be read say the same of those.   *)

Faultless == sets.action = "apply" /\ ~shell.full /\ ~signalled /\ errs = 0

\* v is the last that lines say of k.
Says(lines, k, v) ==
  \E i \in 1..Len(lines) : /\ lines[i].key = k /\ lines[i].text = v
                           /\ \A j \in (i + 1)..Len(lines) : lines[j].key # k

IsSeq(s) == s \in Seq(ToSet(s))

\* Of the lines whose names are in dropped those still to be read remain.
Thins(lines, kept, left, dropped) ==
  /\ IsSeq(kept) /\ IsSeq(left)
  /\ \A k, v : k \notin dropped /\ Says(lines, k, v) => Says(kept \o left, k, v)
  /\ \A l \in ToSet(kept) : l.key \notin dropped
  /\ ToSet(kept \o left) \subseteq ToSet(lines)
  /\ IsInjective(lines) => IsInjective(kept \o left)

\* Lines say what env does, but for those of the lines they started from whose
\* name had a later one.
Mirrors(lines, env, first) ==
  /\ IsSeq(lines)
  /\ \A k \in DOMAIN env : Says(lines, k, env[k])
  /\ \A l \in ToSet(lines) : /\ l.key \in DOMAIN env /\ l = [key |-> l.key, text |-> l.text]
                             /\ l.text = env[l.key] \/ l \in Earlier(first)
  /\ IsInjective(first) => IsInjective(lines)

ListsOf(lines, env, first) ==
  LET wanted == {[key |-> k, text |-> env[k]] : k \in DOMAIN env \ {"ENVFILE"}}
  IN /\ wanted \subseteq ToSet(lines) /\ ToSet(lines) \subseteq wanted \cup Earlier(first)
     /\ IsInjective(first) => IsInjective(lines)

\* What the operands hold, and the records read from them.
Originals == [k \in 1..Len(given) |-> Original(k)]
Reads == [k \in 1..Len(given) |-> RecordsRead(k)]

\* What is left of standard input once n operands are read.
LeftOf(in, names, n) == IF \E j \in 1..n : names[j] = "-" THEN Nothing ELSE in

\* The content of the input is that of the operand, but for the BOM.
SourceIs ==
  LET o == Originals[Done + 1]
  IN /\ DOMAIN Content = DOMAIN Nothing /\ Content.records = o.records
     /\ Content.bom <=> o.bom /\ (step \in BeforeCrlf \/ sets.bom # "strip")

\* The record being bound, and the environment it is bound in.
Current == Reads[Done + 1][at_line]
EnvNow == Bound(EnvAfter[Done], Reads[Done + 1])[at_line - 1]

RunInv ==
  /\ errs \in Nat /\ (code = 0 => step = "end" /\ errs = 0)
  /\ step = "idle" => code = -1 /\ at_line = 1
  /\ step \in {"seed", "fill"} => Done = 0
  /\ step \in {"seed", "fill", "file"} \cup BeforeLine => at_line = 1
  /\ step \in {"idle", "seed", "fill", "file"} => piped = LeftOf(shell.piped, given, Done)
  /\ Reading \/ step = "drop" => piped = LeftOf(shell.piped, given, Done + 1)

SourceInv ==
  Faultless /\ Reading =>
    /\ step # "nul" => input \in DOMAIN disk
    /\ input \in DOMAIN disk => SourceIs

\* What the store says before the operands are read, between two of them, between
\* two records, while a record is bound, and while the listing is made.
Filling == step = "fill" => Thins(shell.lines, Store, source, {"", "ENVFILE"})

BetweenFiles ==
  /\ step \in {"file"} \cup BeforeLine => Mirrors(Store, EnvAfter[Done], shell.lines)
  /\ step = "drop" => Mirrors(Store, EnvAfter[Done + 1], shell.lines)

BetweenRecords ==
  step = "line" => /\ at_line \in 1..(Len(Reads[Done + 1]) + 1)
                   /\ Mirrors(Store, EnvNow, shell.lines)

Binding ==
  step \in {"copy", "move"} /\ operands # <<>> =>
    /\ at_line \in 1..Len(Reads[Done + 1])
    /\ binding = [key |-> Current.key,
                  text |-> IF Current.ref = "" THEN Current.text ELSE EnvNow[Current.ref]]
    /\ step = "copy" => Mirrors(Store, EnvNow, shell.lines) /\ Thins(Store, Spare, source, {binding.key})
    /\ step = "move" => SPARE \in DOMAIN disk /\ Mirrors(Spare, Extended(EnvNow, Current), shell.lines)

Listing ==
  /\ step = "copy" /\ operands = <<>> =>
       Mirrors(Store, EnvAfter[Done], shell.lines) /\ Thins(Store, Spare, source, {"ENVFILE"})
  /\ step \in {"exit", "end"} => ListsOf(listing, EnvAfter[Len(given)], shell.lines)

StoreInv == Faultless => Filling /\ BetweenFiles /\ BetweenRecords /\ Binding /\ Listing

ListInv == RunInv /\ SourceInv /\ StoreInv

\* A sequence is one over its own elements.
LEMMA SeqOwn ==
  ASSUME NEW T, NEW s \in Seq(T)
  PROVE  /\ IsSeq(s) /\ Len(s) \in Nat /\ ToSet(s) = {s[i] : i \in 1..Len(s)} /\ ToSet(s) \subseteq T
<1>1. ToSet(s) = {s[i] : i \in 1..Len(s)} /\ ToSet(s) \subseteq T
  BY DEF ToSet
<1>2. s \in Seq(ToSet(s))
  BY <1>1
<1>3. QED
  BY <1>1, <1>2 DEF IsSeq

LEMMA SeqParts ==
  ASSUME NEW s, IsSeq(s)
  PROVE  /\ Len(s) \in Nat /\ ToSet(s) = {s[i] : i \in 1..Len(s)}
         /\ s # <<>> => /\ Len(s) > 0 /\ Head(s) = s[1] /\ Head(s) \in ToSet(s)
                        /\ IsSeq(Tail(s)) /\ Len(Tail(s)) = Len(s) - 1
                        /\ \A i \in 1..(Len(s) - 1) : Tail(s)[i] = s[i + 1]
<1> DEFINE T == ToSet(s)
<1>1. s \in Seq(T)
  BY DEF IsSeq
<1> HIDE DEF T
<1>2. Len(s) \in Nat /\ ToSet(s) = {s[i] : i \in 1..Len(s)}
  BY <1>1, SeqOwn
<1>3. ASSUME s # <<>>
      PROVE  /\ Len(s) > 0 /\ Head(s) = s[1] /\ Tail(s) \in Seq(T) /\ Len(Tail(s)) = Len(s) - 1
             /\ \A i \in 1..(Len(s) - 1) : Tail(s)[i] = s[i + 1]
  BY <1>1, <1>3
<1>4. s # <<>> => IsSeq(Tail(s))
  <2> DEFINE u == Tail(s)
  <2>1. s # <<>> => u \in Seq(T)
    BY <1>3
  <2> HIDE DEF u
  <2>2. s # <<>> => IsSeq(u)
    BY <2>1, SeqOwn
  <2>3. QED
    BY <2>2 DEF u
<1>5. s # <<>> => Head(s) \in ToSet(s)
  BY <1>2, <1>3
<1>6. QED
  BY <1>2, <1>3, <1>4, <1>5

LEMMA Joined ==
  ASSUME NEW a, NEW b, IsSeq(a), IsSeq(b)
  PROVE  /\ IsSeq(a \o b) /\ Len(a \o b) = Len(a) + Len(b) /\ Len(a) \in Nat /\ Len(b) \in Nat
         /\ \A i \in 1..Len(a) : (a \o b)[i] = a[i]
         /\ \A i \in (Len(a) + 1)..(Len(a) + Len(b)) : (a \o b)[i] = b[i - Len(a)]
<1> DEFINE T == ToSet(a) \cup ToSet(b)
<1>1. a \in Seq(T) /\ b \in Seq(T)
  <2>1. a \in Seq(ToSet(a)) /\ b \in Seq(ToSet(b))
    BY DEF IsSeq
  <2>2. QED
    BY <2>1
<1> HIDE DEF T
<1>2. a \o b \in Seq(T)
  BY <1>1
<1>3. IsSeq(a \o b)
  BY <1>2, SeqOwn
<1>4. /\ Len(a \o b) = Len(a) + Len(b) /\ Len(a) \in Nat /\ Len(b) \in Nat
      /\ \A i \in 1..Len(a) : (a \o b)[i] = a[i]
  BY <1>1
<1>5. \A i \in (Len(a) + 1)..(Len(a) + Len(b)) : (a \o b)[i] = b[i - Len(a)]
  BY <1>1
<1>6. QED
  BY <1>3, <1>4, <1>5

LEMMA Appended ==
  ASSUME NEW s, IsSeq(s), NEW x
  PROVE  /\ IsSeq(Append(s, x)) /\ Len(Append(s, x)) = Len(s) + 1 /\ Len(s) \in Nat
         /\ Append(s, x)[Len(s) + 1] = x
         /\ \A i \in 1..Len(s) : Append(s, x)[i] = s[i]
<1> DEFINE T == ToSet(s) \cup {x}
<1>1. s \in Seq(T) /\ x \in T
  <2>1. s \in Seq(ToSet(s))
    BY DEF IsSeq
  <2>2. QED
    BY <2>1
<1> HIDE DEF T
<1>2. Append(s, x) \in Seq(T)
  BY <1>1
<1>3. IsSeq(Append(s, x))
  BY <1>2, SeqOwn
<1>4. /\ Len(Append(s, x)) = Len(s) + 1 /\ Len(s) \in Nat
      /\ Append(s, x)[Len(s) + 1] = x
      /\ \A i \in 1..Len(s) : Append(s, x)[i] = s[i]
  BY <1>1
<1>5. QED
  BY <1>3, <1>4

\* A line moved from what is left to what is kept.
LEMMA Moved ==
  ASSUME NEW a, NEW b, IsSeq(a), IsSeq(b), b # <<>>
  PROVE  Append(a, Head(b)) \o Tail(b) = a \o b
<1> DEFINE T == ToSet(a) \cup ToSet(b)
<1>1. a \in Seq(T) /\ b \in Seq(T)
  <2>1. a \in Seq(ToSet(a)) /\ b \in Seq(ToSet(b))
    BY DEF IsSeq
  <2>2. QED
    BY <2>1
<1> HIDE DEF T
<1> DEFINE h == Head(b)
           t == Tail(b)
           c == Append(a, h)
<1>2. Len(b) > 0 /\ h = b[1] /\ h \in T /\ t \in Seq(T) /\ Len(t) = Len(b) - 1 /\ \A i \in 1..Len(t) : t[i] = b[i + 1]
  BY <1>1
<1> HIDE DEF h, t
<1>3. c \in Seq(T) /\ Len(c) = Len(a) + 1 /\ c[Len(a) + 1] = h /\ \A i \in 1..Len(a) : c[i] = a[i]
  BY <1>1, <1>2
<1> HIDE DEF c
<1>4. Len(c \o t) = Len(a \o b) /\ c \o t \in Seq(T) /\ a \o b \in Seq(T)
  <2>5. c \in Seq(T) /\ t \in Seq(T)
    BY <1>2, <1>3
  <2>1. Len(c \o t) = Len(c) + Len(t) /\ c \o t \in Seq(T)
    BY <2>5
  <2>2. Len(a \o b) = Len(a) + Len(b) /\ a \o b \in Seq(T) /\ Len(a) \in Nat /\ Len(b) \in Nat
    BY <1>1
  <2>3. (Len(a) + 1) + (Len(b) - 1) = Len(a) + Len(b)
    BY <2>2
  <2>4. QED
    BY <1>2, <1>3, <2>1, <2>2, <2>3
<1>5. ASSUME NEW i \in 1..Len(a \o b) PROVE (c \o t)[i] = (a \o b)[i]
  <2>1. i \in Nat /\ Len(a \o b) = Len(a) + Len(b) /\ Len(a) \in Nat /\ Len(b) \in Nat
    BY <1>1
  <2>2. CASE i <= Len(a)
    BY <1>1, <1>2, <1>3, <2>1, <2>2
  <2>3. CASE i = Len(a) + 1
    BY <1>1, <1>2, <1>3, <2>1, <2>3
  <2>4. CASE i > Len(a) + 1
    <3> DEFINE j == i - (Len(a) + 1)
    <3>1. j \in 1..Len(t) /\ j + 1 = i - Len(a) /\ j = i - Len(c)
      BY <1>2, <1>3, <2>1, <2>4
    <3>2. (c \o t)[i] = t[j]
      BY <1>2, <1>3, <1>4, <2>1, <2>4, <3>1
    <3>3. (a \o b)[i] = b[i - Len(a)]
      BY <1>1, <2>1, <2>4
    <3>4. QED
      BY <1>2, <3>1, <3>2, <3>3
  <2>5. i <= Len(a) \/ i = Len(a) + 1 \/ i > Len(a) + 1
    <3> DEFINE m == Len(a)
    <3>1. i \in Nat /\ m \in Nat
      BY <2>1
    <3> HIDE DEF m
    <3>2. i <= m \/ i = m + 1 \/ i > m + 1
      BY <3>1
    <3>3. QED
      BY <3>2 DEF m
  <2>6. QED
    BY <2>2, <2>3, <2>4, <2>5
<1>6. c \o t = a \o b
  <2> DEFINE u == c \o t
             w == a \o b
  <2>1. /\ u \in Seq(T) /\ w \in Seq(T) /\ Len(u) = Len(w)
        /\ \A i \in 1..Len(w) : u[i] = w[i]
    BY <1>4, <1>5
  <2> HIDE DEF u, w
  <2>2. u = w
    BY <2>1
  <2>3. QED
    BY <2>2 DEF u, w
<1>7. QED
  BY <1>6 DEF c, h, t

\* What a sequence without one of its lines says of the other names.
LEMMA Dropped ==
  ASSUME NEW a, NEW b, IsSeq(a), IsSeq(b), b # <<>>
  PROVE  /\ \A k, v : k # Head(b).key /\ Says(a \o b, k, v) => Says(a \o Tail(b), k, v)
         /\ ToSet(a \o Tail(b)) \subseteq ToSet(a \o b)
         /\ IsInjective(a \o b) => IsInjective(a \o Tail(b))
<1> DEFINE t == Tail(b)
           q == a \o b
           r == a \o t
           m == Len(a)
           n == Len(b)
<1>1. /\ IsSeq(t) /\ Len(t) = n - 1 /\ n \in Nat /\ n > 0 /\ m \in Nat
      /\ Head(b) = b[1] /\ \A i \in 1..(n - 1) : t[i] = b[i + 1]
  BY SeqParts
<1>2. /\ IsSeq(q) /\ Len(q) = m + n
      /\ \A i \in 1..m : q[i] = a[i]
      /\ \A i \in (m + 1)..(m + n) : q[i] = b[i - m]
  BY Joined
<1>3. /\ IsSeq(r) /\ Len(r) = m + (n - 1)
      /\ \A i \in 1..m : r[i] = a[i]
      /\ \A i \in (m + 1)..(m + (n - 1)) : r[i] = t[i - m]
  <2> HIDE DEF t
  <2>3. IsSeq(t)
    BY <1>1
  <2>1. /\ IsSeq(a \o t) /\ Len(a \o t) = Len(a) + Len(t)
        /\ \A i \in 1..Len(a) : (a \o t)[i] = a[i]
        /\ \A i \in (Len(a) + 1)..(Len(a) + Len(t)) : (a \o t)[i] = t[i - Len(a)]
    BY <2>3, Joined
  <2>2. Len(t) = n - 1
    BY <1>1
  <2> HIDE DEF n
  <2>4. QED
    BY <2>1, <2>2
<1> DEFINE f == [i \in 1..(m + (n - 1)) |-> IF i <= m THEN i ELSE i + 1]
<1>4. /\ \A i \in 1..(m + (n - 1)) : f[i] \in 1..(m + n) /\ f[i] # m + 1 /\ f[i] = IF i <= m THEN i ELSE i + 1
      /\ \A i \in 1..(m + (n - 1)) : r[i] = q[f[i]]
  <2>1. ASSUME NEW i \in 1..(m + (n - 1))
        PROVE  f[i] \in 1..(m + n) /\ f[i] # m + 1 /\ f[i] = IF i <= m THEN i ELSE i + 1
    BY <1>1, <2>1
  <2>2. ASSUME NEW i \in 1..(m + (n - 1)) PROVE r[i] = q[f[i]]
    <3> HIDE DEF q, r, t, m, n
    <3>1. CASE i <= m
      BY <1>1, <1>2, <1>3, <3>1
    <3>2. CASE i > m
      <4> DEFINE j == i - m
      <4>1. j \in 1..(n - 1) /\ i \in (m + 1)..(m + (n - 1)) /\ i + 1 \in (m + 1)..(m + n) /\ (i + 1) - m = j + 1
            /\ f[i] = i + 1
        BY <1>1, <3>2
      <4> HIDE DEF f
      <4>2. r[i] = t[j] /\ t[j] = b[j + 1]
        BY <1>1, <1>3, <4>1
      <4>3. q[i + 1] = b[(i + 1) - m]
        BY <1>2, <4>1
      <4>4. QED
        BY <4>1, <4>2, <4>3
    <3>3. QED
      BY <1>1, <3>1, <3>2
  <2>3. QED
    BY <2>1, <2>2
<1>5. q[m + 1] = Head(b)
  BY <1>1, <1>2
<1>6. ToSet(q) = {q[i] : i \in 1..(m + n)} /\ ToSet(r) = {r[i] : i \in 1..(m + (n - 1))}
  <2> HIDE DEF q, r, t
  <2>1. QED
    BY <1>2, <1>3, SeqParts
<1>7. DOMAIN q = 1..(m + n) /\ DOMAIN r = 1..(m + (n - 1))
  <2> HIDE DEF q, r, t
  <2>1. QED
    BY <1>2, <1>3 DEF IsSeq
<1> HIDE DEF q, r, t, m, n, f
<1>8. ToSet(r) \subseteq ToSet(q)
  BY <1>4, <1>6
<1>9. IsInjective(q) => IsInjective(r)
  <2> SUFFICES ASSUME IsInjective(q), NEW i \in 1..(m + (n - 1)), NEW j \in 1..(m + (n - 1)), r[i] = r[j]
               PROVE  i = j
    BY <1>7 DEF IsInjective
  <2>1. f[i] = f[j]
    BY <1>4, <1>7 DEF IsInjective
  <2>2. QED
    BY <1>1, <1>4, <2>1
<1>10. ASSUME NEW k, NEW v, k # Head(b).key, Says(q, k, v) PROVE Says(r, k, v)
  <2>1. PICK p \in 1..(m + n) : /\ q[p].key = k /\ q[p].text = v
                                /\ \A j \in (p + 1)..(m + n) : q[j].key # k
    BY <1>2, <1>10 DEF Says
  <2>2. p # m + 1 /\ p \in Nat
    BY <1>1, <1>5, <1>10, <2>1
  <2> DEFINE i == IF p <= m THEN p ELSE p - 1
  <2>3. i \in 1..(m + (n - 1)) /\ f[i] = p
    BY <1>1, <1>4, <2>2
  <2>4. ASSUME NEW j \in (i + 1)..(m + (n - 1)) PROVE r[j].key # k
    <3>1. j \in 1..(m + (n - 1)) /\ f[j] \in (p + 1)..(m + n)
      BY <1>1, <1>4, <2>2, <2>3
    <3>2. QED
      BY <1>4, <2>1, <3>1
  <2>5. r[i].key = k /\ r[i].text = v
    BY <1>4, <2>1, <2>3
  <2> HIDE DEF i
  <2>6. QED
    BY <1>3, <2>3, <2>4, <2>5 DEF Says
<1>11. QED
  BY <1>8, <1>9, <1>10 DEF q, r, t

\* A loop has kept nothing yet, keeps a line, drops one, and is done.
LEMMA ThinsStart ==
  ASSUME NEW lines, NEW dropped, IsSeq(lines)
  PROVE  Thins(lines, <<>>, lines, dropped)
<1> DEFINE T == ToSet(lines)
<1>1. lines \in Seq(T)
  BY DEF IsSeq
<1>2. <<>> \o lines = lines
  <2> HIDE DEF T
  <2>1. QED
    BY <1>1
<1>3. IsSeq(<<>>) /\ ToSet(<<>>) = {}
  <2>1. \A S : <<>> \in Seq(S)
    OBVIOUS
  <2>2. DOMAIN <<>> = {}
    OBVIOUS
  <2>3. QED
    BY <2>1, <2>2 DEF IsSeq, ToSet
<1>4. QED
  BY <1>2, <1>3 DEF Thins

LEMMA ThinsKeep ==
  ASSUME NEW lines, NEW kept, NEW left, NEW dropped, Thins(lines, kept, left, dropped),
         left # <<>>, Head(left).key \notin dropped
  PROVE  Thins(lines, Append(kept, Head(left)), Tail(left), dropped)
<1> DEFINE h == Head(left)
           a == Append(kept, h)
           t == Tail(left)
<1>1. IsSeq(kept) /\ IsSeq(left)
  BY DEF Thins
<1>2. a \o t = kept \o left
  BY <1>1, Moved
<1>3. IsSeq(t)
  BY <1>1, SeqParts
<1> HIDE DEF h, t
<1>4. IsSeq(a) /\ \A x \in ToSet(a) : x \in ToSet(kept) \/ x = h
  <2>1. /\ IsSeq(a) /\ Len(a) = Len(kept) + 1 /\ Len(kept) \in Nat /\ a[Len(kept) + 1] = h
        /\ \A i \in 1..Len(kept) : a[i] = kept[i]
    BY <1>1, Appended
  <2> HIDE DEF a
  <2>2. ToSet(a) = {a[i] : i \in 1..Len(a)} /\ ToSet(kept) = {kept[i] : i \in 1..Len(kept)}
    BY <1>1, <2>1, SeqParts
  <2>3. \A i \in 1..Len(a) : i \in 1..Len(kept) \/ i = Len(kept) + 1
    BY <2>1
  <2>4. QED
    BY <2>1, <2>2, <2>3
<1>5. h.key \notin dropped
  BY DEF h
<1> HIDE DEF a
<1>6. Thins(lines, a, t, dropped)
  BY <1>2, <1>3, <1>4, <1>5 DEF Thins
<1>7. QED
  BY <1>6 DEF a, t, h

LEMMA ThinsDrop ==
  ASSUME NEW lines, NEW kept, NEW left, NEW dropped, Thins(lines, kept, left, dropped),
         left # <<>>, Head(left).key \in dropped
  PROVE  Thins(lines, kept, Tail(left), dropped)
<1>1. IsSeq(kept) /\ IsSeq(left)
  BY DEF Thins
<1>2. IsSeq(Tail(left))
  BY <1>1, SeqParts
<1>3. /\ \A k, v : k # Head(left).key /\ Says(kept \o left, k, v) => Says(kept \o Tail(left), k, v)
      /\ ToSet(kept \o Tail(left)) \subseteq ToSet(kept \o left)
      /\ IsInjective(kept \o left) => IsInjective(kept \o Tail(left))
  BY <1>1, Dropped
<1>4. QED
  BY <1>1, <1>2, <1>3 DEF Thins

LEMMA ThinsEnd ==
  ASSUME NEW lines, NEW kept, NEW left, NEW dropped, Thins(lines, kept, left, dropped), left = <<>>
  PROVE  /\ IsSeq(kept)
         /\ \A k, v : k \notin dropped /\ Says(lines, k, v) => Says(kept, k, v)
         /\ \A l \in ToSet(kept) : l.key \notin dropped /\ l \in ToSet(lines)
         /\ IsInjective(lines) => IsInjective(kept)
<1> DEFINE T == ToSet(kept)
<1>1. kept \in Seq(T)
  BY DEF IsSeq, Thins
<1>2. kept \o left = kept
  <2> HIDE DEF T
  <2>1. QED
    BY <1>1
<1>3. QED
  BY <1>2 DEF Thins

\* Sets of numbers: the first, and the last below a bound.
LEMMA FirstOf ==
  ASSUME NEW T \in SUBSET Nat, T # {}
  PROVE  \E i \in T : \A j \in T : i <= j
<1> DEFINE R == OpToRel(<, Nat)
<1>1. \A i, j \in Nat : i < j => <<i, j>> \in R
  BY DEF OpToRel
<1>2. \E i \in T : \A j \in T : <<j, i>> \notin R
  BY NatLessThanWellFounded, WFMin
<1> HIDE DEF R
<1>3. PICK i \in T : \A j \in T : <<j, i>> \notin R
  BY <1>2
<1>4. \A j \in T : ~(j < i)
  BY <1>1, <1>3
<1>5. \A j \in T : i <= j
  BY <1>4
<1>6. QED
  BY <1>5

LEMMA GoesOn ==
  ASSUME NEW T, 0 \in T, \A j \in Nat : j \in T => j + 1 \in T
  PROVE  Nat \subseteq T
<1> SUFFICES ASSUME Nat \ T # {} PROVE FALSE
  OBVIOUS
<1>1. PICK l \in Nat \ T : \A j \in Nat \ T : l <= j
  BY FirstOf
<1>2. l # 0 /\ l - 1 \in Nat /\ (l - 1) + 1 = l
  BY <1>1
<1>3. l - 1 \in T
  BY <1>1, <1>2
<1>4. QED
  BY <1>1, <1>2, <1>3

LEMMA Greatest ==
  ASSUME NEW n \in Nat, NEW S \in SUBSET (1..n), S # {}
  PROVE  Max(S) \in S /\ \A y \in S : Max(S) >= y
<1> DEFINE D == {n - x : x \in S}
<1>1. D \in SUBSET Nat /\ D # {}
  <2>1. \A x \in S : x \in 1..n
    OBVIOUS
  <2>2. \A x \in 1..n : n - x \in Nat
    OBVIOUS
  <2>3. \A x \in S : n - x \in Nat /\ n - x \in D
    BY <2>1, <2>2
  <2>4. \A d \in D : d \in Nat
    BY <2>3
  <2>5. QED
    BY <2>3, <2>4
<1>2. PICK d \in D : \A e \in D : d <= e
  BY <1>1, FirstOf
<1>3. PICK x \in S : d = n - x
  BY <1>2
<1>4. \A y \in S : n - x <= n - y
  BY <1>2, <1>3
<1>5. \A y \in S : x >= y
  BY <1>4
<1>6. \A z \in S : (\A y \in S : z >= y) => z = x
  BY <1>5
<1>7. QED
  BY <1>5, <1>6 DEF Max

\* What the last line of a name says, as the code finds it.
LEMMA ValueSays ==
  ASSUME NEW lines, IsSeq(lines), NEW k
  PROVE  /\ Named(lines, k) # {} => Says(lines, k, Value(lines, k))
         /\ \A v : Says(lines, k, v) => Named(lines, k) # {} /\ v = Value(lines, k)
         /\ \A l \in ToSet(lines) : l.key = k => Named(lines, k) # {}
         /\ Named(lines, k) # {} => \E l \in ToSet(lines) : l.key = k
<1> DEFINE n == Len(lines)
           S == Named(lines, k)
           m == Max(S)
<1>1. n \in Nat /\ ToSet(lines) = {lines[i] : i \in 1..n}
  BY SeqParts
<1>2. S = {i \in 1..n : lines[i].key = k}
  BY DEF Named
<1>3. ASSUME S # {} PROVE m \in S /\ \A y \in S : m >= y
  <2> HIDE DEF n, S
  <2>1. S \in SUBSET (1..n)
    BY <1>2
  <2>2. QED
    BY <1>1, <1>3, <2>1, Greatest
<1>4. Value(lines, k) = lines[m].text
  BY DEF Value
<1> HIDE DEF m, S
<1>5. ASSUME S # {} PROVE Says(lines, k, Value(lines, k))
  <2>1. m \in 1..n /\ lines[m].key = k
    BY <1>2, <1>3, <1>5
  <2>2. ASSUME NEW j \in (m + 1)..n, lines[j].key = k PROVE FALSE
    <3>1. j \in S /\ j > m
      BY <1>1, <1>2, <2>1, <2>2
    <3>2. QED
      BY <1>1, <1>2, <1>3, <1>5, <2>1, <3>1
  <2>3. QED
    BY <1>4, <2>1, <2>2 DEF Says
<1>6. ASSUME NEW v, Says(lines, k, v) PROVE S # {} /\ v = Value(lines, k)
  <2>1. PICK i \in 1..n : lines[i].key = k /\ lines[i].text = v /\ \A j \in (i + 1)..n : lines[j].key # k
    BY <1>6 DEF Says
  <2>2. i \in S
    BY <1>2, <2>1
  <2>3. m \in S /\ m >= i /\ m \in 1..n /\ i \in 1..n
    BY <1>2, <1>3, <2>2
  <2>4. m = i
    <3>1. m \notin (i + 1)..n
      BY <1>2, <2>1, <2>3
    <3>2. QED
      BY <1>1, <2>3, <3>1
  <2>5. QED
    BY <1>4, <2>1, <2>2, <2>4
<1>7. \A l \in ToSet(lines) : l.key = k => S # {}
  BY <1>1, <1>2
<1>8. S # {} => \E l \in ToSet(lines) : l.key = k
  BY <1>1, <1>2
<1>9. QED
  BY <1>5, <1>6, <1>7, <1>8 DEF S

\* The environments after each of a sequence of records, and of files.
LEMMA BoundIs ==
  ASSUME NEW env, NEW rs, Len(rs) \in Nat
  PROVE  /\ Bound(env, rs)[0] = env
         /\ \A i \in 1..Len(rs) : Bound(env, rs)[i] = Extended(Bound(env, rs)[i - 1], rs[i])
<1> DEFINE Is(g, m) == g = [i \in 0..m |-> IF i = 0 THEN env ELSE Extended(g[i - 1], rs[i])]
           T == {m \in Nat : \E g : Is(g, m)}
<1>1. 0 \in T
  <2> DEFINE g == [i \in 0..0 |-> env]
  <2>1. Is(g, 0)
    OBVIOUS
  <2>2. QED
    BY <2>1
<1>2. ASSUME NEW m \in Nat, m \in T PROVE m + 1 \in T
  <2>1. PICK g : Is(g, m)
    BY <1>2
  <2> DEFINE h == [i \in 0..(m + 1) |-> IF i <= m THEN g[i] ELSE Extended(g[m], rs[m + 1])]
  <2>2. ASSUME NEW i \in 0..(m + 1)
        PROVE  h[i] = IF i = 0 THEN env ELSE Extended(h[i - 1], rs[i])
    <3>1. CASE i = 0
      BY <2>1, <3>1
    <3>2. CASE i > 0 /\ i <= m
      <4>1. i - 1 \in 0..(m + 1) /\ i - 1 <= m /\ i \in 0..m
        BY <3>2
      <4>2. h[i] = g[i] /\ h[i - 1] = g[i - 1]
        BY <3>2, <4>1
      <4>3. QED
        BY <2>1, <3>2, <4>1, <4>2
    <3>3. CASE i = m + 1
      <4>1. m \in 0..(m + 1) /\ m <= m /\ i - 1 = m /\ ~(i <= m) /\ i # 0
        BY <3>3
      <4>2. h[i] = Extended(g[m], rs[m + 1]) /\ h[m] = g[m]
        BY <4>1
      <4>3. QED
        BY <3>3, <4>1, <4>2
    <3>4. QED
      BY <3>1, <3>2, <3>3
  <2>3. Is(h, m + 1)
    BY <2>2
  <2> HIDE DEF h, Is
  <2>4. m + 1 \in Nat /\ \E f : Is(f, m + 1)
    BY <2>3
  <2>5. QED
    BY <2>4
<1>3. Len(rs) \in T
  <2> HIDE DEF T
  <2>1. Nat \subseteq T
    BY <1>1, <1>2, GoesOn
  <2>2. QED
    BY <2>1
<1>4. PICK g : Is(g, Len(rs))
  BY <1>3
<1> DEFINE b == Bound(env, rs)
<1>5. Is(b, Len(rs))
  BY <1>4 DEF Bound
<1> HIDE DEF b
<1>6. b[0] = env
  BY <1>5
<1>7. ASSUME NEW i \in 1..Len(rs) PROVE b[i] = Extended(b[i - 1], rs[i])
  <2>1. i \in 0..Len(rs) /\ i # 0
    OBVIOUS
  <2>2. QED
    BY <1>5, <2>1
<1>8. QED
  BY <1>6, <1>7 DEF b

LEMMA ThroughIs ==
  ASSUME NEW env, NEW files, Len(files) \in Nat
  PROVE  /\ Through(env, files)[0] = env
         /\ \A k \in 1..Len(files) :
              Through(env, files)[k] = Bound(Through(env, files)[k - 1], files[k])[Len(files[k])]
<1> DEFINE Is(g, m) == g = [k \in 0..m |-> IF k = 0 THEN env ELSE Bound(g[k - 1], files[k])[Len(files[k])]]
           T == {m \in Nat : \E g : Is(g, m)}
<1>1. 0 \in T
  <2> DEFINE g == [k \in 0..0 |-> env]
  <2>1. Is(g, 0)
    OBVIOUS
  <2>2. QED
    BY <2>1
<1>2. ASSUME NEW m \in Nat, m \in T PROVE m + 1 \in T
  <2>1. PICK g : Is(g, m)
    BY <1>2
  <2> DEFINE h == [k \in 0..(m + 1) |->
                     IF k <= m THEN g[k] ELSE Bound(g[m], files[m + 1])[Len(files[m + 1])]]
  <2>2. ASSUME NEW k \in 0..(m + 1)
        PROVE  h[k] = IF k = 0 THEN env ELSE Bound(h[k - 1], files[k])[Len(files[k])]
    <3>1. CASE k = 0
      BY <2>1, <3>1
    <3>2. CASE k > 0 /\ k <= m
      <4>1. k - 1 \in 0..(m + 1) /\ k - 1 <= m /\ k \in 0..m
        BY <3>2
      <4>2. h[k] = g[k] /\ h[k - 1] = g[k - 1]
        BY <3>2, <4>1
      <4>3. QED
        BY <2>1, <3>2, <4>1, <4>2
    <3>3. CASE k = m + 1
      <4>1. m \in 0..(m + 1) /\ m <= m /\ k - 1 = m /\ ~(k <= m) /\ k # 0
        BY <3>3
      <4>2. h[k] = Bound(g[m], files[m + 1])[Len(files[m + 1])] /\ h[m] = g[m]
        BY <4>1
      <4>3. QED
        BY <3>3, <4>1, <4>2
    <3>4. QED
      BY <3>1, <3>2, <3>3
  <2>3. Is(h, m + 1)
    BY <2>2
  <2> HIDE DEF h, Is
  <2>4. m + 1 \in Nat /\ \E f : Is(f, m + 1)
    BY <2>3
  <2>5. QED
    BY <2>4
<1>3. Len(files) \in T
  <2> HIDE DEF T
  <2>1. Nat \subseteq T
    BY <1>1, <1>2, GoesOn
  <2>2. QED
    BY <2>1
<1>4. PICK g : Is(g, Len(files))
  BY <1>3
<1> DEFINE t == Through(env, files)
<1>5. Is(t, Len(files))
  BY <1>4 DEF Through
<1> HIDE DEF t
<1>6. t[0] = env
  BY <1>5
<1>7. ASSUME NEW k \in 1..Len(files) PROVE t[k] = Bound(t[k - 1], files[k])[Len(files[k])]
  <2>1. k \in 0..Len(files) /\ k # 0
    OBVIOUS
  <2>2. QED
    BY <1>5, <2>1
<1>8. QED
  BY <1>6, <1>7 DEF t

\* What an operand holds is a file, and its records are read one by one.
LEMMA OriginalIs ==
  ASSUME ShGiven, NEW k
  PROVE  DOMAIN Original(k) = DOMAIN Nothing /\ IsSeq(Original(k).records)
<1>1. DOMAIN Nothing = DOMAIN Nothing /\ IsSeq(Nothing.records)
  <2>1. \A S : <<>> \in Seq(S)
    OBVIOUS
  <2>2. QED
    BY <2>1 DEF Nothing, IsSeq
<1>2. \A c \in Range(shell.files) \cup {shell.piped} : DOMAIN c = DOMAIN Nothing /\ IsSeq(c.records)
  BY DEF ShGiven, ShellOk, IsSeq
<1>3. given[k] \in DOMAIN shell.files => shell.files[given[k]] \in Range(shell.files)
  BY DEF Range
<1> HIDE DEF Nothing
<1>4. Original(k) = Nothing \/ Original(k) \in Range(shell.files) \cup {shell.piped}
  BY <1>3 DEF Original
<1>5. QED
  BY <1>1, <1>2, <1>4

LEMMA RecordsAre ==
  ASSUME ShGiven, NEW k
  PROVE  /\ Len(RecordsRead(k)) = Len(Original(k).records) /\ Len(RecordsRead(k)) \in Nat
         /\ \A i \in 1..Len(RecordsRead(k)) :
              RecordsRead(k)[i] = IF i = 1 /\ Original(k).bom /\ sets.bom # "strip"
                                  THEN WithBom(Original(k).records[i]) ELSE Original(k).records[i]
<1> DEFINE c == Original(k)
           n == Len(c.records)
<1>1. n \in Nat
  BY OriginalIs, SeqParts
<1> DEFINE f == [i \in 1..n |-> IF i = 1 /\ c.bom /\ sets.bom # "strip" THEN WithBom(c.records[i]) ELSE c.records[i]]
<1>2. RecordsRead(k) = f
  BY DEF RecordsRead
<1> HIDE DEF n, c
<1>3. DOMAIN f = 1..n /\ \A i \in 1..n : f[i] = IF i = 1 /\ c.bom /\ sets.bom # "strip"
                                                THEN WithBom(c.records[i]) ELSE c.records[i]
  OBVIOUS
<1> DEFINE T == {f[i] : i \in 1..n}
<1>4. f \in [1..n -> T]
  OBVIOUS
<1> HIDE DEF f, T
<1>5. f \in Seq(T)
  BY <1>1, <1>4
<1>6. Len(f) = n
  BY <1>1, <1>3, <1>5
<1>7. QED
  BY <1>1, <1>2, <1>3, <1>6 DEF c, n

LEMMA EnvGrows ==
  ASSUME ShGiven
  PROVE  /\ EnvAfter[0] = Inherited
         /\ \A k \in 1..Len(given) :
              EnvAfter[k] = Bound(EnvAfter[k - 1], RecordsRead(k))[Len(RecordsRead(k))]
<1> DEFINE n == Len(given)
           files == [k \in 1..n |-> RecordsRead(k)]
           T == {RecordsRead(k) : k \in 1..n}
<1>1. n \in Nat
  BY DEF ShGiven
<1>2. EnvAfter = Through(Inherited, files)
  BY DEF EnvAfter
<1>3. DOMAIN files = 1..n /\ \A k \in 1..n : files[k] = RecordsRead(k)
  OBVIOUS
<1>4. files \in [1..n -> T]
  OBVIOUS
<1> HIDE DEF n, files, T
<1>5. files \in Seq(T)
  BY <1>1, <1>4
<1>6. Len(files) = n
  BY <1>1, <1>3, <1>5
<1> DEFINE e == Inherited
<1> HIDE DEF e
<1>7. /\ Through(e, files)[0] = e
      /\ \A k \in 1..n : Through(e, files)[k] = Bound(Through(e, files)[k - 1], files[k])[Len(files[k])]
  BY <1>1, <1>6, ThroughIs
<1>8. QED
  BY <1>2, <1>3, <1>7 DEF e, n

\* A binding appended is what the lines say of its name, and nothing else.
LEMMA SaysAppended ==
  ASSUME NEW s, IsSeq(s), NEW b
  PROVE  /\ Says(Append(s, b), b.key, b.text)
         /\ \A k, v : k # b.key /\ Says(s, k, v) => Says(Append(s, b), k, v)
         /\ IsSeq(Append(s, b)) /\ ToSet(Append(s, b)) = ToSet(s) \cup {b}
         /\ b \notin ToSet(s) /\ IsInjective(s) => IsInjective(Append(s, b))
<1> DEFINE a == Append(s, b)
           n == Len(s)
<1>1. /\ IsSeq(a) /\ Len(a) = n + 1 /\ n \in Nat /\ a[n + 1] = b
      /\ \A i \in 1..n : a[i] = s[i]
  BY Appended
<1> HIDE DEF a
<1>2. ToSet(a) = {a[i] : i \in 1..(n + 1)} /\ ToSet(s) = {s[i] : i \in 1..n}
  BY <1>1, SeqParts
<1>3. DOMAIN a = 1..(n + 1) /\ DOMAIN s = 1..n
  BY <1>1 DEF IsSeq
<1>4. Len(a) = n + 1 /\ Len(s) = n
  BY <1>1
<1> HIDE DEF n
<1>5. Says(a, b.key, b.text)
  <2>1. n + 1 \in 1..(n + 1) /\ ((n + 1) + 1)..(n + 1) = {}
    BY <1>1
  <2>2. QED
    BY <1>1, <1>4, <2>1 DEF Says
<1>6. ASSUME NEW k, NEW v, k # b.key, Says(s, k, v) PROVE Says(a, k, v)
  <2>1. PICK i \in 1..n : s[i].key = k /\ s[i].text = v /\ \A j \in (i + 1)..n : s[j].key # k
    BY <1>4, <1>6 DEF Says
  <2>2. i \in 1..(n + 1) /\ a[i].key = k /\ a[i].text = v
    BY <1>1, <2>1
  <2>3. ASSUME NEW j \in (i + 1)..(n + 1) PROVE a[j].key # k
    <3>1. (j \in (i + 1)..n /\ j \in 1..n) \/ j = n + 1
      BY <1>1, <2>1
    <3>2. QED
      BY <1>1, <1>6, <2>1, <3>1
  <2>4. QED
    BY <1>4, <2>2, <2>3 DEF Says
<1>7. \A i \in 1..(n + 1) : i \in 1..n \/ i = n + 1
  BY <1>1
<1>8. ToSet(a) = ToSet(s) \cup {b}
  <2>1. \A i \in 1..n : i \in 1..(n + 1)
    BY <1>1
  <2>2. n + 1 \in 1..(n + 1)
    BY <1>1
  <2>3. QED
    BY <1>1, <1>2, <1>7, <2>1, <2>2
<1>9. ASSUME b \notin ToSet(s), IsInjective(s) PROVE IsInjective(a)
  <2> SUFFICES ASSUME NEW i \in 1..(n + 1), NEW j \in 1..(n + 1), a[i] = a[j] PROVE i = j
    BY <1>3 DEF IsInjective
  <2>1. \A k \in 1..n : a[k] # b
    BY <1>1, <1>2, <1>9
  <2>2. i = n + 1 <=> j = n + 1
    BY <1>1, <1>7, <2>1
  <2>3. CASE i # n + 1
    BY <1>1, <1>3, <1>7, <1>9, <2>2, <2>3 DEF IsInjective
  <2>4. QED
    BY <2>2, <2>3
<1>10. QED
  BY <1>1, <1>5, <1>6, <1>8, <1>9 DEF a

\* Of the environment the store starts with its lines say the last values.
LEMMA MirrorsInherited ==
  ASSUME IsSeq(shell.lines), \A l \in ToSet(shell.lines) : l = [key |-> l.key, text |-> l.text],
         NEW kept, NEW left, left = <<>>, Thins(shell.lines, kept, left, {"", "ENVFILE"})
  PROVE  Mirrors(kept, Inherited, shell.lines)
<1> DEFINE first == shell.lines
<1>1. /\ IsSeq(kept)
      /\ \A k, v : k \notin {"", "ENVFILE"} /\ Says(first, k, v) => Says(kept, k, v)
      /\ \A l \in ToSet(kept) : l.key \notin {"", "ENVFILE"} /\ l \in ToSet(first)
      /\ IsInjective(first) => IsInjective(kept)
  BY ThinsEnd
<1>2. /\ DOMAIN Inherited = {l.key : l \in ToSet(first)} \ {"", "ENVFILE"}
      /\ \A k \in DOMAIN Inherited : Inherited[k] = Value(first, k)
  BY DEF Inherited
<1> HIDE DEF first
<1>3. IsSeq(first) /\ \A l \in ToSet(first) : l = [key |-> l.key, text |-> l.text]
  BY DEF first
<1>4. ASSUME NEW k \in DOMAIN Inherited PROVE Says(kept, k, Inherited[k])
  <2>1. k \notin {"", "ENVFILE"} /\ \E l \in ToSet(first) : l.key = k
    BY <1>2
  <2>2. Says(first, k, Value(first, k))
    BY <1>3, <2>1, ValueSays
  <2>3. QED
    BY <1>1, <1>2, <2>1, <2>2
<1>5. ASSUME NEW l \in ToSet(kept)
      PROVE  /\ l.key \in DOMAIN Inherited /\ l = [key |-> l.key, text |-> l.text]
             /\ l.text = Inherited[l.key] \/ l \in Earlier(first)
  <2>1. l \in ToSet(first) /\ l.key \in DOMAIN Inherited
    BY <1>1, <1>2
  <2>2. QED
    BY <1>2, <1>3, <2>1 DEF Earlier
<1>6. Mirrors(kept, Inherited, first)
  BY <1>1, <1>4, <1>5 DEF Mirrors
<1>7. QED
  BY <1>6 DEF first

\* A binding replaces the lines of its name.
LEMMA MirrorsBound ==
  ASSUME NEW s, NEW env, NEW first, Mirrors(s, env, first), NEW b, b = [key |-> b.key, text |-> b.text],
         NEW kept, NEW left, left = <<>>, Thins(s, kept, left, {b.key}),
         NEW r, r.key = b.key, b.text = IF r.ref = "" THEN r.text ELSE env[r.ref]
  PROVE  Mirrors(Append(kept, b), Extended(env, r), first)
<1> DEFINE a == Append(kept, b)
           e == Extended(env, r)
<1>1. /\ IsSeq(kept)
      /\ \A k, v : k \notin {b.key} /\ Says(s, k, v) => Says(kept, k, v)
      /\ \A l \in ToSet(kept) : l.key \notin {b.key} /\ l \in ToSet(s)
      /\ IsInjective(s) => IsInjective(kept)
  BY ThinsEnd
<1>2. /\ Says(a, b.key, b.text)
      /\ \A k, v : k # b.key /\ Says(kept, k, v) => Says(a, k, v)
      /\ IsSeq(a) /\ ToSet(a) = ToSet(kept) \cup {b}
      /\ b \notin ToSet(kept) /\ IsInjective(kept) => IsInjective(a)
  BY <1>1, SaysAppended
<1>3. /\ DOMAIN e = DOMAIN env \cup {b.key} /\ e[b.key] = b.text
      /\ \A k \in DOMAIN env : k # b.key => e[k] = env[k]
  BY DEF Extended
<1> HIDE DEF a, e
<1>4. \A k \in DOMAIN e : Says(a, k, e[k])
  BY <1>1, <1>2, <1>3 DEF Mirrors
<1>5. ASSUME NEW l \in ToSet(a)
      PROVE  /\ l.key \in DOMAIN e /\ l = [key |-> l.key, text |-> l.text]
             /\ l.text = e[l.key] \/ l \in Earlier(first)
  <2>1. CASE l = b
    BY <1>3, <2>1
  <2>2. CASE l \in ToSet(kept)
    BY <1>1, <1>3, <2>2 DEF Mirrors
  <2>3. QED
    BY <1>2, <2>1, <2>2
<1>6. IsInjective(first) => IsInjective(a)
  BY <1>1, <1>2 DEF Mirrors
<1>7. Mirrors(a, e, first)
  BY <1>2, <1>4, <1>5, <1>6 DEF Mirrors
<1>8. QED
  BY <1>7 DEF a, e

\* What is left of the store without ENVFILE_* is what is wanted.
LEMMA MirrorsListed ==
  ASSUME NEW s, NEW env, NEW first, Mirrors(s, env, first),
         NEW kept, NEW left, left = <<>>, Thins(s, kept, left, {"ENVFILE"})
  PROVE  ListsOf(kept, env, first)
<1>1. /\ IsSeq(kept)
      /\ \A k, v : k \notin {"ENVFILE"} /\ Says(s, k, v) => Says(kept, k, v)
      /\ \A l \in ToSet(kept) : l.key \notin {"ENVFILE"} /\ l \in ToSet(s)
      /\ IsInjective(s) => IsInjective(kept)
  BY ThinsEnd
<1> DEFINE wanted == {[key |-> k, text |-> env[k]] : k \in DOMAIN env \ {"ENVFILE"}}
<1>2. ASSUME NEW k \in DOMAIN env \ {"ENVFILE"} PROVE [key |-> k, text |-> env[k]] \in ToSet(kept)
  <2>1. Says(kept, k, env[k])
    BY <1>1 DEF Mirrors
  <2>2. PICK i \in 1..Len(kept) : kept[i].key = k /\ kept[i].text = env[k]
    BY <2>1 DEF Says
  <2>3. kept[i] \in ToSet(kept)
    BY <1>1, SeqParts
  <2>4. kept[i] = [key |-> kept[i].key, text |-> kept[i].text]
    BY <1>1, <2>3 DEF Mirrors
  <2>5. QED
    BY <2>2, <2>3, <2>4
<1>3. ASSUME NEW l \in ToSet(kept) PROVE l \in wanted \cup Earlier(first)
  <2>1. l.key \in DOMAIN env \ {"ENVFILE"} /\ l = [key |-> l.key, text |-> l.text]
        /\ (l.text = env[l.key] \/ l \in Earlier(first))
    BY <1>1 DEF Mirrors
  <2>2. QED
    BY <2>1
<1>4. IsInjective(first) => IsInjective(kept)
  BY <1>1 DEF Mirrors
<1>5. QED
  BY <1>2, <1>3, <1>4 DEF ListsOf

\* What the operands hold does not change while they are read.
LEMMA EnvStays ==
  ASSUME UNCHANGED <<shell, sets, given>>
  PROVE  EnvAfter' = EnvAfter /\ Reads' = Reads /\ Originals' = Originals
<1>1. Originals' = Originals
  BY DEF Originals, Original
<1>2. Reads' = Reads
  BY DEF Reads, RecordsRead, Original, WithBom
<1>3. Inherited' = Inherited
  BY DEF Inherited
<1>4. EnvAfter = Through(Inherited, Reads)
  BY DEF EnvAfter, Reads
<1>5. EnvAfter' = Through(Inherited', Reads')
  BY DEF EnvAfter, Reads
<1>6. QED
  BY <1>1, <1>2, <1>3, <1>4, <1>5

\* Of the operand being read: the environment before its first record, from one
\* record to the next, and behind the last.
LEMMA EnvWhile ==
  ASSUME ShGiven, operands # <<>>
  PROVE  /\ Done \in Nat /\ Done + 1 \in 1..Len(given) /\ Head(operands) = given[Done + 1]
         /\ Len(Reads[Done + 1]) \in Nat
         /\ at_line = 1 => EnvNow = EnvAfter[Done]
         /\ at_line \in 1..Len(Reads[Done + 1]) =>
              Bound(EnvAfter[Done], Reads[Done + 1])[at_line] = Extended(EnvNow, Current)
         /\ at_line = Len(Reads[Done + 1]) + 1 => EnvNow = EnvAfter[Done + 1]
<1> DEFINE d == Done
           rs == Reads[d + 1]
           n == Len(rs)
           e == EnvAfter[d]
<1>1. d \in Nat /\ d + 1 \in 1..Len(given) /\ Head(operands) = given[d + 1]
  BY AtOperand
<1>2. (d + 1) - 1 = d
  BY <1>1
<1>3. rs = RecordsRead(d + 1)
  BY <1>1 DEF Reads
<1>4. EnvNow = Bound(e, rs)[at_line - 1] /\ Current = rs[at_line]
  BY DEF EnvNow, Current
<1> HIDE DEF d
<1>5. n \in Nat
  BY <1>3, RecordsAre
<1>6. EnvAfter[d + 1] = Bound(e, rs)[n]
  BY <1>1, <1>2, <1>3, EnvGrows
<1> HIDE DEF e, rs
<1>7. Bound(e, rs)[0] = e /\ \A i \in 1..n : Bound(e, rs)[i] = Extended(Bound(e, rs)[i - 1], rs[i])
  BY <1>5, BoundIs
<1> HIDE DEF n
<1>8. at_line = 1 => EnvNow = e
  BY <1>4, <1>7
<1>9. at_line \in 1..n => Bound(e, rs)[at_line] = Extended(EnvNow, Current)
  BY <1>4, <1>7
<1>10. at_line = n + 1 => EnvNow = EnvAfter[d + 1]
  BY <1>4, <1>5, <1>6
<1>11. QED
  BY <1>1, <1>5, <1>8, <1>9, <1>10 DEF d, rs, n, e

\* The line at hand is the record that the operand has there.
LEMMA RecordIs ==
  ASSUME ShGiven, operands # <<>>, step = "line", SourceIs
  PROVE  /\ Len(Content.records) = Len(Reads[Done + 1])
         /\ at_line \in 1..Len(Reads[Done + 1]) => Record = Current
<1> DEFINE d == Done + 1
           o == Original(d)
<1>1. d \in 1..Len(given)
  BY AtOperand
<1>2. Reads[d] = RecordsRead(d) /\ Originals[d] = o
  BY <1>1 DEF Reads, Originals
<1>3. Content.records = o.records /\ (Content.bom <=> o.bom /\ sets.bom # "strip")
  BY <1>2 DEF SourceIs, BeforeCrlf
<1>4. Current = RecordsRead(d)[at_line]
  BY <1>2 DEF Current
<1> HIDE DEF d
<1>5. /\ Len(RecordsRead(d)) = Len(o.records)
      /\ \A i \in 1..Len(RecordsRead(d)) :
           RecordsRead(d)[i] = IF i = 1 /\ o.bom /\ sets.bom # "strip" THEN WithBom(o.records[i]) ELSE o.records[i]
  BY RecordsAre
<1> HIDE DEF o
<1>6. Record = IF at_line = 1 /\ Content.bom THEN WithBom(Content.records[at_line]) ELSE Content.records[at_line]
  BY DEF Record
<1>7. ASSUME at_line \in 1..Len(RecordsRead(d)) PROVE Record = Current
  <2>1. CASE at_line = 1 /\ Content.bom
    BY <1>3, <1>4, <1>5, <1>6, <1>7, <2>1
  <2>2. CASE ~(at_line = 1 /\ Content.bom)
    BY <1>3, <1>4, <1>5, <1>6, <1>7, <2>2
  <2>3. QED
    BY <2>1, <2>2
<1>8. QED
  BY <1>2, <1>3, <1>5, <1>7 DEF d

\* Nothing that went wrong is forgotten.
LEMMA Forwards ==
  ASSUME RunInv, ShellNext
  PROVE  UNCHANGED <<shell, sets, given>> /\ (Faultless' => Faultless /\ errs' = errs)
<1>1. UNCHANGED <<shell, sets, given>>
  BY DEF ShellNext, NoTemp, End, InitEnvStore, FillStore, StoreFilled, OpenFile, SlurpStdin, RejectInput,
         PassOver, Copy, CopyNowhere, CheckRecord, BindRecord, CopyLine, AppendBinding, MoveStore,
         CleanUp, NextOperand, EmitEnv, Sort, ShellExit, Interrupted
<1>2. errs' = errs \/ errs' = errs + 1
  BY DEF ShellNext, NoTemp, End, InitEnvStore, FillStore, StoreFilled, OpenFile, SlurpStdin, RejectInput,
         PassOver, Copy, CopyNowhere, CheckRecord, BindRecord, CopyLine, AppendBinding, MoveStore,
         CleanUp, NextOperand, EmitEnv, Sort, ShellExit, Interrupted
<1>3. signalled' = signalled \/ signalled' = TRUE
  BY DEF ShellNext, NoTemp, End, InitEnvStore, FillStore, StoreFilled, OpenFile, SlurpStdin, RejectInput,
         PassOver, Copy, CopyNowhere, CheckRecord, BindRecord, CopyLine, AppendBinding, MoveStore,
         CleanUp, NextOperand, EmitEnv, Sort, ShellExit, Interrupted
<1>4. errs' = 0 => errs = 0
  <2>1. \A e \in Nat : e + 1 # 0
    OBVIOUS
  <2>2. errs \in Nat
    BY DEF RunInv
  <2>3. QED
    BY <1>2, <2>1, <2>2
<1>5. QED
  BY <1>1, <1>3, <1>4 DEF Faultless

-----------------------------------------------------------------------------
(* Each step of the shell keeps them.                                       *)

LEMMA LeftIs ==
  ASSUME NEW in, NEW names
  PROVE  /\ LeftOf(in, names, 0) = in
         /\ \A n \in Nat : LeftOf(in, names, n + 1) = IF names[n + 1] = "-" THEN Nothing ELSE LeftOf(in, names, n)
<1> HIDE DEF Nothing
<1>1. LeftOf(in, names, 0) = in
  BY DEF LeftOf
<1>2. ASSUME NEW n \in Nat
      PROVE  LeftOf(in, names, n + 1) = IF names[n + 1] = "-" THEN Nothing ELSE LeftOf(in, names, n)
  <2>1. \A j : j \in 1..(n + 1) <=> j \in 1..n \/ j = n + 1
    OBVIOUS
  <2> DEFINE here(k) == \E j \in 1..k : names[j] = "-"
  <2>2. here(n + 1) <=> here(n) \/ names[n + 1] = "-"
    BY <2>1
  <2>3. \A k : LeftOf(in, names, k) = IF here(k) THEN Nothing ELSE in
    BY DEF LeftOf
  <2> HIDE DEF here
  <2>4. QED
    BY <2>2, <2>3
<1>3. QED
  BY <1>1, <1>2

\* The status is 0 only at the end, and only if nothing was reported.
LEMMA CodeTells ==
  ASSUME RunInv, ShellNext
  PROVE  errs' \in Nat /\ (code' = 0 => step' = "end" /\ errs' = 0)
<1>1. errs \in Nat /\ (code = 0 => step = "end")
  BY DEF RunInv
<1>2. CASE NoTemp
  BY <1>1, <1>2 DEF NoTemp, End
<1>3. CASE ShellExit
  <2>1. errs' = errs /\ code' = (IF errs > 0 THEN 1 ELSE 0) /\ step' = "end"
    BY <1>3 DEF ShellExit, End
  <2>2. \A e \in Nat : ~(e > 0) => e = 0
    OBVIOUS
  <2>3. QED
    BY <1>1, <2>1, <2>2
<1>4. CASE ~NoTemp /\ ~ShellExit
  <2>1. step # "end" /\ code' = code
    BY <1>4 DEF ShellNext, InitEnvStore, FillStore, StoreFilled, OpenFile, SlurpStdin, RejectInput, Stage,
           PassOver, Copy, CopyNowhere, Copies, CheckRecord, AtRecord, BindRecord, CopyLine, AppendBinding,
           MoveStore, CleanUp, NextOperand, EmitEnv, Sort, Interrupted
  <2>2. errs' = errs \/ errs' = errs + 1
    BY <1>4 DEF ShellNext, InitEnvStore, FillStore, StoreFilled, OpenFile, SlurpStdin, RejectInput,
           PassOver, Copy, CopyNowhere, CheckRecord, BindRecord, CopyLine, AppendBinding,
           MoveStore, CleanUp, NextOperand, EmitEnv, Sort, Interrupted
  <2>3. \A e \in Nat : e + 1 \in Nat
    OBVIOUS
  <2>4. QED
    BY <1>1, <2>1, <2>2, <2>3
<1>5. QED
  BY <1>2, <1>3, <1>4

LEMMA RunKeeps == ASSUME ShInv, RunInv, ShellNext PROVE RunInv'
<1>1. errs' \in Nat /\ (code' = 0 => step' = "end" /\ errs' = 0) /\ UNCHANGED <<shell, given>>
  BY CodeTells, Forwards
<1> DEFINE left(n) == LeftOf(shell.piped, given, n)
<1>2. \A n : left(n)' = left(n)
  BY <1>1
<1> HIDE DEF left
<1> USE DEF BeforeLine, BeforeCont, BeforeCrlf
<1>3. SUFFICES /\ step' # "idle"
               /\ step' \in {"seed", "fill"} => Done' = 0
               /\ step' \in {"seed", "fill", "file"} \cup BeforeLine => at_line' = 1
               /\ step' \in {"seed", "fill", "file"} => piped' = left(Done')
               /\ Reading' \/ step' = "drop" => piped' = left(Done' + 1)
  BY <1>1, <1>2 DEF RunInv, left
<1>4. /\ step \in {"seed", "fill"} => Done = 0
      /\ step \in {"seed", "fill", "file"} \cup BeforeLine => at_line = 1
      /\ step \in {"seed", "fill", "file"} => piped = left(Done)
      /\ Reading \/ step = "drop" => piped = left(Done + 1)
  BY DEF RunInv, left
<1>5. \A n \in Nat : left(n + 1) = IF given[n + 1] = "-" THEN Nothing ELSE left(n)
  BY LeftIs DEF left
<1>6. operands' = operands => Done' = Done
  BY <1>1 DEF Done
<1>7. CASE NoTemp \/ ShellExit
  BY <1>7 DEF NoTemp, ShellExit, End, Reading
<1>8. CASE InitEnvStore
  BY <1>4, <1>6, <1>8 DEF InitEnvStore, Reading
<1>9. CASE FillStore \/ StoreFilled
  BY <1>4, <1>6, <1>9 DEF FillStore, StoreFilled, Reading
<1>10. CASE OpenFile
  <2>1. /\ step = "file" /\ operands # <<>> /\ Head(operands) # "-" /\ step' = "nul"
        /\ UNCHANGED <<operands, piped, at_line>>
    BY <1>10 DEF OpenFile
  <2>2. Done \in Nat /\ Head(operands) = given[Done + 1]
    BY <2>1, AtOperand DEF ShInv
  <2>3. left(Done + 1) = left(Done)
    BY <1>5, <2>1, <2>2
  <2>4. QED
    BY <1>4, <1>6, <2>1, <2>3
<1>11. CASE SlurpStdin
  <2>1. /\ step = "file" /\ operands # <<>> /\ Head(operands) = "-" /\ step' = "nul"
        /\ UNCHANGED <<operands, at_line>> /\ piped' = Nothing
    BY <1>11 DEF SlurpStdin
  <2>2. Done \in Nat /\ Head(operands) = given[Done + 1]
    BY <2>1, AtOperand DEF ShInv
  <2>3. left(Done + 1) = Nothing
    BY <1>5, <2>1, <2>2
  <2>4. QED
    BY <1>4, <1>6, <2>1, <2>3
<1>12. CASE RejectInput
  BY <1>4, <1>6, <1>12 DEF RejectInput, Reading
<1>13. CASE PassOver \/ Copy \/ CopyNowhere
  <2>1. step \in DOMAIN Stage /\ step' = Stage[step] /\ UNCHANGED <<operands, piped, at_line>>
    BY <1>13 DEF PassOver, Copy, CopyNowhere, Copies, Stage
  <2>2. step \in {"nul", "bom", "crlf", "cont"} /\ step' \in {"bom", "crlf", "cont", "line"}
    BY <2>1 DEF Stage
  <2>3. QED
    BY <1>4, <1>6, <2>1, <2>2 DEF Reading
<1>14. CASE CheckRecord \/ BindRecord
  BY <1>4, <1>6, <1>14 DEF CheckRecord, BindRecord, AtRecord, Reading
<1>15. CASE CopyLine \/ AppendBinding
  BY <1>4, <1>6, <1>15 DEF CopyLine, AppendBinding, Reading
<1>16. CASE MoveStore \/ CleanUp
  BY <1>4, <1>6, <1>16 DEF MoveStore, CleanUp, Reading
<1>17. CASE NextOperand
  <2>1. step = "drop" /\ operands # <<>> /\ operands' = Tail(operands) /\ at_line' = 1 /\ step' = "file" /\ piped' = piped
    BY <1>17 DEF NextOperand, ShInv, ShGiven
  <2>2. Done' = Done + 1
    BY <1>1, <2>1, AtOperand DEF Done, ShInv
  <2>3. QED
    BY <1>4, <2>1, <2>2 DEF Reading
<1>18. CASE EmitEnv \/ Sort
  BY <1>18 DEF EmitEnv, Sort, Reading
<1>19. CASE Interrupted
  <2>1. step \notin {"idle", "seed", "fill", "end", "delegated"} /\ UNCHANGED <<step, operands, piped, at_line>>
    BY <1>19 DEF Interrupted
  <2>2. Reading' <=> Reading
    BY <2>1 DEF Reading
  <2>3. QED
    BY <1>4, <1>6, <2>1, <2>2
<1>20. QED
  BY <1>7, <1>8, <1>9, <1>10, <1>11, <1>12, <1>13, <1>14, <1>15, <1>16, <1>17, <1>18, <1>19 DEF ShellNext

\* The input is never the store.
LEMMA InputApart == ASSUME ShInv, Reading PROVE operands # <<>> /\ input \notin {STORE, SPARE}
<1>1. operands # <<>>
  BY DEF ShInv, ShGiven
<1>2. InPlace => input \notin {STORE, SPARE}
  BY <1>1, AtOperand DEF ShInv, InPlace
<1>3. InCopy => input \in Temps
  BY DEF InCopy, Lying
<1>4. Nowhere => input = ""
  BY DEF Nowhere
<1>5. Temps \cap {STORE, SPARE, ""} = {} /\ "" \notin {STORE, SPARE}
  BY Apart DEF ShInv, STORE, SPARE
<1>6. QED
  BY <1>1, <1>2, <1>3, <1>4, <1>5 DEF ShInv, CopiesBounded

\* While the store is rewritten the content of the input stays.
LEMMA SourceStays ==
  ASSUME ShInv, SourceInv, Faultless, Reading, UNCHANGED <<shell, sets, given, operands, input>>,
         step \in {"line", "copy", "move"}, step' \in {"line", "copy", "move"},
         \A q \in DOMAIN disk \ {STORE, SPARE} : q \in DOMAIN disk' /\ disk'[q] = disk[q]
  PROVE  input' \in DOMAIN disk' /\ SourceIs'
<1>1. input \in DOMAIN disk /\ SourceIs
  BY DEF SourceInv
<1>2. input' \in DOMAIN disk' /\ disk'[input'] = disk[input]
  BY <1>1, InputApart
<1>3. Content' = Content
  BY <1>1, <1>2 DEF Content
<1>4. Done' = Done /\ Originals' = Originals
  BY EnvStays DEF Done
<1>5. SourceIs'
  BY <1>1, <1>3, <1>4 DEF SourceIs, BeforeCrlf
<1>6. QED
  BY <1>2, <1>5

LEMMA SourceKeeps == ASSUME ShInv, RunInv, SourceInv, ShellNext PROVE SourceInv'
<1> SUFFICES ASSUME Faultless', Reading'
             PROVE  (step' # "nul" => input' \in DOMAIN disk') /\ (input' \in DOMAIN disk' => SourceIs')
  BY DEF SourceInv
<1>1. UNCHANGED <<shell, sets, given>> /\ Faultless /\ errs' = errs
  BY Forwards
<1>2. Originals' = Originals /\ (operands' = operands => Done' = Done)
  BY <1>1, EnvStays DEF Done
<1> USE DEF BeforeLine, BeforeCont, BeforeCrlf
<1>3. Reading => /\ step # "nul" => input \in DOMAIN disk
                 /\ input \in DOMAIN disk => SourceIs
  BY <1>1 DEF SourceInv
<1>4. Faultless => errs \in Nat /\ errs + 1 # errs
  <2>1. \A e \in Nat : e + 1 # e
    OBVIOUS
  <2>2. QED
    BY <2>1 DEF RunInv
<1>5. CASE InitEnvStore \/ FillStore \/ StoreFilled \/ NextOperand \/ CleanUp \/ RejectInput \/ NoTemp \/ ShellExit
  BY <1>5 DEF InitEnvStore, FillStore, StoreFilled, NextOperand, CleanUp, RejectInput, NoTemp, ShellExit, End, Reading
<1>6. CASE EmitEnv \/ Sort
  BY <1>6 DEF EmitEnv, Sort, Reading
<1>7. CASE Interrupted \/ CopyNowhere
  BY <1>1, <1>7 DEF Interrupted, CopyNowhere, Faultless
<1>8. CASE OpenFile
  <2>1. /\ step = "file" /\ operands # <<>> /\ Head(operands) # "-" /\ input' = Head(operands) /\ step' = "nul"
        /\ UNCHANGED <<operands, disk>>
    BY <1>8 DEF OpenFile
  <2>2. Done + 1 \in 1..Len(given) /\ input' = given[Done + 1] /\ input' \notin Temps \cup {STORE, SPARE}
    BY <2>1, AtOperand DEF ShInv
  <2>3. ASSUME input' \in DOMAIN disk' PROVE SourceIs'
    <3>1. input' \in DOMAIN shell.files /\ disk'[input'] = shell.files[input']
      BY <2>1, <2>2, <2>3 DEF ShInv, FilesKept
    <3>2. Content' = shell.files[input']
      BY <2>3, <3>1 DEF Content
    <3>3. Originals[Done + 1] = shell.files[input']
      BY <2>1, <2>2, <3>1 DEF Originals, Original
    <3>4. DOMAIN (shell.files[input']) = DOMAIN Nothing
      BY <3>1 DEF ShInv, ShGiven, ShellOk, Range
    <3>5. QED
      BY <1>2, <2>1, <3>2, <3>3, <3>4 DEF SourceIs
  <2>4. QED
    BY <2>1, <2>3
<1>9. CASE SlurpStdin
  <2>1. /\ step = "file" /\ operands # <<>> /\ Head(operands) = "-" /\ input' = Fresh /\ step' = "nul"
        /\ disk' = Written(Fresh, piped) /\ UNCHANGED operands
    BY <1>9 DEF SlurpStdin
  <2>2. Done \in Nat /\ Done + 1 \in 1..Len(given) /\ given[Done + 1] = "-" /\ (Done + 1) - 1 = Done
    BY <2>1, AtOperand DEF ShInv
  <2>3. piped = LeftOf(shell.piped, given, Done)
    BY <2>1 DEF RunInv
  <2>4. Originals[Done + 1] = piped
    BY <2>2, <2>3 DEF Originals, Original, LeftOf
  <2>5. Content' = piped
    BY <2>1 DEF Content, Written
  <2>6. DOMAIN piped = DOMAIN Nothing
    BY <2>3 DEF LeftOf, ShInv, ShGiven, ShellOk
  <2>7. SourceIs'
    BY <1>2, <2>1, <2>4, <2>5, <2>6 DEF SourceIs
  <2>8. QED
    BY <2>1, <2>7
<1>10. CASE PassOver
  <2>1. /\ step \in DOMAIN Stage /\ step' = Stage[step] /\ ~Copies /\ UNCHANGED <<operands, input, disk>>
        /\ step = "nul" => input \in DOMAIN disk
        /\ step = "bom" => ~(Content.bom /\ sets.bom = "reject")
    BY <1>10 DEF PassOver, paths
  <2>2. step \in {"nul", "bom", "crlf", "cont"} /\ step' \in {"bom", "crlf", "cont", "line"}
        /\ (step' \in BeforeCrlf <=> step = "nul") /\ (step \in BeforeCrlf <=> step \in {"nul", "bom"})
    BY <2>1 DEF Stage
  <2>3. input \in DOMAIN disk /\ SourceIs
    BY <1>3, <2>1, <2>2 DEF Reading
  <2>4. Content' = Content /\ input' = input /\ disk' = disk
    BY <2>1 DEF Content
  <2>5. step = "bom" => ~(Content.bom /\ sets.bom = "strip")
    BY <2>1 DEF Copies
  <2>6. SourceIs'
    BY <1>1, <1>2, <2>1, <2>2, <2>3, <2>4, <2>5 DEF SourceIs
  <2>7. QED
    BY <2>3, <2>4, <2>6
<1>11. CASE Copy
  <2>1. /\ Copies /\ input' = Fresh /\ step' = Stage[step] /\ UNCHANGED operands
        /\ disk' = Written(Fresh, IF step = "bom" THEN [Content EXCEPT !.bom = FALSE] ELSE Content)
    BY <1>11 DEF Copy
  <2>2. step \in {"bom", "crlf", "cont"} /\ step' \in {"crlf", "cont", "line"} /\ (step = "bom" => sets.bom = "strip")
    BY <2>1 DEF Stage, Copies
  <2>3. input \in DOMAIN disk /\ SourceIs
    BY <1>3, <2>2 DEF Reading
  <2>4. Content' = IF step = "bom" THEN [Content EXCEPT !.bom = FALSE] ELSE Content
    BY <2>1 DEF Content, Written
  <2>5. input' \in DOMAIN disk'
    BY <2>1 DEF Written
  <2>6. DOMAIN Content = DOMAIN Nothing /\ "bom" \in DOMAIN Nothing /\ "records" \in DOMAIN Nothing
    BY <2>3 DEF SourceIs, Nothing
  <2>7. /\ DOMAIN Content' = DOMAIN Content /\ Content'.records = Content.records
        /\ Content'.bom = IF step = "bom" THEN FALSE ELSE Content.bom
    BY <2>4, <2>6
  <2>8. SourceIs'
    BY <1>1, <1>2, <2>1, <2>2, <2>3, <2>6, <2>7 DEF SourceIs
  <2>9. QED
    BY <2>5, <2>8
<1>12. CASE CheckRecord
  BY <1>1, <1>12, SourceStays DEF CheckRecord, AtRecord, paths, Reading
<1>13. CASE BindRecord
  <2>1. step = "line" /\ step' = "copy" /\ disk' = Written(SPARE, <<>>) /\ UNCHANGED <<operands, input>>
    BY <1>13 DEF BindRecord, AtRecord, paths
  <2>2. \A q \in DOMAIN disk \ {STORE, SPARE} : q \in DOMAIN disk' /\ disk'[q] = disk[q]
    BY <2>1, StoreWritten
  <2>3. QED
    BY <1>1, <2>1, <2>2, SourceStays DEF Reading
<1>14. CASE CopyLine \/ AppendBinding
  <2>1. step = "copy" /\ step' \in {"copy", "move"} /\ UNCHANGED <<operands, input>> /\ Reading
        /\ (disk' = disk \/ \E c : disk' = Written(SPARE, c))
    BY <1>14 DEF CopyLine, AppendBinding, paths, Reading
  <2>2. \A q \in DOMAIN disk \ {STORE, SPARE} : q \in DOMAIN disk' /\ disk'[q] = disk[q]
    BY <2>1, StoreWritten
  <2>3. QED
    BY <1>1, <2>1, <2>2, SourceStays
<1>15. CASE MoveStore
  <2>1. step = "move" /\ step' = "line" /\ UNCHANGED <<operands, input>> /\ Reading
    BY <1>15 DEF MoveStore, paths, Reading
  <2>2. \A q \in DOMAIN disk \ {STORE, SPARE} : q \in DOMAIN disk' /\ disk'[q] = disk[q]
    BY <1>15 DEF MoveStore
  <2>3. QED
    BY <1>1, <2>1, <2>2, SourceStays
<1>16. QED
  BY <1>5, <1>6, <1>7, <1>8, <1>9, <1>10, <1>11, <1>12, <1>13, <1>14, <1>15 DEF ShellNext

\* What writing or removing a file does to the store and its copy.
LEMMA StoreSame ==
  /\ \A p, c : p # STORE /\ disk' = Written(p, c) => Store' = Store
  /\ \A p : p # STORE /\ disk' = Removed({p}) => Store' = Store
  /\ disk' = disk => Store' = Store /\ Spare' = Spare
  /\ \A c : disk' = Written(STORE, c) => Store' = c
  /\ \A c : disk' = Written(SPARE, c) => Spare' = c /\ Store' = Store /\ SPARE \in DOMAIN disk'
<1>1. STORE # SPARE
  BY DEF STORE, SPARE
<1>2. \A p, c : p # STORE /\ disk' = Written(p, c) => Store' = Store
  BY DEF Store, Written
<1>3. ASSUME NEW p, p # STORE, disk' = Removed({p}) PROVE Store' = Store
  <2>1. /\ DOMAIN disk' = DOMAIN disk \ {p}
        /\ \A q \in DOMAIN disk' : disk'[q] = disk[q]
    BY <1>3, RemovedIs
  <2>2. QED
    BY <1>3, <2>1 DEF Store
<1>4. disk' = disk => Store' = Store /\ Spare' = Spare
  BY DEF Store, Spare
<1>5. \A c : disk' = Written(STORE, c) => Store' = c
  BY DEF Store, Written
<1>6. \A c : disk' = Written(SPARE, c) => Spare' = c /\ SPARE \in DOMAIN disk'
  BY DEF Spare, Written
<1>7. QED
  BY <1>1, <1>2, <1>3, <1>4, <1>5, <1>6

LEMMA EnvNowStays ==
  ASSUME UNCHANGED <<shell, sets, given, operands, at_line>>
  PROVE  Done' = Done /\ EnvNow' = EnvNow /\ Current' = Current /\ Reads' = Reads /\ EnvAfter' = EnvAfter
<1>1. Done' = Done
  BY DEF Done
<1>2. Reads' = Reads /\ EnvAfter' = EnvAfter
  BY EnvStays
<1>3. QED
  BY <1>1, <1>2 DEF EnvNow, Current

\* The loop of init_env_store.
LEMMA FillKeeps ==
  ASSUME ShInv, RunInv, Faultless, StoreInv, UNCHANGED <<shell, sets, given>>,
         InitEnvStore \/ FillStore \/ StoreFilled
  PROVE  StoreInv'
<1> SUFFICES Filling' /\ BetweenFiles' /\ BetweenRecords' /\ Binding' /\ Listing'
  BY DEF StoreInv
<1> DEFINE D == {"", "ENVFILE"}
<1>1. IsSeq(shell.lines) /\ \A l \in ToSet(shell.lines) : l = [key |-> l.key, text |-> l.text]
  BY DEF ShInv, ShGiven, ShellOk, IsSeq
<1>2. CASE InitEnvStore
  <2>1. step' = "fill" /\ source' = shell.lines /\ disk' = Written(STORE, <<>>)
    BY <1>2 DEF InitEnvStore, Faultless, Keeps
  <2>2. Store' = <<>>
    BY <2>1, StoreSame
  <2>3. Thins(shell.lines, <<>>, shell.lines, D)
    BY <1>1, ThinsStart
  <2>4. Filling'
    BY <2>1, <2>2, <2>3 DEF Filling
  <2>5. QED
    BY <2>1, <2>4 DEF BetweenFiles, BetweenRecords, Binding, Listing, BeforeLine, BeforeCont, BeforeCrlf
<1>3. CASE FillStore
  <2>1. /\ step = "fill" /\ step' = "fill" /\ source # <<>> /\ source' = Tail(source)
        /\ disk' = IF Head(source).key \in D THEN disk ELSE Written(STORE, Append(Store, Head(source)))
    BY <1>3 DEF FillStore
  <2>2. Thins(shell.lines, Store, source, D)
    BY <2>1 DEF StoreInv, Filling
  <2> HIDE DEF D
  <2>3. Thins(shell.lines, Store', source', D)
    <3>1. CASE Head(source).key \in D
      <4>1. Store' = Store
        BY <2>1, <3>1, StoreSame
      <4>2. Thins(shell.lines, Store, Tail(source), D)
        BY <2>1, <2>2, <3>1, ThinsDrop
      <4>3. QED
        BY <2>1, <4>1, <4>2
    <3>2. CASE Head(source).key \notin D
      <4>1. Store' = Append(Store, Head(source))
        BY <2>1, <3>2, StoreSame
      <4>2. Thins(shell.lines, Append(Store, Head(source)), Tail(source), D)
        BY <2>1, <2>2, <3>2, ThinsKeep
      <4>3. QED
        BY <2>1, <4>1, <4>2
    <3>3. QED
      BY <3>1, <3>2
  <2>4. Filling'
    BY <2>3 DEF Filling, D
  <2>5. QED
    BY <2>1, <2>4 DEF BetweenFiles, BetweenRecords, Binding, Listing, BeforeLine, BeforeCont, BeforeCrlf
<1>4. CASE StoreFilled
  <2>1. step = "fill" /\ step' = "file" /\ source = <<>> /\ UNCHANGED <<disk, operands>>
    BY <1>4 DEF StoreFilled
  <2>2. Thins(shell.lines, Store, source, D)
    BY <2>1 DEF StoreInv, Filling
  <2>3. Mirrors(Store, Inherited, shell.lines)
    BY <1>1, <2>1, <2>2, MirrorsInherited
  <2>4. Done = 0 /\ EnvAfter[0] = Inherited
    BY <2>1, EnvGrows DEF RunInv, ShInv
  <2>5. Store' = Store /\ Done' = Done /\ EnvAfter' = EnvAfter
    BY <2>1, StoreSame, EnvStays DEF Done
  <2>6. Mirrors(Store', EnvAfter'[Done'], shell'.lines)
    BY <2>3, <2>4, <2>5
  <2>7. BetweenFiles'
    BY <2>1, <2>6 DEF BetweenFiles
  <2>8. QED
    BY <2>1, <2>7 DEF Filling, BetweenRecords, Binding, Listing
<1>5. QED
  BY <1>2, <1>3, <1>4

\* The pre-passes do not touch the store.
LEMMA PrePassKeeps ==
  ASSUME ShInv, RunInv, Faultless, StoreInv, UNCHANGED <<shell, sets, given>>,
         OpenFile \/ SlurpStdin \/ PassOver \/ Copy
  PROVE  StoreInv'
<1> SUFFICES Filling' /\ BetweenFiles' /\ BetweenRecords' /\ Binding' /\ Listing'
  BY DEF StoreInv
<1>1. /\ operands # <<>> /\ UNCHANGED <<operands, at_line>> /\ step \in {"file"} \cup BeforeLine
      /\ step' \in BeforeLine \cup {"line"}
      /\ disk' = disk \/ (IsFresh /\ \E c : disk' = Written(Fresh, c))
  <2>1. CASE OpenFile \/ SlurpStdin
    BY <2>1 DEF OpenFile, SlurpStdin, BeforeLine, BeforeCont, BeforeCrlf
  <2>2. CASE PassOver \/ Copy
    <3>1. step \in {"nul", "bom", "crlf", "cont"} /\ step' \in {"bom", "crlf", "cont", "line"}
      BY <2>2 DEF PassOver, Copy, Copies, Stage
    <3>2. operands # <<>>
      BY <3>1 DEF ShInv, ShGiven, Reading, BeforeLine, BeforeCont, BeforeCrlf
    <3>3. QED
      BY <2>2, <3>1, <3>2 DEF PassOver, Copy, BeforeLine, BeforeCont, BeforeCrlf
  <2>3. QED
    BY <2>1, <2>2
<1>2. Store' = Store
  <2>1. IsFresh => Fresh # STORE
    BY Apart DEF IsFresh, Fresh, ShInv
  <2>2. QED
    BY <1>1, <2>1, StoreSame
<1>3. Mirrors(Store, EnvAfter[Done], shell.lines) /\ at_line = 1
  BY <1>1 DEF StoreInv, BetweenFiles, RunInv
<1>4. EnvNow = EnvAfter[Done] /\ at_line \in 1..(Len(Reads[Done + 1]) + 1)
  BY <1>1, <1>3, EnvWhile DEF ShInv
<1>5. Done' = Done /\ EnvNow' = EnvNow /\ Reads' = Reads /\ EnvAfter' = EnvAfter
  BY <1>1, EnvNowStays
<1>6. BetweenFiles'
  BY <1>1, <1>2, <1>3, <1>5 DEF BetweenFiles, BeforeLine, BeforeCont, BeforeCrlf
<1>7. BetweenRecords'
  BY <1>1, <1>2, <1>3, <1>4, <1>5 DEF BetweenRecords
<1>8. QED
  BY <1>1, <1>6, <1>7 DEF Filling, Binding, Listing, BeforeLine, BeforeCont, BeforeCrlf

\* A record is bound in the environment of those before it.
LEMMA BindKeeps ==
  ASSUME ShInv, RunInv, Faultless, SourceInv, StoreInv, UNCHANGED <<shell, sets, given, errs>>, BindRecord
  PROVE  StoreInv'
<1> SUFFICES Filling' /\ BetweenFiles' /\ BetweenRecords' /\ Binding' /\ Listing'
  BY DEF StoreInv
<1>1. /\ step = "line" /\ step' = "copy" /\ source' = Store /\ disk' = Written(SPARE, <<>>)
      /\ UNCHANGED <<operands, at_line>> /\ at_line <= Len(Content.records)
  BY DEF BindRecord, AtRecord
<1>2. operands # <<>> /\ Reading
  BY <1>1 DEF ShInv, ShGiven, Reading
<1>3. SourceIs
  BY <1>1, <1>2 DEF SourceInv
<1>4. at_line \in 1..(Len(Reads[Done + 1]) + 1) /\ Mirrors(Store, EnvNow, shell.lines)
  BY <1>1 DEF StoreInv, BetweenRecords
<1>5. at_line \in 1..Len(Reads[Done + 1]) /\ Record = Current
  <2>1. Len(Content.records) = Len(Reads[Done + 1])
    BY <1>1, <1>2, <1>3, RecordIs DEF ShInv
  <2>2. at_line \in 1..Len(Reads[Done + 1])
    <3> DEFINE n == Len(Reads[Done + 1])
    <3>1. n \in Nat /\ at_line <= n /\ at_line \in 1..(n + 1)
      BY <1>1, <1>2, <1>4, <2>1, EnvWhile DEF ShInv
    <3> HIDE DEF n
    <3>2. at_line \in 1..n
      BY <3>1
    <3>3. QED
      BY <3>2 DEF n
  <2>3. QED
    BY <1>1, <1>2, <1>3, <2>2, RecordIs DEF ShInv
<1> DEFINE b == [key |-> Current.key, text |-> IF Current.ref = "" THEN Current.text ELSE EnvNow[Current.ref]]
<1>6. binding' = b
  <2> DEFINE unbound == Current.ref # "" /\ Named(Store, Current.ref) = {}
  <2>1. /\ binding' = [key |-> Current.key,
                       text |-> IF Current.ref = "" THEN Current.text
                                ELSE IF unbound THEN "" ELSE Value(Store, Current.ref)]
        /\ errs' = IF unbound THEN errs + 1 ELSE errs
    BY <1>5 DEF BindRecord
  <2>2. ~unbound
    <3>1. \A e \in Nat : e + 1 # e
      OBVIOUS
    <3>2. errs \in Nat /\ errs' = errs
      BY DEF RunInv
    <3>3. QED
      BY <2>1, <3>1, <3>2
  <2>3. ASSUME Current.ref # "" PROVE Value(Store, Current.ref) = EnvNow[Current.ref]
    <3> DEFINE k == Current.ref
               s == Store
               e == EnvNow
    <3>1. Mirrors(s, e, shell.lines) /\ Named(s, k) # {}
      BY <1>4, <2>2, <2>3
    <3> HIDE DEF k, s, e
    <3>2. IsSeq(s)
      BY <3>1 DEF Mirrors
    <3>3. \E l \in ToSet(s) : l.key = k
      BY <3>1, <3>2, ValueSays
    <3>4. k \in DOMAIN e
      BY <3>1, <3>3 DEF Mirrors
    <3>5. Says(s, k, e[k])
      BY <3>1, <3>4 DEF Mirrors
    <3>6. e[k] = Value(s, k)
      BY <3>2, <3>5, ValueSays
    <3>7. QED
      BY <3>6 DEF k, s, e
  <2>4. QED
    BY <2>1, <2>2, <2>3
<1>7. Store' = Store /\ Spare' = <<>>
  BY <1>1, StoreSame
<1>8. Done' = Done /\ EnvNow' = EnvNow /\ Current' = Current /\ Reads' = Reads /\ EnvAfter' = EnvAfter
  BY <1>1, EnvNowStays
<1>9. Thins(Store, <<>>, Store, {binding'.key})
  BY <1>4, ThinsStart DEF Mirrors
<1> HIDE DEF b
<1>10. Binding'
  BY <1>1, <1>4, <1>5, <1>6, <1>7, <1>8, <1>9 DEF Binding, b
<1>11. QED
  BY <1>1, <1>2, <1>10 DEF Filling, BetweenFiles, BetweenRecords, Listing, BeforeLine, BeforeCont, BeforeCrlf

\* The loop that rewrites the store, for a binding and for the listing.
LEMMA CopyLineKeeps ==
  ASSUME ShInv, RunInv, Faultless, StoreInv, UNCHANGED <<shell, sets, given>>, CopyLine
  PROVE  StoreInv'
<1> SUFFICES Filling' /\ BetweenFiles' /\ BetweenRecords' /\ Binding' /\ Listing'
  BY DEF StoreInv
<1> DEFINE away == IF operands = <<>> THEN "ENVFILE" ELSE binding.key
<1>1. /\ step = "copy" /\ step' = "copy" /\ source # <<>> /\ source' = Tail(source)
      /\ UNCHANGED <<operands, at_line, binding>>
      /\ disk' = IF Head(source).key = away THEN disk ELSE Written(SPARE, Append(Spare, Head(source)))
  BY DEF CopyLine
<1>2. Thins(Store, Spare, source, {away})
  BY <1>1 DEF StoreInv, Binding, Listing
<1> HIDE DEF away
<1>3. Store' = Store /\ Thins(Store, Spare', source', {away})
  <2>1. CASE Head(source).key = away
    <3>1. Store' = Store /\ Spare' = Spare
      BY <1>1, <2>1, StoreSame
    <3>2. Head(source).key \in {away}
      BY <2>1
    <3>3. Thins(Store, Spare, Tail(source), {away})
      BY <1>1, <1>2, <3>2, ThinsDrop
    <3>4. QED
      BY <1>1, <3>1, <3>3
  <2>2. CASE Head(source).key # away
    <3>1. Store' = Store /\ Spare' = Append(Spare, Head(source))
      BY <1>1, <2>2, StoreSame
    <3>2. Head(source).key \notin {away}
      BY <2>2
    <3>3. Thins(Store, Append(Spare, Head(source)), Tail(source), {away})
      BY <1>1, <1>2, <3>2, ThinsKeep
    <3>4. QED
      BY <1>1, <3>1, <3>3
  <2>3. QED
    BY <2>1, <2>2
<1>4. Done' = Done /\ EnvNow' = EnvNow /\ Current' = Current /\ Reads' = Reads /\ EnvAfter' = EnvAfter
  BY <1>1, EnvNowStays
<1>5. Binding'
  <2> SUFFICES ASSUME operands # <<>> PROVE Binding'
    BY <1>1 DEF Binding
  <2>1. away = binding.key
    BY DEF away
  <2>2. /\ at_line \in 1..Len(Reads[Done + 1])
        /\ binding = [key |-> Current.key,
                      text |-> IF Current.ref = "" THEN Current.text ELSE EnvNow[Current.ref]]
        /\ Mirrors(Store, EnvNow, shell.lines)
    BY <1>1 DEF StoreInv, Binding
  <2>3. QED
    BY <1>1, <1>3, <1>4, <2>1, <2>2 DEF Binding
<1>6. Listing'
  <2> SUFFICES ASSUME operands = <<>> PROVE Listing'
    BY <1>1 DEF Listing
  <2>1. away = "ENVFILE"
    BY DEF away
  <2>2. Mirrors(Store, EnvAfter[Done], shell.lines)
    BY <1>1 DEF StoreInv, Listing
  <2>3. QED
    BY <1>1, <1>3, <1>4, <2>1, <2>2 DEF Listing
<1>7. QED
  BY <1>1, <1>5, <1>6 DEF Filling, BetweenFiles, BetweenRecords, BeforeLine, BeforeCont, BeforeCrlf

LEMMA AppendKeeps ==
  ASSUME ShInv, RunInv, Faultless, StoreInv, UNCHANGED <<shell, sets, given>>, AppendBinding
  PROVE  StoreInv'
<1> SUFFICES Filling' /\ BetweenFiles' /\ BetweenRecords' /\ Binding' /\ Listing'
  BY DEF StoreInv
<1>1. /\ step = "copy" /\ step' = "move" /\ source = <<>> /\ operands # <<>>
      /\ UNCHANGED <<operands, at_line, binding>> /\ disk' = Written(SPARE, Append(Spare, binding))
  BY DEF AppendBinding, loop
<1>2. /\ at_line \in 1..Len(Reads[Done + 1])
      /\ binding = [key |-> Current.key,
                    text |-> IF Current.ref = "" THEN Current.text ELSE EnvNow[Current.ref]]
      /\ Mirrors(Store, EnvNow, shell.lines) /\ Thins(Store, Spare, source, {binding.key})
  BY <1>1 DEF StoreInv, Binding
<1>3. Mirrors(Append(Spare, binding), Extended(EnvNow, Current), shell.lines)
  <2> DEFINE b == binding
             r == Current
             s == Store
             e == EnvNow
             kept == Spare
             first == shell.lines
  <2>1. /\ b = [key |-> b.key, text |-> b.text] /\ r.key = b.key
        /\ b.text = IF r.ref = "" THEN r.text ELSE e[r.ref]
        /\ Mirrors(s, e, first) /\ Thins(s, kept, source, {b.key})
    BY <1>2
  <2> HIDE DEF b, r, s, e, kept, first
  <2>2. Mirrors(Append(kept, b), Extended(e, r), first)
    BY <1>1, <2>1, MirrorsBound
  <2>3. QED
    BY <2>2 DEF b, r, s, e, kept, first
<1>4. Spare' = Append(Spare, binding) /\ SPARE \in DOMAIN disk'
  BY <1>1, StoreSame
<1>5. Done' = Done /\ EnvNow' = EnvNow /\ Current' = Current /\ Reads' = Reads /\ EnvAfter' = EnvAfter
  BY <1>1, EnvNowStays
<1>6. Binding'
  BY <1>1, <1>2, <1>3, <1>4, <1>5 DEF Binding
<1>7. QED
  BY <1>1, <1>6 DEF Filling, BetweenFiles, BetweenRecords, Listing, BeforeLine, BeforeCont, BeforeCrlf

LEMMA MoveKeeps ==
  ASSUME ShInv, RunInv, Faultless, StoreInv, UNCHANGED <<shell, sets, given>>, MoveStore
  PROVE  StoreInv'
<1> SUFFICES Filling' /\ BetweenFiles' /\ BetweenRecords' /\ Binding' /\ Listing'
  BY DEF StoreInv
<1>1. step = "move" /\ step' = "line" /\ at_line' = at_line + 1 /\ UNCHANGED operands
  BY DEF MoveStore
<1>2. operands # <<>>
  BY <1>1 DEF ShInv, ShGiven, Reading
<1>3. /\ at_line \in 1..Len(Reads[Done + 1]) /\ SPARE \in DOMAIN disk
      /\ Mirrors(Spare, Extended(EnvNow, Current), shell.lines)
  BY <1>1, <1>2 DEF StoreInv, Binding
<1>4. Store' = Spare
  BY <1>3 DEF MoveStore, Store, Spare
<1>5. Done' = Done /\ Reads' = Reads /\ EnvAfter' = EnvAfter
  BY <1>1, EnvStays DEF Done
<1>6. EnvNow' = Extended(EnvNow, Current)
  <2>1. Bound(EnvAfter[Done], Reads[Done + 1])[at_line] = Extended(EnvNow, Current)
    BY <1>2, <1>3, EnvWhile DEF ShInv
  <2>2. (at_line + 1) - 1 = at_line
    BY <1>3
  <2>3. EnvNow' = Bound(EnvAfter'[Done'], Reads'[Done' + 1])[at_line' - 1]
    BY DEF EnvNow
  <2>4. QED
    BY <1>1, <1>5, <2>1, <2>2, <2>3
<1>7. at_line' \in 1..(Len(Reads[Done + 1]) + 1)
  <2> DEFINE n == Len(Reads[Done + 1])
  <2>1. n \in Nat /\ at_line \in 1..n
    BY <1>2, <1>3, EnvWhile DEF ShInv
  <2> HIDE DEF n
  <2>2. at_line + 1 \in 1..(n + 1)
    BY <2>1
  <2>3. QED
    BY <1>1, <2>2 DEF n
<1>8. Mirrors(Store', EnvNow', shell'.lines)
  BY <1>3, <1>4, <1>6
<1>9. BetweenRecords'
  BY <1>5, <1>7, <1>8 DEF BetweenRecords
<1>10. QED
  BY <1>1, <1>9 DEF Filling, BetweenFiles, Binding, Listing, BeforeLine, BeforeCont, BeforeCrlf

LEMMA CleanUpListed ==
  ASSUME ShInv, RunInv, Faultless, SourceInv, StoreInv, UNCHANGED <<shell, sets, given>>, CleanUp
  PROVE  StoreInv'
<1> SUFFICES Filling' /\ BetweenFiles' /\ BetweenRecords' /\ Binding' /\ Listing'
  BY DEF StoreInv
<1>1. /\ step = "line" /\ step' = "drop" /\ at_line > Len(Content.records) /\ UNCHANGED <<operands, at_line>>
      /\ (disk' = disk \/ disk' = Removed({input}))
  BY DEF CleanUp
<1>2. operands # <<>> /\ Reading
  BY <1>1 DEF ShInv, ShGiven, Reading
<1>3. Len(Content.records) = Len(Reads[Done + 1])
  BY <1>1, <1>2, RecordIs DEF SourceInv, ShInv
<1>4. at_line \in 1..(Len(Reads[Done + 1]) + 1) /\ Mirrors(Store, EnvNow, shell.lines)
  BY <1>1 DEF StoreInv, BetweenRecords
<1>5. at_line = Len(Reads[Done + 1]) + 1
  <2> DEFINE n == Len(Reads[Done + 1])
  <2>1. n \in Nat /\ at_line > n /\ at_line \in 1..(n + 1)
    BY <1>1, <1>2, <1>3, <1>4, EnvWhile DEF ShInv
  <2> HIDE DEF n
  <2>2. at_line = n + 1
    BY <2>1
  <2>3. QED
    BY <2>2 DEF n
<1>6. Mirrors(Store, EnvAfter[Done + 1], shell.lines)
  BY <1>2, <1>4, <1>5, EnvWhile DEF ShInv
<1>7. Store' = Store
  BY <1>1, <1>2, InputApart, StoreSame
<1>8. Done' = Done /\ EnvAfter' = EnvAfter
  BY <1>1, EnvNowStays
<1>9. BetweenFiles'
  BY <1>1, <1>6, <1>7, <1>8 DEF BetweenFiles, BeforeLine, BeforeCont, BeforeCrlf
<1>10. QED
  BY <1>1, <1>9 DEF Filling, BetweenRecords, Binding, Listing

LEMMA NextOperandListed ==
  ASSUME ShInv, RunInv, Faultless, StoreInv, UNCHANGED <<shell, sets, given>>, NextOperand
  PROVE  StoreInv'
<1> SUFFICES Filling' /\ BetweenFiles' /\ BetweenRecords' /\ Binding' /\ Listing'
  BY DEF StoreInv
<1>1. /\ step = "drop" /\ step' = "file" /\ operands' = Tail(operands)
      /\ (disk' = disk \/ disk' = Removed({tmp}))
  BY DEF NextOperand
<1>2. operands # <<>>
  BY <1>1 DEF ShInv, ShGiven
<1>3. Done' = Done + 1 /\ EnvAfter' = EnvAfter
  BY <1>1, <1>2, AtOperand, EnvStays DEF Done, ShInv
<1>4. Mirrors(Store, EnvAfter[Done + 1], shell.lines)
  BY <1>1 DEF StoreInv, BetweenFiles
<1>5. tmp # STORE
  BY Apart DEF ShInv, CopiesBounded, STORE
<1>6. Store' = Store
  BY <1>1, <1>5, StoreSame
<1>7. BetweenFiles'
  BY <1>1, <1>3, <1>4, <1>6 DEF BetweenFiles
<1>8. QED
  BY <1>1, <1>7 DEF Filling, BetweenRecords, Binding, Listing

\* emit_env_sorted.
LEMMA EmitKeeps ==
  ASSUME ShInv, RunInv, Faultless, StoreInv, UNCHANGED <<shell, sets, given>>, EmitEnv \/ Sort \/ ShellExit
  PROVE  StoreInv'
<1> SUFFICES Filling' /\ BetweenFiles' /\ BetweenRecords' /\ Binding' /\ Listing'
  BY DEF StoreInv
<1>1. EnvAfter' = EnvAfter
  BY EnvStays
<1>2. CASE EmitEnv
  <2>1. /\ step = "file" /\ operands = <<>> /\ step' = "copy" /\ source' = Store /\ disk' = Written(SPARE, <<>>)
        /\ UNCHANGED <<operands, at_line>>
    BY <1>2 DEF EmitEnv
  <2>2. Mirrors(Store, EnvAfter[Done], shell.lines)
    BY <2>1 DEF StoreInv, BetweenFiles
  <2>3. Thins(Store, <<>>, Store, {"ENVFILE"})
    BY <2>2, ThinsStart DEF Mirrors
  <2>4. Store' = Store /\ Spare' = <<>> /\ Done' = Done
    BY <2>1, StoreSame DEF Done
  <2>5. Listing'
    BY <1>1, <2>1, <2>2, <2>3, <2>4 DEF Listing
  <2>6. QED
    BY <2>1, <2>5 DEF Filling, BetweenFiles, BetweenRecords, Binding, BeforeLine, BeforeCont, BeforeCrlf
<1>3. CASE Sort
  <2>1. step = "copy" /\ source = <<>> /\ operands = <<>> /\ listing' = Spare /\ step' = "exit"
    BY <1>3 DEF Sort
  <2>2. Mirrors(Store, EnvAfter[Done], shell.lines) /\ Thins(Store, Spare, source, {"ENVFILE"})
    BY <2>1 DEF StoreInv, Listing
  <2>3. ListsOf(Spare, EnvAfter[Done], shell.lines)
    <3> DEFINE s == Store
               kept == Spare
               e == EnvAfter[Done]
               first == shell.lines
    <3>1. Mirrors(s, e, first) /\ Thins(s, kept, source, {"ENVFILE"})
      BY <2>2
    <3> HIDE DEF s, kept, e, first
    <3>2. ListsOf(kept, e, first)
      BY <2>1, <3>1, MirrorsListed
    <3>3. QED
      BY <3>2 DEF kept, e, first
  <2>4. Done = Len(given)
    <3>4. Len(<<>>) = 0
      OBVIOUS
    <3>5. Len(operands) = 0
      BY <2>1, <3>4
    <3>6. given \in Seq(ToSet(given))
      BY DEF ShInv, ShGiven
    <3>1. Len(operands) = 0 /\ Len(given) \in Nat
      BY <3>5, <3>6
    <3>2. \A n \in Nat : n - 0 = n
      OBVIOUS
    <3>3. QED
      BY <3>1, <3>2 DEF Done
  <2>5. Listing'
    BY <1>1, <2>1, <2>3, <2>4 DEF Listing
  <2>6. QED
    BY <2>1, <2>5 DEF Filling, BetweenFiles, BetweenRecords, Binding, BeforeLine, BeforeCont, BeforeCrlf
<1>4. CASE ShellExit
  <2>1. step = "exit" /\ step' = "end" /\ listing' = listing
    BY <1>4 DEF ShellExit, End, Faultless
  <2>2. Listing'
    BY <1>1, <2>1 DEF StoreInv, Listing
  <2>3. QED
    BY <2>1, <2>2 DEF Filling, BetweenFiles, BetweenRecords, Binding, BeforeLine, BeforeCont, BeforeCrlf
<1>5. QED
  BY <1>2, <1>3, <1>4

LEMMA ListInvKeeps == ASSUME ShInv, ListInv, ShellNext PROVE ListInv'
<1>1. RunInv /\ SourceInv /\ StoreInv
  BY DEF ListInv
<1>2. RunInv' /\ SourceInv'
  BY <1>1, RunKeeps, SourceKeeps
<1>3. StoreInv'
  <2> SUFFICES ASSUME Faultless' PROVE StoreInv'
    BY DEF StoreInv
  <2>1. UNCHANGED <<shell, sets, given>> /\ Faultless /\ errs' = errs
    BY <1>1, Forwards
  <2>2. CASE InitEnvStore \/ FillStore \/ StoreFilled
    BY <1>1, <2>1, <2>2, FillKeeps
  <2>3. CASE OpenFile \/ SlurpStdin \/ PassOver \/ Copy
    BY <1>1, <2>1, <2>3, PrePassKeeps
  <2>4. CASE BindRecord
    BY <1>1, <2>1, <2>4, BindKeeps
  <2>5. CASE CopyLine
    BY <1>1, <2>1, <2>5, CopyLineKeeps
  <2>6. CASE AppendBinding
    BY <1>1, <2>1, <2>6, AppendKeeps
  <2>7. CASE MoveStore
    BY <1>1, <2>1, <2>7, MoveKeeps
  <2>8. CASE CleanUp
    BY <1>1, <2>1, <2>8, CleanUpListed
  <2>9. CASE NextOperand
    BY <1>1, <2>1, <2>9, NextOperandListed
  <2>10. CASE EmitEnv \/ Sort \/ ShellExit
    BY <1>1, <2>1, <2>10, EmitKeeps
  <2>11. CASE NoTemp \/ CopyNowhere \/ Interrupted
    BY <2>1, <2>11 DEF NoTemp, CopyNowhere, Interrupted, Faultless
  <2>12. CASE RejectInput \/ CheckRecord
    <3>1. \A e \in Nat : e + 1 # e
      OBVIOUS
    <3>2. errs \in Nat
      BY <1>1 DEF RunInv
    <3>3. errs' = errs + 1
      BY <2>1, <2>12 DEF RejectInput, CheckRecord, Faultless, Keeps
    <3>4. QED
      BY <2>1, <3>1, <3>2, <3>3
  <2>13. QED
    BY <2>2, <2>3, <2>4, <2>5, <2>6, <2>7, <2>8, <2>9, <2>10, <2>11, <2>12 DEF ShellNext
<1>4. QED
  BY <1>2, <1>3 DEF ListInv

\* While nothing has been bound there is nothing to keep.
LEMMA NotYetListed ==
  ASSUME step \in {"idle", "seed", "delegated"}
  PROVE  SourceInv /\ StoreInv
<1> USE DEF BeforeLine, BeforeCont, BeforeCrlf
<1>1. SourceInv
  BY DEF SourceInv, Reading
<1>2. StoreInv
  BY DEF StoreInv, Filling, BetweenFiles, BetweenRecords, Binding, Listing
<1>3. QED
  BY <1>1, <1>2

LEMMA ListInvStarts == ASSUME NEW h, ShellOk(h), ShellIdle(h) PROVE ListInv
<1>1. /\ step = "idle" /\ shell = h /\ given = <<>> /\ operands = <<>> /\ piped = h.piped
      /\ at_line = 1 /\ errs = 0 /\ code = -1
  BY DEF ShellIdle
<1>2. Done = 0
  <2>1. Len(given) = 0 /\ Len(operands) = 0
    BY <1>1
  <2>2. QED
    BY <2>1 DEF Done
<1>3. piped = LeftOf(shell.piped, given, Done)
  BY <1>1, <1>2, LeftIs
<1>4. ~Reading /\ code # 0 /\ errs \in Nat
  BY <1>1 DEF Reading, BeforeLine, BeforeCont, BeforeCrlf
<1>5. RunInv
  BY <1>1, <1>3, <1>4 DEF RunInv, BeforeLine, BeforeCont, BeforeCrlf
<1>6. QED
  BY <1>1, <1>5, NotYetListed DEF ListInv

LEMMA ListInvConfigured ==
  ASSUME ShInv, ShInv', ListInv, NEW s, NEW files, Configure(s, files)
  PROVE  ListInv'
<1>1. /\ step = "idle" /\ step' \in {"delegated", "seed"} /\ UNCHANGED <<shell, piped, at_line, errs, code>>
      /\ operands' = given'
  BY DEF Configure
<1>2. given = <<>> /\ at_line = 1 /\ code = -1 /\ errs \in Nat /\ piped = LeftOf(shell.piped, given, Done)
  BY <1>1 DEF ShInv, ShGiven, ListInv, RunInv
<1>3. Done = 0
  <2>1. Len(given) = 0
    BY <1>2
  <2>2. Done \in 0..Len(given)
    BY DEF ShInv, ShGiven
  <2>3. QED
    BY <2>1, <2>2
<1>4. Done' = 0
  <2>1. given' \in Seq(ToSet(given'))
    BY DEF ShInv, ShGiven
  <2>2. Len(given') \in Nat
    BY <2>1
  <2>3. Done' = Len(given') - Len(given')
    BY <1>1 DEF Done
  <2>4. \A n \in Nat : n - n = 0
    OBVIOUS
  <2>5. QED
    BY <2>2, <2>3, <2>4
<1>5. piped' = LeftOf(shell'.piped, given', Done')
  <2>1. piped = shell.piped
    BY <1>2, <1>3, LeftIs
  <2>2. LeftOf(shell'.piped, given', 0) = shell'.piped
    BY LeftIs
  <2>3. QED
    BY <1>1, <1>4, <2>1, <2>2
<1>6. ~Reading' /\ code' # 0
  BY <1>1, <1>2 DEF Reading, BeforeLine, BeforeCont, BeforeCrlf
<1>7. RunInv'
  BY <1>1, <1>2, <1>4, <1>5, <1>6 DEF RunInv
<1> USE DEF BeforeLine, BeforeCont, BeforeCrlf
<1>8. SourceInv'
  BY <1>6 DEF SourceInv
<1>9. StoreInv'
  BY <1>1 DEF StoreInv, Filling, BetweenFiles, BetweenRecords, Binding, Listing
<1>10. QED
  BY <1>7, <1>8, <1>9 DEF ListInv

LEMMA ListInvStutters == ASSUME ListInv, UNCHANGED shellVars PROVE ListInv'
<1>1. UNCHANGED <<step, shell, sets, given, operands, piped, disk, input, tmp, at_line, source, binding, errs,
                  listing, code, signalled>>
  BY DEF shellVars, paths, loop
<1>2. /\ Done' = Done /\ EnvNow' = EnvNow /\ Current' = Current /\ Reads' = Reads /\ EnvAfter' = EnvAfter
      /\ Originals' = Originals
  BY <1>1, EnvNowStays, EnvStays
<1>3. Store' = Store /\ Spare' = Spare /\ Content' = Content /\ (Reading' <=> Reading) /\ (Faultless' <=> Faultless)
  BY <1>1 DEF Store, Spare, Content, Reading, Faultless
<1>4. RunInv'
  BY <1>1, <1>2, <1>3 DEF ListInv, RunInv
<1>5. SourceIs' <=> SourceIs
  BY <1>1, <1>2, <1>3 DEF SourceIs
<1>6. SourceInv'
  BY <1>1, <1>3, <1>5 DEF ListInv, SourceInv
<1>7. StoreInv'
  BY <1>1, <1>2, <1>3 DEF ListInv, StoreInv, Filling, BetweenFiles, BetweenRecords, Binding, Listing
<1>8. QED
  BY <1>4, <1>6, <1>7 DEF ListInv

LEMMA ListInvLists == ListInv => ListsAll
<1> SUFFICES ASSUME ListInv, code = 0, sets.action = "apply", ~signalled, ~shell.full
             PROVE  ListsOf(listing, EnvAfter[Len(given)], shell.lines)
  BY DEF ListsAll, ListsOf
<1>1. step = "end" /\ Faultless
  BY DEF ListInv, RunInv, Faultless
<1>2. QED
  BY <1>1 DEF ListInv, StoreInv, Listing

-----------------------------------------------------------------------------
(* Its operands are among those of the call, none of which has the name of a *)
(* copy or of the store.                                                     *)

OperandsApart == \A i \in 1..Len(call.argv) : call.argv[i].value \notin Temps \cup {STORE, SPARE}

Operands == [i \in 1..Len(argv) |-> argv[i].value]

LEMMA OperandsListed ==
  ASSUME AskedInv, OperandsApart
  PROVE  /\ Operands \in Seq(ToSet(Operands))
         /\ \A i \in 1..Len(Operands) : Operands[i] \notin Temps \cup {STORE, SPARE}
<1> DEFINE all == call.argv
<1>1. all \in Seq(ToSet(all))
  BY DEF AskedInv, CallOk
<1>2. PICK n \in 0..Len(all) : argv = SubSeq(all, n + 1, Len(all))
  BY DEF AskedInv, ShiftedTo
<1>3. PICK S : all \in Seq(S)
  BY <1>1
<1>4. Len(argv) \in Nat /\ \A i \in 1..Len(argv) : n + i \in 1..Len(all) /\ argv[i] = all[n + i]
  <2> HIDE DEF all
  <2>1. QED
    BY <1>2, <1>3
<1>5. \A i \in 1..Len(argv) : argv[i].value \notin Temps \cup {STORE, SPARE}
  BY <1>4 DEF OperandsApart
<1> DEFINE l == Len(argv)
<1> DEFINE ops == [i \in 1..l |-> argv[i].value]
<1>6. ops = Operands
  BY DEF Operands
<1>7. DOMAIN ops = 1..l /\ \A i \in 1..l : ops[i] = argv[i].value
  OBVIOUS
<1>8. l \in Nat
  BY <1>4
<1>9. \A i \in 1..l : ops[i] \notin Temps \cup {STORE, SPARE}
  BY <1>5, <1>7
<1> DEFINE T == {argv[i].value : i \in 1..l}
<1>10. ops \in [1..l -> T]
  OBVIOUS
<1> HIDE DEF ops, l, T
<1>11. ops \in Seq(T)
  BY <1>8, <1>10
<1>12. Len(ops) = l
  BY <1>7, <1>8, <1>11
<1>13. ops \in Seq(ToSet(ops))
  BY <1>11 DEF ToSet
<1>14. QED
  BY <1>6, <1>9, <1>12, <1>13

\* The shell has files of its own, and only it and what starts it touches them.
LEMMA GateKeepsShell ==
  ASSUME AskedInv, OperandsApart, ShInv, [GateNext]_gateVars
  PROVE  OperandsApart' /\ ShInv'
<1>1. CASE Scan \/ Call \/ UNCHANGED gateVars
  <2>1. UNCHANGED shellVars
    BY <1>1 DEF Scan, Call, gateVars
  <2>2. call' = call
    BY <1>1, ShiftsOnly DEF Scan, Call, gateVars, vars
  <2>3. QED
    BY <2>1, <2>2, StutterKeeps DEF OperandsApart
<1>2. CASE Spawn
  <2> DEFINE s == [format |-> format, action |-> action, bom |-> Seen("BOM"), crlf |-> Seen("CRLF"),
                   nul |-> Seen("NUL"), cont |-> Seen("BACKSLASH_CONTINUATION")]
  <2>1. call' = call /\ Configure(s, Operands)
    BY <1>2 DEF Spawn, vars, Operands
  <2> HIDE DEF s
  <2>2. ShInv'
    BY <2>1, OperandsListed, ConfigureKeeps
  <2>3. QED
    BY <2>1, <2>2 DEF OperandsApart
<1>3. CASE Shell
  <2>1. ShellNext /\ call' = call
    BY <1>3 DEF Shell, vars
  <2>2. QED
    BY <2>1, ShellStepKeeps DEF OperandsApart
<1>4. QED
  BY <1>1, <1>2, <1>3 DEF GateNext

LEMMA GateKeepsListing ==
  ASSUME AskedInv, OperandsApart, ShInv, ListInv, [GateNext]_gateVars
  PROVE  ListInv'
<1>1. CASE Scan \/ Call \/ UNCHANGED gateVars
  <2>1. UNCHANGED shellVars
    BY <1>1 DEF Scan, Call, gateVars
  <2>2. QED
    BY <2>1, ListInvStutters
<1>2. CASE Spawn
  <2> DEFINE s == [format |-> format, action |-> action, bom |-> Seen("BOM"), crlf |-> Seen("CRLF"),
                   nul |-> Seen("NUL"), cont |-> Seen("BACKSLASH_CONTINUATION")]
  <2>1. Configure(s, Operands)
    BY <1>2 DEF Spawn, Operands
  <2>2. ShInv'
    BY GateKeepsShell
  <2> HIDE DEF s
  <2>3. QED
    BY <2>1, <2>2, ListInvConfigured
<1>3. CASE Shell
  BY <1>3, ListInvKeeps DEF Shell
<1>4. QED
  BY <1>1, <1>2, <1>3 DEF GateNext

LEMMA GateStartsShell == GateInit => AskedInv /\ OperandsApart /\ ShInv /\ ListInv
<1> SUFFICES ASSUME GateInit PROVE AskedInv /\ OperandsApart /\ ShInv /\ ListInv
  OBVIOUS
<1>1. PICK d \in Drives : \E c \in d.calls, h \in d.shells : Start(c) /\ ShellIdle(h)
  BY DEF GateInit
<1>2. PICK c \in d.calls, h \in d.shells : Start(c) /\ ShellIdle(h)
  BY <1>1
<1>3. CallOk(c) /\ ShellOk(h) /\ \A i \in 1..Len(c.argv) : c.argv[i].value \notin Temps \cup {STORE, SPARE}
  BY DrivesOk
<1>4. AskedInv
  BY <1>2, <1>3, StartAsked
<1>5. ShInv /\ ListInv
  BY <1>2, <1>3, ShellStarts, ListInvStarts
<1>6. OperandsApart
  <2>1. call = c
    BY <1>2 DEF Start
  <2>2. QED
    BY <1>3, <2>1 DEF OperandsApart
<1>7. QED
  BY <1>4, <1>5, <1>6

\* Whatever is refused, fails or is interrupted, of the caller's files only
\* those under TMPDIR that were read in place are gone at any time, no other has
\* changed, and at the end neither the store nor more copies are left than the
\* clean-up of each operand leaves, whatever the files and how many there are
\* (envfile.sh:51-54, 386-467).
THEOREM DiskIsAccounted == GateSpec => []DiskAccounted
<1>1. AskedInv /\ OperandsApart /\ ShInv /\ [GateNext]_gateVars => (AskedInv /\ OperandsApart /\ ShInv)'
  BY GateCalls, AskedKeeps, GateKeepsShell
<1>2. QED
  BY <1>1, GateStartsShell, ShInvAccounts, PTL DEF GateSpec

\* If apply of envfile.sh ends without an error, no signal and no copy that could
\* not be made, its listing holds every name of the environment and of the files
\* with the last value given to it, references resolved in what was bound before,
\* and nothing else but for a name that env printed twice.  Each binding rewrites
\* the store line by line, and no line of another name is lost or doubled on the
\* way, for files and an environment of any size (envfile.sh:58-104, 110-182,
\* 386-467).
THEOREM ListingIsComplete == GateSpec => []ListsAll
<1>1. AskedInv /\ OperandsApart /\ ShInv /\ ListInv /\ [GateNext]_gateVars
        => (AskedInv /\ OperandsApart /\ ShInv /\ ListInv)'
  BY GateCalls, AskedKeeps, GateKeepsShell, GateKeepsListing
<1>2. QED
  BY <1>1, GateStartsShell, ListInvLists, PTL DEF GateSpec
=============================================================================
