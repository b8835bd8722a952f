------------------------------- MODULE MCGate -------------------------------
(***************************************************************************)
(* Command lines, environments, configuration files and machines for the   *)
(* dispatcher, names, lists and files for the NUL scanner, and files,      *)
(* environments and faults for envfile.sh.                                 *)
(***************************************************************************)
EXTENDS Gate, TLC

Entry(execution, exec, extension, preference) ==
  [execution |-> execution, exec |-> exec, extension |-> extension, preference |-> preference]

MCEntries ==
  ("awk" :> Entry("scripted", "awk", None, 0)) @@ ("c" :> Entry("built", None, None, 5))
  @@ ("perl" :> Entry("scripted", "perl", "pl", 20)) @@ ("rust" :> Entry("built", None, "rs", 25))
  @@ ("sh" :> Entry("scripted", "sh", None, 60)) @@ ("node" :> Entry("scripted", "node", "node.js", 70))

-----------------------------------------------------------------------------
(* Calls. *)

Arg(n, v) == [name |-> n, value |-> v]
Operand(v) == Arg(None, v)

Env(bom, crlf, nul, cont) ==
  [BOM |-> bom, CRLF |-> crlf, NUL |-> nul, BACKSLASH_CONTINUATION |-> cont]

Unset == Env("", "", "", "")

Line(k, v, bsl, cr) == [knob |-> k, value |-> v, bsl |-> bsl, cr |-> cr]
Conf(lines) == [readable |-> TRUE, bom |-> FALSE, nul |-> FALSE, lines |-> lines]
NoFile == [readable |-> FALSE, bom |-> FALSE, nul |-> FALSE, lines |-> <<>>]

Everything == [present |-> {"awk", "perl", "node"}, path |-> {"awk", "perl", "node"}, runtime |-> None]

ACall(args, env, file, machine) == [argv |-> args, env |-> env, file |-> file, host |-> machine]

\* Up to three arguments, in any order and repeated.
Words ==
  {Arg("format", f) : f \in {"native", "yaml", "bad"}} \cup {Arg("action", a) : a \in {"dump", "bad"}}
  \cup {Arg("language", l) : l \in {"c", "pl", "cobol", "bad"}}
  \cup {Arg("env", e) : e \in {"two words", "bad", "file"}}
  \cup {Arg("config", "bad"), Arg("NUL", "ignore"), Operand("file")}

Lines ==
  {Line(k, v, b, c) : k \in {"BOM"}, v \in {"literal", "strip"}, b \in {FALSE}, c \in BOOLEAN}
  \cup {Line("CRLF", v, FALSE, FALSE) : v \in {"strip", "other"}}
  \cup {Line("BACKSLASH_CONTINUATION", "accept", b, FALSE) : b \in BOOLEAN}
  \cup {Line("NUL", "ignore", FALSE, TRUE), Line("NUL", "", FALSE, FALSE), Line("other", "other", FALSE, FALSE)}

Files ==
  {Conf(<<a, b>>) : a, b \in Lines} \cup {NoFile}
  \cup {[Conf(<<l>>) EXCEPT !.bom = m, !.nul = ~m] : l \in Lines, m \in BOOLEAN}

Envs ==
  {Env(b, c, "", d) : b \in {"", "literal", "strip", "other"}, c \in {"", "strip"}, d \in {"", "accept"}}
  \cup {Env("", "", n, "") : n \in {"ignore", "other"}}

Configured(f) == <<Arg("format", f), Arg("config", "file"), Operand("file")>>

Machines ==
  [present : {{"awk", "perl", "node"}, {"perl"}, {"c", "rust"}}, path : {{"awk", "perl", "node"}, {"awk"}},
   runtime : {None, {"perl", "node"}}]

MCCalls ==
  {ACall(<<a, b, c>>, Unset, NoFile, Everything) : a, b, c \in Words}
  \cup {ACall(Configured(f), e, g, Everything) : f \in {"shell", "native"}, e \in Envs, g \in Files}
  \cup {ACall(<<Arg("config", "file"), Arg("language", l)>>, Unset, Conf(<<Line("CRLF", "strip", FALSE, FALSE)>>), h) :
          l \in {"awk", "c", "perl", "pl", "rust", "rs", "node", "node.js", "go"}, h \in Machines}

-----------------------------------------------------------------------------
(* Scans. *)

Holding(bytes, fails) == [bytes |-> bytes, fails |-> fails]

\* Files of no, one and two chunks, with a NUL byte in the first or the second.
MCContents ==
  "empty" :> Holding(<<>>, FALSE) @@ "full" :> Holding(<<"x", "x">>, FALSE)
  @@ "late" :> Holding(<<"x", "x", "NUL">>, FALSE) @@ "early" :> Holding(<<"NUL", "x", "x">>, FALSE)
  @@ "broken" :> Holding(<<"x", "x">>, TRUE) @@ "file" :> Holding(<<"x", "x", "x">>, FALSE)

Names == {"empty", "full", "late", "early", "broken", "missing", "-", ""}

AScan(names, listed, inflow) ==
  [names |-> names, listed |-> listed, files |-> MCContents, stdin |-> inflow]

MCScans ==
  {AScan(<<a, b, c>>, l, Holding(<<"x", s>>, f)) :
     a, b, c \in Names, l \in BOOLEAN, s \in {"x", "NUL"}, f \in BOOLEAN}
  \cup {AScan(<<n>>, FALSE, Holding(<<>>, FALSE)) : n \in Names \cup {"file"}}

Idle == ACall(<<>>, Unset, NoFile, Everything)
NoScan == AScan(<<"file">>, FALSE, Holding(<<>>, FALSE))

-----------------------------------------------------------------------------
(* Runs of envfile.sh, on one or two operands. *)

Rec(key, ref, text) == [key |-> key, ref |-> ref, text |-> text, bad |-> FALSE]
Bad == [Rec("A", "", "") EXCEPT !.bad = TRUE]

AFile(nul, bom, crs, records) == [nul |-> nul, bom |-> bom, crs |-> crs, records |-> records]

Piped == AFile(FALSE, FALSE, FALSE, <<Rec("B", "A", ""), Rec("P", "", "three")>>)

MCFiles ==
  "mine" :> AFile(FALSE, FALSE, FALSE, <<Rec("A", "", "one"), Rec("B", "A", "")>>)
  @@ "home" :> AFile(FALSE, TRUE, TRUE, <<Rec("A", "", "two"), Rec("ENVFILE", "", "two")>>)
  @@ "odd" :> AFile(FALSE, FALSE, TRUE, <<Bad, Rec("A", "X", "")>>)
  @@ "nul" :> AFile(TRUE, FALSE, FALSE, <<Rec("A", "", "nul")>>)

\* The value of P has two lines, the second of which reads like a binding.
MCLines ==
  LET l(k, t) == [key |-> k, text |-> t]
  IN <<l("B", "old"), l("P", "p"), l("B", "second line"), l("", ""), l("ENVFILE", "x")>>

AShell(full, signal) ==
  [files |-> MCFiles, piped |-> Piped, intmp |-> {"mine", "odd", "nul"}, lines |-> MCLines,
   full |-> full, signal |-> signal]

Operands == {"mine", "home", "odd", "nul", "missing", "-"}

Pairs == {<<a, b>> : a, b \in Operands}
Singles == {<<a>> : a \in Operands}

ShCall(files, f, a, env) ==
  ACall(<<Arg("language", "sh"), Arg("format", f), Arg("action", a)>>
          \o [k \in 1..Len(files) |-> Operand(files[k])],
        env, NoFile, [present |-> {"sh"}, path |-> {"sh"}, runtime |-> None])

Passing == {Env("", c, "", d) : c \in {"", "strip"}, d \in {"", "accept"}}

MCShells ==
  {[shell |-> AShell(f, FALSE), call |-> ShCall(o, "shell", "apply", e)] :
     f \in BOOLEAN, o \in Pairs, e \in Passing}
  \cup {[shell |-> AShell(FALSE, TRUE), call |-> ShCall(o, "shell", "apply", e)] :
          o \in {<<"mine", "-">>, <<"-", "home">>}, e \in Passing}
  \cup {[shell |-> AShell(f, FALSE), call |-> ShCall(o, "shell", a, e)] :
          f \in BOOLEAN, o \in Singles \cup {<<>>}, a \in {"validate", "delta"},
          e \in Passing \cup {Env(b, "", "", "") : b \in {"literal", "reject"}}}
  \cup {[shell |-> AShell(FALSE, FALSE), call |-> ShCall(o, "native", a, Env("", "", n, ""))] :
          o \in Singles, a \in {"delta", "apply"}, n \in {"", "ignore"}}

-----------------------------------------------------------------------------
Drive(d, scans, calls, shells) == [drive |-> d, scans |-> scans, calls |-> calls, shells |-> shells]

MCDrives ==
  {Drive("scan", MCScans, {Idle}, {AShell(FALSE, FALSE)}),
   Drive("call", {NoScan}, MCCalls, {AShell(FALSE, FALSE)})}
  \cup {Drive("call", {NoScan}, {s.call}, {s.shell}) : s \in MCShells}
  \cup {Drive("gated", {AScan(<<n>>, FALSE, Holding(<<>>, FALSE))},
              {ACall(<<Arg("language", "perl"), Arg("format", "native"), Operand(n)>>, Unset, NoFile, Everything)},
              {AShell(FALSE, FALSE)}) :
          n \in (Names \cup {"file"}) \ {"-"}}
=============================================================================
