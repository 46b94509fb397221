----------------------------- MODULE MCMachines -----------------------------
EXTENDS RandomMachines, Enumerator, FsmFiles, TestHarness, Generator, Analysis

(* random machines, enumerations, files, the execution of test suites, the  *)
(* generator and questions to a machine are checked side by side: a          *)
(* behaviour is about one of them                                           *)
VARIABLE part
mcVars == <<rmVars, dmVars, enumVars, fileVars, harnessVars, generatorVars, analysisVars, part>>

AboutRandomMachines == part = "random" /\ Next /\ UNCHANGED <<enumVars, fileVars, harnessVars, generatorVars, analysisVars, part>>
AboutEnumerations == part = "enumerated" /\ EnumNext /\ UNCHANGED <<rmVars, dmVars, fileVars, harnessVars, generatorVars, analysisVars, part>>
AboutFiles == part = "files" /\ FilesNext /\ UNCHANGED <<rmVars, dmVars, enumVars, harnessVars, generatorVars, analysisVars, part>>
AboutTestExecution == part = "executed" /\ HarnessNext /\ UNCHANGED <<rmVars, dmVars, enumVars, fileVars, generatorVars, analysisVars, part>>
AboutTheGenerator == part = "generated" /\ GeneratorNext /\ UNCHANGED <<rmVars, dmVars, enumVars, fileVars, harnessVars, analysisVars, part>>
AboutTheMachineItself == part = "analysed" /\ AnalysisNext /\ UNCHANGED <<rmVars, dmVars, enumVars, fileVars, harnessVars, generatorVars, part>>
Ends ==
  /\ \/ part = "enumerated" /\ answer = "no"
     \/ part = "executed" /\ program = "ended"
     \/ part = "generated" /\ doing \in {"saved", "exit", "undefined"}
     \/ part = "analysed" /\ AnalysisDone
     \/ part = "files" /\ (outcome \in {"exit", "undefined"} \/ steps = MaxSteps)
  /\ UNCHANGED mcVars

NoUnits == << >>
FirstFile == CHOOSE f \in TestFiles : TRUE
MCInit ==
  /\ part \in {"random", "enumerated", "files", "executed", "generated", "analysed"}
  /\ part # "executed" => testFile = FirstFile /\ fault = NoFault
  /\ part # "generated" => units = NoUnits
  /\ part # "random" => req = CHOOSE r \in Requests : TRUE
  /\ part # "enumerated" => size = CHOOSE s \in Sizes : TRUE
  /\ part # "files" => file = CHOOSE f \in GivenFiles : TRUE
  /\ HarnessInit /\ GeneratorInit /\ Init /\ EnumInit /\ FilesInit /\ AnalysisInit
MCSpec == MCInit /\ [][AboutRandomMachines \/ AboutEnumerations \/ AboutFiles \/ AboutTestExecution \/ AboutTheGenerator \/ AboutTheMachineItself \/ Ends]_mcVars

Shaped(maxInput, maxOutput, maxState, degree, maxNonDet, force, minimal, observable) ==
  [kind |-> "shaped", maxInput |-> maxInput, maxOutput |-> maxOutput, maxState |-> maxState,
   degree |-> degree, maxNonDet |-> maxNonDet, force |-> force, minimal |-> minimal,
   observable |-> observable, chance |-> 0, derive |-> FALSE]
Complete2(maxInput, maxOutput, maxState, observable) ==
  [Shaped(maxInput, maxOutput, maxState, <<0,1>>, <<0,1>>, FALSE, FALSE, observable)
     EXCEPT !.kind = "complete", !.derive = maxState = 1]
Partial(maxInput, maxOutput, maxState, chance) ==
  [Shaped(maxInput, maxOutput, maxState, <<0,1>>, <<0,1>>, FALSE, FALSE, TRUE)
     EXCEPT !.kind = "partial", !.chance = chance, !.derive = TRUE]

AtRandom(maxInput, maxOutput, maxState) ==
  [Partial(maxInput, maxOutput, maxState, 100) EXCEPT !.kind = "dfsm"]

Degrees == {<<0,1>>, <<1,2>>, <<1,1>>}
(* machines with one input and two outputs, two inputs and one output, three *)
(* states, and two of both                                                   *)
MCRequests ==
  {Complete2(0,1,1,TRUE), Complete2(0,1,1,FALSE), Complete2(1,0,1,TRUE), Complete2(0,0,2,TRUE),
   Partial(0,1,1,50), Partial(1,0,1,100), Partial(0,0,2,50), AtRandom(0,1,1), AtRandom(1,1,1)}
  \cup {Shaped(0,1,1,d,nd,f,min,TRUE) : d \in Degrees, nd \in Degrees, f \in BOOLEAN, min \in BOOLEAN}
  \cup {Shaped(1,0,1,d,nd,FALSE,min,TRUE) : d \in {<<3,4>>,<<1,2>>}, nd \in {<<0,1>>,<<1,1>>}, min \in BOOLEAN}
  \cup {Shaped(0,1,1,<<1,2>>,<<1,1>>,f,min,FALSE) : f \in BOOLEAN, min \in BOOLEAN}
  \cup {Shaped(0,0,2,d,<<0,1>>,FALSE,min,TRUE) : d \in {<<0,1>>,<<2,3>>}, min \in BOOLEAN}
  \cup {Shaped(0,0,1,<<0,1>>,<<1,1>>,TRUE,TRUE,TRUE), Shaped(0,1,2,<<2,3>>,<<1,1>>,TRUE,TRUE,TRUE),
        Shaped(1,1,1,<<1,2>>,<<1,1>>,TRUE,TRUE,TRUE)}

Mutants == {[op |-> "mutant", outputFaults |-> o, transitionFaults |-> t, keepObservability |-> k] :
              o \in 0 .. 2, t \in 0 .. 1, k \in BOOLEAN}
MCJobs == Mutants \cup {[op |-> "reduction", force |-> f] : f \in BOOLEAN}
          \cup {[op |-> "less", removedInputs |-> k] : k \in 1 .. 3}

Size(maxInput, maxOutput, maxState, smaller) ==
  [maxInput |-> maxInput, maxOutput |-> maxOutput, maxState |-> maxState, generateSmallerFsms |-> smaller]
MCSizes == {Size(1,0,1,b) : b \in BOOLEAN} \cup {Size(0,0,2,b) : b \in BOOLEAN} \cup {Size(0,1,1,FALSE)}

MCStringOrder == <<"-1", "0", "1", "2", "A", "_nop", "a", "b", "y", "z">>
To(to, out) == [to |-> to, out |-> out]
Row(n, es) == [name |-> n, entries |-> es]
Csv(header, rows) == [format |-> "csv", header |-> header, rows |-> rows]
MCCsv == {Csv(<<"a", "b">>, <<Row("s", <<To("t", "y"), e>>), Row("t", <<To("s", o), To("s", "z")>>)>>) : e \in {EmptyEntry, To("s", "y"), To("u", "y"), To("t", "")}, o \in {"y", "A"}}
    \cup {Csv(<<"b", "a">>, <<Row("s", <<To("t", "y"), To("t", "z")>>), Blank, Row("t", <<To("s", "y"), To("s", "z")>>)>>),
          Csv(<<"b">>, <<Row("s", <<To("s", "y")>>), Blank>>)}
Stated(s, i, o, t) == [source |-> s, input |-> i, output |-> o, target |-> t]
Json(outs, ts) == [format |-> "json", inputs |-> <<"a", "b">>, outputs |-> outs, states |-> <<[name |-> "t", initial |-> FALSE], [name |-> "s", initial |-> TRUE]>>, transitions |-> ts]
MCJson == {Json(o, <<Stated("s", i, "y", "t"), Stated("t", <<"a">>, "z", "s")>>) : o \in {<<"y", "z">>, <<"y">>, <<"z", Nop, "y">>}, i \in {<<"a">>, <<"a", "b">>}}
Raw(ls) == [format |-> "raw", lines |-> ls]
MCRaw == {Raw(<<<<1, 0, 0, 0>>, <<0, 0, 1, 1>>, <<0, 1, 1, 0>>>>), Raw(<<<<1, 0, 0, 0>>, << >>, <<1, 0, 1, 1>>>>), Raw(<<<<0, 0, 0, 2>>, <<0, 0, 0, 2>>>>),
   Raw(<<<<0, 0, 0, 1>>, <<1, 0, 0, 0>>, <<1, 0, 0, 0>>>>)}
DotNode(id, l, i) == [id |-> id, label |-> l, initial |-> i]
DotEdge(s, i, o, t) == [from |-> s, to |-> t, in |-> i, out |-> o, comment |-> FALSE]
MCDot == {[format |-> "dot", nodes |-> <<DotNode(3, "s", FALSE), DotNode(1, "t", TRUE)>>, edges |-> <<DotEdge(1, "b", "z", 3), DotEdge(3, "a", "y", 1), DotEdge(3, "a", "z", 3)>>],
   [format |-> "dot", nodes |-> <<DotNode(3, "s", TRUE), DotNode(10, "t", FALSE)>>, edges |-> <<DotEdge(3, "b", "z", 10)>>],
   [format |-> "dot", nodes |-> <<DotNode(3, "s", TRUE)>>, edges |-> <<DotEdge(3, "b", "z", 1)>>]}
MCGivenFiles == MCCsv \cup MCJson \cup MCRaw \cup MCDot

MCFaults ==
  {NoFault} \cup [state : {"up", "moving_down"}, input : {"e1", "e4"}, next : {"up", "down"}, output : {"a1", "a3", "_nop"}]
(* suites of two test cases, of which three inputs do not fit into a line,  *)
(* and files that break off, name unknown events or are no test suites      *)
MCTestCases == {<<"e1">>, <<"e4">>, <<"e1", "e4">>, <<"e1", "e1">>, <<"e2", "e1">>, <<"e1", "e2", "e1">>, << >>}
MCTestFiles ==
  {Save(<<a, b>>) : a, b \in MCTestCases} \cup {Front(Save(<<a>>)) : a \in MCTestCases \ {<< >>}}
  \cup {TestCase(i, o) : i \in {<<"e5">>, <<"e1", "e5">>}, o \in {<<"a1", "a4">>, <<"a5", "a1">>}}
  \cup {<<"e1", "/", "a1", Newline>>, <<"(", "e1", ")", Newline>>, <<"(", "e1", ")", "/", "a1", ")", Newline>>}

(* models of each type and each property that a method asks for *)
Model(type, parses, deterministic, complete, minimal, harmonised) ==
  [type |-> type, parses |-> parses, deterministic |-> deterministic, complete |-> complete,
   minimal |-> minimal, harmonised |-> harmonised]
MCModelFiles ==
  ("a.csv" :> Model("CSV", TRUE, TRUE, TRUE, FALSE, TRUE)) @@ ("j.fsm" :> Model("JSON", TRUE, TRUE, FALSE, TRUE, TRUE))
  @@ ("x.fsm" :> Model("JSON", FALSE, TRUE, TRUE, TRUE, TRUE)) @@ ("d.fsm" :> Model("BASIC", TRUE, TRUE, TRUE, TRUE, TRUE))
  @@ ("n.fsm" :> Model("BASIC", TRUE, FALSE, TRUE, TRUE, TRUE)) @@ ("m.fsm" :> Model("BASIC", TRUE, FALSE, TRUE, TRUE, FALSE))
MCUnits == {<<o>> : o \in DOMAIN MethodOf \cup {"-s"}} \cup {<<"-n", "-s">>, <<"-a", "1">>, <<"-t", "x.fsm">>}
LastUnits == {<<f>> : f \in DOMAIN MCModelFiles} \cup {<<"-a", "2">>, <<"-s">>, <<"-rtt">>}
(* up to three options before the first and, with two of them, the second  *)
(* file; and lines that end otherwise                                      *)
MCCommandLines ==
  {NoUnits} \cup {os \o <<f>> : os \in UNION {[1 .. n -> MCUnits] : n \in 0 .. 2}, f \in LastUnits}
  \cup {os \o <<f, g>> : os \in UNION {[1 .. n -> MCUnits] : n \in 0 .. 1}, f \in LastUnits, g \in LastUnits}
  \cup {<<<<"-s">>>> \o os \o <<<<"a.csv">>, <<"j.fsm">>>> : os \in [1 .. 2 -> MCUnits]}
  \cup {<<u, <<"-p", "i", "o", "s">>, <<"-rtt", "r">>, f>> : u \in MCUnits, f \in LastUnits}

(* observable machines: all with two states, two inputs and two outputs, and *)
(* those with three states and one output of either or two for one input     *)
Analysable(n, maxInput, maxOutput, post) == [nodes |-> n, maxInput |-> maxInput, maxOutput |-> maxOutput, post |-> post]
MCAnalysed ==
  {Analysable(2, 1, 1, p) : p \in [0 .. 1 -> [0 .. 1 -> [0 .. 1 -> -1 .. 1]]]}
  \cup {Analysable(3, 0, 1, p) : p \in [0 .. 2 -> [{0} -> [0 .. 1 -> -1 .. 2]]]}
  \cup {Analysable(3, 1, 0, p) : p \in [0 .. 2 -> [0 .. 1 -> [{0} -> -1 .. 2]]]}
=============================================================================
