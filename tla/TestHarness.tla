---------------------------- MODULE TestHarness ----------------------------
(***************************************************************************)
(* The two programs that execute a test suite file, line by line: the test *)
(* harness, linked with a system under test and its wrapper, here the      *)
(* garage door controller of the example; and the checker, which simulates *)
(* a model of the system.  A file is a sequence of tokens: names and the   *)
(* characters that the parser looks for.                                   *)
(***************************************************************************)
EXTENDS Integers, Sequences, FiniteSets, SequencesExt

CONSTANTS
  LineSize,    \* tokens of the buffer fgets reads into: 100000 characters
  TestFiles,   \* the files
  Faults       \* deviations of the system under test, NoFault among them

VARIABLES
  testFile,    \* the file
  fault,       \* what is wrong with the system under test
  program,     \* the program running: "harness", then "checker", or "ended"
  rest,        \* what is left of the file
  text,        \* the line as it was read
  line,        \* what is left of the line; empty between test cases
  sutState,    \* state of the system under test
  inVec, outVec,   \* what the checker has parsed
  verdicts     \* of both programs, each with the line it is about

harnessVars == <<testFile, fault, program, rest, text, line, sutState, inVec, outVec, verdicts>>

Events == {"e1", "e2", "e3", "e4"}
Null == <<"null">>
Newline == "newline"
NoFault == [state |-> "none"]

-----------------------------------------------------------------------------
(* gdc: the next state and the output *)
Gdc(s, x) ==
  CASE s \in {"up", "suspended_down"} /\ x = "e1" -> <<"moving_down", "a1">>
    [] s = "moving_down" /\ x = "e1" -> <<"suspended_down", "a3">>
    [] s = "moving_down" /\ x = "e2" -> <<"down", "a3">>
    [] s = "moving_down" /\ x = "e4" -> <<"moving_up", "a4">>
    [] s \in {"down", "suspended_up"} /\ x = "e1" -> <<"moving_up", "a2">>
    [] s = "moving_up" /\ x = "e1" -> <<"suspended_up", "a3">>
    [] s = "moving_up" /\ x = "e3" -> <<"up", "a3">>
    [] OTHER -> <<s, "_nop">>
InStr2Enum(x) == IF Len(x) = 1 /\ x[1] \in Events THEN x[1] ELSE "e1"
Sut(f, s, x) == IF f # NoFault /\ f.state = s /\ f.input = x THEN <<f.next, f.output>> ELSE Gdc(s, x)

(* the reference model, the table in resources/garage-door-controller.csv *)
Table == [
  Door_Up |-> [e1 |-> <<"Door_closing", "a1">>],
  Door_Down |-> [e1 |-> <<"Door_opening", "a2">>],
  Door_stopped_going_down |-> [e1 |-> <<"Door_closing", "a1">>],
  Door_stopped_going_up |-> [e1 |-> <<"Door_opening", "a2">>],
  Door_closing |-> [e1 |-> <<"Door_stopped_going_down", "a3">>, e2 |-> <<"Door_Down", "a3">>,
                    e4 |-> <<"Door_opening", "a4">>],
  Door_opening |-> [e1 |-> <<"Door_stopped_going_up", "a3">>, e3 |-> <<"Door_Up", "a3">>]]
Reference(s, x) == IF x \in DOMAIN Table[s] THEN Table[s][x] ELSE <<s, "_nop">>

(* the two systems that are compared: the reference model and the SUT *)
ReferenceModel == [state |-> "reference"]
React(system, s, x) == IF system = ReferenceModel THEN Reference(s, x) ELSE Sut(system, s, x)

(* Dfsm::applyDet: the outputs, as far as the inputs are defined *)
ApplyDet(system, init, ins) ==
  FoldLeft(LAMBDA r, x : IF ~r.defined \/ x \notin Events THEN [r EXCEPT !.defined = FALSE]
                         ELSE LET t == React(system, r.state, x)
                              IN  [r EXCEPT !.state = t[1], !.outs = Append(@, t[2])],
           [state |-> init, outs |-> << >>, defined |-> TRUE], ins).outs

(* TestSuite::save: (x1/y1).(x2/y2) and a newline for each test case *)
TestCase(ins, outs) ==
  FlattenSeq([i \in DOMAIN ins |-> (IF i = 1 THEN << >> ELSE <<".">>) \o <<"(", ins[i], "/", outs[i], ")">>])
  \o <<Newline>>
Save(suite) == FlattenSeq([i \in DOMAIN suite |-> TestCase(suite[i], ApplyDet(ReferenceModel, "Door_Up", suite[i]))])

-----------------------------------------------------------------------------
(* getNextIO: input, output and what follows them.  A missing bracket makes *)
(* the output, a missing slash both of them null.                           *)
Find(s, from, c) ==
  LET at == {i \in from .. Len(s) : s[i] = c} IN IF at = {} THEN 0 ELSE Min(at)
Rest(s, i) == SubSeq(s, i + 1, Len(s))
GetNextIO(s) ==
  LET a == Find(s, 1, "(")
      b == Find(s, a + 1, "/")
      c == Find(s, b + 1, ")")
  IN  CASE a = 0 -> [x |-> Null, y |-> Null, rest |-> << >>]
        [] a > 0 /\ b = 0 -> [x |-> Null, y |-> Null, rest |-> Rest(s, a)]
        [] a > 0 /\ b > 0 /\ c = 0 -> [x |-> SubSeq(s, a + 1, b - 1), y |-> Null, rest |-> Rest(s, b)]
        [] a > 0 /\ b > 0 /\ c > 0 ->
             [x |-> SubSeq(s, a + 1, b - 1), y |-> SubSeq(s, b + 1, c - 1), rest |-> Rest(s, c)]

(* fgets; the last character of the line is overwritten, be it a newline    *)
(* or not, and lines of one character are skipped                           *)
ReadLine ==
  /\ program # "ended" /\ line = << >> /\ rest # << >>
  /\ LET newline == Find(rest, 1, Newline)
         n == Min({LineSize - 1, IF newline = 0 THEN Len(rest) ELSE newline})
     IN  /\ rest' = Rest(rest, n)
         /\ line' = SubSeq(rest, 1, n - 1) /\ text' = line'
  /\ UNCHANGED <<testFile, fault, program, sutState, inVec, outVec, verdicts>>

(* Faulty variant: the system is reset after test cases that pass. *)
FaultyEndTestCase(verdict) ==
  /\ verdicts' = [verdicts EXCEPT ![program] = Append(@, [text |-> text, verdict |-> verdict])]
  /\ line' = << >> /\ inVec' = << >> /\ outVec' = << >>
  /\ sutState' = IF verdict = "PASS" THEN "up" ELSE sutState
  /\ UNCHANGED <<testFile, fault, program, rest, text>>

(* the next line follows, after sut_reset in the harness *)
EndTestCase(verdict) ==
  /\ verdicts' = [verdicts EXCEPT ![program] = Append(@, [text |-> text, verdict |-> verdict])]
  /\ line' = << >> /\ inVec' = << >> /\ outVec' = << >>
  /\ sutState' = "up"
  /\ UNCHANGED <<testFile, fault, program, rest, text>>

(* executeTestCase of the harness: one input, if there is one *)
ExecuteInput ==
  /\ program = "harness" /\ line # << >>
  /\ LET io == GetNextIO(line)
         asked == io.x # Null /\ io.y # Null
         reaction == Sut(fault, sutState, InStr2Enum(io.x))
     IN  IF asked /\ <<reaction[2]>> # io.y THEN EndTestCase("FAIL")
         ELSE IF io.rest = << >> THEN EndTestCase("PASS")
         ELSE /\ line' = io.rest
              /\ sutState' = IF asked THEN reaction[1] ELSE sutState
              /\ UNCHANGED <<testFile, fault, program, rest, text, inVec, outVec, verdicts>>

(* executeTestCase of the checker: an unknown input is reported and kept,   *)
(* an unknown output is a failure                                           *)
SutStates == {"up", "moving_down", "suspended_down", "down", "moving_up", "suspended_up"}
KnownOutputs == {"_nop"} \cup {Sut(fault, s, x)[2] : s \in SutStates, x \in Events}
Passes(ins, outs) == ApplyDet(fault, "up", ins) = outs
CheckInput ==
  /\ program = "checker" /\ line # << >>
  /\ LET io == GetNextIO(line)
         x == IF Len(io.x) = 1 /\ io.x[1] \in Events THEN io.x[1] ELSE "unknown"
         y == IF Len(io.y) = 1 /\ io.y[1] \in KnownOutputs THEN io.y[1] ELSE "unknown"
     IN  IF io.x = Null \/ io.y = Null THEN EndTestCase("none")
         ELSE IF x # "unknown" /\ y = "unknown" THEN EndTestCase("FAIL")
         ELSE IF io.rest = << >>
         THEN EndTestCase(IF Passes(Append(inVec, x), Append(outVec, y)) THEN "PASS" ELSE "FAIL")
         ELSE /\ line' = io.rest
              /\ inVec' = Append(inVec, x) /\ outVec' = Append(outVec, y)
              /\ UNCHANGED <<testFile, fault, program, rest, text, sutState, verdicts>>

EndOfFile ==
  /\ program # "ended" /\ line = << >> /\ rest = << >>
  /\ program' = IF program = "harness" THEN "checker" ELSE "ended"
  /\ rest' = IF program = "harness" THEN testFile ELSE << >>
  /\ text' = << >>
  /\ UNCHANGED <<testFile, fault, line, sutState, inVec, outVec, verdicts>>

HarnessInit ==
  /\ testFile \in TestFiles /\ fault \in Faults
  /\ program = "harness" /\ rest = testFile /\ text = << >> /\ line = << >>
  /\ sutState = "up" /\ inVec = << >> /\ outVec = << >>
  /\ verdicts = [p \in {"harness", "checker"} |-> << >>]
HarnessNext == ReadLine \/ ExecuteInput \/ CheckInput \/ EndOfFile

-----------------------------------------------------------------------------
(* the test case a line is, if it is one: its inputs and outputs *)
InputsOf(s) == [i \in 1 .. (Len(s) + 1) \div 6 |-> s[6 * i - 4]]
OutputsOf(s) == [i \in 1 .. (Len(s) + 1) \div 6 |-> s[6 * i - 2]]
IsTestCase(s) ==
  /\ s # << >> /\ (Len(s) + 1) % 6 = 0
  /\ Append(s, Newline) = TestCase(InputsOf(s), OutputsOf(s))
  /\ Range(InputsOf(s)) \subseteq Events

(***************************************************************************)
(* A line that is a test case passes if and only if the system, when       *)
(* it has been reset, answers its inputs with its outputs; whatever lines  *)
(* came before it, and in both programs.  At the end all nonempty lines    *)
(* of a file that fit into the buffer and end with a newline have got one  *)
(* verdict each.  The example's controller passes all test cases of its    *)
(* reference model.                                                        *)
(***************************************************************************)
VerdictsTrue ==
  /\ \A p \in DOMAIN verdicts : \A v \in Range(verdicts[p]) :
       IsTestCase(v.text) => v.verdict = IF Passes(InputsOf(v.text), OutputsOf(v.text)) THEN "PASS" ELSE "FAIL"
  /\ LET ends == {i \in DOMAIN testFile : testFile[i] = Newline}
         fits == \A i \in 1 .. Len(testFile) - (LineSize - 1) + 1 : \E j \in ends : j \in i .. i + LineSize - 2
         lines == {i \in ends : i > 1 /\ i - 1 \notin ends}
     IN  program = "ended" /\ testFile # << >> /\ Last(testFile) = Newline /\ fits =>
           \A p \in DOMAIN verdicts : Len(verdicts[p]) = Cardinality(lines)
  /\ fault = NoFault =>
       \A p \in DOMAIN verdicts : \A v \in Range(verdicts[p]) :
         IsTestCase(v.text) /\ OutputsOf(v.text) = ApplyDet(ReferenceModel, "Door_Up", InputsOf(v.text)) => v.verdict = "PASS"
=============================================================================
