------------------------------ MODULE Generator ------------------------------
(***************************************************************************)
(* The test generator program: it works through its command line, argument *)
(* by argument, reads the model and, for a safe method, its abstraction,   *)
(* and calls the method in effect.  Reading is the subject of FsmFiles, the *)
(* suites that of TestSuites, HMethod, SPYHMethod, SafeMethods and         *)
(* StrongReduction; here it matters which of them is called, on what.      *)
(*                                                                         *)
(* A command line is given as a sequence of units, an option with its      *)
(* parameters or a file name; the program sees their words one by one.     *)
(***************************************************************************)
EXTENDS Integers, Sequences, FiniteSets, SequencesExt, TLC

CONSTANTS
  CommandLines,  \* the command lines, sequences of sequences of words
  ModelFiles     \* what each model file is: [type, parses, deterministic, complete, minimal, harmonised], of the machine or, harmonised, of its minimised form

VARIABLES
  units,         \* the command line
  argument,      \* parseParameters: index of the argument looked at
  genMethod,
  given,         \* the parameters of -n, -t, -a, -rtt and -p
  modelFile, modelAbstractionFile,   \* "" if there is none
  fsmRead, dfsmRead, abstractionRead,  \* what fsm, dfsm, dfsmAbstraction were read from, "" is null
  generated,     \* the suite saved
  doing          \* "parse", "read", "generate", "saved", "exit", "undefined"

generatorVars == <<units, argument, genMethod, given, modelFile, modelAbstractionFile,
                   fsmRead, dfsmRead, abstractionRead, generated, doing>>

args == FlattenSeq(units)
SafeMethod == [W |-> "SAFE_W", WP |-> "SAFE_WP", H |-> "SAFE_H"]
AllSafeMethods == {SafeMethod[m] : m \in DOMAIN SafeMethod}
MethodOf == ("-w" :> "W") @@ ("-wp" :> "WP") @@ ("-h" :> "H") @@ ("-hsi" :> "HSI")
            @@ ("-sr" :> "STRONG_REDUCTION") @@ ("-spyh" :> "SPYH")
Parameters == [o \in {"-n", "-t", "-a", "-rtt", "-p"} |-> IF o = "-p" THEN 3 ELSE 1]
NothingGiven == [o \in DOMAIN Parameters |-> << >>]

-----------------------------------------------------------------------------
(* Faulty variant: -h forgets that a safe method was asked for. *)
FaultyMethodAfter(m, a) ==
  CASE a = "-w" -> IF m = "WP" THEN "W" ELSE IF m = "SAFE_WP" THEN "SAFE_W" ELSE m
    [] a = "-wp" -> IF m \in {"SAFE_W", "SAFE_WP"} THEN "SAFE_WP" ELSE "WP"
    [] a \in {"-h", "-hsi", "-sr", "-spyh"} -> MethodOf[a]
    [] a = "-s" -> IF m \in DOMAIN SafeMethod THEN SafeMethod[m] ELSE m
    [] OTHER -> m

(* the method after an argument *)
MethodAfter(m, a) ==
  CASE a = "-w" -> IF m = "WP" THEN "W" ELSE IF m = "SAFE_WP" THEN "SAFE_W" ELSE m
    [] a = "-wp" -> IF m \in {"SAFE_W", "SAFE_WP"} THEN "SAFE_WP" ELSE "WP"
    [] a = "-h" -> IF m \in AllSafeMethods THEN "SAFE_H" ELSE "H"
    [] a \in {"-hsi", "-sr", "-spyh"} -> MethodOf[a]
    [] a = "-s" -> IF m \in DOMAIN SafeMethod THEN SafeMethod[m] ELSE m
    [] OTHER -> m

Known(a) == a \in DOMAIN MethodOf \cup DOMAIN Parameters \cup DOMAIN ModelFiles \cup {"-s"}

(* parseParameters, the loop body: with a model and a safe method, the     *)
(* argument that follows is taken for the abstraction, whatever it is      *)
ParseArgument ==
  /\ doing = "parse"
  /\ LET words == args
         a == words[argument]
         last == argument + (IF a \in DOMAIN Parameters THEN Parameters[a] ELSE 0)
         model == IF a \in DOMAIN ModelFiles THEN a ELSE modelFile
         takesNext == model # "" /\ MethodAfter(genMethod, a) \in AllSafeMethods
         next == IF takesNext THEN last + 1 ELSE last
     IN  /\ argument <= Len(words)
         /\ IF ~Known(a) \/ next > Len(words)
            THEN doing' = "exit" /\ UNCHANGED <<argument, genMethod, given, modelFile, modelAbstractionFile>>
            ELSE /\ argument' = next + 1
                 /\ genMethod' = MethodAfter(genMethod, a)
                 /\ given' = IF last > argument THEN [given EXCEPT ![a] = SubSeq(words, argument + 1, last)] ELSE given
                 /\ modelFile' = model
                 /\ modelAbstractionFile' = IF takesNext THEN words[next] ELSE modelAbstractionFile
                 /\ UNCHANGED doing
  /\ UNCHANGED <<units, fsmRead, dfsmRead, abstractionRead, generated>>

EndOfArguments ==
  /\ doing = "parse" /\ argument > Len(args)
  /\ doing' = IF modelFile = "" THEN "exit" ELSE "read"
  /\ UNCHANGED <<units, argument, genMethod, given, modelFile, modelAbstractionFile,
                 fsmRead, dfsmRead, abstractionRead, generated>>

-----------------------------------------------------------------------------
(* getModelType: what is no model counts as one in the basic format *)
ModelType(f) == IF f \in DOMAIN ModelFiles THEN ModelFiles[f].type ELSE "BASIC"
Unparsable(f) == ModelType(f) = "JSON" /\ ~ModelFiles[f].parses

(* readModel: a deterministic machine is a Dfsm, and fsmRead is null then *)
IsDfsm(f) == ModelType(f) \in {"CSV", "JSON"} \/ ModelFiles[f].deterministic

ReadModels ==
  /\ doing = "read"
  /\ IF \/ Unparsable(modelFile)
        \/ /\ genMethod \in AllSafeMethods
           /\ \/ ~IsDfsm(modelFile)
              \/ ModelType(modelAbstractionFile) = "BASIC" \/ Unparsable(modelAbstractionFile)
     THEN doing' = "exit" /\ UNCHANGED <<fsmRead, dfsmRead, abstractionRead>>
     ELSE /\ doing' = "generate"
          /\ fsmRead' = IF IsDfsm(modelFile) THEN "" ELSE modelFile
          /\ dfsmRead' = IF IsDfsm(modelFile) THEN modelFile ELSE ""
          /\ abstractionRead' = IF genMethod \in AllSafeMethods THEN modelAbstractionFile ELSE ""
  /\ UNCHANGED <<units, argument, genMethod, given, modelFile, modelAbstractionFile, generated>>

-----------------------------------------------------------------------------
Numerals == ("0" :> 0) @@ ("1" :> 1) @@ ("2" :> 2)
Atoi(words) == IF words # << >> /\ words[1] \in DOMAIN Numerals THEN Numerals[words[1]] ELSE 0

Suite(machine, testCases) ==
  [method |-> genMethod, machine |-> machine, abstraction |-> abstractionRead,
   numAddStates |-> Atoi(given["-a"]), file |-> given["-t"],
   logs |-> IF genMethod = "STRONG_REDUCTION" THEN << >> ELSE given["-rtt"], testCases |-> testCases]

(* generateTestSuite, by method.  Undefined behaviour: a strong reduction   *)
(* suite of a deterministic machine reads the null pointer fsm; the H       *)
(* method looks for the successor of a state that has none, if it compares  *)
(* such states; the SPYH method wants a trace that tells equivalent states  *)
(* apart; and the generalised H method has its traces logged, which have no *)
(* presentation layer.  If that method is not applicable, because the        *)
(* minimised machine is not harmonised, an empty suite is saved.            *)
BehavesUndefined ==
  CASE genMethod = "STRONG_REDUCTION" -> {fsmRead = ""}
    [] genMethod = "H" /\ dfsmRead # "" -> IF ModelFiles[dfsmRead].complete THEN {FALSE} ELSE BOOLEAN
    [] genMethod = "H" /\ dfsmRead = "" -> {ModelFiles[fsmRead].harmonised}
    [] genMethod = "SPYH" -> {dfsmRead # "" /\ ~ModelFiles[dfsmRead].minimal}
    [] OTHER -> {FALSE}

Exits == genMethod = "SPYH" /\ (dfsmRead # "" => ~ModelFiles[dfsmRead].complete)

GenerateTestSuite ==
  /\ doing = "generate"
  /\ \/ Exits /\ doing' = "exit" /\ UNCHANGED generated
     \/ ~Exits /\ TRUE \in BehavesUndefined /\ doing' = "undefined" /\ UNCHANGED generated
     \/ /\ ~Exits /\ FALSE \in BehavesUndefined
        /\ doing' = "saved"
        /\ generated' = Suite(IF dfsmRead # "" THEN dfsmRead ELSE fsmRead, ~(genMethod = "H" /\ dfsmRead = ""))
  /\ UNCHANGED <<units, argument, genMethod, given, modelFile, modelAbstractionFile, fsmRead, dfsmRead, abstractionRead>>

GeneratorInit ==
  /\ units \in CommandLines
  /\ argument = 1 /\ genMethod = "WP" /\ given = NothingGiven
  /\ modelFile = "" /\ modelAbstractionFile = ""
  /\ fsmRead = "" /\ dfsmRead = "" /\ abstractionRead = ""
  /\ generated = << >> /\ doing = "parse"

GeneratorNext == ParseArgument \/ EndOfArguments \/ ReadModels \/ GenerateTestSuite

-----------------------------------------------------------------------------
(* what printUsage says: at most one method, -s and the other options in    *)
(* any order, and then the model and perhaps its abstraction, from k on     *)
IsUsage(k) ==
  LET IsOption(u) == /\ u[1] \in DOMAIN MethodOf \cup DOMAIN Parameters \cup {"-s"}
                     /\ Len(u) = 1 + (IF u[1] \in DOMAIN Parameters THEN Parameters[u[1]] ELSE 0)
      Kind(u) == IF u[1] \in DOMAIN MethodOf THEN "method" ELSE u[1]
  IN  /\ k \in {Len(units) - 1, Len(units)} \cap DOMAIN units
      /\ \A i \in 1 .. k - 1 : IsOption(units[i])
      /\ \A i, j \in 1 .. k - 1 : Kind(units[i]) = Kind(units[j]) => i = j
      /\ \A i \in k .. Len(units) : Len(units[i]) = 1
      /\ units[k][1] \in DOMAIN ModelFiles

Asked(o) == {i \in DOMAIN units : units[i][1] = o}
AskedMethod == IF \E o \in DOMAIN MethodOf : Asked(o) # {}
               THEN MethodOf[CHOOSE o \in DOMAIN MethodOf : Asked(o) # {}] ELSE "WP"
AskedValue(o) == IF Asked(o) = {} THEN << >> ELSE Tail(units[CHOOSE i \in Asked(o) : TRUE])

(* methods and models that do not go together, or may not *)
Unsupported(m, f) ==
  CASE m = "SPYH" -> ~IsDfsm(f) \/ ~ModelFiles[f].complete \/ ~ModelFiles[f].minimal
    [] m = "STRONG_REDUCTION" -> IsDfsm(f)
    [] m = "H" -> ~IsDfsm(f) /\ ModelFiles[f].harmonised
    [] OTHER -> FALSE
MayFail(m, f) == m = "H" /\ IsDfsm(f) /\ ~ModelFiles[f].complete

(***************************************************************************)
(* Whatever the order of the options, a command line that keeps to the     *)
(* usage text ends in a suite of the method it names, a safe one with -s,  *)
(* for the model and the abstraction it names and with the parameters it   *)
(* gives; unless the model or the abstraction is none that the method      *)
(* accepts.  Lines with a second file and no safe method are left out: the *)
(* second file replaces the model there.                                   *)
(***************************************************************************)
SuiteAsAsked ==
  doing \in {"saved", "exit", "undefined"} => \A k \in DOMAIN units : IsUsage(k) =>
    LET model == units[k][1]
        safe == Asked("-s") # {} /\ AskedMethod \in DOMAIN SafeMethod
        rejected == \/ Unparsable(model)
                    \/ IF safe THEN \/ k = Len(units) \/ ~IsDfsm(model)
                                    \/ ModelType(Last(units)[1]) = "BASIC" \/ Unparsable(Last(units)[1])
                       ELSE Unsupported(AskedMethod, model)
    IN  (safe \/ k = Len(units)) =>
          /\ doing # "saved" => rejected \/ MayFail(AskedMethod, model)
          /\ doing = "saved" =>
               /\ ~rejected
               /\ generated.method = (IF safe THEN SafeMethod[AskedMethod] ELSE AskedMethod)
               /\ generated.machine = model
               /\ safe => generated.abstraction = Last(units)[1]
               /\ generated.numAddStates = Atoi(AskedValue("-a")) /\ generated.file = AskedValue("-t")
               /\ generated.logs = (IF AskedMethod = "STRONG_REDUCTION" THEN << >> ELSE AskedValue("-rtt"))
=============================================================================
