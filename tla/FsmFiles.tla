------------------------------ MODULE FsmFiles ------------------------------
(***************************************************************************)
(* Machines in files: the four formats an Fsm or Dfsm is constructed from  *)
(* and the writers of three of them.                                       *)
(*                                                                         *)
(* A file is what its tokens say.  Numbers of states, inputs and outputs   *)
(* start at 0 and stand for names through a presentation layer, of which   *)
(* the second of two related machines gets the one of the first.           *)
(***************************************************************************)
EXTENDS Integers, Sequences, FiniteSets, SequencesExt

CONSTANTS
  StringOrder,   \* input and output names in the order of std::set<string>
  GivenFiles,    \* files that other programs wrote
  MaxSteps       \* bound on what is done with files

VARIABLES
  file,        \* the file at hand
  machine,         \* the machine at hand
  outcome,     \* of the last step: "done", "exit", or "undefined" behaviour
  steps

fileVars == <<file, machine, outcome, steps>>

Nop == "_nop"
Blank == [blank |-> TRUE]
EmptyEntry == [to |-> "", out |-> ""]
NoFile == [format |-> "none"]
NoNames == [in |-> << >>, out |-> << >>, state |-> << >>]
NoFsm == [names |-> NoNames, maxInput |-> -1, maxState |-> -1, init |-> 0, nodes |-> << >>]

-----------------------------------------------------------------------------
(* in2Num, out2Num, state2Num; getInId, getOutId, getStateId *)
Number(names, s) == IF s \in Range(names) THEN Min({i \in DOMAIN names : names[i] = s}) - 1 ELSE -1
Id(names, i) == IF i + 1 \in DOMAIN names THEN names[i + 1] ELSE ToString(i)

Tr(x, y, to) == [x |-> x, y |-> y, to |-> to]

(* addTransition compares the addresses of labels, so it adds whatever is  *)
(* read                                                                    *)
AddTransition(trans, t) == Append(trans, t)

Node(trans) == [made |-> TRUE, trans |-> trans]
NoNode == [made |-> FALSE, trans |-> << >>]
Machine(names, maxState, init, nodes) ==
  [names |-> names, maxInput |-> Len(names.in) - 1, maxState |-> maxState, init |-> init, nodes |-> nodes]

Sorted(S) == SelectSeq(StringOrder, LAMBDA s : s \in S)
New(names, more) == names \o SelectSeq(more, LAMBDA s : s \notin Range(names))

-----------------------------------------------------------------------------
(* readFsm: lines <<source, input, output, target>>.  The first one names   *)
(* the initial state.                                                       *)
Largest(lines, i) == Max({l[i] : l \in Range(lines)})
ReadRaw(f, names) ==
  LET lines == SelectSeq(f.lines, LAMBDA l : l # << >>)   \* checkRawFormat
      maxState == IF lines = << >> THEN -1 ELSE Max({Largest(lines, 1), Largest(lines, 4)})
      Parsed(n) ==
        LET own == SelectSeq(lines, LAMBDA l : l[1] = n)
        IN  IF \E l \in Range(lines) : n \in {l[1], l[4]}
            THEN Node(FoldLeft(LAMBDA ts, l : AddTransition(ts, Tr(l[2], l[3], l[4])), << >>, own))
            ELSE NoNode
  IN  [Machine(names, maxState, IF lines = << >> THEN -1 ELSE lines[1][1],
               [n \in 1 .. maxState + 1 |-> Parsed(n - 1)])
         EXCEPT !.maxInput = IF lines = << >> THEN -1 ELSE Largest(lines, 2)]

(* Faulty variant: from state 0 on, as dumpFsm does. *)
FaultyToInternalFsmFormat(m) ==
  LET Of(n) == [i \in DOMAIN m.nodes[n].trans |->
                  LET t == m.nodes[n].trans[i] IN <<n - 1, t.x, t.y, t.to>>]
  IN  [format |-> "raw", lines |-> FlattenSeq([n \in DOMAIN m.nodes |-> Of(n)])]

(* toInternalFsmFormat: the initial state first *)
ToInternalFsmFormat(m) ==
  LET Of(n) == [i \in DOMAIN m.nodes[n].trans |->
                  LET t == m.nodes[n].trans[i] IN <<n - 1, t.x, t.y, t.to>>]
      Between(a, b) == FlattenSeq([i \in 1 .. b - a + 1 |-> Of(a + i - 1)])
  IN  [format |-> "raw", lines |-> Between(m.init + 1, Len(m.nodes)) \o Between(1, m.init)]

DumpFsm(m) == [format |-> "raw", lines |-> ToInternalFsmFormat([m EXCEPT !.init = 0]).lines]

-----------------------------------------------------------------------------
(* createPresentationLayerFromCsvFormat, without and with another layer *)
Rows(f) == SelectSeq(f.rows, LAMBDA r : r # Blank)
Outputs(f) == {e.out : e \in UNION {Range(r.entries) : r \in Range(Rows(f))}} \ {""}
CsvNames(f) ==
  [in |-> f.header, out |-> Sorted(Outputs(f) \cup {Nop}), state |-> [i \in DOMAIN Rows(f) |-> Rows(f)[i].name]]
CsvNamesWith(f, pl) ==
  [CsvNames(f) EXCEPT !.in = New(pl.in, f.header),
                      !.out = pl.out \o Sorted((Outputs(f) \cup {Nop}) \ Range(pl.out))]

(* createDfsmTransitionGraph: column x is input x, no output is output 0 *)
Entry(names, n, x, e) ==
  LET to == IF e = EmptyEntry THEN n ELSE Number(names.state, e.to)
      y == IF e.out = "" THEN 0 ELSE Number(names.out, e.out)
  IN  IF to >= 0 /\ y >= 0 THEN << Tr(x, y, to) >> ELSE << >>
ReadCsv(f, pl) ==
  LET names == IF pl = NoNames THEN CsvNames(f) ELSE CsvNamesWith(f, pl)
      Entries(n) == LET es == Rows(f)[n].entries
                IN  FlattenSeq([i \in DOMAIN es |-> Entry(names, n - 1, i - 1, es[i])])
  IN  Machine(names, Len(Rows(f)) - 1, 0, [n \in DOMAIN Rows(f) |-> Node(Entries(n))])

(* a blank line after the last state: a node behind the end of the vector *)
BeyondNodes(f) == f.rows # << >> /\ Last(f.rows) = Blank

(* toCsv: the first transition for an input *)
ToCsv(m) ==
  LET Of(n, x) == LET ts == SelectSeq(m.nodes[n].trans, LAMBDA t : t.x = x)
                  IN  IF ts = << >> THEN EmptyEntry
                      ELSE [to |-> Id(m.names.state, ts[1].to), out |-> Id(m.names.out, ts[1].y)]
  IN  [format |-> "csv",
       header |-> [i \in 1 .. m.maxInput + 1 |-> Id(m.names.in, i - 1)],
       rows |-> [n \in DOMAIN m.nodes |->
                   [name |-> Id(m.names.state, n - 1),
                    entries |-> [i \in 1 .. m.maxInput + 1 |-> Of(n, i - 1)]]]]

-----------------------------------------------------------------------------
(* Dfsm(Json::Value), without and with another layer *)
JsonStates(f) ==
  LET first == SelectSeq(f.states, LAMBDA s : s.initial)
      others == SelectSeq(f.states, LAMBDA s : ~s.initial)
  IN  [i \in 1 .. Min({1, Len(first)}) + Len(others) |->
         IF first = << >> THEN others[i].name ELSE IF i = 1 THEN first[1].name ELSE others[i - 1].name]
JsonNames(f) ==
  [in |-> f.inputs, out |-> IF Nop \in Range(f.outputs) THEN f.outputs ELSE Append(f.outputs, Nop),
   state |-> JsonStates(f)]
JsonNamesWith(f, pl) ==
  LET outs == New(pl.out, f.outputs)
  IN  [in |-> New(pl.in, f.inputs), out |-> IF Nop \in Range(pl.out) THEN outs ELSE Append(outs, Nop),
       state |-> JsonStates(f)]
NamesOf(f, pl) == IF pl = NoNames THEN JsonNames(f) ELSE JsonNamesWith(f, pl)
(* theNopNo *)
NopNumber(names, pl) == IF pl = NoNames THEN Number(names.out, Nop) ELSE Number(pl.out, Nop)

JsonKnown(f, names) ==
  \A t \in Range(f.transitions) :
    /\ {t.source, t.target} \subseteq Range(names.state) /\ t.output \in Range(names.out)
    /\ Range(t.input) \subseteq Range(names.in)
StatedTransitions(f, names, n) ==
  LET Of(t) == IF Number(names.state, t.source) # n THEN << >>
               ELSE [i \in DOMAIN t.input |-> Tr(Number(names.in, t.input[i]), Number(names.out, t.output),
                                                 Number(names.state, t.target))]
  IN  FlattenSeq([i \in DOMAIN f.transitions |-> Of(f.transitions[i])])
(* a self loop for every input without a transition *)
CompletelyDefined(trans, names, nop, n) ==
  LET undef == SelectSeq([i \in 1 .. Len(names.in) |-> i - 1], LAMBDA x : \A t \in Range(trans) : t.x # x)
  IN  trans \o [i \in DOMAIN undef |-> Tr(undef[i], nop, n)]
ReadJson(f, pl) ==
  LET names == NamesOf(f, pl)
      Completed(n) == CompletelyDefined(StatedTransitions(f, names, n), names, NopNumber(names, pl), n)
  IN  Machine(names, Len(names.state) - 1, 0, [n \in DOMAIN names.state |-> Node(Completed(n - 1))])

-----------------------------------------------------------------------------
(* readFsmFromDot.  Only ids of one digit and lines without a comment are   *)
(* recognised; maxState is the number of nodes.                             *)
Recognised(f) == SelectSeq(f.edges, LAMBDA e : ~e.comment /\ e.from < 10 /\ e.to < 10)
DotNodes(f) == SelectSeq(f.nodes, LAMBDA n : n.id < 10)
DotKnown(f) ==
  /\ \A e \in Range(Recognised(f)) : \E a, b \in Range(DotNodes(f)) : a.id = e.from /\ b.id = e.to
  /\ \A i, j \in DOMAIN DotNodes(f) : DotNodes(f)[i].id = DotNodes(f)[j].id => i = j
ReadDot(f) ==
  LET edges == Recognised(f)
      ns == DotNodes(f)
      names == [in |-> Sorted({e.in : e \in Range(edges)}), out |-> Sorted({e.out : e \in Range(edges)}),
                state |-> [i \in DOMAIN ns |-> ns[i].label]]
      At(id) == (CHOOSE i \in DOMAIN ns : ns[i].id = id) - 1
      Of(n) == SelectSeq(edges, LAMBDA e : At(e.from) = n)
      initial == {i \in DOMAIN ns : ns[i].initial}
  IN  Machine(names, Len(ns), IF initial = {} THEN -1 ELSE Min(initial) - 1,
              [n \in DOMAIN ns |->
                 Node([i \in DOMAIN Of(n - 1) |->
                         LET e == Of(n - 1)[i] IN Tr(Number(names.in, e.in), Number(names.out, e.out), At(e.to))])])

(* toDot: every edge is followed by a comment *)
ToDot(m) ==
  LET Of(n) == [i \in DOMAIN m.nodes[n].trans |->
                  LET t == m.nodes[n].trans[i]
                  IN  [from |-> n - 1, to |-> t.to, in |-> Id(m.names.in, t.x), out |-> Id(m.names.out, t.y),
                       comment |-> TRUE]]
  IN  [format |-> "dot",
       nodes |-> [n \in DOMAIN m.nodes |->
                    [id |-> n - 1, label |-> Id(m.names.state, n - 1), initial |-> n - 1 = m.init]],
       edges |-> FlattenSeq([n \in DOMAIN m.nodes |-> Of(n)])]

-----------------------------------------------------------------------------
Read(m, how) == machine' = m /\ outcome' = how /\ UNCHANGED file
Stops(how) == outcome' = how /\ UNCHANGED <<machine, file>>

ReadFile ==
  /\ file # NoFile
  /\ \E pl \in {NoNames, machine.names} :
       CASE file.format = "raw" -> Read(ReadRaw(file, pl), "read")
         [] file.format = "csv" /\ BeyondNodes(file) -> Stops("undefined")
         [] file.format = "csv" /\ ~BeyondNodes(file) -> Read(ReadCsv(file, pl), "read")
         [] file.format = "json" /\ ~JsonKnown(file, NamesOf(file, pl)) -> Stops("exit")
         [] file.format = "json" /\ JsonKnown(file, NamesOf(file, pl)) -> Read(ReadJson(file, pl), "read")
         [] file.format = "dot" /\ ~DotKnown(file) -> Stops("exit")
         [] file.format = "dot" /\ DotKnown(file) -> Read(ReadDot(file), "read")

Writable == machine.nodes # << >> /\ \A n \in Range(machine.nodes) : n.made
WriteFile ==
  /\ Writable
  /\ file' \in {ToCsv(machine), ToDot(machine), DumpFsm(machine)} \cup (IF machine.init < 0 THEN {} ELSE {ToInternalFsmFormat(machine)})
  /\ outcome' = "written"
  /\ UNCHANGED machine

(* Fsm(const Fsm&) makes maxState + 1 nodes *)
Copy ==
  /\ Writable
  /\ IF machine.maxState >= Len(machine.nodes) \/ machine.init < 0 THEN Stops("undefined")
     ELSE Read([machine EXCEPT !.nodes = SubSeq(machine.nodes, 1, machine.maxState + 1)], "copied")

(* another file to be read with the names of this machine *)
Open ==
  /\ outcome = "read"
  /\ file' \in GivenFiles \ {file}
  /\ outcome' = "open"
  /\ UNCHANGED machine

FilesInit == file \in GivenFiles /\ machine = NoFsm /\ outcome = "open" /\ steps = 0
FilesNext ==
  /\ outcome \notin {"exit", "undefined"} /\ steps < MaxSteps
  /\ steps' = steps + 1
  /\ ReadFile \/ WriteFile \/ Copy \/ Open

-----------------------------------------------------------------------------
(* what a machine does, by names *)
Meaning(m) ==
  LET st == m.names.state
  IN  [init |-> Id(st, m.init),
       trans |-> UNION {{<<Id(st, n - 1), Id(m.names.in, t.x), Id(m.names.out, t.y), Id(st, t.to)>> :
                           t \in Range(m.nodes[n].trans)} : n \in DOMAIN m.nodes}]

(* what a file says, independently of how it is read *)
FileMeaning(f, names) ==
  CASE f.format = "raw" ->
         LET lines == SelectSeq(f.lines, LAMBDA l : l # << >>)
         IN  [init |-> Id(names.state, lines[1][1]),
              trans |-> {<<Id(names.state, l[1]), Id(names.in, l[2]), Id(names.out, l[3]), Id(names.state, l[4])>> :
                           l \in Range(lines)}]
    [] f.format = "csv" ->
         LET Listed == {r.name : r \in Range(Rows(f))}
             Says(r, i) == LET e == r.entries[i]
                           IN  <<r.name, f.header[i], IF e.out = "" THEN Nop ELSE e.out, IF e = EmptyEntry THEN r.name ELSE e.to>>
         IN  [init |-> Rows(f)[1].name,
              trans |-> {t \in UNION {{Says(r, i) : i \in DOMAIN f.header} : r \in Range(Rows(f))} : t[4] \in Listed}]
    [] f.format = "json" ->
         LET stated == UNION {{<<t.source, x, t.output, t.target>> : x \in Range(t.input)} : t \in Range(f.transitions)}
             loops == {<<s.name, x, Nop, s.name>> : s \in Range(f.states), x \in Range(f.inputs)}
         IN  [init |-> (CHOOSE s \in Range(f.states) : s.initial).name,
              trans |-> stated \cup {l \in loops : \A t \in stated : <<t[1], t[2]>> # <<l[1], l[2]>>}]
    [] f.format = "dot" ->
         LET Label(id) == (CHOOSE n \in Range(f.nodes) : n.id = id).label
         IN  [init |-> (CHOOSE n \in Range(f.nodes) : n.initial).label,
              trans |-> {<<Label(e.from), e.in, e.out, Label(e.to)>> : e \in Range(f.edges)}]

(* the inputs of a file, by name *)
FileInputs(f, names) == {t[2] : t \in FileMeaning(f, names).trans}

(***************************************************************************)
(* What the formats leave to their users: raw files number their states    *)
(* without gaps and say nothing twice; columns of a table have the numbers  *)
(* of their inputs, and output 0 is no operation if an entry has none; a    *)
(* layer handed to the JSON reader knows no operation if some input is      *)
(* undefined; edges have no comments and ids one digit.                     *)
(***************************************************************************)
Numbered(f, m) ==
  CASE f.format = "raw" ->
         LET lines == SelectSeq(f.lines, LAMBDA l : l # << >>)
         IN  lines # << >> /\ IsInjective(lines) /\ {l[1] : l \in Range(lines)} \cup {l[4] : l \in Range(lines)} = 0 .. m.maxState
    [] f.format = "csv" ->
         /\ \A i \in DOMAIN f.header : Number(m.names.in, f.header[i]) = i - 1
         /\ Number(m.names.out, Nop) = 0 \/ \A r \in Range(Rows(f)) : \A e \in Range(r.entries) : e.out # ""
    [] f.format = "json" -> \A n \in Range(m.nodes) : \A t \in Range(n.trans) : t.y >= 0
    [] f.format = "dot" -> Len(DotNodes(f)) = Len(f.nodes) /\ Len(Recognised(f)) = Len(f.edges)

(***************************************************************************)
(* A machine that is read from a file whose users keep these rules does    *)
(* what the file says for the inputs of the file, stores each transition   *)
(* once, has all its nodes, and can be copied unless it comes from a dot   *)
(* file.  Copying it changes nothing.                                      *)
(***************************************************************************)
ReadsWhatIsSaid ==
  /\ outcome' = "read" /\ Numbered(file, machine') =>
       /\ Meaning(machine').init = FileMeaning(file, machine'.names).init
       /\ {t \in Meaning(machine').trans : t[2] \in FileInputs(file, machine'.names)} = FileMeaning(file, machine'.names).trans
       /\ \A n \in Range(machine'.nodes) : n.made /\ IsInjective(n.trans)
       /\ machine'.maxState = Len(machine'.nodes) - 1 \/ file.format = "dot"
  /\ outcome' = "copied" => Meaning(machine') = Meaning(machine) /\ machine'.names = machine.names

(* the machine with the self loops that an empty entry stands for *)
WithLoops(m) ==
  LET u == Meaning(m).trans
      loops == {<<Id(m.names.state, n - 1), Id(m.names.in, x), Nop, Id(m.names.state, n - 1)>> :
                  n \in DOMAIN m.nodes, x \in 0 .. m.maxInput}
  IN  u \cup {l \in loops : \A t \in u : <<t[1], t[2]>> # <<l[1], l[2]>>}

(***************************************************************************)
(* A file that is written says what the machine does: toInternalFsmFormat  *)
(* if the initial state can be left, dumpFsm and toCsv if the initial      *)
(* state has number 0 as well, toCsv for deterministic machines only.      *)
(***************************************************************************)
WritesWhatIsDone ==
  outcome' = "written" /\ machine.init >= 0 =>
        LET said == FileMeaning(file', machine.names)
            left == machine.nodes[machine.init + 1].trans # << >>
            deterministic == \A n \in Range(machine.nodes) : \A t, u \in Range(n.trans) : t.x = u.x => t = u
        IN  CASE file'.format = "csv" -> deterministic /\ machine.init = 0 =>
                                           said = [init |-> Id(machine.names.state, 0), trans |-> WithLoops(machine)]
              [] file'.format = "raw" -> left /\ (machine.init = 0 \/ file' = ToInternalFsmFormat(machine)) => said = Meaning(machine)
              [] file'.format = "dot" -> said = Meaning(machine)

(* Reading and writing keep the meaning of a machine. *)
FilesMeanMachines == [][ReadsWhatIsSaid /\ WritesWhatIsDone]_fileVars
=============================================================================
