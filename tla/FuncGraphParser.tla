---------------------------- MODULE FuncGraphParser ----------------------------
(***************************************************************************)
(* Discovery of the functions of a call graph (FindGraphFuncs of           *)
(* func_graph.go, func_graph_parser.go).  A goroutine per function and     *)
(* depth disassembles the function and adds what it calls, one level       *)
(* deeper, to a table they all share; every function that can be traced    *)
(* starts a goroutine of its own.  It runs twice: for the functions a      *)
(* graph must not have, with what they call, then for those to be traced.  *)
(*                                                                         *)
(* Goroutines take a step at a time, a step being a section under a lock   *)
(* or the accesses to one field of a FuncGraph, which no lock protects.    *)
(* A goroutine is the record of what it has left to do.  Two goroutines    *)
(* for the same function and depth that have not started are the same      *)
(* element of the set: the second would end at once, in checkParsed.       *)
(***************************************************************************)
EXTENDS Integers, Sequences, SequencesExt, FiniteSets

CONSTANTS
  Funcs,       \* addresses of functions
  NoFunc,
  Callees,     \* what a function calls, in the order of its instructions
  Replaced,    \* BPF function -> the freplace program it jumps to, or NoFunc
  Traceable,   \* functions that add accepts: with BTF, not denied, not excluded
  DenyList,    \* functions of fgraphDenyList, as a sequence
  Roots,       \* functions traced with their graph
  Extra,       \* functions of --fgraph-extra, as a sequence
  MaxDepth,    \* --fgraph-max-depth
  Debug,       \* --fgraph-debug
  MayFail,     \* a function may fail to be disassembled
  MayCancel    \* the context may be cancelled by a signal

ASSUME ParserAssumption ==
  /\ NoFunc \notin Funcs /\ MaxDepth \in Nat
  /\ Callees \in [Funcs -> Seq(Funcs)]
  /\ Replaced \in [Funcs -> Funcs \cup {NoFunc}]
  /\ \A f \in Funcs : Replaced[f] # NoFunc => Replaced[Replaced[f]] = NoFunc
  /\ Traceable \subseteq Funcs /\ Roots \subseteq Funcs
  /\ DenyList \in Seq(Traceable) /\ Extra \in Seq(Traceable)
  /\ {Debug, MayFail, MayCancel} \subseteq BOOLEAN

VARIABLES
  phase,      \* "deny", "graph", "done" or "failed"
  graphs,     \* FuncGraphParser.graphs: function -> state of its FuncGraph
  callee,     \* FuncGraphParser.callee: functions whose callees are stored
  parsed,     \* FuncGraphParser.parsed
  tasks,      \* goroutines, and the loops of FindGraphFuncs that add functions
  err,        \* a goroutine of the errgroup returned an error
  cancelled,  \* the context of the program is cancelled
  denylist,   \* the table of the first phase
  result,     \* what FindGraphFuncs returns
  missed      \* history: the phases in which an add met a FuncGraph with no
              \* bytes yet, and "misread" if one met a program without Bprog

vars == <<phase, graphs, callee, parsed, tasks, err, cancelled, denylist, result, missed>>

\* A FuncGraph: not in the table; just added; with bytes; with Bprog or Kfunc
\* too; or left empty, as its function is not traceable.
GraphStates == {"absent", "placed", "sized", "known", "empty"}

HasBytes(f) == graphs[f] \in {"sized", "known"}
IsBPF_fault(f) == FALSE
IsBPF(f)    == Replaced[f] # NoFunc /\ graphs[f] = "known"

-----------------------------------------------------------------------------
(* Goroutines.                                                             *)

\* addParse
Parse(f, d, bpf) == [ip |-> f, depth |-> d, bpf |-> bpf, pc |-> "start",
                     todo |-> <<>>, at |-> d + 1, store |-> FALSE]

\* A loop of FindGraphFuncs over functions to add at one depth.
AddLoop(fs, d) == [ip |-> NoFunc, depth |-> 0, bpf |-> FALSE, pc |-> "next",
                   todo |-> fs, at |-> d, store |-> FALSE]

Cur(t) == Head(t.todo)

Move(t, u)       == tasks' = (tasks \ {t}) \cup {u}
MoveSpawn(t, u, s) == tasks' = (tasks \ {t}) \cup {u, s}
End(t)           == tasks' = tasks \ {t}

At(t, pc)   == [t EXCEPT !.pc = pc]
NextAdd(t)  == [t EXCEPT !.pc = "next", !.todo = Tail(@)]

checkParsed_late(t) == t.ip \in callee
checkParsed(t) == <<t.ip, t.depth>> \in parsed

\* parse: if p.checkParsed(ip, depth)
Start(t) ==
  /\ t.pc = "start"
  /\ IF checkParsed(t) THEN End(t) ELSE Move(t, At(t, "lookup"))
  /\ parsed' = parsed \cup {<<t.ip, t.depth>>}
  /\ UNCHANGED <<phase, graphs, callee, err, cancelled, denylist, result, missed>>

\* The callees another goroutine stored for another depth of this function.
Cached_fault(t) == t.pc = "lookup" /\ t.ip \in callee /\ End(t)
Cached(t) ==
  /\ t.pc = "lookup" /\ t.ip \in callee
  /\ Move(t, [t EXCEPT !.pc = "next", !.todo = Callees[t.ip]])

Lookup(t) ==
  /\ Cached(t)
  /\ UNCHANGED <<phase, graphs, callee, parsed, err, cancelled, denylist, result, missed>>

\* A program replaced by another one has no other callee, and no depth of its own.
DisassembleReplaced(t) ==
  /\ t.pc = "lookup" /\ t.ip \notin callee
  /\ t.bpf /\ Replaced[t.ip] # NoFunc
  /\ Move(t, [t EXCEPT !.pc = "next", !.todo = <<Replaced[t.ip]>>, !.at = t.depth])
  /\ UNCHANGED <<phase, graphs, callee, parsed, err, cancelled, denylist, result, missed>>

Disassemble(t) ==
  /\ t.pc = "lookup" /\ t.ip \notin callee
  /\ ~(t.bpf /\ Replaced[t.ip] # NoFunc)
  /\ Move(t, [t EXCEPT !.pc = "next", !.todo = Callees[t.ip], !.store = TRUE])
  /\ UNCHANGED <<phase, graphs, callee, parsed, err, cancelled, denylist, result, missed>>

DisassembleFails(t) ==
  /\ MayFail
  /\ t.pc = "lookup" /\ t.ip \notin callee
  /\ err' = TRUE
  /\ End(t)
  /\ UNCHANGED <<phase, graphs, callee, parsed, cancelled, denylist, result, missed>>

TooDeep_fault(t) == t.at > MaxDepth + 1
TooDeep(t) == t.at > MaxDepth

\* add: if depth > p.maxDepth
AddTooDeep(t) ==
  /\ t.pc = "next" /\ t.todo # <<>> /\ TooDeep(t)
  /\ Move(t, NextAdd(t))
  /\ UNCHANGED <<phase, graphs, callee, parsed, err, cancelled, denylist, result, missed>>

Place(f) == [graphs EXCEPT ![f] = "placed"]

\* add: the section under glock
AddNew(t) ==
  /\ t.pc = "next" /\ t.todo # <<>> /\ ~TooDeep(t)
  /\ graphs[Cur(t)] = "absent"
  /\ graphs' = Place(Cur(t))
  /\ Move(t, At(t, "new"))
  /\ UNCHANGED <<phase, callee, parsed, err, cancelled, denylist, result, missed>>

AddKnown(t) ==
  /\ t.pc = "next" /\ t.todo # <<>> /\ ~TooDeep(t)
  /\ graphs[Cur(t)] # "absent"
  /\ Move(t, At(t, "found"))
  /\ UNCHANGED <<phase, graphs, callee, parsed, err, cancelled, denylist, result, missed>>

\* add: if g.bytes != 0, and what is read of g with no lock to start a parse
ParseAgain_fault(t) ==
  /\ HasBytes(Cur(t))
  /\ MoveSpawn(t, NextAdd(t), Parse(Cur(t), t.at, IsBPF(Cur(t))))
ParseAgain(t) ==
  IF HasBytes(Cur(t))
  THEN MoveSpawn(t, NextAdd(t), Parse(Cur(t), t.at, IsBPF(Cur(t))))
  ELSE Move(t, NextAdd(t))

AddAgain(t) ==
  /\ t.pc = "found"
  /\ ParseAgain(t)
  /\ missed' = missed
       \cup (IF graphs[Cur(t)] = "placed" /\ Cur(t) \in Traceable THEN {phase} ELSE {})
       \cup (IF graphs[Cur(t)] = "sized" /\ Replaced[Cur(t)] # NoFunc THEN {"misread"} ELSE {})
  /\ UNCHANGED <<phase, graphs, callee, parsed, err, cancelled, denylist, result>>

\* add: the function is not to be traced
AddUntraceable(t) ==
  /\ t.pc = "new" /\ Cur(t) \notin Traceable
  /\ graphs' = [graphs EXCEPT ![Cur(t)] = "empty"]
  /\ Move(t, NextAdd(t))
  /\ UNCHANGED <<phase, callee, parsed, err, cancelled, denylist, result, missed>>

\* add: g.bytes, then g.Bprog or g.Kfunc
AddSize(t) ==
  /\ t.pc = "new" /\ Cur(t) \in Traceable
  /\ graphs' = [graphs EXCEPT ![Cur(t)] = "sized"]
  /\ Move(t, At(t, "sized"))
  /\ UNCHANGED <<phase, callee, parsed, err, cancelled, denylist, result, missed>>

\* add: a goroutine for the new function, unless the context has ended
AddParse(t) ==
  /\ t.pc = "sized"
  /\ graphs' = [graphs EXCEPT ![Cur(t)] = "known"]
  /\ IF err \/ cancelled
     THEN Move(t, NextAdd(t))
     ELSE MoveSpawn(t, NextAdd(t), Parse(Cur(t), t.at, Replaced[Cur(t)] # NoFunc))
  /\ UNCHANGED <<phase, callee, parsed, err, cancelled, denylist, result, missed>>

\* parse: all callees added
Finish(t) ==
  /\ t.pc = "next" /\ t.todo = <<>>
  /\ callee' = IF t.store THEN callee \cup {t.ip} ELSE callee
  /\ End(t)
  /\ UNCHANGED <<phase, graphs, parsed, err, cancelled, denylist, result, missed>>

TaskStep(t) ==
  \/ Start(t) \/ Lookup(t) \/ DisassembleReplaced(t) \/ Disassemble(t) \/ DisassembleFails(t)
  \/ AddTooDeep(t) \/ AddNew(t) \/ AddKnown(t) \/ AddAgain(t)
  \/ AddUntraceable(t) \/ AddSize(t) \/ AddParse(t) \/ Finish(t)

-----------------------------------------------------------------------------
(* FindGraphFuncs.                                                         *)

NewTable == [f \in Funcs |-> "absent"]
Placed_fault == {f \in Funcs : graphs[f] = "known"}
Placed   == {f \in Funcs : graphs[f] # "absent"}
Found    == {f \in Funcs : graphs[f] = "known"}

\* errgroup.Wait: every goroutine has ended, none with an error
Waited == tasks = {} /\ ~err

\* parser.wait and the second parser
WaitDeny ==
  /\ phase = "deny" /\ Waited
  /\ phase' = "graph" /\ denylist' = Placed
  /\ graphs' = NewTable /\ callee' = {} /\ parsed' = {}
  /\ tasks' = {Parse(f, 0, Replaced[f] # NoFunc) : f \in Roots} \cup {AddLoop(Extra, 1)}
  /\ UNCHANGED <<err, cancelled, result, missed>>

Denied == IF Debug THEN {} ELSE Found \cap denylist

WaitGraph ==
  /\ phase = "graph" /\ Waited
  /\ phase' = "done" /\ result' = Found \ Denied
  /\ UNCHANGED <<graphs, callee, parsed, tasks, err, cancelled, denylist, missed>>

WaitFails ==
  /\ phase \in {"deny", "graph"} /\ tasks = {} /\ err
  /\ phase' = "failed"
  /\ UNCHANGED <<graphs, callee, parsed, tasks, err, cancelled, denylist, result, missed>>

\* A signal cancels the context of main.
Cancel ==
  /\ MayCancel /\ ~cancelled
  /\ phase \in {"deny", "graph"}
  /\ cancelled' = TRUE
  /\ UNCHANGED <<phase, graphs, callee, parsed, tasks, err, denylist, result, missed>>

Init ==
  /\ phase = "deny"
  /\ graphs = NewTable /\ callee = {} /\ parsed = {}
  /\ tasks = {AddLoop(DenyList, 0)}
  /\ err = FALSE /\ cancelled = FALSE
  /\ denylist = {} /\ result = {} /\ missed = {}

Next ==
  \/ \E t \in tasks : TaskStep(t)
  \/ WaitDeny \/ WaitGraph \/ WaitFails
  \/ Cancel

\* The Go scheduler runs every goroutine that can take a step.
Spec == Init /\ [][Next]_vars /\ WF_vars(\E t \in tasks : TaskStep(t))
             /\ WF_vars(WaitDeny) /\ WF_vars(WaitGraph) /\ WF_vars(WaitFails)

-----------------------------------------------------------------------------
(* What the call graph should be.                                          *)

Called(fs) == UNION {ToSet(Callees[f]) : f \in {g \in fs : Replaced[g] = NoFunc}}
Jumped(fs) == {Replaced[f] : f \in {g \in fs : Replaced[g] # NoFunc}}

\* The functions added d levels below those parsed at depth 0, where fs are
\* parsed at depth 0 and extra are added at depth 1.
Added(fs, extra) ==
  LET level[d \in 0..MaxDepth] ==
        LET new == IF d = 0 THEN {}
                   ELSE Called(IF d = 1 THEN fs \cup (level[0] \cap Traceable)
                               ELSE level[d - 1] \cap Traceable)
                        \cup (IF d = 1 THEN extra ELSE {})
        IN  new \cup Jumped(IF d = 0 THEN fs ELSE new \cap Traceable)
  IN  UNION {level[d] : d \in 0..MaxDepth}

GraphOfRoots == Added(Roots, ToSet(Extra)) \cap Traceable
\* The denied functions are themselves in the table of the first phase.
GraphOfDeny  == ToSet(DenyList) \cup Added(ToSet(DenyList), {})

-----------------------------------------------------------------------------
(* Properties.                                                             *)

Depths == 0..MaxDepth
Task == [ip : Funcs \cup {NoFunc}, depth : Depths, bpf : BOOLEAN,
         pc : {"start", "lookup", "next", "found", "new", "sized"},
         todo : Seq(Funcs), at : 0..(MaxDepth + 1), store : BOOLEAN]

\* Types; a function in the hands of add is one at a depth of the graph.
TypeOK ==
  /\ phase \in {"deny", "graph", "done", "failed"}
  /\ graphs \in [Funcs -> GraphStates]
  /\ callee \subseteq Funcs /\ parsed \subseteq Funcs \X Depths
  /\ tasks \subseteq Task
  /\ \A t \in tasks : t.pc \in {"found", "new", "sized"} => t.todo # <<>> /\ t.at \in Depths
  /\ {err, cancelled} \subseteq BOOLEAN
  /\ denylist \subseteq Funcs /\ result \subseteq Funcs
  /\ missed \subseteq {"deny", "graph", "misread"}

\* A function is parsed at a depth by one goroutine at most: not by two at
\* once, and not again.  Its FuncGraph is filled in by the one that put it in
\* the table, whoever else adds it meanwhile.
ParsedOnce ==
  /\ \A t, u \in tasks :
       /\ t.ip # NoFunc /\ t.ip = u.ip /\ t.depth = u.depth
       /\ t.pc # "start" /\ u.pc # "start"
       => t = u
  /\ \A f \in Funcs :
       Cardinality({t \in tasks : t.pc \in {"new", "sized"} /\ Cur(t) = f}) =
         IF graphs[f] \in {"placed", "sized"} THEN 1 ELSE 0

\* Every function of the result is within --fgraph-max-depth calls of a root,
\* or one call less of an extra function; none was on the list of denied ones.
\* A replaced program read before its Bprog is written is parsed as a function,
\* and what it does not call any more may then be added.  There is no result at
\* all when a disassembly failed: never a partial graph.
ResultSound ==
  phase = "done" => /\ ~err
                    /\ result \subseteq GraphOfRoots \/ "misread" \in missed
                    /\ Debug \/ result \cap denylist = {}

\* The result has all of them, unless an add met an unfinished FuncGraph or
\* the context was cancelled; and, in whatever order the goroutines run, it has
\* what a root calls and the extra functions.
ResultComplete ==
  phase = "done" /\ ~cancelled =>
    /\ missed \cap {"graph", "misread"} = {} =>
         GraphOfRoots \ (IF Debug THEN {} ELSE denylist) \subseteq result
    /\ MaxDepth > 0 =>
         ((Called(Roots) \cup ToSet(Extra)) \cap Traceable) \ denylist \subseteq result

\* The list of denied functions has every function one of them calls, down to
\* the depth, unless an add met an unfinished FuncGraph or was cancelled.
DenyComplete ==
  phase \in {"graph", "done"} /\ ~cancelled /\ missed \cap {"deny", "misread"} = {} =>
    denylist = GraphOfDeny

\* FindGraphFuncs returns, on cyclic call graphs too.
Termination == <>(phase \in {"done", "failed"})

\* What the flags promise: every function within the depth is in the graph.
AllFunctions ==
  phase = "done" /\ ~cancelled => GraphOfRoots \ denylist \subseteq result
=============================================================================
