----------------------------- MODULE FgraphEvents -----------------------------
(***************************************************************************)
(* The events of a call that is traced with its call graph or with its     *)
(* instructions.  Every function of the graph has a BPF program at entry   *)
(* and at exit (bpf/bpfsnoop_fgraph.c) that walks the frame pointers of    *)
(* its stack up to the session of an enclosing call; a program at an       *)
(* instruction (bpf/bpfsnoop_insn.c) walks three frames.  The reader       *)
(* collects the lines of a session and keeps a stack of timestamps for the *)
(* durations it prints (bpfsnoop_graph.go, bpfsnoop_insn.go,               *)
(* bpfsnoop_sess.go).                                                      *)
(*                                                                         *)
(* One kernel stack is modelled: sessions are per frame pointer, so the    *)
(* programs of other stacks only take room in the ring buffer, and         *)
(* BpfsnoopSession has them.  A timestamp is the call and the end of it    *)
(* that it was taken at.                                                   *)
(***************************************************************************)
EXTENDS Integers, Sequences, SequencesExt, FiniteSets

CONSTANTS
  Funcs,        \* kernel functions
  Confs,        \* kernels and sets of attached programs, see Configuration
  GraphDepth,   \* --fgraph-max-depth
  CalleeSteps,  \* frames walked by one bpfsnoop_fgraph_tailcallee (100 in the code)
  CalleeLoops,  \* times it is called (max_loop, 10 in the code)
  MaxCalls,     \* bound: calls in a behaviour
  MaxStack,     \* bound: calls on the stack
  MaxInsns,     \* bound: instruction events in a behaviour
  RingCap       \* records the ring buffer can hold

Calls  == 1..MaxCalls
NoCall == 0

Configuration ==
  [funcs      : SUBSET Funcs,   \* functions that are called
   roots      : SUBSET Funcs,   \* traced at entry and exit, with a session
   graphRoots : SUBSET Funcs,   \* roots traced with their call graph
   insnRoots  : SUBSET Funcs,   \* roots traced with their instructions
   graphs     : SUBSET Funcs,   \* both graph programs attached (FuncGraph.traced)
   singles    : SUBSET Funcs,   \* another trampoline, of a single-mode program
   graphFirst : BOOLEAN,   \* on a function of roots and graphs, the graph program runs first
   tailcall   : BOOLEAN,   \* tailcallInfo.supportTailcallInBpf2bpf
   kprobe     : BOOLEAN]   \* roots are traced by bpfsnoop_kprobe.c, with its own session map

ASSUME FgraphAssumption ==
  /\ MaxCalls \in Nat /\ MaxStack \in Nat /\ MaxInsns \in Nat /\ RingCap \in Nat
  /\ GraphDepth \in 1..500 /\ CalleeSteps \in Nat /\ CalleeLoops \in Nat
  /\ 2 * GraphDepth <= CalleeSteps * CalleeLoops   \* 100 * 10 in the code
  /\ Confs \subseteq Configuration
  /\ \A k \in Confs :
       /\ k.graphRoots \subseteq k.roots
       /\ k.insnRoots \subseteq k.roots \ k.graphRoots
       /\ k.tailcall \/ GraphDepth <= 10    \* else refused by main

VARIABLES
  conf,      \* the configuration, fixed at the start
  stack,     \* live calls, the outermost first
  callee,    \* call -> function
  ncalls,    \* number of calls so far
  at,        \* "run", or the end of the top call its programs run at
  todo,      \* programs still to run there
  live,      \* calls with a session in bpfsnoop_sessions
  ring,      \* bpfsnoop_events
  usess,     \* the reader's table: call -> Session, or NoSession
  crashed,   \* the reader indexed an empty slice
  \* history
  parents,   \* call -> the calls that enclose it, outermost first
  accepted,  \* calls whose entry program passed its filters
  lost,      \* sessions some record of which found the ring buffer full
  insns,     \* number of instruction events so far
  printed    \* what was printed: [sess, lines]

kernel  == <<stack, callee, ncalls, parents>>
reader  == <<usess, crashed, printed>>
vars    == <<conf, kernel, at, todo, live, ring, reader, accepted, lost, insns>>

Roots      == conf.roots
GraphRoots == conf.graphRoots
InsnRoots  == conf.insnRoots
Graphs     == conf.graphs
Singles    == conf.singles

Top == Last(stack)
TopFunc == callee[Top]

Programs(f) ==
  LET sess  == IF f \in Roots  THEN <<"sess">>  ELSE <<>>
      grph  == IF f \in Graphs THEN <<"graph">> ELSE <<>>
  IN  IF conf.graphFirst THEN grph \o sess ELSE sess \o grph

-----------------------------------------------------------------------------
(* Frames.  Call i of the stack has the frame of its body and, under it,   *)
(* the frame of the trampoline its programs run from, if it has any.  A    *)
(* frame holds the frame pointer of the one before it and a return address.*)

Trampolined   == Graphs \cup Singles \cup IF conf.kprobe THEN {} ELSE Roots
Trampoline(i) == callee[stack[i]] \in Trampolined

Body(i)  == <<i, "body">>
Tramp(i) == <<i, "tramp">>

SavedFp(fr) ==
  IF fr[1] <= 0 THEN Body(-1)
  ELSE IF fr[2] = "body" /\ Trampoline(fr[1]) THEN Tramp(fr[1])
  ELSE Body(fr[1] - 1)

\* The return address in the frame of a trampoline is in the function it was
\* called from, one of bpfsnoop_fgraph_tracee_ips for a function of the graph.
is_fgraph_ip_fault(fr) == FALSE
is_fgraph_ip(fr) == fr[2] = "tramp" /\ callee[stack[fr[1]]] \in Graphs

\* bpfsnoop_sessions: the session of call i is under the frame of its caller.
get_session(fr) ==
  LET i == fr[1] + 1
  IN  IF /\ fr[2] = "body" /\ i \in 1..Len(stack)
         /\ stack[i] \in live /\ ~conf.kprobe
      THEN stack[i] ELSE NoCall

MaxTries_fault == IF conf.tailcall THEN CalleeSteps ELSE GraphDepth
MaxTries == IF conf.tailcall THEN CalleeSteps * CalleeLoops
            ELSE IF GraphDepth > 10 THEN 0 ELSE 2 * GraphDepth

\* The walk of try_get_session, from the frame of the top call's caller.
\* The order is that of the code: the session first, then the depth.
Step(w) ==
  LET s == get_session(SavedFp(w.fp))
      d == IF is_fgraph_ip(w.fp) THEN w.depth ELSE w.depth + 1
  IN  IF w.over \/ w.sess # NoCall THEN w
      ELSE IF s # NoCall THEN [w EXCEPT !.sess = s]
      ELSE IF d > GraphDepth THEN [w EXCEPT !.over = TRUE]
      ELSE [w EXCEPT !.fp = SavedFp(w.fp), !.depth = d]

GraphSession ==
  LET walk[n \in 0..MaxTries] ==
        IF n = 0 THEN [fp |-> Body(Len(stack) - 1), depth |-> 0, sess |-> NoCall, over |-> FALSE]
                 ELSE Step(walk[n - 1])
  IN  walk[MaxTries]

\* try_get_session of bpfsnoop_insn.c: three saved frame pointers from the
\* frame pointer register, which is no longer that of the top call's body at
\* the instructions after its pop %rbp: a jump to the return thunk, or a tail
\* call.  The first four instructions, its prologue, are not traced.
InsnFrames(popped) ==
  LET fp1 == SavedFp(IF popped THEN SavedFp(Body(Len(stack))) ELSE Body(Len(stack)))
      fp2 == SavedFp(fp1)
  IN  <<fp1, fp2, SavedFp(fp2)>>

InsnHits(popped) == {i \in 1..3 : get_session(InsnFrames(popped)[i]) # NoCall}

InsnSession(popped) ==
  IF InsnHits(popped) = {} THEN NoCall
  ELSE get_session(InsnFrames(popped)[Min(InsnHits(popped))])

-----------------------------------------------------------------------------
(* The stack and its programs.                                             *)

Send(rec) ==
  IF Len(ring) < RingCap
  THEN ring' = Append(ring, rec) /\ UNCHANGED lost
  ELSE lost' = lost \cup {rec.sess} /\ UNCHANGED ring

Call(f) ==
  /\ at = "run" /\ ncalls < MaxCalls /\ Len(stack) < MaxStack
  /\ ncalls' = ncalls + 1
  /\ stack' = Append(stack, ncalls')
  /\ callee' = [callee EXCEPT ![ncalls'] = f]
  /\ parents' = [parents EXCEPT ![ncalls'] = stack]
  /\ at' = "entry" /\ todo' = Programs(f)
  /\ UNCHANGED <<conf, live, ring, reader, accepted, lost, insns>>

Return ==
  /\ at = "run" /\ stack # <<>>
  /\ at' = "exit" /\ todo' = Programs(TopFunc)
  /\ UNCHANGED <<conf, kernel, live, ring, reader, accepted, lost, insns>>

\* The trampoline goes on to the function, or back to its caller.
ProgramsDone ==
  /\ at # "run" /\ todo = <<>>
  /\ at' = "run"
  /\ stack' = IF at = "exit" THEN Front(stack) ELSE stack
  /\ UNCHANGED <<conf, callee, ncalls, parents, todo, live, ring, reader, accepted, lost, insns>>

Runs(p, end) == at = end /\ todo # <<>> /\ Head(todo) = p /\ todo' = Tail(todo)

SessionEntryIgnored ==
  /\ Runs("sess", "entry")
  /\ UNCHANGED <<conf, kernel, at, live, ring, reader, accepted, lost, insns>>

SessionEntry ==
  /\ Runs("sess", "entry")
  /\ live' = live \cup {Top} /\ accepted' = accepted \cup {Top}
  /\ Send([type |-> "entry", sess |-> Top, call |-> Top, depth |-> 0])
  /\ UNCHANGED <<conf, kernel, at, reader, insns>>

SessionExit ==
  /\ Runs("sess", "exit")
  /\ live' = live \ {Top}
  /\ IF Top \in live
     THEN Send([type |-> "exit", sess |-> Top, call |-> Top, depth |-> 0])
     ELSE UNCHANGED <<ring, lost>>
  /\ UNCHANGED <<conf, kernel, at, reader, accepted, insns>>

\* bpfsnoop_fgraph
GraphProgram ==
  /\ Runs("graph", "entry") \/ Runs("graph", "exit")
  /\ LET w == GraphSession IN
     IF w.sess # NoCall
     THEN Send([type |-> IF at = "entry" THEN "graph_entry" ELSE "graph_exit",
                sess |-> w.sess, call |-> Top, depth |-> w.depth])
     ELSE UNCHANGED <<ring, lost>>
  /\ UNCHANGED <<conf, kernel, at, live, reader, accepted, insns>>

\* bpfsnoop_insn
InsnProgram ==
  /\ at = "run" /\ stack # <<>> /\ TopFunc \in InsnRoots
  /\ insns < MaxInsns
  /\ insns' = insns + 1
  /\ \E popped \in BOOLEAN : LET s == InsnSession(popped) IN
       IF s # NoCall
       THEN Send([type |-> "insn", sess |-> s, call |-> Top, depth |-> 0])
       ELSE UNCHANGED <<ring, lost>>
  /\ UNCHANGED <<conf, kernel, at, todo, live, reader, accepted>>

-----------------------------------------------------------------------------
(* The reader.                                                             *)

NoSession == [held |-> FALSE]

\* Sessions.Add: the timestamps of a session with a graph start at its entry.
NewSession(c) ==
  [held |-> TRUE, lines |-> <<>>, lastidx |-> 0,
   tstamps |-> IF callee[c] \in GraphRoots THEN <<c>> ELSE <<>>]

pushTstamp(s, c) == [s EXCEPT !.tstamps = Append(@, c), !.lastidx = @ + 1]

\* s.tstamps is cut at lastidx, and lastidx follows.
popTstamp_uncut(s) == IF s.lastidx = 0 THEN s ELSE [s EXCEPT !.lastidx = @ - 1]
popTstamp_unguarded(s) ==
  [s EXCEPT !.tstamps = SubSeq(@, 1, s.lastidx), !.lastidx = @ - 1]
popTstamp(s) ==
  IF s.lastidx = 0 THEN s
  ELSE [s EXCEPT !.tstamps = SubSeq(@, 1, s.lastidx), !.lastidx = @ - 1]

\* A line of a session, with the timestamp its duration is counted from.
Line(rec, since) == [type |-> rec.type, call |-> rec.call, depth |-> rec.depth, since |-> since]

\* lastTstamp, then the push or the pop.
GraphLine(s, rec) ==
  LET t == IF rec.type = "graph_entry" THEN pushTstamp(s, rec.call) ELSE popTstamp(s)
  IN  [t EXCEPT !.lines = Append(@, Line(rec, s.tstamps[s.lastidx + 1]))]

HandleEntry(rec) ==
  /\ rec.type = "entry"
  /\ usess' = [usess EXCEPT ![rec.sess] =
                 [NewSession(rec.sess) EXCEPT !.lines = <<Line(rec, NoCall)>>]]
  /\ UNCHANGED <<crashed, printed>>

HandleExit(rec) ==
  /\ rec.type = "exit" /\ usess[rec.sess].held
  /\ printed' = printed \cup
       {[sess |-> rec.sess, lines |-> Append(usess[rec.sess].lines, Line(rec, rec.sess))]}
  /\ usess' = [usess EXCEPT ![rec.sess] = NoSession]
  /\ UNCHANGED crashed

\* lastTstamp panics when the session was opened without timestamps.
HandleGraphPanics(rec) ==
  /\ rec.type \in {"graph_entry", "graph_exit"} /\ usess[rec.sess].held
  /\ usess[rec.sess].lastidx + 1 > Len(usess[rec.sess].tstamps)
  /\ crashed' = TRUE
  /\ UNCHANGED <<usess, printed>>

HandleGraph(rec) ==
  /\ rec.type \in {"graph_entry", "graph_exit"} /\ usess[rec.sess].held
  /\ usess[rec.sess].lastidx + 1 <= Len(usess[rec.sess].tstamps)
  /\ usess' = [usess EXCEPT ![rec.sess] = GraphLine(@, rec)]
  /\ UNCHANGED <<crashed, printed>>

HandleInsn(rec) ==
  /\ rec.type = "insn" /\ usess[rec.sess].held
  /\ usess' = [usess EXCEPT ![rec.sess].lines = Append(@, Line(rec, rec.sess))]
  /\ UNCHANGED <<crashed, printed>>

\* Sessions.Get or GetAndDel finds nothing.
HandleOrphan(rec) ==
  /\ rec.type # "entry" /\ ~usess[rec.sess].held
  /\ UNCHANGED reader

Consume ==
  /\ ~crashed /\ ring # <<>>
  /\ LET rec == Head(ring) IN
       \/ HandleEntry(rec) \/ HandleExit(rec) \/ HandleOrphan(rec)
       \/ HandleGraphPanics(rec) \/ HandleGraph(rec) \/ HandleInsn(rec)
  /\ ring' = Tail(ring)
  /\ UNCHANGED <<conf, kernel, at, todo, live, accepted, lost, insns>>

-----------------------------------------------------------------------------
Init ==
  /\ conf \in Confs
  /\ stack = <<>> /\ callee = [c \in Calls |-> CHOOSE f \in Funcs : TRUE]
  /\ ncalls = 0 /\ at = "run" /\ todo = <<>>
  /\ live = {} /\ ring = <<>>
  /\ usess = [c \in Calls |-> NoSession] /\ crashed = FALSE
  /\ parents = [c \in Calls |-> <<>>]
  /\ accepted = {} /\ lost = {} /\ insns = 0 /\ printed = {}

Next ==
  \/ \E f \in conf.funcs : Call(f)
  \/ Return \/ ProgramsDone
  \/ SessionEntryIgnored \/ SessionEntry \/ SessionExit
  \/ GraphProgram \/ InsnProgram
  \/ Consume

Spec == Init /\ [][Next]_vars

-----------------------------------------------------------------------------
(* Properties.                                                             *)

EventTypes == {"entry", "exit", "graph_entry", "graph_exit", "insn"}

SessionState ==
  [held : {TRUE},
   lines : Seq([type : EventTypes, call : Calls, depth : Nat, since : Calls \cup {NoCall}]),
   lastidx : Nat, tstamps : Seq(Calls)]

\* Types; a session's timestamps reach up to lastidx, at the least.
TypeOK ==
  /\ conf \in Confs
  /\ stack \in Seq(Calls) /\ Len(stack) <= MaxStack /\ ncalls \in 0..MaxCalls
  /\ at \in {"run", "entry", "exit"} /\ todo \in Seq({"sess", "graph"})
  /\ live \subseteq accepted /\ accepted \subseteq Calls /\ lost \subseteq Calls
  /\ \A c \in Calls : usess[c] = NoSession \/ usess[c] \in SessionState

\* How far above call d, in frames of traced calls, the session of call c is:
\* one for each call from c down to the caller of d, and one more for each of
\* them, c excepted, whose trampoline is not that of a function of the graph.
Distance(c, d) ==
  LET between == {x \in 1..Len(parents[d]) : \E y \in 1..x : parents[d][y] = c}
      extra   == {x \in between : /\ parents[d][x] # c
                                  /\ callee[parents[d][x]] \in Trampolined \ Graphs}
  IN  Cardinality(between) + Cardinality(extra)

\* The enclosing call nearest to d of those with a session.
Nearest(d, sessions) ==
  LET enclosing == {x \in 1..Len(parents[d]) : parents[d][x] \in sessions}
  IN  IF enclosing = {} THEN NoCall
      ELSE parents[d][CHOOSE x \in enclosing : \A y \in enclosing : y <= x]

\* The walk over frame pointers finds the nearest session, up to
\* --fgraph-max-depth calls away and never beyond: neither the bound on the
\* tries nor the frames of trampolines make it miss one.
WalkFindsNearest ==
  at # "run" /\ todo # <<>> /\ Head(todo) = "graph" /\ ~conf.kprobe =>
    LET n == Nearest(Top, live)
        w == GraphSession
    IN  IF n # NoCall /\ Distance(n, Top) <= GraphDepth
        THEN w.sess = n /\ w.depth = Distance(n, Top)
        ELSE w.sess = NoCall

\* The reader survives: a graph event is of a session with timestamps.
NoPanic == ~crashed

Held == {[sess |-> c, lines |-> usess[c].lines] : c \in {d \in Calls : usess[d].held}}

\* What is printed between the lines of a call is of that call.  A graph line:
\* the call encloses the one it names, at that depth, and no accepted call in
\* between is the nearer; and a duration is counted from the entry of the call
\* it is printed with, if no record of the session was lost.  An instruction of
\* an accepted call: the walk over three frames stops at its own session before
\* it can reach that of an outer call.  (An instruction of a call the filters
\* rejected, after its pop %rbp, is printed with the outer call.)
LinesOwn ==
  \A p \in printed \cup Held : \A i \in 1..Len(p.lines) :
    LET l == p.lines[i]
    IN  /\ l.type \in {"graph_entry", "graph_exit"} =>
             p.sess = Nearest(l.call, accepted) /\ l.depth = Distance(p.sess, l.call)
        /\ l.type = "graph_exit" /\ p.sess \notin lost => l.since = l.call
        /\ l.type = "insn" /\ l.call \in accepted => l.call = p.sess

\* The call graph printed with a call is complete: every call of a function of
\* the graph that has this session as its nearest, within the depth, is there
\* at entry and at exit, if no record of the session was lost.
GraphComplete ==
  \A p \in printed : p.sess \notin lost /\ callee[p.sess] \in GraphRoots =>
    \A d \in 1..ncalls :
      /\ callee[d] \in Graphs
      /\ p.sess = Nearest(d, accepted) /\ Distance(p.sess, d) <= GraphDepth
      => \A end \in {"graph_entry", "graph_exit"} :
           \E i \in 1..Len(p.lines) : p.lines[i].type = end /\ p.lines[i].call = d
=============================================================================
