------------------------ MODULE FgraphEvents_proofs ------------------------
(***************************************************************************)
(* Proofs about FgraphEvents, for any functions and configurations, any    *)
(* depth of stacks and graphs, and any size of the ring buffer.            *)
(***************************************************************************)
EXTENDS FgraphEvents, FiniteSetTheorems, WellFoundedInduction, TLAPS

-----------------------------------------------------------------------------
(* The inductive invariant.                                                *)

OnStack(c) == \E i \in 1..Len(stack) : stack[i] = c
InTodo(p)  == \E i \in 1..Len(todo) : todo[i] = p

\* Calls are numbered as they begin, so that those on the stack increase, and
\* each knows those below it.
StackInv ==
  /\ ncalls \in 0..MaxCalls
  /\ stack \in Seq(1..ncalls) /\ Len(stack) <= MaxStack
  /\ \A i, j \in 1..Len(stack) : i < j => stack[i] < stack[j]
  /\ at \in {"run", "entry", "exit"}
  /\ at # "run" => stack # <<>>
  /\ at = "entry" => Top = ncalls
  /\ DOMAIN callee = Calls /\ DOMAIN parents = Calls
  /\ \A c \in 1..ncalls : parents[c] \in Seq(1..(c - 1))
  /\ \A i \in 1..Len(stack) : parents[stack[i]] = SubSeq(stack, 1, i - 1)

\* The programs still to run at an end of the top call are some of its own.
TodoInv ==
  /\ todo \in Seq({"sess", "graph"})
  /\ \A i, j \in 1..Len(todo) : todo[i] = todo[j] => i = j
  /\ at = "run" => todo = <<>>
  /\ InTodo("sess") => TopFunc \in Roots
  /\ InTodo("graph") => TopFunc \in Graphs

\* A session is in the map from the entry program of its call to the exit program.
SessInv ==
  /\ conf \in Confs
  /\ live \subseteq accepted /\ accepted \subseteq 1..ncalls /\ lost \subseteq accepted
  /\ \A c \in accepted : callee[c] \in Roots
  /\ \A c \in live : OnStack(c)
  /\ \A c \in accepted : OnStack(c) /\ c \notin live => c = Top /\ at = "exit" /\ ~InTodo("sess")
  /\ at = "exit" /\ Top \in live => InTodo("sess")
  /\ at = "entry" /\ InTodo("sess") => Top \notin accepted

KernelInv == StackInv /\ TodoInv /\ SessInv

\* Call d is of the graph of session c: c is its nearest, within the depth.
OfGraph(d, c) ==
  /\ d \in 1..ncalls /\ c \in accepted
  /\ callee[d] \in Graphs /\ c = Nearest(d, accepted) /\ Distance(c, d) <= GraphDepth

\* The graph program at the entry of call d has run; that at its exit has.
Begun(d) == ~(at = "entry" /\ d = Top /\ InTodo("graph"))
Ended(d) == ~OnStack(d) \/ (d = Top /\ at = "exit" /\ ~InTodo("graph"))

\* What the record or the line l of session c says is so.
Owned(l, c) ==
  /\ l.type \in EventTypes
  /\ l.call \in 1..ncalls /\ c \in accepted
  /\ l.type \in {"entry", "exit"} => l.call = c
  /\ l.type \in {"graph_entry", "graph_exit"} =>
       OfGraph(l.call, c) /\ l.depth = Distance(c, l.call) /\ ~conf.kprobe
  /\ l.type = "graph_entry" => Begun(l.call)
  /\ l.type = "graph_exit" => Ended(l.call)
  /\ l.type = "insn" => /\ l.call \in accepted => l.call = c
                        /\ ~(at = "entry" /\ l.call = Top)

Record == [type : EventTypes, sess : Calls, call : Calls, depth : Nat]

RingInv ==
  /\ ring \in Seq(Record)
  /\ \A i \in 1..Len(ring) : Owned(ring[i], ring[i].sess)

\* Record i of the ring buffer is of that type and session.
Is(i, type, c) == ring[i].type = type /\ ring[i].sess = c

\* A session's entry event is first, and its exit event last.
OrderInv ==
  /\ \A i, j \in 1..Len(ring) :
       ring[i].type = "entry" /\ Is(j, "entry", ring[i].sess) => i = j
  /\ \A i, j \in 1..Len(ring) :
       ring[i].type = "exit" /\ ring[j].sess = ring[i].sess => j <= i
  /\ \A i \in 1..Len(ring) : ring[i].type = "exit" => ring[i].sess \notin live
  /\ \A i \in 1..Len(ring) : ring[i].type = "entry" => ~usess[ring[i].sess].held
  /\ \A j \in 1..Len(ring) : ring[j].type # "entry" /\ ring[j].sess \notin lost =>
       usess[ring[j].sess].held \/ \E i \in 1..(j - 1) : Is(i, "entry", ring[j].sess)
  /\ \A c \in live \ lost : usess[c].held \/ \E i \in 1..Len(ring) : Is(i, "entry", c)

Printed(c) == \E p \in printed : p.sess = c

PrintedInv ==
  \A p \in printed :
    /\ p.sess \in accepted \ live /\ ~usess[p.sess].held
    /\ \A i \in 1..Len(ring) : ring[i].sess # p.sess

Output(c, lines) ==
  \A i \in 1..Len(lines) :
    /\ Owned(lines[i], c)
    /\ lines[i].type = "graph_exit" /\ c \notin lost => lines[i].since = lines[i].call

LinesInv ==
  /\ DOMAIN usess = Calls
  /\ \A c \in Calls : usess[c] = NoSession \/ (usess[c] \in SessionState /\ c \in accepted)
  /\ \A c \in Calls : usess[c].held => Output(c, usess[c].lines)
  /\ \A p \in printed : /\ p = [sess |-> p.sess, lines |-> p.lines]
                        /\ Output(p.sess, p.lines)

\* Session c holds a timestamp of call d; the record i of the ring buffer is of
\* the entry, or of the exit, of call d in its graph.
Open(c, d) ==
  usess[c].held /\ \E k \in 2..Len(usess[c].tstamps) : usess[c].tstamps[k] = d
Enters(i, c, d) == Is(i, "graph_entry", c) /\ ring[i].call = d
Exits(i, c, d)  == Is(i, "graph_exit", c) /\ ring[i].call = d

\* Timestamps are those of a call graph, and reach one above lastidx.
StampInv ==
  \A c \in Calls : usess[c].held =>
    IF callee[c] \in GraphRoots THEN Len(usess[c].tstamps) = usess[c].lastidx + 1
                                ELSE usess[c].tstamps = <<>> /\ usess[c].lastidx = 0

Complete(c) == c \in accepted \ lost /\ callee[c] \in GraphRoots /\ ~conf.kprobe

\* The timestamps above the first are of calls of the graph, the inner ones on top.
OpenOf(c) ==
  /\ usess[c].held => \A k, l \in 2..Len(usess[c].tstamps) :
                        k < l => usess[c].tstamps[k] < usess[c].tstamps[l]
  /\ \A d \in Calls : Open(c, d) => OfGraph(d, c) /\ Begun(d)

\* The calls entered later are the inner ones; none is missed.
EnterOf(c) ==
  /\ \A d, e \in Calls : \A j \in 1..Len(ring) : Open(c, d) /\ Enters(j, c, e) => d < e
  /\ \A d, e \in Calls : \A i, j \in 1..Len(ring) :
       i < j /\ Enters(i, c, d) /\ Enters(j, c, e) => d < e
  /\ \A d \in Calls : OfGraph(d, c) /\ Begun(d) /\ ~Ended(d) =>
       Open(c, d) \/ \E i \in 1..Len(ring) : Enters(i, c, d)

\* A call's exit comes once, after its entry, and none is missed.
ExitOf(c) ==
  /\ \A d \in Calls : \A i, j \in 1..Len(ring) : Exits(i, c, d) /\ Exits(j, c, d) => i = j
  /\ \A d \in Calls : \A j \in 1..Len(ring) : Exits(j, c, d) =>
       Open(c, d) \/ \E i \in 1..(j - 1) : Enters(i, c, d)
  /\ \A d \in Calls : Open(c, d) /\ Ended(d) => \E j \in 1..Len(ring) : Exits(j, c, d)
  /\ \A d \in Calls : \A i \in 1..Len(ring) : Enters(i, c, d) /\ Ended(d) =>
       \E j \in (i + 1)..Len(ring) : Exits(j, c, d)

\* Before a call's exit come those of the calls it made.
NestOf(c) ==
  \A d, e \in Calls : \A j \in 1..Len(ring) : Exits(j, c, d) /\ d < e =>
    /\ Open(c, e) => \E m \in 1..(j - 1) : Exits(m, c, e)
    /\ \A i \in 1..(j - 1) : Enters(i, c, e) => \E m \in 1..(j - 1) : Exits(m, c, e)

\* Of a session that lost nothing, entries and exits of calls are nested.
InOrder(c) == OpenOf(c) /\ EnterOf(c) /\ ExitOf(c) /\ NestOf(c)
NestInv == \A c \in Calls : Complete(c) => InOrder(c)

\* Every call of the graph is in the lines of its session, or on its way there.
Lists(lines, type, d) ==
  \E i \in 1..Len(lines) : lines[i].type = type /\ lines[i].call = d
Sent(c, type, d) ==
  \/ \E i \in 1..Len(ring) : Is(i, type, c) /\ ring[i].call = d
  \/ usess[c].held /\ Lists(usess[c].lines, type, d)

GraphInv ==
  \A c \in Calls : Complete(c) /\ ~Printed(c) =>
    \A d \in Calls : OfGraph(d, c) =>
      /\ Begun(d) => Sent(c, "graph_entry", d)
      /\ Ended(d) => Sent(c, "graph_exit", d)

DoneInv ==
  \A p \in printed : Complete(p.sess) =>
    \A d \in Calls : OfGraph(d, p.sess) /\ Ended(d) =>
      Lists(p.lines, "graph_entry", d) /\ Lists(p.lines, "graph_exit", d)
-----------------------------------------------------------------------------
(* The programs of a call, and the stack.                                  *)

Among(p, s) == \E i \in 1..Len(s) : s[i] = p

LEMMA Pair == ASSUME NEW a, NEW b PROVE <<a>> \o <<b>> = <<a, b>>
<1> DEFINE s == <<a>> \o <<b>>
<1>1. s \in Seq({a, b}) /\ Len(s) = 2 /\ s[1] = a /\ s[2] = b
  OBVIOUS
<1>2. <<a, b>> = [i \in 1..2 |-> IF i = 1 THEN a ELSE b]
  OBVIOUS
<1> HIDE DEF s
<1>3. s = [i \in 1..2 |-> s[i]]
  BY <1>1
<1>4. \A i \in 1..2 : s[i] = IF i = 1 THEN a ELSE b
  BY <1>1
<1>5. s = <<a, b>>
  BY <1>2, <1>3, <1>4
<1> QED BY <1>5 DEF s

LEMMA ProgramsOf ==
  ASSUME NEW f
  PROVE  /\ Programs(f) \in Seq({"sess", "graph"})
         /\ \A i, j \in 1..Len(Programs(f)) : Programs(f)[i] = Programs(f)[j] => i = j
         /\ Among("sess", Programs(f)) <=> f \in Roots
         /\ Among("graph", Programs(f)) <=> f \in Graphs
<1>1. CASE f \in Roots /\ f \in Graphs
  <2>1. CASE conf.graphFirst
    <3>1. Programs(f) = <<"graph", "sess">>
      BY <1>1, <2>1, Pair DEF Programs
    <3> QED BY <1>1, <3>1 DEF Among
  <2>2. CASE ~conf.graphFirst
    <3>1. Programs(f) = <<"sess", "graph">>
      BY <1>1, <2>2, Pair DEF Programs
    <3> QED BY <1>1, <3>1 DEF Among
  <2> QED BY <2>1, <2>2
<1>2. CASE f \in Roots /\ f \notin Graphs
  <2>1. Programs(f) = <<"sess">>
    BY <1>2 DEF Programs
  <2> QED BY <1>2, <2>1 DEF Among
<1>3. CASE f \notin Roots /\ f \in Graphs
  <2>1. Programs(f) = <<"graph">>
    BY <1>3 DEF Programs
  <2> QED BY <1>3, <2>1 DEF Among
<1>4. CASE f \notin Roots /\ f \notin Graphs
  <2>1. Programs(f) = <<>>
    BY <1>4 DEF Programs
  <2> QED BY <1>4, <2>1 DEF Among
<1> QED BY <1>1, <1>2, <1>3, <1>4

\* A program runs once at an end of a call.
LEMMA RunsOnce ==
  ASSUME TodoInv, NEW p, NEW end, Runs(p, end)
  PROVE  /\ at = end /\ InTodo(p) /\ todo' \in Seq({"sess", "graph"})
         /\ \A i, j \in 1..Len(todo') : todo'[i] = todo'[j] => i = j
         /\ ~InTodo(p)'
         /\ \A q : q # p => (InTodo(q)' <=> InTodo(q))
<1>1. todo # <<>> /\ todo[1] = p /\ todo' = Tail(todo) /\ todo \in Seq({"sess", "graph"}) /\ at = end
  BY DEF Runs, TodoInv
<1>2. Len(todo) \in Nat \ {0} /\ Len(todo') = Len(todo) - 1 /\ todo' \in Seq({"sess", "graph"})
  BY <1>1
<1>3. \A i \in 1..Len(todo') : todo'[i] = todo[i + 1] /\ i + 1 \in 1..Len(todo) /\ i + 1 # 1
  BY <1>1, <1>2
<1>4. \A i \in 1..Len(todo) : i = 1 \/ (i - 1 \in 1..Len(todo') /\ todo'[i - 1] = todo[i])
  <2> SUFFICES ASSUME NEW i \in 1..Len(todo), i # 1
               PROVE  i - 1 \in 1..Len(todo') /\ todo'[i - 1] = todo[i]
    OBVIOUS
  <2>1. i - 1 \in 1..Len(todo') /\ (i - 1) + 1 = i
    BY <1>2
  <2> QED BY <2>1, <1>3
<1>5. 1 \in 1..Len(todo)
  BY <1>2
<1>6. InTodo(p)
  BY <1>1, <1>5 DEF InTodo
<1>7. ~InTodo(p)'
  <2> SUFFICES ASSUME NEW i \in 1..Len(todo'), todo'[i] = p PROVE FALSE
    BY DEF InTodo
  <2> QED BY <1>1, <1>3, <1>5 DEF TodoInv
<1>8. \A q : q # p => (InTodo(q)' <=> InTodo(q))
  <2> SUFFICES ASSUME NEW q, q # p PROVE InTodo(q)' <=> InTodo(q)
    OBVIOUS
  <2>1. ASSUME InTodo(q) PROVE InTodo(q)'
    <3>1. PICK i \in 1..Len(todo) : todo[i] = q
      BY <2>1 DEF InTodo
    <3>2. i - 1 \in 1..Len(todo') /\ todo'[i - 1] = q
      BY <1>1, <1>4, <3>1
    <3> QED BY <3>2 DEF InTodo
  <2>2. ASSUME InTodo(q)' PROVE InTodo(q)
    <3>1. PICK i \in 1..Len(todo') : todo'[i] = q
      BY <2>2 DEF InTodo
    <3>2. i + 1 \in 1..Len(todo) /\ todo[i + 1] = q
      BY <1>3, <3>1
    <3> QED BY <3>2 DEF InTodo
  <2> QED BY <2>1, <2>2
<1>9. \A i, j \in 1..Len(todo') : todo'[i] = todo'[j] => i = j
  <2> SUFFICES ASSUME NEW i \in 1..Len(todo'), NEW j \in 1..Len(todo'), todo'[i] = todo'[j]
               PROVE  i = j
    OBVIOUS
  <2>1. i + 1 = j + 1
    BY <1>3 DEF TodoInv
  <2> QED BY <2>1, <1>2
<1> QED BY <1>1, <1>2, <1>6, <1>7, <1>8, <1>9

\* The top call is the last on the stack.
LEMMA TopOnStack ==
  ASSUME StackInv, stack # <<>>
  PROVE  /\ Len(stack) \in 1..Len(stack) /\ Top = stack[Len(stack)]
         /\ Top \in 1..ncalls /\ Top \in Calls /\ OnStack(Top)
         /\ \A i \in 1..Len(stack) : stack[i] <= Top /\ (stack[i] = Top => i = Len(stack))
<1>1. Len(stack) \in Nat \ {0} /\ Top = stack[Len(stack)]
  BY DEF StackInv, Top, Last
<1>2. Top \in 1..ncalls /\ ncalls <= MaxCalls
  BY <1>1 DEF StackInv
<1>3. \A i \in 1..Len(stack) : i = Len(stack) \/ stack[i] < stack[Len(stack)]
  BY <1>1 DEF StackInv
<1>4. \A i \in 1..Len(stack) : stack[i] \in Nat
  <2> DEFINE S == 1..ncalls
  <2>1. stack \in Seq(S)
    BY DEF StackInv
  <2> HIDE DEF S
  <2>2. \A i \in 1..Len(stack) : stack[i] \in S
    BY <2>1
  <2> QED BY <2>2 DEF S
<1>5. Top \in Calls
  BY <1>2, FgraphAssumption DEF Calls, StackInv
<1>6. Len(stack) \in 1..Len(stack) /\ OnStack(Top)
  BY <1>1 DEF OnStack
<1>7. ASSUME NEW i \in 1..Len(stack) PROVE stack[i] <= Top /\ (stack[i] = Top => i = Len(stack))
  BY <1>1, <1>3, <1>4, <1>6
<1> QED BY <1>1, <1>2, <1>5, <1>6, <1>7

LEMMA KernelInit == Init => KernelInv
<1> SUFFICES ASSUME Init PROVE KernelInv
  OBVIOUS
<1>1. StackInv
  BY FgraphAssumption DEF Init, StackInv, Calls
<1>2. TodoInv
  BY DEF Init, TodoInv, InTodo
<1>3. SessInv
  BY DEF Init, SessInv
<1> QED BY <1>1, <1>2, <1>3 DEF KernelInv


-----------------------------------------------------------------------------
(* The walk over frame pointers, from the frame of the top call's caller.  *)

Height == Len(stack)

\* Of the calls between the one at j and the top one: those whose trampoline
\* takes a step of the depth, and the depth at which the walk is at the body of j.
Extra(j) == {x \in (j + 1)..(Height - 1) : callee[stack[x]] \in Trampolined \ Graphs}
Gap(j)   == Cardinality((j + 1)..(Height - 1)) + Cardinality(Extra(j))

Hit(j) == stack[j] \in live /\ ~conf.kprobe

Walker(w, j) ==
  /\ w.depth <= GraphDepth
  /\ \A x \in (j + 1)..(Height - 1) : ~Hit(x)

AtBody(w, k, j) ==
  /\ w.fp = Body(j) /\ w.sess = NoCall /\ ~w.over
  /\ w.depth = Gap(j) /\ k <= 2 * Gap(j) /\ Walker(w, j)
AtTramp(w, k, j) ==
  /\ w.fp = Tramp(j) /\ Trampoline(j) /\ w.sess = NoCall /\ ~w.over
  /\ w.depth = Gap(j) + 1 /\ k <= 2 * Gap(j) + 1 /\ Walker(w, j)
Found(w, j) == w.sess = stack[j] /\ Hit(j) /\ w.depth = Gap(j) + 1 /\ Walker(w, j)
TooDeep(w) ==
  /\ w.over /\ w.sess = NoCall
  /\ \A x \in 1..(Height - 1) : Hit(x) => Gap(x) + 1 > GraphDepth
Outside(w) ==
  /\ w.fp[1] <= 0 /\ w.fp[1] \in Int /\ w.fp[2] = "body" /\ w.sess = NoCall /\ ~w.over
  /\ \A x \in 1..(Height - 1) : ~Hit(x)

WalkInv(w, k) ==
  /\ {"fp", "depth", "sess", "over"} \subseteq DOMAIN w
  /\ \/ \E j \in 1..(Height - 1) : AtBody(w, k, j) \/ AtTramp(w, k, j) \/ Found(w, j)
     \/ TooDeep(w) \/ Outside(w)

Start == [fp |-> Body(Len(stack) - 1), depth |-> 0, sess |-> NoCall, over |-> FALSE]

LEMMA LeastNat ==
  ASSUME NEW S \in SUBSET Nat, S # {}
  PROVE  \E n \in S : \A m \in S : n <= m
<1> DEFINE R == OpToRel(<, Nat)
<1>1. IsWellFoundedOn(R, Nat)
  BY NatLessThanWellFounded
<1>2. R = {ss \in Nat \X Nat : ss[1] < ss[2]}
  BY DEF OpToRel
<1>3. \E x \in S : \A y \in S : <<y, x>> \notin R
  <2> HIDE DEF R
  <2> QED BY <1>1, WFMin
<1> HIDE DEF R
<1>4. PICK x \in S : \A y \in S : <<y, x>> \notin R
  BY <1>3
<1>5. ASSUME NEW m \in S PROVE x <= m
  <2>1. x \in Nat /\ m \in Nat /\ <<m, x>> \in Nat \X Nat
    OBVIOUS
  <2>2. ~(m < x)
    BY <1>2, <1>4, <2>1
  <2> QED BY <2>1, <2>2
<1> QED BY <1>5

LEMMA SetInduction ==
  ASSUME NEW S, 0 \in S, \A n \in Nat : n \in S => n + 1 \in S
  PROVE  Nat \subseteq S
<1> SUFFICES ASSUME Nat \ S # {} PROVE FALSE
  OBVIOUS
<1>1. PICK n \in Nat \ S : \A m \in Nat \ S : n <= m
  BY LeastNat
<1>2. n # 0 /\ n - 1 \in Nat /\ n - 1 \in S
  BY <1>1
<1>3. (n - 1) + 1 \in S
  BY <1>2
<1> QED BY <1>1, <1>3

LEMMA Heights ==
  ASSUME StackInv
  PROVE  /\ Height \in Nat /\ GraphDepth \in Nat
         /\ \A j \in 1..Height : stack[j] \in 1..ncalls /\ j \in Nat /\ j >= 1
         /\ \A j \in 1..(Height - 1) : j \in 1..Height
<1>1. stack \in Seq(1..ncalls)
  BY DEF StackInv
<1>2. Len(stack) \in Nat
  BY <1>1
<1>3. \A j \in 1..Len(stack) : stack[j] \in 1..ncalls
  <2> DEFINE S == 1..ncalls
  <2>1. stack \in Seq(S)
    BY <1>1
  <2> HIDE DEF S
  <2>2. \A j \in 1..Len(stack) : stack[j] \in S
    BY <2>1
  <2> QED BY <2>2 DEF S
<1>4. GraphDepth \in 1..500
  BY FgraphAssumption
<1>5. GraphDepth \in Nat
  BY <1>4
<1> QED BY <1>2, <1>3, <1>5 DEF Height

LEMMA GapStep ==
  ASSUME StackInv
  PROVE  /\ stack # <<>> => Gap(Height - 1) = 0
         /\ \A j \in 1..(Height - 1) :
              /\ Gap(j) \in Nat /\ Gap(j - 1) \in Nat
              /\ Gap(j - 1) = IF callee[stack[j]] \in Trampolined \ Graphs THEN Gap(j) + 2
                              ELSE Gap(j) + 1
              /\ \A x \in 1..j : Gap(j) <= Gap(x)
<1>1. Height \in Nat
  BY DEF StackInv, Height
<1>2. stack # <<>> => Gap(Height - 1) = 0
  <2>1. ((Height - 1) + 1)..(Height - 1) = {}
    BY <1>1
  <2>2. Extra(Height - 1) = {}
    BY <2>1 DEF Extra
  <2>3. Gap(Height - 1) = Cardinality({}) + Cardinality({})
    BY <2>1, <2>2, Zenon DEF Gap
  <2>4. Cardinality({}) = 0
    BY FS_EmptySet
  <2> QED BY <2>3, <2>4
<1>3. ASSUME NEW j \in 0..(Height - 1)
      PROVE  /\ IsFiniteSet((j + 1)..(Height - 1)) /\ IsFiniteSet(Extra(j))
             /\ Cardinality((j + 1)..(Height - 1)) \in Nat /\ Cardinality(Extra(j)) \in Nat
  <2>1. IsFiniteSet((j + 1)..(Height - 1))
    BY <1>1, FS_Interval
  <2>2. IsFiniteSet(Extra(j))
    BY <2>1, FS_Subset DEF Extra
  <2> QED BY <2>1, <2>2, FS_CardinalityType
<1>4. ASSUME NEW j \in 1..(Height - 1)
      PROVE  Gap(j - 1) = IF callee[stack[j]] \in Trampolined \ Graphs THEN Gap(j) + 2
                          ELSE Gap(j) + 1
  <2>1. ((j - 1) + 1)..(Height - 1) = ((j + 1)..(Height - 1)) \cup {j} /\ j \notin (j + 1)..(Height - 1)
    BY <1>1
  <2>3. j \in 0..(Height - 1)
    BY <1>1
  <2>2. Cardinality(((j - 1) + 1)..(Height - 1)) = Cardinality((j + 1)..(Height - 1)) + 1
    <3> DEFINE S == (j + 1)..(Height - 1)
    <3>1. IsFiniteSet(S) /\ j \notin S
      BY <1>3, <2>1, <2>3
    <3> HIDE DEF S
    <3>2. Cardinality(S \cup {j}) = Cardinality(S) + 1
      BY <3>1, FS_AddElement
    <3> QED BY <2>1, <3>2, Zenon DEF S
  <2>4. CASE callee[stack[j]] \in Trampolined \ Graphs
    <3>1. Extra(j - 1) = Extra(j) \cup {j} /\ j \notin Extra(j)
      BY <2>1, <2>4 DEF Extra
    <3>2. Cardinality(Extra(j - 1)) = Cardinality(Extra(j)) + 1
      BY <1>3, <2>3, <3>1, FS_AddElement
    <3> QED BY <1>3, <2>2, <2>3, <2>4, <3>2 DEF Gap
  <2>5. CASE ~(callee[stack[j]] \in Trampolined \ Graphs)
    <3>1. Extra(j - 1) = Extra(j)
      BY <2>1, <2>5 DEF Extra
    <3> QED BY <1>3, <2>2, <2>3, <2>5, <3>1 DEF Gap
  <2> QED BY <2>4, <2>5
<1>5. ASSUME NEW j \in 1..(Height - 1), NEW x \in 1..j PROVE Gap(j) <= Gap(x)
  <2>1. (j + 1)..(Height - 1) \subseteq (x + 1)..(Height - 1) /\ Extra(j) \subseteq Extra(x)
    BY <1>1 DEF Extra
  <2>2. x \in 0..(Height - 1) /\ j \in 0..(Height - 1)
    BY <1>1
  <2>3. Cardinality((j + 1)..(Height - 1)) <= Cardinality((x + 1)..(Height - 1))
    BY <1>3, <2>1, <2>2, FS_Subset
  <2>4. Cardinality(Extra(j)) <= Cardinality(Extra(x))
    BY <1>3, <2>1, <2>2, FS_Subset
  <2> QED BY <1>3, <2>2, <2>3, <2>4 DEF Gap
<1>6. \A j \in 1..(Height - 1) : Gap(j) \in Nat /\ Gap(j - 1) \in Nat
  <2> TAKE j \in 1..(Height - 1)
  <2>1. j \in 0..(Height - 1) /\ j - 1 \in 0..(Height - 1)
    BY <1>1
  <2> QED BY <1>3, <2>1 DEF Gap
<1> QED BY <1>2, <1>4, <1>5, <1>6

\* What the walk finds in a frame, and the frame it goes to.
LEMMA Frames ==
  ASSUME KernelInv, NEW j \in 1..Height
  PROVE  /\ SavedFp(Body(j)) = IF Trampoline(j) THEN Tramp(j) ELSE Body(j - 1)
         /\ SavedFp(Tramp(j)) = Body(j - 1)
         /\ get_session(Tramp(j)) = NoCall
         /\ get_session(Body(j - 1)) = IF Hit(j) THEN stack[j] ELSE NoCall
         /\ is_fgraph_ip(Tramp(j)) <=> callee[stack[j]] \in Graphs
         /\ ~is_fgraph_ip(Body(j))
         /\ stack[j] \in 1..ncalls /\ stack[j] # NoCall
         /\ Hit(j) => Trampoline(j)
<1>1. Height \in Nat /\ j \in Nat /\ j >= 1 /\ stack[j] \in 1..ncalls
  BY Heights DEF KernelInv
<1>2. Body(j)[1] = j /\ Body(j)[2] = "body" /\ Tramp(j)[1] = j /\ Tramp(j)[2] = "tramp"
      /\ Body(j - 1)[1] = j - 1 /\ Body(j - 1)[2] = "body"
  BY DEF Body, Tramp
<1>3. SavedFp(Body(j)) = IF Trampoline(j) THEN Tramp(j) ELSE Body(j - 1)
  <2> HIDE DEF Height
  <2>1. ~(Body(j)[1] <= 0)
    BY <1>1, <1>2
  <2>2. SavedFp(Body(j)) = IF Trampoline(Body(j)[1]) THEN Tramp(Body(j)[1]) ELSE Body(Body(j)[1] - 1)
    BY <1>2, <2>1 DEF SavedFp
  <2> QED BY <1>2, <2>2
<1>4. SavedFp(Tramp(j)) = Body(j - 1)
  <2>1. ~(Tramp(j)[1] <= 0)
    BY <1>1, <1>2
  <2>2. SavedFp(Tramp(j)) = Body(Tramp(j)[1] - 1)
    BY <1>2, <2>1 DEF SavedFp
  <2> QED BY <1>2, <2>2
<1>5. get_session(Tramp(j)) = NoCall
  BY <1>2 DEF get_session
<1>6. get_session(Body(j - 1)) = IF Hit(j) THEN stack[j] ELSE NoCall
  <2>1. Body(j - 1)[1] + 1 = j
    BY <1>1, <1>2
  <2>2. j \in 1..Len(stack)
    BY DEF Height
  <2> QED BY <1>2, <2>1, <2>2 DEF get_session, Hit
<1>7. is_fgraph_ip(Tramp(j)) <=> callee[stack[j]] \in Graphs
  BY <1>2 DEF is_fgraph_ip
<1>8. ~is_fgraph_ip(Body(j))
  BY <1>2 DEF is_fgraph_ip
<1>9. stack[j] # NoCall
  BY <1>1 DEF NoCall, KernelInv, StackInv
<1>10. Hit(j) => Trampoline(j)
  BY DEF Hit, Trampoline, Trampolined, KernelInv, SessInv
<1> QED BY <1>1, <1>3, <1>4, <1>5, <1>6, <1>7, <1>8, <1>9, <1>10

LEMMA OutsideFrames ==
  ASSUME NEW fr, fr[1] <= 0
  PROVE  SavedFp(fr) = Body(-1) /\ get_session(Body(-1)) = NoCall
         /\ Body(-1)[1] = -1 /\ Body(-1)[2] = "body"
<1>1. Body(-1)[1] = -1 /\ Body(-1)[2] = "body"
  BY DEF Body
<1>2. get_session(Body(-1)) = NoCall
  BY <1>1 DEF get_session
<1>3. SavedFp(fr) = Body(-1)
  BY DEF SavedFp
<1> QED BY <1>1, <1>2, <1>3

WalkRec(w) == {"fp", "depth", "sess", "over"} \subseteq DOMAIN w

LEMMA StepCases ==
  ASSUME NEW w, WalkRec(w)
  PROVE  /\ WalkRec(Step(w))
         /\ w.over \/ w.sess # NoCall => Step(w) = w
         /\ ~(w.over \/ w.sess # NoCall) =>
              LET s == get_session(SavedFp(w.fp))
                  d == IF is_fgraph_ip(w.fp) THEN w.depth ELSE w.depth + 1
                  v == Step(w)
              IN  /\ s # NoCall => v.sess = s /\ v.depth = w.depth
                  /\ s = NoCall => v.sess = NoCall
                  /\ s = NoCall /\ d > GraphDepth => v.over
                  /\ s = NoCall /\ ~(d > GraphDepth) => v.fp = SavedFp(w.fp) /\ v.depth = d /\ v.over = w.over
<1> DEFINE s == get_session(SavedFp(w.fp))
           d == IF is_fgraph_ip(w.fp) THEN w.depth ELSE w.depth + 1
<1>1. CASE w.over \/ w.sess # NoCall
  BY <1>1 DEF Step
<1>2. CASE ~(w.over \/ w.sess # NoCall)
  <2>1. Step(w) = IF s # NoCall THEN [w EXCEPT !.sess = s]
                  ELSE IF d > GraphDepth THEN [w EXCEPT !.over = TRUE]
                  ELSE [w EXCEPT !.fp = SavedFp(w.fp), !.depth = d]
    BY <1>2, Zenon DEF Step
  <2> DEFINE f == SavedFp(w.fp)
  <2>2. Step(w) = IF s # NoCall THEN [w EXCEPT !.sess = s]
                  ELSE IF d > GraphDepth THEN [w EXCEPT !.over = TRUE]
                  ELSE [w EXCEPT !.fp = f, !.depth = d]
    BY <2>1
  <2> HIDE DEF s, d, f
  <2>3. CASE s # NoCall
    <3>1. PICK e : e = [w EXCEPT !.sess = s]
      OBVIOUS
    <3>2. WalkRec(e) /\ e.sess = s /\ e.depth = w.depth
      BY <3>1 DEF WalkRec
    <3> QED BY <1>2, <2>2, <2>3, <3>1, <3>2 DEF s, d, f
  <2>4. CASE s = NoCall /\ d > GraphDepth
    <3>1. PICK e : e = [w EXCEPT !.over = TRUE]
      OBVIOUS
    <3>2. WalkRec(e) /\ e.over = TRUE /\ e.sess = w.sess
      BY <3>1 DEF WalkRec
    <3>3. Step(w) = e
      BY <2>2, <2>4, <3>1
    <3> QED BY <1>2, <2>4, <3>2, <3>3 DEF s, d, f
  <2>5. CASE s = NoCall /\ ~(d > GraphDepth)
    <3>1. PICK e1 : e1 = [w EXCEPT !.fp = f]
      OBVIOUS
    <3>2. PICK e : e = [e1 EXCEPT !.depth = d]
      OBVIOUS
    <3>3. WalkRec(e1) /\ e1.fp = f /\ e1.sess = w.sess /\ e1.over = w.over
      BY <3>1 DEF WalkRec
    <3>4. WalkRec(e) /\ e.fp = f /\ e.sess = w.sess /\ e.over = w.over /\ e.depth = d
      BY <3>2, <3>3 DEF WalkRec
    <3>5. Step(w) = e
      BY <2>2, <2>5, <3>1, <3>2
    <3> QED BY <1>2, <2>5, <3>4, <3>5 DEF s, d, f
  <2> QED BY <2>3, <2>4, <2>5
<1> QED BY <1>1, <1>2

LEMMA BodyStep ==
  ASSUME KernelInv, NEW w, NEW k \in Nat, NEW j \in 1..(Height - 1), WalkRec(w), AtBody(w, k, j)
  PROVE  WalkInv(Step(w), k + 1)
<1> DEFINE v == Step(w)
<1>1. Height \in Nat /\ GraphDepth \in Nat /\ j \in 1..Height
  BY Heights DEF KernelInv
<1>2. Gap(j) \in Nat /\ Gap(j - 1) \in Nat
  BY GapStep DEF KernelInv
<1>3. WalkRec(v)
  BY StepCases
<1>4. w.fp = Body(j) /\ w.sess = NoCall /\ ~w.over /\ w.depth = Gap(j) /\ k <= 2 * Gap(j)
      /\ \A x \in (j + 1)..(Height - 1) : ~Hit(x)
  BY DEF AtBody, Walker
<1>5. get_session(SavedFp(w.fp)) = NoCall
  <2>1. CASE Trampoline(j)
    BY <1>1, <1>4, <2>1, Frames
  <2>2. CASE ~Trampoline(j)
    BY <1>1, <1>4, <2>2, Frames
  <2> QED BY <2>1, <2>2
<1>6. ~is_fgraph_ip(w.fp)
  BY <1>1, <1>4, Frames
<1>7. v.sess = NoCall /\ (Gap(j) + 1 > GraphDepth => v.over)
      /\ (~(Gap(j) + 1 > GraphDepth) => v.fp = SavedFp(w.fp) /\ v.depth = Gap(j) + 1 /\ ~v.over)
  BY <1>4, <1>5, <1>6, StepCases
<1>8. CASE Gap(j) + 1 > GraphDepth
  <2>1. TooDeep(v)
    <3> SUFFICES ASSUME NEW x \in 1..(Height - 1), Hit(x) PROVE Gap(x) + 1 > GraphDepth
      BY <1>7, <1>8 DEF TooDeep
    <3>1. x \in 1..j
      BY <1>1, <1>4
    <3>2. Gap(j) <= Gap(x) /\ Gap(x) \in Nat
      BY <3>1, GapStep DEF KernelInv
    <3> QED BY <1>1, <1>2, <1>8, <3>2
  <2> QED BY <1>3, <2>1 DEF WalkInv, WalkRec
<1>9. CASE ~(Gap(j) + 1 > GraphDepth) /\ Trampoline(j)
  <2>1. AtTramp(v, k + 1, j)
    <3>1. v.fp = Tramp(j)
      BY <1>1, <1>4, <1>7, <1>9, Frames
    <3> QED BY <1>1, <1>2, <1>4, <1>7, <1>9, <3>1 DEF AtTramp, Walker
  <2> QED BY <1>3, <2>1 DEF WalkInv, WalkRec
<1>10. CASE ~(Gap(j) + 1 > GraphDepth) /\ ~Trampoline(j)
  <2>1. v.fp = Body(j - 1) /\ ~Hit(j)
    BY <1>1, <1>4, <1>7, <1>10, Frames
  <2>2. \A x \in ((j - 1) + 1)..(Height - 1) : ~Hit(x)
    <3> TAKE x \in ((j - 1) + 1)..(Height - 1)
    <3>1. x = j \/ x \in (j + 1)..(Height - 1)
      BY <1>1
    <3> QED BY <1>4, <2>1, <3>1
  <2>3. Gap(j - 1) = Gap(j) + 1
    BY <1>10, GapStep DEF KernelInv, Trampoline
  <2>4. CASE j = 1
    <3>1. Outside(v)
      <4>1. v.fp[1] = 0 /\ v.fp[2] = "body"
        BY <2>1, <2>4 DEF Body
      <4>2. \A x \in 1..(Height - 1) : ~Hit(x)
        BY <2>2, <2>4
      <4> QED BY <1>7, <1>10, <4>1, <4>2 DEF Outside
    <3> QED BY <1>3, <3>1 DEF WalkInv, WalkRec
  <2>5. CASE j # 1
    <3>1. j - 1 \in 1..(Height - 1)
      BY <1>1, <2>5
    <3>2. AtBody(v, k + 1, j - 1)
      BY <1>1, <1>2, <1>4, <1>7, <1>10, <2>1, <2>2, <2>3 DEF AtBody, Walker
    <3> QED BY <1>3, <3>1, <3>2 DEF WalkInv, WalkRec
  <2> QED BY <2>4, <2>5
<1> QED BY <1>8, <1>9, <1>10

LEMMA TrampStep ==
  ASSUME KernelInv, NEW w, NEW k \in Nat, NEW j \in 1..(Height - 1), WalkRec(w), AtTramp(w, k, j)
  PROVE  WalkInv(Step(w), k + 1)
<1> DEFINE v == Step(w)
<1>1. Height \in Nat /\ GraphDepth \in Nat /\ j \in 1..Height
  BY Heights DEF KernelInv
<1>2. Gap(j) \in Nat /\ Gap(j - 1) \in Nat
  BY GapStep DEF KernelInv
<1>3. WalkRec(v)
  BY StepCases
<1>4. w.fp = Tramp(j) /\ w.sess = NoCall /\ ~w.over /\ w.depth = Gap(j) + 1 /\ k <= 2 * Gap(j) + 1
      /\ w.depth <= GraphDepth /\ Trampoline(j) /\ \A x \in (j + 1)..(Height - 1) : ~Hit(x)
  BY DEF AtTramp, Walker
<1>5. SavedFp(w.fp) = Body(j - 1) /\ stack[j] # NoCall
      /\ get_session(SavedFp(w.fp)) = IF Hit(j) THEN stack[j] ELSE NoCall
  BY <1>1, <1>4, Frames
<1>6. (IF is_fgraph_ip(w.fp) THEN w.depth ELSE w.depth + 1) = Gap(j - 1)
  <2>1. is_fgraph_ip(w.fp) <=> callee[stack[j]] \in Graphs
    BY <1>1, <1>4, Frames
  <2>2. Gap(j - 1) = IF callee[stack[j]] \in Trampolined \ Graphs THEN Gap(j) + 2 ELSE Gap(j) + 1
    BY GapStep DEF KernelInv
  <2> QED BY <1>2, <1>4, <2>1, <2>2 DEF Trampoline
<1>7. CASE Hit(j)
  <2>1. v.sess = stack[j] /\ v.depth = w.depth
    BY <1>4, <1>5, <1>7, StepCases
  <2>2. Found(v, j)
    BY <1>4, <1>7, <2>1 DEF Found, Walker
  <2> QED BY <1>3, <2>2 DEF WalkInv, WalkRec
<1>8. CASE ~Hit(j)
  <2>1. v.sess = NoCall /\ (Gap(j - 1) > GraphDepth => v.over)
        /\ (~(Gap(j - 1) > GraphDepth) => v.fp = Body(j - 1) /\ v.depth = Gap(j - 1) /\ ~v.over)
    BY <1>4, <1>5, <1>6, <1>8, StepCases
  <2>2. \A x \in ((j - 1) + 1)..(Height - 1) : ~Hit(x)
    <3> TAKE x \in ((j - 1) + 1)..(Height - 1)
    <3>1. x = j \/ x \in (j + 1)..(Height - 1)
      BY <1>1
    <3> QED BY <1>4, <1>8, <3>1
  <2>3. Gap(j - 1) = Gap(j) + 1 \/ Gap(j - 1) = Gap(j) + 2
    BY GapStep DEF KernelInv
  <2>4. CASE j = 1
    <3>1. \A x \in 1..(Height - 1) : ~Hit(x)
      BY <2>2, <2>4
    <3>2. CASE Gap(j - 1) > GraphDepth
      <4>1. TooDeep(v)
        BY <2>1, <3>1, <3>2 DEF TooDeep
      <4> QED BY <1>3, <4>1 DEF WalkInv, WalkRec
    <3>3. CASE ~(Gap(j - 1) > GraphDepth)
      <4>1. v.fp[1] = 0 /\ v.fp[2] = "body"
        BY <2>1, <2>4, <3>3 DEF Body
      <4>2. Outside(v)
        BY <2>1, <3>1, <3>3, <4>1 DEF Outside
      <4> QED BY <1>3, <4>2 DEF WalkInv, WalkRec
    <3> QED BY <3>2, <3>3
  <2>5. CASE j # 1
    <3>1. j - 1 \in 1..(Height - 1)
      BY <1>1, <2>5
    <3>2. CASE Gap(j - 1) > GraphDepth
      <4>1. TooDeep(v)
        <5> SUFFICES ASSUME NEW x \in 1..(Height - 1), Hit(x) PROVE Gap(x) + 1 > GraphDepth
          BY <2>1, <3>2 DEF TooDeep
        <5>1. x \in 1..(j - 1)
          BY <1>1, <2>2
        <5>2. Gap(j - 1) <= Gap(x) /\ Gap(x) \in Nat
          BY <3>1, <5>1, GapStep DEF KernelInv
        <5> QED BY <1>1, <1>2, <3>2, <5>2
      <4> QED BY <1>3, <4>1 DEF WalkInv, WalkRec
    <3>3. CASE ~(Gap(j - 1) > GraphDepth)
      <4>1. AtBody(v, k + 1, j - 1)
        BY <1>1, <1>2, <1>4, <2>1, <2>2, <2>3, <3>3 DEF AtBody, Walker
      <4> QED BY <1>3, <3>1, <4>1 DEF WalkInv, WalkRec
    <3> QED BY <3>2, <3>3
  <2> QED BY <2>4, <2>5
<1> QED BY <1>7, <1>8

LEMMA WalkStep ==
  ASSUME KernelInv, NEW w, NEW k \in Nat, WalkInv(w, k)
  PROVE  WalkInv(Step(w), k + 1)
<1>1. WalkRec(w)
  BY DEF WalkInv, WalkRec
<1>2. ASSUME NEW j \in 1..(Height - 1), AtBody(w, k, j) PROVE WalkInv(Step(w), k + 1)
  BY <1>1, <1>2, BodyStep
<1>3. ASSUME NEW j \in 1..(Height - 1), AtTramp(w, k, j) PROVE WalkInv(Step(w), k + 1)
  BY <1>1, <1>3, TrampStep
<1>4. ASSUME NEW j \in 1..(Height - 1), Found(w, j) PROVE WalkInv(Step(w), k + 1)
  <2>1. j \in 1..Height
    BY Heights DEF KernelInv
  <2>2. Step(w) = w
    BY <1>1, <1>4, <2>1, Frames, StepCases DEF Found
  <2> QED BY <1>1, <1>4, <2>2 DEF WalkInv, WalkRec
<1>5. ASSUME TooDeep(w) PROVE WalkInv(Step(w), k + 1)
  <2>1. Step(w) = w
    BY <1>1, <1>5, StepCases DEF TooDeep
  <2> QED BY <1>1, <1>5, <2>1 DEF WalkInv, WalkRec
<1>6. ASSUME Outside(w) PROVE WalkInv(Step(w), k + 1)
  <2> DEFINE v == Step(w)
             d == IF is_fgraph_ip(w.fp) THEN w.depth ELSE w.depth + 1
  <2>1. SavedFp(w.fp) = Body(-1) /\ get_session(SavedFp(w.fp)) = NoCall
        /\ Body(-1)[1] = -1 /\ Body(-1)[2] = "body"
    BY <1>6, OutsideFrames DEF Outside
  <2>2. w.sess = NoCall /\ ~w.over /\ \A x \in 1..(Height - 1) : ~Hit(x)
    BY <1>6 DEF Outside
  <2>3. v.sess = NoCall /\ (d > GraphDepth => v.over)
        /\ (~(d > GraphDepth) => v.fp = Body(-1) /\ ~v.over)
    BY <1>1, <2>1, <2>2, StepCases
  <2>4. WalkRec(v)
    BY <1>1, StepCases
  <2> HIDE DEF v, d
  <2>5. CASE d > GraphDepth
    <3>1. TooDeep(v)
      BY <2>2, <2>3, <2>5 DEF TooDeep
    <3> QED BY <2>4, <3>1 DEF WalkInv, WalkRec, v
  <2>6. CASE ~(d > GraphDepth)
    <3>1. Outside(v)
      BY <2>1, <2>2, <2>3, <2>6 DEF Outside
    <3> QED BY <2>4, <3>1 DEF WalkInv, WalkRec, v
  <2> QED BY <2>5, <2>6
<1> QED BY <1>2, <1>3, <1>4, <1>5, <1>6 DEF WalkInv

LEMMA WalkExists ==
  ASSUME NEW n \in Nat
  PROVE  \E w : w = [k \in 0..n |-> IF k = 0 THEN Start ELSE Step(w[k - 1])]
<1> DEFINE Good(m) == \E w : w = [k \in 0..m |-> IF k = 0 THEN Start ELSE Step(w[k - 1])]
           S == {m \in Nat : Good(m)}
<1>1. 0 \in S
  <2>1. PICK w : w = [k \in 0..0 |-> Start]
    OBVIOUS
  <2>2. [k \in 0..0 |-> IF k = 0 THEN Start ELSE Step(w[k - 1])] = [k \in 0..0 |-> Start]
    OBVIOUS
  <2> QED BY <2>1, <2>2
<1>2. ASSUME NEW m \in Nat, m \in S PROVE m + 1 \in S
  <2>1. PICK w : w = [k \in 0..m |-> IF k = 0 THEN Start ELSE Step(w[k - 1])]
    BY <1>2
  <2>2. PICK v : v = [k \in 0..(m + 1) |-> IF k <= m THEN w[k] ELSE Step(w[m])]
    OBVIOUS
  <2>3. \A k \in 0..(m + 1) : v[k] = IF k = 0 THEN Start ELSE Step(v[k - 1])
    <3> TAKE k \in 0..(m + 1)
    <3>1. CASE k = 0
      BY <2>1, <2>2, <3>1
    <3>2. CASE k # 0 /\ k <= m
      <4>1. k \in 0..m /\ k - 1 \in 0..(m + 1) /\ k - 1 <= m
        BY <3>2
      <4>2. v[k] = w[k] /\ v[k - 1] = w[k - 1] /\ w[k] = Step(w[k - 1])
        BY <2>1, <2>2, <3>2, <4>1
      <4> QED BY <3>2, <4>2
    <3>3. CASE k = m + 1
      <4>1. k - 1 = m /\ m \in 0..(m + 1) /\ k \in 0..(m + 1) /\ ~(k <= m) /\ k # 0
        BY <3>3
      <4>2. v[k] = Step(w[m]) /\ v[m] = w[m]
        BY <2>2, <4>1
      <4> QED BY <4>1, <4>2
    <3> QED BY <3>1, <3>2, <3>3
  <2>4. v = [k \in 0..(m + 1) |-> v[k]]
    BY <2>2
  <2>5. v = [k \in 0..(m + 1) |-> IF k = 0 THEN Start ELSE Step(v[k - 1])]
    BY <2>3, <2>4
  <2> QED BY <2>5
<1> HIDE DEF S
<1>3. Nat \subseteq S
  BY <1>1, <1>2, SetInduction
<1> QED BY <1>3 DEF S

LEMMA GraphWalk ==
  ASSUME MaxTries \in Nat
  PROVE  \E w : /\ GraphSession = w[MaxTries] /\ w[0] = Start
                /\ \A k \in 1..MaxTries : w[k] = Step(w[k - 1])
<1> DEFINE L == CHOOSE g : g = [n \in 0..MaxTries |->
                   IF n = 0 THEN [fp |-> Body(Len(stack) - 1), depth |-> 0, sess |-> NoCall, over |-> FALSE]
                            ELSE Step(g[n - 1])]
<1>1. PICK w : w = [k \in 0..MaxTries |-> IF k = 0 THEN Start ELSE Step(w[k - 1])]
  BY WalkExists
<1>2. L = [n \in 0..MaxTries |->
                   IF n = 0 THEN [fp |-> Body(Len(stack) - 1), depth |-> 0, sess |-> NoCall, over |-> FALSE]
                            ELSE Step(L[n - 1])]
  BY <1>1 DEF Start
<1>3. GraphSession = L[MaxTries]
  BY DEF GraphSession
<1> HIDE DEF L
<1>4. \A k \in 0..MaxTries : L[k] = IF k = 0 THEN Start ELSE Step(L[k - 1])
  <2>1. PICK M : M = [n \in 0..MaxTries |-> IF n = 0 THEN Start ELSE Step(L[n - 1])]
    OBVIOUS
  <2>2. L = M
    BY <1>2, <2>1, Zenon DEF Start
  <2>3. \A k \in 0..MaxTries : M[k] = IF k = 0 THEN Start ELSE Step(L[k - 1])
    BY <2>1
  <2> QED BY <2>2, <2>3
<1>5. 0 \in 0..MaxTries /\ \A k \in 1..MaxTries : k \in 0..MaxTries /\ k # 0
  OBVIOUS
<1>6. L[0] = Start /\ \A k \in 1..MaxTries : L[k] = Step(L[k - 1])
  BY <1>4, <1>5
<1> QED BY <1>3, <1>6

LEMMA Tries ==
  ASSUME conf \in Confs
  PROVE  MaxTries \in Nat /\ GraphDepth \in Nat /\ 2 * GraphDepth <= MaxTries
<1>1. GraphDepth \in Nat /\ (conf.tailcall \/ GraphDepth <= 10)
      /\ CalleeSteps * CalleeLoops \in Nat /\ 2 * GraphDepth <= CalleeSteps * CalleeLoops
  BY FgraphAssumption
<1> QED BY <1>1 DEF MaxTries

\* The walk ends with the call nearest to the top one that has a session, if
\* it is within the depth.
LEMMA WalkEnds ==
  ASSUME KernelInv, stack # <<>>
  PROVE  \/ \E j \in 1..(Height - 1) : Found(GraphSession, j)
         \/ /\ GraphSession.sess = NoCall
            /\ \A x \in 1..(Height - 1) : Hit(x) => Gap(x) + 1 > GraphDepth
<1>1. MaxTries \in Nat /\ GraphDepth \in Nat /\ 2 * GraphDepth <= MaxTries
  BY Tries DEF KernelInv, SessInv
<1>2. PICK w : /\ GraphSession = w[MaxTries] /\ w[0] = Start
               /\ \A k \in 1..MaxTries : w[k] = Step(w[k - 1])
  BY <1>1, GraphWalk
<1> DEFINE S == {k \in Nat : k <= MaxTries => WalkInv(w[k], k)}
<1>3. 0 \in S
  <2>1. WalkRec(Start) /\ Start.fp = Body(Height - 1) /\ Start.depth = 0
        /\ Start.sess = NoCall /\ ~Start.over
    BY DEF Start, Height, WalkRec
  <2>2. Gap(Height - 1) = 0 /\ Height \in Nat /\ Height # 0
    <3>1. Len(stack) # 0
      BY DEF KernelInv, StackInv
    <3> QED BY <3>1, GapStep, Heights DEF KernelInv, Height
  <2>3. CASE Height = 1
    <3>1. Start.fp[1] = 0 /\ Start.fp[2] = "body"
      BY <2>1, <2>3 DEF Body
    <3>2. Outside(Start)
      BY <2>1, <2>3, <3>1 DEF Outside
    <3> QED BY <1>2, <2>1, <3>2 DEF WalkInv, WalkRec
  <2>4. CASE Height # 1
    <3>1. Height - 1 \in 1..(Height - 1)
      BY <2>2, <2>4
    <3>2. \A x \in ((Height - 1) + 1)..(Height - 1) : ~Hit(x)
      BY <2>2
    <3>3. AtBody(Start, 0, Height - 1)
      BY <1>1, <2>1, <2>2, <3>2 DEF AtBody, Walker
    <3> QED BY <1>2, <2>1, <3>1, <3>3 DEF WalkInv, WalkRec
  <2> QED BY <2>3, <2>4
<1>4. ASSUME NEW k \in Nat, k \in S PROVE k + 1 \in S
  <2> SUFFICES ASSUME k + 1 <= MaxTries PROVE WalkInv(w[k + 1], k + 1)
    OBVIOUS
  <2>1. WalkInv(w[k], k)
    BY <1>1, <1>4
  <2>2. w[k + 1] = Step(w[k])
    <3>1. k + 1 \in 1..MaxTries /\ (k + 1) - 1 = k
      BY <1>1
    <3> QED BY <1>2, <3>1
  <2>3. WalkInv(Step(w[k]), k + 1)
    BY <2>1, WalkStep
  <2> QED BY <2>2, <2>3
<1> HIDE DEF S
<1>5. Nat \subseteq S
  BY <1>3, <1>4, SetInduction
<1>6. WalkInv(GraphSession, MaxTries)
  BY <1>1, <1>2, <1>5 DEF S
<1> DEFINE g == GraphSession
<1> HIDE DEF g
<1>7. ASSUME NEW j \in 1..(Height - 1), AtBody(g, MaxTries, j)
      PROVE  g.sess = NoCall /\ \A x \in 1..(Height - 1) : Hit(x) => Gap(x) + 1 > GraphDepth
  <2> SUFFICES ASSUME NEW x \in 1..(Height - 1), Hit(x) PROVE Gap(x) + 1 > GraphDepth
    BY <1>7 DEF AtBody
  <2>1. Gap(j) \in Nat /\ MaxTries <= 2 * Gap(j) /\ Height \in Nat
    BY <1>7, GapStep, Heights DEF AtBody, KernelInv
  <2>2. x \in 1..j
    BY <1>7, <2>1 DEF AtBody, Walker
  <2>3. Gap(x) \in Nat /\ Gap(j) <= Gap(x)
    BY <2>2, GapStep DEF KernelInv
  <2> QED BY <1>1, <2>1, <2>3
<1>8. ASSUME NEW j \in 1..(Height - 1), AtTramp(g, MaxTries, j) PROVE FALSE
  <2>1. Gap(j) \in Nat
    BY GapStep DEF KernelInv
  <2> QED BY <1>1, <1>8, <2>1 DEF AtTramp, Walker
<1>9. ASSUME Outside(g)
      PROVE  g.sess = NoCall /\ \A x \in 1..(Height - 1) : Hit(x) => Gap(x) + 1 > GraphDepth
  BY <1>9 DEF Outside
<1>10. ASSUME TooDeep(g)
      PROVE  g.sess = NoCall /\ \A x \in 1..(Height - 1) : Hit(x) => Gap(x) + 1 > GraphDepth
  BY <1>10 DEF TooDeep
<1>11. \/ \E j \in 1..(Height - 1) : AtBody(g, MaxTries, j) \/ AtTramp(g, MaxTries, j) \/ Found(g, j)
       \/ TooDeep(g) \/ Outside(g)
  BY <1>6 DEF WalkInv, g
<1>12. \/ \E j \in 1..(Height - 1) : Found(g, j)
       \/ g.sess = NoCall /\ \A x \in 1..(Height - 1) : Hit(x) => Gap(x) + 1 > GraphDepth
  BY <1>7, <1>8, <1>9, <1>10, <1>11
<1> QED BY <1>12 DEF g

\* The distance of the session of the call at j, and the nearest with a session.
LEMMA TopDistance ==
  ASSUME KernelInv, stack # <<>>, NEW j \in 1..(Height - 1)
  PROVE  Distance(stack[j], Top) = Gap(j) + 1
<1>1. Height \in Nat /\ Height >= 1
  BY Heights DEF KernelInv
<1>2. Len(parents[Top]) = Height - 1 /\ \A x \in 1..(Height - 1) : parents[Top][x] = stack[x]
  <2>1. parents[Top] = SubSeq(stack, 1, Height - 1) /\ stack \in Seq(1..ncalls)
    BY TopOnStack DEF KernelInv, StackInv, Height
  <2>2. Height = Len(stack)
    BY DEF Height
  <2> HIDE DEF Height
  <2> QED BY <1>1, <2>1, <2>2
<1>3. \A x, y \in 1..(Height - 1) : x < y => stack[x] < stack[y] /\ stack[x] \in Nat /\ stack[y] \in Nat
  <2> TAKE x \in 1..(Height - 1), y \in 1..(Height - 1)
  <2>1. x \in 1..Len(stack) /\ y \in 1..Len(stack)
    BY Heights DEF KernelInv, Height
  <2>2. x < y => stack[x] < stack[y]
    BY <2>1 DEF KernelInv, StackInv
  <2>3. stack[x] \in Nat /\ stack[y] \in Nat
    BY <2>1, Heights DEF KernelInv, Height
  <2> QED BY <2>2, <2>3
<1>4. \A x, y \in 1..(Height - 1) : stack[x] = stack[y] => x = y
  <2> TAKE x \in 1..(Height - 1), y \in 1..(Height - 1)
  <2>1. x < y \/ y < x \/ x = y
    BY <1>1
  <2> QED BY <1>3, <2>1
<1> DEFINE between == {x \in 1..Len(parents[Top]) : \E y \in 1..x : parents[Top][y] = stack[j]}
           extra == {x \in between : /\ parents[Top][x] # stack[j]
                                     /\ callee[parents[Top][x]] \in Trampolined \ Graphs}
<1>5. between = j..(Height - 1)
  <2>1. ASSUME NEW x \in between PROVE x \in j..(Height - 1)
    <3>1. x \in 1..(Height - 1) /\ \E y \in 1..x : parents[Top][y] = stack[j]
      BY <1>2
    <3>2. PICK y \in 1..x : parents[Top][y] = stack[j]
      BY <3>1
    <3>3. y \in 1..(Height - 1)
      BY <1>1, <3>1
    <3>4. stack[y] = stack[j]
      BY <1>2, <3>2, <3>3
    <3>5. y = j
      BY <1>4, <3>3, <3>4
    <3> QED BY <1>1, <3>1, <3>5
  <2>2. ASSUME NEW x \in j..(Height - 1) PROVE x \in between
    <3>1. j \in 1..x /\ x \in 1..(Height - 1)
      BY <1>1
    <3>2. parents[Top][j] = stack[j]
      BY <1>2
    <3> QED BY <1>2, <3>1, <3>2
  <2> QED BY <2>1, <2>2
<1>6. extra = Extra(j)
  <2>1. ASSUME NEW x \in extra PROVE x \in Extra(j)
    <3>1. x \in j..(Height - 1) /\ parents[Top][x] # stack[j] /\ callee[parents[Top][x]] \in Trampolined \ Graphs
      BY <1>5
    <3>2. x \in 1..(Height - 1)
      BY <1>1, <3>1
    <3>3. parents[Top][x] = stack[x]
      BY <1>2, <3>2
    <3>4. x # j /\ x \in (j + 1)..(Height - 1)
      BY <1>1, <3>1, <3>3
    <3> QED BY <3>1, <3>3, <3>4 DEF Extra
  <2>2. ASSUME NEW x \in Extra(j) PROVE x \in extra
    <3>1. x \in (j + 1)..(Height - 1) /\ callee[stack[x]] \in Trampolined \ Graphs
      BY DEF Extra
    <3>2. x \in 1..(Height - 1) /\ x \in j..(Height - 1) /\ x # j
      BY <1>1, <3>1
    <3>3. parents[Top][x] = stack[x]
      BY <1>2, <3>2
    <3>4. stack[x] # stack[j]
      BY <1>4, <3>2
    <3> QED BY <1>5, <3>1, <3>2, <3>3, <3>4
  <2> QED BY <2>1, <2>2
<1>7. Distance(stack[j], Top) = Cardinality(between) + Cardinality(extra)
  BY Zenon DEF Distance
<1> HIDE DEF between, extra
<1>8. j..(Height - 1) = ((j + 1)..(Height - 1)) \cup {j} /\ j \notin (j + 1)..(Height - 1)
  BY <1>1
<1>9. IsFiniteSet((j + 1)..(Height - 1))
  BY <1>1, FS_Interval
<1>10. Cardinality((j + 1)..(Height - 1)) \in Nat
  BY <1>9, FS_CardinalityType
<1>11. Cardinality(j..(Height - 1)) = Cardinality((j + 1)..(Height - 1)) + 1
  <2> DEFINE S == (j + 1)..(Height - 1)
  <2>1. IsFiniteSet(S) /\ j \notin S
    BY <1>8, <1>9
  <2> HIDE DEF S
  <2>2. Cardinality(S \cup {j}) = Cardinality(S) + 1
    BY <2>1, FS_AddElement
  <2> QED BY <1>8, <2>2, Zenon DEF S
<1>12. IsFiniteSet(Extra(j))
  BY <1>9, FS_Subset DEF Extra
<1>13. Cardinality(Extra(j)) \in Nat
  BY <1>12, FS_CardinalityType
<1> QED BY <1>5, <1>6, <1>7, <1>10, <1>11, <1>13 DEF Gap

LEMMA TopNearest ==
  ASSUME KernelInv, stack # <<>>, NEW A
  PROVE  /\ \A j \in 1..(Height - 1) :
              stack[j] \in A /\ (\A x \in (j + 1)..(Height - 1) : stack[x] \notin A)
              => Nearest(Top, A) = stack[j]
         /\ (\A x \in 1..(Height - 1) : stack[x] \notin A) => Nearest(Top, A) = NoCall
<1>1. Height \in Nat /\ Height >= 1
  <2>1. Len(stack) # 0
    BY DEF KernelInv, StackInv
  <2> QED BY <2>1, Heights DEF KernelInv, Height
<1>2. Len(parents[Top]) = Height - 1 /\ \A x \in 1..(Height - 1) : parents[Top][x] = stack[x]
  <2>1. parents[Top] = SubSeq(stack, 1, Height - 1) /\ stack \in Seq(1..ncalls)
    BY TopOnStack DEF KernelInv, StackInv, Height
  <2>2. Height = Len(stack)
    BY DEF Height
  <2> HIDE DEF Height
  <2> QED BY <1>1, <2>1, <2>2
<1> DEFINE E == {x \in 1..Len(parents[Top]) : parents[Top][x] \in A}
<1>3. E = {x \in 1..(Height - 1) : stack[x] \in A}
  BY <1>2
<1>4. Nearest(Top, A) = IF E = {} THEN NoCall
                        ELSE parents[Top][CHOOSE x \in E : \A y \in E : y <= x]
  BY Zenon DEF Nearest
<1> HIDE DEF E
<1>5. ASSUME NEW j \in 1..(Height - 1), stack[j] \in A, \A x \in (j + 1)..(Height - 1) : stack[x] \notin A
      PROVE  Nearest(Top, A) = stack[j]
  <2>1. j \in E /\ \A y \in E : y <= j
    BY <1>1, <1>3, <1>5
  <2>2. \A x \in E : (\A y \in E : y <= x) => x = j
    <3> TAKE x \in E
    <3>1. x \in Nat /\ j \in Nat
      BY <1>3
    <3> QED BY <2>1, <3>1
  <2>3. (CHOOSE x \in E : \A y \in E : y <= x) = j
    BY <2>1, <2>2
  <2> QED BY <1>2, <1>4, <2>1, <2>3
<1>6. ASSUME \A x \in 1..(Height - 1) : stack[x] \notin A PROVE Nearest(Top, A) = NoCall
  <2>1. E = {}
    BY <1>3, <1>6
  <2> QED BY <1>4, <2>1
<1> QED BY <1>5, <1>6

\* The calls under the top one whose filters passed still have their session.
LEMMA BelowTop ==
  ASSUME KernelInv, stack # <<>>, NEW j \in 1..(Height - 1)
  PROVE  /\ stack[j] \in accepted <=> stack[j] \in live
         /\ stack[j] # NoCall /\ OnStack(stack[j]) /\ stack[j] # Top /\ stack[j] < Top
<1>1. j \in 1..Height /\ j # Height
  BY Heights DEF KernelInv
<1>2. OnStack(stack[j]) /\ stack[j] # Top /\ stack[j] < Top
  <2>1. j \in 1..Len(stack) /\ Len(stack) \in 1..Len(stack) /\ j < Len(stack) /\ Top = stack[Len(stack)]
    <3>1. Height \in Nat
      BY Heights DEF KernelInv
    <3> QED BY <1>1, <3>1, TopOnStack DEF KernelInv, Height
  <2>2. stack[j] < Top
    BY <2>1 DEF KernelInv, StackInv
  <2>3. stack[j] # Top
    BY <2>1, TopOnStack DEF KernelInv
  <2> QED BY <2>1, <2>2, <2>3 DEF OnStack
<1>3. stack[j] # NoCall
  BY <1>1, Frames
<1>4. stack[j] \in accepted <=> stack[j] \in live
  BY <1>2 DEF KernelInv, SessInv
<1> QED BY <1>2, <1>3, <1>4

\* What the walk finds, and that it finds it.
LEMMA WalkSound ==
  ASSUME KernelInv, stack # <<>>, GraphSession.sess # NoCall
  PROVE  LET c == GraphSession.sess IN
         /\ ~conf.kprobe /\ c \in live /\ c \in accepted
         /\ c = Nearest(Top, live) /\ c = Nearest(Top, accepted)
         /\ GraphSession.depth = Distance(c, Top) /\ Distance(c, Top) <= GraphDepth
         /\ Distance(c, Top) \in Nat
         /\ c # Top /\ c < Top /\ OnStack(c)
<1>1. PICK j \in 1..(Height - 1) : Found(GraphSession, j)
  BY WalkEnds
<1> DEFINE g == GraphSession
<1> HIDE DEF g
<1>2. g.sess = stack[j] /\ stack[j] \in live /\ ~conf.kprobe /\ g.depth = Gap(j) + 1
      /\ g.depth <= GraphDepth /\ \A x \in (j + 1)..(Height - 1) : stack[x] \notin live
  BY <1>1 DEF Found, Walker, Hit, g
<1>3. \A x \in (j + 1)..(Height - 1) : x \in 1..(Height - 1)
  BY Heights DEF KernelInv
<1>4. \A x \in (j + 1)..(Height - 1) : stack[x] \notin accepted
  BY <1>2, <1>3, BelowTop
<1>5. stack[j] \in accepted
  BY <1>2, BelowTop
<1>6. stack[j] = Nearest(Top, live) /\ stack[j] = Nearest(Top, accepted)
  BY <1>2, <1>4, <1>5, TopNearest
<1>7. Distance(stack[j], Top) = Gap(j) + 1 /\ Gap(j) \in Nat
  BY TopDistance, GapStep DEF KernelInv
<1>8. /\ ~conf.kprobe /\ g.sess \in live /\ g.sess \in accepted
      /\ g.sess = Nearest(Top, live) /\ g.sess = Nearest(Top, accepted)
      /\ g.depth = Distance(g.sess, Top) /\ Distance(g.sess, Top) <= GraphDepth
      /\ Distance(g.sess, Top) \in Nat
      /\ g.sess # Top /\ g.sess < Top /\ OnStack(g.sess)
  BY <1>2, <1>5, <1>6, <1>7, BelowTop
<1> QED BY <1>8 DEF g

\* The uppermost of some calls under the top one.
LEMMA Uppermost ==
  ASSUME KernelInv, NEW A, NEW y \in 1..(Height - 1), stack[y] \in A
  PROVE  \E j \in 1..(Height - 1) :
           stack[j] \in A /\ \A x \in (j + 1)..(Height - 1) : stack[x] \notin A
<1>1. Height \in Nat
  BY Heights DEF KernelInv
<1> DEFINE S == {n \in Nat : Height - 1 - n \in 1..(Height - 1) /\ stack[Height - 1 - n] \in A}
<1>2. S # {} /\ S \in SUBSET Nat
  <2>1. Height - 1 - y \in Nat /\ Height - 1 - (Height - 1 - y) = y
    BY <1>1
  <2>2. Height - 1 - y \in S
    BY <2>1
  <2> QED BY <2>2
<1>3. PICK n \in S : \A m \in S : n <= m
  <2> HIDE DEF S
  <2> QED BY <1>2, LeastNat
<1>4. PICK j \in 1..(Height - 1) : j = Height - 1 - n /\ stack[j] \in A
  BY <1>3
<1>5. ASSUME NEW x \in (j + 1)..(Height - 1), stack[x] \in A PROVE FALSE
  <2>1. Height - 1 - x \in Nat /\ Height - 1 - (Height - 1 - x) = x /\ x \in 1..(Height - 1)
    BY <1>1, <1>4
  <2>2. Height - 1 - x \in S
    BY <1>5, <2>1
  <2>3. n <= Height - 1 - x /\ n \in Nat
    BY <1>3, <2>2
  <2> QED BY <1>1, <1>4, <2>3
<1> QED BY <1>4, <1>5

LEMMA WalkComplete ==
  ASSUME KernelInv, stack # <<>>, ~conf.kprobe, GraphSession.sess = NoCall
  PROVE  \A A \in {live, accepted} :
           Nearest(Top, A) = NoCall
           \/ /\ Distance(Nearest(Top, A), Top) \in Nat
              /\ ~(Distance(Nearest(Top, A), Top) <= GraphDepth)
<1>1. ASSUME NEW j \in 1..(Height - 1), Found(GraphSession, j) PROVE FALSE
  <2>1. j \in 1..Height
    BY Heights DEF KernelInv
  <2> QED BY <1>1, <2>1, Frames DEF Found
<1>2. \A x \in 1..(Height - 1) : Hit(x) => Gap(x) + 1 > GraphDepth
  BY <1>1, WalkEnds
<1> TAKE A \in {live, accepted}
<1>3. \A x \in 1..(Height - 1) : stack[x] \in A => Hit(x)
  BY BelowTop DEF Hit
<1>4. CASE \A x \in 1..(Height - 1) : stack[x] \notin A
  BY <1>4, TopNearest
<1>5. CASE ~ \A x \in 1..(Height - 1) : stack[x] \notin A
  <2>1. PICK j \in 1..(Height - 1) :
           stack[j] \in A /\ \A x \in (j + 1)..(Height - 1) : stack[x] \notin A
    BY <1>5, Uppermost
  <2>2. Nearest(Top, A) = stack[j]
    BY <2>1, TopNearest
  <2>3. Distance(stack[j], Top) = Gap(j) + 1 /\ Gap(j) \in Nat /\ GraphDepth \in Nat
    BY TopDistance, GapStep, Heights DEF KernelInv
  <2>4. Gap(j) + 1 > GraphDepth
    BY <1>2, <1>3, <2>1
  <2> QED BY <2>2, <2>3, <2>4
<1> QED BY <1>4, <1>5

LEMMA NearestHolds ==
  ASSUME KernelInv
  PROVE  WalkFindsNearest
<1> SUFFICES ASSUME at # "run", todo # <<>>, ~conf.kprobe
             PROVE  LET n == Nearest(Top, live)
                        w == GraphSession
                    IN  IF n # NoCall /\ Distance(n, Top) <= GraphDepth
                        THEN w.sess = n /\ w.depth = Distance(n, Top)
                        ELSE w.sess = NoCall
  BY DEF WalkFindsNearest
<1>1. stack # <<>>
  BY DEF KernelInv, StackInv
<1>2. CASE GraphSession.sess # NoCall
  BY <1>1, <1>2, WalkSound
<1>3. CASE GraphSession.sess = NoCall
  BY <1>1, <1>3, WalkComplete
<1> QED BY <1>2, <1>3

-----------------------------------------------------------------------------
(* The kernel's steps.                                                     *)

LEMMA Sent1 ==
  ASSUME NEW rec, Send(rec)
  PROVE  /\ lost' \subseteq lost \cup {rec.sess} /\ lost \subseteq lost'
         /\ (lost' = lost /\ ring' = Append(ring, rec)) \/ (lost' = lost \cup {rec.sess} /\ ring' = ring)
BY DEF Send

LEMMA StackKept ==
  ASSUME StackInv, UNCHANGED kernel, at' = at
  PROVE  /\ StackInv' /\ Top' = Top /\ TopFunc' = TopFunc
         /\ \A c : OnStack(c)' <=> OnStack(c)
<1>1. stack' = stack /\ callee' = callee /\ ncalls' = ncalls /\ parents' = parents
  BY DEF kernel
<1>2. Top' = Top
  BY <1>1 DEF Top, Last
<1>3. TopFunc' = TopFunc
  BY <1>1, <1>2 DEF TopFunc
<1>4. StackInv'
  BY <1>1, <1>2 DEF StackInv
<1>5. \A c : OnStack(c)' <=> OnStack(c)
  BY <1>1 DEF OnStack
<1> QED BY <1>2, <1>3, <1>4, <1>5

LEMMA TodoKept ==
  ASSUME StackInv, TodoInv, UNCHANGED kernel, UNCHANGED <<conf, at, todo>>
  PROVE  TodoInv' /\ \A p : InTodo(p)' <=> InTodo(p)
<1>1. TopFunc' = TopFunc
  BY StackKept
<1>2. \A p : InTodo(p)' <=> InTodo(p)
  BY DEF InTodo
<1> QED BY <1>1, <1>2 DEF TodoInv, Roots, Graphs

LEMMA TodoRun ==
  ASSUME StackInv, TodoInv, UNCHANGED kernel, UNCHANGED conf, at' = at, NEW p, NEW end, Runs(p, end),
         end \in {"entry", "exit"}
  PROVE  TodoInv'
<1>1. TopFunc' = TopFunc
  BY StackKept
<1>2. /\ at = end /\ todo' \in Seq({"sess", "graph"})
      /\ \A i, j \in 1..Len(todo') : todo'[i] = todo'[j] => i = j
      /\ \A q : InTodo(q)' => InTodo(q)
  BY RunsOnce
<1> QED BY <1>1, <1>2 DEF TodoInv, Roots, Graphs

LEMMA KernelCall ==
  ASSUME KernelInv, NEW f \in conf.funcs, Call(f)
  PROVE  /\ KernelInv' /\ Top' = ncalls + 1 /\ callee'[ncalls + 1] = f
         /\ \A c : c = ncalls + 1 => OnStack(c)'
         /\ (InTodo("graph")' <=> f \in Graphs)
         /\ \A c \in 1..ncalls : OnStack(c)' <=> OnStack(c)
<1>1. /\ at = "run" /\ ncalls < MaxCalls /\ Len(stack) < MaxStack
      /\ ncalls' = ncalls + 1 /\ stack' = Append(stack, ncalls + 1)
      /\ callee' = [callee EXCEPT ![ncalls + 1] = f]
      /\ parents' = [parents EXCEPT ![ncalls + 1] = stack]
      /\ at' = "entry" /\ todo' = Programs(f)
      /\ conf' = conf /\ live' = live /\ accepted' = accepted /\ lost' = lost
  BY DEF Call
<1>2. ncalls \in Nat /\ MaxCalls \in Nat /\ MaxStack \in Nat /\ ncalls + 1 \in Calls
      /\ DOMAIN callee = Calls /\ DOMAIN parents = Calls /\ Len(stack) \in Nat
  BY <1>1, FgraphAssumption DEF KernelInv, StackInv, Calls
<1>3. /\ stack' \in Seq(1..(ncalls + 1)) /\ stack \in Seq(1..ncalls)
      /\ Len(stack') = Len(stack) + 1 /\ stack'[Len(stack) + 1] = ncalls + 1
      /\ \A i \in 1..Len(stack) : stack'[i] = stack[i] /\ stack[i] \in 1..ncalls
  <2>1. stack \in Seq(1..ncalls)
    BY DEF KernelInv, StackInv
  <2>2. stack \in Seq(1..(ncalls + 1)) /\ ncalls + 1 \in 1..(ncalls + 1)
    <3>1. 1..ncalls \subseteq 1..(ncalls + 1)
      BY <1>2
    <3> QED BY <1>2, <2>1, <3>1
  <2>3. stack' \in Seq(1..(ncalls + 1))
    BY <1>1, <2>2
  <2>4. Len(stack') = Len(stack) + 1 /\ stack'[Len(stack) + 1] = ncalls + 1
        /\ \A i \in 1..Len(stack) : stack'[i] = stack[i]
    BY <1>1, <2>1
  <2>5. \A i \in 1..Len(stack) : stack[i] \in 1..ncalls
    BY Heights DEF KernelInv, Height
  <2> QED BY <2>1, <2>3, <2>4, <2>5
<1>3a. /\ Len(stack') = Len(stack) + 1 /\ stack'[Len(stack) + 1] = ncalls + 1
       /\ \A i \in 1..Len(stack) : stack'[i] = stack[i] /\ stack[i] \in 1..ncalls
  BY <1>3
<1>4. Top' = ncalls + 1 /\ stack' # <<>>
  BY <1>2, <1>3 DEF Top, Last
<1>5. TopFunc' = f
  BY <1>1, <1>2, <1>4 DEF TopFunc
<1>6. \A c \in 1..ncalls : callee'[c] = callee[c] /\ parents'[c] = parents[c]
  BY <1>1, <1>2 DEF Calls
<1>7. StackInv'
  <2>1. \A i, j \in 1..Len(stack') : i < j => stack'[i] < stack'[j]
    <3> TAKE i \in 1..Len(stack'), j \in 1..Len(stack')
    <3> HAVE i < j
    <3>1. i \in 1..Len(stack)
      BY <1>2, <1>3a
    <3>2. CASE j \in 1..Len(stack)
      BY <1>3a, <3>1, <3>2 DEF KernelInv, StackInv
    <3>3. CASE j = Len(stack) + 1
      BY <1>2, <1>3a, <3>1, <3>3
    <3> QED BY <1>2, <1>3a, <3>2, <3>3
  <2>2. \A c \in 1..ncalls' : parents'[c] \in Seq(1..(c - 1))
    <3> TAKE c \in 1..ncalls'
    <3>1. CASE c = ncalls + 1
      BY <1>1, <1>2, <1>3, <3>1
    <3>2. CASE c \in 1..ncalls
      BY <1>6, <3>2 DEF KernelInv, StackInv
    <3> QED BY <1>1, <1>2, <3>1, <3>2
  <2>3. \A i \in 1..Len(stack') : parents'[stack'[i]] = SubSeq(stack', 1, i - 1)
    <3> TAKE i \in 1..Len(stack')
    <3>1. CASE i \in 1..Len(stack)
      <4>1. parents'[stack'[i]] = SubSeq(stack, 1, i - 1)
        BY <1>3, <1>6, <3>1 DEF KernelInv, StackInv
      <4>2. SubSeq(stack', 1, i - 1) = SubSeq(stack, 1, i - 1)
        BY <1>1, <1>2, <1>3, <3>1
      <4> QED BY <4>1, <4>2
    <3>2. CASE i = Len(stack) + 1
      <4>1. parents'[stack'[i]] = stack
        BY <1>1, <1>2, <1>3, <3>2
      <4>2. SubSeq(stack', 1, Len(stack)) = stack
        BY <1>1, <1>2, <1>3
      <4> QED BY <1>2, <3>2, <4>1, <4>2
    <3> QED BY <1>2, <1>3, <3>1, <3>2
  <2>4. ncalls' \in 0..MaxCalls /\ Len(stack') <= MaxStack /\ DOMAIN callee' = Calls /\ DOMAIN parents' = Calls
    BY <1>1, <1>2, <1>3
  <2> QED BY <1>1, <1>3, <1>4, <2>1, <2>2, <2>3, <2>4 DEF StackInv
<1>11. InTodo("graph")' <=> f \in Graphs
  <2>1. \A p : InTodo(p)' <=> Among(p, Programs(f))
    BY <1>1 DEF InTodo, Among
  <2> QED BY <2>1, ProgramsOf
<1>13. \A c : c = ncalls + 1 => OnStack(c)'
  <2>1. Len(stack) + 1 \in 1..Len(stack')
    BY <1>2, <1>3
  <2> QED BY <1>3, <2>1 DEF OnStack
<1>12. callee'[ncalls + 1] = f
  BY <1>1, <1>2
<1>8. TodoInv'
  <2>1. \A p : InTodo(p)' <=> Among(p, Programs(f))
    BY <1>1 DEF InTodo, Among
  <2>2. InTodo("sess")' => f \in Roots
    BY <2>1, ProgramsOf
  <2>3. InTodo("graph")' => f \in Graphs
    BY <2>1, ProgramsOf
  <2>4. todo' \in Seq({"sess", "graph"}) /\ \A i, j \in 1..Len(todo') : todo'[i] = todo'[j] => i = j
    BY <1>1, ProgramsOf
  <2> QED BY <1>1, <1>5, <2>2, <2>3, <2>4 DEF TodoInv, Roots, Graphs
<1>9. \A c \in 1..ncalls : OnStack(c)' <=> OnStack(c)
  <2> TAKE c \in 1..ncalls
  <2>1. ASSUME OnStack(c) PROVE OnStack(c)'
    <3>1. PICK i \in 1..Len(stack) : stack[i] = c
      BY <2>1 DEF OnStack
    <3>2. i \in 1..Len(stack')
      BY <1>2, <1>3a, <3>1
    <3>3. stack'[i] = c
      BY <1>2, <1>3a, <3>1
    <3> QED BY <3>2, <3>3 DEF OnStack
  <2>2. ASSUME OnStack(c)' PROVE OnStack(c)
    <3>1. PICK i \in 1..Len(stack') : stack'[i] = c
      BY <2>2 DEF OnStack
    <3>2. i \in 1..Len(stack)
      BY <1>2, <1>3a, <3>1
    <3> QED BY <1>3, <3>1, <3>2 DEF OnStack
  <2> QED BY <2>1, <2>2
<1>10. SessInv'
  <2>1. \A c \in accepted : c \in 1..ncalls
    BY DEF KernelInv, SessInv
  <2>2. accepted' \subseteq 1..ncalls' /\ ~(ncalls + 1 \in accepted)
    BY <1>1, <1>2, <2>1
  <2>3. \A c \in accepted' : callee'[c] \in Roots'
    BY <1>1, <1>6, <2>1 DEF KernelInv, SessInv, Roots
  <2>4. \A c \in live' : OnStack(c)'
    BY <1>1, <1>9, <2>1 DEF KernelInv, SessInv
  <2>5. \A c \in accepted' : OnStack(c)' => c \in live'
    BY <1>1, <1>9, <2>1 DEF KernelInv, SessInv
  <2> QED BY <1>1, <1>4, <2>2, <2>3, <2>4, <2>5 DEF KernelInv, SessInv
<1> QED BY <1>4, <1>7, <1>8, <1>9, <1>10, <1>11, <1>12, <1>13 DEF KernelInv

LEMMA KernelReturn ==
  ASSUME KernelInv, Return
  PROVE  /\ KernelInv' /\ Top' = Top /\ (\A c : OnStack(c)' <=> OnStack(c))
         /\ (InTodo("graph")' <=> TopFunc \in Graphs)
<1>1. /\ at = "run" /\ stack # <<>> /\ at' = "exit" /\ todo' = Programs(TopFunc)
      /\ conf' = conf /\ live' = live /\ accepted' = accepted /\ lost' = lost
      /\ stack' = stack /\ callee' = callee /\ ncalls' = ncalls /\ parents' = parents
  BY DEF Return, kernel
<1>2. Top' = Top /\ TopFunc' = TopFunc /\ \A c : OnStack(c)' <=> OnStack(c)
  BY <1>1 DEF Top, TopFunc, Last, OnStack
<1>3. StackInv'
  BY <1>1, <1>2 DEF KernelInv, StackInv
<1>4. \A p : InTodo(p)' <=> Among(p, Programs(TopFunc))
  BY <1>1 DEF InTodo, Among
<1>5. (InTodo("sess")' <=> TopFunc \in Roots) /\ (InTodo("graph")' <=> TopFunc \in Graphs)
  BY <1>4, ProgramsOf
<1>6. TodoInv'
  <2>1. todo' \in Seq({"sess", "graph"}) /\ \A i, j \in 1..Len(todo') : todo'[i] = todo'[j] => i = j
    BY <1>1, ProgramsOf
  <2> QED BY <1>1, <1>2, <1>5, <2>1 DEF TodoInv, Roots, Graphs
<1>7. Top \in live => InTodo("sess")'
  BY <1>5 DEF KernelInv, SessInv, TopFunc
<1>8. SessInv'
  BY <1>1, <1>2, <1>7 DEF KernelInv, SessInv, Roots
<1> QED BY <1>2, <1>3, <1>5, <1>6, <1>8 DEF KernelInv

LEMMA KernelDone ==
  ASSUME KernelInv, ProgramsDone
  PROVE  /\ KernelInv' /\ at' = "run"
         /\ at = "exit" => \A c : OnStack(c)' <=> OnStack(c) /\ c # Top
         /\ at = "entry" => \A c : OnStack(c)' <=> OnStack(c)
<1>1. /\ at # "run" /\ todo = <<>> /\ at' = "run"
      /\ stack' = IF at = "exit" THEN Front(stack) ELSE stack
      /\ conf' = conf /\ live' = live /\ accepted' = accepted /\ lost' = lost /\ todo' = todo
      /\ callee' = callee /\ ncalls' = ncalls /\ parents' = parents
  BY DEF ProgramsDone
<1>2. stack # <<>> /\ at \in {"entry", "exit"}
  BY <1>1 DEF KernelInv, StackInv
<1>3. ~InTodo("sess") /\ ~InTodo("graph") /\ \A p : ~InTodo(p)'
  BY <1>1 DEF InTodo
<1>4. TodoInv'
  BY <1>1, <1>3 DEF KernelInv, TodoInv
<1>5. CASE at = "entry"
  <2>1. stack' = stack
    BY <1>1, <1>5
  <2>2. (\A c : OnStack(c)' <=> OnStack(c)) /\ Top' = Top
    BY <2>1 DEF OnStack, Top, Last
  <2>3. StackInv'
    BY <1>1, <2>1, <2>2 DEF KernelInv, StackInv
  <2>4. SessInv'
    BY <1>1, <1>5, <2>2 DEF KernelInv, SessInv, Roots
  <2> QED BY <1>1, <1>4, <1>5, <2>2, <2>3, <2>4 DEF KernelInv
<1>6. CASE at = "exit"
  <2>1. stack' = SubSeq(stack, 1, Len(stack) - 1)
    BY <1>1, <1>6 DEF Front
  <2>2. stack \in Seq(1..ncalls) /\ Len(stack) \in Nat \ {0} /\ Len(stack) <= MaxStack
    BY <1>2 DEF KernelInv, StackInv
  <2>3. /\ stack' \in Seq(1..ncalls) /\ Len(stack') = Len(stack) - 1
        /\ \A i \in 1..(Len(stack) - 1) : stack'[i] = stack[i]
    <3> DEFINE S == 1..ncalls
    <3>1. stack \in Seq(S)
      BY <2>2
    <3> HIDE DEF S
    <3>2. PICK m \in Nat : m = Len(stack) - 1
      BY <2>2
    <3>3. PICK s \in Seq(S) : s = stack
      BY <3>1
    <3>4. stack' = SubSeq(s, 1, m) /\ m <= Len(s)
      BY <2>1, <2>2, <3>2, <3>3
    <3>5. Len(SubSeq(s, 1, m)) = m
      BY <3>2, <3>4
    <3>6. \A i \in 1..m : SubSeq(s, 1, m)[i] = s[i]
      BY <3>2, <3>4
    <3>7. SubSeq(s, 1, m) \in Seq(S)
      BY <3>2, <3>4
    <3> QED BY <2>2, <3>2, <3>3, <3>4, <3>5, <3>6, <3>7 DEF S
  <2>4. \A c : OnStack(c)' <=> OnStack(c) /\ c # Top
    <3> TAKE c
    <3>1. ASSUME OnStack(c)' PROVE OnStack(c) /\ c # Top
      <4>1. PICK i \in 1..Len(stack') : stack'[i] = c
        BY <3>1 DEF OnStack
      <4>2. i \in 1..Len(stack) /\ i # Len(stack) /\ stack[i] = c
        BY <2>2, <2>3, <4>1
      <4>3. stack[i] # Top
        BY <1>2, <4>2, TopOnStack DEF KernelInv
      <4> QED BY <4>2, <4>3 DEF OnStack
    <3>2. ASSUME OnStack(c), c # Top PROVE OnStack(c)'
      <4>1. PICK i \in 1..Len(stack) : stack[i] = c
        BY <3>2 DEF OnStack
      <4>2. i # Len(stack)
        BY <1>2, <3>2, <4>1, TopOnStack DEF KernelInv
      <4>3. i \in 1..Len(stack') /\ stack'[i] = c
        BY <2>2, <2>3, <4>1, <4>2
      <4> QED BY <4>3 DEF OnStack
    <3> QED BY <3>1, <3>2
  <2>5. StackInv'
    <3>1. \A i, j \in 1..Len(stack') : i < j => stack'[i] < stack'[j]
      <4> TAKE i \in 1..Len(stack'), j \in 1..Len(stack')
      <4>1. i \in 1..Len(stack) /\ j \in 1..Len(stack) /\ stack'[i] = stack[i] /\ stack'[j] = stack[j]
        BY <2>2, <2>3
      <4> QED BY <4>1 DEF KernelInv, StackInv
    <3>2. \A i \in 1..Len(stack') : parents'[stack'[i]] = SubSeq(stack', 1, i - 1)
      <4> TAKE i \in 1..Len(stack')
      <4>1. i \in 1..Len(stack) /\ stack'[i] = stack[i] /\ i <= Len(stack) - 1
        BY <2>2, <2>3
      <4>2. parents'[stack'[i]] = SubSeq(stack, 1, i - 1)
        BY <1>1, <4>1 DEF KernelInv, StackInv
      <4>3. SubSeq(stack', 1, i - 1) = SubSeq(stack, 1, i - 1)
        BY <2>1, <2>2, <4>1
      <4> QED BY <4>2, <4>3
    <3>3. Len(stack') <= MaxStack /\ ncalls \in 0..MaxCalls
      BY <2>2, <2>3, FgraphAssumption DEF KernelInv, StackInv
    <3> QED BY <1>1, <2>3, <3>1, <3>2, <3>3 DEF KernelInv, StackInv
  <2>6. \A c \in live : c # Top
    BY <1>3, <1>6 DEF KernelInv, SessInv
  <2>7. SessInv'
    <3>1. \A c \in live' : OnStack(c)'
      BY <1>1, <2>4, <2>6 DEF KernelInv, SessInv
    <3>2. \A c \in accepted' : OnStack(c)' => c \in live'
      BY <1>1, <2>4 DEF KernelInv, SessInv
    <3> QED BY <1>1, <3>1, <3>2 DEF KernelInv, SessInv, Roots
  <2> QED BY <1>1, <1>4, <1>6, <2>4, <2>5, <2>7 DEF KernelInv
<1> QED BY <1>2, <1>5, <1>6

\* The steps of programs and of the reader leave the stack as it is.
LEMMA KernelEntry ==
  ASSUME KernelInv, SessionEntry \/ SessionEntryIgnored
  PROVE  KernelInv' /\ Top \notin accepted
<1>1. Runs("sess", "entry") /\ UNCHANGED kernel /\ conf' = conf /\ at' = at
  BY DEF SessionEntry, SessionEntryIgnored
<1>2. at = "entry" /\ InTodo("sess") /\ ~InTodo("sess")' /\ stack # <<>>
  BY <1>1, RunsOnce DEF KernelInv, StackInv
<1>3. StackInv' /\ TodoInv' /\ Top' = Top /\ \A c : OnStack(c)' <=> OnStack(c)
  BY <1>1, StackKept, TodoRun DEF KernelInv
<1>4. Top \in 1..ncalls /\ OnStack(Top)
  BY <1>2, TopOnStack DEF KernelInv
<1>5. callee[Top] \in Roots
  BY <1>2 DEF KernelInv, TodoInv, TopFunc
<1>6. callee' = callee /\ ncalls' = ncalls
  BY <1>1 DEF kernel
<1>7. \A c \in accepted : OnStack(c) => c \in live
  BY <1>2 DEF KernelInv, SessInv
<1>8. Top \notin accepted
  BY <1>2 DEF KernelInv, SessInv
<1>9. SessInv'
  <2>1. CASE SessionEntry
    <3>1. live' = live \cup {Top} /\ accepted' = accepted \cup {Top} /\ lost' \subseteq lost \cup {Top}
      BY <2>1, Sent1 DEF SessionEntry, Send
    <3> QED BY <1>1, <1>2, <1>3, <1>4, <1>5, <1>6, <1>7, <3>1 DEF KernelInv, SessInv, Roots
  <2>2. CASE SessionEntryIgnored
    <3>1. live' = live /\ accepted' = accepted /\ lost' = lost
      BY <2>2 DEF SessionEntryIgnored
    <3> QED BY <1>1, <1>2, <1>3, <1>6, <1>7, <3>1 DEF KernelInv, SessInv, Roots
  <2> QED BY <2>1, <2>2
<1> QED BY <1>3, <1>8, <1>9 DEF KernelInv

LEMMA KernelExit ==
  ASSUME KernelInv, SessionExit
  PROVE  KernelInv'
<1>1. Runs("sess", "exit") /\ UNCHANGED kernel /\ conf' = conf /\ at' = at
      /\ live' = live \ {Top} /\ accepted' = accepted
  BY DEF SessionExit
<1>2. at = "exit" /\ InTodo("sess") /\ ~InTodo("sess")' /\ stack # <<>>
  BY <1>1, RunsOnce DEF KernelInv, StackInv
<1>3. StackInv' /\ TodoInv' /\ Top' = Top /\ \A c : OnStack(c)' <=> OnStack(c)
  BY <1>1, StackKept, TodoRun DEF KernelInv
<1>4. lost' \subseteq lost \cup (IF Top \in live THEN {Top} ELSE {})
  BY DEF SessionExit, Send
<1>5. callee' = callee /\ ncalls' = ncalls
  BY <1>1 DEF kernel
<1>6. lost' \subseteq accepted
  BY <1>4 DEF KernelInv, SessInv
<1>7. \A c \in accepted : OnStack(c) /\ c \notin live => c = Top
  BY DEF KernelInv, SessInv
<1>8. SessInv'
  BY <1>1, <1>2, <1>3, <1>5, <1>6, <1>7 DEF KernelInv, SessInv, Roots
<1> QED BY <1>3, <1>8 DEF KernelInv

LEMMA KernelGraph ==
  ASSUME KernelInv, GraphProgram
  PROVE  KernelInv'
<1>1. PICK end \in {"entry", "exit"} : Runs("graph", end)
  BY DEF GraphProgram
<1>2. UNCHANGED kernel /\ conf' = conf /\ at' = at /\ live' = live /\ accepted' = accepted
  BY DEF GraphProgram
<1>3. stack # <<>> /\ at = end /\ (InTodo("sess")' <=> InTodo("sess"))
  BY <1>1, RunsOnce DEF KernelInv, StackInv
<1>4. StackInv' /\ TodoInv' /\ Top' = Top /\ \A c : OnStack(c)' <=> OnStack(c)
  BY <1>1, <1>2, StackKept, TodoRun DEF KernelInv
<1>5. callee' = callee /\ ncalls' = ncalls
  BY <1>2 DEF kernel
<1>6. lost' \subseteq accepted
  <2> DEFINE g == GraphSession
  <2>1. IF g.sess # NoCall
        THEN Send([type |-> IF at = "entry" THEN "graph_entry" ELSE "graph_exit",
                   sess |-> g.sess, call |-> Top, depth |-> g.depth])
        ELSE UNCHANGED <<ring, lost>>
    BY Zenon DEF GraphProgram
  <2>2. g.sess # NoCall => g.sess \in accepted
    BY <1>3, WalkSound
  <2> HIDE DEF g
  <2>3. lost' = lost \/ (g.sess # NoCall /\ lost' \subseteq lost \cup {g.sess})
    BY <2>1 DEF Send
  <2> QED BY <2>2, <2>3 DEF KernelInv, SessInv
<1>7. SessInv'
  BY <1>2, <1>3, <1>4, <1>5, <1>6 DEF KernelInv, SessInv, Roots
<1> QED BY <1>4, <1>7 DEF KernelInv

LEMMA InsnLive ==
  ASSUME NEW popped \in BOOLEAN
  PROVE  InsnSession(popped) = NoCall \/ InsnSession(popped) \in live
<1>1. \A fr : get_session(fr) = NoCall \/ get_session(fr) \in live
  BY DEF get_session
<1> QED BY <1>1, Zenon DEF InsnSession

LEMMA InsnSends ==
  ASSUME InsnProgram
  PROVE  \E popped \in BOOLEAN :
           \/ /\ InsnSession(popped) # NoCall
              /\ Send([type |-> "insn", sess |-> InsnSession(popped), call |-> Top, depth |-> 0])
           \/ InsnSession(popped) = NoCall /\ UNCHANGED <<ring, lost>>
<1>1. PICK popped \in BOOLEAN : LET s == InsnSession(popped) IN
        IF s # NoCall
        THEN Send([type |-> "insn", sess |-> s, call |-> Top, depth |-> 0])
        ELSE UNCHANGED <<ring, lost>>
  BY Zenon DEF InsnProgram
<1> QED BY <1>1, Zenon

LEMMA KernelInsn ==
  ASSUME KernelInv, InsnProgram
  PROVE  KernelInv'
<1>1. UNCHANGED kernel /\ conf' = conf /\ at' = at /\ live' = live /\ accepted' = accepted /\ todo' = todo
  BY DEF InsnProgram
<1>2. StackInv' /\ TodoInv' /\ Top' = Top /\ (\A c : OnStack(c)' <=> OnStack(c))
      /\ \A p : InTodo(p)' <=> InTodo(p)
  BY <1>1, StackKept, TodoKept DEF KernelInv
<1>3. callee' = callee /\ ncalls' = ncalls
  BY <1>1 DEF kernel
<1>4. lost' \subseteq accepted
  <2>1. PICK popped \in BOOLEAN :
           \/ /\ InsnSession(popped) # NoCall
              /\ Send([type |-> "insn", sess |-> InsnSession(popped), call |-> Top, depth |-> 0])
           \/ InsnSession(popped) = NoCall /\ UNCHANGED <<ring, lost>>
    BY InsnSends
  <2> DEFINE s == InsnSession(popped)
  <2>2. s = NoCall \/ s \in live
    BY InsnLive
  <2>3. lost' = lost \/ (s # NoCall /\ lost' \subseteq lost \cup {s})
    <3> HIDE DEF s
    <3> QED BY <2>1 DEF Send, s
  <2> HIDE DEF s
  <2> QED BY <2>2, <2>3 DEF KernelInv, SessInv
<1>5. SessInv'
  BY <1>1, <1>2, <1>3, <1>4 DEF KernelInv, SessInv, Roots
<1> QED BY <1>2, <1>5 DEF KernelInv

LEMMA KernelSame ==
  ASSUME KernelInv, UNCHANGED <<conf, kernel, at, todo, live, accepted, lost>>
  PROVE  /\ KernelInv' /\ Top' = Top /\ \A c : OnStack(c)' <=> OnStack(c)
         /\ \A p : InTodo(p)' <=> InTodo(p)
<1>1. StackInv' /\ TodoInv' /\ Top' = Top /\ (\A c : OnStack(c)' <=> OnStack(c))
      /\ \A p : InTodo(p)' <=> InTodo(p)
  BY StackKept, TodoKept DEF KernelInv
<1>2. callee' = callee /\ ncalls' = ncalls
  BY DEF kernel
<1>3. SessInv'
  BY <1>1, <1>2 DEF KernelInv, SessInv, Roots
<1> QED BY <1>1, <1>3 DEF KernelInv

LEMMA KernelNext == KernelInv /\ [Next]_vars => KernelInv'
<1> SUFFICES ASSUME KernelInv, [Next]_vars PROVE KernelInv'
  OBVIOUS
<1>1. ASSUME NEW f \in conf.funcs, Call(f) PROVE KernelInv'
  BY <1>1, KernelCall
<1>2. CASE Return
  BY <1>2, KernelReturn
<1>3. CASE ProgramsDone
  BY <1>3, KernelDone
<1>4. CASE SessionEntryIgnored \/ SessionEntry
  BY <1>4, KernelEntry
<1>5. CASE SessionExit
  BY <1>5, KernelExit
<1>6. CASE GraphProgram
  BY <1>6, KernelGraph
<1>7. CASE InsnProgram
  BY <1>7, KernelInsn
<1>8. CASE Consume
  BY <1>8, KernelSame DEF Consume
<1>9. CASE UNCHANGED vars
  BY <1>9, KernelSame DEF vars
<1> QED BY <1>1, <1>2, <1>3, <1>4, <1>5, <1>6, <1>7, <1>8, <1>9 DEF Next

\* The walk over the frames finds the nearest session within the depth, in every
\* configuration and with stacks of any height.
THEOREM WalkFinds == Spec => []WalkFindsNearest
<1>1. KernelInv => WalkFindsNearest
  BY NearestHolds
<1> QED BY KernelInit, KernelNext, <1>1, PTL DEF Spec

-----------------------------------------------------------------------------
(* What is said of a call stays so.                                        *)

Grows ==
  /\ conf' = conf /\ ncalls' \in Nat /\ ncalls <= ncalls'
  /\ \A d \in 1..ncalls : callee'[d] = callee[d] /\ parents'[d] = parents[d]
  /\ accepted \subseteq accepted' /\ lost \subseteq lost'
  /\ \A c \in accepted' \ accepted : c = ncalls /\ ncalls' = ncalls

LEMMA SameGrows ==
  ASSUME KernelInv, UNCHANGED kernel, conf' = conf, accepted' = accepted, lost \subseteq lost'
  PROVE  Grows
<1>1. callee' = callee /\ ncalls' = ncalls /\ parents' = parents
  BY DEF kernel
<1>2. ncalls \in Nat
  BY DEF KernelInv, StackInv
<1> QED BY <1>1, <1>2 DEF Grows

LEMMA StepGrows == ASSUME KernelInv, [Next]_vars PROVE Grows
<1>1. ASSUME NEW f \in conf.funcs, Call(f) PROVE Grows
  <2>1. /\ ncalls' = ncalls + 1 /\ callee' = [callee EXCEPT ![ncalls + 1] = f]
        /\ parents' = [parents EXCEPT ![ncalls + 1] = stack]
        /\ conf' = conf /\ accepted' = accepted /\ lost' = lost
    BY <1>1 DEF Call
  <2>2. ncalls \in 0..MaxCalls /\ MaxCalls \in Nat /\ DOMAIN callee = Calls /\ DOMAIN parents = Calls
    BY FgraphAssumption DEF KernelInv, StackInv
  <2>3. \A d \in 1..ncalls : d # ncalls + 1 /\ d \in Calls
    BY <2>2 DEF Calls
  <2>4. \A d \in 1..ncalls : callee'[d] = callee[d] /\ parents'[d] = parents[d]
    BY <2>1, <2>2, <2>3
  <2> QED BY <2>1, <2>2, <2>4 DEF Grows
<1>2. CASE Return
  BY <1>2, SameGrows DEF Return
<1>3. CASE ProgramsDone
  <2>1. callee' = callee /\ ncalls' = ncalls /\ parents' = parents
        /\ conf' = conf /\ accepted' = accepted /\ lost' = lost
    BY <1>3 DEF ProgramsDone
  <2>2. ncalls \in Nat
    BY DEF KernelInv, StackInv
  <2> QED BY <2>1, <2>2 DEF Grows
<1>4. CASE SessionEntryIgnored
  BY <1>4, SameGrows DEF SessionEntryIgnored
<1>5. CASE SessionEntry
  <2>1. UNCHANGED kernel /\ conf' = conf /\ accepted' = accepted \cup {Top} /\ lost \subseteq lost' /\ at = "entry"
    BY <1>5, Sent1 DEF SessionEntry, Runs, Send
  <2>2. Top = ncalls /\ ncalls \in Nat
    BY <2>1 DEF KernelInv, StackInv
  <2>3. callee' = callee /\ ncalls' = ncalls /\ parents' = parents
    BY <2>1 DEF kernel
  <2> QED BY <2>1, <2>2, <2>3 DEF Grows
<1>6. CASE SessionExit
  <2>1. lost \subseteq lost'
    BY <1>6 DEF SessionExit, Send
  <2> QED BY <1>6, <2>1, SameGrows DEF SessionExit
<1>7. CASE GraphProgram
  <2> DEFINE g == GraphSession
  <2>1. IF g.sess # NoCall
        THEN Send([type |-> IF at = "entry" THEN "graph_entry" ELSE "graph_exit",
                   sess |-> g.sess, call |-> Top, depth |-> g.depth])
        ELSE UNCHANGED <<ring, lost>>
    BY <1>7, Zenon DEF GraphProgram
  <2> HIDE DEF g
  <2>2. lost \subseteq lost'
    BY <2>1 DEF Send
  <2>3. UNCHANGED kernel /\ conf' = conf /\ accepted' = accepted
    BY <1>7 DEF GraphProgram
  <2> QED BY <2>2, <2>3, SameGrows
<1>8. CASE InsnProgram
  <2>1. PICK s : \/ Send([type |-> "insn", sess |-> s, call |-> Top, depth |-> 0])
                 \/ UNCHANGED <<ring, lost>>
    BY <1>8, InsnSends
  <2>2. lost \subseteq lost'
    BY <2>1 DEF Send
  <2>3. UNCHANGED kernel /\ conf' = conf /\ accepted' = accepted
    BY <1>8 DEF InsnProgram
  <2> QED BY <2>2, <2>3, SameGrows
<1>9. CASE Consume
  BY <1>9, SameGrows DEF Consume
<1>10. CASE UNCHANGED vars
  BY <1>10, SameGrows DEF vars
<1> QED BY <1>1, <1>2, <1>3, <1>4, <1>5, <1>6, <1>7, <1>8, <1>9, <1>10 DEF Next

LEMMA ParentsOf ==
  ASSUME StackInv, NEW d \in 1..ncalls
  PROVE  /\ Len(parents[d]) \in Nat
         /\ \A x \in 1..Len(parents[d]) : parents[d][x] \in 1..ncalls /\ parents[d][x] < d
<1> DEFINE S == 1..(d - 1)
<1>1. parents[d] \in Seq(S) /\ ncalls \in Nat
  BY DEF StackInv
<1> HIDE DEF S
<1>2. Len(parents[d]) \in Nat /\ \A x \in 1..Len(parents[d]) : parents[d][x] \in S
  BY <1>1
<1> QED BY <1>1, <1>2 DEF S

LEMMA GraphKept ==
  ASSUME KernelInv, Grows, NEW d \in 1..ncalls
  PROVE  /\ d \in 1..ncalls' /\ callee'[d] = callee[d] /\ Graphs' = Graphs /\ GraphRoots' = GraphRoots
         /\ Nearest(d, accepted)' = Nearest(d, accepted)
         /\ \A c : Distance(c, d)' = Distance(c, d)
<1>1. /\ conf' = conf /\ callee'[d] = callee[d] /\ parents'[d] = parents[d] /\ d \in Nat /\ d >= 1
      /\ ncalls' \in Nat /\ ncalls <= ncalls' /\ ncalls \in Nat
  <2>1. ncalls \in Nat
    BY DEF KernelInv, StackInv
  <2>2. conf' = conf /\ ncalls' \in Nat /\ ncalls <= ncalls'
    BY DEF Grows
  <2>3. callee'[d] = callee[d] /\ parents'[d] = parents[d]
    BY DEF Grows
  <2> QED BY <2>1, <2>2, <2>3
<1>2. Graphs' = Graphs /\ GraphRoots' = GraphRoots /\ Trampolined' = Trampolined
  BY <1>1 DEF Graphs, GraphRoots, Trampolined, Singles, Roots
<1>3. \A x \in 1..Len(parents[d]) : parents[d][x] \in 1..ncalls /\ parents[d][x] < d
  BY ParentsOf DEF KernelInv
<1>4. \A x \in 1..Len(parents[d]) : parents'[d][x] \in accepted' <=> parents[d][x] \in accepted
  <2> TAKE x \in 1..Len(parents[d])
  <2>1. parents[d][x] # ncalls
    BY <1>1, <1>3
  <2> QED BY <1>1, <2>1 DEF Grows
<1>5. Nearest(d, accepted)' = Nearest(d, accepted)
  <2> DEFINE E == {x \in 1..Len(parents[d]) : parents[d][x] \in accepted}
             F == {x \in 1..Len(parents'[d]) : parents'[d][x] \in accepted'}
  <2>1. E = F
    BY <1>1, <1>4
  <2>2. Nearest(d, accepted) = IF E = {} THEN NoCall
                               ELSE parents[d][CHOOSE x \in E : \A y \in E : y <= x]
    BY Zenon DEF Nearest
  <2>3. Nearest(d, accepted)' = IF F = {} THEN NoCall
                                ELSE parents'[d][CHOOSE x \in F : \A y \in F : y <= x]
    BY Zenon DEF Nearest
  <2> HIDE DEF E, F
  <2> QED BY <1>1, <2>1, <2>2, <2>3
<1>6. ASSUME NEW c PROVE Distance(c, d)' = Distance(c, d)
  <2> DEFINE B == {x \in 1..Len(parents[d]) : \E y \in 1..x : parents[d][y] = c}
             X == {x \in B : /\ parents[d][x] # c
                             /\ callee[parents[d][x]] \in Trampolined \ Graphs}
             C == {x \in 1..Len(parents'[d]) : \E y \in 1..x : parents'[d][y] = c}
             Y == {x \in C : /\ parents'[d][x] # c
                             /\ callee'[parents'[d][x]] \in Trampolined' \ Graphs'}
  <2>1. B = C
    BY <1>1
  <2>2. \A x \in B : callee'[parents'[d][x]] = callee[parents[d][x]]
    BY <1>1, <1>3 DEF Grows
  <2>3. Distance(c, d) = Cardinality(B) + Cardinality(X)
    BY Zenon DEF Distance
  <2>4. Distance(c, d)' = Cardinality(C) + Cardinality(Y)
    BY Zenon DEF Distance
  <2>5. X = Y
    <3> HIDE DEF B, C
    <3> QED BY <1>1, <1>2, <2>1, <2>2
  <2> HIDE DEF B, C, X, Y
  <2> QED BY <2>1, <2>3, <2>4, <2>5
<1>7. d \in 1..ncalls'
  BY <1>1
<1> QED BY <1>1, <1>2, <1>5, <1>6, <1>7

LEMMA MaxIn ==
  ASSUME NEW n \in Nat, NEW S \in SUBSET (1..n), S # {}
  PROVE  \E x \in S : \A y \in S : y <= x
<1> DEFINE T == {m \in Nat : n - m \in S}
<1>1. PICK y \in S : TRUE
  OBVIOUS
<1>2. n - y \in T
  BY <1>1
<1>3. PICK m \in T : \A k \in T : m <= k
  BY <1>2, LeastNat
<1>4. n - m \in S /\ m \in Nat
  BY <1>3
<1>5. ASSUME NEW z \in S PROVE z <= n - m
  <2>1. n - z \in T
    OBVIOUS
  <2>2. m <= n - z
    BY <1>3, <2>1
  <2> QED BY <1>4, <2>2
<1> QED BY <1>4, <1>5

LEMMA NearestIn ==
  ASSUME KernelInv, NEW d \in 1..ncalls, NEW A, Nearest(d, A) # NoCall
  PROVE  Nearest(d, A) \in A /\ \E x \in 1..Len(parents[d]) : parents[d][x] = Nearest(d, A)
<1> DEFINE E == {x \in 1..Len(parents[d]) : parents[d][x] \in A}
<1>1. Nearest(d, A) = IF E = {} THEN NoCall
                      ELSE parents[d][CHOOSE x \in E : \A y \in E : y <= x]
  BY Zenon DEF Nearest
<1>2. Len(parents[d]) \in Nat
  BY ParentsOf DEF KernelInv
<1>3. E # {}
  <2> HIDE DEF E
  <2> QED BY <1>1
<1>4. \E x \in E : \A y \in E : y <= x
  BY <1>2, <1>3, MaxIn
<1>5. PICK x \in E : x = CHOOSE z \in E : \A y \in E : y <= z
  <2> HIDE DEF E
  <2> QED BY <1>4
<1>6. Nearest(d, A) = parents[d][x]
  <2> HIDE DEF E
  <2> QED BY <1>1, <1>3, <1>5
<1>7. x \in 1..Len(parents[d]) /\ parents[d][x] \in A
  OBVIOUS
<1> QED BY <1>6, <1>7

LEMMA OfGraphKept ==
  ASSUME KernelInv, Grows, NEW d \in 1..ncalls, NEW c
  PROVE  OfGraph(d, c)' <=> OfGraph(d, c)
<1>1. /\ d \in 1..ncalls' /\ callee'[d] = callee[d] /\ Graphs' = Graphs
      /\ Nearest(d, accepted)' = Nearest(d, accepted) /\ Distance(c, d)' = Distance(c, d)
  BY GraphKept
<1>2. OfGraph(d, c)' <=> /\ c \in accepted' /\ callee'[d] \in Graphs'
                         /\ c = Nearest(d, accepted)' /\ Distance(c, d)' <= GraphDepth
  BY <1>1 DEF OfGraph
<1>3. accepted \subseteq accepted' /\ NoCall \notin accepted'
  <2>1. NoCall \notin accepted /\ ncalls \in Nat /\ NoCall = 0
    BY DEF KernelInv, SessInv, StackInv, NoCall
  <2>2. \A a \in accepted' \ accepted : a = ncalls /\ d \in 1..ncalls
    BY DEF Grows
  <2> QED BY <2>1, <2>2 DEF Grows
<1>4. c \in accepted' /\ c = Nearest(d, accepted) => c \in accepted
  BY <1>3, NearestIn
<1> QED BY <1>1, <1>2, <1>3, <1>4 DEF OfGraph

\* The session of a call on the stack is one of a call under it.
LEMMA GraphCaller ==
  ASSUME KernelInv, NEW d, NEW c, OfGraph(d, c), OnStack(d)
  PROVE  OnStack(c) /\ c < d /\ c # Top /\ c \in live /\ d <= Top /\ stack # <<>>
<1>1. PICK i \in 1..Len(stack) : stack[i] = d
  BY DEF OnStack
<1>2. Len(stack) = Height /\ Height \in Nat /\ i \in 1..Height /\ stack # <<>>
  BY <1>1, Heights DEF KernelInv, Height
<1>3. d \in 1..ncalls /\ c = Nearest(d, accepted) /\ c \in accepted /\ c # NoCall
  BY DEF OfGraph, KernelInv, SessInv, NoCall
<1>4. PICK x \in 1..Len(parents[d]) : parents[d][x] = c
  BY <1>3, NearestIn
<1>5. parents[d] = SubSeq(stack, 1, i - 1) /\ stack \in Seq(1..ncalls)
  BY <1>1 DEF KernelInv, StackInv
<1>6. x \in 1..(i - 1) /\ c = stack[x]
  BY <1>1, <1>2, <1>4, <1>5
<1>7. x \in 1..(Height - 1)
  BY <1>2, <1>6
<1>8. c \in live /\ OnStack(c) /\ c # Top
  BY <1>2, <1>3, <1>6, <1>7, BelowTop
<1>9. c < d
  BY <1>3, <1>4, ParentsOf DEF KernelInv
<1>10. d <= Top
  BY <1>1, <1>2, TopOnStack DEF KernelInv
<1> QED BY <1>2, <1>8, <1>9, <1>10

LEMMA MarksSame ==
  ASSUME KernelInv, UNCHANGED kernel, at' = at, InTodo("graph")' <=> InTodo("graph"), NEW d
  PROVE  (Begun(d)' <=> Begun(d)) /\ (Ended(d)' <=> Ended(d)) /\ (OnStack(d)' <=> OnStack(d))
<1>1. Top' = Top /\ (OnStack(d)' <=> OnStack(d))
  BY StackKept DEF KernelInv
<1> QED BY <1>1 DEF Begun, Ended

\* Once a program has run at an end of a call it has, and only the graph
\* program itself makes that so for a call of a function of the graph.
LEMMA Marks ==
  ASSUME KernelInv, [Next]_vars, NEW d \in 1..ncalls
  PROVE  /\ (Begun(d) => Begun(d)') /\ (Ended(d) => Ended(d)')
         /\ callee[d] \in Graphs /\ (~GraphProgram \/ d # Top) =>
              (Begun(d)' => Begun(d)) /\ (Ended(d)' => Ended(d))
         /\ at' = "entry" /\ d = Top' => at = "entry" /\ d = Top
<1> DEFINE P == /\ (Begun(d) => Begun(d)') /\ (Ended(d) => Ended(d)')
                /\ callee[d] \in Graphs /\ (~GraphProgram \/ d # Top) =>
                     (Begun(d)' => Begun(d)) /\ (Ended(d)' => Ended(d))
                /\ at' = "entry" /\ d = Top' => at = "entry" /\ d = Top
<1>0. ncalls \in Nat /\ d \in Nat /\ d <= ncalls
  BY DEF KernelInv, StackInv
<1>1. ASSUME UNCHANGED kernel, at' = at, InTodo("graph")' <=> InTodo("graph") PROVE P
  <2>1. Top' = Top
    BY <1>1, StackKept DEF KernelInv
  <2> QED BY <1>1, <2>1, MarksSame
<1>2. ASSUME NEW f \in conf.funcs, Call(f) PROVE P
  <2>1. at = "run" /\ at' = "entry" /\ Top' = ncalls + 1 /\ (OnStack(d)' <=> OnStack(d))
    BY <1>2, KernelCall DEF Call
  <2>2. d # Top'
    BY <1>0, <2>1
  <2> QED BY <2>1, <2>2 DEF Begun, Ended
<1>3. ASSUME Return PROVE P
  <2>1. at = "run" /\ at' = "exit" /\ Top' = Top /\ (OnStack(d)' <=> OnStack(d))
        /\ (InTodo("graph")' <=> callee[Top] \in Graphs)
    BY <1>3, KernelReturn DEF Return, TopFunc
  <2> QED BY <2>1 DEF Begun, Ended
<1>4. ASSUME ProgramsDone PROVE P
  <2>1. at \in {"entry", "exit"} /\ at' = "run" /\ ~InTodo("graph")
    BY <1>4 DEF ProgramsDone, InTodo, KernelInv, StackInv
  <2>2. at = "exit" => (OnStack(d)' <=> OnStack(d) /\ d # Top)
    BY <1>4, KernelDone
  <2>3. at = "entry" => (OnStack(d)' <=> OnStack(d))
    BY <1>4, KernelDone
  <2> QED BY <2>1, <2>2, <2>3 DEF Begun, Ended
<1>5. ASSUME SessionEntryIgnored \/ SessionEntry \/ SessionExit PROVE P
  <2>1. PICK end : Runs("sess", end)
    BY <1>5 DEF SessionEntryIgnored, SessionEntry, SessionExit
  <2>2. UNCHANGED kernel /\ at' = at
    BY <1>5 DEF SessionEntryIgnored, SessionEntry, SessionExit
  <2>3. InTodo("graph")' <=> InTodo("graph")
    BY <2>1, RunsOnce DEF KernelInv
  <2> QED BY <1>1, <2>2, <2>3
<1>6. ASSUME GraphProgram PROVE P
  <2>1. PICK end \in {"entry", "exit"} : Runs("graph", end)
    BY <1>6 DEF GraphProgram
  <2>2. at = end /\ InTodo("graph") /\ ~InTodo("graph")'
    BY <2>1, RunsOnce DEF KernelInv
  <2>3. UNCHANGED kernel /\ at' = at
    BY <1>6 DEF GraphProgram
  <2>4. Top' = Top /\ (OnStack(d)' <=> OnStack(d))
    BY <2>3, StackKept DEF KernelInv
  <2> QED BY <1>6, <2>2, <2>3, <2>4 DEF Begun, Ended
<1>7. ASSUME InsnProgram \/ Consume \/ UNCHANGED vars PROVE P
  <2>1. UNCHANGED kernel /\ at' = at /\ todo' = todo
    BY <1>7 DEF InsnProgram, Consume, vars
  <2>2. InTodo("graph")' <=> InTodo("graph")
    BY <2>1 DEF InTodo
  <2> QED BY <1>1, <2>1, <2>2
<1>8. P
  <2> HIDE DEF P
  <2>1. Next \/ UNCHANGED vars
    OBVIOUS
  <2>2. CASE \E f \in conf.funcs : Call(f)
    BY <1>2, <2>2
  <2>3. CASE ~ \E f \in conf.funcs : Call(f)
    BY <1>3, <1>4, <1>5, <1>6, <1>7, <2>1, <2>3 DEF Next
  <2> QED BY <2>2, <2>3
<1> QED BY <1>8

\* A new call is not yet of any graph that has begun.
LEMMA NewCall ==
  ASSUME KernelInv, [Next]_vars, NEW d \in 1..ncalls', d \notin 1..ncalls, callee'[d] \in Graphs
  PROVE  ~Begun(d)' /\ ~Ended(d)' /\ at = "run"
<1>1. ncalls \in Nat
  BY DEF KernelInv, StackInv
<1>2. PICK f \in conf.funcs : Call(f)
  <2>1. ncalls' = ncalls \/ \E f \in conf.funcs : Call(f)
    BY DEF Next, Return, ProgramsDone, SessionEntryIgnored, SessionEntry, SessionExit, GraphProgram,
           InsnProgram, Consume, vars, kernel
  <2> QED BY <2>1
<1>3. ncalls' = ncalls + 1 /\ at = "run" /\ at' = "entry" /\ Top' = ncalls + 1 /\ callee'[ncalls + 1] = f
      /\ (InTodo("graph")' <=> f \in Graphs) /\ KernelInv'
  BY <1>2, KernelCall DEF Call
<1>4. d = ncalls + 1
  BY <1>1, <1>3
<1>5. OnStack(d)'
  BY <1>2, <1>4, KernelCall
<1> QED BY <1>3, <1>4, <1>5 DEF Begun, Ended

\* What a record or a line says of a call stays so.
LEMMA OwnedKept ==
  ASSUME KernelInv, [Next]_vars, NEW l, NEW c, Owned(l, c)
  PROVE  Owned(l, c)'
<1>1. Grows
  BY StepGrows
<1>2. l.call \in 1..ncalls /\ c \in accepted /\ ncalls \in Nat
  BY DEF Owned, KernelInv, StackInv
<1>3. l.call \in 1..ncalls' /\ c \in accepted' /\ conf' = conf
  BY <1>1, <1>2 DEF Grows
<1>4. PICK d : d = l.call
  OBVIOUS
<1>5. OfGraph(d, c)' <=> OfGraph(d, c)
  BY <1>1, <1>2, <1>4, OfGraphKept
<1>6. Distance(c, d)' = Distance(c, d)
  BY <1>1, <1>2, <1>4, GraphKept
<1>7. (Begun(d) => Begun(d)') /\ (Ended(d) => Ended(d)') /\ (at' = "entry" /\ d = Top' => at = "entry" /\ d = Top)
  BY <1>2, <1>4, Marks
<1>8. ~(at = "entry" /\ d = Top) => (d \in accepted' => d \in accepted)
  <2> SUFFICES ASSUME d \in accepted', d \notin accepted PROVE at = "entry" /\ d = Top
    OBVIOUS
  <2>1. CASE SessionEntry
    <3>1. accepted' = accepted \cup {Top} /\ at = "entry"
      BY <2>1 DEF SessionEntry, Runs
    <3> QED BY <3>1
  <2>2. CASE ~SessionEntry
    <3>1. accepted' = accepted
      BY <2>2 DEF Next, Call, Return, ProgramsDone, SessionEntryIgnored, SessionExit, GraphProgram,
                  InsnProgram, Consume, vars
    <3> QED BY <3>1
  <2> QED BY <2>1, <2>2
<1> QED BY <1>3, <1>4, <1>5, <1>6, <1>7, <1>8 DEF Owned

-----------------------------------------------------------------------------
(* What is sent to the ring buffer.                                        *)

\* The walk over three frames stops at the session of the top call, if it has one.
LEMMA InsnOwn ==
  ASSUME KernelInv, stack # <<>>, TopFunc \in InsnRoots, Top \in live, NEW popped \in BOOLEAN,
         InsnSession(popped) # NoCall
  PROVE  InsnSession(popped) = Top
<1> DEFINE n == Len(stack)
           fs == InsnFrames(popped)
<1>1. n \in 1..Height /\ stack[n] = Top
  BY TopOnStack DEF KernelInv, Height
<1>2. \A fr : conf.kprobe => get_session(fr) = NoCall
  BY DEF get_session
<1>3. ~conf.kprobe
  BY <1>2, Zenon DEF InsnSession
<1>4. Hit(n) /\ Trampoline(n)
  <2>1. Hit(n)
    BY <1>1, <1>3 DEF Hit
  <2> QED BY <1>1, <2>1, Frames
<1>5. SavedFp(Body(n)) = Tramp(n) /\ SavedFp(Tramp(n)) = Body(n - 1)
      /\ get_session(Tramp(n)) = NoCall /\ get_session(Body(n - 1)) = Top
  BY <1>1, <1>4, Frames
<1>6. get_session(fs[1]) = (IF popped THEN Top ELSE NoCall) /\ (~popped => get_session(fs[2]) = Top)
  <2> DEFINE fp1 == SavedFp(IF popped THEN SavedFp(Body(n)) ELSE Body(n))
             fp2 == SavedFp(fp1)
             fp3 == SavedFp(fp2)
  <2>1. fs = <<fp1, fp2, fp3>>
    BY Zenon DEF InsnFrames
  <2>2. CASE popped
    <3>1. fp1 = Body(n - 1)
      BY <1>5, <2>2
    <3> HIDE DEF fp1, fp2, fp3, n
    <3>2. fs[1] = fp1
      BY <2>1
    <3> QED BY <1>5, <2>2, <3>1, <3>2
  <2>3. CASE ~popped
    <3>1. fp1 = Tramp(n) /\ fp2 = Body(n - 1)
      BY <1>5, <2>3
    <3> HIDE DEF fp1, fp2, fp3, n
    <3>2. fs[1] = fp1 /\ fs[2] = fp2
      BY <2>1
    <3> QED BY <1>5, <2>3, <3>1, <3>2
  <2> QED BY <2>2, <2>3
<1> DEFINE H == InsnHits(popped)
<1>7. H = {i \in 1..3 : get_session(fs[i]) # NoCall}
  BY DEF InsnHits
<1>8. InsnSession(popped) = get_session(fs[Min(H)])
  BY Zenon DEF InsnSession
<1>9. Top # NoCall
  BY <1>1, Frames
<1> HIDE DEF fs, H, n
<1>10. \E i \in H : \A j \in H : i <= j
  <2>1. CASE popped
    <3>1. 1 \in H
      BY <1>6, <1>7, <1>9, <2>1
    <3> QED BY <1>7, <3>1
  <2>2. CASE ~popped
    <3>1. 2 \in H /\ 1 \notin H
      BY <1>6, <1>7, <1>9, <2>2
    <3>2. \A j \in H : 2 <= j
      BY <1>7, <3>1
    <3> QED BY <3>1, <3>2
  <2> QED BY <2>1, <2>2
<1>11. Min(H) \in H /\ \A j \in H : Min(H) <= j
  BY <1>10, Zenon DEF Min
<1>12. CASE popped
  <2>1. 1 \in H
    BY <1>6, <1>7, <1>9, <1>12
  <2>2. Min(H) = 1
    BY <1>7, <1>11, <2>1
  <2> QED BY <1>6, <1>8, <1>12, <2>2
<1>13. CASE ~popped
  <2>1. 2 \in H /\ 1 \notin H
    BY <1>6, <1>7, <1>9, <1>13
  <2>2. Min(H) = 2
    BY <1>7, <1>11, <2>1
  <2> QED BY <1>6, <1>8, <1>13, <2>2
<1> QED BY <1>12, <1>13

Quiet == ring' = ring /\ lost' = lost
Emitted(rec) ==
  /\ rec \in Record /\ Owned(rec, rec.sess)'
  /\ \/ ring' = Append(ring, rec) /\ lost' = lost
     \/ ring' = ring /\ lost' = lost \cup {rec.sess}
  /\ rec.type = "entry" => /\ rec.sess \notin accepted
                           /\ accepted' = accepted \cup {rec.sess} /\ live' = live \cup {rec.sess}
  /\ rec.type # "entry" => rec.sess \in live /\ accepted' = accepted /\ live' \subseteq live
  /\ rec.type = "exit" => rec.sess \notin live'
  /\ rec.type \in {"graph_entry", "graph_exit"} =>
       /\ GraphProgram /\ rec.call = Top /\ OfGraph(Top, rec.sess)
       /\ rec.type = "graph_entry" <=> at = "entry"
  /\ rec.type \notin {"graph_entry", "graph_exit"} => ~GraphProgram

LEMMA Records ==
  ASSUME NEW t \in EventTypes, NEW c \in Calls, NEW d \in Calls, NEW n \in Nat, NEW rec,
         rec = [type |-> t, sess |-> c, call |-> d, depth |-> n]
  PROVE  rec \in Record /\ rec.type = t /\ rec.sess = c /\ rec.call = d /\ rec.depth = n
BY DEF Record

LEMMA EntryEmits ==
  ASSUME KernelInv, SessionEntry
  PROVE  \E rec : Emitted(rec)
<1>1. Runs("sess", "entry") /\ UNCHANGED kernel /\ at' = at
      /\ live' = live \cup {Top} /\ accepted' = accepted \cup {Top}
  BY DEF SessionEntry
<1>2. PICK rec : rec = [type |-> "entry", sess |-> Top, call |-> Top, depth |-> 0]
  OBVIOUS
<1>3. stack # <<>> /\ Head(todo) = "sess"
  BY <1>1, RunsOnce DEF KernelInv, StackInv, Runs
<1>4. Top \in 1..ncalls /\ Top \in Calls /\ Top \notin accepted /\ ncalls' = ncalls
  BY <1>1, <1>3, TopOnStack, KernelEntry DEF KernelInv, kernel
<1>5. rec \in Record /\ rec.type = "entry" /\ rec.sess = Top /\ rec.call = Top
  BY <1>2, <1>4, Records DEF EventTypes
<1>6. ~GraphProgram
  BY <1>3 DEF GraphProgram, Runs
<1>7. (ring' = Append(ring, rec) /\ lost' = lost) \/ (ring' = ring /\ lost' = lost \cup {rec.sess})
  <2>1. Send(rec)
    BY <1>2 DEF SessionEntry
  <2> QED BY <2>1, Sent1
<1>8. Owned(rec, rec.sess)'
  BY <1>1, <1>4, <1>5 DEF Owned, EventTypes
<1> QED BY <1>1, <1>4, <1>5, <1>6, <1>7, <1>8 DEF Emitted

LEMMA ExitEmits ==
  ASSUME KernelInv, SessionExit
  PROVE  (\E rec : Emitted(rec)) \/ (Quiet /\ accepted' = accepted /\ live' \subseteq live /\ ~GraphProgram)
<1>1. Runs("sess", "exit") /\ UNCHANGED kernel /\ at' = at
      /\ live' = live \ {Top} /\ accepted' = accepted
  BY DEF SessionExit
<1>2. stack # <<>> /\ Head(todo) = "sess"
  BY <1>1, RunsOnce DEF KernelInv, StackInv, Runs
<1>3. ~GraphProgram
  BY <1>2 DEF GraphProgram, Runs
<1>4. CASE Top \notin live
  BY <1>1, <1>3, <1>4 DEF SessionExit, Quiet
<1>5. CASE Top \in live
  <2>1. PICK rec : rec = [type |-> "exit", sess |-> Top, call |-> Top, depth |-> 0]
    OBVIOUS
  <2>2. Top \in 1..ncalls /\ Top \in Calls /\ ncalls' = ncalls /\ Top \in accepted
    BY <1>1, <1>2, <1>5, TopOnStack DEF KernelInv, SessInv, kernel
  <2>3. rec \in Record /\ rec.type = "exit" /\ rec.sess = Top /\ rec.call = Top
    BY <2>1, <2>2, Records DEF EventTypes
  <2>4. (ring' = Append(ring, rec) /\ lost' = lost) \/ (ring' = ring /\ lost' = lost \cup {rec.sess})
    <3>1. Send(rec)
      BY <1>5, <2>1 DEF SessionExit
    <3> QED BY <3>1, Sent1
  <2>5. Owned(rec, rec.sess)'
    BY <1>1, <2>2, <2>3 DEF Owned, EventTypes
  <2>6. Emitted(rec)
    BY <1>1, <1>3, <1>5, <2>2, <2>3, <2>4, <2>5 DEF Emitted
  <2> QED BY <2>6
<1> QED BY <1>4, <1>5

LEMMA GraphEmits ==
  ASSUME KernelInv, GraphProgram
  PROVE  \/ \E rec : Emitted(rec)
         \/ /\ Quiet /\ accepted' = accepted /\ live' = live
            /\ ~conf.kprobe => \A c : ~OfGraph(Top, c)
<1>1. PICK end \in {"entry", "exit"} : Runs("graph", end)
  BY DEF GraphProgram
<1>2. UNCHANGED kernel /\ conf' = conf /\ at' = at /\ live' = live /\ accepted' = accepted
  BY DEF GraphProgram
<1>3. stack # <<>> /\ at = end /\ InTodo("graph") /\ ~InTodo("graph")'
  BY <1>1, RunsOnce DEF KernelInv, StackInv
<1>4. Top \in 1..ncalls /\ Top \in Calls /\ ncalls' = ncalls /\ OnStack(Top) /\ callee[Top] \in Graphs
  BY <1>2, <1>3, TopOnStack DEF KernelInv, TodoInv, TopFunc, kernel
<1> DEFINE g == GraphSession
<1>5. IF g.sess # NoCall
      THEN Send([type |-> IF at = "entry" THEN "graph_entry" ELSE "graph_exit",
                 sess |-> g.sess, call |-> Top, depth |-> g.depth])
      ELSE UNCHANGED <<ring, lost>>
  BY Zenon DEF GraphProgram
<1>6. g.sess # NoCall =>
        /\ ~conf.kprobe /\ g.sess \in live /\ g.sess \in accepted /\ g.sess = Nearest(Top, accepted)
        /\ g.depth = Distance(g.sess, Top) /\ Distance(g.sess, Top) <= GraphDepth
        /\ Distance(g.sess, Top) \in Nat
  BY <1>3, WalkSound
<1>7. g.sess = NoCall /\ ~conf.kprobe =>
        \/ Nearest(Top, accepted) = NoCall
        \/ ~(Distance(Nearest(Top, accepted), Top) <= GraphDepth)
  BY <1>3, WalkComplete
<1> HIDE DEF g
<1>8. CASE g.sess = NoCall
  <2>1. ~conf.kprobe => \A c : ~OfGraph(Top, c)
    <3> SUFFICES ASSUME ~conf.kprobe, NEW c, OfGraph(Top, c) PROVE FALSE
      OBVIOUS
    <3>1. c # NoCall
      BY DEF OfGraph, KernelInv, SessInv, NoCall
    <3> QED BY <1>7, <1>8, <3>1 DEF OfGraph
  <2> QED BY <1>2, <1>5, <1>8, <2>1 DEF Quiet
<1>9. CASE g.sess # NoCall
  <2>1. PICK t \in EventTypes : t = IF at = "entry" THEN "graph_entry" ELSE "graph_exit"
    BY DEF EventTypes
  <2>2. PICK rec : rec = [type |-> t, sess |-> g.sess, call |-> Top, depth |-> g.depth]
    OBVIOUS
  <2>3. g.sess \in Calls
    <3>1. g.sess \in 1..ncalls /\ ncalls \in 0..MaxCalls /\ MaxCalls \in Nat
      BY <1>6, <1>9, FgraphAssumption DEF KernelInv, StackInv, SessInv
    <3> QED BY <3>1 DEF Calls
  <2>4. rec \in Record /\ rec.type = t /\ rec.sess = g.sess /\ rec.call = Top /\ rec.depth = g.depth
    <3>1. g.depth \in Nat
      BY <1>6, <1>9
    <3> QED BY <1>4, <2>2, <2>3, <3>1, Records
  <2>5. (ring' = Append(ring, rec) /\ lost' = lost) \/ (ring' = ring /\ lost' = lost \cup {rec.sess})
    <3>1. Send(rec)
      BY <1>5, <1>9, <2>1, <2>2
    <3> QED BY <3>1, Sent1
  <2>6. OfGraph(Top, rec.sess)
    BY <1>4, <1>6, <1>9, <2>4 DEF OfGraph
  <2>7. PICK d : d = Top
    OBVIOUS
  <2>8. Grows
    BY <1>2, SameGrows, <2>5
  <2>9. OfGraph(d, rec.sess)' /\ Distance(rec.sess, d)' = Distance(rec.sess, d)
    BY <1>4, <2>6, <2>7, <2>8, OfGraphKept, GraphKept
  <2>10. Begun(d)' /\ (end = "exit" => Ended(d)')
    <3>1. Top' = Top
      BY <1>2, StackKept DEF KernelInv
    <3> QED BY <1>2, <1>3, <2>7, <3>1 DEF Begun, Ended
  <2>11. Owned(rec, rec.sess)'
    BY <1>2, <1>3, <1>4, <1>6, <1>9, <2>1, <2>4, <2>7, <2>9, <2>10 DEF Owned, EventTypes
  <2>12. Emitted(rec)
    BY <1>2, <1>3, <1>6, <1>9, <2>1, <2>4, <2>5, <2>6, <2>11 DEF Emitted
  <2> QED BY <2>12
<1> QED BY <1>8, <1>9

LEMMA InsnEmits ==
  ASSUME KernelInv, InsnProgram
  PROVE  (\E rec : Emitted(rec)) \/ (Quiet /\ accepted' = accepted /\ live' = live /\ ~GraphProgram)
<1>1. PICK popped \in BOOLEAN :
           \/ /\ InsnSession(popped) # NoCall
              /\ Send([type |-> "insn", sess |-> InsnSession(popped), call |-> Top, depth |-> 0])
           \/ InsnSession(popped) = NoCall /\ UNCHANGED <<ring, lost>>
  BY InsnSends
<1>2. /\ at = "run" /\ stack # <<>> /\ TopFunc \in InsnRoots
      /\ UNCHANGED kernel /\ live' = live /\ accepted' = accepted /\ at' = at
  BY DEF InsnProgram
<1>3. ~GraphProgram
  BY <1>2 DEF GraphProgram, Runs
<1> DEFINE s == InsnSession(popped)
<1>4. s = NoCall \/ s \in live
  BY InsnLive
<1>5. s # NoCall /\ Top \in live => s = Top
  BY <1>2, InsnOwn
<1> HIDE DEF s
<1>6. CASE s = NoCall
  <2>1. UNCHANGED <<ring, lost>>
    BY <1>1, <1>6 DEF s
  <2> QED BY <1>2, <1>3, <2>1 DEF Quiet
<1>7. CASE s # NoCall
  <2>1. PICK rec : rec = [type |-> "insn", sess |-> s, call |-> Top, depth |-> 0]
    OBVIOUS
  <2>2. Top \in 1..ncalls /\ Top \in Calls /\ OnStack(Top) /\ ncalls' = ncalls
    BY <1>2, TopOnStack DEF KernelInv, kernel
  <2>3. s \in live /\ s \in accepted /\ s \in Calls
    <3>1. s \in live /\ s \in accepted /\ s \in 1..ncalls /\ ncalls \in 0..MaxCalls /\ MaxCalls \in Nat
      BY <1>4, <1>7, FgraphAssumption DEF KernelInv, StackInv, SessInv
    <3> QED BY <3>1 DEF Calls
  <2>4. rec \in Record /\ rec.type = "insn" /\ rec.sess = s /\ rec.call = Top
    BY <2>1, <2>2, <2>3, Records DEF EventTypes
  <2>5. (ring' = Append(ring, rec) /\ lost' = lost) \/ (ring' = ring /\ lost' = lost \cup {rec.sess})
    <3>1. Send(rec)
      BY <1>1, <1>7, <2>1 DEF s
    <3> QED BY <3>1, Sent1
  <2>6. Top \in accepted => Top = s
    BY <1>2, <1>5, <1>7, <2>2 DEF KernelInv, SessInv
  <2>7. Owned(rec, rec.sess)'
    BY <1>2, <2>2, <2>3, <2>4, <2>6 DEF Owned, EventTypes
  <2>8. Emitted(rec)
    BY <1>2, <1>3, <2>3, <2>4, <2>5, <2>7 DEF Emitted
  <2> QED BY <2>8
<1> QED BY <1>6, <1>7

LEMMA Emission ==
  ASSUME KernelInv, [Next]_vars, ~Consume
  PROVE  /\ UNCHANGED reader
         /\ \/ \E rec : Emitted(rec)
            \/ /\ Quiet /\ accepted' = accepted /\ live' \subseteq live
               /\ GraphProgram /\ ~conf.kprobe => \A c : ~OfGraph(Top, c)
<1>1. ASSUME NEW f \in conf.funcs, Call(f)
      PROVE  UNCHANGED reader /\ Quiet /\ accepted' = accepted /\ live' = live /\ ~GraphProgram
  BY <1>1 DEF Call, Quiet, GraphProgram, Runs
<1>2. ASSUME Return \/ ProgramsDone \/ SessionEntryIgnored
      PROVE  UNCHANGED reader /\ Quiet /\ accepted' = accepted /\ live' = live /\ ~GraphProgram
  <2>1. UNCHANGED reader /\ Quiet /\ accepted' = accepted /\ live' = live
    BY <1>2 DEF Return, ProgramsDone, SessionEntryIgnored, Quiet
  <2>2. ~GraphProgram
    <3>1. CASE Return
      BY <3>1 DEF Return, GraphProgram, Runs
    <3>2. CASE ProgramsDone
      BY <3>2 DEF ProgramsDone, GraphProgram, Runs
    <3>3. CASE SessionEntryIgnored
      BY <3>3 DEF SessionEntryIgnored, GraphProgram, Runs
    <3> QED BY <1>2, <3>1, <3>2, <3>3
  <2> QED BY <2>1, <2>2
<1>3. CASE SessionEntry
  BY <1>3, EntryEmits DEF SessionEntry
<1>4. CASE SessionExit
  BY <1>4, ExitEmits DEF SessionExit
<1>5. CASE GraphProgram
  BY <1>5, GraphEmits DEF GraphProgram
<1>6. CASE InsnProgram
  BY <1>6, InsnEmits DEF InsnProgram
<1>7. ASSUME UNCHANGED vars
      PROVE  UNCHANGED reader /\ Quiet /\ accepted' = accepted /\ live' = live /\ ~GraphProgram
  <2>1. UNCHANGED reader /\ Quiet /\ accepted' = accepted /\ live' = live /\ todo' = todo
    BY <1>7 DEF vars, Quiet, reader
  <2>2. ~GraphProgram
    <3> SUFFICES ASSUME GraphProgram PROVE FALSE
      OBVIOUS
    <3>1. PICK end : Runs("graph", end)
      BY DEF GraphProgram
    <3>2. InTodo("graph") /\ ~InTodo("graph")'
      BY <3>1, RunsOnce DEF KernelInv
    <3> QED BY <2>1, <3>2 DEF InTodo
  <2> QED BY <2>1, <2>2
<1> QED BY <1>1, <1>2, <1>3, <1>4, <1>5, <1>6, <1>7 DEF Next

-----------------------------------------------------------------------------
(* The reader's tables while programs run.                                 *)

LEMMA Appended ==
  ASSUME ring \in Seq(Record), NEW rec \in Record, ring' = Append(ring, rec)
  PROVE  /\ Len(ring) \in Nat /\ Len(ring') = Len(ring) + 1 /\ ring'[Len(ring) + 1] = rec
         /\ Len(ring) + 1 \in 1..Len(ring') /\ ring' \in Seq(Record)
         /\ \A i \in 1..Len(ring) : i \in 1..Len(ring') /\ ring'[i] = ring[i] /\ i < Len(ring) + 1
         /\ \A i \in 1..Len(ring') : i \in 1..Len(ring) \/ i = Len(ring) + 1
<1>1. Len(ring) \in Nat /\ Len(ring') = Len(ring) + 1 /\ ring'[Len(ring) + 1] = rec /\ ring' \in Seq(Record)
  OBVIOUS
<1>2. \A i \in 1..Len(ring) : ring'[i] = ring[i]
  OBVIOUS
<1> QED BY <1>1, <1>2

LEMMA RingRec ==
  ASSUME RingInv, NEW i \in 1..Len(ring)
  PROVE  /\ ring[i] \in Record /\ Owned(ring[i], ring[i].sess)
         /\ ring[i].sess \in accepted /\ ring[i].sess \in Calls /\ ring[i].call \in Calls
         /\ ring[i].call \in 1..ncalls /\ ring[i].type \in EventTypes
<1>1. ring[i] \in Record /\ Owned(ring[i], ring[i].sess)
  BY DEF RingInv
<1> QED BY <1>1 DEF Owned, Record

LEMMA RingKept ==
  ASSUME KernelInv, RingInv, [Next]_vars, ring' = ring \/ \E rec : Emitted(rec)
  PROVE  RingInv'
<1>1. ring \in Seq(Record)
  BY DEF RingInv
<1>2. ASSUME NEW i \in 1..Len(ring), NEW l, l = ring[i] PROVE Owned(l, l.sess)'
  <2>1. Owned(l, l.sess)
    BY <1>2 DEF RingInv
  <2>2. PICK c : c = l.sess
    OBVIOUS
  <2>3. Owned(l, c)'
    BY <2>1, <2>2, OwnedKept
  <2> QED BY <2>2, <2>3
<1>3. CASE ring' = ring
  <2> SUFFICES ASSUME NEW i \in 1..Len(ring'), NEW l, l = ring'[i]
               PROVE  Owned(l, l.sess)'
    BY <1>1, <1>3 DEF RingInv
  <2> QED BY <1>2, <1>3
<1>4. ASSUME NEW rec, Emitted(rec), ring' = Append(ring, rec) PROVE RingInv'
  <2>1. rec \in Record /\ Owned(rec, rec.sess)'
    BY <1>4 DEF Emitted
  <2>2. ring' \in Seq(Record)
    BY <1>1, <1>4, <2>1, Appended
  <2> SUFFICES ASSUME NEW i \in 1..Len(ring'), NEW l, l = ring'[i]
               PROVE  Owned(l, l.sess)'
    BY <2>2 DEF RingInv
  <2>3. CASE i \in 1..Len(ring)
    <3>1. l = ring[i]
      BY <1>1, <1>4, <2>1, <2>3, Appended
    <3> QED BY <1>2, <2>3, <3>1
  <2>4. CASE i = Len(ring) + 1
    <3>1. l = rec
      BY <1>1, <1>4, <2>1, <2>4, Appended
    <3> QED BY <2>1, <3>1
  <2> QED BY <1>1, <1>4, <2>1, <2>3, <2>4, Appended
<1>5. ASSUME NEW rec, Emitted(rec) PROVE ring' = ring \/ ring' = Append(ring, rec)
  BY <1>5 DEF Emitted
<1> QED BY <1>3, <1>4, <1>5

LEMMA OrderSends ==
  ASSUME KernelInv, RingInv, OrderInv, LinesInv, UNCHANGED reader, NEW rec, Emitted(rec)
  PROVE  OrderInv'
<1> DEFINE n == Len(ring)
<1>1. ring \in Seq(Record) /\ rec \in Record /\ usess' = usess
  BY DEF RingInv, Emitted, reader
<1>2. /\ rec.type = "entry" => rec.sess \notin accepted /\ live' = live \cup {rec.sess}
      /\ rec.type # "entry" => rec.sess \in live /\ live' \subseteq live
      /\ rec.type = "exit" => rec.sess \notin live'
  BY DEF Emitted
<1>3. \A i \in 1..n : ring[i].sess \in accepted
  BY RingRec
<1>4. \A c : c \notin accepted => c \notin Calls \/ ~usess[c].held
  BY DEF LinesInv, NoSession
<1>5. \A i \in 1..n : ring[i].type = "exit" => ring[i].sess \notin live'
  BY <1>2, <1>3 DEF OrderInv
<1>6. CASE ring' = ring /\ lost' = lost \cup {rec.sess}
  <2>1. \A j \in 1..Len(ring) : ring[j].type # "entry" /\ ring[j].sess \notin lost' =>
          usess[ring[j].sess].held \/ \E i \in 1..(j - 1) : Is(i, "entry", ring[j].sess)
    BY <1>6 DEF OrderInv
  <2>2. \A c \in live' \ lost' : c \in live \ lost
    BY <1>2, <1>6
  <2>3. \A c \in live' \ lost' : usess[c].held \/ \E i \in 1..Len(ring) : Is(i, "entry", c)
    BY <2>2 DEF OrderInv
  <2> QED BY <1>1, <1>5, <1>6, <2>1, <2>3 DEF OrderInv, Is
<1>7. CASE ring' = Append(ring, rec) /\ lost' = lost
  <2>1. /\ n \in Nat /\ Len(ring') = n + 1 /\ ring'[n + 1] = rec /\ n + 1 \in 1..Len(ring')
        /\ \A i \in 1..n : i \in 1..Len(ring') /\ ring'[i] = ring[i] /\ i < n + 1
        /\ \A i \in 1..Len(ring') : i \in 1..n \/ i = n + 1
    BY <1>1, <1>7, Appended
  <2> HIDE DEF n
  <2>2. \A i, j \in 1..Len(ring') :
          ring'[i].type = "entry" /\ ring'[j].type = "entry" /\ ring'[j].sess = ring'[i].sess => i = j
    <3> TAKE i \in 1..Len(ring'), j \in 1..Len(ring')
    <3>1. CASE i \in 1..n /\ j \in 1..n
      BY <2>1, <3>1 DEF OrderInv, Is, n
    <3>2. CASE i = n + 1 \/ j = n + 1
      BY <1>2, <1>3, <2>1, <3>2
    <3> QED BY <2>1, <3>1, <3>2
  <2>3. \A i, j \in 1..Len(ring') : ring'[i].type = "exit" /\ ring'[j].sess = ring'[i].sess => j <= i
    <3> TAKE i \in 1..Len(ring'), j \in 1..Len(ring')
    <3>1. CASE i \in 1..n /\ j \in 1..n
      BY <2>1, <3>1 DEF OrderInv, n
    <3>2. CASE i = n + 1
      BY <2>1, <3>2
    <3>3. CASE i \in 1..n /\ j = n + 1
      <4>1. ring[i].type = "exit" => ring[i].sess \notin live /\ ring[i].sess \in accepted
        BY <1>3, <3>3 DEF OrderInv, n
      <4> QED BY <1>2, <2>1, <3>3, <4>1
    <3> QED BY <2>1, <3>1, <3>2, <3>3
  <2>4. \A i \in 1..Len(ring') : ring'[i].type = "exit" => ring'[i].sess \notin live'
    BY <1>2, <1>5, <2>1
  <2>5. \A i \in 1..Len(ring') : ring'[i].type = "entry" => ~usess[ring'[i].sess].held
    <3> TAKE i \in 1..Len(ring')
    <3>1. CASE i \in 1..n
      BY <2>1, <3>1 DEF OrderInv, n
    <3>2. CASE i = n + 1
      BY <1>1, <1>2, <1>4, <2>1, <3>2 DEF Record
    <3> QED BY <2>1, <3>1, <3>2
  <2>6. \A j \in 1..Len(ring') : ring'[j].type # "entry" /\ ring'[j].sess \notin lost =>
          usess[ring'[j].sess].held
          \/ \E i \in 1..(j - 1) : ring'[i].type = "entry" /\ ring'[i].sess = ring'[j].sess
    <3> TAKE j \in 1..Len(ring')
    <3> HAVE ring'[j].type # "entry" /\ ring'[j].sess \notin lost
    <3>1. CASE j \in 1..n
      <4>1. usess[ring[j].sess].held \/ \E i \in 1..(j - 1) : Is(i, "entry", ring[j].sess)
        BY <2>1, <3>1 DEF OrderInv, n
      <4>2. \A i \in 1..(j - 1) : ring'[i] = ring[i]
        BY <2>1, <3>1
      <4> QED BY <2>1, <3>1, <4>1, <4>2 DEF Is
    <3>2. CASE j = n + 1
      <4>1. rec.sess \in live \ lost
        BY <1>2, <2>1, <3>2
      <4>2. usess[rec.sess].held \/ \E i \in 1..n : Is(i, "entry", rec.sess)
        BY <4>1 DEF OrderInv, n
      <4>3. (n + 1) - 1 = n
        BY <2>1
      <4> QED BY <2>1, <3>2, <4>2, <4>3 DEF Is
    <3> QED BY <2>1, <3>1, <3>2
  <2>7. \A c \in live' \ lost : usess[c].held \/ \E i \in 1..Len(ring') : ring'[i].type = "entry" /\ ring'[i].sess = c
    <3> TAKE c \in live' \ lost
    <3>1. CASE c \in live
      <4>1. usess[c].held \/ \E i \in 1..n : Is(i, "entry", c)
        BY <3>1 DEF OrderInv, n
      <4> QED BY <2>1, <4>1 DEF Is
    <3>2. CASE c \notin live
      BY <1>2, <2>1, <3>2
    <3> QED BY <3>1, <3>2
  <2> QED BY <1>1, <1>7, <2>2, <2>3, <2>4, <2>5, <2>6, <2>7 DEF OrderInv, Is
<1> QED BY <1>6, <1>7 DEF Emitted

LEMMA OrderQuiet ==
  ASSUME RingInv, OrderInv, UNCHANGED reader, Quiet, live' \subseteq live
  PROVE  OrderInv'
<1>1. usess' = usess /\ ring' = ring /\ lost' = lost
  BY DEF reader, Quiet
<1> QED BY <1>1 DEF OrderInv, Is

LEMMA PrintedKept ==
  ASSUME KernelInv, RingInv, PrintedInv, UNCHANGED reader, accepted \subseteq accepted',
         \/ Quiet /\ live' \subseteq live
         \/ \E rec : Emitted(rec)
  PROVE  PrintedInv'
<1>1. usess' = usess /\ printed' = printed
  BY DEF reader
<1>2. CASE Quiet /\ live' \subseteq live
  BY <1>1, <1>2 DEF PrintedInv, Quiet
<1>3. ASSUME NEW rec, Emitted(rec) PROVE PrintedInv'
  <2> SUFFICES ASSUME NEW p \in printed
               PROVE  /\ p.sess \in accepted' /\ p.sess \notin live' /\ ~usess[p.sess].held
                      /\ \A i \in 1..Len(ring') : ring'[i].sess # p.sess
    BY <1>1 DEF PrintedInv
  <2>1. p.sess \in accepted /\ p.sess \notin live /\ ~usess[p.sess].held
        /\ \A i \in 1..Len(ring) : ring[i].sess # p.sess
    BY DEF PrintedInv
  <2>2. rec.sess # p.sess /\ p.sess \notin live'
    BY <1>3, <2>1 DEF Emitted
  <2>3. ring \in Seq(Record) /\ rec \in Record
    BY <1>3 DEF RingInv, Emitted
  <2>4. CASE ring' = Append(ring, rec)
    BY <2>1, <2>2, <2>3, <2>4, Appended
  <2>5. CASE ring' = ring
    BY <2>1, <2>2, <2>5
  <2> QED BY <1>3, <2>1, <2>2, <2>4, <2>5 DEF Emitted
<1> QED BY <1>2, <1>3

LEMMA OutputKept ==
  ASSUME KernelInv, [Next]_vars, NEW c, NEW lines, Output(c, lines), lost \subseteq lost'
  PROVE  Output(c, lines)'
<1> SUFFICES ASSUME NEW i \in 1..Len(lines)
             PROVE  /\ Owned(lines[i], c)'
                    /\ lines[i].type = "graph_exit" /\ c \notin lost' => lines[i].since = lines[i].call
  BY DEF Output
<1>1. PICK l : l = lines[i]
  OBVIOUS
<1>2. Owned(l, c) /\ (l.type = "graph_exit" /\ c \notin lost => l.since = l.call)
  BY <1>1 DEF Output
<1>3. Owned(l, c)'
  BY <1>2, OwnedKept
<1> QED BY <1>1, <1>2, <1>3

LEMMA LinesKept ==
  ASSUME KernelInv, LinesInv, [Next]_vars, UNCHANGED reader
  PROVE  LinesInv'
<1>1. usess' = usess /\ printed' = printed
  BY DEF reader
<1>2. accepted \subseteq accepted' /\ lost \subseteq lost'
  BY StepGrows DEF Grows
<1>3. ASSUME NEW c, NEW lines, Output(c, lines) PROVE Output(c, lines)'
  BY <1>2, <1>3, OutputKept
<1>4. \A c \in Calls : usess'[c].held => Output(c, usess[c].lines)'
  <2> SUFFICES ASSUME NEW c \in Calls, NEW lines, lines = usess'[c].lines, usess'[c].held
               PROVE  Output(c, lines)'
    OBVIOUS
  <2> QED BY <1>1, <1>3 DEF LinesInv
<1>5. \A p \in printed' : p = [sess |-> p.sess, lines |-> p.lines] /\ Output(p.sess, p.lines)'
  <2> SUFFICES ASSUME NEW p \in printed', NEW c, NEW lines, c = p.sess, lines = p.lines
               PROVE  p = [sess |-> p.sess, lines |-> p.lines] /\ Output(c, lines)'
    OBVIOUS
  <2> QED BY <1>1, <1>3 DEF LinesInv
<1>6. \A c \in Calls : usess'[c] = NoSession \/ (usess'[c] \in SessionState /\ c \in accepted')
  BY <1>1, <1>2 DEF LinesInv
<1>7. SessionState' = SessionState /\ NoSession' = NoSession
  BY DEF SessionState, NoSession, EventTypes, Calls, NoCall
<1> QED BY <1>1, <1>4, <1>5, <1>6, <1>7 DEF LinesInv

-----------------------------------------------------------------------------
(* The reader's tables as it handles a record.                             *)

LEMMA Consumed ==
  ASSUME RingInv, Consume
  PROVE  /\ UNCHANGED <<conf, kernel, at, todo, live, accepted, lost>>
         /\ 1 \in 1..Len(ring) /\ Head(ring) = ring[1] /\ ring[1] \in Record /\ Len(ring) \in Nat
         /\ ring' \in Seq(Record) /\ Len(ring') = Len(ring) - 1
         /\ \A i \in 1..Len(ring') : ring'[i] = ring[i + 1] /\ i + 1 \in 1..Len(ring) /\ i + 1 # 1
         /\ \A i \in 1..Len(ring) : i # 1 => i - 1 \in 1..Len(ring') /\ ring'[i - 1] = ring[i]
<1>1. UNCHANGED <<conf, kernel, at, todo, live, accepted, lost>> /\ ring # <<>> /\ ring' = Tail(ring)
  BY DEF Consume
<1>2. ring \in Seq(Record)
  BY DEF RingInv
<1>3. Len(ring) \in Nat \ {0} /\ Len(ring') = Len(ring) - 1 /\ ring' \in Seq(Record) /\ Head(ring) = ring[1]
  BY <1>1, <1>2
<1>4. \A i \in 1..Len(ring') : ring'[i] = ring[i + 1] /\ i + 1 \in 1..Len(ring) /\ i + 1 # 1
  BY <1>1, <1>2, <1>3
<1>5. \A i \in 1..Len(ring) : i # 1 => i - 1 \in 1..Len(ring') /\ ring'[i - 1] = ring[i]
  <2> SUFFICES ASSUME NEW i \in 1..Len(ring), i # 1
               PROVE  i - 1 \in 1..Len(ring') /\ ring'[i - 1] = ring[i]
    OBVIOUS
  <2>1. i - 1 \in 1..Len(ring') /\ (i - 1) + 1 = i
    BY <1>3
  <2> QED BY <1>4, <2>1
<1>6. 1 \in 1..Len(ring) /\ ring[1] \in Record
  BY <1>2, <1>3
<1> QED BY <1>1, <1>3, <1>4, <1>5, <1>6

Opened(u, c, rec) ==
  /\ u.held /\ u \in SessionState /\ u.lastidx = 0 /\ u.lines = <<Line(rec, NoCall)>>
  /\ u.tstamps = IF callee[c] \in GraphRoots THEN <<c>> ELSE <<>>
Graphed(u, s, rec) ==
  /\ u.held /\ u \in SessionState
  /\ u.lines = Append(s.lines, Line(rec, s.tstamps[s.lastidx + 1]))
  /\ rec.type = "graph_entry" => u.tstamps = Append(s.tstamps, rec.call) /\ u.lastidx = s.lastidx + 1
  /\ rec.type = "graph_exit" =>
       IF s.lastidx = 0 THEN u.tstamps = s.tstamps /\ u.lastidx = 0
       ELSE u.tstamps = SubSeq(s.tstamps, 1, s.lastidx) /\ u.lastidx = s.lastidx - 1
Noted(u, s, rec) ==
  /\ u.held /\ u \in SessionState
  /\ u.lines = Append(s.lines, Line(rec, rec.sess)) /\ u.tstamps = s.tstamps /\ u.lastidx = s.lastidx

LineRecord == [type : EventTypes, call : Calls, depth : Nat, since : Calls \cup {NoCall}]

LEMMA LineTyped ==
  ASSUME NEW rec \in Record, NEW since \in Calls \cup {NoCall}
  PROVE  /\ Line(rec, since) \in LineRecord /\ Line(rec, since).type = rec.type
         /\ Line(rec, since).call = rec.call /\ Line(rec, since).since = since
         /\ Line(rec, since).depth = rec.depth
BY DEF Line, Record, LineRecord

LEMMA Fields ==
  ASSUME NEW s \in SessionState
  PROVE  /\ s.held = TRUE /\ s.lines \in Seq(LineRecord) /\ s.lastidx \in Nat /\ s.tstamps \in Seq(Calls)
         /\ \A x \in Seq(LineRecord) : LET u == [s EXCEPT !.lines = x] IN
              u \in SessionState /\ u.lines = x /\ u.lastidx = s.lastidx /\ u.tstamps = s.tstamps
         /\ \A x \in Seq(Calls) : LET u == [s EXCEPT !.tstamps = x] IN
              u \in SessionState /\ u.lines = s.lines /\ u.lastidx = s.lastidx /\ u.tstamps = x
         /\ \A x \in Nat : LET u == [s EXCEPT !.lastidx = x] IN
              u \in SessionState /\ u.lines = s.lines /\ u.lastidx = x /\ u.tstamps = s.tstamps
<1> DEFINE L == Seq(LineRecord)
           T == Seq(Calls)
<1>1. SessionState = [held : {TRUE}, lines : L, lastidx : Nat, tstamps : T]
  BY DEF SessionState, LineRecord
<1> HIDE DEF L, T
<1>2. s.held = TRUE /\ s.lines \in L /\ s.lastidx \in Nat /\ s.tstamps \in T
  BY <1>1
<1>3. \A x \in L : LET u == [s EXCEPT !.lines = x] IN
              u \in SessionState /\ u.lines = x /\ u.lastidx = s.lastidx /\ u.tstamps = s.tstamps
  BY <1>1
<1>4. \A x \in T : LET u == [s EXCEPT !.tstamps = x] IN
              u \in SessionState /\ u.lines = s.lines /\ u.lastidx = s.lastidx /\ u.tstamps = x
  BY <1>1
<1>5. \A x \in Nat : LET u == [s EXCEPT !.lastidx = x] IN
              u \in SessionState /\ u.lines = s.lines /\ u.lastidx = x /\ u.tstamps = s.tstamps
  BY <1>1
<1> QED BY <1>2, <1>3, <1>4, <1>5 DEF L, T

LEMMA IsOpened ==
  ASSUME NEW c \in Calls, NEW rec \in Record
  PROVE  Opened([NewSession(c) EXCEPT !.lines = <<Line(rec, NoCall)>>], c, rec)
<1>1. NewSession(c) \in SessionState /\ NewSession(c).lastidx = 0
      /\ NewSession(c).tstamps = IF callee[c] \in GraphRoots THEN <<c>> ELSE <<>>
  BY DEF NewSession, SessionState
<1>2. PICK s \in SessionState : s = NewSession(c)
  BY <1>1
<1>3. PICK l \in LineRecord : l = Line(rec, NoCall)
  BY LineTyped
<1>4. PICK x \in Seq(LineRecord) : x = <<l>>
  <2>1. <<l>> \in Seq(LineRecord)
    OBVIOUS
  <2> QED BY <2>1
<1>5. PICK u : u = [s EXCEPT !.lines = x]
  OBVIOUS
<1>6. u \in SessionState /\ u.lines = x /\ u.lastidx = s.lastidx /\ u.tstamps = s.tstamps
  BY <1>5, Fields
<1>7. u.held = TRUE
  BY <1>6, Fields
<1> QED BY <1>1, <1>2, <1>3, <1>4, <1>5, <1>6, <1>7 DEF Opened

LEMMA IsNoted ==
  ASSUME NEW s \in SessionState, NEW rec \in Record
  PROVE  Noted([s EXCEPT !.lines = Append(@, Line(rec, rec.sess))], s, rec)
<1>1. PICK l \in LineRecord : l = Line(rec, rec.sess)
  <2>1. rec.sess \in Calls
    BY DEF Record
  <2> QED BY <2>1, LineTyped
<1>2. PICK x \in Seq(LineRecord) : x = Append(s.lines, l)
  <2>1. s.lines \in Seq(LineRecord)
    BY Fields
  <2>2. Append(s.lines, l) \in Seq(LineRecord)
    BY <2>1
  <2> QED BY <2>2
<1>3. PICK u : u = [s EXCEPT !.lines = x]
  OBVIOUS
<1>4. u \in SessionState /\ u.lines = x /\ u.lastidx = s.lastidx /\ u.tstamps = s.tstamps
  BY <1>3, Fields
<1>5. u.held = TRUE
  BY <1>4, Fields
<1> QED BY <1>1, <1>2, <1>3, <1>4, <1>5 DEF Noted

LEMMA IsGraphed ==
  ASSUME NEW s \in SessionState, NEW rec \in Record, rec.type \in {"graph_entry", "graph_exit"},
         s.lastidx + 1 <= Len(s.tstamps)
  PROVE  Graphed(GraphLine(s, rec), s, rec)
<1>1. s.lastidx \in Nat /\ s.tstamps \in Seq(Calls) /\ s.lines \in Seq(LineRecord) /\ rec.call \in Calls
      /\ Len(s.tstamps) \in Nat
  <2>1. s.lastidx \in Nat /\ s.tstamps \in Seq(Calls) /\ s.lines \in Seq(LineRecord)
    BY Fields
  <2>2. rec.call \in Calls
    BY DEF Record
  <2>3. Len(s.tstamps) \in Nat
    BY <2>1
  <2> QED BY <2>1, <2>2, <2>3
<1>2. s.tstamps[s.lastidx + 1] \in Calls
  BY <1>1
<1>3. PICK l \in LineRecord : l = Line(rec, s.tstamps[s.lastidx + 1])
  BY <1>2, LineTyped
<1>4. PICK t : t = IF rec.type = "graph_entry" THEN pushTstamp(s, rec.call) ELSE popTstamp(s)
  OBVIOUS
<1>5. /\ t \in SessionState /\ t.lines = s.lines
      /\ rec.type = "graph_entry" => t.tstamps = Append(s.tstamps, rec.call) /\ t.lastidx = s.lastidx + 1
      /\ rec.type = "graph_exit" =>
           IF s.lastidx = 0 THEN t.tstamps = s.tstamps /\ t.lastidx = 0
           ELSE t.tstamps = SubSeq(s.tstamps, 1, s.lastidx) /\ t.lastidx = s.lastidx - 1
  <2>1. CASE rec.type = "graph_entry"
    <3>1. PICK x \in Seq(Calls) : x = Append(s.tstamps, rec.call)
      <4>1. Append(s.tstamps, rec.call) \in Seq(Calls)
        BY <1>1
      <4> QED BY <4>1
    <3>2. PICK y \in Nat : y = s.lastidx + 1
      BY <1>1
    <3>3. PICK u : u = [s EXCEPT !.tstamps = x]
      OBVIOUS
    <3>4. u \in SessionState /\ u.lines = s.lines /\ u.lastidx = s.lastidx /\ u.tstamps = x
      BY <3>3, Fields
    <3>5. PICK v : v = [u EXCEPT !.lastidx = y]
      OBVIOUS
    <3>6. v \in SessionState /\ v.lines = u.lines /\ v.lastidx = y /\ v.tstamps = u.tstamps
      BY <3>4, <3>5, Fields
    <3>7. pushTstamp(s, rec.call) = v
      BY <3>1, <3>2, <3>3, <3>5 DEF pushTstamp
    <3> QED BY <1>4, <2>1, <3>1, <3>2, <3>4, <3>6, <3>7
  <2>2. CASE rec.type = "graph_exit" /\ s.lastidx = 0
    <3>1. t = s
      BY <1>4, <2>2 DEF popTstamp
    <3> QED BY <2>2, <3>1
  <2>3. CASE rec.type = "graph_exit" /\ s.lastidx # 0
    <3>1. PICK x \in Seq(Calls) : x = SubSeq(s.tstamps, 1, s.lastidx)
      <4>1. PICK z \in Seq(Calls) : z = s.tstamps
        BY <1>1
      <4>2. PICK m \in Nat : m = s.lastidx
        BY <1>1
      <4>3. m <= Len(z)
        BY <1>1, <4>1, <4>2
      <4>4. SubSeq(z, 1, m) \in Seq(Calls)
        BY <4>3
      <4> QED BY <4>1, <4>2, <4>4
    <3>2. PICK y \in Nat : y = s.lastidx - 1
      BY <1>1, <2>3
    <3>3. PICK u : u = [s EXCEPT !.tstamps = x]
      OBVIOUS
    <3>4. u \in SessionState /\ u.lines = s.lines /\ u.lastidx = s.lastidx /\ u.tstamps = x
      BY <3>3, Fields
    <3>5. PICK v : v = [u EXCEPT !.lastidx = y]
      OBVIOUS
    <3>6. v \in SessionState /\ v.lines = u.lines /\ v.lastidx = y /\ v.tstamps = u.tstamps
      BY <3>4, <3>5, Fields
    <3>7. popTstamp(s) = v
      BY <2>3, <3>1, <3>2, <3>3, <3>5 DEF popTstamp
    <3> QED BY <1>4, <2>3, <3>1, <3>2, <3>4, <3>6, <3>7
  <2> QED BY <2>1, <2>2, <2>3
<1>6. PICK x \in Seq(LineRecord) : x = Append(t.lines, l)
  <2>1. t.lines \in Seq(LineRecord)
    BY <1>1, <1>5
  <2>2. Append(t.lines, l) \in Seq(LineRecord)
    BY <2>1
  <2> QED BY <2>2
<1>7. PICK u : u = [t EXCEPT !.lines = x]
  OBVIOUS
<1>8. u \in SessionState /\ u.lines = x /\ u.lastidx = t.lastidx /\ u.tstamps = t.tstamps
  BY <1>5, <1>7, Fields
<1>9. u.held = TRUE
  BY <1>8, Fields
<1>10. GraphLine(s, rec) = u
  BY <1>3, <1>4, <1>6, <1>7 DEF GraphLine
<1> QED BY <1>3, <1>5, <1>6, <1>8, <1>9, <1>10 DEF Graphed

GraphTypes == {"graph_entry", "graph_exit"}

Handles(c, rec) ==
  \/ rec.sess # c /\ usess'[c] = usess[c]
  \/ rec.sess = c /\ rec.type = "entry" /\ Opened(usess'[c], c, rec)
  \/ rec.sess = c /\ rec.type = "exit" /\ usess[c].held /\ usess'[c] = NoSession
  \/ rec.sess = c /\ rec.type # "entry" /\ ~usess[c].held /\ usess'[c] = usess[c]
  \/ /\ rec.sess = c /\ rec.type \in GraphTypes /\ usess[c].held
     /\ usess[c].lastidx + 1 > Len(usess[c].tstamps) /\ usess'[c] = usess[c]
  \/ /\ rec.sess = c /\ rec.type \in GraphTypes /\ usess[c].held
     /\ usess[c].lastidx + 1 <= Len(usess[c].tstamps) /\ Graphed(usess'[c], usess[c], rec)
  \/ rec.sess = c /\ rec.type = "insn" /\ usess[c].held /\ Noted(usess'[c], usess[c], rec)

Prints(rec) ==
  IF rec.type = "exit" /\ usess[rec.sess].held
  THEN printed' = printed \cup
         {[sess |-> rec.sess, lines |-> Append(usess[rec.sess].lines, Line(rec, rec.sess))]}
  ELSE printed' = printed

LEMMA HeldSession ==
  ASSUME LinesInv, NEW c \in Calls, usess[c].held
  PROVE  usess[c] \in SessionState /\ c \in accepted /\ Output(c, usess[c].lines)
<1>1. usess[c] # NoSession
  BY DEF NoSession
<1> QED BY <1>1 DEF LinesInv

LEMMA Handling ==
  ASSUME RingInv, LinesInv, Consume
  PROVE  /\ DOMAIN usess' = Calls /\ Prints(ring[1])
         /\ \A c \in Calls : Handles(c, ring[1])
<1>1. PICK rec \in Record : rec = ring[1] /\ rec = Head(ring)
  BY Consumed
<1>2. rec.sess \in Calls /\ rec.type \in EventTypes
  BY DEF Record
<1>3. DOMAIN usess = Calls
  BY DEF LinesInv
<1>4. \/ HandleEntry(rec) \/ HandleExit(rec) \/ HandleOrphan(rec)
      \/ HandleGraphPanics(rec) \/ HandleGraph(rec) \/ HandleInsn(rec)
  BY <1>1 DEF Consume
<1> DEFINE P == /\ DOMAIN usess' = Calls /\ Prints(rec)
                /\ \A c \in Calls : Handles(c, rec)
<1>5. ASSUME NEW u, usess' = [usess EXCEPT ![rec.sess] = u]
      PROVE  DOMAIN usess' = Calls /\ usess'[rec.sess] = u
             /\ \A c \in Calls : c # rec.sess => usess'[c] = usess[c]
  BY <1>2, <1>3, <1>5
<1>6. ASSUME HandleEntry(rec) PROVE P
  <2>1. PICK u : u = [NewSession(rec.sess) EXCEPT !.lines = <<Line(rec, NoCall)>>]
    OBVIOUS
  <2>2. usess' = [usess EXCEPT ![rec.sess] = u] /\ printed' = printed /\ rec.type = "entry"
    BY <1>6, <2>1 DEF HandleEntry
  <2>3. Opened(u, rec.sess, rec)
    BY <1>2, <2>1, IsOpened
  <2>4. usess'[rec.sess] = u /\ DOMAIN usess' = Calls /\ \A c \in Calls : c # rec.sess => usess'[c] = usess[c]
    BY <1>5, <2>2
  <2>5. \A c \in Calls : Handles(c, rec)
    BY <2>2, <2>3, <2>4 DEF Handles
  <2> QED BY <2>2, <2>4, <2>5 DEF Prints
<1>7. ASSUME HandleExit(rec) PROVE P
  <2>1. usess' = [usess EXCEPT ![rec.sess] = NoSession] /\ rec.type = "exit" /\ usess[rec.sess].held
    BY <1>7 DEF HandleExit
  <2>2. usess'[rec.sess] = NoSession /\ DOMAIN usess' = Calls
        /\ \A c \in Calls : c # rec.sess => usess'[c] = usess[c]
    BY <1>5, <2>1
  <2>3. Prints(rec)
    BY <1>7 DEF HandleExit, Prints
  <2>4. \A c \in Calls : Handles(c, rec)
    BY <2>1, <2>2 DEF Handles
  <2> QED BY <2>2, <2>3, <2>4
<1>8. ASSUME HandleOrphan(rec) PROVE P
  <2>1. rec.type # "entry" /\ ~usess[rec.sess].held /\ usess' = usess /\ printed' = printed
    BY <1>8 DEF HandleOrphan, reader
  <2>2. \A c \in Calls : Handles(c, rec)
    BY <2>1 DEF Handles
  <2> QED BY <1>3, <2>1, <2>2 DEF Prints
<1>9. ASSUME HandleGraphPanics(rec) PROVE P
  <2>1. rec.type \in GraphTypes /\ usess[rec.sess].held /\ usess' = usess /\ printed' = printed
        /\ usess[rec.sess].lastidx + 1 > Len(usess[rec.sess].tstamps)
    BY <1>9 DEF HandleGraphPanics, GraphTypes
  <2>2. \A c \in Calls : Handles(c, rec)
    BY <2>1 DEF Handles
  <2> QED BY <1>3, <2>1, <2>2 DEF Prints, GraphTypes
<1>10. ASSUME HandleGraph(rec) PROVE P
  <2>1. PICK s : s = usess[rec.sess]
    OBVIOUS
  <2>2. PICK u : u = GraphLine(s, rec)
    OBVIOUS
  <2>3. /\ usess' = [usess EXCEPT ![rec.sess] = u] /\ printed' = printed
        /\ rec.type \in GraphTypes /\ s.held /\ s.lastidx + 1 <= Len(s.tstamps)
    BY <1>10, <2>1, <2>2 DEF HandleGraph, GraphTypes
  <2>4. s \in SessionState
    BY <1>2, <2>1, <2>3, HeldSession
  <2>5. Graphed(u, s, rec)
    BY <2>2, <2>3, <2>4, IsGraphed DEF GraphTypes
  <2>6. usess'[rec.sess] = u /\ DOMAIN usess' = Calls /\ \A c \in Calls : c # rec.sess => usess'[c] = usess[c]
    BY <1>5, <2>3
  <2>7. \A c \in Calls : Handles(c, rec)
    BY <2>1, <2>3, <2>5, <2>6 DEF Handles
  <2>8. Prints(rec)
    BY <2>3 DEF Prints, GraphTypes
  <2> QED BY <2>6, <2>7, <2>8
<1>11. ASSUME HandleInsn(rec) PROVE P
  <2>1. PICK s : s = usess[rec.sess]
    OBVIOUS
  <2>2. PICK u : u = [s EXCEPT !.lines = Append(@, Line(rec, rec.sess))]
    OBVIOUS
  <2>3. usess' = [usess EXCEPT ![rec.sess] = u] /\ printed' = printed /\ rec.type = "insn" /\ s.held
    BY <1>11, <2>1, <2>2 DEF HandleInsn
  <2>4. s \in SessionState
    BY <1>2, <2>1, <2>3, HeldSession
  <2>5. Noted(u, s, rec)
    BY <2>2, <2>4, IsNoted
  <2>6. usess'[rec.sess] = u /\ DOMAIN usess' = Calls /\ \A c \in Calls : c # rec.sess => usess'[c] = usess[c]
    BY <1>5, <2>3
  <2>7. \A c \in Calls : Handles(c, rec)
    BY <2>1, <2>3, <2>5, <2>6 DEF Handles
  <2> QED BY <2>3, <2>6, <2>7 DEF Prints
<1>12. P
  <2> HIDE DEF P
  <2> QED BY <1>4, <1>6, <1>7, <1>8, <1>9, <1>10, <1>11
<1> QED BY <1>1, <1>12

\* The kernel does not see the reader.
LEMMA ConsumeSame ==
  ASSUME KernelInv, RingInv, Consume
  PROVE  /\ \A d : (Begun(d)' <=> Begun(d)) /\ (Ended(d)' <=> Ended(d)) /\ (OnStack(d)' <=> OnStack(d))
         /\ \A c : Complete(c)' <=> Complete(c)
         /\ \A c, d : OfGraph(d, c)' <=> OfGraph(d, c)
         /\ GraphRoots' = GraphRoots /\ callee' = callee /\ ncalls' = ncalls
         /\ accepted' = accepted /\ live' = live /\ lost' = lost /\ conf' = conf
<1>1. UNCHANGED <<conf, kernel, at, todo, live, accepted, lost>>
  BY DEF Consume
<1>2. callee' = callee /\ ncalls' = ncalls /\ parents' = parents /\ stack' = stack
  BY <1>1 DEF kernel
<1>3. \A d : (Begun(d)' <=> Begun(d)) /\ (Ended(d)' <=> Ended(d)) /\ (OnStack(d)' <=> OnStack(d))
  <2>1. InTodo("graph")' <=> InTodo("graph")
    BY <1>1 DEF InTodo
  <2> QED BY <1>1, <2>1, MarksSame
<1>4. GraphRoots' = GraphRoots
  BY <1>1 DEF GraphRoots
<1>5. \A c : Complete(c)' <=> Complete(c)
  BY <1>1, <1>2, <1>4 DEF Complete
<1>6. \A c, d : OfGraph(d, c)' <=> OfGraph(d, c)
  <2> SUFFICES ASSUME NEW c, NEW d PROVE OfGraph(d, c)' <=> OfGraph(d, c)
    OBVIOUS
  <2>1. Grows
    BY <1>1, SameGrows
  <2>2. CASE d \in 1..ncalls
    BY <2>1, <2>2, OfGraphKept
  <2>3. CASE d \notin 1..ncalls
    BY <1>2, <2>3 DEF OfGraph
  <2> QED BY <2>2, <2>3
<1> QED BY <1>1, <1>2, <1>3, <1>4, <1>5, <1>6

LEMMA RingConsumed ==
  ASSUME KernelInv, RingInv, Consume
  PROVE  RingInv'
<1>1. ring' \in Seq(Record)
  BY Consumed
<1> SUFFICES ASSUME NEW i \in 1..Len(ring'), NEW l, l = ring'[i], NEW c, c = l.sess
             PROVE  Owned(l, c)'
  BY <1>1 DEF RingInv
<1>2. i + 1 \in 1..Len(ring) /\ l = ring[i + 1]
  BY Consumed
<1>3. Owned(l, c)
  BY <1>2 DEF RingInv
<1>4. [Next]_vars
  BY DEF Next
<1> QED BY <1>3, <1>4, OwnedKept

LEMMA OrderConsumed ==
  ASSUME KernelInv, RingInv, OrderInv, LinesInv, Consume
  PROVE  OrderInv'
<1>1. PICK rec : rec = ring[1]
  OBVIOUS
<1>2. /\ 1 \in 1..Len(ring) /\ Len(ring) \in Nat /\ Len(ring') = Len(ring) - 1
      /\ \A i \in 1..Len(ring') : ring'[i] = ring[i + 1] /\ i + 1 \in 1..Len(ring) /\ i + 1 # 1
      /\ \A i \in 1..Len(ring) : i # 1 => i - 1 \in 1..Len(ring') /\ ring'[i - 1] = ring[i]
  BY Consumed
<1>3. \A c \in Calls : Handles(c, rec)
  BY <1>1, Handling
<1>4. live' = live /\ lost' = lost
  BY ConsumeSame
<1>5. \A i \in 1..Len(ring) : ring[i].sess \in Calls
  BY RingRec
<1>6. \A i, j \in 1..Len(ring') :
        ring'[i].type = "entry" /\ ring'[j].type = "entry" /\ ring'[j].sess = ring'[i].sess => i = j
  <2> TAKE i \in 1..Len(ring'), j \in 1..Len(ring')
  <2>1. i + 1 \in 1..Len(ring) /\ j + 1 \in 1..Len(ring) /\ ring'[i] = ring[i + 1] /\ ring'[j] = ring[j + 1]
    BY <1>2
  <2>2. ring'[i].type = "entry" /\ ring'[j].type = "entry" /\ ring'[j].sess = ring'[i].sess => i + 1 = j + 1
    BY <2>1 DEF OrderInv, Is
  <2> QED BY <1>2, <2>2
<1>7. \A i, j \in 1..Len(ring') : ring'[i].type = "exit" /\ ring'[j].sess = ring'[i].sess => j <= i
  <2> TAKE i \in 1..Len(ring'), j \in 1..Len(ring')
  <2>1. i + 1 \in 1..Len(ring) /\ j + 1 \in 1..Len(ring) /\ ring'[i] = ring[i + 1] /\ ring'[j] = ring[j + 1]
    BY <1>2
  <2>2. ring'[i].type = "exit" /\ ring'[j].sess = ring'[i].sess => j + 1 <= i + 1
    BY <2>1 DEF OrderInv
  <2> QED BY <1>2, <2>2
<1>8. \A i \in 1..Len(ring') : ring'[i].type = "exit" => ring'[i].sess \notin live
  BY <1>2 DEF OrderInv
<1>9. \A i \in 1..Len(ring') : ring'[i].type = "entry" => ~usess'[ring'[i].sess].held
  <2> TAKE i \in 1..Len(ring')
  <2> HAVE ring'[i].type = "entry"
  <2>1. PICK c \in Calls : c = ring'[i].sess
    BY <1>2, <1>5
  <2>2. ~usess[c].held /\ ~(rec.type = "entry" /\ rec.sess = c)
    BY <1>1, <1>2, <2>1 DEF OrderInv, Is
  <2>3. NoSession.held = FALSE
    BY DEF NoSession
  <2> QED BY <1>3, <2>1, <2>2, <2>3 DEF Handles
<1>10. ASSUME NEW c \in Calls, usess[c].held, ~(rec.type = "exit" /\ rec.sess = c)
       PROVE  usess'[c].held
  BY <1>3, <1>10 DEF Handles, Opened, Graphed, Noted
<1>11. ASSUME NEW c \in Calls, rec.type = "entry", rec.sess = c
       PROVE  usess'[c].held
  <2>1. Opened(usess'[c], c, rec)
    BY <1>3, <1>11 DEF Handles, GraphTypes
  <2> QED BY <2>1 DEF Opened
<1>12. \A j \in 1..Len(ring') : ring'[j].type # "entry" /\ ring'[j].sess \notin lost =>
          usess'[ring'[j].sess].held
          \/ \E i \in 1..(j - 1) : ring'[i].type = "entry" /\ ring'[i].sess = ring'[j].sess
  <2> TAKE j \in 1..Len(ring')
  <2> HAVE ring'[j].type # "entry" /\ ring'[j].sess \notin lost
  <2>1. PICK c \in Calls : c = ring'[j].sess
    BY <1>2, <1>5
  <2>2. j + 1 \in 1..Len(ring) /\ ring[j + 1] = ring'[j]
    BY <1>2
  <2>3. usess[c].held \/ \E i \in 1..((j + 1) - 1) : Is(i, "entry", c)
    BY <2>1, <2>2 DEF OrderInv
  <2>4. CASE usess[c].held
    <3>1. ~(rec.type = "exit" /\ rec.sess = c)
      BY <1>1, <1>2, <2>1, <2>2 DEF OrderInv
    <3> QED BY <1>10, <2>1, <2>4, <3>1
  <2>5. ASSUME NEW i \in 1..j, Is(i, "entry", c)
        PROVE  usess'[c].held \/ \E k \in 1..(j - 1) : ring'[k].type = "entry" /\ ring'[k].sess = c
    <3>1. CASE i = 1
      BY <1>1, <1>11, <2>5, <3>1 DEF Is
    <3>2. CASE i # 1
      <4>1. i - 1 \in 1..(j - 1) /\ i \in 1..Len(ring)
        BY <1>2, <2>2, <3>2
      <4>2. ring'[i - 1] = ring[i]
        BY <1>2, <3>2, <4>1
      <4> QED BY <2>5, <4>1, <4>2 DEF Is
    <3> QED BY <3>1, <3>2
  <2>6. (j + 1) - 1 = j
    OBVIOUS
  <2> QED BY <2>1, <2>3, <2>4, <2>5, <2>6
<1>13. \A c \in live \ lost :
         usess'[c].held \/ \E i \in 1..Len(ring') : ring'[i].type = "entry" /\ ring'[i].sess = c
  <2> TAKE c \in live \ lost
  <2>1. c \in Calls
    <3>1. c \in 1..ncalls /\ ncalls \in 0..MaxCalls /\ MaxCalls \in Nat
      BY FgraphAssumption DEF KernelInv, StackInv, SessInv
    <3> QED BY <3>1 DEF Calls
  <2>2. usess[c].held \/ \E i \in 1..Len(ring) : Is(i, "entry", c)
    BY DEF OrderInv
  <2>3. CASE usess[c].held
    <3>1. ~(rec.type = "exit" /\ rec.sess = c)
      BY <1>1, <1>2 DEF OrderInv
    <3> QED BY <1>10, <2>1, <2>3, <3>1
  <2>4. ASSUME NEW i \in 1..Len(ring), Is(i, "entry", c)
        PROVE  usess'[c].held \/ \E k \in 1..Len(ring') : ring'[k].type = "entry" /\ ring'[k].sess = c
    <3>1. CASE i = 1
      BY <1>1, <1>11, <2>1, <2>4, <3>1 DEF Is
    <3>2. CASE i # 1
      BY <1>2, <2>4, <3>2 DEF Is
    <3> QED BY <3>1, <3>2
  <2> QED BY <2>2, <2>3, <2>4
<1> QED BY <1>4, <1>6, <1>7, <1>8, <1>9, <1>12, <1>13 DEF OrderInv, Is

LEMMA PrintedConsumed ==
  ASSUME KernelInv, RingInv, OrderInv, PrintedInv, LinesInv, Consume
  PROVE  PrintedInv'
<1>1. PICK rec : rec = ring[1]
  OBVIOUS
<1>2. /\ 1 \in 1..Len(ring) /\ Len(ring) \in Nat
      /\ \A i \in 1..Len(ring') : ring'[i] = ring[i + 1] /\ i + 1 \in 1..Len(ring) /\ i + 1 # 1
  BY Consumed
<1>3. (\A c \in Calls : Handles(c, rec)) /\ Prints(rec)
  BY <1>1, Handling
<1>4. live' = live /\ accepted' = accepted
  BY ConsumeSame
<1>5. \A c \in accepted : c \in Calls
  <2>1. accepted \subseteq 1..ncalls /\ ncalls \in 0..MaxCalls /\ MaxCalls \in Nat
    BY FgraphAssumption DEF KernelInv, StackInv, SessInv
  <2> QED BY <2>1 DEF Calls
<1> SUFFICES ASSUME NEW p \in printed'
             PROVE  /\ p.sess \in accepted /\ p.sess \notin live /\ ~usess'[p.sess].held
                    /\ \A i \in 1..Len(ring') : ring'[i].sess # p.sess
  BY <1>4 DEF PrintedInv
<1>6. CASE p \in printed
  <2>1. p.sess \in accepted /\ p.sess \notin live /\ ~usess[p.sess].held
        /\ \A i \in 1..Len(ring) : ring[i].sess # p.sess
    BY <1>6 DEF PrintedInv
  <2>2. usess'[p.sess] = usess[p.sess]
    BY <1>1, <1>2, <1>3, <1>5, <2>1 DEF Handles
  <2> QED BY <1>2, <2>1, <2>2
<1>7. CASE p \notin printed
  <2>1. rec.type = "exit" /\ usess[rec.sess].held
        /\ p = [sess |-> rec.sess, lines |-> Append(usess[rec.sess].lines, Line(rec, rec.sess))]
    BY <1>3, <1>7 DEF Prints
  <2>2. PICK c : c = rec.sess
    OBVIOUS
  <2>3. p.sess = c
    BY <2>1, <2>2
  <2>4. c \in accepted /\ c \in Calls /\ c \notin live
    BY <1>1, <1>2, <2>1, <2>2, RingRec DEF OrderInv
  <2>5. usess'[c] = NoSession
    BY <1>3, <2>1, <2>2, <2>4 DEF Handles, GraphTypes
  <2>6. \A i \in 1..Len(ring') : ring'[i].sess # c
    <3> SUFFICES ASSUME NEW i \in 1..Len(ring'), ring'[i].sess = c PROVE FALSE
      OBVIOUS
    <3>1. i + 1 <= 1
      BY <1>1, <1>2, <2>1, <2>2 DEF OrderInv
    <3> QED BY <3>1
  <2>7. NoSession.held = FALSE
    BY DEF NoSession
  <2> QED BY <2>3, <2>4, <2>5, <2>6, <2>7
<1> QED BY <1>6, <1>7

LEMMA OutputAppend ==
  ASSUME NEW c, NEW lines \in Seq(LineRecord), NEW l \in LineRecord, Output(c, lines), Owned(l, c),
         l.type = "graph_exit" /\ c \notin lost => l.since = l.call
  PROVE  Output(c, Append(lines, l))
<1>1. Len(Append(lines, l)) = Len(lines) + 1 /\ Len(lines) \in Nat
  OBVIOUS
<1>2. \A i \in 1..Len(lines) : Append(lines, l)[i] = lines[i]
  OBVIOUS
<1>3. Append(lines, l)[Len(lines) + 1] = l
  OBVIOUS
<1>4. \A i \in 1..(Len(lines) + 1) : i \in 1..Len(lines) \/ i = Len(lines) + 1
  BY <1>1
<1> QED BY <1>1, <1>2, <1>3, <1>4 DEF Output

LEMMA OwnedLine ==
  ASSUME NEW rec \in Record, NEW c, Owned(rec, c), NEW since \in Calls \cup {NoCall}
  PROVE  Owned(Line(rec, since), c)
<1>1. PICK l : l = Line(rec, since)
  OBVIOUS
<1>2. l.type = rec.type /\ l.call = rec.call /\ l.depth = rec.depth
  BY <1>1, LineTyped
<1>3. Owned(l, c)
  BY <1>2 DEF Owned
<1> QED BY <1>1, <1>3

SinceRight(rec) ==
  LET s == usess[rec.sess] IN
  rec.type = "graph_exit" /\ s.held /\ s.lastidx + 1 <= Len(s.tstamps) /\ rec.sess \notin lost =>
    s.tstamps[s.lastidx + 1] = rec.call

LEMMA LinesConsumed ==
  ASSUME KernelInv, RingInv, LinesInv, Consume, SinceRight(ring[1])
  PROVE  LinesInv'
<1>1. PICK rec \in Record : rec = ring[1]
  BY Consumed
<1>2. (\A c \in Calls : Handles(c, rec)) /\ Prints(rec) /\ DOMAIN usess' = Calls
  BY <1>1, Handling
<1>3. accepted' = accepted /\ lost' = lost
  BY ConsumeSame
<1>4. Owned(rec, rec.sess) /\ rec.sess \in accepted /\ rec.sess \in Calls /\ rec.call \in Calls
  BY <1>1, Consumed, RingRec
<1>5. \A s \in Calls \cup {NoCall} :
        Line(rec, s) \in LineRecord /\ Owned(Line(rec, s), rec.sess)
        /\ Line(rec, s).type = rec.type /\ Line(rec, s).since = s /\ Line(rec, s).call = rec.call
  BY <1>4, OwnedLine, LineTyped
<1>6. [Next]_vars
  BY DEF Next
<1>7. ASSUME NEW c, NEW lines, Output(c, lines) PROVE Output(c, lines)'
  BY <1>3, <1>6, <1>7, OutputKept
<1>8. ASSUME NEW c \in Calls, NEW u, u = usess'[c]
      PROVE  /\ u = NoSession \/ (u \in SessionState /\ c \in accepted)
             /\ u.held => Output(c, u.lines)
  <2>1. CASE u = usess[c]
    BY <1>8, <2>1 DEF LinesInv
  <2>2. CASE u = NoSession
    BY <2>2 DEF NoSession
  <2>3. CASE rec.sess = c /\ rec.type = "entry" /\ Opened(u, c, rec)
    <3>1. PICK l \in LineRecord : l = Line(rec, NoCall)
      BY <1>5
    <3>2. Owned(l, c) /\ l.type = "entry"
      BY <1>5, <2>3, <3>1
    <3>3. u \in SessionState /\ u.lines = <<l>>
      BY <2>3, <3>1 DEF Opened
    <3>4. Output(c, <<l>>)
      BY <3>2 DEF Output
    <3> QED BY <1>4, <2>3, <3>3, <3>4
  <2>4. CASE rec.sess = c /\ rec.type \in GraphTypes /\ usess[c].held
             /\ usess[c].lastidx + 1 <= Len(usess[c].tstamps) /\ Graphed(u, usess[c], rec)
    <3>1. PICK s : s = usess[c]
      OBVIOUS
    <3>2. s \in SessionState /\ Output(c, s.lines)
      BY <2>4, <3>1, HeldSession
    <3>3. s.tstamps[s.lastidx + 1] \in Calls
      <4>1. s.lastidx \in Nat /\ s.tstamps \in Seq(Calls)
        BY <3>2, Fields
      <4> QED BY <2>4, <3>1, <4>1
    <3>4. PICK l \in LineRecord : l = Line(rec, s.tstamps[s.lastidx + 1])
      BY <1>5, <3>3
    <3>5. Owned(l, c) /\ l.type = rec.type /\ l.since = s.tstamps[s.lastidx + 1] /\ l.call = rec.call
      BY <1>5, <2>4, <3>3, <3>4
    <3>6. l.type = "graph_exit" /\ c \notin lost => l.since = l.call
      BY <1>1, <2>4, <3>1, <3>5 DEF SinceRight
    <3>7. u \in SessionState /\ u.lines = Append(s.lines, l)
      BY <2>4, <3>1, <3>4 DEF Graphed
    <3>8. s.lines \in Seq(LineRecord)
      BY <3>2, Fields
    <3>9. Output(c, Append(s.lines, l))
      BY <3>2, <3>5, <3>6, <3>8, OutputAppend
    <3> QED BY <1>4, <2>4, <3>7, <3>9
  <2>5. CASE rec.sess = c /\ rec.type = "insn" /\ usess[c].held /\ Noted(u, usess[c], rec)
    <3>1. PICK s : s = usess[c]
      OBVIOUS
    <3>2. s \in SessionState /\ Output(c, s.lines)
      BY <2>5, <3>1, HeldSession
    <3>3. PICK l \in LineRecord : l = Line(rec, rec.sess)
      BY <1>4, <1>5
    <3>4. Owned(l, c) /\ l.type = "insn"
      BY <1>4, <1>5, <2>5, <3>3
    <3>5. u \in SessionState /\ u.lines = Append(s.lines, l)
      BY <2>5, <3>1, <3>3 DEF Noted
    <3>6. s.lines \in Seq(LineRecord)
      BY <3>2, Fields
    <3>7. Output(c, Append(s.lines, l))
      BY <3>2, <3>4, <3>6, OutputAppend
    <3> QED BY <1>4, <2>5, <3>5, <3>7
  <2>6. Handles(c, rec)
    BY <1>2
  <2> QED BY <1>8, <2>1, <2>2, <2>3, <2>4, <2>5, <2>6 DEF Handles
<1>9. SessionState' = SessionState /\ NoSession' = NoSession
  BY DEF SessionState, NoSession, EventTypes, Calls, NoCall
<1>10. \A c \in Calls : usess'[c] = NoSession \/ (usess'[c] \in SessionState /\ c \in accepted)
  BY <1>8
<1>11. \A c \in Calls : usess'[c].held => Output(c, usess[c].lines)'
  <2> SUFFICES ASSUME NEW c \in Calls, NEW u, u = usess'[c], u.held, NEW lines, lines = u.lines
               PROVE  Output(c, lines)'
    OBVIOUS
  <2>1. Output(c, lines)
    BY <1>8
  <2> QED BY <1>7, <2>1
<1>12. \A p \in printed' : p = [sess |-> p.sess, lines |-> p.lines] /\ Output(p.sess, p.lines)'
  <2> SUFFICES ASSUME NEW p \in printed', NEW c, NEW lines, c = p.sess, lines = p.lines
               PROVE  p = [sess |-> p.sess, lines |-> p.lines] /\ Output(c, lines)'
    OBVIOUS
  <2>1. CASE p \in printed
    BY <1>7, <2>1 DEF LinesInv
  <2>2. CASE p \notin printed
    <3>1. PICK s : s = usess[rec.sess]
      OBVIOUS
    <3>2. PICK l \in LineRecord : l = Line(rec, rec.sess)
      BY <1>4, <1>5
    <3>3. rec.type = "exit" /\ s.held /\ p = [sess |-> rec.sess, lines |-> Append(s.lines, l)]
      BY <1>2, <2>2, <3>1, <3>2 DEF Prints
    <3>4. s \in SessionState /\ Output(rec.sess, s.lines)
      BY <1>4, <3>1, <3>3, HeldSession
    <3>5. s.lines \in Seq(LineRecord)
      BY <3>4, Fields
    <3>6. Owned(l, rec.sess) /\ l.type = "exit"
      BY <1>4, <1>5, <3>2, <3>3
    <3>7. Output(rec.sess, Append(s.lines, l))
      BY <3>4, <3>5, <3>6, OutputAppend
    <3>8. c = rec.sess /\ lines = Append(s.lines, l) /\ p = [sess |-> p.sess, lines |-> p.lines]
      BY <3>3
    <3> QED BY <1>7, <3>7, <3>8
  <2> QED BY <2>1, <2>2
<1> QED BY <1>2, <1>3, <1>9, <1>10, <1>11, <1>12 DEF LinesInv

LEMMA StampConsumed ==
  ASSUME KernelInv, RingInv, LinesInv, StampInv, Consume
  PROVE  StampInv'
<1>1. PICK rec \in Record : rec = ring[1]
  BY Consumed
<1>2. \A c \in Calls : Handles(c, rec)
  BY <1>1, Handling
<1>3. GraphRoots' = GraphRoots /\ callee' = callee
  BY ConsumeSame
<1> SUFFICES ASSUME NEW c \in Calls, NEW u, u = usess'[c], u.held
             PROVE  IF callee[c] \in GraphRoots THEN Len(u.tstamps) = u.lastidx + 1
                                                ELSE u.tstamps = <<>> /\ u.lastidx = 0
  BY <1>3 DEF StampInv
<1>4. CASE u = usess[c]
  BY <1>4 DEF StampInv
<1>5. CASE Opened(u, c, rec)
  BY <1>5 DEF Opened
<1>6. CASE rec.type \in GraphTypes /\ usess[c].held
           /\ usess[c].lastidx + 1 <= Len(usess[c].tstamps) /\ Graphed(u, usess[c], rec)
  <2>1. PICK s : s = usess[c]
    OBVIOUS
  <2>2. s \in SessionState
    BY <1>6, <2>1, HeldSession
  <2>3. s.lastidx \in Nat /\ s.tstamps \in Seq(Calls) /\ rec.call \in Calls
    BY <2>2, Fields DEF Record
  <2>4. callee[c] \in GraphRoots /\ Len(s.tstamps) = s.lastidx + 1
    BY <1>6, <2>1, <2>3 DEF StampInv
  <2>5. CASE rec.type = "graph_entry"
    <3>1. u.tstamps = Append(s.tstamps, rec.call) /\ u.lastidx = s.lastidx + 1
      BY <1>6, <2>1, <2>5 DEF Graphed
    <3> QED BY <2>3, <2>4, <3>1
  <2>6. CASE rec.type = "graph_exit" /\ s.lastidx = 0
    <3>1. u.tstamps = s.tstamps /\ u.lastidx = 0
      BY <1>6, <2>1, <2>6 DEF Graphed
    <3> QED BY <2>4, <2>6, <3>1
  <2>7. CASE rec.type = "graph_exit" /\ s.lastidx # 0
    <3>1. u.tstamps = SubSeq(s.tstamps, 1, s.lastidx) /\ u.lastidx = s.lastidx - 1
      BY <1>6, <2>1, <2>7 DEF Graphed
    <3>2. Len(SubSeq(s.tstamps, 1, s.lastidx)) = s.lastidx
      BY <2>3, <2>4, <2>7
    <3> QED BY <2>3, <2>4, <3>1, <3>2
  <2> QED BY <1>6, <2>5, <2>6, <2>7 DEF GraphTypes
<1>7. CASE usess[c].held /\ Noted(u, usess[c], rec)
  BY <1>7 DEF Noted, StampInv
<1>8. CASE u = NoSession
  BY <1>8 DEF NoSession
<1> QED BY <1>2, <1>4, <1>5, <1>6, <1>7, <1>8 DEF Handles

-----------------------------------------------------------------------------
(* The nesting of a session's graph events while programs run.             *)

LEMMA StampKept ==
  ASSUME KernelInv, LinesInv, StampInv, [Next]_vars, UNCHANGED reader
  PROVE  StampInv'
<1>1. Grows
  BY StepGrows
<1>2. usess' = usess
  BY DEF reader
<1> SUFFICES ASSUME NEW c \in Calls, usess[c].held
             PROVE  IF callee'[c] \in GraphRoots' THEN Len(usess[c].tstamps) = usess[c].lastidx + 1
                                                  ELSE usess[c].tstamps = <<>> /\ usess[c].lastidx = 0
  BY <1>2 DEF StampInv
<1>3. c \in 1..ncalls
  BY HeldSession DEF KernelInv, SessInv
<1>4. callee'[c] = callee[c] /\ GraphRoots' = GraphRoots
  BY <1>1, <1>3, GraphKept
<1> QED BY <1>4 DEF StampInv

\* What is known of a call that a record of the graph of c, or a timestamp, is of.
LEMMA EntersOf ==
  ASSUME RingInv, NEW c, NEW d, NEW i \in 1..Len(ring)
  PROVE  /\ Enters(i, c, d) => OfGraph(d, c) /\ Begun(d) /\ d \in 1..ncalls /\ d \in Calls
         /\ Exits(i, c, d) => OfGraph(d, c) /\ Ended(d) /\ d \in 1..ncalls /\ d \in Calls
<1>1. Owned(ring[i], ring[i].sess) /\ ring[i].call \in Calls /\ ring[i].call \in 1..ncalls
  BY RingRec
<1>2. PICK l, s : l = ring[i] /\ s = l.sess
  OBVIOUS
<1>3. Owned(l, s)
  BY <1>1, <1>2
<1>4. PICK x : x = l.call
  OBVIOUS
<1>5. Enters(i, c, d) \/ Exits(i, c, d) => s = c /\ x = d
  BY <1>2, <1>4 DEF Enters, Exits, Is
<1>6. Enters(i, c, d) => OfGraph(x, s) /\ Begun(x)
  BY <1>2, <1>3, <1>4 DEF Owned, Enters, Is
<1>7. Exits(i, c, d) => OfGraph(x, s) /\ Ended(x)
  BY <1>2, <1>3, <1>4 DEF Owned, Exits, Is
<1> QED BY <1>1, <1>2, <1>4, <1>5, <1>6, <1>7

\* Either the ring buffer gets a graph event of the top call for session c, or
\* nothing of the graph of c happens.
GraphSent(c, rec) ==
  /\ GraphProgram /\ ring' = Append(ring, rec) /\ rec \in Record
  /\ rec.sess = c /\ rec.call = Top /\ OfGraph(Top, c)
  /\ rec.type = IF at = "entry" THEN "graph_entry" ELSE "graph_exit"
RingSame(c) ==
  \A t \in GraphTypes, d \in Calls :
    /\ \A i \in 1..Len(ring) : i \in 1..Len(ring')
    /\ \A i \in 1..Len(ring) : (Is(i, t, c) /\ ring[i].call = d)' <=> Is(i, t, c) /\ ring[i].call = d
    /\ \A i \in 1..Len(ring') : (Is(i, t, c) /\ ring[i].call = d)' => i \in 1..Len(ring)
MarksOf(c) ==
  \A d \in Calls :
    /\ OfGraph(d, c)' /\ d \notin 1..ncalls => ~Begun(d)' /\ ~Ended(d)'
    /\ d \in 1..ncalls => (OfGraph(d, c)' <=> OfGraph(d, c))
    /\ d \in 1..ncalls /\ OfGraph(d, c) => (Begun(d)' <=> Begun(d)) /\ (Ended(d)' <=> Ended(d))

LEMMA GraphSends ==
  ASSUME KernelInv, RingInv, [Next]_vars, ~Consume, NEW c \in accepted, c \notin lost',
         ~conf.kprobe
  PROVE  (RingSame(c) /\ MarksOf(c)) \/ \E rec : GraphSent(c, rec)
<1>1. /\ ring \in Seq(Record)
      /\ \/ \E rec : Emitted(rec)
         \/ /\ Quiet /\ accepted' = accepted /\ live' \subseteq live
            /\ GraphProgram /\ ~conf.kprobe => \A b : ~OfGraph(Top, b)
  BY Emission DEF RingInv
<1>2. Grows
  BY StepGrows
<1>3. ASSUME GraphProgram => ~OfGraph(Top, c)
      PROVE  MarksOf(c)
  <2> SUFFICES ASSUME NEW d \in Calls
               PROVE  /\ OfGraph(d, c)' /\ d \notin 1..ncalls => ~Begun(d)' /\ ~Ended(d)'
                      /\ d \in 1..ncalls => (OfGraph(d, c)' <=> OfGraph(d, c))
                      /\ d \in 1..ncalls /\ OfGraph(d, c) =>
                           (Begun(d)' <=> Begun(d)) /\ (Ended(d)' <=> Ended(d))
    BY DEF MarksOf
  <2>1. d \in 1..ncalls => (OfGraph(d, c)' <=> OfGraph(d, c))
    BY <1>2, OfGraphKept
  <2>2. OfGraph(d, c) => ~GraphProgram \/ d # Top
    BY <1>3
  <2>3. d \in 1..ncalls /\ OfGraph(d, c) => (Begun(d)' <=> Begun(d)) /\ (Ended(d)' <=> Ended(d))
    BY <2>2, Marks DEF OfGraph
  <2>4. ASSUME OfGraph(d, c)', d \notin 1..ncalls PROVE ~Begun(d)' /\ ~Ended(d)'
    <3>1. Graphs' = Graphs
      BY <1>2 DEF Grows, Graphs
    <3>2. d \in 1..ncalls' /\ callee'[d] \in Graphs
      BY <2>4, <3>1 DEF OfGraph
    <3> QED BY <2>4, <3>2, NewCall
  <2> QED BY <2>1, <2>3, <2>4
<1>4. ASSUME ring' = ring PROVE RingSame(c)
  BY <1>4 DEF RingSame, Is
<1>5. ASSUME NEW rec \in Record, ring' = Append(ring, rec), rec.sess = c => rec.type \notin GraphTypes
      PROVE  RingSame(c)
  <2>1. /\ Len(ring) + 1 \in 1..Len(ring') /\ ring'[Len(ring) + 1] = rec
        /\ \A i \in 1..Len(ring) : i \in 1..Len(ring') /\ ring'[i] = ring[i]
        /\ \A i \in 1..Len(ring') : i \in 1..Len(ring) \/ i = Len(ring) + 1
    BY <1>1, <1>5, Appended
  <2> QED BY <1>5, <2>1 DEF RingSame, Is
<1>6. CASE Quiet
  <2>1. CASE GraphProgram /\ OfGraph(Top, c)
    <3>1. PICK rec : Emitted(rec)
      BY <1>1, <2>1
    <3>2. rec.type \in {"graph_entry", "graph_exit"} /\ OfGraph(Top, rec.sess)
      BY <2>1, <3>1 DEF Emitted
    <3>3. rec.sess = c
      BY <2>1, <3>2 DEF OfGraph
    <3>4. ring' = Append(ring, rec) /\ rec \in Record
      BY <1>6, <3>1, <3>3 DEF Emitted
    <3>5. Len(ring') = Len(ring) + 1 /\ Len(ring) \in Nat
      BY <1>1, <3>4, Appended
    <3> QED BY <1>6, <3>5 DEF Quiet
  <2>2. CASE ~(GraphProgram /\ OfGraph(Top, c))
    BY <1>3, <1>4, <1>6, <2>2 DEF Quiet
  <2> QED BY <2>1, <2>2
<1>7. ASSUME NEW rec, Emitted(rec)
      PROVE  (RingSame(c) /\ MarksOf(c)) \/ \E r : GraphSent(c, r)
  <2>1. rec \in Record /\ rec.type \in EventTypes
    BY <1>7 DEF Emitted, Record
  <2>2. CASE rec.type \in GraphTypes /\ rec.sess = c
    <3>1. GraphProgram /\ rec.call = Top /\ OfGraph(Top, c) /\ ring' = Append(ring, rec)
          /\ (rec.type = "graph_entry" <=> at = "entry")
      BY <1>7, <2>2 DEF Emitted, GraphTypes
    <3>2. GraphSent(c, rec)
      BY <2>1, <2>2, <3>1 DEF GraphSent, GraphTypes
    <3> QED BY <3>2
  <2>3. CASE ~(rec.type \in GraphTypes /\ rec.sess = c)
    <3>1. GraphProgram => ~OfGraph(Top, c)
      <4> SUFFICES ASSUME GraphProgram, OfGraph(Top, c) PROVE FALSE
        OBVIOUS
      <4>1. rec.type \in GraphTypes /\ OfGraph(Top, rec.sess)
        BY <1>7 DEF Emitted, GraphTypes
      <4> QED BY <2>3, <4>1 DEF OfGraph
    <3>2. RingSame(c)
      BY <1>4, <1>5, <1>7, <2>1, <2>3 DEF Emitted
    <3> QED BY <1>3, <3>1, <3>2
  <2> QED BY <2>2, <2>3
<1> QED BY <1>1, <1>6, <1>7

LEMMA InOrderSame ==
  ASSUME NEW c \in Calls, KernelInv, RingInv, InOrder(c), UNCHANGED reader, RingSame(c), MarksOf(c)
  PROVE  InOrder(c)'
<1>1. usess' = usess
  BY DEF reader
<1>2. \A d : Open(c, d)' <=> Open(c, d)
  BY <1>1 DEF Open
<1>3. \A d \in Calls :
        /\ \A i \in 1..Len(ring) : i \in 1..Len(ring') /\ (Enters(i, c, d)' <=> Enters(i, c, d))
                                   /\ (Exits(i, c, d)' <=> Exits(i, c, d))
        /\ \A i \in 1..Len(ring') : Enters(i, c, d)' \/ Exits(i, c, d)' => i \in 1..Len(ring)
  BY DEF RingSame, GraphTypes, Enters, Exits, Is
<1>4. \A d \in Calls : Open(c, d) => OfGraph(d, c)
  BY DEF InOrder, OpenOf
<1>5. \A d : OfGraph(d, c) => d \in 1..ncalls
  BY DEF OfGraph
<1>6. \A d \in Calls : \A i \in 1..Len(ring) : Enters(i, c, d) => OfGraph(d, c)
  BY EntersOf
<1>7. OpenOf(c)'
  <2>1. \A d \in Calls : Open(c, d) => OfGraph(d, c)' /\ Begun(d)'
    BY <1>4, <1>5 DEF InOrder, OpenOf, MarksOf
  <2> QED BY <1>1, <1>2, <2>1 DEF InOrder, OpenOf
<1>8. EnterOf(c)'
  <2>1. \A d, e \in Calls : \A j \in 1..Len(ring') : Open(c, d) /\ Enters(j, c, e)' => d < e
    BY <1>3 DEF InOrder, EnterOf
  <2>2. \A d, e \in Calls : \A i, j \in 1..Len(ring') :
           i < j /\ Enters(i, c, d)' /\ Enters(j, c, e)' => d < e
    BY <1>3 DEF InOrder, EnterOf
  <2>3. \A d \in Calls : OfGraph(d, c)' /\ Begun(d)' /\ ~Ended(d)' =>
           Open(c, d) \/ \E i \in 1..Len(ring') : Enters(i, c, d)'
    <3> SUFFICES ASSUME NEW d \in Calls, OfGraph(d, c)', Begun(d)', ~Ended(d)'
                 PROVE  Open(c, d) \/ \E i \in 1..Len(ring') : Enters(i, c, d)'
      OBVIOUS
    <3>1. OfGraph(d, c) /\ Begun(d) /\ ~Ended(d)
      BY DEF MarksOf
    <3>2. Open(c, d) \/ \E i \in 1..Len(ring) : Enters(i, c, d)
      BY <3>1 DEF InOrder, EnterOf
    <3> QED BY <1>3, <3>2
  <2> QED BY <1>2, <2>1, <2>2, <2>3 DEF EnterOf
<1>9. ExitOf(c)'
  <2>1. \A d \in Calls : \A i, j \in 1..Len(ring') : Exits(i, c, d)' /\ Exits(j, c, d)' => i = j
    BY <1>3 DEF InOrder, ExitOf
  <2>2. \A d \in Calls : \A j \in 1..Len(ring') : Exits(j, c, d)' =>
           Open(c, d) \/ \E i \in 1..(j - 1) : Enters(i, c, d)'
    <3> SUFFICES ASSUME NEW d \in Calls, NEW j \in 1..Len(ring'), Exits(j, c, d)'
                 PROVE  Open(c, d) \/ \E i \in 1..(j - 1) : Enters(i, c, d)'
      OBVIOUS
    <3>1. j \in 1..Len(ring) /\ Exits(j, c, d)
      BY <1>3
    <3>2. Open(c, d) \/ \E i \in 1..(j - 1) : Enters(i, c, d)
      BY <3>1 DEF InOrder, ExitOf
    <3>3. \A i \in 1..(j - 1) : i \in 1..Len(ring)
      BY <3>1
    <3> QED BY <1>3, <3>2, <3>3
  <2>3. \A d \in Calls : Open(c, d) /\ Ended(d)' => \E j \in 1..Len(ring') : Exits(j, c, d)'
    <3> SUFFICES ASSUME NEW d \in Calls, Open(c, d), Ended(d)'
                 PROVE  \E j \in 1..Len(ring') : Exits(j, c, d)'
      OBVIOUS
    <3>1. Ended(d)
      BY <1>4, <1>5 DEF MarksOf
    <3>2. \E j \in 1..Len(ring) : Exits(j, c, d)
      BY <3>1 DEF InOrder, ExitOf
    <3> QED BY <1>3, <3>2
  <2>4. \A d \in Calls : \A i \in 1..Len(ring') : Enters(i, c, d)' /\ Ended(d)' =>
           \E j \in (i + 1)..Len(ring') : Exits(j, c, d)'
    <3> SUFFICES ASSUME NEW d \in Calls, NEW i \in 1..Len(ring'), Enters(i, c, d)', Ended(d)'
                 PROVE  \E j \in (i + 1)..Len(ring') : Exits(j, c, d)'
      OBVIOUS
    <3>1. i \in 1..Len(ring) /\ Enters(i, c, d)
      BY <1>3
    <3>2. Ended(d)
      BY <1>5, <1>6, <3>1 DEF MarksOf
    <3>3. PICK j \in (i + 1)..Len(ring) : Exits(j, c, d)
      BY <3>1, <3>2 DEF InOrder, ExitOf
    <3>4. j \in 1..Len(ring)
      BY <3>1
    <3>5. j \in 1..Len(ring') /\ Exits(j, c, d)'
      BY <1>3, <3>3, <3>4
    <3> QED BY <3>5
  <2> QED BY <1>2, <2>1, <2>2, <2>3, <2>4 DEF ExitOf
<1>10. NestOf(c)'
  <2> SUFFICES ASSUME NEW d \in Calls, NEW e \in Calls, NEW j \in 1..Len(ring'), Exits(j, c, d)', d < e
               PROVE  /\ Open(c, e) => \E m \in 1..(j - 1) : Exits(m, c, e)'
                      /\ \A i \in 1..(j - 1) : Enters(i, c, e)' => \E m \in 1..(j - 1) : Exits(m, c, e)'
    BY <1>2 DEF NestOf
  <2>1. j \in 1..Len(ring) /\ Exits(j, c, d)
    BY <1>3
  <2>2. \A i \in 1..(j - 1) : i \in 1..Len(ring)
    BY <2>1
  <2>3. /\ Open(c, e) => \E m \in 1..(j - 1) : Exits(m, c, e)
        /\ \A i \in 1..(j - 1) : Enters(i, c, e) => \E m \in 1..(j - 1) : Exits(m, c, e)
    BY <2>1 DEF InOrder, NestOf
  <2> QED BY <1>3, <2>2, <2>3
<1> QED BY <1>7, <1>8, <1>9, <1>10 DEF InOrder

\* The ring buffer with one more graph event of session c.
LEMMA GraphSentRing ==
  ASSUME RingInv, NEW c, NEW rec, GraphSent(c, rec)
  PROVE  LET n == Len(ring) IN
         /\ n \in Nat /\ Len(ring') = n + 1
         /\ \A i \in 1..n : i \in 1..(n + 1) /\ i < n + 1
         /\ \A i \in 1..(n + 1) : i \in 1..n \/ i = n + 1
         /\ \A d \in Calls : \A i \in 1..n : (Enters(i, c, d)' <=> Enters(i, c, d))
                                             /\ (Exits(i, c, d)' <=> Exits(i, c, d))
         /\ \A d \in Calls : \A k : k = n + 1 =>
              /\ Enters(k, c, d)' <=> at = "entry" /\ d = Top
              /\ Exits(k, c, d)' <=> at # "entry" /\ d = Top
<1> DEFINE n == Len(ring)
<1>1. ring \in Seq(Record) /\ rec \in Record /\ ring' = Append(ring, rec)
  BY DEF RingInv, GraphSent
<1>2. n \in Nat /\ Len(ring') = n + 1 /\ ring'[n + 1] = rec
  BY <1>1, Appended
<1>3. \A i \in 1..n : ring'[i] = ring[i]
  BY <1>1, Appended
<1> HIDE DEF n
<1>4. \A d \in Calls : \A i \in 1..n : (Enters(i, c, d)' <=> Enters(i, c, d))
                                       /\ (Exits(i, c, d)' <=> Exits(i, c, d))
  BY <1>3 DEF Enters, Exits, Is
<1>5. \A d \in Calls : \A k : k = n + 1 =>
        /\ Enters(k, c, d)' <=> at = "entry" /\ d = Top
        /\ Exits(k, c, d)' <=> at # "entry" /\ d = Top
  BY <1>2 DEF Enters, Exits, Is, GraphSent
<1>6. /\ \A i \in 1..n : i \in 1..(n + 1) /\ i < n + 1
      /\ \A i \in 1..(n + 1) : i \in 1..n \/ i = n + 1
  BY <1>2
<1> QED BY <1>2, <1>4, <1>5, <1>6 DEF n

\* The calls of the graph as the graph program of the top call runs.
LEMMA GraphSentMarks ==
  ASSUME KernelInv, [Next]_vars, NEW c, NEW rec, GraphSent(c, rec)
  PROVE  /\ ncalls' = ncalls /\ at \in {"entry", "exit"} /\ Top \in Calls /\ Top \in 1..ncalls
         /\ \A d : OfGraph(d, c)' <=> OfGraph(d, c)
         /\ \A d : OfGraph(d, c) => d \in 1..ncalls
         /\ \A d : OfGraph(d, c) /\ d # Top => (Begun(d)' <=> Begun(d)) /\ (Ended(d)' <=> Ended(d))
         /\ Begun(Top) <=> at # "entry"
         /\ ~Ended(Top)
         /\ \A d : d = Top => Begun(d)' /\ (Ended(d)' <=> at # "entry")
         /\ at = "entry" => \A d \in 1..ncalls : d <= Top
         /\ \A d : d > Top => Ended(d)
<1>1. PICK end \in {"entry", "exit"} : Runs("graph", end)
  BY DEF GraphSent, GraphProgram
<1>2. UNCHANGED kernel /\ conf' = conf /\ at' = at /\ accepted' = accepted /\ lost \subseteq lost' /\ GraphProgram
  BY StepGrows DEF GraphSent, GraphProgram, Grows
<1>3. stack # <<>> /\ at = end /\ InTodo("graph") /\ ~InTodo("graph")'
  BY <1>1, RunsOnce DEF KernelInv, StackInv
<1>4. Top \in 1..ncalls /\ Top \in Calls /\ OnStack(Top) /\ ncalls' = ncalls /\ ncalls \in Nat
      /\ \A i \in 1..Len(stack) : stack[i] <= Top
  BY <1>2, <1>3, TopOnStack DEF KernelInv, StackInv, kernel
<1>5. Grows
  BY <1>2, SameGrows
<1>6. \A d : OfGraph(d, c) => d \in 1..ncalls /\ callee[d] \in Graphs
  BY DEF OfGraph
<1>7. \A d : OfGraph(d, c)' <=> OfGraph(d, c)
  <2> SUFFICES ASSUME NEW d PROVE OfGraph(d, c)' <=> OfGraph(d, c)
    OBVIOUS
  <2>1. OfGraph(d, c)' => d \in 1..ncalls
    BY <1>4 DEF OfGraph
  <2>2. CASE d \in 1..ncalls
    BY <1>5, <2>2, OfGraphKept
  <2>3. CASE d \notin 1..ncalls
    BY <1>6, <2>1, <2>3
  <2> QED BY <2>2, <2>3
<1>8. \A d : OfGraph(d, c) /\ d # Top => (Begun(d)' <=> Begun(d)) /\ (Ended(d)' <=> Ended(d))
  BY <1>6, Marks
<1>9. (Begun(Top) <=> at # "entry") /\ ~Ended(Top)
  BY <1>1, <1>3, <1>4 DEF Begun, Ended
<1>10. \A d : d = Top => Begun(d)' /\ (Ended(d)' <=> at # "entry")
  <2> SUFFICES ASSUME NEW d, d = Top PROVE Begun(d)' /\ (Ended(d)' <=> at # "entry")
    OBVIOUS
  <2>1. Top' = Top /\ (OnStack(d)' <=> OnStack(d))
    BY <1>2, StackKept DEF KernelInv
  <2> QED BY <1>1, <1>2, <1>3, <1>4, <2>1 DEF Begun, Ended
<1>11. at = "entry" => \A d \in 1..ncalls : d <= Top
  BY <1>4 DEF KernelInv, StackInv
<1>12. \A d : d > Top => Ended(d)
  <2>1. \A d : OnStack(d) => d \in Nat /\ d <= Top
    BY <1>4, Heights DEF OnStack, KernelInv, Height
  <2>2. Top \in Nat
    BY <1>4
  <2> QED BY <2>1, <2>2 DEF Ended
<1> QED BY <1>1, <1>3, <1>4, <1>6, <1>7, <1>8, <1>9, <1>10, <1>11, <1>12

LEMMA InOrderEnters ==
  ASSUME NEW c \in Calls, NEW rec, KernelInv, RingInv, InOrder(c), UNCHANGED reader, [Next]_vars,
         GraphSent(c, rec), at = "entry"
  PROVE  InOrder(c)'
<1> DEFINE n == Len(ring)
<1>1. usess' = usess
  BY DEF reader
<1>2. \A d : Open(c, d)' <=> Open(c, d)
  BY <1>1 DEF Open
<1>3. /\ n \in Nat /\ Len(ring') = n + 1
      /\ \A i \in 1..n : i \in 1..(n + 1) /\ i < n + 1
      /\ \A i \in 1..(n + 1) : i \in 1..n \/ i = n + 1
      /\ \A d \in Calls : \A i \in 1..n : (Enters(i, c, d)' <=> Enters(i, c, d))
                                          /\ (Exits(i, c, d)' <=> Exits(i, c, d))
      /\ \A d \in Calls : \A k : k = n + 1 => (Enters(k, c, d)' <=> d = Top) /\ ~Exits(k, c, d)'
  BY GraphSentRing
<1>4. /\ Top \in Calls /\ Top \in 1..ncalls /\ \A d \in 1..ncalls : d <= Top
      /\ \A d : OfGraph(d, c)' <=> OfGraph(d, c)
      /\ \A d : OfGraph(d, c) => d \in 1..ncalls
      /\ \A d : OfGraph(d, c) /\ d # Top => (Begun(d)' <=> Begun(d)) /\ (Ended(d)' <=> Ended(d))
      /\ ~Begun(Top) /\ ~Ended(Top) /\ \A d : d = Top => ~Ended(d)'
  BY GraphSentMarks
<1>5. \A d \in Calls : Open(c, d) => OfGraph(d, c) /\ d # Top /\ d < Top
  <2>1. \A d \in Calls : Open(c, d) => OfGraph(d, c) /\ Begun(d)
    BY DEF InOrder, OpenOf
  <2> QED BY <1>4, <2>1 DEF Calls
<1>6. \A d \in Calls : \A i \in 1..n : Enters(i, c, d) => OfGraph(d, c) /\ d # Top /\ d < Top
  <2>1. \A d \in Calls : \A i \in 1..n : Enters(i, c, d) => OfGraph(d, c) /\ Begun(d)
    BY EntersOf
  <2> QED BY <1>4, <2>1 DEF Calls
<1>7. \A d \in Calls : \A i \in 1..n : Exits(i, c, d) => d # Top
  BY <1>4, EntersOf
<1> HIDE DEF n
<1>8. OpenOf(c)'
  <2>1. \A d \in Calls : Open(c, d) => OfGraph(d, c)' /\ Begun(d)'
    BY <1>4, <1>5 DEF InOrder, OpenOf
  <2> QED BY <1>1, <1>2, <2>1 DEF InOrder, OpenOf
<1>9. EnterOf(c)'
  <2>1. \A d, e \in Calls : \A j \in 1..(n + 1) : Open(c, d) /\ Enters(j, c, e)' => d < e
    <3>1. \A d, e \in Calls : \A j \in 1..n : Open(c, d) /\ Enters(j, c, e) => d < e
      BY DEF InOrder, EnterOf, n
    <3> QED BY <1>3, <1>5, <3>1
  <2>2. \A d, e \in Calls : \A i, j \in 1..(n + 1) :
           i < j /\ Enters(i, c, d)' /\ Enters(j, c, e)' => d < e
    <3> TAKE d, e \in Calls
    <3> TAKE i, j \in 1..(n + 1)
    <3> HAVE i < j /\ Enters(i, c, d)' /\ Enters(j, c, e)'
    <3>1. i \in 1..n
      BY <1>3
    <3>2. CASE j \in 1..n
      BY <1>3, <3>1, <3>2 DEF InOrder, EnterOf, n
    <3>3. CASE j = n + 1
      BY <1>3, <1>6, <3>1, <3>3
    <3> QED BY <1>3, <3>2, <3>3
  <2>3. \A d \in Calls : OfGraph(d, c)' /\ Begun(d)' /\ ~Ended(d)' =>
           Open(c, d) \/ \E i \in 1..(n + 1) : Enters(i, c, d)'
    <3> SUFFICES ASSUME NEW d \in Calls, OfGraph(d, c)', Begun(d)', ~Ended(d)', d # Top
                 PROVE  Open(c, d) \/ \E i \in 1..(n + 1) : Enters(i, c, d)'
      BY <1>3
    <3>1. OfGraph(d, c) /\ Begun(d) /\ ~Ended(d)
      BY <1>4
    <3>2. Open(c, d) \/ \E i \in 1..n : Enters(i, c, d)
      BY <3>1 DEF InOrder, EnterOf, n
    <3> QED BY <1>3, <3>2
  <2> QED BY <1>2, <1>3, <2>1, <2>2, <2>3 DEF EnterOf
<1>10. ExitOf(c)'
  <2>1. \A d \in Calls : \A i, j \in 1..(n + 1) : Exits(i, c, d)' /\ Exits(j, c, d)' => i = j
    <3>1. \A d \in Calls : \A i, j \in 1..n : Exits(i, c, d) /\ Exits(j, c, d) => i = j
      BY DEF InOrder, ExitOf, n
    <3> QED BY <1>3, <3>1
  <2>2. \A d \in Calls : \A j \in 1..(n + 1) : Exits(j, c, d)' =>
           Open(c, d) \/ \E i \in 1..(j - 1) : Enters(i, c, d)'
    <3> SUFFICES ASSUME NEW d \in Calls, NEW j \in 1..n, Exits(j, c, d)
                 PROVE  Open(c, d) \/ \E i \in 1..(j - 1) : Enters(i, c, d)'
      BY <1>3
    <3>1. Open(c, d) \/ \E i \in 1..(j - 1) : Enters(i, c, d)
      BY DEF InOrder, ExitOf, n
    <3>2. \A i \in 1..(j - 1) : i \in 1..n
      BY <1>3
    <3> QED BY <1>3, <3>1, <3>2
  <2>3. \A d \in Calls : Open(c, d) /\ Ended(d)' => \E j \in 1..(n + 1) : Exits(j, c, d)'
    <3> SUFFICES ASSUME NEW d \in Calls, Open(c, d), Ended(d)'
                 PROVE  \E j \in 1..(n + 1) : Exits(j, c, d)'
      OBVIOUS
    <3>1. Ended(d)
      BY <1>4, <1>5
    <3>2. \E j \in 1..n : Exits(j, c, d)
      BY <3>1 DEF InOrder, ExitOf, n
    <3> QED BY <1>3, <3>2
  <2>4. \A d \in Calls : \A i \in 1..(n + 1) : Enters(i, c, d)' /\ Ended(d)' =>
           \E j \in (i + 1)..(n + 1) : Exits(j, c, d)'
    <3> SUFFICES ASSUME NEW d \in Calls, NEW i \in 1..(n + 1), Enters(i, c, d)', Ended(d)'
                 PROVE  \E j \in (i + 1)..(n + 1) : Exits(j, c, d)'
      OBVIOUS
    <3>1. d # Top
      BY <1>4
    <3>2. i \in 1..n /\ Enters(i, c, d)
      BY <1>3, <3>1
    <3>3. Ended(d)
      BY <1>4, <1>6, <3>2
    <3>4. PICK j \in (i + 1)..n : Exits(j, c, d)
      BY <3>2, <3>3 DEF InOrder, ExitOf, n
    <3>5. j \in 1..n /\ j \in (i + 1)..(n + 1)
      BY <1>3, <3>2
    <3> QED BY <1>3, <3>4, <3>5
  <2> QED BY <1>2, <1>3, <2>1, <2>2, <2>3, <2>4 DEF ExitOf
<1>11. NestOf(c)'
  <2> SUFFICES ASSUME NEW d \in Calls, NEW e \in Calls, NEW j \in 1..(n + 1), Exits(j, c, d)', d < e
               PROVE  /\ Open(c, e) => \E m \in 1..(j - 1) : Exits(m, c, e)'
                      /\ \A i \in 1..(j - 1) : Enters(i, c, e)' => \E m \in 1..(j - 1) : Exits(m, c, e)'
    BY <1>2, <1>3 DEF NestOf
  <2>1. j \in 1..n /\ Exits(j, c, d)
    BY <1>3
  <2>2. \A i \in 1..(j - 1) : i \in 1..n
    BY <1>3, <2>1
  <2>3. /\ Open(c, e) => \E m \in 1..(j - 1) : Exits(m, c, e)
        /\ \A i \in 1..(j - 1) : Enters(i, c, e) => \E m \in 1..(j - 1) : Exits(m, c, e)
    BY <2>1 DEF InOrder, NestOf, n
  <2> QED BY <1>3, <2>2, <2>3
<1> QED BY <1>8, <1>9, <1>10, <1>11 DEF InOrder

LEMMA InOrderExits ==
  ASSUME NEW c \in Calls, NEW rec, KernelInv, RingInv, InOrder(c), UNCHANGED reader, [Next]_vars,
         GraphSent(c, rec), at # "entry"
  PROVE  InOrder(c)'
<1> DEFINE n == Len(ring)
<1>1. usess' = usess
  BY DEF reader
<1>2. \A d : Open(c, d)' <=> Open(c, d)
  BY <1>1 DEF Open
<1>3. /\ n \in Nat /\ Len(ring') = n + 1
      /\ \A i \in 1..n : i \in 1..(n + 1) /\ i < n + 1
      /\ \A i \in 1..(n + 1) : i \in 1..n \/ i = n + 1
      /\ \A d \in Calls : \A i \in 1..n : (Enters(i, c, d)' <=> Enters(i, c, d))
                                          /\ (Exits(i, c, d)' <=> Exits(i, c, d))
      /\ \A d \in Calls : \A k : k = n + 1 => ~Enters(k, c, d)' /\ (Exits(k, c, d)' <=> d = Top)
  BY GraphSentRing
<1>4. /\ Top \in Calls /\ OfGraph(Top, c)
      /\ \A d : OfGraph(d, c)' <=> OfGraph(d, c)
      /\ \A d : OfGraph(d, c) /\ d # Top => (Begun(d)' <=> Begun(d)) /\ (Ended(d)' <=> Ended(d))
      /\ Begun(Top) /\ ~Ended(Top) /\ \A d : d = Top => Begun(d)' /\ Ended(d)'
      /\ \A d : d > Top => Ended(d)
  <2>1. OfGraph(Top, c)
    BY DEF GraphSent
  <2> QED BY <2>1, GraphSentMarks
<1>5. \A d \in Calls : Open(c, d) => OfGraph(d, c)
  BY DEF InOrder, OpenOf
<1>6. \A d \in Calls : \A i \in 1..n : Enters(i, c, d) => OfGraph(d, c)
  BY EntersOf
<1>7. \A d \in Calls : \A i \in 1..n : Exits(i, c, d) => d # Top
  BY <1>4, EntersOf
<1> HIDE DEF n
<1>8. OpenOf(c)'
  <2>1. \A d \in Calls : Open(c, d) => OfGraph(d, c)' /\ Begun(d)'
    BY <1>4, <1>5 DEF InOrder, OpenOf
  <2> QED BY <1>1, <1>2, <2>1 DEF InOrder, OpenOf
<1>9. EnterOf(c)'
  <2>1. \A d, e \in Calls : \A j \in 1..(n + 1) : Open(c, d) /\ Enters(j, c, e)' => d < e
    <3>1. \A d, e \in Calls : \A j \in 1..n : Open(c, d) /\ Enters(j, c, e) => d < e
      BY DEF InOrder, EnterOf, n
    <3> QED BY <1>3, <3>1
  <2>2. \A d, e \in Calls : \A i, j \in 1..(n + 1) :
           i < j /\ Enters(i, c, d)' /\ Enters(j, c, e)' => d < e
    <3>1. \A d, e \in Calls : \A i, j \in 1..n :
             i < j /\ Enters(i, c, d) /\ Enters(j, c, e) => d < e
      BY DEF InOrder, EnterOf, n
    <3> QED BY <1>3, <3>1
  <2>3. \A d \in Calls : OfGraph(d, c)' /\ Begun(d)' /\ ~Ended(d)' =>
           Open(c, d) \/ \E i \in 1..(n + 1) : Enters(i, c, d)'
    <3> SUFFICES ASSUME NEW d \in Calls, OfGraph(d, c)', Begun(d)', ~Ended(d)'
                 PROVE  Open(c, d) \/ \E i \in 1..(n + 1) : Enters(i, c, d)'
      OBVIOUS
    <3>1. OfGraph(d, c) /\ Begun(d) /\ ~Ended(d)
      BY <1>4
    <3>2. Open(c, d) \/ \E i \in 1..n : Enters(i, c, d)
      BY <3>1 DEF InOrder, EnterOf, n
    <3> QED BY <1>3, <3>2
  <2> QED BY <1>2, <1>3, <2>1, <2>2, <2>3 DEF EnterOf
<1>10. ExitOf(c)'
  <2>1. \A d \in Calls : \A i, j \in 1..(n + 1) : Exits(i, c, d)' /\ Exits(j, c, d)' => i = j
    <3>1. \A d \in Calls : \A i, j \in 1..n : Exits(i, c, d) /\ Exits(j, c, d) => i = j
      BY DEF InOrder, ExitOf, n
    <3> QED BY <1>3, <1>7, <3>1
  <2>2. \A d \in Calls : \A j \in 1..(n + 1) : Exits(j, c, d)' =>
           Open(c, d) \/ \E i \in 1..(j - 1) : Enters(i, c, d)'
    <3> SUFFICES ASSUME NEW d \in Calls, NEW j \in 1..(n + 1), Exits(j, c, d)'
                 PROVE  Open(c, d) \/ \E i \in 1..(j - 1) : Enters(i, c, d)'
      OBVIOUS
    <3>1. \A i \in 1..(j - 1) : i \in 1..n
      BY <1>3
    <3>2. CASE j \in 1..n
      <4>1. Open(c, d) \/ \E i \in 1..(j - 1) : Enters(i, c, d)
        BY <1>3, <3>2 DEF InOrder, ExitOf, n
      <4> QED BY <1>3, <3>1, <4>1
    <3>3. CASE j = n + 1
      <4>1. d = Top
        BY <1>3, <3>3
      <4>2. Open(c, d) \/ \E i \in 1..n : Enters(i, c, d)
        BY <1>4, <4>1 DEF InOrder, EnterOf, n
      <4>3. j - 1 = n
        BY <1>3, <3>3
      <4> QED BY <1>3, <4>2, <4>3
    <3> QED BY <1>3, <3>2, <3>3
  <2>3. \A d \in Calls : Open(c, d) /\ Ended(d)' => \E j \in 1..(n + 1) : Exits(j, c, d)'
    <3> SUFFICES ASSUME NEW d \in Calls, Open(c, d), Ended(d)', d # Top
                 PROVE  \E j \in 1..(n + 1) : Exits(j, c, d)'
      BY <1>3
    <3>1. Ended(d)
      BY <1>4, <1>5
    <3>2. \E j \in 1..n : Exits(j, c, d)
      BY <3>1 DEF InOrder, ExitOf, n
    <3> QED BY <1>3, <3>2
  <2>4. \A d \in Calls : \A i \in 1..(n + 1) : Enters(i, c, d)' /\ Ended(d)' =>
           \E j \in (i + 1)..(n + 1) : Exits(j, c, d)'
    <3> SUFFICES ASSUME NEW d \in Calls, NEW i \in 1..n, Enters(i, c, d), Ended(d)'
                 PROVE  \E j \in (i + 1)..(n + 1) : Exits(j, c, d)'
      BY <1>3
    <3>1. n + 1 \in (i + 1)..(n + 1)
      BY <1>3
    <3>2. CASE d = Top
      BY <1>3, <3>1, <3>2
    <3>3. CASE d # Top
      <4>1. Ended(d)
        BY <1>4, <1>6, <3>3
      <4>2. PICK j \in (i + 1)..n : Exits(j, c, d)
        BY <4>1 DEF InOrder, ExitOf, n
      <4>3. j \in 1..n /\ j \in (i + 1)..(n + 1)
        BY <1>3
      <4> QED BY <1>3, <4>2, <4>3
    <3> QED BY <3>2, <3>3
  <2> QED BY <1>2, <1>3, <2>1, <2>2, <2>3, <2>4 DEF ExitOf
<1>11. NestOf(c)'
  <2> SUFFICES ASSUME NEW d \in Calls, NEW e \in Calls, NEW j \in 1..(n + 1), Exits(j, c, d)', d < e
               PROVE  /\ Open(c, e) => \E m \in 1..(j - 1) : Exits(m, c, e)'
                      /\ \A i \in 1..(j - 1) : Enters(i, c, e)' => \E m \in 1..(j - 1) : Exits(m, c, e)'
    BY <1>2, <1>3 DEF NestOf
  <2>1. \A i \in 1..(j - 1) : i \in 1..n
    BY <1>3
  <2>2. CASE j \in 1..n
    <3>1. /\ Open(c, e) => \E m \in 1..(j - 1) : Exits(m, c, e)
          /\ \A i \in 1..(j - 1) : Enters(i, c, e) => \E m \in 1..(j - 1) : Exits(m, c, e)
      BY <1>3, <2>2 DEF InOrder, NestOf, n
    <3> QED BY <1>3, <2>1, <3>1
  <2>3. CASE j = n + 1
    <3>1. j - 1 = n
      BY <1>3, <2>3
    <3>2. Ended(e)
      BY <1>3, <1>4, <2>3 DEF Calls
    <3>3. Open(c, e) => \E m \in 1..n : Exits(m, c, e)
      BY <3>2 DEF InOrder, ExitOf, n
    <3>4. \A i \in 1..n : Enters(i, c, e) => \E m \in 1..n : Exits(m, c, e)
      <4> SUFFICES ASSUME NEW i \in 1..n, Enters(i, c, e) PROVE \E m \in 1..n : Exits(m, c, e)
        OBVIOUS
      <4>1. PICK m \in (i + 1)..n : Exits(m, c, e)
        BY <3>2 DEF InOrder, ExitOf, n
      <4>2. m \in 1..n
        BY <1>3
      <4> QED BY <4>1, <4>2
    <3> QED BY <1>3, <3>1, <3>3, <3>4
  <2> QED BY <1>3, <2>2, <2>3
<1> QED BY <1>8, <1>9, <1>10, <1>11 DEF InOrder

LEMMA NestKept ==
  ASSUME KernelInv, RingInv, OrderInv, LinesInv, NestInv, [Next]_vars, ~Consume
  PROVE  NestInv'
<1>1. UNCHANGED reader
  BY Emission
<1>2. Grows
  BY StepGrows
<1> SUFFICES ASSUME NEW c \in Calls, Complete(c)'
             PROVE  InOrder(c)'
  BY DEF NestInv, Calls
<1>3. c \in accepted' /\ c \notin lost' /\ ~conf.kprobe /\ callee'[c] \in GraphRoots'
  BY <1>2 DEF Complete, Grows
<1>4. CASE c \in accepted
  <2>1. c \in 1..ncalls
    BY <1>4 DEF KernelInv, SessInv
  <2>2. Complete(c)
    BY <1>2, <1>3, <1>4, <2>1, GraphKept DEF Complete, Grows
  <2>3. InOrder(c)
    BY <2>2 DEF NestInv
  <2>4. CASE RingSame(c) /\ MarksOf(c)
    BY <1>1, <2>3, <2>4, InOrderSame
  <2>5. ASSUME NEW rec, GraphSent(c, rec) PROVE InOrder(c)'
    BY <1>1, <2>3, <2>5, InOrderEnters, InOrderExits
  <2> QED BY <1>3, <1>4, <2>4, <2>5, GraphSends
<1>5. CASE c \notin accepted
  <2>1. usess' = usess /\ ~usess[c].held
    BY <1>1, <1>5, HeldSession DEF reader
  <2>2. \A i \in 1..Len(ring') : ring'[i].sess = c => ring'[i].type = "entry"
    <3>1. \A i \in 1..Len(ring) : ring[i].sess # c
      BY <1>5, RingRec
    <3>2. PICK rec : Emitted(rec)
      BY <1>3, <1>5, Emission
    <3>3. rec.sess = c => rec.type = "entry"
      BY <1>5, <3>2 DEF Emitted, KernelInv, SessInv
    <3>4. rec \in Record /\ (ring' = Append(ring, rec) \/ ring' = ring) /\ ring \in Seq(Record)
      BY <3>2 DEF Emitted, RingInv
    <3>5. CASE ring' = ring
      BY <3>1, <3>5
    <3>6. CASE ring' = Append(ring, rec)
      BY <3>1, <3>3, <3>4, <3>6, Appended
    <3> QED BY <3>4, <3>5, <3>6
  <2>3. \A d : ~OfGraph(d, c)'
    <3> SUFFICES ASSUME NEW d, OfGraph(d, c)' PROVE FALSE
      OBVIOUS
    <3>1. c = ncalls /\ ncalls' = ncalls
      BY <1>2, <1>3, <1>5 DEF Grows
    <3>2. d \in 1..ncalls
      BY <3>1 DEF OfGraph
    <3>3. OfGraph(d, c)
      BY <1>2, <3>2, OfGraphKept
    <3> QED BY <1>5, <3>3 DEF OfGraph
  <2>4. \A d : ~Open(c, d)'
    BY <2>1 DEF Open
  <2>5. \A d : \A i \in 1..Len(ring') : ~Enters(i, c, d)' /\ ~Exits(i, c, d)'
    BY <2>2 DEF Enters, Exits, Is
  <2>6. OpenOf(c)'
    BY <2>1, <2>4 DEF OpenOf
  <2>7. EnterOf(c)'
    BY <2>3, <2>4, <2>5 DEF EnterOf
  <2>8. ExitOf(c)' /\ NestOf(c)'
    BY <2>4, <2>5 DEF ExitOf, NestOf
  <2> QED BY <2>6, <2>7, <2>8 DEF InOrder
<1> QED BY <1>4, <1>5

-----------------------------------------------------------------------------
(* The nesting of a session's graph events as the reader handles a record. *)

LEMMA Shifted ==
  ASSUME RingInv, Consume, NEW c
  PROVE  LET n == Len(ring) IN
         /\ n \in Nat /\ Len(ring') = n - 1 /\ 1 \in 1..n
         /\ \A i \in 1..(n - 1) : i + 1 \in 1..n /\ i + 1 # 1
         /\ \A i \in 1..n : i # 1 => i - 1 \in 1..(n - 1) /\ (i - 1) + 1 = i
         /\ \A d \in Calls, i \in 1..(n - 1) : \A k : k = i + 1 =>
              (Enters(i, c, d)' <=> Enters(k, c, d)) /\ (Exits(i, c, d)' <=> Exits(k, c, d))
<1>1. /\ Len(ring) \in Nat /\ Len(ring') = Len(ring) - 1 /\ 1 \in 1..Len(ring)
      /\ \A i \in 1..Len(ring') : ring'[i] = ring[i + 1] /\ i + 1 \in 1..Len(ring) /\ i + 1 # 1
      /\ \A i \in 1..Len(ring) : i # 1 => i - 1 \in 1..Len(ring')
  BY Consumed
<1>2. \A d \in Calls, i \in 1..Len(ring') : \A k : k = i + 1 =>
              (Enters(i, c, d)' <=> Enters(k, c, d)) /\ (Exits(i, c, d)' <=> Exits(k, c, d))
  BY <1>1 DEF Enters, Exits, Is
<1>3. \A i \in 1..Len(ring) : (i - 1) + 1 = i
  BY <1>1
<1> QED BY <1>1, <1>2, <1>3

\* Timestamps in order, and the calls they are of.
Rising(u) ==
  u.held => \A k, l \in 2..Len(u.tstamps) : k < l => u.tstamps[k] < u.tstamps[l]

LEMMA InOrderShift ==
  ASSUME NEW c \in Calls, KernelInv, RingInv, InOrder(c), Consume, Rising(usess'[c]),
         \A d \in Calls : Open(c, d)' <=> Open(c, d),
         \A d \in Calls : ~Enters(1, c, d) /\ ~Exits(1, c, d)
  PROVE  InOrder(c)'
<1> DEFINE n == Len(ring)
<1>1. /\ n \in Nat /\ Len(ring') = n - 1 /\ 1 \in 1..n
      /\ \A i \in 1..(n - 1) : i + 1 \in 1..n /\ i + 1 # 1
      /\ \A i \in 1..n : i # 1 => i - 1 \in 1..(n - 1) /\ (i - 1) + 1 = i
      /\ \A d \in Calls, i \in 1..(n - 1) : \A k : k = i + 1 =>
           (Enters(i, c, d)' <=> Enters(k, c, d)) /\ (Exits(i, c, d)' <=> Exits(k, c, d))
  BY Shifted
<1>2. /\ \A d : (Begun(d)' <=> Begun(d)) /\ (Ended(d)' <=> Ended(d))
      /\ \A d : OfGraph(d, c)' <=> OfGraph(d, c)
  BY ConsumeSame
<1> HIDE DEF n
<1>3. OpenOf(c)'
  <2>1. \A d \in Calls : Open(c, d)' => OfGraph(d, c)' /\ Begun(d)'
    BY <1>2 DEF InOrder, OpenOf
  <2> QED BY <2>1 DEF OpenOf, Rising
<1>4. EnterOf(c)'
  <2>1. \A d, e \in Calls : \A j \in 1..(n - 1) : Open(c, d) /\ Enters(j, c, e)' => d < e
    <3>1. \A d, e \in Calls : \A j \in 1..n : Open(c, d) /\ Enters(j, c, e) => d < e
      BY DEF InOrder, EnterOf, n
    <3> QED BY <1>1, <3>1
  <2>2. \A d, e \in Calls : \A i, j \in 1..(n - 1) :
           i < j /\ Enters(i, c, d)' /\ Enters(j, c, e)' => d < e
    <3> TAKE d, e \in Calls
    <3> TAKE i, j \in 1..(n - 1)
    <3>1. i < j => i + 1 < j + 1
      BY <1>1
    <3> QED BY <1>1, <3>1 DEF InOrder, EnterOf, n
  <2>3. \A d \in Calls : OfGraph(d, c)' /\ Begun(d)' /\ ~Ended(d)' =>
           Open(c, d) \/ \E i \in 1..(n - 1) : Enters(i, c, d)'
    <3> SUFFICES ASSUME NEW d \in Calls, OfGraph(d, c), Begun(d), ~Ended(d)
                 PROVE  Open(c, d) \/ \E i \in 1..(n - 1) : Enters(i, c, d)'
      BY <1>2
    <3>1. Open(c, d) \/ \E i \in 1..n : Enters(i, c, d)
      BY DEF InOrder, EnterOf, n
    <3> QED BY <1>1, <3>1
  <2> QED BY <1>1, <2>1, <2>2, <2>3 DEF EnterOf
<1>5. ExitOf(c)'
  <2>1. \A d \in Calls : \A i, j \in 1..(n - 1) : Exits(i, c, d)' /\ Exits(j, c, d)' => i = j
    <3> TAKE d \in Calls
    <3> TAKE i, j \in 1..(n - 1)
    <3>1. i + 1 = j + 1 => i = j
      BY <1>1
    <3> QED BY <1>1, <3>1 DEF InOrder, ExitOf, n
  <2>2. \A d \in Calls : \A j \in 1..(n - 1) : Exits(j, c, d)' =>
           Open(c, d) \/ \E i \in 1..(j - 1) : Enters(i, c, d)'
    <3> SUFFICES ASSUME NEW d \in Calls, NEW j \in 1..(n - 1), Exits(j, c, d)'
                 PROVE  Open(c, d) \/ \E i \in 1..(j - 1) : Enters(i, c, d)'
      OBVIOUS
    <3>1. Open(c, d) \/ \E i \in 1..((j + 1) - 1) : Enters(i, c, d)
      BY <1>1 DEF InOrder, ExitOf, n
    <3>2. ASSUME NEW i \in 1..((j + 1) - 1), Enters(i, c, d)
          PROVE  \E k \in 1..(j - 1) : Enters(k, c, d)'
      <4>1. i # 1 /\ i \in 1..n
        BY <1>1, <3>2
      <4>2. i - 1 \in 1..(j - 1) /\ i - 1 \in 1..(n - 1) /\ (i - 1) + 1 = i
        BY <1>1, <4>1
      <4> QED BY <1>1, <3>2, <4>2
    <3> QED BY <3>1, <3>2
  <2>3. \A d \in Calls : Open(c, d) /\ Ended(d)' => \E j \in 1..(n - 1) : Exits(j, c, d)'
    <3> SUFFICES ASSUME NEW d \in Calls, Open(c, d), Ended(d)
                 PROVE  \E j \in 1..(n - 1) : Exits(j, c, d)'
      BY <1>2
    <3>1. \E j \in 1..n : Exits(j, c, d)
      BY DEF InOrder, ExitOf, n
    <3> QED BY <1>1, <3>1
  <2>4. \A d \in Calls : \A i \in 1..(n - 1) : Enters(i, c, d)' /\ Ended(d)' =>
           \E j \in (i + 1)..(n - 1) : Exits(j, c, d)'
    <3> SUFFICES ASSUME NEW d \in Calls, NEW i \in 1..(n - 1), Enters(i, c, d)', Ended(d)
                 PROVE  \E j \in (i + 1)..(n - 1) : Exits(j, c, d)'
      BY <1>2
    <3>1. PICK j \in ((i + 1) + 1)..n : Exits(j, c, d)
      BY <1>1 DEF InOrder, ExitOf, n
    <3>2. j \in 1..n /\ j # 1 /\ j - 1 \in (i + 1)..(n - 1)
      BY <1>1
    <3> QED BY <1>1, <3>1, <3>2
  <2> QED BY <1>1, <2>1, <2>2, <2>3, <2>4 DEF ExitOf
<1>6. NestOf(c)'
  <2> SUFFICES ASSUME NEW d \in Calls, NEW e \in Calls, NEW j \in 1..(n - 1), Exits(j, c, d)', d < e
               PROVE  /\ Open(c, e) => \E m \in 1..(j - 1) : Exits(m, c, e)'
                      /\ \A i \in 1..(j - 1) : Enters(i, c, e)' => \E m \in 1..(j - 1) : Exits(m, c, e)'
    BY <1>1 DEF NestOf
  <2>1. /\ Open(c, e) => \E m \in 1..((j + 1) - 1) : Exits(m, c, e)
        /\ \A i \in 1..((j + 1) - 1) : Enters(i, c, e) => \E m \in 1..((j + 1) - 1) : Exits(m, c, e)
    BY <1>1 DEF InOrder, NestOf, n
  <2>2. ASSUME NEW m \in 1..((j + 1) - 1), Exits(m, c, e)
        PROVE  \E k \in 1..(j - 1) : Exits(k, c, e)'
    <3>1. m # 1 /\ m \in 1..n
      BY <1>1, <2>2
    <3>2. m - 1 \in 1..(j - 1) /\ m - 1 \in 1..(n - 1) /\ (m - 1) + 1 = m
      BY <1>1, <3>1
    <3> QED BY <1>1, <2>2, <3>2
  <2>3. \A i \in 1..(j - 1) : i \in 1..(n - 1) /\ i + 1 \in 1..((j + 1) - 1)
    BY <1>1
  <2> QED BY <1>1, <2>1, <2>2, <2>3
<1> QED BY <1>3, <1>4, <1>5, <1>6 DEF InOrder

\* The reader handles an entry: its timestamp is the new top.
LEMMA InOrderPush ==
  ASSUME NEW c \in Calls, NEW x \in Calls, KernelInv, RingInv, InOrder(c), Consume, Rising(usess'[c]),
         \A d \in Calls : Open(c, d)' <=> Open(c, d) \/ d = x,
         \A d \in Calls : (Enters(1, c, d) <=> d = x) /\ ~Exits(1, c, d)
  PROVE  InOrder(c)'
<1> DEFINE n == Len(ring)
<1>1. /\ n \in Nat /\ Len(ring') = n - 1 /\ 1 \in 1..n
      /\ \A i \in 1..(n - 1) : i + 1 \in 1..n /\ i + 1 # 1
      /\ \A i \in 1..n : i # 1 => i - 1 \in 1..(n - 1) /\ (i - 1) + 1 = i
      /\ \A d \in Calls, i \in 1..(n - 1) : \A k : k = i + 1 =>
           (Enters(i, c, d)' <=> Enters(k, c, d)) /\ (Exits(i, c, d)' <=> Exits(k, c, d))
  BY Shifted
<1>2. /\ \A d : (Begun(d)' <=> Begun(d)) /\ (Ended(d)' <=> Ended(d))
      /\ \A d : OfGraph(d, c)' <=> OfGraph(d, c)
  BY ConsumeSame
<1>3. OfGraph(x, c) /\ Begun(x)
  BY <1>1, EntersOf
<1> HIDE DEF n
<1>4. OpenOf(c)'
  <2>1. \A d \in Calls : Open(c, d)' => OfGraph(d, c)' /\ Begun(d)'
    BY <1>2, <1>3 DEF InOrder, OpenOf
  <2> QED BY <2>1 DEF OpenOf, Rising
<1>5. EnterOf(c)'
  <2>1. \A d, e \in Calls : \A j \in 1..(n - 1) : Open(c, d)' /\ Enters(j, c, e)' => d < e
    <3> TAKE d, e \in Calls
    <3> TAKE j \in 1..(n - 1)
    <3> HAVE Open(c, d)' /\ Enters(j, c, e)'
    <3>1. Enters(j + 1, c, e) /\ j + 1 \in 1..n /\ 1 < j + 1
      BY <1>1
    <3>2. CASE Open(c, d)
      BY <3>1, <3>2 DEF InOrder, EnterOf, n
    <3>3. CASE d = x
      BY <1>1, <3>1, <3>3 DEF InOrder, EnterOf, n
    <3> QED BY <3>2, <3>3
  <2>2. \A d, e \in Calls : \A i, j \in 1..(n - 1) :
           i < j /\ Enters(i, c, d)' /\ Enters(j, c, e)' => d < e
    <3> TAKE d, e \in Calls
    <3> TAKE i, j \in 1..(n - 1)
    <3>1. i < j => i + 1 < j + 1
      BY <1>1
    <3> QED BY <1>1, <3>1 DEF InOrder, EnterOf, n
  <2>3. \A d \in Calls : OfGraph(d, c)' /\ Begun(d)' /\ ~Ended(d)' =>
           Open(c, d)' \/ \E i \in 1..(n - 1) : Enters(i, c, d)'
    <3> SUFFICES ASSUME NEW d \in Calls, OfGraph(d, c), Begun(d), ~Ended(d)
                 PROVE  Open(c, d)' \/ \E i \in 1..(n - 1) : Enters(i, c, d)'
      BY <1>2
    <3>1. Open(c, d) \/ \E i \in 1..n : Enters(i, c, d)
      BY DEF InOrder, EnterOf, n
    <3> QED BY <1>1, <3>1
  <2> QED BY <1>1, <2>1, <2>2, <2>3 DEF EnterOf
<1>6. ExitOf(c)'
  <2>1. \A d \in Calls : \A i, j \in 1..(n - 1) : Exits(i, c, d)' /\ Exits(j, c, d)' => i = j
    <3> TAKE d \in Calls
    <3> TAKE i, j \in 1..(n - 1)
    <3>1. i + 1 = j + 1 => i = j
      BY <1>1
    <3> QED BY <1>1, <3>1 DEF InOrder, ExitOf, n
  <2>2. \A d \in Calls : \A j \in 1..(n - 1) : Exits(j, c, d)' =>
           Open(c, d)' \/ \E i \in 1..(j - 1) : Enters(i, c, d)'
    <3> SUFFICES ASSUME NEW d \in Calls, NEW j \in 1..(n - 1), Exits(j, c, d)'
                 PROVE  Open(c, d)' \/ \E i \in 1..(j - 1) : Enters(i, c, d)'
      OBVIOUS
    <3>1. Open(c, d) \/ \E i \in 1..((j + 1) - 1) : Enters(i, c, d)
      BY <1>1 DEF InOrder, ExitOf, n
    <3>2. ASSUME NEW i \in 1..((j + 1) - 1), Enters(i, c, d)
          PROVE  Open(c, d)' \/ \E k \in 1..(j - 1) : Enters(k, c, d)'
      <4>1. CASE i = 1
        BY <3>2, <4>1
      <4>2. CASE i # 1
        <5>1. i - 1 \in 1..(j - 1) /\ i - 1 \in 1..(n - 1) /\ (i - 1) + 1 = i
          BY <1>1, <4>2
        <5> QED BY <1>1, <3>2, <5>1
      <4> QED BY <4>1, <4>2
    <3> QED BY <3>1, <3>2
  <2>3. \A d \in Calls : Open(c, d)' /\ Ended(d)' => \E j \in 1..(n - 1) : Exits(j, c, d)'
    <3> SUFFICES ASSUME NEW d \in Calls, Open(c, d)', Ended(d)
                 PROVE  \E j \in 1..(n - 1) : Exits(j, c, d)'
      BY <1>2
    <3>1. \E j \in 1..n : Exits(j, c, d)
      <4>1. CASE Open(c, d)
        BY <4>1 DEF InOrder, ExitOf, n
      <4>2. CASE d = x
        <5>1. PICK j \in (1 + 1)..n : Exits(j, c, d)
          BY <1>1, <4>2 DEF InOrder, ExitOf, n
        <5>2. j \in 1..n
          BY <1>1
        <5> QED BY <5>1, <5>2
      <4> QED BY <4>1, <4>2
    <3> QED BY <1>1, <3>1
  <2>4. \A d \in Calls : \A i \in 1..(n - 1) : Enters(i, c, d)' /\ Ended(d)' =>
           \E j \in (i + 1)..(n - 1) : Exits(j, c, d)'
    <3> SUFFICES ASSUME NEW d \in Calls, NEW i \in 1..(n - 1), Enters(i, c, d)', Ended(d)
                 PROVE  \E j \in (i + 1)..(n - 1) : Exits(j, c, d)'
      BY <1>2
    <3>1. PICK j \in ((i + 1) + 1)..n : Exits(j, c, d)
      BY <1>1 DEF InOrder, ExitOf, n
    <3>2. j \in 1..n /\ j # 1 /\ j - 1 \in (i + 1)..(n - 1)
      BY <1>1
    <3> QED BY <1>1, <3>1, <3>2
  <2> QED BY <1>1, <2>1, <2>2, <2>3, <2>4 DEF ExitOf
<1>7. NestOf(c)'
  <2> SUFFICES ASSUME NEW d \in Calls, NEW e \in Calls, NEW j \in 1..(n - 1), Exits(j, c, d)', d < e
               PROVE  /\ Open(c, e)' => \E m \in 1..(j - 1) : Exits(m, c, e)'
                      /\ \A i \in 1..(j - 1) : Enters(i, c, e)' => \E m \in 1..(j - 1) : Exits(m, c, e)'
    BY <1>1 DEF NestOf
  <2>1. /\ Open(c, e) => \E m \in 1..((j + 1) - 1) : Exits(m, c, e)
        /\ \A i \in 1..((j + 1) - 1) : Enters(i, c, e) => \E m \in 1..((j + 1) - 1) : Exits(m, c, e)
    BY <1>1 DEF InOrder, NestOf, n
  <2>2. ASSUME NEW m \in 1..((j + 1) - 1), Exits(m, c, e)
        PROVE  \E k \in 1..(j - 1) : Exits(k, c, e)'
    <3>1. m # 1 /\ m \in 1..n
      BY <1>1, <2>2
    <3>2. m - 1 \in 1..(j - 1) /\ m - 1 \in 1..(n - 1) /\ (m - 1) + 1 = m
      BY <1>1, <3>1
    <3> QED BY <1>1, <2>2, <3>2
  <2>3. 1 \in 1..((j + 1) - 1) /\ \A i \in 1..(j - 1) : i \in 1..(n - 1) /\ i + 1 \in 1..((j + 1) - 1)
    BY <1>1
  <2> QED BY <1>1, <2>1, <2>2, <2>3
<1> QED BY <1>4, <1>5, <1>6, <1>7 DEF InOrder

\* The reader handles an exit: its call is the innermost that is open.
LEMMA InOrderPop ==
  ASSUME NEW c \in Calls, NEW x \in Calls, KernelInv, RingInv, InOrder(c), Consume, Rising(usess'[c]),
         \A d \in Calls : Open(c, d)' <=> Open(c, d) /\ d # x,
         \A d \in Calls : (Exits(1, c, d) <=> d = x) /\ ~Enters(1, c, d)
  PROVE  InOrder(c)'
<1> DEFINE n == Len(ring)
<1>1. /\ n \in Nat /\ Len(ring') = n - 1 /\ 1 \in 1..n
      /\ \A i \in 1..(n - 1) : i + 1 \in 1..n /\ i + 1 # 1
      /\ \A i \in 1..n : i # 1 => i - 1 \in 1..(n - 1) /\ (i - 1) + 1 = i
      /\ \A d \in Calls, i \in 1..(n - 1) : \A k : k = i + 1 =>
           (Enters(i, c, d)' <=> Enters(k, c, d)) /\ (Exits(i, c, d)' <=> Exits(k, c, d))
  BY Shifted
<1>2. /\ \A d : (Begun(d)' <=> Begun(d)) /\ (Ended(d)' <=> Ended(d))
      /\ \A d : OfGraph(d, c)' <=> OfGraph(d, c)
  BY ConsumeSame
<1>3. Ended(x)
  BY <1>1, EntersOf
<1> HIDE DEF n
<1>4. Open(c, x)
  <2>1. Open(c, x) \/ \E i \in 1..(1 - 1) : Enters(i, c, x)
    BY <1>1 DEF InOrder, ExitOf, n
  <2> QED BY <2>1
<1>5. OpenOf(c)'
  <2>1. \A d \in Calls : Open(c, d)' => OfGraph(d, c)' /\ Begun(d)'
    BY <1>2 DEF InOrder, OpenOf
  <2> QED BY <2>1 DEF OpenOf, Rising
<1>6. EnterOf(c)'
  <2>1. \A d, e \in Calls : \A j \in 1..(n - 1) : Open(c, d)' /\ Enters(j, c, e)' => d < e
    <3>1. \A d, e \in Calls : \A j \in 1..n : Open(c, d) /\ Enters(j, c, e) => d < e
      BY DEF InOrder, EnterOf, n
    <3> QED BY <1>1, <3>1
  <2>2. \A d, e \in Calls : \A i, j \in 1..(n - 1) :
           i < j /\ Enters(i, c, d)' /\ Enters(j, c, e)' => d < e
    <3> TAKE d, e \in Calls
    <3> TAKE i, j \in 1..(n - 1)
    <3>1. i < j => i + 1 < j + 1
      BY <1>1
    <3> QED BY <1>1, <3>1 DEF InOrder, EnterOf, n
  <2>3. \A d \in Calls : OfGraph(d, c)' /\ Begun(d)' /\ ~Ended(d)' =>
           Open(c, d)' \/ \E i \in 1..(n - 1) : Enters(i, c, d)'
    <3> SUFFICES ASSUME NEW d \in Calls, OfGraph(d, c), Begun(d), ~Ended(d)
                 PROVE  Open(c, d)' \/ \E i \in 1..(n - 1) : Enters(i, c, d)'
      BY <1>2
    <3>1. Open(c, d) \/ \E i \in 1..n : Enters(i, c, d)
      BY DEF InOrder, EnterOf, n
    <3> QED BY <1>1, <1>3, <3>1
  <2> QED BY <1>1, <2>1, <2>2, <2>3 DEF EnterOf
<1>7. ExitOf(c)'
  <2>1. \A d \in Calls : \A i, j \in 1..(n - 1) : Exits(i, c, d)' /\ Exits(j, c, d)' => i = j
    <3> TAKE d \in Calls
    <3> TAKE i, j \in 1..(n - 1)
    <3>1. i + 1 = j + 1 => i = j
      BY <1>1
    <3> QED BY <1>1, <3>1 DEF InOrder, ExitOf, n
  <2>2. \A d \in Calls : \A j \in 1..(n - 1) : Exits(j, c, d)' =>
           Open(c, d)' \/ \E i \in 1..(j - 1) : Enters(i, c, d)'
    <3> SUFFICES ASSUME NEW d \in Calls, NEW j \in 1..(n - 1), Exits(j, c, d)'
                 PROVE  Open(c, d)' \/ \E i \in 1..(j - 1) : Enters(i, c, d)'
      OBVIOUS
    <3>1. Open(c, d) \/ \E i \in 1..((j + 1) - 1) : Enters(i, c, d)
      BY <1>1 DEF InOrder, ExitOf, n
    <3>2. d # x
      <4> SUFFICES ASSUME d = x PROVE FALSE
        OBVIOUS
      <4>1. 1 = j + 1
        BY <1>1 DEF InOrder, ExitOf, n
      <4> QED BY <1>1, <4>1
    <3>3. ASSUME NEW i \in 1..((j + 1) - 1), Enters(i, c, d)
          PROVE  \E k \in 1..(j - 1) : Enters(k, c, d)'
      <4>1. i # 1
        BY <3>3
      <4>2. i - 1 \in 1..(j - 1) /\ i - 1 \in 1..(n - 1) /\ (i - 1) + 1 = i
        BY <1>1, <4>1
      <4> QED BY <1>1, <3>3, <4>2
    <3> QED BY <3>1, <3>2, <3>3
  <2>3. \A d \in Calls : Open(c, d)' /\ Ended(d)' => \E j \in 1..(n - 1) : Exits(j, c, d)'
    <3> SUFFICES ASSUME NEW d \in Calls, Open(c, d), d # x, Ended(d)
                 PROVE  \E j \in 1..(n - 1) : Exits(j, c, d)'
      BY <1>2
    <3>1. \E j \in 1..n : Exits(j, c, d)
      BY DEF InOrder, ExitOf, n
    <3> QED BY <1>1, <3>1
  <2>4. \A d \in Calls : \A i \in 1..(n - 1) : Enters(i, c, d)' /\ Ended(d)' =>
           \E j \in (i + 1)..(n - 1) : Exits(j, c, d)'
    <3> SUFFICES ASSUME NEW d \in Calls, NEW i \in 1..(n - 1), Enters(i, c, d)', Ended(d)
                 PROVE  \E j \in (i + 1)..(n - 1) : Exits(j, c, d)'
      BY <1>2
    <3>1. PICK j \in ((i + 1) + 1)..n : Exits(j, c, d)
      BY <1>1 DEF InOrder, ExitOf, n
    <3>2. j \in 1..n /\ j # 1 /\ j - 1 \in (i + 1)..(n - 1)
      BY <1>1
    <3> QED BY <1>1, <3>1, <3>2
  <2> QED BY <1>1, <2>1, <2>2, <2>3, <2>4 DEF ExitOf
<1>8. NestOf(c)'
  <2> SUFFICES ASSUME NEW d \in Calls, NEW e \in Calls, NEW j \in 1..(n - 1), Exits(j, c, d)', d < e
               PROVE  /\ Open(c, e)' => \E m \in 1..(j - 1) : Exits(m, c, e)'
                      /\ \A i \in 1..(j - 1) : Enters(i, c, e)' => \E m \in 1..(j - 1) : Exits(m, c, e)'
    BY <1>1 DEF NestOf
  <2>1. /\ Open(c, e) => \E m \in 1..((j + 1) - 1) : Exits(m, c, e)
        /\ \A i \in 1..((j + 1) - 1) : Enters(i, c, e) => \E m \in 1..((j + 1) - 1) : Exits(m, c, e)
    BY <1>1 DEF InOrder, NestOf, n
  <2>2. ASSUME e # x, NEW m \in 1..((j + 1) - 1), Exits(m, c, e)
        PROVE  \E k \in 1..(j - 1) : Exits(k, c, e)'
    <3>1. m # 1 /\ m \in 1..n
      BY <1>1, <2>2
    <3>2. m - 1 \in 1..(j - 1) /\ m - 1 \in 1..(n - 1) /\ (m - 1) + 1 = m
      BY <1>1, <3>1
    <3> QED BY <1>1, <2>2, <3>2
  <2>3. \A i \in 1..(j - 1) : i \in 1..(n - 1) /\ i + 1 \in 1..((j + 1) - 1)
    BY <1>1
  <2>4. \A i \in 1..n : ~Enters(i, c, x)
    <3> SUFFICES ASSUME NEW i \in 1..n, Enters(i, c, x) PROVE FALSE
      OBVIOUS
    <3>1. x < x
      BY <1>4 DEF InOrder, EnterOf, n
    <3> QED BY <3>1 DEF Calls
  <2> QED BY <1>1, <2>1, <2>2, <2>3, <2>4
<1> QED BY <1>5, <1>6, <1>7, <1>8 DEF InOrder

\* The call whose exit the reader handles is that of the last timestamp.
LEMMA LastOpen ==
  ASSUME NEW c \in Calls, NEW x \in Calls, RingInv, LinesInv, StampInv, InOrder(c), callee[c] \in GraphRoots,
         1 \in 1..Len(ring), Exits(1, c, x), usess[c].held
  PROVE  LET s == usess[c] IN
         /\ s.lastidx \in Nat /\ s.lastidx # 0 /\ Len(s.tstamps) = s.lastidx + 1
         /\ s.tstamps \in Seq(Calls) /\ s.tstamps[s.lastidx + 1] = x
         /\ \A k, l \in 2..Len(s.tstamps) : k < l => s.tstamps[k] < s.tstamps[l]
<1> DEFINE s == usess[c]
           T == s.tstamps
           L == s.lastidx
<1>1. s \in SessionState
  BY HeldSession
<1>2. L \in Nat /\ T \in Seq(Calls)
  BY <1>1, Fields
<1>3. Len(T) = L + 1
  BY DEF StampInv
<1>4. Open(c, x)
  <2>1. Open(c, x) \/ \E i \in 1..(1 - 1) : Enters(i, c, x)
    BY DEF InOrder, ExitOf
  <2> QED BY <2>1
<1>5. PICK k \in 2..Len(T) : T[k] = x
  BY <1>4 DEF Open
<1>6. \A e \in Calls : x < e => ~Open(c, e)
  <2> SUFFICES ASSUME NEW e \in Calls, x < e, Open(c, e) PROVE FALSE
    OBVIOUS
  <2>1. \E m \in 1..(1 - 1) : Exits(m, c, e)
    BY DEF InOrder, NestOf
  <2> QED BY <2>1
<1>7. \A i, j \in 2..Len(T) : i < j => T[i] < T[j]
  BY DEF InOrder, OpenOf
<1>8. Open(c, T[L + 1]) /\ T[L + 1] \in Calls /\ L + 1 \in 2..Len(T)
  <2>1. L + 1 \in 2..Len(T) /\ L + 1 \in 1..Len(T)
    BY <1>2, <1>3, <1>5
  <2> QED BY <1>2, <2>1 DEF Open
<1>9. k = L + 1
  <2> HIDE DEF L, T
  <2> QED BY <1>2, <1>3, <1>5, <1>6, <1>7, <1>8
<1>10. L # 0
  BY <1>2, <1>8
<1> QED BY <1>2, <1>3, <1>5, <1>7, <1>9, <1>10

LEMMA GraphRecordOf ==
  ASSUME RingInv, NEW i \in 1..Len(ring), ring[i].type \in GraphTypes, ring[i].sess \notin lost,
         callee[ring[i].sess] \in GraphRoots
  PROVE  Complete(ring[i].sess)
<1>1. Owned(ring[i], ring[i].sess)
  BY RingRec
<1> QED BY <1>1 DEF Owned, Complete, GraphTypes

LEMMA IsSinceRight ==
  ASSUME RingInv, LinesInv, StampInv, NestInv, Consume
  PROVE  SinceRight(ring[1])
<1>1. PICK rec : rec = ring[1]
  OBVIOUS
<1>2. 1 \in 1..Len(ring)
  BY Consumed
<1>3. PICK c \in Calls : c = rec.sess
  BY <1>1, <1>2, RingRec
<1>4. PICK x \in Calls : x = rec.call
  BY <1>1, <1>2, RingRec
<1>5. PICK s : s = usess[c]
  OBVIOUS
<1> SUFFICES ASSUME rec.type = "graph_exit", s.held, s.lastidx + 1 <= Len(s.tstamps), c \notin lost
             PROVE  s.tstamps[s.lastidx + 1] = x
  BY <1>1, <1>3, <1>4, <1>5 DEF SinceRight
<1>6. s \in SessionState
  BY <1>5, HeldSession
<1>7. s.lastidx \in Nat
  BY <1>6, Fields
<1>8. callee[c] \in GraphRoots
  <2> SUFFICES ASSUME callee[c] \notin GraphRoots PROVE FALSE
    OBVIOUS
  <2>1. s.tstamps = <<>> /\ s.lastidx = 0
    BY <1>5 DEF StampInv
  <2> QED BY <2>1
<1>9. InOrder(c)
  BY <1>1, <1>2, <1>3, <1>8, GraphRecordOf DEF GraphTypes, NestInv
<1>10. Exits(1, c, x)
  BY <1>1, <1>3, <1>4 DEF Exits, Is
<1> QED BY <1>2, <1>5, <1>8, <1>9, <1>10, LastOpen

LEMMA NestPushed ==
  ASSUME NEW c \in Calls, NEW u, u = usess'[c], KernelInv, RingInv, LinesInv, StampInv, Consume,
         InOrder(c), Complete(c), ring[1].sess = c, ring[1].type = "graph_entry",
         usess[c].held, Graphed(u, usess[c], ring[1])
  PROVE  InOrder(c)'
<1>1. PICK s : s = usess[c]
  OBVIOUS
<1>2. 1 \in 1..Len(ring) /\ ring[1].call \in Calls
  BY Consumed, RingRec
<1>3. PICK x \in Calls : x = ring[1].call
  BY <1>2
<1>4. s \in SessionState
  BY <1>1, HeldSession
<1>5. s.lastidx \in Nat /\ s.tstamps \in Seq(Calls)
  BY <1>4, Fields
<1>6. Len(s.tstamps) = s.lastidx + 1 /\ Len(s.tstamps) \in Nat
  BY <1>1, <1>5 DEF StampInv, Complete
<1>7. u.tstamps = Append(s.tstamps, x) /\ u.held
  BY <1>1, <1>3 DEF Graphed
<1> DEFINE n == Len(s.tstamps)
<1>8. Len(u.tstamps) = n + 1 /\ u.tstamps[n + 1] = x
  BY <1>5, <1>7
<1>9. \A k \in 1..n : u.tstamps[k] = s.tstamps[k]
  BY <1>5, <1>7
<1>10. n \in Nat /\ n + 1 \in 2..(n + 1)
  BY <1>5, <1>6
<1>11. \A k \in 2..(n + 1) : k \in 2..n \/ k = n + 1
  BY <1>10
<1>12. \A k \in 2..n : k \in 1..n /\ k \in 2..(n + 1)
  BY <1>10
<1> HIDE DEF n
<1>13. \A d \in Calls : Open(c, d)' <=> Open(c, d) \/ d = x
  <2>1. \A d : Open(c, d) <=> \E k \in 2..n : s.tstamps[k] = d
    BY <1>1 DEF Open, n
  <2>2. \A d : Open(c, d)' <=> \E k \in 2..(n + 1) : u.tstamps[k] = d
    BY <1>7, <1>8 DEF Open
  <2>3. \A k \in 2..n : u.tstamps[k] = s.tstamps[k]
    BY <1>9, <1>12
  <2> QED BY <1>8, <1>10, <1>11, <1>12, <2>1, <2>2, <2>3
<1>14. \A d \in Calls : (Enters(1, c, d) <=> d = x) /\ ~Exits(1, c, d)
  BY <1>3 DEF Enters, Exits, Is
<1>15. Rising(u)
  <2> SUFFICES ASSUME NEW k \in 2..(n + 1), NEW l \in 2..(n + 1), k < l
               PROVE  u.tstamps[k] < u.tstamps[l]
    BY <1>8 DEF Rising
  <2>1. k \in 2..n
    BY <1>10
  <2>2. CASE l \in 2..n
    <3>1. s.tstamps[k] < s.tstamps[l]
      BY <1>1, <2>1, <2>2 DEF InOrder, OpenOf, n
    <3> QED BY <1>9, <1>12, <2>1, <2>2, <3>1
  <2>3. CASE l = n + 1
    <3>1. PICK d \in Calls : d = s.tstamps[k]
      <4>1. s.tstamps[k] \in Calls
        BY <1>5, <1>12, <2>1 DEF n
      <4> QED BY <4>1
    <3>2. Open(c, d)
      BY <1>1, <2>1, <3>1 DEF Open, n
    <3>3. Enters(1, c, x)
      BY <1>14
    <3>4. d < x
      BY <1>2, <3>2, <3>3 DEF InOrder, EnterOf
    <3> QED BY <1>8, <1>9, <1>12, <2>1, <2>3, <3>1, <3>4
  <2> QED BY <1>11, <2>2, <2>3
<1> QED BY <1>13, <1>14, <1>15, InOrderPush

LEMMA NestPopped ==
  ASSUME NEW c \in Calls, NEW u, u = usess'[c], KernelInv, RingInv, LinesInv, StampInv, Consume,
         InOrder(c), Complete(c), ring[1].sess = c, ring[1].type = "graph_exit",
         usess[c].held, Graphed(u, usess[c], ring[1])
  PROVE  InOrder(c)'
<1>1. PICK s : s = usess[c]
  OBVIOUS
<1>2. 1 \in 1..Len(ring) /\ ring[1].call \in Calls
  BY Consumed, RingRec
<1>3. PICK x \in Calls : x = ring[1].call
  BY <1>2
<1>4. \A d \in Calls : (Exits(1, c, d) <=> d = x) /\ ~Enters(1, c, d)
  BY <1>3 DEF Enters, Exits, Is
<1>5. /\ s.lastidx \in Nat /\ s.lastidx # 0 /\ Len(s.tstamps) = s.lastidx + 1
      /\ s.tstamps \in Seq(Calls) /\ s.tstamps[s.lastidx + 1] = x
      /\ \A k, l \in 2..Len(s.tstamps) : k < l => s.tstamps[k] < s.tstamps[l]
  BY <1>1, <1>2, <1>4, LastOpen DEF Complete
<1>6. u.tstamps = SubSeq(s.tstamps, 1, s.lastidx) /\ u.held
  BY <1>1, <1>5 DEF Graphed
<1>7. PICK m \in Nat, T \in Seq(Calls) : m = s.lastidx /\ T = s.tstamps
  BY <1>5
<1>8. Len(T) = m + 1 /\ u.tstamps = SubSeq(T, 1, m)
  BY <1>5, <1>6, <1>7
<1>9. Len(u.tstamps) = m
  BY <1>8
<1>10. \A k \in 1..m : u.tstamps[k] = T[k]
  BY <1>8
<1>11. m + 1 \in 2..(m + 1) /\ \A k \in 2..m : k \in 1..m /\ k \in 2..(m + 1) /\ k < m + 1
  BY <1>5, <1>7
<1>12. \A k \in 2..(m + 1) : k \in 2..m \/ k = m + 1
  OBVIOUS
<1>13. \A k \in 2..m : T[k] < x /\ T[k] # x
  <2>1. \A k \in 2..m : T[k] \in Calls
    BY <1>8, <1>11
  <2>2. \A k \in 2..m : T[k] < T[m + 1]
    BY <1>5, <1>7, <1>8, <1>11
  <2> QED BY <1>5, <1>7, <2>1, <2>2 DEF Calls
<1>14. \A d \in Calls : Open(c, d)' <=> Open(c, d) /\ d # x
  <2>1. \A d : Open(c, d) <=> \E k \in 2..(m + 1) : T[k] = d
    BY <1>1, <1>7, <1>8 DEF Open
  <2>2. \A d : Open(c, d)' <=> \E k \in 2..m : u.tstamps[k] = d
    BY <1>6, <1>9 DEF Open
  <2>3. \A k \in 2..m : u.tstamps[k] = T[k]
    BY <1>10, <1>11
  <2>4. T[m + 1] = x
    BY <1>5, <1>7
  <2> QED BY <1>11, <1>12, <1>13, <2>1, <2>2, <2>3, <2>4
<1>15. Rising(u)
  BY <1>5, <1>7, <1>8, <1>9, <1>10, <1>11 DEF Rising
<1> QED BY <1>4, <1>14, <1>15, InOrderPop

LEMMA NestConsumed ==
  ASSUME KernelInv, RingInv, OrderInv, LinesInv, StampInv, NestInv, Consume
  PROVE  NestInv'
<1> SUFFICES ASSUME NEW c \in Calls, Complete(c)'
             PROVE  InOrder(c)'
  BY DEF NestInv, Calls
<1>1. PICK rec : rec = ring[1]
  OBVIOUS
<1>2. 1 \in 1..Len(ring) /\ rec \in Record
  BY <1>1, Consumed
<1>3. PICK u : u = usess'[c]
  OBVIOUS
<1>4. Handles(c, rec)
  BY <1>1, Handling
<1>5. Complete(c) /\ InOrder(c)
  BY ConsumeSame DEF NestInv
<1>6. rec.sess # c \/ rec.type \notin GraphTypes => \A d \in Calls : ~Enters(1, c, d) /\ ~Exits(1, c, d)
  BY <1>1 DEF Enters, Exits, Is, GraphTypes
<1>7. Rising(usess[c])
  BY <1>5 DEF InOrder, OpenOf, Rising
<1>8. CASE rec.sess # c /\ u = usess[c]
  <2>1. \A d \in Calls : Open(c, d)' <=> Open(c, d)
    BY <1>3, <1>8 DEF Open
  <2> QED BY <1>3, <1>5, <1>6, <1>7, <1>8, <2>1, InOrderShift
<1>9. CASE rec.sess = c /\ rec.type = "entry" /\ Opened(u, c, rec)
  <2>1. ~usess[c].held
    BY <1>1, <1>2, <1>9 DEF OrderInv
  <2>2. Len(u.tstamps) = 1
    <3>1. u.tstamps = <<c>>
      BY <1>5, <1>9 DEF Opened, Complete
    <3> QED BY <3>1
  <2>3. \A k : k \notin 2..Len(u.tstamps)
    BY <2>2
  <2>4. \A d \in Calls : ~Open(c, d) /\ ~Open(c, d)'
    BY <1>3, <2>1, <2>3 DEF Open
  <2>5. Rising(u)
    BY <2>3 DEF Rising
  <2> QED BY <1>3, <1>5, <1>6, <1>9, <2>4, <2>5, InOrderShift DEF GraphTypes
<1>10. CASE rec.sess = c /\ rec.type = "exit" /\ usess[c].held /\ u = NoSession
  <2>1. \A i \in 1..Len(ring') : ring'[i].sess # c
    <3> SUFFICES ASSUME NEW i \in 1..Len(ring'), ring'[i].sess = c PROVE FALSE
      OBVIOUS
    <3>1. ring'[i] = ring[i + 1] /\ i + 1 \in 1..Len(ring)
      BY Consumed
    <3>2. i + 1 <= 1
      BY <1>1, <1>2, <1>10, <3>1 DEF OrderInv
    <3> QED BY <3>2
  <2>2. \A d : \A i \in 1..Len(ring') : ~Enters(i, c, d)' /\ ~Exits(i, c, d)'
    BY <2>1 DEF Enters, Exits, Is
  <2>3. ~u.held
    BY <1>10 DEF NoSession
  <2>4. \A d : ~Open(c, d)'
    BY <1>3, <2>3 DEF Open
  <2>5. \A d : OfGraph(d, c)' => Ended(d)'
    <3> SUFFICES ASSUME NEW d, OfGraph(d, c), ~Ended(d) PROVE FALSE
      BY ConsumeSame
    <3>1. OnStack(d)
      BY DEF Ended
    <3>2. c \in live
      BY <3>1, GraphCaller
    <3> QED BY <1>1, <1>2, <1>10, <3>2 DEF OrderInv
  <2>6. OpenOf(c)'
    BY <1>3, <2>3, <2>4 DEF OpenOf
  <2>7. EnterOf(c)'
    BY <2>2, <2>4, <2>5 DEF EnterOf
  <2>8. ExitOf(c)' /\ NestOf(c)'
    BY <2>2, <2>4 DEF ExitOf, NestOf
  <2> QED BY <2>6, <2>7, <2>8 DEF InOrder
<1>11. CASE rec.sess = c /\ rec.type # "entry" /\ ~usess[c].held
  <2>1. usess[c].held \/ \E i \in 1..(1 - 1) : Is(i, "entry", c)
    BY <1>1, <1>2, <1>5, <1>11 DEF OrderInv, Complete
  <2> QED BY <1>11, <2>1
<1>12. CASE usess[c].held /\ usess[c].lastidx + 1 > Len(usess[c].tstamps)
  <2>1. PICK s : s = usess[c]
    OBVIOUS
  <2>2. s \in SessionState /\ Len(s.tstamps) = s.lastidx + 1
    BY <1>5, <1>12, <2>1, HeldSession DEF StampInv, Complete
  <2>3. s.lastidx \in Nat
    BY <2>2, Fields
  <2> QED BY <1>12, <2>1, <2>2, <2>3
<1>13. CASE rec.sess = c /\ rec.type \in GraphTypes /\ usess[c].held /\ Graphed(u, usess[c], rec)
  BY <1>1, <1>3, <1>5, <1>13, NestPushed, NestPopped DEF GraphTypes
<1>14. CASE rec.sess = c /\ rec.type = "insn" /\ usess[c].held /\ Noted(u, usess[c], rec)
  <2>1. u.held /\ u.tstamps = usess[c].tstamps
    BY <1>14 DEF Noted
  <2>2. (\A d \in Calls : Open(c, d)' <=> Open(c, d)) /\ Rising(u)
    BY <1>3, <1>7, <1>14, <2>1 DEF Open, Rising
  <2> QED BY <1>3, <1>5, <1>6, <1>14, <2>2, InOrderShift DEF GraphTypes
<1> QED BY <1>3, <1>4, <1>8, <1>9, <1>10, <1>11, <1>12, <1>13, <1>14 DEF Handles

-----------------------------------------------------------------------------
(* The invariant, and what follows from it.                                *)

Inv == KernelInv /\ RingInv /\ OrderInv /\ PrintedInv /\ LinesInv /\ StampInv /\ NestInv

LEMMA InvInit == Init => Inv
<1> SUFFICES ASSUME Init PROVE Inv
  OBVIOUS
<1>1. /\ ring = <<>> /\ usess = [c \in Calls |-> NoSession] /\ printed = {} /\ live = {} /\ accepted = {}
  BY DEF Init
<1>2. Len(ring) = 0 /\ \A i \in 1..Len(ring) : FALSE
  BY <1>1
<1>3. \A c \in Calls : ~usess[c].held
  BY <1>1 DEF NoSession
<1>4. RingInv
  BY <1>1, <1>2 DEF RingInv
<1>5. OrderInv
  BY <1>1, <1>2 DEF OrderInv
<1>6. PrintedInv
  BY <1>1 DEF PrintedInv
<1>7. LinesInv
  BY <1>1, <1>3 DEF LinesInv
<1>8. StampInv
  BY <1>3 DEF StampInv
<1>9. NestInv
  BY <1>1 DEF NestInv, Complete
<1> QED BY KernelInit, <1>4, <1>5, <1>6, <1>7, <1>8, <1>9 DEF Inv

LEMMA InvNext == Inv /\ [Next]_vars => Inv'
<1> SUFFICES ASSUME Inv, [Next]_vars PROVE Inv'
  OBVIOUS
<1>1. KernelInv /\ RingInv /\ OrderInv /\ PrintedInv /\ LinesInv /\ StampInv /\ NestInv
  BY DEF Inv
<1>2. KernelInv'
  BY <1>1, KernelNext
<1>3. CASE Consume
  <2>1. RingInv' /\ OrderInv' /\ PrintedInv' /\ StampInv' /\ NestInv'
    BY <1>1, <1>3, RingConsumed, OrderConsumed, PrintedConsumed, StampConsumed, NestConsumed
  <2>2. LinesInv'
    BY <1>1, <1>3, IsSinceRight, LinesConsumed
  <2> QED BY <1>2, <2>1, <2>2 DEF Inv
<1>4. CASE ~Consume
  <2>1. /\ UNCHANGED reader
        /\ (Quiet /\ live' \subseteq live) \/ \E rec : Emitted(rec)
    BY <1>1, <1>4, Emission
  <2>2. ring' = ring \/ \E rec : Emitted(rec)
    BY <2>1 DEF Quiet
  <2>3. accepted \subseteq accepted'
    BY <1>1, StepGrows DEF Grows
  <2>4. RingInv' /\ PrintedInv' /\ LinesInv' /\ StampInv' /\ NestInv'
    BY <1>1, <1>4, <2>1, <2>2, <2>3, RingKept, PrintedKept, LinesKept, StampKept, NestKept
  <2>5. OrderInv'
    BY <1>1, <2>1, OrderSends, OrderQuiet
  <2> QED BY <1>2, <2>4, <2>5 DEF Inv
<1> QED BY <1>3, <1>4

LEMMA InvAlways == Spec => []Inv
BY InvInit, InvNext, PTL DEF Spec

\* The variables have their types: in particular, sessions are of accepted calls,
\* and the reader keeps the timestamps of calls.
THEOREM TypeCorrect == Spec => []TypeOK
<1>1. Inv => TypeOK
  <2> SUFFICES ASSUME Inv PROVE TypeOK
    OBVIOUS
  <2>1. ncalls \in 0..MaxCalls /\ MaxCalls \in Nat
    BY FgraphAssumption DEF Inv, KernelInv, StackInv
  <2> DEFINE S == 1..ncalls
  <2>2. S \subseteq Calls
    BY <2>1 DEF Calls
  <2>3. stack \in Seq(S) /\ Len(stack) <= MaxStack
    BY DEF Inv, KernelInv, StackInv
  <2>4. accepted \subseteq S /\ live \subseteq accepted /\ lost \subseteq accepted /\ conf \in Confs
    BY DEF Inv, KernelInv, SessInv
  <2> HIDE DEF S
  <2>5. stack \in Seq(Calls)
    BY <2>2, <2>3
  <2>6. at \in {"run", "entry", "exit"} /\ todo \in Seq({"sess", "graph"})
    BY DEF Inv, KernelInv, StackInv, TodoInv
  <2>7. \A c \in Calls : usess[c] = NoSession \/ usess[c] \in SessionState
    BY DEF Inv, LinesInv
  <2> QED BY <2>1, <2>2, <2>3, <2>4, <2>5, <2>6, <2>7 DEF TypeOK
<1> QED BY <1>1, InvAlways, PTL

\* What is printed between the lines of a call is of that call: graph lines at
\* their depth, with durations from the entry of the call they name.
THEOREM LinesOwnHolds == Spec => []LinesOwn
<1>1. Inv => LinesOwn
  <2> SUFFICES ASSUME Inv, NEW p \in printed \cup Held, NEW i \in 1..Len(p.lines), NEW l, l = p.lines[i]
               PROVE  /\ l.type \in {"graph_entry", "graph_exit"} =>
                           p.sess = Nearest(l.call, accepted) /\ l.depth = Distance(p.sess, l.call)
                      /\ l.type = "graph_exit" /\ p.sess \notin lost => l.since = l.call
                      /\ l.type = "insn" /\ l.call \in accepted => l.call = p.sess
    BY DEF LinesOwn
  <2>1. Output(p.sess, p.lines)
    <3>1. CASE p \in printed
      BY <3>1 DEF Inv, LinesInv
    <3>2. CASE p \in Held
      <4>1. PICK c \in Calls : usess[c].held /\ p = [sess |-> c, lines |-> usess[c].lines]
        BY <3>2 DEF Held
      <4>2. Output(c, usess[c].lines)
        BY <4>1 DEF Inv, LinesInv
      <4> QED BY <4>1, <4>2
    <3> QED BY <3>1, <3>2
  <2>2. Owned(l, p.sess) /\ (l.type = "graph_exit" /\ p.sess \notin lost => l.since = l.call)
    BY <2>1 DEF Output
  <2> QED BY <2>2 DEF Owned, OfGraph
<1> QED BY <1>1, InvAlways, PTL

-----------------------------------------------------------------------------
(* The call graph that is printed is complete.                             *)

LEMMA GraphOnceMore ==
  ASSUME KernelInv, RingInv, LinesInv, GraphInv, [Next]_vars, ~Consume
  PROVE  GraphInv'
<1>1. usess' = usess /\ printed' = printed
  BY Emission DEF reader
<1>2. Grows
  BY StepGrows
<1>3. \A i \in 1..Len(ring) : i \in 1..Len(ring') /\ ring'[i] = ring[i]
  <2>1. Quiet \/ \E rec : Emitted(rec)
    BY Emission
  <2>2. ring \in Seq(Record)
    BY DEF RingInv
  <2>3. CASE ring' = ring
    BY <2>3
  <2>4. ASSUME NEW rec \in Record, ring' = Append(ring, rec)
        PROVE  \A i \in 1..Len(ring) : i \in 1..Len(ring') /\ ring'[i] = ring[i]
    BY <2>2, <2>4, Appended
  <2>5. ASSUME NEW rec, Emitted(rec)
        PROVE  rec \in Record /\ (ring' = ring \/ ring' = Append(ring, rec))
    BY <2>5 DEF Emitted
  <2> QED BY <2>1, <2>3, <2>4, <2>5 DEF Quiet
<1>4. \A c, t, d : Sent(c, t, d) => Sent(c, t, d)'
  BY <1>1, <1>3 DEF Sent, Is
<1> SUFFICES ASSUME NEW c \in Calls, Complete(c)', ~Printed(c), NEW d \in Calls, OfGraph(d, c)'
             PROVE  /\ Begun(d)' => Sent(c, "graph_entry", d)'
                    /\ Ended(d)' => Sent(c, "graph_exit", d)'
  BY <1>1 DEF GraphInv, Printed, Calls
<1>5. c \in accepted' /\ c \notin lost' /\ ~conf.kprobe /\ callee'[c] \in GraphRoots'
  BY <1>2 DEF Complete, Grows
<1>6. CASE c \in accepted
  <2>1. c \in 1..ncalls
    BY <1>6 DEF KernelInv, SessInv
  <2>2. Complete(c)
    BY <1>2, <1>5, <1>6, <2>1, GraphKept DEF Complete, Grows
  <2>3. OfGraph(d, c) => (Begun(d) => Sent(c, "graph_entry", d)) /\ (Ended(d) => Sent(c, "graph_exit", d))
    BY <2>2 DEF GraphInv
  <2>4. CASE MarksOf(c)
    BY <1>4, <2>3, <2>4 DEF MarksOf, OfGraph
  <2>5. ASSUME NEW rec, GraphSent(c, rec)
        PROVE  /\ Begun(d)' => Sent(c, "graph_entry", d)'
               /\ Ended(d)' => Sent(c, "graph_exit", d)'
    <3>1. /\ OfGraph(d, c) /\ Top \in Calls
          /\ d # Top => (Begun(d)' <=> Begun(d)) /\ (Ended(d)' <=> Ended(d))
          /\ (Begun(Top) <=> at # "entry") /\ (d = Top => (Ended(d)' <=> at # "entry"))
      BY <2>5, GraphSentMarks
    <3>2. PICK k : k = Len(ring) + 1
      OBVIOUS
    <3>3. k \in 1..Len(ring') /\ (d = Top => (Enters(k, c, d)' <=> at = "entry")
                                           /\ (Exits(k, c, d)' <=> at # "entry"))
      BY <2>5, <3>2, GraphSentRing
    <3>4. (Enters(k, c, d)' => Sent(c, "graph_entry", d)') /\ (Exits(k, c, d)' => Sent(c, "graph_exit", d)')
      BY <3>3 DEF Sent, Enters, Exits
    <3> QED BY <1>4, <2>3, <3>1, <3>3, <3>4
  <2> QED BY <1>5, <1>6, <2>4, <2>5, GraphSends
<1>7. CASE c \notin accepted
  <2>1. c = ncalls /\ ncalls' = ncalls
    BY <1>2, <1>5, <1>7 DEF Grows
  <2>2. d \in 1..ncalls
    BY <2>1 DEF OfGraph
  <2>3. OfGraph(d, c)
    BY <1>2, <2>2, OfGraphKept
  <2> QED BY <1>7, <2>3 DEF OfGraph
<1> QED BY <1>6, <1>7

LEMMA ListsAppend ==
  ASSUME NEW lines \in Seq(LineRecord), NEW l \in LineRecord, NEW type, NEW d
  PROVE  /\ Lists(lines, type, d) => Lists(Append(lines, l), type, d)
         /\ l.type = type /\ l.call = d => Lists(Append(lines, l), type, d)
<1>1. Len(Append(lines, l)) = Len(lines) + 1 /\ Len(lines) \in Nat
  OBVIOUS
<1>2. \A i \in 1..Len(lines) : Append(lines, l)[i] = lines[i]
  OBVIOUS
<1>3. Append(lines, l)[Len(lines) + 1] = l
  OBVIOUS
<1>4. Len(lines) + 1 \in 1..(Len(lines) + 1) /\ \A i \in 1..Len(lines) : i \in 1..(Len(lines) + 1)
  BY <1>1
<1> QED BY <1>1, <1>2, <1>3, <1>4 DEF Lists

LEMMA GraphConsumed ==
  ASSUME KernelInv, RingInv, OrderInv, LinesInv, StampInv, GraphInv, Consume
  PROVE  GraphInv'
<1>1. PICK rec : rec = ring[1]
  OBVIOUS
<1>2. /\ 1 \in 1..Len(ring) /\ rec \in Record
      /\ \A i \in 1..Len(ring) : i # 1 => i - 1 \in 1..Len(ring') /\ ring'[i - 1] = ring[i]
  BY <1>1, Consumed
<1> SUFFICES ASSUME NEW c \in Calls, Complete(c)', ~Printed(c)', NEW d \in Calls, OfGraph(d, c)'
             PROVE  /\ Begun(d)' => Sent(c, "graph_entry", d)'
                    /\ Ended(d)' => Sent(c, "graph_exit", d)'
  BY DEF GraphInv, Calls
<1>3. PICK u, s : u = usess'[c] /\ s = usess[c]
  OBVIOUS
<1>4. Handles(c, rec) /\ Prints(rec)
  BY <1>1, Handling
<1>5. Complete(c) /\ OfGraph(d, c) /\ (Begun(d)' <=> Begun(d)) /\ (Ended(d)' <=> Ended(d))
  BY ConsumeSame
<1>6. ~Printed(c)
  <2>1. printed \subseteq printed'
    BY <1>4 DEF Prints
  <2> QED BY <2>1 DEF Printed
<1>7. (Begun(d) => Sent(c, "graph_entry", d)) /\ (Ended(d) => Sent(c, "graph_exit", d))
  BY <1>5, <1>6 DEF GraphInv
<1>8. ASSUME NEW t \in GraphTypes, Sent(c, t, d),
             s.held /\ Lists(s.lines, t, d) => u.held /\ Lists(u.lines, t, d),
             rec.sess = c /\ rec.type = t /\ rec.call = d => u.held /\ Lists(u.lines, t, d)
      PROVE  Sent(c, t, d)'
  <2>1. CASE s.held /\ Lists(s.lines, t, d)
    BY <1>3, <1>8, <2>1 DEF Sent
  <2>2. ASSUME NEW i \in 1..Len(ring), Is(i, t, c), ring[i].call = d PROVE Sent(c, t, d)'
    <3>1. CASE i = 1
      BY <1>1, <1>3, <1>8, <2>2, <3>1 DEF Sent, Is
    <3>2. CASE i # 1
      BY <1>2, <2>2, <3>2 DEF Sent, Is
    <3> QED BY <3>1, <3>2
  <2> QED BY <1>3, <1>8, <2>1, <2>2 DEF Sent
<1> SUFFICES ASSUME NEW t \in GraphTypes, Sent(c, t, d)
             PROVE  Sent(c, t, d)'
  BY <1>5, <1>7 DEF GraphTypes
<1> DEFINE P == /\ s.held /\ Lists(s.lines, t, d) => u.held /\ Lists(u.lines, t, d)
                /\ rec.sess = c /\ rec.type = t /\ rec.call = d => u.held /\ Lists(u.lines, t, d)
<1>9. ASSUME rec.sess # c, u = s PROVE P
  BY <1>9
<1>10. ASSUME rec.sess = c, rec.type = "entry" PROVE P
  <2>1. ~s.held
    BY <1>1, <1>2, <1>3, <1>10 DEF OrderInv
  <2> QED BY <1>10, <2>1 DEF GraphTypes
<1>11. ~(rec.sess = c /\ rec.type = "exit" /\ s.held)
  <2> SUFFICES ASSUME rec.sess = c, rec.type = "exit", s.held PROVE FALSE
    OBVIOUS
  <2>1. PICK p : p = [sess |-> rec.sess, lines |-> Append(usess[rec.sess].lines, Line(rec, rec.sess))]
    OBVIOUS
  <2>2. p \in printed' /\ p.sess = c
    BY <1>3, <1>4, <2>1 DEF Prints
  <2> QED BY <2>2 DEF Printed
<1>12. ~(rec.sess = c /\ rec.type # "entry" /\ ~s.held)
  <2> SUFFICES ASSUME rec.sess = c, rec.type # "entry", ~s.held PROVE FALSE
    OBVIOUS
  <2>1. usess[c].held \/ \E i \in 1..(1 - 1) : Is(i, "entry", c)
    BY <1>1, <1>2, <1>5 DEF OrderInv, Complete
  <2> QED BY <1>3, <2>1
<1>13. ~(s.held /\ s.lastidx + 1 > Len(s.tstamps))
  <2> SUFFICES ASSUME s.held, s.lastidx + 1 > Len(s.tstamps) PROVE FALSE
    OBVIOUS
  <2>1. s \in SessionState /\ Len(s.tstamps) = s.lastidx + 1
    BY <1>3, <1>5, HeldSession DEF StampInv, Complete
  <2>2. s.lastidx \in Nat
    BY <2>1, Fields
  <2> QED BY <2>1, <2>2
<1>14. ASSUME rec.sess = c, s.held, NEW l \in LineRecord, u.held, u.lines = Append(s.lines, l),
              l.type = rec.type, l.call = rec.call
       PROVE  P
  <2>1. s.lines \in Seq(LineRecord)
    BY <1>3, <1>14, HeldSession, Fields
  <2> QED BY <1>14, <2>1, ListsAppend
<1>15. ASSUME rec.sess = c, s.held, rec.type \in GraphTypes,
              s.lastidx + 1 <= Len(s.tstamps), Graphed(u, s, rec)
       PROVE  P
  <2>1. s \in SessionState
    BY <1>3, <1>15, HeldSession
  <2>2. s.lastidx \in Nat /\ s.tstamps \in Seq(Calls)
    BY <2>1, Fields
  <2>3. s.tstamps[s.lastidx + 1] \in Calls
    BY <1>15, <2>2
  <2>4. PICK l \in LineRecord : l = Line(rec, s.tstamps[s.lastidx + 1])
    BY <1>2, <2>3, LineTyped
  <2>5. l.type = rec.type /\ l.call = rec.call
    BY <1>2, <2>3, <2>4, LineTyped
  <2>6. u.held /\ u.lines = Append(s.lines, l)
    BY <1>15, <2>4 DEF Graphed
  <2> QED BY <1>14, <1>15, <2>5, <2>6
<1>16. ASSUME rec.sess = c, s.held, rec.type = "insn", Noted(u, s, rec) PROVE P
  <2>1. PICK l \in LineRecord : l = Line(rec, rec.sess)
    BY <1>2, <1>16, LineTyped
  <2>2. l.type = rec.type /\ l.call = rec.call
    BY <1>2, <1>16, <2>1, LineTyped
  <2>3. u.held /\ u.lines = Append(s.lines, l)
    BY <1>16, <2>1 DEF Noted
  <2> QED BY <1>14, <1>16, <2>2, <2>3
<1>17. P
  <2> HIDE DEF P
  <2> QED BY <1>3, <1>4, <1>9, <1>10, <1>11, <1>12, <1>13, <1>15, <1>16 DEF Handles
<1> QED BY <1>8, <1>17

LEMMA DoneNext ==
  ASSUME Inv, GraphInv, DoneInv, [Next]_vars
  PROVE  DoneInv'
<1>1. KernelInv /\ RingInv /\ OrderInv /\ PrintedInv /\ LinesInv
  BY DEF Inv
<1>2. Grows
  BY <1>1, StepGrows
<1> SUFFICES ASSUME NEW p \in printed', NEW c, c = p.sess, Complete(c)',
                    NEW d \in Calls, OfGraph(d, c)', Ended(d)'
             PROVE  Lists(p.lines, "graph_entry", d) /\ Lists(p.lines, "graph_exit", d)
  BY DEF DoneInv, Calls
<1>3. ASSUME c \in accepted \ live
      PROVE  OfGraph(d, c) /\ Ended(d) /\ Begun(d) /\ Complete(c)
  <2>1. d \in 1..ncalls
    <3> SUFFICES ASSUME d \notin 1..ncalls PROVE FALSE
      OBVIOUS
    <3>1. Graphs' = Graphs
      BY <1>2 DEF Grows, Graphs
    <3>2. d \in 1..ncalls' /\ callee'[d] \in Graphs
      BY <3>1 DEF OfGraph
    <3> QED BY <1>1, <3>2, NewCall
  <2>2. OfGraph(d, c)
    BY <1>1, <1>2, <2>1, OfGraphKept
  <2>3. ~OnStack(d)
    BY <1>1, <1>3, <2>2, GraphCaller
  <2>4. Ended(d) /\ Begun(d)
    <3>1. at = "entry" => OnStack(Top)
      BY <1>1, TopOnStack DEF KernelInv, StackInv
    <3> QED BY <2>3, <3>1 DEF Ended, Begun
  <2>5. c \in 1..ncalls
    BY <1>1, <1>3 DEF KernelInv, SessInv
  <2>6. Complete(c)
    BY <1>1, <1>2, <1>3, <2>5, GraphKept DEF Complete, Grows
  <2> QED BY <2>2, <2>4, <2>6
<1>4. CASE p \in printed
  <2>1. c \in accepted \ live
    BY <1>1, <1>4 DEF PrintedInv
  <2> QED BY <1>3, <1>4, <2>1 DEF DoneInv
<1>5. CASE p \notin printed
  <2>1. Consume
    <3>1. ~Consume => printed' = printed
      BY <1>1, Emission DEF reader
    <3> QED BY <1>5, <3>1
  <2>2. PICK rec \in Record : rec = ring[1]
    BY <1>1, <2>1, Consumed
  <2>3. PICK s : s = usess[rec.sess]
    OBVIOUS
  <2>4. rec.sess \in Calls /\ 1 \in 1..Len(ring) /\ rec.sess \in accepted
    BY <1>1, <2>1, <2>2, Consumed, RingRec
  <2>5. PICK l \in LineRecord : l = Line(rec, rec.sess)
    BY <2>4, LineTyped
  <2>6. rec.type = "exit" /\ s.held /\ p = [sess |-> rec.sess, lines |-> Append(s.lines, l)]
    <3>1. Prints(rec)
      BY <1>1, <2>1, <2>2, Handling
    <3> QED BY <1>5, <2>3, <2>5, <3>1 DEF Prints
  <2>7. c = rec.sess /\ p.lines = Append(s.lines, l)
    BY <2>6
  <2>8. c \in accepted \ live
    BY <1>1, <2>2, <2>4, <2>6, <2>7 DEF OrderInv
  <2>9. OfGraph(d, c) /\ Ended(d) /\ Begun(d) /\ Complete(c)
    BY <1>3, <2>8
  <2>10. ~Printed(c)
    BY <1>1, <2>3, <2>6, <2>7 DEF Printed, PrintedInv
  <2>11. Sent(c, "graph_entry", d) /\ Sent(c, "graph_exit", d)
    BY <2>4, <2>7, <2>9, <2>10 DEF GraphInv
  <2>12. \A i \in 1..Len(ring) : ring[i].sess = c => ring[i].type = "exit"
    <3> SUFFICES ASSUME NEW i \in 1..Len(ring), ring[i].sess = c PROVE ring[i].type = "exit"
      OBVIOUS
    <3>1. i <= 1
      BY <1>1, <2>2, <2>4, <2>6, <2>7 DEF OrderInv
    <3>2. i = 1
      BY <3>1
    <3> QED BY <2>2, <2>6, <3>2
  <2>13. Lists(s.lines, "graph_entry", d) /\ Lists(s.lines, "graph_exit", d)
    BY <2>3, <2>7, <2>11, <2>12 DEF Sent, Is
  <2>14. s.lines \in Seq(LineRecord)
    BY <1>1, <2>3, <2>4, <2>6, HeldSession, Fields
  <2> QED BY <2>7, <2>13, <2>14, ListsAppend
<1> QED BY <1>4, <1>5

\* The printed call graph is complete, when functions are traced at their exits by
\* trampolines: under kprobes, graph programs look for sessions in another map.
THEOREM GraphCompleteHolds ==
  (\A k \in Confs : ~k.kprobe) => (Spec => []GraphComplete)
<1> SUFFICES ASSUME \A k \in Confs : ~k.kprobe PROVE Spec => []GraphComplete
  OBVIOUS
<1> DEFINE J == Inv /\ GraphInv /\ DoneInv
<1>1. Init => J
  <2> SUFFICES ASSUME Init PROVE GraphInv /\ DoneInv
    BY InvInit
  <2>1. accepted = {} /\ printed = {}
    BY DEF Init
  <2> QED BY <2>1 DEF GraphInv, DoneInv, OfGraph
<1>2. J /\ [Next]_vars => J'
  <2> SUFFICES ASSUME J, [Next]_vars PROVE J'
    OBVIOUS
  <2>1. Inv'
    BY InvNext
  <2>2. GraphInv'
    BY GraphOnceMore, GraphConsumed DEF Inv
  <2>3. DoneInv'
    BY DoneNext
  <2> QED BY <2>1, <2>2, <2>3
<1>3. J => GraphComplete
  <2> SUFFICES ASSUME J, NEW p \in printed, NEW c, c = p.sess, c \notin lost, callee[c] \in GraphRoots,
                      NEW d \in 1..ncalls, callee[d] \in Graphs,
                      c = Nearest(d, accepted), Distance(c, d) <= GraphDepth
               PROVE  Lists(p.lines, "graph_entry", d) /\ Lists(p.lines, "graph_exit", d)
    BY DEF GraphComplete, Lists
  <2>1. KernelInv /\ c \in accepted \ live /\ conf \in Confs
    BY DEF Inv, PrintedInv, KernelInv, SessInv
  <2>2. OfGraph(d, c) /\ Complete(c)
    BY <2>1 DEF OfGraph, Complete
  <2>3. Ended(d)
    BY <2>1, <2>2, GraphCaller DEF Ended
  <2>4. d \in Calls
    <3>1. ncalls \in 0..MaxCalls /\ MaxCalls \in Nat
      BY <2>1, FgraphAssumption DEF KernelInv, StackInv
    <3> QED BY <3>1 DEF Calls
  <2> QED BY <2>2, <2>3, <2>4 DEF DoneInv
<1> HIDE DEF J
<1> QED BY <1>1, <1>2, <1>3, PTL DEF Spec
============================================================================
