----------------------- MODULE FuncGraphParser_proofs -----------------------
(***************************************************************************)
(* Proofs about FuncGraphParser, for every call graph, every list of       *)
(* functions and every depth.  The properties of the result speak of       *)
(* Added, a recursive function; the proof replaces it by what it computes, *)
(* the least family of sets closed under calling, and the invariant is     *)
(* about closed families only.                                             *)
(***************************************************************************)
EXTENDS FuncGraphParser, FiniteSetTheorems, WellFoundedInduction, TLAPS

-----------------------------------------------------------------------------
(* Sequences and the records of goroutines.                                *)

LEMMA ToSetSplit ==
  ASSUME NEW S, NEW s \in Seq(S), s # <<>>
  PROVE  /\ Head(s) \in S /\ Tail(s) \in Seq(S)
         /\ ToSet(s) = {Head(s)} \cup ToSet(Tail(s))
<1>1. Head(s) \in S /\ Tail(s) \in Seq(S) /\ Len(s) \in Nat /\ Len(s) > 0 /\ Head(s) = s[1]
  OBVIOUS
<1>2. Len(Tail(s)) = Len(s) - 1 /\ \A i \in 1..(Len(s) - 1) : Tail(s)[i] = s[i + 1]
  OBVIOUS
<1>3. DOMAIN s = 1..Len(s) /\ DOMAIN Tail(s) = 1..(Len(s) - 1)
  BY <1>1, <1>2
<1>4. ToSet(s) \subseteq {Head(s)} \cup ToSet(Tail(s))
  <2> SUFFICES ASSUME NEW i \in 1..Len(s), i # 1 PROVE s[i] \in ToSet(Tail(s))
    BY <1>1, <1>3 DEF ToSet
  <2>1. i - 1 \in 1..(Len(s) - 1) /\ Tail(s)[i - 1] = s[i]
    BY <1>1, <1>2
  <2> QED BY <1>3, <2>1 DEF ToSet
<1>5. {Head(s)} \cup ToSet(Tail(s)) \subseteq ToSet(s)
  <2>1. 1 \in DOMAIN s /\ \A i \in 1..(Len(s) - 1) : i + 1 \in DOMAIN s
    BY <1>1, <1>3
  <2> QED BY <1>1, <1>2, <1>3, <2>1 DEF ToSet
<1> QED BY <1>1, <1>4, <1>5

LEMMA ToSetIn ==
  ASSUME NEW S, NEW s \in Seq(S)
  PROVE  ToSet(s) \subseteq S
BY DEF ToSet

LEMMA OneInSeq == ASSUME NEW S, NEW x \in S PROVE <<x>> \in Seq(S)
OBVIOUS

LEMMA ToSetEmpty == ToSet(<<>>) = {}
BY DEF ToSet

LEMMA ToSetOne == ASSUME NEW x PROVE ToSet(<<x>>) = {x}
<1>1. DOMAIN <<x>> = {1} /\ <<x>>[1] = x
  OBVIOUS
<1> QED BY <1>1 DEF ToSet

Pcs == {"start", "lookup", "next", "found", "new", "sized"}

LEMMA Shallow ==
  ASSUME NEW t \in Task, ~TooDeep(t)
  PROVE  t.at \in Depths
BY ParserAssumption DEF Task, TooDeep, Depths

LEMMA AtFields ==
  ASSUME NEW t \in Task, NEW q \in Pcs
  PROVE  /\ At(t, q) \in Task /\ At(t, q).pc = q
         /\ At(t, q).ip = t.ip /\ At(t, q).depth = t.depth /\ At(t, q).bpf = t.bpf
         /\ At(t, q).todo = t.todo /\ At(t, q).at = t.at /\ At(t, q).store = t.store
         /\ Cur(At(t, q)) = Cur(t)
BY DEF At, Task, Pcs, Cur

LEMMA NextFields ==
  ASSUME NEW t \in Task, t.todo # <<>>
  PROVE  /\ NextAdd(t) \in Task /\ NextAdd(t).pc = "next"
         /\ NextAdd(t).ip = t.ip /\ NextAdd(t).depth = t.depth /\ NextAdd(t).bpf = t.bpf
         /\ NextAdd(t).todo = Tail(t.todo) /\ NextAdd(t).at = t.at /\ NextAdd(t).store = t.store
         /\ Cur(t) \in Funcs
         /\ ToSet(t.todo) = {Cur(t)} \cup ToSet(NextAdd(t).todo)
<1>1. t.todo \in Seq(Funcs)
  BY DEF Task
<1>2. Cur(t) \in Funcs /\ Tail(t.todo) \in Seq(Funcs)
  BY <1>1, ToSetSplit DEF Cur
<1>3. /\ NextAdd(t) \in Task /\ NextAdd(t).pc = "next"
      /\ NextAdd(t).ip = t.ip /\ NextAdd(t).depth = t.depth /\ NextAdd(t).bpf = t.bpf
      /\ NextAdd(t).todo = Tail(t.todo) /\ NextAdd(t).at = t.at /\ NextAdd(t).store = t.store
  BY <1>2 DEF NextAdd, Task
<1> QED BY <1>1, <1>2, <1>3, ToSetSplit DEF Cur

LEMMA ParseFields ==
  ASSUME NEW f \in Funcs, NEW d \in Depths, NEW b \in BOOLEAN
  PROVE  /\ Parse(f, d, b) \in Task /\ Parse(f, d, b).pc = "start"
         /\ Parse(f, d, b).ip = f /\ Parse(f, d, b).depth = d /\ Parse(f, d, b).bpf = b
         /\ Parse(f, d, b).todo = <<>> /\ Parse(f, d, b).at = d + 1 /\ ~Parse(f, d, b).store
BY ParserAssumption DEF Parse, Task, Depths

LEMMA LoopFields ==
  ASSUME NEW fs \in Seq(Funcs), NEW d \in {0, 1}
  PROVE  /\ AddLoop(fs, d) \in Task /\ AddLoop(fs, d).pc = "next"
         /\ AddLoop(fs, d).ip = NoFunc /\ AddLoop(fs, d).depth = 0 /\ ~AddLoop(fs, d).bpf
         /\ AddLoop(fs, d).todo = fs /\ AddLoop(fs, d).at = d /\ ~AddLoop(fs, d).store
BY ParserAssumption DEF AddLoop, Task, Depths

-----------------------------------------------------------------------------
(* The core of the invariant: who fills in a FuncGraph, who parses.        *)

Shape(t) ==
  /\ t.ip = NoFunc => t.pc \notin {"start", "lookup"}
  /\ t.pc \in {"start", "lookup"} => t.at = t.depth + 1 /\ ~t.store
  /\ t.store => t.ip # NoFunc

\* A goroutine that has put a FuncGraph in the table and has yet to fill it in.
Filler(t) == t.pc \in {"new", "sized"}

Filling ==
  /\ \A t \in tasks :
       /\ t.pc = "found" => graphs[Cur(t)] # "absent"
       /\ t.pc = "new" => graphs[Cur(t)] = "placed"
       /\ t.pc = "sized" => graphs[Cur(t)] = "sized"
  /\ \A t, u \in tasks : Filler(t) /\ Filler(u) /\ Cur(t) = Cur(u) => t = u
  /\ \A f \in Funcs : graphs[f] \in {"placed", "sized"} => \E t \in tasks : Filler(t) /\ Cur(t) = f
  /\ \A f \in Funcs : /\ graphs[f] = "empty" => f \notin Traceable
                      /\ graphs[f] \in {"sized", "known"} => f \in Traceable

Once ==
  /\ \A t \in tasks : t.ip # NoFunc /\ t.pc # "start" => <<t.ip, t.depth>> \in parsed
  /\ \A t, u \in tasks :
       /\ t.ip # NoFunc /\ t.ip = u.ip /\ t.depth = u.depth
       /\ t.pc # "start" /\ u.pc # "start"
       => t = u

Core ==
  /\ TypeOK
  /\ \A t \in tasks : Shape(t)
  /\ phase \in {"done", "failed"} => tasks = {}
  /\ Filling /\ Once

\* A step that fills in no FuncGraph: t goes on as the tasks of N, or ends.
Quiet(t, N) ==
  /\ tasks' = (tasks \ {t}) \cup N /\ N \subseteq Task
  /\ t.pc # "start" /\ ~Filler(t)
  /\ \A n \in N : /\ Shape(n) /\ ~Filler(n)
                  /\ n.pc = "start" \/ (n.ip = t.ip /\ n.depth = t.depth)
                  /\ n.pc = "found" => n.todo # <<>> /\ n.at \in Depths /\ graphs[Cur(n)] # "absent"
  /\ \A n, m \in N : n.pc # "start" /\ m.pc # "start" => n = m
  /\ callee' \subseteq Funcs /\ missed' \subseteq {"deny", "graph", "misread"} /\ err' \in BOOLEAN
  /\ UNCHANGED <<phase, graphs, parsed, cancelled, denylist, result>>

LEMMA QuietCore ==
  ASSUME Core, NEW t \in tasks, NEW N, Quiet(t, N)
  PROVE  Core'
<1> USE DEF Quiet
<1> USE DEF Core
<1>1. \A u \in tasks' : (u \in tasks /\ u # t) \/ u \in N
  OBVIOUS
<1>2. TypeOK'
  <2>1. tasks' \subseteq Task
    BY DEF TypeOK
  <2>2. \A u \in tasks' : u.pc \in {"found", "new", "sized"} => u.todo # <<>> /\ u.at \in Depths
    BY <1>1 DEF TypeOK, Filler
  <2> QED BY <2>1, <2>2 DEF TypeOK
<1>3. \A u \in tasks' : Shape(u)
  BY <1>1
<1>4. phase' \notin {"done", "failed"}
  OBVIOUS
<1>5. Filling'
  <2>1. \A u \in tasks' : /\ u.pc = "found" => graphs[Cur(u)] # "absent"
                          /\ u.pc = "new" => graphs[Cur(u)] = "placed"
                          /\ u.pc = "sized" => graphs[Cur(u)] = "sized"
    BY <1>1 DEF Filling, Filler
  <2>2. \A u, w \in tasks' : Filler(u) /\ Filler(w) /\ Cur(u) = Cur(w) => u = w
    BY <1>1 DEF Filling
  <2>3. \A f \in Funcs : graphs[f] \in {"placed", "sized"} => \E u \in tasks' : Filler(u) /\ Cur(u) = f
    BY DEF Filling
  <2> QED BY <2>1, <2>2, <2>3 DEF Filling
<1>6. Once'
  <2>1. \A u \in tasks' : u.ip # NoFunc /\ u.pc # "start" => <<u.ip, u.depth>> \in parsed
    BY <1>1 DEF Once
  <2>2. \A u, w \in tasks' :
          u.ip # NoFunc /\ u.ip = w.ip /\ u.depth = w.depth /\ u.pc # "start" /\ w.pc # "start" => u = w
    BY <1>1 DEF Once
  <2> QED BY <2>1, <2>2 DEF Once
<1> QED BY <1>2, <1>3, <1>4, <1>5, <1>6

\* A step of a goroutine at the function Cur(t), whose FuncGraph it changes.
Fills(t, N, s) ==
  /\ tasks' = (tasks \ {t}) \cup N /\ N \subseteq Task
  /\ t.todo # <<>> /\ Cur(t) \in Funcs
  /\ t.pc = "next" \/ Filler(t)
  /\ t.pc = "next" => graphs[Cur(t)] = "absent"
  /\ graphs' = [graphs EXCEPT ![Cur(t)] = s]
  /\ \/ s = "placed" /\ N = {At(t, "new")} /\ t.at \in Depths
     \/ s = "sized" /\ N = {At(t, "sized")} /\ t.at \in Depths /\ Cur(t) \in Traceable
     \/ /\ s = IF Cur(t) \in Traceable THEN "known" ELSE "empty"
        /\ \A n \in N : n = NextAdd(t) \/ (n.pc = "start" /\ n.at = n.depth + 1 /\ ~n.store /\ n.ip # NoFunc)
  /\ UNCHANGED <<phase, callee, parsed, err, cancelled, denylist, result, missed>>

LEMMA FillCore ==
  ASSUME Core, NEW t \in tasks, NEW N, NEW s \in {"placed", "sized", "known", "empty"}, Fills(t, N, s)
  PROVE  Core'
<1> USE DEF Fills
<1> USE DEF Core
<1>1. t \in Task
  BY DEF TypeOK
<1>2. \A u \in tasks' : (u \in tasks /\ u # t) \/ u \in N
  OBVIOUS
<1>3. \A n \in N : \/ n.pc = "start" /\ n.at = n.depth + 1 /\ ~n.store /\ n.ip # NoFunc
                   \/ /\ n.ip = t.ip /\ n.depth = t.depth /\ n.store = t.store
                      /\ n.pc \in {"next", "new", "sized"}
                      /\ n.pc = "new" => s = "placed" /\ Cur(n) = Cur(t)
                      /\ n.pc = "sized" => s = "sized" /\ Cur(n) = Cur(t)
                      /\ n.pc # "next" => n.todo # <<>> /\ n.at \in Depths
  BY <1>1, AtFields, NextFields DEF Pcs
<1>4. \A n, m \in N : n.pc # "start" /\ m.pc # "start" => n = m
  BY <1>1, AtFields, NextFields DEF Pcs
<1>5. \A u \in tasks : u # t /\ Filler(u) => Cur(u) # Cur(t) /\ Cur(u) \in Funcs
  <2> SUFFICES ASSUME NEW u \in tasks, u # t, Filler(u) PROVE Cur(u) # Cur(t) /\ Cur(u) \in Funcs
    OBVIOUS
  <2>1. Cur(u) \in Funcs
    BY NextFields DEF TypeOK, Filler
  <2>2. CASE t.pc = "next"
    BY <2>1, <2>2 DEF Filling, Filler
  <2>3. CASE Filler(t)
    BY <2>1, <2>3 DEF Filling
  <2> QED BY <2>1, <2>2, <2>3
<1>6. TypeOK'
  <2>1. tasks' \subseteq Task
    BY DEF TypeOK
  <2>2. \A u \in tasks' : u.pc \in {"found", "new", "sized"} => u.todo # <<>> /\ u.at \in Depths
    BY <1>2, <1>3 DEF TypeOK
  <2>3. graphs' \in [Funcs -> GraphStates]
    BY DEF TypeOK, GraphStates
  <2> QED BY <2>1, <2>2, <2>3 DEF TypeOK
<1>7. \A u \in tasks' : Shape(u)
  BY <1>2, <1>3 DEF Shape
<1>8. phase' \notin {"done", "failed"}
  OBVIOUS
<1>9. Filling'
  <2>1. graphs'[Cur(t)] = s /\ \A f \in Funcs : f # Cur(t) => graphs'[f] = graphs[f]
    BY DEF TypeOK
  <2>2. \A u \in tasks' : /\ u.pc = "found" => graphs'[Cur(u)] # "absent"
                          /\ u.pc = "new" => graphs'[Cur(u)] = "placed"
                          /\ u.pc = "sized" => graphs'[Cur(u)] = "sized"
    <3> SUFFICES ASSUME NEW u \in tasks'
                 PROVE  /\ u.pc = "found" => graphs'[Cur(u)] # "absent"
                        /\ u.pc = "new" => graphs'[Cur(u)] = "placed"
                        /\ u.pc = "sized" => graphs'[Cur(u)] = "sized"
      OBVIOUS
    <3>1. CASE u \in N
      BY <1>3, <2>1, <3>1
    <3>2. CASE u \in tasks /\ u # t /\ u.pc \in {"found", "new", "sized"}
      <4>1. Cur(u) \in Funcs
        BY <3>2, NextFields DEF TypeOK
      <4>2. CASE u.pc = "found"
        BY <2>1, <3>2, <4>1, <4>2 DEF Filling
      <4>3. CASE Filler(u)
        BY <1>5, <2>1, <3>2, <4>1, <4>3 DEF Filling
      <4> QED BY <3>2, <4>2, <4>3 DEF Filler
    <3> QED BY <1>2, <3>1, <3>2
  <2>3. \A u, w \in tasks' : Filler(u) /\ Filler(w) /\ Cur(u) = Cur(w) => u = w
    <3>1. \A n \in N : Filler(n) => Cur(n) = Cur(t) /\ n.pc # "start"
      BY <1>3 DEF Filler
    <3> QED BY <1>2, <1>4, <1>5, <3>1 DEF Filling
  <2>4. ASSUME NEW f \in Funcs, graphs'[f] \in {"placed", "sized"}
        PROVE  \E u \in tasks' : Filler(u) /\ Cur(u) = f
    <3>1. CASE f = Cur(t)
      <4>1. s \in {"placed", "sized"}
        BY <2>1, <2>4, <3>1
      <4>2. \/ N = {At(t, "new")} \/ N = {At(t, "sized")}
        BY <4>1
      <4> QED BY <1>1, <3>1, <4>2, AtFields DEF Filler, Pcs
    <3>2. CASE f # Cur(t)
      <4>1. PICK u \in tasks : Filler(u) /\ Cur(u) = f
        BY <2>1, <2>4, <3>2 DEF Filling
      <4> QED BY <3>2, <4>1
    <3> QED BY <3>1, <3>2
  <2>5. \A f \in Funcs : /\ graphs'[f] = "empty" => f \notin Traceable
                         /\ graphs'[f] \in {"sized", "known"} => f \in Traceable
    BY <2>1 DEF Filling
  <2> QED BY <2>2, <2>3, <2>4, <2>5 DEF Filling
<1>10. Once'
  <2>1. \A u \in tasks' : u.ip # NoFunc /\ u.pc # "start" => <<u.ip, u.depth>> \in parsed
    BY <1>2, <1>3 DEF Once, Filler
  <2>2. \A u, w \in tasks' :
          u.ip # NoFunc /\ u.ip = w.ip /\ u.depth = w.depth /\ u.pc # "start" /\ w.pc # "start" => u = w
    BY <1>2, <1>3, <1>4 DEF Once, Filler
  <2> QED BY <2>1, <2>2 DEF Once
<1> QED BY <1>6, <1>7, <1>8, <1>9, <1>10

LEMMA StartCore ==
  ASSUME Core, NEW t \in tasks, Start(t)
  PROVE  Core'
<1> USE DEF Core
<1>1. t \in Task /\ At(t, "lookup") \in Task /\ t.ip # NoFunc /\ t.ip \in Funcs /\ t.depth \in Depths
  BY AtFields DEF TypeOK, Pcs, Task, Start, Shape
<1>2. PICK N : /\ tasks' = (tasks \ {t}) \cup N
               /\ N = {} \/ (N = {At(t, "lookup")} /\ <<t.ip, t.depth>> \notin parsed)
  BY DEF Start, Move, End, checkParsed
<1>3. \A n \in N : /\ n = At(t, "lookup") /\ n \in Task /\ n.pc = "lookup" /\ n.ip = t.ip /\ n.depth = t.depth
                   /\ n.at = t.depth + 1 /\ ~n.store
  BY <1>1, <1>2, AtFields DEF Pcs, Start, Shape
<1>4. \A u \in tasks' : (u \in tasks /\ u # t) \/ u \in N
  BY <1>2
<1>5. TypeOK'
  <2>1. tasks' \subseteq Task
    BY <1>3, <1>4 DEF TypeOK
  <2>2. \A u \in tasks' : u.pc \in {"found", "new", "sized"} => u.todo # <<>> /\ u.at \in Depths
    BY <1>3, <1>4 DEF TypeOK
  <2>3. parsed' \subseteq Funcs \X Depths
    BY <1>1 DEF TypeOK, Start
  <2> QED BY <2>1, <2>2, <2>3 DEF TypeOK, Start
<1>6. \A u \in tasks' : Shape(u)
  BY <1>1, <1>3, <1>4 DEF Shape
<1>7. phase' \notin {"done", "failed"}
  BY DEF Start
<1>8. Filling'
  <2>1. \A u \in tasks' : Filler(u) \/ u.pc = "found" => u \in tasks
    BY <1>3, <1>4 DEF Filler
  <2>2. \A f \in Funcs : graphs[f] \in {"placed", "sized"} => \E u \in tasks' : Filler(u) /\ Cur(u) = f
    BY <1>2 DEF Filling, Filler, Start
  <2>3. graphs' = graphs
    BY DEF Start
  <2>4. \A u \in tasks' : /\ u.pc = "found" => graphs[Cur(u)] # "absent"
                          /\ u.pc = "new" => graphs[Cur(u)] = "placed"
                          /\ u.pc = "sized" => graphs[Cur(u)] = "sized"
    BY <2>1 DEF Filling, Filler
  <2> QED BY <2>1, <2>2, <2>3, <2>4 DEF Filling
<1>9. Once'
  <2>1. parsed' = parsed \cup {<<t.ip, t.depth>>}
    BY DEF Start
  <2>2. \A u \in tasks' : u.ip # NoFunc /\ u.pc # "start" => <<u.ip, u.depth>> \in parsed'
    BY <1>3, <1>4, <2>1 DEF Once
  <2>3. ASSUME NEW n \in N, NEW u \in tasks, u.ip = n.ip, u.depth = n.depth, u.pc # "start"
        PROVE  FALSE
    <3>1. <<u.ip, u.depth>> = <<t.ip, t.depth>>
      BY <1>3, <2>3
    <3> QED BY <1>1, <1>2, <1>3, <2>3, <3>1 DEF Once
  <2>4. \A u, w \in tasks' :
          u.ip # NoFunc /\ u.ip = w.ip /\ u.depth = w.depth /\ u.pc # "start" /\ w.pc # "start" => u = w
    BY <1>3, <1>4, <2>3 DEF Once
  <2> QED BY <2>2, <2>4 DEF Once
<1> QED BY <1>5, <1>6, <1>7, <1>8, <1>9

\* What a goroutine does with the callees it knows.
LEMMA LookupFields ==
  ASSUME NEW t \in Task, t.pc = "lookup", Shape(t), TypeOK,
         Lookup(t) \/ Disassemble(t) \/ DisassembleReplaced(t)
  PROVE  \E n \in Task :
           /\ tasks' = (tasks \ {t}) \cup {n}
           /\ n.pc = "next" /\ n.ip = t.ip /\ n.depth = t.depth /\ n.bpf = t.bpf
           /\ t.ip \in Funcs /\ t.depth \in Depths
           /\ \/ n.todo = Callees[t.ip] /\ n.at = t.depth + 1 /\ t.ip \in callee /\ ~n.store
              \/ /\ n.todo = Callees[t.ip] /\ n.at = t.depth + 1 /\ n.store
                 /\ ~(t.bpf /\ Replaced[t.ip] # NoFunc)
              \/ /\ n.todo = <<Replaced[t.ip]>> /\ n.at = t.depth /\ ~n.store
                 /\ t.bpf /\ Replaced[t.ip] # NoFunc
           /\ UNCHANGED <<phase, graphs, callee, parsed, err, cancelled, denylist, result, missed>>
<1>1. /\ t.ip \in Funcs /\ t.depth \in Depths /\ t.at = t.depth + 1 /\ ~t.store /\ t.bpf \in BOOLEAN
      /\ t.at \in 0..(MaxDepth + 1) /\ t.depth \in 0..(MaxDepth + 1)
  BY ParserAssumption DEF Task, Shape, Depths
<1>2. Callees[t.ip] \in Seq(Funcs)
  BY <1>1, ParserAssumption
<1>3. CASE Lookup(t)
  <2> DEFINE n == [t EXCEPT !.pc = "next", !.todo = Callees[t.ip]]
  <2>1. n \in Task /\ n.pc = "next" /\ n.ip = t.ip /\ n.depth = t.depth /\ n.bpf = t.bpf
        /\ n.todo = Callees[t.ip] /\ n.at = t.at /\ n.store = t.store
    BY <1>1, <1>2 DEF Task
  <2>2. tasks' = (tasks \ {t}) \cup {n} /\ t.ip \in callee
    BY <1>3 DEF Lookup, Cached, Move
  <2>3. UNCHANGED <<phase, graphs, callee, parsed, err, cancelled, denylist, result, missed>>
    BY <1>3 DEF Lookup
  <2> HIDE DEF n
  <2> QED BY <1>1, <2>1, <2>2, <2>3
<1>4. CASE Disassemble(t)
  <2> DEFINE n == [t EXCEPT !.pc = "next", !.todo = Callees[t.ip], !.store = TRUE]
  <2>1. n \in Task /\ n.pc = "next" /\ n.ip = t.ip /\ n.depth = t.depth /\ n.bpf = t.bpf
        /\ n.todo = Callees[t.ip] /\ n.at = t.at /\ n.store
    BY <1>1, <1>2 DEF Task
  <2>2. tasks' = (tasks \ {t}) \cup {n} /\ ~(t.bpf /\ Replaced[t.ip] # NoFunc)
    BY <1>4 DEF Disassemble, Move
  <2>3. UNCHANGED <<phase, graphs, callee, parsed, err, cancelled, denylist, result, missed>>
    BY <1>4 DEF Disassemble
  <2> HIDE DEF n
  <2> QED BY <1>1, <2>1, <2>2, <2>3
<1>5. CASE DisassembleReplaced(t)
  <2> DEFINE n == [t EXCEPT !.pc = "next", !.todo = <<Replaced[t.ip]>>, !.at = t.depth]
  <2>1. Replaced[t.ip] \in Funcs
    BY <1>1, <1>5, ParserAssumption DEF DisassembleReplaced
  <2>2. n \in Task /\ n.pc = "next" /\ n.ip = t.ip /\ n.depth = t.depth /\ n.bpf = t.bpf
        /\ n.todo = <<Replaced[t.ip]>> /\ n.at = t.depth /\ n.store = t.store
    <3>1. PICK q \in Seq(Funcs) : q = <<Replaced[t.ip]>>
      BY <2>1, OneInSeq
    <3>2. n = [t EXCEPT !.pc = "next", !.todo = q, !.at = t.depth]
      BY <3>1
    <3> QED BY <1>1, <3>1, <3>2 DEF Task
  <2>3. tasks' = (tasks \ {t}) \cup {n} /\ t.bpf /\ Replaced[t.ip] # NoFunc
    BY <1>5 DEF DisassembleReplaced, Move
  <2>4. UNCHANGED <<phase, graphs, callee, parsed, err, cancelled, denylist, result, missed>>
    BY <1>5 DEF DisassembleReplaced
  <2> HIDE DEF n
  <2> QED BY <1>1, <2>2, <2>3, <2>4
<1> QED BY <1>3, <1>4, <1>5

\* What add goes on to when it has met a FuncGraph.
LEMMA AgainFields ==
  ASSUME NEW t \in tasks, TypeOK, AddAgain(t)
  PROVE  \E N : /\ tasks' = (tasks \ {t}) \cup N /\ N \subseteq Task
                /\ t.todo # <<>> /\ Cur(t) \in Funcs /\ t.at \in Depths
                /\ NextAdd(t) \in N
                /\ N = IF HasBytes(Cur(t)) THEN {NextAdd(t), Parse(Cur(t), t.at, IsBPF(Cur(t)))}
                                           ELSE {NextAdd(t)}
<1>1. t \in Task /\ t.todo # <<>> /\ t.at \in Depths
  BY DEF TypeOK, AddAgain
<1>2. NextAdd(t) \in Task /\ Cur(t) \in Funcs
  BY <1>1, NextFields
<1>3. Parse(Cur(t), t.at, IsBPF(Cur(t))) \in Task
  <2>1. IsBPF(Cur(t)) \in BOOLEAN
    BY DEF IsBPF
  <2> QED BY <1>1, <1>2, <2>1, ParseFields
<1> QED BY <1>1, <1>2, <1>3 DEF AddAgain, ParseAgain, Move, MoveSpawn

LEMMA QuietStep ==
  ASSUME Core, NEW t \in tasks,
         \/ Lookup(t) \/ Disassemble(t) \/ DisassembleReplaced(t) \/ DisassembleFails(t)
         \/ Finish(t) \/ AddTooDeep(t) \/ AddKnown(t) \/ AddAgain(t)
  PROVE  \E N : Quiet(t, N)
<1>1. t \in Task /\ Shape(t) /\ TypeOK /\ Filling
  BY DEF TypeOK, Core
<1>2. callee \subseteq Funcs /\ missed \subseteq {"deny", "graph", "misread"} /\ err \in BOOLEAN
      /\ phase \in {"deny", "graph"}
  BY DEF TypeOK, Core
<1>3. CASE Lookup(t) \/ Disassemble(t) \/ DisassembleReplaced(t)
  <2>1. t.pc = "lookup"
    BY <1>3 DEF Lookup, Cached, Disassemble, DisassembleReplaced
  <2>2. PICK n \in Task :
           /\ tasks' = (tasks \ {t}) \cup {n}
           /\ n.pc = "next" /\ n.ip = t.ip /\ n.depth = t.depth
           /\ t.ip \in Funcs
           /\ UNCHANGED <<phase, graphs, callee, parsed, err, cancelled, denylist, result, missed>>
    BY <1>1, <1>3, <2>1, LookupFields
  <2>3. Shape(n) /\ ~Filler(n) /\ ~Filler(t)
    BY <2>1, <2>2, ParserAssumption DEF Shape, Filler
  <2>4. Quiet(t, {n})
    BY <1>2, <2>1, <2>2, <2>3 DEF Quiet
  <2> QED BY <2>4
<1>4. CASE DisassembleFails(t)
  <2>1. Quiet(t, {})
    BY <1>2, <1>4 DEF DisassembleFails, End, Filler, Quiet
  <2> QED BY <2>1
<1>5. CASE Finish(t)
  <2>1. callee' \subseteq Funcs
    BY <1>1, <1>2, <1>5 DEF Finish, Task, Shape
  <2>2. Quiet(t, {})
    BY <1>2, <1>5, <2>1 DEF Finish, End, Filler, Quiet
  <2> QED BY <2>2
<1>6. CASE AddTooDeep(t)
  <2>1. t.pc = "next" /\ t.todo # <<>> /\ ~Filler(t)
    BY <1>6 DEF AddTooDeep, Filler
  <2>2. Shape(NextAdd(t)) /\ ~Filler(NextAdd(t))
    BY <1>1, <2>1, NextFields DEF Shape, Filler
  <2>3. Quiet(t, {NextAdd(t)})
    BY <1>1, <1>2, <1>6, <2>1, <2>2, NextFields DEF AddTooDeep, Move, Quiet
  <2> QED BY <2>3
<1>7. CASE AddKnown(t)
  <2>1. t.pc = "next" /\ t.todo # <<>> /\ ~Filler(t) /\ t.at \in Depths
    BY <1>1, <1>7, Shallow DEF AddKnown, Filler
  <2> DEFINE n == At(t, "found")
  <2>2. n \in Task /\ n.pc = "found" /\ n.ip = t.ip /\ n.depth = t.depth /\ n.store = t.store
        /\ n.todo = t.todo /\ n.at = t.at /\ Cur(n) = Cur(t)
    BY <1>1, AtFields DEF Pcs
  <2>3. tasks' = (tasks \ {t}) \cup {n} /\ graphs[Cur(t)] # "absent"
        /\ UNCHANGED <<phase, graphs, callee, parsed, err, cancelled, denylist, result, missed>>
    BY <1>7 DEF AddKnown, Move
  <2> HIDE DEF n
  <2>4. Shape(n) /\ ~Filler(n)
    BY <1>1, <2>1, <2>2 DEF Shape, Filler
  <2>5. Quiet(t, {n})
    BY <1>2, <2>1, <2>2, <2>3, <2>4 DEF Quiet
  <2> QED BY <2>5
<1>8. CASE AddAgain(t)
  <2>1. PICK N : /\ tasks' = (tasks \ {t}) \cup N /\ N \subseteq Task
                 /\ t.todo # <<>> /\ Cur(t) \in Funcs /\ t.at \in Depths
                 /\ N = IF HasBytes(Cur(t)) THEN {NextAdd(t), Parse(Cur(t), t.at, IsBPF(Cur(t)))}
                                            ELSE {NextAdd(t)}
    BY <1>1, <1>8, AgainFields
  <2>2. \A n \in N : \/ n = NextAdd(t) /\ n.pc = "next" /\ n.ip = t.ip /\ n.depth = t.depth /\ n.store = t.store
                     \/ n.pc = "start" /\ n.ip = Cur(t) /\ n.ip # NoFunc /\ n.at = n.depth + 1 /\ ~n.store
    <3>1. IsBPF(Cur(t)) \in BOOLEAN /\ Cur(t) # NoFunc
      BY <2>1, ParserAssumption DEF IsBPF
    <3> HIDE DEF IsBPF
    <3>2. PICK b \in BOOLEAN : b = IsBPF(Cur(t))
      BY <3>1
    <3>3. PICK p : p = Parse(Cur(t), t.at, b)
      OBVIOUS
    <3>4. p.pc = "start" /\ p.ip = Cur(t) /\ p.at = p.depth + 1 /\ ~p.store
      BY <2>1, <3>3, ParseFields
    <3> QED BY <1>1, <2>1, <3>1, <3>2, <3>3, <3>4, NextFields
  <2>3. t.pc = "found" /\ ~Filler(t)
    BY <1>8 DEF AddAgain, Filler
  <2>4. \A n \in N : Shape(n) /\ ~Filler(n)
    BY <1>1, <2>2, <2>3 DEF Shape, Filler
  <2>5. missed' \subseteq {"deny", "graph", "misread"}
    BY <1>2, <1>8 DEF AddAgain
  <2>6. UNCHANGED <<phase, graphs, callee, err, parsed, cancelled, denylist, result>>
    BY <1>8 DEF AddAgain
  <2>7. \A n, m \in N : n.pc # "start" /\ m.pc # "start" => n = m
    BY <2>2
  <2>8. Quiet(t, N)
    BY <1>2, <2>1, <2>2, <2>3, <2>4, <2>5, <2>6, <2>7 DEF Quiet
  <2> QED BY <2>8
<1> QED BY <1>3, <1>4, <1>5, <1>6, <1>7, <1>8

LEMMA FillStep ==
  ASSUME Core, NEW t \in tasks, AddNew(t) \/ AddUntraceable(t) \/ AddSize(t) \/ AddParse(t)
  PROVE  \E N, s : s \in {"placed", "sized", "known", "empty"} /\ Fills(t, N, s)
<1>1. t \in Task /\ Shape(t) /\ TypeOK /\ Filling
  BY DEF TypeOK, Core
<1>2. t.todo # <<>> /\ t.at \in Depths /\ Cur(t) \in Funcs
  <2>1. t.todo # <<>> /\ t.at \in Depths
    BY <1>1, Shallow DEF AddNew, AddUntraceable, AddSize, AddParse, TypeOK
  <2> QED BY <1>1, <2>1, NextFields
<1>3. At(t, "new") \in Task /\ At(t, "sized") \in Task /\ NextAdd(t) \in Task
  BY <1>1, <1>2, AtFields, NextFields DEF Pcs
<1>4. CASE AddNew(t)
  <2>1. Fills(t, {At(t, "new")}, "placed")
    BY <1>2, <1>3, <1>4 DEF AddNew, Move, Place, Fills
  <2> QED BY <2>1
<1>5. CASE AddUntraceable(t)
  <2>1. Fills(t, {NextAdd(t)}, "empty")
    BY <1>2, <1>3, <1>5 DEF AddUntraceable, Move, Fills, Filler
  <2> QED BY <2>1
<1>6. CASE AddSize(t)
  <2>1. Fills(t, {At(t, "sized")}, "sized")
    BY <1>2, <1>3, <1>6 DEF AddSize, Move, Fills, Filler
  <2> QED BY <2>1
<1>7. CASE AddParse(t)
  <2> DEFINE p == Parse(Cur(t), t.at, Replaced[Cur(t)] # NoFunc)
  <2>1. Cur(t) \in Traceable
    BY <1>1, <1>2, <1>7 DEF Filling, AddParse
  <2>2. p \in Task /\ p.pc = "start" /\ p.at = p.depth + 1 /\ ~p.store /\ p.ip # NoFunc
    <3>1. Cur(t) # NoFunc
      BY <1>2, ParserAssumption
    <3>2. PICK b \in BOOLEAN : b = (Replaced[Cur(t)] # NoFunc)
      OBVIOUS
    <3>3. p = Parse(Cur(t), t.at, b)
      BY <3>2
    <3> HIDE DEF p
    <3> QED BY <1>2, <3>1, <3>3, ParseFields
  <2>3. \E N : N \subseteq {NextAdd(t), p} /\ tasks' = (tasks \ {t}) \cup N
    BY <1>7 DEF AddParse, Move, MoveSpawn
  <2>4. graphs' = [graphs EXCEPT ![Cur(t)] = "known"] /\ t.pc = "sized"
        /\ UNCHANGED <<phase, callee, parsed, err, cancelled, denylist, result, missed>>
    BY <1>7 DEF AddParse
  <2> HIDE DEF p
  <2>5. PICK N : N \subseteq {NextAdd(t), p} /\ tasks' = (tasks \ {t}) \cup N
    BY <2>3
  <2>6. Fills(t, N, "known")
    BY <1>2, <1>3, <2>1, <2>2, <2>4, <2>5 DEF Fills, Filler
  <2> QED BY <2>6
<1> QED BY <1>4, <1>5, <1>6, <1>7

LEMMA CoreStep ==
  ASSUME Core, NEW t \in tasks, TaskStep(t)
  PROVE  Core'
<1>1. CASE Start(t)
  BY <1>1, StartCore
<1>2. CASE \/ Lookup(t) \/ Disassemble(t) \/ DisassembleReplaced(t) \/ DisassembleFails(t)
           \/ Finish(t) \/ AddTooDeep(t) \/ AddKnown(t) \/ AddAgain(t)
  BY <1>2, QuietStep, QuietCore
<1>3. CASE AddNew(t) \/ AddUntraceable(t) \/ AddSize(t) \/ AddParse(t)
  BY <1>3, FillStep, FillCore
<1> QED BY <1>1, <1>2, <1>3 DEF TaskStep

LEMMA ListsTyped ==
  /\ DenyList \in Seq(Funcs) /\ Extra \in Seq(Funcs)
  /\ ToSet(DenyList) \subseteq Traceable /\ ToSet(Extra) \subseteq Traceable
  /\ Traceable \subseteq Funcs /\ 0 \in Depths
BY ParserAssumption, ToSetIn DEF Depths

\* A pass starts: nothing is in its tables.
LEMMA PassCore ==
  ASSUME TypeOK', NEW q, q \in {<<DenyList, 0>>, <<Extra, 1>>}, NEW R \in SUBSET Funcs,
         tasks' = {Parse(f, 0, Replaced[f] # NoFunc) : f \in R} \cup {AddLoop(q[1], q[2])},
         graphs' = NewTable, parsed' = {}, phase' \in {"deny", "graph"}
  PROVE  Core'
<1>1. \A t \in tasks' : \/ \E f \in R : t = Parse(f, 0, Replaced[f] # NoFunc)
                        \/ t = AddLoop(q[1], q[2])
  OBVIOUS
<1>2. \A f \in R : LET p == Parse(f, 0, Replaced[f] # NoFunc) IN
        p.pc = "start" /\ p.ip # NoFunc /\ p.at = p.depth + 1 /\ ~p.store
  <2> SUFFICES ASSUME NEW f \in R
               PROVE  LET p == Parse(f, 0, Replaced[f] # NoFunc) IN
                        p.pc = "start" /\ p.ip # NoFunc /\ p.at = p.depth + 1 /\ ~p.store
    OBVIOUS
  <2>1. PICK b \in BOOLEAN : b = (Replaced[f] # NoFunc)
    OBVIOUS
  <2>2. PICK p : p = Parse(f, 0, b)
    OBVIOUS
  <2>3. p.pc = "start" /\ p.ip # NoFunc /\ p.at = p.depth + 1 /\ ~p.store
    BY <2>2, ParseFields, ListsTyped, ParserAssumption
  <2> QED BY <2>1, <2>2, <2>3
<1>3. LET l == AddLoop(q[1], q[2]) IN l.pc = "next" /\ l.ip = NoFunc /\ ~l.store
  BY DEF AddLoop
<1>4. \A t \in tasks' : Shape(t) /\ t.pc \in {"start", "next"} /\ (t.pc # "start" => t.ip = NoFunc)
  BY <1>1, <1>2, <1>3 DEF Shape
<1>5. Filling'
  BY <1>4 DEF Filling, Filler, NewTable
<1>6. Once'
  BY <1>4 DEF Once
<1> QED BY <1>4, <1>5, <1>6 DEF Core

LEMMA ParseTyped ==
  ASSUME NEW f \in Funcs PROVE Parse(f, 0, Replaced[f] # NoFunc) \in Task
<1>1. PICK b \in BOOLEAN : b = (Replaced[f] # NoFunc)
  OBVIOUS
<1>2. Parse(f, 0, b) \in Task
  BY ParseFields, ListsTyped
<1> QED BY <1>1, <1>2

LEMMA InitCore == Init => Core
<1> SUFFICES ASSUME Init PROVE Core
  OBVIOUS
<1> USE DEF Init
<1>1. PICK l : l = AddLoop(DenyList, 0)
  OBVIOUS
<1>2. l \in Task /\ l.pc = "next" /\ l.ip = NoFunc /\ ~l.store
  BY <1>1, LoopFields, ListsTyped
<1>3. tasks = {l}
  BY <1>1
<1>4. TypeOK
  BY <1>2, <1>3 DEF TypeOK, NewTable, GraphStates
<1>5. (\A t \in tasks : Shape(t)) /\ Once
  BY <1>2, <1>3 DEF Shape, Once
<1>6. Filling
  BY <1>2, <1>3 DEF Filling, Filler, NewTable
<1> QED BY <1>4, <1>5, <1>6 DEF Core

LEMMA WaitDenyCore ==
  ASSUME Core, WaitDeny
  PROVE  Core'
<1> USE DEF WaitDeny
<1>1. Roots \in SUBSET Funcs
  BY ParserAssumption
<1>2. AddLoop(Extra, 1) \in Task /\ AddLoop(Extra, 1).pc = "next"
  BY LoopFields, ListsTyped
<1>3. \A f \in Roots : Parse(f, 0, Replaced[f] # NoFunc) \in Task /\ Parse(f, 0, Replaced[f] # NoFunc).pc = "start"
  <2>1. \A f \in Funcs : \A b : Parse(f, 0, b).pc = "start"
    BY DEF Parse
  <2> QED BY <1>1, <2>1, ParseTyped
<1>4. tasks' \subseteq Task /\ \A t \in tasks' : t.pc \in {"next", "start"}
  BY <1>2, <1>3
<1>5. TypeOK'
  BY <1>4 DEF Core, TypeOK, NewTable, GraphStates, Placed
<1>6. PICK q : q = <<Extra, 1>>
  OBVIOUS
<1>7. tasks' = {Parse(f, 0, Replaced[f] # NoFunc) : f \in Roots} \cup {AddLoop(q[1], q[2])}
  BY <1>6
<1> QED BY <1>1, <1>5, <1>6, <1>7, PassCore

LEMMA WaitCore ==
  ASSUME Core, WaitGraph \/ WaitFails \/ Cancel \/ UNCHANGED vars
  PROVE  Core'
<1> USE DEF WaitGraph, WaitFails, Cancel, vars, Waited
<1>1. TypeOK'
  BY DEF Core, TypeOK, Found
<1>2. Filling' /\ Once'
  BY DEF Core, Filling, Once
<1>3. (\A t \in tasks' : Shape(t)) /\ (phase' \in {"done", "failed"} => tasks' = {})
  BY DEF Core
<1> QED BY <1>1, <1>2, <1>3 DEF Core

LEMMA NextCore == Core /\ [Next]_vars => Core'
<1> SUFFICES ASSUME Core, [Next]_vars PROVE Core'
  OBVIOUS
<1>1. ASSUME NEW t \in tasks, TaskStep(t) PROVE Core'
  BY <1>1, CoreStep
<1>2. CASE WaitDeny
  BY <1>2, WaitDenyCore
<1>3. CASE WaitGraph \/ WaitFails \/ Cancel \/ UNCHANGED vars
  BY <1>3, WaitCore
<1> QED BY <1>1, <1>2, <1>3 DEF Next

LEMMA CoreParsedOnce == Core => ParsedOnce
<1> SUFFICES ASSUME Core PROVE ParsedOnce
  OBVIOUS
<1>1. ASSUME NEW f \in Funcs
      PROVE  Cardinality({t \in tasks : t.pc \in {"new", "sized"} /\ Cur(t) = f}) =
               IF graphs[f] \in {"placed", "sized"} THEN 1 ELSE 0
  <2> DEFINE S == {t \in tasks : t.pc \in {"new", "sized"} /\ Cur(t) = f}
  <2>1. CASE graphs[f] \in {"placed", "sized"}
    <3>1. PICK u \in tasks : u \in S
      BY <1>1, <2>1 DEF Core, Filling, Filler
    <3>2. S = {u}
      BY <3>1 DEF Core, Filling, Filler
    <3> QED BY <2>1, <3>2, FS_Singleton
  <2>2. CASE graphs[f] \notin {"placed", "sized"}
    <3>1. S = {}
      BY <2>2 DEF Core, Filling
    <3> QED BY <2>2, <3>1, FS_EmptySet
  <2> QED BY <2>1, <2>2
<1> QED BY <1>1 DEF ParsedOnce, Core, Once

\* Every reachable state is well typed; no goroutine has a function in the
\* hands of add at a depth the graph does not have.
THEOREM TypeCorrect == Spec => []TypeOK
<1>1. Core => TypeOK
  BY DEF Core
<1> QED BY <1>1, InitCore, NextCore, PTL DEF Spec

\* A function is parsed at a depth by one goroutine at most, and a FuncGraph is
\* filled in by the goroutine that put it in the table, and by no other.
THEOREM ParsedOnceHolds == Spec => []ParsedOnce
BY InitCore, NextCore, CoreParsedOnce, PTL DEF Spec

-----------------------------------------------------------------------------
(* The reference definition: Added is the union of the least family of     *)
(* sets, one per depth, that has what the functions parsed at a depth call *)
(* and jump to.  Its levels are a recursive function, which has to be      *)
(* shown to exist: the induction is one over a set of numbers.             *)

LEMMA LeastNat ==
  ASSUME NEW S \in SUBSET Nat, S # {}
  PROVE  \E n \in S : \A m \in S : n <= m
<1> DEFINE R == OpToRel(<, Nat)
<1>1. IsWellFoundedOn(R, Nat)
  BY NatLessThanWellFounded
<1>2. R = {ss \in Nat \X Nat : ss[1] < ss[2]}
  BY DEF OpToRel
<1>3. \E x \in S : \A y \in S : <<y, x>> \notin R
  <2> HIDE DEF R
  <2> QED BY <1>1, WFMin
<1> HIDE DEF R
<1>4. PICK x \in S : \A y \in S : <<y, x>> \notin R
  BY <1>3
<1>5. ASSUME NEW m \in S PROVE x <= m
  <2>1. x \in Nat /\ m \in Nat /\ <<m, x>> \in Nat \X Nat
    OBVIOUS
  <2>2. ~(m < x)
    BY <1>2, <1>4, <2>1
  <2> QED BY <2>1, <2>2
<1> QED BY <1>5

LEMMA SetInduction ==
  ASSUME NEW S, 0 \in S, \A n \in Nat : n \in S => n + 1 \in S
  PROVE  Nat \subseteq S
<1> SUFFICES ASSUME Nat \ S # {} PROVE FALSE
  OBVIOUS
<1>1. PICK n \in Nat \ S : \A m \in Nat \ S : n <= m
  BY LeastNat
<1>2. n # 0 /\ n - 1 \in Nat /\ n - 1 \in S
  BY <1>1
<1>3. (n - 1) + 1 \in S
  BY <1>2
<1> QED BY <1>1, <1>3

Families == [Depths -> SUBSET Funcs]

\* What is parsed at depth d, when X[e] is added at each depth e.
ParsedAt(X, fs, d) == IF d = 0 THEN fs \cup (X[0] \cap Traceable) ELSE X[d] \cap Traceable

Closed(X, fs, extra) ==
  \A d \in Depths :
    /\ \A g \in ParsedAt(X, fs, d) :
         /\ Replaced[g] # NoFunc => Replaced[g] \in X[d]
         /\ Replaced[g] = NoFunc /\ d + 1 \in Depths => ToSet(Callees[g]) \subseteq X[d + 1]
    /\ d = 1 => extra \subseteq X[1]

NewAt(L, fs, extra, d) ==
  IF d = 0 THEN {}
  ELSE Called(IF d = 1 THEN fs \cup (L[0] \cap Traceable) ELSE L[d - 1] \cap Traceable)
       \cup (IF d = 1 THEN extra ELSE {})
LevelAt(L, fs, extra, d) ==
  NewAt(L, fs, extra, d) \cup Jumped(IF d = 0 THEN fs ELSE NewAt(L, fs, extra, d) \cap Traceable)

LEMMA CalledTyped ==
  ASSUME NEW S \in SUBSET Funcs
  PROVE  Called(S) \subseteq Funcs /\ Jumped(S) \subseteq Funcs
<1>1. \A f \in S : Callees[f] \in Seq(Funcs) /\ (Replaced[f] # NoFunc => Replaced[f] \in Funcs)
  BY ParserAssumption
<1>2. \A f \in S : ToSet(Callees[f]) \subseteq Funcs
  BY <1>1, ToSetIn
<1> QED BY <1>1, <1>2 DEF Called, Jumped

LEMMA LevelTyped ==
  ASSUME NEW fs \in SUBSET Funcs, NEW extra \in SUBSET Funcs, NEW L, NEW d \in Nat,
         d > 0 => L[d - 1] \subseteq Funcs, d = 1 => L[0] \subseteq Funcs
  PROVE  LevelAt(L, fs, extra, d) \subseteq Funcs
<1>1. NewAt(L, fs, extra, d) \in SUBSET Funcs
  <2> DEFINE S == IF d = 1 THEN fs \cup (L[0] \cap Traceable) ELSE L[d - 1] \cap Traceable
  <2>1. CASE d = 0
    BY <2>1 DEF NewAt
  <2>2. CASE d # 0
    <3>1. S \in SUBSET Funcs
      BY ListsTyped
    <3> HIDE DEF S
    <3>2. Called(S) \subseteq Funcs
      BY <3>1, CalledTyped
    <3>3. NewAt(L, fs, extra, d) \subseteq Called(S) \cup extra
      BY <2>2 DEF NewAt, S
    <3> QED BY <3>2, <3>3
  <2> QED BY <2>1, <2>2
<1>2. PICK J \in SUBSET Funcs : J = IF d = 0 THEN fs ELSE NewAt(L, fs, extra, d) \cap Traceable
  BY <1>1
<1>3. LevelAt(L, fs, extra, d) = NewAt(L, fs, extra, d) \cup Jumped(J)
  BY <1>2 DEF LevelAt
<1> QED BY <1>1, <1>3, CalledTyped

\* A level depends on the one above it only.
LEMMA LevelSame ==
  ASSUME NEW fs, NEW extra, NEW L, NEW M, NEW d \in Nat,
         \A e \in Nat : e < d => L[e] = M[e]
  PROVE  LevelAt(L, fs, extra, d) = LevelAt(M, fs, extra, d)
<1>1. d # 0 => d - 1 \in Nat /\ L[d - 1] = M[d - 1]
  OBVIOUS
<1>2. d = 1 => L[0] = M[0]
  OBVIOUS
<1>3. NewAt(L, fs, extra, d) = NewAt(M, fs, extra, d)
  BY <1>1, <1>2 DEF NewAt
<1> QED BY <1>3 DEF LevelAt

LEMMA LevelsExist ==
  ASSUME NEW fs \in SUBSET Funcs, NEW extra \in SUBSET Funcs
  PROVE  \E L \in Families : \A d \in Depths : L[d] = LevelAt(L, fs, extra, d)
<1> DEFINE Good(L, n) == /\ L \in [0..n -> SUBSET Funcs]
                         /\ \A d \in 0..n : L[d] = LevelAt(L, fs, extra, d)
           S == {n \in Nat : \E L : Good(L, n)}
<1>1. 0 \in S
  <2> DEFINE L == [d \in 0..0 |-> LevelAt(<<>>, fs, extra, 0)]
  <2>1. LevelAt(<<>>, fs, extra, 0) \subseteq Funcs
    BY LevelTyped
  <2>2. LevelAt(L, fs, extra, 0) = LevelAt(<<>>, fs, extra, 0)
    BY LevelSame
  <2>3. L \in [0..0 -> SUBSET Funcs] /\ \A d \in 0..0 : d = 0 /\ L[d] = LevelAt(<<>>, fs, extra, 0)
    BY <2>1
  <2> HIDE DEF L
  <2>4. Good(L, 0)
    BY <2>2, <2>3
  <2> QED BY <2>4
<1>2. ASSUME NEW n \in Nat, n \in S PROVE n + 1 \in S
  <2>1. PICK L : Good(L, n)
    BY <1>2
  <2> DEFINE M == [d \in 0..(n + 1) |-> IF d <= n THEN L[d] ELSE LevelAt(L, fs, extra, n + 1)]
  <2>2. LevelAt(L, fs, extra, n + 1) \subseteq Funcs
    <3>1. L[n] \subseteq Funcs /\ L[0] \subseteq Funcs /\ (n + 1) - 1 = n /\ n + 1 \in Nat
      BY <2>1
    <3> QED BY <3>1, LevelTyped
  <2>3. M \in [0..(n + 1) -> SUBSET Funcs]
    BY <2>1, <2>2
  <2>4. \A d \in 0..n : M[d] = L[d]
    OBVIOUS
  <2>5. M[n + 1] = LevelAt(L, fs, extra, n + 1)
    OBVIOUS
  <2> HIDE DEF M
  <2>6. \A d \in 0..(n + 1) : LevelAt(M, fs, extra, d) = LevelAt(L, fs, extra, d)
    <3> SUFFICES ASSUME NEW d \in 0..(n + 1)
                 PROVE  LevelAt(M, fs, extra, d) = LevelAt(L, fs, extra, d)
      OBVIOUS
    <3>1. d \in Nat /\ \A e \in Nat : e < d => M[e] = L[e]
      BY <2>4
    <3> QED BY <3>1, LevelSame
  <2>7. Good(M, n + 1)
    <3>1. ASSUME NEW d \in 0..(n + 1) PROVE M[d] = LevelAt(M, fs, extra, d)
      <4>1. CASE d \in 0..n
        BY <2>1, <2>4, <2>6, <4>1
      <4>2. CASE d = n + 1
        BY <2>5, <2>6, <4>2
      <4> QED BY <4>1, <4>2
    <3> QED BY <2>3, <3>1
  <2> QED BY <2>7
<1>3. MaxDepth \in S
  <2> HIDE DEF S
  <2>1. Nat \subseteq S
    BY <1>1, <1>2, SetInduction
  <2> QED BY <2>1, ParserAssumption
<1> QED BY <1>3 DEF Families, Depths

IsLevels(L, fs, extra) == L = [d \in Depths |-> LevelAt(L, fs, extra, d)]

\* The levels in the definition of Added.
LEMMA AddedLevels ==
  ASSUME NEW fs \in SUBSET Funcs, NEW extra \in SUBSET Funcs
  PROVE  \E L : IsLevels(L, fs, extra) /\ Added(fs, extra) = UNION {L[d] : d \in Depths}
<1>1. PICK K : IsLevels(K, fs, extra)
  <2>1. PICK K \in Families : \A d \in Depths : K[d] = LevelAt(K, fs, extra, d)
    BY LevelsExist
  <2>2. K = [d \in Depths |-> LevelAt(K, fs, extra, d)]
    BY <2>1 DEF Families
  <2> QED BY <2>2 DEF IsLevels
<1> DEFINE L == CHOOSE g : g = [d \in 0..MaxDepth |->
                   LET new == IF d = 0 THEN {}
                              ELSE Called(IF d = 1 THEN fs \cup (g[0] \cap Traceable)
                                          ELSE g[d - 1] \cap Traceable)
                                   \cup (IF d = 1 THEN extra ELSE {})
                   IN  new \cup Jumped(IF d = 0 THEN fs ELSE new \cap Traceable)]
<1>2. L = [d \in 0..MaxDepth |->
             (IF d = 0 THEN {}
              ELSE Called(IF d = 1 THEN fs \cup (L[0] \cap Traceable) ELSE L[d - 1] \cap Traceable)
                   \cup (IF d = 1 THEN extra ELSE {}))
             \cup Jumped(IF d = 0 THEN fs
                         ELSE (IF d = 0 THEN {}
                               ELSE Called(IF d = 1 THEN fs \cup (L[0] \cap Traceable)
                                           ELSE L[d - 1] \cap Traceable)
                                    \cup (IF d = 1 THEN extra ELSE {})) \cap Traceable)]
  BY <1>1 DEF IsLevels, LevelAt, NewAt, Depths
<1>3. Added(fs, extra) = UNION {L[d] : d \in 0..MaxDepth}
  BY DEF Added
<1> HIDE DEF L
<1>4. IsLevels(L, fs, extra)
  BY <1>2 DEF IsLevels, LevelAt, NewAt, Depths
<1> QED BY <1>3, <1>4 DEF Depths

LEMMA LevelsValue ==
  ASSUME NEW fs, NEW extra, NEW L, IsLevels(L, fs, extra), NEW d \in Depths
  PROVE  L[d] = LevelAt(L, fs, extra, d) /\ d \in Nat
<1>1. PICK M : M = [e \in Depths |-> LevelAt(L, fs, extra, e)]
  OBVIOUS
<1>2. L = M /\ M[d] = LevelAt(L, fs, extra, d)
  BY <1>1 DEF IsLevels
<1> QED BY <1>2 DEF Depths

LEMMA LevelsTyped ==
  ASSUME NEW fs \in SUBSET Funcs, NEW extra \in SUBSET Funcs, NEW L, IsLevels(L, fs, extra)
  PROVE  L \in Families
<1> DEFINE S == {n \in Nat : \A d \in Depths : d <= n => L[d] \subseteq Funcs}
<1>1. \A d \in Depths : L[d] = LevelAt(L, fs, extra, d) /\ d \in Nat
  BY LevelsValue
<1>2. 0 \in S
  <2>1. L[0] \subseteq Funcs
    BY <1>1, ListsTyped, LevelTyped
  <2> QED BY <1>1, <2>1
<1>3. ASSUME NEW n \in Nat, n \in S PROVE n + 1 \in S
  <2> SUFFICES ASSUME NEW d \in Depths, d <= n + 1 PROVE L[d] \subseteq Funcs
    OBVIOUS
  <2>1. CASE d <= n
    BY <1>3, <2>1
  <2>2. CASE d = n + 1
    <3>1. n \in Depths /\ d - 1 = n /\ 0 \in Depths /\ n <= n /\ 0 <= n
      BY <2>2, ParserAssumption DEF Depths
    <3>2. L[d - 1] \subseteq Funcs /\ L[0] \subseteq Funcs
      BY <1>3, <3>1
    <3> QED BY <1>1, <3>2, LevelTyped
  <2> QED BY <1>1, <2>1, <2>2
<1>4. MaxDepth \in S
  <2> HIDE DEF S
  <2> QED BY <1>2, <1>3, SetInduction, ParserAssumption
<1>5. \A d \in Depths : L[d] \subseteq Funcs
  BY <1>4, ParserAssumption DEF Depths
<1>6. DOMAIN L = Depths /\ L = [d \in Depths |-> L[d]]
  BY DEF IsLevels
<1> QED BY <1>5, <1>6 DEF Families

LEMMA LevelsClosed ==
  ASSUME NEW fs \in SUBSET Funcs, NEW extra \in SUBSET Funcs, NEW L, IsLevels(L, fs, extra)
  PROVE  Closed(L, fs, extra)
<1>1. \A d \in Depths : L[d] = LevelAt(L, fs, extra, d) /\ d \in Nat
  BY LevelsValue
<1>2. L \in Families
  BY LevelsTyped
<1>3. ASSUME NEW d \in Depths, NEW g \in ParsedAt(L, fs, d), Replaced[g] # NoFunc
      PROVE  Replaced[g] \in L[d]
  <2> DEFINE J == IF d = 0 THEN fs ELSE NewAt(L, fs, extra, d) \cap Traceable
  <2>1. L[d] = NewAt(L, fs, extra, d) \cup Jumped(J)
    BY <1>1 DEF LevelAt
  <2>2. NewAt(L, fs, extra, 0) = {}
    BY DEF NewAt
  <2>3. g \in J \cup Jumped(J)
    BY <1>1, <2>1, <2>2 DEF ParsedAt
  <2> HIDE DEF J
  <2>4. g \notin Jumped(J)
    <3>1. J \subseteq Funcs
      BY <1>2, <2>1, ListsTyped DEF J, Families
    <3> QED BY <1>3, <3>1, ParserAssumption DEF Jumped
  <2>5. Replaced[g] \in Jumped(J)
    BY <1>3, <2>3, <2>4 DEF Jumped
  <2> QED BY <2>1, <2>5
<1>4. ASSUME NEW d \in Depths, NEW g \in ParsedAt(L, fs, d), Replaced[g] = NoFunc, d + 1 \in Depths
      PROVE  ToSet(Callees[g]) \subseteq L[d + 1]
  <2>1. ToSet(Callees[g]) \subseteq Called(ParsedAt(L, fs, d))
    BY <1>4 DEF Called
  <2>2. d \in Nat
    BY <1>1
  <2>3. Called(ParsedAt(L, fs, d)) \subseteq NewAt(L, fs, extra, d + 1)
    <3>1. d + 1 # 0 /\ (d + 1) - 1 = d /\ (d + 1 = 1 <=> d = 0)
      BY <2>2
    <3> QED BY <3>1 DEF NewAt, ParsedAt
  <2>4. L[d + 1] = LevelAt(L, fs, extra, d + 1)
    BY <1>1, <1>4
  <2> QED BY <2>1, <2>3, <2>4 DEF LevelAt
<1>5. ASSUME 1 \in Depths PROVE extra \subseteq L[1]
  <2>1. extra \subseteq NewAt(L, fs, extra, 1)
    BY DEF NewAt
  <2>2. L[1] = LevelAt(L, fs, extra, 1)
    BY <1>1, <1>5
  <2> QED BY <2>1, <2>2 DEF LevelAt
<1> QED BY <1>3, <1>4, <1>5 DEF Closed

LEMMA LevelsLeast ==
  ASSUME NEW fs \in SUBSET Funcs, NEW extra \in SUBSET Funcs, NEW L, IsLevels(L, fs, extra),
         NEW X \in Families, Closed(X, fs, extra)
  PROVE  \A d \in Depths : L[d] \subseteq X[d]
<1> DEFINE S == {n \in Nat : n \in Depths => L[n] \subseteq X[n]}
<1>1. \A d \in Depths : L[d] = LevelAt(L, fs, extra, d) /\ d \in Nat
  BY LevelsValue
<1>2. 0 \in S
  <2>1. L[0] = Jumped(fs)
    <3>1. L[0] = LevelAt(L, fs, extra, 0)
      BY <1>1, ListsTyped
    <3>2. NewAt(L, fs, extra, 0) = {}
      BY DEF NewAt
    <3> QED BY <3>1, <3>2 DEF LevelAt
  <2>2. Jumped(fs) \subseteq X[0]
    BY ListsTyped DEF Closed, Jumped, ParsedAt
  <2> QED BY <2>1, <2>2
<1>3. ASSUME NEW n \in Nat, n \in S PROVE n + 1 \in S
  <2> SUFFICES ASSUME n + 1 \in Depths PROVE L[n + 1] \subseteq X[n + 1]
    OBVIOUS
  <2>1. n \in Depths /\ (n = 0 => 1 \in Depths /\ n + 1 = 1) /\ n + 1 # 0
    BY ParserAssumption DEF Depths
  <2>2. ParsedAt(L, fs, n) \subseteq ParsedAt(X, fs, n)
    BY <1>3, <2>1 DEF ParsedAt
  <2>3. Called(ParsedAt(L, fs, n)) \subseteq X[n + 1]
    BY <2>1, <2>2 DEF Called, Closed
  <2>4. n = 0 => extra \subseteq X[n + 1]
    BY <2>1 DEF Closed
  <2> DEFINE N == NewAt(L, fs, extra, n + 1)
  <2>5. N \subseteq X[n + 1]
    <3>1. N = Called(ParsedAt(L, fs, n)) \cup (IF n = 0 THEN extra ELSE {})
      <4>1. n + 1 # 0 /\ (n + 1) - 1 = n /\ (n + 1 = 1 <=> n = 0)
        OBVIOUS
      <4> QED BY <4>1 DEF NewAt, ParsedAt
    <3> QED BY <2>3, <2>4, <3>1
  <2>6. L[n + 1] = N \cup Jumped(N \cap Traceable)
    BY <1>1, <2>1 DEF LevelAt
  <2> HIDE DEF N
  <2>7. N \cap Traceable \subseteq ParsedAt(X, fs, n + 1)
    BY <2>1, <2>5 DEF ParsedAt
  <2>8. Jumped(N \cap Traceable) \subseteq X[n + 1]
    BY <2>7 DEF Jumped, Closed
  <2> QED BY <2>5, <2>6, <2>8
<1>4. Nat \subseteq S
  <2> HIDE DEF S
  <2> QED BY <1>2, <1>3, SetInduction
<1> QED BY <1>1, <1>4

\* Added, without its recursion.
LEMMA AddedLeast ==
  ASSUME NEW fs \in SUBSET Funcs, NEW extra \in SUBSET Funcs
  PROVE  \E L \in Families :
           /\ Closed(L, fs, extra) /\ Added(fs, extra) = UNION {L[d] : d \in Depths}
           /\ \A X \in Families : Closed(X, fs, extra) => \A d \in Depths : L[d] \subseteq X[d]
<1>1. PICK L : IsLevels(L, fs, extra) /\ Added(fs, extra) = UNION {L[d] : d \in Depths}
  BY AddedLevels
<1>2. L \in Families /\ Closed(L, fs, extra)
  BY <1>1, LevelsTyped, LevelsClosed
<1>3. \A X \in Families : Closed(X, fs, extra) => \A d \in Depths : L[d] \subseteq X[d]
  BY <1>1, LevelsLeast
<1> QED BY <1>1, <1>2, <1>3

-----------------------------------------------------------------------------
(* The rest of the invariant.                                              *)

\* What the pass in progress starts from.
Seeds  == IF phase = "deny" THEN ToSet(DenyList) ELSE Roots
Extras == IF phase = "deny" THEN {} ELSE ToSet(Extra)

\* Who parses a replaced program knows it, unless it was misread.
Accurate ==
  "misread" \notin missed =>
    /\ \A f \in callee : Replaced[f] = NoFunc
    /\ \A t \in tasks : /\ t.ip # NoFunc /\ Replaced[t.ip] # NoFunc => t.bpf
                        /\ t.store => Replaced[t.ip] = NoFunc

\* Soundness, without the recursion of Added: whatever family of sets is closed
\* has what the goroutines parse and add, and what is in the table.
MayAdd(X, d) == X[d] \cup (IF phase = "deny" /\ d = 0 THEN Seeds ELSE {})
WorkIn(t, X) ==
  /\ t.ip # NoFunc => t.ip \in ParsedAt(X, Seeds, t.depth)
  /\ t.at \in Depths => ToSet(t.todo) \subseteq MayAdd(X, t.at)
PlacedIn(f, X) == (\E d \in Depths : f \in X[d]) \/ (phase = "deny" /\ f \in Seeds)
Within ==
  phase # "failed" /\ "misread" \notin missed =>
    \A X \in Families : Closed(X, Seeds, Extras) =>
      /\ \A t \in tasks : WorkIn(t, X)
      /\ \A f \in Funcs : graphs[f] # "absent" => PlacedIn(f, X)

\* Completeness: what is called is in the table and, at this depth, parsed, or
\* a goroutine has yet to get to it.
Started(f, d) == <<f, d>> \in parsed \/ \E u \in tasks : u.pc = "start" /\ u.ip = f /\ u.depth = d
Handled(f, e) == graphs[f] # "absent" /\ (f \in Traceable => Started(f, e))
Pending(f, e, g, d) ==
  \E t \in tasks : /\ t.ip = g /\ t.depth = d /\ t.pc # "start"
                   /\ t.pc = "lookup" \/ (t.at = e /\ f \in ToSet(t.todo))
Full ==
  phase \in {"deny", "graph"} /\ ~err /\ ~cancelled /\ missed \cap {phase, "misread"} = {} =>
    /\ \A g \in Funcs, d \in Depths : <<g, d>> \in parsed =>
         /\ Replaced[g] = NoFunc /\ d + 1 \in Depths =>
              \A f \in ToSet(Callees[g]) : Handled(f, d + 1) \/ Pending(f, d + 1, g, d)
         /\ Replaced[g] # NoFunc => Handled(Replaced[g], d) \/ Pending(Replaced[g], d, g, d)
    /\ phase = "deny" => \A f \in Seeds : Handled(f, 0) \/ Pending(f, 0, NoFunc, 0)
    /\ phase = "graph" => \A f \in Seeds : Started(f, 0)
    /\ 1 \in Depths => \A f \in Extras : Handled(f, 1) \/ Pending(f, 1, NoFunc, 0)

\* What a root calls is in the table whatever else is lost.
Loose ==
  phase = "graph" /\ ~err /\ 1 \in Depths =>
    /\ \A r \in Roots : Started(r, 0)
    /\ \A r \in Roots : <<r, 0>> \in parsed /\ Replaced[r] = NoFunc =>
         \A f \in ToSet(Callees[r]) : graphs[f] # "absent" \/ Pending(f, 1, r, 0)
    /\ \A f \in ToSet(Extra) : graphs[f] # "absent" \/ Pending(f, 1, NoFunc, 0)

IInv == Core /\ Accurate /\ Within /\ Full /\ Loose /\ ResultSound /\ ResultComplete /\ DenyComplete

-----------------------------------------------------------------------------
(* What a step of a goroutine leaves behind.                               *)

\* The same goroutine, further on in its list.
Continues(n, t) ==
  /\ n.ip = t.ip /\ n.depth = t.depth /\ n.bpf = t.bpf /\ n.store = t.store /\ n.at = t.at
  /\ ToSet(n.todo) \subseteq ToSet(t.todo)

\* It has found what the function calls, or what replaced it.
Looks(n, t) ==
  /\ t.pc = "lookup" /\ n.pc = "next" /\ n.ip = t.ip /\ n.depth = t.depth /\ n.bpf = t.bpf
  /\ t.ip \in Funcs /\ t.depth \in Depths
  /\ \/ n.todo = Callees[t.ip] /\ n.at = t.depth + 1 /\ t.ip \in callee /\ ~n.store
     \/ /\ n.todo = Callees[t.ip] /\ n.at = t.depth + 1 /\ n.store
        /\ ~(t.bpf /\ Replaced[t.ip] # NoFunc)
     \/ /\ n.todo = <<Replaced[t.ip]>> /\ n.at = t.depth /\ ~n.store
        /\ t.bpf /\ Replaced[t.ip] # NoFunc

\* A goroutine for the function it adds.
Spawned(n, t) ==
  /\ n.pc = "start" /\ n.ip = Cur(t) /\ n.depth = t.at /\ n.todo = <<>> /\ ~n.store
  /\ t.todo # <<>> /\ t.at \in Depths /\ Cur(t) \in Traceable
  /\ Replaced[Cur(t)] # NoFunc /\ "misread" \notin missed' => n.bpf

\* What a step does to the tables.
Tables(t) ==
  /\ parsed \subseteq parsed' /\ missed \subseteq missed' /\ (err => err')
  /\ UNCHANGED <<phase, cancelled, denylist, result>>
  /\ callee' \subseteq callee \cup (IF t.store THEN {t.ip} ELSE {})
  /\ \A f \in Funcs : graphs'[f] # "absent" =>
       graphs[f] # "absent" \/ (t.todo # <<>> /\ f = Cur(t) /\ t.at \in Depths)
  /\ \A f \in Funcs : graphs[f] # "absent" => graphs'[f] # "absent"

LeavesOf(t, N) ==
  /\ tasks' = (tasks \ {t}) \cup N
  /\ \A n \in N : Continues(n, t) \/ Looks(n, t) \/ Spawned(n, t)
  /\ Tables(t)

LEMMA NextContinues ==
  ASSUME NEW t \in Task, t.todo # <<>> PROVE Continues(NextAdd(t), t)
BY NextFields DEF Continues

LEMMA AtContinues ==
  ASSUME NEW t \in Task, NEW q \in Pcs PROVE Continues(At(t, q), t)
BY AtFields DEF Continues

LEMMA SameTables ==
  ASSUME NEW t, UNCHANGED <<phase, graphs, cancelled, denylist, result>>,
         parsed \subseteq parsed', missed \subseteq missed', err => err',
         callee' \subseteq callee \cup (IF t.store THEN {t.ip} ELSE {})
  PROVE  Tables(t)
BY DEF Tables

LEMMA FillTables ==
  ASSUME NEW t, NEW s, t.todo # <<>>, t.at \in Depths, Cur(t) \in Funcs, s # "absent",
         TypeOK, graphs' = [graphs EXCEPT ![Cur(t)] = s],
         UNCHANGED <<phase, callee, parsed, err, cancelled, denylist, result, missed>>
  PROVE  Tables(t)
<1>1. \A f \in Funcs : graphs'[f] = IF f = Cur(t) THEN s ELSE graphs[f]
  BY DEF TypeOK
<1> QED BY <1>1 DEF Tables

LEMMA SpawnedAgain ==
  ASSUME NEW t \in Task, t.todo # <<>>, t.at \in Depths, Cur(t) \in Traceable,
         NEW b \in BOOLEAN, Replaced[Cur(t)] # NoFunc /\ "misread" \notin missed' => b
  PROVE  Spawned(Parse(Cur(t), t.at, b), t)
<1>1. PICK p : p = Parse(Cur(t), t.at, b)
  OBVIOUS
<1>2. p.pc = "start" /\ p.ip = Cur(t) /\ p.depth = t.at /\ p.bpf = b /\ p.todo = <<>> /\ ~p.store
  BY <1>1, ListsTyped, ParseFields
<1>3. Spawned(p, t)
  BY <1>2 DEF Spawned
<1> QED BY <1>1, <1>3

LEMMA StepLeaves ==
  ASSUME Core, NEW t \in tasks, TaskStep(t)
  PROVE  \E N : LeavesOf(t, N)
<1>1. t \in Task /\ Shape(t) /\ TypeOK /\ Filling
  BY DEF TypeOK, Core
<1>2. t.pc \in {"found", "new", "sized"} => t.todo # <<>> /\ t.at \in Depths
  BY <1>1 DEF TypeOK
<1>3. t.todo # <<>> => NextAdd(t) \in Task /\ Cur(t) \in Funcs /\ Continues(NextAdd(t), t)
  BY <1>1, NextFields, NextContinues
<1>4. CASE Start(t)
  <2>1. Continues(At(t, "lookup"), t)
    BY <1>1, AtContinues DEF Pcs
  <2>2. Tables(t)
    BY <1>4, SameTables DEF Start
  <2>3. CASE checkParsed(t)
    <3>1. LeavesOf(t, {})
      BY <1>4, <2>2, <2>3 DEF LeavesOf, Start, End
    <3> QED BY <3>1
  <2>4. CASE ~checkParsed(t)
    <3>1. LeavesOf(t, {At(t, "lookup")})
      BY <1>4, <2>1, <2>2, <2>4 DEF LeavesOf, Start, Move
    <3> QED BY <3>1
  <2> QED BY <2>3, <2>4
<1>5. CASE Lookup(t) \/ Disassemble(t) \/ DisassembleReplaced(t)
  <2>1. t.pc = "lookup"
    BY <1>5 DEF Lookup, Cached, Disassemble, DisassembleReplaced
  <2>2. PICK n \in Task :
           /\ tasks' = (tasks \ {t}) \cup {n}
           /\ n.pc = "next" /\ n.ip = t.ip /\ n.depth = t.depth /\ n.bpf = t.bpf
           /\ t.ip \in Funcs /\ t.depth \in Depths
           /\ \/ n.todo = Callees[t.ip] /\ n.at = t.depth + 1 /\ t.ip \in callee /\ ~n.store
              \/ /\ n.todo = Callees[t.ip] /\ n.at = t.depth + 1 /\ n.store
                 /\ ~(t.bpf /\ Replaced[t.ip] # NoFunc)
              \/ /\ n.todo = <<Replaced[t.ip]>> /\ n.at = t.depth /\ ~n.store
                 /\ t.bpf /\ Replaced[t.ip] # NoFunc
           /\ UNCHANGED <<phase, graphs, callee, parsed, err, cancelled, denylist, result, missed>>
    BY <1>1, <1>5, <2>1, LookupFields
  <2>3. Looks(n, t) /\ Tables(t)
    BY <2>1, <2>2, SameTables DEF Looks
  <2>4. LeavesOf(t, {n})
    BY <2>2, <2>3 DEF LeavesOf
  <2> QED BY <2>4
<1>6. CASE DisassembleFails(t) \/ Finish(t)
  <2>1. Tables(t)
    BY <1>1, <1>6, SameTables DEF DisassembleFails, Finish, TypeOK
  <2>2. LeavesOf(t, {})
    BY <1>6, <2>1 DEF LeavesOf, DisassembleFails, Finish, End
  <2> QED BY <2>2
<1>7. CASE AddTooDeep(t)
  <2>1. Tables(t)
    BY <1>7, SameTables DEF AddTooDeep
  <2>2. LeavesOf(t, {NextAdd(t)})
    BY <1>3, <1>7, <2>1 DEF LeavesOf, AddTooDeep, Move
  <2> QED BY <2>2
<1>8. CASE AddKnown(t)
  <2>1. Tables(t)
    BY <1>8, SameTables DEF AddKnown
  <2>2. Continues(At(t, "found"), t)
    BY <1>1, AtContinues DEF Pcs
  <2>3. LeavesOf(t, {At(t, "found")})
    BY <1>8, <2>1, <2>2 DEF LeavesOf, AddKnown, Move
  <2> QED BY <2>3
<1>9. CASE AddAgain(t)
  <2>1. PICK N : /\ tasks' = (tasks \ {t}) \cup N
                 /\ t.todo # <<>> /\ Cur(t) \in Funcs /\ t.at \in Depths
                 /\ N = IF HasBytes(Cur(t)) THEN {NextAdd(t), Parse(Cur(t), t.at, IsBPF(Cur(t)))}
                                            ELSE {NextAdd(t)}
    BY <1>1, <1>9, AgainFields
  <2>2. Tables(t)
    BY <1>9, SameTables DEF AddAgain
  <2>3. PICK b \in BOOLEAN : b = IsBPF(Cur(t))
    BY DEF IsBPF
  <2>4. ASSUME HasBytes(Cur(t)) PROVE Spawned(Parse(Cur(t), t.at, b), t)
    <3>1. Cur(t) \in Traceable
      BY <1>1, <2>1, <2>4 DEF HasBytes, Filling
    <3>2. Replaced[Cur(t)] # NoFunc /\ "misread" \notin missed' => b
      BY <1>9, <2>3, <2>4 DEF AddAgain, HasBytes, IsBPF
    <3> QED BY <1>1, <2>1, <3>1, <3>2, SpawnedAgain
  <2>5. \A n \in N : Continues(n, t) \/ Spawned(n, t)
    BY <1>3, <2>1, <2>3, <2>4
  <2>6. LeavesOf(t, N)
    BY <2>1, <2>2, <2>5 DEF LeavesOf
  <2> QED BY <2>6
<1>10. CASE AddNew(t)
  <2>1. t.todo # <<>> /\ t.at \in Depths
    BY <1>1, <1>10, Shallow DEF AddNew
  <2>2. Tables(t)
    BY <1>1, <1>3, <1>10, <2>1, FillTables DEF AddNew, Place
  <2>3. Continues(At(t, "new"), t)
    BY <1>1, AtContinues DEF Pcs
  <2>4. LeavesOf(t, {At(t, "new")})
    BY <1>10, <2>2, <2>3 DEF LeavesOf, AddNew, Move
  <2> QED BY <2>4
<1>11. CASE AddUntraceable(t)
  <2>1. Tables(t)
    BY <1>1, <1>2, <1>3, <1>11, FillTables DEF AddUntraceable
  <2>2. LeavesOf(t, {NextAdd(t)})
    BY <1>2, <1>3, <1>11, <2>1 DEF LeavesOf, AddUntraceable, Move
  <2> QED BY <2>2
<1>12. CASE AddSize(t)
  <2>1. Tables(t)
    BY <1>1, <1>2, <1>3, <1>12, FillTables DEF AddSize
  <2>2. Continues(At(t, "sized"), t)
    BY <1>1, AtContinues DEF Pcs
  <2>3. LeavesOf(t, {At(t, "sized")})
    BY <1>12, <2>1, <2>2 DEF LeavesOf, AddSize, Move
  <2> QED BY <2>3
<1>13. CASE AddParse(t)
  <2>1. t.todo # <<>> /\ t.at \in Depths /\ Cur(t) \in Traceable
    BY <1>1, <1>2, <1>3, <1>13 DEF AddParse, Filling
  <2>2. Tables(t)
    BY <1>1, <1>3, <1>13, <2>1, FillTables DEF AddParse
  <2>3. PICK b \in BOOLEAN : b = (Replaced[Cur(t)] # NoFunc)
    OBVIOUS
  <2>4. Spawned(Parse(Cur(t), t.at, b), t)
    BY <1>1, <2>1, <2>3, SpawnedAgain
  <2>5. PICK N : N \subseteq {NextAdd(t), Parse(Cur(t), t.at, b)} /\ tasks' = (tasks \ {t}) \cup N
    BY <1>13, <2>3 DEF AddParse, Move, MoveSpawn
  <2>6. LeavesOf(t, N)
    BY <1>3, <2>1, <2>2, <2>4, <2>5 DEF LeavesOf
  <2> QED BY <2>6
<1> QED BY <1>4, <1>5, <1>6, <1>7, <1>8, <1>9, <1>10, <1>11, <1>12, <1>13 DEF TaskStep

-----------------------------------------------------------------------------
(* Who knows that a program is replaced.                                   *)

LEMMA AccurateStep ==
  ASSUME Core, Accurate, NEW t \in tasks, TaskStep(t)
  PROVE  Accurate'
<1> SUFFICES ASSUME "misread" \notin missed'
             PROVE  /\ \A f \in callee' : Replaced[f] = NoFunc
                    /\ \A n \in tasks' : /\ n.ip # NoFunc /\ Replaced[n.ip] # NoFunc => n.bpf
                                         /\ n.store => Replaced[n.ip] = NoFunc
  BY DEF Accurate
<1>1. PICK N : LeavesOf(t, N)
  BY StepLeaves
<1>2. /\ \A f \in callee : Replaced[f] = NoFunc
      /\ \A u \in tasks : /\ u.ip # NoFunc /\ Replaced[u.ip] # NoFunc => u.bpf
                          /\ u.store => Replaced[u.ip] = NoFunc
  BY <1>1 DEF LeavesOf, Tables, Accurate
<1>3. \A f \in callee' : Replaced[f] = NoFunc
  BY <1>1, <1>2 DEF LeavesOf, Tables
<1>4. ASSUME NEW n \in N
      PROVE  /\ n.ip # NoFunc /\ Replaced[n.ip] # NoFunc => n.bpf
             /\ n.store => Replaced[n.ip] = NoFunc
  <2>1. CASE Continues(n, t)
    BY <1>2, <2>1 DEF Continues
  <2>2. CASE Looks(n, t)
    BY <1>2, <2>2, ParserAssumption DEF Looks
  <2>3. CASE Spawned(n, t)
    BY <2>3 DEF Spawned
  <2> QED BY <1>1, <2>1, <2>2, <2>3 DEF LeavesOf
<1> QED BY <1>1, <1>2, <1>3, <1>4 DEF LeavesOf

-----------------------------------------------------------------------------
(* Soundness of the table.                                                 *)

LEMMA SeedsTyped ==
  /\ Seeds \in SUBSET Funcs /\ Extras \in SUBSET Funcs
  /\ phase = "deny" => Seeds \subseteq Traceable
BY ListsTyped, ParserAssumption DEF Seeds, Extras

LEMMA AddedParsed ==
  ASSUME NEW X \in Families, NEW d \in Depths, NEW f \in MayAdd(X, d), f \in Traceable
  PROVE  f \in ParsedAt(X, Seeds, d)
BY DEF MayAdd, ParsedAt

LEMMA AddedPlaced ==
  ASSUME NEW X \in Families, NEW d \in Depths, NEW f \in MayAdd(X, d)
  PROVE  PlacedIn(f, X)
BY DEF MayAdd, PlacedIn

LEMMA WithinTask ==
  ASSUME Core, Accurate, NEW t \in tasks, NEW N, LeavesOf(t, N), "misread" \notin missed',
         NEW X \in Families, Closed(X, Seeds, Extras), WorkIn(t, X), NEW n \in N
  PROVE  WorkIn(n, X)
<1>1. t \in Task /\ "misread" \notin missed
  BY DEF Core, TypeOK, LeavesOf, Tables
<1>2. CASE Continues(n, t)
  BY <1>2 DEF Continues, WorkIn
<1>3. CASE Looks(n, t)
  <2>1. t.ip \in ParsedAt(X, Seeds, t.depth) /\ t.ip \in Funcs /\ t.depth \in Depths /\ t.ip # NoFunc
    BY <1>3, ParserAssumption DEF WorkIn, Looks
  <2>2. CASE n.todo = Callees[t.ip] /\ n.at = t.depth + 1
    <3>1. Replaced[t.ip] = NoFunc
      <4>1. n.at # t.depth
        BY <2>1, <2>2, ParserAssumption DEF Depths
      <4> QED BY <1>1, <1>3, <2>1, <4>1 DEF Accurate, Looks
    <3>2. n.at \in Depths => ToSet(n.todo) \subseteq X[n.at]
      BY <2>1, <2>2, <3>1 DEF Closed
    <3> QED BY <1>3, <2>1, <3>2 DEF WorkIn, Looks, MayAdd
  <2>3. CASE n.todo = <<Replaced[t.ip]>> /\ n.at = t.depth /\ Replaced[t.ip] # NoFunc
    <3>1. Replaced[t.ip] \in X[n.at]
      BY <2>1, <2>3 DEF Closed
    <3>2. ToSet(n.todo) = {Replaced[t.ip]}
      BY <2>3, ToSetOne
    <3> QED BY <1>3, <2>1, <3>1, <3>2 DEF WorkIn, Looks, MayAdd
  <2> QED BY <1>3, <2>2, <2>3 DEF Looks
<1>4. CASE Spawned(n, t)
  <2>1. Cur(t) \in MayAdd(X, t.at)
    <3>1. Cur(t) \in ToSet(t.todo)
      BY <1>1, <1>4, NextFields DEF Spawned
    <3> QED BY <1>4, <3>1 DEF WorkIn, Spawned
  <2>2. Cur(t) \in ParsedAt(X, Seeds, t.at)
    BY <1>4, <2>1, AddedParsed DEF Spawned
  <2>3. ToSet(n.todo) = {}
    BY <1>4, ToSetEmpty DEF Spawned
  <2> QED BY <1>4, <2>2, <2>3 DEF WorkIn, Spawned
<1> QED BY <1>2, <1>3, <1>4 DEF LeavesOf

LEMMA WithinStep ==
  ASSUME Core, Accurate, Within, NEW t \in tasks, TaskStep(t)
  PROVE  Within'
<1>1. PICK N : LeavesOf(t, N)
  BY StepLeaves
<1>2. phase' = phase /\ Seeds' = Seeds /\ Extras' = Extras /\ (phase \in {"deny", "graph"})
  BY <1>1 DEF LeavesOf, Tables, Seeds, Extras, Core, TypeOK
<1> SUFFICES ASSUME "misread" \notin missed', NEW X \in Families, Closed(X, Seeds, Extras)
             PROVE  /\ \A u \in tasks' : WorkIn(u, X)
                    /\ \A f \in Funcs : graphs'[f] # "absent" => PlacedIn(f, X)
  BY <1>2 DEF Within, WorkIn, PlacedIn, MayAdd, Seeds, Extras
<1>3. /\ \A u \in tasks : WorkIn(u, X)
      /\ \A f \in Funcs : graphs[f] # "absent" => PlacedIn(f, X)
  BY <1>1, <1>2 DEF LeavesOf, Tables, Within
<1>4. \A u \in tasks' : WorkIn(u, X)
  <2>1. \A n \in N : WorkIn(n, X)
    BY <1>1, <1>3, WithinTask
  <2> QED BY <1>1, <1>3, <2>1 DEF LeavesOf
<1>5. ASSUME NEW f \in Funcs, graphs'[f] # "absent" PROVE PlacedIn(f, X)
  <2>1. CASE t.todo # <<>> /\ f = Cur(t) /\ t.at \in Depths
    <3>1. f \in ToSet(t.todo)
      BY <2>1, NextFields DEF Core, TypeOK
    <3>2. f \in MayAdd(X, t.at)
      BY <1>3, <2>1, <3>1 DEF WorkIn
    <3> QED BY <2>1, <3>2, AddedPlaced
  <2>2. CASE graphs[f] # "absent"
    BY <1>3, <2>2
  <2> QED BY <1>1, <1>5, <2>1, <2>2 DEF LeavesOf, Tables
<1> QED BY <1>4, <1>5

-----------------------------------------------------------------------------
(* Completeness: nothing that is due gets lost.                            *)

\* f is due at depth e when g has been parsed at depth d, or, for NoFunc, in
\* one of the loops of FindGraphFuncs.
Due(f, e, g, d) ==
  g # NoFunc =>
    /\ g \in Funcs /\ d \in Depths
    /\ \/ Replaced[g] = NoFunc /\ f \in ToSet(Callees[g]) /\ e = d + 1
       \/ Replaced[g] # NoFunc /\ f = Replaced[g] /\ e = d

\* It is in the table; and parsed there, unless something has been lost.
Reached(f, e) ==
  /\ graphs[f] # "absent"
  /\ f \in Traceable /\ ~cancelled /\ phase \notin missed => Started(f, e)

LEMMA StartedKept ==
  ASSUME Core, NEW t \in tasks, TaskStep(t), NEW f, NEW d, Started(f, d)
  PROVE  Started(f, d)'
<1>1. PICK N : tasks' = (tasks \ {t}) \cup N /\ parsed \subseteq parsed'
  BY StepLeaves DEF LeavesOf, Tables
<1>2. CASE <<f, d>> \in parsed
  BY <1>1, <1>2 DEF Started
<1>3. CASE \E u \in tasks : u # t /\ u.pc = "start" /\ u.ip = f /\ u.depth = d
  BY <1>1, <1>3 DEF Started
<1>4. CASE t.pc = "start" /\ t.ip = f /\ t.depth = d
  <2>1. Start(t)
    BY <1>4 DEF TaskStep, Lookup, Cached, DisassembleReplaced, Disassemble, DisassembleFails,
                AddTooDeep, AddNew, AddKnown, AddAgain, AddUntraceable, AddSize, AddParse, Finish
  <2> QED BY <1>4, <2>1 DEF Start, Started
<1> QED BY <1>2, <1>3, <1>4 DEF Started

LEMMA HandledKept ==
  ASSUME Core, NEW t \in tasks, TaskStep(t), NEW f \in Funcs, NEW d, Handled(f, d)
  PROVE  Handled(f, d)'
<1>1. graphs'[f] # "absent"
  BY StepLeaves DEF LeavesOf, Tables, Handled
<1> QED BY <1>1, StartedKept DEF Handled

\* Who has it in its list has handed it on, or still has it.
LEMMA DueLookup ==
  ASSUME Core, NEW t \in tasks, TaskStep(t), t.pc = "lookup", ~err',
         NEW f, NEW e, Due(f, e, t.ip, t.depth),
         Replaced[t.ip] # NoFunc => Accurate /\ "misread" \notin missed
  PROVE  Pending(f, e, t.ip, t.depth)'
<1>1. t \in Task /\ Shape(t) /\ TypeOK /\ t.ip # NoFunc
  BY DEF Core, TypeOK, Shape
<1>2. Lookup(t) \/ Disassemble(t) \/ DisassembleReplaced(t)
  BY DEF TaskStep, Start, DisassembleFails,
         AddTooDeep, AddNew, AddKnown, AddAgain, AddUntraceable, AddSize, AddParse, Finish
<1>3. PICK n \in Task :
         /\ tasks' = (tasks \ {t}) \cup {n}
         /\ n.pc = "next" /\ n.ip = t.ip /\ n.depth = t.depth /\ n.bpf = t.bpf
         /\ t.ip \in Funcs /\ t.depth \in Depths
         /\ \/ n.todo = Callees[t.ip] /\ n.at = t.depth + 1 /\ t.ip \in callee /\ ~n.store
            \/ /\ n.todo = Callees[t.ip] /\ n.at = t.depth + 1 /\ n.store
               /\ ~(t.bpf /\ Replaced[t.ip] # NoFunc)
            \/ /\ n.todo = <<Replaced[t.ip]>> /\ n.at = t.depth /\ ~n.store
               /\ t.bpf /\ Replaced[t.ip] # NoFunc
  BY <1>1, <1>2, LookupFields
<1>4. n.at = e /\ f \in ToSet(n.todo)
  <2>1. CASE Replaced[t.ip] = NoFunc
    BY <1>1, <1>3, <2>1 DEF Due
  <2>2. CASE Replaced[t.ip] # NoFunc
    <3>1. t.ip \notin callee /\ t.bpf
      BY <1>1, <2>2 DEF Accurate
    <3>2. n.todo = <<Replaced[t.ip]>> /\ n.at = t.depth
      BY <1>3, <2>2, <3>1
    <3> QED BY <1>1, <2>2, <3>2, ToSetOne DEF Due
  <2> QED BY <2>1, <2>2
<1> QED BY <1>3, <1>4 DEF Pending

LEMMA DueNext ==
  ASSUME Core, NEW t \in tasks, TaskStep(t), t.pc = "next",
         NEW f, f \in ToSet(t.todo), t.at \in Depths
  PROVE  Pending(f, t.at, t.ip, t.depth)'
<1>1. t \in Task /\ t.todo # <<>>
  BY ToSetEmpty DEF Core, TypeOK
<1>2. AddNew(t) \/ AddKnown(t)
  <2>1. ~AddTooDeep(t)
    BY ParserAssumption DEF AddTooDeep, TooDeep, Depths
  <2> QED BY <1>1, <2>1 DEF TaskStep, Start, Lookup, Cached, DisassembleReplaced, Disassemble,
             DisassembleFails, AddAgain, AddUntraceable, AddSize, AddParse, Finish
<1>3. PICK n : tasks' = (tasks \ {t}) \cup {n} /\ (n = At(t, "new") \/ n = At(t, "found"))
  BY <1>2 DEF AddNew, AddKnown, Move
<1>4. n.pc # "start" /\ n.ip = t.ip /\ n.depth = t.depth /\ n.at = t.at /\ n.todo = t.todo
  BY <1>1, <1>3, AtFields DEF Pcs
<1> QED BY <1>3, <1>4 DEF Pending

\* The rest of the list stays with the goroutine.
LEMMA DueRest ==
  ASSUME Core, NEW t \in tasks, t.todo # <<>>, NextAdd(t) \in tasks',
         NEW f, f \in ToSet(t.todo), f # Cur(t)
  PROVE  Pending(f, t.at, t.ip, t.depth)'
<1>1. t \in Task
  BY DEF Core, TypeOK
<1>2. PICK n \in tasks' : n = NextAdd(t)
  OBVIOUS
<1>3. n.pc = "next" /\ n.ip = t.ip /\ n.depth = t.depth /\ n.at = t.at /\ f \in ToSet(n.todo)
  BY <1>1, <1>2, NextFields
<1> QED BY <1>3 DEF Pending

LEMMA DueFound ==
  ASSUME Core, NEW t \in tasks, AddAgain(t), NEW f, f \in ToSet(t.todo)
  PROVE  Pending(f, t.at, t.ip, t.depth)' \/ Reached(f, t.at)'
<1>1. t \in Task /\ TypeOK /\ Filling
  BY DEF Core, TypeOK
<1>2. PICK N : /\ tasks' = (tasks \ {t}) \cup N /\ N \subseteq Task
               /\ t.todo # <<>> /\ Cur(t) \in Funcs /\ t.at \in Depths /\ NextAdd(t) \in N
               /\ N = IF HasBytes(Cur(t)) THEN {NextAdd(t), Parse(Cur(t), t.at, IsBPF(Cur(t)))}
                                          ELSE {NextAdd(t)}
  BY <1>1, AgainFields
<1>3. CASE f # Cur(t)
  BY <1>2, <1>3, DueRest
<1>4. CASE f = Cur(t)
  <2>1. graphs[f] # "absent" /\ graphs[f] \in GraphStates /\ graphs' = graphs
    BY <1>1, <1>2, <1>4 DEF AddAgain, Filling, TypeOK
  <2>2. CASE HasBytes(f)
    <3>1. PICK b \in BOOLEAN : b = IsBPF(f)
      BY DEF IsBPF
    <3>2. PICK p : p = Parse(f, t.at, b)
      OBVIOUS
    <3>3. p \in tasks' /\ p.pc = "start" /\ p.ip = f /\ p.depth = t.at
      BY <1>2, <1>4, <2>2, <3>1, <3>2, ParseFields
    <3> QED BY <2>1, <3>3 DEF Reached, Started
  <2>3. CASE ~HasBytes(f) /\ f \in Traceable
    <3>1. graphs[f] = "placed"
      BY <1>1, <1>2, <1>4, <2>1, <2>3 DEF HasBytes, GraphStates, Filling
    <3>2. phase' \in missed'
      BY <1>4, <2>3, <3>1 DEF AddAgain
    <3> QED BY <2>1, <3>2 DEF Reached
  <2>4. CASE f \notin Traceable
    BY <2>1, <2>4 DEF Reached
  <2> QED BY <2>2, <2>3, <2>4
<1> QED BY <1>3, <1>4

LEMMA DueFills ==
  ASSUME Core, NEW t \in tasks, AddUntraceable(t) \/ AddSize(t) \/ AddParse(t), ~err',
         NEW f, f \in ToSet(t.todo)
  PROVE  Pending(f, t.at, t.ip, t.depth)' \/ Reached(f, t.at)'
<1>1. t \in Task /\ TypeOK /\ Filling /\ t.todo # <<>> /\ t.at \in Depths
  BY DEF Core, TypeOK, AddUntraceable, AddSize, AddParse
<1>2. Cur(t) \in Funcs
  BY <1>1, NextFields
<1>3. CASE AddSize(t)
  <2>1. PICK n : tasks' = (tasks \ {t}) \cup {n} /\ n = At(t, "sized")
    BY <1>3 DEF AddSize, Move
  <2>2. n.pc # "start" /\ n.ip = t.ip /\ n.depth = t.depth /\ n.at = t.at /\ n.todo = t.todo
    BY <1>1, <2>1, AtFields DEF Pcs
  <2> QED BY <2>1, <2>2 DEF Pending
<1>4. CASE ~AddSize(t) /\ f # Cur(t)
  <2>1. NextAdd(t) \in tasks'
    BY <1>4 DEF AddUntraceable, AddParse, Move, MoveSpawn
  <2> QED BY <1>1, <1>4, <2>1, DueRest
<1>5. CASE AddUntraceable(t) /\ f = Cur(t)
  <2>1. graphs'[f] = "empty" /\ f \notin Traceable
    BY <1>1, <1>2, <1>5 DEF AddUntraceable, TypeOK
  <2> QED BY <2>1 DEF Reached
<1>6. CASE AddParse(t) /\ f = Cur(t)
  <2>1. graphs'[f] = "known" /\ ~err /\ cancelled' = cancelled
    BY <1>1, <1>2, <1>6 DEF AddParse, TypeOK
  <2>2. CASE cancelled
    BY <2>1, <2>2 DEF Reached
  <2>3. CASE ~cancelled
    <3>1. PICK b \in BOOLEAN : b = (Replaced[f] # NoFunc)
      OBVIOUS
    <3>2. PICK p : p = Parse(f, t.at, b)
      OBVIOUS
    <3>3. p \in tasks'
      BY <1>6, <2>1, <2>3, <3>1, <3>2 DEF AddParse, MoveSpawn
    <3>4. p.pc = "start" /\ p.ip = f /\ p.depth = t.at
      BY <1>1, <1>2, <1>6, <3>2, ParseFields
    <3> QED BY <2>1, <3>3, <3>4 DEF Reached, Started
  <2> QED BY <2>2, <2>3
<1> QED BY <1>3, <1>4, <1>5, <1>6

LEMMA DueKept ==
  ASSUME Core, NEW t \in tasks, TaskStep(t), ~err',
         NEW f \in Funcs, NEW e \in Depths, NEW g, NEW d, Due(f, e, g, d), Pending(f, e, g, d),
         g # NoFunc /\ Replaced[g] # NoFunc => Accurate /\ "misread" \notin missed
  PROVE  Pending(f, e, g, d)' \/ Reached(f, e)'
<1>1. PICK u \in tasks : /\ u.ip = g /\ u.depth = d /\ u.pc # "start"
                         /\ u.pc = "lookup" \/ (u.at = e /\ f \in ToSet(u.todo))
  BY DEF Pending
<1>2. CASE u # t
  <2>1. u \in tasks'
    BY <1>2, StepLeaves DEF LeavesOf
  <2> QED BY <1>1, <2>1 DEF Pending
<1>3. CASE u = t
  <2>1. t \in Task /\ Shape(t)
    BY DEF Core, TypeOK
  <2>2. CASE t.pc = "lookup"
    <3>1. t.ip # NoFunc
      BY <2>1, <2>2 DEF Shape
    <3> QED BY <1>1, <1>3, <2>2, <3>1, DueLookup
  <2>3. CASE t.pc = "next"
    BY <1>1, <1>3, <2>3, DueNext
  <2>4. CASE t.pc = "found"
    <3>1. AddAgain(t)
      BY <2>4 DEF TaskStep, Start, Lookup, Cached, DisassembleReplaced, Disassemble, DisassembleFails,
                  AddTooDeep, AddNew, AddKnown, AddUntraceable, AddSize, AddParse, Finish
    <3> QED BY <1>1, <1>3, <2>4, <3>1, DueFound
  <2>5. CASE t.pc \in {"new", "sized"}
    <3>1. AddUntraceable(t) \/ AddSize(t) \/ AddParse(t)
      BY <2>5 DEF TaskStep, Start, Lookup, Cached, DisassembleReplaced, Disassemble, DisassembleFails,
                  AddTooDeep, AddNew, AddKnown, AddAgain, Finish
    <3> QED BY <1>1, <1>3, <2>5, <3>1, DueFills
  <2> QED BY <1>1, <1>3, <2>1, <2>2, <2>3, <2>4, <2>5 DEF Task
<1> QED BY <1>2, <1>3

\* Who has just been parsed is still to be looked up.
LEMMA ParsedPending ==
  ASSUME Core, NEW t \in tasks, TaskStep(t), NEW g, NEW d, <<g, d>> \in parsed' \ parsed,
         NEW f, NEW e
  PROVE  Pending(f, e, g, d)'
<1>1. Start(t)
  BY DEF TaskStep, Lookup, DisassembleReplaced, Disassemble, DisassembleFails,
         AddTooDeep, AddNew, AddKnown, AddAgain, AddUntraceable, AddSize, AddParse, Finish
<1>2. g = t.ip /\ d = t.depth /\ ~checkParsed(t)
  BY <1>1 DEF Start, checkParsed
<1>3. PICK n : n = At(t, "lookup")
  OBVIOUS
<1>4. n \in tasks' /\ n.pc = "lookup" /\ n.ip = g /\ n.depth = d
  BY <1>1, <1>2, <1>3, AtFields DEF Start, Move, Core, TypeOK, Pcs
<1> QED BY <1>4 DEF Pending

LEMMA DueHandled ==
  ASSUME Core, NEW t \in tasks, TaskStep(t), ~err', Accurate, ~cancelled,
         missed' \cap {phase, "misread"} = {},
         NEW f \in Funcs, NEW e \in Depths, NEW g, NEW d, Due(f, e, g, d),
         Handled(f, e) \/ Pending(f, e, g, d)
  PROVE  Handled(f, e)' \/ Pending(f, e, g, d)'
<1>1. Tables(t)
  BY StepLeaves DEF LeavesOf
<1>2. CASE Handled(f, e)
  BY <1>2, HandledKept
<1>3. CASE Pending(f, e, g, d)
  <2>1. Pending(f, e, g, d)' \/ Reached(f, e)'
    BY <1>1, <1>3, DueKept DEF Tables
  <2> QED BY <1>1, <2>1 DEF Reached, Handled, Tables
<1> QED BY <1>2, <1>3

LEMMA DuePlaced ==
  ASSUME Core, NEW t \in tasks, TaskStep(t), ~err',
         NEW f \in Funcs, NEW e \in Depths, NEW g, NEW d, Due(f, e, g, d),
         g # NoFunc => Replaced[g] = NoFunc,
         graphs[f] # "absent" \/ Pending(f, e, g, d)
  PROVE  graphs'[f] # "absent" \/ Pending(f, e, g, d)'
<1>1. CASE graphs[f] # "absent"
  BY <1>1, StepLeaves DEF LeavesOf, Tables
<1>2. CASE Pending(f, e, g, d)
  BY <1>2, DueKept DEF Reached
<1> QED BY <1>1, <1>2

LEMMA CalleesTyped ==
  ASSUME NEW g \in Funcs
  PROVE  /\ ToSet(Callees[g]) \subseteq Funcs
         /\ Replaced[g] # NoFunc => Replaced[g] \in Funcs
         /\ g # NoFunc
BY ParserAssumption, ToSetIn

LEMMA FullStep ==
  ASSUME Core, Accurate, Full, NEW t \in tasks, TaskStep(t)
  PROVE  Full'
<1>1. Tables(t) /\ phase' = phase /\ cancelled' = cancelled /\ Seeds' = Seeds /\ Extras' = Extras
  BY StepLeaves DEF LeavesOf, Tables, Seeds, Extras
<1> SUFFICES ASSUME phase \in {"deny", "graph"}, ~err', ~cancelled, missed' \cap {phase, "misread"} = {}
             PROVE  /\ \A g \in Funcs, d \in Depths : <<g, d>> \in parsed' =>
                         /\ Replaced[g] = NoFunc /\ d + 1 \in Depths =>
                              \A f \in ToSet(Callees[g]) :
                                 Handled(f, d + 1)' \/ Pending(f, d + 1, g, d)'
                         /\ Replaced[g] # NoFunc =>
                              Handled(Replaced[g], d)' \/ Pending(Replaced[g], d, g, d)'
                    /\ phase = "deny" => \A f \in Seeds : Handled(f, 0)' \/ Pending(f, 0, NoFunc, 0)'
                    /\ phase = "graph" => \A f \in Seeds : Started(f, 0)'
                    /\ 1 \in Depths => \A f \in Extras : Handled(f, 1)' \/ Pending(f, 1, NoFunc, 0)'
  BY <1>1 DEF Full, Handled, Pending, Started
<1>2. missed \cap {phase, "misread"} = {} /\ ~err
  BY <1>1 DEF Tables
<1>3. ASSUME NEW g \in Funcs, NEW d \in Depths, <<g, d>> \in parsed',
             Replaced[g] = NoFunc, d + 1 \in Depths, NEW f \in ToSet(Callees[g])
      PROVE  Handled(f, d + 1)' \/ Pending(f, d + 1, g, d)'
  <2> DEFINE e == d + 1
  <2>1. CASE <<g, d>> \in parsed
    <3>1. f \in Funcs /\ Due(f, e, g, d)
      BY <1>3, CalleesTyped DEF Due
    <3>2. Handled(f, e) \/ Pending(f, e, g, d)
      BY <1>2, <1>3, <2>1 DEF Full
    <3>3. e \in Depths
      BY <1>3
    <3> HIDE DEF e
    <3>4. Handled(f, e)' \/ Pending(f, e, g, d)'
      BY <1>2, <3>1, <3>2, <3>3, DueHandled
    <3> QED BY <3>4 DEF e
  <2>2. CASE <<g, d>> \notin parsed
    BY <1>3, <2>2, ParsedPending
  <2> QED BY <2>1, <2>2
<1>4. ASSUME NEW g \in Funcs, NEW d \in Depths, <<g, d>> \in parsed', Replaced[g] # NoFunc
      PROVE  Handled(Replaced[g], d)' \/ Pending(Replaced[g], d, g, d)'
  <2> DEFINE f == Replaced[g]
  <2>1. CASE <<g, d>> \in parsed
    <3>1. f \in Funcs /\ Due(f, d, g, d)
      BY <1>4, CalleesTyped DEF Due
    <3>2. Handled(f, d) \/ Pending(f, d, g, d)
      BY <1>2, <1>4, <2>1 DEF Full
    <3>3. f' = f
      OBVIOUS
    <3> QED BY <3>1, <3>2, DueHandled
  <2>2. CASE <<g, d>> \notin parsed
    BY <1>4, <2>2, ParsedPending
  <2> QED BY <2>1, <2>2
<1>5. ASSUME phase = "deny", NEW f \in Seeds PROVE Handled(f, 0)' \/ Pending(f, 0, NoFunc, 0)'
  <2>1. f \in Funcs /\ Due(f, 0, NoFunc, 0) /\ 0 \in Depths
    BY SeedsTyped, ListsTyped DEF Due
  <2>2. Handled(f, 0) \/ Pending(f, 0, NoFunc, 0)
    BY <1>2, <1>5 DEF Full
  <2> QED BY <2>1, <2>2, DueHandled
<1>6. ASSUME phase = "graph", NEW f \in Seeds PROVE Started(f, 0)'
  BY <1>2, <1>6, StartedKept DEF Full
<1>7. ASSUME 1 \in Depths, NEW f \in Extras PROVE Handled(f, 1)' \/ Pending(f, 1, NoFunc, 0)'
  <2>1. f \in Funcs /\ Due(f, 1, NoFunc, 0)
    BY SeedsTyped DEF Due
  <2>2. Handled(f, 1) \/ Pending(f, 1, NoFunc, 0)
    BY <1>2, <1>7 DEF Full
  <2> QED BY <1>7, <2>1, <2>2, DueHandled
<1> QED BY <1>3, <1>4, <1>5, <1>6, <1>7

LEMMA LooseStep ==
  ASSUME Core, Loose, NEW t \in tasks, TaskStep(t)
  PROVE  Loose'
<1>1. Tables(t) /\ phase' = phase /\ (err => err')
  BY StepLeaves DEF LeavesOf, Tables
<1> SUFFICES ASSUME phase = "graph", ~err', 1 \in Depths
             PROVE  /\ \A r \in Roots : Started(r, 0)'
                    /\ \A r \in Roots : <<r, 0>> \in parsed' /\ Replaced[r] = NoFunc =>
                         \A f \in ToSet(Callees[r]) : graphs'[f] # "absent" \/ Pending(f, 1, r, 0)'
                    /\ \A f \in ToSet(Extra) : graphs'[f] # "absent" \/ Pending(f, 1, NoFunc, 0)'
  BY <1>1 DEF Loose, Pending, Started
<1>2. ASSUME NEW r \in Roots PROVE Started(r, 0)'
  BY <1>1, StartedKept DEF Loose
<1>3. ASSUME NEW r \in Roots, <<r, 0>> \in parsed', Replaced[r] = NoFunc, NEW f \in ToSet(Callees[r])
      PROVE  graphs'[f] # "absent" \/ Pending(f, 1, r, 0)'
  <2>1. r \in Funcs /\ f \in Funcs /\ 0 \in Depths
    BY CalleesTyped, ListsTyped, ParserAssumption
  <2>2. CASE <<r, 0>> \in parsed
    <3>1. Due(f, 1, r, 0)
      BY <1>3, <2>1 DEF Due
    <3>2. graphs[f] # "absent" \/ Pending(f, 1, r, 0)
      BY <1>1, <1>3, <2>2 DEF Loose
    <3> QED BY <1>3, <2>1, <3>1, <3>2, DuePlaced
  <2>3. CASE <<r, 0>> \notin parsed
    BY <1>3, <2>3, ParsedPending
  <2> QED BY <2>2, <2>3
<1>4. ASSUME NEW f \in ToSet(Extra) PROVE graphs'[f] # "absent" \/ Pending(f, 1, NoFunc, 0)'
  <2>1. f \in Funcs /\ Due(f, 1, NoFunc, 0)
    BY ListsTyped DEF Due
  <2>2. graphs[f] # "absent" \/ Pending(f, 1, NoFunc, 0)
    BY <1>1 DEF Loose
  <2> QED BY <2>1, <2>2, DuePlaced
<1> QED BY <1>2, <1>3, <1>4

-----------------------------------------------------------------------------
(* A pass begins, and ends.                                                *)

LEMMA InitRest == Init => Accurate /\ Within /\ Full /\ Loose
<1> SUFFICES ASSUME Init PROVE Accurate /\ Within /\ Full /\ Loose
  OBVIOUS
<1>1. PICK l : l = AddLoop(DenyList, 0)
  OBVIOUS
<1>2. /\ l.pc = "next" /\ l.ip = NoFunc /\ l.depth = 0 /\ ~l.store
      /\ l.todo = DenyList /\ l.at = 0
  BY <1>1, LoopFields, ListsTyped
<1>3. tasks = {l} /\ phase = "deny" /\ parsed = {} /\ callee = {}
      /\ Seeds = ToSet(DenyList) /\ Extras = {}
      /\ \A f \in Funcs : graphs[f] = "absent"
  BY <1>1 DEF Init, NewTable, Seeds, Extras
<1>4. Accurate
  BY <1>2, <1>3 DEF Accurate
<1>5. Within
  BY <1>2, <1>3 DEF Within, WorkIn, MayAdd
<1>6. Full
  BY <1>2, <1>3 DEF Full, Pending
<1> QED BY <1>3, <1>4, <1>5, <1>6 DEF Loose

LEMMA PassRest ==
  ASSUME Core, WaitDeny
  PROVE  Accurate' /\ Within' /\ Full' /\ Loose'
<1> DEFINE R == {Parse(f, 0, Replaced[f] # NoFunc) : f \in Roots}
<1>1. PICK l : l = AddLoop(Extra, 1)
  OBVIOUS
<1>2. /\ l.pc = "next" /\ l.ip = NoFunc /\ l.depth = 0 /\ ~l.store
      /\ l.todo = Extra /\ l.at = 1
  BY <1>1, LoopFields, ListsTyped
<1>3. \A f \in Roots : LET p == Parse(f, 0, Replaced[f] # NoFunc) IN
        /\ p.pc = "start" /\ p.ip = f /\ p.depth = 0 /\ (Replaced[f] # NoFunc => p.bpf)
        /\ p.todo = <<>> /\ ~p.store
  BY DEF Parse
<1>4. \A p \in R : /\ p.pc = "start" /\ p.ip \in Roots /\ p.depth = 0
                   /\ Replaced[p.ip] # NoFunc => p.bpf
                   /\ p.todo = <<>> /\ ~p.store
  BY <1>3
<1>5. \A f \in Roots : \E p \in R : p.pc = "start" /\ p.ip = f /\ p.depth = 0
  BY <1>3
<1>6. tasks' = R \cup {l} /\ phase' = "graph" /\ parsed' = {} /\ callee' = {}
      /\ Seeds' = Roots /\ Extras' = ToSet(Extra)
      /\ \A f \in Funcs : graphs'[f] = "absent"
  BY <1>1 DEF WaitDeny, NewTable, Seeds, Extras
<1> HIDE DEF R
<1>7. Accurate'
  BY <1>2, <1>4, <1>6 DEF Accurate
<1>8. Within'
  <2> SUFFICES ASSUME NEW X \in Families, Closed(X, Roots, ToSet(Extra))
               PROVE  \A u \in tasks' : WorkIn(u, X)'
    BY <1>6 DEF Within, WorkIn, MayAdd
  <2>1. ASSUME NEW p \in R PROVE WorkIn(p, X)'
    <3>1. p.ip \in ParsedAt(X, Roots, p.depth)
      BY <1>4, <2>1 DEF ParsedAt
    <3>2. ToSet(p.todo) = {}
      BY <1>4, <2>1, ToSetEmpty
    <3> QED BY <1>6, <3>1, <3>2 DEF WorkIn
  <2>2. WorkIn(l, X)'
    BY <1>2, <1>6 DEF WorkIn, MayAdd, Closed
  <2> QED BY <1>6, <2>1, <2>2
<1>9. \A f \in Roots : Started(f, 0)'
  BY <1>5, <1>6 DEF Started
<1>10. \A f \in ToSet(Extra) : Pending(f, 1, NoFunc, 0)'
  BY <1>2, <1>6 DEF Pending
<1>11. Full'
  BY <1>6, <1>9, <1>10 DEF Full
<1>12. Loose'
  BY <1>6, <1>9, <1>10 DEF Loose
<1> QED BY <1>7, <1>8, <1>11, <1>12

LEMMA WaitRest ==
  ASSUME Core, Accurate, Within, Full, Loose, WaitGraph \/ WaitFails \/ Cancel \/ UNCHANGED vars
  PROVE  Accurate' /\ Within' /\ Full' /\ Loose'
<1>1. /\ UNCHANGED <<graphs, callee, parsed, tasks, err, missed>>
      /\ cancelled => cancelled'
      /\ phase' = phase \/ (phase = "graph" /\ phase' = "done") \/ phase' = "failed"
  BY DEF WaitGraph, WaitFails, Cancel, vars
<1>2. Accurate'
  BY <1>1 DEF Accurate
<1>3. Within'
  BY <1>1 DEF Within, WorkIn, MayAdd, PlacedIn, Seeds, Extras
<1>4. Full'
  BY <1>1 DEF Full, Handled, Pending, Started, Seeds, Extras
<1>5. Loose'
  BY <1>1 DEF Loose, Pending, Started
<1> QED BY <1>2, <1>3, <1>4, <1>5

\* When a pass is over, what it handled is closed under calling.
LEMMA HandledClosed ==
  ASSUME Core, Full, phase \in {"deny", "graph"}, tasks = {}, ~err, ~cancelled,
         missed \cap {phase, "misread"} = {},
         NEW X, X = [d \in Depths |-> {f \in Funcs : Handled(f, d)}]
  PROVE  X \in Families /\ Closed(X, Seeds, Extras)
<1>1. X \in Families /\ \A d \in Depths : X[d] = {f \in Funcs : Handled(f, d)}
  BY DEF Families
<1>2. \A f, e, g, d : ~Pending(f, e, g, d)
  BY DEF Pending
<1>3. \A f, d : Started(f, d) => <<f, d>> \in parsed
  BY DEF Started
<1>4. ASSUME NEW d \in Depths, NEW g \in ParsedAt(X, Seeds, d)
      PROVE  g \in Funcs /\ <<g, d>> \in parsed
  <2>1. CASE g \in X[d] \cap Traceable
    BY <1>1, <1>3, <2>1 DEF Handled
  <2>2. CASE d = 0 /\ g \in Seeds
    <3>1. g \in Funcs /\ (phase = "deny" => g \in Traceable)
      BY <2>2, SeedsTyped
    <3>2. Started(g, 0)
      BY <1>2, <2>2, <3>1 DEF Full, Handled
    <3> QED BY <1>3, <2>2, <3>1, <3>2
  <2> QED BY <1>4, <2>1, <2>2 DEF ParsedAt
<1>5. ASSUME NEW d \in Depths, NEW g \in ParsedAt(X, Seeds, d), Replaced[g] # NoFunc
      PROVE  Replaced[g] \in X[d]
  <2>1. Handled(Replaced[g], d) /\ Replaced[g] \in Funcs
    BY <1>2, <1>4, <1>5, CalleesTyped DEF Full
  <2> QED BY <1>1, <2>1
<1>6. ASSUME NEW d \in Depths, NEW g \in ParsedAt(X, Seeds, d), Replaced[g] = NoFunc, d + 1 \in Depths,
             NEW f \in ToSet(Callees[g])
      PROVE  f \in X[d + 1]
  <2>1. Handled(f, d + 1) /\ f \in Funcs
    BY <1>2, <1>4, <1>6, CalleesTyped DEF Full
  <2> QED BY <1>1, <1>6, <2>1
<1>7. ASSUME 1 \in Depths PROVE Extras \subseteq X[1]
  <2>1. \A f \in Extras : Handled(f, 1) /\ f \in Funcs
    BY <1>2, <1>7, SeedsTyped DEF Full
  <2> QED BY <1>1, <1>7, <2>1
<1>8. Closed(X, Seeds, Extras)
  BY <1>5, <1>6, <1>7 DEF Closed
<1> QED BY <1>1, <1>8

LEMMA AddedInTable ==
  ASSUME Core, Full, phase \in {"deny", "graph"}, tasks = {}, ~err, ~cancelled,
         missed \cap {phase, "misread"} = {}
  PROVE  Added(Seeds, Extras) \subseteq Placed
<1>1. PICK X : X = [d \in Depths |-> {f \in Funcs : Handled(f, d)}]
  OBVIOUS
<1>2. X \in Families /\ Closed(X, Seeds, Extras)
  BY <1>1, HandledClosed
<1>3. PICK L \in Families :
        /\ Closed(L, Seeds, Extras) /\ Added(Seeds, Extras) = UNION {L[d] : d \in Depths}
        /\ \A Y \in Families : Closed(Y, Seeds, Extras) => \A d \in Depths : L[d] \subseteq Y[d]
  BY SeedsTyped, AddedLeast
<1>4. \A d \in Depths : X[d] \subseteq Placed
  BY <1>1 DEF Handled, Placed
<1> QED BY <1>2, <1>3, <1>4

LEMMA TableAdded ==
  ASSUME Within, phase # "failed", "misread" \notin missed, NEW f \in Placed
  PROVE  f \in Added(Seeds, Extras) \/ (phase = "deny" /\ f \in Seeds)
<1>1. PICK L \in Families :
        /\ Closed(L, Seeds, Extras) /\ Added(Seeds, Extras) = UNION {L[d] : d \in Depths}
        /\ \A Y \in Families : Closed(Y, Seeds, Extras) => \A d \in Depths : L[d] \subseteq Y[d]
  BY SeedsTyped, AddedLeast
<1>2. PlacedIn(f, L)
  BY <1>1 DEF Within, Placed
<1> QED BY <1>1, <1>2 DEF PlacedIn

\* No FuncGraph is left unfinished when the goroutines have ended.
LEMMA EndsKnown ==
  ASSUME Core, tasks = {}
  PROVE  Found = Placed \cap Traceable
<1>1. \A f \in Funcs : graphs[f] \in {"absent", "known", "empty"}
  BY DEF Core, TypeOK, GraphStates, Filling
<1>2. \A f \in Funcs : /\ graphs[f] = "empty" => f \notin Traceable
                       /\ graphs[f] = "known" => f \in Traceable
  BY DEF Core, Filling
<1> QED BY <1>1, <1>2 DEF Found, Placed

Results == ResultSound /\ ResultComplete /\ DenyComplete

LEMMA WaitDenyResults ==
  ASSUME IInv, WaitDeny
  PROVE  Results'
<1> USE DEF IInv
<1>1. phase = "deny" /\ phase' = "graph" /\ tasks = {} /\ ~err /\ denylist' = Placed
      /\ cancelled' = cancelled /\ missed' = missed
  BY DEF WaitDeny, Waited
<1>2. ASSUME ~cancelled, missed \cap {"deny", "misread"} = {}
      PROVE  Placed = GraphOfDeny
  <2>1. GraphOfDeny = Seeds \cup Added(Seeds, Extras)
    BY <1>1 DEF GraphOfDeny, Seeds, Extras
  <2>2. Added(Seeds, Extras) \subseteq Placed
    BY <1>1, <1>2, AddedInTable
  <2>3. Seeds \subseteq Placed
    BY <1>1, <1>2, SeedsTyped DEF Full, Handled, Pending, Placed
  <2>4. Placed \subseteq Seeds \cup Added(Seeds, Extras)
    BY <1>1, <1>2, TableAdded
  <2> QED BY <2>1, <2>2, <2>3, <2>4
<1>3. DenyComplete'
  BY <1>1, <1>2 DEF DenyComplete, GraphOfDeny
<1> QED BY <1>1, <1>3 DEF Results, ResultSound, ResultComplete

LEMMA WaitGraphResults ==
  ASSUME IInv, WaitGraph
  PROVE  Results'
<1> USE DEF IInv
<1>1. /\ phase = "graph" /\ phase' = "done" /\ tasks = {} /\ ~err /\ result' = Found \ Denied
      /\ cancelled' = cancelled /\ missed' = missed /\ denylist' = denylist /\ err' = err
      /\ Seeds = Roots /\ Extras = ToSet(Extra)
  BY DEF WaitGraph, Waited, Seeds, Extras
<1>2. Found = Placed \cap Traceable
  BY <1>1, EndsKnown
<1>3. Denied = IF Debug THEN {} ELSE Found \cap denylist
  BY DEF Denied
<1>4. ResultSound'
  <2>1. "misread" \notin missed => Found \subseteq GraphOfRoots
    BY <1>1, <1>2, TableAdded DEF GraphOfRoots
  <2>2. Debug \/ result' \cap denylist = {}
    BY <1>1, <1>3
  <2> QED BY <1>1, <2>1, <2>2 DEF ResultSound, GraphOfRoots
<1>5. ASSUME ~cancelled, missed \cap {"graph", "misread"} = {}
      PROVE  GraphOfRoots \ (IF Debug THEN {} ELSE denylist) \subseteq result'
  <2>1. Added(Roots, ToSet(Extra)) \subseteq Placed
    BY <1>1, <1>5, AddedInTable
  <2>2. GraphOfRoots \subseteq Found
    BY <1>2, <2>1 DEF GraphOfRoots
  <2> QED BY <1>1, <1>3, <2>2
<1>6. ASSUME MaxDepth > 0
      PROVE  ((Called(Roots) \cup ToSet(Extra)) \cap Traceable) \ denylist \subseteq result'
  <2>1. 1 \in Depths
    BY <1>6, ParserAssumption DEF Depths
  <2>2. \A f, e, g, d : ~Pending(f, e, g, d)
    BY <1>1 DEF Pending
  <2>3. ASSUME NEW r \in Roots, Replaced[r] = NoFunc, NEW f \in ToSet(Callees[r])
        PROVE  f \in Placed
    <3>1. <<r, 0>> \in parsed
      BY <1>1, <2>1 DEF Loose, Started
    <3>2. f \in Funcs /\ graphs[f] # "absent"
      BY <1>1, <2>1, <2>2, <2>3, <3>1, CalleesTyped, ParserAssumption DEF Loose
    <3> QED BY <3>2 DEF Placed
  <2>4. Called(Roots) \subseteq Placed
    BY <2>3 DEF Called
  <2>5. ToSet(Extra) \subseteq Placed
    BY <1>1, <2>1, <2>2, ListsTyped DEF Loose, Placed
  <2> QED BY <1>1, <1>2, <1>3, <2>4, <2>5
<1>7. ResultComplete'
  BY <1>1, <1>5, <1>6 DEF ResultComplete, GraphOfRoots
<1>8. DenyComplete'
  BY <1>1 DEF DenyComplete, GraphOfDeny
<1> QED BY <1>4, <1>7, <1>8 DEF Results

LEMMA OtherResults ==
  ASSUME IInv, \/ \E t \in tasks : TaskStep(t)
               \/ WaitFails \/ Cancel \/ UNCHANGED vars
  PROVE  Results'
<1> USE DEF IInv
<1>1. CASE \E t \in tasks : TaskStep(t)
  <2>1. PICK t \in tasks : TaskStep(t)
    BY <1>1
  <2>2. phase' = phase /\ phase # "done" /\ denylist' = denylist /\ cancelled' = cancelled
        /\ missed \subseteq missed'
    BY <2>1, StepLeaves DEF LeavesOf, Tables, Core
  <2>3. DenyComplete'
    BY <2>2 DEF DenyComplete, GraphOfDeny
  <2> QED BY <2>2, <2>3 DEF Results, ResultSound, ResultComplete
<1>2. CASE WaitFails
  BY <1>2 DEF WaitFails, Results, ResultSound, ResultComplete, DenyComplete
<1>3. CASE Cancel
  BY <1>3 DEF Cancel, Results, ResultSound, ResultComplete, DenyComplete
<1>4. CASE UNCHANGED vars
  BY <1>4 DEF vars, Results, ResultSound, ResultComplete, DenyComplete, GraphOfRoots, GraphOfDeny
<1> QED BY <1>1, <1>2, <1>3, <1>4

-----------------------------------------------------------------------------
(* The invariant, and what it is for.                                      *)

LEMMA InitIInv == Init => IInv
<1>1. Init => Results
  BY DEF Init, Results, ResultSound, ResultComplete, DenyComplete
<1> QED BY <1>1, InitCore, InitRest DEF IInv, Results

LEMMA NextIInv == IInv /\ [Next]_vars => IInv'
<1> SUFFICES ASSUME IInv, [Next]_vars PROVE IInv'
  OBVIOUS
<1>1. Core'
  BY NextCore DEF IInv
<1>2. Accurate' /\ Within' /\ Full' /\ Loose'
  <2>1. CASE \E t \in tasks : TaskStep(t)
    BY <2>1, AccurateStep, WithinStep, FullStep, LooseStep DEF IInv
  <2>2. CASE WaitDeny
    BY <2>2, PassRest DEF IInv
  <2>3. CASE WaitGraph \/ WaitFails \/ Cancel \/ UNCHANGED vars
    BY <2>3, WaitRest DEF IInv
  <2> QED BY <2>1, <2>2, <2>3 DEF Next
<1>3. Results'
  BY WaitDenyResults, WaitGraphResults, OtherResults DEF Next
<1> QED BY <1>1, <1>2, <1>3 DEF IInv, Results

\* FindGraphFuncs returns no function beyond --fgraph-max-depth and no denied
\* one, and no partial graph after a failed disassembly, for every call graph,
\* every list and depth, in whatever order its goroutines run.
THEOREM ResultSoundHolds == Spec => []ResultSound
<1>1. IInv => ResultSound
  BY DEF IInv
<1> QED BY <1>1, InitIInv, NextIInv, PTL DEF Spec

\* It returns every function within the depth, unless an add met a FuncGraph
\* that another goroutine was filling in, or a signal cancelled it; and what a
\* root calls, and the extra functions, whatever was met.
THEOREM ResultCompleteHolds == Spec => []ResultComplete
<1>1. IInv => ResultComplete
  BY DEF IInv
<1> QED BY <1>1, InitIInv, NextIInv, PTL DEF Spec

\* The denied functions that the second parser is given are the listed ones and
\* exactly those they reach, unless an add met an unfinished FuncGraph.
THEOREM DenyCompleteHolds == Spec => []DenyComplete
<1>1. IInv => DenyComplete
  BY DEF IInv
<1> QED BY <1>1, InitIInv, NextIInv, PTL DEF Spec
=============================================================================
