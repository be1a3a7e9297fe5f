-------------------------- MODULE BpfTracing_proofs --------------------------
(***************************************************************************)
(* Proofs about BpfTracing, for any targets and flags.  IInv says which    *)
(* goroutine still has an attached program that is not in the lists, and   *)
(* what the parser has done with the programs of the table.                *)
(***************************************************************************)
EXTENDS BpfTracing, TLAPS

\* The program a goroutine attaches.
Prog(t) == [t EXCEPT !.pc = "run"]

\* A goroutine is for a program of its own, which it has not put in the lists.
Own ==
  /\ \A t \in tasks : t.pc \in {"load", "attach", "append"}
  /\ \A t, u \in tasks : Prog(t) = Prog(u) => t = u
  /\ \A t \in tasks : Prog(t) \notin listed
  /\ tasks # {} => main = "tracing" \/ main \in Ended

\* What is attached is in the lists, or its goroutine is about to put it there.
Listed ==
  Alive => /\ listed \subseteq attached
           /\ \A p \in attached : p \in listed \/ \E t \in tasks : t.pc = "append" /\ Prog(t) = p
           /\ \A t \in tasks : t.pc = "append" => Prog(t) \in attached
           /\ main = "prepare" => attached = {}

\* The parser is done when it has the flags of all programs.
Parsed ==
  /\ \A x \in parsing : table[x] = "absent"
  /\ done => \A x \in Progs : table[x] = "flagged"

IInv == TypeOK /\ Own /\ Listed /\ Parsed /\ LinksClosed /\ PanicOnlyBeforeParsed

-----------------------------------------------------------------------------
LEMMA Fields ==
  ASSUME NEW t \in Program
  PROVE  t = [x |-> t.x, end |-> t.end, both |-> t.both, kprobe |-> t.kprobe, pc |-> t.pc]
BY DEF Program

LEMMA Pcs ==
  ASSUME NEW t \in Program, NEW q \in {"load", "attach", "append", "run"}
  PROVE  /\ [t EXCEPT !.pc = q] \in Program /\ [t EXCEPT !.pc = q].pc = q
         /\ Prog([t EXCEPT !.pc = q]) = Prog(t)
         /\ Prog(t) \in Program
BY DEF Program, Prog

LEMMA SameProg ==
  ASSUME NEW t \in Program, NEW u \in Program, u.pc = t.pc, Prog(u) = Prog(t)
  PROVE  u = t
<1>1. /\ Prog(u).x = u.x /\ Prog(u).end = u.end /\ Prog(u).both = u.both /\ Prog(u).kprobe = u.kprobe
      /\ Prog(t).x = t.x /\ Prog(t).end = t.end /\ Prog(t).both = t.both /\ Prog(t).kprobe = t.kprobe
  BY DEF Program, Prog
<1>2. u.x = t.x /\ u.end = t.end /\ u.both = t.both /\ u.kprobe = t.kprobe
  BY <1>1
<1> QED BY <1>2, Fields

\* The goroutines of NewBPFTracing.
AllTasks == FuncTasks \cup ProgTasks \cup InsnTasks \cup {GraphTask}

LEMMA NewTasks ==
  ASSUME conf \in Confs
  PROVE  AllTasks \subseteq Program /\ \A t \in AllTasks : t.pc = "load"
<1> DEFINE Pair == {"entry", "exit", "insn", "graphs"} \X BOOLEAN
<1>1. \A x \in Targets : TrampolinePrograms(x) \subseteq Pair /\ KprobePrograms(x) \subseteq Pair
  <2>1. \A e \in {"entry", "exit"}, b \in BOOLEAN : <<e, b>> \in Pair
    OBVIOUS
  <2>2. (IF hasModeExit THEN "exit" ELSE "entry") \in {"entry", "exit"}
    OBVIOUS
  <2> HIDE DEF Pair
  <2> QED BY <2>1, <2>2 DEF TrampolinePrograms, KprobePrograms
<1>2. \A x \in Targets \cup {NoTarget}, p \in Pair, kp \in BOOLEAN :
        Task(x, p, kp) \in Program /\ Task(x, p, kp).pc = "load"
  BY DEF Task, Program
<1>3. useKprobe \in BOOLEAN /\ Kfuncs \subseteq Targets /\ Progs \subseteq Targets
  BY DEF useKprobe, Kfuncs, Progs
<1>4. \A t \in FuncTasks : t \in Program /\ t.pc = "load"
  <2> SUFFICES ASSUME NEW x \in Kfuncs,
                      NEW p \in IF useKprobe THEN KprobePrograms(x) ELSE TrampolinePrograms(x)
               PROVE  Task(x, p, useKprobe) \in Program /\ Task(x, p, useKprobe).pc = "load"
    BY DEF FuncTasks
  <2>1. p \in Pair
    BY <1>1, <1>3
  <2> QED BY <1>2, <1>3, <2>1
<1>5. \A t \in ProgTasks : t \in Program /\ t.pc = "load"
  <2> TAKE t \in ProgTasks
  <2>1. PICK x \in Progs : t \in {Task(x, p, FALSE) : p \in TrampolinePrograms(x)}
    BY DEF ProgTasks
  <2>2. PICK p \in TrampolinePrograms(x) : t = Task(x, p, FALSE)
    BY <2>1
  <2>3. x \in Targets /\ p \in Pair
    BY <1>1, <1>3
  <2> HIDE DEF Pair
  <2> QED BY <1>2, <2>2, <2>3
<1>6. \A t \in InsnTasks : t \in Program /\ t.pc = "load"
  <2> TAKE t \in InsnTasks
  <2>1. PICK x \in Kfuncs : t = Task(x, <<"insn", FALSE>>, TRUE)
    BY DEF InsnTasks
  <2>2. <<"insn", FALSE>> \in Pair
    OBVIOUS
  <2> HIDE DEF Pair
  <2> QED BY <1>2, <1>3, <2>1, <2>2
<1>7. GraphTask \in Program /\ GraphTask.pc = "load"
  <2>1. <<"graphs", FALSE>> \in Pair
    OBVIOUS
  <2> QED BY <1>2, <2>1 DEF GraphTask
<1> QED BY <1>4, <1>5, <1>6, <1>7 DEF AllTasks

-----------------------------------------------------------------------------
LEMMA InitIInv == Init => IInv
<1> SUFFICES ASSUME Init PROVE IInv
  OBVIOUS
<1> USE DEF Init
<1>1. TypeOK
  <2>1. both \in [Targets -> BOOLEAN]
    <3>1. \A x \in Targets : conf.of[x].both \in BOOLEAN
      BY TracingAssumption DEF Configuration, Target
    <3> QED BY <3>1
  <2> QED BY <2>1 DEF TypeOK, Ended, Alive
<1>2. Own /\ Listed /\ Parsed
  BY DEF Own, Listed, Parsed, Ended, Progs
<1>3. LinksClosed /\ PanicOnlyBeforeParsed
  BY DEF LinksClosed, PanicOnlyBeforeParsed
<1> QED BY <1>1, <1>2, <1>3 DEF IInv

\* The process ends, with what it had attached.
LEMMA DieIInv ==
  ASSUME IInv, NEW how \in Ended, Die(how), how = "crashed" => ~done,
         UNCHANGED <<conf, both, table_vars, tasks, err, listed, call_vars>>
  PROVE  IInv'
<1> USE DEF IInv, Die, table_vars, call_vars, Ended
<1>1. TypeOK'
  BY DEF TypeOK, Alive, Progs, Kind
<1>2. Own' /\ Listed' /\ Parsed'
  BY DEF Own, Listed, Parsed, Alive, Progs, Kind
<1>3. LinksClosed' /\ PanicOnlyBeforeParsed'
  BY DEF LinksClosed, PanicOnlyBeforeParsed
<1> QED BY <1>1, <1>2, <1>3

LEMMA ParserIInv ==
  ASSUME IInv, Parser
  PROVE  IInv'
<1> USE DEF IInv
<1>1. ASSUME NEW x \in parsing, AddProg(x) \/ AddProgFails(x) PROVE IInv'
  <2>1. /\ Alive /\ parsing' = parsing \ {x} /\ done' = done
        /\ table' = table \/ table' = [table EXCEPT ![x] = "added"]
        /\ perr' \in BOOLEAN
        /\ UNCHANGED <<conf, both, start_vars, call_vars>>
    BY <1>1 DEF AddProg, AddProgFails, TypeOK
  <2>2. x \in Progs /\ x \in Targets /\ table[x] = "absent"
    BY DEF TypeOK, Parsed, Progs
  <2>3. ~done
    BY <2>2 DEF Parsed
  <2>4. TypeOK'
    BY <2>1, <2>2 DEF TypeOK, Alive, Ended, start_vars, Progs, Kind
  <2>5. Own' /\ Listed'
    BY <2>1 DEF Own, Listed, Alive, start_vars
  <2>6. Parsed'
    <3>1. \A y \in parsing' : y \in Targets /\ y # x /\ table[y] = "absent"
      BY <2>1 DEF Parsed, TypeOK, Progs
    <3>2. \A y \in parsing' : table'[y] = "absent"
      BY <2>1, <3>1 DEF TypeOK
    <3> QED BY <2>1, <2>3, <3>2 DEF Parsed
  <2>7. LinksClosed' /\ PanicOnlyBeforeParsed'
    BY <2>1, <2>3 DEF LinksClosed, PanicOnlyBeforeParsed, start_vars
  <2> QED BY <2>4, <2>5, <2>6, <2>7
<1>2. ASSUME NEW x \in Targets, SetFlag(x) PROVE IInv'
  <2> USE <1>2 DEF SetFlag
  <2>1. TypeOK'
    BY DEF TypeOK, Alive, Ended, start_vars, Progs, Kind
  <2>2. Own' /\ Listed'
    BY DEF Own, Listed, Alive, start_vars
  <2>3. Parsed'
    BY DEF Parsed, TypeOK, Progs, Kind
  <2>4. LinksClosed' /\ PanicOnlyBeforeParsed'
    BY DEF LinksClosed, PanicOnlyBeforeParsed, start_vars
  <2> QED BY <2>1, <2>2, <2>3, <2>4
<1>3. ASSUME NEW x \in Targets, SetFlagPanics(x) PROVE IInv'
  <2>1. ~done
    BY <1>3 DEF SetFlagPanics, Parsed
  <2> QED BY <1>3, <2>1, DieIInv DEF SetFlagPanics, Ended
<1>4. CASE ParseDone
  <2> USE <1>4 DEF ParseDone
  <2>1. TypeOK'
    BY DEF TypeOK, Alive, Ended, start_vars, Progs, Kind
  <2>2. Own' /\ Listed'
    BY DEF Own, Listed, Alive, start_vars
  <2>3. Parsed'
    BY DEF Parsed, TypeOK, Progs, Kind
  <2>4. LinksClosed' /\ PanicOnlyBeforeParsed'
    BY DEF LinksClosed, PanicOnlyBeforeParsed, start_vars, Alive, Ended
  <2> QED BY <2>1, <2>2, <2>3, <2>4
<1> QED BY <1>1, <1>2, <1>3, <1>4 DEF Parser

-----------------------------------------------------------------------------
(* The goroutines.                                                         *)

\* A goroutine ends, and its program is attached only if it is listed.
LEMMA EndIInv ==
  ASSUME IInv, Alive, NEW t \in tasks, End(t), err' \in BOOLEAN,
         \/ listed' = listed /\ t.pc # "append"
         \/ listed' = listed \cup {Prog(t)} /\ t.pc = "append" /\ Prog(t) \in attached,
         UNCHANGED <<conf, both, table_vars, main, attached>>
  PROVE  IInv'
<1> USE DEF IInv, End, table_vars
<1>1. t \in Program /\ Prog(t) \in Program
  BY Pcs DEF TypeOK
<1>2. listed' \subseteq attached \cup listed /\ listed \subseteq listed'
  OBVIOUS
<1>3. \A u \in tasks' : u \in tasks /\ Prog(u) # Prog(t) /\ Prog(u) \notin listed'
  BY DEF Own
<1>4. TypeOK'
  <2>1. listed' \subseteq attached' \ {Prog(u) : u \in tasks'}
    BY <1>3 DEF Listed
  <2>2. tasks' \cup attached' \cup listed' \subseteq Program
    BY <1>1, <1>2 DEF TypeOK
  <2> QED BY <2>1, <2>2 DEF TypeOK, Alive, Progs, Kind, Prog
<1>5. Own'
  BY <1>3 DEF Own
<1>6. Listed'
  <2>1. \A p \in attached : p \in listed' \/ \E u \in tasks' : u.pc = "append" /\ Prog(u) = p
    <3> SUFFICES ASSUME NEW p \in attached, p \notin listed'
                 PROVE  \E u \in tasks' : u.pc = "append" /\ Prog(u) = p
      OBVIOUS
    <3>1. PICK u \in tasks : u.pc = "append" /\ Prog(u) = p
      BY <1>2 DEF Listed
    <3>2. u # t
      BY <3>1
    <3> QED BY <3>1, <3>2
  <2>2. listed' \subseteq attached
    BY DEF Listed
  <2>3. \A u \in tasks' : u.pc = "append" => Prog(u) \in attached
    BY <1>3 DEF Listed
  <2> QED BY <2>1, <2>2, <2>3 DEF Listed, Alive
<1>7. Parsed' /\ LinksClosed' /\ PanicOnlyBeforeParsed'
  BY DEF Parsed, Progs, Kind, LinksClosed, PanicOnlyBeforeParsed
<1> QED BY <1>4, <1>5, <1>6, <1>7

\* A goroutine goes on, and attaches its program as it comes to append.
LEMMA MoveIInv ==
  ASSUME IInv, Alive, NEW t \in tasks,
         NEW q \in {"attach", "append"}, Move(t, q), t.pc # "append",
         attached' = IF q = "append" THEN attached \cup {Prog(t)} ELSE attached,
         UNCHANGED <<conf, both, table_vars, main, err, listed>>
  PROVE  IInv'
<1> DEFINE v == [t EXCEPT !.pc = q]
<1> USE DEF IInv, table_vars
<1>1. t \in Program /\ Prog(t) \in Program
  BY Pcs DEF TypeOK
<1>2. v \in Program /\ v.pc = q /\ Prog(v) = Prog(t)
  BY <1>1, Pcs
<1>3. tasks' = (tasks \ {t}) \cup {v}
  BY DEF Move
<1> HIDE DEF v
<1>4. \A u \in tasks' : u = v \/ (u \in tasks /\ u # t /\ Prog(u) # Prog(t))
  BY <1>3 DEF Own
<1>5. \A u \in tasks' : Prog(u) \notin listed
  BY <1>2, <1>4 DEF Own
<1>6. TypeOK'
  <2>1. listed' \subseteq attached' \ {Prog(u) : u \in tasks'}
    BY <1>5 DEF Listed
  <2>2. tasks' \cup attached' \cup listed' \subseteq Program
    BY <1>1, <1>2, <1>3 DEF TypeOK
  <2> QED BY <2>1, <2>2 DEF TypeOK, Alive, Progs, Kind, Prog
<1>7. Own'
  <2>1. \A u \in tasks' : u.pc \in {"load", "attach", "append"}
    BY <1>2, <1>4 DEF Own
  <2>2. \A u, w \in tasks' : Prog(u) = Prog(w) => u = w
    BY <1>2, <1>4 DEF Own
  <2>3. main = "tracing"
    BY DEF Own, Alive
  <2> QED BY <1>5, <2>1, <2>2, <2>3 DEF Own
<1>8. Listed'
  <2>1. \A p \in attached' : p \in listed \/ \E u \in tasks' : u.pc = "append" /\ Prog(u) = p
    <3> SUFFICES ASSUME NEW p \in attached', p \notin listed
                 PROVE  \E u \in tasks' : u.pc = "append" /\ Prog(u) = p
      OBVIOUS
    <3>1. CASE p \in attached
      <4>1. PICK u \in tasks : u.pc = "append" /\ Prog(u) = p
        BY <3>1 DEF Listed
      <4>2. u \in tasks'
        BY <1>3, <4>1
      <4> QED BY <4>1, <4>2
    <3>2. CASE p \notin attached
      <4>1. q = "append" /\ p = Prog(t)
        BY <3>2
      <4> QED BY <1>2, <1>3, <4>1
    <3> QED BY <3>1, <3>2
  <2>2. listed \subseteq attached'
    BY DEF Listed
  <2>3. main # "prepare"
    BY DEF Own, Ended
  <2>4. \A u \in tasks' : u.pc = "append" => Prog(u) \in attached'
    BY <1>2, <1>4 DEF Listed
  <2> QED BY <2>1, <2>2, <2>3, <2>4 DEF Listed, Alive
<1>9. Parsed' /\ LinksClosed' /\ PanicOnlyBeforeParsed'
  BY DEF Parsed, Progs, Kind, LinksClosed, PanicOnlyBeforeParsed, Alive
<1> QED BY <1>6, <1>7, <1>8, <1>9

LEMMA TaskIInv ==
  ASSUME IInv, NEW t \in tasks, TaskStep(t)
  PROVE  IInv'
<1> USE DEF IInv
<1>1. CASE LoadPanics(t)
  <2>1. ~done
    BY <1>1 DEF LoadPanics, ReadsTable, Parsed, TypeOK, Progs
  <2> QED BY <1>1, <2>1, DieIInv DEF LoadPanics, Ended
<1>2. CASE Load(t)
  BY <1>2, MoveIInv DEF Load
<1>3. CASE GraphsTraced(t)
  BY <1>3, EndIInv DEF GraphsTraced, TypeOK
<1>4. CASE Ignored(t)
  BY <1>4, EndIInv DEF Ignored, TypeOK
<1>5. CASE TaskFails(t)
  BY <1>5, EndIInv DEF TaskFails
<1>6. CASE Attach(t)
  BY <1>6, MoveIInv DEF Attach, Prog
<1>7. CASE Append(t)
  <2>1. Prog(t) \in attached
    BY <1>7 DEF Append, Listed
  <2> QED BY <1>7, <2>1, EndIInv DEF Append, Prog, TypeOK
<1> QED BY <1>1, <1>2, <1>3, <1>4, <1>5, <1>6, <1>7 DEF TaskStep

-----------------------------------------------------------------------------
(* main.                                                                   *)

\* Close leaves nothing: the goroutines have ended, so all that is attached is
\* in the lists.
LEMMA CloseIInv ==
  ASSUME IInv, Alive, tasks = {}, Close, main' = "closed",
         UNCHANGED <<conf, both, table_vars, tasks, err, listed>>
  PROVE  IInv'
<1> USE DEF IInv, table_vars
<1>1. attached' = {}
  BY DEF Listed, Close
<1>2. TypeOK'
  BY <1>1 DEF TypeOK, Alive, Ended, Progs, Kind
<1>3. Own' /\ Listed'
  BY <1>1 DEF Own, Listed, Alive
<1>4. Parsed' /\ LinksClosed' /\ PanicOnlyBeforeParsed'
  BY <1>1 DEF Parsed, Progs, Kind, LinksClosed, PanicOnlyBeforeParsed
<1> QED BY <1>2, <1>3, <1>4

\* main goes on, and nothing else changes.
LEMMA MainGoesOn ==
  ASSUME IInv, tasks = {}, main \in {"tracing", "traced"}, main' \in {"traced", "running"},
         UNCHANGED <<conf, both, table_vars, tasks, err, attached, listed>>
  PROVE  IInv'
<1> USE DEF IInv, table_vars
<1>1. Alive /\ Alive'
  BY DEF Alive, Ended
<1>2. TypeOK'
  BY <1>1 DEF TypeOK, Progs, Kind
<1>3. Own' /\ Listed'
  BY <1>1 DEF Own, Listed
<1>4. Parsed' /\ LinksClosed' /\ PanicOnlyBeforeParsed'
  BY DEF Parsed, Progs, Kind, LinksClosed, PanicOnlyBeforeParsed
<1> QED BY <1>2, <1>3, <1>4

LEMMA NewIInv ==
  ASSUME IInv, NewBPFTracing
  PROVE  IInv'
<1> USE DEF IInv, NewBPFTracing, table_vars
<1>1. tasks' = AllTasks /\ Alive /\ Alive'
  BY DEF AllTasks, Alive, Ended
<1>2. AllTasks \subseteq Program /\ \A t \in AllTasks : t.pc = "load"
  BY NewTasks DEF TypeOK
<1>3. attached = {} /\ listed = {}
  BY <1>1 DEF Listed
<1>4. both' \in [Targets -> BOOLEAN]
  <2>1. \A x \in Targets : KprobeBoth(x) \in BOOLEAN
    BY DEF KprobeBoth, TypeOK
  <2> QED BY <2>1 DEF TypeOK
<1>5. TypeOK'
  BY <1>1, <1>2, <1>3, <1>4 DEF TypeOK, Progs, Kind, Ended
<1>6. Own'
  <2>1. \A t, u \in AllTasks : Prog(t) = Prog(u) => t = u
    <3> SUFFICES ASSUME NEW t \in AllTasks, NEW u \in AllTasks, Prog(t) = Prog(u)
                 PROVE  t = u
      OBVIOUS
    <3>1. t \in Program /\ u \in Program /\ t.pc = "load" /\ u.pc = "load"
      BY <1>2
    <3> QED BY <3>1, SameProg
  <2> QED BY <1>1, <1>2, <1>3, <2>1 DEF Own
<1>7. Listed'
  BY <1>1, <1>2, <1>3 DEF Listed
<1>8. Parsed' /\ LinksClosed' /\ PanicOnlyBeforeParsed'
  BY DEF Parsed, Progs, Kind, LinksClosed, PanicOnlyBeforeParsed
<1> QED BY <1>5, <1>6, <1>7, <1>8

LEMMA MainIInv ==
  ASSUME IInv, Main \/ StartFails \/ Stop
  PROVE  IInv'
<1>1. CASE NewBPFTracing
  BY <1>1, NewIInv
<1>2. CASE TracingFailed
  BY <1>2, CloseIInv DEF TracingFailed, TasksDone, Alive, Ended
<1>3. CASE TracingDone
  BY <1>3, MainGoesOn DEF TracingDone, TasksDone
<1>4. CASE NoTracing
  BY <1>4, DieIInv DEF NoTracing, Ended
<1>5. CASE Ready
  <2>1. tasks = {}
    BY <1>5 DEF IInv, Own, Ready, Ended
  <2> QED BY <1>5, <2>1, MainGoesOn DEF Ready
<1>6. CASE StartFails
  BY <1>6, DieIInv DEF StartFails, Ended
<1>7. CASE Stop
  <2>1. tasks = {} /\ Alive
    BY <1>7 DEF IInv, Own, Stop, Ended, Alive
  <2> QED BY <1>7, <2>1, CloseIInv DEF Stop
<1> QED BY <1>1, <1>2, <1>3, <1>4, <1>5, <1>6, <1>7 DEF Main

\* The calls, and a stutter, change nothing that IInv is about.
LEMMA OtherIInv ==
  ASSUME IInv, UNCHANGED <<conf, both, table_vars, start_vars>>
  PROVE  IInv'
<1> USE DEF table_vars, start_vars
<1>1. TypeOK'
  BY DEF IInv, TypeOK, Alive, Progs, Kind
<1>2. Own' /\ Listed' /\ Parsed'
  BY DEF IInv, Own, Listed, Parsed, Alive, Progs, Kind
<1>3. LinksClosed' /\ PanicOnlyBeforeParsed'
  BY DEF IInv, LinksClosed, PanicOnlyBeforeParsed
<1> QED BY <1>1, <1>2, <1>3 DEF IInv

LEMMA StepIInv == IInv /\ [Next]_vars => IInv'
<1> SUFFICES ASSUME IInv, [Next]_vars PROVE IInv'
  OBVIOUS
<1>1. CASE Parser
  BY <1>1, ParserIInv
<1>2. CASE Main \/ StartFails \/ Stop
  BY <1>2, MainIInv
<1>3. ASSUME NEW t \in tasks, TaskStep(t) PROVE IInv'
  BY <1>3, TaskIInv
<1>4. ASSUME NEW x \in Targets, CallEnters(x) PROVE IInv'
  BY <1>4, OtherIInv DEF CallEnters
<1>5. CASE CallExits
  BY <1>5, OtherIInv DEF CallExits
<1>6. CASE UNCHANGED vars
  BY <1>6, OtherIInv DEF vars
<1> QED BY <1>1, <1>2, <1>3, <1>4, <1>5, <1>6 DEF Next

LEMMA SpecIInv == Spec => []IInv
BY InitIInv, StepIInv, PTL DEF Spec

-----------------------------------------------------------------------------
(* The theorems.                                                           *)

\* The types, and while the process lives the lists of bpfTracing hold only
\* attached programs whose goroutines have ended.
THEOREM TypeCorrect == Spec => []TypeOK
<1>1. IInv => TypeOK
  BY DEF IInv
<1> QED BY <1>1, SpecIInv, PTL

\* bpfTracing.Close detaches all that its goroutines have attached, also when
\* one of them has failed.
THEOREM CloseDetachesAll == Spec => []LinksClosed
<1>1. IInv => LinksClosed
  BY DEF IInv
<1> QED BY <1>1, SpecIInv, PTL

\* Once parseProgs has closed its channel no read of the table of programs
\* panics.
THEOREM PanicsEarly == Spec => []PanicOnlyBeforeParsed
<1>1. IInv => PanicOnlyBeforeParsed
  BY DEF IInv
<1> QED BY <1>1, SpecIInv, PTL

-----------------------------------------------------------------------------
(* What is printed of a call: the programs are the ones planned from the   *)
(* flags, and the reader goes by the flags it still has.                   *)

Both0(x)   == conf.of[x].both \/ conf.modes = {"entry", "exit"}
BothNow(x) == Both0(x) /\ ~(useKprobe /\ x \in Kfuncs /\ Kind(x) # "tp" /\ hasModeExit)
Both1(x)   == conf.of[x].insn \/ conf.of[x].graph \/ Both0(x)

\* The programs of a target, from the flags the process was started with.
Planned(x) ==
  IF useKprobe /\ x \in Kfuncs THEN KprobePrograms(x)
  ELSE IF Kind(x) = "tp" THEN {<<"entry", FALSE>>}
  ELSE IF Both1(x) THEN {<<"entry", TRUE>>, <<"exit", TRUE>>}
  ELSE {<<IF hasModeExit THEN "exit" ELSE "entry", FALSE>>}

AsPlanned(t) ==
  t.x \in Targets =>
    /\ t.end # "graphs"
    /\ t.end \in {"entry", "exit"} => /\ <<t.end, t.both>> \in Planned(t.x)
                                      /\ t.kprobe <=> useKprobe /\ t.x \in Kfuncs

Plans ==
  /\ \A x \in Targets : /\ main = "prepare" => (both[x] <=> Both0(x))
                        /\ main \in {"tracing", "traced", "running"} => (both[x] <=> BothNow(x))
  /\ \A t \in tasks \cup attached : AsPlanned(t)
  /\ main \in Ended \cup {"closed"} => attached = {}

Call == [x : Targets \cup {NoTarget}, sess : BOOLEAN, held : BOOLEAN, known : BOOLEAN,
         lines : SUBSET {"entry", "exit", "pair", "skipped"}]

Flagged(c) == c.x \in Progs => table[c.x] = "flagged"

\* The lines the entry of a call left, with programs at its entry or not.
EntryLines(x) == IF At(x, "entry") # {} /\ ~requiredSession(x) THEN {"entry"} ELSE {}

EnteredAs(c) ==
  /\ Flagged(c)
  /\ c.sess <=> \E p \in At(c.x, "entry") : p.both
  /\ c.held <=> At(c.x, "entry") # {} /\ requiredSession(c.x)
  /\ c.lines = EntryLines(c.x)

\* A program at the exit of x sends its event.
ExitSends(x) == \E p \in At(x, "exit") : p.both => \E q \in At(x, "entry") : q.both

ExitedAs(c) ==
  /\ Flagged(c)
  /\ c.held <=> At(c.x, "entry") # {} /\ requiredSession(c.x) /\ ~ExitSends(c.x)
  /\ c.lines = EntryLines(c.x) \cup
               (IF ~ExitSends(c.x) THEN {}
                ELSE IF ~requiredSession(c.x) THEN {"exit"}
                ELSE IF At(c.x, "entry") # {} THEN {"pair"} ELSE {"skipped"})

Calls ==
  /\ {call, last} \subseteq Call
  /\ call # NoCall => call.x \in Targets
  /\ main \in {"prepare", "tracing", "traced"} => call = NoCall /\ last = NoCall
  /\ \A c \in {call, last} : c.x \in Kfuncs => c.known
  /\ main = "running" => /\ call.x \in Targets /\ call.known => EnteredAs(call)
                         /\ last.x \in Targets /\ last.known => ExitedAs(last)

\* The plans depend on the configuration only.
LEMMA PlanStays ==
  ASSUME conf' = conf
  PROVE  /\ \A x : (Both0(x)' <=> Both0(x)) /\ (BothNow(x)' <=> BothNow(x)) /\ Kind(x)' = Kind(x)
         /\ \A t : AsPlanned(t)' <=> AsPlanned(t)
         /\ Progs' = Progs /\ Kfuncs' = Kfuncs
<1>1. /\ Progs' = Progs /\ Kfuncs' = Kfuncs /\ (useKprobe' <=> useKprobe)
      /\ (hasModeExit' <=> hasModeExit) /\ \A x : Kind(x)' = Kind(x) /\ (Both0(x)' <=> Both0(x))
  BY DEF Progs, Kfuncs, useKprobe, needsKprobe, hasModeExit, Kind, Both0
<1>2. \A x : (BothNow(x)' <=> BothNow(x)) /\ (Both1(x)' <=> Both1(x))
  BY <1>1 DEF BothNow, Both1
<1>3. \A x : KprobePrograms(x)' = KprobePrograms(x)
  BY <1>1 DEF KprobePrograms
<1>4. \A x : Planned(x)' = Planned(x)
  BY <1>1, <1>2, <1>3 DEF Planned
<1>5. \A t : AsPlanned(t)' <=> AsPlanned(t)
  BY <1>1, <1>4 DEF AsPlanned
<1> QED BY <1>1, <1>2, <1>5

LEMMA PlannedPairs ==
  ASSUME NEW x, NEW p \in Planned(x)
  PROVE  p = <<p[1], p[2]>>
<1>1. p \in {<<"entry", FALSE>>, <<"exit", FALSE>>, <<"entry", TRUE>>, <<"exit", TRUE>>}
  BY DEF Planned, KprobePrograms
<1>2. PICK a, b : p = <<a, b>>
  BY <1>1
<1> QED BY <1>2

LEMMA TrampolinesPlanned ==
  ASSUME NEW x \in Targets, both[x] <=> Both0(x), ~(useKprobe /\ x \in Kfuncs)
  PROVE  TrampolinePrograms(x) = Planned(x)
<1>1. bothEntryExit(x) <=> Both1(x)
  BY DEF bothEntryExit, Both1
<1> QED BY <1>1 DEF TrampolinePrograms, Planned

LEMMA TaskPlanned ==
  ASSUME NEW x \in Targets, NEW p \in Planned(x), NEW kp, kp <=> useKprobe /\ x \in Kfuncs
  PROVE  AsPlanned(Task(x, p, kp))
<1>1. PICK t : t = Task(x, p, kp)
  OBVIOUS
<1>2. t.x = x /\ t.end = p[1] /\ t.both = p[2] /\ t.kprobe = kp
  BY <1>1 DEF Task
<1>3. <<t.end, t.both>> = p /\ t.end # "graphs"
  BY <1>2, PlannedPairs DEF Planned, KprobePrograms
<1>4. AsPlanned(t)
  BY <1>2, <1>3 DEF AsPlanned
<1> QED BY <1>1, <1>4

LEMMA NewPlanned ==
  ASSUME \A x \in Targets : both[x] <=> Both0(x)
  PROVE  \A t \in AllTasks : AsPlanned(t)
<1>1. Kfuncs \subseteq Targets /\ Progs \subseteq Targets /\ Progs \cap Kfuncs = {} /\ useKprobe \in BOOLEAN
  BY DEF Kfuncs, Progs, useKprobe
<1>2. ASSUME NEW t \in FuncTasks PROVE AsPlanned(t)
  <2>1. PICK x \in Kfuncs :
          t \in {Task(x, p, useKprobe) : p \in IF useKprobe THEN KprobePrograms(x) ELSE TrampolinePrograms(x)}
    BY DEF FuncTasks
  <2>2. PICK p \in IF useKprobe THEN KprobePrograms(x) ELSE TrampolinePrograms(x) : t = Task(x, p, useKprobe)
    BY <2>1
  <2>3. p \in Planned(x)
    <3>1. CASE useKprobe
      BY <2>2, <3>1 DEF Planned
    <3>2. CASE ~useKprobe
      BY <1>1, <2>2, <3>2, TrampolinesPlanned
    <3> QED BY <3>1, <3>2
  <2>4. PICK kp \in BOOLEAN : kp = useKprobe
    BY <1>1
  <2>5. AsPlanned(Task(x, p, kp))
    BY <1>1, <2>3, <2>4, TaskPlanned
  <2> QED BY <2>2, <2>4, <2>5
<1>3. ASSUME NEW t \in ProgTasks PROVE AsPlanned(t)
  <2>1. PICK x \in Progs : t \in {Task(x, p, FALSE) : p \in TrampolinePrograms(x)}
    BY DEF ProgTasks
  <2>2. PICK p \in TrampolinePrograms(x) : t = Task(x, p, FALSE)
    BY <2>1
  <2>3. p \in Planned(x)
    BY <1>1, <2>2, TrampolinesPlanned
  <2> QED BY <1>1, <2>2, <2>3, TaskPlanned
<1>4. ASSUME NEW t \in InsnTasks \cup {GraphTask} PROVE AsPlanned(t)
  <2>1. t.end = "insn" \/ (t.end = "graphs" /\ t.x = NoTarget)
    BY DEF InsnTasks, GraphTask, Task
  <2> QED BY <2>1, TracingAssumption DEF AsPlanned
<1> QED BY <1>2, <1>3, <1>4 DEF AllTasks

LEMMA PlanMoved ==
  ASSUME NEW t \in Program, NEW q \in {"load", "attach", "append", "run"}, AsPlanned(t)
  PROVE  AsPlanned([t EXCEPT !.pc = q])
<1>1. PICK u : u = [t EXCEPT !.pc = q]
  OBVIOUS
<1>2. u.x = t.x /\ u.end = t.end /\ u.both = t.both /\ u.kprobe = t.kprobe
  BY <1>1 DEF Program
<1>3. AsPlanned(u)
  BY <1>2 DEF AsPlanned
<1> QED BY <1>1, <1>3

\* What a step may do to the flags, the goroutines and the programs.
Forward ==
  /\ conf' = conf
  /\ \A t \in tasks' \cup attached' :
       \/ t \in tasks \cup attached
       \/ \E u \in tasks, q \in {"load", "attach", "append", "run"} : t = [u EXCEPT !.pc = q]
  /\ both' = both
  /\ \/ main' = main /\ (attached' = attached \/ Alive)
     \/ main \in {"tracing", "traced"} /\ main' \in {"traced", "running"}
     \/ main' \in Ended \cup {"closed"} /\ attached' = {}

LEMMA ForwardPlans ==
  ASSUME IInv, Plans, Forward
  PROVE  Plans'
<1>1. \A t \in tasks' \cup attached' : AsPlanned(t)'
  <2> SUFFICES ASSUME NEW t \in tasks' \cup attached' PROVE AsPlanned(t)
    BY PlanStays DEF Forward
  <2>1. CASE t \in tasks \cup attached
    BY <2>1 DEF Plans
  <2>2. ASSUME NEW u \in tasks, NEW q \in {"load", "attach", "append", "run"}, t = [u EXCEPT !.pc = q]
        PROVE  AsPlanned(t)
    BY <2>2, PlanMoved DEF Plans, IInv, TypeOK
  <2> QED BY <2>1, <2>2 DEF Forward
<1>2. \A x \in Targets : /\ main' = "prepare" => (both'[x] <=> Both0(x)')
                         /\ main' \in {"tracing", "traced", "running"} => (both'[x] <=> BothNow(x)')
  BY PlanStays DEF Plans, Forward, Ended
<1>3. main' \in Ended \cup {"closed"} => attached' = {}
  BY DEF Plans, Forward, Alive, Ended
<1> QED BY <1>1, <1>2, <1>3 DEF Plans, Ended

LEMMA PlansInit == Init => Plans
BY DEF Init, Plans, Both0, Ended

LEMMA PlansStep ==
  ASSUME IInv, Plans, [Next]_vars
  PROVE  Plans'
<1> USE DEF IInv, table_vars, start_vars
<1>1. CASE NewBPFTracing
  <2>1. /\ conf' = conf /\ main = "prepare" /\ main' = "tracing" /\ tasks' = AllTasks /\ attached' = attached
        /\ both' = IF useKprobe THEN [x \in Targets |-> KprobeBoth(x)] ELSE both
    BY <1>1 DEF NewBPFTracing, AllTasks
  <2>2. attached = {}
    BY <2>1 DEF Listed, Alive, Ended
  <2>3. \A t \in tasks' : AsPlanned(t)'
    BY <2>1, NewPlanned, PlanStays DEF Plans
  <2>4. \A x \in Targets : both'[x] <=> BothNow(x)
    BY <2>1 DEF Plans, BothNow, KprobeBoth
  <2> QED BY <2>1, <2>2, <2>3, <2>4, PlanStays DEF Plans, Ended
<1>2. CASE Parser
  <2>1. UNCHANGED <<conf, both, tasks>> /\ \/ main' = main /\ attached' = attached
                                           \/ main' \in Ended /\ attached' = {}
    BY <1>2 DEF Parser, AddProg, AddProgFails, SetFlag, SetFlagPanics, ParseDone, Die, Ended
  <2>2. Forward
    BY <2>1 DEF Forward, Ended
  <2> QED BY <2>2, ForwardPlans
<1>3. ASSUME NEW t \in tasks, TaskStep(t) PROVE Plans'
  <2>1. CASE LoadPanics(t)
    <3>1. Forward
      BY <2>1 DEF LoadPanics, Die, Forward, Ended
    <3> QED BY <3>1, ForwardPlans
  <2>2. CASE GraphsTraced(t) \/ Ignored(t) \/ TaskFails(t)
    <3>1. Forward
      BY <2>2 DEF GraphsTraced, Ignored, TaskFails, End, Forward, Ended
    <3> QED BY <3>1, ForwardPlans
  <2>3. CASE Load(t) \/ Attach(t)
    <3>1. /\ UNCHANGED <<conf, both, main>>
          /\ \A u \in tasks' \cup attached' :
               \/ u \in tasks \cup attached
               \/ \E q \in {"load", "attach", "append", "run"} : u = [t EXCEPT !.pc = q]
          /\ Alive
      BY <2>3 DEF Load, Attach, Move
    <3>2. Forward
      BY <3>1 DEF Forward, Ended, Alive
    <3> QED BY <3>2, ForwardPlans
  <2>4. CASE Append(t)
    <3>1. Forward
      BY <2>4 DEF Append, End, Forward, Ended
    <3> QED BY <3>1, ForwardPlans
  <2> QED BY <1>3, <2>1, <2>2, <2>3, <2>4 DEF TaskStep
<1>4. CASE TracingFailed \/ Stop
  <2>1. tasks = {} /\ Alive
    BY <1>4 DEF TracingFailed, Stop, TasksDone, Own, Alive, Ended
  <2>2. attached' = {} /\ main' = "closed" /\ UNCHANGED <<conf, both, tasks>>
    BY <1>4, <2>1 DEF TracingFailed, Stop, Close, Listed
  <2>3. Forward
    BY <2>1, <2>2 DEF Forward, Ended
  <2> QED BY <2>3, ForwardPlans
<1>5. CASE TracingDone \/ Ready
  <2>1. Forward
    BY <1>5 DEF TracingDone, Ready, Forward, Ended
  <2> QED BY <2>1, ForwardPlans
<1>6. CASE NoTracing \/ StartFails
  <2>1. Forward
    BY <1>6 DEF NoTracing, StartFails, Die, Forward, Ended
  <2> QED BY <2>1, ForwardPlans
<1>7. CASE (\E x \in Targets : CallEnters(x)) \/ CallExits \/ UNCHANGED vars
  <2>1. UNCHANGED <<conf, both, main, tasks, attached>>
    BY <1>7 DEF CallEnters, CallExits, vars
  <2>2. Forward
    BY <2>1 DEF Forward
  <2> QED BY <2>2, ForwardPlans
<1> QED BY <1>1, <1>2, <1>3, <1>4, <1>5, <1>6, <1>7 DEF Next, Main

-----------------------------------------------------------------------------
(* The calls.                                                              *)

LEMMA NoCallFields == NoCall \in Call /\ NoCall.x \notin Targets /\ NoCall.x \notin Kfuncs
BY TracingAssumption DEF NoCall, Call, Kfuncs

LEMMA CallsInit == Init => Calls
BY NoCallFields DEF Init, Calls

\* While main runs, no other step changes what the reader and the programs of
\* a call go by, once the flag of its target is set.
Settled ==
  /\ UNCHANGED <<conf, call_vars>>
  /\ main' \in {"prepare", "tracing", "traced"} => main \in {"prepare", "tracing", "traced"}
  /\ main' = "running" =>
       \/ main \in {"prepare", "tracing", "traced"}
       \/ /\ main = "running" /\ both' = both /\ attached' = attached
          /\ \A x \in Targets : table[x] = "flagged" => table'[x] = "flagged"

LEMMA CallsSettled ==
  ASSUME Calls, Settled
  PROVE  Calls'
<1>1. call' = call /\ last' = last /\ Progs' = Progs /\ Kfuncs' = Kfuncs
  BY PlanStays DEF Settled, call_vars
<1>2. ASSUME main = "running", main' = "running", NEW c \in {call, last}, c.x \in Targets, Flagged(c)
      PROVE  /\ Flagged(c)' /\ (requiredSession(c.x)' <=> requiredSession(c.x))
             /\ \A end : At(c.x, end)' = At(c.x, end)
  <2>1. both' = both /\ attached' = attached /\ conf' = conf
        /\ \A x \in Targets : table[x] = "flagged" => table'[x] = "flagged"
    BY <1>2 DEF Settled
  <2>2. c.x \in Progs => table[c.x] = "flagged" /\ table'[c.x] = "flagged"
    BY <1>2, <2>1 DEF Flagged
  <2>3. Flagged(c)'
    BY <1>1, <2>2 DEF Flagged
  <2>4. requiredSession(c.x)' <=> requiredSession(c.x)
    <3>1. conf' = conf /\ both' = both
      BY <2>1
    <3> QED BY <1>1, <2>2, <3>1, PlanStays DEF requiredSession
  <2>5. \A end : At(c.x, end)' = At(c.x, end)
    BY <1>1, <2>1 DEF At
  <2> QED BY <2>3, <2>4, <2>5
<1>3. main' = "running" /\ call.x \in Targets /\ call.known => EnteredAs(call)'
  <2> SUFFICES ASSUME main' = "running", call.x \in Targets, call.known PROVE EnteredAs(call)'
    OBVIOUS
  <2>1. CASE main = "running"
    <3>1. EnteredAs(call)
      BY <2>1 DEF Calls
    <3>2. /\ Flagged(call)' /\ (requiredSession(call.x)' <=> requiredSession(call.x))
          /\ At(call.x, "entry")' = At(call.x, "entry")
      BY <1>1, <1>2, <2>1, <3>1 DEF EnteredAs
    <3> QED BY <1>1, <3>1, <3>2 DEF EnteredAs, EntryLines
  <2>2. CASE main \in {"prepare", "tracing", "traced"}
    BY <2>2, NoCallFields DEF Calls
  <2> QED BY <2>1, <2>2 DEF Settled
<1>4. main' = "running" /\ last.x \in Targets /\ last.known => ExitedAs(last)'
  <2> SUFFICES ASSUME main' = "running", last.x \in Targets, last.known PROVE ExitedAs(last)'
    OBVIOUS
  <2>1. CASE main = "running"
    <3>1. ExitedAs(last)
      BY <2>1 DEF Calls
    <3>2. /\ Flagged(last)' /\ (requiredSession(last.x)' <=> requiredSession(last.x))
          /\ At(last.x, "entry")' = At(last.x, "entry") /\ At(last.x, "exit")' = At(last.x, "exit")
      BY <1>1, <1>2, <2>1, <3>1 DEF ExitedAs
    <3>3. ExitSends(last.x)' <=> ExitSends(last.x)
      BY <1>1, <3>2 DEF ExitSends
    <3>4. EntryLines(last.x)' = EntryLines(last.x)
      BY <1>1, <3>2 DEF EntryLines
    <3> QED BY <1>1, <3>1, <3>2, <3>3, <3>4 DEF ExitedAs
  <2>2. CASE main \in {"prepare", "tracing", "traced"}
    BY <2>2, NoCallFields DEF Calls
  <2> QED BY <2>1, <2>2 DEF Settled
<1> QED BY <1>1, <1>3, <1>4 DEF Calls, Settled

LEMMA EnterCalls ==
  ASSUME IInv, Calls, NEW x \in Targets, CallEnters(x)
  PROVE  Calls'
<1>1. UNCHANGED <<conf, both, table, attached, main, last>> /\ main = "running"
  BY DEF CallEnters, table_vars, start_vars
<1>2. /\ Progs' = Progs /\ Kfuncs' = Kfuncs /\ \A y : requiredSession(y)' <=> requiredSession(y)
      /\ \A y, end : At(y, end)' = At(y, end)
  BY <1>1, PlanStays DEF requiredSession, At
<1>3. \A y : (EntryLines(y)' = EntryLines(y)) /\ (ExitSends(y)' <=> ExitSends(y))
  BY <1>2 DEF EntryLines, ExitSends
<1>4. PICK c : c = call'
  OBVIOUS
<1>5. /\ c \in Call /\ c.x = x /\ (c.sess <=> \E p \in At(x, "entry") : p.both)
      /\ c.held <=> At(x, "entry") # {} /\ requiredSession(x)
      /\ c.known <=> (x \in Progs => done)
      /\ c.lines = EntryLines(x)
  <2> DEFINE s == \E p \in At(x, "entry") : p.both
             h == At(x, "entry") # {} /\ requiredSession(x)
             k == x \in Progs => done
             l == IF At(x, "entry") # {} /\ ~requiredSession(x) THEN {"entry"} ELSE {}
  <2>1. c = [x |-> x, sess |-> s, held |-> h, known |-> k, lines |-> l]
    BY <1>4 DEF CallEnters
  <2>2. s \in BOOLEAN /\ h \in BOOLEAN /\ k \in BOOLEAN /\ l \in SUBSET {"entry", "exit", "pair", "skipped"}
    OBVIOUS
  <2>3. l = EntryLines(x) /\ (s <=> \E p \in At(x, "entry") : p.both)
        /\ (h <=> At(x, "entry") # {} /\ requiredSession(x)) /\ (k <=> (x \in Progs => done))
    BY DEF EntryLines
  <2> HIDE DEF s, h, k, l
  <2>4. c \in Call /\ c.x = x /\ c.sess = s /\ c.held = h /\ c.known = k /\ c.lines = l
    BY <2>1, <2>2 DEF Call
  <2> QED BY <2>3, <2>4
<1>6. c.known => EnteredAs(c)
  <2> SUFFICES ASSUME c.known PROVE EnteredAs(c)
    OBVIOUS
  <2>1. Flagged(c)
    BY <1>5 DEF IInv, Parsed, Flagged
  <2> QED BY <1>5, <2>1 DEF EnteredAs
<1>8. ExitedAs(last)' <=> ExitedAs(last)
  BY <1>1, <1>2, <1>3 DEF ExitedAs, Flagged
<1>9. x \in Kfuncs => c.known
  BY <1>5 DEF Kfuncs
<1>10. call' = c /\ last' = last /\ main' = "running" /\ Progs' = Progs /\ Kfuncs' = Kfuncs
  BY <1>1, <1>2, <1>4
<1>11. main' = "running" => /\ call'.x \in Targets /\ call'.known => EnteredAs(call)'
                            /\ last'.x \in Targets /\ last'.known => ExitedAs(last)'
  <2>1. call'.known => EnteredAs(call)'
    BY <1>1, <1>2, <1>3, <1>6, <1>10 DEF EnteredAs, Flagged
  <2>2. last'.x \in Targets /\ last'.known => ExitedAs(last)'
    BY <1>1, <1>8, <1>10 DEF Calls
  <2> QED BY <2>1, <2>2
<1> QED BY <1>5, <1>9, <1>10, <1>11 DEF Calls

\* What an exit event adds to a call.
LEMMA ExitFields ==
  ASSUME NEW c \in Call
  PROVE  /\ ExitEvent(c) \in Call /\ ExitEvent(c).x = c.x /\ ExitEvent(c).known = c.known
         /\ ExitEvent(c).held <=> c.held /\ ~requiredSession(c.x)
         /\ ExitEvent(c).lines = c.lines \cup (IF ~requiredSession(c.x) THEN {"exit"}
                                               ELSE IF c.held THEN {"pair"} ELSE {"skipped"})
<1>1. CASE ~requiredSession(c.x)
  <2>1. ExitEvent(c) = [c EXCEPT !.lines = @ \cup {"exit"}]
    BY <1>1 DEF ExitEvent
  <2> QED BY <1>1, <2>1 DEF Call
<1>2. CASE requiredSession(c.x) /\ c.held
  <2>1. ExitEvent(c) = [c EXCEPT !.lines = @ \cup {"pair"}, !.held = FALSE]
    BY <1>2 DEF ExitEvent
  <2> QED BY <1>2, <2>1 DEF Call
<1>3. CASE requiredSession(c.x) /\ ~c.held
  <2>1. ExitEvent(c) = [c EXCEPT !.lines = @ \cup {"skipped"}]
    BY <1>3 DEF ExitEvent
  <2> QED BY <1>3, <2>1 DEF Call
<1> QED BY <1>1, <1>2, <1>3

LEMMA ExitCalls ==
  ASSUME IInv, Calls, CallExits
  PROVE  Calls'
<1>1. UNCHANGED <<conf, both, table, attached, main>> /\ main = "running" /\ call' = NoCall /\ call # NoCall
  BY DEF CallExits, table_vars, start_vars
<1>2. /\ Progs' = Progs /\ Kfuncs' = Kfuncs /\ \A y : requiredSession(y)' <=> requiredSession(y)
      /\ \A y, end : At(y, end)' = At(y, end)
  BY <1>1, PlanStays DEF requiredSession, At
<1>3. \A y : (EntryLines(y)' = EntryLines(y)) /\ (ExitSends(y)' <=> ExitSends(y))
  BY <1>2 DEF EntryLines, ExitSends
<1>4. call \in Call /\ call.x \in Targets
  BY <1>1 DEF Calls
<1>5. PICK c : c = last'
  OBVIOUS
<1>6. c = IF \E p \in At(call.x, "exit") : p.both => call.sess THEN ExitEvent(call) ELSE call
  BY <1>5 DEF CallExits
<1>7. c \in Call /\ c.x = call.x /\ c.known = call.known
  BY <1>4, <1>6, ExitFields
<1>8. c.known => ExitedAs(c)
  <2> SUFFICES ASSUME call.known PROVE ExitedAs(c)
    BY <1>7
  <2>1. EnteredAs(call)
    BY <1>1, <1>4 DEF Calls
  <2>2. (\E p \in At(call.x, "exit") : p.both => call.sess) <=> ExitSends(call.x)
    BY <2>1 DEF EnteredAs, ExitSends
  <2>3. Flagged(c)
    BY <1>7, <2>1 DEF EnteredAs, Flagged
  <2>4. CASE ExitSends(call.x)
    <3>1. c = ExitEvent(call)
      BY <1>6, <2>2, <2>4
    <3>2. /\ c.held <=> call.held /\ ~requiredSession(call.x)
          /\ c.lines = call.lines \cup (IF ~requiredSession(call.x) THEN {"exit"}
                                        ELSE IF call.held THEN {"pair"} ELSE {"skipped"})
      BY <1>4, <3>1, ExitFields
    <3> QED BY <1>7, <2>1, <2>3, <2>4, <3>2 DEF EnteredAs, ExitedAs
  <2>5. CASE ~ExitSends(call.x)
    <3>1. c = call
      BY <1>6, <2>2, <2>5
    <3> QED BY <2>1, <2>3, <2>5, <3>1 DEF EnteredAs, ExitedAs
  <2> QED BY <2>4, <2>5
<1>9. c.x \in Kfuncs => c.known
  BY <1>7 DEF Calls
<1>10. last'.x \in Targets /\ last'.known => ExitedAs(last)'
  BY <1>1, <1>2, <1>3, <1>5, <1>8 DEF ExitedAs, Flagged
<1> QED BY <1>1, <1>2, <1>5, <1>7, <1>9, <1>10, NoCallFields DEF Calls

LEMMA CallsStep ==
  ASSUME IInv, Calls, [Next]_vars
  PROVE  Calls'
<1> USE DEF table_vars, start_vars, call_vars
<1>1. CASE Parser
  <2>1. ASSUME NEW x \in parsing, AddProg(x) PROVE Settled
    <3>1. table[x] = "absent" /\ x \in Targets /\ table \in [Targets -> {"absent", "added", "flagged"}]
      BY <2>1 DEF IInv, Parsed, TypeOK, Progs
    <3> QED BY <2>1, <3>1 DEF AddProg, Settled
  <2>2. ASSUME NEW x \in parsing, AddProgFails(x) PROVE Settled
    BY <2>2 DEF AddProgFails, Settled
  <2>3. ASSUME NEW x \in Targets, SetFlag(x) \/ SetFlagPanics(x) PROVE Settled
    BY <2>3 DEF SetFlag, SetFlagPanics, Die, Settled, IInv, TypeOK
  <2>4. ASSUME ParseDone PROVE Settled
    BY <2>4 DEF ParseDone, Settled
  <2> QED BY <1>1, <2>1, <2>2, <2>3, <2>4, CallsSettled DEF Parser
<1>2. CASE Main \/ StartFails \/ Stop
  <2>1. Settled
    BY <1>2 DEF Main, NewBPFTracing, TracingFailed, TracingDone, NoTracing, Ready, StartFails, Stop, Die, Settled
  <2> QED BY <2>1, CallsSettled
<1>3. ASSUME NEW t \in tasks, TaskStep(t) PROVE Calls'
  <2>1. main # "running"
    BY DEF IInv, Own, Ended
  <2>2. UNCHANGED <<conf, call_vars>> /\ (main' = main \/ main' = "crashed")
    BY <1>3 DEF TaskStep, LoadPanics, Load, GraphsTraced, Ignored, TaskFails, Attach, Append, Die
  <2>3. Settled
    BY <2>1, <2>2 DEF Settled
  <2> QED BY <2>3, CallsSettled
<1>4. ASSUME NEW x \in Targets, CallEnters(x) PROVE Calls'
  BY <1>4, EnterCalls
<1>5. CASE CallExits
  BY <1>5, ExitCalls
<1>6. CASE UNCHANGED vars
  <2>1. Settled
    BY <1>6 DEF vars, Settled
  <2> QED BY <2>1, CallsSettled
<1> QED BY <1>1, <1>2, <1>3, <1>4, <1>5, <1>6 DEF Next

-----------------------------------------------------------------------------
(* What the flags asked for is what is planned.                            *)

More == IInv /\ Plans /\ Calls

LEMMA InitMore == Init => More
BY InitIInv, PlansInit, CallsInit DEF More

LEMMA StepMore == More /\ [Next]_vars => More'
BY StepIInv, PlansStep, CallsStep DEF More

\* The programs of a target are those of its plan; they are by kprobe all of
\* them or none.
LEMMA ProgramsOf ==
  ASSUME More, NEW x \in Targets
  PROVE  \A end \in {"entry", "exit"} : \A p \in At(x, end) :
           /\ p.end = end /\ p.both \in BOOLEAN /\ p.kprobe \in BOOLEAN
           /\ <<end, p.both>> \in Planned(x)
           /\ p.kprobe <=> useKprobe /\ x \in Kfuncs
<1> SUFFICES ASSUME NEW end \in {"entry", "exit"}, NEW p \in At(x, end)
             PROVE  /\ p.end = end /\ p.both \in BOOLEAN /\ p.kprobe \in BOOLEAN
                    /\ <<end, p.both>> \in Planned(x)
                    /\ p.kprobe <=> useKprobe /\ x \in Kfuncs
  OBVIOUS
<1>1. p \in attached /\ p.x = x /\ p.end = end /\ p \in Program
  BY DEF At, More, IInv, TypeOK
<1>2. AsPlanned(p)
  BY <1>1 DEF More, Plans
<1> QED BY <1>1, <1>2 DEF AsPlanned, Program

LEMMA Asked ==
  ASSUME More, NEW x \in Targets
  PROVE  /\ AskedBoth(x) <=> Kind(x) # "tp" /\ Both1(x)
         /\ Kind(x) \in {"kfunc", "tp", "prog"} /\ (Kind(x) = "prog" <=> x \notin Kfuncs)
         /\ Kind(x) = "tp" => ~conf.of[x].insn /\ ~conf.of[x].graph
         /\ Kind(x) = "prog" => ~conf.of[x].insn
         /\ ~AskedBoth(x) /\ Kind(x) # "tp" =>
              AskedEnds(x) = {IF hasModeExit THEN "exit" ELSE "entry"}
         /\ AskedEnds(x) # {}
<1>1. conf \in Confs /\ conf \in Configuration
  BY TracingAssumption DEF More, IInv, TypeOK
<1>2. conf.modes \in (SUBSET {"entry", "exit"}) \ {{}} /\ conf.of[x] \in Target
  BY <1>1 DEF Configuration
<1>3. conf.modes = {"entry", "exit"} \/ conf.modes = {IF hasModeExit THEN "exit" ELSE "entry"}
  <2> DEFINE M == conf.modes
  <2>1. M \subseteq {"entry", "exit"} /\ M # {}
    <3>1. M \in SUBSET {"entry", "exit"} /\ M \notin {{}}
      BY <1>2
    <3> HIDE DEF M
    <3> QED BY <3>1
  <2>2. hasModeExit <=> "exit" \in M
    BY DEF hasModeExit
  <2> HIDE DEF M
  <2>3. M = {"entry", "exit"} \/ M = {"exit"} \/ M = {"entry"}
    BY <2>1
  <2> QED BY <2>2, <2>3 DEF M
<1>4. Kind(x) \in {"kfunc", "tp", "prog"}
  BY <1>2 DEF Target, Kind
<1>5. Kind(x) = "prog" <=> x \notin Kfuncs
  BY DEF Kfuncs, Progs
<1>6. /\ Kind(x) = "tp" => ~conf.of[x].insn /\ ~conf.of[x].graph
      /\ Kind(x) = "prog" => ~conf.of[x].insn
  BY <1>1, TracingAssumption DEF Kind
<1>7. AskedBoth(x) <=> Kind(x) # "tp" /\ Both1(x)
  BY DEF AskedBoth, Both1, Both0
<1>8. /\ ~AskedBoth(x) /\ Kind(x) # "tp" => AskedEnds(x) = {IF hasModeExit THEN "exit" ELSE "entry"}
      /\ AskedEnds(x) # {}
  BY <1>2, <1>3 DEF AskedEnds, AskedBoth
<1> QED BY <1>4, <1>5, <1>6, <1>7, <1>8

\* What the reader goes by while main runs.
LEMMA Required ==
  ASSUME More, main = "running", NEW x \in Targets, x \in Progs => table[x] = "flagged"
  PROVE  requiredSession(x) <=>
           \/ conf.of[x].insn \/ conf.of[x].graph
           \/ Kind(x) # "tp" /\ Both0(x) /\ ~(useKprobe /\ x \in Kfuncs /\ hasModeExit)
<1>1. both[x] <=> BothNow(x)
  BY DEF More, Plans
<1>2. x \in Progs => Kind(x) = "prog" /\ ~conf.of[x].insn /\ x \notin Kfuncs
  BY Asked DEF Progs, Kfuncs
<1> QED BY <1>1, <1>2 DEF requiredSession, BothNow

\* When main does not run there is no call to speak of, or no program.
LEMMA NotRunning ==
  ASSUME More, main # "running"
  PROVE  (last.x \notin Targets) \/ attached = {}
<1>1. last = NoCall \/ attached = {}
  BY DEF More, IInv, Calls, Plans, TypeOK
<1> QED BY <1>1, NoCallFields

\* The exit event of a call that needs its entry is sent only with the entry.
LEMMA RunningCall ==
  ASSUME More, main = "running", NEW x \in Targets, x \in Progs => table[x] = "flagged"
  PROVE  /\ requiredSession(x) /\ ExitSends(x) => At(x, "entry") # {}
         /\ requiredSession(x) /\ At(x, "entry") # {} /\ At(x, "exit") # {} => ExitSends(x)
<1>1. ASSUME requiredSession(x), ExitSends(x) PROVE At(x, "entry") # {}
  <2>1. PICK p \in At(x, "exit") : p.both => \E q \in At(x, "entry") : q.both
    BY <1>1 DEF ExitSends
  <2>2. <<"exit", p.both>> \in Planned(x) /\ p.both \in BOOLEAN
    BY <2>1, ProgramsOf
  <2>3. CASE ~p.both
    <3>1. ~(useKprobe /\ x \in Kfuncs) /\ Kind(x) # "tp" /\ ~Both1(x)
      BY <2>2, <2>3 DEF Planned, KprobePrograms
    <3> QED BY <1>1, <3>1, Required DEF Both1
  <2> QED BY <2>1, <2>2, <2>3
<1>2. ASSUME requiredSession(x), NEW q \in At(x, "entry"), NEW p \in At(x, "exit") PROVE ExitSends(x)
  <2>1. /\ <<"exit", p.both>> \in Planned(x) /\ p.both \in BOOLEAN
        /\ <<"entry", q.both>> \in Planned(x) /\ q.both \in BOOLEAN
    BY ProgramsOf
  <2>2. p.both => q.both
    BY <2>1 DEF Planned, KprobePrograms
  <2> QED BY <2>2 DEF ExitSends
<1> QED BY <1>1, <1>2

LEMMA RunningSkipsNothing ==
  ASSUME More, main = "running"
  PROVE  NothingSkipped
<1> SUFFICES ASSUME last.x # NoTarget, last.known
             PROVE  "skipped" \notin last.lines /\ (last.held => At(last.x, "exit") = {})
  BY DEF NothingSkipped
<1>1. last.x \in Targets
  BY DEF More, Calls, Call
<1>2. ExitedAs(last) /\ (last.x \in Progs => table[last.x] = "flagged")
  BY <1>1 DEF More, Calls, ExitedAs, Flagged
<1>3. /\ requiredSession(last.x) /\ ExitSends(last.x) => At(last.x, "entry") # {}
      /\ requiredSession(last.x) /\ At(last.x, "entry") # {} /\ At(last.x, "exit") # {} => ExitSends(last.x)
  BY <1>1, <1>2, RunningCall
<1>4. "skipped" \notin EntryLines(last.x)
  BY DEF EntryLines
<1> QED BY <1>2, <1>3, <1>4 DEF ExitedAs

\* main may have stopped since the call: its programs are then detached.
LEMMA StoppedSkipsNothing ==
  ASSUME NothingSkipped, attached' = {}, last' = last
  PROVE  NothingSkipped'
BY DEF NothingSkipped, At

LEMMA StepSkipsNothing ==
  ASSUME More', NothingSkipped, [Next]_vars, ~(main = "running")'
  PROVE  NothingSkipped'
<1>1. last' = last
  BY DEF Next, Parser, AddProg, AddProgFails, SetFlag, SetFlagPanics, ParseDone,
         Main, NewBPFTracing, TracingFailed, TracingDone, NoTracing, Ready, StartFails, Stop,
         TaskStep, LoadPanics, Load, GraphsTraced, Ignored, TaskFails, Attach, Append,
         CallEnters, CallExits, vars, call_vars, start_vars, table_vars
<1>2. last'.x = NoTarget \/ attached' = {}
  <2>1. last' = NoCall \/ attached' = {}
    BY DEF More, IInv, Calls, Plans, TypeOK
  <2> QED BY <2>1 DEF NoCall
<1>3. CASE last'.x = NoTarget
  BY <1>3 DEF NothingSkipped
<1>4. CASE attached' = {}
  BY <1>1, <1>4, StoppedSkipsNothing
<1> QED BY <1>2, <1>3, <1>4

\* A call whose entry and exit come by kprobe.
LEMMA KprobeLines ==
  ASSUME More, main = "running", NEW x \in Targets, x = last.x, Kind(x) = "kfunc", ByKprobe(x),
         hasModeExit, AttachedEnds(x) = {"entry", "exit"}
  PROVE  last.lines = IF conf.of[x].insn \/ conf.of[x].graph THEN {"pair"} ELSE {"entry", "exit"}
<1>1. x \in Kfuncs /\ last.known
  BY Asked DEF More, Calls
<1>2. ExitedAs(last) /\ x \notin Progs
  BY <1>1 DEF More, Calls, Kfuncs
<1>3. PICK p \in At(x, "entry"), q \in At(x, "exit") : TRUE
  BY DEF AttachedEnds
<1>4. useKprobe
  <2>1. PICK k \in attached : k.x = x /\ k.end # "insn" /\ k.kprobe
    BY DEF ByKprobe
  <2>2. AsPlanned(k) /\ k \in Program
    BY DEF More, Plans, IInv, TypeOK
  <2>3. k.end \in {"entry", "exit"}
    BY <2>1, <2>2 DEF AsPlanned, Program
  <2> QED BY <2>1, <2>2, <2>3 DEF AsPlanned
<1>5. p.both
  BY <1>1, <1>4, ProgramsOf DEF Planned, KprobePrograms
<1>6. ExitSends(x) /\ At(x, "entry") # {}
  BY <1>3, <1>5 DEF ExitSends
<1>7. requiredSession(x) <=> conf.of[x].insn \/ conf.of[x].graph
  BY <1>1, <1>2, <1>4, Required
<1> QED BY <1>2, <1>6, <1>7 DEF ExitedAs, EntryLines

\* A call whose programs are not kprobes.
LEMMA TrampolineLines ==
  ASSUME More, main = "running", NEW x \in Targets, x = last.x, last.known, ~ByKprobe(x)
  PROVE  /\ AttachedEnds(x) \subseteq AskedEnds(x)
         /\ AttachedEnds(x) = AskedEnds(x) =>
              last.lines = IF AskedBoth(x) THEN {"pair"} ELSE AskedEnds(x)
<1> USE Asked
<1>1. ExitedAs(last) /\ (x \in Progs => table[x] = "flagged")
  BY DEF More, Calls, ExitedAs, Flagged
<1>2. \A end \in {"entry", "exit"} : \A p \in At(x, end) :
        ~p.kprobe /\ ~(useKprobe /\ x \in Kfuncs) /\ <<end, p.both>> \in Planned(x) /\ p.both \in BOOLEAN
  <2> SUFFICES ASSUME NEW end \in {"entry", "exit"}, NEW p \in At(x, end)
               PROVE  ~p.kprobe /\ ~(useKprobe /\ x \in Kfuncs) /\ <<end, p.both>> \in Planned(x) /\ p.both \in BOOLEAN
    OBVIOUS
  <2>1. /\ p.end = end /\ <<end, p.both>> \in Planned(x) /\ p.both \in BOOLEAN
        /\ p.kprobe <=> useKprobe /\ x \in Kfuncs
    BY ProgramsOf
  <2>2. ~p.kprobe
    BY <2>1 DEF ByKprobe, At
  <2> QED BY <2>1, <2>2
<1>3. CASE \A end \in {"entry", "exit"} : At(x, end) = {}
  BY <1>3 DEF AttachedEnds
<1>4. CASE \E end \in {"entry", "exit"} : At(x, end) # {}
  <2>1. ~(useKprobe /\ x \in Kfuncs)
    BY <1>2, <1>4
  <2>2. requiredSession(x) <=> AskedBoth(x)
    BY <1>1, <2>1, Required DEF Both1
  <2>3. CASE Kind(x) = "tp"
    <3>1. At(x, "exit") = {}
      BY <1>2, <2>1, <2>3 DEF Planned
    <3>2. ~AskedBoth(x) /\ AskedEnds(x) = {"entry"} /\ ~ExitSends(x)
      BY <2>3, <3>1 DEF AskedEnds, AskedBoth, ExitSends
    <3>3. AttachedEnds(x) = {"entry"}
      BY <1>4, <3>1 DEF AttachedEnds
    <3> QED BY <1>1, <2>2, <3>2, <3>3 DEF ExitedAs, EntryLines, AttachedEnds
  <2>4. CASE AskedBoth(x)
    <3>1. AskedEnds(x) = {"entry", "exit"}
      BY <2>4 DEF AskedEnds, AskedBoth
    <3>2. \A p \in At(x, "entry") : p.both
      BY <1>2, <2>1, <2>4 DEF Planned
    <3>3. At(x, "entry") # {} /\ At(x, "exit") # {} => ExitSends(x)
      BY <3>2 DEF ExitSends
    <3> QED BY <1>1, <2>2, <2>4, <3>1, <3>3 DEF ExitedAs, EntryLines, AttachedEnds
  <2>5. CASE Kind(x) # "tp" /\ ~AskedBoth(x)
    <3>1. AskedEnds(x) = {IF hasModeExit THEN "exit" ELSE "entry"} /\ ~Both1(x)
      BY <2>5
    <3>2. \A end \in {"entry", "exit"} : \A p \in At(x, end) :
            end = (IF hasModeExit THEN "exit" ELSE "entry") /\ ~p.both
      BY <1>2, <2>1, <2>5, <3>1 DEF Planned
    <3>3. CASE hasModeExit
      <4>1. At(x, "entry") = {} /\ At(x, "exit") # {} /\ AttachedEnds(x) = {"exit"} /\ AskedEnds(x) = {"exit"}
        BY <1>4, <3>1, <3>2, <3>3 DEF AttachedEnds
      <4>2. ExitSends(x)
        BY <3>2, <4>1 DEF ExitSends
      <4> QED BY <1>1, <2>2, <2>5, <4>1, <4>2 DEF ExitedAs, EntryLines
    <3>4. CASE ~hasModeExit
      <4>1. At(x, "entry") # {} /\ At(x, "exit") = {} /\ AttachedEnds(x) = {"entry"} /\ AskedEnds(x) = {"entry"}
        BY <1>4, <3>1, <3>2, <3>4 DEF AttachedEnds
      <4>2. ~ExitSends(x)
        BY <4>1 DEF ExitSends
      <4> QED BY <1>1, <2>2, <2>5, <4>1, <4>2 DEF ExitedAs, EntryLines
    <3> QED BY <3>3, <3>4
  <2> QED BY <2>3, <2>4, <2>5
<1> QED BY <1>3, <1>4

LEMMA MorePrinted == More => PrintedAsAsked
<1> SUFFICES ASSUME More PROVE PrintedAsAsked
  OBVIOUS
<1> DEFINE x == last.x
<1>1. x # NoTarget => x \in Targets
  BY DEF More, Calls, Call
<1>2. CASE main = "running"
  <2>1. x # NoTarget /\ last.known /\ ~ByKprobe(x) =>
          /\ AttachedEnds(x) \subseteq AskedEnds(x)
          /\ (AttachedEnds(x) = AskedEnds(x)) =>
               last.lines = IF AskedBoth(x) THEN {"pair"} ELSE AskedEnds(x)
    BY <1>1, <1>2, TrampolineLines
  <2>2. x # NoTarget /\ ByKprobe(x) /\ Kind(x) = "kfunc" /\ hasModeExit /\ AttachedEnds(x) = {"entry", "exit"}
        => last.lines = IF conf.of[x].insn \/ conf.of[x].graph THEN {"pair"} ELSE {"entry", "exit"}
    BY <1>1, <1>2, KprobeLines
  <2> QED BY <2>1, <2>2 DEF PrintedAsAsked
<1>3. CASE main # "running"
  <2>1. CASE x \notin Targets
    BY <1>1, <2>1 DEF PrintedAsAsked
  <2>2. CASE x \in Targets /\ attached = {}
    <3>1. AttachedEnds(x) = {} /\ ~ByKprobe(x)
      BY <2>2 DEF AttachedEnds, At, ByKprobe
    <3>2. AskedEnds(x) # {}
      BY <2>2, Asked
    <3> QED BY <3>1, <3>2 DEF PrintedAsAsked
  <2> QED BY <1>3, <2>1, <2>2, NotRunning
<1> QED BY <1>2, <1>3

\* Whatever the flags: with every program of its target attached by trampoline,
\* a call is printed once, as an entry with its exit or as the one end that was
\* asked for; by kprobe, both its ends are.
THEOREM PrintedAsAskedHolds == Spec => []PrintedAsAsked
BY InitMore, StepMore, MorePrinted, PTL DEF Spec

\* The reader and the programs agree on which calls have a session: no exit
\* event comes without the entry it needs, and no entry is held for nothing.
THEOREM NothingSkippedHolds == Spec => []NothingSkipped
<1>1. Init => NothingSkipped
  BY DEF Init, NothingSkipped, NoCall
<1>2. More /\ main = "running" => NothingSkipped
  BY RunningSkipsNothing
<1>3. More' /\ NothingSkipped /\ [Next]_vars /\ ~(main = "running")' => NothingSkipped'
  BY StepSkipsNothing
<1> QED BY <1>1, <1>2, <1>3, InitMore, StepMore, PTL DEF Spec
=============================================================================
