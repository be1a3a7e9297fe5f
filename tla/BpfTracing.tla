------------------------------ MODULE BpfTracing ------------------------------
(***************************************************************************)
(* Start-up: which BPF programs are attached to which target, and whether  *)
(* the reader treats their events as they are sent (main.go,               *)
(* bpf_tracing*.go, bpf_prog.go, bpfsnoop_func.go).                        *)
(*                                                                         *)
(* Goroutines parse the traced BPF programs into a table while other       *)
(* goroutines load and attach one program each; main waits for the second  *)
(* kind, sets ready and starts the reader.  An attached program is the     *)
(* record of the goroutine that attached it.                               *)
(*                                                                         *)
(* When main runs, a call of a target is taken from its entry to its exit  *)
(* with no other call in between and no event lost: BpfsnoopSession has    *)
(* the interleavings.  One function of a BPF program is traced, and the    *)
(* programs of call graphs are those of FgraphEvents.                      *)
(***************************************************************************)
EXTENDS Naturals, FiniteSets

CONSTANTS
  Targets,    \* kernel functions, tracepoints and BPF programs to trace
  NoTarget,
  Confs,      \* flags the program is started with, see Configuration
  MayFail     \* loading or attaching a program may fail, and a signal may come

Target ==
  [kind  : {"kfunc", "tp", "prog"},
   kmod  : BOOLEAN,      \* of a kernel module without BTF
   both  : BOOLEAN,      \* flag (b)
   graph : BOOLEAN,      \* flag (g)
   insn  : BOOLEAN]      \* flag (i)

Configuration ==
  [modes : (SUBSET {"entry", "exit"}) \ {{}},    \* --mode
   of    : [Targets -> Target]]

ASSUME TracingAssumption ==
  /\ NoTarget \notin Targets
  /\ Confs \subseteq Configuration
  /\ \A k \in Confs, x \in Targets :
       /\ ~(k.of[x].insn /\ k.of[x].graph)                              \* parseKfuncFlag
       /\ k.of[x].kind = "tp" => ~k.of[x].insn /\ ~k.of[x].graph        \* matchKernelTracepoints
       /\ k.of[x].kind = "prog" => ~k.of[x].insn                        \* parseProgFlag
  /\ MayFail \in BOOLEAN

VARIABLES
  conf,       \* the configuration, fixed at the start
  both,       \* Flag.both of each target
  table,      \* bpfProgs.funcs: "absent", "added", or "flagged" once .flag is set
  parsing,    \* programs whose goroutine of parseProgs runs
  perr,       \* bpfProgs.err
  done,       \* bpfProgs.done is closed
  main,       \* where main is
  tasks,      \* goroutines of NewBPFTracing
  err,        \* its errgroup has an error
  attached,   \* programs that run
  listed,     \* those in the lists of bpfTracing, which Close walks
  call,       \* the call going on, or NoCall
  last        \* history: the call before it

table_vars == <<table, parsing, perr, done>>
start_vars == <<main, tasks, err, attached, listed>>
call_vars  == <<call, last>>
vars       == <<conf, both, table_vars, start_vars, call_vars>>

Kind(x)  == conf.of[x].kind
Progs    == {x \in Targets : Kind(x) = "prog"}
Kfuncs   == Targets \ Progs
hasModeExit == "exit" \in conf.modes

Ended == {"crashed", "aborted"}
Alive == main \notin Ended \cup {"closed"}

\* A panic or log.Fatal ends the process, and the kernel detaches its programs.
Die(how) == main' = how /\ attached' = {}

-----------------------------------------------------------------------------
(* parseProgs                                                              *)

AddProg(x) ==
  /\ Alive /\ x \in parsing
  /\ table' = [table EXCEPT ![x] = "added"]
  /\ parsing' = parsing \ {x}
  /\ UNCHANGED <<conf, both, perr, done, start_vars, call_vars>>

\* Its JIT images and BTF may be gone or not match.
AddProgFails(x) ==
  /\ MayFail
  /\ Alive /\ x \in parsing
  /\ perr' = TRUE /\ parsing' = parsing \ {x}
  /\ UNCHANGED <<conf, both, table, done, start_vars, call_vars>>

\* wg.Wait, then b.funcs[t.funcIP].flag = t.flag, one program at a time.
SetFlag(x) ==
  /\ Alive /\ parsing = {} /\ table[x] = "added"
  /\ table' = [table EXCEPT ![x] = "flagged"]
  /\ UNCHANGED <<conf, both, parsing, perr, done, start_vars, call_vars>>

SetFlagPanics(x) ==
  /\ Alive /\ parsing = {} /\ x \in Progs /\ table[x] = "absent"
  /\ Die("crashed")
  /\ UNCHANGED <<conf, both, table_vars, tasks, err, listed, call_vars>>

ParseDone_fault ==
  /\ Alive /\ ~done /\ parsing = {}
  /\ done' = TRUE
  /\ UNCHANGED <<conf, both, table, parsing, perr, start_vars, call_vars>>
ParseDone ==
  /\ Alive /\ ~done /\ \A x \in Progs : table[x] = "flagged"
  /\ done' = TRUE
  /\ UNCHANGED <<conf, both, table, parsing, perr, start_vars, call_vars>>

-----------------------------------------------------------------------------
(* The programs of a target, as pairs of an end and both_entry_exit.       *)

needsKprobe(x) == Kind(x) = "kfunc" /\ conf.of[x].kmod
useKprobe == \E x \in Kfuncs : needsKprobe(x)

bothEntryExit_fault(x) == conf.of[x].graph \/ both[x]
bothEntryExit(x) == conf.of[x].insn \/ conf.of[x].graph \/ both[x]

\* traceProgs, and traceFuncs without kprobe
TrampolinePrograms_fault(x) ==
  IF bothEntryExit(x) THEN {<<"entry", TRUE>>, <<"exit", TRUE>>}
  ELSE {<<IF hasModeExit THEN "exit" ELSE "entry", FALSE>>}
TrampolinePrograms(x) ==
  IF Kind(x) = "tp" THEN {<<"entry", FALSE>>}
  ELSE IF bothEntryExit(x) THEN {<<"entry", TRUE>>, <<"exit", TRUE>>}
  ELSE {<<IF hasModeExit THEN "exit" ELSE "entry", FALSE>>}

\* traceFuncs with the kprobe spec
KprobePrograms(x) ==
  IF Kind(x) = "tp" \/ ~hasModeExit THEN {<<"entry", FALSE>>}
  ELSE {<<"entry", TRUE>>, <<"exit", TRUE>>}

\* fn.Flag.both = false
KprobeBoth(x) == both[x] /\ ~(x \in Kfuncs /\ Kind(x) # "tp" /\ hasModeExit)

Task(x, p, kp) == [x |-> x, end |-> p[1], both |-> p[2], kprobe |-> kp, pc |-> "load"]

FuncTasks ==
  UNION {{Task(x, p, useKprobe) : p \in IF useKprobe THEN KprobePrograms(x)
                                                     ELSE TrampolinePrograms(x)} : x \in Kfuncs}
ProgTasks == UNION {{Task(x, p, FALSE) : p \in TrampolinePrograms(x)} : x \in Progs}
InsnTasks == {Task(x, <<"insn", FALSE>>, TRUE) : x \in {y \in Kfuncs : conf.of[y].insn}}
GraphTask == Task(NoTarget, <<"graphs", FALSE>>, FALSE)

\* main has not waited for parseProgs.
NewBPFTracing ==
  /\ main = "prepare"
  /\ tasks' = FuncTasks \cup ProgTasks \cup InsnTasks \cup {GraphTask}
  /\ both' = IF useKprobe THEN [x \in Targets |-> KprobeBoth(x)] ELSE both
  /\ main' = "tracing"
  /\ UNCHANGED <<conf, table_vars, err, attached, listed, call_vars>>

\* A BPF object cannot be loaded, or the signal came before: nothing is closed
\* but by the end of the process.
StartFails ==
  /\ MayFail
  /\ main \in {"prepare", "traced"}
  /\ Die("aborted")
  /\ UNCHANGED <<conf, both, table_vars, tasks, err, listed, call_vars>>

-----------------------------------------------------------------------------
(* traceFunc, traceProg, traceInsn and traceGraphs                         *)

Move(t, pc) == tasks' = (tasks \ {t}) \cup {[t EXCEPT !.pc = pc]}
End(t)      == tasks' = tasks \ {t}

ReadsTable(t) == t.x \in Progs

\* traceProg reads bprogs.funcs without its lock, and may get nil; the runtime
\* may also see that a goroutine of parseProgs writes the map.
LoadPanics(t) ==
  /\ Alive /\ t.pc = "load" /\ ReadsTable(t)
  /\ table[t.x] = "absent" \/ parsing # {}
  /\ Die("crashed")
  /\ UNCHANGED <<conf, both, table_vars, tasks, err, listed, call_vars>>

Load(t) ==
  /\ Alive /\ t.pc = "load" /\ t.end # "graphs"
  /\ ReadsTable(t) => table[t.x] # "absent"
  /\ Move(t, "attach")
  /\ UNCHANGED <<conf, both, table_vars, main, err, attached, listed, call_vars>>

GraphsTraced(t) ==
  /\ Alive /\ t.pc = "load" /\ t.end = "graphs"
  /\ End(t)
  /\ UNCHANGED <<conf, both, table_vars, main, err, attached, listed, call_vars>>

\* ignoreFuncTraceVerifierErr when it loads; ignoreFuncTraceErr, "Cannot
\* recursively attach" or, for a kprobe, a few errors when it attaches.
Ignored_fault(t) ==
  /\ MayFail
  /\ Alive /\ t.pc = "attach"
  /\ Move(t, "load")
  /\ UNCHANGED <<conf, both, table_vars, main, err, attached, listed, call_vars>>
Ignored(t) ==
  /\ MayFail
  /\ Alive /\ \/ t.pc = "load" /\ t.x \in Kfuncs /\ t.end # "insn"
              \/ t.pc = "attach"
  /\ End(t)
  /\ UNCHANGED <<conf, both, table_vars, main, err, attached, listed, call_vars>>

TaskFails(t) ==
  /\ MayFail
  /\ Alive /\ t.pc \in {"load", "attach"}
  /\ ReadsTable(t) /\ t.pc = "load" => table[t.x] # "absent"
  /\ err' = TRUE
  /\ End(t)
  /\ UNCHANGED <<conf, both, table_vars, main, attached, listed, call_vars>>

Attach(t) ==
  /\ Alive /\ t.pc = "attach"
  /\ attached' = attached \cup {[t EXCEPT !.pc = "run"]}
  /\ Move(t, "append")
  /\ UNCHANGED <<conf, both, table_vars, main, err, listed, call_vars>>

Append_fault(t) ==
  /\ Alive /\ t.pc \in {"attach", "append"}
  /\ listed' = listed \cup {[t EXCEPT !.pc = "run"]}
  /\ End(t)
  /\ UNCHANGED <<conf, both, table_vars, main, err, attached, call_vars>>
Append(t) ==
  /\ Alive /\ t.pc = "append"
  /\ listed' = listed \cup {[t EXCEPT !.pc = "run"]}
  /\ End(t)
  /\ UNCHANGED <<conf, both, table_vars, main, err, attached, call_vars>>

-----------------------------------------------------------------------------
(* main, from errg.Wait on                                                 *)

TasksDone_fault == \A t \in tasks : t.pc # "load"
TasksDone == tasks = {}

Close == attached' = attached \ listed

\* t.Close, and then assert.NoVerifierErr
TracingFailed ==
  /\ main = "tracing" /\ TasksDone /\ err
  /\ Close /\ main' = "closed"
  /\ UNCHANGED <<conf, both, table_vars, tasks, err, listed, call_vars>>

TracingDone ==
  /\ main = "tracing" /\ TasksDone /\ ~err
  /\ main' = "traced"
  /\ UNCHANGED <<conf, both, table_vars, tasks, err, attached, listed, call_vars>>

NoTracing ==
  /\ main = "traced" /\ listed = {}
  /\ Die("aborted")
  /\ UNCHANGED <<conf, both, table_vars, tasks, err, listed, call_vars>>

\* AddProgs, the second NewKallsyms, the reader, and ready.
Ready ==
  /\ main = "traced" /\ listed # {}
  /\ main' = "running"
  /\ UNCHANGED <<conf, both, table_vars, tasks, err, attached, listed, call_vars>>

Stop ==
  /\ MayFail
  /\ main = "running"
  /\ Close /\ main' = "closed"
  /\ UNCHANGED <<conf, both, table_vars, tasks, err, listed, call_vars>>

-----------------------------------------------------------------------------
(* A call of a target, its programs and the reader.                        *)

NoCall == [x |-> NoTarget, sess |-> FALSE, held |-> FALSE, known |-> FALSE, lines |-> {}]

\* getFuncInfo and requiredSession of Run.  The flag of a BPF program is zero
\* until parseProgs has set it.
requiredSession(x) ==
  IF x \in Progs THEN table[x] = "flagged" /\ (conf.of[x].graph \/ both[x])
  ELSE conf.of[x].insn \/ conf.of[x].graph \/ (both[x] /\ Kind(x) # "tp")

At(x, end) == {p \in attached : p.x = x /\ p.end = end}

CallEnters(x) ==
  /\ main = "running" /\ call = NoCall
  /\ LET here == At(x, "entry") IN
     call' = [x |-> x,
              sess  |-> \E p \in here : p.both,
              held  |-> here # {} /\ requiredSession(x),
              known |-> x \in Progs => done,
              lines |-> IF here # {} /\ ~requiredSession(x) THEN {"entry"} ELSE {}]
  /\ UNCHANGED <<conf, both, table_vars, start_vars, last>>

\* What the reader makes of an exit event.
ExitEvent(c) ==
  IF ~requiredSession(c.x) THEN [c EXCEPT !.lines = @ \cup {"exit"}]
  ELSE IF c.held THEN [c EXCEPT !.lines = @ \cup {"pair"}, !.held = FALSE]
  ELSE [c EXCEPT !.lines = @ \cup {"skipped"}]

CallExits ==
  /\ main = "running" /\ call # NoCall
  /\ last' = IF \E p \in At(call.x, "exit") : p.both => call.sess
             THEN ExitEvent(call) ELSE call
  /\ call' = NoCall
  /\ UNCHANGED <<conf, both, table_vars, start_vars>>

-----------------------------------------------------------------------------
Init ==
  /\ conf \in Confs
  /\ both = [x \in Targets |-> conf.of[x].both \/ conf.modes = {"entry", "exit"}]
  /\ table = [x \in Targets |-> "absent"]
  /\ parsing = Progs /\ perr = FALSE /\ done = FALSE
  /\ main = "prepare" /\ tasks = {} /\ err = FALSE
  /\ attached = {} /\ listed = {}
  /\ call = NoCall /\ last = NoCall

Parser == \/ \E x \in parsing : AddProg(x) \/ AddProgFails(x)
          \/ \E x \in Targets : SetFlag(x) \/ SetFlagPanics(x)
          \/ ParseDone

TaskStep(t) == \/ LoadPanics(t) \/ Load(t) \/ GraphsTraced(t) \/ Ignored(t)
               \/ TaskFails(t) \/ Attach(t) \/ Append(t)

Main == NewBPFTracing \/ TracingFailed \/ TracingDone \/ NoTracing \/ Ready

Next ==
  \/ Parser \/ Main
  \/ \E t \in tasks : TaskStep(t)
  \/ StartFails \/ Stop
  \/ \E x \in Targets : CallEnters(x)
  \/ CallExits

Spec == Init /\ [][Next]_vars

\* Goroutines are scheduled; signals, and calls of the targets, need not come.
FairSpec ==
  /\ Spec
  /\ WF_vars(Parser) /\ WF_vars(Main) /\ WF_vars(\E t \in tasks : TaskStep(t))

-----------------------------------------------------------------------------
(* Properties.                                                             *)

Program == [x : Targets \cup {NoTarget}, end : {"entry", "exit", "insn", "graphs"},
            both : BOOLEAN, kprobe : BOOLEAN, pc : {"load", "attach", "append", "run"}]

\* Types; and while the process lives, what Close would walk are attached
\* programs whose goroutines have ended.
TypeOK ==
  /\ Alive => listed \subseteq attached \ {[t EXCEPT !.pc = "run"] : t \in tasks}
  /\ conf \in Confs /\ both \in [Targets -> BOOLEAN]
  /\ table \in [Targets -> {"absent", "added", "flagged"}]
  /\ parsing \subseteq Progs /\ {perr, done, err} \subseteq BOOLEAN
  /\ main \in {"prepare", "tracing", "traced", "running", "closed"} \cup Ended
  /\ tasks \cup attached \cup listed \subseteq Program

\* What the flags ask for.
AskedBoth(x) ==
  /\ Kind(x) # "tp"
  /\ \/ conf.of[x].both \/ conf.of[x].graph \/ conf.of[x].insn
     \/ conf.modes = {"entry", "exit"}
AskedEnds(x) ==
  IF Kind(x) = "tp" THEN {"entry"}
  ELSE IF AskedBoth(x) THEN {"entry", "exit"} ELSE conf.modes

AttachedEnds(x) == {e \in {"entry", "exit"} : At(x, e) # {}}
ByKprobe(x) == \E p \in attached : p.x = x /\ p.end # "insn" /\ p.kprobe

\* Programs attached to trampolines, to BPF programs and to tracepoints: with
\* all of them attached, a call is printed once, and as the flags ask: entry
\* with exit, or the one end of --mode.  A function traced by kprobe in a mode
\* with exit has both ends printed: in one piece with its instructions or its
\* graph, else line by line.
PrintedAsAsked ==
  /\ last.x # NoTarget /\ last.known /\ ~ByKprobe(last.x) =>
       /\ AttachedEnds(last.x) \subseteq AskedEnds(last.x)
       /\ (AttachedEnds(last.x) = AskedEnds(last.x)) =>
            last.lines = IF AskedBoth(last.x) THEN {"pair"} ELSE AskedEnds(last.x)
  /\ /\ last.x # NoTarget /\ ByKprobe(last.x) /\ Kind(last.x) = "kfunc"
     /\ hasModeExit /\ AttachedEnds(last.x) = {"entry", "exit"}
     => last.lines = IF conf.of[last.x].insn \/ conf.of[last.x].graph
                     THEN {"pair"} ELSE {"entry", "exit"}

\* The reader skips no exit event for want of a session, and holds the entry of
\* a call that has ended only if no exit program is attached.
NothingSkipped ==
  last.x # NoTarget /\ last.known =>
    /\ "skipped" \notin last.lines
    /\ last.held => At(last.x, "exit") = {}

\* After Close no program is left attached.
LinksClosed == main = "closed" => attached = {}

\* A panic is the parser's or that of a goroutine that read the table before
\* the parser was done.
PanicOnlyBeforeParsed == main = "crashed" => ~done

\* All bpf progs will be traced: no goroutine panics.
NoPanic == main # "crashed"

\* Start-up ends: main runs, or has closed what it attached, or the process ends.
Starts == <>(main \in {"running", "closed"} \cup Ended)
=============================================================================
