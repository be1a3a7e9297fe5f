---------------------------- MODULE KernelProbe ----------------------------
(***************************************************************************)
(* How bpfsnoop reads the kernel.  Each of bpf/read.c, bpf/traceable.c,    *)
(* bpf/tracepoint.c, bpf/tracepoint_module.c and bpf/feature.c is a        *)
(* program for the entry of nanosleep(2).  Its Go side loads it, attaches  *)
(* it, sleeps for a microsecond, and takes the results out of its maps.    *)
(* The program runs for whoever calls nanosleep: for any process, and for  *)
(* the other goroutines of bpfsnoop that are reading the kernel at the     *)
(* time.  All programs attached to nanosleep run in one call of it.        *)
(*                                                                         *)
(* An item is what one turn of the program's loop copies: a word of memory *)
(* (read), an address that is traceable (detect), a tracepoint (tps), a    *)
(* module (modules), a flag (feature).                                     *)
(***************************************************************************)
EXTENDS Integers, FiniteSets

CONSTANTS
  Probers,   \* goroutines that read the kernel
  Sleepers,  \* tasks of other processes that call nanosleep
  Confs,     \* which kinds of probe run together: functions from Probers
  Cap,       \* TP_MAX, TP_MODULE_MAX, ADDR_CAP, or the words of readLimit
  MaxItems,  \* bound: items of one kind in the kernel
  MaxTramp,  \* BPF_MAX_TRAMP_PROGS, programs one function can have
  MaxNaps,   \* bound: naps of a sleeper
  None

Kinds == {"read", "detect", "tps", "modules", "feature"}
Tasks == Probers \cup Sleepers

ASSUME ProbeAssumption ==
  /\ Cap \in Nat \ {0} /\ MaxItems \in Nat /\ MaxTramp \in Nat \ {0} /\ MaxNaps \in Nat
  /\ Confs \subseteq [Probers -> Kinds \cup {"none"}]
  /\ Probers \cap Sleepers = {} /\ None \notin Probers

VARIABLES
  kind,    \* prober -> the kind of its probe
  total,   \* prober -> items there are in the kernel
  foreign, \* programs other tracers have attached to nanosleep
  (* the goroutines *)
  pc,      \* prober -> where it is
  start,   \* prober -> items the earlier programs of this probe covered
  limit,   \* prober -> nr_modules as it was read
  got,     \* prober -> items collected
  error,   \* prober -> why it failed, or "none"
  (* the maps of the prober's program *)
  run, buf, end, nr,
  (* the tasks in nanosleep *)
  tramp,   \* task -> programs of the trampoline it has still to run
  cur,     \* task -> prober whose program it runs, or None
  step,    \* task -> where it is in that program
  idx,     \* task -> items that program has written
  naps,    \* sleeper -> its calls of nanosleep
  (* history *)
  raced    \* prober -> whether it read while another task was writing

goroutine == <<pc, start, limit, got, error, raced>>
maps      == <<run, buf, end, nr>>
execution == <<tramp, cur, step, idx>>
given     == <<kind, total, foreign>>
vars == <<given, goroutine, maps, execution, naps>>

Least(a, b) == IF a < b THEN a ELSE b

\* Items the program of p copies in one run.
Count(p) == Least(total[p] - start[p], Cap)

Attached_fault == {p \in Probers : kind[p] # "none" /\ pc[p] \notin {"load", "attach", "failed"}}

\* Programs attached to nanosleep.
Attached == {p \in Probers : pc[p] \in {"nap", "asleep", "get_run", "get_end", "get_nr", "get_items"}}

Idle(t) == tramp[t] = {} /\ cur[t] = None

\* Other tasks that are in the program of p and have not seen that it ran.
Writers(p) == {t \in Tasks \ {p} : cur[t] = p /\ (step[t] = "check" => ~run[p])}

-----------------------------------------------------------------------------
(* A task in nanosleep runs the programs of the trampoline, in some order. *)
(* The kernel does not run a program again on a CPU that is in it already: *)
(* a task that has preempted another one in the program passes it by.      *)

Enter_fault(t) == tramp' = [tramp EXCEPT ![t] = {p \in Attached : pc[p] # "nap"}]
Enter(t) == tramp' = [tramp EXCEPT ![t] = Attached]

\* A process that is not bpfsnoop sleeps.
Nap(t) ==
  /\ Idle(t) /\ naps[t] < MaxNaps /\ Attached # {}
  /\ naps' = [naps EXCEPT ![t] = @ + 1]
  /\ Enter(t)
  /\ UNCHANGED <<given, goroutine, maps, cur, step, idx>>

Skipped(t) ==
  /\ cur[t] = None
  /\ \E p \in tramp[t] :
       /\ \E u \in Tasks \ {t} : cur[u] = p
       /\ tramp' = [tramp EXCEPT ![t] = @ \ {p}]
  /\ UNCHANGED <<given, goroutine, maps, cur, step, idx, naps>>

\* All but feature.c look at run before they do anything.
StartProgram(t) ==
  /\ cur[t] = None
  /\ \E p \in tramp[t] :
       /\ cur' = [cur EXCEPT ![t] = p]
       /\ tramp' = [tramp EXCEPT ![t] = @ \ {p}]
       /\ step' = [step EXCEPT ![t] = IF kind[p] = "feature" THEN "claim" ELSE "check"]
  /\ idx' = [idx EXCEPT ![t] = 0]
  /\ UNCHANGED <<given, goroutine, maps, naps>>

Leave(t) == cur' = [cur EXCEPT ![t] = None] /\ UNCHANGED <<tramp, step, idx>>

Check(t) ==
  /\ cur[t] # None /\ step[t] = "check"
  /\ IF run[cur[t]] THEN Leave(t)
                    ELSE step' = [step EXCEPT ![t] = "claim"] /\ UNCHANGED <<tramp, cur, idx>>
  /\ UNCHANGED <<given, goroutine, maps, naps>>

Claim(t) ==
  /\ cur[t] # None /\ step[t] = "claim"
  /\ run' = [run EXCEPT ![cur[t]] = TRUE]
  /\ step' = [step EXCEPT ![t] = "fill"]
  /\ UNCHANGED <<given, goroutine, buf, end, nr, tramp, cur, idx, naps>>

Fill(t) ==
  /\ cur[t] # None /\ step[t] = "fill" /\ idx[t] < Count(cur[t])
  /\ buf' = [buf EXCEPT ![cur[t]] = @ \cup {idx[t] + 1}]
  /\ idx' = [idx EXCEPT ![t] = @ + 1]
  /\ UNCHANGED <<given, goroutine, run, end, nr, tramp, cur, step, naps>>

Filled(t) ==
  /\ cur[t] # None /\ step[t] = "fill" /\ idx[t] >= Count(cur[t])
  /\ IF kind[cur[t]] = "modules"
       THEN step' = [step EXCEPT ![t] = "end"] /\ UNCHANGED <<tramp, cur, idx>>
       ELSE Leave(t)
  /\ UNCHANGED <<given, goroutine, maps, naps>>

\* end = next == modules, the walk came back to the head of the list.
SetEnd(t) ==
  /\ cur[t] # None /\ step[t] = "end"
  /\ end' = [end EXCEPT ![cur[t]] = idx[t] = total[cur[t]]]
  /\ step' = [step EXCEPT ![t] = "nr"]
  /\ UNCHANGED <<given, goroutine, run, buf, nr, tramp, cur, idx, naps>>

SetNr(t) ==
  /\ cur[t] # None /\ step[t] = "nr"
  /\ nr' = [nr EXCEPT ![cur[t]] = idx[t]]
  /\ Leave(t)
  /\ UNCHANGED <<given, goroutine, run, buf, end, naps>>

Execute(t) ==
  StartProgram(t) \/ Skipped(t) \/ Check(t) \/ Claim(t) \/ Fill(t) \/ Filled(t) \/ SetEnd(t) \/ SetNr(t)

-----------------------------------------------------------------------------
(* The goroutine: readKernel, detectTraceable(s), probeTracepoints,        *)
(* probeTracepointModuleInfos, DetectBPFFeatures.                          *)

Load_fault(p) ==
  /\ pc[p] = "load"
  /\ pc' = [pc EXCEPT ![p] = "attach"]
  /\ UNCHANGED <<given, start, limit, got, error, raced, maps, execution, naps>>

\* A collection of its own for each program: run and the results are zero.
Load(p) ==
  /\ pc[p] = "load"
  /\ IF kind[p] = "read" /\ total[p] > Cap
       THEN pc' = [pc EXCEPT ![p] = "failed"] /\ error' = [error EXCEPT ![p] = "read size"]
       ELSE pc' = [pc EXCEPT ![p] = "attach"] /\ UNCHANGED error
  /\ run' = [run EXCEPT ![p] = FALSE] /\ buf' = [buf EXCEPT ![p] = {}]
  /\ end' = [end EXCEPT ![p] = FALSE] /\ nr' = [nr EXCEPT ![p] = 0]
  /\ UNCHANGED <<given, start, limit, got, raced, execution, naps>>

Attach(p) ==
  /\ pc[p] = "attach" /\ Cardinality(Attached) + foreign < MaxTramp
  /\ pc' = [pc EXCEPT ![p] = "nap"]
  /\ UNCHANGED <<given, start, limit, got, error, raced, maps, execution, naps>>

\* E2BIG: readKernel sleeps and tries again, which changes nothing here; the
\* others give up.
AttachFails(p) ==
  /\ pc[p] = "attach" /\ Cardinality(Attached) + foreign >= MaxTramp /\ kind[p] # "read"
  /\ pc' = [pc EXCEPT ![p] = "failed"]
  /\ error' = [error EXCEPT ![p] = "attach"]
  /\ UNCHANGED <<given, start, limit, got, raced, maps, execution, naps>>

Nanosleep(p) ==
  /\ pc[p] = "nap"
  /\ pc' = [pc EXCEPT ![p] = "asleep"]
  /\ Enter(p)
  /\ UNCHANGED <<given, start, limit, got, error, raced, maps, cur, step, idx, naps>>

Wake(p) ==
  /\ pc[p] = "asleep" /\ Idle(p)
  /\ pc' = [pc EXCEPT ![p] = "get_run"]
  /\ UNCHANGED <<given, start, limit, got, error, raced, maps, execution, naps>>

\* The deferred l.Close and coll.Close.  A task that is in the program goes
\* on in it; what it writes is not read by anyone any more.
Close(p) ==
  /\ tramp' = [t \in Tasks |-> tramp[t] \ {p}]
  /\ cur' = [t \in Tasks |-> IF cur[t] = p THEN None ELSE cur[t]]
  /\ UNCHANGED <<step, idx>>

Fail(p, why) ==
  /\ pc' = [pc EXCEPT ![p] = "failed"]
  /\ error' = [error EXCEPT ![p] = why]
  /\ Close(p)

\* The results as they are now; what was not written is zero: a function that
\* is not traceable, a tracepoint or a module that is left out, memory of
\* zeros.  Tables longer than Cap take another program.
Taken(p) == IF kind[p] = "modules" THEN buf[p] \cap (1..limit[p]) ELSE buf[p]

NextStart_fault(p) == start[p] + Cap
NextStart(p) == start[p] + Count(p)

Collect(p) ==
  /\ got' = [got EXCEPT ![p] = @ \cup {start[p] + i : i \in Taken(p)}]
  /\ start' = [start EXCEPT ![p] = NextStart(p)]
  /\ pc' = [pc EXCEPT ![p] = IF NextStart(p) < total[p] THEN "load" ELSE "done"]
  /\ Close(p)

\* DetectBPFFeatures reads run and the flags in one lookup of .bss.
GetRun(p) ==
  /\ pc[p] = "get_run"
  /\ raced' = [raced EXCEPT ![p] = @ \/ Writers(p) # {}]
  /\ \/ ~run[p] /\ Fail(p, "not triggered") /\ UNCHANGED <<start, got>>
     \/ run[p] /\ kind[p] = "feature" /\ Collect(p) /\ UNCHANGED error
     \/ /\ run[p] /\ kind[p] # "feature"
        /\ pc' = [pc EXCEPT ![p] = IF kind[p] = "modules" THEN "get_end" ELSE "get_items"]
        /\ UNCHANGED <<start, got, error, execution>>
  /\ UNCHANGED <<given, limit, maps, naps>>

GetEnd(p) ==
  /\ pc[p] = "get_end"
  /\ IF end[p]
       THEN pc' = [pc EXCEPT ![p] = "get_nr"] /\ UNCHANGED <<error, execution>>
       ELSE Fail(p, "too many modules")
  /\ UNCHANGED <<given, start, limit, got, raced, maps, naps>>

GetNr(p) ==
  /\ pc[p] = "get_nr"
  /\ limit' = [limit EXCEPT ![p] = nr[p]]
  /\ pc' = [pc EXCEPT ![p] = "get_items"]
  /\ UNCHANGED <<given, start, got, error, raced, maps, execution, naps>>

GetItems(p) ==
  /\ pc[p] = "get_items"
  /\ Collect(p)
  /\ UNCHANGED <<given, limit, error, raced, maps, naps>>

Probe(p) ==
  Load(p) \/ Attach(p) \/ AttachFails(p) \/ Nanosleep(p) \/ Wake(p)
  \/ GetRun(p) \/ GetEnd(p) \/ GetNr(p) \/ GetItems(p)

-----------------------------------------------------------------------------
Init ==
  /\ kind \in Confs
  /\ total \in [Probers -> 1..MaxItems]
  /\ \A p \in Probers : kind[p] = "feature" => total[p] <= Cap
  /\ foreign \in 0..MaxTramp
  /\ pc = [p \in Probers |-> IF kind[p] = "none" THEN "done" ELSE "load"]
  /\ start = [p \in Probers |-> 0] /\ limit = [p \in Probers |-> 0]
  /\ got = [p \in Probers |-> {}] /\ error = [p \in Probers |-> "none"]
  /\ run = [p \in Probers |-> FALSE] /\ buf = [p \in Probers |-> {}]
  /\ end = [p \in Probers |-> FALSE] /\ nr = [p \in Probers |-> 0]
  /\ tramp = [t \in Tasks |-> {}] /\ cur = [t \in Tasks |-> None]
  /\ step = [t \in Tasks |-> "check"] /\ idx = [t \in Tasks |-> 0]
  /\ naps = [t \in Sleepers |-> 0]
  /\ raced = [p \in Probers |-> FALSE]

Next ==
  \/ \E t \in Sleepers : Nap(t)
  \/ \E t \in Tasks : Execute(t)
  \/ \E p \in Probers : Probe(p)

Spec == Init /\ [][Next]_vars

\* Goroutines are scheduled, and programs run to their end: the verifier
\* admits no others.  Nothing makes another process sleep.
FairSpec ==
  /\ Spec
  /\ \A p \in Probers : WF_vars(Probe(p))
  /\ \A t \in Tasks : WF_vars(Execute(t))

-----------------------------------------------------------------------------
(* What the results are checked against: the table of the kernel.          *)

Steps  == {"check", "claim", "fill", "end", "nr"}
PCs    == {"load", "attach", "nap", "asleep", "get_run", "get_end", "get_nr", "get_items",
           "done", "failed"}
Errors == {"none", "read size", "attach", "not triggered", "too many modules"}

TypeOK ==
  /\ kind \in [Probers -> Kinds \cup {"none"}] /\ total \in [Probers -> Nat] /\ foreign \in Nat
  /\ pc \in [Probers -> PCs] /\ error \in [Probers -> Errors]
  /\ start \in [Probers -> Nat] /\ limit \in [Probers -> Nat]
  /\ \A p \in Probers : start[p] <= total[p]
  /\ got \in [Probers -> SUBSET Nat] /\ buf \in [Probers -> SUBSET Nat]
  /\ run \in [Probers -> BOOLEAN] /\ end \in [Probers -> BOOLEAN] /\ nr \in [Probers -> Nat]
  /\ tramp \in [Tasks -> SUBSET Probers] /\ cur \in [Tasks -> Probers \cup {None}]
  /\ step \in [Tasks -> Steps] /\ idx \in [Tasks -> Nat]
  /\ naps \in [Sleepers -> Nat] /\ raced \in [Probers -> BOOLEAN]

\* A goroutine that has slept finds that its program ran: attached before the
\* call, and run by the trampoline, it ran itself or saw that it had run, so
\* that "reading kernel was not triggered" (bpf_read_kernel.go:83) needs a
\* program that was passed by while another task was in it.
Triggered == \A p \in Probers : ~raced[p] => error[p] # "not triggered"

\* What a probe returns is the table of the kernel, whole, across programs of
\* Cap items each, unless another task was still in the program when run was
\* read: run is set before the results, and says that there are results which
\* are not.  Modules are too many only when they are.
WholeUnlessRaced ==
  \A p \in Probers :
    ~raced[p] =>
      /\ pc[p] = "done" /\ kind[p] # "none" => got[p] = 1..total[p]
      /\ error[p] = "too many modules" => total[p] > Cap

\* A probe ends, also when the trampoline of nanosleep is full of programs of
\* other goroutines and readKernel waits for a place; not when other tracers
\* hold all the places and keep them.
ProbesEnd == foreign < MaxTramp => \A p \in Probers : <>(pc[p] \in {"done", "failed"})
=============================================================================
