---------------------------- MODULE EventPayload ----------------------------
(***************************************************************************)
(* What an event of a traced function brings with it, and by which ways:   *)
(*   - the record in the ring buffer holds arguments, packet, attributes;  *)
(*   - the branches (LBR) go from a buffer of the CPU, which all programs  *)
(*     share, into the map bpfsnoop_lbrs under the session id;             *)
(*   - the stack of calls goes into bpfsnoop_stacks, and the record holds  *)
(*     the id it was given there.                                          *)
(* The programs are emit_bpfsnoop_event of bpfsnoop.c and of               *)
(* bpfsnoop_kprobe.c, the reader is record.Handle in bpfsnoop.go.          *)
(*                                                                         *)
(* A call here is one run of a program.  Calls have session ids of their   *)
(* own: what ids that collide do is in BpfsnoopSession, as is the map of   *)
(* sessions; here an exit finds its session or not.                        *)
(***************************************************************************)
EXTENDS PacketTuple, RecordLayout, FiniteSets

CONSTANTS
  Calls, CPUs, Progs,
  Stacks,    \* stacks of calls of the kernel
  Bucket,    \* the bucket of bpfsnoop_stacks a stack's hash leads to
  Slots,     \* records the ring buffer has room for
  Confs,     \* what is traced and what happens: see Init
  None

ASSUME PayloadAssumption ==
  /\ Slots \in Nat \ {0} /\ Bucket \in [Stacks -> Nat]
  /\ None \notin Calls /\ None \notin Stacks
  /\ \A f \in Confs : /\ f.cpu \in [Calls -> CPUs] /\ f.stack \in [Calls -> Stacks]
                      /\ f.kprobe \in BOOLEAN /\ f.lbr \in BOOLEAN /\ f.stacks \in BOOLEAN
                      /\ \A c \in Calls : IsPacket(f.packet[c])
                      /\ f.ptr \in {"skb", "xdp"} /\ f.skip \in BOOLEAN
                      /\ f.params \in Seq(ParamKinds) /\ f.ret \in {"num", "numptr", "str"}
                      /\ f.attrs \in Seq([kind : AttrKinds, null : BOOLEAN])

VARIABLES
  conf,    \* the configuration: never changes
  (* programs *)
  pc,      \* call -> where its program is
  buff,    \* CPU -> whose branches its buffer holds
  sid,     \* call -> func_stack_id of its record, -1 when it has none
  (* maps *)
  lbrs,    \* session id (its call) -> whose branches
  buckets, \* bucket -> stack
  ring,    \* the calls that have reserved a record, in order
  handled, \* how many of them the reader is done with
  slot,    \* slot -> [pkt, words], also of the records before
  (* reader *)
  rpc, held, lbrStack, fnStack,
  printed, \* call -> what was printed for it
  (* history *)
  clobbered, \* calls whose branches were overwritten before they were saved
  shared,    \* calls whose stack id another call had at the same time
  left       \* buckets an exit that was not printed has left behind

program  == <<pc, buff, sid>>
payloads == <<lbrs, buckets>>
records  == <<ring, handled, slot>>
reading  == <<rpc, held, lbrStack, fnStack, printed>>
history  == <<clobbered, shared, left>>
vars == <<conf, program, payloads, records, reading, history>>

Role(c) == conf.role[c]  \* "single", "entry" or "exit" (both_entry_exit)

\* Programs of both mode save the branches at entry only.
can_output(c) == Role(c) # "exit"

SlotOf(n) == (n - 1) % Slots
Position(c) == CHOOSE n \in DOMAIN ring : ring[n] = c
Outstanding == {ring[n] : n \in (handled + 1)..Len(ring)}

Running == {c \in Calls : pc[c] \in {"filter", "reserve", "stack", "lbr", "fill"}}

\* A tracing program is not run again on a CPU that is in it; others are, of
\* an interrupt or of the task that preempts it.  While a CPU is in a program
\* of a kprobe, it runs no other one.
Missed(c) ==
  \E d \in Running \ {c} : conf.cpu[d] = conf.cpu[c] /\ (conf.kprobe \/ conf.prog[d] = conf.prog[c])

-----------------------------------------------------------------------------
(* The programs.                                                           *)

Goto(c, where) == pc' = [pc EXCEPT ![c] = where]

Miss(c) ==
  /\ pc[c] = "begin" /\ Missed(c)
  /\ Goto(c, "missed")
  /\ UNCHANGED <<conf, buff, sid, payloads, records, reading, history>>

\* The snapshot is taken before anything else is run.
Snapshot(c) ==
  /\ pc[c] = "begin" /\ ~Missed(c)
  /\ Goto(c, "filter")
  /\ IF conf.lbr /\ can_output(c)
       THEN /\ buff' = [buff EXCEPT ![conf.cpu[c]] = c]
            /\ clobbered' = clobbered \cup
                 {d \in Running : conf.cpu[d] = conf.cpu[c] /\ can_output(d) /\ pc[d] # "fill"}
       ELSE UNCHANGED <<buff, clobbered>>
  /\ UNCHANGED <<conf, sid, payloads, records, reading, shared, left>>

\* The filters, or an exit without session, end the program.
Filter(c) ==
  /\ pc[c] = "filter"
  /\ Goto(c, "reserve") \/ Goto(c, "ignored")
  /\ UNCHANGED <<conf, buff, sid, payloads, records, reading, history>>

Full_fault == FALSE
Full == Len(ring) - handled >= Slots

Reserve(c) ==
  /\ pc[c] = "reserve"
  /\ IF Full
       THEN Goto(c, "dropped") /\ UNCHANGED ring
       ELSE Goto(c, "stack") /\ ring' = Append(ring, c)
  /\ UNCHANGED <<conf, buff, sid, payloads, handled, slot, reading, history>>

\* Programs of kprobes save the stack at entry only.
IsEntry(c) == Role(c) = "entry" \/ (Role(c) = "single" /\ ~conf.atExit)
HasStack(c) == conf.stacks /\ (conf.kprobe => IsEntry(c))

\* bpf_get_stackid: the id is the bucket.  A stack that is there already is
\* shared, another one is not replaced.
GetStack(c) ==
  LET id == Bucket[conf.stack[c]]
  IN /\ pc[c] = "stack"
     /\ Goto(c, "lbr")
     /\ IF HasStack(c) /\ buckets[id] \in {None, conf.stack[c]}
          THEN /\ sid' = [sid EXCEPT ![c] = id]
               /\ buckets' = [buckets EXCEPT ![id] = conf.stack[c]]
               /\ LET others == {d \in Outstanding \ {c} : sid[d] = id}
                  IN shared' = IF others = {} THEN shared ELSE shared \cup others \cup {c}
          ELSE UNCHANGED <<sid, buckets, shared>>
     /\ UNCHANGED <<conf, buff, lbrs, records, reading, clobbered, left>>

SaveLbr_fault(c) ==
  /\ pc[c] = "lbr"
  /\ Goto(c, "fill")
  /\ IF conf.lbr
       THEN lbrs' = [lbrs EXCEPT ![c] = buff[conf.cpu[c]]]
       ELSE UNCHANGED lbrs
  /\ UNCHANGED <<conf, buff, sid, buckets, records, reading, history>>

\* output_lbr_data, with branches in every snapshot.
SaveLbr(c) ==
  /\ pc[c] = "lbr"
  /\ Goto(c, "fill")
  /\ IF conf.lbr /\ can_output(c)
       THEN lbrs' = [lbrs EXCEPT ![c] = buff[conf.cpu[c]]]
       ELSE UNCHANGED lbrs
  /\ UNCHANGED <<conf, buff, sid, buckets, records, reading, history>>

\* The return value is stored by the programs that run at the exit.
Ret(c) == IF IsEntry(c) THEN "none" ELSE conf.ret

\* output_fn_args, output_pkt, output_arg, and the record is submitted.  The
\* memory of a record is not cleared by anyone.
Fill(c) ==
  LET s == SlotOf(Position(c))
  IN /\ pc[c] = "fill"
     /\ Goto(c, "submitted")
     /\ \E pkt \in output_pkt(conf.ptr, conf.packet[c], conf.skip, slot[s].pkt, c) :
          slot' = [slot EXCEPT ![s] =
                     [pkt |-> pkt,
                      args |-> genOutputFuncArgs(conf.params, Ret(c)),
                      attrs |-> output_arg(conf.attrs, OldWord)]]
     /\ UNCHANGED <<conf, buff, sid, payloads, ring, handled, reading, history>>

Program(c) ==
  Miss(c) \/ Snapshot(c) \/ Filter(c) \/ Reserve(c) \/ GetStack(c) \/ SaveLbr(c) \/ Fill(c)

-----------------------------------------------------------------------------
(* The reader handles the records in the order they were reserved.         *)

Current == ring[handled + 1]
HasNext == handled < Len(ring) /\ pc[ring[handled + 1]] = "submitted"

Handled == handled' = handled + 1 /\ rpc' = "read"

\* An exit of both mode that was shorter than the threshold, or whose entry
\* event was lost.
Skip ==
  /\ rpc = "read" /\ HasNext /\ Role(Current) = "exit"
  /\ Handled
  /\ left' = IF sid[Current] = -1 THEN left ELSE left \cup {sid[Current]}
  /\ UNCHANGED <<conf, program, payloads, ring, slot, held, lbrStack, fnStack, printed, clobbered, shared>>

\* outputStack of the branches: LookupAndDelete.
TakeLbr(mode) ==
  /\ lbrStack' = IF mode THEN lbrs[Current] ELSE None
  /\ lbrs' = IF mode THEN [lbrs EXCEPT ![Current] = None] ELSE lbrs

Read ==
  /\ rpc = "read" /\ HasNext
  /\ TakeLbr(conf.lbr)
  /\ rpc' = IF conf.stacks /\ sid[Current] >= 0 THEN "lookup" ELSE "output"
  /\ UNCHANGED <<conf, program, buckets, records, held, fnStack, printed, history>>

\* The kernel's lookup in a map of stacks takes the stack out, copies it and
\* puts it back.
LookupStack ==
  /\ rpc = "lookup"
  /\ held' = buckets[sid[Current]]
  /\ buckets' = [buckets EXCEPT ![sid[Current]] = None]
  /\ rpc' = IF held' = None THEN "output" ELSE "copied"
  /\ UNCHANGED <<conf, program, lbrs, records, lbrStack, fnStack, printed, history>>

LookupDone ==
  /\ rpc = "copied"
  /\ buckets' = [buckets EXCEPT ![sid[Current]] = held]
  /\ fnStack' = held /\ held' = None
  /\ rpc' = "delete"
  /\ UNCHANGED <<conf, program, lbrs, records, lbrStack, printed, history>>

DeleteStack_fault ==
  /\ rpc = "delete"
  /\ rpc' = "output"
  /\ UNCHANGED <<conf, program, payloads, records, held, lbrStack, fnStack, printed, history>>

DeleteStack ==
  /\ rpc = "delete"
  /\ buckets' = [buckets EXCEPT ![sid[Current]] = None]
  /\ rpc' = "output"
  /\ UNCHANGED <<conf, program, lbrs, records, held, lbrStack, fnStack, printed, history>>

Line ==
  LET s == slot[SlotOf(handled + 1)]
  IN [lbr |-> lbrStack, stack |-> fnStack,
      tuple |-> repr(s.pkt),
      args |-> outputFnArgs(conf.params, Ret(Current), s.args),
      attrs |-> outputFuncArgAttrs(conf.attrs, s.attrs)]

Reset_fault == UNCHANGED <<lbrStack, fnStack>>
Reset == lbrStack' = None /\ fnStack' = None

Output ==
  /\ rpc = "output"
  /\ printed' = [printed EXCEPT ![Current] = Line]
  /\ Reset
  /\ Handled
  /\ UNCHANGED <<conf, program, payloads, ring, slot, held, history>>

Reader == Skip \/ Read \/ LookupStack \/ LookupDone \/ DeleteStack \/ Output

-----------------------------------------------------------------------------
Nothing == [lbr |-> None, stack |-> None, tuple |-> <<>>, args |-> <<>>, attrs |-> <<>>]

Init ==
  /\ conf \in Confs
  /\ pc = [c \in Calls |-> IF c \in conf.calls THEN "begin" ELSE "none"]
  /\ buff = [u \in CPUs |-> None]
  /\ sid = [c \in Calls |-> -1]
  /\ lbrs = [c \in Calls |-> None]
  /\ buckets = [b \in {Bucket[s] : s \in Stacks} |-> None]
  /\ ring = <<>> /\ handled = 0
  /\ slot = [n \in 0..(Slots - 1) |-> [pkt |-> NoPkt, args |-> <<>>, attrs |-> <<>>]]
  /\ rpc = "read" /\ held = None /\ lbrStack = None /\ fnStack = None
  /\ printed = [c \in Calls |-> Nothing]
  /\ clobbered = {} /\ shared = {} /\ left = {}

Next == (\E c \in Calls : Program(c)) \/ Reader

Spec == Init /\ [][Next]_vars

-----------------------------------------------------------------------------
Done == {ring[n] : n \in 1..handled}
PCs  == {"none", "begin", "filter", "reserve", "stack", "lbr", "fill", "submitted",
         "missed", "ignored", "dropped"}

TypeOK ==
  /\ pc \in [Calls -> PCs] /\ buff \in [CPUs -> Calls \cup {None}]
  /\ sid \in [Calls -> Nat \cup {-1}]
  /\ lbrs \in [Calls -> Calls \cup {None}]
  /\ buckets \in [{Bucket[s] : s \in Stacks} -> Stacks \cup {None}]
  /\ ring \in Seq(Calls) /\ handled \in 0..Len(ring) /\ Len(ring) - handled <= Slots
  /\ \A m, n \in DOMAIN ring : ring[m] = ring[n] => m = n
  /\ DOMAIN slot = 0..(Slots - 1)
  /\ rpc \in {"read", "lookup", "copied", "delete", "output"}
  /\ rpc # "read" => HasNext
  /\ held \in Stacks \cup {None} /\ lbrStack \in Calls \cup {None} /\ fnStack \in Stacks \cup {None}
  /\ clobbered \subseteq Calls /\ shared \subseteq Calls /\ left \subseteq DOMAIN buckets

\* The branches printed with an event are those of its call, and an event that
\* has branches is printed with them, unless a program
\* of an interrupt or of another task overwrote the buffer of the CPU before
\* they were saved; which never happens to programs of kprobes.
LbrSound ==
  \A c \in Done :
    /\ printed[c] # Nothing /\ c \notin clobbered =>
         printed[c].lbr = IF conf.lbr /\ can_output(c) THEN c ELSE None
    /\ conf.kprobe => c \notin clobbered

\* The stack printed with an event is that of its call, and is printed when it
\* was given an id, unless another event had the same id at the same time.
\* Then the first one handled takes the stack from the other, which is left
\* with none, or with one of the same bucket that came since.
StackSound ==
  \A c \in Done :
    /\ printed[c].stack # None /\ c \notin shared => printed[c].stack = conf.stack[c]
    /\ sid[c] = -1 => printed[c].stack = None
    /\ printed[c] # Nothing /\ sid[c] >= 0 /\ c \notin shared => printed[c].stack # None

\* What waits in the maps is waited for: branches and stacks belong to an
\* event in the ring buffer, except the stacks of exits that were not printed:
\* their buckets stay taken.
NothingLeft ==
  /\ \A c \in Calls : lbrs[c] # None => c \in Outstanding
  /\ \A b \in DOMAIN buckets :
       buckets[b] # None => b \in left \/ \E c \in Outstanding : sid[c] = b

\* Arguments, return value and attributes are printed as they were stored, up
\* to the first struct of two registers (the words of what follows it are read
\* one early; its own high half is read only before the last parameter) and up
\* to the first histogram.
RecordSound ==
  LET structs == {i \in DOMAIN conf.params : conf.params[i] = "struct"}
      early(i) == \E j \in structs : j < i
      hists == {j \in DOMAIN conf.attrs : conf.attrs[j].kind = "hist" /\ ~conf.attrs[j].null}
  IN \A c \in Done : printed[c] # Nothing =>
       /\ \A i \in DOMAIN conf.params :
            ~early(i) /\ (i \in structs => i < Len(conf.params)) =>
              printed[c].args[i] = ArgWords(conf.params, i)
       /\ structs = {} /\ Ret(c) # "none" =>
            printed[c].args[Len(conf.params) + 1] = Stored(Ret(c), 0)
       /\ \A j \in DOMAIN conf.attrs :
            (\A h \in hists : h >= j) => printed[c].attrs[j] = AttrWords(conf.attrs, j)

\* The tuple printed is of the packet that was filtered, and of the layer the
\* filter looked at, if its headers are where the code looks for them.  Of
\* other packets nothing is stored, and what is printed is the tuple of the
\* record that was in this place of the ring buffer before.
TupleSound ==
  \A c \in Done :
    printed[c] # Nothing /\ Regular(conf.packet[c], conf.ptr, conf.skip) =>
      /\ printed[c].tuple = TupleLine(conf.packet[c], conf.skip, c)
      /\ FilterLayers(conf.packet[c], conf.ptr, conf.skip) = {Meant(conf.packet[c], conf.skip)}
=============================================================================
