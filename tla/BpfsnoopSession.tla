--------------------------- MODULE BpfsnoopSession ---------------------------
(***************************************************************************)
(* The event path of bpfsnoop, end to end: the BPF program attached to the *)
(* entry and/or the exit of a traced kernel function (bpf/bpfsnoop.c, or   *)
(* bpf/bpfsnoop_kprobe.c when Kprobe), the kernel hash map that remembers  *)
(* the session of a live call (bpf/bpfsnoop_sess.h), the ring buffer, and  *)
(* the reader loop of internal/bpfsnoop/bpfsnoop.go with its own table of  *)
(* sessions (internal/bpfsnoop/bpfsnoop_sess.go).                          *)
(*                                                                         *)
(* A call of a traced function is a number; the key of the kernel map, the *)
(* frame pointer of the tracee's caller, is the pair <<task, depth>> of    *)
(* the frame.  The variables under "history" are not in the code.          *)
(***************************************************************************)
EXTENDS Integers, Sequences

CONSTANTS
  Tasks,            \* contexts (threads, interrupts) with a kernel stack of their own
  MaxDepth,         \* bound: live traced calls on one stack
  MaxCalls,         \* bound: traced calls in a behaviour
  Funcs,            \* traced functions
  BothFuncs,        \* those whose programs are loaded with cfg->both_entry_exit
  EntryFuncs,       \* single-mode functions traced at entry (the rest: at exit)
  RequiredFuncs,    \* those with requiredSession in the reader
  NRnd,             \* bpf_get_prandom_u32() returns 0..NRnd-1
  Word,             \* 2^32 in the code: weight of the random half of an id
  LowFp,            \* frame -> low 32 bits of the caller's frame pointer
  Elems,            \* elements the kernel session map can hold (max_entries)
  RingCap,          \* records the ring buffer can hold
  Kprobe,           \* TRUE: bpfsnoop_kprobe.c, FALSE: bpfsnoop.c
  FreedElemReused,  \* an add may take a deleted element before its deleter read it
  FreshRnd,         \* no two calls draw the same id (true but for 2^-32)
  ExitMayMiss,      \* the kernel may skip an exit program (recursion guard, nmissed)
  RunDelta,         \* a --duration-threshold is set
  Limit             \* --limit-events, 0 for no limit

Frames == Tasks \X (1..MaxDepth)
Calls  == 1..MaxCalls
NoCall == 0
Ids    == 0..(NRnd * Word - 1)

ASSUME ConstantsAssumption ==
  /\ MaxDepth \in Nat /\ MaxCalls \in Nat /\ RingCap \in Nat /\ Limit \in Nat
  /\ NRnd \in Nat \ {0} /\ Word \in Nat \ {0}
  /\ LowFp \in [Frames -> 0..(Word - 1)]
  /\ BothFuncs \subseteq Funcs /\ EntryFuncs \subseteq Funcs \ BothFuncs
  /\ RequiredFuncs \subseteq BothFuncs \cup EntryFuncs
  /\ {Kprobe, FreedElemReused, FreshRnd, ExitMayMiss, RunDelta} \subseteq BOOLEAN

CONSTANTS NoFunc, NoId, NoElem
ASSUME NoneAssumption == NoFunc \notin Funcs /\ NoId \notin Ids /\ NoElem \notin Elems

VARIABLES
  ready,      \* .data.ready: "init" before main sets it, then "on", then "off"
  depth,      \* task -> number of its live traced calls
  frame,      \* frame -> the live call, or NoCall
  pc,         \* task -> where its BPF program is, "run" outside any program
  reg,        \* task -> session_id local of the running program
  elem,       \* task -> sess pointer of the running exit program
  sessions,   \* bpfsnoop_sessions: frame -> element, or NoElem
  value,      \* element -> the session_id stored in it
  ring,       \* bpfsnoop_events, reserved records in order
  usess,      \* Sessions.sessions: id -> call whose entry opened it, or NoCall
  run,        \* state of Run: "running", "finished" (limit reached), "closed"
  remaining,  \* the loop counter i of Run
  \* history
  ncalls,     \* number of calls so far
  callee,     \* call -> function called, or NoFunc
  sid,        \* call -> id its entry program generated, or NoId
  lost,       \* <<kind, call>> of events that found the ring buffer full
  missed,     \* calls whose exit program the kernel skipped
  unsaved,    \* calls whose session found the kernel map full
  silent,     \* calls that returned after ready was cleared
  printed,    \* <<entry call, exit call>> printed together
  skipped     \* calls whose exit event found no session in the reader

kernel  == <<depth, frame, ncalls, callee>>
prog    == <<pc, reg, elem>>
map     == <<sessions, value>>
reader  == <<usess, run, remaining, printed, skipped>>
history == <<sid, lost, missed, unsaved, silent>>
vars    == <<ready, kernel, prog, map, ring, reader, history>>

Kinds  == {"entry", "exit"}
Record == [kind : Kinds, id : Ids, call : Calls]

Fp(t)  == <<t, depth[t]>>
Top(t) == frame[Fp(t)]
Func(t) == callee[Top(t)]

\* Faults of the code that the properties below exclude are written next to
\* the definition they change, with the suffix _fault.
Pred_fault(id) == id - 1
Succ_fault(id) == id

\* u64 arithmetic on ids: session_id - 1 and SessID + 1 wrap around.
Pred(id) == IF id = 0 THEN NRnd * Word - 1 ELSE id - 1
Succ(id) == IF id = NRnd * Word - 1 THEN 0 ELSE id + 1

gen_session_id(rnd, fp) == rnd * Word + LowFp[fp]

\* The ids gen_session_id may return to the program of task t.
NewIds(t) ==
  {i \in {gen_session_id(rnd, Fp(t)) : rnd \in 0..(NRnd - 1)} :
     FreshRnd => \A c \in Calls : sid[c] # i}

-----------------------------------------------------------------------------
(* The tracee: calls and returns of traced functions.                      *)

Pop(t) ==
  /\ frame' = [frame EXCEPT ![Fp(t)] = NoCall]
  /\ depth' = [depth EXCEPT ![t] = @ - 1]
  /\ UNCHANGED <<ncalls, callee>>

EntryDone(t) ==
  /\ pc' = [pc EXCEPT ![t] = "run"]
  /\ reg' = [reg EXCEPT ![t] = NoId]
  /\ UNCHANGED elem

ExitDone(t) ==
  /\ pc' = [pc EXCEPT ![t] = "run"]
  /\ reg' = [reg EXCEPT ![t] = NoId]
  /\ elem' = [elem EXCEPT ![t] = NoElem]
  /\ Pop(t)

\* A traced function is called; its entry program runs if it has one.
Call(t, f) ==
  /\ pc[t] = "run"
  /\ depth[t] < MaxDepth /\ ncalls < MaxCalls
  /\ ncalls' = ncalls + 1
  /\ depth' = [depth EXCEPT ![t] = @ + 1]
  /\ frame' = [frame EXCEPT ![<<t, depth[t] + 1>>] = ncalls + 1]
  /\ callee' = [callee EXCEPT ![ncalls + 1] = f]
  /\ pc' = [pc EXCEPT ![t] = IF f \in BothFuncs \cup EntryFuncs THEN "entry" ELSE "run"]
  /\ UNCHANGED <<ready, reg, elem, map, ring, reader, history>>

\* The innermost traced function returns; its exit program runs if it has one.
Return(t) ==
  /\ pc[t] = "run" /\ depth[t] > 0
  /\ \/ /\ Func(t) \in EntryFuncs
        /\ Pop(t)
        /\ UNCHANGED pc
     \/ /\ Func(t) \notin EntryFuncs
        /\ pc' = [pc EXCEPT ![t] = "exit"]
        /\ UNCHANGED kernel
  /\ UNCHANGED <<ready, reg, elem, map, ring, reader, history>>

\* The kernel does not run the exit program (its recursion guard is taken).
ExitMissed(t) ==
  /\ ExitMayMiss
  /\ pc[t] = "exit"
  /\ ExitDone(t)
  /\ missed' = missed \cup {Top(t)}
  /\ UNCHANGED <<ready, map, ring, reader, sid, lost, unsaved, silent>>

-----------------------------------------------------------------------------
(* emit_bpfsnoop_event at entry.                                           *)

Used == {sessions[fp] : fp \in Frames} \ {NoElem}
Held == IF FreedElemReused THEN {} ELSE {elem[t] : t \in Tasks}

\* bpf_map_update_elem(BPF_ANY): a free element, or, replacing, the old one;
\* it fails when the map is full and the key is new.
add_session(fp, id) ==
  LET usable == (Elems \ (Used \cup Held)) \cup ({sessions[fp]} \ {NoElem})
  IN  \/ \E e \in usable :
           /\ sessions' = [sessions EXCEPT ![fp] = e]
           /\ value' = [value EXCEPT ![e] = id]
           /\ UNCHANGED unsaved
      \/ /\ usable = {}
         /\ unsaved' = unsaved \cup {frame[fp]}
         /\ UNCHANGED map

\* Not ready, or the pid, argument or packet filter says no.
EntryIgnored(t) ==
  /\ pc[t] = "entry"
  /\ EntryDone(t)
  /\ UNCHANGED <<ready, kernel, map, ring, reader, history>>

EntryAccepted(t) ==
  /\ pc[t] = "entry" /\ ready = "on"
  /\ \E id \in NewIds(t) :
       /\ reg' = [reg EXCEPT ![t] = id]
       /\ sid' = [sid EXCEPT ![Top(t)] = id]
       /\ IF Func(t) \in BothFuncs THEN add_session(Fp(t), id)
                                   ELSE UNCHANGED <<map, unsaved>>
  /\ pc' = [pc EXCEPT ![t] = "entry_reserve"]
  /\ UNCHANGED <<ready, kernel, elem, ring, reader, lost, missed, silent>>

-----------------------------------------------------------------------------
(* emit_bpfsnoop_event at exit.                                            *)

ExitNotReady(t) ==
  /\ pc[t] = "exit" /\ ready # "on"
  /\ ExitDone(t)
  /\ silent' = IF ready = "off" THEN silent \cup {Top(t)} ELSE silent
  /\ UNCHANGED <<ready, map, ring, reader, sid, lost, missed, unsaved>>

\* get_and_del_session found nothing, or a single-mode exit is filtered out.
ExitIgnored(t) ==
  /\ pc[t] = "exit" /\ ready = "on"
  /\ Func(t) \in BothFuncs => sessions[Fp(t)] = NoElem
  /\ ExitDone(t)
  /\ UNCHANGED <<ready, map, ring, reader, history>>

ExitSingle(t) ==
  /\ pc[t] = "exit" /\ ready = "on"
  /\ Func(t) \notin BothFuncs
  /\ \E id \in NewIds(t) : reg' = [reg EXCEPT ![t] = id]
  /\ pc' = [pc EXCEPT ![t] = "exit_reserve"]
  /\ UNCHANGED <<ready, kernel, elem, map, ring, reader, history>>

\* The session is read and left in the map.
ExitReadDelete_fault(t) ==
  /\ pc[t] = "exit" /\ ready = "on" /\ Kprobe
  /\ Func(t) \in BothFuncs /\ sessions[Fp(t)] # NoElem
  /\ reg' = [reg EXCEPT ![t] = Pred(value[sessions[Fp(t)]])]
  /\ pc' = [pc EXCEPT ![t] = "exit_reserve"]
  /\ UNCHANGED <<ready, kernel, elem, map, ring, reader, history>>

\* bpfsnoop_kprobe.c reads the session, then deletes it.
ExitReadDelete(t) ==
  /\ pc[t] = "exit" /\ ready = "on" /\ Kprobe
  /\ Func(t) \in BothFuncs /\ sessions[Fp(t)] # NoElem
  /\ reg' = [reg EXCEPT ![t] = Pred(value[sessions[Fp(t)]])]
  /\ sessions' = [sessions EXCEPT ![Fp(t)] = NoElem]
  /\ pc' = [pc EXCEPT ![t] = "exit_reserve"]
  /\ UNCHANGED <<ready, kernel, elem, value, ring, reader, history>>

\* The session is looked up and left in the map.
ExitDelete_fault(t) ==
  /\ pc[t] = "exit" /\ ready = "on" /\ ~Kprobe
  /\ Func(t) \in BothFuncs /\ sessions[Fp(t)] # NoElem
  /\ elem' = [elem EXCEPT ![t] = sessions[Fp(t)]]
  /\ pc' = [pc EXCEPT ![t] = "exit_read"]
  /\ UNCHANGED <<ready, kernel, reg, map, ring, reader, history>>

\* bpfsnoop.c deletes the session and keeps a pointer to its element ...
ExitDelete(t) ==
  /\ pc[t] = "exit" /\ ready = "on" /\ ~Kprobe
  /\ Func(t) \in BothFuncs /\ sessions[Fp(t)] # NoElem
  /\ elem' = [elem EXCEPT ![t] = sessions[Fp(t)]]
  /\ sessions' = [sessions EXCEPT ![Fp(t)] = NoElem]
  /\ pc' = [pc EXCEPT ![t] = "exit_read"]
  /\ UNCHANGED <<ready, kernel, reg, value, ring, reader, history>>

\* The exit event keeps the id of the session.
ExitRead_fault(t) ==
  /\ pc[t] = "exit_read"
  /\ reg' = [reg EXCEPT ![t] = value[elem[t]]]
  /\ elem' = [elem EXCEPT ![t] = NoElem]
  /\ pc' = [pc EXCEPT ![t] = "exit_reserve"]
  /\ UNCHANGED <<ready, kernel, map, ring, reader, history>>

\* ... and reads the session id through the pointer afterwards.
ExitRead(t) ==
  /\ pc[t] = "exit_read"
  /\ reg' = [reg EXCEPT ![t] = Pred(value[elem[t]])]
  /\ elem' = [elem EXCEPT ![t] = NoElem]
  /\ pc' = [pc EXCEPT ![t] = "exit_reserve"]
  /\ UNCHANGED <<ready, kernel, map, ring, reader, history>>

-----------------------------------------------------------------------------
(* The ring buffer: reserve, fill, submit.                                 *)

Kind(t) == IF pc[t] \in {"entry_reserve", "entry_commit"} THEN "entry" ELSE "exit"

Reserve(t) ==
  /\ pc[t] \in {"entry_reserve", "exit_reserve"}
  /\ Len(ring) < RingCap
  /\ ring' = Append(ring, [kind |-> Kind(t), id |-> reg[t], call |-> Top(t)])
  /\ pc' = [pc EXCEPT ![t] = IF Kind(t) = "entry" THEN "entry_commit" ELSE "exit_commit"]
  /\ UNCHANGED <<ready, kernel, reg, elem, map, reader, history>>

\* bpf_ringbuf_reserve() returned NULL: the event is gone, the session is not.
ReserveFails(t) ==
  /\ pc[t] \in {"entry_reserve", "exit_reserve"}
  /\ Len(ring) >= RingCap
  /\ lost' = lost \cup {<<Kind(t), Top(t)>>}
  /\ IF Kind(t) = "entry" THEN EntryDone(t) /\ UNCHANGED kernel ELSE ExitDone(t)
  /\ UNCHANGED <<ready, map, ring, reader, sid, missed, unsaved, silent>>

\* The exit program never submits its record.
Submit_fault(t) ==
  /\ pc[t] = "entry_commit"
  /\ EntryDone(t)
  /\ UNCHANGED <<ready, kernel, map, ring, reader, history>>

Submit(t) ==
  /\ pc[t] \in {"entry_commit", "exit_commit"}
  /\ IF Kind(t) = "entry" THEN EntryDone(t) /\ UNCHANGED kernel ELSE ExitDone(t)
  /\ UNCHANGED <<ready, map, ring, reader, history>>

\* A record is busy until the program that reserved it submits it.
Busy(rec) == \E t \in Tasks : /\ pc[t] \in {"entry_commit", "exit_commit"}
                              /\ Kind(t) = rec.kind /\ Top(t) = rec.call

-----------------------------------------------------------------------------
(* The reader: the record.Handle callback of Run and the loop around it.   *)

Output ==
  IF Limit = 0
  THEN UNCHANGED <<run, remaining>>
  ELSE /\ remaining' = remaining - 1
       /\ run' = IF remaining = 1 THEN "finished" ELSE run

\* Sessions.Add
HandleEntry(rec) ==
  /\ rec.kind = "entry" /\ callee[rec.call] \in RequiredFuncs
  /\ usess' = [usess EXCEPT ![rec.id] = rec.call]
  /\ UNCHANGED <<run, remaining, printed, skipped>>

\* Sessions.GetAndDel(SessID + 1) finds nothing: the event is dropped.
HandleExitSkip(rec) ==
  /\ rec.kind = "exit" /\ callee[rec.call] \in RequiredFuncs
  /\ usess[Succ(rec.id)] = NoCall
  /\ skipped' = skipped \cup {rec.call}
  /\ UNCHANGED <<usess, run, remaining, printed>>

\* Sessions.GetAndDel finds the session; a call below the threshold is dropped.
HandleExitTooShort(rec) ==
  /\ rec.kind = "exit" /\ callee[rec.call] \in RequiredFuncs
  /\ usess[Succ(rec.id)] # NoCall
  /\ RunDelta
  /\ usess' = [usess EXCEPT ![Succ(rec.id)] = NoCall]
  /\ UNCHANGED <<run, remaining, printed, skipped>>

\* Sessions.Get instead of GetAndDel.
HandleExitPrint_fault(rec) ==
  /\ rec.kind = "exit" /\ callee[rec.call] \in RequiredFuncs
  /\ usess[Succ(rec.id)] # NoCall
  /\ printed' = printed \cup {<<usess[Succ(rec.id)], rec.call>>}
  /\ Output
  /\ UNCHANGED <<usess, skipped>>

HandleExitPrint(rec) ==
  /\ rec.kind = "exit" /\ callee[rec.call] \in RequiredFuncs
  /\ usess[Succ(rec.id)] # NoCall
  /\ printed' = printed \cup {<<usess[Succ(rec.id)], rec.call>>}
  /\ usess' = [usess EXCEPT ![Succ(rec.id)] = NoCall]
  /\ Output
  /\ UNCHANGED skipped

\* No session required: the event is printed on its own.
HandleStandalone(rec) ==
  /\ callee[rec.call] \notin RequiredFuncs
  /\ Output
  /\ UNCHANGED <<usess, printed, skipped>>

Consume ==
  /\ run = "running" /\ ring # <<>>
  /\ ~Busy(Head(ring))
  /\ \/ HandleEntry(Head(ring))
     \/ HandleExitSkip(Head(ring))
     \/ HandleExitTooShort(Head(ring))
     \/ HandleExitPrint(Head(ring))
     \/ HandleStandalone(Head(ring))
  /\ ring' = Tail(ring)
  /\ UNCHANGED <<ready, kernel, prog, map, history>>

-----------------------------------------------------------------------------
(* main: ready is set once the reader exists, and cleared on the way out.  *)

SetReady ==
  /\ ready = "init"
  /\ ready' = "on"
  /\ UNCHANGED <<kernel, prog, map, ring, reader, history>>

\* A signal closes the reader; ReadInto returns ErrClosed.
CloseReader ==
  /\ run = "running" /\ ready = "on"
  /\ run' = "closed"
  /\ UNCHANGED <<ready, kernel, prog, map, ring, usess, remaining, printed, skipped, history>>

ClearReady ==
  /\ run # "running" /\ ready = "on"
  /\ ready' = "off"
  /\ UNCHANGED <<kernel, prog, map, ring, reader, history>>

-----------------------------------------------------------------------------
Init ==
  /\ ready = "init"
  /\ depth = [t \in Tasks |-> 0]
  /\ frame = [fp \in Frames |-> NoCall]
  /\ pc = [t \in Tasks |-> "run"]
  /\ reg = [t \in Tasks |-> NoId]
  /\ elem = [t \in Tasks |-> NoElem]
  /\ sessions = [fp \in Frames |-> NoElem]
  /\ value = [e \in Elems |-> NoId]
  /\ ring = <<>>
  /\ usess = [id \in Ids |-> NoCall]
  /\ run = "running"
  /\ remaining = Limit
  /\ ncalls = 0
  /\ callee = [c \in Calls |-> NoFunc]
  /\ sid = [c \in Calls |-> NoId]
  /\ lost = {} /\ missed = {} /\ unsaved = {} /\ silent = {}
  /\ printed = {} /\ skipped = {}

EntryProgram(t) == EntryIgnored(t) \/ EntryAccepted(t)
ExitProgram(t)  == \/ ExitMissed(t) \/ ExitNotReady(t) \/ ExitIgnored(t)
                   \/ ExitSingle(t) \/ ExitReadDelete(t) \/ ExitDelete(t) \/ ExitRead(t)
Program(t)      == \/ EntryProgram(t) \/ ExitProgram(t)
                   \/ Reserve(t) \/ ReserveFails(t) \/ Submit(t)
Main            == SetReady \/ CloseReader \/ ClearReady

Next ==
  \/ \E t \in Tasks, f \in Funcs : Call(t, f)
  \/ \E t \in Tasks : Return(t) \/ Program(t)
  \/ Consume
  \/ Main

Spec == Init /\ [][Next]_vars

\* A BPF program runs to completion, and the reader goroutine is scheduled.
FairSpec == Spec /\ WF_vars(Consume) /\ \A t \in Tasks : WF_vars(Program(t))

-----------------------------------------------------------------------------
PCs == {"run", "entry", "entry_reserve", "entry_commit",
        "exit", "exit_read", "exit_reserve", "exit_commit"}
ExitPCs == {"exit", "exit_read", "exit_reserve", "exit_commit"}

\* Every variable stays in its type: in particular the ids that travel from
\* the kernel map to the ring buffer and into the reader's table are u64 ids,
\* never a value read from an element no add has written.
TypeOK ==
  /\ ready \in {"init", "on", "off"}
  /\ depth \in [Tasks -> 0..MaxDepth]
  /\ frame \in [Frames -> Calls \cup {NoCall}]
  /\ pc \in [Tasks -> PCs]
  /\ reg \in [Tasks -> Ids \cup {NoId}]
  /\ elem \in [Tasks -> Elems \cup {NoElem}]
  /\ sessions \in [Frames -> Elems \cup {NoElem}]
  /\ value \in [Elems -> Ids \cup {NoId}]
  /\ ring \in Seq(Record)
  /\ usess \in [Ids -> Calls \cup {NoCall}]
  /\ run \in {"running", "finished", "closed"}
  /\ remaining \in Nat
  /\ ncalls \in 0..MaxCalls
  /\ callee \in [Calls -> Funcs \cup {NoFunc}]
  /\ sid \in [Calls -> Ids \cup {NoId}]
  /\ lost \subseteq Kinds \X Calls
  /\ missed \subseteq Calls /\ unsaved \subseteq Calls /\ silent \subseteq Calls
  /\ printed \subseteq Calls \X Calls /\ skipped \subseteq Calls
-----------------------------------------------------------------------------
(* What the kernel side promises the reader.                               *)

\* The id stored for a frame is that of the call live in the frame, or of a
\* call whose exit program never ran (missed) or ran with ready off (silent):
\* get_and_del_session leaves no session of a finished call behind.
SessionOwned ==
  \A fp \in Frames : sessions[fp] # NoElem =>
    \E c \in {frame[fp]} \cup missed \cup silent :
      c \in Calls /\ value[sessions[fp]] = sid[c]

\* Reading the session id is safe: bpfsnoop_kprobe.c reads before it deletes,
\* or the kernel does not hand the element out again in between.
SafeRead == Kprobe \/ ~FreedElemReused

\* An exit event of a both-mode function carries the id of its own call less
\* one (or of a call whose exit the kernel missed, left in the same map).
ExitCarriesOwnId ==
  \A i \in 1..Len(ring) :
    ring[i].kind = "exit" /\ callee[ring[i].call] \in BothFuncs =>
      \E c \in {ring[i].call} \cup missed :
        sid[c] # NoId /\ ring[i].id = Pred(sid[c])

-----------------------------------------------------------------------------
(* What the reader prints.                                                 *)

\* An entry and an exit printed as one call have the same session id: the
\* entry is that of the exit's call, of a call that drew the same random id,
\* or of one whose exit the kernel missed.
PrintedPairsMatch ==
  \A p \in printed : \E c \in {p[2]} \cup missed : sid[p[1]] = sid[c]

\* With distinct ids and no missed exit program, what is printed as one call
\* is one call.
PrintedIsOneCall == \A p \in printed : p[1] = p[2]

\* With distinct ids, no missed exit program and no session overwritten before
\* it is read, the reader implements CallTrace: it holds a call once, prints it
\* with its own exit, and forgets it then.
Trace == INSTANCE CallTrace WITH held <- {usess[id] : id \in Ids} \ {NoCall}
ImplementsCallTrace == Trace!Spec

\* The outputs of an entry are printed with one exit at most, and an exit is
\* printed once (Sessions.GetAndDel takes the session out of the table).
PrintedOnce == \A p, q \in printed : p[1] = q[1] \/ p[2] = q[2] => p = q

\* The ring buffer keeps the order of a task's programs, so an exit event the
\* reader drops for want of a session had its entry event dropped by the
\* kernel, unless another call shared its id or an exit program was missed.
SkippedOnlyAfterLoss ==
  missed = {} => \A c \in skipped :
    <<"entry", c>> \in lost \/ \E d \in Calls \ {c} : sid[d] = sid[c]

\* Sessions leak from the reader's table only through a loss in the kernel:
\* the exit of an open session is still to come, or is in the ring buffer, or
\* was never emitted for a cause recorded in the history.
OpenSessionsAwaitExit ==
  \A id \in Ids : LET c == usess[id] IN
    c # NoCall /\ callee[c] \in BothFuncs =>
      \/ \E fp \in Frames : frame[fp] = c
      \/ \E i \in 1..Len(ring) : ring[i].kind = "exit" /\ ring[i].call = c
      \/ <<"exit", c>> \in lost
      \/ c \in missed \cup unsaved \cup silent

\* An exit event in the ring buffer is handled, unless Run ends first: no
\* record ahead of it stays busy for ever.
ExitQueued(c) == \E i \in 1..Len(ring) : ring[i].kind = "exit" /\ ring[i].call = c
QueuedExitHandled == \A c \in Calls : ExitQueued(c) ~> ~ExitQueued(c) \/ run # "running"
-----------------------------------------------------------------------------
(* The inductive invariant behind TypeOK and PrintedPairsMatch.            *)

\* The frames of a task are those up to its depth; calls are numbered as they
\* come and each is live in one frame at most.
FrameInv ==
  /\ \A t \in Tasks : \A d \in 1..MaxDepth : frame[<<t, d>>] # NoCall <=> d <= depth[t]
  /\ \A fp \in Frames : frame[fp] <= ncalls
  /\ \A fp, gp \in Frames : frame[fp] = frame[gp] /\ frame[fp] # NoCall => fp = gp
  /\ \A c \in Calls : c <= ncalls => callee[c] \in Funcs
  /\ \A c \in Calls : c > ncalls => callee[c] = NoFunc /\ sid[c] = NoId

\* A running program has a frame, and what it reads next is there.
ProgramInv ==
  /\ \A t \in Tasks : pc[t] # "run" => depth[t] > 0
  /\ \A t \in Tasks : pc[t] \in {"entry_reserve", "entry_commit", "exit_reserve", "exit_commit"}
                        => reg[t] \in Ids
  /\ \A t \in Tasks : pc[t] = "exit_read" => elem[t] \in Elems /\ value[elem[t]] \in Ids
  /\ \A fp \in Frames : sessions[fp] # NoElem => value[sessions[fp]] \in Ids

CounterInv == Limit # 0 /\ run = "running" => remaining > 0

TypeInv == TypeOK /\ FrameInv /\ ProgramInv /\ CounterInv

\* Entry programs run before the call has an id, exit programs only for
\* functions that have one, after the session is taken out of the map.
PhaseInv ==
  /\ \A t \in Tasks : pc[t] = "entry" => sid[Top(t)] = NoId
  /\ \A t \in Tasks : pc[t] \in ExitPCs => Func(t) \notin EntryFuncs
  /\ \A t \in Tasks : pc[t] = "exit_read" => Func(t) \in BothFuncs
  /\ \A t \in Tasks : pc[t] \in ExitPCs \ {"exit"} /\ Func(t) \in BothFuncs
                        => sessions[Fp(t)] = NoElem
  /\ ready = "init" => \A c \in Calls : sid[c] = NoId
  /\ ready # "off" => silent = {}

\* No element is the session of two frames, or of a frame and of a program
\* that has yet to read it.
ElemInv ==
  /\ \A fp, gp \in Frames : sessions[fp] = sessions[gp] /\ sessions[fp] # NoElem => fp = gp
  /\ \A t \in Tasks : pc[t] = "exit_read" =>
       ~Kprobe /\ \A fp \in Frames : FreedElemReused \/ sessions[fp] # elem[t]

\* x is the id of a both-mode call of C.
IdOf(x, C) == \E c \in C : c \in Calls /\ callee[c] \in BothFuncs /\ sid[c] # NoId /\ x = sid[c]

\* Ids on their way.  In the kernel map: of the call live in the frame, or of
\* one whose exit program did not run.
MapFlow ==
  \A fp \in Frames : sessions[fp] # NoElem =>
    IdOf(value[sessions[fp]], {frame[fp]} \cup missed \cup silent)

\* In a program: what it has deleted, and what it is about to send.
ReadFlow ==
  \A t \in Tasks : pc[t] = "exit_read" => IdOf(value[elem[t]], {Top(t)} \cup missed)
RegFlow ==
  /\ \A t \in Tasks : pc[t] \in {"entry_reserve", "entry_commit"} => reg[t] = sid[Top(t)]
  /\ \A t \in Tasks : pc[t] \in {"exit_reserve", "exit_commit"} /\ Func(t) \in BothFuncs =>
       \E x \in Ids : reg[t] = Pred(x) /\ IdOf(x, {Top(t)} \cup missed)

\* In the ring buffer.
RecordFlow(rec) ==
  IF rec.kind = "entry"
  THEN rec.id = sid[rec.call]
  ELSE /\ callee[rec.call] \in Funcs \ EntryFuncs
       /\ callee[rec.call] \in BothFuncs =>
            \E x \in Ids : rec.id = Pred(x) /\ IdOf(x, {rec.call} \cup missed)
RingFlow == \A i \in 1..Len(ring) : RecordFlow(ring[i])

\* In the reader: in its table and in what it printed.
TableFlow == \A id \in Ids : usess[id] # NoCall => sid[usess[id]] = id
PrintedFlow == \A p \in printed : sid[p[1]] # NoId /\ IdOf(sid[p[1]], {p[2]} \cup missed)

FlowInv == MapFlow /\ ReadFlow /\ RegFlow /\ RingFlow /\ TableFlow /\ PrintedFlow

\* Without the two imperfections of the environment no two calls share an id
\* and every exit program has run.
FreshInv ==
  /\ FreshRnd => \A c, d \in Calls : sid[c] = sid[d] /\ sid[c] # NoId => c = d
  /\ ~ExitMayMiss => missed = {}

PairingInv == TypeInv /\ PhaseInv /\ ElemInv /\ FlowInv
=============================================================================
