------------------------ MODULE EventPayload_proofs ------------------------
(***************************************************************************)
(* Proofs about EventPayload, for any calls, CPUs, stacks and hash of      *)
(* stacks, any size of the ring buffer and any configuration.  IInv        *)
(* follows the branches and the stack of a call from its program through   *)
(* the buffer of the CPU and the maps to the line that is printed; InPlace *)
(* follows the record from its place in the ring buffer.  What a reader    *)
(* makes of a record is a matter of the operators of PacketTuple and       *)
(* RecordLayout alone, for any packet, parameters and attributes.          *)
(***************************************************************************)
EXTENDS EventPayload, WellFoundedInduction, TLAPS

HasLbr(c) == conf.lbr /\ can_output(c)

\* The reader is at the record of c.
AtHand(c) == rpc # "read" /\ c = Current

\* The ring buffer has the calls whose programs have got as far as that, and
\* those that were handled are done; nothing else was printed.
Queued ==
  /\ conf \in Confs /\ DOMAIN printed = Calls
  /\ \A c \in Calls :
       c \in Outstanding \cup Done <=> pc[c] \in {"stack", "lbr", "fill", "submitted"}
  /\ \A c \in Done : pc[c] = "submitted" /\ c \notin Outstanding
  /\ \A c \in Calls \ Done : printed[c] = Nothing

\* The branches of a call are in the buffer of its CPU, then in the map, then
\* with the reader, unless they were overwritten.
Branches ==
  /\ \A c \in Calls :
       /\ pc[c] \in {"filter", "reserve", "stack", "lbr"} /\ HasLbr(c) /\ c \notin clobbered =>
            buff[conf.cpu[c]] = c
       /\ lbrs[c] # None => HasLbr(c) /\ c \in Outstanding /\ pc[c] \in {"fill", "submitted"} /\ ~AtHand(c)
       /\ c \in Outstanding /\ pc[c] \in {"fill", "submitted"} /\ c \notin clobbered /\ ~AtHand(c) =>
            lbrs[c] = IF HasLbr(c) THEN c ELSE None
       /\ AtHand(c) /\ c \notin clobbered => lbrStack = IF HasLbr(c) THEN c ELSE None
  /\ conf.kprobe => clobbered = {}

\* A call has the id of its stack's bucket once its program has stored it.
\* Two that wait with the same id are both known to share it.
Ids ==
  /\ \A c \in Calls :
       sid[c] # -1 => /\ conf.stacks /\ sid[c] = Bucket[conf.stack[c]]
                      /\ pc[c] \in {"lbr", "fill", "submitted"}
  /\ \A c, d \in Outstanding : c # d /\ sid[c] = sid[d] /\ sid[c] # -1 => c \in shared

\* The stack of a call that shares no id is in the map until the reader has it.
Kept ==
  /\ \A c \in Outstanding : sid[c] # -1 /\ c \notin shared =>
       /\ ~AtHand(c) \/ rpc = "lookup" => buckets[sid[c]] = conf.stack[c]
       /\ AtHand(c) /\ rpc = "copied" => held = conf.stack[c]
       /\ AtHand(c) /\ rpc \in {"delete", "output"} => fnStack = conf.stack[c]
  /\ rpc \in {"lookup", "copied", "delete"} => sid[Current] # -1
  /\ rpc \in {"read", "lookup", "copied"} => fnStack = None
  /\ rpc = "output" /\ sid[Current] = -1 => fnStack = None

\* The reader is done with the stack of the record at hand.
Released ==
  rpc = "output" /\ sid[Current] # -1 /\ buckets[sid[Current]] # None =>
    sid[Current] \in left \/ \E d \in Outstanding \ {Current} : sid[d] = sid[Current]

IInv ==
  /\ TypeOK /\ Queued /\ Branches /\ Ids /\ Kept /\ Released
  /\ LbrSound /\ StackSound /\ NothingLeft

-----------------------------------------------------------------------------
(* The ring buffer as a set of calls that wait.                            *)

LEMMA InQueue ==
  ASSUME TypeOK
  PROVE  /\ Outstanding \subseteq Calls /\ Done \subseteq Calls
         /\ handled < Len(ring) => Current \in Outstanding /\ Current \in Calls /\ Current \notin Done
         /\ rpc # "read" => handled < Len(ring) /\ pc[Current] = "submitted"
BY DEF TypeOK, Outstanding, Done, Current, HasNext

LEMMA Enqueue ==
  ASSUME TypeOK, NEW c \in Calls, ring' = Append(ring, c), handled' = handled
  PROVE  /\ Outstanding' = Outstanding \cup {c} /\ Done' = Done
         /\ handled < Len(ring) => Current' = Current
<1>1. /\ Len(ring') = Len(ring) + 1 /\ ring'[Len(ring) + 1] = c
      /\ \A n \in 1..Len(ring) : ring'[n] = ring[n]
  BY DEF TypeOK
<1>2. handled \in Nat /\ Len(ring) \in Nat /\ handled <= Len(ring)
  BY DEF TypeOK
<1>3. Done' = Done
  BY <1>1, <1>2 DEF Done
<1>4. Outstanding' = Outstanding \cup {c}
  <2>1. \A n \in (handled + 1)..(Len(ring) + 1) : n = Len(ring) + 1 \/ n \in (handled + 1)..Len(ring)
    BY <1>2
  <2>2. Len(ring) + 1 \in (handled + 1)..(Len(ring) + 1)
    BY <1>2
  <2>3. \A n \in (handled + 1)..Len(ring) : n \in (handled + 1)..(Len(ring) + 1) /\ n \in 1..Len(ring)
    BY <1>2
  <2> QED BY <2>1, <2>2, <2>3, <1>1 DEF Outstanding
<1>5. handled < Len(ring) => Current' = Current
  BY <1>1, <1>2 DEF Current
<1> QED BY <1>3, <1>4, <1>5

LEMMA Dequeue ==
  ASSUME TypeOK, handled < Len(ring), ring' = ring, handled' = handled + 1
  PROVE  /\ Outstanding' = Outstanding \ {Current} /\ Done' = Done \cup {Current}
<1>1. handled \in Nat /\ Len(ring) \in Nat /\ \A m, n \in 1..Len(ring) : ring[m] = ring[n] => m = n
  BY DEF TypeOK
<1>2. Outstanding' = Outstanding \ {Current}
  <2>1. \A n \in (handled + 1)..Len(ring) : n = handled + 1 \/ n \in (handled + 2)..Len(ring)
    BY <1>1
  <2>2. \A n \in (handled + 2)..Len(ring) :
          n \in (handled + 1)..Len(ring) /\ n \in 1..Len(ring) /\ n # handled + 1
    BY <1>1
  <2>3. handled + 1 \in 1..Len(ring) /\ handled' + 1 = handled + 2
    BY <1>1
  <2>4. Outstanding' = {ring[n] : n \in (handled + 2)..Len(ring)}
    BY <2>3 DEF Outstanding
  <2> QED BY <1>1, <2>1, <2>2, <2>3, <2>4 DEF Outstanding, Current
<1>3. Done' = Done \cup {Current}
  <2>1. \A n \in 1..(handled + 1) : n = handled + 1 \/ n \in 1..handled
    BY <1>1
  <2>2. handled + 1 \in 1..(handled + 1) /\ \A n \in 1..handled : n \in 1..(handled + 1)
    BY <1>1
  <2> QED BY <2>1, <2>2 DEF Done, Current
<1> QED BY <1>2, <1>3

LEMMA SameQueue ==
  ASSUME ring' = ring, handled' = handled
  PROVE  Outstanding' = Outstanding /\ Done' = Done /\ Current' = Current
BY DEF Outstanding, Done, Current

-----------------------------------------------------------------------------
LEMMA InitIInv == Init => IInv
<1> SUFFICES ASSUME Init PROVE IInv
  OBVIOUS
<1> USE PayloadAssumption DEF Init
<1>1. Outstanding = {} /\ Done = {}
  BY DEF Outstanding, Done
<1>2. TypeOK
  BY DEF TypeOK, PCs, HasNext
<1>3. Queued
  BY <1>1 DEF Queued
<1>4. Branches /\ Ids /\ Kept /\ Released
  BY <1>1 DEF Branches, Ids, Kept, Released, AtHand
<1>5. LbrSound /\ StackSound /\ NothingLeft
  BY <1>1 DEF LbrSound, StackSound, NothingLeft
<1> QED BY <1>2, <1>3, <1>4, <1>5 DEF IInv

-----------------------------------------------------------------------------
(* The programs.                                                           *)

LEMMA MissIInv ==
  ASSUME IInv, NEW c \in Calls, Miss(c)
  PROVE  IInv'
<1> USE DEF IInv, Miss, Goto, payloads, records, reading, history
<1>0. Outstanding' = Outstanding /\ Done' = Done /\ Current' = Current
  BY SameQueue
<1>1. TypeOK'
  BY <1>0, InQueue DEF TypeOK, PCs, HasNext, Current
<1>2. Queued'
  BY <1>0 DEF Queued, TypeOK
<1>3. Branches'
  BY <1>0 DEF Branches, TypeOK, AtHand, HasLbr, can_output, Role
<1>4. Ids' /\ Kept' /\ Released'
  BY <1>0 DEF Ids, Kept, Released, TypeOK, AtHand
<1>5. LbrSound' /\ StackSound' /\ NothingLeft'
  BY <1>0 DEF LbrSound, StackSound, NothingLeft, TypeOK, can_output, Role
<1> QED BY <1>1, <1>2, <1>3, <1>4, <1>5

LEMMA FilterIInv ==
  ASSUME IInv, NEW c \in Calls, Filter(c)
  PROVE  IInv'
<1> USE DEF IInv, Filter, Goto, payloads, records, reading, history
<1>0. Outstanding' = Outstanding /\ Done' = Done /\ Current' = Current
  BY SameQueue
<1>1. TypeOK'
  BY <1>0, InQueue DEF TypeOK, PCs, HasNext, Current
<1>2. Queued'
  <2>1. pc'[c] \in {"reserve", "ignored"} /\ \A d \in Calls \ {c} : pc'[d] = pc[d]
    BY DEF TypeOK
  <2>2. c \notin Outstanding \cup Done
    BY DEF Queued
  <2>3. \A d \in Calls :
          d \in Outstanding' \cup Done' <=> pc'[d] \in {"stack", "lbr", "fill", "submitted"}
    BY <1>0, <2>1, <2>2 DEF Queued
  <2>4. \A d \in Done' : pc'[d] = "submitted" /\ d \notin Outstanding'
    BY <1>0, <2>1, <2>2, InQueue DEF Queued
  <2> QED BY <1>0, <2>3, <2>4 DEF Queued
<1>3. Branches'
  BY <1>0 DEF Branches, TypeOK, AtHand, HasLbr, can_output, Role
<1>4. Ids' /\ Kept' /\ Released'
  BY <1>0 DEF Ids, Kept, Released, TypeOK, AtHand
<1>5. LbrSound' /\ StackSound' /\ NothingLeft'
  BY <1>0 DEF LbrSound, StackSound, NothingLeft, TypeOK, can_output, Role
<1> QED BY <1>1, <1>2, <1>3, <1>4, <1>5

LEMMA SnapshotIInv ==
  ASSUME IInv, NEW c \in Calls, Snapshot(c)
  PROVE  IInv'
<1> USE DEF IInv, Snapshot, Goto, payloads, records, reading
<1>0. Outstanding' = Outstanding /\ Done' = Done /\ Current' = Current
  BY SameQueue
<1>a. /\ c \notin Outstanding \cup Done /\ pc' = [pc EXCEPT ![c] = "filter"]
      /\ conf.cpu \in [Calls -> CPUs] /\ conf.kprobe \in BOOLEAN
  BY PayloadAssumption DEF Queued
<1>b. /\ clobbered \subseteq clobbered' /\ clobbered' \subseteq Calls
      /\ c \notin clobbered' \/ c \in clobbered
  BY DEF TypeOK, Running
<1>c. conf.kprobe => clobbered' = {}
  BY DEF Branches, Missed, Running
<1>1. TypeOK'
  BY <1>0, <1>b, InQueue DEF TypeOK, PCs, HasNext, Current
<1>2. Queued'
  BY <1>0 DEF Queued, TypeOK
<1>3. Branches'
  <2>1. ASSUME NEW d \in Calls, pc'[d] \in {"filter", "reserve", "stack", "lbr"}, HasLbr(d), d \notin clobbered'
        PROVE  buff'[conf.cpu[d]] = d
    <3>1. CASE d = c
      BY <2>1, <3>1, <1>a DEF TypeOK, HasLbr
    <3>2. CASE d # c
      BY <2>1, <3>2, <1>a, <1>b DEF TypeOK, HasLbr, Branches, Running
    <3> QED BY <3>1, <3>2
  <2>2. \A d \in Calls : d # c => pc'[d] = pc[d]
    BY DEF TypeOK
  <2>3. \A d \in Calls : HasLbr(d)' = HasLbr(d) /\ AtHand(d)' = AtHand(d)
    BY <1>0 DEF HasLbr, AtHand, can_output, Role
  <2> QED BY <2>1, <2>2, <2>3, <1>0, <1>a, <1>b, <1>c, InQueue DEF Branches, AtHand
<1>4. Ids' /\ Kept' /\ Released'
  BY <1>0 DEF Ids, Kept, Released, TypeOK, AtHand
<1>5. LbrSound' /\ StackSound' /\ NothingLeft'
  BY <1>0, <1>b, <1>c DEF LbrSound, StackSound, NothingLeft, TypeOK, can_output, Role
<1> QED BY <1>1, <1>2, <1>3, <1>4, <1>5

LEMMA ReserveIInv ==
  ASSUME IInv, NEW c \in Calls, Reserve(c)
  PROVE  IInv'
<1> USE DEF IInv, Reserve, Goto, payloads, reading, history
<1>a. c \notin Outstanding \cup Done /\ c \in Calls
  BY DEF Queued
<1>1. CASE Full
  <2>0. Outstanding' = Outstanding /\ Done' = Done /\ Current' = Current
    BY <1>1, SameQueue
  <2>1. TypeOK'
    BY <1>1, <2>0, InQueue DEF TypeOK, PCs, HasNext, Current
  <2>2. Queued'
    <3>1. pc'[c] = "dropped" /\ \A d \in Calls \ {c} : pc'[d] = pc[d]
      BY <1>1 DEF TypeOK
    <3>2. \A d \in Calls :
            d \in Outstanding' \cup Done' <=> pc'[d] \in {"stack", "lbr", "fill", "submitted"}
      BY <1>a, <2>0, <3>1 DEF Queued
    <3>3. \A d \in Done' : pc'[d] = "submitted" /\ d \notin Outstanding'
      BY <1>a, <2>0, <3>1, InQueue DEF Queued
    <3> QED BY <1>1, <2>0, <3>2, <3>3 DEF Queued
  <2>3. Branches'
    BY <1>1, <2>0 DEF Branches, TypeOK, AtHand, HasLbr, can_output, Role
  <2>4. Ids' /\ Kept' /\ Released'
    BY <1>1, <2>0 DEF Ids, Kept, Released, TypeOK, AtHand
  <2>5. LbrSound' /\ StackSound' /\ NothingLeft'
    BY <1>1, <2>0 DEF LbrSound, StackSound, NothingLeft, TypeOK, can_output, Role
  <2> QED BY <2>1, <2>2, <2>3, <2>4, <2>5
<1>2. CASE ~Full
  <2>0. /\ ring' = Append(ring, c) /\ pc' = [pc EXCEPT ![c] = "stack"]
        /\ Outstanding' = Outstanding \cup {c} /\ Done' = Done
        /\ handled < Len(ring) => Current' = Current
    BY <1>2, Enqueue
  <2>a. rpc # "read" => Current' = Current /\ Current \in Outstanding /\ Current \in Calls
    BY <2>0, InQueue
  <2>b. sid[c] = -1 /\ lbrs[c] = None
    BY <1>a DEF Ids, Branches
  <2>1. TypeOK'
    <3>1. Len(ring') = Len(ring) + 1 /\ \A n \in 1..Len(ring) : ring'[n] = ring[n]
      BY <2>0 DEF TypeOK
    <3>2. \A n \in 1..Len(ring) : ring[n] # c
      <4> SUFFICES ASSUME NEW n \in 1..Len(ring) PROVE ring[n] \in Outstanding \cup Done
        BY <1>a
      <4> QED BY DEF TypeOK, Outstanding, Done
    <3>3. ring'[Len(ring) + 1] = c
      BY <2>0 DEF TypeOK
    <3>4. \A m, n \in DOMAIN ring' : ring'[m] = ring'[n] => m = n
      <4>1. DOMAIN ring' = 1..(Len(ring) + 1) /\ DOMAIN ring = 1..Len(ring) /\ Len(ring) \in Nat
        BY <2>0 DEF TypeOK
      <4>2. \A n \in 1..(Len(ring) + 1) : n \in 1..Len(ring) \/ n = Len(ring) + 1
        BY <4>1
      <4> QED BY <3>1, <3>2, <3>3, <4>1, <4>2 DEF TypeOK
    <3>5. rpc' # "read" => HasNext'
      BY <2>0, <2>a, <3>1, InQueue, <1>a DEF TypeOK, HasNext, Current
    <3>6. ring' \in Seq(Calls) /\ handled \in 0..Len(ring') /\ Len(ring') - handled <= Slots
      BY <1>2, <2>0, <3>1, PayloadAssumption DEF TypeOK, Full
    <3>7. pc' \in [Calls -> PCs]
      BY <2>0 DEF TypeOK, PCs
    <3> QED BY <3>4, <3>5, <3>6, <3>7 DEF TypeOK
  <2>2. Queued'
    BY <2>0, <1>a DEF Queued, TypeOK
  <2>3. Branches'
    BY <2>0, <2>a, <2>b, <1>a DEF Branches, TypeOK, AtHand, HasLbr, can_output, Role
  <2>4. Ids' /\ Kept' /\ Released'
    BY <2>0, <2>a, <2>b, <1>a DEF Ids, Kept, Released, TypeOK, AtHand
  <2>5. LbrSound' /\ StackSound' /\ NothingLeft'
    BY <2>0, <2>b DEF LbrSound, StackSound, NothingLeft, TypeOK, can_output, Role
  <2> QED BY <2>1, <2>2, <2>3, <2>4, <2>5
<1> QED BY <1>1, <1>2

LEMMA GetStackIInv ==
  ASSUME IInv, NEW c \in Calls, GetStack(c)
  PROVE  IInv'
<1> DEFINE id == Bucket[conf.stack[c]]
<1> USE DEF IInv, GetStack, Goto, records, reading
<1>0. Outstanding' = Outstanding /\ Done' = Done /\ Current' = Current
  BY SameQueue
<1>a. /\ conf.stack \in [Calls -> Stacks] /\ id \in Nat /\ id \in DOMAIN buckets
      /\ id # -1 /\ conf.stack[c] \in Stacks /\ conf.stack[c] # None
  BY PayloadAssumption DEF Queued, TypeOK
<1>b. /\ c \in Outstanding /\ c \notin Done /\ sid[c] = -1 /\ (rpc # "read" => c # Current)
      /\ pc'[c] = "lbr" /\ \A d \in Calls \ {c} : pc'[d] = pc[d]
  BY InQueue DEF Queued, Ids, TypeOK
<1>c. CASE HasStack(c) /\ buckets[id] \in {None, conf.stack[c]}
  <2>0. /\ sid' = [sid EXCEPT ![c] = id] /\ buckets' = [buckets EXCEPT ![id] = conf.stack[c]]
        /\ sid'[c] = id /\ \A d \in Calls \ {c} : sid'[d] = sid[d]
        /\ buckets'[id] = conf.stack[c] /\ \A b \in DOMAIN buckets : b # id => buckets'[b] = buckets[b]
        /\ conf.stacks /\ DOMAIN buckets' = DOMAIN buckets
    BY <1>c, <1>a DEF TypeOK, HasStack
  <2>1. /\ shared \subseteq shared' /\ shared' \subseteq Calls
        /\ \A d \in Outstanding \ {c} : sid[d] = id => d \in shared' /\ c \in shared'
    BY <1>c, InQueue DEF TypeOK
  <2>2. TypeOK'
    <3>1. sid' \in [Calls -> Nat \cup {-1}]
      BY <2>0, <1>a DEF TypeOK
    <3>2. buckets' \in [{Bucket[x] : x \in Stacks} -> Stacks \cup {None}]
      BY <2>0, <1>a DEF TypeOK
    <3>3. pc' \in [Calls -> PCs]
      BY DEF TypeOK, PCs
    <3>4. rpc' # "read" => HasNext'
      BY <1>0, <1>b, InQueue DEF TypeOK, HasNext, Current
    <3> QED BY <3>1, <3>2, <3>3, <3>4, <2>0, <2>1 DEF TypeOK
  <2>3. Queued'
    BY <1>0, <1>b DEF Queued, TypeOK
  <2>4. Branches'
    BY <1>0, <1>b DEF Branches, TypeOK, AtHand, HasLbr, can_output, Role
  <2>5. Ids'
    BY <1>0, <1>b, <2>0, <2>1, InQueue DEF Ids
  <2>6. Kept'
    <3>1. ASSUME NEW d \in Outstanding, sid'[d] # -1, d \notin shared'
          PROVE  /\ ~AtHand(d) \/ rpc = "lookup" => buckets'[sid'[d]] = conf.stack[d]
                 /\ AtHand(d) /\ rpc = "copied" => held = conf.stack[d]
                 /\ AtHand(d) /\ rpc \in {"delete", "output"} => fnStack = conf.stack[d]
      <4>1. CASE d = c
        BY <4>1, <1>b, <2>0 DEF AtHand
      <4>2. CASE d # c
        <5>1. d \in Calls /\ sid'[d] = sid[d] /\ sid[d] # id /\ d \notin shared
          BY <3>1, <4>2, <2>0, <2>1, InQueue
        <5>2. sid[d] \in DOMAIN buckets
          BY <5>1, <3>1, PayloadAssumption DEF Ids, TypeOK, Queued
        <5> QED BY <3>1, <5>1, <5>2, <2>0 DEF Kept
      <4> QED BY <4>1, <4>2
    <3>2. rpc # "read" => Current \in Calls /\ Current # c
      BY <1>b, InQueue
    <3> QED BY <3>1, <3>2, <1>0, <2>0 DEF Kept, AtHand
  <2>7. Released'
    <3> SUFFICES ASSUME rpc = "output", sid[Current] # -1, buckets'[sid[Current]] # None
                 PROVE  sid[Current] \in left \/ \E d \in Outstanding \ {Current} : sid'[d] = sid[Current]
      BY <1>0, <1>b, <2>0, InQueue DEF Released
    <3>1. Current \in Calls /\ Current # c
      BY <1>b, InQueue
    <3>2. CASE sid[Current] = id
      BY <3>1, <3>2, <1>b, <2>0
    <3>3. CASE sid[Current] # id
      <4>1. sid[Current] \in DOMAIN buckets
        BY <3>1, PayloadAssumption DEF Ids, TypeOK, Queued
      <4>2. sid[Current] \in left \/ \E d \in Outstanding \ {Current} : sid[d] = sid[Current]
        BY <3>3, <4>1, <2>0 DEF Released
      <4> QED BY <4>2, <3>1, <1>b, <2>0, InQueue
    <3> QED BY <3>2, <3>3
  <2>8. LbrSound' /\ StackSound'
    BY <1>0, <1>b, <2>0, <2>1, InQueue DEF LbrSound, StackSound, can_output, Role
  <2>9. NothingLeft'
    <3> SUFFICES ASSUME NEW b \in DOMAIN buckets, buckets'[b] # None
                 PROVE  b \in left \/ \E d \in Outstanding : sid'[d] = b
      BY <1>0, <2>0 DEF NothingLeft
    <3>1. CASE b = id
      BY <3>1, <1>b, <2>0
    <3>2. CASE b # id
      <4>1. b \in left \/ \E d \in Outstanding : sid[d] = b
        BY <3>2, <2>0 DEF NothingLeft
      <4>2. \A d \in Outstanding : sid[d] = b => sid'[d] = b
        BY <1>a, <1>b, <2>0, <3>2, InQueue, PayloadAssumption DEF TypeOK
      <4> QED BY <4>1, <4>2
    <3> QED BY <3>1, <3>2
  <2> QED BY <2>2, <2>3, <2>4, <2>5, <2>6, <2>7, <2>8, <2>9
<1>d. CASE ~(HasStack(c) /\ buckets[id] \in {None, conf.stack[c]})
  <2> USE <1>d
  <2>0. UNCHANGED <<sid, buckets, shared>>
    OBVIOUS
  <2>1. TypeOK'
    BY <1>0, <2>0, InQueue DEF TypeOK, PCs, HasNext, Current
  <2>2. Queued'
    BY <1>0, <1>b DEF Queued, TypeOK
  <2>3. Branches'
    BY <1>0, <1>b DEF Branches, TypeOK, AtHand, HasLbr, can_output, Role
  <2>4. Ids' /\ Kept' /\ Released'
    BY <1>0, <1>b, <2>0 DEF Ids, Kept, Released, AtHand
  <2>5. LbrSound' /\ StackSound' /\ NothingLeft'
    BY <1>0, <2>0 DEF LbrSound, StackSound, NothingLeft, can_output, Role
  <2> QED BY <2>1, <2>2, <2>3, <2>4, <2>5
<1> QED BY <1>c, <1>d

LEMMA SaveLbrIInv ==
  ASSUME IInv, NEW c \in Calls, SaveLbr(c)
  PROVE  IInv'
<1> USE DEF IInv, SaveLbr, Goto, records, reading, history
<1>0. Outstanding' = Outstanding /\ Done' = Done /\ Current' = Current
  BY SameQueue
<1>b. /\ c \in Outstanding /\ c \notin Done /\ (rpc # "read" => c # Current) /\ ~AtHand(c)
      /\ pc'[c] = "fill" /\ \A d \in Calls \ {c} : pc'[d] = pc[d] /\ lbrs'[d] = lbrs[d]
      /\ lbrs'[c] = IF HasLbr(c) THEN buff[conf.cpu[c]] ELSE lbrs[c]
  BY InQueue DEF Queued, TypeOK, HasLbr, AtHand
<1>c. lbrs[c] = None /\ (HasLbr(c) /\ c \notin clobbered => buff[conf.cpu[c]] = c)
  BY DEF Branches
<1>d. \A d \in Calls : HasLbr(d)' = HasLbr(d) /\ AtHand(d)' = AtHand(d)
  BY <1>0 DEF HasLbr, AtHand, can_output, Role
<1>1. TypeOK'
  <2>1. buff[conf.cpu[c]] \in Calls \cup {None}
    BY PayloadAssumption DEF TypeOK, Queued
  <2>2. lbrs' \in [Calls -> Calls \cup {None}]
    BY <2>1 DEF TypeOK
  <2>3. pc' \in [Calls -> PCs] /\ (rpc' # "read" => HasNext')
    BY <1>0, <1>b, InQueue DEF TypeOK, PCs, HasNext, Current
  <2> QED BY <2>2, <2>3 DEF TypeOK
<1>2. Queued'
  BY <1>0, <1>b DEF Queued, TypeOK
<1>3. Branches'
  BY <1>0, <1>b, <1>c, <1>d, InQueue DEF Branches, AtHand
<1>4. Ids' /\ Kept' /\ Released'
  BY <1>0, <1>b DEF Ids, Kept, Released, AtHand
<1>5. LbrSound' /\ StackSound' /\ NothingLeft'
  BY <1>0, <1>b DEF LbrSound, StackSound, NothingLeft, can_output, Role
<1> QED BY <1>1, <1>2, <1>3, <1>4, <1>5

LEMMA FillIInv ==
  ASSUME IInv, NEW c \in Calls, Fill(c)
  PROVE  IInv'
<1> USE DEF IInv, Fill, Goto, payloads, reading, history
<1>0. Outstanding' = Outstanding /\ Done' = Done /\ Current' = Current
  BY SameQueue
<1>b. /\ c \in Outstanding /\ c \notin Done
      /\ pc'[c] = "submitted" /\ \A d \in Calls \ {c} : pc'[d] = pc[d]
      /\ DOMAIN slot' = DOMAIN slot
  BY DEF Queued, TypeOK
<1>1. TypeOK'
  <2>1. pc' \in [Calls -> PCs] /\ (rpc' # "read" => HasNext')
    BY <1>0, <1>b, InQueue DEF TypeOK, PCs, HasNext, Current
  <2> QED BY <1>b, <2>1 DEF TypeOK
<1>2. Queued'
  BY <1>0, <1>b DEF Queued, TypeOK
<1>3. Branches'
  BY <1>0, <1>b DEF Branches, TypeOK, AtHand, HasLbr, can_output, Role
<1>4. Ids' /\ Kept' /\ Released'
  BY <1>0, <1>b DEF Ids, Kept, Released, AtHand
<1>5. LbrSound' /\ StackSound' /\ NothingLeft'
  BY <1>0, <1>b DEF LbrSound, StackSound, NothingLeft, can_output, Role
<1> QED BY <1>1, <1>2, <1>3, <1>4, <1>5

-----------------------------------------------------------------------------
(* The reader.                                                             *)

\* What a step of the reader at a record knows of it.
LEMMA AtRecord ==
  ASSUME IInv, handled < Len(ring), pc[Current] = "submitted"
  PROVE  /\ Current \in Calls /\ Current \in Outstanding /\ Current \notin Done
         /\ sid[Current] # -1 => sid[Current] \in DOMAIN buckets /\ sid[Current] \in Nat
         /\ conf.stack[Current] \in Stacks /\ conf.stack[Current] # None
<1> USE DEF IInv
<1>1. conf.stack \in [Calls -> Stacks] /\ Current \in Calls
  BY InQueue, PayloadAssumption DEF Queued
<1>2. sid[Current] # -1 => sid[Current] \in DOMAIN buckets /\ sid[Current] \in Nat
  BY <1>1, PayloadAssumption DEF Ids, TypeOK
<1> QED BY <1>1, <1>2, InQueue, PayloadAssumption

LEMMA SkipIInv ==
  ASSUME IInv, Skip
  PROVE  IInv'
<1> USE DEF IInv, Skip, Handled, program, payloads
<1>0. /\ Outstanding' = Outstanding \ {Current} /\ Done' = Done \cup {Current}
      /\ rpc = "read" /\ rpc' = "read" /\ handled < Len(ring) /\ pc[Current] = "submitted"
      /\ ~can_output(Current)
  BY Dequeue DEF HasNext, can_output, Current
<1>a. /\ Current \in Calls /\ Current \in Outstanding /\ Current \notin Done
      /\ sid[Current] # -1 => sid[Current] \in DOMAIN buckets
  BY <1>0, AtRecord
<1>b. printed[Current] = Nothing
  BY <1>a DEF Queued
<1>c. lbrs[Current] = None
  BY <1>0, <1>a DEF Branches, HasLbr
<1>1. TypeOK'
  <2>1. handled' \in 0..Len(ring) /\ Len(ring) - handled' <= Slots
    BY <1>0, PayloadAssumption DEF TypeOK
  <2> QED BY <1>0, <1>a, <2>1 DEF TypeOK
<1>2. Queued'
  BY <1>0, <1>a DEF Queued
<1>3. Branches'
  BY <1>0, <1>a, <1>c DEF Branches, AtHand, HasLbr, can_output, Role
<1>4. Ids' /\ Kept' /\ Released'
  BY <1>0, <1>a DEF Ids, Kept, Released, AtHand
<1>5. LbrSound' /\ StackSound'
  <2>1. printed[Current].stack = None
    BY <1>b DEF Nothing
  <2>2. LbrSound'
    BY <1>0, <1>b DEF LbrSound, Branches, can_output, Role
  <2>3. StackSound'
    BY <1>0, <1>b, <2>1 DEF StackSound
  <2> QED BY <2>2, <2>3
<1>6. NothingLeft'
  <2>1. \A d \in Calls : lbrs[d] # None => d \in Outstanding'
    BY <1>0, <1>c DEF NothingLeft
  <2>2. left \subseteq left' /\ (sid[Current] # -1 => sid[Current] \in left')
    OBVIOUS
  <2>3. \A b \in DOMAIN buckets :
          buckets[b] # None => b \in left' \/ \E d \in Outstanding' : sid[d] = b
    <3> SUFFICES ASSUME NEW b \in DOMAIN buckets, buckets[b] # None, b \notin left'
                 PROVE  \E d \in Outstanding' : sid[d] = b
      OBVIOUS
    <3>1. PICK d \in Outstanding : sid[d] = b
      BY <2>2 DEF NothingLeft
    <3>2. b # -1
      BY PayloadAssumption DEF TypeOK
    <3> QED BY <3>1, <3>2, <2>2, <1>0
  <2> QED BY <2>1, <2>3 DEF NothingLeft
<1> QED BY <1>1, <1>2, <1>3, <1>4, <1>5, <1>6

LEMMA ReadIInv ==
  ASSUME IInv, Read
  PROVE  IInv'
<1> USE DEF IInv, Read, TakeLbr, program, records, history
<1>0. /\ Outstanding' = Outstanding /\ Done' = Done /\ Current' = Current
      /\ handled < Len(ring) /\ pc[Current] = "submitted"
  BY SameQueue DEF HasNext, Current
<1>a. /\ Current \in Calls /\ Current \in Outstanding /\ Current \notin Done
      /\ rpc = "read" /\ rpc' \in {"lookup", "output"} /\ conf.lbr \in BOOLEAN
  BY <1>0, AtRecord, PayloadAssumption DEF Queued
<1>b. /\ lbrs'[Current] = None /\ \A d \in Calls \ {Current} : lbrs'[d] = lbrs[d]
      /\ Current \notin clobbered => lbrStack' = IF HasLbr(Current) THEN Current ELSE None
      /\ lbrs' \in [Calls -> Calls \cup {None}] /\ lbrStack' \in Calls \cup {None}
  BY <1>0, <1>a DEF TypeOK, Branches, HasLbr, AtHand
<1>c. rpc' = "lookup" <=> sid[Current] # -1
  BY <1>a DEF TypeOK, Ids
<1>1. TypeOK'
  BY <1>0, <1>a, <1>b DEF TypeOK, HasNext
<1>2. Queued'
  BY <1>0 DEF Queued
<1>3. Branches'
  BY <1>0, <1>a, <1>b DEF Branches, AtHand, HasLbr, can_output, Role
<1>4. Ids' /\ Kept' /\ Released'
  BY <1>0, <1>a, <1>c DEF Ids, Kept, Released, AtHand
<1>5. LbrSound' /\ StackSound' /\ NothingLeft'
  BY <1>0, <1>b DEF LbrSound, StackSound, NothingLeft, can_output, Role
<1> QED BY <1>1, <1>2, <1>3, <1>4, <1>5

LEMMA LookupStackIInv ==
  ASSUME IInv, LookupStack
  PROVE  IInv'
<1> USE DEF IInv, LookupStack, program, records, history
<1>0. /\ Outstanding' = Outstanding /\ Done' = Done /\ Current' = Current
      /\ handled < Len(ring) /\ pc[Current] = "submitted"
  BY SameQueue, InQueue
<1>a. /\ Current \in Calls /\ Current \in Outstanding /\ Current \notin Done
      /\ sid[Current] # -1 /\ sid[Current] \in DOMAIN buckets
      /\ conf.stack[Current] # None
  BY <1>0, AtRecord DEF Kept
<1>b. /\ rpc' \in {"output", "copied"} /\ (rpc' = "output" => buckets[sid[Current]] = None)
      /\ held' = buckets[sid[Current]] /\ held' \in Stacks \cup {None}
      /\ buckets'[sid[Current]] = None /\ \A b \in DOMAIN buckets : b # sid[Current] => buckets'[b] = buckets[b]
      /\ buckets' \in [{Bucket[s] : s \in Stacks} -> Stacks \cup {None}]
  BY <1>a DEF TypeOK
<1>1. TypeOK'
  BY <1>0, <1>b, InQueue DEF TypeOK, HasNext
<1>2. Queued'
  BY <1>0 DEF Queued
<1>3. Branches'
  BY <1>0, <1>b DEF Branches, AtHand, HasLbr, can_output, Role
<1>4. Ids'
  BY <1>0 DEF Ids
<1>5. Kept'
  <2>1. ASSUME NEW d \in Outstanding, sid[d] # -1, d \notin shared, d # Current
        PROVE  buckets'[sid[d]] = conf.stack[d]
    <3>1. d \in Calls /\ sid[d] # sid[Current]
      BY <2>1, <1>a, InQueue DEF Ids
    <3>2. sid[d] \in DOMAIN buckets
      <4>1. sid[d] = Bucket[conf.stack[d]]
        BY <3>1, <2>1 DEF Ids
      <4>2. conf.stack[d] \in Stacks
        BY <3>1, PayloadAssumption DEF Queued
      <4>3. DOMAIN buckets = {Bucket[s] : s \in Stacks}
        BY DEF TypeOK
      <4> QED BY <4>1, <4>2, <4>3
    <3> QED BY <2>1, <3>1, <3>2, <1>b DEF Kept, AtHand
  <2>2. Current \notin shared => held' = conf.stack[Current] /\ rpc' = "copied"
    BY <1>a, <1>b DEF Kept, AtHand
  <2> QED BY <1>0, <1>a, <1>b, <2>1, <2>2 DEF Kept, AtHand
<1>6. Released'
  BY <1>0, <1>b DEF Released
<1>7. LbrSound' /\ StackSound' /\ NothingLeft'
  BY <1>0, <1>a, <1>b DEF LbrSound, StackSound, NothingLeft, can_output, Role
<1> QED BY <1>1, <1>2, <1>3, <1>4, <1>5, <1>6, <1>7

LEMMA LookupDoneIInv ==
  ASSUME IInv, LookupDone
  PROVE  IInv'
<1> USE DEF IInv, LookupDone, program, records, history
<1>0. /\ Outstanding' = Outstanding /\ Done' = Done /\ Current' = Current
      /\ handled < Len(ring) /\ pc[Current] = "submitted" /\ rpc' = "delete"
  BY SameQueue, InQueue
<1>a. /\ Current \in Calls /\ Current \in Outstanding /\ Current \notin Done
      /\ sid[Current] # -1 /\ sid[Current] \in DOMAIN buckets
  BY <1>0, AtRecord DEF Kept
<1>b. /\ buckets'[sid[Current]] = held /\ fnStack' = held /\ held' = None
      /\ \A b \in DOMAIN buckets : b # sid[Current] => buckets'[b] = buckets[b]
      /\ buckets' \in [{Bucket[s] : s \in Stacks} -> Stacks \cup {None}]
  BY <1>a DEF TypeOK
<1>1. TypeOK'
  BY <1>0, <1>b, InQueue DEF TypeOK, HasNext
<1>2. Queued'
  BY <1>0 DEF Queued
<1>3. Branches'
  BY <1>0 DEF Branches, AtHand, HasLbr, can_output, Role
<1>4. Ids'
  BY <1>0 DEF Ids
<1>5. Kept'
  <2>1. ASSUME NEW d \in Outstanding, sid[d] # -1, d \notin shared, d # Current
        PROVE  buckets'[sid[d]] = conf.stack[d]
    <3>1. d \in Calls /\ sid[d] # sid[Current]
      BY <2>1, <1>a, InQueue DEF Ids
    <3>2. sid[d] \in DOMAIN buckets
      <4>1. sid[d] = Bucket[conf.stack[d]]
        BY <3>1, <2>1 DEF Ids
      <4>2. conf.stack[d] \in Stacks
        BY <3>1, PayloadAssumption DEF Queued
      <4>3. DOMAIN buckets = {Bucket[s] : s \in Stacks}
        BY DEF TypeOK
      <4> QED BY <4>1, <4>2, <4>3
    <3> QED BY <2>1, <3>1, <3>2, <1>b DEF Kept, AtHand
  <2>2. Current \notin shared => fnStack' = conf.stack[Current]
    BY <1>a, <1>b DEF Kept, AtHand
  <2> QED BY <1>0, <1>a, <2>1, <2>2 DEF Kept, AtHand
<1>6. Released'
  BY <1>0 DEF Released
<1>7. LbrSound' /\ StackSound' /\ NothingLeft'
  BY <1>0, <1>a, <1>b DEF LbrSound, StackSound, NothingLeft, can_output, Role
<1> QED BY <1>1, <1>2, <1>3, <1>4, <1>5, <1>6, <1>7

LEMMA DeleteStackIInv ==
  ASSUME IInv, DeleteStack
  PROVE  IInv'
<1> USE DEF IInv, DeleteStack, program, records, history
<1>0. /\ Outstanding' = Outstanding /\ Done' = Done /\ Current' = Current
      /\ handled < Len(ring) /\ pc[Current] = "submitted" /\ rpc' = "output"
  BY SameQueue, InQueue
<1>a. /\ Current \in Calls /\ Current \in Outstanding /\ Current \notin Done
      /\ sid[Current] # -1 /\ sid[Current] \in DOMAIN buckets
  BY <1>0, AtRecord DEF Kept
<1>b. /\ buckets'[sid[Current]] = None
      /\ \A b \in DOMAIN buckets : b # sid[Current] => buckets'[b] = buckets[b]
      /\ buckets' \in [{Bucket[s] : s \in Stacks} -> Stacks \cup {None}]
  BY <1>a DEF TypeOK
<1>1. TypeOK'
  BY <1>0, <1>b, InQueue DEF TypeOK, HasNext
<1>2. Queued'
  BY <1>0 DEF Queued
<1>3. Branches'
  BY <1>0 DEF Branches, AtHand, HasLbr, can_output, Role
<1>4. Ids'
  BY <1>0 DEF Ids
<1>5. Kept'
  <2>1. ASSUME NEW d \in Outstanding, sid[d] # -1, d \notin shared, d # Current
        PROVE  buckets'[sid[d]] = conf.stack[d]
    <3>1. d \in Calls /\ sid[d] # sid[Current]
      BY <2>1, <1>a, InQueue DEF Ids
    <3>2. sid[d] \in DOMAIN buckets
      <4>1. sid[d] = Bucket[conf.stack[d]]
        BY <3>1, <2>1 DEF Ids
      <4>2. conf.stack[d] \in Stacks
        BY <3>1, PayloadAssumption DEF Queued
      <4>3. DOMAIN buckets = {Bucket[s] : s \in Stacks}
        BY DEF TypeOK
      <4> QED BY <4>1, <4>2, <4>3
    <3> QED BY <2>1, <3>1, <3>2, <1>b DEF Kept, AtHand
  <2>2. Current \notin shared => fnStack = conf.stack[Current]
    BY <1>a DEF Kept, AtHand
  <2> QED BY <1>0, <1>a, <2>1, <2>2 DEF Kept, AtHand
<1>6. Released'
  BY <1>0, <1>b DEF Released
<1>7. LbrSound' /\ StackSound' /\ NothingLeft'
  BY <1>0, <1>a, <1>b DEF LbrSound, StackSound, NothingLeft, can_output, Role
<1> QED BY <1>1, <1>2, <1>3, <1>4, <1>5, <1>6, <1>7

LEMMA OutputIInv ==
  ASSUME IInv, Output
  PROVE  IInv'
<1> USE DEF IInv, Output, Handled, Reset, program, payloads, history
<1>0. /\ Outstanding' = Outstanding \ {Current} /\ Done' = Done \cup {Current}
      /\ rpc = "output" /\ rpc' = "read" /\ handled < Len(ring) /\ pc[Current] = "submitted"
  BY Dequeue, InQueue
<1>a. /\ Current \in Calls /\ Current \in Outstanding /\ Current \notin Done
      /\ sid[Current] # -1 => sid[Current] \in DOMAIN buckets
      /\ conf.stack[Current] # None
  BY <1>0, AtRecord
<1>b. /\ DOMAIN printed' = Calls /\ \A d \in Calls \ {Current} : printed'[d] = printed[d]
      /\ printed'[Current].lbr = lbrStack /\ printed'[Current].stack = fnStack
  BY <1>a DEF Queued, Line
<1>c. lbrs[Current] = None /\ (Current \notin clobbered => lbrStack = IF HasLbr(Current) THEN Current ELSE None)
  BY <1>0, <1>a DEF Branches, AtHand
<1>1. TypeOK'
  <2>1. handled' \in 0..Len(ring) /\ Len(ring) - handled' <= Slots
    BY <1>0, PayloadAssumption DEF TypeOK
  <2> QED BY <1>0, <1>a, <2>1 DEF TypeOK
<1>2. Queued'
  BY <1>0, <1>a, <1>b DEF Queued
<1>3. Branches'
  BY <1>0, <1>a, <1>c DEF Branches, AtHand, HasLbr, can_output, Role
<1>4. Ids' /\ Kept' /\ Released'
  BY <1>0, <1>a DEF Ids, Kept, Released, AtHand
<1>5. LbrSound'
  BY <1>0, <1>b, <1>c, InQueue DEF LbrSound, Branches, HasLbr, can_output, Role
<1>6. StackSound'
  <2>1. /\ sid[Current] # -1 /\ Current \notin shared => fnStack = conf.stack[Current]
        /\ sid[Current] = -1 => fnStack = None
    BY <1>0, <1>a DEF Kept, AtHand
  <2> QED BY <1>0, <1>a, <1>b, <2>1, InQueue DEF StackSound, TypeOK
<1>7. NothingLeft'
  BY <1>0, <1>a, <1>c DEF NothingLeft, Released
<1> QED BY <1>1, <1>2, <1>3, <1>4, <1>5, <1>6, <1>7

-----------------------------------------------------------------------------

LEMMA StepIInv == IInv /\ [Next]_vars => IInv'
<1> SUFFICES ASSUME IInv, [Next]_vars PROVE IInv'
  OBVIOUS
<1>1. ASSUME NEW c \in Calls, Program(c) PROVE IInv'
  BY <1>1, MissIInv, SnapshotIInv, FilterIInv, ReserveIInv, GetStackIInv, SaveLbrIInv, FillIInv
     DEF Program
<1>2. CASE Reader
  BY <1>2, SkipIInv, ReadIInv, LookupStackIInv, LookupDoneIInv, DeleteStackIInv, OutputIInv DEF Reader
<1>3. CASE UNCHANGED vars
  <2> USE <1>3 DEF vars, program, payloads, records, reading, history, IInv
  <2>0. Outstanding' = Outstanding /\ Done' = Done /\ Current' = Current
    BY SameQueue
  <2>1. TypeOK' /\ Queued'
    BY <2>0 DEF TypeOK, HasNext, Current, Queued
  <2>2. Branches'
    BY <2>0 DEF Branches, AtHand, HasLbr, can_output, Role
  <2>3. Ids' /\ Kept' /\ Released'
    BY <2>0 DEF Ids, Kept, Released, AtHand
  <2>4. LbrSound' /\ StackSound' /\ NothingLeft'
    BY <2>0 DEF LbrSound, StackSound, NothingLeft, can_output, Role
  <2> QED BY <2>1, <2>2, <2>3, <2>4
<1> QED BY <1>1, <1>2, <1>3 DEF Next

THEOREM InvariantHolds == Spec => []IInv
BY InitIInv, StepIInv, PTL DEF Spec

\* Programs, maps, ring buffer and reader are in the states they are declared
\* to have, and no record is handled before it is submitted.
THEOREM TypeCorrect == Spec => []TypeOK
BY InvariantHolds, PTL DEF IInv

\* The branches printed with an event are those of its call, unless a program
\* that interrupted it took a snapshot on its CPU (bpfsnoop.c:82, output_lbr_data
\* in bpfsnoop_lbr.h).
THEOREM LbrHolds == Spec => []LbrSound
BY InvariantHolds, PTL DEF IInv

\* The stack printed with an event is its own, and it is there, unless another
\* event had the same id (bpfsnoop_func_stack.go:38).
THEOREM StackHolds == Spec => []StackSound
BY InvariantHolds, PTL DEF IInv

\* No branches and no stack are left behind, but for the stacks of exits the
\* reader skips (bpfsnoop.go:137).
THEOREM NothingLeftHolds == Spec => []NothingLeft
BY InvariantHolds, PTL DEF IInv

-----------------------------------------------------------------------------
(* The tuple of a packet.                                                  *)

\* A record's place in the ring buffer holds the fields of a tuple.
IsTuple(pkt) == DOMAIN pkt = {"addrs", "ports", "protocol", "tcp_flags"}

\* The headers of the two layers are at different places.
LEMMA Places ==
  ASSUME NEW p, IsPacket(p), p # <<>>
  PROVE  /\ Len(p) \in {1, 2} /\ 1 \in DOMAIN p /\ DOMAIN p = 1..Len(p)
         /\ \A i \in DOMAIN p : p[i] \in Layer
         /\ IpAt(p, 1) = LinkLen(p[1].link) /\ FrameAt(p, 1) = 0
         /\ Len(p) = 2 => /\ FrameAt(p, 2) = LinkLen(p[1].link) + 4 * p[1].ihl + 16
                          /\ IpAt(p, 2) = LinkLen(p[1].link) + 4 * p[1].ihl + 16 + LinkLen(p[2].link)
         /\ \A i \in DOMAIN p : LinkLen(p[i].link) \in {0, 14, 18} /\ p[i].ihl \in 5..15
<1>1. p \in Seq(Layer) /\ Len(p) <= 2
  BY DEF IsPacket
<1>2. DOMAIN p = 1..Len(p) /\ (\A i \in DOMAIN p : p[i] \in Layer) /\ Len(p) \in Nat /\ Len(p) # 0
  BY <1>1
<1>3. Len(p) \in {1, 2} /\ 1 \in DOMAIN p /\ (Len(p) = 2 => 2 \in DOMAIN p)
  BY <1>1, <1>2
<1>4. \A l \in Layer : LinkLen(l.link) \in {0, 14, 18} /\ l.ihl \in 5..15
  BY DEF LinkLen, Layer
<1>5. \A i \in DOMAIN p : LinkLen(p[i].link) \in {0, 14, 18} /\ p[i].ihl \in 5..15
  BY <1>2, <1>4
<1>6. IpAt(p, 1) = LinkLen(p[1].link) /\ FrameAt(p, 1) = 0
  BY <1>3, <1>5 DEF IpAt, FrameAt
<1>7. Len(p) = 2 => /\ FrameAt(p, 2) = LinkLen(p[1].link) + 4 * p[1].ihl + 16
                    /\ IpAt(p, 2) = LinkLen(p[1].link) + 4 * p[1].ihl + 16 + LinkLen(p[2].link)
  BY <1>3, <1>5 DEF IpAt, FrameAt
<1> QED BY <1>2, <1>3, <1>5, <1>6, <1>7

LEMMA OneLayer ==
  ASSUME NEW p, IsPacket(p), p # <<>>, NEW i \in DOMAIN p
  PROVE  /\ IpLayers(p, IpAt(p, i)) = {i}
         /\ p[i].link # "none" => EthLayers(p, FrameAt(p, i)) = {i}
<1>1. \A j \in DOMAIN p : j \in {1, 2} /\ (j = 2 => Len(p) = 2)
  BY Places
<1>a. Len(p) = 2 => IpAt(p, 2) > IpAt(p, 1) /\ FrameAt(p, 2) > FrameAt(p, 1)
  <2> SUFFICES ASSUME Len(p) = 2 PROVE IpAt(p, 2) > IpAt(p, 1) /\ FrameAt(p, 2) > FrameAt(p, 1)
    OBVIOUS
  <2>1. 1 \in DOMAIN p /\ 2 \in DOMAIN p
    BY Places
  <2>2. LinkLen(p[1].link) \in {0, 14, 18} /\ LinkLen(p[2].link) \in {0, 14, 18} /\ p[1].ihl \in 5..15
    BY <2>1, Places
  <2>3. /\ FrameAt(p, 2) = LinkLen(p[1].link) + 4 * p[1].ihl + 16
        /\ IpAt(p, 2) = LinkLen(p[1].link) + 4 * p[1].ihl + 16 + LinkLen(p[2].link)
        /\ IpAt(p, 1) = LinkLen(p[1].link) /\ FrameAt(p, 1) = 0
    BY Places
  <2>4. \A a, b \in {0, 14, 18} : \A h \in 5..15 : a + 4 * h + 16 > 0 /\ a + 4 * h + 16 + b > a
    OBVIOUS
  <2> QED BY <2>2, <2>3, <2>4
<1>b. Len(p) = 2 => IpAt(p, 2) # IpAt(p, 1) /\ FrameAt(p, 2) # FrameAt(p, 1)
  <2>1. Len(p) = 2 => IpAt(p, 1) \in Int /\ FrameAt(p, 1) \in Int
    BY Places
  <2> QED BY <1>a, <2>1
<1>2. \A j \in DOMAIN p : IpAt(p, j) = IpAt(p, i) => j = i
  BY <1>1, <1>b
<1>3. \A j \in DOMAIN p : FrameAt(p, j) = FrameAt(p, i) => j = i
  BY <1>1, <1>b
<1> QED BY <1>2, <1>3 DEF IpLayers, EthLayers

LEMMA SkipOver ==
  ASSUME NEW at, NEW S
  PROVE  /\ S # {} => skip_to(S, at, FALSE) = {at}
         /\ skip_to({FALSE}, at, TRUE) = {at} /\ skip_to({TRUE}, at, TRUE) = {at + 50}
BY DEF skip_to, VXLAN_HDR_LEN

\* Where a regular packet's headers are looked for.
LEMMA SkipTo ==
  ASSUME NEW p, NEW ptr \in {"skb", "xdp"}, NEW skip \in BOOLEAN, IsPacket(p), Regular(p, ptr, skip)
  PROVE  LET i == Meant(p, skip)
         IN /\ p # <<>> /\ i \in DOMAIN p /\ p[i].ver = 4 /\ p[i].ihl < 8 
            /\ p[i].proto \in {"tcp", "udp", "icmp", "vxlan"}
            /\ ptr = "skb" \/ p[1].link = "none" =>
                 skip_tunnel_iph(p, IpAt(p, 1), skip) = {IpAt(p, i)}
            /\ ptr = "xdp" \/ p[1].link # "none" =>
                 skip_tunnel(p, 0, skip) = {FrameAt(p, i)} /\ p[i].link # "none"
<1> DEFINE i == Meant(p, skip)
<1>0. p # <<>> /\ i \in DOMAIN p /\ (~skip => skip = FALSE) /\ (i = 2 <=> skip /\ Len(p) = 2) /\ i \in {1, 2}
      /\ (Len(p) = 2 => 2 \in DOMAIN p /\ p[1].ver = 4 /\ p[1].proto = "vxlan" /\ p[2].link # "none")
      /\ (Len(p) # 2 => Len(p) = 1 /\ p[1].proto # "vxlan")
      /\ p[1] \in Layer /\ p[i] \in Layer
  BY Places DEF Regular, Meant, IsPacket
<1>1. p[i].ver = 4 /\ p[i].ihl < 8 /\ p[i].proto \in {"tcp", "udp", "icmp", "vxlan"}
  BY <1>0 DEF Regular, Layer
<1>2. IpLayers(p, IpAt(p, 1)) = {1} /\ (p[1].link # "none" => EthLayers(p, 0) = {1})
  BY <1>0, Places, OneLayer
<1>3. p[1].ver = 4 => /\ Len(p) = 1 => is_ip_vxlan_pkt(p, IpAt(p, 1)) = {FALSE}
                      /\ Len(p) = 2 => is_ip_vxlan_pkt(p, IpAt(p, 1)) = {TRUE}
  <2>1. p[1].ver = 4 => {j \in IpLayers(p, IpAt(p, 1)) : p[j].ver = 4} = {1}
    BY <1>2
  <2>2. p[1].ver = 4 => is_ip_vxlan_pkt(p, IpAt(p, 1)) = {p[1].proto = "vxlan"}
    BY <2>1, <1>0 DEF is_ip_vxlan_pkt
  <2>3. (Len(p) = 1 => (p[1].proto = "vxlan") = FALSE) /\ (Len(p) = 2 => (p[1].proto = "vxlan") = TRUE)
    BY <1>0
  <2>4. \A v : v = FALSE => {v} = {FALSE}
    OBVIOUS
  <2>5. \A v : v = TRUE => {v} = {TRUE}
    OBVIOUS
  <2> QED BY <2>2, <2>3, <2>4, <2>5
<1>4. is_ip_vxlan_pkt(p, IpAt(p, 1)) # {}
  BY <1>0 DEF is_ip_vxlan_pkt
<1>5. /\ p[1].link # "none" => is_vxlan_pkt(p, 0) # {}
      /\ p[1].link # "none" /\ Len(p) = 1 => is_vxlan_pkt(p, 0) = {FALSE}
      /\ p[1].link = "eth" /\ Len(p) = 2 => is_vxlan_pkt(p, 0) = {TRUE}
  <2> DEFINE v == p[1].link = "eth" /\ p[1].ver = 4 /\ p[1].proto = "vxlan"
  <2>1. p[1].link # "none" => is_vxlan_pkt(p, 0) = {v}
    BY <1>0, <1>2 DEF is_vxlan_pkt
  <2>2. (Len(p) = 1 => v = FALSE) /\ (p[1].link = "eth" /\ Len(p) = 2 => v = TRUE)
    BY <1>0
  <2> HIDE DEF v
  <2>3. v = FALSE => {v} = {FALSE}
    OBVIOUS
  <2>4. v = TRUE => {v} = {TRUE}
    OBVIOUS
  <2> QED BY <2>1, <2>2, <2>3, <2>4
<1>6. ptr = "skb" \/ p[1].link = "none" => skip_tunnel_iph(p, IpAt(p, 1), skip) = {IpAt(p, i)}
  <2>1. CASE ~skip
    <3>1. skip_tunnel_iph(p, IpAt(p, 1), skip) = {IpAt(p, 1)}
      BY <2>1, <1>4, SkipOver DEF skip_tunnel_iph
    <3> QED BY <3>1, <2>1, <1>0
  <2>2. CASE skip /\ Len(p) = 1
    <3>1. skip_tunnel_iph(p, IpAt(p, 1), skip) = {IpAt(p, 1)}
      BY <2>2, <1>0, <1>1, <1>3, SkipOver DEF skip_tunnel_iph
    <3> QED BY <3>1, <2>2, <1>0
  <2>3. CASE skip /\ Len(p) = 2
    <3>1. skip_tunnel_iph(p, IpAt(p, 1), skip) = {IpAt(p, 1) + 50}
      BY <2>3, <1>0, <1>1, <1>3, SkipOver DEF skip_tunnel_iph
    <3>2. ptr = "skb" \/ p[1].link = "none" => p[1].ihl = 5 /\ p[2].link = "eth"
      BY <2>3, <1>0 DEF Regular
    <3>3. p[2].link = "eth" => LinkLen(p[2].link) = 14
      BY DEF LinkLen
    <3>4. p[1].ihl = 5 /\ p[2].link = "eth" => IpAt(p, 2) = IpAt(p, 1) + 50
      BY <3>3, <2>3, <1>0, Places
    <3> QED BY <3>1, <3>2, <3>4, <2>3, <1>0
  <2> QED BY <2>1, <2>2, <2>3, <1>0
<1>7. ptr = "xdp" \/ p[1].link # "none" => skip_tunnel(p, 0, skip) = {FrameAt(p, i)} /\ p[i].link # "none"
  <2>0. ptr = "xdp" \/ p[1].link # "none" => p[1].link # "none" /\ p[i].link # "none"
    BY <1>0 DEF Regular
  <2>a. FrameAt(p, 1) = 0
    BY <1>0, Places
  <2>1. CASE ~skip
    <3>1. p[1].link # "none" => skip_tunnel(p, 0, skip) = {0}
      BY <2>1, <1>5, SkipOver DEF skip_tunnel
    <3> QED BY <3>1, <2>0, <2>1, <2>a, <1>0
  <2>2. CASE skip /\ Len(p) = 1
    <3>1. p[1].link # "none" => skip_tunnel(p, 0, skip) = {0}
      BY <2>2, <1>0, <1>5, SkipOver DEF skip_tunnel
    <3> QED BY <3>1, <2>0, <2>2, <2>a, <1>0
  <2>3. CASE skip /\ Len(p) = 2
    <3>1. ptr = "xdp" \/ p[1].link # "none" => p[1].ihl = 5 /\ p[1].link = "eth"
      BY <2>3, <1>0 DEF Regular
    <3>a. p[1].link = "eth" => skip_tunnel(p, 0, skip) = {0 + 50}
      BY <2>3, <1>0, <1>5, SkipOver DEF skip_tunnel
    <3>2. p[1].link = "eth" => skip_tunnel(p, 0, skip) = {50}
      BY <3>a
    <3>3. p[1].link = "eth" => LinkLen(p[1].link) = 14
      BY DEF LinkLen
    <3>4. p[1].ihl = 5 /\ p[1].link = "eth" => FrameAt(p, 2) = 50
      BY <3>3, <2>3, <1>0, Places
    <3> QED BY <3>1, <3>2, <3>4, <2>0, <2>3, <1>0
  <2> QED BY <2>1, <2>2, <2>3, <1>0
<1> QED BY <1>0, <1>1, <1>6, <1>7

\* The filter looks at the layer that is meant.
LEMMA FilterExact ==
  ASSUME NEW p, NEW ptr \in {"skb", "xdp"}, NEW skip \in BOOLEAN, IsPacket(p), Regular(p, ptr, skip)
  PROVE  FilterLayers(p, ptr, skip) = {Meant(p, skip)}
<1> DEFINE i == Meant(p, skip)
<1>1. /\ p # <<>> /\ i \in DOMAIN p
      /\ ptr = "skb" \/ p[1].link = "none" => skip_tunnel_iph(p, IpAt(p, 1), skip) = {IpAt(p, i)}
      /\ ptr = "xdp" \/ p[1].link # "none" => skip_tunnel(p, 0, skip) = {FrameAt(p, i)} /\ p[i].link # "none"
  BY SkipTo
<1> HIDE DEF i
<1>2. /\ IpLayers(p, IpAt(p, i)) = {i}
      /\ ptr = "xdp" \/ p[1].link # "none" => EthLayers(p, FrameAt(p, i)) = {i}
  BY <1>1, OneLayer
<1>3. FilterLayers(p, ptr, skip) = {i}
  BY <1>1, <1>2 DEF FilterLayers
<1> QED BY <1>3 DEF i

\* What is stored of a regular packet is its tuple, whatever was there before.
LEMMA TupleExact ==
  ASSUME NEW p, NEW ptr \in {"skb", "xdp"}, NEW skip \in BOOLEAN, IsPacket(p), Regular(p, ptr, skip),
         NEW old, IsTuple(old), NEW own, NEW pkt \in output_pkt(ptr, p, skip, old, own)
  PROVE  repr(pkt) = TupleLine(p, skip, own)
<1> DEFINE i == Meant(p, skip)
<1>1. /\ p # <<>> /\ i \in DOMAIN p /\ p[i].ver = 4 /\ p[i].ihl < 8 
      /\ p[i].proto \in {"tcp", "udp", "icmp", "vxlan"}
      /\ ptr = "skb" \/ p[1].link = "none" => skip_tunnel_iph(p, IpAt(p, 1), skip) = {IpAt(p, i)}
      /\ ptr = "xdp" \/ p[1].link # "none" => skip_tunnel(p, 0, skip) = {FrameAt(p, i)} /\ p[i].link # "none"
  BY SkipTo
<1> HIDE DEF i
<1>2. /\ IpLayers(p, IpAt(p, i)) = {i}
      /\ ptr = "xdp" \/ p[1].link # "none" => EthLayers(p, FrameAt(p, i)) = {i}
  BY <1>1, OneLayer
<1>3. pkt \in output_tuple(p, IpAt(p, i), old, own)
  <2>1. CASE ptr = "skb"
    BY <2>1, <1>1 DEF output_pkt, output_skb
  <2>2. CASE ptr = "xdp"
    <3>1. pkt \in output_xdp_data(p, FrameAt(p, i), old, own)
      BY <2>2, <1>1 DEF output_pkt, output_xdp_buff
    <3> QED BY <3>1, <2>2, <1>1, <1>2 DEF output_xdp_data
  <2> QED BY <2>1, <2>2
<1>4. /\ p[i].proto = "tcp" => pkt = [addrs |-> <<own, i>>, ports |-> <<own, i>>, protocol |-> "tcp",
                                      tcp_flags |-> <<own, i>>]
      /\ p[i].proto \in {"udp", "vxlan"} =>
           pkt = [old EXCEPT !.addrs = <<own, i>>, !.ports = <<own, i>>, !.protocol = "udp"]
      /\ p[i].proto = "icmp" => pkt = [old EXCEPT !.addrs = <<own, i>>, !.protocol = "icmp"]
  BY <1>1, <1>2, <1>3 DEF output_tuple, Transport
<1>a. <<own, i>> # Zero
  BY DEF Zero
<1>b. p[i].proto \in {"udp", "vxlan"} =>
        pkt.addrs = <<own, i>> /\ pkt.ports = <<own, i>> /\ pkt.protocol = "udp"
  BY <1>4 DEF IsTuple
<1>c. p[i].proto = "icmp" => pkt.addrs = <<own, i>> /\ pkt.protocol = "icmp"
  BY <1>4 DEF IsTuple
<1>6. CASE p[i].proto = "tcp"
  BY <1>4, <1>6 DEF repr, TupleLine, Zero, i
<1>7. CASE p[i].proto \in {"udp", "vxlan"}
  <2>1. repr(pkt) = <<"udp", <<own, i>>, <<own, i>>>>
    BY <1>a, <1>b, <1>7 DEF repr
  <2>2. TupleLine(p, skip, own) = <<"udp", <<own, i>>, <<own, i>>>>
    BY <1>7 DEF TupleLine, i
  <2> QED BY <2>1, <2>2
<1>8. CASE p[i].proto = "icmp"
  <2>1. repr(pkt) = <<"icmp", <<own, i>>>>
    BY <1>a, <1>c, <1>8 DEF repr
  <2>2. TupleLine(p, skip, own) = <<"icmp", <<own, i>>>>
    BY <1>8 DEF TupleLine, i
  <2> QED BY <2>1, <2>2
<1> QED BY <1>1, <1>6, <1>7, <1>8

-----------------------------------------------------------------------------
(* The records: what the program of a call has stored stays in its place   *)
(* until the reader has printed it.                                        *)

RegularCall(c) == Regular(conf.packet[c], conf.ptr, conf.skip)
Args(c) == genOutputFuncArgs(conf.params, Ret(c))
Attrs == output_arg(conf.attrs, OldWord)

RecordOf(r, c) ==
  /\ r.args = Args(c) /\ r.attrs = Attrs
  /\ RegularCall(c) => repr(r.pkt) = TupleLine(conf.packet[c], conf.skip, c)

LineOf(line, c) ==
  /\ line.args = outputFnArgs(conf.params, Ret(c), Args(c))
  /\ line.attrs = outputFuncArgAttrs(conf.attrs, Attrs)
  /\ RegularCall(c) => line.tuple = TupleLine(conf.packet[c], conf.skip, c)

\* A record waits in a place of its own, and what is printed is read from it.
InPlace ==
  /\ \A s \in DOMAIN slot : IsTuple(slot[s].pkt)
  /\ \A n \in DOMAIN ring :
       n > handled /\ pc[ring[n]] = "submitted" => RecordOf(slot[SlotOf(n)], ring[n])
  /\ \A c \in Done : printed[c] # Nothing => LineOf(printed[c], c)

RInv == IInv /\ InPlace

LEMMA Apart ==
  ASSUME NEW S \in Nat \ {0}, NEW a \in Nat, NEW b \in Nat, a < b, b - a < S
  PROVE  a % S # b % S
<1> DEFINE qa == a \div S qb == b \div S
<1>1. /\ qa \in Int /\ qb \in Int /\ a = S * qa + (a % S) /\ b = S * qb + (b % S)
      /\ a % S \in Int /\ b % S \in Int
  OBVIOUS
<1> SUFFICES ASSUME a % S = b % S PROVE FALSE
  OBVIOUS
<1> HIDE DEF qa, qb
<1>2. S * qb - S * qa = b - a
  BY <1>1
<1> DEFINE d == qb - qa
<1>3. d \in Int /\ S * d = b - a
  BY <1>1, <1>2
<1> HIDE DEF d
<1>4. CASE d <= 0
  <2>1. S * d <= 0
    BY <1>3, <1>4
  <2> QED BY <2>1, <1>3
<1>5. CASE d >= 1
  <2>1. S * d >= S
    BY <1>3, <1>5
  <2> QED BY <2>1, <1>3
<1> QED BY <1>3, <1>4, <1>5

\* Records that wait at the same time are in different places.
LEMMA OwnSlot ==
  ASSUME TypeOK, NEW n \in DOMAIN ring
  PROVE  /\ SlotOf(n) \in DOMAIN slot
         /\ n > handled => \A m \in DOMAIN ring : m > handled /\ m # n => SlotOf(m) # SlotOf(n)
         /\ Position(ring[n]) = n
<1>1. /\ n \in Nat \ {0} /\ n <= Len(ring) /\ Len(ring) \in Nat /\ handled \in Nat /\ Len(ring) - handled <= Slots
      /\ DOMAIN ring = 1..Len(ring) /\ Slots \in Nat \ {0} /\ DOMAIN slot = 0..(Slots - 1)
  BY PayloadAssumption DEF TypeOK
<1>2. SlotOf(n) \in DOMAIN slot
  BY <1>1 DEF SlotOf
<1>3. ASSUME n > handled, NEW m \in DOMAIN ring, m > handled, m # n
      PROVE  SlotOf(m) # SlotOf(n)
  <2>1. m \in Nat \ {0} /\ m <= Len(ring)
    BY <1>1
  <2>2. m - 1 \in Nat /\ n - 1 \in Nat
    BY <1>1, <2>1
  <2>3. CASE m < n
    <3>1. m - 1 < n - 1 /\ (n - 1) - (m - 1) < Slots
      BY <1>1, <1>3, <2>1, <2>3
    <3> QED BY <3>1, <1>1, <2>2, Apart DEF SlotOf
  <2>4. CASE n < m
    <3>1. n - 1 < m - 1 /\ (m - 1) - (n - 1) < Slots
      BY <1>1, <1>3, <2>1, <2>4
    <3> QED BY <3>1, <1>1, <2>2, Apart DEF SlotOf
  <2> QED BY <1>1, <1>3, <2>1, <2>3, <2>4
<1>4. Position(ring[n]) = n
  BY DEF Position, TypeOK
<1> QED BY <1>2, <1>3, <1>4

LEMMA StillTuple ==
  ASSUME NEW ptr, NEW p, NEW skip, NEW old, IsTuple(old), NEW own,
         NEW pkt \in output_pkt(ptr, p, skip, old, own)
  PROVE  IsTuple(pkt)
<1>1. \A at : \A x \in output_tuple(p, at, old, own) : IsTuple(x)
  <2> SUFFICES ASSUME NEW at, NEW x \in output_tuple(p, at, old, own) PROVE IsTuple(x)
    OBVIOUS
  <2>1. IsTuple(OtherPkt)
    BY DEF IsTuple, OtherPkt
  <2>2. CASE p = <<>> \/ IpLayers(p, at) = {}
    BY <2>1, <2>2 DEF output_tuple
  <2>3. CASE ~(p = <<>> \/ IpLayers(p, at) = {})
    <3>1. PICK i \in IpLayers(p, at) :
            x = IF p[i].ver # 4 THEN old
                ELSE CASE p[i].proto = "tcp" ->
                            [addrs |-> <<own, i>>, ports |-> Transport(p, i, own), protocol |-> "tcp",
                             tcp_flags |-> Transport(p, i, own)]
                       [] p[i].proto \in {"udp", "vxlan"} ->
                            [old EXCEPT !.addrs = <<own, i>>, !.ports = Transport(p, i, own), !.protocol = "udp"]
                       [] p[i].proto = "icmp" -> [old EXCEPT !.addrs = <<own, i>>, !.protocol = "icmp"]
                       [] OTHER -> old
      BY <2>3 DEF output_tuple
    <3>2. CASE p[i].ver # 4
      BY <3>1, <3>2
    <3>3. CASE p[i].ver = 4 /\ p[i].proto = "tcp"
      <4>1. x = [addrs |-> <<own, i>>, ports |-> Transport(p, i, own), protocol |-> "tcp",
                 tcp_flags |-> Transport(p, i, own)]
        BY <3>1, <3>3
      <4> QED BY <4>1 DEF IsTuple
    <3>4. CASE p[i].ver = 4 /\ p[i].proto \in {"udp", "vxlan"}
      <4>1. x = [old EXCEPT !.addrs = <<own, i>>, !.ports = Transport(p, i, own), !.protocol = "udp"]
        BY <3>1, <3>4
      <4> QED BY <4>1 DEF IsTuple
    <3>5. CASE p[i].ver = 4 /\ p[i].proto = "icmp"
      <4>1. x = [old EXCEPT !.addrs = <<own, i>>, !.protocol = "icmp"]
        BY <3>1, <3>5
      <4> QED BY <4>1 DEF IsTuple
    <3>6. CASE p[i].ver = 4 /\ p[i].proto \notin {"tcp", "udp", "vxlan", "icmp"}
      BY <3>1, <3>6
    <3> QED BY <3>2, <3>3, <3>4, <3>5, <3>6
  <2> QED BY <2>2, <2>3
<1>2. CASE ptr = "skb"
  BY <1>1, <1>2 DEF output_pkt, output_skb
<1>3. CASE ptr # "skb"
  <2>1. PICK at \in skip_tunnel(p, 0, skip) : pkt \in output_xdp_data(p, at, old, own)
    BY <1>3 DEF output_pkt, output_xdp_buff
  <2>2. CASE p = <<>> \/ EthLayers(p, at) = {}
    BY <2>1, <2>2 DEF output_xdp_data, IsTuple, OtherPkt
  <2>3. CASE ~(p = <<>> \/ EthLayers(p, at) = {})
    <3>1. PICK i \in EthLayers(p, at) :
            pkt \in IF p[i].ver = 4 THEN output_tuple(p, IpAt(p, i), old, own) ELSE {old}
      BY <2>1, <2>3 DEF output_xdp_data
    <3> QED BY <3>1, <1>1
  <2> QED BY <2>2, <2>3
<1> QED BY <1>2, <1>3

LEMMA InitRInv == Init => RInv
<1> SUFFICES ASSUME Init PROVE InPlace
  BY InitIInv DEF RInv
<1>1. \A s \in DOMAIN slot : IsTuple(slot[s].pkt)
  BY DEF Init, IsTuple, NoPkt
<1>2. Done = {} /\ DOMAIN ring = {}
  BY DEF Init, Done
<1> QED BY <1>1, <1>2 DEF InPlace

\* Steps that store and print nothing.
LEMMA SameRecords ==
  ASSUME RInv, conf' = conf, slot' = slot, printed' = printed, ring' = ring, handled' = handled,
         \A d \in Calls : pc'[d] = "submitted" => pc[d] = "submitted"
  PROVE  InPlace'
<1>1. \A n \in DOMAIN ring : ring[n] \in Calls
  BY DEF RInv, IInv, TypeOK
<1>2. Done' = Done
  BY SameQueue
<1>3. \A n \in DOMAIN ring : n > handled /\ pc'[ring[n]] = "submitted" => RecordOf(slot[SlotOf(n)], ring[n])
  BY <1>1 DEF RInv, InPlace
<1> QED BY <1>2, <1>3 DEF RInv, InPlace, RecordOf, LineOf, RegularCall, Args, Attrs, Ret, IsEntry, Role, SlotOf

LEMMA ReserveInPlace ==
  ASSUME RInv, NEW c \in Calls, Reserve(c)
  PROVE  InPlace'
<1> USE DEF Reserve, Goto, payloads, reading, history
<1>1. CASE Full
  <2>1. \A d \in Calls : pc'[d] = "submitted" => pc[d] = "submitted"
    BY <1>1 DEF RInv, IInv, TypeOK
  <2> QED BY <1>1, <2>1, SameRecords
<1>2. CASE ~Full
  <2>1. /\ ring' = Append(ring, c) /\ ring \in Seq(Calls) /\ pc'[c] = "stack"
        /\ \A d \in Calls \ {c} : pc'[d] = pc[d]
    BY <1>2 DEF RInv, IInv, TypeOK
  <2>2. Done' = Done /\ Done \subseteq Calls
    BY <2>1, Enqueue, InQueue DEF RInv, IInv
  <2>3. ASSUME NEW n \in DOMAIN ring', n > handled, pc'[ring'[n]] = "submitted"
        PROVE  n \in DOMAIN ring /\ ring'[n] = ring[n] /\ RecordOf(slot[SlotOf(n)], ring[n])
    <3>1. n \in DOMAIN ring /\ ring'[n] = ring[n]
      BY <2>1, <2>3
    <3>2. ring[n] \in Calls /\ pc[ring[n]] = "submitted"
      BY <2>1, <2>3, <3>1
    <3> QED BY <2>3, <3>1, <3>2 DEF RInv, InPlace
  <2> QED BY <2>2, <2>3 DEF RInv, InPlace, RecordOf, LineOf, RegularCall, Args, Attrs, Ret, IsEntry, Role, SlotOf
<1> QED BY <1>1, <1>2

LEMMA FillInPlace ==
  ASSUME RInv, NEW c \in Calls, Fill(c)
  PROVE  InPlace'
<1> USE DEF RInv, IInv
<1> DEFINE s == SlotOf(Position(c))
<1>1. PICK pkt \in output_pkt(conf.ptr, conf.packet[c], conf.skip, slot[s].pkt, c) :
        slot' = [slot EXCEPT ![s] = [pkt |-> pkt, args |-> Args(c), attrs |-> Attrs]]
  BY DEF Fill, Args, Attrs
<1>2. /\ pc'[c] = "submitted" /\ (\A d \in Calls \ {c} : pc'[d] = pc[d]) /\ pc[c] = "fill"
      /\ ring' = ring /\ handled' = handled /\ printed' = printed /\ conf' = conf
  BY DEF Fill, Goto, TypeOK, reading
<1>3. PICK n \in DOMAIN ring : ring[n] = c /\ n > handled
  <2>1. c \in Outstanding
    BY <1>2 DEF Queued
  <2> QED BY <2>1 DEF Outstanding, TypeOK
<1>4. Position(c) = n /\ s \in DOMAIN slot
  BY <1>3, OwnSlot
<1> HIDE DEF s
<1>5. IsPacket(conf.packet[c]) /\ conf.ptr \in {"skb", "xdp"} /\ conf.skip \in BOOLEAN
  BY PayloadAssumption DEF Queued
<1>6. IsTuple(slot[s].pkt) /\ IsTuple(pkt)
  BY <1>4, StillTuple DEF InPlace
<1>7. slot'[s] = [pkt |-> pkt, args |-> Args(c), attrs |-> Attrs] /\ DOMAIN slot' = DOMAIN slot
      /\ \A t \in DOMAIN slot : t # s => slot'[t] = slot[t]
  BY <1>1, <1>4
<1>8. RecordOf(slot'[s], c)
  <2>1. RegularCall(c) => repr(pkt) = TupleLine(conf.packet[c], conf.skip, c)
    BY <1>5, <1>6, TupleExact DEF RegularCall
  <2> QED BY <1>7, <2>1 DEF RecordOf
<1>9. \A m \in DOMAIN ring : m > handled /\ pc'[ring[m]] = "submitted" => RecordOf(slot'[SlotOf(m)], ring[m])
  <2> SUFFICES ASSUME NEW m \in DOMAIN ring, m > handled, pc'[ring[m]] = "submitted", m # n
               PROVE  RecordOf(slot'[SlotOf(m)], ring[m])
    BY <1>3, <1>4, <1>8 DEF s
  <2>1. ring[m] \in Calls /\ ring[m] # c
    BY <1>3 DEF TypeOK
  <2>2. SlotOf(m) # s /\ SlotOf(m) \in DOMAIN slot
    BY <1>3, <1>4, OwnSlot DEF s
  <2>3. RecordOf(slot[SlotOf(m)], ring[m])
    BY <1>2, <2>1 DEF InPlace
  <2> QED BY <1>7, <2>2, <2>3
<1>10. \A t \in DOMAIN slot' : IsTuple(slot'[t].pkt)
  BY <1>6, <1>7 DEF InPlace
<1>11. Done' = Done
  BY <1>2, SameQueue
<1> QED BY <1>2, <1>9, <1>10, <1>11 DEF InPlace, RecordOf, LineOf, RegularCall, Args, Attrs, Ret, IsEntry, Role, SlotOf

LEMMA SkipInPlace ==
  ASSUME RInv, Skip
  PROVE  InPlace'
<1> USE DEF RInv, IInv, Skip, Handled, program, payloads
<1>1. /\ Done' = Done \cup {Current} /\ printed' = printed /\ ring' = ring /\ slot' = slot /\ conf' = conf
      /\ pc' = pc /\ handled' = handled + 1 /\ handled \in Nat
  BY Dequeue DEF HasNext, TypeOK
<1>2. printed[Current] = Nothing
  <2>1. handled < Len(ring) /\ pc[Current] = "submitted"
    BY DEF HasNext, Current
  <2> QED BY <2>1, AtRecord DEF Queued
<1>3. \A n \in DOMAIN ring : n > handled' => n > handled
  BY <1>1 DEF TypeOK
<1> QED BY <1>1, <1>2, <1>3 DEF InPlace, RecordOf, LineOf, RegularCall, Args, Attrs, Ret, IsEntry, Role, SlotOf

LEMMA OutputInPlace ==
  ASSUME RInv, Output
  PROVE  InPlace'
<1> USE DEF RInv, IInv
<1>1. /\ handled < Len(ring) /\ pc[Current] = "submitted" /\ handled \in Nat /\ Current = ring[handled + 1]
      /\ handled' = handled + 1 /\ ring' = ring /\ slot' = slot /\ conf' = conf /\ pc' = pc
      /\ printed' = [printed EXCEPT ![Current] = Line]
  BY InQueue DEF Output, Handled, program, TypeOK, Current
<1>2. Done' = Done \cup {Current} /\ Current \in Calls
  BY <1>1, Dequeue, InQueue
<1>3. handled + 1 \in DOMAIN ring
  BY <1>1 DEF TypeOK
<1>4. RecordOf(slot[SlotOf(handled + 1)], Current)
  BY <1>1, <1>3 DEF InPlace
<1>5. LineOf(Line, Current)
  BY <1>4 DEF RecordOf, LineOf, Line
<1>6. \A c \in Done' : printed'[c] # Nothing => LineOf(printed'[c], c)
  BY <1>1, <1>2, <1>5 DEF InPlace, Queued
<1>7. \A n \in DOMAIN ring : n > handled' => n > handled
  BY <1>1 DEF TypeOK
<1> QED BY <1>1, <1>6, <1>7 DEF InPlace, RecordOf, LineOf, RegularCall, Args, Attrs, Ret, IsEntry, Role, SlotOf

LEMMA StepRInv == RInv /\ [Next]_vars => RInv'
<1> SUFFICES ASSUME RInv, [Next]_vars PROVE InPlace'
  BY StepIInv DEF RInv
<1>1. ASSUME NEW c \in Calls, Miss(c) \/ Snapshot(c) \/ Filter(c) \/ GetStack(c) \/ SaveLbr(c) PROVE InPlace'
  <2>1. \A d \in Calls : pc'[d] = "submitted" => pc[d] = "submitted"
    BY <1>1 DEF RInv, IInv, TypeOK, Miss, Snapshot, Filter, GetStack, SaveLbr, Goto
  <2> QED BY <1>1, <2>1, SameRecords
        DEF Miss, Snapshot, Filter, GetStack, SaveLbr, records, reading
<1>2. CASE Read \/ LookupStack \/ LookupDone \/ DeleteStack
  BY <1>2, SameRecords DEF Read, LookupStack, LookupDone, DeleteStack, program, records
<1>3. CASE UNCHANGED vars
  BY <1>3, SameRecords DEF vars, program, records, reading
<1> QED BY <1>1, <1>2, <1>3, ReserveInPlace, FillInPlace, SkipInPlace, OutputInPlace
      DEF Next, Program, Reader

\* The record of a call waits in a place of the ring buffer of its own, from
\* output_fn_args, output_pkt and output_arg (bpfsnoop.c) to its line.
THEOREM RecordsInPlace == Spec => []RInv
BY InitRInv, StepRInv, PTL DEF Spec

\* Of a packet whose headers are where the code looks for them, whatever was in
\* the record's memory before, the tuple of the layer the filter saw is printed
\* (output_tuple in bpfsnoop_pkt_output.h, outputPktTuple in bpfsnoop_pkt.go).
THEOREM TupleHolds == Spec => []TupleSound
<1>1. RInv => TupleSound
  <2> SUFFICES ASSUME RInv, NEW c \in Done, printed[c] # Nothing, RegularCall(c)
               PROVE  /\ printed[c].tuple = TupleLine(conf.packet[c], conf.skip, c)
                      /\ FilterLayers(conf.packet[c], conf.ptr, conf.skip) = {Meant(conf.packet[c], conf.skip)}
    BY DEF TupleSound, RegularCall
  <2>1. /\ IsPacket(conf.packet[c]) /\ conf.ptr \in {"skb", "xdp"} /\ conf.skip \in BOOLEAN
    BY InQueue, PayloadAssumption DEF RInv, IInv, Queued
  <2> QED BY <2>1, FilterExact DEF RInv, InPlace, LineOf, RegularCall
<1> QED BY <1>1, RecordsInPlace, PTL

-----------------------------------------------------------------------------
(* Induction on a set of numbers: the step of a set, not of an operator.   *)

LEMMA LeastNat ==
  ASSUME NEW S \in SUBSET Nat, S # {}
  PROVE  \E n \in S : \A m \in S : n <= m
<1> DEFINE R == OpToRel(<, Nat)
<1>1. IsWellFoundedOn(R, Nat)
  BY NatLessThanWellFounded
<1>2. R = {ss \in Nat \X Nat : ss[1] < ss[2]}
  BY DEF OpToRel
<1>3. \E x \in S : \A y \in S : <<y, x>> \notin R
  <2> HIDE DEF R
  <2> QED BY <1>1, WFMin
<1> HIDE DEF R
<1>4. PICK x \in S : \A y \in S : <<y, x>> \notin R
  BY <1>3
<1>5. ASSUME NEW m \in S PROVE x <= m
  <2>1. x \in Nat /\ m \in Nat /\ <<m, x>> \in Nat \X Nat
    OBVIOUS
  <2>2. ~(m < x)
    BY <1>2, <1>4, <2>1
  <2> QED BY <2>1, <2>2
<1> QED BY <1>5

LEMMA SetInduction ==
  ASSUME NEW S, 0 \in S, \A n \in Nat : n \in S => n + 1 \in S
  PROVE  Nat \subseteq S
<1> SUFFICES ASSUME Nat \ S # {} PROVE FALSE
  OBVIOUS
<1>1. PICK n \in Nat \ S : \A m \in Nat \ S : n <= m
  BY LeastNat
<1>2. n # 0 /\ n - 1 \in Nat /\ n - 1 \in S
  BY <1>1
<1>3. (n - 1) + 1 \in S
  BY <1>2
<1> QED BY <1>1, <1>3

-----------------------------------------------------------------------------
(* Sequences of sequences.                                                 *)

JoinStep(seqs, s, i) == IF i = 1 THEN seqs[i] ELSE s \o seqs[i]
Joining(w, seqs, n) == w = [i \in 1..n |-> JoinStep(seqs, w[i - 1], i)]

LEMMA JoiningAt ==
  ASSUME NEW w, NEW seqs, NEW n, Joining(w, seqs, n), NEW i \in 1..n
  PROVE  w[i] = JoinStep(seqs, w[i - 1], i)
<1>1. PICK M : M = [j \in 1..n |-> JoinStep(seqs, w[j - 1], j)]
  OBVIOUS
<1>2. w = M
  BY <1>1, Zenon DEF Joining
<1> QED BY <1>1, <1>2

LEMMA JoinsExist ==
  ASSUME NEW seqs, NEW n \in Nat
  PROVE  \E w : Joining(w, seqs, n)
<1> DEFINE S == {m \in Nat : \E w : Joining(w, seqs, m)}
<1>1. 0 \in S
  <2>1. PICK w : w = [i \in 1..0 |-> seqs[1]]
    OBVIOUS
  <2>2. \A i \in 1..0 : FALSE
    OBVIOUS
  <2>3. Joining(w, seqs, 0)
    BY <2>1, <2>2 DEF Joining
  <2> QED BY <2>3
<1>2. ASSUME NEW m \in Nat, m \in S PROVE m + 1 \in S
  <2>1. PICK w : Joining(w, seqs, m)
    BY <1>2
  <2>2. PICK v : v = [i \in 1..(m + 1) |-> IF i <= m THEN w[i] ELSE JoinStep(seqs, w[m], i)]
    OBVIOUS
  <2>3. \A i \in 1..(m + 1) : v[i] = JoinStep(seqs, v[i - 1], i)
    <3> TAKE i \in 1..(m + 1)
    <3>0. i = 1 => \A x, y : JoinStep(seqs, x, i) = JoinStep(seqs, y, i)
      BY DEF JoinStep
    <3>a. i # 1 => i - 1 \in 1..(m + 1) /\ i - 1 <= m /\ i - 1 \in 1..m
      OBVIOUS
    <3>b. i # 1 => v[i - 1] = w[i - 1]
      BY <3>a, <2>2
    <3>1. CASE i <= m
      <4>1. i \in 1..m
        BY <3>1
      <4>2. v[i] = w[i]
        BY <2>2, <3>1
      <4>3. w[i] = JoinStep(seqs, w[i - 1], i)
        BY <2>1, <4>1, JoiningAt
      <4> QED BY <4>2, <4>3, <3>0, <3>b
    <3>2. CASE i = m + 1
      <4>1. ~(i <= m) /\ i - 1 = m
        BY <3>2
      <4>2. v[i] = JoinStep(seqs, w[i - 1], i)
        BY <2>2, <4>1
      <4> QED BY <4>2, <3>0, <3>b
    <3> QED BY <3>1, <3>2
  <2>4. v = [i \in 1..(m + 1) |-> v[i]]
    BY <2>2
  <2>5. v = [i \in 1..(m + 1) |-> JoinStep(seqs, v[i - 1], i)]
    BY <2>3, <2>4
  <2>6. Joining(v, seqs, m + 1)
    BY <2>5 DEF Joining
  <2> QED BY <2>6
<1> HIDE DEF S
<1>3. Nat \subseteq S
  BY <1>1, <1>2, SetInduction
<1> QED BY <1>3 DEF S

LEMMA Joins ==
  ASSUME NEW seqs, NEW n \in Nat \ {0}, Len(seqs) = n
  PROVE  \E w : FlattenSeq(seqs) = w[n] /\ \A i \in 1..n : w[i] = JoinStep(seqs, w[i - 1], i)
<1> DEFINE L == CHOOSE g : g = [i \in 1..Len(seqs) |-> IF i = 1 THEN seqs[i] ELSE g[i - 1] \o seqs[i]]
<1>1. PICK w : w = [i \in 1..Len(seqs) |-> IF i = 1 THEN seqs[i] ELSE w[i - 1] \o seqs[i]]
  BY JoinsExist DEF Joining, JoinStep
<1>2. L = [i \in 1..Len(seqs) |-> IF i = 1 THEN seqs[i] ELSE L[i - 1] \o seqs[i]]
  BY <1>1
<1>3. FlattenSeq(seqs) = L[n]
  BY DEF FlattenSeq
<1> HIDE DEF L
<1>4. Joining(L, seqs, n)
  BY <1>2, Zenon DEF Joining, JoinStep
<1> QED BY <1>3, <1>4, JoiningAt

\* Where the parts of the joined sequence are: off[i] is the end of the part i.
IsJoin(seqs, off, joined) ==
  /\ off \in [0..Len(seqs) -> Nat] /\ off[0] = 0 /\ off[Len(seqs)] = Len(joined)
  /\ \A i \in 1..Len(seqs) :
       /\ off[i] = off[i - 1] + Len(seqs[i]) /\ off[i] <= Len(joined)
       /\ \A k \in 1..Len(seqs[i]) : joined[off[i - 1] + k] = seqs[i][k]
  /\ \A j \in 1..Len(joined) : \E i \in 1..Len(seqs) : \E k \in 1..Len(seqs[i]) : joined[j] = seqs[i][k]

JoinPart(w, seqs, V, m) ==
  /\ w[m] \in Seq(V)
  /\ m # 1 => /\ Len(w[m]) = Len(w[m - 1]) + Len(seqs[m])
              /\ \A k \in 1..Len(w[m - 1]) : w[m][k] = w[m - 1][k]
              /\ \A k \in 1..Len(seqs[m]) : w[m][Len(w[m - 1]) + k] = seqs[m][k]

LEMMA Joined ==
  ASSUME NEW V, NEW seqs \in Seq(Seq(V))
  PROVE  FlattenSeq(seqs) \in Seq(V) /\ \E off : IsJoin(seqs, off, FlattenSeq(seqs))
<1> DEFINE n == Len(seqs) F == FlattenSeq(seqs)
<1>0. n \in Nat /\ \A i \in 1..n : seqs[i] \in Seq(V) /\ Len(seqs[i]) \in Nat
  OBVIOUS
<1>1. CASE n = 0
  <2>1. F = <<>> /\ Len(F) = 0 /\ seqs = <<>>
    BY <1>1 DEF FlattenSeq
  <2>2. IsJoin(seqs, [i \in 0..0 |-> 0], F)
    BY <1>1, <2>1 DEF IsJoin
  <2> QED BY <2>1, <2>2
<1>2. CASE n # 0
  <2>a. PICK w : F = w[n] /\ \A i \in 1..n : w[i] = JoinStep(seqs, w[i - 1], i)
    BY <1>0, <1>2, Joins
  <2>b. 1 \in 1..n /\ \A i \in 2..n : i \in 1..n /\ i # 1
    BY <1>0, <1>2
  <2>1. F = w[n] /\ w[1] = seqs[1] /\ \A i \in 2..n : w[i] = w[i - 1] \o seqs[i]
    BY <2>a, <2>b DEF JoinStep
  <2> HIDE DEF n, F
  <2> DEFINE Part(m) == JoinPart(w, seqs, V, m)
             S == {m \in Nat : m + 1 <= n => Part(m + 1)}
  <2>2. 0 \in S
    <3>1. Part(1)
      BY <1>0, <1>2, <2>1, <2>b DEF JoinPart
    <3> QED BY <3>1
  <2>3. ASSUME NEW m \in Nat, m \in S PROVE m + 1 \in S
    <3> SUFFICES ASSUME (m + 1) + 1 <= n PROVE Part((m + 1) + 1)
      OBVIOUS
    <3> DEFINE a == w[m + 1] b == seqs[m + 2]
    <3>1. a \in Seq(V)
      <4>1. Part(m + 1)
        BY <1>0, <2>3
      <4> QED BY <4>1 DEF JoinPart
    <3>2. b \in Seq(V) /\ w[m + 2] = a \o b
      <4>1. m + 2 \in 2..n /\ m + 2 \in 1..n /\ (m + 2) - 1 = m + 1
        BY <1>0
      <4> QED BY <1>0, <2>1, <4>1
    <3> HIDE DEF a, b
    <3>3. /\ a \o b \in Seq(V) /\ Len(a \o b) = Len(a) + Len(b)
          /\ \A k \in 1..Len(a) : (a \o b)[k] = a[k]
          /\ \A k \in 1..Len(b) : (a \o b)[Len(a) + k] = b[k]
      BY <3>1, <3>2
    <3>4. (m + 1) + 1 = m + 2 /\ (m + 2) - 1 = m + 1
      OBVIOUS
    <3>5. Part(m + 2)
      BY <3>2, <3>3, <3>4 DEF a, b, JoinPart
    <3> QED BY <3>4, <3>5
  <2> HIDE DEF S
  <2>4. Nat \subseteq S
    BY <2>2, <2>3, SetInduction
  <2>5. \A m \in 1..n : Part(m)
    <3> TAKE m \in 1..n
    <3>1. m - 1 \in Nat /\ (m - 1) + 1 = m /\ m <= n
      BY <1>0
    <3>2. m - 1 \in S
      BY <2>4, <3>1
    <3> QED BY <3>1, <3>2 DEF S
  <2> DEFINE off == [i \in 0..n |-> IF i = 0 THEN 0 ELSE Len(w[i])]
  <2>6. off \in [0..n -> Nat] /\ off[0] = 0 /\ off[n] = Len(F)
    BY <1>0, <1>2, <2>1, <2>5 DEF JoinPart
  <2>7. \A i \in 1..n : off[i] = off[i - 1] + Len(seqs[i]) /\ Len(w[i]) = off[i] /\ w[i] \in Seq(V)
    <3> TAKE i \in 1..n
    <3>0. Part(i) /\ i \in 0..n /\ i - 1 \in 0..n /\ i # 0 /\ Len(seqs[i]) \in Nat
      BY <1>0, <2>5
    <3>1. off[i] = Len(w[i]) /\ w[i] \in Seq(V)
      BY <3>0 DEF JoinPart
    <3>2. CASE i = 1
      BY <3>0, <3>1, <3>2, <2>1
    <3>3. CASE i # 1
      <4>1. off[i - 1] = Len(w[i - 1])
        BY <3>0, <3>3
      <4> QED BY <3>0, <3>1, <3>3, <4>1 DEF JoinPart
    <3> QED BY <3>2, <3>3
  <2> HIDE DEF off
  \* What is in a part is in all that are longer.
  <2> DEFINE T == {m \in Nat : \A i \in 1..n : i + m <= n =>
                     /\ off[i] <= off[i + m]
                     /\ \A k \in 1..off[i] : w[i + m][k] = w[i][k]}
  <2>8. 0 \in T
    BY <2>6, <1>0
  <2>9. ASSUME NEW m \in Nat, m \in T PROVE m + 1 \in T
    <3> SUFFICES ASSUME NEW i \in 1..n, i + (m + 1) <= n
                 PROVE  /\ off[i] <= off[i + (m + 1)]
                        /\ \A k \in 1..off[i] : w[i + (m + 1)][k] = w[i][k]
      OBVIOUS
    <3>1. i + m \in 1..n /\ i + (m + 1) \in 1..n /\ (i + (m + 1)) - 1 = i + m /\ i + (m + 1) # 1 /\ i + m <= n
      BY <1>0
    <3>2. off[i] <= off[i + m] /\ \A k \in 1..off[i] : w[i + m][k] = w[i][k]
      BY <2>9, <3>1
    <3>3. off[i + (m + 1)] = off[i + m] + Len(seqs[i + (m + 1)])
      BY <2>7, <3>1
    <3>4. off[i] \in Nat /\ off[i + m] \in Nat /\ Len(seqs[i + (m + 1)]) \in Nat
      BY <1>0, <2>6, <3>1
    <3>5. \A k \in 1..off[i + m] : w[i + (m + 1)][k] = w[i + m][k]
      <4>1. Part(i + (m + 1)) /\ Len(w[i + m]) = off[i + m]
        BY <2>5, <2>7, <3>1
      <4> QED BY <3>1, <4>1 DEF JoinPart
    <3>6. \A k \in 1..off[i] : k \in 1..off[i + m]
      BY <3>2, <3>4
    <3>7. off[i] <= off[i + (m + 1)]
      BY <3>2, <3>3, <3>4
    <3> QED BY <3>2, <3>5, <3>6, <3>7
  <2> HIDE DEF T
  <2>10. Nat \subseteq T
    BY <2>8, <2>9, SetInduction
  <2>11. \A i \in 1..n : off[i] <= Len(F) /\ \A k \in 1..off[i] : F[k] = w[i][k]
    <3> TAKE i \in 1..n
    <3>1. n - i \in Nat /\ i + (n - i) = n
      BY <1>0
    <3>2. n - i \in T
      BY <2>10, <3>1
    <3> QED BY <3>1, <3>2, <2>1, <2>6 DEF T
  <2>12. ASSUME NEW i \in 1..n, NEW k \in 1..Len(seqs[i])
         PROVE  F[off[i - 1] + k] = seqs[i][k]
    <3>1. off[i - 1] \in Nat /\ Len(seqs[i]) \in Nat /\ off[i] = off[i - 1] + Len(seqs[i])
      BY <1>0, <2>6, <2>7
    <3>2. off[i - 1] + k \in 1..off[i]
      BY <3>1
    <3>3. w[i][off[i - 1] + k] = seqs[i][k]
      <4>1. CASE i = 1
        BY <2>1, <2>6, <4>1
      <4>2. CASE i # 1
        <5>1. i - 1 \in 1..n
          BY <4>2, <1>0
        <5> QED BY <4>2, <5>1, <2>5, <2>7 DEF JoinPart
      <4> QED BY <4>1, <4>2
    <3> QED BY <3>2, <3>3, <2>11
  <2> DEFINE U == {m \in Nat : m <= n => \A j \in 1..off[m] : \E i \in 1..n : \E k \in 1..Len(seqs[i]) : F[j] = seqs[i][k]}
  <2>13. 0 \in U
    BY <2>6
  <2>14. ASSUME NEW m \in Nat, m \in U PROVE m + 1 \in U
    <3> SUFFICES ASSUME m + 1 <= n, NEW j \in 1..off[m + 1]
                 PROVE  \E i \in 1..n : \E k \in 1..Len(seqs[i]) : F[j] = seqs[i][k]
      OBVIOUS
    <3>1. m + 1 \in 1..n /\ (m + 1) - 1 = m /\ m \in 0..n /\ m <= n
      BY <1>0
    <3>2. off[m + 1] = off[m] + Len(seqs[m + 1]) /\ off[m] \in Nat /\ Len(seqs[m + 1]) \in Nat
      BY <1>0, <2>6, <2>7, <3>1
    <3>3. CASE j <= off[m]
      <4>1. j \in 1..off[m]
        BY <3>2, <3>3
      <4> QED BY <2>14, <3>1, <4>1
    <3>4. CASE j > off[m]
      <4>1. j - off[m] \in 1..Len(seqs[m + 1]) /\ off[m] + (j - off[m]) = j
        BY <3>2, <3>4
      <4> QED BY <2>12, <3>1, <4>1
    <3> QED BY <3>2, <3>3, <3>4
  <2> HIDE DEF U
  <2>15. Nat \subseteq U
    BY <2>13, <2>14, SetInduction
  <2>16. \A j \in 1..Len(F) : \E i \in 1..n : \E k \in 1..Len(seqs[i]) : F[j] = seqs[i][k]
    <3>1. n \in U
      BY <2>15, <1>0
    <3>2. n <= n
      BY <1>0
    <3> QED BY <3>1, <3>2, <2>6 DEF U
  <2>17. F \in Seq(V)
    <3>1. n \in 1..n
      BY <1>0, <1>2
    <3> QED BY <2>1, <2>5, <3>1 DEF JoinPart
  <2>18. IsJoin(seqs, off, F)
    BY <2>6, <2>7, <2>11, <2>12, <2>16 DEF IsJoin, n
  <2> QED BY <2>17, <2>18 DEF F
<1> QED BY <1>1, <1>2

-----------------------------------------------------------------------------
(* What is read of a record is what was stored.                            *)

RegKinds == {"num", "part", "str", "numptr"}
Reg == [arg : Nat, kind : RegKinds]
Word == {<<a, k>> : a \in Nat, k \in {"num", "value", "high", "str", "attr"}}
          \cup {NoWord, OldWord, Null}

\* No struct before the parameter i.
NoStructBefore(params, i) == \A j \in 1..(i - 1) : params[j] # "struct"

LEMMA Flags ==
  ASSUME NEW params, params \in Seq(ParamKinds), NEW i \in DOMAIN params
  PROVE  /\ paramFlags(params, i) \in Seq(Reg)
         /\ \A m \in 1..Len(paramFlags(params, i)) : paramFlags(params, i)[m].arg = i
         /\ params[i] # "struct" => /\ Len(paramFlags(params, i)) = 1
                                    /\ paramFlags(params, i)[1].kind # "part"
         /\ params[i] = "struct" =>
              paramFlags(params, i) = <<[arg |-> i, kind |-> "num"], [arg |-> i, kind |-> "part"]>>
<1>1. i \in Nat
  OBVIOUS
<1>2. CASE params[i] = "struct"
  <2>1. paramFlags(params, i) = <<[arg |-> i, kind |-> "num"], [arg |-> i, kind |-> "part"]>>
    BY <1>2 DEF paramFlags
  <2>2. [arg |-> i, kind |-> "num"] \in Reg /\ [arg |-> i, kind |-> "part"] \in Reg
    BY <1>1 DEF Reg, RegKinds
  <2> QED BY <1>2, <2>1, <2>2
<1>3. CASE params[i] # "struct"
  <2>1. PICK kind \in RegKinds \ {"part"} : paramFlags(params, i) = <<[arg |-> i, kind |-> kind]>>
    <3> DEFINE isStr == params[i] = "charptr" /\ \A k \in 1..(i - 1) : params[k] # "charptr"
    <3>1. paramFlags(params, i) = CASE params[i] = "struct" -> <<[arg |-> i, kind |-> "num"], [arg |-> i, kind |-> "part"]>>
                                    [] isStr -> <<[arg |-> i, kind |-> "str"]>>
                                    [] params[i] = "numptr" -> <<[arg |-> i, kind |-> "numptr"]>>
                                    [] OTHER -> <<[arg |-> i, kind |-> "num"]>>
      BY DEF paramFlags
    <3>2. isStr => params[i] # "numptr"
      OBVIOUS
    <3> HIDE DEF isStr
    <3>3. CASE isStr
      <4>1. paramFlags(params, i) = <<[arg |-> i, kind |-> "str"]>>
        BY <1>3, <3>1, <3>2, <3>3
      <4> QED BY <4>1 DEF RegKinds
    <3>4. CASE params[i] = "numptr"
      <4>1. paramFlags(params, i) = <<[arg |-> i, kind |-> "numptr"]>>
        BY <1>3, <3>1, <3>2, <3>4
      <4> QED BY <4>1 DEF RegKinds
    <3>5. CASE ~isStr /\ params[i] # "numptr"
      <4>1. paramFlags(params, i) = <<[arg |-> i, kind |-> "num"]>>
        BY <1>3, <3>1, <3>5
      <4> QED BY <4>1 DEF RegKinds
    <3> QED BY <3>3, <3>4, <3>5
  <2>2. [arg |-> i, kind |-> kind] \in Reg
    BY <1>1 DEF Reg
  <2> QED BY <1>3, <2>1, <2>2
<1> QED BY <1>2, <1>3

LEMMA StoredWords ==
  ASSUME NEW kind \in RegKinds, NEW arg \in Nat
  PROVE  /\ Stored(kind, arg) \in Seq(Word) /\ Len(Stored(kind, arg)) \in Nat \ {0}
         /\ kind # "part" => Len(Stored(kind, arg)) = Consumed(kind)
         /\ kind = "num" => Stored(kind, arg) = <<<<arg, "num">>>>
         /\ kind = "part" => Stored(kind, arg) = <<<<arg, "high">>>>
<1>1. \A k \in {"num", "value", "high", "str"} : <<arg, k>> \in Word
  BY DEF Word
<1>2. CASE kind = "str"
  <2>1. Stored(kind, arg) = [k \in 1..StrWords |-> <<arg, "str">>]
    BY <1>2 DEF Stored, Times
  <2>2. StrWords \in Nat \ {0} /\ Consumed(kind) = StrWords
    BY <1>2, LayoutAssumption DEF Consumed
  <2>3. <<arg, "str">> \in Word
    BY <1>1
  <2> DEFINE x == <<arg, "str">>
  <2> HIDE DEF x
  <2>4. Stored(kind, arg) = [k \in 1..StrWords |-> x] /\ x \in Word
    BY <2>1, <2>3 DEF x
  <2>5. Stored(kind, arg) \in Seq(Word) /\ Len(Stored(kind, arg)) = StrWords
    BY <2>2, <2>4
  <2> QED BY <1>2, <2>2, <2>5
<1>3. CASE kind = "numptr"
  BY <1>1, <1>3 DEF Stored, Consumed
<1>4. CASE kind = "part"
  BY <1>1, <1>4 DEF Stored
<1>5. CASE kind = "num"
  BY <1>1, <1>5 DEF Stored, Consumed
<1> QED BY <1>2, <1>3, <1>4, <1>5 DEF RegKinds

LEMMA Regs ==
  ASSUME NEW params, params \in Seq(ParamKinds)
  PROVE  /\ getFuncParams(params) \in Seq(Reg)
         /\ \A i \in DOMAIN params :
              /\ NoStructBefore(params, i) =>
                   /\ i \in DOMAIN getFuncParams(params)
                   /\ getFuncParams(params)[i] = paramFlags(params, i)[1]
              /\ NoStructBefore(params, i) /\ params[i] = "struct" =>
                   /\ i + 1 \in DOMAIN getFuncParams(params)
                   /\ getFuncParams(params)[i + 1] = paramFlags(params, i)[2]
              /\ \E k \in DOMAIN getFuncParams(params) : getFuncParams(params)[k] = paramFlags(params, i)[1]
         /\ NoStructBefore(params, Len(params) + 1) => Len(getFuncParams(params)) = Len(params)
         /\ \A k \in DOMAIN getFuncParams(params) : \E i \in DOMAIN params :
              \E m \in 1..Len(paramFlags(params, i)) : getFuncParams(params)[k] = paramFlags(params, i)[m]
<1> DEFINE flags == [i \in DOMAIN params |-> paramFlags(params, i)]
           regs == getFuncParams(params)
           n == Len(params)
<1>0. n \in Nat /\ DOMAIN params = 1..n
  OBVIOUS
<1>1. /\ flags \in Seq(Seq(Reg)) /\ Len(flags) = n /\ \A i \in 1..n : flags[i] = paramFlags(params, i)
  BY <1>0, Flags
<1>2. regs = FlattenSeq(flags)
  BY DEF getFuncParams
<1> HIDE DEF flags, regs, n
<1>3. regs \in Seq(Reg)
  BY <1>1, <1>2, Joined
<1>4. PICK off : IsJoin(flags, off, regs)
  BY <1>1, <1>2, Joined
<1>5. /\ off \in [0..n -> Nat] /\ off[0] = 0 /\ off[n] = Len(regs) /\ Len(regs) \in Nat /\ DOMAIN regs = 1..Len(regs)
      /\ \A i \in 1..n : off[i] = off[i - 1] + Len(flags[i]) /\ off[i] <= Len(regs)
      /\ \A i \in 1..n : \A k \in 1..Len(flags[i]) : regs[off[i - 1] + k] = flags[i][k]
      /\ \A j \in 1..Len(regs) : \E i \in 1..n : \E k \in 1..Len(flags[i]) : regs[j] = flags[i][k]
  BY <1>1, <1>3, <1>4 DEF IsJoin
<1>6. \A i \in 1..n : /\ Len(flags[i]) \in {1, 2} /\ (params[i] # "struct" => Len(flags[i]) = 1)
                      /\ params[i] = "struct" => Len(flags[i]) = 2
  BY <1>0, <1>1, Flags
<1>7. \A i \in 0..n : NoStructBefore(params, i + 1) => off[i] = i
  <2> DEFINE S == {i \in Nat : i <= n /\ NoStructBefore(params, i + 1) => off[i] = i}
  <2>1. 0 \in S
    BY <1>5
  <2>2. ASSUME NEW i \in Nat, i \in S PROVE i + 1 \in S
    <3> SUFFICES ASSUME i + 1 <= n, NoStructBefore(params, (i + 1) + 1) PROVE off[i + 1] = i + 1
      OBVIOUS
    <3>1. NoStructBefore(params, i + 1) /\ params[i + 1] # "struct"
      BY DEF NoStructBefore
    <3>2. i + 1 \in 1..n /\ (i + 1) - 1 = i /\ i <= n
      BY <1>0
    <3>3. off[i] = i
      BY <2>2, <3>1, <3>2
    <3>4. Len(flags[i + 1]) = 1
      BY <1>6, <3>1, <3>2
    <3>5. off[i + 1] = off[i] + Len(flags[i + 1])
      BY <1>5, <3>2
    <3> QED BY <3>3, <3>4, <3>5
  <2> HIDE DEF S
  <2>3. Nat \subseteq S
    BY <2>1, <2>2, SetInduction
  <2> QED BY <1>0, <2>3 DEF S
<1>8. ASSUME NEW i \in 1..n
      PROVE  /\ off[i - 1] + 1 \in 1..Len(regs) /\ regs[off[i - 1] + 1] = flags[i][1]
             /\ params[i] = "struct" => off[i - 1] + 2 \in 1..Len(regs) /\ regs[off[i - 1] + 2] = flags[i][2]
             /\ NoStructBefore(params, i) => off[i - 1] = i - 1
  <2>1. off[i - 1] \in Nat /\ off[i] = off[i - 1] + Len(flags[i]) /\ off[i] <= Len(regs) /\ Len(flags[i]) \in {1, 2}
    <3>1. i - 1 \in 0..n
      BY <1>0
    <3>2. off[i - 1] \in Nat
      BY <1>5, <3>1
    <3>3. off[i] = off[i - 1] + Len(flags[i]) /\ off[i] <= Len(regs)
      BY <1>5
    <3>4. Len(flags[i]) \in {1, 2}
      BY <1>6
    <3> QED BY <3>2, <3>3, <3>4
  <2>2. i - 1 \in 0..n /\ (i - 1) + 1 = i
    BY <1>0
  <2>3. NoStructBefore(params, i) => off[i - 1] = i - 1
    BY <1>7, <2>2
  <2>a. Len(flags[i]) = 1 \/ Len(flags[i]) = 2
    BY <2>1
  <2>b. params[i] = "struct" => Len(flags[i]) = 2
    BY <1>6
  <2> DEFINE l == Len(flags[i])
  <2> HIDE DEF l
  <2>c. l \in {1, 2} /\ (params[i] = "struct" => l = 2)
    BY <2>a, <2>b DEF l
  <2>d. 1 \in 1..l /\ (params[i] = "struct" => 2 \in 1..l)
    BY <2>c
  <2>4. 1 \in 1..Len(flags[i]) /\ (params[i] = "struct" => 2 \in 1..Len(flags[i]))
    BY <2>d DEF l
  <2>5. \A k \in 1..Len(flags[i]) : off[i - 1] + k \in 1..Len(regs)
    BY <2>1, <1>5
  <2> QED BY <1>5, <2>3, <2>4, <2>5
<1>9. \A i \in DOMAIN params :
        /\ NoStructBefore(params, i) => i \in DOMAIN regs /\ regs[i] = paramFlags(params, i)[1]
        /\ NoStructBefore(params, i) /\ params[i] = "struct" => i + 1 \in DOMAIN regs /\ regs[i + 1] = paramFlags(params, i)[2]
        /\ \E k \in DOMAIN regs : regs[k] = paramFlags(params, i)[1]
  <2> TAKE i \in DOMAIN params
  <2>1. i \in 1..n /\ (i - 1) + 1 = i /\ (i - 1) + 2 = i + 1
    BY <1>0
  <2>2. DOMAIN regs = 1..Len(regs) /\ flags[i] = paramFlags(params, i)
    BY <1>1, <1>5, <2>1
  <2>3. /\ off[i - 1] + 1 \in DOMAIN regs /\ regs[off[i - 1] + 1] = paramFlags(params, i)[1]
        /\ params[i] = "struct" => off[i - 1] + 2 \in DOMAIN regs /\ regs[off[i - 1] + 2] = paramFlags(params, i)[2]
        /\ NoStructBefore(params, i) => off[i - 1] = i - 1
    BY <1>8, <2>1, <2>2
  <2>4. NoStructBefore(params, i) => off[i - 1] + 1 = i /\ off[i - 1] + 2 = i + 1
    BY <2>1, <2>3
  <2> QED BY <2>3, <2>4
<1>10. NoStructBefore(params, n + 1) => Len(regs) = n
  <2>1. n \in 0..n
    BY <1>0
  <2> QED BY <1>5, <1>7, <2>1
<1>11. \A k \in DOMAIN regs : \E i \in DOMAIN params :
         \E m \in 1..Len(paramFlags(params, i)) : regs[k] = paramFlags(params, i)[m]
  <2> TAKE k \in DOMAIN regs
  <2>1. PICK i \in 1..n : \E m \in 1..Len(flags[i]) : regs[k] = flags[i][m]
    BY <1>5
  <2>2. flags[i] = paramFlags(params, i) /\ i \in DOMAIN params
    BY <1>0, <1>1
  <2> QED BY <2>1, <2>2
<1> QED BY <1>3, <1>9, <1>10, <1>11 DEF regs, n

\* A parameter that is no struct is shown as its one register was stored.
LEMMA ArgWordsAt ==
  ASSUME NEW params, params \in Seq(ParamKinds), NEW i \in DOMAIN params, params[i] # "struct"
  PROVE  ArgWords(params, i) = Stored(paramFlags(params, i)[1].kind, i)
<1> DEFINE regs == getFuncParams(params) f == paramFlags(params, i)[1]
<1>1. ToSet(regs) = {regs[k] : k \in DOMAIN regs}
  BY DEF ToSet
<1>2. f \in ToSet(regs) /\ f.arg = i
  <2>1. \E k \in DOMAIN regs : regs[k] = f
    BY Regs
  <2>2. Len(paramFlags(params, i)) = 1 /\ \A m \in 1..Len(paramFlags(params, i)) : paramFlags(params, i)[m].arg = i
    BY Flags
  <2> QED BY <1>1, <2>1, <2>2
<1>3. ASSUME NEW r \in ToSet(regs), r.arg = i PROVE r = f
  <2>1. PICK k \in DOMAIN regs : r = regs[k]
    BY <1>1
  <2>2. PICK j \in DOMAIN params : \E m \in 1..Len(paramFlags(params, j)) : regs[k] = paramFlags(params, j)[m]
    BY Regs
  <2>3. PICK m \in 1..Len(paramFlags(params, j)) : r = paramFlags(params, j)[m]
    BY <2>1, <2>2
  <2>4. j = i
    BY <1>3, <2>3, Flags
  <2>5. Len(paramFlags(params, i)) = 1
    BY Flags
  <2> QED BY <2>3, <2>4, <2>5
<1> HIDE DEF regs, f
<1>4. (CHOOSE r \in ToSet(regs) : r.arg = i) = f
  BY <1>2, <1>3
<1> QED BY <1>4 DEF ArgWords, regs, f

LEMMA WordsAt ==
  ASSUME NEW data, data \in Seq(Word), NEW from \in Nat, NEW x, x \in Seq(Word), x # <<>>,
         from + Len(x) <= Len(data), \A m \in 1..Len(x) : data[from + m] = x[m]
  PROVE  Words(data, from + 1, Len(x)) = x
<1> DEFINE n == Len(x)
<1>1. n \in Nat \ {0} /\ Len(data) \in Nat /\ from + n <= Len(data)
  OBVIOUS
<1>2. Words(data, from + 1, n) = SubSeq(data, from + 1, from + n)
  BY <1>1 DEF Words
<1> HIDE DEF n
<1>3. SubSeq(data, from + 1, from + n) = [j \in 1..n |-> data[from + j]]
  <2>1. (from + n) - (from + 1) + 1 = n /\ \A j \in 1..n : (from + 1) + j - 1 = from + j
    BY <1>1
  <2>2. SubSeq(data, from + 1, from + n) = [j \in 1..((from + n) - (from + 1) + 1) |-> data[(from + 1) + j - 1]]
    BY <1>1
  <2> QED BY <2>1, <2>2
<1>4. [j \in 1..n |-> data[from + j]] = x
  <2>1. x = [j \in 1..n |-> x[j]]
    BY DEF n
  <2>2. \A j \in 1..n : data[from + j] = x[j]
    BY DEF n
  <2> QED BY <2>1, <2>2
<1> QED BY <1>2, <1>3, <1>4 DEF n

-----------------------------------------------------------------------------
(* The readers go over registers and attributes one by one: w[k] is what   *)
(* the reader has after k of them.                                         *)

ReadBase == [at |-> 1, shown |-> <<>>]
ParamsRead(w, params, data, n) ==
  w = [k \in 0..n |-> IF k = 0 THEN ReadBase ELSE readParam(params, data, w[k - 1], k)]

LEMMA ParamsReadExist ==
  ASSUME NEW params, NEW data, NEW n \in Nat
  PROVE  \E w : ParamsRead(w, params, data, n)
<1> DEFINE S == {m \in Nat : \E w : ParamsRead(w, params, data, m)}
<1>1. 0 \in S
  <2>1. PICK w : w = [k \in 0..0 |-> ReadBase]
    OBVIOUS
  <2>2. [k \in 0..0 |-> IF k = 0 THEN ReadBase ELSE readParam(params, data, w[k - 1], k)] = [k \in 0..0 |-> ReadBase]
    OBVIOUS
  <2> QED BY <2>1, <2>2 DEF ParamsRead
<1>2. ASSUME NEW m \in Nat, m \in S PROVE m + 1 \in S
  <2>1. PICK w : ParamsRead(w, params, data, m)
    BY <1>2
  <2>2. PICK v : v = [k \in 0..(m + 1) |-> IF k <= m THEN w[k] ELSE readParam(params, data, w[m], k)]
    OBVIOUS
  <2>3. \A k \in 0..(m + 1) : v[k] = IF k = 0 THEN ReadBase ELSE readParam(params, data, v[k - 1], k)
    <3> TAKE k \in 0..(m + 1)
    <3>0. k # 0 => k - 1 \in 0..(m + 1) /\ k - 1 <= m /\ v[k - 1] = w[k - 1]
      BY <2>2
    <3>1. CASE k <= m
      <4>1. k \in 0..m /\ v[k] = w[k]
        BY <2>2, <3>1
      <4>2. w[k] = IF k = 0 THEN ReadBase ELSE readParam(params, data, w[k - 1], k)
        BY <2>1, <4>1 DEF ParamsRead
      <4> QED BY <4>1, <4>2, <3>0
    <3>2. CASE k = m + 1
      <4>1. ~(k <= m) /\ k - 1 = m /\ k # 0
        BY <3>2
      <4>2. v[k] = readParam(params, data, w[k - 1], k)
        BY <2>2, <4>1
      <4> QED BY <4>1, <4>2, <3>0
    <3> QED BY <3>1, <3>2
  <2>4. v = [k \in 0..(m + 1) |-> v[k]]
    BY <2>2
  <2>5. ParamsRead(v, params, data, m + 1)
    BY <2>3, <2>4 DEF ParamsRead
  <2> QED BY <2>5
<1> HIDE DEF S
<1>3. Nat \subseteq S
  BY <1>1, <1>2, SetInduction
<1> QED BY <1>3 DEF S

LEMMA ParamsReadAt ==
  ASSUME NEW w, NEW params, NEW data, NEW n \in Nat, ParamsRead(w, params, data, n)
  PROVE  w[0] = ReadBase /\ \A k \in 1..n : w[k] = readParam(params, data, w[k - 1], k)
<1>1. PICK M : M = [k \in 0..n |-> IF k = 0 THEN ReadBase ELSE readParam(params, data, w[k - 1], k)]
  OBVIOUS
<1>2. w = M
  BY <1>1, Zenon DEF ParamsRead
<1>3. 0 \in 0..n /\ \A k \in 1..n : k \in 0..n /\ k # 0
  OBVIOUS
<1> QED BY <1>1, <1>2, <1>3

\* The reader goes over the registers one by one.
IsParamsWalk(w, params, ret, data, n) ==
  /\ outputFnArgs(params, ret, data) =
       w[n].shown \o (IF ret = "none" THEN <<>> ELSE <<Words(data, w[n].at, Consumed(ret))>>)
  /\ w[0] = ReadBase /\ \A k \in 1..n : w[k] = readParam(params, data, w[k - 1], k)

LEMMA ParamsWalk ==
  ASSUME NEW params, NEW ret, NEW data, NEW n \in Nat, Len(getFuncParams(params)) = n
  PROVE  \E w : IsParamsWalk(w, params, ret, data, n)
<1> DEFINE regs == Len(getFuncParams(params))
           L == CHOOSE g : g = [k \in 0..regs |->
                  IF k = 0 THEN [at |-> 1, shown |-> <<>>] ELSE readParam(params, data, g[k - 1], k)]
<1>0. PICK w : ParamsRead(w, params, data, n)
  BY ParamsReadExist
<1>1. w = [k \in 0..regs |->
                  IF k = 0 THEN [at |-> 1, shown |-> <<>>] ELSE readParam(params, data, w[k - 1], k)]
  BY <1>0 DEF ParamsRead, ReadBase
<1>2. L = [k \in 0..regs |->
                  IF k = 0 THEN [at |-> 1, shown |-> <<>>] ELSE readParam(params, data, L[k - 1], k)]
  BY <1>1
<1>3. outputFnArgs(params, ret, data) =
        L[regs].shown \o (IF ret = "none" THEN <<>> ELSE <<Words(data, L[regs].at, Consumed(ret))>>)
  BY DEF outputFnArgs
<1> HIDE DEF L
<1>4. ParamsRead(L, params, data, n)
  BY <1>2, Zenon DEF ParamsRead, ReadBase
<1>5. L[0] = ReadBase /\ \A k \in 1..n : L[k] = readParam(params, data, L[k - 1], k)
  BY <1>4, ParamsReadAt
<1>6. outputFnArgs(params, ret, data) =
        L[n].shown \o (IF ret = "none" THEN <<>> ELSE <<Words(data, L[n].at, Consumed(ret))>>)
  BY <1>3
<1> QED BY <1>5, <1>6 DEF IsParamsWalk

\* Where the words of the registers are, and those of the return value.
LEMMA ArgData ==
  ASSUME NEW params, params \in Seq(ParamKinds), NEW ret \in {"none", "num", "numptr", "str"}
  PROVE  LET regs == getFuncParams(params)
             data == genOutputFuncArgs(params, ret)
             n == Len(regs)
         IN /\ data \in Seq(Word)
            /\ \E off : /\ off \in [0..n -> Nat] /\ off[0] = 0
                        /\ \A k \in 1..n :
                             LET x == Stored(regs[k].kind, regs[k].arg)
                             IN /\ off[k] = off[k - 1] + Len(x) /\ off[k] <= Len(data)
                                /\ \A m \in 1..Len(x) : data[off[k - 1] + m] = x[m]
                        /\ ret # "none" => LET x == Stored(ret, 0)
                                           IN /\ off[n] + Len(x) = Len(data)
                                              /\ \A m \in 1..Len(x) : data[off[n] + m] = x[m]
<1> DEFINE regs == getFuncParams(params)
           n == Len(regs)
           parts == [k \in DOMAIN regs |-> Stored(regs[k].kind, regs[k].arg)]
           last == IF ret = "none" THEN <<>> ELSE Stored(ret, 0)
           data == genOutputFuncArgs(params, ret)
           F == FlattenSeq(parts)
<1>1. regs \in Seq(Reg) /\ n \in Nat /\ DOMAIN regs = 1..n
  BY Regs
<1>2. \A k \in 1..n : regs[k].kind \in RegKinds /\ regs[k].arg \in Nat
  <2>1. \A k \in 1..n : regs[k] \in Reg
    BY <1>1
  <2>2. \A r \in Reg : r.kind \in RegKinds /\ r.arg \in Nat
    BY DEF Reg
  <2> QED BY <2>1, <2>2
<1>3. \A k \in 1..n : parts[k] = Stored(regs[k].kind, regs[k].arg) /\ parts[k] \in Seq(Word) /\ Len(parts[k]) \in Nat
  BY <1>1, <1>2, StoredWords
<1>4. parts \in Seq(Seq(Word)) /\ Len(parts) = n
  <2>1. parts = [k \in 1..n |-> Stored(regs[k].kind, regs[k].arg)]
    BY <1>1
  <2> QED BY <1>1, <1>3, <2>1
<1>5. data = F \o last
  BY DEF genOutputFuncArgs
<1>6. last \in Seq(Word) /\ (ret # "none" => last = Stored(ret, 0))
  BY StoredWords DEF RegKinds
<1> HIDE DEF parts, data, last, regs, n, F
<1>7. F \in Seq(Word) /\ \E off : IsJoin(parts, off, F)
  BY <1>4, Joined DEF F
<1>8. PICK off : IsJoin(parts, off, F)
  BY <1>7
<1>9. /\ off \in [0..n -> Nat] /\ off[0] = 0 /\ off[n] = Len(F)
      /\ \A k \in 1..n : off[k] = off[k - 1] + Len(parts[k]) /\ off[k] <= Len(F)
      /\ \A k \in 1..n : \A m \in 1..Len(parts[k]) : F[off[k - 1] + m] = parts[k][m]
  BY <1>4, <1>8 DEF IsJoin
<1>10. /\ data \in Seq(Word) /\ Len(data) = Len(F) + Len(last) /\ Len(F) \in Nat /\ Len(last) \in Nat
       /\ \A j \in 1..Len(F) : data[j] = F[j]
       /\ \A j \in 1..Len(last) : data[Len(F) + j] = last[j]
  BY <1>5, <1>6, <1>7
<1>11. ASSUME NEW k \in 1..n
       PROVE  LET x == Stored(regs[k].kind, regs[k].arg)
              IN /\ off[k] = off[k - 1] + Len(x) /\ off[k] <= Len(data)
                 /\ \A m \in 1..Len(x) : data[off[k - 1] + m] = x[m]
  <2>1. k - 1 \in 0..n /\ k \in 0..n
    BY <1>1
  <2>2. off[k - 1] \in Nat /\ off[k] \in Nat /\ off[k] = off[k - 1] + Len(parts[k]) /\ off[k] <= Len(F) /\ Len(parts[k]) \in Nat
    BY <1>3, <1>9, <2>1
  <2>3. \A m \in 1..Len(parts[k]) : off[k - 1] + m \in 1..Len(F)
    BY <2>2, <1>10
  <2>4. \A m \in 1..Len(parts[k]) : data[off[k - 1] + m] = parts[k][m]
    BY <1>9, <1>10, <2>3
  <2>5. off[k] <= Len(data)
    BY <1>10, <2>2
  <2> QED BY <1>3, <2>2, <2>4, <2>5
<1>12. ret # "none" => LET x == Stored(ret, 0)
                       IN off[n] + Len(x) = Len(data) /\ \A m \in 1..Len(x) : data[off[n] + m] = x[m]
  BY <1>6, <1>9, <1>10
<1>13. \E o : /\ o \in [0..n -> Nat] /\ o[0] = 0
              /\ \A k \in 1..n :
                   LET x == Stored(regs[k].kind, regs[k].arg)
                   IN /\ o[k] = o[k - 1] + Len(x) /\ o[k] <= Len(data)
                      /\ \A m \in 1..Len(x) : data[o[k - 1] + m] = x[m]
              /\ ret # "none" => LET x == Stored(ret, 0)
                                 IN /\ o[n] + Len(x) = Len(data)
                                    /\ \A m \in 1..Len(x) : data[o[n] + m] = x[m]
  BY <1>9, <1>11, <1>12
<1> QED BY <1>10, <1>13 DEF regs, n, data

ArgShown(params, shown, i) ==
  (params[i] = "struct" => i < Len(params)) => shown[i] = ArgWords(params, i)

\* The reader before the register k + 1.
ArgsUpTo(params, off, acc, k) ==
  /\ \E S : acc.shown \in Seq(S)
  /\ k <= Len(params) /\ NoStructBefore(params, k + 1) => acc.at = off[k] + 1 /\ Len(acc.shown) = k
  /\ \A i \in 1..Len(params) :
       i <= k /\ NoStructBefore(params, i) => i <= Len(acc.shown) /\ ArgShown(params, acc.shown, i)

LEMMA Appended ==
  ASSUME NEW s, NEW S, s \in Seq(S), NEW e
  PROVE  /\ Append(s, e) \in Seq(S \cup {e}) /\ Len(Append(s, e)) = Len(s) + 1 /\ Len(s) \in Nat
         /\ Append(s, e)[Len(s) + 1] = e /\ \A i \in 1..Len(s) : Append(s, e)[i] = s[i]
<1>1. s \in Seq(S \cup {e}) /\ e \in S \cup {e}
  OBVIOUS
<1> DEFINE T == S \cup {e}
<1>2. s \in Seq(T) /\ e \in T
  BY <1>1
<1> HIDE DEF T
<1>3. Append(s, e) \in Seq(T) /\ Len(Append(s, e)) = Len(s) + 1 /\ Len(s) \in Nat
      /\ Append(s, e)[Len(s) + 1] = e /\ \A i \in 1..Len(s) : Append(s, e)[i] = s[i]
  BY <1>2
<1> QED BY <1>3 DEF T

LEMMA OneElement ==
  ASSUME NEW R, NEW s, s \in Seq(R), Len(s) = 1
  PROVE  s[1] \in R
OBVIOUS

LEMMA ConcatAt ==
  ASSUME NEW R, NEW s, NEW t, s \in Seq(R), t \in Seq(R)
  PROVE  /\ s \o t \in Seq(R) /\ Len(s \o t) = Len(s) + Len(t)
         /\ \A i \in 1..Len(s) : (s \o t)[i] = s[i]
         /\ \A i \in 1..Len(t) : (s \o t)[Len(s) + i] = t[i]
OBVIOUS

LEMMA Concat ==
  ASSUME NEW R, NEW s, NEW t, s \in Seq(R), t \in Seq(R)
  PROVE  Len(s) = 1 /\ Len(t) = 1 =>
           s \o t \in Seq(R) /\ Len(s \o t) = 2 /\ (s \o t)[1] = s[1] /\ (s \o t)[2] = t[1]
<1> DEFINE u == s \o t n == Len(s) m == Len(t)
<1>1. /\ u \in Seq(R) /\ Len(u) = n + m
      /\ \A i \in 1..n : u[i] = s[i]
      /\ \A i \in 1..m : u[n + i] = t[i]
  BY ConcatAt
<1> HIDE DEF u, n, m
<1>2. n = 1 /\ m = 1 => u[1] = s[1] /\ u[1 + 1] = t[1] /\ Len(u) = 2
  BY <1>1
<1> QED BY <1>1, <1>2 DEF u, n, m

LEMMA JoinTwo ==
  ASSUME NEW a, NEW b, NEW s, NEW t, s = <<a>>, t = <<b>>
  PROVE  s \o t = <<a, b>>
<1> DEFINE V == {a, b}
<1>1. s \in Seq(V) /\ t \in Seq(V) /\ Len(s) = 1 /\ Len(t) = 1 /\ s[1] = a /\ t[1] = b
  OBVIOUS
<1>2. s \o t \in Seq(V) /\ Len(s \o t) = 2 /\ (s \o t)[1] = a /\ (s \o t)[2] = b
  BY <1>1, Concat
<1>3. \A x : x \in Seq(V) /\ Len(x) = 2 /\ x[1] = a /\ x[2] = b => x = <<a, b>>
  OBVIOUS
<1> QED BY <1>2, <1>3

\* t begins with s.
Longer(t, s) ==
  /\ \E T : t \in Seq(T)
  /\ Len(t) >= Len(s) /\ Len(s) \in Nat
  /\ \A i \in 1..Len(s) : t[i] = s[i]

LEMMA AppendLonger ==
  ASSUME NEW s, NEW S, s \in Seq(S), NEW e
  PROVE  Longer(Append(s, e), s) /\ Longer(s, s)
<1>1. Len(s) \in Nat
  OBVIOUS
<1>2. Longer(s, s)
  BY <1>1 DEF Longer
<1>3. Longer(Append(s, e), s)
  <2> DEFINE t == Append(s, e)
  <2>1. t \in Seq(S \cup {e}) /\ Len(t) = Len(s) + 1 /\ \A i \in 1..Len(s) : t[i] = s[i]
    BY Appended
  <2> HIDE DEF t
  <2>2. Longer(t, s)
    BY <1>1, <2>1 DEF Longer
  <2> QED BY <2>2 DEF t
<1> QED BY <1>2, <1>3

LEMMA ReadStep ==
  ASSUME NEW params, NEW data, NEW acc, NEW k, NEW S, acc.shown \in Seq(S)
  PROVE  Longer(readParam(params, data, acc, k).shown, acc.shown)
<1>1. readParam(params, data, acc, k) = acc \/ \E e : readParam(params, data, acc, k).shown = Append(acc.shown, e)
  BY DEF readParam
<1> QED BY <1>1, AppendLonger

\* A parameter with no struct before it, and the return value, is shown as stored.
LEMMA ArgsSound ==
  ASSUME NEW params, params \in Seq(ParamKinds), NEW ret \in {"none", "num", "numptr", "str"}
  PROVE  LET shown == outputFnArgs(params, ret, genOutputFuncArgs(params, ret))
         IN /\ \A i \in DOMAIN params : NoStructBefore(params, i) => ArgShown(params, shown, i)
            /\ NoStructBefore(params, Len(params) + 1) /\ ret # "none" =>
                 shown[Len(params) + 1] = Stored(ret, 0)
<1> DEFINE regs == getFuncParams(params)
           data == genOutputFuncArgs(params, ret)
           n == Len(regs)
           l == Len(params)
<1>0. l \in Nat /\ DOMAIN params = 1..l /\ n \in Nat /\ DOMAIN regs = 1..n
  BY Regs
<1>1. PICK off : /\ off \in [0..n -> Nat] /\ off[0] = 0
                 /\ \A k \in 1..n :
                      LET x == Stored(regs[k].kind, regs[k].arg)
                      IN /\ off[k] = off[k - 1] + Len(x) /\ off[k] <= Len(data)
                         /\ \A m \in 1..Len(x) : data[off[k - 1] + m] = x[m]
                 /\ ret # "none" => LET x == Stored(ret, 0)
                                    IN /\ off[n] + Len(x) = Len(data)
                                       /\ \A m \in 1..Len(x) : data[off[n] + m] = x[m]
  BY ArgData
<1>2. data \in Seq(Word)
  BY ArgData
<1>a. Len(getFuncParams(params)) = n
  OBVIOUS
<1> HIDE DEF data, n, l
<1>b. PICK w : IsParamsWalk(w, params, ret, data, n)
  BY <1>0, <1>a, ParamsWalk
<1>3. /\ outputFnArgs(params, ret, data) =
           w[n].shown \o (IF ret = "none" THEN <<>> ELSE <<Words(data, w[n].at, Consumed(ret))>>)
      /\ w[0] = ReadBase /\ \A k \in 1..n : w[k] = readParam(params, data, w[k - 1], k)
  BY <1>b DEF IsParamsWalk
\* A register that is no second one is read where it is.
<1>4. ASSUME NEW k \in 1..l, NoStructBefore(params, k), NEW acc, acc.at = off[k - 1] + 1,
             NEW S, acc.shown \in Seq(S), Len(acc.shown) = k - 1
      PROVE  LET next == readParam(params, data, acc, k)
             IN /\ Len(next.shown) = k /\ ArgShown(params, next.shown, k)
                /\ params[k] # "struct" => next.at = off[k] + 1
  <2> DEFINE r == regs[k]
             x == Stored(r.kind, k)
             next == readParam(params, data, acc, k)
             tail == IF params[k] = "struct" THEN IF k < Len(params) THEN <<data[acc.at + 1]>> ELSE <<NoWord>>
                     ELSE <<>>
  <2>1. k \in DOMAIN params /\ k \in 1..n /\ r = paramFlags(params, k)[1] /\ r.arg = k /\ r.kind \in RegKinds \ {"part"}
        /\ (params[k] = "struct" => r.kind = "num")
    <3>1. k \in DOMAIN params /\ k \in 1..n /\ r = paramFlags(params, k)[1]
      BY <1>0, <1>4, Regs
    <3>2. CASE params[k] = "struct"
      <4>1. r = [arg |-> k, kind |-> "num"]
        BY <3>1, <3>2, Flags
      <4> QED BY <3>1, <4>1 DEF RegKinds
    <3>3. CASE params[k] # "struct"
      <4>1. /\ paramFlags(params, k) \in Seq(Reg) /\ Len(paramFlags(params, k)) = 1
            /\ paramFlags(params, k)[1].kind # "part"
            /\ \A m \in 1..Len(paramFlags(params, k)) : paramFlags(params, k)[m].arg = k
        BY <3>1, <3>3, Flags
      <4> DEFINE f == paramFlags(params, k)
      <4> HIDE DEF f
      <4>a. f \in Seq(Reg) /\ Len(f) = 1 /\ f[1].kind # "part" /\ \A m \in 1..Len(f) : f[m].arg = k
        BY <4>1 DEF f
      <4>b. f[1] \in Reg
        BY <4>a, OneElement
      <4>c. f[1].kind # "part" /\ f[1].arg = k
        BY <4>a
      <4>2. r \in Reg /\ r.kind # "part" /\ r.arg = k
        BY <3>1, <4>b, <4>c DEF f
      <4> QED BY <3>1, <3>3, <4>2 DEF Reg
    <3> QED BY <3>2, <3>3
  <2> HIDE DEF r
  <2>2. x \in Seq(Word) /\ Len(x) \in Nat \ {0} /\ Len(x) = Consumed(r.kind) /\ k \in Nat
    BY <1>0, <2>1, StoredWords
  <2>3. /\ off[k - 1] \in Nat /\ off[k] = off[k - 1] + Len(x) /\ off[k] <= Len(data)
        /\ \A m \in 1..Len(x) : data[off[k - 1] + m] = x[m]
    <3>1. k - 1 \in 0..n
      BY <1>0, <2>1
    <3>2. x = Stored(regs[k].kind, regs[k].arg)
      BY <2>1 DEF r
    <3> QED BY <1>1, <2>1, <3>1, <3>2
  <2> HIDE DEF x
  <2>4. Words(data, acc.at, Consumed(r.kind)) = x
    <3>1. x # <<>> /\ off[k - 1] + Len(x) <= Len(data)
      BY <2>2, <2>3
    <3>2. Words(data, off[k - 1] + 1, Len(x)) = x
      BY <1>2, <2>2, <2>3, <3>1, WordsAt
    <3> QED BY <1>4, <2>2, <3>2
  <2>5. next = [at |-> acc.at + Consumed(r.kind), shown |-> Append(acc.shown, x \o tail)]
    <3>1. params[k] = "struct" => Consumed(r.kind) = 1
      BY <2>1 DEF Consumed
    <3> QED BY <2>1, <2>4, <3>1 DEF readParam, r
  <2>6. next.at = off[k] + 1
    BY <1>4, <2>2, <2>3, <2>5
  <2>7. Len(next.shown) = k /\ next.shown[k] = x \o tail
    <3>1. Len(acc.shown) + 1 = k
      BY <1>4, <1>0
    <3> QED BY <1>4, <2>5, <3>1, Appended
  <2>8. (params[k] = "struct" => k < Len(params)) => x \o tail = ArgWords(params, k)
    <3>1. CASE params[k] # "struct"
      <4>1. x \o tail = x
        BY <2>2, <3>1
      <4> QED BY <2>1, <3>1, <4>1, ArgWordsAt DEF x
    <3>2. CASE params[k] = "struct" /\ k < Len(params)
      <4>1. x = <<<<k, "num">>>> /\ Len(x) = 1
        BY <2>1, <2>2, <3>2, StoredWords DEF x
      <4>2. k + 1 \in DOMAIN regs /\ regs[k + 1] = [arg |-> k, kind |-> "part"]
        BY <1>4, <2>1, <3>2, Regs, Flags
      <4>3. Stored(regs[k + 1].kind, regs[k + 1].arg) = <<<<k, "high">>>>
        BY <2>2, <4>2 DEF Stored
      <4>4. data[off[k] + 1] = <<k, "high">>
        <5>1. k + 1 \in 1..n /\ (k + 1) - 1 = k
          BY <1>0, <4>2, <2>2
        <5>2. \A m \in 1..Len(<<<<k, "high">>>>) : data[off[(k + 1) - 1] + m] = <<<<k, "high">>>>[m]
          BY <1>1, <4>3, <5>1
        <5> QED BY <5>1, <5>2
      <4>5. acc.at + 1 = off[k] + 1
        BY <1>4, <2>3, <4>1
      <4>6. tail = <<<<k, "high">>>>
        BY <3>2, <4>4, <4>5
      <4>7. ArgWords(params, k) = <<<<k, "num">>, <<k, "high">>>>
        BY <3>2 DEF ArgWords
      <4> HIDE DEF tail
      <4> DEFINE a == <<k, "num">> b == <<k, "high">>
      <4> HIDE DEF a, b
      <4>8. <<a>> \o <<b>> = <<a, b>>
        BY JoinTwo
      <4> QED BY <4>1, <4>6, <4>7, <4>8 DEF a, b
    <3> QED BY <3>1, <3>2
  <2> HIDE DEF next
  <2>9. Len(next.shown) = k /\ ArgShown(params, next.shown, k) /\ next.at = off[k] + 1
    BY <2>6, <2>7, <2>8 DEF ArgShown
  <2> QED BY <2>9 DEF next
<1> HIDE DEF regs
<1> DEFINE I(k) == ArgsUpTo(params, off, w[k], k)
           U == {k \in Nat : k <= n => I(k)}
<1>5. 0 \in U
  <2>1. <<>> \in Seq({}) /\ Len(<<>>) = 0
    OBVIOUS
  <2>2. w[0].at = off[0] + 1 /\ w[0].shown = <<>>
    BY <1>1, <1>3 DEF ReadBase
  <2>3. \A i \in 1..Len(params) : ~(i <= 0)
    BY <1>0 DEF l
  <2>4. I(0)
    BY <2>1, <2>2, <2>3 DEF ArgsUpTo
  <2> QED BY <2>4
<1>6. ASSUME NEW k \in Nat, k \in U PROVE k + 1 \in U
  <2> SUFFICES ASSUME k + 1 <= n PROVE I(k + 1)
    OBVIOUS
  <2> DEFINE a == w[k] b == w[k + 1]
  <2>1. k + 1 \in 1..n /\ (k + 1) - 1 = k /\ k <= n
    BY <1>0
  <2>2. I(k) /\ b = readParam(params, data, a, k + 1)
    BY <1>3, <1>6, <2>1
  <2>3. PICK S : a.shown \in Seq(S)
    BY <2>2 DEF ArgsUpTo
  <2> HIDE DEF a, b
  <2>a. Longer(b.shown, a.shown)
    BY <2>2, <2>3, ReadStep
  <2>4. /\ \E T : b.shown \in Seq(T)
        /\ Len(b.shown) >= Len(a.shown) /\ Len(a.shown) \in Nat
        /\ \A i \in 1..Len(a.shown) : b.shown[i] = a.shown[i]
    BY <2>a DEF Longer
  <2>5. k + 1 <= l /\ NoStructBefore(params, k + 1) =>
          /\ Len(b.shown) = k + 1 /\ ArgShown(params, b.shown, k + 1)
          /\ params[k + 1] # "struct" => b.at = off[k + 1] + 1
    <3> SUFFICES ASSUME k + 1 <= l, NoStructBefore(params, k + 1)
                 PROVE  /\ Len(b.shown) = k + 1 /\ ArgShown(params, b.shown, k + 1)
                        /\ params[k + 1] # "struct" => b.at = off[k + 1] + 1
      OBVIOUS
    <3>1. a.at = off[k] + 1 /\ Len(a.shown) = k /\ k + 1 \in 1..l
      BY <1>0, <2>2 DEF ArgsUpTo, a, l
    <3> QED BY <1>4, <2>1, <2>2, <2>3, <3>1
  <2>6. k + 1 <= l /\ NoStructBefore(params, (k + 1) + 1) => NoStructBefore(params, k + 1) /\ params[k + 1] # "struct"
    BY DEF NoStructBefore
  <2>7. ASSUME NEW i \in 1..l, i <= k + 1, NoStructBefore(params, i)
        PROVE  i <= Len(b.shown) /\ ArgShown(params, b.shown, i)
    <3>1. CASE i = k + 1
      BY <2>5, <2>7, <3>1, <1>0
    <3>2. CASE i <= k
      <4>1. i <= Len(a.shown) /\ ArgShown(params, a.shown, i)
        BY <2>2, <2>7, <3>2 DEF ArgsUpTo, a, l
      <4>2. i \in 1..Len(a.shown) /\ i <= Len(b.shown) /\ (b.shown)[i] = (a.shown)[i]
        BY <1>0, <2>4, <2>7, <4>1, Appended, <2>3
      <4> QED BY <4>1, <4>2 DEF ArgShown
    <3> QED BY <1>0, <2>7, <3>1, <3>2
  <2>8. k + 1 <= l /\ NoStructBefore(params, (k + 1) + 1) => b.at = off[k + 1] + 1 /\ Len(b.shown) = k + 1
    BY <2>5, <2>6
  <2> QED BY <2>4, <2>7, <2>8 DEF ArgsUpTo, b, l
<1> HIDE DEF U
<1>7. I(n)
  <2>1. Nat \subseteq U
    BY <1>5, <1>6, SetInduction
  <2>2. n \in U /\ n <= n
    BY <1>0, <2>1
  <2> QED BY <2>2 DEF U
<1> HIDE DEF I
<1> DEFINE args == w[n].shown
           rest == IF ret = "none" THEN <<>> ELSE <<Words(data, w[n].at, Consumed(ret))>>
           shown == outputFnArgs(params, ret, data)
<1>8. PICK S : args \in Seq(S)
  BY <1>7 DEF I, ArgsUpTo
<1>9. \E T : rest \in Seq(T) /\ (ret # "none" => Len(rest) = 1 /\ rest[1] = Words(data, w[n].at, Consumed(ret)))
  <2>1. <<>> \in Seq({})
    OBVIOUS
  <2>2. \A e : <<e>> \in Seq({e}) /\ Len(<<e>>) = 1 /\ <<e>>[1] = e
    OBVIOUS
  <2> QED BY <2>1, <2>2
<1> HIDE DEF args, rest
<1>10. /\ shown = args \o rest /\ Len(args) \in Nat
       /\ \A i \in 1..Len(args) : shown[i] = args[i]
       /\ ret # "none" => shown[Len(args) + 1] = Words(data, w[n].at, Consumed(ret))
  <2>1. PICK T : rest \in Seq(T) /\ (ret # "none" => Len(rest) = 1 /\ rest[1] = Words(data, w[n].at, Consumed(ret)))
    BY <1>9
  <2>2. shown = args \o rest
    BY <1>3 DEF args, rest
  <2> HIDE DEF shown
  <2>3. Len(args) \in Nat /\ (\A i \in 1..Len(args) : (args \o rest)[i] = args[i])
        /\ \A i \in 1..Len(rest) : (args \o rest)[Len(args) + i] = rest[i]
    <3>1. args \in Seq(S \cup T) /\ rest \in Seq(S \cup T)
      BY <1>8, <2>1
    <3> DEFINE V == S \cup T
    <3> HIDE DEF V
    <3>2. args \in Seq(V) /\ rest \in Seq(V)
      BY <3>1 DEF V
    <3> QED BY <3>2
  <2> QED BY <2>1, <2>2, <2>3
<1> HIDE DEF shown
<1>11. ASSUME NEW i \in DOMAIN params, NoStructBefore(params, i) PROVE ArgShown(params, shown, i)
  <2>1. i \in 1..l /\ i \in 1..n
    BY <1>0, <1>11, Regs DEF regs
  <2>2. i <= Len(args) /\ ArgShown(params, args, i)
    BY <1>0, <1>7, <1>11, <2>1 DEF I, ArgsUpTo, args, l
  <2>3. shown[i] = args[i]
    BY <1>0, <1>10, <2>1, <2>2
  <2> QED BY <2>2, <2>3 DEF ArgShown
<1>12. ASSUME NoStructBefore(params, l + 1), ret # "none" PROVE shown[l + 1] = Stored(ret, 0)
  <2>1. n = l
    BY <1>12, Regs DEF regs, n, l
  <2>2. w[n].at = off[n] + 1 /\ Len(args) = l /\ l <= Len(params)
    BY <1>0, <1>7, <1>12, <2>1 DEF I, ArgsUpTo, args, l
  <2>3. /\ Stored(ret, 0) \in Seq(Word) /\ Len(Stored(ret, 0)) \in Nat \ {0}
        /\ Len(Stored(ret, 0)) = Consumed(ret)
    BY <1>12, StoredWords DEF RegKinds
  <2>4. /\ off[n] \in Nat /\ off[n] + Len(Stored(ret, 0)) <= Len(data)
        /\ \A m \in 1..Len(Stored(ret, 0)) : data[off[n] + m] = Stored(ret, 0)[m]
    <3>1. Len(data) \in Nat /\ n \in 0..n
      BY <1>0, <1>2
    <3> QED BY <1>0, <1>1, <1>12, <3>1
  <2>5. Stored(ret, 0) # <<>>
    BY <2>3
  <2>6. Words(data, off[n] + 1, Len(Stored(ret, 0))) = Stored(ret, 0)
    BY <1>2, <2>3, <2>4, <2>5, WordsAt
  <2> QED BY <1>10, <1>12, <2>2, <2>3, <2>6
<1> QED BY <1>11, <1>12 DEF shown, data, l

-----------------------------------------------------------------------------
(* Attributes.                                                             *)

Attr == [kind : AttrKinds, null : BOOLEAN]

AttrsRead(w, attrs, data, n) ==
  w = [j \in 0..n |-> IF j = 0 THEN ReadBase ELSE readAttr(attrs, data, w[j - 1], j)]

LEMMA AttrsReadExist ==
  ASSUME NEW attrs, NEW data, NEW n \in Nat
  PROVE  \E w : AttrsRead(w, attrs, data, n)
<1> DEFINE S == {m \in Nat : \E w : AttrsRead(w, attrs, data, m)}
<1>1. 0 \in S
  <2>1. PICK w : w = [k \in 0..0 |-> ReadBase]
    OBVIOUS
  <2>2. [k \in 0..0 |-> IF k = 0 THEN ReadBase ELSE readAttr(attrs, data, w[k - 1], k)] = [k \in 0..0 |-> ReadBase]
    OBVIOUS
  <2> QED BY <2>1, <2>2 DEF AttrsRead
<1>2. ASSUME NEW m \in Nat, m \in S PROVE m + 1 \in S
  <2>1. PICK w : AttrsRead(w, attrs, data, m)
    BY <1>2
  <2>2. PICK v : v = [k \in 0..(m + 1) |-> IF k <= m THEN w[k] ELSE readAttr(attrs, data, w[m], k)]
    OBVIOUS
  <2>3. \A k \in 0..(m + 1) : v[k] = IF k = 0 THEN ReadBase ELSE readAttr(attrs, data, v[k - 1], k)
    <3> TAKE k \in 0..(m + 1)
    <3>0. k # 0 => k - 1 \in 0..(m + 1) /\ k - 1 <= m /\ v[k - 1] = w[k - 1]
      BY <2>2
    <3>1. CASE k <= m
      <4>1. k \in 0..m /\ v[k] = w[k]
        BY <2>2, <3>1
      <4>2. w[k] = IF k = 0 THEN ReadBase ELSE readAttr(attrs, data, w[k - 1], k)
        BY <2>1, <4>1 DEF AttrsRead
      <4> QED BY <4>1, <4>2, <3>0
    <3>2. CASE k = m + 1
      <4>1. ~(k <= m) /\ k - 1 = m /\ k # 0
        BY <3>2
      <4>2. v[k] = readAttr(attrs, data, w[k - 1], k)
        BY <2>2, <4>1
      <4> QED BY <4>1, <4>2, <3>0
    <3> QED BY <3>1, <3>2
  <2>4. v = [k \in 0..(m + 1) |-> v[k]]
    BY <2>2
  <2>5. AttrsRead(v, attrs, data, m + 1)
    BY <2>3, <2>4 DEF AttrsRead
  <2> QED BY <2>5
<1> HIDE DEF S
<1>3. Nat \subseteq S
  BY <1>1, <1>2, SetInduction
<1> QED BY <1>3 DEF S

LEMMA AttrsReadAt ==
  ASSUME NEW w, NEW attrs, NEW data, NEW n \in Nat, AttrsRead(w, attrs, data, n)
  PROVE  w[0] = ReadBase /\ \A k \in 1..n : w[k] = readAttr(attrs, data, w[k - 1], k)
<1>1. PICK M : M = [k \in 0..n |-> IF k = 0 THEN ReadBase ELSE readAttr(attrs, data, w[k - 1], k)]
  OBVIOUS
<1>2. w = M
  BY <1>1, Zenon DEF AttrsRead
<1>3. 0 \in 0..n /\ \A k \in 1..n : k \in 0..n /\ k # 0
  OBVIOUS
<1> QED BY <1>1, <1>2, <1>3

IsAttrsWalk(w, attrs, data, n) ==
  /\ outputFuncArgAttrs(attrs, data) = w[n].shown
  /\ w[0] = ReadBase /\ \A j \in 1..n : w[j] = readAttr(attrs, data, w[j - 1], j)

LEMMA AttrsWalk ==
  ASSUME NEW attrs, NEW data, NEW n \in Nat, Len(attrs) = n
  PROVE  \E w : IsAttrsWalk(w, attrs, data, n)
<1> DEFINE L == CHOOSE g : g = [j \in 0..Len(attrs) |->
                  IF j = 0 THEN [at |-> 1, shown |-> <<>>] ELSE readAttr(attrs, data, g[j - 1], j)]
<1>0. PICK w : AttrsRead(w, attrs, data, n)
  BY AttrsReadExist
<1>1. w = [j \in 0..Len(attrs) |->
             IF j = 0 THEN [at |-> 1, shown |-> <<>>] ELSE readAttr(attrs, data, w[j - 1], j)]
  BY <1>0 DEF AttrsRead, ReadBase
<1>2. L = [j \in 0..Len(attrs) |->
             IF j = 0 THEN [at |-> 1, shown |-> <<>>] ELSE readAttr(attrs, data, L[j - 1], j)]
  BY <1>1
<1>3. outputFuncArgAttrs(attrs, data) = L[Len(attrs)].shown
  BY DEF outputFuncArgAttrs
<1> HIDE DEF L
<1>4. AttrsRead(L, attrs, data, n)
  BY <1>2, Zenon DEF AttrsRead, ReadBase
<1>5. L[0] = ReadBase /\ \A k \in 1..n : L[k] = readAttr(attrs, data, L[k - 1], k)
  BY <1>4, AttrsReadAt
<1>6. outputFuncArgAttrs(attrs, data) = L[n].shown
  BY <1>3
<1> QED BY <1>5, <1>6 DEF IsAttrsWalk

\* The words of an attribute: its data and the exception.
IsAttrPart(x, a, j, d) ==
  /\ x \in Seq(Word) /\ d \in Nat \ {0} /\ Len(x) = d + 1
  /\ x[d + 1] = IF a.null THEN Null ELSE NoWord
  /\ ~a.null => \A m \in 1..d : x[m] = <<j, "attr">>

LEMMA AttrStored ==
  ASSUME NEW a, a \in Attr, NEW j \in Nat
  PROVE  /\ IsAttrPart(OutputAttr(a, j, Times(DataWords(a.kind), OldWord)), a, j, DataWords(a.kind))
         /\ AttrSize(a) = DataWords(a.kind) + 1
<1> DEFINE d == DataWords(a.kind) x == OutputAttr(a, j, Times(d, OldWord))
<1> DEFINE word == <<j, "attr">>
           data == IF a.null THEN Times(d, OldWord) ELSE Times(d, word)
           flag == IF a.null THEN Null ELSE NoWord
<1>0. x = OutputAttr(a, j, Times(d, OldWord))
  OBVIOUS
<1>1. d \in Nat \ {0}
  BY LayoutAssumption DEF DataWords
<1>2. word \in Word /\ OldWord \in Word /\ flag \in Word
  BY DEF Word
<1>3. x = data \o <<flag>> /\ AttrSize(a) = d + 1
  BY DEF OutputAttr, AttrSize
<1> HIDE DEF word, flag, x, d
<1>4. data \in Seq(Word) /\ Len(data) = d /\ (~a.null => \A m \in 1..d : data[m] = word)
  <2>1. \A v \in Word : /\ Times(d, v) \in Seq(Word) /\ Len(Times(d, v)) = d
                        /\ \A m \in 1..d : Times(d, v)[m] = v
    BY <1>1 DEF Times
  <2> QED BY <1>2, <2>1
<1> HIDE DEF data
<1>5. <<flag>> \in Seq(Word) /\ Len(<<flag>>) = 1 /\ <<flag>>[1] = flag
  BY <1>2
<1> DEFINE t == <<flag>>
<1> HIDE DEF t
<1>6. t \in Seq(Word) /\ Len(t) = 1 /\ t[1] = flag
  BY <1>5 DEF t
<1>7. /\ data \o t \in Seq(Word) /\ Len(data \o t) = Len(data) + Len(t)
      /\ \A i \in 1..Len(data) : (data \o t)[i] = data[i]
      /\ \A i \in 1..Len(t) : (data \o t)[Len(data) + i] = t[i]
  <2>1. data \in Seq(Word) /\ t \in Seq(Word)
    BY <1>4, <1>6
  <2> QED BY <2>1, ConcatAt
<1>8. x = data \o t
  BY <1>3 DEF t
<1>9. /\ x \in Seq(Word) /\ Len(x) = d + 1 /\ x[d + 1] = flag
      /\ ~a.null => \A m \in 1..d : x[m] = word
  <2>1. 1 \in 1..1
    OBVIOUS
  <2> QED BY <1>1, <1>4, <1>6, <1>7, <1>8, <2>1
<1> QED BY <1>1, <1>3, <1>9, Zenon DEF IsAttrPart, word, flag, d, x

\* Where the words of the attributes are.
AttrAt(attrs, data, o, j) ==
  LET d == DataWords(attrs[j].kind)
  IN /\ o + d + 1 <= Len(data)
     /\ data[o + d + 1] = IF attrs[j].null THEN Null ELSE NoWord
     /\ ~attrs[j].null => \A m \in 1..d : data[o + m] = <<j, "attr">>

AttrsAt(attrs, data, off) ==
  /\ off \in [0..Len(attrs) -> Nat] /\ off[0] = 0
  /\ \A j \in 1..Len(attrs) :
       /\ off[j] = off[j - 1] + DataWords(attrs[j].kind) + 1
       /\ AttrAt(attrs, data, off[j - 1], j)

LEMMA AttrData ==
  ASSUME NEW attrs, attrs \in Seq(Attr)
  PROVE  /\ output_arg(attrs, OldWord) \in Seq(Word)
         /\ \E off : AttrsAt(attrs, output_arg(attrs, OldWord), off)
<1> DEFINE data == output_arg(attrs, OldWord)
           n == Len(attrs)
           d(j) == DataWords(attrs[j].kind)
           part(j) == OutputAttr(attrs[j], j, Times(d(j), OldWord))
           parts == [j \in DOMAIN attrs |-> part(j)]
<1>1. n \in Nat /\ DOMAIN attrs = 1..n /\ \A j \in 1..n : attrs[j] \in Attr /\ j \in Nat
  OBVIOUS
<1>2. data = FlattenSeq(parts)
  BY DEF output_arg
<1>3. ASSUME NEW j \in 1..n
      PROVE  /\ part(j) \in Seq(Word) /\ d(j) \in Nat \ {0} /\ Len(part(j)) = d(j) + 1
             /\ part(j)[d(j) + 1] = IF attrs[j].null THEN Null ELSE NoWord
             /\ ~attrs[j].null => \A m \in 1..d(j) : part(j)[m] = <<j, "attr">>
  <2>1. attrs[j] \in Attr /\ j \in Nat
    BY <1>1, <1>3
  <2>2. IsAttrPart(part(j), attrs[j], j, d(j))
    BY <2>1, AttrStored, Zenon
  <2> QED BY <2>2, Zenon DEF IsAttrPart
<1> HIDE DEF data, n, d, part
<1>4. parts \in Seq(Seq(Word)) /\ Len(parts) = n /\ \A j \in 1..n : parts[j] = part(j)
  <2>1. parts = [j \in 1..n |-> part(j)]
    BY <1>1
  <2> QED BY <1>1, <1>3, <2>1
<1> HIDE DEF parts
<1>5. data \in Seq(Word) /\ \E off : IsJoin(parts, off, data)
  BY <1>2, <1>4, Joined
<1>6. PICK off : IsJoin(parts, off, data)
  BY <1>5
<1>7. ASSUME NEW j \in 1..n
      PROVE  /\ off[j] = off[j - 1] + d(j) + 1 /\ off[j] <= Len(data)
             /\ data[off[j - 1] + d(j) + 1] = IF attrs[j].null THEN Null ELSE NoWord
             /\ ~attrs[j].null => \A m \in 1..d(j) : data[off[j - 1] + m] = <<j, "attr">>
  <2> DEFINE x == part(j)
  <2> HIDE DEF x
  <2>1. /\ x \in Seq(Word) /\ d(j) \in Nat \ {0} /\ Len(x) = d(j) + 1
        /\ x[d(j) + 1] = IF attrs[j].null THEN Null ELSE NoWord
        /\ ~attrs[j].null => \A m \in 1..d(j) : x[m] = <<j, "attr">>
    BY <1>3 DEF x
  <2>2. /\ off[j] = off[j - 1] + Len(x) /\ off[j] <= Len(data)
        /\ \A m \in 1..Len(x) : data[off[j - 1] + m] = x[m]
    BY <1>4, <1>6 DEF IsJoin, x
  <2>3. off[j - 1] \in Nat
    <3>1. j - 1 \in 0..n
      BY <1>1
    <3> QED BY <3>1, <1>4, <1>6 DEF IsJoin
  <2> DEFINE dj == d(j) o == off[j - 1]
  <2>4. dj \in Nat \ {0} /\ o \in Nat
    BY <2>1, <2>3
  <2> HIDE DEF dj, o
  <2>5. o + (dj + 1) = o + dj + 1 /\ dj + 1 \in 1..(dj + 1) /\ \A m \in 1..dj : m \in 1..(dj + 1)
    BY <2>4
  <2>6. \A m \in 1..(dj + 1) : data[o + m] = x[m]
    BY <2>1, <2>2 DEF dj, o
  <2>7. /\ data[o + dj + 1] = x[dj + 1] /\ \A m \in 1..dj : data[o + m] = x[m]
    BY <2>5, <2>6
  <2> QED BY <2>1, <2>2, <2>5, <2>7 DEF dj, o
<1>8. off \in [0..n -> Nat] /\ off[0] = 0
  BY <1>4, <1>6 DEF IsJoin
<1>9. AttrsAt(attrs, data, off)
  <2>1. ASSUME NEW j \in 1..n PROVE off[j] = off[j - 1] + d(j) + 1 /\ AttrAt(attrs, data, off[j - 1], j)
    BY <1>7 DEF AttrAt, d
  <2> QED BY <1>8, <2>1 DEF AttrsAt, n, d
<1> QED BY <1>5, <1>9 DEF data

\* No value was fed to a histogram before the attribute j.
NoHistBefore(attrs, j) ==
  \A h \in DOMAIN attrs : attrs[h].kind = "hist" /\ ~attrs[h].null => h >= j

IsAppended(t, s) == \E e : t = Append(s, e)

LEMMA AttrsLonger ==
  ASSUME NEW attrs, NEW data, NEW acc, NEW j
  PROVE  IsAppended(readAttr(attrs, data, acc, j).shown, acc.shown)
BY DEF readAttr, IsAppended

\* An attribute that is read where it is.
LEMMA AttrRead ==
  ASSUME NEW attrs, NEW data, data \in Seq(Word), NEW j \in Nat, attrs[j] \in Attr, NEW o \in Nat,
         AttrAt(attrs, data, o, j), NEW acc, acc.at = o + 1
  PROVE  LET next == readAttr(attrs, data, acc, j)
         IN /\ next.shown = Append(acc.shown, AttrWords(attrs, j))
            /\ attrs[j].null \/ attrs[j].kind # "hist" =>
                 next.at = o + DataWords(attrs[j].kind) + 1 + 1
<1> DEFINE d == DataWords(attrs[j].kind)
<1>0. /\ o + d + 1 <= Len(data) /\ Len(data) \in Nat
      /\ data[o + d + 1] = IF attrs[j].null THEN Null ELSE NoWord
      /\ ~attrs[j].null => \A m \in 1..d : data[o + m] = <<j, "attr">>
  BY DEF AttrAt
<1> DEFINE null == attrs[j].null kind == attrs[j].kind word == <<j, "attr">>
           next == readAttr(attrs, data, acc, j)
<1>1. d \in Nat \ {0} /\ AttrSize(attrs[j]) = d + 1
  BY LayoutAssumption DEF DataWords, AttrSize
<1>a. d = DataWords(attrs[j].kind)
  OBVIOUS
<1> HIDE DEF d
<1>2. Null # NoWord /\ null \in BOOLEAN
  BY DEF Null, NoWord, Attr
<1>3. acc.at + (d + 1) - 1 = o + d + 1 /\ acc.at + (d + 1) = o + d + 1 + 1
  <2>1. \A x : x = o + 1 => x + (d + 1) - 1 = o + d + 1 /\ x + (d + 1) = o + d + 1 + 1
    BY <1>1
  <2> QED BY <2>1
<1>4. CASE null
  <2>1. data[acc.at + AttrSize(attrs[j]) - 1] # NoWord
    BY <1>0, <1>1, <1>2, <1>3, <1>4
  <2>2. next = [at |-> o + d + 1 + 1, shown |-> Append(acc.shown, <<Null>>)]
    BY <1>1, <1>3, <2>1 DEF readAttr
  <2> QED BY <1>4, <1>a, <2>2 DEF AttrWords
<1>5. CASE ~null
  <2>1. data[acc.at + AttrSize(attrs[j]) - 1] = NoWord
    BY <1>0, <1>1, <1>3, <1>5
  <2>2. Words(data, acc.at, d) = Times(d, word)
    <3> DEFINE x == Times(d, word)
    <3>1. word \in Word
      BY DEF Word
    <3>2. x \in Seq(Word) /\ Len(x) = d /\ \A m \in 1..d : x[m] = word
      <4>1. \A v \in Word : /\ Times(d, v) \in Seq(Word) /\ Len(Times(d, v)) = d
                            /\ \A m \in 1..d : Times(d, v)[m] = v
        BY <1>1 DEF Times
      <4> QED BY <3>1, <4>1
    <3> HIDE DEF x
    <3>a. x # <<>>
      BY <1>1, <3>2
    <3>b. o + d <= Len(data)
      BY <1>0, <1>1
    <3>c. \A m \in 1..d : data[o + m] = x[m]
      BY <1>0, <1>5, <3>2
    <3>3. x # <<>> /\ o + Len(x) <= Len(data) /\ \A m \in 1..Len(x) : data[o + m] = x[m]
      BY <3>a, <3>b, <3>c, <3>2
    <3>4. Words(data, o + 1, Len(x)) = x
      BY <3>2, <3>3, WordsAt
    <3>5. Words(data, acc.at, d) = x
      BY <3>2, <3>4
    <3> QED BY <3>5 DEF x
  <2>3. /\ next.shown = Append(acc.shown, Times(d, word))
        /\ kind # "hist" => next.at = o + d + 1 + 1
    BY <1>1, <1>3, <1>a, <2>1, <2>2 DEF readAttr
  <2> QED BY <1>5, <1>a, <2>3 DEF AttrWords
<1> QED BY <1>4, <1>5, <1>a

\* The reader before the attribute j + 1.
AttrsUpTo(attrs, off, acc, j) ==
  /\ \E S : acc.shown \in Seq(S)
  /\ Len(acc.shown) = j
  /\ NoHistBefore(attrs, j + 1) => acc.at = off[j] + 1
  /\ \A i \in 1..j : NoHistBefore(attrs, i) => acc.shown[i] = AttrWords(attrs, i)

\* So is an attribute with no histogram before it.
LEMMA AttrsSound ==
  ASSUME NEW attrs, attrs \in Seq(Attr)
  PROVE  LET shown == outputFuncArgAttrs(attrs, output_arg(attrs, OldWord))
         IN \A j \in DOMAIN attrs : NoHistBefore(attrs, j) => shown[j] = AttrWords(attrs, j)
<1> DEFINE data == output_arg(attrs, OldWord)
           n == Len(attrs)
           d(j) == DataWords(attrs[j].kind)
<1>0. n \in Nat /\ DOMAIN attrs = 1..n /\ \A j \in 1..n : attrs[j] \in Attr /\ j \in Nat
  OBVIOUS
<1>1. data \in Seq(Word)
  BY AttrData
<1>2. PICK off : AttrsAt(attrs, data, off)
  BY AttrData
<1>b. /\ off \in [0..n -> Nat] /\ off[0] = 0
      /\ \A j \in 1..n : off[j] = off[j - 1] + d(j) + 1 /\ AttrAt(attrs, data, off[j - 1], j)
  BY <1>2 DEF AttrsAt
<1>3. PICK w : IsAttrsWalk(w, attrs, data, n)
  BY <1>0, AttrsWalk
<1> HIDE DEF data, n, d
<1>4. /\ outputFuncArgAttrs(attrs, data) = w[n].shown
      /\ w[0] = ReadBase /\ \A j \in 1..n : w[j] = readAttr(attrs, data, w[j - 1], j)
  BY <1>3 DEF IsAttrsWalk
<1> DEFINE I(j) == AttrsUpTo(attrs, off, w[j], j)
           U == {j \in Nat : j <= n => I(j)}
<1>5. 0 \in U
  <2>1. <<>> \in Seq({}) /\ Len(<<>>) = 0
    OBVIOUS
  <2>2. w[0].at = off[0] + 1 /\ w[0].shown = <<>>
    BY <1>b, <1>4 DEF ReadBase
  <2>3. 1..0 = {}
    OBVIOUS
  <2>4. I(0)
    BY <2>1, <2>2, <2>3 DEF AttrsUpTo
  <2> QED BY <2>4
<1>6. ASSUME NEW k \in Nat, k \in U PROVE k + 1 \in U
  <2> SUFFICES ASSUME k + 1 <= n PROVE I(k + 1)
    OBVIOUS
  <2> DEFINE a == w[k] b == w[k + 1] j == k + 1
  <2>1. j \in 1..n /\ j - 1 = k /\ k \in 0..n /\ k <= n
    BY <1>0
  <2>2. I(k) /\ b = readAttr(attrs, data, a, j)
    BY <1>4, <1>6, <2>1
  <2>c. b = readAttr(attrs, data, a, j)
    BY <2>2
  <2> HIDE DEF a, b, j
  <2>3. PICK S : a.shown \in Seq(S)
    BY <2>2 DEF AttrsUpTo, a
  <2>4. PICK e : b.shown = Append(a.shown, e)
    <3>1. IsAppended(readAttr(attrs, data, a, j).shown, a.shown)
      BY AttrsLonger
    <3> QED BY <2>c, <3>1 DEF IsAppended
  <2>5. Len(a.shown) = k
    BY <2>2 DEF AttrsUpTo, a
  <2>6. /\ b.shown \in Seq(S \cup {e}) /\ Len(b.shown) = k + 1
        /\ b.shown[k + 1] = e /\ \A i \in 1..k : b.shown[i] = a.shown[i]
    <3> DEFINE s == a.shown
    <3>1. s \in Seq(S) /\ Len(s) = k /\ b.shown = Append(s, e)
      BY <2>3, <2>4, <2>5
    <3> HIDE DEF s
    <3>2. /\ Append(s, e) \in Seq(S \cup {e}) /\ Len(Append(s, e)) = Len(s) + 1
          /\ Append(s, e)[Len(s) + 1] = e /\ \A i \in 1..Len(s) : Append(s, e)[i] = s[i]
      BY <3>1, Appended
    <3> QED BY <3>1, <3>2 DEF s
  <2>7. ASSUME NoHistBefore(attrs, k + 1)
        PROVE  /\ e = AttrWords(attrs, k + 1)
               /\ NoHistBefore(attrs, (k + 1) + 1) => b.at = off[k + 1] + 1
    <3>1. a.at = off[k] + 1 /\ off[k] \in Nat
      BY <1>b, <2>1, <2>2, <2>7 DEF AttrsUpTo, a
    <3>2. off[j] = off[k] + d(j) + 1 /\ AttrAt(attrs, data, off[k], j)
      BY <1>b, <2>1
    <3>3. j \in Nat /\ attrs[j] \in Attr
      BY <1>0, <2>1
    <3>4. /\ readAttr(attrs, data, a, j).shown = Append(a.shown, AttrWords(attrs, j))
          /\ attrs[j].null \/ attrs[j].kind # "hist" =>
               readAttr(attrs, data, a, j).at = off[k] + DataWords(attrs[j].kind) + 1 + 1
      BY <1>1, <3>1, <3>2, <3>3, AttrRead
    <3>5. e = AttrWords(attrs, j)
      <4> DEFINE f == AttrWords(attrs, j) s == a.shown
      <4>1. s \in Seq(S) /\ Append(s, e) = Append(s, f)
        BY <2>c, <2>3, <2>4, <3>4
      <4> HIDE DEF f, s
      <4>2. Append(s, e)[Len(s) + 1] = e /\ Append(s, f)[Len(s) + 1] = f
        BY <4>1, Appended
      <4> QED BY <4>1, <4>2 DEF f
    <3>6. NoHistBefore(attrs, (k + 1) + 1) => attrs[j].null \/ attrs[j].kind # "hist"
      <4>1. j \in DOMAIN attrs /\ ~(j >= (k + 1) + 1)
        BY <1>0, <2>1 DEF j
      <4>2. attrs[j].null \in BOOLEAN
        BY <3>3 DEF Attr
      <4> QED BY <4>1, <4>2 DEF NoHistBefore
    <3>7. NoHistBefore(attrs, (k + 1) + 1) => b.at = off[j] + 1
      BY <2>c, <3>2, <3>4, <3>6 DEF d
    <3> QED BY <3>5, <3>7 DEF j
  <2>8. NoHistBefore(attrs, (k + 1) + 1) => NoHistBefore(attrs, k + 1)
    BY <1>0 DEF NoHistBefore
  <2>9. ASSUME NEW i \in 1..(k + 1), NoHistBefore(attrs, i) PROVE b.shown[i] = AttrWords(attrs, i)
    <3>1. CASE i = k + 1
      BY <2>6, <2>7, <2>9, <3>1
    <3>2. CASE i \in 1..k
      BY <2>2, <2>6, <2>9, <3>2 DEF AttrsUpTo, a
    <3> QED BY <3>1, <3>2
  <2>10. \E T : b.shown \in Seq(T)
    BY <2>6
  <2>11. AttrsUpTo(attrs, off, b, k + 1)
    BY <2>6, <2>7, <2>8, <2>9, <2>10 DEF AttrsUpTo
  <2> QED BY <2>11 DEF b
<1> HIDE DEF U
<1>7. I(n)
  <2>1. Nat \subseteq U
    BY <1>5, <1>6, SetInduction
  <2>2. n \in U /\ n <= n
    BY <1>0, <2>1
  <2> QED BY <2>2 DEF U
<1>8. ASSUME NEW j \in DOMAIN attrs, NoHistBefore(attrs, j) PROVE w[n].shown[j] = AttrWords(attrs, j)
  <2>1. j \in 1..n
    BY <1>0
  <2> QED BY <1>7, <1>8, <2>1 DEF AttrsUpTo
<1> QED BY <1>4, <1>8 DEF data, n

-----------------------------------------------------------------------------
\* Arguments, return value and attributes are printed as the program stored
\* them, up to the first struct of two registers and up to the first histogram
\* (outputFnArgs in bpfsnoop_func_args.go, outputFuncArgAttrs in bpfsnoop_arg.go).
THEOREM RecordHolds == Spec => []RecordSound
<1>1. RInv => RecordSound
  <2> SUFFICES ASSUME RInv, NEW c \in Done, printed[c] # Nothing
               PROVE  LET structs == {i \in DOMAIN conf.params : conf.params[i] = "struct"}
                          early(i) == \E j \in structs : j < i
                          hists == {j \in DOMAIN conf.attrs : conf.attrs[j].kind = "hist" /\ ~conf.attrs[j].null}
                      IN /\ \A i \in DOMAIN conf.params :
                              ~early(i) /\ (i \in structs => i < Len(conf.params)) =>
                                printed[c].args[i] = ArgWords(conf.params, i)
                         /\ structs = {} /\ Ret(c) # "none" =>
                              printed[c].args[Len(conf.params) + 1] = Stored(Ret(c), 0)
                         /\ \A j \in DOMAIN conf.attrs :
                              (\A h \in hists : h >= j) => printed[c].attrs[j] = AttrWords(conf.attrs, j)
    BY DEF RecordSound
  <2> DEFINE p == conf.params a == conf.attrs r == Ret(c) l == printed[c]
  <2>1. p \in Seq(ParamKinds) /\ r \in {"none", "num", "numptr", "str"} /\ a \in Seq(Attr)
    <3>1. conf \in Confs
      BY DEF RInv, IInv, Queued
    <3> QED BY <3>1, PayloadAssumption DEF Ret, Attr
  <2>2. /\ l.args = outputFnArgs(p, r, genOutputFuncArgs(p, r))
        /\ l.attrs = outputFuncArgAttrs(a, output_arg(a, OldWord))
    BY DEF RInv, InPlace, LineOf, Args, Attrs
  <2> HIDE DEF r, l
  <2>3. /\ \A i \in DOMAIN p : NoStructBefore(p, i) => ArgShown(p, l.args, i)
        /\ NoStructBefore(p, Len(p) + 1) /\ r # "none" => l.args[Len(p) + 1] = Stored(r, 0)
    BY <2>1, <2>2, ArgsSound
  <2>4. \A j \in DOMAIN a : NoHistBefore(a, j) => l.attrs[j] = AttrWords(a, j)
    BY <2>1, <2>2, AttrsSound
  <2> QED BY <2>1, <2>3, <2>4 DEF NoStructBefore, NoHistBefore, ArgShown, r, l
<1> QED BY <1>1, RecordsInPlace, PTL
=============================================================================
