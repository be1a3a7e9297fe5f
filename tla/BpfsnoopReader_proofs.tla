---------------------- MODULE BpfsnoopReader_proofs ----------------------
(***************************************************************************)
(* Proofs about what the reader of BpfsnoopSession holds, prints and drops *)
(* and that its table and its output are those of CallTrace.  PairingInv   *)
(* says which ids are where; the invariant here says which events are.     *)
(***************************************************************************)
EXTENDS BpfsnoopSession_proofs

-----------------------------------------------------------------------------
(* A call's entry event and its exit event, each from the program to the   *)
(* reader.                                                                 *)

InRing(k, c) == \E i \in 1..Len(ring) : ring[i].kind = k /\ ring[i].call = c
Opened(c) == \E id \in Ids : usess[id] = c
PrintedEntry(c) == \E p \in printed : p[1] = c
PrintedExit(c) == \E p \in printed : p[2] = c

\* A call has one record of each kind, and its entry is before its exit.
RingOrder ==
  /\ \A i \in 1..Len(ring) : ring[i].call <= ncalls
  /\ \A i, j \in 1..Len(ring) : ring[i].kind = ring[j].kind /\ ring[i].call = ring[j].call => i = j
  /\ \A i, j \in 1..Len(ring) :
       ring[i].kind = "exit" /\ ring[j].kind = "entry" /\ ring[i].call = ring[j].call => j < i

\* The program at entry sends one event, which is in one place.
EntryOnce ==
  /\ \A c \in Calls : /\ Opened(c) \/ PrintedEntry(c) => c <= ncalls
                      /\ InRing("entry", c) => ~Opened(c) /\ ~PrintedEntry(c)
                      /\ Opened(c) => ~PrintedEntry(c)
  /\ \A t \in Tasks : pc[t] \in {"entry", "entry_reserve"} =>
       ~InRing("entry", Top(t)) /\ ~Opened(Top(t)) /\ ~PrintedEntry(Top(t))
  /\ \A t \in Tasks : pc[t] = "entry_commit" => InRing("entry", Top(t))

\* So does the one at exit; the call has ended when the reader has the event.
ExitOnce ==
  /\ \A c \in Calls : c \in skipped \/ PrintedExit(c) =>
       /\ c <= ncalls /\ ~InRing("exit", c)
       /\ \A fp \in Frames : frame[fp] # c
  /\ \A fp \in Frames : frame[fp] # NoCall /\ InRing("exit", frame[fp]) =>
       \E t \in Tasks : fp = Fp(t) /\ pc[t] = "exit_commit"
  /\ \A t \in Tasks : pc[t] = "exit_commit" => InRing("exit", Top(t))

OrderInv == RingOrder /\ EntryOnce /\ ExitOnce /\ PrintedOnce

\* The session of a both-mode call that got one is with its frame, then with
\* its exit program, then in its exit event.
HasSession(c) == c \in Calls /\ callee[c] \in BothFuncs /\ sid[c] # NoId /\ c \notin unsaved

OwnSession ==
  \A fp \in Frames : HasSession(frame[fp]) =>
    \/ sessions[fp] # NoElem /\ value[sessions[fp]] = sid[frame[fp]]
    \/ \E t \in Tasks : fp = Fp(t) /\ pc[t] = "exit_read" /\ value[elem[t]] = sid[frame[fp]]
    \/ \E t \in Tasks : /\ fp = Fp(t) /\ pc[t] \in {"exit_reserve", "exit_commit"}
                        /\ reg[t] = Pred(sid[frame[fp]])

OwnRecord ==
  \A i \in 1..Len(ring) : ring[i].kind = "exit" /\ HasSession(ring[i].call) =>
    ring[i].id = Pred(sid[ring[i].call])

\* An entry the reader has, or will have, has an exit to come, or one that was
\* never sent.
Awaited ==
  \A c \in Calls : callee[c] \in BothFuncs /\ (InRing("entry", c) \/ Opened(c)) =>
    \/ \E fp \in Frames : frame[fp] = c
    \/ InRing("exit", c)
    \/ <<"exit", c>> \in lost
    \/ c \in missed \cup unsaved \cup silent

\* As long as its exit may come, a call's entry is on its way to the reader,
\* or in its table under the id, or lost; unless another call has the id.
Shared(c) == \E d \in Calls \ {c} : sid[d] = sid[c]
Expected ==
  missed = {} =>
    \A c \in Calls :
      /\ callee[c] \in RequiredFuncs \cap BothFuncs /\ sid[c] # NoId /\ ~Shared(c)
      /\ (\E fp \in Frames : frame[fp] = c) \/ InRing("exit", c)
      => \/ <<"entry", c>> \in lost
         \/ \E t \in Tasks : pc[t] = "entry_reserve" /\ Top(t) = c
         \/ InRing("entry", c)
         \/ usess[sid[c]] = c

OpenRequired == \A id \in Ids : usess[id] # NoCall => callee[usess[id]] \in RequiredFuncs

\* Without a missed exit program, the exit event that is skipped had an id.
SkippedIds == missed = {} => \A c \in skipped : sid[c] # NoId

ReaderInv == /\ OwnSession /\ OwnRecord /\ OpenRequired /\ Awaited
             /\ Expected /\ SkippedIds /\ SkippedOnlyAfterLoss

LossInv == PairingInv /\ OrderInv /\ ReaderInv

-----------------------------------------------------------------------------
(* The ring buffer.                                                        *)

LEMMA InRingKind ==
  ASSUME TypeOK, NEW i \in 1..Len(ring)
  PROVE  ring[i] \in Record /\ ring[i].call \in Calls /\ ring[i].id \in Ids
         /\ ring[i].kind \in Kinds /\ InRing(ring[i].kind, ring[i].call)
<1>1. ring[i] \in Record
  BY DEF TypeOK
<1> QED BY <1>1 DEF Record, InRing

\* Reserve adds one record at the end.
LEMMA Appended ==
  ASSUME TypeOK, NEW k, NEW r \in Record, r.kind = k, ring' = Append(ring, r)
  PROVE  /\ Len(ring') = Len(ring) + 1 /\ ring'[Len(ring) + 1] = r
         /\ \A i \in 1..Len(ring) : i \in 1..Len(ring') /\ ring'[i] = ring[i]
         /\ \A i \in 1..Len(ring') : i \in 1..Len(ring) \/ i = Len(ring) + 1
         /\ \A j, c : InRing(j, c)' <=> InRing(j, c) \/ (j = k /\ c = r.call)
<1>1. /\ Len(ring') = Len(ring) + 1 /\ ring'[Len(ring) + 1] = r /\ Len(ring) \in Nat
      /\ \A i \in 1..Len(ring) : ring'[i] = ring[i]
  BY DEF TypeOK
<1>2. /\ \A i \in 1..Len(ring) : i \in 1..Len(ring')
      /\ \A i \in 1..Len(ring') : i \in 1..Len(ring) \/ i = Len(ring) + 1
      /\ Len(ring) + 1 \in 1..Len(ring')
  BY <1>1
<1>3. ASSUME NEW j, NEW c
      PROVE  InRing(j, c)' <=> InRing(j, c) \/ (j = k /\ c = r.call)
  BY <1>1, <1>2 DEF InRing
<1> QED BY <1>1, <1>2, <1>3

\* Consume takes the first.
LEMMA Taken ==
  ASSUME TypeOK, RingOrder, ring # <<>>, ring' = Tail(ring)
  PROVE  /\ 1 \in 1..Len(ring) /\ Head(ring) = ring[1]
         /\ \A i \in 1..Len(ring') : i + 1 \in 1..Len(ring) /\ ring'[i] = ring[i + 1]
         /\ \A j, c : InRing(j, c)' <=> /\ InRing(j, c)
                                        /\ j # Head(ring).kind \/ c # Head(ring).call
<1>1. /\ Len(ring) \in Nat /\ Len(ring) > 0 /\ Head(ring) = ring[1] /\ Len(ring') = Len(ring) - 1
      /\ \A i \in 1..Len(ring') : ring'[i] = ring[i + 1]
  BY DEF TypeOK
<1>2. /\ 1 \in 1..Len(ring)
      /\ \A i \in 1..Len(ring') : i + 1 \in 1..Len(ring) /\ i + 1 # 1
      /\ \A i \in 1..Len(ring) : i # 1 => i - 1 \in 1..Len(ring') /\ ring'[i - 1] = ring[i]
  BY <1>1
<1>3. ASSUME NEW j, NEW c
      PROVE  InRing(j, c)' <=> InRing(j, c) /\ (j # ring[1].kind \/ c # ring[1].call)
  <2>1. ASSUME InRing(j, c)' PROVE InRing(j, c) /\ (j # ring[1].kind \/ c # ring[1].call)
    <3>1. PICK i \in 1..Len(ring') : ring'[i].kind = j /\ ring'[i].call = c
      BY <2>1 DEF InRing
    <3>2. i + 1 \in 1..Len(ring) /\ i + 1 # 1 /\ ring[i + 1].kind = j /\ ring[i + 1].call = c
      BY <1>1, <1>2, <3>1
    <3> QED BY <1>2, <3>2 DEF InRing, RingOrder
  <2>2. ASSUME InRing(j, c), j # ring[1].kind \/ c # ring[1].call PROVE InRing(j, c)'
    <3>1. PICK i \in 1..Len(ring) : ring[i].kind = j /\ ring[i].call = c
      BY <2>2 DEF InRing
    <3>2. i - 1 \in 1..Len(ring') /\ ring'[i - 1] = ring[i]
      BY <1>2, <2>2, <3>1
    <3> QED BY <3>1, <3>2 DEF InRing
  <2> QED BY <2>1, <2>2
<1> QED BY <1>1, <1>2, <1>3

\* The entry of the call whose exit is taken has been taken.
LEMMA EntryFirst ==
  ASSUME TypeOK, RingOrder, ring # <<>>, Head(ring).kind = "exit"
  PROVE  ~InRing("entry", Head(ring).call)
<1>1. 1 \in 1..Len(ring) /\ Head(ring) = ring[1] /\ \A j \in 1..Len(ring) : ~(j < 1)
  BY DEF TypeOK
<1> QED BY <1>1 DEF InRing, RingOrder

\* Frames that are not of one task are not of one call.
LEMMA TopsDiffer ==
  ASSUME TypeInv, NEW t \in Tasks, NEW u \in Tasks, pc[t] # "run", pc[u] # "run"
  PROVE  /\ Fp(t) \in Frames /\ Top(t) = frame[Fp(t)] /\ Top(t) \in Calls /\ Top(t) <= ncalls
         /\ Top(t) = Top(u) \/ Fp(t) = Fp(u) => t = u
<1>1. depth[t] > 0 /\ depth[u] > 0
  BY DEF TypeInv, ProgramInv
<1>2. /\ Fp(t) \in Frames /\ Top(t) = frame[Fp(t)] /\ Top(t) \in Calls /\ Top(t) <= ncalls
      /\ Fp(u) \in Frames /\ Top(u) = frame[Fp(u)]
  BY <1>1, TopFrame DEF TypeInv, Top
<1>3. Top(t) # NoCall
  BY <1>2 DEF Calls, NoCall
<1>4. Top(t) = Top(u) => Fp(t) = Fp(u)
  BY <1>2, <1>3 DEF TypeInv, FrameInv
<1>5. Fp(t) = Fp(u) => t = u
  BY DEF Fp
<1> QED BY <1>2, <1>4, <1>5

-----------------------------------------------------------------------------
(* Events are in one place.                                                *)

\* A step that sends no event and handles none.
Idle ==
  /\ UNCHANGED <<ring, usess, printed, skipped>>
  /\ ncalls' \in Nat /\ ncalls <= ncalls'
  /\ \A fp \in Frames : frame'[fp] \in {frame[fp], NoCall} \/ frame'[fp] > ncalls
  /\ \A u \in Tasks :
       /\ pc'[u] \in {"entry", "entry_reserve"} =>
            \/ Top(u)' > ncalls /\ Top(u)' \in Calls
            \/ pc[u] \in {"entry", "entry_reserve"} /\ Top(u)' = Top(u)
       /\ pc'[u] \in {"entry_commit", "exit_commit"} => pc[u] = pc'[u] /\ Top(u)' = Top(u)
       /\ pc[u] = "exit_commit" =>
            frame'[Fp(u)] # frame[Fp(u)] \/ (pc'[u] = "exit_commit" /\ Fp(u)' = Fp(u))

LEMMA OrderInit == Init => OrderInv
BY DEF Init, OrderInv, RingOrder, EntryOnce, ExitOnce, PrintedOnce, InRing, Opened, PrintedEntry,
       PrintedExit, Calls, NoCall

LEMMA OrderIdle ==
  ASSUME TypeInv, OrderInv, Idle
  PROVE  OrderInv'
<1> USE DEF OrderInv
<1>1. /\ \A k, c : InRing(k, c)' <=> InRing(k, c)
      /\ \A c : Opened(c)' <=> Opened(c)
      /\ \A c : PrintedEntry(c)' <=> PrintedEntry(c)
      /\ \A c : PrintedExit(c)' <=> PrintedExit(c)
  BY DEF Idle, InRing, Opened, PrintedEntry, PrintedExit
<1>2. /\ \A i \in 1..Len(ring) : ring[i].call \in Calls
      /\ ncalls \in Nat /\ ncalls' \in Nat /\ ncalls <= ncalls' /\ ring' = ring
      /\ \A c \in Calls : c \in Nat /\ (c <= ncalls => c <= ncalls' /\ ~(c > ncalls))
      /\ \A k : \A c \in Calls : InRing(k, c) => c <= ncalls
  <2>1. \A i \in 1..Len(ring) : ring[i].call \in Calls
    BY InRingKind DEF TypeInv
  <2>2. ncalls \in Nat /\ ncalls' \in Nat /\ ncalls <= ncalls' /\ ring' = ring
    BY ConstantsAssumption DEF Idle, TypeInv, TypeOK
  <2>3. \A c \in Calls : c \in Nat /\ (c <= ncalls => c <= ncalls' /\ ~(c > ncalls))
    BY <2>2 DEF Calls
  <2>4. \A k : \A c \in Calls : InRing(k, c) => c <= ncalls
    BY DEF InRing, RingOrder
  <2> QED BY <2>1, <2>2, <2>3, <2>4
<1>3. RingOrder'
  BY <1>2 DEF RingOrder
<1>4. EntryOnce'
  <2>1. \A c \in Calls : /\ Opened(c)' \/ PrintedEntry(c)' => c <= ncalls'
                         /\ InRing("entry", c)' => ~Opened(c)' /\ ~PrintedEntry(c)'
                         /\ Opened(c)' => ~PrintedEntry(c)'
    BY <1>1, <1>2 DEF EntryOnce
  <2>2. \A t \in Tasks : pc'[t] \in {"entry", "entry_reserve"} =>
           ~InRing("entry", Top(t)') /\ ~Opened(Top(t)') /\ ~PrintedEntry(Top(t)')
    BY <1>2 DEF Idle, EntryOnce
  <2>3. \A t \in Tasks : pc'[t] = "entry_commit" => InRing("entry", Top(t)')
    BY DEF Idle, EntryOnce
  <2> QED BY <1>1, <2>1, <2>2, <2>3 DEF EntryOnce
<1>5. ExitOnce'
  <2>1. ASSUME NEW c \in Calls, c \in skipped' \/ PrintedExit(c)'
        PROVE  c <= ncalls' /\ ~InRing("exit", c)' /\ \A fp \in Frames : frame'[fp] # c
    <3>1. c \in skipped \/ PrintedExit(c)
      BY <1>1, <2>1 DEF Idle
    <3>2. c <= ncalls /\ ~InRing("exit", c) /\ \A fp \in Frames : frame[fp] # c
      BY <3>1 DEF ExitOnce
    <3> QED BY <1>1, <1>2, <3>2 DEF Idle, Calls, NoCall
  <2>2. ASSUME NEW fp \in Frames, frame'[fp] # NoCall, InRing("exit", frame'[fp])
        PROVE  \E t \in Tasks : fp = Fp(t)' /\ pc'[t] = "exit_commit"
    <3>1. frame'[fp] = frame[fp]
      BY <1>2, <2>2 DEF Idle, InRing
    <3>2. PICK t \in Tasks : fp = Fp(t) /\ pc[t] = "exit_commit"
      BY <2>2, <3>1 DEF ExitOnce
    <3> QED BY <3>1, <3>2 DEF Idle
  <2>3. \A t \in Tasks : pc'[t] = "exit_commit" => InRing("exit", Top(t)')
    BY DEF Idle, ExitOnce
  <2> QED BY <1>1, <2>1, <2>2, <2>3 DEF ExitOnce
<1>6. PrintedOnce'
  BY DEF Idle, PrintedOnce
<1> QED BY <1>3, <1>4, <1>5, <1>6

\* The frames of a task that is in a program, and of one in which nothing moves.
LEMMA IdleTracee ==
  ASSUME TypeInv, NEW t \in Tasks, NEW f \in Funcs, Call(t, f) \/ Return(t)
  PROVE  Idle
<1> USE DEF TypeInv
<1>1. /\ \A u \in Tasks : pc[u] # "run" => depth[u] > 0
      /\ \A u \in Tasks : u # t => pc'[u] = pc[u]
      /\ pc[t] = "run" /\ pc'[t] \in {"run", "entry", "exit"}
      /\ UNCHANGED <<ring, usess, printed, skipped>>
  BY DEF ProgramInv, Call, Return, TypeOK, reader
<1>2. \A u \in Tasks : pc[u] # "run" => Fp(u)' = Fp(u) /\ Top(u)' = Top(u)
  BY <1>1, OtherFrames DEF Return
<1>3. CASE Call(t, f)
  <2>1. /\ <<t, depth[t] + 1>> \in Frames /\ ncalls + 1 \in Calls
        /\ ncalls \in Nat /\ ncalls' = ncalls + 1
    BY <1>3, ConstantsAssumption DEF Call, TypeOK, Frames, Calls
  <2>2. /\ frame' = [frame EXCEPT ![<<t, depth[t] + 1>>] = ncalls + 1]
        /\ depth' = [depth EXCEPT ![t] = depth[t] + 1]
    BY <1>3 DEF Call, TypeOK
  <2>3. Top(t)' = ncalls + 1
    BY <2>1, <2>2 DEF Top, Fp, TypeOK
  <2>4. \A fp \in Frames : frame'[fp] = frame[fp] \/ frame'[fp] = ncalls + 1
    BY <2>2 DEF TypeOK
  <2>5. ncalls' \in Nat /\ ncalls <= ncalls' /\ ncalls + 1 > ncalls
    BY <2>1
  <2> QED BY <1>1, <1>2, <2>1, <2>3, <2>4, <2>5 DEF Idle
<1>4. CASE Return(t)
  <2>1. /\ ncalls' = ncalls /\ ncalls \in Nat
        /\ pc'[t] \in {"run", "exit"}
        /\ \A fp \in Frames : frame'[fp] = frame[fp] \/ frame'[fp] = NoCall
    BY <1>4, ConstantsAssumption DEF Return, Pop, kernel, TypeOK
  <2> QED BY <1>1, <1>2, <2>1 DEF Idle
<1> QED BY <1>3, <1>4

LEMMA IdleDone ==
  ASSUME TypeInv, NEW t \in Tasks,
         \/ EntryIgnored(t) \/ ExitMissed(t) \/ ExitNotReady(t) \/ ExitIgnored(t)
         \/ ReserveFails(t) \/ Submit(t)
  PROVE  Idle
<1> USE DEF TypeInv
<1>1. /\ UNCHANGED <<ring, reader>>
      /\ \/ EntryDone(t) /\ UNCHANGED kernel /\ pc[t] \in {"entry", "entry_reserve", "entry_commit"}
         \/ ExitDone(t)
      /\ pc[t] # "run"
  BY DEF EntryIgnored, ExitMissed, ExitNotReady, ExitIgnored, ReserveFails, Submit, Kind
<1>2. \A u \in Tasks : pc[u] # "run" => depth[u] > 0
  BY DEF ProgramInv
<1>3. Pop(t) \/ UNCHANGED kernel
  BY <1>1 DEF ExitDone
<1>4. \A u \in Tasks : pc[u] # "run" /\ u # t => Fp(u)' = Fp(u) /\ Top(u)' = Top(u)
  BY <1>2, <1>3, OtherFrames
<1>5. pc'[t] = "run" /\ \A u \in Tasks \ {t} : pc'[u] = pc[u]
  BY <1>1, DoneType
<1>6. /\ ncalls' = ncalls /\ ncalls \in Nat
      /\ \A fp \in Frames : frame'[fp] = frame[fp] \/ frame'[fp] = NoCall
  BY <1>3, ConstantsAssumption DEF Pop, kernel, TypeOK
<1>7. pc[t] = "exit_commit" => frame'[Fp(t)] # frame[Fp(t)]
  <2>1. Fp(t) \in Frames /\ Top(t) \in Calls /\ frame[Fp(t)] = Top(t)
    BY <1>1, TopsDiffer
  <2>2. pc[t] = "exit_commit" => Pop(t)
    BY <1>1 DEF ExitDone
  <2> QED BY <2>1, <2>2 DEF Pop, TypeOK, Calls, NoCall
<1> QED BY <1>1, <1>4, <1>5, <1>6, <1>7 DEF Idle, reader

LEMMA IdleProgram ==
  ASSUME TypeInv, NEW t \in Tasks,
         \/ EntryAccepted(t) \/ ExitSingle(t) \/ ExitReadDelete(t) \/ ExitDelete(t) \/ ExitRead(t)
  PROVE  Idle
<1>1. /\ UNCHANGED <<kernel, ring, reader>>
      /\ \A u \in Tasks : Fp(u)' = Fp(u) /\ Top(u)' = Top(u)
      /\ \A u \in Tasks \ {t} : pc'[u] = pc[u]
      /\ pc'[t] \in {"entry_reserve", "exit_read", "exit_reserve"}
      /\ pc[t] \in {"entry", "exit", "exit_read"}
      /\ pc'[t] = "entry_reserve" => pc[t] = "entry"
  BY DEF EntryAccepted, ExitSingle, ExitReadDelete, ExitDelete, ExitRead, TypeInv, TypeOK, Fp, Top, kernel
<1>2. ncalls \in Nat
  BY ConstantsAssumption DEF TypeInv, TypeOK
<1> QED BY <1>1, <1>2 DEF Idle, kernel, reader

LEMMA IdleMain ==
  ASSUME TypeInv, Main \/ UNCHANGED vars
  PROVE  Idle
<1>1. /\ UNCHANGED <<kernel, ring, prog, usess, printed, skipped>>
      /\ \A u \in Tasks : Fp(u)' = Fp(u) /\ Top(u)' = Top(u)
  BY DEF Main, SetReady, CloseReader, ClearReady, vars, kernel, Fp, Top, reader
<1>2. ncalls \in Nat
  BY ConstantsAssumption DEF TypeInv, TypeOK
<1> QED BY <1>1, <1>2 DEF Idle, kernel, prog

LEMMA OrderReserve ==
  ASSUME TypeInv, OrderInv, NEW t \in Tasks, Reserve(t)
  PROVE  OrderInv'
<1> USE DEF OrderInv
<1> DEFINE r == [kind |-> Kind(t), id |-> reg[t], call |-> Top(t)]
<1>1. /\ Fp(t) \in Frames /\ Top(t) = frame[Fp(t)] /\ Top(t) \in Calls /\ Top(t) <= ncalls
      /\ \A u \in Tasks : pc[u] # "run" => /\ Fp(u) \in Frames /\ Top(u) \in Calls
                                           /\ Top(u) = frame[Fp(u)]
                                           /\ Top(t) = Top(u) \/ Fp(t) = Fp(u) => t = u
  BY TopsDiffer DEF Reserve
<1>2. /\ \A u \in Tasks : Fp(u)' = Fp(u) /\ Top(u)' = Top(u)
      /\ UNCHANGED <<kernel, reader>>
      /\ \A u \in Tasks \ {t} : pc'[u] = pc[u]
      /\ \/ pc[t] = "entry_reserve" /\ Kind(t) = "entry" /\ pc'[t] = "entry_commit"
         \/ pc[t] = "exit_reserve" /\ Kind(t) = "exit" /\ pc'[t] = "exit_commit"
  <2>1. /\ \A u \in Tasks : Fp(u)' = Fp(u) /\ Top(u)' = Top(u)
        /\ UNCHANGED <<kernel, reader>>
    BY DEF Reserve, Fp, Top, kernel
  <2>2. /\ pc[t] \in {"entry_reserve", "exit_reserve"} /\ pc \in [Tasks -> PCs]
        /\ pc' = [pc EXCEPT ![t] = IF Kind(t) = "entry" THEN "entry_commit" ELSE "exit_commit"]
    BY DEF Reserve, TypeInv, TypeOK
  <2>3. \/ pc[t] = "entry_reserve" /\ Kind(t) = "entry"
        \/ pc[t] = "exit_reserve" /\ Kind(t) = "exit"
    BY <2>2 DEF Kind
  <2> QED BY <2>1, <2>2, <2>3
<1>3. reg[t] \in Ids
  BY <1>2 DEF TypeInv, ProgramInv
<1>4. r \in Record /\ r.kind = Kind(t) /\ r.call = Top(t) /\ ring' = Append(ring, r)
  BY <1>1, <1>2, <1>3 DEF Record, Kinds, Reserve
<1> HIDE DEF r
<1>5. /\ Len(ring') = Len(ring) + 1 /\ ring'[Len(ring) + 1] = r
      /\ \A i \in 1..Len(ring) : i \in 1..Len(ring') /\ ring'[i] = ring[i]
      /\ \A i \in 1..Len(ring') : i \in 1..Len(ring) \/ i = Len(ring) + 1
      /\ \A j, c : InRing(j, c)' <=> InRing(j, c) \/ (j = Kind(t) /\ c = Top(t))
  BY <1>4, Appended DEF TypeInv
<1>6. ~InRing(Kind(t), Top(t))
  <2>1. CASE pc[t] = "entry_reserve"
    BY <1>2, <2>1 DEF EntryOnce
  <2>2. CASE pc[t] = "exit_reserve"
    <3>1. \A u \in Tasks : ~(Fp(t) = Fp(u) /\ pc[u] = "exit_commit")
      BY <1>1, <2>2
    <3>2. frame[Fp(t)] # NoCall
      BY <1>1 DEF Calls, NoCall
    <3> QED BY <1>1, <1>2, <2>2, <3>1, <3>2 DEF ExitOnce
  <2> QED BY <1>2, <2>1, <2>2
<1>7. pc[t] = "entry_reserve" => ~InRing("exit", Top(t))
  <2> SUFFICES ASSUME pc[t] = "entry_reserve" PROVE ~InRing("exit", Top(t))
    OBVIOUS
  <2>1. \A u \in Tasks : ~(Fp(t) = Fp(u) /\ pc[u] = "exit_commit")
    BY <1>1
  <2>2. frame[Fp(t)] # NoCall
    BY <1>1 DEF Calls, NoCall
  <2> QED BY <1>1, <2>1, <2>2 DEF ExitOnce
<1>8. RingOrder'
  <2>1. \A i \in 1..Len(ring') : ring'[i].call <= ncalls'
    BY <1>1, <1>2, <1>4, <1>5 DEF RingOrder, kernel
  <2>2. \A i \in 1..Len(ring) : ~(ring[i].kind = Kind(t) /\ ring[i].call = Top(t))
    BY <1>6 DEF InRing
  <2>3. \A i \in 1..Len(ring) : ~(Kind(t) = "entry" /\ ring[i].kind = "exit" /\ ring[i].call = Top(t))
    BY <1>2, <1>7 DEF InRing
  <2>4. \A i, j \in 1..Len(ring') : ring'[i].kind = ring'[j].kind /\ ring'[i].call = ring'[j].call => i = j
    BY <1>4, <1>5, <2>2 DEF RingOrder
  <2>5. ASSUME NEW i \in 1..Len(ring'), NEW j \in 1..Len(ring'),
               ring'[i].kind = "exit", ring'[j].kind = "entry", ring'[i].call = ring'[j].call
        PROVE  j < i
    <3>1. Len(ring) \in Nat /\ \A k \in 1..Len(ring) : k < Len(ring) + 1
      BY DEF TypeInv, TypeOK
    <3>2. CASE i \in 1..Len(ring) /\ j \in 1..Len(ring)
      BY <1>5, <2>5, <3>2 DEF RingOrder
    <3>3. CASE i = Len(ring) + 1
      BY <1>4, <1>5, <2>5, <3>1, <3>3
    <3>4. CASE j = Len(ring) + 1 /\ i \in 1..Len(ring)
      BY <1>4, <1>5, <2>3, <2>5, <3>4
    <3> QED BY <1>5, <3>2, <3>3, <3>4
  <2> QED BY <2>1, <2>4, <2>5 DEF RingOrder
<1>9. /\ \A c : Opened(c)' <=> Opened(c)
      /\ \A c : PrintedEntry(c)' <=> PrintedEntry(c)
      /\ \A c : PrintedExit(c)' <=> PrintedExit(c)
      /\ ncalls' = ncalls /\ frame' = frame /\ skipped' = skipped
  BY <1>2 DEF Opened, PrintedEntry, PrintedExit, reader, kernel
<1>10. EntryOnce'
  <2>1. \A c \in Calls : /\ Opened(c)' \/ PrintedEntry(c)' => c <= ncalls'
                         /\ InRing("entry", c)' => ~Opened(c)' /\ ~PrintedEntry(c)'
                         /\ Opened(c)' => ~PrintedEntry(c)'
    BY <1>2, <1>5, <1>9 DEF EntryOnce
  <2>2. \A u \in Tasks : pc'[u] \in {"entry", "entry_reserve"} =>
          ~InRing("entry", Top(u))' /\ ~Opened(Top(u)) /\ ~PrintedEntry(Top(u))
    BY <1>1, <1>2, <1>5 DEF EntryOnce
  <2>3. \A u \in Tasks : pc'[u] = "entry_commit" => InRing("entry", Top(u))'
    BY <1>2, <1>5 DEF EntryOnce
  <2> QED BY <1>2, <1>9, <2>1, <2>2, <2>3 DEF EntryOnce
<1>11. ExitOnce'
  <2>1. ASSUME NEW c \in Calls, c \in skipped \/ PrintedExit(c)
        PROVE  c <= ncalls /\ ~InRing("exit", c)' /\ \A fp \in Frames : frame[fp] # c
    BY <1>1, <1>5, <2>1 DEF ExitOnce
  <2>2. ASSUME NEW fp \in Frames, frame[fp] # NoCall, InRing("exit", frame[fp])'
        PROVE  \E u \in Tasks : fp = Fp(u) /\ pc'[u] = "exit_commit"
    <3>1. CASE InRing("exit", frame[fp])
      <4>1. PICK u \in Tasks : fp = Fp(u) /\ pc[u] = "exit_commit"
        BY <2>2, <3>1 DEF ExitOnce
      <4> QED BY <1>2, <4>1
    <3>2. CASE Kind(t) = "exit" /\ frame[fp] = Top(t)
      <4>1. fp = Fp(t)
        BY <1>1, <2>2, <3>2 DEF TypeInv, FrameInv
      <4>2. pc'[t] = "exit_commit"
        BY <1>2, <3>2
      <4> QED BY <4>1, <4>2
    <3> QED BY <1>5, <1>9, <2>2, <3>1, <3>2
  <2>3. \A u \in Tasks : pc'[u] = "exit_commit" => InRing("exit", Top(u))'
    BY <1>2, <1>5 DEF ExitOnce
  <2> QED BY <1>2, <1>9, <2>1, <2>2, <2>3 DEF ExitOnce
<1>12. PrintedOnce'
  BY <1>2 DEF PrintedOnce, reader
<1> QED BY <1>8, <1>10, <1>11, <1>12

\* A call is in the table under its own id only.
LEMMA OneSlot ==
  ASSUME TableFlow, NEW i \in Ids, NEW j \in Ids, usess[i] = usess[j], usess[i] # NoCall
  PROVE  i = j
BY DEF TableFlow

\* The program that sent the exit has ended, and its call with it.
LEMMA Ended ==
  ASSUME TypeInv, OrderInv, Consume, Head(ring).kind = "exit"
  PROVE  \A fp \in Frames : frame[fp] # Head(ring).call
<1> DEFINE rec == Head(ring)
<1>1. ring # <<>> /\ rec = ring[1] /\ 1 \in 1..Len(ring) /\ ~Busy(rec)
  BY DEF Consume, TypeInv, TypeOK
<1>2. rec.call \in Calls /\ InRing("exit", rec.call)
  BY <1>1, InRingKind DEF TypeInv
<1> SUFFICES ASSUME NEW fp \in Frames, frame[fp] = rec.call PROVE FALSE
  OBVIOUS
<1>3. PICK t \in Tasks : fp = Fp(t) /\ pc[t] = "exit_commit"
  BY <1>2 DEF OrderInv, ExitOnce, Calls, NoCall
<1> QED BY <1>1, <1>3 DEF Busy, Kind, Top

\* The ways to handle a record, by what they do to the calls.
Adds(rec)  == /\ rec.kind = "entry" /\ callee[rec.call] \in RequiredFuncs
              /\ usess' = [usess EXCEPT ![rec.id] = rec.call]
              /\ printed' = printed /\ skipped' = skipped
Skips(rec) == /\ rec.kind = "exit" /\ callee[rec.call] \in RequiredFuncs
              /\ usess[Succ(rec.id)] = NoCall
              /\ skipped' = skipped \cup {rec.call}
              /\ usess' = usess /\ printed' = printed
Frees(rec) == /\ rec.kind = "exit" /\ callee[rec.call] \in RequiredFuncs
              /\ usess[Succ(rec.id)] # NoCall
              /\ usess' = [usess EXCEPT ![Succ(rec.id)] = NoCall]
              /\ skipped' = skipped
              /\ \/ printed' = printed
                 \/ printed' = printed \cup {<<usess[Succ(rec.id)], rec.call>>}
Passes(rec) == /\ callee[rec.call] \notin RequiredFuncs
               /\ usess' = usess /\ printed' = printed /\ skipped' = skipped

LEMMA ConsumeCases ==
  ASSUME TypeInv, Consume
  PROVE  /\ LET rec == Head(ring) IN Adds(rec) \/ Skips(rec) \/ Frees(rec) \/ Passes(rec)
         /\ ring # <<>> /\ ring' = Tail(ring) /\ ~Busy(Head(ring))
         /\ UNCHANGED <<ready, kernel, prog, map, history>>
         /\ \A u \in Tasks : Fp(u)' = Fp(u) /\ Top(u)' = Top(u)
BY DEF Consume, HandleEntry, HandleExitSkip, HandleExitTooShort, HandleExitPrint, HandleStandalone,
       Adds, Skips, Frees, Passes, kernel, Fp, Top

LEMMA HeadFields ==
  ASSUME TypeInv, OrderInv, ring # <<>>
  PROVE  LET rec == Head(ring) IN
         /\ rec = ring[1] /\ 1 \in 1..Len(ring)
         /\ rec \in Record /\ rec.call \in Calls /\ rec.call <= ncalls
         /\ rec.id \in Ids /\ Succ(rec.id) \in Ids /\ rec.kind \in Kinds
         /\ InRing(rec.kind, rec.call)
<1>1. Head(ring) = ring[1] /\ 1 \in 1..Len(ring)
  BY DEF TypeInv, TypeOK
<1>2. ring[1] \in Record /\ ring[1].call \in Calls /\ ring[1].id \in Ids /\ ring[1].kind \in Kinds
      /\ InRing(ring[1].kind, ring[1].call) /\ ring[1].call <= ncalls
  BY <1>1, InRingKind DEF TypeInv, OrderInv, RingOrder
<1> QED BY <1>1, <1>2, SuccType

LEMMA OrderConsume ==
  ASSUME PairingInv, OrderInv, Consume
  PROVE  OrderInv'
<1> DEFINE rec == Head(ring)
<1> USE DEF PairingInv, FlowInv, TypeInv, OrderInv
<1>1. /\ Adds(rec) \/ Skips(rec) \/ Frees(rec) \/ Passes(rec)
      /\ ring # <<>> /\ ring' = Tail(ring) /\ ~Busy(rec)
      /\ UNCHANGED <<ready, kernel, prog, map, history>>
      /\ \A u \in Tasks : Fp(u)' = Fp(u) /\ Top(u)' = Top(u)
  BY ConsumeCases
<1>2. /\ rec = ring[1] /\ rec \in Record /\ rec.call \in Calls /\ rec.call <= ncalls
      /\ rec.id \in Ids /\ Succ(rec.id) \in Ids /\ rec.kind \in Kinds /\ InRing(rec.kind, rec.call)
  BY <1>1, HeadFields
<1>3. /\ 1 \in 1..Len(ring)
      /\ \A i \in 1..Len(ring') : i + 1 \in 1..Len(ring) /\ ring'[i] = ring[i + 1]
      /\ \A j, c : InRing(j, c)' <=> InRing(j, c) /\ (j # rec.kind \/ c # rec.call)
  BY <1>1, Taken
<1>4. /\ rec.kind = "exit" => ~InRing("entry", rec.call)
      /\ rec.kind = "exit" => \A fp \in Frames : frame[fp] # rec.call
  BY <1>1, EntryFirst, Ended
<1>5. /\ usess \in [Ids -> Calls \cup {NoCall}] /\ printed \subseteq Calls \X Calls
      /\ frame' = frame /\ pc' = pc /\ ncalls' = ncalls
      /\ \A c \in Calls : c # NoCall
  BY <1>1 DEF TypeOK, kernel, prog, Calls, NoCall
<1> HIDE DEF rec
<1>6. RingOrder'
  <2>1. \A i \in 1..Len(ring') : i \in Int
    OBVIOUS
  <2>2. \A i \in 1..Len(ring') : ring'[i].call <= ncalls'
    BY <1>3, <1>5 DEF RingOrder
  <2>3. \A i, j \in 1..Len(ring') : ring'[i].kind = ring'[j].kind /\ ring'[i].call = ring'[j].call => i = j
    BY <1>3, <2>1 DEF RingOrder
  <2>4. \A i, j \in 1..Len(ring') :
          ring'[i].kind = "exit" /\ ring'[j].kind = "entry" /\ ring'[i].call = ring'[j].call => j < i
    BY <1>3, <2>1 DEF RingOrder
  <2> QED BY <2>2, <2>3, <2>4 DEF RingOrder
\* What becomes of the entries: one moves from the ring buffer to the table, or
\* from there to what is printed.
<1>7. /\ \A c \in Calls : Opened(c)' => Opened(c) \/ (rec.kind = "entry" /\ c = rec.call)
      /\ \A c \in Calls : PrintedEntry(c)' => PrintedEntry(c) \/ (Opened(c) /\ ~Opened(c)')
      /\ \A c \in Calls : PrintedExit(c)' \/ c \in skipped' =>
            PrintedExit(c) \/ c \in skipped \/ (rec.kind = "exit" /\ c = rec.call)
      /\ PrintedOnce'
  <2>1. CASE Adds(rec)
    BY <1>2, <1>5, <2>1 DEF Adds, Opened, PrintedEntry, PrintedExit, PrintedOnce
  <2>2. CASE Skips(rec) \/ Passes(rec)
    BY <2>2 DEF Skips, Passes, Opened, PrintedEntry, PrintedExit, PrintedOnce
  <2>3. CASE Frees(rec)
    <3>0. PICK a \in Calls : a = usess[Succ(rec.id)]
      BY <1>2, <1>5, <2>3 DEF Frees
    <3>1. a \in Calls /\ Opened(a)
      BY <1>2, <3>0 DEF Opened
    <3>2. \A i \in Ids : usess[i] = a => i = Succ(rec.id)
      BY <1>2, <1>5, <3>0, OneSlot
    <3>3. usess' = [usess EXCEPT ![Succ(rec.id)] = NoCall]
      BY <2>3 DEF Frees
    <3>4. ~Opened(a)' /\ \A c \in Calls : Opened(c)' => Opened(c)
      BY <1>2, <1>5, <3>1, <3>2, <3>3 DEF Opened
    <3>5. printed' = printed \/ printed' = printed \cup {<<a, rec.call>>}
      BY <2>3, <3>0 DEF Frees
    <3>6. \A c \in Calls : PrintedEntry(c)' => PrintedEntry(c) \/ c = a
      BY <3>5 DEF PrintedEntry
    <3>7. \A c \in Calls : PrintedExit(c)' => PrintedExit(c) \/ c = rec.call
      BY <3>5 DEF PrintedExit
    <3>8. ~PrintedEntry(a) /\ ~PrintedExit(rec.call)
      BY <1>2, <2>3, <3>1 DEF EntryOnce, ExitOnce, Frees
    <3>9. PrintedOnce'
      <4>1. \A p \in printed : p[1] # a /\ p[2] # rec.call
        BY <3>8 DEF PrintedEntry, PrintedExit
      <4>2. \A p, q \in printed : p[1] = q[1] \/ p[2] = q[2] => p = q
        BY DEF PrintedOnce
      <4>3. PICK n : n = <<a, rec.call>> /\ n[1] = a /\ n[2] = rec.call
        <5>1. <<a, rec.call>>[1] = a /\ <<a, rec.call>>[2] = rec.call
          OBVIOUS
        <5> QED BY <5>1
      <4>4. \A p \in printed' : p \in printed \/ p = n
        BY <3>5, <4>3
      <4>5. \A p, q \in printed' : p[1] = q[1] \/ p[2] = q[2] => p = q
        BY <4>1, <4>2, <4>3, <4>4
      <4> QED BY <4>5 DEF PrintedOnce
    <3> QED BY <2>3, <3>1, <3>4, <3>6, <3>7, <3>9 DEF Frees
  <2> QED BY <1>1, <2>1, <2>2, <2>3
<1>8. \A t \in Tasks : pc[t] # "run" => Top(t) \in Calls
  BY TopsDiffer
<1>9. EntryOnce'
  <2>1. ASSUME NEW c \in Calls
        PROVE  /\ Opened(c)' \/ PrintedEntry(c)' => c <= ncalls'
               /\ InRing("entry", c)' => ~Opened(c)' /\ ~PrintedEntry(c)'
               /\ Opened(c)' => ~PrintedEntry(c)'
    BY <1>2, <1>3, <1>5, <1>7 DEF EntryOnce
  <2>2. ASSUME NEW t \in Tasks, pc[t] \in {"entry", "entry_reserve"}
        PROVE  ~InRing("entry", Top(t))' /\ ~Opened(Top(t))' /\ ~PrintedEntry(Top(t))'
    <3>1. PICK c \in Calls : c = Top(t)
      BY <1>8, <2>2
    <3>2. ~InRing("entry", c) /\ ~Opened(c) /\ ~PrintedEntry(c)
      BY <2>2, <3>1 DEF EntryOnce
    <3>3. c # rec.call \/ rec.kind # "entry"
      BY <1>2, <3>2
    <3>4. ~InRing("entry", c)' /\ ~Opened(c)' /\ ~PrintedEntry(c)'
      BY <1>3, <1>7, <3>2, <3>3
    <3>5. Top(t)' = c
      BY <1>1, <3>1
    <3> QED BY <3>4, <3>5
  <2>3. ASSUME NEW t \in Tasks, pc[t] = "entry_commit"
        PROVE  InRing("entry", Top(t))'
    <3>1. InRing("entry", Top(t)) /\ Top(t)' = Top(t)
      BY <1>1, <2>3 DEF EntryOnce
    <3>2. "entry" # rec.kind \/ Top(t) # rec.call
      BY <1>1, <2>3 DEF Busy, Kind
    <3> QED BY <1>3, <3>1, <3>2
  <2> QED BY <1>5, <2>1, <2>2, <2>3 DEF EntryOnce
<1>10. ExitOnce'
  <2>1. ASSUME NEW c \in Calls, c \in skipped' \/ PrintedExit(c)'
        PROVE  c <= ncalls' /\ ~InRing("exit", c)' /\ \A fp \in Frames : frame'[fp] # c
    BY <1>2, <1>3, <1>4, <1>5, <1>7, <2>1 DEF ExitOnce
  <2>2. ASSUME NEW fp \in Frames, frame'[fp] # NoCall, InRing("exit", frame[fp])'
        PROVE  \E t \in Tasks : fp = Fp(t)' /\ pc'[t] = "exit_commit"
    BY <1>1, <1>3, <1>5, <2>2 DEF ExitOnce
  <2>3. ASSUME NEW t \in Tasks, pc[t] = "exit_commit"
        PROVE  InRing("exit", Top(t))'
    <3>1. InRing("exit", Top(t)) /\ Top(t)' = Top(t)
      BY <1>1, <2>3 DEF ExitOnce
    <3>2. "exit" # rec.kind \/ Top(t) # rec.call
      BY <1>1, <2>3 DEF Busy, Kind
    <3> QED BY <1>3, <3>1, <3>2
  <2> QED BY <1>5, <2>1, <2>2, <2>3 DEF ExitOnce
<1> QED BY <1>6, <1>7, <1>9, <1>10

LEMMA OrderStep == PairingInv /\ OrderInv /\ [Next]_vars => OrderInv'
<1> SUFFICES ASSUME PairingInv, OrderInv, [Next]_vars PROVE OrderInv'
  OBVIOUS
<1> USE DEF PairingInv
<1>1. CASE \E t \in Tasks, f \in Funcs : Call(t, f)
  BY <1>1, IdleTracee, OrderIdle
<1>2. ASSUME NEW t \in Tasks, Return(t) PROVE OrderInv'
  <2>1. Func(t) \in Funcs
    BY <1>2, TopFrame DEF Return, TypeInv
  <2> QED BY <1>2, <2>1, IdleTracee, OrderIdle
<1>3. ASSUME NEW t \in Tasks, Program(t) PROVE OrderInv'
  BY <1>3, IdleDone, IdleProgram, OrderIdle, OrderReserve DEF Program, EntryProgram, ExitProgram
<1>4. CASE Main \/ UNCHANGED vars
  BY <1>4, IdleMain, OrderIdle
<1>5. CASE Consume
  BY <1>5, OrderConsume
<1> QED BY <1>1, <1>2, <1>3, <1>4, <1>5 DEF Next

LEMMA OrderInvariant == SafeRead => (Spec => [](PairingInv /\ OrderInv))
<1> SUFFICES ASSUME SafeRead PROVE Spec => [](PairingInv /\ OrderInv)
  OBVIOUS
<1>1. PairingInv /\ OrderInv /\ [Next]_vars => OrderInv'
  BY OrderStep
<1> QED BY <1>1, OrderInit, PairingInvariant, PTL DEF Spec

\* An entry is printed with one exit at most, and an exit once: each event of a
\* call is in one place, and the reader takes it from there.
THEOREM PrintedOnceHolds == SafeRead => (Spec => []PrintedOnce)
<1> SUFFICES ASSUME SafeRead PROVE Spec => []PrintedOnce
  OBVIOUS
<1>1. OrderInv => PrintedOnce
  BY DEF OrderInv
<1> QED BY <1>1, OrderInvariant, PTL

-----------------------------------------------------------------------------
(* The reader implements CallTrace.                                        *)

Held0 == {usess[id] : id \in Ids} \ {NoCall}

\* Adding an entry holds a call that was not held; the exit of a call frees
\* that call and no other.
LEMMA TraceConsume ==
  ASSUME PairingInv, OrderInv, FreshInv, FreshRnd, ~ExitMayMiss, Consume
  PROVE  [Trace!Next]_(Trace!vars)
<1> DEFINE rec == Head(ring)
<1> USE DEF PairingInv, FlowInv, TypeInv, OrderInv
<1>1. /\ Adds(rec) \/ Skips(rec) \/ Frees(rec) \/ Passes(rec)
      /\ ring # <<>> /\ ring' = Tail(ring)
  BY ConsumeCases
<1>2. /\ rec = ring[1] /\ rec \in Record /\ rec.call \in Calls /\ 1 \in 1..Len(ring)
      /\ rec.id \in Ids /\ Succ(rec.id) \in Ids /\ rec.kind \in Kinds /\ InRing(rec.kind, rec.call)
      /\ RecordFlow(rec)
  BY <1>1, HeadFields DEF RingFlow
<1>3. /\ usess \in [Ids -> Calls \cup {NoCall}] /\ \A c \in Calls : c # NoCall
      /\ \A id \in Ids : usess[id] # NoCall => sid[usess[id]] = id
      /\ NoId \notin Ids
  BY NoneAssumption DEF TypeOK, Calls, NoCall, TableFlow
<1>4. \A c, d \in Calls : sid[c] = sid[d] /\ sid[c] # NoId => c = d
  BY DEF FreshInv
<1> HIDE DEF rec
<1>5. CASE Adds(rec)
  <2>1. rec.id = sid[rec.call]
    BY <1>2, <1>5 DEF Adds, RecordFlow
  <2>2. ~Opened(rec.call) /\ ~PrintedEntry(rec.call)
    BY <1>2, <1>5 DEF Adds, EntryOnce
  <2>3. usess[rec.id] = NoCall
    <3> SUFFICES ASSUME usess[rec.id] # NoCall PROVE FALSE
      OBVIOUS
    <3>1. usess[rec.id] \in Calls /\ sid[usess[rec.id]] = sid[rec.call] /\ sid[rec.call] # NoId
      BY <1>2, <1>3, <2>1
    <3>2. usess[rec.id] = rec.call
      BY <1>2, <1>4, <3>1
    <3> QED BY <1>2, <2>2, <3>2 DEF Opened
  <2>4. usess' = [usess EXCEPT ![rec.id] = rec.call] /\ printed' = printed
    BY <1>5 DEF Adds
  <2>5. Held0' = Held0 \cup {rec.call} /\ rec.call \notin Held0
    BY <1>2, <1>3, <2>2, <2>3, <2>4 DEF Held0, Opened
  <2>6. <<rec.call, rec.call>> \notin printed
    BY <2>2 DEF PrintedEntry
  <2>7. PICK c \in Calls : c = rec.call
    BY <1>2
  <2>8. Held0' = Held0 \cup {c} /\ c \notin Held0 /\ <<c, c>> \notin printed /\ printed' = printed
    BY <2>4, <2>5, <2>6, <2>7
  <2>9. Trace!Hold(c)
    BY <2>8 DEF Trace!Hold, Held0
  <2> QED BY <2>9 DEF Trace!Next
<1>6. CASE Frees(rec)
  <2>1. PICK a \in Calls : a = usess[Succ(rec.id)]
    BY <1>2, <1>3, <1>6 DEF Frees
  <2>2. PICK x \in Ids : rec.id = Pred(x) /\ IdOf(x, {rec.call} \cup missed)
    BY <1>2, <1>6, ConstantsAssumption DEF Frees, RecordFlow
  <2>3. Succ(rec.id) = x /\ x = sid[rec.call]
    BY <2>2, PredSucc DEF FreshInv, IdOf
  <2>4. a = rec.call
    BY <1>2, <1>3, <1>4, <2>1, <2>3
  <2>5. \A i \in Ids : usess[i] = a => i = Succ(rec.id)
    BY <1>2, <1>3, <2>1, OneSlot
  <2>6. usess' = [usess EXCEPT ![Succ(rec.id)] = NoCall]
    BY <1>6 DEF Frees
  <2>7. Held0' = Held0 \ {a} /\ a \in Held0
    BY <1>2, <1>3, <2>1, <2>5, <2>6 DEF Held0
  <2>8. printed' = printed \/ printed' = printed \cup {<<a, a>>}
    BY <1>6, <2>1, <2>4 DEF Frees
  <2>9. Trace!PrintCall(a) \/ Trace!Drop(a)
    BY <2>7, <2>8 DEF Trace!PrintCall, Trace!Drop, Held0
  <2> QED BY <2>9 DEF Trace!Next
<1>7. CASE Skips(rec) \/ Passes(rec)
  BY <1>7 DEF Skips, Passes, Trace!vars
<1> QED BY <1>1, <1>5, <1>6, <1>7

LEMMA TraceStep ==
  ASSUME PairingInv, OrderInv, FreshInv, FreshRnd, ~ExitMayMiss, [Next]_vars
  PROVE  [Trace!Next]_(Trace!vars)
<1>1. CASE Consume
  BY <1>1, TraceConsume
<1>2. CASE ~Consume
  <2>1. usess' = usess /\ printed' = printed
    BY <1>2 DEF Next, Program, EntryProgram, ExitProgram, Call, Return, EntryIgnored, EntryAccepted,
       ExitMissed, ExitNotReady, ExitIgnored, ExitSingle, ExitReadDelete, ExitDelete, ExitRead,
       Reserve, ReserveFails, Submit, Main, SetReady, CloseReader, ClearReady, reader, vars
  <2> QED BY <2>1 DEF Trace!vars
<1> QED BY <1>1, <1>2

\* Where no two calls draw the same id and the kernel runs every exit program,
\* the reader's table and its output are those of CallTrace: a call is held
\* once, printed with its own exit or dropped, and not held again.
THEOREM Refinement ==
  SafeRead /\ FreshRnd /\ ~ExitMayMiss => (Spec => ImplementsCallTrace)
<1> SUFFICES ASSUME SafeRead, FreshRnd, ~ExitMayMiss PROVE Spec => ImplementsCallTrace
  OBVIOUS
<1>1. Init => Trace!Init
  BY IdsPositive DEF Init, Trace!Init
<1>2. Init => FreshInv
  BY DEF Init, FreshInv
<1>3. PairingInv /\ FreshInv /\ [Next]_vars => FreshInv'
  BY FreshStep
<1>4. PairingInv /\ OrderInv /\ FreshInv /\ [Next]_vars => [Trace!Next]_(Trace!vars)
  BY TraceStep
<1> QED BY <1>1, <1>2, <1>3, <1>4, OrderInvariant, PTL DEF Spec, ImplementsCallTrace, Trace!Spec

-----------------------------------------------------------------------------
(* Losses.                                                                 *)

LEMMA ReaderInit == Init => ReaderInv
<1> SUFFICES ASSUME Init PROVE ReaderInv
  OBVIOUS
<1>1. OwnSession /\ OwnRecord /\ OpenRequired
  BY DEF Init, OwnSession, OwnRecord, OpenRequired, HasSession
<1>2. Awaited /\ Expected /\ SkippedIds /\ SkippedOnlyAfterLoss
  BY DEF Init, Awaited, Expected, SkippedIds, SkippedOnlyAfterLoss, InRing, Opened, Calls, NoCall
<1> QED BY <1>1, <1>2 DEF ReaderInv

\* A call whose frame may go without its exit event being sent.
Excused(c) ==
  \/ callee[c] \notin BothFuncs \/ sid[c] = NoId
  \/ InRing("exit", c)
  \/ <<"exit", c>> \in lost'
  \/ c \in missed' \cup unsaved \cup silent'

\* A step of the kernel that sends no event and draws no id.
Still ==
  /\ UNCHANGED <<ring, usess, skipped, sid, unsaved>>
  /\ \A c \in Calls : callee[c] \in Funcs => callee'[c] = callee[c]
  /\ lost \subseteq lost' /\ missed \subseteq missed' /\ silent \subseteq silent'
  /\ \A fp \in Frames : frame'[fp] \in {frame[fp], NoCall} \/ frame'[fp] > ncalls
  /\ \A u \in Tasks : pc[u] = "entry_reserve" =>
       \/ pc'[u] = "entry_reserve" /\ Top(u)' = Top(u)
       \/ <<"entry", Top(u)>> \in lost'
  /\ \A fp \in Frames : frame[fp] # NoCall /\ frame'[fp] # frame[fp] => Excused(frame[fp])

\* What a call that has drawn its id, or whose events are there, keeps.
LEMMA Known ==
  ASSUME TypeInv, OrderInv, NEW c \in Calls,
         sid[c] # NoId \/ InRing("entry", c) \/ InRing("exit", c) \/ Opened(c)
  PROVE  c <= ncalls /\ callee[c] \in Funcs
<1>1. \A k : InRing(k, c) => c <= ncalls
  BY DEF OrderInv, RingOrder, InRing
<1>2. Opened(c) => c <= ncalls
  BY DEF OrderInv, EntryOnce
<1>3. c \in Nat /\ ncalls \in Nat
  BY ConstantsAssumption DEF TypeInv, TypeOK, Calls
<1>4. c <= ncalls
  BY <1>1, <1>2, <1>3 DEF TypeInv, FrameInv
<1> QED BY <1>4 DEF TypeInv, FrameInv

LEMMA EntryHasId ==
  ASSUME PairingInv, NEW c \in Calls, InRing("entry", c) \/ Opened(c)
  PROVE  sid[c] \in Ids
<1>1. CASE InRing("entry", c)
  <2>1. PICK i \in 1..Len(ring) : ring[i].kind = "entry" /\ ring[i].call = c
    BY <1>1 DEF InRing
  <2> QED BY <2>1, InRingKind DEF PairingInv, TypeInv, FlowInv, RingFlow, RecordFlow
<1>2. CASE Opened(c)
  BY <1>2 DEF PairingInv, FlowInv, TableFlow, Opened, Calls, NoCall
<1> QED BY <1>1, <1>2

\* All but OwnSession is kept by such a step.
LEMMA StillReader ==
  ASSUME PairingInv, OrderInv, ReaderInv, Still
  PROVE  OwnRecord' /\ OpenRequired' /\ Awaited' /\ Expected' /\ SkippedIds' /\ SkippedOnlyAfterLoss'
<1> USE DEF PairingInv, ReaderInv
<1>1. /\ \A k, c : InRing(k, c)' <=> InRing(k, c)
      /\ \A c : Opened(c)' <=> Opened(c)
      /\ \A c : Shared(c)' <=> Shared(c)
      /\ ring' = ring /\ usess' = usess /\ skipped' = skipped /\ sid' = sid /\ unsaved' = unsaved
      /\ lost \subseteq lost' /\ missed \subseteq missed' /\ silent \subseteq silent'
  BY DEF Still, InRing, Opened, Shared
<1>2. \A c \in Calls : sid[c] # NoId \/ InRing("entry", c) \/ InRing("exit", c) \/ Opened(c) =>
        callee[c] \in Funcs /\ callee'[c] = callee[c] /\ c <= ncalls
  BY Known DEF Still
<1>3. OwnRecord'
  <2>1. \A i \in 1..Len(ring) : HasSession(ring[i].call)' => HasSession(ring[i].call)
    BY <1>1, <1>2, InRingKind DEF HasSession, TypeInv
  <2> QED BY <1>1, <2>1 DEF OwnRecord
<1>4. OpenRequired'
  <2>1. \A id \in Ids : usess[id] # NoCall => usess[id] \in Calls /\ Opened(usess[id])
    BY DEF TypeInv, TypeOK, Opened
  <2> QED BY <1>1, <1>2, <2>1 DEF OpenRequired
<1>5. Awaited'
  <2> SUFFICES ASSUME NEW c \in Calls, callee'[c] \in BothFuncs, InRing("entry", c) \/ Opened(c)
               PROVE  \/ \E fp \in Frames : frame'[fp] = c
                      \/ InRing("exit", c)
                      \/ <<"exit", c>> \in lost'
                      \/ c \in missed' \cup unsaved \cup silent'
    BY <1>1 DEF Awaited
  <2>1. callee[c] \in BothFuncs /\ sid[c] # NoId
    BY <1>2, EntryHasId, NoneAssumption
  <2>2. CASE \E fp \in Frames : frame[fp] = c
    <3>1. PICK fp \in Frames : frame[fp] = c
      BY <2>2
    <3>2. CASE frame'[fp] = c
      BY <3>2
    <3>3. CASE frame'[fp] # c
      BY <2>1, <3>1, <3>3 DEF Still, Excused, Calls, NoCall
    <3> QED BY <3>2, <3>3
  <2>3. CASE ~\E fp \in Frames : frame[fp] = c
    BY <1>1, <2>1, <2>3 DEF Awaited
  <2> QED BY <2>2, <2>3
<1>6. Expected'
  <2> SUFFICES ASSUME missed = {}, NEW c \in Calls,
                      callee'[c] \in RequiredFuncs \cap BothFuncs, sid[c] # NoId, ~Shared(c),
                      (\E fp \in Frames : frame'[fp] = c) \/ InRing("exit", c)
               PROVE  \/ <<"entry", c>> \in lost'
                      \/ \E t \in Tasks : pc'[t] = "entry_reserve" /\ Top(t)' = c
                      \/ InRing("entry", c)
                      \/ usess[sid[c]] = c
    BY <1>1 DEF Expected
  <2>1. callee[c] \in RequiredFuncs \cap BothFuncs /\ c <= ncalls
    BY <1>2
  <2>2. (\E fp \in Frames : frame[fp] = c) \/ InRing("exit", c)
    <3>1. ncalls \in Nat /\ c \in Nat /\ c # NoCall
      BY ConstantsAssumption DEF TypeInv, TypeOK, Calls, NoCall
    <3>2. \A fp \in Frames : frame'[fp] = c => frame[fp] = c
      BY <2>1, <3>1 DEF Still
    <3> QED BY <3>2
  <2>3. \/ <<"entry", c>> \in lost
        \/ \E t \in Tasks : pc[t] = "entry_reserve" /\ Top(t) = c
        \/ InRing("entry", c)
        \/ usess[sid[c]] = c
    BY <2>1, <2>2 DEF Expected
  <2> QED BY <1>1, <2>3 DEF Still
<1>7. SkippedIds' /\ SkippedOnlyAfterLoss'
  BY <1>1 DEF SkippedIds, SkippedOnlyAfterLoss
<1> QED BY <1>3, <1>4, <1>5, <1>6, <1>7

\* The session of a call is where it was, unless its own program moves it.
LEMMA SessionCalls ==
  ASSUME TypeInv, NEW c, HasSession(c)', sid' = sid, unsaved' = unsaved,
         \A d \in Calls : callee[d] \in Funcs => callee'[d] = callee[d]
  PROVE  HasSession(c) /\ sid[c] # NoId /\ c <= ncalls /\ c # NoCall
<1>1. c \in Calls /\ sid[c] # NoId /\ c \notin unsaved /\ callee'[c] \in BothFuncs
  BY DEF HasSession
<1>2. c <= ncalls /\ c # NoCall
  BY <1>1, ConstantsAssumption DEF TypeInv, FrameInv, TypeOK, Calls, NoCall
<1>3. callee'[c] = callee[c]
  BY <1>1, <1>2 DEF TypeInv, FrameInv
<1> QED BY <1>1, <1>2, <1>3 DEF HasSession

LEMMA ReaderTracee ==
  ASSUME PairingInv, OrderInv, ReaderInv, NEW t \in Tasks, NEW f \in Funcs, Call(t, f) \/ Return(t)
  PROVE  ReaderInv'
<1> USE DEF PairingInv
<1>1. /\ \A u \in Tasks : pc[u] # "run" => depth[u] > 0
      /\ \A u \in Tasks : u # t => pc'[u] = pc[u]
      /\ pc[t] = "run" /\ pc'[t] \in {"run", "entry", "exit"}
      /\ UNCHANGED <<map, elem, reg, ring, reader, history>>
  BY DEF TypeInv, ProgramInv, Call, Return, TypeOK, reader
<1>2. /\ \A u \in Tasks : pc[u] # "run" => pc'[u] = pc[u] /\ Fp(u)' = Fp(u) /\ Top(u)' = Top(u)
      /\ \A d \in Calls : callee[d] \in Funcs => callee'[d] = callee[d]
  BY <1>1, OtherFrames DEF Return
<1>3. /\ \A fp \in Frames : frame'[fp] \in {frame[fp], NoCall} \/ frame'[fp] > ncalls
      /\ UNCHANGED <<ring, usess, skipped>>
  BY IdleTracee DEF Idle
<1>4. \A fp \in Frames : frame[fp] # NoCall /\ frame'[fp] # frame[fp] => Excused(frame[fp])
  <2>1. CASE Call(t, f)
    <3>1. \A fp \in Frames : frame'[fp] = frame[fp] \/ frame[fp] = NoCall
      BY <2>1 DEF Call, TypeInv, TypeOK, FrameInv, Frames
    <3> QED BY <3>1
  <2>2. CASE Return(t)
    <3>1. \A fp \in Frames : frame'[fp] # frame[fp] => fp = Fp(t) /\ Func(t) \in EntryFuncs
      BY <2>2 DEF Return, Pop, kernel, TypeInv, TypeOK
    <3> QED BY <3>1, ConstantsAssumption DEF Excused, Func, Top
  <2> QED BY <2>1, <2>2
<1>5. Still
  BY <1>1, <1>2, <1>3, <1>4 DEF Still, history
<1>6. OwnSession'
  <2> SUFFICES ASSUME NEW fp \in Frames, HasSession(frame[fp])'
               PROVE  \/ sessions'[fp] # NoElem /\ value'[sessions'[fp]] = sid'[frame'[fp]]
                      \/ \E u \in Tasks : /\ fp = Fp(u)' /\ pc'[u] = "exit_read"
                                          /\ value'[elem'[u]] = sid'[frame'[fp]]
                      \/ \E u \in Tasks : /\ fp = Fp(u)' /\ pc'[u] \in {"exit_reserve", "exit_commit"}
                                          /\ reg'[u] = Pred(sid'[frame'[fp]])
    BY DEF OwnSession
  <2>1. PICK c : c = frame'[fp] /\ HasSession(c)'
    BY DEF HasSession
  <2>2. HasSession(c) /\ c <= ncalls /\ c # NoCall /\ c \in Calls
    BY <1>1, <1>2, <2>1, SessionCalls DEF history, HasSession
  <2>3. frame[fp] = c
    <3>1. ncalls \in Nat /\ c \in Nat
      BY <2>2, ConstantsAssumption DEF TypeInv, TypeOK, Calls
    <3> QED BY <1>3, <2>1, <2>2, <3>1
  <2>4. \/ sessions[fp] # NoElem /\ value[sessions[fp]] = sid[c]
        \/ \E u \in Tasks : fp = Fp(u) /\ pc[u] = "exit_read" /\ value[elem[u]] = sid[c]
        \/ \E u \in Tasks : /\ fp = Fp(u) /\ pc[u] \in {"exit_reserve", "exit_commit"}
                            /\ reg[u] = Pred(sid[c])
    BY <2>2, <2>3 DEF ReaderInv, OwnSession
  <2> QED BY <1>1, <1>2, <2>1, <2>4 DEF map, history
<1> QED BY <1>5, <1>6, StillReader DEF ReaderInv

LEMMA ReaderDone ==
  ASSUME PairingInv, OrderInv, ReaderInv, NEW t \in Tasks,
         \/ EntryIgnored(t) \/ ExitMissed(t) \/ ExitNotReady(t) \/ ExitIgnored(t)
         \/ ReserveFails(t) \/ Submit(t)
  PROVE  ReaderInv'
<1> USE DEF PairingInv
<1>1. /\ UNCHANGED <<map, ring, reader, sid, unsaved>>
      /\ \/ EntryDone(t) /\ UNCHANGED kernel
         \/ ExitDone(t)
      /\ pc[t] # "run"
      /\ lost \subseteq lost' /\ missed \subseteq missed' /\ silent \subseteq silent'
  BY DEF EntryIgnored, ExitMissed, ExitNotReady, ExitIgnored, ReserveFails, Submit, Kind, history
<1>2. /\ pc'[t] = "run"
      /\ \A u \in Tasks \ {t} : pc'[u] = pc[u] /\ reg'[u] = reg[u] /\ elem'[u] = elem[u]
  BY <1>1, DoneType DEF TypeInv
<1>3. Pop(t) \/ UNCHANGED kernel
  BY <1>1 DEF ExitDone
<1>4. /\ \A u \in Tasks : pc[u] # "run" /\ u # t => Fp(u)' = Fp(u) /\ Top(u)' = Top(u)
      /\ \A d \in Calls : callee[d] \in Funcs => callee'[d] = callee[d]
  <2>1. \A u \in Tasks : pc[u] # "run" => depth[u] > 0
    BY DEF TypeInv, ProgramInv
  <2> QED BY <1>3, <2>1, OtherFrames
<1>5. /\ Fp(t) \in Frames /\ frame[Fp(t)] = Top(t) /\ Top(t) \in Calls /\ Top(t) # NoCall
      /\ \A fp \in Frames : frame'[fp] \in {frame[fp], NoCall}
      /\ \A fp \in Frames : fp # Fp(t) => frame'[fp] = frame[fp]
      /\ ExitDone(t) => frame'[Fp(t)] = NoCall
  <2>1. Fp(t) \in Frames /\ frame[Fp(t)] = Top(t) /\ Top(t) \in Calls /\ Top(t) # NoCall
    BY <1>1, TopsDiffer DEF Calls, NoCall
  <2> QED BY <1>3, <2>1 DEF ExitDone, Pop, kernel, TypeInv, TypeOK
<1>6. ExitDone(t) => Excused(Top(t))
  <2> SUFFICES ASSUME ExitDone(t) PROVE Excused(Top(t))
    OBVIOUS
  <2>1. CASE EntryIgnored(t)
    BY <1>5, <2>1 DEF EntryIgnored, PhaseInv, Excused
  <2>2. CASE ExitMissed(t)
    BY <2>2 DEF ExitMissed, Excused
  <2>3. CASE ExitNotReady(t)
    BY <1>5, <2>3 DEF ExitNotReady, PhaseInv, TypeInv, TypeOK, Excused
  <2>4. CASE ExitIgnored(t)
    <3>1. HasSession(Top(t)) => Func(t) \in BothFuncs
      BY DEF HasSession, Func
    <3>2. \A u \in Tasks : Fp(t) = Fp(u) => pc[u] = "exit"
      BY <2>4 DEF Fp, ExitIgnored
    <3>3. ~HasSession(Top(t))
      BY <1>5, <2>4, <3>1, <3>2 DEF ExitIgnored, ReaderInv, OwnSession
    <3> QED BY <1>5, <3>3 DEF HasSession, Excused
  <2>5. CASE ReserveFails(t)
    <3>1. pc[t] = "exit_reserve" => <<"exit", Top(t)>> \in lost'
      BY <2>5 DEF ReserveFails, Kind
    <3>2. pc[t] = "entry_reserve" => UNCHANGED kernel
      BY <2>5 DEF ReserveFails, Kind
    <3> QED BY <1>5, <2>5, <3>1, <3>2 DEF ReserveFails, kernel, Excused
  <2>6. CASE Submit(t)
    <3>1. pc[t] = "exit_commit" => InRing("exit", Top(t))
      BY DEF OrderInv, ExitOnce
    <3>2. pc[t] = "entry_commit" => UNCHANGED kernel
      BY <2>6 DEF Submit, Kind
    <3> QED BY <1>5, <2>6, <3>1, <3>2 DEF Submit, kernel, Excused
  <2> QED BY <2>1, <2>2, <2>3, <2>4, <2>5, <2>6
<1>7. pc[t] = "entry_reserve" => <<"entry", Top(t)>> \in lost'
  BY DEF EntryIgnored, ExitMissed, ExitNotReady, ExitIgnored, ReserveFails, Submit, Kind
<1>8. \A fp \in Frames : frame[fp] # NoCall /\ frame'[fp] # frame[fp] => Excused(frame[fp])
  <2>1. EntryDone(t) /\ UNCHANGED kernel => \A fp \in Frames : frame'[fp] = frame[fp]
    BY DEF kernel
  <2> QED BY <1>1, <1>5, <1>6, <2>1
<1>9. Still
  BY <1>1, <1>2, <1>4, <1>5, <1>7, <1>8 DEF Still, reader
<1>10. OwnSession'
  <2> SUFFICES ASSUME NEW fp \in Frames, HasSession(frame[fp])'
               PROVE  \/ sessions'[fp] # NoElem /\ value'[sessions'[fp]] = sid'[frame'[fp]]
                      \/ \E u \in Tasks : /\ fp = Fp(u)' /\ pc'[u] = "exit_read"
                                          /\ value'[elem'[u]] = sid'[frame'[fp]]
                      \/ \E u \in Tasks : /\ fp = Fp(u)' /\ pc'[u] \in {"exit_reserve", "exit_commit"}
                                          /\ reg'[u] = Pred(sid'[frame'[fp]])
    BY DEF OwnSession
  <2>1. PICK c : c = frame'[fp] /\ HasSession(c)'
    BY DEF HasSession
  <2>2. HasSession(c) /\ c # NoCall
    BY <1>1, <1>4, <2>1, SessionCalls
  <2>3. frame[fp] = c
    BY <1>5, <2>1, <2>2
  <2>4. \/ sessions[fp] # NoElem /\ value[sessions[fp]] = sid[c]
        \/ \E u \in Tasks : fp = Fp(u) /\ pc[u] = "exit_read" /\ value[elem[u]] = sid[c]
        \/ \E u \in Tasks : /\ fp = Fp(u) /\ pc[u] \in {"exit_reserve", "exit_commit"}
                            /\ reg[u] = Pred(sid[c])
    BY <2>2, <2>3 DEF ReaderInv, OwnSession
  <2>5. fp = Fp(t) => pc[t] \notin {"exit_read", "exit_reserve", "exit_commit"}
    BY <1>5, <2>1, <2>2
       DEF EntryIgnored, ExitMissed, ExitNotReady, ExitIgnored, ReserveFails, Submit, Kind
  <2> QED BY <1>1, <1>2, <1>4, <2>1, <2>4, <2>5 DEF map
<1> QED BY <1>9, <1>10, StillReader DEF ReaderInv

LEMMA ReaderExit ==
  ASSUME PairingInv, OrderInv, ReaderInv, NEW t \in Tasks,
         ExitSingle(t) \/ ExitReadDelete(t) \/ ExitDelete(t) \/ ExitRead(t)
  PROVE  ReaderInv'
<1> USE DEF PairingInv
<1>1. /\ UNCHANGED <<kernel, ring, reader, history, value>>
      /\ \A u \in Tasks : Fp(u)' = Fp(u) /\ Top(u)' = Top(u)
      /\ \A u \in Tasks \ {t} : pc'[u] = pc[u] /\ reg'[u] = reg[u] /\ elem'[u] = elem[u]
      /\ pc[t] \in {"exit", "exit_read"}
  BY DEF ExitSingle, ExitReadDelete, ExitDelete, ExitRead, TypeInv, TypeOK, Fp, Top, kernel, map
<1>2. /\ Fp(t) \in Frames /\ frame[Fp(t)] = Top(t) /\ Top(t) \in Calls
      /\ \A u \in Tasks : Fp(t) = Fp(u) => u = t
  BY <1>1, TopsDiffer DEF Fp
<1>3. Still
  BY <1>1 DEF Still, kernel, reader, history
<1>4. OwnSession'
  <2> SUFFICES ASSUME NEW fp \in Frames, HasSession(frame[fp])
               PROVE  \/ sessions'[fp] # NoElem /\ value[sessions'[fp]] = sid[frame[fp]]
                      \/ \E u \in Tasks : /\ fp = Fp(u) /\ pc'[u] = "exit_read"
                                          /\ value[elem'[u]] = sid[frame[fp]]
                      \/ \E u \in Tasks : /\ fp = Fp(u) /\ pc'[u] \in {"exit_reserve", "exit_commit"}
                                          /\ reg'[u] = Pred(sid[frame[fp]])
    BY <1>1 DEF OwnSession, HasSession, kernel, history
  <2>1. \/ sessions[fp] # NoElem /\ value[sessions[fp]] = sid[frame[fp]]
        \/ \E u \in Tasks : fp = Fp(u) /\ pc[u] = "exit_read" /\ value[elem[u]] = sid[frame[fp]]
        \/ \E u \in Tasks : /\ fp = Fp(u) /\ pc[u] \in {"exit_reserve", "exit_commit"}
                            /\ reg[u] = Pred(sid[frame[fp]])
    BY DEF ReaderInv, OwnSession
  <2>2. CASE fp # Fp(t)
    <3>1. sessions'[fp] = sessions[fp]
      BY <2>2 DEF ExitSingle, ExitReadDelete, ExitDelete, ExitRead, map, TypeInv, TypeOK
    <3> QED BY <1>1, <2>1, <2>2, <3>1
  <2>3. CASE fp = Fp(t)
    <3>1. Func(t) \in BothFuncs
      BY <1>2, <2>3 DEF HasSession, Func
    <3>2. pc[t] = "exit" => value[sessions[fp]] = sid[frame[fp]]
      BY <1>2, <2>1, <2>3
    <3>3. pc[t] = "exit_read" => value[elem[t]] = sid[frame[fp]]
      <4>1. pc[t] = "exit_read" => sessions[fp] = NoElem
        BY <2>3, <3>1 DEF PhaseInv, ExitPCs
      <4> QED BY <1>2, <2>1, <2>3, <4>1
    <3>4. \/ pc'[t] = "exit_read" /\ elem'[t] = sessions[fp] /\ pc[t] = "exit"
          \/ pc'[t] = "exit_reserve" /\ reg'[t] = Pred(value[sessions[fp]]) /\ pc[t] = "exit"
          \/ pc'[t] = "exit_reserve" /\ reg'[t] = Pred(value[elem[t]]) /\ pc[t] = "exit_read"
      BY <2>3, <3>1 DEF ExitSingle, ExitReadDelete, ExitDelete, ExitRead, TypeInv, TypeOK
    <3> QED BY <2>3, <3>2, <3>3, <3>4
  <2> QED BY <2>2, <2>3
<1> QED BY <1>3, <1>4, StillReader DEF ReaderInv

LEMMA ReaderMain ==
  ASSUME PairingInv, OrderInv, ReaderInv, Main \/ UNCHANGED vars
  PROVE  ReaderInv'
<1>1. /\ UNCHANGED <<kernel, ring, prog, map, usess, printed, skipped, history>>
      /\ \A u \in Tasks : Fp(u)' = Fp(u) /\ Top(u)' = Top(u)
  BY DEF Main, SetReady, CloseReader, ClearReady, vars, kernel, Fp, Top, reader
<1>2. Still
  BY <1>1 DEF Still, kernel, prog, history
<1>3. OwnSession'
  BY <1>1 DEF ReaderInv, OwnSession, HasSession, kernel, prog, map, history
<1> QED BY <1>2, <1>3, StillReader DEF ReaderInv

\* The entry program draws the id of its call, and stores it with the frame if
\* the map has room.
LEMMA ReaderEntry ==
  ASSUME SafeRead, PairingInv, OrderInv, ReaderInv, NEW t \in Tasks, EntryAccepted(t)
  PROVE  ReaderInv'
<1> USE DEF PairingInv
<1>1. /\ UNCHANGED <<kernel, elem, ring, reader, lost, missed, silent>>
      /\ \A u \in Tasks : Fp(u)' = Fp(u) /\ Top(u)' = Top(u)
      /\ \A u \in Tasks \ {t} : pc'[u] = pc[u] /\ reg'[u] = reg[u]
      /\ pc[t] = "entry" /\ pc'[t] = "entry_reserve"
  BY DEF EntryAccepted, TypeInv, TypeOK, Fp, Top, kernel
<1>2. /\ Fp(t) \in Frames /\ frame[Fp(t)] = Top(t) /\ Top(t) \in Calls /\ Top(t) # NoCall
      /\ \A u \in Tasks : Fp(t) = Fp(u) => u = t
      /\ depth[t] > 0
      /\ \A fp \in Frames : frame[fp] = Top(t) => fp = Fp(t)
  BY <1>1, TopsDiffer DEF Fp, Calls, NoCall, TypeInv, FrameInv, ProgramInv
<1>3. PICK id \in Ids :
        /\ sid' = [sid EXCEPT ![Top(t)] = id]
        /\ IF Func(t) \in BothFuncs THEN add_session(Fp(t), id)
                                    ELSE UNCHANGED <<map, unsaved>>
  BY <1>2, NewIdsType DEF EntryAccepted, TypeInv
<1>4. PICK c0 \in Calls : c0 = Top(t)
  BY <1>2
<1>5. /\ sid[c0] = NoId /\ sid'[c0] = id /\ id # NoId
      /\ \A c \in Calls : c # c0 => sid'[c] = sid[c]
  BY <1>1, <1>3, <1>4, NoneAssumption DEF PhaseInv, TypeInv, TypeOK
<1>6. /\ \A k, c : InRing(k, c)' <=> InRing(k, c)
      /\ \A c : Opened(c)' <=> Opened(c)
      /\ ring' = ring /\ usess' = usess /\ skipped' = skipped /\ callee' = callee /\ frame' = frame
      /\ lost' = lost /\ missed' = missed /\ silent' = silent
  BY <1>1 DEF InRing, Opened, reader, kernel
<1>7. ~InRing("exit", c0) /\ ~InRing("entry", c0) /\ ~Opened(c0) /\ c0 \notin skipped
  BY <1>1, <1>2, <1>4 DEF OrderInv, EntryOnce, ExitOnce
<1>8. unsaved \subseteq unsaved'
  BY <1>3 DEF add_session, map
<1>9. \A c \in Calls : c # c0 /\ HasSession(c)' => HasSession(c) /\ sid'[c] = sid[c]
  BY <1>5, <1>6, <1>8 DEF HasSession
<1>10. \A c \in Calls : c # c0 /\ sid[c] # NoId => (Shared(c) => Shared(c)')
  BY <1>5 DEF Shared
<1>11. OwnSession'
  <2>1. ASSUME NEW fp \in Frames, fp # Fp(t), HasSession(frame[fp])'
        PROVE  \/ sessions'[fp] # NoElem /\ value'[sessions'[fp]] = sid'[frame[fp]]
               \/ \E u \in Tasks : fp = Fp(u) /\ pc'[u] = "exit_read" /\ value'[elem[u]] = sid'[frame[fp]]
               \/ \E u \in Tasks : /\ fp = Fp(u) /\ pc'[u] \in {"exit_reserve", "exit_commit"}
                                   /\ reg'[u] = Pred(sid'[frame[fp]])
    <3>1. PICK c \in Calls : c = frame[fp] /\ HasSession(c)'
      BY <1>6, <2>1 DEF HasSession
    <3>2. c # c0 /\ HasSession(c) /\ sid'[c] = sid[c]
      BY <1>2, <1>4, <1>9, <2>1, <3>1
    <3>3. /\ sessions'[fp] = sessions[fp]
          /\ sessions[fp] # NoElem => value'[sessions[fp]] = value[sessions[fp]]
          /\ \A u \in Tasks : pc[u] = "exit_read" => value'[elem[u]] = value[elem[u]]
      <4>1. CASE UNCHANGED map
        BY <4>1 DEF map
      <4>2. ASSUME NEW e \in Elems,
                   e \in (Elems \ (Used \cup Held)) \cup ({sessions[Fp(t)]} \ {NoElem}),
                   sessions' = [sessions EXCEPT ![Fp(t)] = e],
                   value' = [value EXCEPT ![e] = id]
            PROVE  /\ sessions'[fp] = sessions[fp]
                   /\ sessions[fp] # NoElem => value'[sessions[fp]] = value[sessions[fp]]
                   /\ \A u \in Tasks : pc[u] = "exit_read" => value'[elem[u]] = value[elem[u]]
        <5>1. sessions[fp] # e
          BY <1>2, <2>1, <4>2, NoneAssumption DEF Used, ElemInv
        <5>2. \A u \in Tasks : pc[u] = "exit_read" => elem[u] # e
          BY <1>2, <4>2 DEF Held, ElemInv, SafeRead
        <5> QED BY <2>1, <4>2, <5>1, <5>2 DEF TypeInv, TypeOK
      <4>3. \/ UNCHANGED map
            \/ \E e \in (Elems \ (Used \cup Held)) \cup ({sessions[Fp(t)]} \ {NoElem}) :
                 /\ sessions' = [sessions EXCEPT ![Fp(t)] = e]
                 /\ value' = [value EXCEPT ![e] = id]
        BY <1>3 DEF add_session
      <4>4. sessions[Fp(t)] \in Elems \cup {NoElem}
        BY <1>2 DEF TypeInv, TypeOK
      <4> QED BY <4>1, <4>2, <4>3, <4>4
    <3>4. \/ sessions[fp] # NoElem /\ value[sessions[fp]] = sid[c]
          \/ \E u \in Tasks : fp = Fp(u) /\ pc[u] = "exit_read" /\ value[elem[u]] = sid[c]
          \/ \E u \in Tasks : /\ fp = Fp(u) /\ pc[u] \in {"exit_reserve", "exit_commit"}
                              /\ reg[u] = Pred(sid[c])
      BY <3>1, <3>2 DEF ReaderInv, OwnSession
    <3> QED BY <1>1, <2>1, <3>1, <3>2, <3>3, <3>4
  <2>2. ASSUME HasSession(c0)'
        PROVE  sessions'[Fp(t)] # NoElem /\ value'[sessions'[Fp(t)]] = sid'[c0]
    <3>1. Func(t) \in BothFuncs /\ c0 \notin unsaved'
      BY <1>4, <1>6, <2>2 DEF HasSession, Func
    <3>2. PICK e \in (Elems \ (Used \cup Held)) \cup ({sessions[Fp(t)]} \ {NoElem}) :
                 /\ sessions' = [sessions EXCEPT ![Fp(t)] = e]
                 /\ value' = [value EXCEPT ![e] = id]
      BY <1>2, <1>3, <1>4, <3>1 DEF add_session
    <3>3. e \in Elems /\ e # NoElem
      BY <1>2, <3>2, NoneAssumption DEF TypeInv, TypeOK
    <3> QED BY <1>2, <1>5, <3>2, <3>3 DEF TypeInv, TypeOK
  <2>3. Fp(t)' = Fp(t) /\ elem' = elem /\ frame' = frame
    BY <1>1, <1>6
  <2>4. ASSUME NEW fp \in Frames, HasSession(frame[fp])'
        PROVE  \/ sessions'[fp] # NoElem /\ value'[sessions'[fp]] = sid'[frame[fp]]
               \/ \E u \in Tasks : fp = Fp(u) /\ pc'[u] = "exit_read" /\ value'[elem[u]] = sid'[frame[fp]]
               \/ \E u \in Tasks : /\ fp = Fp(u) /\ pc'[u] \in {"exit_reserve", "exit_commit"}
                                   /\ reg'[u] = Pred(sid'[frame[fp]])
    <3>1. CASE fp = Fp(t)
      <4>1. frame[fp] = c0 /\ frame'[fp] = c0
        BY <1>2, <1>4, <1>6, <3>1
      <4>2. HasSession(c0)'
        BY <1>4, <2>4, <4>1 DEF HasSession
      <4> QED BY <2>2, <3>1, <4>1, <4>2
    <3>2. CASE fp # Fp(t)
      BY <2>1, <2>4, <3>2
    <3> QED BY <3>1, <3>2
  <2> QED BY <1>1, <2>3, <2>4 DEF OwnSession
<1>12. OwnRecord'
  <2> SUFFICES ASSUME NEW i \in 1..Len(ring), ring[i].kind = "exit", HasSession(ring[i].call)'
               PROVE  ring[i].id = Pred(sid'[ring[i].call])
    BY <1>6 DEF OwnRecord
  <2>1. PICK c \in Calls : c = ring[i].call /\ InRing("exit", c)
    BY InRingKind DEF TypeInv
  <2>2. HasSession(c)' /\ c # c0
    BY <1>6, <1>7, <2>1
  <2>3. HasSession(c) /\ sid'[c] = sid[c]
    BY <1>9, <2>2
  <2> QED BY <2>1, <2>3 DEF ReaderInv, OwnRecord
<1>13. OpenRequired'
  BY <1>6 DEF ReaderInv, OpenRequired
<1>14. Awaited'
  BY <1>6, <1>8 DEF ReaderInv, Awaited
<1>15. Expected'
  <2> SUFFICES ASSUME missed = {}, NEW c \in Calls,
                      callee[c] \in RequiredFuncs \cap BothFuncs, sid'[c] # NoId, ~Shared(c)',
                      (\E fp \in Frames : frame[fp] = c) \/ InRing("exit", c)
               PROVE  \/ <<"entry", c>> \in lost
                      \/ \E u \in Tasks : pc'[u] = "entry_reserve" /\ Top(u) = c
                      \/ InRing("entry", c)
                      \/ usess[sid'[c]] = c
    BY <1>1, <1>6 DEF Expected
  <2>1. CASE c = c0
    BY <1>1, <1>4, <2>1
  <2>2. CASE c # c0
    BY <1>1, <1>5, <1>10, <2>2 DEF ReaderInv, Expected
  <2> QED BY <2>1, <2>2
<1>16. SkippedIds' /\ SkippedOnlyAfterLoss'
  <2>1. \A c \in skipped : c \in Calls /\ c # c0
    BY <1>7 DEF TypeInv, TypeOK
  <2>2. \A c \in skipped : \A d \in Calls \ {c} :
          sid[c] # NoId /\ sid[d] = sid[c] => sid'[d] = sid'[c]
    BY <1>5, <2>1
  <2> QED BY <1>5, <1>6, <2>1, <2>2 DEF ReaderInv, SkippedIds, SkippedOnlyAfterLoss
<1> QED BY <1>11, <1>12, <1>13, <1>14, <1>15, <1>16 DEF ReaderInv

LEMMA ReaderReserve ==
  ASSUME PairingInv, OrderInv, ReaderInv, NEW t \in Tasks, Reserve(t)
  PROVE  ReaderInv'
<1> DEFINE r == [kind |-> Kind(t), id |-> reg[t], call |-> Top(t)]
<1> USE DEF PairingInv
<1>1. /\ UNCHANGED <<kernel, map, reader, history>> /\ reg' = reg /\ elem' = elem
      /\ \A u \in Tasks : Fp(u)' = Fp(u) /\ Top(u)' = Top(u)
      /\ ring' = Append(ring, r)
  BY DEF Reserve, Fp, Top, kernel
<1>2. /\ \A u \in Tasks \ {t} : pc'[u] = pc[u]
      /\ \/ pc[t] = "entry_reserve" /\ Kind(t) = "entry" /\ pc'[t] = "entry_commit"
         \/ pc[t] = "exit_reserve" /\ Kind(t) = "exit" /\ pc'[t] = "exit_commit"
  <2>1. /\ pc[t] \in {"entry_reserve", "exit_reserve"} /\ pc \in [Tasks -> PCs]
        /\ pc' = [pc EXCEPT ![t] = IF Kind(t) = "entry" THEN "entry_commit" ELSE "exit_commit"]
    BY DEF Reserve, TypeInv, TypeOK
  <2>2. \/ pc[t] = "entry_reserve" /\ Kind(t) = "entry"
        \/ pc[t] = "exit_reserve" /\ Kind(t) = "exit"
    BY <2>1 DEF Kind
  <2> QED BY <2>1, <2>2
<1>3. /\ Fp(t) \in Frames /\ frame[Fp(t)] = Top(t)
      /\ \A u \in Tasks : Fp(t) = Fp(u) => u = t
  BY <1>2, TopsDiffer DEF Fp
<1>4. PICK c0 \in Calls : c0 = Top(t)
  BY <1>2, TopsDiffer
<1>5. r \in Record /\ r.kind = Kind(t) /\ r.call = c0 /\ r.id = reg[t]
  <2>1. reg[t] \in Ids /\ Kind(t) \in Kinds
    BY <1>2 DEF TypeInv, ProgramInv, Kinds
  <2> QED BY <1>4, <2>1 DEF Record
<1> HIDE DEF r
<1>6. /\ ring'[Len(ring) + 1] = r
      /\ \A i \in 1..Len(ring) : i \in 1..Len(ring') /\ ring'[i] = ring[i]
      /\ \A i \in 1..Len(ring') : i \in 1..Len(ring) \/ i = Len(ring) + 1
      /\ \A j, c : InRing(j, c)' <=> InRing(j, c) \/ (j = Kind(t) /\ c = c0)
  BY <1>1, <1>5, Appended DEF TypeInv
<1>7. /\ \A c : Opened(c)' <=> Opened(c)
      /\ \A c : Shared(c)' <=> Shared(c)
      /\ \A c : HasSession(c)' <=> HasSession(c)
      /\ UNCHANGED <<usess, skipped, callee, sid, frame, lost, missed, unsaved, silent>>
  BY <1>1 DEF Opened, Shared, HasSession, reader, kernel, history
<1>8. OwnSession'
  <2> SUFFICES ASSUME NEW fp \in Frames, HasSession(frame[fp])
               PROVE  \/ sessions[fp] # NoElem /\ value[sessions[fp]] = sid[frame[fp]]
                      \/ \E u \in Tasks : /\ fp = Fp(u) /\ pc'[u] = "exit_read"
                                          /\ value[elem[u]] = sid[frame[fp]]
                      \/ \E u \in Tasks : /\ fp = Fp(u) /\ pc'[u] \in {"exit_reserve", "exit_commit"}
                                          /\ reg[u] = Pred(sid[frame[fp]])
    BY <1>1, <1>7 DEF OwnSession, HasSession, kernel, map, history
  <2>1. \/ sessions[fp] # NoElem /\ value[sessions[fp]] = sid[frame[fp]]
        \/ \E u \in Tasks : fp = Fp(u) /\ pc[u] = "exit_read" /\ value[elem[u]] = sid[frame[fp]]
        \/ \E u \in Tasks : /\ fp = Fp(u) /\ pc[u] \in {"exit_reserve", "exit_commit"}
                            /\ reg[u] = Pred(sid[frame[fp]])
    BY DEF ReaderInv, OwnSession
  <2>2. /\ \A u \in Tasks : pc[u] = "exit_read" => pc'[u] = "exit_read"
        /\ \A u \in Tasks : pc[u] \in {"exit_reserve", "exit_commit"} =>
                              pc'[u] \in {"exit_reserve", "exit_commit"}
    BY <1>2
  <2> QED BY <2>1, <2>2
<1>9. OwnRecord'
  <2>1. ASSUME Kind(t) = "exit", HasSession(c0)
        PROVE  reg[t] = Pred(sid[c0])
    <3>1. pc[t] = "exit_reserve" /\ Func(t) \in BothFuncs /\ frame[Fp(t)] = c0
      BY <1>2, <1>3, <1>4, <2>1 DEF HasSession, Func
    <3>2. sessions[Fp(t)] = NoElem
      BY <3>1 DEF PhaseInv, ExitPCs
    <3> QED BY <1>3, <2>1, <3>1, <3>2 DEF ReaderInv, OwnSession
  <2>2. \A i \in 1..Len(ring) : ring[i].kind = "exit" /\ HasSession(ring[i].call) =>
          ring[i].id = Pred(sid[ring[i].call])
    BY DEF ReaderInv, OwnRecord
  <2>3. ASSUME NEW i \in 1..Len(ring'), ring'[i].kind = "exit", HasSession(ring'[i].call)
        PROVE  ring'[i].id = Pred(sid[ring'[i].call])
    <3>1. CASE i \in 1..Len(ring)
      BY <1>6, <2>2, <2>3, <3>1
    <3>2. CASE i = Len(ring) + 1
      BY <1>5, <1>6, <2>1, <2>3, <3>2
    <3> QED BY <1>6, <3>1, <3>2
  <2> QED BY <1>7, <2>3 DEF OwnRecord, HasSession
<1>10. OpenRequired'
  BY <1>7 DEF ReaderInv, OpenRequired
<1>11. Awaited'
  <2> SUFFICES ASSUME NEW c \in Calls, callee[c] \in BothFuncs, InRing("entry", c)' \/ Opened(c)
               PROVE  \/ \E fp \in Frames : frame[fp] = c
                      \/ InRing("exit", c)'
                      \/ <<"exit", c>> \in lost
                      \/ c \in missed \cup unsaved \cup silent
    BY <1>7 DEF Awaited
  <2>1. CASE c = c0
    BY <1>3, <1>4, <2>1
  <2>2. CASE c # c0
    BY <1>6, <2>2 DEF ReaderInv, Awaited
  <2> QED BY <2>1, <2>2
<1>12. Expected'
  <2> SUFFICES ASSUME missed = {}, NEW c \in Calls,
                      callee[c] \in RequiredFuncs \cap BothFuncs, sid[c] # NoId, ~Shared(c),
                      (\E fp \in Frames : frame[fp] = c) \/ InRing("exit", c)'
               PROVE  \/ <<"entry", c>> \in lost
                      \/ \E u \in Tasks : pc'[u] = "entry_reserve" /\ Top(u) = c
                      \/ InRing("entry", c)'
                      \/ usess[sid[c]] = c
    BY <1>1, <1>7 DEF Expected
  <2>1. (\E fp \in Frames : frame[fp] = c) \/ InRing("exit", c)
    BY <1>3, <1>4, <1>6
  <2>2. \/ <<"entry", c>> \in lost
        \/ \E u \in Tasks : pc[u] = "entry_reserve" /\ Top(u) = c
        \/ InRing("entry", c)
        \/ usess[sid[c]] = c
    BY <2>1 DEF ReaderInv, Expected
  <2>3. ASSUME NEW u \in Tasks, pc[u] = "entry_reserve", Top(u) = c
        PROVE  pc'[u] = "entry_reserve" \/ InRing("entry", c)'
    BY <1>2, <1>4, <1>6, <2>3
  <2> QED BY <1>6, <2>2, <2>3
<1>13. SkippedIds' /\ SkippedOnlyAfterLoss'
  BY <1>7 DEF ReaderInv, SkippedIds, SkippedOnlyAfterLoss
<1> QED BY <1>8, <1>9, <1>10, <1>11, <1>12, <1>13 DEF ReaderInv

\* The exit of a required call frees its own id, unless a program was missed.
LEMMA ExitOfRequired ==
  ASSUME PairingInv, NEW rec \in Record, RecordFlow(rec), rec.kind = "exit",
         callee[rec.call] \in RequiredFuncs
  PROVE  /\ callee[rec.call] \in BothFuncs
         /\ missed = {} => sid[rec.call] # NoId /\ Succ(rec.id) = sid[rec.call]
<1>1. rec.call \in Calls
  BY DEF Record
<1>2. callee[rec.call] \in BothFuncs
  BY ConstantsAssumption DEF RecordFlow
<1>3. PICK x \in Ids : rec.id = Pred(x) /\ IdOf(x, {rec.call} \cup missed)
  BY <1>2 DEF RecordFlow
<1>4. missed = {} => x = sid[rec.call] /\ sid[rec.call] # NoId
  BY <1>3 DEF IdOf
<1> QED BY <1>2, <1>3, <1>4, PredSucc

LEMMA ReaderConsume ==
  ASSUME PairingInv, OrderInv, ReaderInv, Consume
  PROVE  ReaderInv'
<1> USE DEF PairingInv
<1> DEFINE rec == Head(ring)
<1>1. /\ Adds(rec) \/ Skips(rec) \/ Frees(rec) \/ Passes(rec)
      /\ ring # <<>> /\ ring' = Tail(ring)
      /\ UNCHANGED <<kernel, prog, map, history>>
      /\ \A u \in Tasks : Fp(u)' = Fp(u) /\ Top(u)' = Top(u)
  BY ConsumeCases
<1>2. /\ rec = ring[1] /\ rec \in Record /\ rec.call \in Calls /\ 1 \in 1..Len(ring)
      /\ rec.id \in Ids /\ Succ(rec.id) \in Ids /\ rec.kind \in Kinds /\ InRing(rec.kind, rec.call)
      /\ RecordFlow(rec)
  BY <1>1, HeadFields DEF FlowInv, RingFlow
<1>3. /\ \A i \in 1..Len(ring') : i + 1 \in 1..Len(ring) /\ ring'[i] = ring[i + 1]
      /\ \A j, c : InRing(j, c)' <=> InRing(j, c) /\ (j # rec.kind \/ c # rec.call)
  BY <1>1, Taken DEF OrderInv, TypeInv
<1>4. /\ rec.kind = "exit" => ~InRing("entry", rec.call)
      /\ rec.kind = "exit" => \A fp \in Frames : frame[fp] # rec.call
  BY <1>1, EntryFirst, Ended DEF OrderInv, TypeInv
<1>5. /\ UNCHANGED <<frame, pc, callee, sid, lost, missed, unsaved, silent>>
      /\ \A c : HasSession(c)' <=> HasSession(c)
      /\ \A c : Shared(c)' <=> Shared(c)
  BY <1>1 DEF kernel, prog, history, HasSession, Shared
<1>6. /\ usess \in [Ids -> Calls \cup {NoCall}]
      /\ \A c \in Calls : c # NoCall
      /\ \A id \in Ids : usess[id] # NoCall => sid[usess[id]] = id
      /\ NoId \notin Ids
  BY NoneAssumption DEF TypeInv, TypeOK, Calls, NoCall, FlowInv, TableFlow
<1>7. rec.kind = "exit" /\ callee[rec.call] \in RequiredFuncs =>
        /\ callee[rec.call] \in BothFuncs
        /\ missed = {} => sid[rec.call] # NoId /\ Succ(rec.id) = sid[rec.call]
  BY <1>2, ExitOfRequired
<1>8. rec.kind = "exit" /\ HasSession(rec.call) => Succ(rec.id) = sid[rec.call]
  <2>1. rec.kind = "exit" /\ HasSession(rec.call) => rec.id = Pred(sid[rec.call])
    BY <1>2 DEF ReaderInv, OwnRecord
  <2>2. HasSession(rec.call) => sid[rec.call] \in Ids
    BY DEF HasSession, TypeInv, TypeOK
  <2> QED BY <2>1, <2>2, PredSucc
<1>9. rec.kind = "entry" => rec.id = sid[rec.call]
  BY <1>2 DEF RecordFlow
<1> HIDE DEF rec
<1>10. PICK c0 \in Calls : c0 = rec.call
  BY <1>2
<1>11. OwnSession'
  BY <1>1, <1>5 DEF ReaderInv, OwnSession, kernel, prog, map, history
<1>12. OwnRecord'
  <2>1. \A i \in 1..Len(ring) : ring[i].kind = "exit" /\ HasSession(ring[i].call) =>
          ring[i].id = Pred(sid[ring[i].call])
    BY DEF ReaderInv, OwnRecord
  <2>2. \A i \in 1..Len(ring') : ring'[i].kind = "exit" /\ HasSession(ring'[i].call) =>
          ring'[i].id = Pred(sid[ring'[i].call])
    BY <1>3, <2>1
  <2> QED BY <1>5, <2>2 DEF OwnRecord, HasSession
<1>13. OpenRequired'
  BY <1>1, <1>2, <1>5, <1>6 DEF ReaderInv, OpenRequired, Adds, Skips, Frees, Passes
<1>14. \A c \in Calls : Opened(c)' => Opened(c) \/ (rec.kind = "entry" /\ c = rec.call)
  BY <1>1, <1>2, <1>6 DEF Opened, Adds, Skips, Frees, Passes
<1>15. Awaited'
  <2> SUFFICES ASSUME NEW c \in Calls, callee[c] \in BothFuncs, InRing("entry", c)' \/ Opened(c)'
               PROVE  \/ \E fp \in Frames : frame[fp] = c
                      \/ InRing("exit", c)'
                      \/ <<"exit", c>> \in lost
                      \/ c \in missed \cup unsaved \cup silent
    BY <1>5 DEF Awaited
  <2>1. InRing("entry", c) \/ Opened(c)
    BY <1>2, <1>3, <1>14
  <2>2. \/ \E fp \in Frames : frame[fp] = c
        \/ InRing("exit", c)
        \/ <<"exit", c>> \in lost
        \/ c \in missed \cup unsaved \cup silent
    BY <2>1 DEF ReaderInv, Awaited
  <2>3. ASSUME rec.kind = "exit", c = rec.call, c \notin unsaved PROVE FALSE
    <3>1. ~InRing("entry", c) /\ Opened(c)' /\ Opened(c)
      BY <1>3, <1>4, <1>14, <2>3
    <3>2. HasSession(c)
      BY <2>3, <3>1, EntryHasId, NoneAssumption DEF HasSession
    <3>3. Succ(rec.id) = sid[c]
      BY <1>8, <2>3, <3>2
    <3>4. usess[sid[c]] = c /\ \A i \in Ids : usess[i] = c => i = sid[c]
      BY <1>6, <3>1 DEF Opened
    <3>5. callee[c] \in RequiredFuncs
      BY <1>2, <1>6, <3>3, <3>4 DEF ReaderInv, OpenRequired
    <3>6. usess' = [usess EXCEPT ![sid[c]] = NoCall]
      BY <1>1, <1>6, <2>3, <3>3, <3>4, <3>5 DEF Adds, Skips, Frees, Passes
    <3> QED BY <1>2, <1>6, <3>1, <3>3, <3>4, <3>6 DEF Opened
  <2>4. InRing("exit", c) => InRing("exit", c)' \/ c \in unsaved
    BY <1>3, <2>3
  <2> QED BY <2>2, <2>4
<1>16. Expected'
  <2> SUFFICES ASSUME missed = {}, NEW c \in Calls,
                      callee[c] \in RequiredFuncs \cap BothFuncs, sid[c] # NoId, ~Shared(c),
                      (\E fp \in Frames : frame[fp] = c) \/ InRing("exit", c)'
               PROVE  \/ <<"entry", c>> \in lost
                      \/ \E u \in Tasks : pc[u] = "entry_reserve" /\ Top(u) = c
                      \/ InRing("entry", c)'
                      \/ usess'[sid[c]] = c
    BY <1>1, <1>5 DEF Expected
  <2>1. \/ <<"entry", c>> \in lost
        \/ \E u \in Tasks : pc[u] = "entry_reserve" /\ Top(u) = c
        \/ InRing("entry", c)
        \/ usess[sid[c]] = c
    BY <1>3 DEF ReaderInv, Expected
  <2>2. sid[c] \in Ids /\ \A d \in Calls : sid[d] = sid[c] => d = c
    BY DEF Shared, TypeInv, TypeOK
  <2>3. CASE rec.kind = "entry" /\ c = c0
    BY <1>1, <1>6, <1>9, <1>10, <2>2, <2>3 DEF Adds, Skips, Frees, Passes
  <2>4. CASE rec.kind = "exit" /\ c = c0
    BY <1>3, <1>4, <1>10, <2>4
  <2>5. CASE c # c0
    <3>1. rec.kind = "entry" => rec.id # sid[c]
      BY <1>9, <1>10, <2>2, <2>5
    <3>2. Frees(rec) => Succ(rec.id) # sid[c]
      BY <1>7, <1>10, <2>2, <2>5 DEF Frees
    <3>3. usess'[sid[c]] = usess[sid[c]]
      BY <1>1, <1>2, <1>6, <2>2, <3>1, <3>2 DEF Adds, Skips, Frees, Passes
    <3> QED BY <1>3, <1>10, <2>1, <2>5, <3>3
  <2> QED BY <1>2, <2>3, <2>4, <2>5 DEF Kinds
<1>17. \A c \in skipped' : c \in skipped \/ (c = c0 /\ Skips(rec))
  BY <1>1, <1>10 DEF Adds, Skips, Frees, Passes
<1>18. ASSUME missed = {}, Skips(rec)
       PROVE  sid[c0] # NoId /\ (<<"entry", c0>> \in lost \/ Shared(c0))
  <2>1. /\ callee[c0] \in RequiredFuncs \cap BothFuncs /\ sid[c0] # NoId
        /\ usess[sid[c0]] = NoCall /\ InRing("exit", c0)
        /\ ~InRing("entry", c0) /\ \A fp \in Frames : frame[fp] # c0
    BY <1>2, <1>4, <1>7, <1>10, <1>18 DEF Skips
  <2>2. \A u \in Tasks : pc[u] = "entry_reserve" => Top(u) # c0
    BY <2>1, TopsDiffer
  <2> QED BY <1>6, <1>18, <2>1, <2>2 DEF ReaderInv, Expected
<1>19. SkippedIds' /\ SkippedOnlyAfterLoss'
  BY <1>5, <1>17, <1>18 DEF ReaderInv, SkippedIds, SkippedOnlyAfterLoss, Shared
<1> QED BY <1>11, <1>12, <1>13, <1>15, <1>16, <1>19 DEF ReaderInv

LEMMA ReaderStep ==
  ASSUME SafeRead, PairingInv, OrderInv, ReaderInv, [Next]_vars
  PROVE  ReaderInv'
<1>1. CASE \E t \in Tasks, f \in Funcs : Call(t, f)
  BY <1>1, ReaderTracee
<1>2. ASSUME NEW t \in Tasks, Return(t) PROVE ReaderInv'
  <2>1. Func(t) \in Funcs
    BY <1>2, TopFrame DEF Return, PairingInv, TypeInv
  <2> QED BY <1>2, <2>1, ReaderTracee
<1>3. ASSUME NEW t \in Tasks, Program(t) PROVE ReaderInv'
  BY <1>3, ReaderDone, ReaderEntry, ReaderExit, ReaderReserve DEF Program, EntryProgram, ExitProgram
<1>4. CASE Main \/ UNCHANGED vars
  BY <1>4, ReaderMain
<1>5. CASE Consume
  BY <1>5, ReaderConsume
<1> QED BY <1>1, <1>2, <1>3, <1>4, <1>5 DEF Next

LEMMA ReaderInvariant == SafeRead => (Spec => []LossInv)
<1> SUFFICES ASSUME SafeRead PROVE Spec => []LossInv
  OBVIOUS
<1>1. PairingInv /\ OrderInv /\ ReaderInv /\ [Next]_vars => ReaderInv'
  BY ReaderStep
<1>2. PairingInv /\ OrderInv /\ ReaderInv <=> LossInv
  BY DEF LossInv
<1> QED BY <1>1, <1>2, ReaderInit, OrderInvariant, PTL DEF Spec

\* The reader drops an exit event for want of a session only if the kernel
\* dropped the entry event of the call, or another call shares its id, or an
\* exit program was missed.
THEOREM SkipsAfterLoss == SafeRead => (Spec => []SkippedOnlyAfterLoss)
<1> SUFFICES ASSUME SafeRead PROVE Spec => []SkippedOnlyAfterLoss
  OBVIOUS
<1>1. LossInv => SkippedOnlyAfterLoss
  BY DEF LossInv, ReaderInv
<1> QED BY <1>1, ReaderInvariant, PTL

\* A session stays in the reader's table only as long as its exit event may
\* come, or for one of the recorded losses in the kernel.
THEOREM OpenAwaitExit == SafeRead => (Spec => []OpenSessionsAwaitExit)
<1> SUFFICES ASSUME SafeRead PROVE Spec => []OpenSessionsAwaitExit
  OBVIOUS
<1>1. LossInv => OpenSessionsAwaitExit
  <2> SUFFICES ASSUME LossInv, NEW id \in Ids, usess[id] # NoCall, callee[usess[id]] \in BothFuncs
               PROVE  \/ \E fp \in Frames : frame[fp] = usess[id]
                      \/ InRing("exit", usess[id])
                      \/ <<"exit", usess[id]>> \in lost
                      \/ usess[id] \in missed \cup unsaved \cup silent
    BY DEF OpenSessionsAwaitExit, InRing
  <2>1. usess[id] \in Calls /\ Opened(usess[id])
    BY DEF LossInv, PairingInv, TypeInv, TypeOK, Opened
  <2> QED BY <2>1 DEF LossInv, ReaderInv, Awaited
<1> QED BY <1>1, ReaderInvariant, PTL
============================================================================
