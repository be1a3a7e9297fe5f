----------------------- MODULE BpfsnoopSession_proofs -----------------------
(***************************************************************************)
(* Proofs about BpfsnoopSession.  TypeInv is inductive by itself and holds *)
(* of every instance; PairingInv needs SafeRead.                           *)
(***************************************************************************)
EXTENDS BpfsnoopSession, TLAPS

-----------------------------------------------------------------------------
(* Ids.                                                                    *)

LEMMA IdsPositive == NRnd * Word \in Nat \ {0}
<1>1. \A m, n \in Nat \ {0} : m * n \in Nat \ {0}
  OBVIOUS
<1> QED BY <1>1, ConstantsAssumption

\* session_id - 1 stays an id, and the reader's SessID + 1 undoes it, around 0 too.
LEMMA PredSucc == \A id \in Ids : Pred(id) \in Ids /\ Succ(Pred(id)) = id
<1> DEFINE M == NRnd * Word
<1>1. M \in Nat \ {0}
  BY IdsPositive
<1> HIDE DEF M
<1>2. \A id \in 0..(M - 1) :
        LET p == IF id = 0 THEN M - 1 ELSE id - 1
        IN  p \in 0..(M - 1) /\ (IF p = M - 1 THEN 0 ELSE p + 1) = id
  BY <1>1
<1> QED BY <1>2 DEF M, Ids, Pred, Succ

LEMMA SuccType == \A id \in Ids : Succ(id) \in Ids
<1> DEFINE M == NRnd * Word
<1>1. M \in Nat \ {0}
  BY IdsPositive
<1> HIDE DEF M
<1>2. \A id \in 0..(M - 1) : (IF id = M - 1 THEN 0 ELSE id + 1) \in 0..(M - 1)
  BY <1>1
<1> QED BY <1>2 DEF M, Ids, Succ

\* gen_session_id fits in 64 bits: random half times Word plus low half.
LEMMA GenType == \A rnd \in 0..(NRnd - 1), fp \in Frames : gen_session_id(rnd, fp) \in Ids
<1> SUFFICES ASSUME NEW rnd \in 0..(NRnd - 1), NEW fp \in Frames
             PROVE  gen_session_id(rnd, fp) \in Ids
  OBVIOUS
<1>1. LowFp[fp] \in 0..(Word - 1)
  BY ConstantsAssumption
<1>2. \A r, n, w, l \in Nat : r <= n - 1 /\ l <= w - 1 => r * w + l \in 0..(n * w - 1)
  <2> SUFFICES ASSUME NEW r \in Nat, NEW n \in Nat, NEW w \in Nat, NEW l \in Nat,
                      r <= n - 1, l <= w - 1
               PROVE  r * w + l \in 0..(n * w - 1)
    OBVIOUS
  <2>1. PICK k \in Nat : n = r + 1 + k
    <3>1. n - r - 1 \in Nat /\ n = r + 1 + (n - r - 1)
      OBVIOUS
    <3> QED BY <3>1
  <2>2. n * w = r * w + w + k * w
    BY <2>1
  <2>3. k * w \in Nat /\ r * w \in Nat
    BY <2>1
  <2> QED BY <2>2, <2>3
<1>3. rnd \in Nat /\ rnd <= NRnd - 1 /\ NRnd \in Nat /\ Word \in Nat
  BY ConstantsAssumption
<1> QED BY <1>1, <1>2, <1>3 DEF gen_session_id, Ids


LEMMA NewIdsType ==
  ASSUME TypeOK, NEW t \in Tasks, depth[t] > 0
  PROVE  NewIds(t) \subseteq Ids
<1>1. Fp(t) \in Frames
  BY ConstantsAssumption DEF TypeOK, Fp, Frames
<1> QED BY <1>1, GenType DEF NewIds

-----------------------------------------------------------------------------
(* Type correctness.                                                       *)

LEMMA TypeInit == Init => TypeInv
BY ConstantsAssumption, NoneAssumption
DEF Init, TypeInv, TypeOK, FrameInv, ProgramInv, CounterInv, PCs, Frames, Calls, NoCall

\* A running program's frame is on its stack.
LEMMA TopFrame ==
  ASSUME TypeOK, FrameInv, NEW t \in Tasks, depth[t] > 0
  PROVE  Fp(t) \in Frames /\ Top(t) \in Calls /\ Top(t) <= ncalls /\ Func(t) \in Funcs
<1>1. Fp(t) \in Frames /\ depth[t] \in 1..MaxDepth
  BY ConstantsAssumption DEF TypeOK, Fp, Frames
<1>2. frame[Fp(t)] # NoCall
  BY <1>1 DEF FrameInv, Fp
<1>3. Top(t) \in Calls /\ Top(t) <= ncalls
  BY <1>1, <1>2 DEF TypeOK, FrameInv, Top
<1> QED BY <1>1, <1>3 DEF FrameInv, Func

\* Pushing the frame of a new call.
LEMMA CallFrames ==
  ASSUME TypeOK, FrameInv, NEW t \in Tasks, NEW f \in Funcs, Call(t, f)
  PROVE  /\ depth' \in [Tasks -> 0..MaxDepth] /\ ncalls' \in 0..MaxCalls
         /\ frame' \in [Frames -> Calls \cup {NoCall}]
         /\ callee' \in [Calls -> Funcs \cup {NoFunc}]
         /\ FrameInv'
<1> DEFINE d0 == depth[t] + 1
           fp0 == <<t, d0>>
           c0 == ncalls + 1
<1>1. d0 \in 1..MaxDepth /\ fp0 \in Frames /\ c0 \in Calls
  BY ConstantsAssumption DEF Call, TypeOK, Frames, Calls
<1>2. /\ depth' = [depth EXCEPT ![t] = d0] /\ frame' = [frame EXCEPT ![fp0] = c0]
      /\ callee' = [callee EXCEPT ![c0] = f] /\ ncalls' = c0 /\ sid' = sid
  BY DEF Call, TypeOK, history
<1>3. /\ depth' \in [Tasks -> 0..MaxDepth] /\ ncalls' \in 0..MaxCalls
      /\ frame' \in [Frames -> Calls \cup {NoCall}]
      /\ callee' \in [Calls -> Funcs \cup {NoFunc}]
  BY <1>1, <1>2 DEF TypeOK, Calls
<1>4. \A u \in Tasks : \A d \in 1..MaxDepth : frame'[<<u, d>>] # NoCall <=> d <= depth'[u]
  <2> SUFFICES ASSUME NEW u \in Tasks, NEW d \in 1..MaxDepth
               PROVE  frame'[<<u, d>>] # NoCall <=> d <= depth'[u]
    OBVIOUS
  <2>1. <<u, d>> \in Frames
    BY DEF Frames
  <2>2. CASE <<u, d>> = fp0
    BY <1>1, <1>2, <2>1, <2>2 DEF TypeOK, Calls, NoCall
  <2>3. CASE <<u, d>> # fp0
    <3>1. frame'[<<u, d>>] = frame[<<u, d>>]
      BY <1>2, <2>1, <2>3 DEF TypeOK
    <3>2. u = t => (d <= depth[u] <=> d <= depth'[u])
      BY <1>1, <1>2, <2>3 DEF TypeOK
    <3>3. u # t => depth'[u] = depth[u]
      BY <1>2 DEF TypeOK
    <3> QED BY <3>1, <3>2, <3>3 DEF FrameInv
  <2> QED BY <2>2, <2>3
<1>5. \A fp \in Frames : frame'[fp] <= ncalls'
  BY <1>1, <1>2, ConstantsAssumption DEF TypeOK, FrameInv, Calls, NoCall
<1>6. \A fp, gp \in Frames : frame'[fp] = frame'[gp] /\ frame'[fp] # NoCall => fp = gp
  <2>1. \A fp \in Frames : frame[fp] # c0
    BY ConstantsAssumption DEF TypeOK, FrameInv, Calls, NoCall
  <2> HIDE DEF fp0, c0
  <2> QED BY <1>1, <1>2, <2>1 DEF TypeOK, FrameInv
<1>7. \A c \in Calls : c <= ncalls' => callee'[c] \in Funcs
  BY <1>1, <1>2 DEF TypeOK, FrameInv, Calls
<1>8. \A c \in Calls : c > ncalls' => callee'[c] = NoFunc /\ sid'[c] = NoId
  BY <1>1, <1>2 DEF TypeOK, FrameInv, Calls
<1> QED BY <1>3, <1>4, <1>5, <1>6, <1>7, <1>8 DEF FrameInv

\* Popping the frame of the innermost call.
LEMMA PopFrames ==
  ASSUME TypeOK, FrameInv, NEW t \in Tasks, depth[t] > 0, Pop(t), sid' = sid
  PROVE  /\ depth' \in [Tasks -> 0..MaxDepth] /\ ncalls' \in 0..MaxCalls
         /\ frame' \in [Frames -> Calls \cup {NoCall}]
         /\ callee' \in [Calls -> Funcs \cup {NoFunc}]
         /\ FrameInv'
<1>1. Fp(t) \in Frames /\ depth[t] \in 1..MaxDepth
  BY TopFrame, ConstantsAssumption DEF TypeOK
<1>2. /\ depth' = [depth EXCEPT ![t] = depth[t] - 1] /\ frame' = [frame EXCEPT ![Fp(t)] = NoCall]
      /\ callee' = callee /\ ncalls' = ncalls
  BY DEF Pop, TypeOK
<1>3. /\ depth' \in [Tasks -> 0..MaxDepth] /\ ncalls' \in 0..MaxCalls
      /\ frame' \in [Frames -> Calls \cup {NoCall}]
      /\ callee' \in [Calls -> Funcs \cup {NoFunc}]
  BY <1>1, <1>2, ConstantsAssumption DEF TypeOK
<1>4. \A u \in Tasks : \A d \in 1..MaxDepth : frame'[<<u, d>>] # NoCall <=> d <= depth'[u]
  <2> SUFFICES ASSUME NEW u \in Tasks, NEW d \in 1..MaxDepth
               PROVE  frame'[<<u, d>>] # NoCall <=> d <= depth'[u]
    OBVIOUS
  <2>1. <<u, d>> \in Frames
    BY DEF Frames
  <2>2. CASE u = t /\ d = depth[t]
    BY <1>1, <1>2, <2>1, <2>2 DEF TypeOK, Fp
  <2>3. CASE ~(u = t /\ d = depth[t])
    <3>1. frame'[<<u, d>>] = frame[<<u, d>>]
      BY <1>2, <2>1, <2>3 DEF TypeOK, Fp
    <3>2. d <= depth[u] <=> d <= depth'[u]
      BY <1>1, <1>2, <2>3 DEF TypeOK
    <3> QED BY <3>1, <3>2 DEF FrameInv
  <2> QED BY <2>2, <2>3
<1>5. \A fp \in Frames : frame'[fp] <= ncalls'
  BY <1>1, <1>2 DEF TypeOK, FrameInv, NoCall
<1>6. \A fp, gp \in Frames : frame'[fp] = frame'[gp] /\ frame'[fp] # NoCall => fp = gp
  BY <1>1, <1>2 DEF TypeOK, FrameInv
<1> QED BY <1>2, <1>3, <1>4, <1>5, <1>6 DEF FrameInv


\* A step that moves no frame and draws no id.
LEMMA FrameStable == ASSUME FrameInv, UNCHANGED <<kernel, sid>> PROVE FrameInv'
BY DEF FrameInv, kernel

\* What EntryDone and ExitDone leave behind.
LEMMA DoneType ==
  ASSUME TypeOK, ProgramInv, NEW t \in Tasks, EntryDone(t) \/ ExitDone(t)
  PROVE  /\ pc' \in [Tasks -> PCs] /\ reg' \in [Tasks -> Ids \cup {NoId}]
         /\ elem' \in [Tasks -> Elems \cup {NoElem}]
         /\ pc'[t] = "run"
         /\ \A u \in Tasks \ {t} : pc'[u] = pc[u] /\ reg'[u] = reg[u] /\ elem'[u] = elem[u]
BY DEF EntryDone, ExitDone, TypeOK, PCs

\* Programs other than that of t are not disturbed by the end of t's.
LEMMA DoneProgram ==
  ASSUME TypeOK, FrameInv, ProgramInv, NEW t \in Tasks, depth[t] > 0, sid' = sid,
         \/ EntryDone(t) /\ UNCHANGED kernel
         \/ ExitDone(t),
         UNCHANGED map
  PROVE  /\ depth' \in [Tasks -> 0..MaxDepth] /\ ncalls' \in 0..MaxCalls
         /\ frame' \in [Frames -> Calls \cup {NoCall}]
         /\ callee' \in [Calls -> Funcs \cup {NoFunc}]
         /\ FrameInv' /\ ProgramInv'
<1>1. /\ depth' \in [Tasks -> 0..MaxDepth] /\ ncalls' \in 0..MaxCalls
      /\ frame' \in [Frames -> Calls \cup {NoCall}]
      /\ callee' \in [Calls -> Funcs \cup {NoFunc}]
      /\ FrameInv'
  <2>1. CASE UNCHANGED kernel
    BY <2>1, FrameStable DEF kernel, TypeOK
  <2>2. CASE ExitDone(t)
    BY <2>2, PopFrames DEF ExitDone
  <2> QED BY <2>1, <2>2
<1>2. \A u \in Tasks \ {t} : depth'[u] = depth[u]
  BY DEF ExitDone, Pop, kernel, TypeOK
<1>3. ProgramInv'
  BY <1>2, DoneType DEF ProgramInv, map
<1> QED BY <1>1, <1>3

\* The steps of the programs and of the tracee that call, return or end.
LEMMA TypeTracee ==
  ASSUME TypeInv, NEW t \in Tasks, NEW f \in Funcs, Call(t, f) \/ Return(t)
  PROVE  TypeInv'
<1> USE DEF TypeInv
<1>1. CASE Call(t, f)
  <2>1. /\ depth' \in [Tasks -> 0..MaxDepth] /\ ncalls' \in 0..MaxCalls
        /\ frame' \in [Frames -> Calls \cup {NoCall}]
        /\ callee' \in [Calls -> Funcs \cup {NoFunc}]
        /\ FrameInv'
    BY <1>1, CallFrames
  <2>2. TypeOK'
    BY <1>1, <2>1 DEF Call, TypeOK, PCs, map, reader, history
  <2>3. depth'[t] > 0 /\ \A u \in Tasks \ {t} : depth'[u] = depth[u]
    BY <1>1 DEF Call, TypeOK
  <2>4. ProgramInv'
    BY <1>1, <2>3 DEF Call, TypeOK, ProgramInv, map
  <2>5. CounterInv'
    BY <1>1 DEF Call, CounterInv, reader
  <2> QED BY <2>1, <2>2, <2>4, <2>5
<1>2. CASE Return(t)
  <2>1. /\ depth' \in [Tasks -> 0..MaxDepth] /\ ncalls' \in 0..MaxCalls
        /\ frame' \in [Frames -> Calls \cup {NoCall}]
        /\ callee' \in [Calls -> Funcs \cup {NoFunc}]
        /\ FrameInv'
    <3>1. CASE Pop(t)
      BY <1>2, <3>1, PopFrames DEF Return, history
    <3>2. CASE UNCHANGED kernel
      BY <1>2, <3>2, FrameStable DEF Return, history, kernel, TypeOK
    <3> QED BY <1>2, <3>1, <3>2 DEF Return
  <2>2. TypeOK'
    BY <1>2, <2>1 DEF Return, TypeOK, PCs, map, reader, history
  <2>3. \A u \in Tasks : u # t => depth'[u] = depth[u] /\ pc'[u] = pc[u]
    BY <1>2 DEF Return, Pop, TypeOK, kernel
  <2>4. pc'[t] # "run" => depth'[t] > 0
    BY <1>2 DEF Return, Pop, TypeOK, kernel
  <2>5. pc'[t] \in {"run", "exit"}
    BY <1>2 DEF Return, TypeOK
  <2>6. ProgramInv'
    BY <1>2, <2>3, <2>4, <2>5 DEF Return, ProgramInv, map
  <2>7. CounterInv'
    BY <1>2 DEF Return, CounterInv, reader
  <2> QED BY <2>1, <2>2, <2>6, <2>7
<1> QED BY <1>1, <1>2

\* The steps that end a program.
LEMMA TypeDone ==
  ASSUME TypeInv, NEW t \in Tasks,
         \/ EntryIgnored(t) \/ ExitMissed(t) \/ ExitNotReady(t) \/ ExitIgnored(t)
         \/ ReserveFails(t) \/ Submit(t)
  PROVE  TypeInv'
<1> USE DEF TypeInv
<1>1. depth[t] > 0
  BY DEF EntryIgnored, ExitMissed, ExitNotReady, ExitIgnored, ReserveFails, Submit, ProgramInv
<1>2. /\ sid' = sid /\ UNCHANGED map /\ UNCHANGED ready /\ UNCHANGED ring /\ UNCHANGED reader
      /\ \/ EntryDone(t) /\ UNCHANGED kernel
         \/ ExitDone(t)
  BY DEF EntryIgnored, ExitMissed, ExitNotReady, ExitIgnored, ReserveFails, Submit, history
<1>3. /\ depth' \in [Tasks -> 0..MaxDepth] /\ ncalls' \in 0..MaxCalls
      /\ frame' \in [Frames -> Calls \cup {NoCall}]
      /\ callee' \in [Calls -> Funcs \cup {NoFunc}]
      /\ FrameInv' /\ ProgramInv'
  BY <1>1, <1>2, DoneProgram
<1>4. Top(t) \in Calls
  BY <1>1, TopFrame
<1>5. /\ lost' \subseteq Kinds \X Calls
      /\ missed' \subseteq Calls /\ unsaved' \subseteq Calls /\ silent' \subseteq Calls
  BY <1>4 DEF EntryIgnored, ExitMissed, ExitNotReady, ExitIgnored, ReserveFails, Submit,
              history, TypeOK, Kinds, Kind
<1>6. TypeOK'
  BY <1>2, <1>3, <1>5, DoneType DEF TypeOK, map, reader
<1>7. CounterInv'
  BY <1>2 DEF CounterInv, reader
<1> QED BY <1>3, <1>6, <1>7

\* What add_session leaves in the map.
LEMMA AddSessionType ==
  ASSUME TypeOK, NEW fp \in Frames, NEW id \in Ids, frame[fp] \in Calls, add_session(fp, id)
  PROVE  /\ sessions' \in [Frames -> Elems \cup {NoElem}]
         /\ value' \in [Elems -> Ids \cup {NoId}]
         /\ unsaved' \subseteq Calls
         /\ \A e \in Elems : value'[e] # value[e] => value'[e] = id
         /\ \A gp \in Frames : \/ sessions'[gp] = sessions[gp]
                               \/ sessions'[gp] \in Elems /\ value'[sessions'[gp]] = id
<1>1. CASE \E e \in (Elems \ (Used \cup Held)) \cup ({sessions[fp]} \ {NoElem}) :
             /\ sessions' = [sessions EXCEPT ![fp] = e]
             /\ value' = [value EXCEPT ![e] = id]
             /\ UNCHANGED unsaved
  <2>1. PICK e \in Elems : /\ sessions' = [sessions EXCEPT ![fp] = e]
                          /\ value' = [value EXCEPT ![e] = id]
                          /\ UNCHANGED unsaved
    BY <1>1 DEF TypeOK
  <2> QED BY <2>1 DEF TypeOK
<1>2. CASE UNCHANGED map /\ unsaved' = unsaved \cup {frame[fp]}
  BY <1>2 DEF TypeOK, map
<1> QED BY <1>1, <1>2 DEF add_session

\* The steps of a program that goes on.
LEMMA TypeProgram ==
  ASSUME TypeInv, NEW t \in Tasks,
         \/ EntryAccepted(t) \/ ExitSingle(t) \/ ExitReadDelete(t) \/ ExitDelete(t)
         \/ ExitRead(t) \/ Reserve(t)
  PROVE  TypeInv'
<1> USE DEF TypeInv
<1>1. depth[t] > 0
  BY DEF EntryAccepted, ExitSingle, ExitReadDelete, ExitDelete, ExitRead, Reserve, ProgramInv
<1>2. Fp(t) \in Frames /\ Top(t) \in Calls /\ Top(t) <= ncalls
  BY <1>1, TopFrame
<1>3. CounterInv'
  BY DEF EntryAccepted, ExitSingle, ExitReadDelete, ExitDelete, ExitRead, Reserve, CounterInv, reader
<1>4. CASE EntryAccepted(t)
  <2>1. PICK id \in NewIds(t) :
          /\ reg' = [reg EXCEPT ![t] = id]
          /\ sid' = [sid EXCEPT ![Top(t)] = id]
          /\ IF Func(t) \in BothFuncs THEN add_session(Fp(t), id)
                                      ELSE UNCHANGED <<map, unsaved>>
    BY <1>4 DEF EntryAccepted
  <2>2. id \in Ids
    BY <1>1, NewIdsType
  <2>3. /\ sessions' \in [Frames -> Elems \cup {NoElem}]
        /\ value' \in [Elems -> Ids \cup {NoId}]
        /\ unsaved' \subseteq Calls
        /\ \A e \in Elems : value'[e] # value[e] => value'[e] = id
        /\ \A gp \in Frames : \/ sessions'[gp] = sessions[gp]
                              \/ sessions'[gp] \in Elems /\ value'[sessions'[gp]] = id
    <3>1. CASE add_session(Fp(t), id)
      BY <1>2, <2>2, <3>1, AddSessionType DEF Top
    <3>2. CASE UNCHANGED <<map, unsaved>>
      BY <3>2 DEF map, TypeOK
    <3> QED BY <2>1, <3>1, <3>2
  <2>4. TypeOK'
    BY <1>2, <1>4, <2>1, <2>2, <2>3 DEF EntryAccepted, TypeOK, PCs, kernel, reader
  <2>5. FrameInv'
    BY <1>2, <1>4, <2>1 DEF EntryAccepted, FrameInv, TypeOK, kernel, Calls
  <2>6. ProgramInv'
    <3>1. \A fp \in Frames : sessions'[fp] # NoElem => value'[sessions'[fp]] \in Ids
      BY <2>2, <2>3 DEF ProgramInv, TypeOK
    <3>2. \A u \in Tasks : pc'[u] = "exit_read" => elem'[u] \in Elems /\ value'[elem'[u]] \in Ids
      BY <1>4, <2>2, <2>3 DEF EntryAccepted, ProgramInv, TypeOK
    <3>3. \A u \in Tasks : pc'[u] # "run" => depth'[u] > 0
      BY <1>1, <1>4 DEF EntryAccepted, ProgramInv, TypeOK, kernel
    <3>4. \A u \in Tasks : pc'[u] \in {"entry_reserve", "entry_commit", "exit_reserve", "exit_commit"}
                             => reg'[u] \in Ids
      BY <1>4, <2>1, <2>2 DEF EntryAccepted, ProgramInv, TypeOK
    <3> QED BY <3>1, <3>2, <3>3, <3>4 DEF ProgramInv
  <2> QED BY <1>3, <2>4, <2>5, <2>6
<1>5. CASE ExitSingle(t)
  <2>1. PICK id \in NewIds(t) : reg' = [reg EXCEPT ![t] = id]
    BY <1>5 DEF ExitSingle
  <2>2. id \in Ids
    BY <1>1, NewIdsType
  <2>3. TypeOK'
    BY <1>5, <2>1, <2>2 DEF ExitSingle, TypeOK, PCs, kernel, map, reader, history
  <2>4. ProgramInv'
    BY <1>1, <1>5, <2>1, <2>2 DEF ExitSingle, ProgramInv, TypeOK, kernel, map
  <2>5. FrameInv'
    BY <1>5, FrameStable DEF ExitSingle, history
  <2> QED BY <1>3, <2>3, <2>4, <2>5
<1>6. CASE ExitReadDelete(t)
  <2>1. Pred(value[sessions[Fp(t)]]) \in Ids
    BY <1>2, <1>6, PredSucc DEF ExitReadDelete, ProgramInv
  <2>2. TypeOK'
    BY <1>6, <2>1 DEF ExitReadDelete, TypeOK, PCs, kernel, reader, history
  <2>3. ProgramInv'
    BY <1>1, <1>2, <1>6, <2>1 DEF ExitReadDelete, ProgramInv, TypeOK, kernel
  <2>4. FrameInv'
    BY <1>6, FrameStable DEF ExitReadDelete, history
  <2> QED BY <1>3, <2>2, <2>3, <2>4
<1>7. CASE ExitDelete(t)
  <2>1. sessions[Fp(t)] \in Elems /\ value[sessions[Fp(t)]] \in Ids
    BY <1>2, <1>7 DEF ExitDelete, ProgramInv, TypeOK
  <2>2. TypeOK'
    BY <1>7, <2>1 DEF ExitDelete, TypeOK, PCs, kernel, reader, history
  <2>3. ProgramInv'
    BY <1>1, <1>2, <1>7, <2>1 DEF ExitDelete, ProgramInv, TypeOK, kernel
  <2>4. FrameInv'
    BY <1>7, FrameStable DEF ExitDelete, history
  <2> QED BY <1>3, <2>2, <2>3, <2>4
<1>8. CASE ExitRead(t)
  <2>1. Pred(value[elem[t]]) \in Ids
    BY <1>8, PredSucc DEF ExitRead, ProgramInv
  <2>2. TypeOK'
    BY <1>8, <2>1 DEF ExitRead, TypeOK, PCs, kernel, map, reader, history
  <2>3. ProgramInv'
    BY <1>1, <1>8, <2>1 DEF ExitRead, ProgramInv, TypeOK, kernel, map
  <2>4. FrameInv'
    BY <1>8, FrameStable DEF ExitRead, history
  <2> QED BY <1>3, <2>2, <2>3, <2>4
<1>9. CASE Reserve(t)
  <2>1. [kind |-> Kind(t), id |-> reg[t], call |-> Top(t)] \in Record
    BY <1>2, <1>9 DEF Reserve, Record, Kinds, Kind, ProgramInv
  <2>2. ring' \in Seq(Record)
    BY <1>9, <2>1 DEF Reserve, TypeOK
  <2>3. TypeOK'
    BY <1>9, <2>2 DEF Reserve, TypeOK, PCs, kernel, map, reader, history
  <2>4. ProgramInv'
    BY <1>1, <1>9 DEF Reserve, ProgramInv, TypeOK, kernel, map
  <2>5. FrameInv'
    BY <1>9, FrameStable DEF Reserve, history
  <2> QED BY <1>3, <2>3, <2>4, <2>5
<1> QED BY <1>4, <1>5, <1>6, <1>7, <1>8, <1>9

\* The steps of the reader and of main.
LEMMA TypeReader ==
  ASSUME TypeInv, Consume \/ Main
  PROVE  TypeInv'
<1> USE DEF TypeInv
<1>1. FrameInv' /\ ProgramInv'
  BY DEF Consume, Main, SetReady, CloseReader, ClearReady, FrameInv, ProgramInv,
         kernel, prog, map, history
<1>2. CASE Consume
  <2> DEFINE rec == Head(ring)
  <2>1. rec \in Record /\ ring' \in Seq(Record)
    BY <1>2 DEF Consume, TypeOK
  <2>2. rec.id \in Ids /\ rec.call \in Calls /\ Succ(rec.id) \in Ids
    BY <2>1, SuccType DEF Record
  <2> HIDE DEF rec
  <2>3. Output => /\ remaining' \in Nat /\ run' \in {"running", "finished", "closed"}
                  /\ CounterInv'
    BY <1>2, ConstantsAssumption DEF Output, Consume, CounterInv, TypeOK
  <2>4. UNCHANGED <<run, remaining>> =>
          /\ remaining' \in Nat /\ run' \in {"running", "finished", "closed"}
          /\ CounterInv'
    BY DEF CounterInv, TypeOK
  <2>5. /\ usess' \in [Ids -> Calls \cup {NoCall}]
        /\ printed' \subseteq Calls \X Calls /\ skipped' \subseteq Calls
        /\ Output \/ UNCHANGED <<run, remaining>>
    <3>1. \/ HandleEntry(rec) \/ HandleExitSkip(rec) \/ HandleExitTooShort(rec)
          \/ HandleExitPrint(rec) \/ HandleStandalone(rec)
      BY <1>2 DEF Consume, rec
    <3>2. ASSUME HandleExitPrint(rec)
          PROVE  usess[Succ(rec.id)] \in Calls
      BY <2>2, <3>2 DEF HandleExitPrint, TypeOK, NoCall
    <3>3. CASE HandleEntry(rec) \/ HandleExitSkip(rec)
      BY <2>2, <3>3 DEF HandleEntry, HandleExitSkip, TypeOK
    <3>4. CASE HandleExitTooShort(rec)
      BY <2>2, <3>4 DEF HandleExitTooShort, TypeOK
    <3>5. CASE HandleExitPrint(rec)
      <4>1. <<usess[Succ(rec.id)], rec.call>> \in Calls \X Calls
        BY <2>2, <3>2, <3>5
      <4>2. usess' \in [Ids -> Calls \cup {NoCall}]
        BY <2>2, <3>5 DEF HandleExitPrint, TypeOK
      <4> QED BY <3>5, <4>1, <4>2 DEF HandleExitPrint, TypeOK
    <3>6. CASE HandleStandalone(rec)
      BY <3>6 DEF HandleStandalone, TypeOK
    <3> QED BY <3>1, <3>3, <3>4, <3>5, <3>6
  <2>6. TypeOK' /\ CounterInv'
    BY <1>2, <2>1, <2>3, <2>4, <2>5 DEF Consume, TypeOK, kernel, prog, map, history
  <2> QED BY <1>1, <2>6
<1>3. CASE Main
  <2>1. TypeOK'
    BY <1>3 DEF Main, SetReady, CloseReader, ClearReady, TypeOK, kernel, prog, map, reader, history
  <2>2. CounterInv'
    BY <1>3 DEF Main, SetReady, CloseReader, ClearReady, CounterInv, reader
  <2> QED BY <1>1, <2>1, <2>2
<1> QED BY <1>2, <1>3

LEMMA TypeStutter == TypeInv /\ UNCHANGED vars => TypeInv'
BY DEF TypeInv, TypeOK, FrameInv, ProgramInv, CounterInv, vars, kernel, prog, map, reader, history

LEMMA TypeStep == TypeInv /\ [Next]_vars => TypeInv'
<1> SUFFICES ASSUME TypeInv, [Next]_vars PROVE TypeInv'
  OBVIOUS
<1>1. CASE \E t \in Tasks, f \in Funcs : Call(t, f)
  BY <1>1, TypeTracee
<1>2. ASSUME NEW t \in Tasks, Return(t) PROVE TypeInv'
  <2>1. Func(t) \in Funcs
    BY <1>2, TopFrame DEF Return, TypeInv
  <2> QED BY <1>2, <2>1, TypeTracee
<1>3. ASSUME NEW t \in Tasks, Program(t) PROVE TypeInv'
  BY <1>3, TypeDone, TypeProgram DEF Program, EntryProgram, ExitProgram
<1>4. CASE Consume \/ Main
  BY <1>4, TypeReader
<1>5. CASE UNCHANGED vars
  BY <1>5, TypeStutter
<1> QED BY <1>1, <1>2, <1>3, <1>4, <1>5 DEF Next

THEOREM TypeInvariant == Spec => []TypeInv
BY TypeInit, TypeStep, PTL DEF Spec

\* Type correctness of every instance: the ids read from the kernel map, sent
\* and looked up are ids some program wrote there, and the loop counter of
\* Run never goes below zero.
THEOREM TypeCorrect == Spec => []TypeOK
<1>1. TypeInv => TypeOK
  BY DEF TypeInv
<1> QED BY <1>1, TypeInvariant, PTL

-----------------------------------------------------------------------------
(* Pairing.                                                                *)

LEMMA PairingInit == Init => PairingInv
<1> SUFFICES ASSUME Init PROVE PairingInv
  OBVIOUS
<1>1. TypeInv
  BY TypeInit
<1>2. PhaseInv /\ ElemInv
  BY DEF Init, PhaseInv, ElemInv, ExitPCs
<1>3. MapFlow /\ ReadFlow /\ RegFlow
  BY DEF Init, MapFlow, ReadFlow, RegFlow
<1>4. RingFlow /\ TableFlow /\ PrintedFlow
  BY DEF Init, RingFlow, TableFlow, PrintedFlow
<1> QED BY <1>1, <1>2, <1>3, <1>4 DEF PairingInv, FlowInv

\* What a call was given stays: its function, its id, and its place among the
\* calls whose exit program did not run.
Grows ==
  /\ \A c \in Calls : callee[c] \in Funcs => callee'[c] = callee[c]
  /\ \A c \in Calls : sid[c] # NoId => sid'[c] = sid[c]
  /\ missed \subseteq missed' /\ silent \subseteq silent'

LEMMA IdGrows ==
  ASSUME TypeOK, Grows
  PROVE  \A c \in Calls : callee[c] \in BothFuncs /\ sid[c] # NoId =>
           callee'[c] \in BothFuncs /\ sid'[c] = sid[c]
BY ConstantsAssumption DEF Grows

LEMMA RecordGrows ==
  ASSUME TypeOK, Grows, NEW rec \in Record, RecordFlow(rec)
  PROVE  RecordFlow(rec)'
<1>1. rec.call \in Calls /\ rec.id \in Ids /\ rec.kind \in Kinds
  BY DEF Record
<1>2. CASE rec.kind = "entry"
  BY <1>1, <1>2, NoneAssumption DEF Grows, RecordFlow
<1>3. CASE rec.kind # "entry"
  <2>1. callee[rec.call] \in Funcs \ EntryFuncs /\ callee'[rec.call] = callee[rec.call]
    BY <1>1, <1>3 DEF Grows, RecordFlow
  <2>2. ASSUME callee[rec.call] \in BothFuncs
        PROVE  \E x \in Ids : rec.id = Pred(x) /\ IdOf(x, {rec.call} \cup missed)'
    <3>1. PICK x \in Ids : rec.id = Pred(x) /\ IdOf(x, {rec.call} \cup missed)
      BY <1>3, <2>2 DEF RecordFlow
    <3>2. missed \subseteq missed'
      BY DEF Grows
    <3> QED BY <3>1, <3>2, IdGrows DEF IdOf
  <2> QED BY <1>3, <2>1, <2>2 DEF RecordFlow
<1> QED BY <1>2, <1>3

\* What has reached the ring buffer and the reader is not disturbed by a step
\* of the kernel that adds no record.
LEMMA DownstreamGrows ==
  ASSUME TypeOK, Grows, RingFlow, TableFlow, PrintedFlow, UNCHANGED <<ring, usess, printed>>
  PROVE  RingFlow' /\ TableFlow' /\ PrintedFlow'
<1>1. RingFlow'
  <2>1. ASSUME NEW i \in 1..Len(ring), NEW rec \in Record, rec = ring[i], RecordFlow(rec)
        PROVE  RecordFlow(rec)'
    BY <2>1, RecordGrows
  <2>2. \A i \in 1..Len(ring) : ring[i] \in Record
    BY DEF TypeOK
  <2> QED BY <2>1, <2>2 DEF RingFlow
<1>2. TableFlow'
  BY NoneAssumption DEF TableFlow, Grows, TypeOK, NoCall
<1>3. PrintedFlow'
  <2> SUFFICES ASSUME NEW p \in printed
               PROVE  sid'[p[1]] # NoId /\ IdOf(sid[p[1]], {p[2]} \cup missed)'
    BY DEF PrintedFlow
  <2>1. sid[p[1]] # NoId /\ sid'[p[1]] = sid[p[1]] /\ IdOf(sid[p[1]], {p[2]} \cup missed)
    BY DEF PrintedFlow, TypeOK, Grows
  <2>2. missed \subseteq missed'
    BY DEF Grows
  <2> QED BY <2>1, <2>2, IdGrows DEF IdOf
<1> QED BY <1>1, <1>2, <1>3

\* The frames of the other tasks stay as they are.
LEMMA OtherFrames ==
  ASSUME TypeInv, NEW t \in Tasks,
         \/ \E f \in Funcs : Call(t, f)
         \/ Pop(t)
         \/ UNCHANGED kernel
  PROVE  /\ \A c \in Calls : callee[c] \in Funcs => callee'[c] = callee[c]
         /\ \A u \in Tasks : depth[u] > 0 /\ u # t =>
              Fp(u)' = Fp(u) /\ Top(u)' = Top(u) /\ Func(u)' = Func(u)
         /\ Pop(t) => \A fp \in Frames : frame'[fp] = IF fp = Fp(t) THEN NoCall ELSE frame[fp]
<1> USE DEF TypeInv
<1>1. \A u \in Tasks : depth[u] > 0 => /\ Fp(u) = <<u, depth[u]>>
                                        /\ Fp(u) \in Frames
                                        /\ Top(u) \in Calls /\ Top(u) <= ncalls
                                        /\ Func(u) \in Funcs
  BY TopFrame DEF Fp
<1>2. CASE \E f \in Funcs : Call(t, f)
  <2>1. PICK f \in Funcs : Call(t, f)
    BY <1>2
  <2>2. /\ depth' = [depth EXCEPT ![t] = depth[t] + 1]
        /\ frame' = [frame EXCEPT ![<<t, depth[t] + 1>>] = ncalls + 1]
        /\ callee' = [callee EXCEPT ![ncalls + 1] = f]
    BY <2>1 DEF Call, TypeOK
  <2>3. \A c \in Calls : callee[c] \in Funcs => c # ncalls + 1
    BY NoneAssumption, ConstantsAssumption DEF FrameInv, TypeOK, Calls
  <2>4. \A c \in Calls : callee[c] \in Funcs => callee'[c] = callee[c]
    BY <2>2, <2>3 DEF TypeOK
  <2>5. \A u \in Tasks : depth[u] > 0 /\ u # t => Fp(u)' = Fp(u) /\ Top(u)' = Top(u)
    BY <1>1, <2>2 DEF Fp, Top, TypeOK
  <2>6. \A u \in Tasks : depth[u] > 0 /\ u # t => Func(u)' = Func(u)
    BY <1>1, <2>4, <2>5 DEF Func
  <2>7. ~Pop(t)
    BY <2>1, ConstantsAssumption DEF Call, Pop, TypeOK
  <2> QED BY <2>4, <2>5, <2>6, <2>7
<1>3. CASE Pop(t)
  BY <1>1, <1>3 DEF Pop, Fp, Top, Func, TypeOK
<1>4. CASE UNCHANGED kernel /\ ~Pop(t)
  BY <1>1, <1>4 DEF kernel, Fp, Top, Func
<1> QED BY <1>2, <1>3, <1>4

\* No session is lost when the frame of t is popped: it has none of its own.
LEMMA PopMap ==
  ASSUME TypeInv, NEW t \in Tasks, depth[t] > 0, Pop(t), Grows, MapFlow, UNCHANGED map,
         \/ Func(t) \notin BothFuncs
         \/ sessions[Fp(t)] = NoElem
         \/ Top(t) \in missed' \cup silent'
         \/ \A c \in Calls : sid[c] = NoId
  PROVE  MapFlow'
<1>1. Fp(t) \in Frames
  BY TopFrame DEF TypeInv
<1>2. \A fp \in Frames : frame'[fp] = IF fp = Fp(t) THEN NoCall ELSE frame[fp]
  BY OtherFrames
<1>3. SUFFICES ASSUME NEW fp \in Frames, sessions[fp] # NoElem
               PROVE  IdOf(value[sessions[fp]], {frame[fp]} \cup missed \cup silent)'
  BY DEF MapFlow, map
<1>4. PICK c \in {frame[fp]} \cup missed \cup silent :
        c \in Calls /\ callee[c] \in BothFuncs /\ sid[c] # NoId /\ value[sessions[fp]] = sid[c]
  BY <1>3 DEF MapFlow, IdOf
<1>5. callee'[c] \in BothFuncs /\ sid'[c] # NoId /\ value'[sessions'[fp]] = sid'[c]
  BY <1>4, IdGrows DEF TypeInv, map
<1>6. c \in {frame'[fp]} \cup missed' \cup silent'
  BY <1>2, <1>3, <1>4 DEF Grows, Func, Top
<1> QED BY <1>4, <1>5, <1>6 DEF IdOf

LEMMA PairingTracee ==
  ASSUME PairingInv, NEW t \in Tasks, NEW f \in Funcs, Call(t, f) \/ Return(t)
  PROVE  PairingInv'
<1> USE DEF PairingInv, FlowInv, TypeInv
<1>1. TypeInv'
  BY TypeTracee
<1>2. Grows /\ UNCHANGED <<map, ring, reader, history, ready, reg, elem>>
  BY OtherFrames DEF Grows, Call, Return, history, kernel
<1>3. RingFlow' /\ TableFlow' /\ PrintedFlow'
  BY <1>2, DownstreamGrows DEF reader
<1>4. /\ \A u \in Tasks : u # t => pc'[u] = pc[u]
      /\ pc'[t] \in {"run", "entry", "exit"}
      /\ \A u \in Tasks : depth[u] > 0 /\ u # t =>
              Fp(u)' = Fp(u) /\ Top(u)' = Top(u) /\ Func(u)' = Func(u)
  BY OtherFrames DEF Call, Return, TypeOK, kernel
<1>5. \A u \in Tasks : pc[u] # "run" => depth[u] > 0
  BY DEF ProgramInv
<1>6. ReadFlow'
  BY <1>2, <1>4, <1>5, IdGrows DEF ReadFlow, IdOf, map, history
<1>7. RegFlow'
  BY <1>2, <1>4, <1>5, IdGrows DEF RegFlow, IdOf, history
<1>8. ElemInv'
  BY <1>2, <1>4 DEF ElemInv, map
<1>9. MapFlow'
  <2>1. CASE Call(t, f)
    <3>1. \A fp \in Frames : frame'[fp] = frame[fp] \/ frame[fp] = NoCall
      BY <2>1 DEF Call, TypeOK, FrameInv, Frames
    <3> QED BY <1>2, <3>1, IdGrows DEF MapFlow, IdOf, map, history, Calls, NoCall
  <2>2. CASE Return(t) /\ UNCHANGED kernel
    BY <1>2, <2>2, IdGrows DEF MapFlow, IdOf, map, history, kernel
  <2>3. CASE Return(t) /\ Pop(t) /\ Func(t) \in EntryFuncs
    BY <1>2, <2>3, PopMap, ConstantsAssumption DEF Return
  <2> QED BY <2>1, <2>2, <2>3 DEF Return
<1>10. PhaseInv'
  <2>1. ready' = ready /\ sid' = sid /\ silent' = silent /\ sessions' = sessions
    BY <1>2 DEF history, map
  <2>2. pc'[t] = "entry" => sid'[Top(t)'] = NoId
    <3>1. CASE Call(t, f)
      <4>1. <<t, depth[t] + 1>> \in Frames /\ ncalls + 1 \in Calls
        BY <3>1, ConstantsAssumption DEF Call, TypeOK, Frames, Calls
      <4>2. Top(t)' = ncalls + 1
        BY <3>1, <4>1 DEF Call, Top, Fp, TypeOK
      <4> QED BY <2>1, <4>1, <4>2 DEF FrameInv, Calls, TypeOK
    <3>2. CASE Return(t)
      BY <3>2 DEF Return, TypeOK
    <3> QED BY <3>1, <3>2
  <2>3. pc'[t] = "exit" => Func(t)' \notin EntryFuncs
    BY DEF Call, Return, Func, Top, Fp, kernel, TypeOK
  <2>4. \A u \in Tasks : pc'[u] = "entry" => sid'[Top(u)'] = NoId
    BY <1>4, <1>5, <2>1, <2>2 DEF PhaseInv
  <2>5. \A u \in Tasks : pc'[u] \in ExitPCs => Func(u)' \notin EntryFuncs
    BY <1>4, <1>5, <2>3 DEF PhaseInv, ExitPCs
  <2>6. \A u \in Tasks : pc'[u] = "exit_read" => Func(u)' \in BothFuncs
    BY <1>4, <1>5 DEF PhaseInv
  <2>7. \A u \in Tasks : pc'[u] \in ExitPCs \ {"exit"} /\ Func(u)' \in BothFuncs
                           => sessions'[Fp(u)'] = NoElem
    BY <1>4, <1>5, <2>1 DEF PhaseInv, ExitPCs
  <2> QED BY <2>1, <2>4, <2>5, <2>6, <2>7 DEF PhaseInv
<1> QED BY <1>1, <1>3, <1>6, <1>7, <1>8, <1>9, <1>10

LEMMA PairingDone ==
  ASSUME PairingInv, NEW t \in Tasks,
         \/ EntryIgnored(t) \/ ExitMissed(t) \/ ExitNotReady(t) \/ ExitIgnored(t)
         \/ ReserveFails(t) \/ Submit(t)
  PROVE  PairingInv'
<1> USE DEF PairingInv, FlowInv, TypeInv
<1>1. TypeInv'
  BY TypeDone
<1>2. /\ sid' = sid /\ UNCHANGED <<map, ready, ring, reader>>
      /\ \/ EntryDone(t) /\ UNCHANGED kernel
         \/ ExitDone(t)
  BY DEF EntryIgnored, ExitMissed, ExitNotReady, ExitIgnored, ReserveFails, Submit, history
<1>3. depth[t] > 0 /\ \A u \in Tasks : pc[u] # "run" => depth[u] > 0
  BY DEF EntryIgnored, ExitMissed, ExitNotReady, ExitIgnored, ReserveFails, Submit, ProgramInv
<1>4. missed \subseteq missed' /\ silent \subseteq silent'
  BY DEF EntryIgnored, ExitMissed, ExitNotReady, ExitIgnored, ReserveFails, Submit, history
<1>5. /\ \A c \in Calls : callee[c] \in Funcs => callee'[c] = callee[c]
      /\ \A u \in Tasks : depth[u] > 0 /\ u # t =>
              Fp(u)' = Fp(u) /\ Top(u)' = Top(u) /\ Func(u)' = Func(u)
  <2>1. Pop(t) \/ UNCHANGED kernel
    BY <1>2 DEF ExitDone
  <2> QED BY <2>1, OtherFrames
<1>6. Grows
  BY <1>2, <1>4, <1>5 DEF Grows
<1>7. /\ pc'[t] = "run"
      /\ \A u \in Tasks \ {t} : pc'[u] = pc[u] /\ reg'[u] = reg[u] /\ elem'[u] = elem[u]
  BY <1>2, DoneType
<1>8. RingFlow' /\ TableFlow' /\ PrintedFlow'
  BY <1>2, <1>6, DownstreamGrows DEF reader
<1>9. ReadFlow'
  <2> SUFFICES ASSUME NEW u \in Tasks, pc'[u] = "exit_read"
               PROVE  IdOf(value[elem[u]], {Top(u)} \cup missed)'
    BY DEF ReadFlow
  <2>1. u # t /\ pc[u] = "exit_read" /\ depth[u] > 0 /\ elem'[u] = elem[u] /\ value' = value
    BY <1>2, <1>3, <1>7 DEF map
  <2>2. IdOf(value[elem[u]], {Top(u)} \cup missed)
    BY <2>1 DEF ReadFlow
  <2>3. Top(u)' = Top(u)
    BY <1>5, <2>1
  <2> QED BY <1>4, <1>6, <2>1, <2>2, <2>3, IdGrows DEF IdOf
<1>10. RegFlow'
  <2>1. \A u \in Tasks : pc'[u] \in {"entry_reserve", "entry_commit"} => reg'[u] = sid'[Top(u)']
    BY <1>2, <1>3, <1>5, <1>7 DEF RegFlow
  <2>2. ASSUME NEW u \in Tasks, pc'[u] \in {"exit_reserve", "exit_commit"}, Func(u)' \in BothFuncs
        PROVE  \E x \in Ids : reg'[u] = Pred(x) /\ IdOf(x, {Top(u)} \cup missed)'
    <3>1. /\ u # t /\ pc[u] \in {"exit_reserve", "exit_commit"} /\ depth[u] > 0 /\ reg'[u] = reg[u]
          /\ Top(u)' = Top(u) /\ Func(u)' = Func(u)
      BY <1>3, <1>5, <1>7, <2>2
    <3>2. PICK x \in Ids : reg[u] = Pred(x) /\ IdOf(x, {Top(u)} \cup missed)
      BY <2>2, <3>1 DEF RegFlow
    <3> QED BY <1>4, <1>6, <3>1, <3>2, IdGrows DEF IdOf
  <2> QED BY <2>1, <2>2 DEF RegFlow
<1>11. ElemInv'
  BY <1>2, <1>7 DEF ElemInv, map
<1>12. MapFlow'
  <2>1. CASE UNCHANGED kernel
    BY <1>2, <1>4, <1>6, <2>1, IdGrows DEF MapFlow, IdOf, map, kernel
  <2>2. CASE ExitDone(t)
    <3>1. \/ Func(t) \notin BothFuncs
          \/ sessions[Fp(t)] = NoElem
          \/ Top(t) \in missed' \cup silent'
          \/ \A c \in Calls : sid[c] = NoId
          \/ UNCHANGED kernel
      <4>1. CASE EntryIgnored(t)
        BY <4>1 DEF EntryIgnored
      <4>2. CASE ExitMissed(t)
        BY <4>2 DEF ExitMissed
      <4>3. CASE ExitNotReady(t)
        BY <4>3 DEF ExitNotReady, PhaseInv, TypeOK
      <4>4. CASE ExitIgnored(t)
        BY <4>4 DEF ExitIgnored
      <4>5. CASE ReserveFails(t)
        BY <4>5 DEF ReserveFails, PhaseInv, Kind, ExitPCs
      <4>6. CASE Submit(t)
        BY <4>6 DEF Submit, PhaseInv, Kind, ExitPCs
      <4> QED BY <4>1, <4>2, <4>3, <4>4, <4>5, <4>6
    <3> QED BY <1>2, <1>3, <1>6, <2>1, <2>2, <3>1, PopMap DEF ExitDone
  <2> QED BY <1>2, <2>1, <2>2
<1>13. PhaseInv'
  <2>1. /\ ready' = ready /\ sid' = sid /\ sessions' = sessions
        /\ ready # "off" => silent' = silent
    BY <1>2 DEF EntryIgnored, ExitMissed, ExitNotReady, ExitIgnored, ReserveFails, Submit, history, map
  <2>2. \A u \in Tasks : pc'[u] = "entry" => sid'[Top(u)'] = NoId
    BY <1>3, <1>5, <1>7, <2>1 DEF PhaseInv
  <2>3. \A u \in Tasks : pc'[u] \in ExitPCs => Func(u)' \notin EntryFuncs
    BY <1>3, <1>5, <1>7 DEF PhaseInv, ExitPCs
  <2>4. \A u \in Tasks : pc'[u] = "exit_read" => Func(u)' \in BothFuncs
    BY <1>3, <1>5, <1>7 DEF PhaseInv
  <2>5. \A u \in Tasks : pc'[u] \in ExitPCs \ {"exit"} /\ Func(u)' \in BothFuncs
                           => sessions'[Fp(u)'] = NoElem
    BY <1>3, <1>5, <1>7, <2>1 DEF PhaseInv, ExitPCs
  <2> QED BY <2>1, <2>2, <2>3, <2>4, <2>5 DEF PhaseInv
<1> QED BY <1>1, <1>8, <1>9, <1>10, <1>11, <1>12, <1>13

\* The entry program draws an id and stores it.  A Held element is not taken,
\* so with SafeRead the session another program is about to read stays.
LEMMA PairingEntry ==
  ASSUME SafeRead, PairingInv, NEW t \in Tasks, EntryAccepted(t)
  PROVE  PairingInv'
<1> USE DEF PairingInv, FlowInv, TypeInv
<1>1. TypeInv'
  BY TypeProgram
<1>2. depth[t] > 0 /\ Fp(t) \in Frames /\ Top(t) \in Calls /\ Func(t) \in Funcs
  BY TopFrame DEF EntryAccepted, ProgramInv
<1>3. PICK id \in Ids :
        /\ reg' = [reg EXCEPT ![t] = id]
        /\ sid' = [sid EXCEPT ![Top(t)] = id]
        /\ IF Func(t) \in BothFuncs THEN add_session(Fp(t), id)
                                    ELSE UNCHANGED <<map, unsaved>>
  BY <1>2, NewIdsType DEF EntryAccepted
<1>4. sid[Top(t)] = NoId /\ sid'[Top(t)] = id /\ id # NoId
  BY <1>2, <1>3, NoneAssumption DEF EntryAccepted, PhaseInv, TypeOK
<1>5. Grows
  BY <1>2, <1>3, <1>4 DEF EntryAccepted, Grows, kernel, TypeOK
<1>6. RingFlow' /\ TableFlow' /\ PrintedFlow'
  BY <1>5, DownstreamGrows DEF EntryAccepted, reader
<1>7. /\ \A u \in Tasks : Fp(u)' = Fp(u) /\ Top(u)' = Top(u) /\ Func(u)' = Func(u)
      /\ pc' = [pc EXCEPT ![t] = "entry_reserve"] /\ elem' = elem
      /\ missed' = missed /\ silent' = silent /\ ready' = ready /\ frame' = frame
  BY DEF EntryAccepted, Fp, Top, Func, kernel
<1>8. \A u \in Tasks \ {t} : pc[u] # "run" => Top(u) # Top(t)
  <2> SUFFICES ASSUME NEW u \in Tasks \ {t}, depth[u] > 0
               PROVE  Top(u) # Top(t)
    BY DEF ProgramInv
  <2>1. Fp(u) \in Frames /\ Top(u) \in Calls /\ Fp(u) # Fp(t)
    BY TopFrame DEF Fp
  <2> QED BY <1>2, <2>1 DEF FrameInv, Top, Calls, NoCall
<1>9. RegFlow'
  <2>1. \A u \in Tasks : pc'[u] \in {"entry_reserve", "entry_commit"} => reg'[u] = sid'[Top(u)']
    BY <1>2, <1>3, <1>7, <1>8 DEF RegFlow, TypeOK
  <2>2. ASSUME NEW u \in Tasks, pc'[u] \in {"exit_reserve", "exit_commit"}, Func(u)' \in BothFuncs
        PROVE  \E x \in Ids : reg'[u] = Pred(x) /\ IdOf(x, {Top(u)} \cup missed)'
    <3>1. u # t /\ pc[u] \in {"exit_reserve", "exit_commit"} /\ reg'[u] = reg[u]
      BY <1>3, <1>7, <2>2 DEF TypeOK
    <3>2. PICK x \in Ids : reg[u] = Pred(x) /\ IdOf(x, {Top(u)} \cup missed)
      BY <1>7, <2>2, <3>1 DEF RegFlow
    <3> QED BY <1>5, <1>7, <3>1, <3>2, IdGrows DEF IdOf
  <2> QED BY <2>1, <2>2 DEF RegFlow
\* What add_session does to the map.
<1>10. CASE UNCHANGED map
  <2>1. MapFlow'
    BY <1>5, <1>7, <1>10, IdGrows DEF MapFlow, IdOf, map
  <2>2. ReadFlow'
    BY <1>5, <1>7, <1>10, IdGrows DEF ReadFlow, IdOf, map, TypeOK
  <2>3. ElemInv'
    BY <1>7, <1>10 DEF ElemInv, map, TypeOK
  <2>4. PhaseInv'
    BY <1>3, <1>7, <1>8, <1>10 DEF EntryAccepted, PhaseInv, ExitPCs, map, TypeOK
  <2> QED BY <1>1, <1>6, <1>9, <2>1, <2>2, <2>3, <2>4
<1>11. ASSUME NEW e \in Elems, Func(t) \in BothFuncs,
              e \in (Elems \ (Used \cup Held)) \cup ({sessions[Fp(t)]} \ {NoElem}),
              sessions' = [sessions EXCEPT ![Fp(t)] = e],
              value' = [value EXCEPT ![e] = id]
       PROVE  PairingInv'
  <2>1. \A fp \in Frames : fp # Fp(t) => sessions[fp] # e
    BY <1>2, <1>11, NoneAssumption DEF Used, ElemInv
  <2>2. \A u \in Tasks : pc[u] = "exit_read" => elem[u] # e
    BY <1>2, <1>11 DEF Held, ElemInv, SafeRead
  <2>3. MapFlow'
    <3> SUFFICES ASSUME NEW fp \in Frames, sessions'[fp] # NoElem
                 PROVE  IdOf(value[sessions[fp]], {frame[fp]} \cup missed \cup silent)'
      BY DEF MapFlow
    <3>1. CASE fp = Fp(t)
      <4>1. value'[sessions'[fp]] = id /\ frame'[fp] = Top(t) /\ callee'[Top(t)] = Func(t)
        BY <1>2, <1>7, <1>11, <3>1 DEF EntryAccepted, kernel, TypeOK, Top, Func
      <4> QED BY <1>2, <1>4, <1>11, <4>1 DEF IdOf
    <3>2. CASE fp # Fp(t)
      <4>1. sessions'[fp] = sessions[fp] /\ value'[sessions'[fp]] = value[sessions[fp]]
        BY <1>2, <1>11, <2>1, <3>2 DEF TypeOK
      <4>2. IdOf(value[sessions[fp]], {frame[fp]} \cup missed \cup silent)
        BY <4>1 DEF MapFlow
      <4> QED BY <1>5, <1>7, <4>1, <4>2, IdGrows DEF IdOf
    <3> QED BY <3>1, <3>2
  <2>4. ReadFlow'
    <3> SUFFICES ASSUME NEW u \in Tasks, pc'[u] = "exit_read"
                 PROVE  IdOf(value[elem[u]], {Top(u)} \cup missed)'
      BY DEF ReadFlow
    <3>1. pc[u] = "exit_read" /\ elem'[u] = elem[u] /\ value'[elem[u]] = value[elem[u]]
      BY <1>7, <1>11, <2>2 DEF TypeOK, ProgramInv
    <3>2. IdOf(value[elem[u]], {Top(u)} \cup missed)
      BY <3>1 DEF ReadFlow
    <3> QED BY <1>5, <1>7, <3>1, <3>2, IdGrows DEF IdOf
  <2>5. ElemInv'
    BY <1>2, <1>7, <1>11, <2>1, <2>2 DEF ElemInv, TypeOK
  <2>6. PhaseInv'
    <3>1. \A u \in Tasks \ {t} : Fp(u) # Fp(t)
      BY DEF Fp
    <3>2. \A u \in Tasks : pc[u] \in ExitPCs /\ u # t => sessions'[Fp(u)] = sessions[Fp(u)]
      <4> SUFFICES ASSUME NEW u \in Tasks, pc[u] \in ExitPCs, u # t
                   PROVE  sessions'[Fp(u)] = sessions[Fp(u)]
        OBVIOUS
      <4>1. Fp(u) \in Frames
        BY TopFrame DEF ProgramInv, ExitPCs
      <4> QED BY <1>11, <3>1, <4>1 DEF TypeOK
    <3>3. ready = "on"
      BY DEF EntryAccepted
    <3>4. \A u \in Tasks : pc'[u] = "entry" => sid'[Top(u)'] = NoId
      BY <1>3, <1>7, <1>8 DEF PhaseInv, TypeOK
    <3>5. \A u \in Tasks : pc'[u] \in ExitPCs => u # t /\ pc'[u] = pc[u]
      BY <1>7 DEF TypeOK, ExitPCs
    <3> QED BY <1>7, <3>2, <3>3, <3>4, <3>5 DEF PhaseInv, ExitPCs
  <2> QED BY <1>1, <1>6, <1>9, <2>3, <2>4, <2>5, <2>6
<1>12. CASE Func(t) \in BothFuncs
  <2>1. \/ UNCHANGED map
        \/ \E e \in (Elems \ (Used \cup Held)) \cup ({sessions[Fp(t)]} \ {NoElem}) :
             /\ sessions' = [sessions EXCEPT ![Fp(t)] = e]
             /\ value' = [value EXCEPT ![e] = id]
    BY <1>3, <1>12 DEF add_session
  <2>2. sessions[Fp(t)] \in Elems \cup {NoElem}
    BY <1>2 DEF TypeOK
  <2> QED BY <1>10, <1>11, <1>12, <2>1, <2>2
<1>13. CASE Func(t) \notin BothFuncs
  BY <1>3, <1>10, <1>13
<1> QED BY <1>12, <1>13

\* The exit program takes the session, and either program sends its record.
LEMMA PairingExit ==
  ASSUME SafeRead, PairingInv, NEW t \in Tasks,
         ExitSingle(t) \/ ExitReadDelete(t) \/ ExitDelete(t) \/ ExitRead(t)
  PROVE  PairingInv'
<1> USE DEF PairingInv, FlowInv, TypeInv
<1>1. TypeInv'
  BY TypeProgram
<1>2. depth[t] > 0 /\ Fp(t) \in Frames /\ Top(t) \in Calls /\ Func(t) \in Funcs
  BY TopFrame DEF ExitSingle, ExitReadDelete, ExitDelete, ExitRead, ProgramInv
<1>3. /\ \A u \in Tasks : Fp(u)' = Fp(u) /\ Top(u)' = Top(u) /\ Func(u)' = Func(u)
      /\ callee' = callee /\ sid' = sid /\ missed' = missed /\ silent' = silent /\ ready' = ready
      /\ frame' = frame /\ value' = value
      /\ UNCHANGED <<ring, reader>>
  BY DEF ExitSingle, ExitReadDelete, ExitDelete, ExitRead, Fp, Top, Func, kernel, map, history
<1>4. RingFlow' /\ TableFlow' /\ PrintedFlow'
  BY <1>3, DownstreamGrows DEF Grows, reader
<1>5. /\ sessions' = sessions \/ sessions' = [sessions EXCEPT ![Fp(t)] = NoElem]
      /\ sessions' \in [Frames -> Elems \cup {NoElem}]
      /\ \A fp \in Frames : sessions'[fp] # NoElem => sessions'[fp] = sessions[fp]
  BY <1>2 DEF ExitSingle, ExitReadDelete, ExitDelete, ExitRead, map, TypeOK
<1>6. MapFlow'
  BY <1>3, <1>5 DEF MapFlow, IdOf
<1>7. \A u \in Tasks \ {t} : pc'[u] = pc[u] /\ reg'[u] = reg[u] /\ elem'[u] = elem[u]
  BY DEF ExitSingle, ExitReadDelete, ExitDelete, ExitRead, TypeOK
<1>8. pc'[t] \in {"exit_read", "exit_reserve"} /\ pc[t] \in {"exit", "exit_read"}
  BY DEF ExitSingle, ExitReadDelete, ExitDelete, ExitRead, TypeOK
<1>9. /\ Func(t) \notin EntryFuncs
      /\ pc'[t] = "exit_read" => Func(t) \in BothFuncs
      /\ Func(t) \in BothFuncs => sessions'[Fp(t)] = NoElem
  BY <1>2, <1>8 DEF ExitSingle, ExitReadDelete, ExitDelete, ExitRead, PhaseInv, ExitPCs, map, TypeOK
<1>10. silent = {} \/ pc[t] = "exit_read"
  BY DEF ExitSingle, ExitReadDelete, ExitDelete, ExitRead, PhaseInv
<1>11. PhaseInv'
  <2>1. \A u \in Tasks : pc[u] \in ExitPCs => Fp(u) \in Frames
    BY TopFrame DEF ProgramInv, ExitPCs
  <2> QED BY <1>3, <1>5, <1>7, <1>8, <1>9, <2>1 DEF PhaseInv, ExitPCs
<1>12. ReadFlow'
  <2>1. ASSUME NEW u \in Tasks \ {t}, pc'[u] = "exit_read"
        PROVE  IdOf(value[elem[u]], {Top(u)} \cup missed)'
    BY <1>3, <1>7, <2>1 DEF ReadFlow, IdOf
  <2>2. ASSUME pc'[t] = "exit_read"
        PROVE  IdOf(value[elem[t]], {Top(t)} \cup missed)'
    <3>1. /\ elem'[t] = sessions[Fp(t)] /\ sessions[Fp(t)] # NoElem /\ ready = "on"
      BY <2>2 DEF ExitSingle, ExitReadDelete, ExitDelete, ExitRead, TypeOK
    <3>2. IdOf(value[sessions[Fp(t)]], {frame[Fp(t)]} \cup missed \cup silent) /\ silent = {}
      BY <1>2, <3>1 DEF MapFlow, PhaseInv
    <3> QED BY <1>3, <3>1, <3>2 DEF IdOf, Top
  <2> QED BY <2>1, <2>2 DEF ReadFlow
<1>13. RegFlow'
  <2>1. \A u \in Tasks : pc'[u] \in {"entry_reserve", "entry_commit"} => reg'[u] = sid'[Top(u)']
    BY <1>3, <1>7, <1>8 DEF RegFlow
  <2>2. ASSUME NEW u \in Tasks, u # t, pc'[u] \in {"exit_reserve", "exit_commit"}, Func(u)' \in BothFuncs
        PROVE  \E x \in Ids : reg'[u] = Pred(x) /\ IdOf(x, {Top(u)} \cup missed)'
    BY <1>3, <1>7, <2>2 DEF RegFlow, IdOf
  <2>3. ASSUME pc'[t] \in {"exit_reserve", "exit_commit"}, Func(t)' \in BothFuncs
        PROVE  \E x \in Ids : reg'[t] = Pred(x) /\ IdOf(x, {Top(t)} \cup missed)'
    <3>1. CASE ExitReadDelete(t)
      <4>1. reg'[t] = Pred(value[sessions[Fp(t)]]) /\ value[sessions[Fp(t)]] \in Ids
        BY <1>2, <3>1 DEF ExitReadDelete, TypeOK, ProgramInv
      <4>2. IdOf(value[sessions[Fp(t)]], {frame[Fp(t)]} \cup missed \cup silent) /\ silent = {}
        BY <1>2, <3>1 DEF ExitReadDelete, MapFlow, PhaseInv
      <4> QED BY <1>3, <4>1, <4>2 DEF IdOf, Top
    <3>2. CASE ExitRead(t)
      <4>1. reg'[t] = Pred(value[elem[t]]) /\ value[elem[t]] \in Ids
        BY <3>2 DEF ExitRead, TypeOK, ProgramInv
      <4>2. IdOf(value[elem[t]], {Top(t)} \cup missed)
        BY <3>2 DEF ExitRead, ReadFlow
      <4> QED BY <1>3, <4>1, <4>2 DEF IdOf
    <3> QED BY <1>3, <2>3, <3>1, <3>2 DEF ExitSingle, ExitDelete, TypeOK
  <2> QED BY <2>1, <2>2, <2>3 DEF RegFlow
<1>14. ElemInv'
  <2>1. \A fp, gp \in Frames : sessions'[fp] = sessions'[gp] /\ sessions'[fp] # NoElem => fp = gp
    BY <1>5 DEF ElemInv
  <2>2. pc'[t] = "exit_read" =>
          ~Kprobe /\ \A fp \in Frames : FreedElemReused \/ sessions'[fp] # elem'[t]
    BY <1>2, <1>5 DEF ExitSingle, ExitReadDelete, ExitDelete, ExitRead, ElemInv, TypeOK
  <2>3. \A u \in Tasks \ {t} : pc'[u] = "exit_read" =>
          ~Kprobe /\ \A fp \in Frames : FreedElemReused \/ sessions'[fp] # elem'[u]
    BY <1>5, <1>7, NoneAssumption DEF ElemInv, ProgramInv, TypeOK
  <2> QED BY <2>1, <2>2, <2>3 DEF ElemInv
<1> QED BY <1>1, <1>4, <1>6, <1>11, <1>12, <1>13, <1>14

LEMMA PairingReserve ==
  ASSUME PairingInv, NEW t \in Tasks, Reserve(t)
  PROVE  PairingInv'
<1> USE DEF PairingInv, FlowInv, TypeInv
<1>1. TypeInv'
  BY TypeProgram
<1>2. depth[t] > 0 /\ Top(t) \in Calls /\ Func(t) \in Funcs /\ Fp(t) \in Frames
  BY TopFrame DEF Reserve, ProgramInv
<1>3. /\ \A u \in Tasks : Fp(u)' = Fp(u) /\ Top(u)' = Top(u) /\ Func(u)' = Func(u)
      /\ UNCHANGED <<kernel, map, reg, elem, ready, reader, history>>
  BY DEF Reserve, Fp, Top, Func, kernel
<1>4. MapFlow' /\ TableFlow' /\ PrintedFlow'
  BY <1>3 DEF MapFlow, TableFlow, PrintedFlow, IdOf, kernel, map, history, reader
<1>5. /\ \A u \in Tasks : u # t => pc'[u] = pc[u]
      /\ pc[t] = "entry_reserve" => pc'[t] = "entry_commit"
      /\ pc[t] = "exit_reserve" => pc'[t] = "exit_commit"
      /\ pc[t] \in {"entry_reserve", "exit_reserve"}
  BY DEF Reserve, Kind, TypeOK
<1>6. ReadFlow' /\ RegFlow'
  BY <1>3, <1>5 DEF ReadFlow, RegFlow, IdOf, kernel, map, history
<1>7. PhaseInv' /\ ElemInv'
  BY <1>3, <1>5 DEF PhaseInv, ElemInv, ExitPCs, map, history
<1>8. RingFlow'
  <2> DEFINE rec == [kind |-> Kind(t), id |-> reg[t], call |-> Top(t)]
  <2>1. RecordFlow(rec)
    <3>1. CASE pc[t] = "entry_reserve"
      BY <3>1 DEF RegFlow, RecordFlow, Kind
    <3>2. CASE pc[t] = "exit_reserve"
      BY <1>2, <3>2 DEF RegFlow, PhaseInv, RecordFlow, Kind, ExitPCs, Func
    <3> QED BY <1>5, <3>1, <3>2
  <2>2. \A i \in 1..Len(ring') : \/ i \in 1..Len(ring) /\ ring'[i] = ring[i]
                                 \/ ring'[i] = rec
    BY DEF Reserve, TypeOK
  <2>3. \A i \in 1..Len(ring') : RecordFlow(ring'[i])
    BY <2>1, <2>2 DEF RingFlow
  <2> QED BY <1>3, <2>3 DEF RingFlow, RecordFlow, IdOf, kernel, history
<1> QED BY <1>1, <1>4, <1>6, <1>7, <1>8

\* The reader: what it adds to its table and what it prints come from records.
LEMMA PairingReader ==
  ASSUME PairingInv, Consume \/ Main
  PROVE  PairingInv'
<1> USE DEF PairingInv, FlowInv, TypeInv
<1>1. TypeInv'
  BY TypeReader
<1>2. /\ \A u \in Tasks : Fp(u)' = Fp(u) /\ Top(u)' = Top(u) /\ Func(u)' = Func(u)
      /\ UNCHANGED <<kernel, prog, map, history>>
  BY DEF Consume, Main, SetReady, CloseReader, ClearReady, Fp, Top, Func, kernel
<1>3. MapFlow' /\ ReadFlow' /\ RegFlow' /\ ElemInv'
  BY <1>2 DEF MapFlow, ReadFlow, RegFlow, ElemInv, IdOf, kernel, prog, map, history
<1>4. PhaseInv'
  BY <1>2 DEF Consume, Main, SetReady, CloseReader, ClearReady, PhaseInv, ExitPCs,
              kernel, prog, map, history
<1>5. RingFlow' /\ TableFlow' /\ PrintedFlow'
  <2>1. CASE Main
    BY <1>2, <2>1 DEF Main, SetReady, CloseReader, ClearReady, RingFlow, RecordFlow, TableFlow,
                      PrintedFlow, IdOf, kernel, prog, map, history, reader
  <2>2. CASE Consume
    <3> DEFINE rec == Head(ring)
    <3>1. rec \in Record /\ RecordFlow(rec) /\ ring' = Tail(ring)
      BY <2>2 DEF Consume, RingFlow, TypeOK
    <3>2. RingFlow'
      <4>1. \A i \in 1..Len(ring') : i + 1 \in 1..Len(ring) /\ ring'[i] = ring[i + 1]
        BY <2>2 DEF Consume, TypeOK
      <4>2. \A i \in 1..Len(ring') : RecordFlow(ring'[i])
        BY <4>1 DEF RingFlow
      <4> QED BY <1>2, <4>2 DEF RingFlow, RecordFlow, IdOf, kernel, history
    <3>3. \/ HandleEntry(rec) \/ HandleExitSkip(rec) \/ HandleExitTooShort(rec)
          \/ HandleExitPrint(rec) \/ HandleStandalone(rec)
      BY <2>2 DEF Consume
    <3> HIDE DEF rec
    <3>4. rec.call \in Calls /\ rec.id \in Ids /\ Succ(rec.id) \in Ids
      BY <3>1, SuccType DEF Record
    <3>5. CASE HandleEntry(rec)
      BY <1>2, <3>1, <3>2, <3>4, <3>5 DEF HandleEntry, RecordFlow, TableFlow, PrintedFlow, IdOf, TypeOK,
                                   kernel, history
    <3>6. CASE HandleExitSkip(rec) \/ HandleExitTooShort(rec) \/ HandleStandalone(rec)
      BY <1>2, <3>2, <3>4, <3>6 DEF HandleExitSkip, HandleExitTooShort, HandleStandalone,
                             TableFlow, PrintedFlow, IdOf, TypeOK, kernel, history
    <3>7. CASE HandleExitPrint(rec)
      <4>1. PICK x \in Ids : rec.id = Pred(x) /\ IdOf(x, {rec.call} \cup missed)
        BY <3>1, <3>4, <3>7, ConstantsAssumption DEF HandleExitPrint, RecordFlow
      <4>2. Succ(rec.id) = x
        BY <4>1, PredSucc
      <4>3. sid[usess[Succ(rec.id)]] = x /\ IdOf(x, {rec.call} \cup missed) /\ x # NoId
        BY <3>4, <3>7, <4>1, <4>2, NoneAssumption DEF HandleExitPrint, TableFlow
      <4>4. PrintedFlow'
        BY <1>2, <3>7, <4>3 DEF HandleExitPrint, PrintedFlow, IdOf, kernel, history
      <4>5. TableFlow'
        BY <1>2, <3>4, <3>7 DEF HandleExitPrint, TableFlow, TypeOK, kernel, history
      <4> QED BY <3>2, <4>4, <4>5
    <3> QED BY <3>2, <3>3, <3>5, <3>6, <3>7
  <2> QED BY <2>1, <2>2
<1> QED BY <1>1, <1>3, <1>4, <1>5

LEMMA PairingStutter == PairingInv /\ UNCHANGED vars => PairingInv'
<1> SUFFICES ASSUME PairingInv, UNCHANGED vars PROVE PairingInv'
  OBVIOUS
<1>1. TypeInv'
  BY TypeStutter DEF PairingInv
<1>2. /\ \A u \in Tasks : Fp(u)' = Fp(u) /\ Top(u)' = Top(u) /\ Func(u)' = Func(u)
  BY DEF vars, kernel, Fp, Top, Func
<1>3. PhaseInv' /\ ElemInv'
  BY <1>2 DEF PairingInv, PhaseInv, ElemInv, vars, kernel, prog, map, history
<1>4. FlowInv'
  BY <1>2 DEF PairingInv, FlowInv, MapFlow, ReadFlow, RegFlow, RingFlow, RecordFlow, TableFlow,
              PrintedFlow, IdOf, vars, kernel, prog, map, reader, history
<1> QED BY <1>1, <1>3, <1>4 DEF PairingInv

LEMMA PairingStep == SafeRead /\ PairingInv /\ [Next]_vars => PairingInv'
<1> SUFFICES ASSUME SafeRead, PairingInv, [Next]_vars PROVE PairingInv'
  OBVIOUS
<1>1. CASE \E t \in Tasks, f \in Funcs : Call(t, f)
  BY <1>1, PairingTracee
<1>2. ASSUME NEW t \in Tasks, Return(t) PROVE PairingInv'
  <2>1. Func(t) \in Funcs
    BY <1>2, TopFrame DEF Return, PairingInv, TypeInv
  <2> QED BY <1>2, <2>1, PairingTracee
<1>3. ASSUME NEW t \in Tasks, Program(t) PROVE PairingInv'
  BY <1>3, PairingDone, PairingEntry, PairingExit, PairingReserve
  DEF Program, EntryProgram, ExitProgram
<1>4. CASE Consume \/ Main
  BY <1>4, PairingReader
<1>5. CASE UNCHANGED vars
  BY <1>5, PairingStutter
<1> QED BY <1>1, <1>2, <1>3, <1>4, <1>5 DEF Next

THEOREM PairingInvariant == SafeRead => (Spec => []PairingInv)
<1> SUFFICES ASSUME SafeRead PROVE Spec => []PairingInv
  OBVIOUS
<1>1. PairingInv /\ [Next]_vars => PairingInv'
  BY PairingStep
<1> QED BY <1>1, PairingInit, PTL DEF Spec

\* get_and_del_session leaves no session of a finished call behind, unless
\* the exit program did not run or found ready cleared.
THEOREM SessionOwnership == SafeRead => (Spec => []SessionOwned)
<1> SUFFICES ASSUME SafeRead PROVE Spec => []SessionOwned
  OBVIOUS
<1>1. PairingInv => SessionOwned
  BY DEF PairingInv, FlowInv, MapFlow, IdOf, SessionOwned
<1> QED BY <1>1, PairingInvariant, PTL

\* An exit event carries the id of its own call, whatever the other tasks'
\* programs and the reader do in between.
THEOREM ExitIds == SafeRead => (Spec => []ExitCarriesOwnId)
<1> SUFFICES ASSUME SafeRead PROVE Spec => []ExitCarriesOwnId
  OBVIOUS
<1>1. PairingInv => ExitCarriesOwnId
  BY DEF PairingInv, FlowInv, RingFlow, RecordFlow, IdOf, ExitCarriesOwnId
<1> QED BY <1>1, PairingInvariant, PTL

\* The reader never prints the entry of one call with the exit of another
\* unless they drew the same id or the kernel missed an exit program.
THEOREM Pairing == SafeRead => (Spec => []PrintedPairsMatch)
<1> SUFFICES ASSUME SafeRead PROVE Spec => []PrintedPairsMatch
  OBVIOUS
<1>1. PairingInv => PrintedPairsMatch
  BY DEF PairingInv, FlowInv, PrintedFlow, IdOf, PrintedPairsMatch
<1> QED BY <1>1, PairingInvariant, PTL

LEMMA FreshStep == PairingInv /\ FreshInv /\ [Next]_vars => FreshInv'
<1> SUFFICES ASSUME PairingInv, FreshInv, [Next]_vars PROVE FreshInv'
  OBVIOUS
<1>1. CASE \E t \in Tasks : EntryAccepted(t)
  <2>1. PICK t \in Tasks : EntryAccepted(t)
    BY <1>1
  <2>2. Top(t) \in Calls /\ depth[t] > 0
    BY <2>1, TopFrame DEF EntryAccepted, PairingInv, TypeInv, ProgramInv
  <2>3. PICK id \in NewIds(t) : sid' = [sid EXCEPT ![Top(t)] = id]
    BY <2>1 DEF EntryAccepted
  <2>4. FreshRnd => \A c \in Calls : sid[c] # id
    BY DEF NewIds
  <2>5. sid \in [Calls -> Ids \cup {NoId}]
    BY DEF PairingInv, TypeInv, TypeOK
  <2> QED BY <2>1, <2>2, <2>3, <2>4, <2>5 DEF EntryAccepted, FreshInv
<1>2. CASE ~\E t \in Tasks : EntryAccepted(t)
  <2>1. sid' = sid /\ (~ExitMayMiss => missed' = missed)
    BY <1>2 DEF Next, Program, EntryProgram, ExitProgram, Call, Return, EntryIgnored, ExitMissed,
       ExitNotReady, ExitIgnored, ExitSingle, ExitReadDelete, ExitDelete, ExitRead, Reserve,
       ReserveFails, Submit, Consume, Main, SetReady, CloseReader, ClearReady, history, vars
  <2> QED BY <2>1 DEF FreshInv
<1> QED BY <1>1, <1>2

\* Where no two calls draw the same id and the kernel runs every exit program,
\* an entry and an exit printed as one call are of one call.
THEOREM OneCall ==
  SafeRead /\ FreshRnd /\ ~ExitMayMiss => (Spec => []PrintedIsOneCall)
<1> SUFFICES ASSUME SafeRead, FreshRnd, ~ExitMayMiss PROVE Spec => []PrintedIsOneCall
  OBVIOUS
<1>1. PairingInv /\ FreshInv => PrintedIsOneCall
  BY DEF PairingInv, TypeInv, TypeOK, FlowInv, PrintedFlow, IdOf, FreshInv, PrintedIsOneCall
<1>2. Init => FreshInv
  BY DEF Init, FreshInv
<1>3. PairingInv /\ FreshInv /\ [Next]_vars => FreshInv'
  BY FreshStep
<1> QED BY <1>1, <1>2, <1>3, PairingInvariant, PTL DEF Spec

=============================================================================
