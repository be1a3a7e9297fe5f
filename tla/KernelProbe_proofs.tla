------------------------- MODULE KernelProbe_proofs -------------------------
(***************************************************************************)
(* Proofs about KernelProbe, for any number of goroutines and processes,   *)
(* any size of the tables and any number of naps.  IInv says what the      *)
(* tasks in a program know of its results, and what the goroutine that     *)
(* reads them knows in turn.                                               *)
(***************************************************************************)
EXTENDS KernelProbe, TLAPS

Past(t, p) == cur[t] = p /\ step[t] \in {"fill", "end", "nr"}

\* The results of p are all there.
Full(p) ==
  /\ buf[p] = 1..Count(p)
  /\ kind[p] = "modules" => end[p] = (Count(p) = total[p]) /\ nr[p] = Count(p)

\* A task runs programs that are attached, and a goroutine only in nanosleep.
Lodged ==
  /\ \A t \in Tasks : tramp[t] \subseteq Attached /\ (cur[t] # None => cur[t] \in Attached)
  /\ \A p \in Probers : pc[p] # "asleep" => Idle(p)

\* What a task in a program has written.
Written ==
  \A t \in Tasks, p \in Probers : cur[t] = p =>
    /\ step[t] \in {"check", "claim"} => idx[t] = 0
    /\ step[t] = "check" => kind[p] # "feature"
    /\ Past(t, p) => run[p] /\ idx[t] <= Count(p) /\ 1..idx[t] \subseteq buf[p]
    /\ step[t] \in {"end", "nr"} => kind[p] = "modules" /\ idx[t] = Count(p)
    /\ step[t] = "nr" => end[p] = (Count(p) = total[p])

\* A new collection is empty, and only items of the kernel come into it.
Contents ==
  \A p \in Probers :
    /\ pc[p] = "attach" => run[p] = FALSE /\ buf[p] = {} /\ end[p] = FALSE
    /\ p \in Attached => buf[p] \subseteq 1..Count(p) /\ (end[p] => Count(p) = total[p])

\* The results are there when the program ran and no task is writing them.
Complete ==
  \A p \in Probers :
    p \in Attached /\ run[p] /\ (\A t \in Tasks : ~Past(t, p)) => Full(p)

\* Who passed the program by left another task in it.
Woken ==
  \A p \in Probers :
    pc[p] \in {"asleep", "get_run"} /\ p \notin tramp[p] /\ cur[p] # p =>
      run[p] \/ \E u \in Tasks \ {p} : cur[u] = p

\* What the goroutine has read holds for what it reads next.
Reading ==
  \A p \in Probers :
    /\ pc[p] \in {"get_end", "get_nr", "get_items"} /\ ~raced[p] => Full(p)
    /\ pc[p] \in {"get_end", "get_nr"} => kind[p] = "modules"
    /\ pc[p] \in {"get_nr", "get_items"} /\ kind[p] = "modules" => end[p]
    /\ pc[p] = "get_items" /\ kind[p] = "modules" /\ ~raced[p] => limit[p] = Count(p)
    /\ kind[p] = "modules" /\ pc[p] \notin {"done", "failed"} => start[p] = 0

Collected ==
  \A p \in Probers :
    /\ ~raced[p] => got[p] = 1..start[p]
    /\ pc[p] = "done" /\ kind[p] # "none" => start[p] = total[p]
    /\ error[p] # "none" => pc[p] = "failed"

IInv ==
  /\ TypeOK /\ Lodged /\ Written /\ Contents /\ Complete /\ Woken /\ Reading /\ Collected
  /\ Triggered /\ WholeUnlessRaced

LEMMA CountType ==
  ASSUME TypeOK, NEW p \in Probers
  PROVE  Count(p) \in Nat /\ Count(p) <= total[p] - start[p] /\ Count(p) <= Cap
BY ProbeAssumption DEF TypeOK, Count, Least

LEMMA InitIInv == Init => IInv
<1> SUFFICES ASSUME Init PROVE IInv
  OBVIOUS
<1> USE ProbeAssumption DEF Init, Tasks
<1>1. TypeOK
  BY DEF TypeOK, PCs, Errors, Steps, Kinds
<1>2. Lodged /\ Written /\ Complete /\ Woken
  BY DEF Lodged, Written, Complete, Woken, Past, Idle, Attached
<1>3. Contents /\ Reading /\ Collected /\ Triggered /\ WholeUnlessRaced
  BY DEF Contents, Reading, Collected, Triggered, WholeUnlessRaced, Attached
<1> QED BY <1>1, <1>2, <1>3 DEF IInv

\* A step of the tasks that leaves the variables of the programs alone.
LEMMA TaskStep ==
  ASSUME IInv, UNCHANGED <<given, goroutine, maps>>
  PROVE  /\ \A p \in Probers : Count(p) \in Nat /\ Count(p) <= Cap /\ Count(p)' = Count(p)
         /\ \A p \in Probers : Full(p)' <=> Full(p)
         /\ Attached' = Attached
         /\ Contents' /\ Reading' /\ Collected' /\ Triggered' /\ WholeUnlessRaced'
<1> USE DEF IInv, given, goroutine, maps
<1>1. \A p \in Probers : Count(p) \in Nat /\ Count(p) <= Cap /\ Count(p)' = Count(p)
  BY CountType DEF Count
<1>2. \A p \in Probers : Full(p)' <=> Full(p)
  BY <1>1 DEF Full
<1>3. Attached' = Attached
  BY DEF Attached
<1>4. Contents' /\ Reading'
  BY <1>1, <1>2, <1>3 DEF Contents, Reading
<1>5. Collected' /\ Triggered' /\ WholeUnlessRaced'
  BY DEF Collected, Triggered, WholeUnlessRaced
<1> QED BY <1>1, <1>2, <1>3, <1>4, <1>5

LEMMA TaskTypes ==
  ASSUME IInv, UNCHANGED <<given, goroutine, maps>>,
         tramp' \in [Tasks -> SUBSET Probers], cur' \in [Tasks -> Probers \cup {None}],
         step' \in [Tasks -> Steps], idx' \in [Tasks -> Nat], naps' \in [Sleepers -> Nat]
  PROVE  TypeOK'
BY DEF IInv, TypeOK, given, goroutine, maps

\* A program whose results were there has them still, if no task got past one.
LEMMA StillComplete ==
  ASSUME IInv, UNCHANGED <<given, goroutine, maps>>,
         \A t \in Tasks, p \in Probers : Past(t, p) => Past(t, p)'
  PROVE  Complete'
<1>1. run' = run
  BY DEF maps
<1> QED BY <1>1, TaskStep DEF IInv, Complete

LEMMA FillIInv ==
  ASSUME IInv, NEW t \in Tasks, Fill(t)
  PROVE  IInv'
<1> DEFINE q == cur[t]
<1> USE ProbeAssumption DEF IInv, Fill, given, goroutine, Tasks
<1>0. \A p \in Probers : Count(p) \in Nat /\ Count(p) <= Cap /\ Count(p)' = Count(p)
  BY CountType DEF Count, Least
<1>a. /\ q \in Probers /\ idx[t] \in Nat /\ Past(t, q) /\ 1..idx[t] \subseteq buf[q]
      /\ idx[t] + 1 \in 1..Count(q) /\ idx[t] + 1 <= Count(q)
  <2>1. q \in Probers /\ idx[t] \in Nat /\ Past(t, q)
    BY DEF Past, TypeOK
  <2> QED BY <2>1, <1>0 DEF Written
<1>b. /\ idx' \in [Tasks -> Nat] /\ idx'[t] = idx[t] + 1 /\ \A u \in Tasks \ {t} : idx'[u] = idx[u]
      /\ buf'[q] = buf[q] \cup {idx[t] + 1} /\ \A p \in Probers \ {q} : buf'[p] = buf[p]
  BY <1>a DEF TypeOK
<1>c. \A p \in Probers : Full(p) => Full(p)'
  <2> SUFFICES ASSUME NEW p \in Probers, Full(p) PROVE Full(p)'
    OBVIOUS
  <2>1. buf'[p] = buf[p]
    <3>1. CASE p = q
      <4>1. idx[t] + 1 \in buf[p]
        BY <3>1, <1>a DEF Full
      <4>2. buf[p] \cup {idx[t] + 1} = buf[p]
        BY <4>1
      <4> QED BY <4>2, <3>1, <1>b
    <3> QED BY <3>1, <1>b
  <2> QED BY <2>1, <1>0 DEF Full
<1>1. TypeOK'
  BY DEF TypeOK
<1>2. Lodged'
  BY DEF Lodged, Attached, Idle
<1>3. Written'
  <2> SUFFICES ASSUME NEW u \in Tasks, NEW p \in Probers, cur[u] = p
               PROVE  Written!(u, p)!2'
    BY DEF Written
  <2> QED BY <1>0, <1>a, <1>b DEF Written, Past
<1>4. Contents'
  BY <1>0 DEF Contents, Lodged, Attached, TypeOK
<1>5. Complete'
  BY <1>c DEF Complete, Past, Attached
<1>6. Woken'
  BY DEF Woken
<1>7. Reading'
  BY <1>0, <1>c DEF Reading
<1>8. Collected' /\ Triggered' /\ WholeUnlessRaced'
  BY DEF Collected, Triggered, WholeUnlessRaced
<1> QED BY <1>1, <1>2, <1>3, <1>4, <1>5, <1>6, <1>7, <1>8

LEMMA NapIInv ==
  ASSUME IInv, NEW t \in Sleepers, Nap(t)
  PROVE  IInv'
<1> USE DEF IInv, Nap
<1>0. /\ UNCHANGED <<given, goroutine, maps>> /\ Attached' = Attached
      /\ \A p \in Probers : Count(p) \in Nat /\ Count(p) <= Cap /\ Count(p)' = Count(p)
  BY TaskStep
<1>a. /\ cur' = cur /\ step' = step /\ idx' = idx /\ cur[t] = None
      /\ tramp' = [tramp EXCEPT ![t] = Attached] /\ t \in Tasks /\ t \notin Probers
  BY ProbeAssumption DEF Enter, Idle, Tasks
<1>1. TypeOK'
  BY <1>0, <1>a, TaskTypes DEF TypeOK, Attached
<1>2. Lodged'
  BY <1>0, <1>a, ProbeAssumption DEF Lodged, Idle, Tasks, TypeOK, goroutine
<1>3. Written'
  BY <1>0, <1>a DEF Written, Past, maps, given
<1>4. Complete'
  BY <1>0, <1>a, StillComplete DEF Past
<1>5. Woken'
  BY <1>0, <1>a DEF Woken, TypeOK, maps, goroutine
<1> QED BY <1>0, <1>1, <1>2, <1>3, <1>4, <1>5, TaskStep

LEMMA StartProgramIInv ==
  ASSUME IInv, NEW t \in Tasks, StartProgram(t)
  PROVE  IInv'
<1> USE DEF IInv, StartProgram
<1>0. /\ UNCHANGED <<given, goroutine, maps>> /\ Attached' = Attached
      /\ \A p \in Probers : Count(p) \in Nat /\ Count(p) <= Cap /\ Count(p)' = Count(p)
  BY TaskStep
<1>a. PICK q \in tramp[t] :
        /\ cur[t] = None /\ cur' = [cur EXCEPT ![t] = q] /\ tramp' = [tramp EXCEPT ![t] = @ \ {q}]
        /\ step' = [step EXCEPT ![t] = IF kind[q] = "feature" THEN "claim" ELSE "check"]
        /\ idx' = [idx EXCEPT ![t] = 0] /\ naps' = naps
  OBVIOUS
<1>b. q \in Probers /\ q \in Attached /\ q # None
  BY <1>a, ProbeAssumption DEF TypeOK, Lodged
<1>c. /\ cur'[t] = q /\ idx'[t] = 0 /\ step'[t] \in {"claim", "check"} /\ (step'[t] = "check" => kind[q] # "feature")
      /\ \A u \in Tasks \ {t} : cur'[u] = cur[u] /\ step'[u] = step[u] /\ idx'[u] = idx[u] /\ tramp'[u] = tramp[u]
      /\ tramp'[t] = tramp[t] \ {q}
  BY <1>a, <1>b DEF TypeOK
<1> HIDE DEF StartProgram
<1>1. TypeOK'
  BY <1>0, <1>a, <1>b, TaskTypes DEF TypeOK, Steps
<1>2. Lodged'
  BY <1>0, <1>a, <1>b, <1>c DEF Lodged, Idle, goroutine, Tasks
<1>3. Written'
  <2>1. run' = run /\ kind' = kind /\ total' = total /\ end' = end /\ buf' = buf
    BY <1>0 DEF maps, given
  <2> QED BY <1>0, <1>b, <1>c, <2>1 DEF Written, Past
<1>4. Complete'
  BY <1>0, <1>a, <1>b, <1>c, ProbeAssumption, StillComplete DEF Past
<1>5. Woken'
  <2>1. run' = run /\ pc' = pc
    BY <1>0 DEF maps, goroutine
  <2>2. \A u \in Tasks, p \in Probers : cur[u] = p => cur'[u] = p
    BY <1>a, <1>c, ProbeAssumption
  <2> QED BY <1>c, <2>1, <2>2 DEF Woken, Tasks
<1> QED BY <1>0, <1>1, <1>2, <1>3, <1>4, <1>5, TaskStep

LEMMA SkippedIInv ==
  ASSUME IInv, NEW t \in Tasks, Skipped(t)
  PROVE  IInv'
<1> USE DEF IInv, Skipped
<1>0. /\ UNCHANGED <<given, goroutine, maps>> /\ Attached' = Attached
      /\ \A p \in Probers : Count(p) \in Nat /\ Count(p) <= Cap /\ Count(p)' = Count(p)
  BY TaskStep
<1>a. PICK q \in tramp[t] :
        /\ cur[t] = None /\ cur' = cur /\ step' = step /\ idx' = idx /\ naps' = naps
        /\ tramp' = [tramp EXCEPT ![t] = @ \ {q}]
        /\ \E u \in Tasks \ {t} : cur[u] = q
  OBVIOUS
<1>b. tramp'[t] = tramp[t] \ {q} /\ \A u \in Tasks \ {t} : tramp'[u] = tramp[u]
  BY <1>a DEF TypeOK
<1>1. TypeOK'
  BY <1>0, <1>a, TaskTypes DEF TypeOK
<1>2. Lodged'
  BY <1>0, <1>a, <1>b DEF Lodged, Idle, goroutine, Tasks
<1>3. Written'
  BY <1>0, <1>a DEF Written, Past, maps, given
<1>4. Complete'
  BY <1>0, <1>a, StillComplete DEF Past
<1>5. Woken'
  BY <1>0, <1>a, <1>b DEF Woken, maps, goroutine, Tasks
<1> QED BY <1>0, <1>1, <1>2, <1>3, <1>4, <1>5, TaskStep

LEMMA CheckIInv ==
  ASSUME IInv, NEW t \in Tasks, Check(t)
  PROVE  IInv'
<1> USE DEF IInv, Check
<1>0. /\ UNCHANGED <<given, goroutine, maps>> /\ Attached' = Attached
      /\ \A p \in Probers : Count(p) \in Nat /\ Count(p) <= Cap /\ Count(p)' = Count(p)
  BY TaskStep
<1>a. /\ cur[t] # None /\ step[t] = "check" /\ cur[t] \in Probers /\ naps' = naps
      /\ tramp' = tramp /\ idx' = idx
      /\ \A u \in Tasks \ {t} : cur'[u] = cur[u] /\ step'[u] = step[u]
      /\ \/ run[cur[t]] /\ cur'[t] = None /\ step'[t] = step[t]
         \/ ~run[cur[t]] /\ cur'[t] = cur[t] /\ step'[t] = "claim"
      /\ cur' \in [Tasks -> Probers \cup {None}] /\ step' \in [Tasks -> Steps]
  BY DEF TypeOK, Leave, Steps
<1> HIDE DEF Check
<1>1. TypeOK'
  BY <1>0, <1>a, TaskTypes DEF TypeOK
<1>2. Lodged'
  BY <1>0, <1>a DEF Lodged, Idle, goroutine, Tasks
<1>3. Written'
  <2>1. run' = run /\ kind' = kind /\ total' = total /\ end' = end /\ buf' = buf
    BY <1>0 DEF maps, given
  <2> QED BY <1>0, <1>a, <2>1, ProbeAssumption DEF Written, Past
<1>4. Complete'
  BY <1>0, <1>a, StillComplete DEF Past
<1>5. Woken'
  <2>1. run' = run /\ pc' = pc
    BY <1>0 DEF maps, goroutine
  <2> QED BY <1>a, <2>1 DEF Woken, Tasks
<1> QED BY <1>0, <1>1, <1>2, <1>3, <1>4, <1>5, TaskStep

LEMMA ClaimIInv ==
  ASSUME IInv, NEW t \in Tasks, Claim(t)
  PROVE  IInv'
<1> USE ProbeAssumption DEF IInv, Claim, given, goroutine, maps, execution, Tasks
<1>0. \A p \in Probers : Count(p) \in Nat /\ Count(p) <= Cap /\ Count(p)' = Count(p)
  BY CountType DEF Count, Least
<1>1. TypeOK'
  BY DEF TypeOK, PCs, Errors, Steps, Kinds, Attached
<1>2. Lodged'
  BY DEF Lodged, Attached, Idle, TypeOK
<1>3. Written'
  BY <1>0 DEF Written, Past, TypeOK
<1>4. Contents'
  BY <1>0 DEF Contents, Lodged, Attached, TypeOK
<1>5. Complete'
  <2>1. /\ Past(t, cur[t])' /\ cur' = cur /\ Attached' = Attached
        /\ \A u \in Tasks, p \in Probers : Past(u, p) => Past(u, p)'
        /\ \A p \in Probers : p # cur[t] => run'[p] = run[p]
    BY DEF Past, Attached, TypeOK
  <2>2. \A p \in Probers : Full(p)' <=> Full(p)
    BY <1>0 DEF Full
  <2> HIDE DEF Claim
  <2> QED BY <2>1, <2>2 DEF Complete
<1>6. Woken'
  BY DEF Woken, TypeOK
<1>7. Reading'
  BY <1>0 DEF Reading, Full, TypeOK
<1>8. Collected' /\ Triggered' /\ WholeUnlessRaced'
  BY DEF Collected, Triggered, WholeUnlessRaced, TypeOK
<1> QED BY <1>1, <1>2, <1>3, <1>4, <1>5, <1>6, <1>7, <1>8

LEMMA FilledIInv ==
  ASSUME IInv, NEW t \in Tasks, Filled(t)
  PROVE  IInv'
<1> USE DEF IInv, Filled
<1>0. /\ UNCHANGED <<given, goroutine, maps>> /\ Attached' = Attached
      /\ \A p \in Probers : Count(p) \in Nat /\ Count(p) <= Cap /\ Count(p)' = Count(p)
      /\ \A p \in Probers : Full(p)' <=> Full(p)
  BY TaskStep
<1>a. /\ cur[t] # None /\ step[t] = "fill" /\ cur[t] \in Probers /\ cur[t] \in Attached /\ Past(t, cur[t])
      /\ idx[t] \in Nat /\ idx[t] >= Count(cur[t])
  BY ProbeAssumption DEF TypeOK, Lodged, Past
<1>b. /\ naps' = naps /\ tramp' = tramp /\ idx' = idx
      /\ \A u \in Tasks \ {t} : cur'[u] = cur[u] /\ step'[u] = step[u]
      /\ \/ kind[cur[t]] = "modules" /\ cur'[t] = cur[t] /\ step'[t] = "end"
         \/ kind[cur[t]] # "modules" /\ cur'[t] = None /\ step'[t] = step[t]
      /\ cur' \in [Tasks -> Probers \cup {None}] /\ step' \in [Tasks -> Steps]
  BY DEF TypeOK, Leave, Steps
<1> HIDE DEF Filled
<1>c. /\ idx[t] = Count(cur[t]) /\ buf[cur[t]] = 1..Count(cur[t]) /\ run[cur[t]]
  <2>1. idx[t] <= Count(cur[t]) /\ 1..idx[t] \subseteq buf[cur[t]] /\ run[cur[t]]
    BY <1>a DEF Written
  <2>2. buf[cur[t]] \subseteq 1..Count(cur[t])
    BY <1>a DEF Contents
  <2>3. idx[t] = Count(cur[t])
    BY <1>0, <1>a, <2>1
  <2> QED BY <2>1, <2>2, <2>3
<1>1. TypeOK'
  BY <1>0, <1>b, TaskTypes DEF TypeOK
<1>2. Lodged'
  BY <1>0, <1>a, <1>b DEF Lodged, Idle, goroutine, Tasks
<1>3. Written'
  <2>1. run' = run /\ kind' = kind /\ total' = total /\ end' = end /\ buf' = buf
    BY <1>0 DEF maps, given
  <2> QED BY <1>0, <1>a, <1>b, <1>c, <2>1, ProbeAssumption DEF Written, Past
<1>4. Complete'
  <2>1. CASE kind[cur[t]] = "modules"
    BY <1>0, <1>b, <2>1, StillComplete DEF Past
  <2>2. CASE kind[cur[t]] # "modules"
    <3>1. Full(cur[t])
      BY <1>c, <2>2 DEF Full
    <3>2. \A u \in Tasks, p \in Probers : p # cur[t] => (Past(u, p) => Past(u, p)')
      BY <1>b DEF Past
    <3>3. run' = run
      BY <1>0 DEF maps
    <3> QED BY <1>0, <3>1, <3>2, <3>3 DEF Complete
  <2> QED BY <2>1, <2>2
<1>5. Woken'
  <2>1. run' = run /\ pc' = pc
    BY <1>0 DEF maps, goroutine
  <2> QED BY <1>b, <1>c, <2>1 DEF Woken, Tasks
<1> QED BY <1>0, <1>1, <1>2, <1>3, <1>4, <1>5, TaskStep

LEMMA SetEndIInv ==
  ASSUME IInv, NEW t \in Tasks, SetEnd(t)
  PROVE  IInv'
<1> USE ProbeAssumption DEF IInv, SetEnd, given, goroutine, maps, execution, Tasks
<1>0. \A p \in Probers : Count(p) \in Nat /\ Count(p) <= Cap /\ Count(p)' = Count(p)
  BY CountType DEF Count, Least
<1>a. /\ cur[t] \in Probers /\ cur[t] \in Attached /\ Past(t, cur[t]) /\ run[cur[t]]
      /\ kind[cur[t]] = "modules" /\ idx[t] = Count(cur[t])
      /\ 1..idx[t] \subseteq buf[cur[t]] /\ buf[cur[t]] \subseteq 1..Count(cur[t])
  BY DEF Lodged, TypeOK, Past, Written, Contents
<1>b. \A p \in Probers : Full(p) => Full(p)'
  BY <1>0, <1>a DEF Full, TypeOK
<1>1. TypeOK'
  BY DEF TypeOK, PCs, Errors, Steps, Kinds, Attached
<1>2. Lodged'
  BY DEF Lodged, Attached, Idle, TypeOK
<1>3. Written'
  BY <1>0 DEF Written, Past, TypeOK
<1>4. Contents'
  BY <1>0, <1>a DEF Contents, Attached, TypeOK
<1>5. Complete'
  <2>1. Past(t, cur[t])'
    BY <1>a DEF Past, TypeOK
  <2>2. \A u \in Tasks, p \in Probers : Past(u, p) => Past(u, p)'
    BY DEF Past, TypeOK
  <2> QED BY <1>a, <1>b, <2>1, <2>2 DEF Complete, Attached
<1>6. Woken'
  BY DEF Woken, TypeOK
<1>7. Reading'
  <2>1. \A p \in Attached : end[p] => end'[p]
    BY <1>a DEF Contents, Attached, TypeOK
  <2> QED BY <1>0, <1>b, <2>1 DEF Reading, Attached
<1>8. Collected' /\ Triggered' /\ WholeUnlessRaced'
  BY DEF Collected, Triggered, WholeUnlessRaced, TypeOK
<1> QED BY <1>1, <1>2, <1>3, <1>4, <1>5, <1>6, <1>7, <1>8

LEMMA SetNrIInv ==
  ASSUME IInv, NEW t \in Tasks, SetNr(t)
  PROVE  IInv'
<1> USE ProbeAssumption DEF IInv, SetNr, Leave, given, goroutine, maps, execution, Tasks
<1>0. \A p \in Probers : Count(p) \in Nat /\ Count(p) <= Cap /\ Count(p)' = Count(p)
  BY CountType DEF Count, Least
<1>a. /\ cur[t] \in Probers /\ cur[t] \in Attached /\ Past(t, cur[t]) /\ run[cur[t]]
      /\ kind[cur[t]] = "modules" /\ idx[t] = Count(cur[t])
      /\ 1..idx[t] \subseteq buf[cur[t]] /\ buf[cur[t]] \subseteq 1..Count(cur[t])
  BY DEF Lodged, TypeOK, Past, Written, Contents
<1>b. \A p \in Probers : Full(p) => Full(p)'
  BY <1>0, <1>a DEF Full, TypeOK
<1>1. TypeOK'
  BY DEF TypeOK, PCs, Errors, Steps, Kinds, Attached
<1>2. Lodged'
  BY DEF Lodged, Attached, Idle, TypeOK
<1>3. Written'
  BY <1>0 DEF Written, Past, TypeOK
<1>4. Contents'
  BY <1>0 DEF Contents, Attached, TypeOK
<1>5. Complete'
  <2>0. PICK q \in Probers : q = cur[t]
    BY <1>a
  <2>1. Full(q)'
    <3>1. end[q] = (Count(q) = total[q])
      BY <1>a, <2>0 DEF Written
    <3>2. buf[q] = 1..Count(q) /\ nr'[q] = Count(q)
      BY <1>a, <2>0 DEF TypeOK
    <3> QED BY <1>0, <3>1, <3>2 DEF Full
  <2>2. \A u \in Tasks, p \in Probers : p # q /\ Past(u, p) => Past(u, p)'
    BY <2>0 DEF Past, TypeOK
  <2>3. Attached' = Attached /\ run' = run
    BY DEF Attached
  <2> QED BY <1>b, <2>1, <2>2, <2>3 DEF Complete
<1>6. Woken'
  BY <1>a DEF Woken, TypeOK
<1>7. Reading'
  BY <1>0, <1>a, <1>b DEF Reading, TypeOK
<1>8. Collected' /\ Triggered' /\ WholeUnlessRaced'
  BY DEF Collected, Triggered, WholeUnlessRaced, TypeOK
<1> QED BY <1>1, <1>2, <1>3, <1>4, <1>5, <1>6, <1>7, <1>8

LEMMA LoadIInv ==
  ASSUME IInv, NEW q \in Probers, Load(q)
  PROVE  IInv'
<1> USE DEF IInv
<1>1. /\ UNCHANGED <<given, start, limit, got, raced, execution, naps>>
      /\ run' = [run EXCEPT ![q] = FALSE] /\ buf' = [buf EXCEPT ![q] = {}]
      /\ end' = [end EXCEPT ![q] = FALSE] /\ nr' = [nr EXCEPT ![q] = 0]
      /\ pc[q] = "load"
      /\ \/ pc' = [pc EXCEPT ![q] = "failed"] /\ error' = [error EXCEPT ![q] = "read size"]
         \/ pc' = [pc EXCEPT ![q] = "attach"] /\ error' = error
  BY DEF Load
<1>2. /\ run' \in [Probers -> BOOLEAN] /\ end' \in [Probers -> BOOLEAN]
      /\ nr' \in [Probers -> Nat] /\ buf' \in [Probers -> SUBSET Nat]
      /\ run'[q] = FALSE /\ buf'[q] = {} /\ end'[q] = FALSE
      /\ \A p \in Probers \ {q} :
           run'[p] = run[p] /\ buf'[p] = buf[p] /\ end'[p] = end[p] /\ nr'[p] = nr[p]
  BY <1>1 DEF TypeOK
<1>3. /\ pc' \in [Probers -> PCs] /\ error' \in [Probers -> Errors]
      /\ pc'[q] \in {"attach", "failed"} /\ (error'[q] # error[q] => error'[q] = "read size" /\ pc'[q] = "failed")
      /\ \A p \in Probers \ {q} : pc'[p] = pc[p] /\ error'[p] = error[p]
  <2>1. CASE pc' = [pc EXCEPT ![q] = "failed"] /\ error' = [error EXCEPT ![q] = "read size"]
    BY <2>1 DEF TypeOK, PCs, Errors
  <2>2. CASE pc' = [pc EXCEPT ![q] = "attach"] /\ error' = error
    BY <2>2 DEF TypeOK, PCs
  <2> QED BY <1>1, <2>1, <2>2
<1>4. q \notin Attached /\ Attached' = Attached
  BY <1>1, <1>3 DEF Attached, given
<1>5. \A p \in Probers : Count(p) \in Nat /\ Count(p) <= Cap /\ Count(p)' = Count(p)
  BY <1>1, CountType DEF Count, given
<1>6. \A p \in Probers \ {q} : Full(p)' <=> Full(p)
  BY <1>1, <1>2, <1>5 DEF Full, given
<1>7. TypeOK'
  BY <1>1, <1>2, <1>3 DEF TypeOK, given, execution
<1>8. Lodged'
  BY <1>1, <1>3, <1>4 DEF Lodged, Idle, execution
<1>9. Written'
  <2>1. \A u \in Tasks, p \in Probers : cur[u] = p => p # q
    BY <1>4, ProbeAssumption DEF Lodged
  <2>2. cur' = cur /\ step' = step /\ idx' = idx /\ kind' = kind /\ total' = total
    BY <1>1 DEF execution, given
  <2> QED BY <1>2, <1>5, <2>1, <2>2 DEF Written, Past
<1>10. Contents'
  <2>1. total' = total
    BY <1>1 DEF given
  <2>2. ASSUME NEW p \in Probers, p # q
        PROVE  /\ pc'[p] = "attach" => run'[p] = FALSE /\ buf'[p] = {} /\ end'[p] = FALSE
               /\ p \in Attached' => buf'[p] \subseteq 1..Count(p)' /\ (end'[p] => Count(p)' = total'[p])
    BY <1>2, <1>3, <1>4, <1>5, <2>1, <2>2 DEF Contents
  <2> QED BY <1>2, <1>4, <2>2 DEF Contents
<1>11. Complete'
  <2>1. cur' = cur /\ step' = step
    BY <1>1 DEF execution
  <2> QED BY <1>2, <1>4, <1>6, <2>1 DEF Complete, Past
<1>12. Woken'
  <2>1. cur' = cur /\ tramp' = tramp
    BY <1>1 DEF execution
  <2> QED BY <1>2, <1>3, <2>1 DEF Woken
<1>13. Reading'
  <2>1. kind' = kind /\ start' = start /\ limit' = limit /\ raced' = raced
    BY <1>1 DEF given
  <2>2. ASSUME NEW p \in Probers, p # q PROVE Reading!(p)'
    BY <1>2, <1>3, <1>5, <1>6, <2>1, <2>2 DEF Reading
  <2> QED BY <1>1, <1>3, <2>1, <2>2 DEF Reading
<1>14. Collected'
  <2>1. kind' = kind /\ total' = total /\ start' = start /\ got' = got /\ raced' = raced
    BY <1>1 DEF given
  <2> QED BY <1>1, <1>3, <2>1 DEF Collected
<1>15. Triggered' /\ WholeUnlessRaced'
  <2>1. kind' = kind /\ total' = total /\ got' = got /\ raced' = raced
    BY <1>1 DEF given
  <2> QED BY <1>3, <2>1 DEF Triggered, WholeUnlessRaced
<1> QED BY <1>7, <1>8, <1>9, <1>10, <1>11, <1>12, <1>13, <1>14, <1>15

LEMMA AttachIInv ==
  ASSUME IInv, NEW q \in Probers, Attach(q)
  PROVE  IInv'
<1> USE ProbeAssumption DEF IInv, Attach, given, goroutine, maps, execution, Tasks
<1>0. \A p \in Probers : Count(p) \in Nat /\ Count(p) <= Cap /\ Count(p)' = Count(p)
  BY CountType DEF Count, Least
<1>1. TypeOK'
  BY DEF TypeOK, PCs, Errors, Steps, Kinds, Attached
<1>2. Lodged'
  BY DEF Lodged, Attached, Idle, TypeOK
<1>3. Written'
  BY <1>0 DEF Written, Past, TypeOK
<1>4. Contents'
  BY <1>0 DEF Contents, Attached, TypeOK
<1>5. Complete'
  BY <1>0 DEF Complete, Contents, Past, Full, Attached, TypeOK
<1>6. Woken'
  BY DEF Woken, TypeOK
<1>7. Reading'
  BY <1>0 DEF Reading, Full, TypeOK
<1>8. Collected' /\ Triggered' /\ WholeUnlessRaced'
  BY DEF Collected, Triggered, WholeUnlessRaced, TypeOK
<1> QED BY <1>1, <1>2, <1>3, <1>4, <1>5, <1>6, <1>7, <1>8

LEMMA AttachFailsIInv ==
  ASSUME IInv, NEW q \in Probers, AttachFails(q)
  PROVE  IInv'
<1> USE ProbeAssumption DEF IInv, AttachFails, given, goroutine, maps, execution, Tasks
<1>0. \A p \in Probers : Count(p) \in Nat /\ Count(p) <= Cap /\ Count(p)' = Count(p)
  BY CountType DEF Count, Least
<1>1. TypeOK'
  BY DEF TypeOK, PCs, Errors, Steps, Kinds, Attached
<1>2. Lodged'
  BY DEF Lodged, Attached, Idle, TypeOK
<1>3. Written'
  BY <1>0 DEF Written, Past, TypeOK
<1>4. Contents'
  BY <1>0 DEF Contents, Attached, TypeOK
<1>5. Complete'
  BY <1>0 DEF Complete, Past, Full, Attached, TypeOK
<1>6. Woken'
  BY DEF Woken, TypeOK
<1>7. Reading'
  BY <1>0 DEF Reading, Full, TypeOK
<1>8. Collected' /\ Triggered' /\ WholeUnlessRaced'
  BY DEF Collected, Triggered, WholeUnlessRaced, TypeOK
<1> QED BY <1>1, <1>2, <1>3, <1>4, <1>5, <1>6, <1>7, <1>8

LEMMA NanosleepIInv ==
  ASSUME IInv, NEW q \in Probers, Nanosleep(q)
  PROVE  IInv'
<1> USE ProbeAssumption DEF IInv, Nanosleep, Enter, given, goroutine, maps, execution, Tasks
<1>0. \A p \in Probers : Count(p) \in Nat /\ Count(p) <= Cap /\ Count(p)' = Count(p)
  BY CountType DEF Count, Least
<1>1. TypeOK'
  BY DEF TypeOK, PCs, Errors, Steps, Kinds, Attached
<1>2. Lodged'
  BY DEF Lodged, Attached, Idle, TypeOK
<1>3. Written'
  BY <1>0 DEF Written, Past, TypeOK
<1>4. Contents'
  BY <1>0 DEF Contents, Attached, TypeOK
<1>5. Complete'
  BY <1>0 DEF Complete, Past, Full, Attached, TypeOK
<1>6. Woken'
  <2>1. q \in Attached /\ q \in tramp'[q]
    BY DEF Attached, TypeOK
  <2>2. \A p \in Probers \ {q} : tramp'[p] = tramp[p] /\ pc'[p] = pc[p]
    BY DEF TypeOK
  <2> QED BY <2>1, <2>2 DEF Woken
<1>7. Reading'
  BY <1>0 DEF Reading, Full, TypeOK
<1>8. Collected' /\ Triggered' /\ WholeUnlessRaced'
  BY DEF Collected, Triggered, WholeUnlessRaced, TypeOK
<1> QED BY <1>1, <1>2, <1>3, <1>4, <1>5, <1>6, <1>7, <1>8

LEMMA WakeIInv ==
  ASSUME IInv, NEW q \in Probers, Wake(q)
  PROVE  IInv'
<1> USE ProbeAssumption DEF IInv, Wake, given, goroutine, maps, execution, Tasks
<1>0. \A p \in Probers : Count(p) \in Nat /\ Count(p) <= Cap /\ Count(p)' = Count(p)
  BY CountType DEF Count, Least
<1>1. TypeOK'
  BY DEF TypeOK, PCs, Errors, Steps, Kinds, Attached
<1>2. Lodged'
  BY DEF Lodged, Attached, Idle, TypeOK
<1>3. Written'
  BY <1>0 DEF Written, Past, TypeOK
<1>4. Contents'
  BY <1>0 DEF Contents, Attached, TypeOK
<1>5. Complete'
  BY <1>0 DEF Complete, Past, Full, Attached, TypeOK
<1>6. Woken'
  BY DEF Woken, TypeOK
<1>7. Reading'
  BY <1>0 DEF Reading, Full, TypeOK
<1>8. Collected' /\ Triggered' /\ WholeUnlessRaced'
  BY DEF Collected, Triggered, WholeUnlessRaced, TypeOK
<1> QED BY <1>1, <1>2, <1>3, <1>4, <1>5, <1>6, <1>7, <1>8

\* What closing the program of q does to the tasks.
LEMMA CloseFacts ==
  ASSUME IInv, NEW q \in Probers, Close(q), Attached' = Attached \ {q}, maps' = maps,
         kind' = kind, total' = total,
         \A p \in Probers \ {q} : start'[p] = start[p] /\ pc'[p] = pc[p],
         pc[q] # "asleep", pc'[q] # "asleep"
  PROVE  /\ Lodged' /\ Written' /\ Complete'
         /\ tramp' \in [Tasks -> SUBSET Probers] /\ cur' \in [Tasks -> Probers \cup {None}]
         /\ \A p \in Probers \ {q} : /\ p \in tramp'[p] <=> p \in tramp[p]
                                     /\ cur'[p] = p <=> cur[p] = p
                                     /\ \A u \in Tasks : cur'[u] = p <=> cur[u] = p
         /\ \A p \in Probers \ {q} : Full(p)' <=> Full(p)
<1> USE ProbeAssumption DEF IInv, Close, maps
<1>0. \A p \in Probers \ {q} : Count(p) \in Nat /\ Count(p)' = Count(p)
  BY CountType DEF Count, Least
<1>1. /\ tramp' \in [Tasks -> SUBSET Probers] /\ cur' \in [Tasks -> Probers \cup {None}]
      /\ \A t \in Tasks, p \in Probers : cur'[t] = p => cur[t] = p /\ p # q
      /\ \A t \in Tasks : tramp'[t] = tramp[t] \ {q} /\ cur'[t] \in {cur[t], None} \ {q}
  BY DEF TypeOK
<1>2. \A p \in Probers \ {q}, u \in Tasks : cur'[u] = p <=> cur[u] = p
  BY DEF TypeOK
<1>3. \A p \in Probers \ {q} : Full(p)' <=> Full(p)
  BY <1>0 DEF Full
<1>4. Lodged'
  <2>1. \A t \in Tasks : tramp'[t] \subseteq Attached' /\ (cur'[t] # None => cur'[t] \in Attached')
    BY <1>1 DEF Lodged
  <2>2. \A p \in Probers : pc'[p] # "asleep" => pc[p] # "asleep"
    OBVIOUS
  <2>3. \A p \in Probers : Idle(p) => Idle(p)'
    BY <1>1 DEF Idle, Tasks
  <2> QED BY <2>1, <2>2, <2>3 DEF Lodged
<1>5. Written'
  BY <1>0, <1>1 DEF Written, Past
<1>6. Complete'
  BY <1>2, <1>3 DEF Complete, Past
<1> QED BY <1>1, <1>2, <1>3, <1>4, <1>5, <1>6 DEF Tasks

LEMMA FailIInv ==
  ASSUME IInv, NEW q \in Probers, NEW why \in Errors, q \in Attached, pc[q] # "asleep", Fail(q, why), maps' = maps,
         UNCHANGED <<given, start, limit, got, naps>>,
         raced' \in [Probers -> BOOLEAN],
         \A p \in Probers : raced[p] => raced'[p],
         \A p \in Probers \ {q} : raced'[p] = raced[p],
         ~raced'[q] => why = "too many modules" /\ total[q] > Cap
  PROVE  IInv'
<1> USE ProbeAssumption DEF IInv, given
<1>0. \A p \in Probers : Count(p) \in Nat /\ Count(p)' = Count(p)
  BY CountType DEF Count, Least
<1>1. /\ pc' \in [Probers -> PCs] /\ error' \in [Probers -> Errors]
      /\ pc'[q] = "failed" /\ error'[q] = why
      /\ \A p \in Probers \ {q} : pc'[p] = pc[p] /\ error'[p] = error[p]
      /\ Attached' = Attached \ {q}
  BY DEF Fail, TypeOK, Attached, PCs
<1>2. Close(q) /\ step' = step /\ idx' = idx
  BY DEF Fail, Close
<1>3. Lodged' /\ Written' /\ Complete'
  BY <1>1, <1>2, CloseFacts
<1>t. tramp' \in [Tasks -> SUBSET Probers] /\ cur' \in [Tasks -> Probers \cup {None}]
  BY <1>1, <1>2, CloseFacts
<1>s. \A p \in Probers \ {q} : /\ p \in tramp'[p] <=> p \in tramp[p]
                               /\ cur'[p] = p <=> cur[p] = p
                               /\ \A u \in Tasks : cur'[u] = p <=> cur[u] = p
  BY <1>1, <1>2, CloseFacts
<1>f. \A p \in Probers \ {q} : Full(p)' <=> Full(p)
  BY <1>1, <1>2, CloseFacts
<1>u. /\ kind' = kind /\ total' = total /\ foreign' = foreign /\ start' = start /\ limit' = limit
      /\ got' = got /\ naps' = naps /\ run' = run /\ buf' = buf /\ end' = end /\ nr' = nr
  BY DEF maps
<1>4. TypeOK'
  <2>1. \A p \in Probers : start'[p] <= total'[p]
    BY <1>u DEF TypeOK
  <2> QED BY <1>1, <1>2, <1>t, <1>u, <2>1 DEF TypeOK
<1>5. Contents' /\ Woken'
  <2>1. Contents'
    BY <1>0, <1>1, <1>u DEF Contents
  <2>2. Woken'
    <3> SUFFICES ASSUME NEW p \in Probers, pc'[p] \in {"asleep", "get_run"}, p \notin tramp'[p], cur'[p] # p
                 PROVE  run'[p] \/ \E u \in Tasks \ {p} : cur'[u] = p
      BY DEF Woken
    <3>1. p # q /\ pc'[p] = pc[p]
      BY <1>1
    <3>2. p \notin tramp[p] /\ cur[p] # p
      BY <1>s, <3>1
    <3>3. run[p] \/ \E u \in Tasks \ {p} : cur[u] = p
      BY <3>1, <3>2 DEF Woken
    <3> QED BY <1>s, <1>u, <3>1, <3>3
  <2> QED BY <2>1, <2>2
<1>6. Reading' /\ Collected'
  <2>1. Reading'
    BY <1>0, <1>1, <1>f, <1>u DEF Reading
  <2>2. Collected'
    BY <1>1, <1>u DEF Collected
  <2> QED BY <2>1, <2>2
<1>7. Triggered' /\ WholeUnlessRaced'
  BY <1>1 DEF Triggered, WholeUnlessRaced
<1> QED BY <1>3, <1>4, <1>5, <1>6, <1>7

\* With all the results there, the goroutine has the next items of the table.
LEMMA CollectIInv ==
  ASSUME IInv, NEW q \in Probers, q \in Attached, pc[q] # "asleep", Collect(q), maps' = maps,
         UNCHANGED <<given, limit, error, naps>>,
         raced' \in [Probers -> BOOLEAN],
         \A p \in Probers : raced[p] => raced'[p],
         \A p \in Probers \ {q} : raced'[p] = raced[p],
         error[q] = "none",
         kind[q] = "modules" => start[q] = 0 /\ Count(q) = total[q],
         ~raced'[q] => Full(q) /\ (kind[q] = "modules" => limit[q] = Count(q))
  PROVE  IInv'
<1> USE ProbeAssumption DEF IInv, given
<1>0. \A p \in Probers : Count(p) \in Nat /\ Count(p) <= total[p] - start[p]
  BY CountType
<1>a. start[q] \in Nat /\ total[q] \in Nat /\ start[q] <= total[q] /\ NextStart(q) \in Nat /\ NextStart(q) <= total[q]
  BY <1>0 DEF TypeOK, NextStart
<1>b. kind[q] = "modules" => NextStart(q) = total[q]
  BY <1>0, <1>a DEF NextStart
<1>1. /\ pc' \in [Probers -> PCs] /\ pc'[q] \in {"load", "done"}
      /\ start' \in [Probers -> Nat] /\ start'[q] = NextStart(q)
      /\ \A p \in Probers \ {q} : pc'[p] = pc[p] /\ start'[p] = start[p] /\ got'[p] = got[p]
      /\ got'[q] = got[q] \cup {start[q] + i : i \in Taken(q)}
      /\ pc'[q] = "done" => start'[q] = total[q]
      /\ kind[q] = "modules" => pc'[q] = "done"
      /\ Attached' = Attached \ {q}
  <2>1. /\ pc' = [pc EXCEPT ![q] = IF NextStart(q) < total[q] THEN "load" ELSE "done"]
        /\ start' = [start EXCEPT ![q] = NextStart(q)]
        /\ got' = [got EXCEPT ![q] = @ \cup {start[q] + i : i \in Taken(q)}]
    BY DEF Collect
  <2>2. pc' \in [Probers -> PCs] /\ pc'[q] \in {"load", "done"} /\ start' \in [Probers -> Nat]
    BY <1>a, <2>1 DEF TypeOK, PCs
  <2>3. /\ \A p \in Probers \ {q} : pc'[p] = pc[p] /\ start'[p] = start[p] /\ got'[p] = got[p]
        /\ start'[q] = NextStart(q) /\ got'[q] = got[q] \cup {start[q] + i : i \in Taken(q)}
    BY <2>1 DEF TypeOK
  <2>4. /\ pc'[q] = "done" => start'[q] = total[q]
        /\ kind[q] = "modules" => pc'[q] = "done"
    <3>1. pc'[q] = IF NextStart(q) < total[q] THEN "load" ELSE "done"
      BY <2>1 DEF TypeOK
    <3> QED BY <1>a, <1>b, <2>3, <3>1
  <2>5. Attached' = Attached \ {q}
    BY <2>2, <2>3 DEF Attached
  <2> QED BY <2>2, <2>3, <2>4, <2>5
<1>2. Close(q) /\ step' = step /\ idx' = idx
  BY DEF Collect, Close
<1>3. Lodged' /\ Written' /\ Complete'
  BY <1>1, <1>2, CloseFacts
<1>t. tramp' \in [Tasks -> SUBSET Probers] /\ cur' \in [Tasks -> Probers \cup {None}]
  BY <1>1, <1>2, CloseFacts
<1>s. \A p \in Probers \ {q} : /\ p \in tramp'[p] <=> p \in tramp[p]
                               /\ cur'[p] = p <=> cur[p] = p
                               /\ \A u \in Tasks : cur'[u] = p <=> cur[u] = p
  BY <1>1, <1>2, CloseFacts
<1>f. \A p \in Probers \ {q} : Full(p)' <=> Full(p)
  BY <1>1, <1>2, CloseFacts
<1>c. \A p \in Probers \ {q} : Count(p)' = Count(p)
  BY <1>1 DEF Count
<1>4. Taken(q) \subseteq Nat
  BY DEF Taken, TypeOK
<1>5. got' \in [Probers -> SUBSET Nat]
  BY <1>a, <1>4 DEF Collect, TypeOK
<1>6. TypeOK'
  BY <1>1, <1>2, <1>t, <1>5, <1>a DEF TypeOK, maps
<1>7. Contents'
  BY <1>c, <1>1 DEF Contents, maps
<1>12. Woken'
  <2> SUFFICES ASSUME NEW p \in Probers, pc'[p] \in {"asleep", "get_run"}, p \notin tramp'[p], cur'[p] # p
               PROVE  run'[p] \/ \E u \in Tasks \ {p} : cur'[u] = p
    BY DEF Woken
  <2>1. p # q /\ pc'[p] = pc[p]
    BY <1>1
  <2>2. p \notin tramp[p] /\ cur[p] # p
    BY <1>s, <2>1
  <2>3. run[p] \/ \E u \in Tasks \ {p} : cur[u] = p
    BY <2>1, <2>2 DEF Woken
  <2> QED BY <1>s, <2>1, <2>3 DEF maps
<1>8. ~raced'[q] => got'[q] = 1..start'[q]
  <2> SUFFICES ASSUME ~raced'[q] PROVE got'[q] = 1..start'[q]
    OBVIOUS
  <2>1. Taken(q) = 1..Count(q)
    BY <1>0 DEF Taken, Full
  <2>2. got[q] = 1..start[q]
    BY DEF Collected
  <2>3. \A a, b \in Nat : (1..a) \cup {a + i : i \in 1..b} = 1..(a + b)
    <3> SUFFICES ASSUME NEW a \in Nat, NEW b \in Nat
                 PROVE  (1..a) \cup {a + i : i \in 1..b} = 1..(a + b)
      OBVIOUS
    <3>1. \A x \in 1..(a + b) : x \in 1..a \/ (x - a \in 1..b /\ x = a + (x - a))
      OBVIOUS
    <3>2. 1..(a + b) \subseteq (1..a) \cup {a + i : i \in 1..b}
      BY <3>1
    <3>3. (1..a) \cup {a + i : i \in 1..b} \subseteq 1..(a + b)
      OBVIOUS
    <3> QED BY <3>2, <3>3
  <2>4. (1..start[q]) \cup {start[q] + i : i \in 1..Count(q)} = 1..(start[q] + Count(q))
    BY <1>0, <1>a, <2>3
  <2> QED BY <1>1, <2>1, <2>2, <2>4 DEF NextStart
<1>9. Collected'
  BY <1>1, <1>8 DEF Collected
<1>10. Reading'
  BY <1>1, <1>f, <1>c DEF Reading, maps
<1>11. Triggered' /\ WholeUnlessRaced'
  BY <1>1, <1>8 DEF Triggered, WholeUnlessRaced
<1> QED BY <1>3, <1>6, <1>7, <1>9, <1>10, <1>11, <1>12

LEMMA GetRunIInv ==
  ASSUME IInv, NEW q \in Probers, GetRun(q)
  PROVE  IInv'
<1> USE ProbeAssumption DEF IInv, GetRun
<1>1. /\ q \in Attached /\ pc[q] = "get_run" /\ Idle(q) /\ error[q] = "none"
      /\ maps' = maps /\ UNCHANGED <<given, limit, naps>>
  BY DEF Attached, Lodged, Collected
<1>2. /\ raced' \in [Probers -> BOOLEAN] /\ \A p \in Probers : raced[p] => raced'[p]
      /\ \A p \in Probers \ {q} : raced'[p] = raced[p]
      /\ ~raced'[q] => Writers(q) = {}
  BY DEF TypeOK
<1>3. Writers(q) = {} => run[q] /\ Full(q)
  <2> SUFFICES ASSUME Writers(q) = {} PROVE run[q] /\ Full(q)
    OBVIOUS
  <2>1. q \notin tramp[q] /\ cur[q] # q
    BY <1>1 DEF Idle
  <2>2. run[q]
    <3> SUFFICES ASSUME ~run[q] PROVE FALSE
      OBVIOUS
    <3>1. PICK u \in Tasks \ {q} : cur[u] = q
      BY <1>1, <2>1 DEF Woken
    <3> QED BY <3>1 DEF Writers
  <2>3. \A t \in Tasks : ~Past(t, q)
    BY <2>1 DEF Writers, Past
  <2> QED BY <1>1, <2>2, <2>3 DEF Complete
<1>4. CASE ~run[q]
  BY <1>1, <1>2, <1>3, <1>4, FailIInv DEF Errors
<1>5. CASE run[q] /\ kind[q] = "feature"
  BY <1>1, <1>2, <1>3, <1>5, CollectIInv
<1>6. CASE run[q] /\ kind[q] # "feature"
  <2>1. /\ pc' = [pc EXCEPT ![q] = IF kind[q] = "modules" THEN "get_end" ELSE "get_items"]
        /\ UNCHANGED <<start, got, error, execution>>
    BY <1>6
  <2>2. /\ pc' \in [Probers -> PCs] /\ \A p \in Probers \ {q} : pc'[p] = pc[p]
        /\ kind[q] = "modules" => pc'[q] = "get_end"
        /\ kind[q] # "modules" => pc'[q] = "get_items"
        /\ Attached' = Attached
    BY <1>1, <2>1 DEF TypeOK, PCs, Attached
  <2>3. \A p \in Probers : Count(p)' = Count(p) /\ (Full(p)' <=> Full(p))
    BY <1>1, <2>1 DEF Count, Full, given, maps
  <2>4. TypeOK'
    BY <1>1, <1>2, <2>1, <2>2 DEF TypeOK, given, maps, execution
  <2>5. Lodged'
    BY <1>1, <2>1, <2>2 DEF Lodged, Idle, execution
  <2>9. Written'
    <3> HIDE DEF GetRun
    <3>1. cur' = cur /\ step' = step /\ idx' = idx /\ kind' = kind /\ total' = total
          /\ run' = run /\ buf' = buf /\ end' = end
      BY <1>1, <2>1 DEF given, maps, execution
    <3> QED BY <2>3, <3>1 DEF Written, Past
  <2>6. Contents' /\ Complete' /\ Woken'
    BY <1>1, <2>1, <2>2, <2>3 DEF Contents, Complete, Woken, Past, given, maps, execution
  <2>7. Reading'
    <3> HIDE DEF GetRun
    <3>1. kind' = kind /\ start' = start /\ limit' = limit /\ end' = end
      BY <1>1, <2>1 DEF given, maps
    <3> QED BY <1>1, <1>2, <1>3, <2>2, <2>3, <3>1 DEF Reading
  <2> HIDE DEF GetRun
  <2>k. kind' = kind /\ total' = total /\ start' = start /\ got' = got /\ error' = error
    BY <1>1, <2>1 DEF given
  <2>10. Collected'
    BY <1>1, <1>2, <2>2, <2>k DEF Collected
  <2>8. Triggered' /\ WholeUnlessRaced'
    BY <1>1, <1>2, <2>2, <2>k DEF Triggered, WholeUnlessRaced
  <2> QED BY <2>4, <2>5, <2>6, <2>7, <2>8, <2>9, <2>10
<1> QED BY <1>4, <1>5, <1>6

LEMMA GetEndIInv ==
  ASSUME IInv, NEW q \in Probers, GetEnd(q)
  PROVE  IInv'
<1> USE ProbeAssumption DEF IInv, GetEnd
<1>1. /\ q \in Attached /\ pc[q] = "get_end" /\ kind[q] = "modules" /\ start[q] = 0
      /\ maps' = maps /\ raced' = raced /\ UNCHANGED <<given, start, limit, got, naps>>
  BY DEF Attached, Reading
<1>2. CASE ~end[q]
  <2>1. ~raced[q] => total[q] > Cap
    <3>1. ~raced[q] => Count(q) # total[q]
      BY <1>1, <1>2 DEF Reading, Full
    <3> HIDE DEF GetEnd, IInv
    <3>2. total[q] \in Nat /\ Cap \in Nat /\ start[q] = 0
      BY <1>1 DEF TypeOK, IInv
    <3>3. Count(q) = IF total[q] < Cap THEN total[q] ELSE Cap
      BY <3>2 DEF Count, Least
    <3>4. Count(q) # total[q] => total[q] > Cap
      BY <3>2, <3>3
    <3> QED BY <3>1, <3>4
  <2>2. raced' \in [Probers -> BOOLEAN]
    BY <1>1 DEF TypeOK
  <2> QED BY <1>1, <1>2, <2>1, <2>2, FailIInv DEF Errors
<1>3. CASE end[q]
  <2>1. pc' = [pc EXCEPT ![q] = "get_nr"] /\ UNCHANGED <<error, execution>>
    BY <1>3
  <2>2. /\ pc' \in [Probers -> PCs] /\ \A p \in Probers \ {q} : pc'[p] = pc[p]
        /\ pc'[q] = "get_nr" /\ Attached' = Attached
    BY <1>1, <2>1 DEF TypeOK, PCs, Attached
  <2>3. \A p \in Probers : Count(p)' = Count(p) /\ (Full(p)' <=> Full(p))
    BY <1>1, <2>1 DEF Count, Full, given, maps
  <2>4. TypeOK'
    BY <1>1, <2>1, <2>2 DEF TypeOK, given, maps, execution
  <2>5. Lodged'
    BY <1>1, <2>1, <2>2 DEF Lodged, Idle, execution
  <2>9. Written'
    <3> HIDE DEF GetEnd
    <3>1. cur' = cur /\ step' = step /\ idx' = idx /\ kind' = kind /\ total' = total
          /\ run' = run /\ buf' = buf /\ end' = end
      BY <1>1, <2>1 DEF given, maps, execution
    <3> QED BY <2>3, <3>1 DEF Written, Past
  <2>6. Contents' /\ Complete' /\ Woken'
    BY <1>1, <2>1, <2>2, <2>3 DEF Contents, Complete, Woken, Past, given, maps, execution
  <2>7. Reading' /\ Collected'
    BY <1>1, <1>3, <2>1, <2>2, <2>3 DEF Reading, Collected, given, maps
  <2>8. Triggered' /\ WholeUnlessRaced'
    BY <1>1, <2>1, <2>2 DEF Triggered, WholeUnlessRaced, given
  <2> QED BY <2>4, <2>5, <2>6, <2>7, <2>8, <2>9
<1> QED BY <1>2, <1>3

LEMMA GetItemsIInv ==
  ASSUME IInv, NEW q \in Probers, GetItems(q)
  PROVE  IInv'
<1> USE ProbeAssumption DEF IInv, GetItems
<1>1. /\ q \in Attached /\ pc[q] = "get_items" /\ error[q] = "none"
      /\ maps' = maps /\ raced' = raced /\ UNCHANGED <<given, limit, error, naps>>
  BY DEF Attached, Collected
<1>2. kind[q] = "modules" => start[q] = 0 /\ Count(q) = total[q]
  BY <1>1 DEF Reading, Contents
<1>3. ~raced[q] => Full(q) /\ (kind[q] = "modules" => limit[q] = Count(q))
  BY <1>1 DEF Reading
<1>4. raced' \in [Probers -> BOOLEAN]
  BY <1>1 DEF TypeOK
<1> QED BY <1>1, <1>2, <1>3, <1>4, CollectIInv

LEMMA GetNrIInv ==
  ASSUME IInv, NEW q \in Probers, GetNr(q)
  PROVE  IInv'
<1> USE ProbeAssumption DEF IInv, GetNr, given, maps, execution
<1>1. /\ pc' \in [Probers -> PCs] /\ \A p \in Probers \ {q} : pc'[p] = pc[p] /\ limit'[p] = limit[p]
      /\ pc[q] = "get_nr" /\ pc'[q] = "get_items" /\ limit'[q] = nr[q] /\ Attached' = Attached
      /\ limit' \in [Probers -> Nat]
  BY DEF TypeOK, PCs, Attached
<1>2. \A p \in Probers : Count(p)' = Count(p) /\ (Full(p)' <=> Full(p))
  BY DEF Count, Full
<1>3. TypeOK' /\ Lodged' /\ Written'
  BY <1>1, <1>2 DEF TypeOK, Lodged, Written, Idle, Past
<1>4. Contents' /\ Complete' /\ Woken'
  BY <1>1, <1>2 DEF Contents, Complete, Woken, Past
<1>5. Reading' /\ Collected'
  BY <1>1, <1>2 DEF Reading, Collected, Full
<1>6. Triggered' /\ WholeUnlessRaced'
  BY <1>1 DEF Triggered, WholeUnlessRaced
<1> QED BY <1>3, <1>4, <1>5, <1>6

-----------------------------------------------------------------------------

LEMMA StepIInv == IInv /\ [Next]_vars => IInv'
<1> SUFFICES ASSUME IInv, [Next]_vars PROVE IInv'
  OBVIOUS
<1>1. ASSUME NEW t \in Sleepers, Nap(t) PROVE IInv'
  BY <1>1, NapIInv
<1>2. ASSUME NEW t \in Tasks, Execute(t) PROVE IInv'
  BY <1>2, StartProgramIInv, SkippedIInv, CheckIInv, ClaimIInv, FillIInv, FilledIInv, SetEndIInv,
     SetNrIInv DEF Execute
<1>3. ASSUME NEW p \in Probers, Probe(p) PROVE IInv'
  BY <1>3, LoadIInv, AttachIInv, AttachFailsIInv, NanosleepIInv, WakeIInv, GetRunIInv, GetEndIInv,
     GetNrIInv, GetItemsIInv DEF Probe
<1>4. CASE UNCHANGED vars
  <2> USE <1>4 DEF vars, given, goroutine, maps, execution, IInv
  <2>1. \A p \in Probers : Count(p)' = Count(p) /\ (Full(p)' <=> Full(p))
    BY DEF Full, Count
  <2>2. TypeOK' /\ Lodged' /\ Triggered' /\ WholeUnlessRaced'
    BY DEF TypeOK, Lodged, Idle, Attached, Triggered, WholeUnlessRaced
  <2>3. Written' /\ Complete' /\ Woken'
    BY <2>1 DEF Written, Complete, Woken, Past, Attached
  <2>4. Contents' /\ Reading' /\ Collected'
    BY <2>1 DEF Contents, Reading, Collected, Attached
  <2> QED BY <2>2, <2>3, <2>4
<1> QED BY <1>1, <1>2, <1>3, <1>4 DEF Next

THEOREM InvariantHolds == Spec => []IInv
BY InitIInv, StepIInv, PTL DEF Spec

\* The state of the goroutines, the maps and the tasks is what it is declared
\* to be, and no probe goes beyond the end of its table.
THEOREM TypeCorrect == Spec => []TypeOK
BY InvariantHolds, PTL DEF IInv

\* No goroutine finds that its program did not run, unless it read while
\* another task was in the program (bpf_read_kernel.go:82).
THEOREM TriggeredHolds == Spec => []Triggered
BY InvariantHolds, PTL DEF IInv

\* Unless another task was in the program at the time, a probe has the whole
\* table of the kernel, and "too many modules" is true of it.
THEOREM WholeHolds == Spec => []WholeUnlessRaced
BY InvariantHolds, PTL DEF IInv
=============================================================================
