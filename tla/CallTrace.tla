------------------------------ MODULE CallTrace ------------------------------
(***************************************************************************)
(* What the output of bpfsnoop promises about the functions traced at both *)
(* entry and exit (internal/bpfsnoop/bpfsnoop.go:128-206): the reader holds*)
(* the entry of a call, and when the exit of that same call comes prints   *)
(* the two together, or drops both.  A call is printed once, and nothing   *)
(* that has been printed is held again.                                    *)
(***************************************************************************)
CONSTANT Calls

VARIABLES
  held,     \* calls whose entry the reader has and whose exit it awaits
  printed   \* <<entry, exit>> printed as one call

vars == <<held, printed>>

Init == held = {} /\ printed = {}

Hold(c) ==
  /\ c \notin held /\ <<c, c>> \notin printed
  /\ held' = held \cup {c}
  /\ UNCHANGED printed

PrintCall(c) ==
  /\ c \in held
  /\ printed' = printed \cup {<<c, c>>}
  /\ held' = held \ {c}

\* The call took less time than --duration-threshold.
Drop(c) ==
  /\ c \in held
  /\ held' = held \ {c}
  /\ UNCHANGED printed

Next == \E c \in Calls : Hold(c) \/ PrintCall(c) \/ Drop(c)

Spec == Init /\ [][Next]_vars
==============================================================================
