--------------------------- MODULE MCKernelProbe ---------------------------
(* Instances of KernelProbe for TLC. *)
EXTENDS KernelProbe, TLC

CONSTANTS p1, p2, s1

\* FuncGraphParser reads functions in parallel; everything else is read by one
\* goroutine at a time, beside whatever else sleeps in the system.
MCConfs ==
  {p1 :> "read" @@ p2 :> "read"} \cup {p1 :> k @@ p2 :> "none" : k \in Kinds}
============================================================================
