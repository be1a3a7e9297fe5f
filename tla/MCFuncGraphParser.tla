------------------------- MODULE MCFuncGraphParser -------------------------
(* Instances of FuncGraphParser for TLC. *)
EXTENDS FuncGraphParser, TLC

CONSTANTS r, a, b, c, d, e, p, q, u

\* Two roots r and c, one within reach of the other; a cycle c, e; a BPF program
\* p that was replaced by q, and called b until then; a denied function d, which
\* calls a function of the graph, and u, which cannot be traced.
MixedCallees ==
  r :> <<a, p, p>> @@ a :> <<c, u>> @@ p :> <<b>> @@ q :> <<>>
  @@ c :> <<e>> @@ u :> <<e>> @@ d :> <<u, u, q>> @@ e :> <<c>> @@ b :> <<>>
MixedProg == [f \in {r, a, b, c, d, e, p, q, u} |-> IF f = p THEN q ELSE NoFunc]

\* A root r of two callees, one of which calls the other; a cycle a, b, c.
CyclicCallees ==
  r :> <<a, b>> @@ a :> <<b, u, u>> @@ b :> <<c, e>> @@ c :> <<a, q>>
  @@ q :> <<>> @@ u :> <<c>> @@ d :> <<u, e>> @@ e :> <<>>
NoReplaced == [f \in {r, a, b, c, d, e, q, u} |-> NoFunc]

Nothing == <<>>
OnlyD   == <<d>>
============================================================================
