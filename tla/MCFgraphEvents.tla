------------------------- MODULE MCFgraphEvents -------------------------
(* Instances of FgraphEvents for TLC. *)
EXTENDS FgraphEvents, TLC

CONSTANTS root, other, graph, plain, single

Traced(fs, rs, is, gs, ss, kprobe) ==
  [funcs : {fs}, roots : {rs}, graphRoots : {{root}}, insnRoots : {is},
   graphs : {gs}, singles : {ss},
   graphFirst : {TRUE}, tailcall : BOOLEAN, kprobe : {kprobe}]

\* One root, a function of its graph, an untraced one, one of another tracer.
Alone == Traced({root, graph, plain, single}, {root}, {}, {graph}, {single}, FALSE)

\* A second root, traced by instruction; the first is of its own graph.
\* The walk of kernels without tail calls in BPF subprograms.
Nested ==
  {k \in Traced({root, other, graph}, {root, other}, {other}, {root, graph}, {}, FALSE) :
     ~k.tailcall}

AloneOrNested == Alone \cup Nested

\* A second root, traced at entry and exit only.
Both == Traced({root, other, graph}, {root, other}, {}, {graph}, {}, FALSE)
=========================================================================
