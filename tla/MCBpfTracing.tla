---------------------------- MODULE MCBpfTracing ----------------------------
(* Instances of BpfTracing for TLC: two targets. *)
EXTENDS BpfTracing, TLC

CONSTANTS fn, other

AllModes == (SUBSET {"entry", "exit"}) \ {{}}

Plain == [kind |-> "kfunc", kmod |-> FALSE, both |-> FALSE, graph |-> FALSE, insn |-> FALSE]
Flagged(k) == {k} \cup {[k EXCEPT !.both = TRUE], [k EXCEPT !.graph = TRUE], [k EXCEPT !.insn = TRUE]}

Kfunc(mod) == Flagged([Plain EXCEPT !.kmod = mod])
Tp         == [Plain EXCEPT !.kind = "tp", !.both = TRUE]
Prog       == Flagged([Plain EXCEPT !.kind = "prog"]) \ {[Plain EXCEPT !.kind = "prog", !.insn = TRUE]}

Pairs(ms, S, T) == {[modes |-> ms, of |-> (fn :> k) @@ (other :> l)] : k \in S, l \in T}

\* A kernel function with or without one flag, of a module without BTF or not,
\* beside a tracepoint or a BPF program; and two BPF programs.
MCConfs == UNION {UNION {Pairs(ms, Kfunc(TRUE) \cup Kfunc(FALSE), {Tp, [Plain EXCEPT !.kind = "prog"]}),
                         Pairs(ms, Prog, {[Plain EXCEPT !.kind = "prog", !.both = TRUE]})} : ms \in AllModes}
=============================================================================
