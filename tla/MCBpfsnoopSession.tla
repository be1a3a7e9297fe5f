------------------------ MODULE MCBpfsnoopSession ------------------------
(* Instances of BpfsnoopSession for TLC. *)
EXTENDS BpfsnoopSession, TLC

CONSTANTS t1, t2, f1, f2, f3, e1, e2

\* Two stacks; the frames of a stack are 8 apart and the low words of the
\* frame pointers of the two stacks coincide.
MCWord  == 16
MCLowFp == [fp \in Frames |-> 8 * (fp[2] - 1)]
==========================================================================
