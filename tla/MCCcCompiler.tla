---------------------------- MODULE MCCcCompiler ----------------------------
(* Instances of the expression compiler: a heap of two objects of a struct.  *)
EXTENDS CcCompiler

S == Struct("S", 12)
T == Struct("T", 3)

Member(off, t) == [off |-> off, t |-> t, bits |-> 0, bit |-> 0]

MembersOf ==
  [S |-> [x |-> Member(0, U64), y |-> Member(2, EnumT), f |-> [off |-> 3, t |-> U32, bits |-> 2, bit |-> 1],
          next |-> Member(4, Ptr(S)), arr |-> Member(6, Arr(U32, 2)), t |-> Member(8, T),
          tag |-> Member(11, Arr(U32, 1))],
   T |-> [m |-> Member(0, U32), n |-> Member(1, U64)]]

TypesOf ==
  {S, T, U64, U32, EnumT, Ptr(S), Ptr(T), Arr(U32, 1), Arr(U32, 2)}

\* The first object, at 16, leads to the second, at 32, which leads nowhere; or
\* the first leads nowhere.
Heap(next) ==
  [null |-> 16,
   cell |-> [a \in Words |->
               CASE a = 20 -> next % Low
                 [] a = 21 -> next \div Low
                 [] a \in {36, 37} -> 0
                 [] OTHER -> (23 * a + 5) % Low],
   args |-> <<16, 9, 2>>]

Base ==
  [kind |-> "filter", mode |-> "probe", fast |-> FALSE, types |-> <<Ptr(S), U64, EnumT>>,
   mem |-> Heap(32), nums |-> {}, enums |-> {}, ops |-> {}, casts |-> {}, bases |-> {},
   members |-> {}, indices |-> {}, deltas |-> {}, nodes |-> 1, depth |-> 1, steps |-> 0]

\* Every operator, over variables and constants.
Operators ==
  [Base EXCEPT !.nums = {0, 1, 40, Word - 1}, !.enums = {3}, !.casts = {U32, U64, Ptr(S)},
               !.ops = BinaryOps \cup UnaryOps \cup {"cond"}, !.nodes = 4, !.depth = 3]

\* Every form of memory access, one at a time.
Accesses ==
  [Base EXCEPT !.casts = {U32, U64, Ptr(S), Ptr(T)}, !.bases = {0, 16, Word - 24},
               !.members = DOMAIN MembersOf.S \cup DOMAIN MembersOf.T,
               !.indices = {0, 1}, !.deltas = {-1, 0, 1}, !.steps = 4, !.kind = "output"]

\* Null pointers under the operators that a filter ends with.
Nulls ==
  [Base EXCEPT !.types = <<Ptr(S)>>, !.ops = {"andand", "oror", "not", "noteq", "or", "div", "cond"},
               !.nums = {1}, !.members = {"x", "next"}, !.nodes = 4, !.depth = 3, !.steps = 3]

\* A constant decides, after the program may have left: what remains is late.
Decided ==
  [Base EXCEPT !.types = <<Ptr(S)>>, !.ops = {"andand", "oror", "not", "cond", "mul"}, !.nums = {0},
               !.members = {"x", "next"}, !.nodes = 5, !.depth = 3, !.steps = 2]

\* More values at once than there are registers, and calls with r5 in use.
Crowd ==
  [Base EXCEPT !.types = <<Ptr(S)>>, !.ops = {"add"}, !.nodes = 11, !.depth = 10, !.kind = "output"]
Calls ==
  [Crowd EXCEPT !.members = {"y"}, !.nodes = 6, !.depth = 5, !.steps = 1]

InCore(c)   == [c EXCEPT !.mode = "core"]
InFast(c)   == [c EXCEPT !.mode = "core", !.fast = TRUE]
WithNull(c) == [c EXCEPT !.mem = Heap(0)]

Instances ==
  [operators |-> Operators, operators0 |-> [Operators EXCEPT !.mem.args = <<0, 0, 0>>],
   probe |-> Accesses, core |-> InCore(Accesses), fast |-> InFast(Accesses),
   nulls |-> WithNull(Nulls), coreNulls |-> InCore(WithNull(Nulls)),
   decided |-> WithNull(Decided),
   crowd |-> Crowd, calls |-> Calls, fastCalls |-> InFast(Calls)]
AllConfs == [name \in DOMAIN Instances |-> Instances[name]]

\* Arrays and pointers, read with bpf_rdonly_cast.
Elements == [core |-> [InCore(Accesses) EXCEPT !.casts = {}, !.bases = {}, !.deltas = {}]]
=============================================================================
