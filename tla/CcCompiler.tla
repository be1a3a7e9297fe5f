------------------------------ MODULE CcCompiler ------------------------------
(***************************************************************************)
(* The compiler of C expressions (internal/cc): eval.go, memory_access.go, *)
(* bpf_probe_read.go, bpf_core_read.go and expr.go.                        *)
(*                                                                         *)
(* eval walks the tree of an expression, operands first.  A step of this   *)
(* specification is what it does at a node once its operands are values,   *)
(* so that a behaviour compiles some expression, node by node: the values  *)
(* that await their operator are on a stack.  The instructions a step      *)
(* emits are executed at once, on the machine of CcMachine with the        *)
(* arguments and the memory of the configuration.                          *)
(*                                                                         *)
(* A value carries what C says it is, over 64-bit unsigned words, and the  *)
(* reasons, if any, for which the compiled program may compute another:    *)
(* the "departures", each of which is a place in the source.               *)
(***************************************************************************)
EXTENDS CcMachine

CONSTANTS
  Confs,     \* name -> configuration
  Types,     \* those of arguments, casts and members, and what they point to
  Members    \* struct -> member -> [off, t, bits, bit]

\* A configuration: what is compiled for ("filter" or "output"), how memory is
\* read ("probe" or "core", fast when bpf_rdonly_cast is a bpf_fastcall), the
\* types of the arguments, the machine's memory, and the inputs tried: constants,
\* enumerators, operators, casts, addresses, members, indices and offsets, with
\* their bounds.
IsConfiguration(c) ==
  /\ c.kind \in {"filter", "output"} /\ c.mode \in {"probe", "core"} /\ c.fast \in BOOLEAN
  /\ c.types \in Seq(Types)
  /\ c.mem.args[1] \in Words /\ \A i \in DOMAIN c.types : c.mem.args[i] \in Words
  /\ c.mem.null \in Nat /\ c.mem.cell \in [Words -> 0..(Low - 1)]
  /\ c.nums \cup c.enums \cup c.bases \subseteq Words
  /\ c.casts \subseteq Types
  /\ c.indices \subseteq Nat /\ c.deltas \subseteq Int
  /\ {c.nodes, c.depth, c.steps} \subseteq Nat

ASSUME ConfsAssumption == \A name \in DOMAIN Confs : IsConfiguration(Confs[name])

\* A type has a size, that it points to another, or a struct of Members.
IsType(t) ==
  /\ t.kind \in {"int", "enum", "ptr", "array", "struct", "void"} /\ t.size \in Nat
  /\ t.kind \in {"ptr", "array"} => t.to \in Types
  /\ t.kind = "struct" => t.to \in DOMAIN Members

ASSUME TypesAssumption ==
  /\ \A t \in Types : IsType(t)
  /\ \A s \in DOMAIN Members : \A name \in DOMAIN Members[s] :
       LET f == Members[s][name] IN f.t \in Types /\ {f.off, f.bits, f.bit} \subseteq Nat

VARIABLES
  conf,       \* name of the configuration, which does not change
  phase,      \* "compile", "done", "failed" (an error), "crashed" (a Go panic)
  stack,      \* values that await their operator
  acc,        \* the accessResult under construction, or NoAccess
  used,       \* compiler.regalloc
  m,          \* the machine, after the instructions emitted so far
  labelUsed,  \* compiler.labelExitUsed
  last,       \* the last instruction emitted
  top,        \* operator of the last node
  nodes,      \* bound: nodes compiled
  spilled     \* history: a call was compiled with a register it loses in use

vars == <<conf, phase, stack, acc, used, m, labelUsed, last, top, nodes, spilled>>

C == Confs[conf]

-----------------------------------------------------------------------------
(* Types (btf.Type), with their size in cells.                              *)

Type(kind, size, to) == [kind |-> kind, size |-> size, to |-> to]
U64      == Type("int", 2, "none")
U32      == Type("int", 1, "none")
EnumT    == Type("enum", 1, "none")
Void     == Type("void", 0, "none")
Ptr(t)   == Type("ptr", 2, t)
Arr(t,n) == Type("array", n * t.size, t)
Struct(name, size) == Type("struct", size, name)

IsArray(t)   == t.kind = "array"
IsPtr(t)     == t.kind = "ptr"
Pointing(t)  == IsPtr(t) \/ IsArray(t)
SizeTo(t)    == IF Pointing(t) THEN t.to.size ELSE 0
Factor(size) == IF size = 0 THEN 1 ELSE size
canCalculate(t) == t.kind \in {"int", "enum", "ptr", "array"}

-----------------------------------------------------------------------------
(* Values (evalValue).  ref is what C says the value is, step the size by    *)
(* which C's pointer arithmetic steps, 0 for an integer; odd the departures, *)
(* null whether C dereferences a null pointer to get here, late whether the  *)
(* register is one that the program may leave before it writes.              *)

Value(typ, v, t, bits, ref) ==
  [typ |-> typ, v |-> v, t |-> t, bits |-> bits, ref |-> ref,
   step |-> SizeTo(t), odd |-> {}, null |-> FALSE, late |-> FALSE]

Number(n)   == Value("num", n, Void, 0, n)
EnumName(n) == Value("enum", n, Void, 0, n)

\* A value that is put into a register of its own.
Loaded(r, t, bits, ref) == [Value("reg", r, t, bits, ref) EXCEPT !.late = labelUsed]

IsNum(e) == e.typ = "num"
IsReg(e) == e.typ = "reg"
BothNum(l, r) == IsNum(l) /\ IsNum(r)
BothReg(l, r) == IsReg(l) /\ IsReg(r)
NumReg(l, r)  == IsNum(l) /\ IsReg(r)
RegNum(l, r)  == IsReg(l) /\ IsNum(r)

RegOf(e)  == IF IsReg(e) THEN {e.v} ELSE {}
LiveRegs  == UNION {RegOf(stack[i]) : i \in DOMAIN stack}
Reserved == IF C.kind = "filter" THEN {ArgsReg} ELSE {8, ArgsReg}
ReservedStack == IF C.kind = "filter" THEN 1 ELSE 2

\* adjustNum: a constant takes the size of the register it meets
adjustNum(n, e) ==
  IF ~IsReg(e) THEN n
  ELSE IF e.bits # 0 THEN n % (2 ^ e.bits)
  ELSE IF e.t.size = 1 THEN n % Low ELSE n

-----------------------------------------------------------------------------
(* Operators: the instructions of each, and which operand's register has    *)
(* the result.  The registers of the other operands are freed.              *)

Result(keep, n, code) == [keep |-> keep, n |-> n, code |-> code]
Left(code)  == Result("left", 0, code)
Right(code) == Result("right", 0, code)
New(code)   == Result("new", 0, code)    \* in a register of its own
Num(n)      == Result("num", n, <<>>)
Fail        == Result("fail", 0, <<>>)
Crash       == Result("crash", 0, <<>>)

BoolToInt(b) == IF b THEN 1 ELSE 0

\* An operator named x_what is x with the fault "what", which a property rules out.

\* 1, or 0 for a jump over two instructions
emitReg2bool_far(r) == <<AluImm("mov", r, 1), Ja(2), AluReg("xor", r, r)>>
emitReg2bool(r) == <<AluImm("mov", r, 1), Ja(1), AluReg("xor", r, r)>>

add(l, r) ==
  CASE BothNum(l, r) -> Num((l.v + r.v) % Word)
    [] BothReg(l, r) ->
         Left((IF SizeTo(l.t) # 0 THEN <<AluImm("mul", r.v, SizeTo(l.t))>> ELSE <<>>)
                \o <<AluReg("add", l.v, r.v)>>)
    [] NumReg(l, r) ->
         Right(IF l.v = 0 THEN <<>> ELSE <<AluImm("add", r.v, l.v * Factor(SizeTo(r.t)))>>)
    [] RegNum(l, r) ->
         Left(IF r.v = 0 THEN <<>> ELSE <<AluImm("add", l.v, r.v * Factor(SizeTo(l.t)))>>)

sub(l, r) ==
  CASE BothNum(l, r) -> Num((l.v - r.v) % Word)
    [] NumReg(l, r) ->
         IF Pointing(r.t) THEN Fail
         ELSE Right(IF l.v = 0 THEN <<AluImm("neg", r.v, 0)>> ELSE <<AluImm("sub", r.v, l.v)>>)
    [] RegNum(l, r) ->
         Left(IF r.v = 0 THEN <<>> ELSE <<AluImm("sub", l.v, r.v * Factor(SizeTo(l.t)))>>)
    [] BothReg(l, r) ->
         Left((IF SizeTo(l.t) # 0 THEN <<AluImm("mul", r.v, SizeTo(l.t))>> ELSE <<>>)
                \o <<AluReg("sub", l.v, r.v)>>)

mul(l, r) ==
  LET ByNum(n, code) == IF n = 0 THEN Num(0) ELSE code
  IN  CASE BothNum(l, r) -> Num((l.v * r.v) % Word)
        [] BothReg(l, r) -> Left(<<AluReg("mul", l.v, r.v)>>)
        [] NumReg(l, r) -> ByNum(l.v, Right(IF l.v = 1 THEN <<>> ELSE <<AluImm("mul", r.v, l.v)>>))
        [] RegNum(l, r) -> ByNum(r.v, Left(IF r.v = 1 THEN <<>> ELSE <<AluImm("mul", l.v, r.v)>>))

Quotient(a, b) ==
  LET Size(w) == IF Signed(w) < 0 THEN -Signed(w) ELSE w
      q == Size(a) \div Size(b)
  IN  (IF (Signed(a) < 0) # (Signed(b) < 0) THEN -q ELSE q) % Word

div(l, r, z) ==
  IF IsNum(r) /\ r.v = 0 THEN Fail
  ELSE CASE BothNum(l, r) -> Num(Quotient(l.v, r.v))
         [] NumReg(l, r) -> New(<<JmpOff("jeq", r.v, 0, 2), AluImm("mov", z, 0), Ja(2),
                                  AluImm("mov", z, l.v), AluReg("div", z, r.v)>>)
         [] RegNum(l, r) -> Left(<<AluImm("div", l.v, r.v)>>)
         [] BothReg(l, r) -> Left(<<JmpOff("jeq", r.v, 0, 2), AluImm("mov", l.v, 0), Ja(1),
                                    AluReg("div", l.v, r.v)>>)

mod_guarded(l, r, z) ==
  IF IsNum(r) /\ r.v = 0 THEN Fail
  ELSE CASE BothNum(l, r) -> Num((Signed(l.v) - Signed(Quotient(l.v, r.v)) * Signed(r.v)) % Word)
         [] NumReg(l, r) -> New(<<JmpOff("jeq", r.v, 0, 2), AluImm("mov", z, l.v), AluReg("mod", z, r.v)>>)
         [] IsReg(l) -> Left(<<>>)

mod(l, r, z) ==
  IF IsNum(r) /\ r.v = 0 THEN Fail
  ELSE CASE BothNum(l, r) -> Num((Signed(l.v) - Signed(Quotient(l.v, r.v)) * Signed(r.v)) % Word)
         [] NumReg(l, r) ->
              IF l.v = 0 THEN Num(0) ELSE New(<<AluImm("mov", z, l.v), AluReg("mod", z, r.v)>>)
         [] RegNum(l, r) ->
              Left(IF r.v = 1 THEN <<AluImm("mov", l.v, 0)>> ELSE <<AluImm("mod", l.v, r.v)>>)
         [] BothReg(l, r) -> Left(<<JmpOff("jeq", r.v, 0, 1), AluReg("mod", l.v, r.v)>>)

\* A shift of a register by a register: lsh skips a count of 0.
lsh(l, r, z) ==
  CASE BothNum(l, r) ->
         IF Signed(r.v) < 0 THEN Crash
         ELSE Num(IF r.v \in Shifts THEN (l.v * 2 ^ r.v) % Word ELSE 0)
    [] NumReg(l, r) ->
         IF l.v = 0 THEN Num(0) ELSE New(<<AluImm("mov", z, l.v), AluReg("lsh", z, r.v)>>)
    [] RegNum(l, r) ->
         IF Signed(r.v) < 0 THEN Fail
         ELSE Left(IF r.v = 0 THEN <<>> ELSE <<AluImm("lsh", l.v, r.v)>>)
    [] BothReg(l, r) -> Left(<<JmpOff("jle", r.v, 0, 1), AluReg("lsh", l.v, r.v)>>)

rsh(l, r, z) ==
  CASE BothNum(l, r) ->
         IF Signed(r.v) < 0 THEN Crash
         ELSE Num((Signed(l.v) \div 2 ^ (IF r.v \in Shifts THEN r.v ELSE 2 * Half)) % Word)
    [] NumReg(l, r) ->
         IF l.v = 0 THEN Num(0) ELSE New(<<AluImm("mov", z, l.v), AluReg("rsh", z, r.v)>>)
    [] RegNum(l, r) ->
         IF Signed(r.v) < 0 THEN Fail
         ELSE Left(IF r.v = 0 THEN <<>> ELSE <<AluImm("rsh", l.v, r.v)>>)
    [] BothReg(l, r) -> Left(<<AluReg("rsh", l.v, r.v)>>)

and(l, r) ==
  CASE BothNum(l, r) -> Num(BitOp("and", l.v, r.v))
    [] BothReg(l, r) -> Left(<<AluReg("and", l.v, r.v)>>)
    [] NumReg(l, r) -> Right(<<AluImm("and", r.v, l.v)>>)
    [] RegNum(l, r) -> Left(<<AluImm("and", l.v, r.v)>>)

\* or and xor: with a constant 0 the result is that constant
or(l, r) ==
  CASE BothNum(l, r) -> Num(BitOp("or", l.v, r.v))
    [] BothReg(l, r) -> Left(<<AluReg("or", l.v, r.v)>>)
    [] NumReg(l, r) -> IF l.v = 0 THEN Num(0) ELSE Right(<<AluImm("or", r.v, l.v)>>)
    [] RegNum(l, r) -> IF r.v = 0 THEN Num(0) ELSE Left(<<AluImm("or", l.v, r.v)>>)

xor(l, r) ==
  CASE BothNum(l, r) -> Num(BitOp("xor", l.v, r.v))
    [] BothReg(l, r) -> Left(<<AluReg("xor", l.v, r.v)>>)
    [] NumReg(l, r) -> IF l.v = 0 THEN Num(0) ELSE Right(<<AluImm("xor", r.v, l.v)>>)
    [] RegNum(l, r) -> IF r.v = 0 THEN Num(0) ELSE Left(<<AluImm("xor", l.v, r.v)>>)

andand(l, r) ==
  LET ByNum(n, e, code) == IF n = 0 THEN Num(0) ELSE code
      ToBool(e) == <<JmpOff("jeq", e.v, 0, 2)>> \o emitReg2bool(e.v)
  IN  CASE BothNum(l, r) -> Num(BoolToInt(l.v # 0 /\ r.v # 0))
        [] BothReg(l, r) -> Left(<<JmpOff("jeq", l.v, 0, 3), JmpOff("jeq", r.v, 0, 2)>>
                                   \o emitReg2bool(l.v))
        [] NumReg(l, r) -> IF l.v = 0 THEN Num(0) ELSE Right(ToBool(r))
        [] RegNum(l, r) -> IF r.v = 0 THEN Num(0) ELSE Left(ToBool(l))

oror(l, r) ==
  LET ToBool(e) == <<JmpOff("jeq", e.v, 0, 2)>> \o emitReg2bool(e.v)
  IN  CASE BothNum(l, r) -> Num(BoolToInt(l.v # 0 \/ r.v # 0))
        [] BothReg(l, r) -> Left(<<JmpOff("jne", l.v, 0, 3), JmpOff("jne", r.v, 0, 2),
                                   AluReg("xor", l.v, l.v), Ja(1), AluImm("mov", l.v, 1)>>)
        [] NumReg(l, r) -> IF l.v # 0 THEN Num(1) ELSE Right(ToBool(r))
        [] RegNum(l, r) -> IF r.v # 0 THEN Num(1) ELSE Left(ToBool(l))

Comparisons == {"eqeq", "noteq", "gt", "gteq", "lt", "lteq"}

\* The jump past the 1: the comparison negated.
NegJump_swapped ==
  [eqeq |-> "jne", noteq |-> "jeq", gt |-> "jlt", gteq |-> "jle", lt |-> "jge", lteq |-> "jgt"]
NegJump == [eqeq |-> "jne", noteq |-> "jeq", gt |-> "jle", gteq |-> "jlt", lt |-> "jge", lteq |-> "jgt"]

Holds(op, a, b) ==
  CASE op = "eqeq"  -> a = b
    [] op = "noteq" -> a # b
    [] op = "gt"    -> a > b
    [] op = "gteq"  -> a >= b
    [] op = "lt"    -> a < b
    [] op = "lteq"  -> a <= b

compare(op, l, r) ==
  CASE BothNum(l, r) -> Num(BoolToInt(Holds(op, Signed(l.v), Signed(r.v))))
    [] NumReg(l, r)  -> Right(<<JmpOff(NegJump[op], r.v, l.v, 2)>> \o emitReg2bool(r.v))
    [] RegNum(l, r)  -> Left(<<JmpOff(NegJump[op], l.v, r.v, 2)>> \o emitReg2bool(l.v))
    [] BothReg(l, r) -> Left(<<JmpReg(NegJump[op], l.v, r.v, 2)>> \o emitReg2bool(l.v))

BinaryOps == Comparisons \cup {"add", "sub", "mul", "div", "mod", "lsh", "rsh", "and", "or",
                               "xor", "andand", "oror"}

binary(op, l, r, z) ==
  CASE op = "add" -> add(l, r)         [] op = "sub" -> sub(l, r)
    [] op = "mul" -> mul(l, r)         [] op = "div" -> div(l, r, z)
    [] op = "mod" -> mod(l, r, z)      [] op = "lsh" -> lsh(l, r, z)
    [] op = "rsh" -> rsh(l, r, z)      [] op = "and" -> and(l, r)
    [] op = "or"  -> or(l, r)          [] op = "xor" -> xor(l, r)
    [] op = "andand" -> andand(l, r)   [] op = "oror" -> oror(l, r)
    [] op \in Comparisons -> compare(op, l, r)

not(r) == <<JmpOff("jne", r, 0, 2)>> \o emitReg2bool(r)

UnaryOps == {"not", "minus", "twid", "preInc", "preDec"}

unary(op, e) ==
  IF IsReg(e)
  THEN IF op # "minus" /\ ~canCalculate(e.t) THEN Fail
       ELSE Left(CASE op = "not"    -> not(e.v)
                   [] op = "minus"  -> <<AluImm("neg", e.v, 0)>>
                   [] op = "twid"   -> <<AluImm("xor", e.v, Word - 1)>>
                   [] op = "preInc" -> <<AluImm("add", e.v, 1)>>
                   [] op = "preDec" -> <<AluImm("sub", e.v, 1)>>)
  ELSE IF IsNum(e)
  THEN Num(CASE op = "not"    -> BoolToInt(e.v = 0)
             [] op = "minus"  -> (Word - e.v) % Word
             [] op = "twid"   -> Word - 1 - e.v
             [] op = "preInc" -> (e.v + 1) % Word
             [] op = "preDec" -> (e.v - 1) % Word)
  ELSE Fail

-----------------------------------------------------------------------------
(* What C says, of unsigned 64-bit words: of signed ones for two constants. *)

InC(op, l, r) ==
  LET a == l.ref
      b == r.ref
      const == BothNum(l, r)
      S(w) == IF const THEN Signed(w) ELSE w
  IN  IF op = "andand" /\ a = 0 THEN 0
      ELSE IF op = "oror" /\ a \notin {0, Undef} THEN 1
      ELSE IF Undef \in {a, b} THEN Undef
      ELSE CASE op = "add" -> (a * (IF l.step = 0 THEN Factor(r.step) ELSE 1) + b * Factor(l.step)) % Word
             [] op = "sub" -> (a - b * Factor(l.step)) % Word
             [] op = "mul" -> (a * b) % Word
             [] op = "div" -> IF b = 0 THEN Undef ELSE IF const THEN Quotient(a, b) ELSE a \div b
             [] op = "mod" -> IF b = 0 THEN Undef
                              ELSE IF const THEN (Signed(a) - Signed(Quotient(a, b)) * Signed(b)) % Word
                              ELSE a % b
             [] op = "lsh" -> IF b \in Shifts THEN (a * 2 ^ b) % Word ELSE Undef
             [] op = "rsh" -> IF b \in Shifts THEN (S(a) \div 2 ^ b) % Word ELSE Undef
             [] op \in {"and", "or", "xor"} -> BitOp(op, a, b)
             [] op \in {"andand", "oror"} -> BoolToInt(b # 0)
             [] op \in Comparisons -> BoolToInt(Holds(op, S(a), S(b)))

InCUnary(op, e) ==
  IF e.ref = Undef THEN Undef
  ELSE CASE op = "not"    -> BoolToInt(e.ref = 0)
         [] op = "minus"  -> (Word - e.ref) % Word
         [] op = "twid"   -> Word - 1 - e.ref
         [] op = "preInc" -> (e.ref + Factor(e.step)) % Word
         [] op = "preDec" -> (e.ref - Factor(e.step)) % Word

\* C's pointer arithmetic: what the result steps by.
StepInC(op, l, r) == IF op \in {"add", "sub"} THEN (IF l.step # 0 THEN l.step ELSE r.step) ELSE 0

-----------------------------------------------------------------------------
(* Departures: where the source computes something else than C.             *)
(*   imm     a constant does not fit in 32 bits, after its conversion        *)
(*   zero    x | 0 and x ^ 0 are 0                                           *)
(*   mirror  "1 < x" is compiled as "x < 1", and "1 - x" as "x - 1"          *)
(*   div     a register divides by a register only when that is 0            *)
(*   stride  an operand is a pointer for C and not for the compiler, or the  *)
(*           other way round; the difference of two pointers; ++ of one      *)

Constant(l, r) == IF IsNum(l) THEN l.v ELSE r.v
Other(l, r)    == IF IsNum(l) THEN r ELSE l

Departs(d, op, l, r) ==
  LET mixed == NumReg(l, r) \/ RegNum(l, r)
      scale == IF op \in {"add", "sub"} THEN Factor(SizeTo(Other(l, r).t)) ELSE 1
  IN  CASE d = "imm" ->
             mixed /\ op \notin {"andand", "oror"}
               /\ Imm(Constant(l, r) * scale) # (Constant(l, r) * scale) % Word
        [] d = "zero"   -> op \in {"or", "xor"} /\ mixed /\ Constant(l, r) = 0
        [] d = "mirror" ->
             NumReg(l, r) /\ (op \in Comparisons \ {"eqeq", "noteq"} \/ (op = "sub" /\ l.v # 0))
        [] d = "div"    -> op = "div" /\ IsReg(r)
        [] d = "stride" ->
             op \in {"add", "sub"} /\
             IF mixed THEN scale # Factor(Other(l, r).step)
             ELSE BothReg(l, r) /\ (r.step # 0 \/ Factor(SizeTo(l.t)) # Factor(l.step))

Departures(op, l, r) ==
  {d \in {"imm", "zero", "mirror", "div", "stride"} : Departs(d, op, l, r)}

-----------------------------------------------------------------------------
(* eval, for all but memory accesses.                                       *)

NoAccess == [idx |-> -2]

Compiling == phase = "compile" /\ acc = NoAccess /\ nodes < C.nodes

\* The instructions of a node run; its value takes the place of its operands.
Emit(op, stk, regs, code) ==
  /\ stack' = stk
  /\ used' = regs
  /\ m' = Run(m, code, C.mem)
  /\ last' = IF code = <<>> THEN last ELSE Last(code)
  /\ top' = op
  /\ nodes' = nodes + 1
  /\ UNCHANGED <<conf, phase, acc, labelUsed, spilled>>

Stop(p) ==
  /\ phase' = p
  /\ UNCHANGED <<conf, stack, acc, used, m, labelUsed, last, top, nodes, spilled>>

Below(n) == SubSeq(stack, 1, Len(stack) - n)
Operand(n, i) == stack[Len(stack) - n + i]

\* cc.Number, and a name that is no variable: an enumerator, perhaps
EvalNumber ==
  /\ Compiling /\ Len(stack) < C.depth
  /\ \/ \E n \in C.nums  : Emit("number", Append(stack, Number(n)), used, <<>>)
     \/ \E n \in C.enums : Emit("name", Append(stack, EnumName(n)), used, <<>>)

\* cc.Name: a variable
EvalName ==
  /\ Compiling /\ Len(stack) < C.depth
  /\ \E i \in DOMAIN C.types :
       LET r == Alloc(used)
       IN  IF CanAlloc(used)
           THEN Emit("name", Append(stack, Loaded(r, C.types[i], 0, C.mem.args[i])),
                     used \cup {r}, <<LoadArg(r, i)>>)
           ELSE Stop("failed")

\* preHandleBinaryOp: an enumerator is one of the other operand's type
Prepared(e, other) ==
  IF e.typ = "enum" /\ IsReg(other) /\ other.t.kind = "enum" THEN Number(adjustNum(e.v, other))
  ELSE IF IsNum(e) THEN [e EXCEPT !.v = adjustNum(@, other),
                                  !.ref = IF @ = Undef THEN Undef ELSE adjustNum(@, other)]
  ELSE e

Calculable(e) == IsNum(e) \/ (IsReg(e) /\ canCalculate(e.t))

\* Which operands' registers an operator frees.
Freed_swapped(keep, l, r) ==
  CASE keep = "left" -> RegOf(l) [] keep = "right" -> RegOf(r) [] OTHER -> RegOf(l) \cup RegOf(r)
Freed(keep, l, r) ==
  CASE keep = "left" -> RegOf(r) [] keep = "right" -> RegOf(l) [] OTHER -> RegOf(l) \cup RegOf(r)

EvalBinary(op) ==
  /\ Compiling /\ Len(stack) >= 2
  /\ LET l == Prepared(Operand(2, 1), Operand(2, 2))
         r == Prepared(Operand(2, 2), Operand(2, 1))
         z == IF CanAlloc(used) THEN Alloc(used) ELSE ArgsReg
         res == IF Calculable(l) /\ Calculable(r) THEN binary(op, l, r, z) ELSE Fail
         e == CASE res.keep = "left"  -> l
                [] res.keep = "right" -> r
                [] res.keep = "new"   -> Loaded(z, r.t, 0, 0)
                [] OTHER              -> Number(res.n)
         val == [e EXCEPT !.ref = InC(op, l, r), !.step = StepInC(op, l, r),
                          !.odd = l.odd \cup r.odd \cup Departures(op, l, r),
                          !.null = l.null \/ r.null]
     IN  IF res.keep = "fail" \/ (res.keep = "new" /\ ~CanAlloc(used)) THEN Stop("failed")
         ELSE IF res.keep = "crash" THEN Stop("crashed")
         ELSE Emit(op, Append(Below(2), val), 
                   (used \ Freed(res.keep, l, r)) \cup (IF res.keep = "new" THEN {z} ELSE {}), res.code)

EvalUnary(op) ==
  /\ Compiling /\ Len(stack) >= 1
  /\ LET e == Operand(1, 1)
         res == unary(op, e)
         val == [(IF IsReg(e) THEN e ELSE Number(res.n))
                   EXCEPT !.ref = InCUnary(op, e), !.null = e.null,
                          !.odd = e.odd \cup (IF op \in {"preInc", "preDec"} /\ Factor(e.step) # 1
                                              THEN {"stride"} ELSE {}),
                          !.step = IF op \in {"preInc", "preDec"} THEN e.step ELSE 0]
     IN  IF res.keep = "fail" THEN Stop("failed")
         ELSE Emit(op, Append(Below(1), val), used, res.code)

\* cond: a constant condition leaves the register of the other operand in use.
\* (An enumerator as an operand would be taken for r0: no input has one.)
EvalCond ==
  /\ Compiling /\ Len(stack) >= 3
  /\ LET c == Operand(3, 1)
         l == Operand(3, 2)
         r == Operand(3, 3)
         Move(e) == IF IsReg(e) THEN AluReg("mov", c.v, e.v) ELSE AluImm("mov", c.v, e.v)
         code == <<JmpOff("jeq", c.v, 0, 2), Move(l), Ja(1), Move(r)>>
         long == \E e \in {l, r} : IsNum(e) /\ Imm(e.v) # e.v
         e == IF IsReg(c) THEN c ELSE IF c.v = 0 THEN r ELSE l
         val == [e EXCEPT !.ref = CASE c.ref = Undef -> Undef [] c.ref = 0 -> r.ref [] OTHER -> l.ref,
                          !.step = IF l.step # 0 THEN l.step ELSE r.step,
                          !.odd = c.odd \cup l.odd \cup r.odd \cup (IF IsReg(c) /\ long THEN {"imm"} ELSE {}),
                          !.null = c.null \/ l.null \/ r.null]
     IN  /\ \A x \in {c, l, r} : x.typ # "enum"
         /\ IF \A x \in {c, l, r} : Calculable(x)
            THEN IF IsReg(c)
                 THEN Emit("cond", Append(Below(3), val), used \ (RegOf(l) \cup RegOf(r)), code)
                 ELSE Emit("cond", Append(Below(3), val), used, <<>>)
            ELSE Stop("failed")

\* cc.Cast: the type changes, and no instruction is emitted; a constant is moved
\* into a register.
EvalCast(t) ==
  /\ Compiling /\ Len(stack) >= 1
  /\ LET e == Operand(1, 1)
         r == Alloc(used)
         val == [e EXCEPT !.typ = "reg", !.t = t, !.step = SizeTo(t),
                          !.ref = IF @ = Undef THEN Undef ELSE IF t.size = 1 THEN @ % Low ELSE @,
                          !.odd = @ \cup (IF t.size = 1 THEN {"cast"} ELSE {})
                                    \cup (IF IsNum(e) /\ Imm(e.v) # e.v THEN {"imm"} ELSE {})]
     IN  /\ e.typ # "enum"
         /\ IF IsReg(e) THEN Emit("cast", Append(Below(1), val), used, <<>>)
            ELSE IF CanAlloc(used)
            THEN Emit("cast", Append(Below(1), [val EXCEPT !.v = r, !.late = labelUsed]),
                      used \cup {r}, <<AluImm("mov", r, e.v)>>)
            ELSE Stop("failed")

-----------------------------------------------------------------------------
(* accessMemory: the offsets of a chain of members, indices and pointers.   *)
(* For C the chain so far is an object at address w (lv), or the value w.   *)

\* base: "var" and "number" (loaded into a register when the chain ends), or
\* "computed", whose value, in reg, has been evaluated.
Access(base, v, t, w, odd, null, late) ==
  [base |-> base, v |-> v, t |-> t, bits |-> 0, bit |-> 0, offsets |-> <<>>, lv |-> FALSE,
   w |-> w, odd |-> odd, null |-> null, late |-> late, steps |-> 0, ends |-> FALSE]

Load(a) ==
  IF IsArray(a.t) THEN a.w
  ELSE IF a.t.kind = "struct" THEN Undef
  ELSE IF a.bits # 0 THEN (ReadMem(C.mem, a.w, 1) \div 2 ^ a.bit) % 2 ^ a.bits
  ELSE ReadMem(C.mem, a.w, a.t.size)
InCAccess(a) == IF a.lv /\ a.w # Undef THEN Load(a) ELSE a.w

IsNull(w) == w # Undef /\ w < C.mem.null
Move(w, n) == IF w = Undef \/ IsNull(w) THEN Undef ELSE (w + n) % Word

\* The chain one step further: the pointer that it is, moved by n, points to an
\* object of type t (lv), or is a pointer of type t.
Moved(a, n, t, lv) ==
  LET p == InCAccess(a)
  IN  [a EXCEPT !.w = Move(p, n), !.lv = lv, !.t = t, !.bits = 0, !.null = @ \/ IsNull(p),
                !.steps = @ + 1, !.ends = lv]

\* An array that is pointed to is read like a scalar: a departure.
ReadAt(a, n, t) ==
  [Moved(a, n, t, TRUE) EXCEPT !.odd = @ \cup (IF IsArray(t) THEN {"array"} ELSE {})]

AddOffset(a, n, t, prev, address, inArray) ==
  [a EXCEPT !.offsets = Append(@, [offset |-> n, t |-> t, prev |-> prev,
                                   address |-> address, inArray |-> inArray])]

\* prevBtf: lastIdx is 0, not -1, for a constant that has no offset yet: a panic
CanPrev(a)  == ~(a.base = "number" /\ a.offsets = <<>>)
prevBtf(a)  == IF a.offsets = <<>> THEN Void ELSE Last(a.offsets).prev
LastOffset(a) == Len(a.offsets)

Accessing == phase = "compile" /\ acc # NoAccess /\ acc.steps < C.steps

Chain(a) ==
  /\ acc' = a
  /\ UNCHANGED <<conf, phase, stack, used, m, labelUsed, last, top, nodes, spilled>>

\* Where a chain begins: a variable, a cast of a constant, an operand that was
\* evaluated: x & y or x | y.
AccessVariable ==
  /\ Compiling /\ C.steps > 0 /\ Len(stack) < C.depth
  /\ \E i \in DOMAIN C.types : Chain(Access("var", i, C.types[i], C.mem.args[i], {}, FALSE, FALSE))

AccessNumber ==
  /\ Compiling /\ C.steps > 0 /\ Len(stack) < C.depth
  /\ \E n \in C.bases, t \in C.casts :
       /\ IsPtr(t)
       /\ Chain(Access("number", n, t, n, IF n = 0 \/ Imm(n) # n THEN {"base"} ELSE {}, FALSE, FALSE))

AccessComputed ==
  /\ Compiling /\ C.steps > 0 /\ Len(stack) >= 1 /\ top \in {"and", "or"}
  /\ LET e == Operand(1, 1)
     IN  IF ~IsReg(e) THEN Stop("failed")
         ELSE /\ acc' = Access("computed", e.v, e.t, e.ref,
                               e.odd \cup (IF SizeTo(e.t) = e.step THEN {} ELSE {"stride"}), e.null, e.late)
              /\ stack' = Below(1)
              /\ UNCHANGED <<conf, phase, used, m, labelUsed, last, top, nodes, spilled>>

\* cc.Dot and cc.Arrow: an arrow when the chain is a pointer.  The offset of a
\* member whose type is an array is that of an address.
AccessMember(name) ==
  /\ Accessing
  /\ LET arrow == IsPtr(acc.t)
         t == IF arrow THEN acc.t.to ELSE acc.t
     IN  IF acc.bits # 0 \/ t.kind # "struct" THEN Stop("failed")
         ELSE IF name \notin DOMAIN Members[t.to] \/ (~arrow /\ acc.offsets = <<>>) THEN Stop("failed")
         ELSE LET f == Members[t.to][name]
                  n == LastOffset(acc)
                  to == IF arrow
                        THEN AddOffset(Moved(acc, f.off, f.t, TRUE), f.off, f.t, acc.t, IsArray(f.t), FALSE)
                        ELSE [acc EXCEPT !.w = IF @ = Undef THEN @ ELSE (@ + f.off) % Word, !.t = f.t,
                                         !.steps = @ + 1, !.ends = TRUE, !.offsets[n].offset = @ + f.off,
                                         !.offsets[n].t = f.t,
                                         !.offsets[n].address = @ \/ IsArray(f.t)]
              IN  Chain([to EXCEPT !.bits = f.bits, !.bit = f.bit])

\* cc.Index, with a constant index
AccessIndex(i) ==
  /\ Accessing
  /\ IF acc.bits # 0 \/ SizeTo(acc.t) = 0 THEN Stop("failed")
     ELSE IF ~CanPrev(acc) THEN Stop("crashed")
     ELSE LET n == i * acc.t.to.size
          IN  Chain(AddOffset(ReadAt(acc, n, acc.t.to), n, acc.t.to, prevBtf(acc), FALSE, IsArray(acc.t)))

\* cc.Add and cc.Sub of a constant: "+ 0" is nothing
AccessAdd(n) ==
  /\ Accessing /\ acc.t.kind # "struct"
  /\ IF acc.bits # 0 \/ (n # 0 /\ ~Pointing(acc.t)) THEN Stop("failed")
     ELSE IF n = 0 THEN Chain([acc EXCEPT !.w = InCAccess(acc), !.lv = FALSE, !.steps = @ + 1, !.ends = FALSE])
     ELSE IF ~CanPrev(acc) THEN Stop("crashed")
     ELSE LET d == n * Factor(SizeTo(acc.t))
              t == IF IsArray(acc.t) THEN Ptr(acc.t.to) ELSE acc.t
          IN  Chain(AddOffset(Moved(acc, d, t, FALSE), d, t, prevBtf(acc), TRUE, FALSE))

\* cc.Addr, of what C takes the address of
AccessAddr ==
  /\ Accessing /\ acc.lv /\ acc.bits = 0
  /\ Chain([acc EXCEPT !.lv = FALSE, !.t = Ptr(@), !.steps = @ + 1, !.ends = TRUE,
                       !.offsets[LastOffset(acc)].address = TRUE,
                       !.offsets[LastOffset(acc)].t = Ptr(acc.t)])

\* cc.Cast, in a chain: what is read is as large as the new type
AccessCast(t) ==
  /\ Accessing /\ acc.t.kind # "struct"
  /\ LET w == InCAccess(acc)
         wider == ~IsArray(acc.t) /\ t.size > acc.t.size
         to == [acc EXCEPT !.w = IF w = Undef THEN Undef ELSE IF t.size = 1 THEN w % Low ELSE w,
                           !.lv = FALSE, !.t = t, !.bits = 0, !.steps = @ + 1, !.ends = FALSE,
                           !.odd = @ \cup (IF acc.bits # 0 \/ wider THEN {"cast"} ELSE {})]
     IN  Chain(IF acc.offsets = <<>> THEN to ELSE [to EXCEPT !.offsets[LastOffset(acc)].t = t])

\* cc.Indir
AccessIndir ==
  /\ Accessing
  /\ IF acc.bits # 0 \/ ~IsPtr(acc.t) THEN Stop("failed")
     ELSE Chain(AddOffset(ReadAt(acc, 0, acc.t.to), 0, acc.t.to, acc.t, FALSE, FALSE))

-----------------------------------------------------------------------------
(* offset2insns and access: the chain is compiled.                          *)

If(b, code) == IF b THEN code ELSE <<>>

\* bpf_probe_read_kernel(fp - 8, 8, r3), from the address in r3
ProbeCall == <<AluImm("mov", 2, 2), Frame(1), ProbeRead>>

probeRead_checked(o, isLast, reg) ==
  If(o.offset # 0, <<AluImm("add", 3, o.offset)>>) \o
  IF o.address THEN If(isLast /\ reg # 3, <<AluReg("mov", reg, 3)>>)
  ELSE ProbeCall \o <<Fill(3, BufSlot), JmpOff("jeq", 3, 0, ToExit)>>
         \o If(isLast, <<Fill(reg, BufSlot)>>)

probeRead(o, isLast, reg) ==
  If(o.offset # 0, <<AluImm("add", 3, o.offset)>>) \o
  IF o.address THEN If(isLast /\ reg # 3, <<AluReg("mov", reg, 3)>>)
  ELSE ProbeCall \o (IF isLast THEN <<Fill(reg, BufSlot)>>
                     ELSE <<Fill(3, BufSlot), JmpOff("jeq", 3, 0, ToExit)>>)

canRdonlyCast(t)       == IsPtr(t) /\ t.to.kind = "struct"
canReadByRdonlyCast(t) == t.kind \in {"ptr", "int", "enum"}
ByCast(o) == canRdonlyCast(o.prev) /\ canReadByRdonlyCast(o.t) /\ ~o.inArray

\* coreReadByProbeRead is not told the offset
coreReadByProbeRead(isLast, reg) ==
  <<AluReg("mov", 3, 1)>> \o ProbeCall \o <<Fill(IF isLast THEN reg ELSE 1, BufSlot)>>

coreRead(o, isLast, reg) ==
  IF o.address
  THEN If(o.offset # 0, <<AluImm("add", 1, o.offset)>>)
         \o If(isLast /\ reg # 1, <<AluReg("mov", reg, 1)>>)
  ELSE IF ~ByCast(o) THEN coreReadByProbeRead(isLast, reg)
  ELSE <<AluImm("mov", 2, 1), RdonlyCast(IF C.fast THEN 2 ELSE 5),
         LoadMem(IF isLast THEN reg ELSE 1, 0, o.offset, IF o.t.size = 1 THEN 1 ELSE 2)>>
         \o If(~isLast, <<JmpOff("jeq", 1, 0, ToExit)>>)

AllAddress(a) == \A i \in DOMAIN a.offsets : a.offsets[i].address
Core == C.mode = "core"
Pushed == IF Core /\ C.fast THEN 2 ELSE 5

readInsn(a, i, reg) ==
  LET isLast == i = LastOffset(a)
  IN  IF Core THEN coreRead(a.offsets[i], isLast, reg) ELSE probeRead(a.offsets[i], isLast, reg)

readInsns(a, reg) ==
  LET reads[i \in 0..LastOffset(a)] == IF i = 0 THEN <<>> ELSE reads[i - 1] \o readInsn(a, i, reg)
  IN  reads[LastOffset(a)]

offset2insns(a, reg, regs) ==
  LET in == IF Core THEN 1 ELSE 3
  IN  IF AllAddress(a) THEN [i \in 1..LastOffset(a) |-> AluImm("add", reg, a.offsets[i].offset)]
      ELSE PushUsed(regs, Pushed, ReservedStack) \o If(reg # in, <<AluReg("mov", in, reg)>>)
             \o readInsns(a, reg) \o PopUsed(regs, Pushed, ReservedStack)

\* bitfield2insns and adjustRegisterBitwise: what was read is cut to its size
cut2insns(a, reg) ==
  IF a.bits # 0
  THEN If(a.bit # 0, <<AluImm("rsh", reg, a.bit)>>) \o <<AluImm("and", reg, 2 ^ a.bits - 1)>>
  ELSE If(a.t.size = 1, <<AluImm("lsh", reg, Half), AluImm("rsh", reg, Half)>>)

\* The other departures:
\*   base      a constant base address of 0, or of more than 32 bits
\*   cast      a chain reads what a cast widens, or a bitfield; a narrowing cast
\*             of a value narrows nothing
\*   fallback  coreReadByProbeRead reads at the pointer, not at the offset
\*   array     an array that is pointed to is read, when its value is its
\*             address; an address is cut to the size of an array of 4 bytes
AccessDepartures(a) ==
  a.odd \cup (IF a.bits = 0 /\ IsArray(a.t) /\ a.t.size = 1 THEN {"array"} ELSE {})
        \cup (IF Core /\ ~AllAddress(a)
                 /\ \E i \in DOMAIN a.offsets : LET o == a.offsets[i]
                                                IN  ~o.address /\ ~ByCast(o) /\ o.offset # 0
              THEN {"fallback"} ELSE {})

\* Of the calls that a chain makes, the registers lost: all of r0 to r5 to a helper.
Lost(a) == IF AllAddress(a) THEN {}
           ELSE IF Core /\ C.fast /\ \A i \in DOMAIN a.offsets : a.offsets[i].address \/ ByCast(a.offsets[i])
           THEN 0..2 ELSE 0..5

AccessDone ==
  /\ phase = "compile" /\ acc # NoAccess /\ acc.ends
  /\ IF acc.base # "computed" /\ ~CanAlloc(used) THEN Stop("failed")
     ELSE LET n == LastOffset(acc)
              reg == IF acc.base = "computed" THEN acc.v ELSE Alloc(used)
              regs == used \cup {reg}
              base == CASE acc.base = "var"      -> <<LoadArg(reg, acc.v)>>
                        [] acc.base = "number"   -> <<IF acc.v = 0 THEN LoadArg(reg, 1)
                                                      ELSE AluImm("mov", reg, acc.v)>>
                        [] acc.base = "computed" -> <<>>
              code == base \o offset2insns(acc, reg, regs) \o cut2insns(acc, reg)
              val == [Loaded(reg, acc.t, acc.bits, InCAccess(acc))
                        EXCEPT !.odd = AccessDepartures(acc), !.null = acc.null,
                               !.late = IF acc.base = "computed" THEN acc.late ELSE @]
          IN  /\ stack' = Append(stack, val)
              /\ used' = regs
              /\ m' = Run(m, code, C.mem)
              /\ last' = IF code = <<>> THEN last ELSE Last(code)
              /\ top' = "access"
              /\ nodes' = nodes + 1
              /\ acc' = NoAccess
              /\ labelUsed' = (labelUsed \/ \E i \in DOMAIN code : code[i].op = "jeq" /\ code[i].off = ToExit)
              /\ spilled' = (spilled \/ regs \cap Lost(acc) # {})
              /\ UNCHANGED <<conf, phase>>

-----------------------------------------------------------------------------
(* The whole program: CompileFilterExpr and CompileEvalExpr.                *)

FilterOps == Comparisons \cup {"andand", "oror", "not"}

\* compile: the label of the exit is on the last instruction, and r0 is the result
EndFilter(reg) ==
  LET landed == IF m.exit /\ labelUsed THEN Run([m EXCEPT !.exit = FALSE], <<last>>, C.mem) ELSE m
      result == Run([landed EXCEPT !.exit = FALSE, !.skip = 0], <<AluReg("mov", 0, reg)>>, C.mem)
  IN  [result EXCEPT !.exit = m.exit]

Finish ==
  /\ phase = "compile" /\ acc = NoAccess /\ Len(stack) = 1 /\ stack[1].typ # "enum"
  /\ LET e == stack[1]
     IN  IF ~IsReg(e) \/ (C.kind = "filter" /\ top \notin FilterOps) THEN Stop("failed")
         ELSE /\ phase' = "done"
              /\ m' = IF C.kind = "filter" THEN EndFilter(e.v) ELSE m
              /\ UNCHANGED <<conf, stack, acc, used, labelUsed, last, top, nodes, spilled>>

Init ==
  /\ conf \in DOMAIN Confs
  /\ phase = "compile" /\ stack = <<>> /\ acc = NoAccess
  /\ used = Reserved
  /\ m = Machine([r \in Registers |-> IF r = ArgsReg \/ (C.kind = "filter" /\ r = 1)
                                         \/ (C.kind = "output" /\ r \in {2, 8}) THEN 0 ELSE Junk])
  /\ labelUsed = FALSE /\ last = Ja(0) /\ top = "none" /\ nodes = 0 /\ spilled = FALSE

Next ==
  \/ EvalNumber \/ EvalName \/ ("cond" \in C.ops /\ EvalCond)
  \/ \E op \in C.ops \cap BinaryOps : EvalBinary(op)
  \/ \E op \in C.ops \cap UnaryOps : EvalUnary(op)
  \/ AccessVariable \/ AccessNumber \/ AccessComputed \/ AccessAddr \/ AccessIndir
  \/ \E name \in C.members : AccessMember(name)
  \/ \E i \in C.indices : AccessIndex(i)
  \/ \E n \in C.deltas : AccessAdd(n)
  \/ \E t \in C.casts : AccessCast(t) \/ EvalCast(t)
  \/ AccessDone \/ Finish

Spec == Init /\ [][Next]_vars

-----------------------------------------------------------------------------
(* Properties.                                                              *)

\* A value is a register that the compiler allocates or a word, registers hold
\* words, and the instructions of a node leave nothing to skip: the jumps of each
\* operator and access land in its own code or behind it (expr.go, eval.go).
TypeOK ==
  /\ conf \in DOMAIN Confs
  /\ phase \in {"compile", "done", "failed", "crashed"}
  /\ \A i \in DOMAIN stack :
       /\ stack[i].v \in IF IsReg(stack[i]) THEN Allocatable ELSE Words
       /\ stack[i].ref \in Words \cup {Undef}
  /\ used \subseteq Registers
  /\ m.regs \in [Registers -> Words \cup {Junk}]
  /\ m.skip = 0
  /\ labelUsed \in BOOLEAN /\ spilled \in BOOLEAN

Values == {stack[i] : i \in DOMAIN stack}

\* A register holds one value: no two values that await their operator share one,
\* each is marked as used, and none is r9 (the arguments) or r8 (the buffer of an
\* output), which the rest of the program relies on (register.go, eval.go).
RegsOwned ==
  /\ \A i, j \in DOMAIN stack :
       IsReg(stack[i]) /\ IsReg(stack[j]) /\ stack[i].v = stack[j].v => i = j
  /\ LiveRegs \subseteq used \ Reserved
  /\ acc # NoAccess /\ acc.base = "computed" => acc.v \in used \ (Reserved \cup LiveRegs)

\* The program computes what the expression says: once the instructions emitted
\* so far have run, each value's register holds the C value of its
\* subexpression, and each folded constant is that value.  The departures are
\* the only exceptions, with a program that left by the exit label and a call
\* that lost a register in use (eval.go, memory_access.go).
ValueExact ==
  ~m.exit /\ ~m.bad /\ ~spilled =>
    \A e \in Values :
      e.odd = {} /\ e.ref # Undef => e.ref = IF IsReg(e) THEN m.regs[e.v] ELSE e.v

\* No instruction reads a register before it is written: every path that a jump
\* opens writes what the code after it reads, and the code around a call saves
\* and restores what it must, as long as only values in r6 to r8 live across it.
\* At the exit label, the one exception is a result whose register is written only
\* after a jump to it: of a constant divided by a register, or what remains when a
\* constant decides the other operand (eval.go, expr.go).
NoUninit == m.bad => spilled \/ (phase = "done" /\ m.exit /\ stack[1].late)

\* A filter that leaves by the exit label rejects the event, unless the whole
\* expression is "||" (expr.go).
ExitRejects ==
  phase = "done" /\ m.exit /\ ~m.bad /\ C.kind = "filter" => m.regs[0] = 0 \/ top = "oror"

\* The program leaves by the exit label only for a null pointer that the
\* expression dereferences, and a filter then rejects (bpf_probe_read.go, expr.go).
ExitJustified ==
  /\ m.exit /\ ~spilled => \E e \in Values \cup ({acc} \ {NoAccess}) : e.null \/ e.odd # {}
  /\ ExitRejects

\* With core reads too, an access reads what C says: the element of an array,
\* and not the first one (memory_access.go: "skb->cb[3] ==> *(skb->cb + 3)").
ElementExact ==
  ~m.exit /\ ~m.bad /\ ~spilled /\ top = "access" =>
    LET e == stack[Len(stack)]
    IN  e.odd \subseteq {"fallback"} /\ e.ref # Undef => m.regs[e.v] = e.ref
=============================================================================
