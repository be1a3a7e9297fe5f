------------------------- MODULE CcCompiler_proofs -------------------------
(***************************************************************************)
(* Proofs about CcCompiler, for every word size, configuration, expression *)
(* and chain of accesses: that registers are kept apart (RegInv), and that *)
(* no instruction reads what was not written (CompInv and HeldInv).        *)
(*                                                                         *)
(* After the allocation of registers come the machine (words, what code    *)
(* written in sequence does, code whose jumps stay in it), the code of the *)
(* operators (Work: over registers that hold words), the code of a chain   *)
(* (Fine: what a place holds before and after it), what values and chains  *)
(* may be, and then the steps.                                             *)
(***************************************************************************)
EXTENDS CcCompiler, FiniteSetTheorems, SequenceTheorems, WellFoundedInduction, TLAPS

\* A value has the fields of evalValue and those the specification adds.
IsValue(e) ==
  e = [typ |-> e.typ, v |-> e.v, t |-> e.t, bits |-> e.bits, ref |-> e.ref,
       step |-> e.step, odd |-> e.odd, null |-> e.null, late |-> e.late]

\* The base of the chain under construction, of which a step changes nothing.
IsAccess(a) == {"base", "v"} \subseteq DOMAIN a

Fresh(r) == r \in used \ Reserved

\* RegsOwned, by the places of the values; the registers the rest of the program
\* relies on are never free.
RegInv ==
  /\ stack \in Seq(Values)
  /\ \A i \in 1..Len(stack) : IsValue(stack[i])
  /\ Reserved \subseteq used
  /\ \A i \in 1..Len(stack) : IsReg(stack[i]) => Fresh(stack[i].v)
  /\ \A i, j \in 1..Len(stack) :
       IsReg(stack[i]) /\ IsReg(stack[j]) /\ stack[i].v = stack[j].v => i = j
  /\ acc # NoAccess => IsAccess(acc)
  /\ acc # NoAccess /\ acc.base = "computed" =>
       /\ Fresh(acc.v)
       /\ \A i \in 1..Len(stack) : IsReg(stack[i]) => stack[i].v # acc.v

-----------------------------------------------------------------------------
(* The allocator.                                                          *)

\* Alloc returns a register that is not used, if there is one.
LEMMA AllocFree ==
  ASSUME CanAlloc(used) PROVE Alloc(used) \in Allocatable \ used
<1> DEFINE F == Allocatable \ used
<1> DEFINE Top(r) == r \in F /\ \A s \in F : s <= r
<1>1. F # {} /\ F \subseteq 0..8
  BY DEF CanAlloc, Allocatable
<1>2. \E r \in F : \A s \in F : s <= r
  <2>1. CASE 8 \in F  BY <2>1, <1>1
  <2>2. CASE 8 \notin F /\ 7 \in F  BY <2>2, <1>1
  <2>3. CASE 8 \notin F /\ 7 \notin F /\ 6 \in F  BY <2>3, <1>1
  <2>4. CASE F \subseteq 0..5 /\ 5 \in F  BY <2>4, <1>1
  <2>5. CASE F \subseteq 0..4 /\ 4 \in F  BY <2>5, <1>1
  <2>6. CASE F \subseteq 0..3 /\ 3 \in F  BY <2>6, <1>1
  <2>7. CASE F \subseteq 0..2 /\ 2 \in F  BY <2>7, <1>1
  <2>8. CASE F \subseteq 0..1 /\ 1 \in F  BY <2>8, <1>1
  <2>9. CASE F \subseteq {0}  BY <2>9, <1>1
  <2> QED BY <1>1, <2>1, <2>2, <2>3, <2>4, <2>5, <2>6, <2>7, <2>8, <2>9
<1>3. PICK r \in F : \A s \in F : s <= r
  BY <1>2
<1>4. Alloc(used) = CHOOSE x \in F : \A s \in F : s <= x
  BY DEF Alloc
<1> QED BY <1>3, <1>4

\* The reserved registers are used from the start.
LEMMA AllocFresh ==
  ASSUME CanAlloc(used), Reserved \subseteq used
  PROVE  /\ Alloc(used) \notin used
         /\ Alloc(used) \notin Reserved
BY AllocFree

-----------------------------------------------------------------------------
(* Operators.                                                              *)

Operable(e) == IsNum(e) \/ IsReg(e)

\* An operator that keeps an operand's register has it.
Kept(res, l, r) ==
  /\ res.keep \in {"left", "right", "new", "num", "fail", "crash"}
  /\ res.keep = "left" => IsReg(l)
  /\ res.keep = "right" => IsReg(r)

\* What becomes of a result, by whose register it keeps.
LEMMA ResultKept ==
  ASSUME NEW l, NEW r, NEW n, NEW code
  PROVE  /\ IsReg(l) => Kept(Left(code), l, r)
         /\ IsReg(r) => Kept(Right(code), l, r)
         /\ Kept(New(code), l, r) /\ Kept(Num(n), l, r)
         /\ Kept(Fail, l, r) /\ Kept(Crash, l, r)
BY DEF Kept, Left, Right, New, Num, Fail, Crash, Result

\* So it is for each operator of two operands.
LEMMA BinaryKept ==
  ASSUME NEW op \in BinaryOps, NEW l, NEW r, NEW z, Operable(l), Operable(r)
  PROVE  Kept(binary(op, l, r, z), l, r)
<1> USE ResultKept
<1>k. \/ BothNum(l, r) /\ ~BothReg(l, r) /\ ~NumReg(l, r) /\ ~RegNum(l, r)
      \/ BothReg(l, r) /\ ~BothNum(l, r) /\ ~NumReg(l, r) /\ ~RegNum(l, r) /\ IsReg(l) /\ IsReg(r)
      \/ NumReg(l, r) /\ ~BothNum(l, r) /\ ~BothReg(l, r) /\ ~RegNum(l, r) /\ IsReg(r)
      \/ RegNum(l, r) /\ ~BothNum(l, r) /\ ~BothReg(l, r) /\ ~NumReg(l, r) /\ IsReg(l)
  BY DEF Operable, BothNum, BothReg, NumReg, RegNum, IsNum, IsReg
<1>1. Kept(add(l, r), l, r)  BY <1>k DEF add
<1>2. Kept(sub(l, r), l, r)  BY <1>k DEF sub
<1>3. Kept(mul(l, r), l, r)  BY <1>k DEF mul
<1>4. Kept(div(l, r, z), l, r)  BY <1>k DEF div
<1>5. Kept(mod(l, r, z), l, r)  BY <1>k DEF mod
<1>6. Kept(lsh(l, r, z), l, r)  BY <1>k DEF lsh
<1>7. Kept(rsh(l, r, z), l, r)  BY <1>k DEF rsh
<1>8. Kept(and(l, r), l, r)  BY <1>k DEF and
<1>9. Kept(or(l, r), l, r)  BY <1>k DEF or
<1>10. Kept(xor(l, r), l, r)  BY <1>k DEF xor
<1>11. Kept(andand(l, r), l, r)  BY <1>k DEF andand
<1>12. Kept(oror(l, r), l, r)  BY <1>k DEF oror
<1>13. Kept(compare(op, l, r), l, r)  BY <1>k DEF compare
<1>14. binary(op, l, r, z) \in {add(l, r), sub(l, r), mul(l, r), div(l, r, z), mod(l, r, z),
         lsh(l, r, z), rsh(l, r, z), and(l, r), or(l, r), xor(l, r), andand(l, r), oror(l, r),
         compare(op, l, r)}
  BY DEF binary, BinaryOps, Comparisons
<1> QED
  BY <1>1, <1>2, <1>3, <1>4, <1>5, <1>6, <1>7, <1>8, <1>9, <1>10, <1>11, <1>12, <1>13, <1>14

\* A constant that takes the type of the other operand stays a constant.
LEMMA PreparedSame ==
  ASSUME NEW e, NEW other, IsValue(e)
  PROVE  /\ IsValue(Prepared(e, other))
         /\ IsReg(Prepared(e, other)) <=> IsReg(e)
         /\ IsReg(e) => Prepared(e, other) = e
<1>1. CASE e.typ = "enum" /\ IsReg(other) /\ other.t.kind = "enum"
  BY <1>1 DEF Prepared, IsValue, IsReg, Number, Value
<1>2. CASE ~(e.typ = "enum" /\ IsReg(other) /\ other.t.kind = "enum") /\ IsNum(e)
  <2>1. PICK w : w = adjustNum(e.v, other)
    OBVIOUS
  <2>2. PICK u : u = IF e.ref = Undef THEN Undef ELSE adjustNum(e.ref, other)
    OBVIOUS
  <2>3. Prepared(e, other) = [e EXCEPT !.v = w, !.ref = u]
    BY <1>2, <2>1, <2>2 DEF Prepared, IsValue
  <2> QED BY <1>2, <2>3 DEF IsValue, IsReg, IsNum
<1>3. CASE ~(e.typ = "enum" /\ IsReg(other) /\ other.t.kind = "enum") /\ ~IsNum(e)
  BY <1>3 DEF Prepared
<1> QED BY <1>1, <1>2, <1>3

\* Values are records of one shape, and a field at a time changes.
LEMMA ValueShape ==
  ASSUME NEW typ, NEW v, NEW t, NEW bits, NEW ref
  PROVE  IsValue(Value(typ, v, t, bits, ref)) /\ Value(typ, v, t, bits, ref).typ = typ
           /\ Value(typ, v, t, bits, ref).v = v
BY DEF IsValue, Value

\* What C says of a value changes neither its kind nor its register.
Alike(e, y) == IsValue(e) /\ e.typ = y.typ /\ e.v = y.v

\* Setting a field leaves the others what they are.
LEMMA FieldSet ==
  ASSUME NEW y, NEW e, NEW x, IsValue(y),
         \/ e = [y EXCEPT !.ref = x] \/ e = [y EXCEPT !.step = x]
         \/ e = [y EXCEPT !.odd = x] \/ e = [y EXCEPT !.null = x] \/ e = [y EXCEPT !.late = x]
  PROVE  Alike(e, y)
<1>1. PICK typ, v, t, bits, ref, step, odd, null, late :
        y = [typ |-> typ, v |-> v, t |-> t, bits |-> bits, ref |-> ref,
             step |-> step, odd |-> odd, null |-> null, late |-> late]
  BY DEF IsValue
<1>2. CASE e = [y EXCEPT !.ref = x]
  <2>1. e = [typ |-> typ, v |-> v, t |-> t, bits |-> bits, ref |-> x,
             step |-> step, odd |-> odd, null |-> null, late |-> late]
    BY <1>1, <1>2
  <2> QED BY <1>1, <2>1 DEF Alike, IsValue
<1>3. CASE e = [y EXCEPT !.step = x]
  <2>1. e = [typ |-> typ, v |-> v, t |-> t, bits |-> bits, ref |-> ref,
             step |-> x, odd |-> odd, null |-> null, late |-> late]
    BY <1>1, <1>3
  <2> QED BY <1>1, <2>1 DEF Alike, IsValue
<1>4. CASE e = [y EXCEPT !.odd = x]
  <2>1. e = [typ |-> typ, v |-> v, t |-> t, bits |-> bits, ref |-> ref,
             step |-> step, odd |-> x, null |-> null, late |-> late]
    BY <1>1, <1>4
  <2> QED BY <1>1, <2>1 DEF Alike, IsValue
<1>5. CASE e = [y EXCEPT !.null = x]
  <2>1. e = [typ |-> typ, v |-> v, t |-> t, bits |-> bits, ref |-> ref,
             step |-> step, odd |-> odd, null |-> x, late |-> late]
    BY <1>1, <1>5
  <2> QED BY <1>1, <2>1 DEF Alike, IsValue
<1>6. CASE e = [y EXCEPT !.late = x]
  <2>1. e = [typ |-> typ, v |-> v, t |-> t, bits |-> bits, ref |-> ref,
             step |-> step, odd |-> odd, null |-> null, late |-> x]
    BY <1>1, <1>6
  <2> QED BY <1>1, <2>1 DEF Alike, IsValue
<1> QED BY <1>2, <1>3, <1>4, <1>5, <1>6

\* A value put into a register is a value, of that register.
LEMMA LoadedShape ==
  ASSUME NEW r, NEW t, NEW bits, NEW ref
  PROVE  IsValue(Loaded(r, t, bits, ref)) /\ Loaded(r, t, bits, ref).typ = "reg"
           /\ Loaded(r, t, bits, ref).v = r
<1>1. PICK x : x = Value("reg", r, t, bits, ref)
  OBVIOUS
<1>2. IsValue(x) /\ x.typ = "reg" /\ x.v = r
  BY <1>1, ValueShape
<1>3. Loaded(r, t, bits, ref) = [x EXCEPT !.late = labelUsed]
  BY <1>1 DEF Loaded
<1> QED BY <1>2, <1>3, FieldSet DEF Alike

\* The four of them that the operators set.
LEMMA Annotated ==
  ASSUME NEW y, NEW e, NEW ref, NEW step, NEW odd, NEW null, IsValue(y),
         e = [y EXCEPT !.ref = ref, !.step = step, !.odd = odd, !.null = null]
  PROVE  Alike(e, y)
<1>1. PICK e1 : e1 = [y EXCEPT !.ref = ref]
  OBVIOUS
<1>2. PICK e2 : e2 = [e1 EXCEPT !.step = step]
  OBVIOUS
<1>3. PICK e3 : e3 = [e2 EXCEPT !.odd = odd]
  OBVIOUS
<1>4. e = [e3 EXCEPT !.null = null]
  BY <1>1, <1>2, <1>3
<1>5. Alike(e1, y)
  BY <1>1, FieldSet
<1>6. Alike(e2, e1)
  BY <1>2, <1>5, FieldSet DEF Alike
<1>7. Alike(e3, e2)
  BY <1>3, <1>6, FieldSet DEF Alike
<1>8. Alike(e, e3)
  BY <1>4, <1>7, FieldSet DEF Alike
<1> QED BY <1>5, <1>6, <1>7, <1>8 DEF Alike

-----------------------------------------------------------------------------
(* The stack of values: a node takes the values of its operands from it and *)
(* puts its own there.                                                      *)

\* The operands of a node, and the values below them.
LEMMA Operands ==
  ASSUME RegInv, NEW n \in Nat, n <= Len(stack)
  PROVE  /\ Below(n) \in Seq(Values) /\ Len(Below(n)) = Len(stack) - n
         /\ \A i \in 1..(Len(stack) - n) : Below(n)[i] = stack[i]
         /\ \A i \in 1..n : /\ Len(stack) - n + i \in 1..Len(stack)
                            /\ Operand(n, i) = stack[Len(stack) - n + i]
                            /\ IsValue(Operand(n, i))
BY DEF RegInv, Below, Operand

\* What a node leaves: the values below its operands, each in a register that is
\* still used, and its own in a used register that none of them has.
Leaves(n, e) ==
  /\ stack' = Append(Below(n), e)
  /\ conf' = conf /\ acc' = NoAccess
  /\ IsValue(e)
  /\ Reserved \subseteq used'
  /\ \A i \in 1..(Len(stack) - n) : IsReg(stack[i]) => stack[i].v \in used'
  /\ IsReg(e) => /\ e.v \in used' \ Reserved
                 /\ \A i \in 1..(Len(stack) - n) : IsReg(stack[i]) => stack[i].v # e.v

\* A value takes the place of its operands: registers stay apart.
LEMMA ValueLeft ==
  ASSUME RegInv, NEW n \in Nat, n <= Len(stack), NEW e, Leaves(n, e)
  PROVE  RegInv'
<1> DEFINE k == Len(stack) - n
<1>1. /\ Below(n) \in Seq(Values) /\ Len(Below(n)) = k /\ k \in Nat
      /\ \A i \in 1..k : Below(n)[i] = stack[i]
  BY Operands DEF RegInv
<1>2. Below(n) \in Seq(Values \cup {e})
  BY <1>1
<1>3. /\ stack' \in Seq(Values \cup {e}) /\ Len(stack') = k + 1
      /\ \A i \in 1..k : stack'[i] = stack[i]
      /\ stack'[k + 1] = e
  BY <1>1, <1>2 DEF Leaves
<1> HIDE DEF k
<1>k. k \in Nat /\ k <= Len(stack)
  BY Operands DEF RegInv, k
<1>4. stack' \in Seq(Values')
  BY <1>3, <1>k DEF Values
<1>5. Reserved' = Reserved
  BY DEF Leaves, Reserved, C
<1>6. \A i \in 1..Len(stack') : IsValue(stack'[i])
  BY <1>3, <1>k DEF RegInv, Leaves
<1>7. \A i \in 1..Len(stack') : IsReg(stack'[i]) => stack'[i].v \in used' \ Reserved
  BY <1>3, <1>k DEF RegInv, Leaves, Fresh, k
<1>r. IsReg(e) => \A i \in 1..k : IsReg(stack[i]) => stack[i].v # e.v
  BY DEF Leaves, k
<1>8. \A i, j \in 1..Len(stack') :
        IsReg(stack'[i]) /\ IsReg(stack'[j]) /\ stack'[i].v = stack'[j].v => i = j
  <2> SUFFICES ASSUME NEW i \in 1..Len(stack'), NEW j \in 1..Len(stack'),
                      IsReg(stack'[i]), IsReg(stack'[j]), stack'[i].v = stack'[j].v
               PROVE  i = j
    OBVIOUS
  <2>1. CASE i \in 1..k /\ j \in 1..k
    BY <2>1, <1>3, <1>k DEF RegInv
  <2>2. CASE i = k + 1 /\ j \in 1..k
    BY <2>2, <1>3, <1>r
  <2>3. CASE i \in 1..k /\ j = k + 1
    BY <2>3, <1>3, <1>r
  <2> QED BY <2>1, <2>2, <2>3, <1>3, <1>k
<1>9. acc' = NoAccess
  BY DEF Leaves
<1>10. Reserved \subseteq used'
  BY DEF Leaves
<1> QED BY <1>4, <1>5, <1>6, <1>7, <1>8, <1>9, <1>10 DEF RegInv, Fresh

\* A step that emits nothing, and does not touch what a register is used for.
LEMMA Untouched ==
  ASSUME RegInv, UNCHANGED <<conf, stack, used>>,
         \/ acc' = NoAccess
         \/ IsAccess(acc') /\ acc'.base # "computed"
         \/ acc # NoAccess /\ IsAccess(acc') /\ acc'.base = acc.base /\ acc'.v = acc.v
  PROVE  RegInv'
<1>1. Reserved' = Reserved /\ Values' = Values
  BY DEF Reserved, C, Values
<1> QED BY <1>1 DEF RegInv, Fresh

\* An error leaves the values where they are.
LEMMA StopUntouched ==
  ASSUME RegInv, NEW p, Stop(p)
  PROVE  RegInv'
<1>1. acc' = NoAccess \/ (acc # NoAccess /\ IsAccess(acc') /\ acc'.base = acc.base /\ acc'.v = acc.v)
  BY DEF RegInv, Stop
<1> QED BY <1>1, Untouched DEF Stop

-----------------------------------------------------------------------------
(* The steps.                                                              *)

\* A constant uses no register.
LEMMA EvalNumberStep == ASSUME RegInv, EvalNumber PROVE RegInv'
<1>1. PICK e, o : /\ IsValue(e) /\ ~IsReg(e) /\ acc = NoAccess
                  /\ Emit(o, Append(stack, e), used, <<>>)
  BY ValueShape DEF EvalNumber, Number, EnumName, IsReg, Compiling
<1>2. Below(0) = stack
  BY DEF Below, RegInv
<1>3. Leaves(0, e)
  BY <1>1, <1>2 DEF Leaves, Emit, RegInv, Fresh
<1> QED BY <1>3, ValueLeft DEF RegInv

\* A variable gets a register that is free.
LEMMA EvalNameStep == ASSUME RegInv, EvalName PROVE RegInv'
<1>1. CASE \E p : Stop(p)
  BY <1>1, StopUntouched
<1>2. CASE ~\E p : Stop(p)
  <2>i. PICK i \in DOMAIN C.types :
          /\ acc = NoAccess /\ CanAlloc(used)
          /\ Emit("name", Append(stack, Loaded(Alloc(used), C.types[i], 0, C.mem.args[i])),
                  used \cup {Alloc(used)}, <<LoadArg(Alloc(used), i)>>)
    BY <1>2 DEF EvalName, Compiling
  <2>1. PICK e, code :
          /\ IsValue(e) /\ e.v = Alloc(used) /\ acc = NoAccess /\ CanAlloc(used)
          /\ Emit("name", Append(stack, e), used \cup {e.v}, code)
    <3>1. PICK e : e = Loaded(Alloc(used), C.types[i], 0, C.mem.args[i])
      OBVIOUS
    <3>2. IsValue(e) /\ e.v = Alloc(used)
      BY <3>1, LoadedShape
    <3>3. Emit("name", Append(stack, e), used \cup {e.v}, <<LoadArg(Alloc(used), i)>>)
      BY <2>i, <3>1, <3>2
    <3> QED BY <2>i, <3>2, <3>3
  <2>2. Below(0) = stack
    BY DEF Below, RegInv
  <2>3. e.v \notin used /\ e.v \notin Reserved
    BY <2>1, AllocFresh DEF RegInv
  <2>4. Leaves(0, e)
    BY <2>1, <2>2, <2>3 DEF Leaves, Emit, RegInv, Fresh
  <2> QED BY <2>4, ValueLeft DEF RegInv
<1> QED BY <1>1, <1>2

\* A unary operator keeps its operand's register.
LEMMA EvalUnaryStep ==
  ASSUME RegInv, NEW op \in UnaryOps, EvalUnary(op) PROVE RegInv'
<1>1. CASE \E p : Stop(p)
  BY <1>1, StopUntouched
<1>2. CASE ~\E p : Stop(p)
  <2> DEFINE x == Operand(1, 1)
  <2>1. /\ 1 <= Len(stack) /\ acc = NoAccess
        /\ x = stack[Len(stack)] /\ IsValue(x) /\ Len(stack) \in 1..Len(stack)
    BY Operands DEF EvalUnary, Compiling, RegInv
  <2>2. PICK e, code :
          /\ IsValue(e) /\ (IsReg(e) <=> IsReg(x)) /\ (IsReg(x) => e.v = x.v)
          /\ Emit(op, Append(Below(1), e), used, code)
    <3> DEFINE res == unary(op, x)
    <3>1. PICK y : /\ y = (IF IsReg(x) THEN x ELSE Number(res.n))
      OBVIOUS
    <3>2. IsValue(y) /\ (IsReg(y) <=> IsReg(x)) /\ (IsReg(x) => y.v = x.v)
      BY <3>1, <2>1, ValueShape DEF Number, IsReg
    <3> DEFINE odd == x.odd \cup (IF op \in {"preInc", "preDec"} /\ Factor(x.step) # 1
                                 THEN {"stride"} ELSE {})
               step == IF op \in {"preInc", "preDec"} THEN x.step ELSE 0
    <3>3. PICK e : e = [y EXCEPT !.ref = InCUnary(op, x), !.null = x.null, !.odd = odd, !.step = step]
      OBVIOUS
    <3>4. Emit(op, Append(Below(1), e), used, res.code)
      BY <1>2, <3>1, <3>3 DEF EvalUnary
    <3> HIDE DEF odd, step
    <3>5. Alike(e, y)
      <4>1. PICK e1 : e1 = [y EXCEPT !.ref = InCUnary(op, x)]
        OBVIOUS
      <4>2. PICK e2 : e2 = [e1 EXCEPT !.null = x.null]
        OBVIOUS
      <4>3. PICK e3 : e3 = [e2 EXCEPT !.odd = odd]
        OBVIOUS
      <4>4. e = [e3 EXCEPT !.step = step]
        BY <3>3, <4>1, <4>2, <4>3
      <4>5. Alike(e1, y)
        BY <3>2, <4>1, FieldSet
      <4>6. Alike(e2, e1)
        BY <4>2, <4>5, FieldSet DEF Alike
      <4>7. Alike(e3, e2)
        BY <4>3, <4>6, FieldSet DEF Alike
      <4>8. Alike(e, e3)
        BY <4>4, <4>7, FieldSet DEF Alike
      <4> QED BY <4>5, <4>6, <4>7, <4>8 DEF Alike
    <3> QED BY <3>2, <3>4, <3>5 DEF IsReg, Alike
  <2>3. Leaves(1, e)
    BY <2>1, <2>2 DEF Leaves, Emit, RegInv, Fresh
  <2> QED BY <2>1, <2>3, ValueLeft
<1> QED BY <1>1, <1>2

\* A binary operator keeps the register of one operand, or takes a new one, or
\* none; what it frees is the rest, and no value below has that.
LEMMA EvalBinaryStep ==
  ASSUME RegInv, NEW op \in BinaryOps, EvalBinary(op) PROVE RegInv'
<1>1. CASE \E p : Stop(p)
  BY <1>1, StopUntouched
<1>2. CASE ~\E p : Stop(p)
  <2> DEFINE a == Operand(2, 1)
             b == Operand(2, 2)
             l == Prepared(a, b)
             r == Prepared(b, a)
             z == IF CanAlloc(used) THEN Alloc(used) ELSE ArgsReg
             res == IF Calculable(l) /\ Calculable(r) THEN binary(op, l, r, z) ELSE Fail
             y == CASE res.keep = "left"  -> l
                    [] res.keep = "right" -> r
                    [] res.keep = "new"   -> Loaded(z, r.t, 0, 0)
                    [] OTHER              -> Number(res.n)
             kept == (used \ Freed(res.keep, l, r)) \cup (IF res.keep = "new" THEN {z} ELSE {})
             n == Len(stack)
  <2>1. /\ 2 <= n /\ acc = NoAccess /\ n \in Nat
        /\ a = stack[n - 1] /\ IsValue(a) /\ n - 1 \in 1..n
        /\ b = stack[n] /\ IsValue(b) /\ n \in 1..n
    BY Operands DEF EvalBinary, Compiling, RegInv
  <2>2. PICK e : e = [y EXCEPT !.ref = InC(op, l, r), !.step = StepInC(op, l, r),
                               !.odd = l.odd \cup r.odd \cup Departures(op, l, r),
                               !.null = l.null \/ r.null]
    OBVIOUS
  <2>3. /\ res.keep \notin {"fail", "crash"}
        /\ res.keep = "new" => CanAlloc(used)
        /\ Emit(op, Append(Below(2), e), kept, res.code)
    BY <1>2, <2>2 DEF EvalBinary
  <2>4. /\ IsValue(l) /\ (IsReg(l) <=> IsReg(a)) /\ (IsReg(a) => l = a)
        /\ IsValue(r) /\ (IsReg(r) <=> IsReg(b)) /\ (IsReg(b) => r = b)
    BY <2>1, PreparedSame
  <2> HIDE DEF a, b, l, r, n
  <2>5. Kept(res, l, r)
    <3>1. CASE Calculable(l) /\ Calculable(r)
      BY <3>1, BinaryKept DEF Calculable, Operable
    <3>2. CASE ~(Calculable(l) /\ Calculable(r))
      BY <3>2, ResultKept
    <3> QED BY <3>1, <3>2
  <2>6. /\ IsValue(y)
        /\ res.keep = "left" => y = l
        /\ res.keep = "right" => y = r
        /\ res.keep = "new" => IsReg(y) /\ y.v = z
        /\ res.keep = "num" => ~IsReg(y)
    <3>1. CASE res.keep = "left"  BY <3>1, <2>4
    <3>2. CASE res.keep = "right"  BY <3>2, <2>4
    <3>3. CASE res.keep = "new"
      <4>1. PICK x : x = Loaded(z, r.t, 0, 0)
        OBVIOUS
      <4>2. IsValue(x) /\ x.typ = "reg" /\ x.v = z
        BY <4>1, LoadedShape
      <4>3. y = x
        BY <3>3, <4>1
      <4> QED BY <3>3, <4>2, <4>3 DEF IsReg
    <3>4. CASE res.keep = "num"
      <4>1. y = Number(res.n)
        BY <3>4
      <4> QED BY <3>4, <4>1, ValueShape DEF Number, IsReg
    <3> QED BY <2>3, <2>5, <3>1, <3>2, <3>3, <3>4 DEF Kept
  <2>7. Alike(e, y)
    <3> HIDE DEF y
    <3> QED BY <2>2, <2>6, Annotated
  <2> HIDE DEF y
  <2>8. /\ \A i \in 1..(n - 2) : IsReg(stack[i]) =>
             /\ stack[i].v \in used
             /\ IsReg(a) => stack[i].v # a.v
             /\ IsReg(b) => stack[i].v # b.v
        /\ IsReg(a) => a.v \in used \ Reserved
        /\ IsReg(b) => b.v \in used \ Reserved
        /\ IsReg(a) /\ IsReg(b) => a.v # b.v
    BY <2>1 DEF RegInv, Fresh, n
  <2>9. res.keep = "new" => z \notin used /\ z \notin Reserved
    BY <2>3, AllocFresh DEF RegInv
  <2>10. Freed(res.keep, l, r) \subseteq RegOf(l) \cup RegOf(r)
    BY DEF Freed
  <2>11. \A i \in 1..(n - 2) : IsReg(stack[i]) => stack[i].v \in kept
    BY <2>4, <2>8, <2>10 DEF RegOf
  <2>12. Reserved \subseteq kept
    BY <2>4, <2>8, <2>10 DEF RegOf, RegInv
  <2>13. IsReg(e) => /\ e.v \in kept \ Reserved
                     /\ \A i \in 1..(n - 2) : IsReg(stack[i]) => stack[i].v # e.v
    <3>1. CASE res.keep = "left"
      <4>1. IsReg(a) /\ e.v = a.v /\ l = a
        BY <3>1, <2>4, <2>5, <2>6, <2>7 DEF Kept, Alike
      <4>2. a.v \notin Freed(res.keep, l, r)
        BY <3>1, <2>4, <2>8, <4>1 DEF Freed, RegOf
      <4> QED BY <4>1, <4>2, <2>8
    <3>2. CASE res.keep = "right"
      <4>1. IsReg(b) /\ e.v = b.v /\ r = b
        BY <3>2, <2>4, <2>5, <2>6, <2>7 DEF Kept, Alike
      <4>2. b.v \notin Freed(res.keep, l, r)
        BY <3>2, <2>4, <2>8, <4>1 DEF Freed, RegOf
      <4> QED BY <4>1, <4>2, <2>8
    <3>3. CASE res.keep = "new"
      <4>1. e.v = z /\ z \in kept
        BY <3>3, <2>6, <2>7 DEF Alike
      <4> QED BY <4>1, <3>3, <2>8, <2>9
    <3>4. CASE res.keep = "num"
      BY <3>4, <2>6, <2>7 DEF Alike, IsReg
    <3> QED BY <2>3, <2>5, <3>1, <3>2, <3>3, <3>4 DEF Kept
  <2>14. /\ stack' = Append(Below(2), e) /\ used' = kept
         /\ conf' = conf /\ acc' = NoAccess
    BY <2>1, <2>3 DEF Emit
  <2> HIDE DEF kept
  <2>15. Leaves(2, e)
    BY <2>7, <2>11, <2>12, <2>13, <2>14 DEF Leaves, Alike, n
  <2> QED BY <2>1, <2>15, ValueLeft DEF n
<1> QED BY <1>1, <1>2

\* ?: keeps the condition's register, and frees those of the others.
LEMMA EvalCondStep == ASSUME RegInv, EvalCond PROVE RegInv'
<1>1. CASE \E p : Stop(p)
  BY <1>1, StopUntouched
<1>2. CASE ~\E p : Stop(p)
  <2> DEFINE c == Operand(3, 1)
             l == Operand(3, 2)
             r == Operand(3, 3)
             n == Len(stack)
             Moved1(x) == IF IsReg(x) THEN AluReg("mov", c.v, x.v) ELSE AluImm("mov", c.v, x.v)
             code == <<JmpOff("jeq", c.v, 0, 2), Moved1(l), Ja(1), Moved1(r)>>
             long == \E x \in {l, r} : IsNum(x) /\ Imm(x.v) # x.v
             y == IF IsReg(c) THEN c ELSE IF c.v = 0 THEN r ELSE l
             ref == CASE c.ref = Undef -> Undef [] c.ref = 0 -> r.ref [] OTHER -> l.ref
             step == IF l.step # 0 THEN l.step ELSE r.step
             odd == c.odd \cup l.odd \cup r.odd \cup (IF IsReg(c) /\ long THEN {"imm"} ELSE {})
             null == c.null \/ l.null \/ r.null
             kept == IF IsReg(c) THEN used \ (RegOf(l) \cup RegOf(r)) ELSE used
  <2>1. /\ 3 <= n /\ acc = NoAccess /\ n \in Nat
        /\ c = stack[n - 2] /\ IsValue(c) /\ n - 2 \in 1..n
        /\ l = stack[n - 1] /\ IsValue(l) /\ n - 1 \in 1..n
        /\ r = stack[n] /\ IsValue(r) /\ n \in 1..n
    BY Operands DEF EvalCond, Compiling, RegInv
  <2>2. PICK e : e = [y EXCEPT !.ref = ref, !.step = step, !.odd = odd, !.null = null]
    OBVIOUS
  <2>3. PICK x : Emit("cond", Append(Below(3), e), kept, x)
    <3>1. CASE IsReg(c)
      <4>1. Emit("cond", Append(Below(3), e), used \ (RegOf(l) \cup RegOf(r)), code)
        BY <1>2, <2>2, <3>1 DEF EvalCond
      <4> QED BY <4>1, <3>1
    <3>2. CASE ~IsReg(c)
      <4>1. Emit("cond", Append(Below(3), e), used, <<>>)
        BY <1>2, <2>2, <3>2 DEF EvalCond
      <4> QED BY <4>1, <3>2
    <3> QED BY <3>1, <3>2
  <2>4. IsValue(y) /\ y \in {c, l, r} /\ (IsReg(c) => y = c)
    BY <2>1
  <2>5. Alike(e, y)
    <3> HIDE DEF y, ref, step, odd, null
    <3> QED BY <2>2, <2>4, Annotated
  <2> HIDE DEF c, l, r, n, y
  <2>6. /\ \A i \in 1..(n - 3) : IsReg(stack[i]) =>
             /\ stack[i].v \in used
             /\ \A x1 \in {c, l, r} : IsReg(x1) => stack[i].v # x1.v
        /\ \A x1 \in {c, l, r} : IsReg(x1) => x1.v \in used \ Reserved
        /\ \A x1 \in {l, r} : IsReg(c) /\ IsReg(x1) => c.v # x1.v
    <3>1. \A x1 \in {c, l, r} : \E j \in (n - 2)..n : j \in 1..n /\ x1 = stack[j]
      BY <2>1
    <3>2. \A x1 \in {c, l, r} : IsReg(x1) =>
            /\ x1.v \in used \ Reserved
            /\ \A i \in 1..(n - 3) : IsReg(stack[i]) => stack[i].v # x1.v
      <4> SUFFICES ASSUME NEW x1 \in {c, l, r}, IsReg(x1)
                   PROVE  /\ x1.v \in used \ Reserved
                          /\ \A i \in 1..(n - 3) : IsReg(stack[i]) => stack[i].v # x1.v
        OBVIOUS
      <4>1. PICK j \in 1..n : j > n - 3 /\ x1 = stack[j]
        BY <2>1, <3>1
      <4>2. x1.v \in used \ Reserved
        BY <4>1 DEF RegInv, Fresh, n
      <4>3. \A i \in 1..(n - 3) : i \in 1..n /\ i # j
        BY <2>1, <4>1
      <4> QED BY <4>1, <4>2, <4>3 DEF RegInv, n
    <3>3. \A i \in 1..(n - 3) : IsReg(stack[i]) => stack[i].v \in used
      BY <2>1 DEF RegInv, Fresh, n
    <3>4. \A x1 \in {l, r} : IsReg(c) /\ IsReg(x1) => c.v # x1.v
      BY <2>1 DEF RegInv, n
    <3> QED BY <3>2, <3>3, <3>4
  <2>7. \A i \in 1..(n - 3) : IsReg(stack[i]) => stack[i].v \in kept
    BY <2>6 DEF RegOf
  <2>8. Reserved \subseteq kept
    BY <2>6 DEF RegOf, RegInv
  <2>9. IsReg(e) => /\ e.v \in kept \ Reserved
                    /\ \A i \in 1..(n - 3) : IsReg(stack[i]) => stack[i].v # e.v
    <3>1. IsReg(e) => IsReg(y) /\ e.v = y.v
      BY <2>5 DEF Alike, IsReg
    <3>2. CASE IsReg(c)
      BY <3>1, <3>2, <2>4, <2>6 DEF RegOf
    <3>3. CASE ~IsReg(c)
      BY <3>1, <3>3, <2>4, <2>6
    <3> QED BY <3>2, <3>3
  <2>10. /\ stack' = Append(Below(3), e) /\ used' = kept
         /\ conf' = conf /\ acc' = NoAccess
    BY <2>1, <2>3 DEF Emit
  <2> HIDE DEF kept
  <2>11. Leaves(3, e)
    BY <2>5, <2>7, <2>8, <2>9, <2>10 DEF Leaves, Alike, n
  <2> QED BY <2>1, <2>11, ValueLeft DEF n
<1> QED BY <1>1, <1>2

\* A cast keeps the register, or gets one for a constant.
LEMMA EvalCastStep == ASSUME RegInv, NEW t, EvalCast(t) PROVE RegInv'
<1>1. CASE \E p : Stop(p)
  BY <1>1, StopUntouched
<1>2. CASE ~\E p : Stop(p)
  <2> DEFINE x == Operand(1, 1)
             n == Len(stack)
             r == Alloc(used)
             ref == IF x.ref = Undef THEN Undef ELSE IF t.size = 1 THEN x.ref % Low ELSE x.ref
             odd == x.odd \cup (IF t.size = 1 THEN {"cast"} ELSE {})
                      \cup (IF IsNum(x) /\ Imm(x.v) # x.v THEN {"imm"} ELSE {})
             val == [x EXCEPT !.typ = "reg", !.t = t, !.step = SizeTo(t),
                       !.ref = IF @ = Undef THEN Undef ELSE IF t.size = 1 THEN @ % Low ELSE @,
                       !.odd = @ \cup (IF t.size = 1 THEN {"cast"} ELSE {})
                                 \cup (IF IsNum(x) /\ Imm(x.v) # x.v THEN {"imm"} ELSE {})]
  <2>1. /\ 1 <= n /\ acc = NoAccess /\ n \in Nat
        /\ x = stack[n] /\ IsValue(x) /\ n \in 1..n
    BY Operands DEF EvalCast, Compiling, RegInv
  <2>2. \/ IsReg(x) /\ Emit("cast", Append(Below(1), val), used, <<>>)
        \/ /\ CanAlloc(used)
           /\ Emit("cast", Append(Below(1), [val EXCEPT !.v = r, !.late = labelUsed]), used \cup {r}, <<AluImm("mov", r, x.v)>>)
    BY <1>2 DEF EvalCast
  <2>3. val = [typ |-> "reg", v |-> x.v, t |-> t, bits |-> x.bits, ref |-> ref,
               step |-> SizeTo(t), odd |-> odd, null |-> x.null, late |-> x.late]
    <3> HIDE DEF x
    <3>1. PICK e1 : e1 = [x EXCEPT !.typ = "reg"]
      OBVIOUS
    <3>2. e1 = [typ |-> "reg", v |-> x.v, t |-> x.t, bits |-> x.bits, ref |-> x.ref,
                step |-> x.step, odd |-> x.odd, null |-> x.null, late |-> x.late]
      BY <2>1, <3>1 DEF IsValue
    <3>3. PICK e2 : e2 = [e1 EXCEPT !.t = t]
      OBVIOUS
    <3>4. e2 = [typ |-> "reg", v |-> x.v, t |-> t, bits |-> x.bits, ref |-> x.ref,
                step |-> x.step, odd |-> x.odd, null |-> x.null, late |-> x.late]
      BY <3>2, <3>3
    <3>5. PICK e3 : e3 = [e2 EXCEPT !.step = SizeTo(t)]
      OBVIOUS
    <3>6. e3 = [typ |-> "reg", v |-> x.v, t |-> t, bits |-> x.bits, ref |-> x.ref,
                step |-> SizeTo(t), odd |-> x.odd, null |-> x.null, late |-> x.late]
      BY <3>4, <3>5
    <3>7. PICK e4 : e4 = [e3 EXCEPT !.ref = ref]
      OBVIOUS
    <3>8. e4 = [typ |-> "reg", v |-> x.v, t |-> t, bits |-> x.bits, ref |-> ref,
                step |-> SizeTo(t), odd |-> x.odd, null |-> x.null, late |-> x.late]
      BY <3>6, <3>7
    <3>9. val = [e4 EXCEPT !.odd = odd]
      BY <3>1, <3>3, <3>5, <3>6, <3>7, <3>8 DEF IsValue
    <3> QED BY <3>8, <3>9
  <2> HIDE DEF val
  <2>4. PICK e, rest :
          /\ e.typ = "reg" /\ IsValue(e)
          /\ Emit("cast", Append(Below(1), e), used \cup {e.v}, rest)
          /\ \/ IsReg(x) /\ e.v = x.v
             \/ CanAlloc(used) /\ e.v = r
    <3>1. CASE IsReg(x) /\ Emit("cast", Append(Below(1), val), used, <<>>)
      <4>1. val.typ = "reg" /\ IsValue(val) /\ val.v = x.v
        BY <2>3 DEF IsValue
      <4>2. x.v \in used
        BY <2>1, <3>1 DEF RegInv, Fresh
      <4>3. used = used \cup {val.v}
        BY <4>1, <4>2
      <4> QED BY <3>1, <4>1, <4>3
    <3>2. CASE /\ CanAlloc(used)
               /\ Emit("cast", Append(Below(1), [val EXCEPT !.v = r, !.late = labelUsed]), used \cup {r}, <<AluImm("mov", r, x.v)>>)
      <4>1. PICK e : e = [val EXCEPT !.v = r, !.late = labelUsed]
        OBVIOUS
      <4>2. e = [typ |-> "reg", v |-> r, t |-> t, bits |-> x.bits, ref |-> ref,
                 step |-> SizeTo(t), odd |-> odd, null |-> x.null, late |-> labelUsed]
        BY <2>3, <4>1
      <4>3. e.typ = "reg" /\ IsValue(e) /\ e.v = r
        BY <4>2 DEF IsValue
      <4>4. Emit("cast", Append(Below(1), e), used \cup {e.v}, <<AluImm("mov", r, x.v)>>)
        BY <3>2, <4>1, <4>3
      <4> QED BY <3>2, <4>3, <4>4
    <3> QED BY <2>2, <3>1, <3>2
  <2> HIDE DEF x
  <2>5. /\ \A i \in 1..(n - 1) : IsReg(stack[i]) => stack[i].v \in used /\ stack[i].v # e.v
        /\ e.v \notin Reserved
    <3>1. CASE IsReg(x) /\ e.v = x.v
      BY <2>1, <3>1 DEF RegInv, Fresh
    <3>2. CASE CanAlloc(used) /\ e.v = r
      BY <2>1, <3>2, AllocFresh DEF RegInv, Fresh
    <3> QED BY <2>4, <3>1, <3>2
  <2>6. Leaves(1, e)
    BY <2>1, <2>4, <2>5 DEF Leaves, Emit, RegInv
  <2> QED BY <2>1, <2>6, ValueLeft
<1> QED BY <1>1, <1>2

-----------------------------------------------------------------------------
(* Chains of accesses: no step changes what the chain began with.          *)

Along(b, a) == IsAccess(b) /\ b.base = a.base /\ b.v = a.v

\* A chain keeps its base while it moves.
LEMMA MovedAlong ==
  ASSUME NEW a, IsAccess(a), NEW n, NEW t
  PROVE  /\ \A lv : Along(Moved(a, n, t, lv), a)
         /\ Along(ReadAt(a, n, t), a)
<1>1. \A lv : Along(Moved(a, n, t, lv), a)
  BY DEF Moved, Along, IsAccess
<1>2. PICK b : b = Moved(a, n, t, TRUE)
  OBVIOUS
<1>3. Along(b, a)
  BY <1>1, <1>2
<1>4. ReadAt(a, n, t) = [b EXCEPT !.odd = @ \cup (IF IsArray(t) THEN {"array"} ELSE {})]
  BY <1>2 DEF ReadAt
<1> QED BY <1>1, <1>3, <1>4 DEF Along, IsAccess

\* An offset does not change the base of a chain.
LEMMA OffsetAlong ==
  ASSUME NEW a, IsAccess(a), NEW n, NEW t, NEW prev, NEW address, NEW inArray
  PROVE  Along(AddOffset(a, n, t, prev, address, inArray), a)
BY DEF AddOffset, Along, IsAccess

\* So a step of a chain leaves the registers as they were.
LEMMA ChainUntouched ==
  ASSUME RegInv, acc # NoAccess, NEW a, Along(a, acc), Chain(a)
  PROVE  RegInv'
BY Untouched DEF Along, Chain, RegInv

\* A chain that begins with a variable or a constant has no register yet.
LEMMA AccessBaseStep ==
  ASSUME RegInv, AccessVariable \/ AccessNumber PROVE RegInv'
<1>1. PICK base, v, t, w, odd, null, late :
        base # "computed" /\ Chain(Access(base, v, t, w, odd, null, late))
  <2>1. CASE AccessVariable
    <3>1. PICK i \in DOMAIN C.types :
            Chain(Access("var", i, C.types[i], C.mem.args[i], {}, FALSE, FALSE))
      BY <2>1 DEF AccessVariable
    <3> QED BY <3>1
  <2>2. CASE AccessNumber
    <3>1. PICK n \in C.bases, t \in C.casts :
            Chain(Access("number", n, t, n, IF n = 0 \/ Imm(n) # n THEN {"base"} ELSE {}, FALSE, FALSE))
      BY <2>2 DEF AccessNumber
    <3> QED BY <3>1
  <2> QED BY <2>1, <2>2
<1>2. PICK a : a = Access(base, v, t, w, odd, null, late)
  OBVIOUS
<1>3. IsAccess(a) /\ a.base # "computed"
  BY <1>1, <1>2 DEF Access, IsAccess
<1> QED BY <1>1, <1>2, <1>3, Untouched DEF Chain

\* The operand a chain begins with keeps its register, which is still used.
LEMMA AccessComputedStep == ASSUME RegInv, AccessComputed PROVE RegInv'
<1>1. CASE \E p : Stop(p)
  BY <1>1, StopUntouched
<1>2. CASE ~\E p : Stop(p)
  <2> DEFINE e == Operand(1, 1)
             n == Len(stack)
             odd == e.odd \cup (IF SizeTo(e.t) = e.step THEN {} ELSE {"stride"})
  <2>1. /\ 1 <= n /\ acc = NoAccess /\ n \in Nat
        /\ e = stack[n] /\ n \in 1..n
    BY Operands DEF AccessComputed, Compiling, RegInv
  <2>2. /\ IsReg(e) /\ acc' = Access("computed", e.v, e.t, e.ref, odd, e.null, e.late)
        /\ stack' = Below(1) /\ UNCHANGED <<conf, used>>
    BY <1>2 DEF AccessComputed
  <2>3. IsAccess(acc') /\ acc'.v = e.v
    <3>1. PICK a : a = Access("computed", e.v, e.t, e.ref, odd, e.null, e.late)
      OBVIOUS
    <3>2. IsAccess(a) /\ a.v = e.v
      BY <3>1 DEF Access, IsAccess
    <3> QED BY <2>2, <3>1, <3>2
  <2>4. /\ Below(1) \in Seq(Values) /\ Len(Below(1)) = n - 1
        /\ \A i \in 1..(n - 1) : Below(1)[i] = stack[i]
    BY <2>1, Operands
  <2> HIDE DEF e, odd
  <2>5. Len(stack') = n - 1 /\ \A i \in 1..(n - 1) : stack'[i] = stack[i]
    BY <2>2, <2>4
  <2>6. stack' \in Seq(Values')
    <3>1. stack' \in Seq(Values) /\ Values' = {stack'[i] : i \in DOMAIN stack'}
      BY <2>2, <2>4 DEF Values
    <3> QED BY <3>1
  <2>7. Reserved' = Reserved
    BY <2>2 DEF Reserved, C
  <2>8. e.v \in used \ Reserved /\ \A i \in 1..(n - 1) : IsReg(stack[i]) => stack[i].v # e.v
    BY <2>1, <2>2 DEF RegInv, Fresh
  <2>9. \A i \in 1..(n - 1) : i \in 1..n
    BY <2>1
  <2> HIDE DEF n
  <2> QED BY <2>2, <2>3, <2>5, <2>6, <2>7, <2>8, <2>9 DEF RegInv, Fresh, n
<1> QED BY <1>1, <1>2

\* The steps of a chain: an error, a panic, or one step further.
LEMMA AccessMemberStep == ASSUME RegInv, NEW name, AccessMember(name) PROVE RegInv'
<1>1. CASE \E p : Stop(p)
  BY <1>1, StopUntouched
<1>2. CASE ~\E p : Stop(p)
  <2>0. acc # NoAccess /\ IsAccess(acc)
    BY DEF AccessMember, Accessing, RegInv
  <2> DEFINE arrow == IsPtr(acc.t)
             t == IF arrow THEN acc.t.to ELSE acc.t
             f == Members[t.to][name]
             n == LastOffset(acc)
             one == AddOffset(Moved(acc, f.off, f.t, TRUE), f.off, f.t, acc.t, IsArray(f.t), FALSE)
             two == [acc EXCEPT !.w = IF @ = Undef THEN @ ELSE (@ + f.off) % Word, !.t = f.t,
                                !.steps = @ + 1, !.ends = TRUE, !.offsets[n].offset = @ + f.off,
                                !.offsets[n].t = f.t,
                                !.offsets[n].address = @ \/ IsArray(f.t)]
             to == IF arrow THEN one ELSE two
  <2>1. Chain([to EXCEPT !.bits = f.bits, !.bit = f.bit])
    BY <1>2 DEF AccessMember
  <2>2. Along(one, acc)
    <3>1. PICK a : a = Moved(acc, f.off, f.t, TRUE)
      OBVIOUS
    <3>2. Along(a, acc)
      BY <2>0, <3>1, MovedAlong
    <3>3. Along(AddOffset(a, f.off, f.t, acc.t, IsArray(f.t), FALSE), a)
      BY <3>2 DEF AddOffset, Along, IsAccess
    <3> QED BY <3>1, <3>2, <3>3 DEF Along
  <2>3. Along(two, acc)
    <3> HIDE DEF f, n
    <3> QED BY <2>0 DEF Along, IsAccess
  <2>4. Along(to, acc)
    BY <2>2, <2>3
  <2> HIDE DEF to
  <2>5. PICK a : a = [to EXCEPT !.bits = f.bits, !.bit = f.bit]
    OBVIOUS
  <2>6. Along(a, acc)
    <3> HIDE DEF f
    <3> QED BY <2>4, <2>5 DEF Along, IsAccess
  <2> QED BY <2>0, <2>1, <2>5, <2>6, ChainUntouched
<1> QED BY <1>1, <1>2

\* The steps of a chain leave the registers alone.
LEMMA AccessIndexStep == ASSUME RegInv, NEW i, AccessIndex(i) PROVE RegInv'
<1>1. CASE \E p : Stop(p)
  BY <1>1, StopUntouched
<1>2. CASE ~\E p : Stop(p)
  <2>0. acc # NoAccess /\ IsAccess(acc)
    BY DEF AccessIndex, Accessing, RegInv
  <2>1. PICK n, t, prev, address, inArray, a :
          Along(a, acc) /\ Chain(AddOffset(a, n, t, prev, address, inArray))
    <3> DEFINE n == i * acc.t.to.size
    <3>1. Chain(AddOffset(ReadAt(acc, n, acc.t.to), n, acc.t.to, prevBtf(acc), FALSE, IsArray(acc.t)))
      BY <1>2 DEF AccessIndex
    <3>2. Along(ReadAt(acc, n, acc.t.to), acc)
      BY <2>0, MovedAlong
    <3> QED BY <3>1, <3>2
  <2>2. Along(AddOffset(a, n, t, prev, address, inArray), acc)
    BY <2>1, OffsetAlong DEF Along
  <2> QED BY <2>0, <2>1, <2>2, ChainUntouched
<1> QED BY <1>1, <1>2

\* Likewise "+" and "-".
LEMMA AccessAddStep == ASSUME RegInv, NEW n, AccessAdd(n) PROVE RegInv'
<1>1. CASE \E p : Stop(p)
  BY <1>1, StopUntouched
<1>2. CASE ~\E p : Stop(p)
  <2>0. acc # NoAccess /\ IsAccess(acc)
    BY DEF AccessAdd, Accessing, RegInv
  <2> DEFINE d == n * Factor(SizeTo(acc.t))
             t == IF IsArray(acc.t) THEN Ptr(acc.t.to) ELSE acc.t
             one == [acc EXCEPT !.w = InCAccess(acc), !.lv = FALSE, !.steps = @ + 1, !.ends = FALSE]
             two == AddOffset(Moved(acc, d, t, FALSE), d, t, prevBtf(acc), TRUE, FALSE)
  <2>1. Chain(one) \/ Chain(two)
    BY <1>2 DEF AccessAdd
  <2>2. Along(one, acc)
    BY <2>0 DEF Along, IsAccess
  <2>3. Along(two, acc)
    <3>1. PICK a : a = Moved(acc, d, t, FALSE)
      OBVIOUS
    <3>2. Along(a, acc)
      BY <2>0, <3>1, MovedAlong
    <3>3. Along(AddOffset(a, d, t, prevBtf(acc), TRUE, FALSE), a)
      BY <3>2 DEF AddOffset, Along, IsAccess
    <3> QED BY <3>1, <3>2, <3>3 DEF Along
  <2> HIDE DEF one, two
  <2> QED BY <2>0, <2>1, <2>2, <2>3, ChainUntouched
<1> QED BY <1>1, <1>2

\* Likewise "&".
LEMMA AccessAddrStep == ASSUME RegInv, AccessAddr PROVE RegInv'
<1>0. acc # NoAccess /\ IsAccess(acc)
  BY DEF AccessAddr, Accessing, RegInv
<1>1. PICK a : /\ Chain(a)
               /\ a = [acc EXCEPT !.lv = FALSE, !.t = Ptr(@), !.steps = @ + 1, !.ends = TRUE,
                                  !.offsets[LastOffset(acc)].address = TRUE,
                                  !.offsets[LastOffset(acc)].t = Ptr(acc.t)]
  BY DEF AccessAddr
<1>2. Along(a, acc)
  BY <1>0, <1>1 DEF Along, IsAccess
<1> QED BY <1>0, <1>1, <1>2, ChainUntouched

\* Likewise a cast.
LEMMA AccessCastStep == ASSUME RegInv, NEW t, AccessCast(t) PROVE RegInv'
<1>0. acc # NoAccess /\ IsAccess(acc)
  BY DEF AccessCast, Accessing, RegInv
<1> DEFINE w == InCAccess(acc)
           wider == ~IsArray(acc.t) /\ t.size > acc.t.size
           to == [acc EXCEPT !.w = IF w = Undef THEN Undef ELSE IF t.size = 1 THEN w % Low ELSE w,
                             !.lv = FALSE, !.t = t, !.bits = 0, !.steps = @ + 1, !.ends = FALSE,
                             !.odd = @ \cup (IF acc.bits # 0 \/ wider THEN {"cast"} ELSE {})]
           set == [to EXCEPT !.offsets[LastOffset(acc)].t = t]
<1>1. Chain(to) \/ Chain(set)
  BY DEF AccessCast
<1>2. Along(to, acc)
  <2> HIDE DEF w, wider
  <2> QED BY <1>0 DEF Along, IsAccess
<1>3. Along(set, acc)
  <2> HIDE DEF to
  <2> QED BY <1>2 DEF Along, IsAccess
<1> HIDE DEF to, set
<1> QED BY <1>0, <1>1, <1>2, <1>3, ChainUntouched

\* Likewise "*".
LEMMA AccessIndirStep == ASSUME RegInv, AccessIndir PROVE RegInv'
<1>1. CASE \E p : Stop(p)
  BY <1>1, StopUntouched
<1>2. CASE ~\E p : Stop(p)
  <2>0. acc # NoAccess /\ IsAccess(acc)
    BY DEF AccessIndir, Accessing, RegInv
  <2>1. Chain(AddOffset(ReadAt(acc, 0, acc.t.to), 0, acc.t.to, acc.t, FALSE, FALSE))
    BY <1>2 DEF AccessIndir
  <2>2. PICK a : a = ReadAt(acc, 0, acc.t.to)
    OBVIOUS
  <2>3. Along(a, acc)
    BY <2>0, <2>2, MovedAlong
  <2>4. Along(AddOffset(a, 0, acc.t.to, acc.t, FALSE, FALSE), a)
    BY <2>3 DEF AddOffset, Along, IsAccess
  <2>5. Along(AddOffset(a, 0, acc.t.to, acc.t, FALSE, FALSE), acc)
    BY <2>3, <2>4 DEF Along
  <2> QED BY <2>0, <2>1, <2>2, <2>5, ChainUntouched
<1> QED BY <1>1, <1>2

\* The value of a chain is in the register it began with, or in a new one.
LEMMA AccessDoneStep == ASSUME RegInv, AccessDone PROVE RegInv'
<1>1. CASE \E p : Stop(p)
  BY <1>1, StopUntouched
<1>2. CASE ~\E p : Stop(p)
  <2> DEFINE reg == IF acc.base = "computed" THEN acc.v ELSE Alloc(used)
             w == InCAccess(acc)
             odd == AccessDepartures(acc)
  <2>0. acc # NoAccess /\ (acc.base # "computed" => CanAlloc(used))
    BY <1>2 DEF AccessDone
  <2>1. PICK e : e = [Loaded(reg, acc.t, acc.bits, w)
                        EXCEPT !.odd = odd, !.null = acc.null,
                               !.late = IF acc.base = "computed" THEN acc.late ELSE @]
    OBVIOUS
  <2>2. /\ stack' = Append(stack, e) /\ used' = used \cup {reg}
        /\ acc' = NoAccess /\ conf' = conf
    BY <1>2, <2>1 DEF AccessDone
  <2>3. IsValue(e) /\ e.typ = "reg" /\ e.v = reg
    <3> HIDE DEF reg, w, odd
    <3>1. PICK x : x = Loaded(reg, acc.t, acc.bits, w)
      OBVIOUS
    <3>2. IsValue(x) /\ x.typ = "reg" /\ x.v = reg
      BY <3>1, LoadedShape
    <3>3. PICK e1 : e1 = [x EXCEPT !.odd = odd]
      OBVIOUS
    <3>4. Alike(e1, x)
      BY <3>2, <3>3, FieldSet
    <3>5. PICK e2 : e2 = [e1 EXCEPT !.null = acc.null]
      OBVIOUS
    <3>6. Alike(e2, e1)
      BY <3>4, <3>5, FieldSet DEF Alike
    <3>7. e = [e2 EXCEPT !.late = IF acc.base = "computed" THEN acc.late ELSE x.late]
      BY <2>1, <3>1, <3>2, <3>3, <3>5 DEF IsValue
    <3>8. Alike(e, e2)
      BY <3>6, <3>7, FieldSet DEF Alike
    <3> QED BY <3>2, <3>4, <3>6, <3>8 DEF Alike
  <2>4. /\ reg \notin Reserved
        /\ \A i \in 1..Len(stack) : IsReg(stack[i]) => stack[i].v \in used /\ stack[i].v # reg
    <3>1. CASE acc.base = "computed"
      BY <2>0, <3>1 DEF RegInv, Fresh
    <3>2. CASE acc.base # "computed"
      BY <2>0, <3>2, AllocFresh DEF RegInv, Fresh
    <3> QED BY <3>1, <3>2
  <2>5. Below(0) = stack
    BY DEF Below, RegInv
  <2> HIDE DEF reg
  <2>6. Leaves(0, e)
    BY <2>2, <2>3, <2>4, <2>5 DEF Leaves, RegInv
  <2> QED BY <2>6, ValueLeft DEF RegInv
<1> QED BY <1>1, <1>2

-----------------------------------------------------------------------------
\* The registers before the first node.
LEMMA RegInit == Init => RegInv
<1> SUFFICES ASSUME Init PROVE RegInv
  OBVIOUS
<1>1. Len(stack) = 0 /\ stack = <<>>
  BY DEF Init
<1>2. stack \in Seq(Values)
  BY <1>1
<1> QED BY <1>1, <1>2 DEF Init, RegInv

\* No step lets two values meet.
LEMMA RegStep == RegInv /\ [Next]_vars => RegInv'
<1> SUFFICES ASSUME RegInv, [Next]_vars PROVE RegInv'
  OBVIOUS
<1>1. CASE EvalNumber \/ EvalName \/ EvalCond
  BY <1>1, EvalNumberStep, EvalNameStep, EvalCondStep
<1>2. CASE \E op \in BinaryOps : EvalBinary(op)
  BY <1>2, EvalBinaryStep
<1>3. CASE \E op \in UnaryOps : EvalUnary(op)
  BY <1>3, EvalUnaryStep
<1>4. CASE AccessVariable \/ AccessNumber \/ AccessComputed \/ AccessAddr \/ AccessIndir
  BY <1>4, AccessBaseStep, AccessComputedStep, AccessAddrStep, AccessIndirStep
<1>5. CASE \/ \E name : AccessMember(name)
           \/ \E i : AccessIndex(i)
           \/ \E n : AccessAdd(n)
           \/ \E t : AccessCast(t) \/ EvalCast(t)
  BY <1>5, AccessMemberStep, AccessIndexStep, AccessAddStep, AccessCastStep, EvalCastStep
<1>6. CASE AccessDone
  BY <1>6, AccessDoneStep
<1>7. CASE Finish
  <2>1. acc = NoAccess /\ UNCHANGED <<conf, stack, acc, used>>
    BY <1>7 DEF Finish, Stop
  <2> QED BY <2>1, Untouched
<1>8. CASE UNCHANGED vars
  <2>1. acc' = NoAccess \/ (acc # NoAccess /\ IsAccess(acc') /\ acc'.base = acc.base /\ acc'.v = acc.v)
    BY <1>8 DEF RegInv, vars
  <2> QED BY <1>8, <2>1, Untouched DEF vars
<1> QED BY <1>1, <1>2, <1>3, <1>4, <1>5, <1>6, <1>7, <1>8 DEF Next

\* The allocator and the operators keep registers apart: two values that await
\* their operator, or the base of a chain, never share one, none is free while
\* its value is needed, and none is that of the arguments or of the buffer.
THEOREM RegistersOwned == Spec => []RegsOwned
<1>1. RegInv => RegsOwned
  <2> SUFFICES ASSUME RegInv PROVE RegsOwned
    OBVIOUS
  <2>1. DOMAIN stack = 1..Len(stack)
    BY DEF RegInv
  <2>2. LiveRegs \subseteq used \ Reserved
    BY <2>1 DEF RegInv, LiveRegs, RegOf, Fresh
  <2>3. acc # NoAccess /\ acc.base = "computed" => acc.v \notin LiveRegs
    BY <2>1 DEF RegInv, LiveRegs, RegOf
  <2> QED BY <2>1, <2>2, <2>3 DEF RegInv, RegsOwned, Fresh
<1> QED BY <1>1, RegInit, RegStep, PTL DEF Spec

\* A set of numbers has a least element.
LEMMA LeastNat ==
  ASSUME NEW S \in SUBSET Nat, S # {}
  PROVE  \E n \in S : \A k \in S : n <= k
<1> DEFINE R == OpToRel(<, Nat)
<1>1. IsWellFoundedOn(R, Nat)
  BY NatLessThanWellFounded
<1>2. R = {ss \in Nat \X Nat : ss[1] < ss[2]}
  BY DEF OpToRel
<1>3. \E x \in S : \A y \in S : <<y, x>> \notin R
  <2> HIDE DEF R
  <2> QED BY <1>1, WFMin
<1> HIDE DEF R
<1>4. PICK x \in S : \A y \in S : <<y, x>> \notin R
  BY <1>3
<1>5. ASSUME NEW k \in S PROVE x <= k
  <2>1. x \in Nat /\ k \in Nat /\ <<k, x>> \in Nat \X Nat
    OBVIOUS
  <2>2. ~(k < x)
    BY <1>2, <1>4, <2>1
  <2> QED BY <2>1, <2>2
<1> QED BY <1>5

\* What holds of 0, and of n + 1 when of n, holds of every number.
LEMMA SetInduction ==
  ASSUME NEW S, 0 \in S, \A n \in Nat : n \in S => n + 1 \in S
  PROVE  Nat \subseteq S
<1> SUFFICES ASSUME Nat \ S # {} PROVE FALSE
  OBVIOUS
<1>1. PICK n \in Nat \ S : \A k \in Nat \ S : n <= k
  BY LeastNat
<1>2. n # 0 /\ n - 1 \in Nat /\ n - 1 \in S
  BY <1>1
<1>3. (n - 1) + 1 \in S
  BY <1>2
<1> QED BY <1>1, <1>3

\* The powers of 2, as the numbers of subsets.
LEMMA Powers ==
  /\ 2 ^ 0 = 1
  /\ \A n \in Nat : 2 ^ n \in Nat /\ 2 ^ (n + 1) = 2 * 2 ^ n
<1>1. 2 ^ 0 = 1
  <2>1. Cardinality(SUBSET {}) = 2 ^ Cardinality({}) /\ Cardinality({}) = 0
    BY FS_SUBSET, FS_EmptySet
  <2>2. SUBSET {} = {{}}
    OBVIOUS
  <2> QED BY <2>1, <2>2, FS_Singleton
<1>2. ASSUME NEW n \in Nat PROVE 2 ^ n \in Nat /\ 2 ^ (n + 1) = 2 * 2 ^ n
  <2> DEFINE S == 1..n
             x == n + 1
             A == SUBSET S
             B == {T \cup {x} : T \in SUBSET S}
  <2>1. IsFiniteSet(S) /\ Cardinality(S) = n /\ x \notin S
    BY FS_Interval
  <2>2. IsFiniteSet(1..x) /\ Cardinality(1..x) = n + 1 /\ 1..x = S \cup {x}
    <3>1. 1 \in Int /\ x \in Int /\ ~(1 > x) /\ x - 1 + 1 = n + 1
      OBVIOUS
    <3>2. IsFiniteSet(1..x) /\ Cardinality(1..x) = n + 1
      <4> HIDE DEF x
      <4> QED BY <3>1, FS_Interval
    <3>3. 1..x = S \cup {x}
      OBVIOUS
    <3> QED BY <3>2, <3>3
  <2>3. IsFiniteSet(A) /\ Cardinality(A) = 2 ^ n
    BY <2>1, FS_SUBSET
  <2>4. Cardinality(SUBSET (1..x)) = 2 ^ (n + 1)
    BY <2>2, FS_SUBSET
  <2> HIDE DEF S, x
  <2>5. SUBSET (1..x) = A \cup B
    <3>1. ASSUME NEW T \in SUBSET (1..x) PROVE T \in A \cup B
      <4>1. CASE x \in T
        <5>1. T \ {x} \in SUBSET S /\ T = (T \ {x}) \cup {x}
          BY <2>2, <4>1
        <5> QED BY <5>1
      <4>2. CASE x \notin T
        BY <2>2, <4>2
      <4> QED BY <4>1, <4>2
    <3>2. ASSUME NEW T \in A \cup B PROVE T \in SUBSET (1..x)
      BY <2>2
    <3> QED BY <3>1, <3>2
  <2>6. A \cap B = {}
    BY <2>1
  <2>7. ExistsBijection(A, B)
    <3> DEFINE f == [T \in A |-> T \cup {x}]
    <3>1. f \in [A -> B]
      OBVIOUS
    <3>2. \A T, U \in A : f[T] = f[U] => T = U
      BY <2>1
    <3>3. \A U \in B : \E T \in A : f[T] = U
      OBVIOUS
    <3> HIDE DEF f, A, B
    <3>4. f \in Bijection(A, B)
      BY <3>1, <3>2, <3>3 DEF Bijection, Injection, Surjection, IsInjective
    <3> QED BY <3>4 DEF ExistsBijection
  <2>8. IsFiniteSet(B) /\ Cardinality(B) = 2 ^ n
    BY <2>3, <2>7, FS_Bijection
  <2> HIDE DEF A, B
  <2>9. Cardinality(A \cup B) = Cardinality(A) + Cardinality(B) - Cardinality(A \cap B)
    BY <2>3, <2>8, FS_Union
  <2>10. 2 ^ n \in Nat
    BY <2>3, FS_CardinalityType
  <2>11. Cardinality(A \cap B) = 0
    BY <2>6, FS_EmptySet
  <2>12. Cardinality(A \cup B) = 2 ^ n + 2 ^ n
    BY <2>3, <2>8, <2>9, <2>10, <2>11
  <2>13. Cardinality(A \cup B) = 2 ^ (n + 1)
    BY <2>4, <2>5
  <2> QED BY <2>10, <2>12, <2>13
<1> QED BY <1>1, <1>2

\* Powers of 2 are positive.
LEMMA Positive == \A n \in Nat : 2 ^ n \in Nat \ {0}
<1> DEFINE S == {n \in Nat : 2 ^ n \in Nat \ {0}}
<1>1. 0 \in S
  BY Powers
<1>2. \A n \in Nat : n \in S => n + 1 \in S
  BY Powers
<1> HIDE DEF S
<1>3. Nat \subseteq S
  BY <1>1, <1>2, SetInduction
<1> QED BY <1>3 DEF S

\* Powers of 2 multiply by adding the exponents.
LEMMA PowerSum ==
  ASSUME NEW a \in Nat, NEW b \in Nat
  PROVE  2 ^ (a + b) = 2 ^ a * 2 ^ b
<1> DEFINE S == {n \in Nat : 2 ^ (a + n) = 2 ^ a * 2 ^ n}
<1>1. 0 \in S
  BY Powers
<1>2. ASSUME NEW n \in Nat, n \in S PROVE n + 1 \in S
  <2>1. 2 ^ (a + (n + 1)) = 2 * 2 ^ (a + n)
    <3>1. a + n \in Nat /\ a + (n + 1) = (a + n) + 1
      OBVIOUS
    <3> QED BY <3>1, Powers
  <2>2. 2 ^ (n + 1) = 2 * 2 ^ n /\ 2 ^ n \in Nat /\ 2 ^ a \in Nat
    BY Powers
  <2>3. 2 ^ (a + n) = 2 ^ a * 2 ^ n
    BY <1>2
  <2>4. \A x, y \in Nat : 2 * (x * y) = x * (2 * y)
    OBVIOUS
  <2> QED BY <2>1, <2>2, <2>3, <2>4
<1> HIDE DEF S
<1>3. Nat \subseteq S
  BY <1>1, <1>2, SetInduction
<1> QED BY <1>3 DEF S

\* A function by recursion over the numbers up to a bound, a step F[n] for each.
LEMMA Recursion ==
  ASSUME NEW S, NEW base \in S, NEW N \in Nat, NEW F \in [1..N -> [S -> S]]
  PROVE  \E g \in [0..N -> S] : g[0] = base /\ \A n \in 1..N : g[n] = F[n][g[n - 1]]
<1> DEFINE Upto(k) == \E g \in [0..k -> S] : g[0] = base /\ \A n \in 1..k : g[n] = F[n][g[n - 1]]
           I == {k \in Nat : k <= N => Upto(k)}
<1>1. 0 \in I
  <2> DEFINE g == [i \in 0..0 |-> base]
  <2>1. g \in [0..0 -> S] /\ g[0] = base /\ \A n \in 1..0 : g[n] = F[n][g[n - 1]]
    OBVIOUS
  <2> HIDE DEF g
  <2> QED BY <2>1
<1>2. ASSUME NEW k \in Nat, k \in I PROVE k + 1 \in I
  <2> SUFFICES ASSUME k + 1 <= N PROVE Upto(k + 1)
    OBVIOUS
  <2>1. PICK g \in [0..k -> S] : g[0] = base /\ \A n \in 1..k : g[n] = F[n][g[n - 1]]
    BY <1>2
  <2>2. g[k] \in S /\ k + 1 \in 1..N
    OBVIOUS
  <2>3. F[k + 1][g[k]] \in S
    BY <2>2
  <2> DEFINE h == [i \in 0..(k + 1) |-> IF i = k + 1 THEN F[k + 1][g[k]] ELSE g[i]]
  <2>4. h \in [0..(k + 1) -> S] /\ h[0] = base /\ h[k + 1] = F[k + 1][g[k]]
          /\ \A i \in 0..k : h[i] = g[i]
    BY <2>1, <2>3
  <2> HIDE DEF h
  <2>5. \A n \in 1..(k + 1) : h[n] = F[n][h[n - 1]]
    <3> TAKE n \in 1..(k + 1)
    <3>1. CASE n = k + 1
      <4>1. h[k] = g[k] /\ n - 1 = k
        BY <2>4, <3>1
      <4> QED BY <2>4, <3>1, <4>1
    <3>2. CASE n # k + 1
      <4>1. n \in 1..k /\ n \in 0..k /\ n - 1 \in 0..k
        BY <3>2
      <4> QED BY <2>1, <2>4, <4>1
    <3> QED BY <3>1, <3>2
  <2> QED BY <2>4, <2>5
<1> HIDE DEF I
<1>3. Nat \subseteq I
  BY <1>1, <1>2, SetInduction
<1> QED BY <1>3 DEF I

-----------------------------------------------------------------------------
(* Words.                                                                  *)

\* A word is two halves.
LEMMA WordFacts ==
  /\ Low \in Nat /\ Low >= 2 /\ Word \in Nat /\ Word >= 2
  /\ Word = Low * Low /\ Low <= Word
  /\ 0 \in Words /\ 1 \in Words /\ Word - 1 \in Words
<1>1. Half \in Nat \ {0} /\ Half - 1 \in Nat /\ (Half - 1) + 1 = Half
  BY HalfAssumption
<1>2. 2 ^ Half = 2 * 2 ^ (Half - 1) /\ 2 ^ (Half - 1) \in Nat \ {0}
  BY <1>1, Powers, Positive
<1>3. Low \in Nat /\ Low >= 2
  BY <1>2 DEF Low
<1>4. Word = Low * Low
  <2>1. 2 * Half = Half + Half
    BY <1>1
  <2> QED BY <1>1, <2>1, PowerSum DEF Low, Word
<1>5. \A x \in Nat : x >= 2 => x * x \in Nat /\ x * x >= x
  <2> SUFFICES ASSUME NEW x \in Nat, x >= 2 PROVE x * x \in Nat /\ x * x >= x
    OBVIOUS
  <2>1. x * x = (x - 1) * x + x /\ (x - 1) * x >= 0
    OBVIOUS
  <2> QED BY <2>1
<1>6. Word \in Nat /\ Word >= Low
  BY <1>3, <1>4, <1>5
<1> QED BY <1>3, <1>4, <1>6 DEF Words

\* Quotients and remainders.
LEMMA Division ==
  ASSUME NEW a \in Nat, NEW b \in Nat \ {0}
  PROVE  a \div b \in 0..a /\ a % b \in 0..a /\ a % b < b
<1>1. a \div b \in Int /\ a % b \in 0..(b - 1) /\ a = b * (a \div b) + (a % b)
  OBVIOUS
<1> DEFINE q == a \div b
           r == a % b
<1> HIDE DEF q, r
<1>2. q \in Int /\ r \in 0..(b - 1) /\ a = b * q + r
  BY <1>1 DEF q, r
<1>3. q >= 0
  <2> SUFFICES ASSUME q <= -1 PROVE FALSE
    BY <1>2
  <2>1. b * q <= b * (-1)
    BY <1>2
  <2> QED BY <1>2, <2>1
<1>4. b * q >= q
  <2>1. (b - 1) * q >= 0 /\ b * q = (b - 1) * q + q
    BY <1>2, <1>3
  <2> QED BY <1>2, <1>3, <2>1
<1>5. q \in 0..a /\ r \in 0..a /\ r < b
  BY <1>2, <1>3, <1>4
<1> QED BY <1>5 DEF q, r

\* A remainder is below the modulus.
LEMMA Modulo ==
  ASSUME NEW x \in Int, NEW b \in Nat \ {0}
  PROVE  x % b \in 0..(b - 1)
OBVIOUS

\* Words are the numbers below Word.
LEMMA InWords ==
  /\ \A x \in Int : x % Word \in Words
  /\ \A w \in Words : w \in Nat /\ w \in Int /\ w < Word
  /\ \A w \in Words, b \in Nat \ {0} : w \div b \in Words /\ w % b \in Words
  /\ \A w \in Nat : w < Word => w \in Words
<1>1. Word \in Nat \ {0}
  BY WordFacts
<1>2. \A x \in Int : x % Word \in Words
  BY <1>1, Modulo DEF Words
<1>3. \A w \in Words : w \in Nat /\ w \in Int /\ w < Word
  BY <1>1 DEF Words
<1>4. ASSUME NEW w \in Words, NEW b \in Nat \ {0} PROVE w \div b \in Words /\ w % b \in Words
  <2>1. w \in Nat /\ w < Word
    BY <1>3
  <2>2. w \div b \in 0..w /\ w % b \in 0..w
    BY <2>1, Division
  <2> QED BY <1>1, <2>1, <2>2 DEF Words
<1> QED BY <1>1, <1>2, <1>3, <1>4 DEF Words

\* An immediate operand is extended to a word.
LEMMA ImmWord == ASSUME NEW n \in Int PROVE Imm(n) \in Words
<1>1. Low \in Nat \ {0} /\ Word \in Nat /\ Low <= Word
  BY WordFacts
<1>2. n % Low \in 0..(Low - 1)
  BY <1>1, Modulo
<1>3. PICK low \in 0..(Low - 1) : low = n % Low
  BY <1>2
<1>4. Imm(n) = IF 2 * low >= Low THEN Word - Low + low ELSE low
  BY <1>3 DEF Imm
<1> QED BY <1>1, <1>4 DEF Words

\* A bit is 0 or 1, and so is what an operation makes of two.
LEMMA BitIs ==
  /\ \A w \in Nat, i \in Nat : Bit(w, i) \in {0, 1}
  /\ \A x \in {0, 1}, y \in {0, 1}, op \in {"and", "or", "xor"} : BitOf(op, x, y) \in {0, 1}
  /\ \A x \in {0, 1} : BitOf("xor", x, x) = 0
<1>1. ASSUME NEW w \in Nat, NEW i \in Nat PROVE Bit(w, i) \in {0, 1}
  <2>1. 2 ^ i \in Nat \ {0}
    BY Positive
  <2>2. w \div 2 ^ i \in Nat
    BY <2>1, Division
  <2> QED BY <2>2, Modulo DEF Bit
<1>2. ASSUME NEW x \in {0, 1}, NEW y \in {0, 1}, NEW op \in {"and", "or", "xor"}
      PROVE  BitOf(op, x, y) \in {0, 1}
  <2>1. BitOf("and", x, y) \in {0, 1} /\ BitOf("or", x, y) \in {0, 1}
    BY DEF BitOf
  <2>2. BitOf("xor", x, y) \in {0, 1}
    BY Modulo DEF BitOf
  <2> QED BY <2>1, <2>2
<1>3. ASSUME NEW x \in {0, 1} PROVE BitOf("xor", x, x) = 0
  BY DEF BitOf
<1> QED BY <1>1, <1>2, <1>3

\* An operation on bits is the sum of its bits, by recursion over the width.
LEMMA BitSum ==
  ASSUME NEW op \in {"and", "or", "xor"}, NEW a \in Nat, NEW b \in Nat
  PROVE  \E low \in [0..(2 * Half) -> Nat] :
           /\ BitOp(op, a, b) = low[2 * Half] /\ low[0] = 0
           /\ \A n \in 1..(2 * Half) :
                low[n] = low[n - 1] + BitOf(op, Bit(a, n - 1), Bit(b, n - 1)) * 2 ^ (n - 1)
<1> DEFINE N == 2 * Half
           t(n) == BitOf(op, Bit(a, n - 1), Bit(b, n - 1)) * 2 ^ (n - 1)
           F == [n \in 1..N |-> [s \in Nat |-> s + t(n)]]
           L == CHOOSE g : g = [n \in 0..N |-> IF n = 0 THEN 0 ELSE g[n - 1] + t(n)]
<1>0. N \in Nat
  BY HalfAssumption
<1>1. ASSUME NEW n \in 1..N PROVE t(n) \in Nat
  <2>1. n - 1 \in Nat
    BY <1>0
  <2>2. BitOf(op, Bit(a, n - 1), Bit(b, n - 1)) \in {0, 1} /\ 2 ^ (n - 1) \in Nat
    BY <2>1, BitIs, Powers
  <2> QED BY <2>2
<1> HIDE DEF t, N
<1>2. F \in [1..N -> [Nat -> Nat]]
  BY <1>1
<1>3. PICK g \in [0..N -> Nat] : g[0] = 0 /\ \A n \in 1..N : g[n] = F[n][g[n - 1]]
  <2> HIDE DEF F
  <2>1. PICK S : S = Nat
    OBVIOUS
  <2>2. 0 \in S /\ F \in [1..N -> [S -> S]]
    BY <1>2, <2>1
  <2>3. \E g \in [0..N -> S] : g[0] = 0 /\ \A n \in 1..N : g[n] = F[n][g[n - 1]]
    BY <1>0, <2>2, Recursion
  <2> QED BY <2>1, <2>3
<1>4. \A n \in 1..N : g[n] = g[n - 1] + t(n)
  <2> TAKE n \in 1..N
  <2>1. g[n - 1] \in Nat
    BY <1>0
  <2> QED BY <1>3, <2>1
<1> HIDE DEF F
<1>5. g = [n \in 0..N |-> IF n = 0 THEN 0 ELSE g[n - 1] + t(n)]
  <2>1. \A n \in 0..N : n # 0 => n \in 1..N
    BY <1>0
  <2> QED BY <1>3, <1>4, <2>1
<1>6. L = [n \in 0..N |-> IF n = 0 THEN 0 ELSE L[n - 1] + t(n)]
  BY <1>5
<1>7. BitOp(op, a, b) = L[N]
  BY DEF BitOp, t, N
<1> HIDE DEF L
<1>8. L[0] = 0 /\ \A n \in 1..N : L[n] = L[n - 1] + t(n)
  <2>1. PICK M : M = [n \in 0..N |-> IF n = 0 THEN 0 ELSE L[n - 1] + t(n)]
    OBVIOUS
  <2>2. L = M
    BY <1>6, <2>1, Zenon
  <2>3. 0 \in 0..N /\ \A n \in 1..N : n \in 0..N /\ n # 0
    BY <1>0
  <2> QED BY <2>1, <2>2, <2>3
<1>9. L \in [0..N -> Nat]
  <2>1. L = [n \in 0..N |-> L[n]]
    BY <1>6
  <2> DEFINE I == {k \in Nat : k <= N => L[k] \in Nat}
  <2>2. 0 \in I
    BY <1>8
  <2>3. ASSUME NEW k \in Nat, k \in I PROVE k + 1 \in I
    <3> SUFFICES ASSUME k + 1 <= N PROVE L[k + 1] \in Nat
      OBVIOUS
    <3>1. L[k] \in Nat /\ k + 1 \in 1..N /\ (k + 1) - 1 = k
      BY <1>0, <2>3
    <3>2. L[k + 1] = L[k] + t(k + 1)
      BY <1>8, <3>1
    <3> QED BY <1>1, <3>1, <3>2
  <2> HIDE DEF I
  <2>4. Nat \subseteq I
    BY <2>2, <2>3, SetInduction
  <2>5. \A k \in 0..N : L[k] \in Nat
    BY <1>0, <2>4 DEF I
  <2> QED BY <2>1, <2>5
<1> QED BY <1>7, <1>8, <1>9 DEF t, N

\* An operation on the bits of words makes a word; a word xor itself is 0.
LEMMA BitWord ==
  ASSUME NEW op \in {"and", "or", "xor"}, NEW a \in Words, NEW b \in Words
  PROVE  BitOp(op, a, b) \in Words /\ BitOp("xor", a, a) = 0
<1>0. a \in Nat /\ b \in Nat /\ 2 * Half \in Nat
  BY InWords, HalfAssumption
<1>1. PICK low \in [0..(2 * Half) -> Nat] :
        /\ BitOp(op, a, b) = low[2 * Half] /\ low[0] = 0
        /\ \A n \in 1..(2 * Half) :
             low[n] = low[n - 1] + BitOf(op, Bit(a, n - 1), Bit(b, n - 1)) * 2 ^ (n - 1)
  BY <1>0, BitSum
<1> DEFINE I == {k \in Nat : k <= 2 * Half => low[k] < 2 ^ k}
<1>2. 0 \in I
  BY <1>1, Powers
<1>3. ASSUME NEW k \in Nat, k \in I PROVE k + 1 \in I
  <2> SUFFICES ASSUME k + 1 <= 2 * Half PROVE low[k + 1] < 2 ^ (k + 1)
    OBVIOUS
  <2>1. k + 1 \in 1..(2 * Half) /\ (k + 1) - 1 = k /\ k \in 0..(2 * Half)
    BY <1>0
  <2>2. PICK bit \in {0, 1} : bit = BitOf(op, Bit(a, k), Bit(b, k))
    BY <1>0, BitIs
  <2>3. low[k + 1] = low[k] + bit * 2 ^ k
    BY <1>1, <2>1, <2>2
  <2>4. 2 ^ k \in Nat /\ 2 ^ (k + 1) = 2 * 2 ^ k /\ low[k] \in Nat /\ low[k] < 2 ^ k
    BY <1>0, <1>3, <2>1, Powers
  <2>5. bit * 2 ^ k <= 2 ^ k /\ bit * 2 ^ k \in Nat
    BY <2>2, <2>4
  <2> QED BY <2>3, <2>4, <2>5
<1> HIDE DEF I
<1>4. Nat \subseteq I
  BY <1>2, <1>3, SetInduction
<1>5. BitOp(op, a, b) \in Words
  <2>1. 2 * Half \in I /\ low[2 * Half] \in Nat
    BY <1>0, <1>4
  <2>2. low[2 * Half] < 2 ^ (2 * Half)
    BY <1>0, <2>1 DEF I
  <2> QED BY <1>1, <2>1, <2>2, InWords DEF Word
<1>6. BitOp("xor", a, a) = 0
  <2>1. PICK zero \in [0..(2 * Half) -> Nat] :
          /\ BitOp("xor", a, a) = zero[2 * Half] /\ zero[0] = 0
          /\ \A n \in 1..(2 * Half) :
               zero[n] = zero[n - 1] + BitOf("xor", Bit(a, n - 1), Bit(a, n - 1)) * 2 ^ (n - 1)
    BY <1>0, BitSum
  <2> DEFINE J == {k \in Nat : k <= 2 * Half => zero[k] = 0}
  <2>2. 0 \in J
    BY <2>1
  <2>3. ASSUME NEW k \in Nat, k \in J PROVE k + 1 \in J
    <3> SUFFICES ASSUME k + 1 <= 2 * Half PROVE zero[k + 1] = 0
      OBVIOUS
    <3>1. k + 1 \in 1..(2 * Half) /\ (k + 1) - 1 = k /\ zero[k] = 0
      BY <1>0, <2>3
    <3>2. BitOf("xor", Bit(a, k), Bit(a, k)) = 0 /\ 2 ^ k \in Nat
      BY <1>0, BitIs, Powers
    <3> QED BY <2>1, <3>1, <3>2
  <2> HIDE DEF J
  <2>4. Nat \subseteq J
    BY <2>2, <2>3, SetInduction
  <2> QED BY <1>0, <2>1, <2>4 DEF J
<1> QED BY <1>5, <1>6

\* The arithmetic of words makes words.
LEMMA AluWord ==
  ASSUME NEW op \in AluOps, NEW a, NEW b \in Words, op # "mov" => a \in Words
  PROVE  Alu(op, a, b) \in Words
<1>0. Word \in Nat \ {0} /\ 0 \in Words /\ b \in Nat
  BY WordFacts, InWords
<1>1. CASE op = "mov"
  BY <1>1 DEF Alu
<1> SUFFICES ASSUME a \in Words, op # "mov" PROVE Alu(op, a, b) \in Words
  BY <1>1
<1>2. a \in Nat
  BY InWords
<1>3. PICK k \in Nat \ {0} : k = 2 ^ (b % (2 * Half))
  <2>1. PICK h \in Nat \ {0} : h = 2 * Half
    BY HalfAssumption
  <2>2. b % (2 * Half) \in Nat
    <3>1. b % h \in 0..(h - 1)
      <4>1. b \in Int
        BY <1>0
      <4> QED BY <4>1, Modulo
    <3> QED BY <2>1, <3>1
  <2> QED BY <2>2, Positive
<1>4. CASE op \in {"add", "sub", "mul", "neg"}
  <2>1. a + b \in Int /\ a - b \in Int /\ a * b \in Int /\ Word - a \in Int
    BY <1>0, <1>2
  <2>2. (a + b) % Word \in Words /\ (a - b) % Word \in Words /\ (a * b) % Word \in Words
          /\ (Word - a) % Word \in Words
    BY <2>1, InWords
  <2> QED BY <1>4, <2>2 DEF Alu
<1>5. CASE op = "div"
  <2>1. b # 0 => a \div b \in Words
    BY <1>0, InWords
  <2> QED BY <1>0, <1>5, <2>1 DEF Alu
<1>6. CASE op = "mod"
  <2>1. b # 0 => a % b \in Words
    BY <1>0, InWords
  <2> QED BY <1>6, <2>1 DEF Alu
<1>7. CASE op \in {"and", "or", "xor"}
  <2>1. BitOp(op, a, b) \in Words
    BY <1>7, BitWord
  <2> QED BY <1>7, <2>1 DEF Alu
<1>8. CASE op = "lsh"
  <2>1. a * k \in Int
    BY <1>2, <1>3
  <2>2. (a * k) % Word \in Words
    BY <2>1, InWords
  <2> QED BY <1>3, <1>8, <2>2 DEF Alu
<1>9. CASE op = "rsh"
  <2>1. a \div k \in Words
    BY <1>3, InWords
  <2> QED BY <1>3, <1>9, <2>1 DEF Alu
<1> QED BY <1>4, <1>5, <1>6, <1>7, <1>8, <1>9 DEF AluOps

\* The memory of a configuration.
IsMem(mem) == mem.null \in Nat /\ mem.cell \in [Words -> 0..(Low - 1)]

\* What is read from memory is a word.
LEMMA ReadWord ==
  ASSUME NEW mem, IsMem(mem), NEW a \in Words, NEW size
  PROVE  ReadMem(mem, a, size) \in Words
<1>0. Low \in Nat /\ Word \in Nat /\ Low <= Word /\ Word = Low * Low /\ 0 \in Words /\ a + 1 \in Int
  BY WordFacts, InWords
<1>1. (a + 1) % Word \in Words
  BY <1>0, InWords
<1>2. PICK x \in 0..(Low - 1), y \in 0..(Low - 1) : x = mem.cell[a] /\ y = mem.cell[(a + 1) % Word]
  BY <1>1 DEF IsMem
<1>3. x \in Words
  BY <1>0 DEF Words
<1>4. x + Low * y \in Words
  <2>1. Low * y <= Low * (Low - 1) /\ Low * (Low - 1) = Low * Low - Low /\ Low * y \in Nat
    BY <1>0
  <2> QED BY <1>0, <2>1 DEF Words
<1> QED BY <1>0, <1>2, <1>3, <1>4 DEF ReadMem

-----------------------------------------------------------------------------
(* The machine.                                                            *)

Regs     == [Registers -> Words \cup {Junk}]
Machines == [regs : Regs, stack : [Slots -> Words \cup {Junk}], skip : Nat,
             exit : BOOLEAN, bad : BOOLEAN]

Jumps == Conds \cup {"ja"}

\* Instructions, with the operands that their operation takes.
Ops   == AluOps \cup Jumps \cup {"arg", "ldx", "fill", "spill", "fp", "probe", "cast"}
Insns == [op : Ops, dst : Registers, imm : BOOLEAN, src : Int, off : Int \cup (Int \X {1, 2})]

Apt(i, mem) ==
  /\ i.op \in AluOps \cup Conds /\ ~i.imm => i.src \in Registers /\ i.op # "neg"
  /\ i.op \in Conds => i.off \in Nat \cup {ToExit} /\ (i.off = ToExit => i.op = "jeq")
  /\ i.op = "ja" => i.off \in Nat
  /\ i.op = "arg" => mem.args[i.src] \in Words
  /\ i.op = "ldx" => i.src \in Registers /\ i.off \in Int \X {1, 2}
  /\ i.op \in {"fill", "spill"} => i.src \in Slots
  /\ i.op = "cast" => i.src \in {2, 5}

Good(mem) == {i \in Insns : Apt(i, mem)}

\* The ranges of the machine's numbers.
LEMMA Ranges ==
  /\ Junk \notin Words /\ Junk \notin Nat
  /\ \A w \in Words : w # Junk
  /\ 0 \in Registers /\ ArgsReg \in Registers /\ BufSlot \in Slots
  /\ Allocatable \subseteq Registers /\ 0 \in Words
<1>1. Junk \notin Words
  BY DEF Junk, Words
<1> QED BY <1>1, WordFacts DEF Junk, Registers, ArgsReg, BufSlot, Slots, Allocatable

\* Writing a register keeps a machine a machine.
LEMMA MachineRegs ==
  ASSUME NEW x \in Machines, NEW r \in Registers, NEW w \in Words \cup {Junk}
  PROVE  /\ Put(x, r, w) \in Machines
         /\ Put(x, r, w) = [x EXCEPT !.regs = [x.regs EXCEPT ![r] = w]]
         /\ Put(x, r, w).regs[r] = w
         /\ \A q \in Registers : q # r => Put(x, r, w).regs[q] = x.regs[q]
         /\ Put(x, r, w).stack = x.stack /\ Put(x, r, w).skip = x.skip
         /\ Put(x, r, w).exit = x.exit /\ Put(x, r, w).bad = x.bad
<1>1. x.regs \in Regs
  BY DEF Machines
<1>2. PICK regs : regs = [x.regs EXCEPT ![r] = w]
  OBVIOUS
<1>3. regs \in Regs /\ regs[r] = w /\ \A q \in Registers : q # r => regs[q] = x.regs[q]
  BY <1>1, <1>2 DEF Regs
<1>4. Put(x, r, w) = [x EXCEPT !.regs = regs]
  BY <1>2 DEF Put
<1> QED BY <1>2, <1>3, <1>4 DEF Machines

\* So does a call.
LEMMA AfterCallRegs ==
  ASSUME NEW x \in Machines, NEW w \in Words \cup {Junk}, NEW n \in Nat
  PROVE  /\ AfterCall(x, w, n) \in Machines
         /\ AfterCall(x, w, n).regs[0] = w
         /\ \A q \in Registers : q # 0 /\ q \notin 1..n => AfterCall(x, w, n).regs[q] = x.regs[q]
         /\ AfterCall(x, w, n).stack = x.stack /\ AfterCall(x, w, n).skip = x.skip
         /\ AfterCall(x, w, n).exit = x.exit /\ AfterCall(x, w, n).bad = x.bad
<1>1. x.regs \in Regs
  BY DEF Machines
<1>2. PICK regs : regs = [r \in Registers |-> IF r = 0 THEN w ELSE IF r \in 1..n THEN Junk ELSE x.regs[r]]
  OBVIOUS
<1>3. /\ regs \in Regs /\ regs[0] = w
      /\ \A q \in Registers : q # 0 /\ q \notin 1..n => regs[q] = x.regs[q]
  BY <1>1, <1>2, Ranges DEF Regs
<1>4. AfterCall(x, w, n) = [x EXCEPT !.regs = regs]
  BY <1>2 DEF AfterCall
<1> QED BY <1>3, <1>4 DEF Machines

\* What a step executes leaves a machine; nothing but a jump leaves instructions
\* to skip, and nothing but a jump to the exit label leaves it there.
LEMMA ExecTyped ==
  ASSUME NEW x \in Machines, NEW mem, IsMem(mem), NEW i \in Good(mem),
         \A r \in Reads(i) : x.regs[r] # Junk
  PROVE  /\ Exec(x, i, mem) \in Machines
         /\ Exec(x, i, mem).bad = x.bad
         /\ Exec(x, i, mem).skip = x.skip \/ (i.op \in Jumps /\ i.off # ToExit /\ Exec(x, i, mem).skip = i.off)
         /\ Exec(x, i, mem).exit = x.exit \/ (i.op = "jeq" /\ i.off = ToExit)
<1> DEFINE y == Exec(x, i, mem)
           Fine == /\ y \in Machines /\ y.bad = x.bad
                   /\ y.skip = x.skip \/ (i.op \in Jumps /\ i.off # ToExit /\ y.skip = i.off)
                   /\ y.exit = x.exit \/ (i.op = "jeq" /\ i.off = ToExit)
<1> SUFFICES Fine
  OBVIOUS
<1>i. i \in Insns /\ Apt(i, mem) /\ i.dst \in Registers /\ i.op \in Ops /\ i.src \in Int /\ i.imm \in BOOLEAN
  BY DEF Good, Insns
<1>r. \A r \in Registers : x.regs[r] \in Words \cup {Junk}
  BY DEF Machines, Regs
<1>p. ASSUME NEW w \in Words \cup {Junk}, y = Put(x, i.dst, w) PROVE Fine
  BY <1>i, <1>p, MachineRegs
<1>1. CASE i.op \in AluOps
  <2>1. PICK b : b = IF i.imm THEN Imm(i.src) ELSE x.regs[i.src]
    OBVIOUS
  <2>2. b \in Words
    <3>1. CASE i.imm
      BY <1>i, <2>1, <3>1, ImmWord
    <3>2. CASE ~i.imm
      <4>1. i.src \in Registers /\ i.src \in Reads(i)
        BY <1>1, <1>i, <3>2 DEF Apt, Reads, AluOps
      <4> QED BY <1>r, <2>1, <3>2, <4>1
    <3> QED BY <3>1, <3>2
  <2>3. i.op # "mov" => x.regs[i.dst] \in Words
    <3>1. i.op # "mov" => i.dst \in Reads(i)
      BY <1>1 DEF Reads, AluOps
    <3> QED BY <1>i, <1>r, <3>1
  <2>4. Alu(i.op, x.regs[i.dst], b) \in Words
    BY <1>1, <2>2, <2>3, AluWord
  <2>5. y = Put(x, i.dst, Alu(i.op, x.regs[i.dst], b))
    BY <1>1, <2>1 DEF Exec, AluOps, Conds
  <2> HIDE DEF y
  <2> QED BY <1>p, <2>4, <2>5
<1>2. CASE i.op \in Conds
  <2>1. y \in {x, [x EXCEPT !.exit = TRUE], [x EXCEPT !.skip = i.off]}
    BY <1>2 DEF Exec, Conds, AluOps
  <2>2. y = [x EXCEPT !.exit = TRUE] => i.off = ToExit \/ y = x
    BY <1>2 DEF Exec, Conds, AluOps, Machines
  <2>3. y = [x EXCEPT !.skip = i.off] => i.off # ToExit \/ y = x \/ y = [x EXCEPT !.exit = TRUE]
    BY <1>2 DEF Exec, Conds, AluOps, Machines
  <2>4. i.off \in Nat \cup {ToExit} /\ (i.off = ToExit => i.op = "jeq")
    BY <1>2, <1>i DEF Apt
  <2> HIDE DEF y
  <2>5. CASE y = x
    BY <2>5
  <2>6. CASE y # x /\ y = [x EXCEPT !.exit = TRUE]
    BY <2>2, <2>4, <2>6 DEF Machines
  <2>7. CASE y # x /\ y # [x EXCEPT !.exit = TRUE] /\ y = [x EXCEPT !.skip = i.off]
    <3>1. i.off \in Nat /\ i.off # ToExit /\ i.op \in Jumps
      BY <1>2, <2>3, <2>4, <2>7 DEF Jumps
    <3> QED BY <2>7, <3>1 DEF Machines
  <2> QED BY <2>1, <2>5, <2>6, <2>7
<1>3. CASE i.op = "ja"
  <2>1. y = [x EXCEPT !.skip = i.off] /\ i.off \in Nat /\ i.off # ToExit
    BY <1>3, <1>i DEF Exec, Conds, AluOps, Apt, ToExit
  <2> HIDE DEF y
  <2> QED BY <1>3, <2>1 DEF Machines, Jumps
<1>4. CASE i.op = "arg"
  <2>1. y = Put(x, i.dst, mem.args[i.src]) /\ mem.args[i.src] \in Words
    BY <1>4, <1>i DEF Exec, Conds, AluOps, Apt
  <2> HIDE DEF y
  <2> QED BY <1>p, <2>1
<1>5. CASE i.op = "ldx"
  <2>1. PICK a : a = (x.regs[i.src] + i.off[1]) % Word
    OBVIOUS
  <2>2. a \in Words
    <3>1. i.src \in Registers /\ i.src \in Reads(i) /\ i.off[1] \in Int
      BY <1>5, <1>i DEF Apt, Reads, AluOps, Conds
    <3>2. x.regs[i.src] \in Int
      BY <1>r, <3>1, InWords
    <3> QED BY <2>1, <3>1, <3>2, InWords
  <2>3. PICK w : w = ReadMem(mem, a, i.off[2])
    OBVIOUS
  <2>4. y = Put(x, i.dst, w)
    BY <1>5, <2>1, <2>3 DEF Exec, Conds, AluOps
  <2>5. w \in Words
    BY <2>2, <2>3, ReadWord
  <2> HIDE DEF y
  <2> QED BY <1>p, <2>4, <2>5
<1>6. CASE i.op = "fp"
  <2>1. y = Put(x, i.dst, 0)
    BY <1>6 DEF Exec, Conds, AluOps
  <2> HIDE DEF y
  <2> QED BY <1>p, <2>1, Ranges
<1>7. CASE i.op = "spill"
  <2>1. y = [x EXCEPT !.stack[i.src] = x.regs[i.dst]]
    BY <1>7 DEF Exec, Conds, AluOps
  <2>2. i.src \in Slots /\ x.regs[i.dst] \in Words \cup {Junk}
    BY <1>7, <1>i, <1>r DEF Apt
  <2> HIDE DEF y
  <2> QED BY <2>1, <2>2 DEF Machines
<1>8. CASE i.op = "fill"
  <2>1. y = Put(x, i.dst, x.stack[i.src])
    BY <1>8 DEF Exec, Conds, AluOps
  <2>2. x.stack[i.src] \in Words \cup {Junk}
    BY <1>8, <1>i DEF Apt, Machines
  <2> HIDE DEF y
  <2> QED BY <1>p, <2>1, <2>2
<1>9. CASE i.op = "probe"
  <2>1. PICK z : z = AfterCall(x, 0, 5)
    OBVIOUS
  <2>2. PICK w : w = ReadMem(mem, x.regs[3], 2)
    OBVIOUS
  <2>3. y = [z EXCEPT !.stack[BufSlot] = w]
    BY <1>9, <2>1, <2>2 DEF Exec, Conds, AluOps
  <2>4. z \in Machines /\ z.skip = x.skip /\ z.exit = x.exit /\ z.bad = x.bad
    BY <2>1, AfterCallRegs, Ranges
  <2>5. w \in Words
    <3>1. 3 \in Reads(i) /\ 3 \in Registers
      BY <1>9 DEF Reads, AluOps, Conds, Registers
    <3>2. x.regs[3] \in Words
      BY <1>r, <3>1
    <3> QED BY <2>2, <3>2, ReadWord
  <2> HIDE DEF y
  <2> QED BY <2>3, <2>4, <2>5, Ranges DEF Machines
<1>10. CASE i.op = "cast"
  <2>1. y = AfterCall(x, x.regs[1], i.src) /\ i.src \in Nat
    BY <1>10, <1>i DEF Exec, Conds, AluOps, Apt
  <2>2. x.regs[1] \in Words \cup {Junk}
    BY <1>r DEF Registers
  <2> HIDE DEF y
  <2> QED BY <2>1, <2>2, AfterCallRegs
<1> QED BY <1>1, <1>2, <1>3, <1>4, <1>5, <1>6, <1>7, <1>8, <1>9, <1>10, <1>i DEF Ops, Jumps

\* One instruction: skipped, refused or executed.
LEMMA StepTyped ==
  ASSUME NEW x \in Machines, NEW mem, IsMem(mem), NEW i \in Good(mem)
  PROVE  /\ Step(x, i, mem) \in Machines
         /\ x.exit \/ x.bad => Step(x, i, mem) = x
         /\ ~x.exit /\ ~x.bad /\ x.skip > 0 => Step(x, i, mem) = [x EXCEPT !.skip = @ - 1]
         /\ ~x.exit /\ ~x.bad /\ x.skip = 0 /\ (\E r \in Reads(i) : x.regs[r] = Junk) =>
              Step(x, i, mem) = Bad(x)
         /\ ~x.exit /\ ~x.bad /\ x.skip = 0 /\ (\A r \in Reads(i) : x.regs[r] # Junk) =>
              Step(x, i, mem) = Exec(x, i, mem)
<1>1. CASE x.exit \/ x.bad
  BY <1>1 DEF Step
<1>2. CASE ~x.exit /\ ~x.bad /\ x.skip > 0
  <2>1. Step(x, i, mem) = [x EXCEPT !.skip = @ - 1]
    BY <1>2 DEF Step
  <2>2. x.skip \in Nat /\ x.skip - 1 \in Nat
    BY <1>2 DEF Machines
  <2> QED BY <1>2, <2>1, <2>2 DEF Machines
<1>3. CASE ~x.exit /\ ~x.bad /\ ~(x.skip > 0)
  <2>0. x.skip = 0
    BY <1>3 DEF Machines
  <2>1. CASE \E r \in Reads(i) : x.regs[r] = Junk
    <3>1. Step(x, i, mem) = Bad(x)
      BY <1>3, <2>1 DEF Step
    <3>2. Bad(x) \in Machines
      BY DEF Bad, Machines
    <3> QED BY <1>3, <2>0, <2>1, <3>1, <3>2
  <2>2. CASE \A r \in Reads(i) : x.regs[r] # Junk
    <3>1. Step(x, i, mem) = Exec(x, i, mem)
      BY <1>3, <2>2 DEF Step
    <3>2. Exec(x, i, mem) \in Machines
      BY <2>2, ExecTyped
    <3> QED BY <1>3, <2>0, <2>2, <3>1, <3>2
  <2> QED BY <2>1, <2>2
<1> QED BY <1>1, <1>2, <1>3

\* after is the machine after each of the instructions.
Runs(after, x, code, mem) ==
  /\ after \in [0..Len(code) -> Machines] /\ after[0] = x
  /\ \A k \in 1..Len(code) : after[k] = Step(after[k - 1], code[k], mem)

\* The machines along a code: one per instruction, by recursion.
LEMMA StepsRun ==
  ASSUME NEW x \in Machines, NEW mem, IsMem(mem), NEW code \in Seq(Good(mem))
  PROVE  \E after : Runs(after, x, code, mem) /\ Steps(x, code, mem) = after[Len(code)]
<1> DEFINE N == Len(code)
           F == [k \in 1..N |-> [s \in Machines |-> Step(s, code[k], mem)]]
           L == CHOOSE g : g = [k \in 0..N |-> IF k = 0 THEN x ELSE Step(g[k - 1], code[k], mem)]
<1>0. N \in Nat
  OBVIOUS
<1>1. \A k \in 1..N : code[k] \in Good(mem)
  OBVIOUS
<1> HIDE DEF N
<1>2. F \in [1..N -> [Machines -> Machines]]
  BY <1>1, StepTyped
<1>3. PICK g \in [0..N -> Machines] : g[0] = x /\ \A k \in 1..N : g[k] = F[k][g[k - 1]]
  <2> HIDE DEF F
  <2> QED BY <1>0, <1>2, Recursion
<1>4. \A k \in 1..N : g[k] = Step(g[k - 1], code[k], mem)
  <2> TAKE k \in 1..N
  <2>1. g[k - 1] \in Machines
    BY <1>0
  <2> QED BY <1>3, <2>1
<1> HIDE DEF F
<1>5. g = [k \in 0..N |-> IF k = 0 THEN x ELSE Step(g[k - 1], code[k], mem)]
  <2>1. \A k \in 0..N : k # 0 => k \in 1..N
    BY <1>0
  <2> QED BY <1>3, <1>4, <2>1
<1>6. L = [k \in 0..N |-> IF k = 0 THEN x ELSE Step(L[k - 1], code[k], mem)]
  BY <1>5
<1>7. Steps(x, code, mem) = L[N]
  BY DEF Steps, N
<1> HIDE DEF L
<1>8. L[0] = x /\ \A k \in 1..N : L[k] = Step(L[k - 1], code[k], mem)
  <2>1. PICK M : M = [k \in 0..N |-> IF k = 0 THEN x ELSE Step(L[k - 1], code[k], mem)]
    OBVIOUS
  <2>2. L = M
    BY <1>6, <2>1, Zenon
  <2>3. 0 \in 0..N /\ \A k \in 1..N : k \in 0..N /\ k # 0
    BY <1>0
  <2> QED BY <2>1, <2>2, <2>3
<1>9. L \in [0..N -> Machines]
  <2>1. L = [k \in 0..N |-> L[k]]
    BY <1>6
  <2> DEFINE I == {k \in Nat : k <= N => L[k] \in Machines}
  <2>2. 0 \in I
    BY <1>8
  <2>3. ASSUME NEW k \in Nat, k \in I PROVE k + 1 \in I
    <3> SUFFICES ASSUME k + 1 <= N PROVE L[k + 1] \in Machines
      OBVIOUS
    <3>1. L[k] \in Machines /\ k + 1 \in 1..N /\ (k + 1) - 1 = k
      BY <1>0, <2>3
    <3>2. L[k + 1] = Step(L[k], code[k + 1], mem)
      BY <1>8, <3>1
    <3> QED BY <1>1, <3>1, <3>2, StepTyped
  <2> HIDE DEF I
  <2>4. Nat \subseteq I
    BY <2>2, <2>3, SetInduction
  <2>5. \A k \in 0..N : L[k] \in Machines
    BY <1>0, <2>4 DEF I
  <2> QED BY <2>1, <2>5
<1>10. Runs(L, x, code, mem)
  BY <1>8, <1>9 DEF Runs, N
<1> QED BY <1>7, <1>10 DEF N

\* The instructions determine what each leaves.
Follows(f, code, mem, n) == \A k \in 1..n : f[k] = Step(f[k - 1], code[k], mem)

\* There is one such sequence of machines.
LEMMA RunOnly ==
  ASSUME NEW mem, NEW code, NEW n \in Nat, NEW f, NEW g,
         f[0] = g[0], Follows(f, code, mem, n), Follows(g, code, mem, n)
  PROVE  f[n] = g[n]
<1> USE DEF Follows
<1> DEFINE I == {k \in Nat : k <= n => f[k] = g[k]}
<1>1. 0 \in I
  OBVIOUS
<1>2. ASSUME NEW k \in Nat, k \in I PROVE k + 1 \in I
  <2> SUFFICES ASSUME k + 1 <= n PROVE f[k + 1] = g[k + 1]
    OBVIOUS
  <2>1. f[k] = g[k] /\ k + 1 \in 1..n /\ (k + 1) - 1 = k
    BY <1>2
  <2> QED BY <2>1
<1> HIDE DEF I
<1>3. Nat \subseteq I
  BY <1>1, <1>2, SetInduction
<1> QED BY <1>3 DEF I

\* No instruction, and one.
LEMMA StepsOne ==
  ASSUME NEW x \in Machines, NEW mem, IsMem(mem)
  PROVE  /\ Steps(x, <<>>, mem) = x
         /\ \A i \in Good(mem) : Steps(x, <<i>>, mem) = Step(x, i, mem)
<1>1. Steps(x, <<>>, mem) = x
  <2>1. <<>> \in Seq(Good(mem)) /\ Len(<<>>) = 0
    OBVIOUS
  <2>2. PICK after : Runs(after, x, <<>>, mem) /\ Steps(x, <<>>, mem) = after[0]
    BY <2>1, StepsRun
  <2> QED BY <2>2 DEF Runs
<1>2. ASSUME NEW i \in Good(mem) PROVE Steps(x, <<i>>, mem) = Step(x, i, mem)
  <2>1. <<i>> \in Seq(Good(mem)) /\ Len(<<i>>) = 1 /\ <<i>>[1] = i
    OBVIOUS
  <2>2. PICK after : Runs(after, x, <<i>>, mem) /\ Steps(x, <<i>>, mem) = after[1]
    BY <2>1, StepsRun
  <2>3. after[0] = x /\ after[1] = Step(after[1 - 1], <<i>>[1], mem)
    BY <2>1, <2>2 DEF Runs
  <2> QED BY <2>1, <2>2, <2>3
<1> QED BY <1>1, <1>2

\* Code makes a machine of a machine.
LEMMA StepsTyped ==
  ASSUME NEW x \in Machines, NEW mem, IsMem(mem), NEW code \in Seq(Good(mem))
  PROVE  Steps(x, code, mem) \in Machines
<1>1. PICK after : Runs(after, x, code, mem) /\ Steps(x, code, mem) = after[Len(code)]
  BY StepsRun
<1>2. Len(code) \in 0..Len(code)
  OBVIOUS
<1> QED BY <1>1, <1>2 DEF Runs

\* Code after code.
LEMMA StepsJoin ==
  ASSUME NEW x \in Machines, NEW mem, IsMem(mem),
         NEW s \in Seq(Good(mem)), NEW t \in Seq(Good(mem))
  PROVE  Steps(x, s \o t, mem) = Steps(Steps(x, s, mem), t, mem)
<1> DEFINE st == s \o t
           a == Len(s)
           b == Len(t)
<1>1. /\ st \in Seq(Good(mem)) /\ Len(st) = a + b /\ a \in Nat /\ b \in Nat
      /\ \A k \in 1..a : st[k] = s[k]
      /\ \A k \in 1..b : st[a + k] = t[k]
  <2>1. PICK S : S = Good(mem)
    OBVIOUS
  <2>2. s \in Seq(S) /\ t \in Seq(S)
    BY <2>1
  <2>3. st \in Seq(S) /\ Len(st) = a + b /\ a \in Nat /\ b \in Nat
    BY <2>2
  <2>4. \A k \in 1..a : st[k] = s[k]
    BY <2>2
  <2>5. \A k \in 1..b : st[a + k] = t[k]
    BY <2>2
  <2> QED BY <2>1, <2>3, <2>4, <2>5
<1>2. PICK f : Runs(f, x, st, mem) /\ Steps(x, st, mem) = f[a + b]
  <2> HIDE DEF st, a, b
  <2>1. PICK f : Runs(f, x, st, mem) /\ Steps(x, st, mem) = f[Len(st)]
    BY <1>1, StepsRun
  <2> QED BY <1>1, <2>1
<1>3. PICK g : Runs(g, x, s, mem) /\ Steps(x, s, mem) = g[a]
  BY StepsRun
<1>4. PICK h : Runs(h, Steps(x, s, mem), t, mem) /\ Steps(Steps(x, s, mem), t, mem) = h[b]
  BY StepsRun, StepsTyped
<1> HIDE DEF st, a, b
<1>5. f[a] = g[a]
  <2>1. f[0] = g[0] /\ \A k \in 1..a : g[k] = Step(g[k - 1], s[k], mem)
    BY <1>2, <1>3 DEF Runs, a
  <2>2. \A k \in 1..a : f[k] = Step(f[k - 1], s[k], mem)
    <3>1. \A k \in 1..a : k \in 1..(a + b)
      BY <1>1
    <3> QED BY <1>1, <1>2, <3>1 DEF Runs
  <2>3. Follows(f, s, mem, a) /\ Follows(g, s, mem, a)
    BY <2>1, <2>2 DEF Follows
  <2> QED BY <1>1, <2>1, <2>3, RunOnly
<1> DEFINE e == [k \in 0..b |-> f[a + k]]
<1>6. e[b] = h[b]
  <2>1. e[0] = h[0]
    <3>1. e[0] = f[a]
      BY <1>1
    <3> QED BY <1>3, <1>4, <1>5, <3>1 DEF Runs
  <2>2. \A k \in 1..b : h[k] = Step(h[k - 1], t[k], mem)
    BY <1>4 DEF Runs, b
  <2>3. \A k \in 1..b : e[k] = Step(e[k - 1], t[k], mem)
    <3> TAKE k \in 1..b
    <3>1. a + k \in 1..(a + b) /\ (a + k) - 1 = a + (k - 1) /\ k - 1 \in 0..b /\ k \in 0..b
      BY <1>1
    <3>2. f[a + k] = Step(f[a + (k - 1)], st[a + k], mem)
      BY <1>1, <1>2, <3>1 DEF Runs
    <3> QED BY <1>1, <3>1, <3>2
  <2> HIDE DEF e
  <2>4. Follows(e, t, mem, b) /\ Follows(h, t, mem, b)
    BY <2>2, <2>3 DEF Follows
  <2> QED BY <1>1, <2>1, <2>4, RunOnly
<1>7. e[b] = f[a + b]
  BY <1>1
<1> QED BY <1>2, <1>4, <1>6, <1>7 DEF st

\* Code whose jumps land in it or behind it.
Lands(i, room) == i.op \in Jumps /\ i.off # ToExit => i.off <= room
Block(mem)     == {code \in Seq(Good(mem)) : \A k \in 1..Len(code) : Lands(code[k], Len(code) - k)}

\* After code whose jumps land in it or behind it there is nothing left to skip,
\* and it leaves only by a jump to the exit label.
LEMMA BlockRun ==
  ASSUME NEW x \in Machines, NEW mem, IsMem(mem), NEW code \in Block(mem), x.skip = 0
  PROVE  /\ Steps(x, code, mem) \in Machines /\ Steps(x, code, mem).skip = 0
         /\ Steps(x, code, mem).exit =>
              x.exit \/ \E k \in DOMAIN code : code[k].op = "jeq" /\ code[k].off = ToExit
<1> DEFINE N == Len(code)
           Exits(k) == \E n \in 1..k : code[n].op = "jeq" /\ code[n].off = ToExit
<1>1. /\ code \in Seq(Good(mem)) /\ N \in Nat /\ DOMAIN code = 1..N
      /\ \A k \in 1..N : code[k] \in Good(mem) /\ Lands(code[k], N - k)
  BY DEF Block
<1>2. PICK after : Runs(after, x, code, mem) /\ Steps(x, code, mem) = after[N]
  BY <1>1, StepsRun
<1>3. /\ after \in [0..N -> Machines] /\ after[0] = x
      /\ \A k \in 1..N : after[k] = Step(after[k - 1], code[k], mem)
  BY <1>2 DEF Runs
<1> HIDE DEF N
<1> DEFINE I == {k \in Nat : k <= N => /\ after[k].skip <= N - k
                                       /\ after[k].exit \/ after[k].bad => after[k].skip = 0
                                       /\ after[k].exit => x.exit \/ Exits(k)}
<1>4. 0 \in I
  BY <1>1, <1>3
<1>5. ASSUME NEW k \in Nat, k \in I PROVE k + 1 \in I
  <2> SUFFICES ASSUME k + 1 <= N
               PROVE  /\ after[k + 1].skip <= N - (k + 1)
                      /\ after[k + 1].exit \/ after[k + 1].bad => after[k + 1].skip = 0
                      /\ after[k + 1].exit => x.exit \/ Exits(k + 1)
    OBVIOUS
  <2>0. PICK n \in 1..N : n = k + 1 /\ n - 1 = k
    BY <1>1
  <2>1. PICK y \in Machines : y = after[k]
    BY <1>1, <1>3
  <2>2. PICK i \in Good(mem) : i = code[n] /\ Lands(i, N - n)
    BY <1>1
  <2>3. PICK z \in Machines : z = Step(y, i, mem) /\ z = after[n]
    BY <1>3, <2>0, <2>1, <2>2
  <2>4. /\ y.skip <= N - k /\ y.skip \in Nat /\ (y.exit => x.exit \/ Exits(k))
        /\ y.exit \/ y.bad => y.skip = 0
    <3>1. k <= N /\ y.skip \in Nat
      BY <1>1, <2>1 DEF Machines
    <3>2. /\ after[k].skip <= N - k /\ (after[k].exit => x.exit \/ Exits(k))
          /\ after[k].exit \/ after[k].bad => after[k].skip = 0
      BY <1>5, <3>1
    <3> QED BY <2>1, <3>1, <3>2
  <2>5. Exits(k) => Exits(n)
    <3>1. \A j \in 1..k : j \in 1..n
      BY <2>0
    <3> QED BY <3>1
  <2>6. i.op = "jeq" /\ i.off = ToExit => Exits(n)
    BY <2>2
  <2> HIDE DEF Exits
  <2> SUFFICES z.skip <= N - n /\ (z.exit \/ z.bad => z.skip = 0) /\ (z.exit => x.exit \/ Exits(n))
    BY <2>0, <2>3
  <2>7. CASE y.exit \/ y.bad
    <3>1. z = y
      BY <2>3, <2>7, StepTyped
    <3> QED BY <1>1, <2>0, <2>4, <2>5, <2>7, <3>1
  <2>8. CASE ~y.exit /\ ~y.bad /\ y.skip > 0
    <3>1. z = [y EXCEPT !.skip = @ - 1]
      BY <2>3, <2>8, StepTyped
    <3>2. z.skip = y.skip - 1 /\ z.exit = y.exit /\ z.bad = y.bad
      BY <3>1 DEF Machines
    <3> QED BY <1>1, <2>0, <2>4, <2>5, <2>8, <3>2
  <2>9. CASE ~y.exit /\ ~y.bad /\ y.skip = 0 /\ \E r \in Reads(i) : y.regs[r] = Junk
    <3>1. z = Bad(y)
      BY <2>3, <2>9, StepTyped
    <3>2. z.skip = y.skip /\ z.exit = y.exit
      BY <3>1 DEF Machines, Bad
    <3> QED BY <1>1, <2>0, <2>9, <3>2
  <2>10. CASE ~y.exit /\ ~y.bad /\ y.skip = 0 /\ \A r \in Reads(i) : y.regs[r] # Junk
    <3>1. z = Exec(y, i, mem)
      BY <2>3, <2>10, StepTyped
    <3>2. /\ z.skip = 0 \/ (i.op \in Jumps /\ i.off # ToExit /\ z.skip = i.off)
          /\ ~z.exit \/ (i.op = "jeq" /\ i.off = ToExit /\ z.skip = 0)
          /\ ~z.bad
      <4>1. /\ z.skip = y.skip \/ (i.op \in Jumps /\ i.off # ToExit /\ z.skip = i.off)
            /\ z.exit = y.exit \/ (i.op = "jeq" /\ i.off = ToExit)
            /\ z.bad = y.bad
        BY <2>10, <3>1, ExecTyped
      <4> QED BY <2>10, <4>1
    <3>3. z.skip <= N - n
      BY <1>1, <2>2, <3>2 DEF Lands
    <3> QED BY <2>6, <3>2, <3>3
  <2> QED BY <2>4, <2>7, <2>8, <2>9, <2>10
<1> HIDE DEF I
<1>6. Nat \subseteq I
  BY <1>4, <1>5, SetInduction
<1>7. after[N] \in Machines /\ after[N].skip <= N - N /\ (after[N].exit => x.exit \/ Exits(N))
  BY <1>1, <1>3, <1>6 DEF I
<1>8. after[N].skip = 0
  BY <1>1, <1>7 DEF Machines
<1> QED BY <1>1, <1>2, <1>7, <1>8

\* Such code after such code.
LEMMA BlockJoin ==
  ASSUME NEW mem, NEW s \in Block(mem), NEW t \in Block(mem)
  PROVE  s \o t \in Block(mem)
<1> DEFINE st == s \o t
           a == Len(s)
           b == Len(t)
<1>1. /\ st \in Seq(Good(mem)) /\ Len(st) = a + b /\ a \in Nat /\ b \in Nat
      /\ \A k \in 1..a : st[k] = s[k]
      /\ \A k \in 1..b : st[a + k] = t[k]
  BY DEF Block
<1>2. /\ \A k \in 1..a : Lands(s[k], a - k) /\ s[k] \in Good(mem)
      /\ \A k \in 1..b : Lands(t[k], b - k) /\ t[k] \in Good(mem)
  BY DEF Block
<1> HIDE DEF st, a, b
<1>3. \A k \in 1..(a + b) : Lands(st[k], (a + b) - k)
  <2> TAKE k \in 1..(a + b)
  <2>1. CASE k \in 1..a
    <3>1. Lands(s[k], a - k) /\ s[k] \in Insns /\ Apt(s[k], mem)
      BY <1>2, <2>1 DEF Good
    <3>2. s[k].op \in Jumps /\ s[k].off # ToExit => s[k].off \in Nat
      BY <3>1 DEF Apt, Jumps
    <3> QED BY <1>1, <2>1, <3>1, <3>2 DEF Lands
  <2>2. CASE k \notin 1..a
    <3>1. k - a \in 1..b /\ a + (k - a) = k /\ b - (k - a) = (a + b) - k
      BY <1>1, <2>2
    <3> QED BY <1>1, <1>2, <3>1
  <2> QED BY <2>1, <2>2
<1>4. st \in Block(mem)
  BY <1>1, <1>3 DEF Block
<1> QED BY <1>4 DEF st

\* Code written out.
LEMMA BlockOf ==
  ASSUME NEW mem
  PROVE  /\ <<>> \in Block(mem)
         /\ \A a \in Good(mem) : Lands(a, 0) => <<a>> \in Block(mem)
         /\ \A a, b \in Good(mem) : Lands(a, 1) /\ Lands(b, 0) => <<a, b>> \in Block(mem)
         /\ \A a, b, c \in Good(mem) :
              Lands(a, 2) /\ Lands(b, 1) /\ Lands(c, 0) => <<a, b, c>> \in Block(mem)
         /\ \A a, b, c, d \in Good(mem) :
              Lands(a, 3) /\ Lands(b, 2) /\ Lands(c, 1) /\ Lands(d, 0) => <<a, b, c, d>> \in Block(mem)
         /\ \A a, b, c, d, e \in Good(mem) :
              Lands(a, 4) /\ Lands(b, 3) /\ Lands(c, 2) /\ Lands(d, 1) /\ Lands(e, 0) =>
                <<a, b, c, d, e>> \in Block(mem)
<1>0. <<>> \in Block(mem)
  BY DEF Block
<1>1. ASSUME NEW a \in Good(mem), Lands(a, 0) PROVE <<a>> \in Block(mem)
  BY <1>1 DEF Block
<1>2. ASSUME NEW a \in Good(mem), NEW b \in Good(mem), Lands(a, 1), Lands(b, 0)
      PROVE <<a, b>> \in Block(mem)
  <2> DEFINE s == <<a, b>>
  <2>1. s \in Seq(Good(mem)) /\ Len(s) = 2 /\ s[1] = a /\ s[2] = b
    OBVIOUS
  <2> HIDE DEF s
  <2>2. \A k \in 1..2 : Lands(s[k], 2 - k)
    BY <1>2, <2>1
  <2>3. s \in Block(mem)
    BY <2>1, <2>2 DEF Block
  <2> QED BY <2>3 DEF s
<1>3. ASSUME NEW a \in Good(mem), NEW b \in Good(mem), NEW c \in Good(mem),
             Lands(a, 2), Lands(b, 1), Lands(c, 0)
      PROVE <<a, b, c>> \in Block(mem)
  <2> DEFINE s == <<a, b, c>>
  <2>1. s \in Seq(Good(mem)) /\ Len(s) = 3 /\ s[1] = a /\ s[2] = b /\ s[3] = c
    OBVIOUS
  <2> HIDE DEF s
  <2>2. \A k \in 1..3 : Lands(s[k], 3 - k)
    BY <1>3, <2>1
  <2>3. s \in Block(mem)
    BY <2>1, <2>2 DEF Block
  <2> QED BY <2>3 DEF s
<1>4. ASSUME NEW a \in Good(mem), NEW b \in Good(mem), NEW c \in Good(mem), NEW d \in Good(mem),
             Lands(a, 3), Lands(b, 2), Lands(c, 1), Lands(d, 0)
      PROVE <<a, b, c, d>> \in Block(mem)
  <2> DEFINE s == <<a, b, c, d>>
  <2>1. s \in Seq(Good(mem)) /\ Len(s) = 4 /\ s[1] = a /\ s[2] = b /\ s[3] = c /\ s[4] = d
    OBVIOUS
  <2> HIDE DEF s
  <2>2. \A k \in 1..4 : Lands(s[k], 4 - k)
    BY <1>4, <2>1
  <2>3. s \in Block(mem)
    BY <2>1, <2>2 DEF Block
  <2> QED BY <2>3 DEF s
<1>5. ASSUME NEW a \in Good(mem), NEW b \in Good(mem), NEW c \in Good(mem), NEW d \in Good(mem),
             NEW e \in Good(mem),
             Lands(a, 4), Lands(b, 3), Lands(c, 2), Lands(d, 1), Lands(e, 0)
      PROVE <<a, b, c, d, e>> \in Block(mem)
  <2> DEFINE s == <<a, b, c, d, e>>
  <2>1. s \in Seq(Good(mem)) /\ Len(s) = 5 /\ s[1] = a /\ s[2] = b /\ s[3] = c /\ s[4] = d /\ s[5] = e
    OBVIOUS
  <2> HIDE DEF s
  <2>2. \A k \in 1..5 : Lands(s[k], 5 - k)
    BY <1>5, <2>1
  <2>3. s \in Block(mem)
    BY <2>1, <2>2 DEF Block
  <2> QED BY <2>3 DEF s
<1> QED BY <1>0, <1>1, <1>2, <1>3, <1>4, <1>5

\* After a jump to the exit label nothing runs.
LEMMA Stopped ==
  ASSUME NEW x \in Machines, NEW mem, IsMem(mem), NEW code \in Seq(Good(mem)), x.exit \/ x.bad
  PROVE  Steps(x, code, mem) = x
<1>1. PICK after : Runs(after, x, code, mem) /\ Steps(x, code, mem) = after[Len(code)]
  BY StepsRun
<1> DEFINE N == Len(code)
           I == {k \in Nat : k <= N => after[k] = x}
<1>2. /\ N \in Nat /\ after[0] = x /\ \A k \in 1..N : code[k] \in Good(mem)
      /\ \A k \in 1..N : after[k] = Step(after[k - 1], code[k], mem)
  BY <1>1 DEF Runs
<1> HIDE DEF N
<1>3. 0 \in I
  BY <1>2
<1>4. ASSUME NEW k \in Nat, k \in I PROVE k + 1 \in I
  <2> SUFFICES ASSUME k + 1 <= N PROVE after[k + 1] = x
    OBVIOUS
  <2>1. after[k] = x /\ k + 1 \in 1..N /\ (k + 1) - 1 = k
    BY <1>2, <1>4
  <2>2. after[k + 1] = Step(x, code[k + 1], mem)
    BY <1>2, <2>1
  <2> QED BY <1>2, <2>1, <2>2, StepTyped
<1> HIDE DEF I
<1>5. Nat \subseteq I
  BY <1>3, <1>4, SetInduction
<1>6. after[N] = x
  BY <1>2, <1>5 DEF I
<1> QED BY <1>1, <1>6 DEF N

\* The code of an operator: arithmetic and jumps within, over the registers R.
Plain(mem, R) == {i \in Good(mem) : i.op \in AluOps \cup Jumps /\ i.off # ToExit /\ Reads(i) \subseteq R}
Work(mem, R)  == {code \in Block(mem) : \A k \in 1..Len(code) : code[k] \in Plain(mem, R)}

Holding(x, R) == \A r \in R : x.regs[r] # Junk

\* One instruction over registers that hold words.
LEMMA PlainExec ==
  ASSUME NEW x \in Machines, NEW mem, IsMem(mem), NEW i \in Good(mem), i.op \in AluOps \cup Jumps,
         \A r \in Reads(i) : x.regs[r] # Junk
  PROVE  /\ \A r \in Registers : x.regs[r] # Junk => Exec(x, i, mem).regs[r] # Junk
         /\ i.op \in AluOps => Exec(x, i, mem).regs[i.dst] # Junk
<1> DEFINE y == Exec(x, i, mem)
<1>i. i \in Insns /\ Apt(i, mem) /\ i.dst \in Registers /\ i.op \in Ops /\ i.src \in Int /\ i.imm \in BOOLEAN
  BY DEF Good, Insns
<1>r. \A r \in Registers : x.regs[r] \in Words \cup {Junk}
  BY DEF Machines, Regs
<1>1. CASE i.op \in AluOps
  <2>1. PICK b : b = IF i.imm THEN Imm(i.src) ELSE x.regs[i.src]
    OBVIOUS
  <2>2. b \in Words
    <3>1. CASE i.imm
      BY <1>i, <2>1, <3>1, ImmWord
    <3>2. CASE ~i.imm
      <4>1. i.src \in Registers /\ i.src \in Reads(i)
        BY <1>1, <1>i, <3>2 DEF Apt, Reads, AluOps
      <4> QED BY <1>r, <2>1, <3>2, <4>1
    <3> QED BY <3>1, <3>2
  <2>3. i.op # "mov" => x.regs[i.dst] \in Words
    <3>1. i.op # "mov" => i.dst \in Reads(i)
      BY <1>1 DEF Reads, AluOps
    <3> QED BY <1>i, <1>r, <3>1
  <2>4. PICK w \in Words : w = Alu(i.op, x.regs[i.dst], b)
    BY <1>1, <2>2, <2>3, AluWord
  <2>5. y = Put(x, i.dst, w)
    BY <1>1, <2>1, <2>4 DEF Exec, AluOps, Conds
  <2> HIDE DEF y
  <2>6. y.regs[i.dst] = w /\ \A q \in Registers : q # i.dst => y.regs[q] = x.regs[q]
    BY <1>i, <2>5, MachineRegs
  <2>7. w # Junk
    BY Ranges
  <2> QED BY <2>6, <2>7 DEF y
<1>2. CASE i.op \in Jumps
  <2>1. y \in {x, [x EXCEPT !.exit = TRUE], [x EXCEPT !.skip = i.off]}
    BY <1>2 DEF Exec, Jumps, Conds, AluOps
  <2> HIDE DEF y
  <2>2. y.regs = x.regs
    BY <2>1 DEF Machines
  <2>3. i.op \notin AluOps
    BY <1>2 DEF Jumps, Conds, AluOps
  <2> QED BY <2>2, <2>3 DEF y
<1> QED BY <1>1, <1>2

\* Code over registers that hold words reads nothing that does not, does not
\* leave, and no register that held a word ceases to.
LEMMA WorkRun ==
  ASSUME NEW x \in Machines, NEW mem, IsMem(mem), NEW R \in SUBSET Registers,
         NEW code \in Work(mem, R), x.skip = 0, ~x.bad, ~x.exit => Holding(x, R)
  PROVE  /\ ~Steps(x, code, mem).bad /\ Steps(x, code, mem).exit = x.exit
         /\ \A r \in Registers : x.regs[r] # Junk => Steps(x, code, mem).regs[r] # Junk
<1>0. code \in Seq(Good(mem))
  BY DEF Work, Block
<1>1. CASE x.exit
  BY <1>0, <1>1, Stopped
<1>2. CASE ~x.exit
  <2> DEFINE N == Len(code)
             Sane(y) == ~y.bad /\ ~y.exit /\ \A r \in Registers : x.regs[r] # Junk => y.regs[r] # Junk
  <2>1. PICK after : Runs(after, x, code, mem) /\ Steps(x, code, mem) = after[N]
    BY <1>0, StepsRun
  <2> DEFINE I == {k \in Nat : k <= N => Sane(after[k])}
  <2>2. /\ N \in Nat /\ after \in [0..N -> Machines] /\ after[0] = x
        /\ \A k \in 1..N : code[k] \in Plain(mem, R) /\ after[k] = Step(after[k - 1], code[k], mem)
    BY <1>0, <2>1 DEF Runs, Work
  <2> HIDE DEF N
  <2>3. 0 \in I
    BY <1>2, <2>2
  <2>4. ASSUME NEW k \in Nat, k \in I PROVE k + 1 \in I
    <3> SUFFICES ASSUME k + 1 <= N PROVE Sane(after[k + 1])
      OBVIOUS
    <3>0. k \in 0..N /\ k + 1 \in 1..N /\ (k + 1) - 1 = k
      BY <2>2
    <3>1. PICK y \in Machines : y = after[k] /\ Sane(y)
      BY <2>2, <2>4, <3>0
    <3>2. PICK i \in Plain(mem, R) : i = code[k + 1]
      BY <2>2, <3>0
    <3>3. i \in Good(mem) /\ i.op \in AluOps \cup Jumps /\ i.off # ToExit /\ Reads(i) \subseteq R
      BY DEF Plain
    <3>4. PICK z : z = Step(y, i, mem) /\ z = after[k + 1]
      BY <2>2, <3>0, <3>1, <3>2
    <3>5. \A r \in Reads(i) : y.regs[r] # Junk
      BY <1>2, <3>1, <3>3 DEF Holding
    <3>6. CASE y.skip > 0
      <4>1. z = [y EXCEPT !.skip = @ - 1]
        BY <3>1, <3>3, <3>4, <3>6, StepTyped
      <4>2. z.bad = y.bad /\ z.exit = y.exit /\ z.regs = y.regs
        BY <4>1 DEF Machines
      <4> QED BY <3>1, <3>4, <4>2
    <3>7. CASE y.skip = 0
      <4>1. z = Exec(y, i, mem)
        BY <3>1, <3>3, <3>4, <3>5, <3>7, StepTyped
      <4>2. z.bad = y.bad /\ (z.exit = y.exit \/ i.off = ToExit)
        BY <3>3, <3>5, <4>1, ExecTyped
      <4>3. \A r \in Registers : y.regs[r] # Junk => z.regs[r] # Junk
        BY <3>3, <3>5, <4>1, PlainExec
      <4> QED BY <3>1, <3>3, <3>4, <4>2, <4>3
    <3>8. y.skip > 0 \/ y.skip = 0
      BY DEF Machines
    <3> QED BY <3>6, <3>7, <3>8
  <2> HIDE DEF I
  <2>5. Nat \subseteq I
    BY <2>3, <2>4, SetInduction
  <2>6. PICK z \in Machines : z = Steps(x, code, mem) /\ Sane(z)
    <3>1. Sane(after[N]) /\ after[N] \in Machines
      BY <2>2, <2>5 DEF I
    <3> QED BY <2>1, <3>1
  <2>7. z.exit = x.exit
    BY <1>2, <2>6 DEF Machines
  <2> QED BY <2>6, <2>7
<1> QED BY <1>1, <1>2

\* An instruction that reads only R.
LEMMA PlainInsn ==
  ASSUME NEW mem, NEW R \in SUBSET Registers, NEW i \in Insns, i.op \in AluOps \cup Jumps, i.off \in Nat,
         i.op # "ja" /\ i.op # "mov" => i.dst \in R,
         i.op # "ja" /\ ~i.imm => i.src \in R /\ i.op # "neg"
  PROVE  i \in Plain(mem, R) /\ \A room \in Nat : i.op \notin Jumps \/ i.off <= room => Lands(i, room)
<1>1. i.off # ToExit
  BY DEF ToExit
<1>2. CASE i.op \in AluOps
  <2>1. Reads(i) \subseteq R
    BY <1>2 DEF Reads, AluOps, Conds
  <2>2. Apt(i, mem)
    BY <1>2 DEF Apt, AluOps, Conds
  <2>3. i.op \notin Jumps
    BY <1>2 DEF Jumps, Conds, AluOps
  <2> QED BY <1>1, <1>2, <2>1, <2>2, <2>3 DEF Plain, Good, Lands
<1>3. CASE i.op \in Conds
  <2>1. Reads(i) \subseteq R
    BY <1>3 DEF Reads, AluOps, Conds
  <2>2. Apt(i, mem)
    BY <1>1, <1>3 DEF Apt, AluOps, Conds
  <2> QED BY <1>1, <1>3, <2>1, <2>2 DEF Plain, Good, Lands
<1>4. CASE i.op = "ja"
  <2>1. Reads(i) \subseteq R
    BY <1>4 DEF Reads, AluOps, Conds
  <2>2. Apt(i, mem)
    BY <1>4 DEF Apt, AluOps, Conds
  <2> QED BY <1>1, <1>4, <2>1, <2>2 DEF Plain, Good, Lands
<1> QED BY <1>2, <1>3, <1>4 DEF Jumps

\* The instructions that operators are made of.
LEMMA PlainIs ==
  ASSUME NEW mem, NEW R \in SUBSET Registers
  PROVE  /\ \A op \in AluOps, r \in R, n \in Int :
              AluImm(op, r, n) \in Plain(mem, R) /\ \A d \in Nat : Lands(AluImm(op, r, n), d)
         /\ \A op \in AluOps \ {"neg"}, r \in R, s \in R :
              AluReg(op, r, s) \in Plain(mem, R) /\ \A d \in Nat : Lands(AluReg(op, r, s), d)
         /\ \A op \in Conds, r \in R, n \in Int, d \in Nat :
              JmpOff(op, r, n, d) \in Plain(mem, R)
                /\ \A room \in Nat : d <= room => Lands(JmpOff(op, r, n, d), room)
         /\ \A op \in Conds, r \in R, s \in R, d \in Nat :
              JmpReg(op, r, s, d) \in Plain(mem, R)
                /\ \A room \in Nat : d <= room => Lands(JmpReg(op, r, s, d), room)
         /\ \A d \in Nat :
              Ja(d) \in Plain(mem, R) /\ \A room \in Nat : d <= room => Lands(Ja(d), room)
<1>r. R \subseteq Registers /\ R \subseteq Int /\ 0 \in Registers /\ 0 \in Nat
  BY DEF Registers
<1>o. /\ AluOps \cap Jumps = {} /\ Conds \subseteq Jumps /\ "ja" \in Jumps /\ AluOps \cup Jumps \subseteq Ops
      /\ \A op \in Conds : op \notin AluOps /\ op # "ja" /\ op # "neg" /\ op # "mov"
      /\ \A op \in AluOps : op # "ja"
  BY DEF AluOps, Jumps, Conds, Ops
<1>1. ASSUME NEW op \in AluOps, NEW r \in R, NEW n \in Int
      PROVE  AluImm(op, r, n) \in Plain(mem, R) /\ \A d \in Nat : Lands(AluImm(op, r, n), d)
  <2>1. op \in Ops /\ r \in Registers /\ n \in Int /\ 0 \in Int \cup (Int \X {1, 2})
    BY <1>r, <1>o
  <2>2. PICK i : i = AluImm(op, r, n)
    OBVIOUS
  <2>3. i \in Insns /\ i.op = op /\ i.dst = r /\ i.imm = TRUE /\ i.src = n /\ i.off = 0
    BY <2>1, <2>2 DEF AluImm, Insn, Insns
  <2> QED BY <1>r, <1>o, <2>2, <2>3, PlainInsn
<1>2. ASSUME NEW op \in AluOps \ {"neg"}, NEW r \in R, NEW s \in R
      PROVE  AluReg(op, r, s) \in Plain(mem, R) /\ \A d \in Nat : Lands(AluReg(op, r, s), d)
  <2>1. op \in Ops /\ r \in Registers /\ s \in Int /\ 0 \in Int \cup (Int \X {1, 2})
    BY <1>r, <1>o
  <2>2. PICK i : i = AluReg(op, r, s)
    OBVIOUS
  <2>3. i \in Insns /\ i.op = op /\ i.dst = r /\ i.imm = FALSE /\ i.src = s /\ i.off = 0
    BY <2>1, <2>2 DEF AluReg, Insn, Insns
  <2> QED BY <1>r, <1>o, <2>2, <2>3, PlainInsn
<1>3. ASSUME NEW op \in Conds, NEW r \in R, NEW n \in Int, NEW d \in Nat
      PROVE  JmpOff(op, r, n, d) \in Plain(mem, R)
                /\ \A room \in Nat : d <= room => Lands(JmpOff(op, r, n, d), room)
  <2>1. op \in Ops /\ r \in Registers /\ n \in Int /\ d \in Int \cup (Int \X {1, 2})
    BY <1>r, <1>o
  <2>2. PICK i : i = JmpOff(op, r, n, d)
    OBVIOUS
  <2>3. i \in Insns /\ i.op = op /\ i.dst = r /\ i.imm = TRUE /\ i.src = n /\ i.off = d
    BY <2>1, <2>2 DEF JmpOff, Insn, Insns
  <2> QED BY <1>r, <1>o, <2>2, <2>3, PlainInsn
<1>4. ASSUME NEW op \in Conds, NEW r \in R, NEW s \in R, NEW d \in Nat
      PROVE  JmpReg(op, r, s, d) \in Plain(mem, R)
                /\ \A room \in Nat : d <= room => Lands(JmpReg(op, r, s, d), room)
  <2>1. op \in Ops /\ r \in Registers /\ s \in Int /\ d \in Int \cup (Int \X {1, 2})
    BY <1>r, <1>o
  <2>2. PICK i : i = JmpReg(op, r, s, d)
    OBVIOUS
  <2>3. i \in Insns /\ i.op = op /\ i.dst = r /\ i.imm = FALSE /\ i.src = s /\ i.off = d
    BY <2>1, <2>2 DEF JmpReg, Insn, Insns
  <2> QED BY <1>r, <1>o, <2>2, <2>3, PlainInsn
<1>5. ASSUME NEW d \in Nat
      PROVE  Ja(d) \in Plain(mem, R) /\ \A room \in Nat : d <= room => Lands(Ja(d), room)
  <2>1. "ja" \in Ops /\ 0 \in Registers /\ 0 \in Int /\ d \in Int \cup (Int \X {1, 2})
    BY <1>r, <1>o
  <2>2. PICK i : i = Ja(d)
    OBVIOUS
  <2>3. i \in Insns /\ i.op = "ja" /\ i.dst = 0 /\ i.imm = TRUE /\ i.src = 0 /\ i.off = d
    BY <2>1, <2>2 DEF Ja, Insn, Insns
  <2> QED BY <1>r, <1>o, <2>2, <2>3, PlainInsn
<1> QED BY <1>1, <1>2, <1>3, <1>4, <1>5

\* The elements of code that is written out.
LEMMA Written ==
  /\ \A a, b, c, d : <<a>> \o <<b, c, d>> = <<a, b, c, d>>
  /\ \A a, b, c, d, e : <<a, b>> \o <<c, d, e>> = <<a, b, c, d, e>>
  /\ \A a, b : <<a>> \o <<b>> = <<a, b>>
  /\ \A a : <<a>> \o <<>> = <<a>> /\ <<>> \o <<a>> = <<a>>
<1>1. ASSUME NEW a, NEW b, NEW c, NEW d
      PROVE  <<a>> \o <<b, c, d>> = <<a, b, c, d>>
  <2> DEFINE S == {a, b, c, d}
             u == <<a>>
             v == <<b, c, d>>
             t == <<a, b, c, d>>
  <2>1. /\ u \in Seq(S) /\ Len(u) = 1 /\ u[1] = a
        /\ v \in Seq(S) /\ Len(v) = 3 /\ v[1] = b /\ v[2] = c /\ v[3] = d
        /\ t \in Seq(S) /\ Len(t) = 4 /\ t[1] = a /\ t[2] = b /\ t[3] = c /\ t[4] = d
    OBVIOUS
  <2> HIDE DEF S, u, v, t
  <2>2. PICK s : s = u \o v
    OBVIOUS
  <2>3. s \in Seq(S) /\ Len(s) = 4 /\ \A i \in 1..4 : s[i] = t[i]
    <3>1. s \in Seq(S) /\ Len(s) = 4 /\ \A i \in 1..4 : s[i] = IF i <= 1 THEN u[i] ELSE v[i - 1]
      <4>1. /\ u \o v \in Seq(S) /\ Len(u \o v) = Len(u) + Len(v)
            /\ \A i \in 1..(Len(u) + Len(v)) : (u \o v)[i] = IF i <= Len(u) THEN u[i] ELSE v[i - Len(u)]
        <5>1. u \in Seq(S) /\ v \in Seq(S)
          BY <2>1
        <5> QED BY <5>1, ConcatProperties
      <4>2. Len(u) + Len(v) = 4 /\ Len(u) = 1
        BY <2>1
      <4> QED BY <2>2, <4>1, <4>2, Zenon
    <3>2. \A i \in 1..4 : i = 1 \/ i = 2 \/ i = 3 \/ i = 4
      OBVIOUS
    <3>3. s[1] = a /\ s[2] = b /\ s[3] = c /\ s[4] = d
      BY <2>1, <3>1
    <3> QED BY <2>1, <3>1, <3>2, <3>3
  <2>4. s = t
    BY <2>1, <2>3, SeqEqual
  <2> QED BY <2>2, <2>4 DEF u, v, t
<1>2. ASSUME NEW a, NEW b, NEW c, NEW d, NEW e
      PROVE  <<a, b>> \o <<c, d, e>> = <<a, b, c, d, e>>
  <2> DEFINE S == {a, b, c, d, e}
             u == <<a, b>>
             v == <<c, d, e>>
             t == <<a, b, c, d, e>>
  <2>1. /\ u \in Seq(S) /\ Len(u) = 2 /\ u[1] = a /\ u[2] = b
        /\ v \in Seq(S) /\ Len(v) = 3 /\ v[1] = c /\ v[2] = d /\ v[3] = e
        /\ t \in Seq(S) /\ Len(t) = 5 /\ t[1] = a /\ t[2] = b /\ t[3] = c /\ t[4] = d /\ t[5] = e
    OBVIOUS
  <2> HIDE DEF S, u, v, t
  <2>2. PICK s : s = u \o v
    OBVIOUS
  <2>3. s \in Seq(S) /\ Len(s) = 5 /\ \A i \in 1..5 : s[i] = t[i]
    <3>1. s \in Seq(S) /\ Len(s) = 5 /\ \A i \in 1..5 : s[i] = IF i <= 2 THEN u[i] ELSE v[i - 2]
      <4>1. /\ u \o v \in Seq(S) /\ Len(u \o v) = Len(u) + Len(v)
            /\ \A i \in 1..(Len(u) + Len(v)) : (u \o v)[i] = IF i <= Len(u) THEN u[i] ELSE v[i - Len(u)]
        <5>1. u \in Seq(S) /\ v \in Seq(S)
          BY <2>1
        <5> QED BY <5>1, ConcatProperties
      <4>2. Len(u) + Len(v) = 5 /\ Len(u) = 2
        BY <2>1
      <4> QED BY <2>2, <4>1, <4>2, Zenon
    <3>2. \A i \in 1..5 : i = 1 \/ i = 2 \/ i = 3 \/ i = 4 \/ i = 5
      OBVIOUS
    <3>3. s[1] = a /\ s[2] = b /\ s[3] = c /\ s[4] = d /\ s[5] = e
      BY <2>1, <3>1
    <3> QED BY <2>1, <3>1, <3>2, <3>3
  <2>4. s = t
    BY <2>1, <2>3, SeqEqual
  <2> QED BY <2>2, <2>4 DEF u, v, t
<1>3. ASSUME NEW a, NEW b
      PROVE  <<a>> \o <<b>> = <<a, b>>
  <2> DEFINE S == {a, b}
             u == <<a>>
             v == <<b>>
             t == <<a, b>>
  <2>1. /\ u \in Seq(S) /\ Len(u) = 1 /\ u[1] = a
        /\ v \in Seq(S) /\ Len(v) = 1 /\ v[1] = b
        /\ t \in Seq(S) /\ Len(t) = 2 /\ t[1] = a /\ t[2] = b
    OBVIOUS
  <2> HIDE DEF S, u, v, t
  <2>2. PICK s : s = u \o v
    OBVIOUS
  <2>3. s \in Seq(S) /\ Len(s) = 2 /\ \A i \in 1..2 : s[i] = t[i]
    <3>1. s \in Seq(S) /\ Len(s) = 2 /\ \A i \in 1..2 : s[i] = IF i <= 1 THEN u[i] ELSE v[i - 1]
      <4>1. /\ u \o v \in Seq(S) /\ Len(u \o v) = Len(u) + Len(v)
            /\ \A i \in 1..(Len(u) + Len(v)) : (u \o v)[i] = IF i <= Len(u) THEN u[i] ELSE v[i - Len(u)]
        <5>1. u \in Seq(S) /\ v \in Seq(S)
          BY <2>1
        <5> QED BY <5>1, ConcatProperties
      <4>2. Len(u) + Len(v) = 2 /\ Len(u) = 1
        BY <2>1
      <4> QED BY <2>2, <4>1, <4>2, Zenon
    <3>2. \A i \in 1..2 : i = 1 \/ i = 2
      OBVIOUS
    <3>3. s[1] = a /\ s[2] = b
      BY <2>1, <3>1
    <3> QED BY <2>1, <3>1, <3>2, <3>3
  <2>4. s = t
    BY <2>1, <2>3, SeqEqual
  <2> QED BY <2>2, <2>4 DEF u, v, t
<1>4. ASSUME NEW a PROVE <<a>> \o <<>> = <<a>> /\ <<>> \o <<a>> = <<a>>
  <2>1. <<a>> \in Seq({a})
    OBVIOUS
  <2> QED BY <2>1, ConcatEmptySeq
<1> QED BY <1>1, <1>2, <1>3, <1>4

\* Code over R that is written out.
LEMMA WorkOf ==
  ASSUME NEW mem, NEW R
  PROVE  /\ <<>> \in Work(mem, R)
         /\ \A a \in Plain(mem, R) : Lands(a, 0) => <<a>> \in Work(mem, R)
         /\ \A a, b \in Plain(mem, R) : Lands(a, 1) /\ Lands(b, 0) => <<a, b>> \in Work(mem, R)
         /\ \A a, b, c, d \in Plain(mem, R) :
              Lands(a, 3) /\ Lands(b, 2) /\ Lands(c, 1) /\ Lands(d, 0) => <<a, b, c, d>> \in Work(mem, R)
         /\ \A a, b, c, d, e \in Plain(mem, R) :
              Lands(a, 4) /\ Lands(b, 3) /\ Lands(c, 2) /\ Lands(d, 1) /\ Lands(e, 0) =>
                <<a, b, c, d, e>> \in Work(mem, R)
<1>g. \A a \in Plain(mem, R) : a \in Good(mem)
  BY DEF Plain
<1>0. <<>> \in Work(mem, R)
  BY BlockOf DEF Work
<1>1. ASSUME NEW a \in Plain(mem, R), Lands(a, 0) PROVE <<a>> \in Work(mem, R)
  <2>1. <<a>> \in Block(mem)
    BY <1>1, <1>g, BlockOf
  <2> QED BY <2>1 DEF Work
<1>2. ASSUME NEW a \in Plain(mem, R), NEW b \in Plain(mem, R), Lands(a, 1), Lands(b, 0)
      PROVE <<a, b>> \in Work(mem, R)
  <2>1. <<a, b>> \in Block(mem)
    BY <1>2, <1>g, BlockOf
  <2> QED BY <2>1 DEF Work
<1>4. ASSUME NEW a \in Plain(mem, R), NEW b \in Plain(mem, R), NEW c \in Plain(mem, R),
             NEW d \in Plain(mem, R),
             Lands(a, 3), Lands(b, 2), Lands(c, 1), Lands(d, 0)
      PROVE <<a, b, c, d>> \in Work(mem, R)
  <2>1. <<a, b, c, d>> \in Block(mem)
    BY <1>4, <1>g, BlockOf
  <2> QED BY <2>1 DEF Work
<1>5. ASSUME NEW a \in Plain(mem, R), NEW b \in Plain(mem, R), NEW c \in Plain(mem, R),
             NEW d \in Plain(mem, R), NEW e \in Plain(mem, R),
             Lands(a, 4), Lands(b, 3), Lands(c, 2), Lands(d, 1), Lands(e, 0)
      PROVE <<a, b, c, d, e>> \in Work(mem, R)
  <2>1. <<a, b, c, d, e>> \in Block(mem)
    BY <1>5, <1>g, BlockOf
  <2> QED BY <2>1 DEF Work
<1> QED BY <1>0, <1>1, <1>2, <1>4, <1>5

\* An operand: a word, or a register that has one.
WordOrReg(e) ==
  /\ IsNum(e) => e.v \in Words
  /\ IsReg(e) => e.v \in Registers
  /\ SizeTo(e.t) \in Nat

\* The code of a result that has a register of its own, z: of a constant and the register s.
Made(mem, z, s) ==
  {<<AluImm("mov", z, n), AluReg(op, z, s)>> : n \in Words, op \in {"mod", "lsh", "rsh"}}
    \cup {<<JmpOff("jeq", s, 0, 2), AluImm("mov", z, 0), Ja(2), AluImm("mov", z, n),
            AluReg("div", z, s)>> : n \in Words}

Compiled(mem, res, l, r, z) ==
  /\ res.keep \in {"left", "right"} => res.code \in Work(mem, RegOf(l) \cup RegOf(r))
  /\ res.keep = "new" => IsReg(r) /\ res.code \in Made(mem, z, r.v)
  /\ res.keep = "num" => res.n \in Words /\ res.code = <<>>

\* A result is compiled if its code works on its operands' registers.
LEMMA ResultCompiled ==
  ASSUME NEW mem, NEW l, NEW r, NEW z
  PROVE  /\ \A code \in Work(mem, RegOf(l) \cup RegOf(r)) :
              Compiled(mem, Left(code), l, r, z) /\ Compiled(mem, Right(code), l, r, z)
         /\ \A code \in Made(mem, z, r.v) : IsReg(r) => Compiled(mem, New(code), l, r, z)
         /\ \A n \in Words : Compiled(mem, Num(n), l, r, z)
         /\ Compiled(mem, Fail, l, r, z) /\ Compiled(mem, Crash, l, r, z)
BY DEF Compiled, Left, Right, New, Num, Fail, Crash, Result

\* Constants are computed on words.
LEMMA Folded ==
  ASSUME NEW a \in Words, NEW b \in Words
  PROVE  /\ (a + b) % Word \in Words /\ (a - b) % Word \in Words /\ (a * b) % Word \in Words
         /\ Signed(a) \in Int /\ (b # 0 => Quotient(a, b) \in Words)
         /\ b # 0 => (Signed(a) - Signed(Quotient(a, b)) * Signed(b)) % Word \in Words
         /\ \A k \in Nat : (a * 2 ^ k) % Word \in Words /\ (Signed(a) \div 2 ^ k) % Word \in Words
         /\ \A p \in BOOLEAN : BoolToInt(p) \in Words
         /\ (Word - a) % Word \in Words /\ Word - 1 - a \in Words
         /\ (a + 1) % Word \in Words /\ (a - 1) % Word \in Words
<1>0. Word \in Nat \ {0} /\ a \in Int /\ b \in Int /\ a \in Nat /\ a < Word /\ 0 \in Words /\ 1 \in Words
  BY InWords, WordFacts
<1>1. a + b \in Int /\ a - b \in Int /\ a * b \in Int /\ Word - a \in Int /\ a + 1 \in Int /\ a - 1 \in Int
  BY <1>0
<1>s. \A w \in Words : Signed(w) \in Int
  BY <1>0, InWords DEF Signed
<1>2. Signed(a) \in Int /\ Signed(b) \in Int
  BY <1>s
<1>3. b # 0 => Quotient(a, b) \in Words
  <2> SUFFICES ASSUME b # 0 PROVE Quotient(a, b) \in Words
    OBVIOUS
  <2> DEFINE Size(w) == IF Signed(w) < 0 THEN -Signed(w) ELSE w
  <2>1. ASSUME NEW w \in Words PROVE Size(w) \in Nat /\ (w # 0 => Size(w) # 0)
    <3>1. w \in Nat /\ w < Word
      BY InWords
    <3>2. CASE 2 * w >= Word
      <4>1. Signed(w) = w - Word /\ Signed(w) < 0
        BY <1>0, <3>1, <3>2 DEF Signed
      <4> QED BY <1>0, <3>1, <4>1
    <3>3. CASE ~(2 * w >= Word)
      <4>1. Signed(w) = w /\ ~(w < 0)
        BY <3>1, <3>3 DEF Signed
      <4> QED BY <3>1, <4>1
    <3> QED BY <3>2, <3>3
  <2>2. PICK q \in Int : q = Size(a) \div Size(b)
    <3> HIDE DEF Size
    <3>1. Size(a) \in Nat /\ Size(b) \in Nat \ {0}
      BY <2>1
    <3>2. Size(a) \div Size(b) \in 0..Size(a)
      BY <3>1, Division
    <3> QED BY <3>1, <3>2
  <2>3. Quotient(a, b) = (IF (Signed(a) < 0) # (Signed(b) < 0) THEN -q ELSE q) % Word
    BY <2>2 DEF Quotient
  <2>4. (IF (Signed(a) < 0) # (Signed(b) < 0) THEN -q ELSE q) \in Int
    OBVIOUS
  <2> QED BY <2>3, <2>4, InWords
<1>4. b # 0 => (Signed(a) - Signed(Quotient(a, b)) * Signed(b)) % Word \in Words
  <2> SUFFICES ASSUME b # 0 PROVE (Signed(a) - Signed(Quotient(a, b)) * Signed(b)) % Word \in Words
    OBVIOUS
  <2>1. Signed(Quotient(a, b)) \in Int
    BY <1>3, <1>s
  <2>2. Signed(a) - Signed(Quotient(a, b)) * Signed(b) \in Int
    BY <1>2, <2>1
  <2> QED BY <2>2, InWords
<1>5. ASSUME NEW k \in Nat
      PROVE  (a * 2 ^ k) % Word \in Words /\ (Signed(a) \div 2 ^ k) % Word \in Words
  <2>1. PICK p \in Nat \ {0} : p = 2 ^ k
    BY Positive
  <2>2. a * p \in Int /\ Signed(a) \div p \in Int
    BY <1>0, <1>2
  <2> QED BY <2>1, <2>2, InWords
<1>6. \A p \in BOOLEAN : BoolToInt(p) \in Words
  BY <1>0 DEF BoolToInt
<1>7. Word - 1 - a \in Words
  BY <1>0 DEF Words
<1> QED BY <1>1, <1>2, <1>3, <1>4, <1>5, <1>6, <1>7, InWords

\* The four kinds of operands.
LEMMA OperandKinds ==
  ASSUME NEW l, NEW r, IsNum(l) \/ IsReg(l), IsNum(r) \/ IsReg(r)
  PROVE  \/ BothNum(l, r) /\ ~BothReg(l, r) /\ ~NumReg(l, r) /\ ~RegNum(l, r) /\ IsNum(l) /\ IsNum(r) /\ ~IsReg(l) /\ ~IsReg(r)
         \/ BothReg(l, r) /\ ~BothNum(l, r) /\ ~NumReg(l, r) /\ ~RegNum(l, r) /\ IsReg(l) /\ IsReg(r) /\ ~IsNum(l) /\ ~IsNum(r)
         \/ NumReg(l, r) /\ ~BothNum(l, r) /\ ~BothReg(l, r) /\ ~RegNum(l, r) /\ IsNum(l) /\ IsReg(r) /\ ~IsReg(l) /\ ~IsNum(r)
         \/ RegNum(l, r) /\ ~BothNum(l, r) /\ ~BothReg(l, r) /\ ~NumReg(l, r) /\ IsReg(l) /\ IsNum(r) /\ ~IsReg(r) /\ ~IsNum(l)
BY DEF BothNum, BothReg, NumReg, RegNum, IsNum, IsReg

\* An instruction or two of arithmetic, over registers of R.
LEMMA Arithmetic ==
  ASSUME NEW mem, NEW R \in SUBSET Registers
  PROVE  /\ <<>> \in Work(mem, R)
         /\ \A op \in AluOps, a \in R, n \in Int : <<AluImm(op, a, n)>> \in Work(mem, R)
         /\ \A op \in AluOps \ {"neg"}, a \in R, b \in R : <<AluReg(op, a, b)>> \in Work(mem, R)
         /\ \A op \in AluOps \ {"neg"}, a \in R, b \in R, n \in Int :
              (<<AluImm("mul", b, n)>> \o <<AluReg(op, a, b)>>) \in Work(mem, R)
         /\ \A op \in AluOps \ {"neg"}, a \in R, b \in R : (<<>> \o <<AluReg(op, a, b)>>) \in Work(mem, R)
<1>1. \A op \in AluOps, a \in R, n \in Int : <<AluImm(op, a, n)>> \in Work(mem, R)
  BY PlainIs, WorkOf
<1>2. \A op \in AluOps \ {"neg"}, a \in R, b \in R : <<AluReg(op, a, b)>> \in Work(mem, R)
  BY PlainIs, WorkOf
<1>3. ASSUME NEW op \in AluOps \ {"neg"}, NEW a \in R, NEW b \in R, NEW n \in Int
      PROVE  (<<AluImm("mul", b, n)>> \o <<AluReg(op, a, b)>>) \in Work(mem, R)
  <2>1. "mul" \in AluOps
    BY DEF AluOps
  <2>2. PICK i \in Plain(mem, R), j \in Plain(mem, R) :
          /\ i = AluImm("mul", b, n) /\ j = AluReg(op, a, b) /\ Lands(i, 1) /\ Lands(j, 0)
    BY <2>1, PlainIs
  <2>3. <<i, j>> \in Work(mem, R)
    BY <2>2, WorkOf
  <2> QED BY <2>2, <2>3, Written
<1>4. \A op \in AluOps \ {"neg"}, a \in R, b \in R : (<<>> \o <<AluReg(op, a, b)>>) \in Work(mem, R)
  BY <1>2, Written
<1> QED BY <1>1, <1>2, <1>3, <1>4, WorkOf

\* The truth of what a jump tests, as 1 or 0 in a register.
LEMMA Truth ==
  ASSUME NEW mem, NEW R \in SUBSET Registers, NEW a \in R
  PROVE  /\ \A i \in Plain(mem, R) : Lands(i, 3) => (<<i>> \o emitReg2bool(a)) \in Work(mem, R)
         /\ \A i, j \in Plain(mem, R) : Lands(i, 4) /\ Lands(j, 3) =>
              (<<i, j>> \o emitReg2bool(a)) \in Work(mem, R)
<1>0. "mov" \in AluOps /\ "xor" \in AluOps \ {"neg"} /\ 1 \in Int /\ 1 \in Nat
  BY DEF AluOps
<1>1. PICK x \in Plain(mem, R), y \in Plain(mem, R), z \in Plain(mem, R) :
        /\ x = AluImm("mov", a, 1) /\ y = Ja(1) /\ z = AluReg("xor", a, a)
        /\ Lands(x, 2) /\ Lands(y, 1) /\ Lands(z, 0)
  BY <1>0, PlainIs
<1>2. emitReg2bool(a) = <<x, y, z>>
  BY <1>1 DEF emitReg2bool
<1>3. ASSUME NEW i \in Plain(mem, R), Lands(i, 3) PROVE (<<i>> \o emitReg2bool(a)) \in Work(mem, R)
  <2>1. <<i, x, y, z>> \in Work(mem, R)
    BY <1>1, <1>3, WorkOf
  <2> QED BY <1>2, <2>1, Written
<1>4. ASSUME NEW i \in Plain(mem, R), NEW j \in Plain(mem, R), Lands(i, 4), Lands(j, 3)
      PROVE (<<i, j>> \o emitReg2bool(a)) \in Work(mem, R)
  <2>1. <<i, j, x, y, z>> \in Work(mem, R)
    BY <1>1, <1>4, WorkOf
  <2>2. <<i, j>> \o <<x, y, z>> = <<i, j, x, y, z>>
    BY Written, Zenon
  <2> QED BY <1>2, <2>1, <2>2
<1> QED BY <1>3, <1>4

\* What each operator of two operands compiles to.
LEMMA BinaryCompiled ==
  ASSUME NEW mem, NEW op \in BinaryOps, NEW l, NEW r, NEW z \in Registers,
         IsNum(l) \/ IsReg(l), IsNum(r) \/ IsReg(r), WordOrReg(l), WordOrReg(r)
  PROVE  Compiled(mem, binary(op, l, r, z), l, r, z)
<1> DEFINE R == RegOf(l) \cup RegOf(r)
           Ok(res) == Compiled(mem, res, l, r, z)
<1>k. \/ BothNum(l, r) /\ ~BothReg(l, r) /\ ~NumReg(l, r) /\ ~RegNum(l, r) /\ IsNum(l) /\ IsNum(r) /\ ~IsReg(l) /\ ~IsReg(r)
      \/ BothReg(l, r) /\ ~BothNum(l, r) /\ ~NumReg(l, r) /\ ~RegNum(l, r) /\ IsReg(l) /\ IsReg(r) /\ ~IsNum(l) /\ ~IsNum(r)
      \/ NumReg(l, r) /\ ~BothNum(l, r) /\ ~BothReg(l, r) /\ ~RegNum(l, r) /\ IsNum(l) /\ IsReg(r) /\ ~IsReg(l) /\ ~IsNum(r)
      \/ RegNum(l, r) /\ ~BothNum(l, r) /\ ~BothReg(l, r) /\ ~NumReg(l, r) /\ IsReg(l) /\ IsNum(r) /\ ~IsReg(r) /\ ~IsNum(l)
  BY OperandKinds
<1>v. /\ IsNum(l) => l.v \in Words /\ l.v \in Int
      /\ IsNum(r) => r.v \in Words /\ r.v \in Int
      /\ IsReg(l) => l.v \in R
      /\ IsReg(r) => r.v \in R
      /\ R \in SUBSET Registers
      /\ SizeTo(l.t) \in Int /\ SizeTo(r.t) \in Int
  BY InWords DEF WordOrReg, RegOf
<1>f. /\ Factor(SizeTo(l.t)) \in Int /\ Factor(SizeTo(r.t)) \in Int
      /\ IsNum(l) => l.v * Factor(SizeTo(r.t)) \in Int
      /\ IsNum(r) => r.v * Factor(SizeTo(l.t)) \in Int
  BY <1>v DEF Factor
<1>o. AluOps = {"mov", "add", "sub", "mul", "div", "mod", "and", "or", "xor", "lsh", "rsh", "neg"}
  BY DEF AluOps
<1>w. 0 \in Words /\ 1 \in Words /\ 0 \in Int /\ 1 \in Int
  BY WordFacts
<1>left. \A code \in Work(mem, R) : Ok(Left(code)) /\ Ok(Right(code))
  BY ResultCompiled
<1>num. \A n \in Words : Ok(Num(n))
  BY ResultCompiled
<1>new. \A code \in Made(mem, z, r.v) : IsReg(r) => Ok(New(code))
  BY ResultCompiled
<1>fail. Ok(Fail) /\ Ok(Crash)
  BY ResultCompiled
<1>a. /\ <<>> \in Work(mem, R)
      /\ \A o \in AluOps, a \in R, n \in Int : <<AluImm(o, a, n)>> \in Work(mem, R)
      /\ \A o \in AluOps \ {"neg"}, a \in R, b \in R : <<AluReg(o, a, b)>> \in Work(mem, R)
      /\ \A o \in AluOps \ {"neg"}, a \in R, b \in R, n \in Int :
           (<<AluImm("mul", b, n)>> \o <<AluReg(o, a, b)>>) \in Work(mem, R)
      /\ \A o \in AluOps \ {"neg"}, a \in R, b \in R : (<<>> \o <<AluReg(o, a, b)>>) \in Work(mem, R)
  BY <1>v, Arithmetic
<1> HIDE DEF Ok, R
<1>1. Ok(add(l, r))
  <2>1. CASE BothNum(l, r)
    BY <1>k, <1>v, <1>num, <2>1, Folded DEF add
  <2>2. CASE BothReg(l, r)
    BY <1>k, <1>v, <1>o, <1>a, <1>left, <2>2 DEF add
  <2>3. CASE NumReg(l, r)
    BY <1>k, <1>v, <1>f, <1>o, <1>a, <1>left, <2>3 DEF add
  <2>4. CASE RegNum(l, r)
    BY <1>k, <1>v, <1>f, <1>o, <1>a, <1>left, <2>4 DEF add
  <2> QED BY <1>k, <2>1, <2>2, <2>3, <2>4
<1>2. Ok(sub(l, r))
  <2>1. CASE BothNum(l, r)
    BY <1>k, <1>v, <1>num, <2>1, Folded DEF sub
  <2>2. CASE BothReg(l, r)
    BY <1>k, <1>v, <1>o, <1>a, <1>left, <2>2 DEF sub
  <2>3. CASE NumReg(l, r)
    BY <1>k, <1>v, <1>w, <1>o, <1>a, <1>left, <1>fail, <2>3 DEF sub
  <2>4. CASE RegNum(l, r)
    BY <1>k, <1>v, <1>f, <1>o, <1>a, <1>left, <2>4 DEF sub
  <2> QED BY <1>k, <2>1, <2>2, <2>3, <2>4
<1>3. Ok(mul(l, r))
  <2>1. CASE BothNum(l, r)
    BY <1>k, <1>v, <1>num, <2>1, Folded DEF mul
  <2>2. CASE BothReg(l, r)
    BY <1>k, <1>v, <1>o, <1>a, <1>left, <2>2 DEF mul
  <2>3. CASE NumReg(l, r)
    BY <1>k, <1>v, <1>w, <1>num, <1>o, <1>a, <1>left, <2>3 DEF mul
  <2>4. CASE RegNum(l, r)
    BY <1>k, <1>v, <1>w, <1>num, <1>o, <1>a, <1>left, <2>4 DEF mul
  <2> QED BY <1>k, <2>1, <2>2, <2>3, <2>4
<1>8. Ok(and(l, r))
  <2>1. CASE BothNum(l, r)
    BY <1>k, <1>v, <1>num, <2>1, BitWord DEF and
  <2>2. CASE BothReg(l, r) \/ NumReg(l, r) \/ RegNum(l, r)
    BY <1>k, <1>v, <1>o, <1>a, <1>left, <2>2 DEF and
  <2> QED BY <1>k, <2>1, <2>2
<1>9. Ok(or(l, r))
  <2>1. CASE BothNum(l, r)
    BY <1>k, <1>v, <1>num, <2>1, BitWord DEF or
  <2>2. CASE BothReg(l, r) \/ NumReg(l, r) \/ RegNum(l, r)
    BY <1>k, <1>v, <1>o, <1>w, <1>num, <1>a, <1>left, <2>2 DEF or
  <2> QED BY <1>k, <2>1, <2>2
<1>10. Ok(xor(l, r))
  <2>1. CASE BothNum(l, r)
    BY <1>k, <1>v, <1>num, <2>1, BitWord DEF xor
  <2>2. CASE BothReg(l, r) \/ NumReg(l, r) \/ RegNum(l, r)
    BY <1>k, <1>v, <1>o, <1>w, <1>num, <1>a, <1>left, <2>2 DEF xor
  <2> QED BY <1>k, <2>1, <2>2
<1>p. /\ \A i \in Plain(mem, R), a \in R : Lands(i, 3) => (<<i>> \o emitReg2bool(a)) \in Work(mem, R)
      /\ \A i, j \in Plain(mem, R), a \in R : Lands(i, 4) /\ Lands(j, 3) =>
           (<<i, j>> \o emitReg2bool(a)) \in Work(mem, R)
  BY <1>v, Truth
<1>j. /\ \A o \in Conds, a \in R, n \in Int, d \in Nat :
           JmpOff(o, a, n, d) \in Plain(mem, R) /\ \A room \in Nat : d <= room => Lands(JmpOff(o, a, n, d), room)
      /\ \A o \in Conds, a \in R, b \in R, d \in Nat :
           JmpReg(o, a, b, d) \in Plain(mem, R) /\ \A room \in Nat : d <= room => Lands(JmpReg(o, a, b, d), room)
      /\ \A d \in Nat : Ja(d) \in Plain(mem, R) /\ \A room \in Nat : d <= room => Lands(Ja(d), room)
  BY <1>v, PlainIs
<1>i. /\ \A o \in AluOps, a \in R, n \in Int :
           AluImm(o, a, n) \in Plain(mem, R) /\ \A d \in Nat : Lands(AluImm(o, a, n), d)
      /\ \A o \in AluOps \ {"neg"}, a \in R, b \in R :
           AluReg(o, a, b) \in Plain(mem, R) /\ \A d \in Nat : Lands(AluReg(o, a, b), d)
  BY <1>v, PlainIs
<1>c. "jeq" \in Conds /\ "jne" \in Conds /\ "jle" \in Conds
  BY DEF Conds
<1>m. \A n \in Words :
        /\ IsReg(r) => \A o \in {"mod", "lsh", "rsh"} :
             <<AluImm("mov", z, n), AluReg(o, z, r.v)>> \in Made(mem, z, r.v)
        /\ <<JmpOff("jeq", r.v, 0, 2), AluImm("mov", z, 0), Ja(2), AluImm("mov", z, n),
             AluReg("div", z, r.v)>> \in Made(mem, z, r.v)
  BY DEF Made
<1>4. Ok(div(l, r, z))
  <2>1. CASE BothNum(l, r)
    BY <1>k, <1>v, <1>num, <1>fail, <2>1, Folded DEF div
  <2>2. CASE BothReg(l, r)
    <3>1. PICK a \in Plain(mem, R), b \in Plain(mem, R), c \in Plain(mem, R), d \in Plain(mem, R) :
            /\ a = JmpOff("jeq", r.v, 0, 2) /\ b = AluImm("mov", l.v, 0) /\ c = Ja(1)
            /\ d = AluReg("div", l.v, r.v)
            /\ Lands(a, 3) /\ Lands(b, 2) /\ Lands(c, 1) /\ Lands(d, 0)
      BY <1>k, <1>v, <1>o, <1>w, <1>c, <1>i, <1>j, <2>2
    <3>2. <<a, b, c, d>> \in Work(mem, R)
      BY <3>1, WorkOf
    <3> QED BY <1>k, <1>left, <2>2, <3>1, <3>2 DEF div
  <2>3. CASE NumReg(l, r)
    BY <1>k, <1>v, <1>m, <1>new, <2>3 DEF div
  <2>4. CASE RegNum(l, r)
    BY <1>k, <1>v, <1>o, <1>a, <1>left, <1>fail, <2>4 DEF div
  <2> QED BY <1>k, <2>1, <2>2, <2>3, <2>4
<1>5. Ok(mod(l, r, z))
  <2>1. CASE BothNum(l, r)
    <3>1. CASE r.v = 0
      <4>1. IsNum(r)
        BY <1>k, <2>1
      <4>2. mod(l, r, z) = Fail
        BY <3>1, <4>1 DEF mod
      <4> QED BY <1>fail, <4>2
    <3>2. CASE r.v # 0
      <4>1. PICK n \in Words : n = (Signed(l.v) - Signed(Quotient(l.v, r.v)) * Signed(r.v)) % Word
        BY <1>k, <1>v, <2>1, <3>2, Folded
      <4>2. mod(l, r, z) = Num(n)
        BY <1>k, <2>1, <3>2, <4>1 DEF mod
      <4> QED BY <1>num, <4>2
    <3> QED BY <3>1, <3>2
  <2>2. CASE BothReg(l, r)
    <3>1. PICK a \in Plain(mem, R), b \in Plain(mem, R) :
            /\ a = JmpOff("jeq", r.v, 0, 1) /\ b = AluReg("mod", l.v, r.v) /\ Lands(a, 1) /\ Lands(b, 0)
      BY <1>k, <1>v, <1>o, <1>w, <1>c, <1>i, <1>j, <2>2
    <3>2. <<a, b>> \in Work(mem, R)
      BY <3>1, WorkOf
    <3> QED BY <1>k, <1>left, <2>2, <3>1, <3>2 DEF mod
  <2>3. CASE NumReg(l, r)
    BY <1>k, <1>v, <1>w, <1>m, <1>num, <1>new, <2>3 DEF mod
  <2>4. CASE RegNum(l, r)
    BY <1>k, <1>v, <1>w, <1>o, <1>a, <1>left, <1>fail, <2>4 DEF mod
  <2> QED BY <1>k, <2>1, <2>2, <2>3, <2>4
<1>h. Shifts \subseteq Nat /\ 2 * Half \in Nat
  BY HalfAssumption DEF Shifts
<1>6. Ok(lsh(l, r, z))
  <2>1. CASE BothNum(l, r)
    BY <1>k, <1>v, <1>h, <1>w, <1>num, <1>fail, <2>1, Folded DEF lsh
  <2>2. CASE BothReg(l, r)
    <3>1. PICK a \in Plain(mem, R), b \in Plain(mem, R) :
            /\ a = JmpOff("jle", r.v, 0, 1) /\ b = AluReg("lsh", l.v, r.v) /\ Lands(a, 1) /\ Lands(b, 0)
      BY <1>k, <1>v, <1>o, <1>w, <1>c, <1>i, <1>j, <2>2
    <3>2. <<a, b>> \in Work(mem, R)
      BY <3>1, WorkOf
    <3> QED BY <1>k, <1>left, <2>2, <3>1, <3>2 DEF lsh
  <2>3. CASE NumReg(l, r)
    BY <1>k, <1>v, <1>w, <1>m, <1>num, <1>new, <2>3 DEF lsh
  <2>4. CASE RegNum(l, r)
    BY <1>k, <1>v, <1>o, <1>a, <1>left, <1>fail, <2>4 DEF lsh
  <2> QED BY <1>k, <2>1, <2>2, <2>3, <2>4
<1>7. Ok(rsh(l, r, z))
  <2>1. CASE BothNum(l, r)
    <3>1. (IF r.v \in Shifts THEN r.v ELSE 2 * Half) \in Nat
      BY <1>h
    <3>2. (Signed(l.v) \div 2 ^ (IF r.v \in Shifts THEN r.v ELSE 2 * Half)) % Word \in Words
      BY <1>k, <1>v, <2>1, <3>1, Folded
    <3> QED BY <1>k, <1>num, <1>fail, <2>1, <3>2 DEF rsh
  <2>2. CASE BothReg(l, r)
    BY <1>k, <1>v, <1>o, <1>a, <1>left, <2>2 DEF rsh
  <2>3. CASE NumReg(l, r)
    BY <1>k, <1>v, <1>w, <1>m, <1>num, <1>new, <2>3 DEF rsh
  <2>4. CASE RegNum(l, r)
    BY <1>k, <1>v, <1>o, <1>a, <1>left, <1>fail, <2>4 DEF rsh
  <2> QED BY <1>k, <2>1, <2>2, <2>3, <2>4
<1>b. \A o \in {"jeq", "jne"}, a \in R : (<<JmpOff(o, a, 0, 2)>> \o emitReg2bool(a)) \in Work(mem, R)
  BY <1>w, <1>c, <1>j, <1>p
<1>11. Ok(andand(l, r))
  <2>1. CASE BothNum(l, r)
    BY <1>k, <1>v, <1>w, <1>num, <2>1, Folded DEF andand
  <2>2. CASE BothReg(l, r)
    <3>1. PICK a \in Plain(mem, R), b \in Plain(mem, R) :
            /\ a = JmpOff("jeq", l.v, 0, 3) /\ b = JmpOff("jeq", r.v, 0, 2) /\ Lands(a, 4) /\ Lands(b, 3)
      BY <1>k, <1>v, <1>w, <1>c, <1>j, <2>2
    <3>2. (<<a, b>> \o emitReg2bool(l.v)) \in Work(mem, R)
      BY <1>k, <1>v, <1>p, <2>2, <3>1
    <3> QED BY <1>k, <1>left, <2>2, <3>1, <3>2 DEF andand
  <2>3. CASE NumReg(l, r)
    BY <1>k, <1>v, <1>w, <1>b, <1>num, <1>left, <2>3 DEF andand
  <2>4. CASE RegNum(l, r)
    BY <1>k, <1>v, <1>w, <1>b, <1>num, <1>left, <2>4 DEF andand
  <2> QED BY <1>k, <2>1, <2>2, <2>3, <2>4
<1>12. Ok(oror(l, r))
  <2>1. CASE BothNum(l, r)
    BY <1>k, <1>v, <1>w, <1>num, <2>1, Folded DEF oror
  <2>2. CASE BothReg(l, r)
    <3>1. PICK a \in Plain(mem, R), b \in Plain(mem, R), c \in Plain(mem, R), d \in Plain(mem, R),
               e \in Plain(mem, R) :
            /\ a = JmpOff("jne", l.v, 0, 3) /\ b = JmpOff("jne", r.v, 0, 2)
            /\ c = AluReg("xor", l.v, l.v) /\ d = Ja(1) /\ e = AluImm("mov", l.v, 1)
            /\ Lands(a, 4) /\ Lands(b, 3) /\ Lands(c, 2) /\ Lands(d, 1) /\ Lands(e, 0)
      BY <1>k, <1>v, <1>o, <1>w, <1>c, <1>i, <1>j, <2>2
    <3>2. <<a, b, c, d, e>> \in Work(mem, R)
      BY <3>1, WorkOf
    <3> QED BY <1>k, <1>left, <2>2, <3>1, <3>2 DEF oror
  <2>3. CASE NumReg(l, r)
    BY <1>k, <1>v, <1>w, <1>b, <1>num, <1>left, <2>3 DEF oror
  <2>4. CASE RegNum(l, r)
    BY <1>k, <1>v, <1>w, <1>b, <1>num, <1>left, <2>4 DEF oror
  <2> QED BY <1>k, <2>1, <2>2, <2>3, <2>4
<1>13. op \in Comparisons => Ok(compare(op, l, r))
  <2> SUFFICES ASSUME op \in Comparisons PROVE Ok(compare(op, l, r))
    OBVIOUS
  <2>0. PICK cond \in Conds : cond = NegJump[op]
    BY DEF Comparisons, NegJump, Conds
  <2>1. CASE BothNum(l, r)
    <3>1. BoolToInt(Holds(op, Signed(l.v), Signed(r.v))) \in Words
      BY <1>w DEF BoolToInt
    <3>2. compare(op, l, r) = Num(BoolToInt(Holds(op, Signed(l.v), Signed(r.v))))
      BY <1>k, <2>1 DEF compare
    <3> QED BY <1>num, <3>1, <3>2, Zenon
  <2>2. CASE BothReg(l, r)
    <3>1. PICK a \in Plain(mem, R) : a = JmpReg(cond, l.v, r.v, 2) /\ Lands(a, 3)
      BY <1>k, <1>v, <1>j, <2>2
    <3>2. (<<a>> \o emitReg2bool(l.v)) \in Work(mem, R)
      BY <1>k, <1>v, <1>p, <2>2, <3>1
    <3> QED BY <1>k, <1>left, <2>0, <2>2, <3>1, <3>2 DEF compare
  <2>3. CASE NumReg(l, r)
    <3>1. PICK a \in Plain(mem, R) : a = JmpOff(cond, r.v, l.v, 2) /\ Lands(a, 3)
      BY <1>k, <1>v, <1>j, <2>3
    <3>2. (<<a>> \o emitReg2bool(r.v)) \in Work(mem, R)
      BY <1>k, <1>v, <1>p, <2>3, <3>1
    <3> QED BY <1>k, <1>left, <2>0, <2>3, <3>1, <3>2 DEF compare
  <2>4. CASE RegNum(l, r)
    <3>1. PICK a \in Plain(mem, R) : a = JmpOff(cond, l.v, r.v, 2) /\ Lands(a, 3)
      BY <1>k, <1>v, <1>j, <2>4
    <3>2. (<<a>> \o emitReg2bool(l.v)) \in Work(mem, R)
      BY <1>k, <1>v, <1>p, <2>4, <3>1
    <3> QED BY <1>k, <1>left, <2>0, <2>4, <3>1, <3>2 DEF compare
  <2> QED BY <1>k, <2>1, <2>2, <2>3, <2>4
<1>14. PICK x : x = binary(op, l, r, z)
  OBVIOUS
<1>15. \/ x \in {add(l, r), sub(l, r), mul(l, r), div(l, r, z), mod(l, r, z), lsh(l, r, z),
               rsh(l, r, z), and(l, r), or(l, r), xor(l, r), andand(l, r), oror(l, r)}
       \/ op \in Comparisons /\ x = compare(op, l, r)
  BY <1>14 DEF binary, BinaryOps, Comparisons
<1>16. Ok(x)
  BY <1>1, <1>2, <1>3, <1>4, <1>5, <1>6, <1>7, <1>8, <1>9, <1>10, <1>11, <1>12, <1>13, <1>15
<1> QED BY <1>14, <1>16 DEF Ok

\* What each operator of one operand compiles to.
LEMMA UnaryCompiled ==
  ASSUME NEW mem, NEW op \in UnaryOps, NEW e, WordOrReg(e)
  PROVE  /\ unary(op, e).keep \in {"left", "num", "fail"}
         /\ unary(op, e).keep = "left" => IsReg(e) /\ unary(op, e).code \in Work(mem, RegOf(e))
         /\ unary(op, e).keep = "num" =>
              IsNum(e) /\ unary(op, e).n \in Words /\ unary(op, e).code = <<>>
<1> DEFINE Ok(res) == /\ res.keep \in {"left", "num", "fail"}
                      /\ res.keep = "left" => IsReg(e) /\ res.code \in Work(mem, RegOf(e))
                      /\ res.keep = "num" => IsNum(e) /\ res.n \in Words /\ res.code = <<>>
<1>left. ASSUME NEW code \in Work(mem, RegOf(e)), IsReg(e) PROVE Ok(Left(code))
  BY <1>left DEF Left, Result
<1>num. ASSUME NEW n \in Words, IsNum(e) PROVE Ok(Num(n))
  BY <1>num DEF Num, Result
<1>fail. Ok(Fail)
  BY DEF Fail, Result
<1> HIDE DEF Ok
<1>w. 1 \in Int /\ 0 \in Int /\ Word - 1 \in Int /\ 1 \in Nat
  BY WordFacts, InWords
<1>1. CASE IsReg(e)
  <2>0. RegOf(e) \in SUBSET Registers /\ e.v \in RegOf(e)
    BY <1>1 DEF RegOf, WordOrReg
  <2>1. \A o \in AluOps, n \in Int : <<AluImm(o, e.v, n)>> \in Work(mem, RegOf(e))
    BY <2>0, Arithmetic
  <2>2. "jne" \in Conds /\ {"neg", "xor", "add", "sub"} \subseteq AluOps
    BY DEF Conds, AluOps
  <2>3. not(e.v) \in Work(mem, RegOf(e))
    <3>1. PICK i \in Plain(mem, RegOf(e)) : i = JmpOff("jne", e.v, 0, 2) /\ Lands(i, 3)
      <4>0. PICK v : v = e.v
        OBVIOUS
      <4>1. PICK R \in SUBSET Registers : R = RegOf(e) /\ v \in R
        BY <2>0, <4>0
      <4>2. 2 \in Nat /\ 3 \in Nat /\ 2 <= 3 /\ "jne" \in Conds /\ 0 \in Int
        BY <2>2
      <4>3. JmpOff("jne", v, 0, 2) \in Plain(mem, R) /\ Lands(JmpOff("jne", v, 0, 2), 3)
        BY <4>1, <4>2, PlainIs
      <4> QED BY <4>0, <4>1, <4>3
    <3>2. (<<i>> \o emitReg2bool(e.v)) \in Work(mem, RegOf(e))
      BY <2>0, <3>1, Truth
    <3> QED BY <3>1, <3>2 DEF not
  <2>4. unary(op, e) = Fail \/ \E code \in Work(mem, RegOf(e)) : unary(op, e) = Left(code)
    <3>1. unary(op, e) \in {Fail, Left(not(e.v)), Left(<<AluImm("neg", e.v, 0)>>),
            Left(<<AluImm("xor", e.v, Word - 1)>>), Left(<<AluImm("add", e.v, 1)>>),
            Left(<<AluImm("sub", e.v, 1)>>)}
      BY <1>1 DEF unary, UnaryOps
    <3> QED BY <1>w, <2>1, <2>2, <2>3, <3>1
  <2>5. Ok(unary(op, e))
    BY <1>1, <1>left, <1>fail, <2>4
  <2> QED BY <2>5 DEF Ok
<1>2. CASE ~IsReg(e) /\ IsNum(e)
  <2>0. e.v \in Words
    BY <1>2 DEF WordOrReg
  <2>1. /\ (Word - e.v) % Word \in Words /\ Word - 1 - e.v \in Words
        /\ (e.v + 1) % Word \in Words /\ (e.v - 1) % Word \in Words
    BY <2>0, Folded
  <2>2. BoolToInt(e.v = 0) \in Words
    BY WordFacts DEF BoolToInt
  <2>3. unary(op, e) \in {Num(BoolToInt(e.v = 0)), Num((Word - e.v) % Word), Num(Word - 1 - e.v),
          Num((e.v + 1) % Word), Num((e.v - 1) % Word)}
    BY <1>2 DEF unary, UnaryOps
  <2>4. \E n \in Words : unary(op, e) = Num(n)
    BY <2>1, <2>2, <2>3, Zenon
  <2>5. Ok(unary(op, e))
    BY <1>2, <1>num, <2>4
  <2> QED BY <2>5 DEF Ok
<1>3. CASE ~IsReg(e) /\ ~IsNum(e)
  <2>1. unary(op, e) = Fail
    BY <1>3 DEF unary
  <2> QED BY <1>fail, <2>1 DEF Ok
<1> QED BY <1>1, <1>2, <1>3

\* cond moves one of two operands into the register of the condition.
MoveTo(c, e) == IF IsReg(e) THEN AluReg("mov", c.v, e.v) ELSE AluImm("mov", c.v, e.v)
CondCode(c, l, r) == <<JmpOff("jeq", c.v, 0, 2), MoveTo(c, l), Ja(1), MoveTo(c, r)>>

\* ?: works on the registers of its three operands.
LEMMA CondCompiled ==
  ASSUME NEW mem, NEW c, NEW l, NEW r, WordOrReg(c), WordOrReg(l), WordOrReg(r), IsReg(c),
         IsReg(l) \/ IsNum(l), IsReg(r) \/ IsNum(r)
  PROVE  CondCode(c, l, r) \in Work(mem, RegOf(c) \cup RegOf(l) \cup RegOf(r))
<1> DEFINE R == RegOf(c) \cup RegOf(l) \cup RegOf(r)
<1>0. R \in SUBSET Registers /\ c.v \in R /\ "mov" \in AluOps \ {"neg"} /\ "jeq" \in Conds
  BY DEF RegOf, WordOrReg, AluOps, Conds
<1>1. ASSUME NEW e \in {l, r}
      PROVE  MoveTo(c, e) \in Plain(mem, R) /\ \A d \in Nat : Lands(MoveTo(c, e), d)
  <2>1. CASE IsReg(e)
    <3>1. e.v \in R
      BY <2>1 DEF RegOf
    <3> HIDE DEF R
    <3> QED BY <1>0, <2>1, <3>1, PlainIs DEF MoveTo
  <2>2. CASE ~IsReg(e)
    <3>1. e.v \in Int
      BY <2>2, InWords DEF WordOrReg
    <3> HIDE DEF R
    <3> QED BY <1>0, <2>2, <3>1, PlainIs DEF MoveTo
  <2> QED BY <2>1, <2>2
<1> HIDE DEF R
<1>2. PICK a \in Plain(mem, R), b \in Plain(mem, R), j \in Plain(mem, R), d \in Plain(mem, R) :
        /\ a = JmpOff("jeq", c.v, 0, 2) /\ b = MoveTo(c, l) /\ j = Ja(1) /\ d = MoveTo(c, r)
        /\ Lands(a, 3) /\ Lands(b, 2) /\ Lands(j, 1) /\ Lands(d, 0)
  BY <1>0, <1>1, PlainIs
<1>3. <<a, b, j, d>> \in Work(mem, R)
  BY <1>2, WorkOf
<1> QED BY <1>2, <1>3 DEF R, CondCode

\* What the last instruction of a filter does: it leaves 1 or 0, and 0 but for "||".
Closes(op, i, v) ==
  i = AluReg("xor", v, v) \/ (op = "oror" /\ i = AluImm("mov", v, 1))

\* Code that ends in emitReg2bool closes a filter.
LEMMA TruthCloses ==
  ASSUME NEW a, NEW i, NEW j
  PROVE  /\ <<i>> \o emitReg2bool(a) # <<>> /\ Last(<<i>> \o emitReg2bool(a)) = AluReg("xor", a, a)
         /\ <<i, j>> \o emitReg2bool(a) # <<>> /\ Last(<<i, j>> \o emitReg2bool(a)) = AluReg("xor", a, a)
<1>1. PICK x, y, z : x = AluImm("mov", a, 1) /\ y = Ja(1) /\ z = AluReg("xor", a, a)
  OBVIOUS
<1>2. emitReg2bool(a) = <<x, y, z>>
  BY <1>1 DEF emitReg2bool
<1>3. <<i>> \o <<x, y, z>> = <<i, x, y, z>> /\ <<i, j>> \o <<x, y, z>> = <<i, j, x, y, z>>
  BY Written, Zenon
<1>4. <<i, x, y, z>> # <<>> /\ Last(<<i, x, y, z>>) = z
  BY DEF Last
<1>5. <<i, j, x, y, z>> # <<>> /\ Last(<<i, j, x, y, z>>) = z
  BY DEF Last
<1> QED BY <1>1, <1>2, <1>3, <1>4, <1>5

\* So does every operator that may stand at the top of a filter.
LEMMA FilterCloses ==
  ASSUME NEW op \in FilterOps \cap BinaryOps, NEW l, NEW r, NEW z,
         IsNum(l) \/ IsReg(l), IsNum(r) \/ IsReg(r)
  PROVE  LET res == binary(op, l, r, z)
         IN  /\ res.keep \in {"left", "right", "num"}
             /\ res.keep = "left" => res.code # <<>> /\ Closes(op, Last(res.code), l.v)
             /\ res.keep = "right" => res.code # <<>> /\ Closes(op, Last(res.code), r.v)
<1> DEFINE Ok(res) == /\ res.keep \in {"left", "right", "num"}
                      /\ res.keep = "left" => res.code # <<>> /\ Closes(op, Last(res.code), l.v)
                      /\ res.keep = "right" => res.code # <<>> /\ Closes(op, Last(res.code), r.v)
<1>left. ASSUME NEW code, code # <<>>, Closes(op, Last(code), l.v) PROVE Ok(Left(code))
  BY <1>left DEF Left, Result
<1>right. ASSUME NEW code, code # <<>>, Closes(op, Last(code), r.v) PROVE Ok(Right(code))
  BY <1>right DEF Right, Result
<1>num. ASSUME NEW n PROVE Ok(Num(n))
  BY DEF Num, Result
<1> HIDE DEF Ok
<1>k. \/ BothNum(l, r) /\ ~BothReg(l, r) /\ ~NumReg(l, r) /\ ~RegNum(l, r) /\ IsNum(l) /\ IsNum(r) /\ ~IsReg(l) /\ ~IsReg(r)
      \/ BothReg(l, r) /\ ~BothNum(l, r) /\ ~NumReg(l, r) /\ ~RegNum(l, r) /\ IsReg(l) /\ IsReg(r) /\ ~IsNum(l) /\ ~IsNum(r)
      \/ NumReg(l, r) /\ ~BothNum(l, r) /\ ~BothReg(l, r) /\ ~RegNum(l, r) /\ IsNum(l) /\ IsReg(r) /\ ~IsReg(l) /\ ~IsNum(r)
      \/ RegNum(l, r) /\ ~BothNum(l, r) /\ ~BothReg(l, r) /\ ~NumReg(l, r) /\ IsReg(l) /\ IsNum(r) /\ ~IsReg(r) /\ ~IsNum(l)
  BY OperandKinds
<1>t. \A i, j :
        /\ Ok(Left(<<i>> \o emitReg2bool(l.v))) /\ Ok(Right(<<i>> \o emitReg2bool(r.v)))
        /\ Ok(Left(<<i, j>> \o emitReg2bool(l.v)))
  BY <1>left, <1>right, TruthCloses DEF Closes
<1>1. Ok(andand(l, r))
  BY <1>k, <1>t, <1>num DEF andand
<1>2. op = "oror" => Ok(oror(l, r))
  <2> SUFFICES ASSUME op = "oror" PROVE Ok(oror(l, r))
    OBVIOUS
  <2>1. CASE BothReg(l, r)
    <3>1. PICK a, b, c, d, e :
            /\ a = JmpOff("jne", l.v, 0, 3) /\ b = JmpOff("jne", r.v, 0, 2)
            /\ c = AluReg("xor", l.v, l.v) /\ d = Ja(1) /\ e = AluImm("mov", l.v, 1)
      OBVIOUS
    <3>2. <<a, b, c, d, e>> # <<>> /\ Last(<<a, b, c, d, e>>) = e
      BY DEF Last
    <3>3. Closes(op, e, l.v)
      BY <3>1 DEF Closes
    <3>4. oror(l, r) = Left(<<a, b, c, d, e>>)
      BY <1>k, <2>1, <3>1 DEF oror
    <3> QED BY <1>left, <3>2, <3>3, <3>4
  <2>2. CASE ~BothReg(l, r)
    BY <1>k, <1>t, <1>num, <2>2 DEF oror
  <2> QED BY <2>1, <2>2
<1>3. Ok(compare(op, l, r))
  <2>1. CASE BothNum(l, r)
    <3>1. compare(op, l, r) = Num(BoolToInt(Holds(op, Signed(l.v), Signed(r.v))))
      BY <1>k, <2>1 DEF compare
    <3> QED BY <1>num, <3>1, Zenon
  <2>2. CASE ~BothNum(l, r)
    <3>1. PICK c : c = NegJump[op]
      OBVIOUS
    <3>2. compare(op, l, r) \in {Left(<<JmpReg(c, l.v, r.v, 2)>> \o emitReg2bool(l.v)),
            Left(<<JmpOff(c, l.v, r.v, 2)>> \o emitReg2bool(l.v)),
            Right(<<JmpOff(c, r.v, l.v, 2)>> \o emitReg2bool(r.v))}
      BY <1>k, <2>2, <3>1 DEF compare
    <3> QED BY <1>t, <3>2
  <2> QED BY <2>1, <2>2
<1>4. PICK x : x = binary(op, l, r, z)
  OBVIOUS
<1>5. x \in {andand(l, r), compare(op, l, r)} \/ (op = "oror" /\ x = oror(l, r))
  BY <1>4 DEF binary, BinaryOps, FilterOps, Comparisons
<1>6. Ok(x)
  BY <1>1, <1>2, <1>3, <1>5
<1> QED BY <1>4, <1>6 DEF Ok

\* So does "!".
LEMMA NotCloses ==
  ASSUME NEW e, unary("not", e).keep = "left"
  PROVE  unary("not", e).code # <<>> /\ Closes("not", Last(unary("not", e).code), e.v)
<1>1. unary("not", e) \in {Fail, Left(not(e.v)), Num(BoolToInt(e.v = 0))}
  BY DEF unary
<1>2. unary("not", e) = Left(not(e.v))
  BY <1>1 DEF Fail, Left, Num, Result
<1>3. unary("not", e).code = not(e.v)
  BY <1>2 DEF Left, Result
<1> QED BY <1>3, TruthCloses DEF not, Closes

\* Where a word is: a register, or the slot that bpf_probe_read_kernel writes.
Buf == 10
Places == 0..10
Full(x, p) == IF p = Buf THEN x.stack[BufSlot] # Junk ELSE x.regs[p] # Junk

\* The registers K hold words, whatever happens, and so do the places D unless
\* the program has left.
Has(x, K, D) ==
  /\ ~x.bad /\ x.skip = 0
  /\ \A p \in K : x.regs[p] # Junk
  /\ ~x.exit => \A p \in D : Full(x, p)

\* Code that reads only what K and D hold, and leaves K and E.
Fine(mem, K, D, code, E) ==
  /\ code \in Block(mem)
  /\ \A x \in Machines : Has(x, K, D) => Has(Steps(x, code, mem), K, E)

\* What an instruction that does not jump, or jumps to the exit label, leaves.
After(i, D) ==
  CASE i.op \in AluOps \cup {"arg", "ldx", "fill", "fp"} -> D \cup {i.dst}
    [] i.op = "probe" -> (D \ (1..5)) \cup {0, Buf}
    [] i.op = "cast" -> (D \ (1..i.src)) \cup {0}
    [] OTHER -> D

\* A call of a helper, which returns 0.
LEMMA HelperCalled ==
  ASSUME NEW x \in Machines, NEW u, u = AfterCall(x, 0, 5)
  PROVE  /\ u \in Machines /\ u.regs[0] = 0 /\ u.stack = x.stack /\ u.skip = x.skip
         /\ u.exit = x.exit /\ u.bad = x.bad
         /\ \A q \in Registers : q # 0 /\ q \notin 1..5 => u.regs[q] = x.regs[q]
<1>1. 0 \in Words \cup {Junk} /\ 5 \in Nat
  BY WordFacts
<1> QED BY <1>1, AfterCallRegs

\* What one instruction needs and leaves, in registers and in the buffer.
LEMMA ExecFine ==
  ASSUME NEW x \in Machines, NEW mem, IsMem(mem), NEW i \in Good(mem),
         NEW K \in SUBSET Registers, NEW D \in SUBSET Places,
         Has(x, K, D), ~x.exit, \A r \in Reads(i) : r \in Registers /\ x.regs[r] # Junk,
         i.op \notin {"ja", "spill"}, i.op \in Conds => i.off = ToExit,
         i.op = "fill" => i.src = BufSlot /\ Buf \in D,
         i.op = "probe" => K \cap (1..5) = {}, i.op = "cast" => K \cap (1..i.src) = {}
  PROVE  Has(Exec(x, i, mem), K, After(i, D))
<1> DEFINE y == Exec(x, i, mem)
<1>i. i \in Insns /\ Apt(i, mem) /\ i.dst \in Registers /\ i.op \in Ops /\ i.src \in Int /\ i.imm \in BOOLEAN
  BY DEF Good, Insns
<1>r. \A r \in Registers : x.regs[r] \in Words \cup {Junk}
  BY DEF Machines, Regs
<1>x. ~x.bad /\ x.skip = 0 /\ (\A p \in K : x.regs[p] # Junk) /\ \A p \in D : Full(x, p)
  BY DEF Has
<1>d. \A p \in D : p = Buf \/ p \in Registers
  BY DEF Places, Buf, Registers
<1>b. \A r \in Registers : r # Buf
  BY DEF Registers, Buf
<1>put. ASSUME NEW w \in Words, y = Put(x, i.dst, w), After(i, D) = D \cup {i.dst}
        PROVE Has(y, K, After(i, D))
  <2> HIDE DEF y
  <2>1. /\ y.regs[i.dst] = w /\ (\A q \in Registers : q # i.dst => y.regs[q] = x.regs[q])
        /\ y.stack = x.stack /\ y.skip = x.skip /\ y.exit = x.exit /\ y.bad = x.bad
    BY <1>i, <1>put, MachineRegs
  <2>2. w # Junk
    BY Ranges
  <2>3. \A p \in D \cup {i.dst} : Full(y, p)
    BY <1>i, <1>x, <1>d, <1>b, <2>1, <2>2 DEF Full
  <2> QED BY <1>x, <1>put, <2>1, <2>2, <2>3 DEF Has
<1>ops. /\ AluOps = {"mov", "add", "sub", "mul", "div", "mod", "and", "or", "xor", "lsh", "rsh", "neg"}
        /\ Conds = {"jeq", "jne", "jgt", "jge", "jlt", "jle"}
  BY DEF AluOps, Conds
<1>1. CASE i.op \in AluOps
  <2>1. PICK b : b = IF i.imm THEN Imm(i.src) ELSE x.regs[i.src]
    OBVIOUS
  <2>2. b \in Words
    <3>1. CASE i.imm
      BY <1>i, <2>1, <3>1, ImmWord
    <3>2. CASE ~i.imm
      <4>1. i.src \in Registers /\ i.src \in Reads(i)
        BY <1>1, <1>i, <3>2 DEF Apt, Reads, AluOps
      <4> QED BY <1>r, <2>1, <3>2, <4>1
    <3> QED BY <3>1, <3>2
  <2>3. i.op # "mov" => x.regs[i.dst] \in Words
    <3>1. i.op # "mov" => i.dst \in Reads(i)
      BY <1>1 DEF Reads, AluOps
    <3> QED BY <1>i, <1>r, <3>1
  <2>4. PICK w \in Words : w = Alu(i.op, x.regs[i.dst], b)
    BY <1>1, <2>2, <2>3, AluWord
  <2>5. y = Put(x, i.dst, w)
    BY <1>1, <2>1, <2>4 DEF Exec, AluOps, Conds
  <2>6. After(i, D) = D \cup {i.dst}
    BY <1>1, <1>ops DEF After
  <2> QED BY <1>put, <2>5, <2>6
<1>2. CASE i.op \in Conds
  <2>1. After(i, D) = D
    BY <1>2, <1>ops DEF After
  <2>2. y \in {x, [x EXCEPT !.exit = TRUE]}
    BY <1>2 DEF Exec, Conds, AluOps
  <2> HIDE DEF y
  <2>3. y.regs = x.regs /\ y.skip = x.skip /\ y.bad = x.bad /\ (y.exit \/ y = x)
    BY <2>2 DEF Machines
  <2> QED BY <1>x, <2>1, <2>3 DEF Has, y
<1>3. CASE i.op = "arg"
  <2>1. y = Put(x, i.dst, mem.args[i.src]) /\ mem.args[i.src] \in Words
    BY <1>i, <1>3, <1>ops DEF Exec, Apt
  <2>2. After(i, D) = D \cup {i.dst}
    BY <1>3, <1>ops DEF After
  <2> QED BY <1>put, <2>1, <2>2
<1>4. CASE i.op = "ldx"
  <2>0. i.src \in Registers /\ i.src \in Reads(i) /\ i.off \in Int \X {1, 2}
    BY <1>i, <1>4, <1>ops DEF Apt, Reads
  <2>1. PICK a : a = (x.regs[i.src] + i.off[1]) % Word
    OBVIOUS
  <2>2. a \in Words
    <3>1. x.regs[i.src] \in Words /\ i.off[1] \in Int
      BY <1>r, <2>0
    <3>2. x.regs[i.src] + i.off[1] \in Int
      BY <3>1, InWords
    <3> QED BY <2>1, <3>2, InWords
  <2>3. y = Put(x, i.dst, ReadMem(mem, a, i.off[2]))
    BY <1>4, <1>ops, <2>1 DEF Exec
  <2>4. ReadMem(mem, a, i.off[2]) \in Words
    BY <2>2, ReadWord
  <2>5. After(i, D) = D \cup {i.dst}
    BY <1>4, <1>ops DEF After
  <2> QED BY <1>put, <2>3, <2>4, <2>5
<1>5. CASE i.op = "fp"
  <2>1. y = Put(x, i.dst, 0) /\ 0 \in Words
    BY <1>5, <1>ops, Ranges DEF Exec
  <2>2. After(i, D) = D \cup {i.dst}
    BY <1>5, <1>ops DEF After
  <2> QED BY <1>put, <2>1, <2>2
<1>6. CASE i.op = "fill"
  <2>1. y = Put(x, i.dst, x.stack[BufSlot])
    BY <1>6, <1>ops DEF Exec
  <2>2. x.stack[BufSlot] \in Words
    <3>1. x.stack[BufSlot] # Junk
      BY <1>x, <1>6 DEF Full
    <3>2. x.stack \in [Slots -> Words \cup {Junk}] /\ BufSlot \in Slots
      BY Ranges DEF Machines
    <3> QED BY <3>1, <3>2
  <2>3. After(i, D) = D \cup {i.dst}
    BY <1>6, <1>ops DEF After
  <2> QED BY <1>put, <2>1, <2>2, <2>3
<1>7. CASE i.op = "probe"
  <2>0. 3 \in Reads(i) /\ 3 \in Registers /\ 0 \in Words \cup {Junk} /\ BufSlot \in Slots /\ 5 \in Nat
    BY <1>7, <1>ops, Ranges DEF Reads, Registers
  <2>1. ReadMem(mem, x.regs[3], 2) \in Words
    BY <1>r, <2>0, ReadWord
  <2>2. PICK w \in Words : w = ReadMem(mem, x.regs[3], 2)
    BY <2>1
  <2>3. PICK u : u = AfterCall(x, 0, 5)
    OBVIOUS
  <2>4. y = [u EXCEPT !.stack[BufSlot] = w]
    BY <1>7, <1>ops, <2>2, <2>3 DEF Exec
  <2>5. /\ u \in Machines /\ u.regs[0] = 0 /\ u.stack = x.stack /\ u.skip = x.skip
        /\ u.exit = x.exit /\ u.bad = x.bad
        /\ \A q \in Registers : q # 0 /\ q \notin 1..5 => u.regs[q] = x.regs[q]
    BY <2>3, HelperCalled
  <2> HIDE DEF y
  <2>6. /\ y.regs = u.regs /\ y.skip = u.skip /\ y.exit = u.exit /\ y.bad = u.bad
        /\ y.stack[BufSlot] = w
    BY <2>0, <2>4, <2>5 DEF Machines
  <2>7. After(i, D) = (D \ (1..5)) \cup {0, Buf}
    BY <1>7, <1>ops DEF After
  <2>8. w # Junk /\ 0 # Junk /\ 0 \in Registers /\ 0 # Buf
    BY Ranges DEF Buf
  <2>9. \A p \in K : y.regs[p] # Junk
    <3> TAKE p \in K
    <3>1. p \in Registers /\ p \notin 1..5
      BY <1>7
    <3> QED BY <1>x, <2>5, <2>6, <2>8, <3>1
  <2>10. \A p \in (D \ (1..5)) \cup {0, Buf} : Full(y, p)
    BY <1>x, <1>d, <1>b, <2>5, <2>6, <2>8 DEF Full
  <2> QED BY <1>x, <2>5, <2>6, <2>7, <2>9, <2>10 DEF Has, y
<1>8. CASE i.op = "cast"
  <2>0. 1 \in Reads(i) /\ 1 \in Registers /\ i.src \in Nat /\ 0 \in Registers /\ 0 # Buf
    BY <1>i, <1>8, <1>ops, Ranges DEF Reads, Registers, Apt, Buf
  <2>1. PICK w \in Words : w = x.regs[1]
    BY <1>r, <2>0
  <2>2. y = AfterCall(x, w, i.src)
    BY <1>8, <1>ops, <2>1 DEF Exec
  <2> HIDE DEF y
  <2>3. /\ y.regs[0] = w /\ y.stack = x.stack /\ y.skip = x.skip
        /\ y.exit = x.exit /\ y.bad = x.bad
        /\ \A q \in Registers : q # 0 /\ q \notin 1..i.src => y.regs[q] = x.regs[q]
    BY <2>0, <2>2, AfterCallRegs
  <2>4. After(i, D) = (D \ (1..i.src)) \cup {0}
    BY <1>8, <1>ops DEF After
  <2>5. w # Junk
    BY Ranges
  <2>6. \A p \in K : y.regs[p] # Junk
    <3> TAKE p \in K
    <3>1. p \in Registers /\ p \notin 1..i.src
      BY <1>8
    <3> QED BY <1>x, <2>3, <2>5, <3>1
  <2>7. Buf \notin 1..i.src
    BY <1>i, <1>8 DEF Apt, Buf
  <2>8. \A p \in (D \ (1..i.src)) \cup {0} : Full(y, p)
    BY <1>x, <1>d, <1>b, <2>0, <2>3, <2>5, <2>7 DEF Full
  <2> QED BY <1>x, <2>3, <2>4, <2>6, <2>8 DEF Has, y
<1>9. i.op \in AluOps \cup Conds \cup {"arg", "ldx", "fp", "fill", "probe", "cast"}
  BY <1>i DEF Ops, Jumps
<1> QED BY <1>1, <1>2, <1>3, <1>4, <1>5, <1>6, <1>7, <1>8, <1>9

\* What an instruction reads is there, and a call loses nothing of K.
Sure(i, K, D) ==
  /\ \A r \in Reads(i) : r \in Registers /\ (r \in K \/ r \in D)
  /\ i.op \notin {"ja", "spill"}
  /\ i.op \in Conds => i.off = ToExit
  /\ i.op = "fill" => i.src = BufSlot /\ Buf \in D
  /\ i.op = "probe" => K \cap (1..5) = {}
  /\ i.op = "cast" => K \cap (1..i.src) = {}

\* The same of code of one instruction.
LEMMA FineOne ==
  ASSUME NEW mem, IsMem(mem), NEW i \in Good(mem), NEW K \in SUBSET Registers,
         NEW D \in SUBSET Places, Sure(i, K, D)
  PROVE  Fine(mem, K, D, <<i>>, After(i, D))
<1>1. <<i>> \in Block(mem)
  <2>1. Lands(i, 0)
    BY DEF Sure, Lands, Jumps
  <2> QED BY <2>1, BlockOf
<1>2. ASSUME NEW x \in Machines, Has(x, K, D) PROVE Has(Steps(x, <<i>>, mem), K, After(i, D))
  <2>1. Steps(x, <<i>>, mem) = Step(x, i, mem)
    BY StepsOne
  <2>2. CASE x.exit
    <3>1. Step(x, i, mem) = x
      BY <2>2, StepTyped
    <3>2. Has(x, K, After(i, D))
      BY <1>2, <2>2 DEF Has
    <3> QED BY <2>1, <3>1, <3>2
  <2>3. CASE ~x.exit
    <3>1. \A r \in Reads(i) : r \in Registers /\ x.regs[r] # Junk
      BY <1>2, <2>3 DEF Has, Sure, Full, Buf, Registers
    <3>2. ~x.bad /\ x.skip = 0
      BY <1>2 DEF Has
    <3>3. Step(x, i, mem) = Exec(x, i, mem)
      BY <2>3, <3>1, <3>2, StepTyped
    <3>4. Has(Exec(x, i, mem), K, After(i, D))
      BY <1>2, <2>3, <3>1, ExecFine DEF Sure
    <3> QED BY <2>1, <3>3, <3>4
  <2> QED BY <2>2, <2>3
<1> QED BY <1>1, <1>2 DEF Fine

\* Code after code: what the one leaves the other needs.
LEMMA FineJoin ==
  ASSUME NEW mem, IsMem(mem), NEW K, NEW D, NEW s, NEW E, NEW t, NEW F,
         Fine(mem, K, D, s, E), Fine(mem, K, E, t, F)
  PROVE  Fine(mem, K, D, s \o t, F)
<1>0. s \in Block(mem) /\ t \in Block(mem) /\ s \in Seq(Good(mem)) /\ t \in Seq(Good(mem))
  BY DEF Fine, Block
<1>1. s \o t \in Block(mem)
  BY <1>0, BlockJoin
<1>2. ASSUME NEW x \in Machines, Has(x, K, D) PROVE Has(Steps(x, s \o t, mem), K, F)
  <2>1. Steps(x, s \o t, mem) = Steps(Steps(x, s, mem), t, mem)
    BY <1>0, StepsJoin
  <2>2. PICK y \in Machines : y = Steps(x, s, mem)
    BY <1>0, StepsTyped
  <2>3. Has(y, K, E)
    BY <1>2, <2>2 DEF Fine
  <2>4. Has(Steps(y, t, mem), K, F)
    BY <2>3 DEF Fine
  <2> QED BY <2>1, <2>2, <2>4
<1> QED BY <1>1, <1>2 DEF Fine

\* Code that needs less, or is asked to leave less.
LEMMA FineWeak ==
  ASSUME NEW mem, NEW K, NEW D, NEW s, NEW E, NEW d, NEW e,
         Fine(mem, K, D, s, E), D \subseteq d \cup K, Buf \notin K, e \subseteq E
  PROVE  Fine(mem, K, d, s, e)
<1>1. ASSUME NEW x, Has(x, K, d) PROVE Has(x, K, D)
  BY <1>1 DEF Has, Full
<1>2. ASSUME NEW x, Has(x, K, E) PROVE Has(x, K, e)
  BY <1>2 DEF Has
<1> QED BY <1>1, <1>2 DEF Fine

\* No code leaves what there is.
LEMMA FineNone ==
  ASSUME NEW mem, IsMem(mem), NEW K, NEW D
  PROVE  Fine(mem, K, D, <<>>, D)
<1>1. \A x \in Machines : Steps(x, <<>>, mem) = x
  BY StepsOne
<1> QED BY <1>1, BlockOf DEF Fine

\* The code of an operator keeps what there is.
LEMMA WorkFine ==
  ASSUME NEW mem, IsMem(mem), NEW K \in SUBSET Registers, NEW D \in SUBSET Registers,
         NEW code \in Work(mem, K \cup D)
  PROVE  Fine(mem, K, D, code, D)
<1>0. code \in Block(mem)
  BY DEF Work
<1>1. ASSUME NEW x \in Machines, Has(x, K, D) PROVE Has(Steps(x, code, mem), K, D)
  <2>0. Buf \notin Registers /\ K \cup D \in SUBSET Registers
    BY DEF Buf, Registers
  <2>1. x.skip = 0 /\ ~x.bad /\ (~x.exit => Holding(x, K \cup D))
    BY <1>1, <2>0 DEF Has, Full, Holding
  <2>2. PICK y : y = Steps(x, code, mem)
    OBVIOUS
  <2>3. ~y.bad /\ y.exit = x.exit /\ \A r \in Registers : x.regs[r] # Junk => y.regs[r] # Junk
    BY <2>0, <2>1, <2>2, WorkRun
  <2>4. y.skip = 0
    BY <1>0, <2>1, <2>2, BlockRun
  <2>5. \A p \in K : y.regs[p] # Junk
    BY <1>1, <2>3 DEF Has
  <2>6. ~y.exit => \A p \in D : Full(y, p)
    BY <1>1, <2>0, <2>3 DEF Has, Full
  <2> QED BY <2>2, <2>3, <2>4, <2>5, <2>6 DEF Has
<1> QED BY <1>0, <1>1 DEF Fine

\* Code without a jump to the exit label does not leave.
LEMMA WorkStays ==
  ASSUME NEW x \in Machines, NEW mem, IsMem(mem), NEW R, NEW code \in Work(mem, R), x.skip = 0
  PROVE  Steps(x, code, mem).exit <=> x.exit
<1>0. /\ code \in Block(mem) /\ code \in Seq(Good(mem))
      /\ \A k \in DOMAIN code : code[k].off # ToExit
  BY DEF Work, Block, Plain
<1>1. Steps(x, code, mem).exit => x.exit
  BY <1>0, BlockRun
<1>2. x.exit => Steps(x, code, mem) = x
  BY <1>0, Stopped
<1> QED BY <1>1, <1>2

\* The instructions that read memory and call.
LEMMA Constructed ==
  ASSUME NEW mem
  PROVE  /\ \A r \in Registers, n \in Int : AluImm("mov", r, n) \in Good(mem)
         /\ \A op \in AluOps, r \in Registers, n \in Int : AluImm(op, r, n) \in Good(mem)
         /\ \A op \in AluOps \ {"neg"}, r, s \in Registers : AluReg(op, r, s) \in Good(mem)
         /\ \A r \in Registers : Frame(r) \in Good(mem) /\ JmpOff("jeq", r, 0, ToExit) \in Good(mem)
         /\ ProbeRead \in Good(mem) /\ \A n \in {2, 5} : RdonlyCast(n) \in Good(mem)
         /\ \A r \in Registers, s \in Slots : Fill(r, s) \in Good(mem) /\ Spill(s, r) \in Good(mem)
         /\ \A r, s \in Registers, n \in Int, size \in {1, 2} : LoadMem(r, s, n, size) \in Good(mem)
         /\ \A r \in Registers, n \in Int : mem.args[n] \in Words => LoadArg(r, n) \in Good(mem)
<1>s. Registers \subseteq Int /\ Slots \subseteq Int /\ 0 \in Registers /\ ToExit \in Int
  BY DEF Registers, Slots, ToExit
<1>o. /\ AluOps = {"mov", "add", "sub", "mul", "div", "mod", "and", "or", "xor", "lsh", "rsh", "neg"}
      /\ Conds = {"jeq", "jne", "jgt", "jge", "jlt", "jle"}
  BY DEF AluOps, Conds
<1>p. AluOps \cup {"jeq", "fp", "probe", "cast", "fill", "spill", "ldx", "arg"} \subseteq Ops
  BY DEF Ops, Jumps, Conds
<1>1. ASSUME NEW op \in AluOps, NEW r \in Registers, NEW n \in Int PROVE AluImm(op, r, n) \in Good(mem)
  <2>1. PICK i : i = AluImm(op, r, n)
    OBVIOUS
  <2>2. i \in Insns /\ i.op = op /\ i.imm = TRUE
    BY <1>s, <1>p, <2>1 DEF AluImm, Insn, Insns
  <2>3. Apt(i, mem)
    BY <1>o, <2>2 DEF Apt
  <2> QED BY <2>1, <2>2, <2>3 DEF Good
<1>2. ASSUME NEW op \in AluOps \ {"neg"}, NEW r \in Registers, NEW s \in Registers
      PROVE AluReg(op, r, s) \in Good(mem)
  <2>1. PICK i : i = AluReg(op, r, s)
    OBVIOUS
  <2>2. i \in Insns /\ i.op = op /\ i.src = s
    BY <1>s, <1>p, <2>1 DEF AluReg, Insn, Insns
  <2>3. Apt(i, mem)
    BY <1>o, <2>2 DEF Apt
  <2> QED BY <2>1, <2>2, <2>3 DEF Good
<1>3. ASSUME NEW r \in Registers PROVE Frame(r) \in Good(mem)
  <2>1. PICK i : i = Frame(r)
    OBVIOUS
  <2>2. i \in Insns /\ i.op = "fp"
    BY <1>s, <1>p, <2>1 DEF Frame, Insn, Insns
  <2>3. Apt(i, mem)
    BY <1>o, <2>2 DEF Apt
  <2> QED BY <2>1, <2>2, <2>3 DEF Good
<1>4. ASSUME NEW r \in Registers PROVE JmpOff("jeq", r, 0, ToExit) \in Good(mem)
  <2>1. PICK i : i = JmpOff("jeq", r, 0, ToExit)
    OBVIOUS
  <2>2. i \in Insns /\ i.op = "jeq" /\ i.imm = TRUE /\ i.off = ToExit
    BY <1>s, <1>p, <2>1 DEF JmpOff, Insn, Insns
  <2>3. Apt(i, mem)
    BY <1>o, <2>2 DEF Apt
  <2> QED BY <2>1, <2>2, <2>3 DEF Good
<1>5. ProbeRead \in Good(mem)
  <2>1. PICK i : i = ProbeRead
    OBVIOUS
  <2>2. i \in Insns /\ i.op = "probe"
    BY <1>s, <1>p, <2>1 DEF ProbeRead, Insn, Insns
  <2>3. Apt(i, mem)
    BY <1>o, <2>2 DEF Apt
  <2> QED BY <2>1, <2>2, <2>3 DEF Good
<1>6. ASSUME NEW n \in {2, 5} PROVE RdonlyCast(n) \in Good(mem)
  <2>1. PICK i : i = RdonlyCast(n)
    OBVIOUS
  <2>2. i \in Insns /\ i.op = "cast" /\ i.src = n
    BY <1>s, <1>p, <2>1 DEF RdonlyCast, Insn, Insns
  <2>3. Apt(i, mem)
    BY <1>o, <2>2 DEF Apt
  <2> QED BY <2>1, <2>2, <2>3 DEF Good
<1>7. ASSUME NEW r \in Registers, NEW s \in Slots PROVE Fill(r, s) \in Good(mem) /\ Spill(s, r) \in Good(mem)
  <2>1. PICK i, j : i = Fill(r, s) /\ j = Spill(s, r)
    OBVIOUS
  <2>2. i \in Insns /\ i.op = "fill" /\ i.src = s
    BY <1>s, <1>p, <2>1 DEF Fill, Insn, Insns
  <2>3. j \in Insns /\ j.op = "spill" /\ j.src = s
    BY <1>s, <1>p, <2>1 DEF Spill, Insn, Insns
  <2>4. Apt(i, mem) /\ Apt(j, mem)
    BY <1>o, <2>2, <2>3 DEF Apt
  <2> QED BY <2>1, <2>2, <2>3, <2>4 DEF Good
<1>8. ASSUME NEW r \in Registers, NEW s \in Registers, NEW n \in Int, NEW size \in {1, 2}
      PROVE LoadMem(r, s, n, size) \in Good(mem)
  <2>1. PICK i : i = LoadMem(r, s, n, size)
    OBVIOUS
  <2>2. i \in Insns /\ i.op = "ldx" /\ i.src = s /\ i.off \in Int \X {1, 2}
    BY <1>s, <1>p, <2>1 DEF LoadMem, Insn, Insns
  <2>3. Apt(i, mem)
    BY <1>o, <2>2 DEF Apt
  <2> QED BY <2>1, <2>2, <2>3 DEF Good
<1>9. ASSUME NEW r \in Registers, NEW n \in Int, mem.args[n] \in Words PROVE LoadArg(r, n) \in Good(mem)
  <2>1. PICK i : i = LoadArg(r, n)
    OBVIOUS
  <2>2. i \in Insns /\ i.op = "arg" /\ i.src = n
    BY <1>s, <1>p, <2>1 DEF LoadArg, Insn, Insns
  <2>3. Apt(i, mem)
    BY <1>o, <1>9, <2>2 DEF Apt
  <2> QED BY <2>1, <2>2, <2>3 DEF Good
<1>10. "mov" \in AluOps
  BY <1>o
<1> QED BY <1>1, <1>2, <1>3, <1>4, <1>5, <1>6, <1>7, <1>8, <1>9, <1>10

\* What each leaves.
LEMMA Rules ==
  ASSUME NEW mem, IsMem(mem), NEW K \in SUBSET Registers, NEW D \in SUBSET Places
  PROVE  /\ \A r \in Registers, n \in Int : Fine(mem, K, D, <<AluImm("mov", r, n)>>, D \cup {r})
         /\ \A op \in AluOps, r \in Registers, n \in Int :
              r \in K \cup D => Fine(mem, K, D, <<AluImm(op, r, n)>>, D \cup {r})
         /\ \A r, s \in Registers : s \in K \cup D => Fine(mem, K, D, <<AluReg("mov", r, s)>>, D \cup {r})
         /\ \A op \in AluOps \ {"neg"}, r, s \in Registers :
              {r, s} \subseteq K \cup D => Fine(mem, K, D, <<AluReg(op, r, s)>>, D \cup {r})
         /\ \A r \in Registers : Fine(mem, K, D, <<Frame(r)>>, D \cup {r})
         /\ \A r \in Registers : r \in K \cup D => Fine(mem, K, D, <<JmpOff("jeq", r, 0, ToExit)>>, D)
<1>s. 0 \in Int
  OBVIOUS
<1>o. /\ AluOps = {"mov", "add", "sub", "mul", "div", "mod", "and", "or", "xor", "lsh", "rsh", "neg"}
      /\ Conds = {"jeq", "jne", "jgt", "jge", "jlt", "jle"}
  BY DEF AluOps, Conds
<1>1. ASSUME NEW op \in AluOps, NEW r \in Registers, NEW n \in Int, op # "mov" => r \in K \cup D
      PROVE  Fine(mem, K, D, <<AluImm(op, r, n)>>, D \cup {r})
  <2>1. PICK i \in Good(mem) : i = AluImm(op, r, n)
    BY Constructed
  <2>2. i.op = op /\ i.imm = TRUE /\ i.dst = r
    BY <2>1 DEF AluImm, Insn
  <2>3. Reads(i) \subseteq (IF op = "mov" THEN {} ELSE {r})
    BY <1>o, <2>2 DEF Reads
  <2>4. Sure(i, K, D) /\ After(i, D) = D \cup {r}
    BY <1>o, <1>1, <2>2, <2>3 DEF Sure, After
  <2> QED BY <2>1, <2>4, FineOne
<1>2. ASSUME NEW op \in AluOps \ {"neg"}, NEW r \in Registers, NEW s \in Registers,
             s \in K \cup D, op # "mov" => r \in K \cup D
      PROVE  Fine(mem, K, D, <<AluReg(op, r, s)>>, D \cup {r})
  <2>1. PICK i \in Good(mem) : i = AluReg(op, r, s)
    BY Constructed
  <2>2. i.op = op /\ i.imm = FALSE /\ i.dst = r /\ i.src = s
    BY <2>1 DEF AluReg, Insn
  <2>3. Reads(i) \subseteq (IF op = "mov" THEN {s} ELSE {r, s})
    BY <1>o, <2>2 DEF Reads
  <2>4. Sure(i, K, D) /\ After(i, D) = D \cup {r}
    BY <1>o, <1>2, <2>2, <2>3 DEF Sure, After
  <2> QED BY <2>1, <2>4, FineOne
<1>3. ASSUME NEW r \in Registers PROVE Fine(mem, K, D, <<Frame(r)>>, D \cup {r})
  <2>1. PICK i \in Good(mem) : i = Frame(r)
    BY Constructed
  <2>2. i.op = "fp" /\ i.dst = r
    BY <2>1 DEF Frame, Insn
  <2>3. Reads(i) = {}
    BY <1>o, <2>2 DEF Reads
  <2>4. Sure(i, K, D) /\ After(i, D) = D \cup {r}
    BY <1>o, <2>2, <2>3 DEF Sure, After
  <2> QED BY <2>1, <2>4, FineOne
<1>4. ASSUME NEW r \in Registers, r \in K \cup D
      PROVE Fine(mem, K, D, <<JmpOff("jeq", r, 0, ToExit)>>, D)
  <2>1. PICK i \in Good(mem) : i = JmpOff("jeq", r, 0, ToExit)
    BY Constructed
  <2>2. i.op = "jeq" /\ i.dst = r /\ i.imm = TRUE /\ i.off = ToExit
    BY <2>1 DEF JmpOff, Insn
  <2>3. Reads(i) = {r}
    BY <1>o, <2>2 DEF Reads
  <2>4. Sure(i, K, D) /\ After(i, D) = D
    BY <1>o, <1>4, <2>2, <2>3 DEF Sure, After
  <2> QED BY <2>1, <2>4, FineOne
<1> QED BY <1>o, <1>1, <1>2, <1>3, <1>4

\* Arguments, calls, memory and the buffer.
LEMMA CallRules ==
  ASSUME NEW mem, IsMem(mem), NEW K \in SUBSET Registers, NEW D \in SUBSET Places
  PROVE  /\ {1, 2, 3} \subseteq D /\ K \cap (1..5) = {} =>
              Fine(mem, K, D, <<ProbeRead>>, (D \ (1..5)) \cup {0, Buf})
         /\ \A n \in {2, 5} : {1, 2} \subseteq D /\ K \cap (1..n) = {} =>
              Fine(mem, K, D, <<RdonlyCast(n)>>, (D \ (1..n)) \cup {0})
         /\ \A r \in Registers : Buf \in D => Fine(mem, K, D, <<Fill(r, BufSlot)>>, D \cup {r})
         /\ \A r, s \in Registers, n \in Int, size \in {1, 2} :
              s \in K \cup D => Fine(mem, K, D, <<LoadMem(r, s, n, size)>>, D \cup {r})
         /\ \A r \in Registers, n \in Int : mem.args[n] \in Words /\ ArgsReg \in K =>
              Fine(mem, K, D, <<LoadArg(r, n)>>, D \cup {r})
<1>s. {1, 2, 3} \subseteq Registers /\ BufSlot \in Slots /\ ArgsReg \in Registers
  BY DEF Registers, BufSlot, Slots, ArgsReg
<1>o. /\ AluOps = {"mov", "add", "sub", "mul", "div", "mod", "and", "or", "xor", "lsh", "rsh", "neg"}
      /\ Conds = {"jeq", "jne", "jgt", "jge", "jlt", "jle"}
  BY DEF AluOps, Conds
<1>1. ASSUME {1, 2, 3} \subseteq D, K \cap (1..5) = {}
      PROVE  Fine(mem, K, D, <<ProbeRead>>, (D \ (1..5)) \cup {0, Buf})
  <2>1. PICK i \in Good(mem) : i = ProbeRead
    BY Constructed
  <2>2. i.op = "probe"
    BY <2>1 DEF ProbeRead, Insn
  <2>3. Reads(i) = {1, 2, 3}
    BY <1>o, <2>2 DEF Reads
  <2>4. Sure(i, K, D) /\ After(i, D) = (D \ (1..5)) \cup {0, Buf}
    BY <1>s, <1>o, <1>1, <2>2, <2>3 DEF Sure, After
  <2> QED BY <2>1, <2>4, FineOne
<1>2. ASSUME NEW n \in {2, 5}, {1, 2} \subseteq D, K \cap (1..n) = {}
      PROVE  Fine(mem, K, D, <<RdonlyCast(n)>>, (D \ (1..n)) \cup {0})
  <2>1. PICK i \in Good(mem) : i = RdonlyCast(n)
    BY Constructed
  <2>2. i.op = "cast" /\ i.src = n
    BY <2>1 DEF RdonlyCast, Insn
  <2>3. Reads(i) = {1, 2}
    BY <1>o, <2>2 DEF Reads
  <2>4. Sure(i, K, D) /\ After(i, D) = (D \ (1..n)) \cup {0}
    BY <1>s, <1>o, <1>2, <2>2, <2>3 DEF Sure, After
  <2> QED BY <2>1, <2>4, FineOne
<1>3. ASSUME NEW r \in Registers, Buf \in D PROVE Fine(mem, K, D, <<Fill(r, BufSlot)>>, D \cup {r})
  <2>1. PICK i \in Good(mem) : i = Fill(r, BufSlot)
    BY <1>s, Constructed
  <2>2. i.op = "fill" /\ i.dst = r /\ i.src = BufSlot
    BY <2>1 DEF Fill, Insn
  <2>3. Reads(i) = {}
    BY <1>o, <2>2 DEF Reads
  <2>4. Sure(i, K, D) /\ After(i, D) = D \cup {r}
    BY <1>o, <1>3, <2>2, <2>3 DEF Sure, After
  <2> QED BY <2>1, <2>4, FineOne
<1>4. ASSUME NEW r \in Registers, NEW s \in Registers, NEW n \in Int, NEW size \in {1, 2}, s \in K \cup D
      PROVE  Fine(mem, K, D, <<LoadMem(r, s, n, size)>>, D \cup {r})
  <2>1. PICK i \in Good(mem) : i = LoadMem(r, s, n, size)
    BY Constructed
  <2>2. i.op = "ldx" /\ i.dst = r /\ i.src = s
    BY <2>1 DEF LoadMem, Insn
  <2>3. Reads(i) = {s}
    BY <1>o, <2>2 DEF Reads
  <2>4. Sure(i, K, D) /\ After(i, D) = D \cup {r}
    BY <1>o, <1>4, <2>2, <2>3 DEF Sure, After
  <2> QED BY <2>1, <2>4, FineOne
<1>5. ASSUME NEW r \in Registers, NEW n \in Int, mem.args[n] \in Words, ArgsReg \in K
      PROVE  Fine(mem, K, D, <<LoadArg(r, n)>>, D \cup {r})
  <2>1. PICK i \in Good(mem) : i = LoadArg(r, n)
    BY <1>5, Constructed
  <2>2. i.op = "arg" /\ i.dst = r
    BY <2>1 DEF LoadArg, Insn
  <2>3. Reads(i) = {ArgsReg}
    BY <1>o, <2>2 DEF Reads
  <2>4. Sure(i, K, D) /\ After(i, D) = D \cup {r}
    BY <1>s, <1>o, <1>5, <2>2, <2>3 DEF Sure, After
  <2> QED BY <2>1, <2>4, FineOne
<1> QED BY <1>1, <1>2, <1>3, <1>4, <1>5

Same(x, y) == y.regs = x.regs /\ y.stack = x.stack /\ (y.exit <=> x.exit) /\ (y.bad <=> x.bad)

\* Machines that differ in what they skip only hold the same words.
LEMMA HasSame ==
  ASSUME NEW x, NEW y, NEW K, NEW D, Has(x, K, D), Same(x, y), y.skip = 0
  PROVE  Has(y, K, D)
BY DEF Has, Same, Full

\* An instruction is skipped.
LEMMA SkipStep ==
  ASSUME NEW x \in Machines, NEW mem, IsMem(mem), NEW i \in Good(mem), ~x.exit, ~x.bad, x.skip > 0
  PROVE  Same(x, Step(x, i, mem)) /\ Step(x, i, mem).skip = x.skip - 1 /\ Step(x, i, mem) \in Machines
<1>1. PICK y : y = Step(x, i, mem)
  OBVIOUS
<1>2. y = [x EXCEPT !.skip = @ - 1] /\ y \in Machines
  BY <1>1, StepTyped
<1>3. y.regs = x.regs /\ y.stack = x.stack /\ y.exit = x.exit /\ y.bad = x.bad /\ y.skip = x.skip - 1
  BY <1>2 DEF Machines
<1> QED BY <1>1, <1>2, <1>3 DEF Same

\* A jump of two instructions, if it is taken.
LEMMA JumpStep ==
  ASSUME NEW x \in Machines, NEW mem, IsMem(mem), NEW i \in Good(mem), ~x.exit, ~x.bad, x.skip = 0,
         i.op \in Jumps, i.off = 2, \A r \in Reads(i) : x.regs[r] # Junk
  PROVE  /\ Step(x, i, mem) \in Machines /\ Same(x, Step(x, i, mem))
         /\ Step(x, i, mem).skip = 2 \/ (i.op # "ja" /\ Step(x, i, mem).skip = 0)
<1>1. PICK y : y = Step(x, i, mem)
  OBVIOUS
<1>2. y = Exec(x, i, mem) /\ y \in Machines
  BY <1>1, StepTyped
<1>3. y = [x EXCEPT !.skip = i.off] \/ (i.op # "ja" /\ y = x)
  BY <1>2 DEF Exec, Jumps, Conds, AluOps, ToExit
<1>4. CASE y = [x EXCEPT !.skip = i.off]
  <2>1. y.regs = x.regs /\ y.stack = x.stack /\ y.exit = x.exit /\ y.bad = x.bad /\ y.skip = 2
    BY <1>4 DEF Machines
  <2> QED BY <1>1, <1>2, <2>1 DEF Same
<1>5. CASE i.op # "ja" /\ y = x
  BY <1>1, <1>2, <1>5 DEF Same
<1> QED BY <1>3, <1>4, <1>5

\* The code of a constant and a register works on the result's register and the operand's.
LEMMA MadeWork ==
  ASSUME NEW mem, NEW z \in Registers, NEW s \in Registers, NEW code \in Made(mem, z, s)
  PROVE  code \in Work(mem, {z, s})
<1> DEFINE R == {z, s}
<1>0. /\ R \in SUBSET Registers /\ z \in R /\ s \in R /\ Words \subseteq Int /\ "jeq" \in Conds
      /\ "mov" \in AluOps /\ {"mod", "lsh", "rsh", "div"} \subseteq AluOps \ {"neg"}
  BY InWords DEF Conds, AluOps
<1> HIDE DEF R
<1>1. ASSUME NEW n \in Words, NEW op \in {"mod", "lsh", "rsh"}, code = <<AluImm("mov", z, n), AluReg(op, z, s)>>
      PROVE  code \in Work(mem, R)
  <2>1. PICK a \in Plain(mem, R), b \in Plain(mem, R) :
          a = AluImm("mov", z, n) /\ b = AluReg(op, z, s) /\ Lands(a, 1) /\ Lands(b, 0)
    BY <1>0, PlainIs
  <2>2. <<a, b>> \in Work(mem, R)
    BY <2>1, WorkOf
  <2> QED BY <1>1, <2>1, <2>2
<1>2. ASSUME NEW n \in Words,
             code = <<JmpOff("jeq", s, 0, 2), AluImm("mov", z, 0), Ja(2), AluImm("mov", z, n),
                      AluReg("div", z, s)>>
      PROVE  code \in Work(mem, R)
  <2>1. PICK a \in Plain(mem, R), b \in Plain(mem, R), c \in Plain(mem, R), d \in Plain(mem, R),
             e \in Plain(mem, R) :
          /\ a = JmpOff("jeq", s, 0, 2) /\ b = AluImm("mov", z, 0) /\ c = Ja(2)
          /\ d = AluImm("mov", z, n) /\ e = AluReg("div", z, s)
          /\ Lands(a, 4) /\ Lands(b, 3) /\ Lands(c, 2) /\ Lands(d, 1) /\ Lands(e, 0)
    BY <1>0, PlainIs
  <2>2. <<a, b, c, d, e>> \in Work(mem, R)
    BY <2>1, WorkOf
  <2> QED BY <1>2, <2>1, <2>2
<1> QED BY <1>1, <1>2 DEF R, Made

\* The result in a register of its own is written, whatever the jumps.
LEMMA MadeFine ==
  ASSUME NEW mem, IsMem(mem), NEW K \in SUBSET Registers, NEW z \in Registers, NEW s \in Registers,
         NEW code \in Made(mem, z, s)
  PROVE  Fine(mem, K, {s}, code, {s, z})
<1>0. /\ Words \subseteq Int /\ {s} \in SUBSET Places /\ {s, z} \in SUBSET Places /\ 0 \in Int
      /\ "mov" \in AluOps /\ {"mod", "lsh", "rsh", "div"} \subseteq AluOps \ {"neg"} /\ {s} \cup {z} = {s, z}
      /\ {s, z} \cup {z} = {s, z}
  BY InWords DEF AluOps, Registers, Places
<1>m. \A n \in Int : Fine(mem, K, {s}, <<AluImm("mov", z, n)>>, {s, z})
  <2> TAKE n \in Int
  <2>1. Fine(mem, K, {s}, <<AluImm("mov", z, n)>>, {s} \cup {z})
    BY <1>0, Rules
  <2> QED BY <1>0, <2>1
<1>a. \A op \in {"mod", "lsh", "rsh", "div"} : Fine(mem, K, {s, z}, <<AluReg(op, z, s)>>, {s, z})
  <2> TAKE op \in {"mod", "lsh", "rsh", "div"}
  <2>1. Fine(mem, K, {s, z}, <<AluReg(op, z, s)>>, {s, z} \cup {z})
    BY <1>0, Rules
  <2> QED BY <1>0, <2>1
<1>1. ASSUME NEW n \in Words, NEW op \in {"mod", "lsh", "rsh"}, code = <<AluImm("mov", z, n), AluReg(op, z, s)>>
      PROVE  Fine(mem, K, {s}, code, {s, z})
  <2>1. Fine(mem, K, {s}, <<AluImm("mov", z, n)>> \o <<AluReg(op, z, s)>>, {s, z})
    BY <1>0, <1>m, <1>a, FineJoin
  <2> QED BY <1>1, <2>1, Written
<1>2. ASSUME NEW n \in Words,
             code = <<JmpOff("jeq", s, 0, 2), AluImm("mov", z, 0), Ja(2), AluImm("mov", z, n),
                      AluReg("div", z, s)>>
      PROVE  Fine(mem, K, {s}, code, {s, z})
  <2>0. code \in Work(mem, {z, s})
    BY MadeWork
  <2>1. PICK a, b, c, d, e :
          /\ a = JmpOff("jeq", s, 0, 2) /\ b = AluImm("mov", z, 0) /\ c = Ja(2)
          /\ d = AluImm("mov", z, n) /\ e = AluReg("div", z, s)
    OBVIOUS
  <2>2. /\ code = <<a, b, c, d, e>> /\ Len(code) = 5 /\ code[1] = a /\ code[2] = b /\ code[3] = c
        /\ code[4] = d /\ code[5] = e
    BY <1>2, <2>1
  <2>3. code \in Block(mem) /\ code \in Seq(Good(mem)) /\ {a, b, c, d, e} \subseteq Good(mem)
    BY <2>0, <2>2 DEF Work, Block
  <2>4. /\ a.op = "jeq" /\ a.imm = TRUE /\ a.dst = s /\ a.off = 2
        /\ c.op = "ja" /\ c.off = 2
    BY <2>1 DEF JmpOff, Ja, Insn
  <2>5. Reads(a) = {s} /\ Reads(c) = {}
    BY <2>4 DEF Reads, AluOps, Conds
  <2>6. "jeq" \in Jumps /\ "ja" \in Jumps
    BY DEF Jumps, Conds
  <2>7. ASSUME NEW x \in Machines, Has(x, K, {s}) PROVE Has(Steps(x, code, mem), K, {s, z})
    <3>1. CASE x.exit
      <4>1. Steps(x, code, mem) = x
        BY <2>3, <3>1, Stopped
      <4> QED BY <2>7, <3>1, <4>1 DEF Has
    <3>2. CASE ~x.exit
      <4>0. ~x.bad /\ x.skip = 0 /\ x.regs[s] # Junk
        <5>1. s # Buf
          BY DEF Buf, Registers
        <5> QED BY <2>7, <3>2, <5>1 DEF Has, Full
      <4>1. PICK after : Runs(after, x, code, mem) /\ Steps(x, code, mem) = after[5]
        BY <2>2, <2>3, StepsRun
      <4>2. /\ after[0] = x /\ after[1] = Step(x, a, mem) /\ after[2] = Step(after[1], b, mem)
            /\ after[3] = Step(after[2], c, mem) /\ after[4] = Step(after[3], d, mem)
            /\ after[5] = Step(after[4], e, mem) /\ after \in [0..5 -> Machines]
        <5>1. \A k \in 1..5 : after[k] = Step(after[k - 1], code[k], mem)
          BY <2>2, <4>1 DEF Runs
        <5>2. after[1] = Step(after[1 - 1], a, mem) /\ after[2] = Step(after[2 - 1], b, mem)
              /\ after[3] = Step(after[3 - 1], c, mem) /\ after[4] = Step(after[4 - 1], d, mem)
              /\ after[5] = Step(after[5 - 1], e, mem)
          BY <2>2, <5>1
        <5> QED BY <2>2, <4>1, <5>2 DEF Runs
      <4>3. PICK x1 \in Machines, x2 \in Machines, x3 \in Machines, x4 \in Machines, x5 \in Machines :
              /\ x1 = Step(x, a, mem) /\ x2 = Step(x1, b, mem) /\ x3 = Step(x2, c, mem)
              /\ x4 = Step(x3, d, mem) /\ x5 = Step(x4, e, mem) /\ x5 = Steps(x, code, mem)
        BY <4>1, <4>2
      <4>4. Same(x, x1) /\ (x1.skip = 2 \/ x1.skip = 0)
        BY <2>3, <2>4, <2>5, <2>6, <3>2, <4>0, <4>3, JumpStep
      <4>n. \A y \in Machines : Has(y, K, {s}) => Has(Step(y, b, mem), K, {s, z}) /\ Has(Step(y, d, mem), K, {s, z})
        <5>1. Fine(mem, K, {s}, <<b>>, {s, z}) /\ Fine(mem, K, {s}, <<d>>, {s, z})
          BY <1>0, <1>m, <2>1
        <5> QED BY <2>3, <5>1, StepsOne DEF Fine
      <4>v. \A y \in Machines : Has(y, K, {s, z}) => Has(Step(y, e, mem), K, {s, z})
        <5>1. Fine(mem, K, {s, z}, <<e>>, {s, z})
          BY <1>a, <2>1
        <5> QED BY <2>3, <5>1, StepsOne DEF Fine
      <4>5. CASE x1.skip = 2
        <5>1. Same(x1, x2) /\ x2.skip = 1
          BY <2>3, <3>2, <4>0, <4>3, <4>4, <4>5, SkipStep DEF Same
        <5>2. Same(x2, x3) /\ x3.skip = 0
          BY <2>3, <3>2, <4>0, <4>3, <4>4, <5>1, SkipStep DEF Same
        <5>3. Same(x, x3)
          BY <4>4, <5>1, <5>2 DEF Same
        <5>4. Has(x3, K, {s})
          BY <2>7, <5>2, <5>3, HasSame
        <5>5. Has(x4, K, {s, z})
          BY <4>3, <4>n, <5>4
        <5> QED BY <4>3, <4>v, <5>5
      <4>6. CASE x1.skip = 0
        <5>1. Has(x1, K, {s})
          BY <2>7, <4>4, <4>6, HasSame
        <5>2. Has(x2, K, {s, z})
          BY <4>3, <4>n, <5>1
        <5>3. CASE x2.exit
          <6>1. x3 = x2
            BY <2>3, <4>3, <5>3, StepTyped
          <6>2. x4 = x3
            BY <2>3, <4>3, <5>3, <6>1, StepTyped
          <6>3. x5 = x4
            <7>1. x4.exit /\ e \in Good(mem)
              BY <2>3, <5>3, <6>1, <6>2
            <7>2. Step(x4, e, mem) = x4
              BY <7>1, StepTyped
            <7> QED BY <4>3, <7>2
          <6> QED BY <4>3, <5>2, <6>1, <6>2, <6>3
        <5>4. CASE ~x2.exit
          <6>0. ~x2.bad /\ x2.skip = 0
            BY <5>2 DEF Has
          <6>1. Same(x2, x3) /\ x3.skip = 2
            BY <2>3, <2>4, <2>5, <2>6, <4>3, <5>4, <6>0, JumpStep
          <6>a. ~x3.exit /\ ~x3.bad
            BY <5>4, <6>0, <6>1 DEF Same
          <6>2. Same(x3, x4) /\ x4.skip = 1
            BY <2>3, <4>3, <6>a, <6>1, SkipStep
          <6>b. ~x4.exit /\ ~x4.bad /\ x4.skip > 0
            BY <6>a, <6>2 DEF Same
          <6>3. Same(x4, x5) /\ x5.skip = 0
            <7>1. e \in Good(mem)
              BY <2>3
            <7>2. Same(x4, Step(x4, e, mem)) /\ Step(x4, e, mem).skip = x4.skip - 1
              BY <6>b, <7>1, SkipStep
            <7> QED BY <4>3, <6>2, <7>2
          <6>4. Same(x2, x5)
            BY <6>1, <6>2, <6>3 DEF Same
          <6> QED BY <4>3, <5>2, <6>3, <6>4, HasSame
        <5> QED BY <5>3, <5>4
      <4> QED BY <4>4, <4>5, <4>6
    <3> QED BY <3>1, <3>2
  <2> QED BY <2>3, <2>7 DEF Fine
<1> QED BY <1>1, <1>2 DEF Made

\* All the types of values and chains.
AllTypes == Types \cup {Ptr(t) : t \in Types} \cup {Void}

Offsets == [offset : Int, t : AllTypes, prev : AllTypes, address : BOOLEAN, inArray : BOOLEAN]

\* Code under a condition.
LEMMA IfFine ==
  ASSUME NEW mem, IsMem(mem), NEW K, NEW D, NEW s, NEW b \in BOOLEAN, b => Fine(mem, K, D, s, D)
  PROVE  Fine(mem, K, D, If(b, s), D)
BY FineNone DEF If

\* Three instructions written one after the other.
LEMMA ThreeWritten == \A a, b, c : <<a>> \o (<<b>> \o <<c>>) = <<a, b, c>>
<1> TAKE a, b, c
<1> DEFINE S == {a, b, c}
           u == <<a>>
           v == <<b, c>>
           t == <<a, b, c>>
<1>1. /\ u \in Seq(S) /\ Len(u) = 1 /\ u[1] = a
      /\ v \in Seq(S) /\ Len(v) = 2 /\ v[1] = b /\ v[2] = c
      /\ t \in Seq(S) /\ Len(t) = 3 /\ t[1] = a /\ t[2] = b /\ t[3] = c
  OBVIOUS
<1>0. <<b>> \o <<c>> = v
  BY Written
<1> HIDE DEF S, u, v, t
<1>2. PICK s : s = u \o v
  OBVIOUS
<1>3. s \in Seq(S) /\ Len(s) = 3 /\ \A i \in 1..3 : s[i] = IF i <= 1 THEN u[i] ELSE v[i - 1]
  <2>1. /\ u \o v \in Seq(S) /\ Len(u \o v) = Len(u) + Len(v)
        /\ \A i \in 1..(Len(u) + Len(v)) : (u \o v)[i] = IF i <= Len(u) THEN u[i] ELSE v[i - Len(u)]
    <3>1. u \in Seq(S) /\ v \in Seq(S)
      BY <1>1
    <3> QED BY <3>1, ConcatProperties
  <2>2. Len(u) + Len(v) = 3 /\ Len(u) = 1
    BY <1>1
  <2> QED BY <1>2, <2>1, <2>2, Zenon
<1>4. \A i \in 1..3 : i = 1 \/ i = 2 \/ i = 3
  OBVIOUS
<1>5. s[1] = a /\ s[2] = b /\ s[3] = c
  BY <1>1, <1>3
<1>6. s = t
  BY <1>1, <1>3, <1>4, <1>5, SeqEqual
<1> QED BY <1>0, <1>2, <1>6 DEF u, t

\* bpf_probe_read_kernel needs the address in r3, and fills the buffer.
LEMMA ProbeFine ==
  ASSUME NEW mem, IsMem(mem), NEW K \in SUBSET Registers, K \cap (1..5) = {}
  PROVE  Fine(mem, K, {3}, ProbeCall, {0, Buf})
<1>0. /\ {1, 2, 3} \subseteq Registers /\ {3} \in SUBSET Places /\ {3, 2} \in SUBSET Places
      /\ {3, 2, 1} \in SUBSET Places /\ 2 \in Int
  BY DEF Registers, Places
<1>1. Fine(mem, K, {3}, <<AluImm("mov", 2, 2)>>, {3} \cup {2})
  BY <1>0, Rules
<1>2. Fine(mem, K, {3, 2}, <<Frame(1)>>, {3, 2} \cup {1})
  BY <1>0, Rules
<1>3. Fine(mem, K, {3, 2, 1}, <<ProbeRead>>, ({3, 2, 1} \ (1..5)) \cup {0, Buf})
  BY <1>0, CallRules
<1>4. {3} \cup {2} = {3, 2} /\ {3, 2} \cup {1} = {3, 2, 1} /\ ({3, 2, 1} \ (1..5)) \cup {0, Buf} = {0, Buf}
  BY DEF Buf
<1>5. Fine(mem, K, {3, 2}, <<Frame(1)>> \o <<ProbeRead>>, {0, Buf})
  BY <1>2, <1>3, <1>4, FineJoin
<1>6. Fine(mem, K, {3}, <<AluImm("mov", 2, 2)>> \o (<<Frame(1)>> \o <<ProbeRead>>), {0, Buf})
  BY <1>1, <1>4, <1>5, FineJoin
<1>7. ProbeCall = <<AluImm("mov", 2, 2)>> \o (<<Frame(1)>> \o <<ProbeRead>>)
  BY ThreeWritten DEF ProbeCall
<1> QED BY <1>6, <1>7

\* After a call, what it read is put into a register.
LEMMA FilledFine ==
  ASSUME NEW mem, IsMem(mem), NEW K \in SUBSET Registers, NEW r \in Registers
  PROVE  /\ Fine(mem, K, {0, Buf}, <<Fill(r, BufSlot)>>, {r})
         /\ Fine(mem, K, {0, Buf}, <<Fill(r, BufSlot), JmpOff("jeq", r, 0, ToExit)>>, {r})
<1>0. {0, Buf} \in SUBSET Places /\ {r} \in SUBSET Places /\ Buf \notin K
  BY DEF Registers, Places, Buf
<1>1. Fine(mem, K, {0, Buf}, <<Fill(r, BufSlot)>>, {0, Buf} \cup {r})
  BY <1>0, CallRules
<1>2. Fine(mem, K, {0, Buf}, <<Fill(r, BufSlot)>>, {r})
  BY <1>0, <1>1, FineWeak
<1>3. Fine(mem, K, {r}, <<JmpOff("jeq", r, 0, ToExit)>>, {r})
  BY <1>0, Rules
<1>4. Fine(mem, K, {0, Buf}, <<Fill(r, BufSlot)>> \o <<JmpOff("jeq", r, 0, ToExit)>>, {r})
  BY <1>2, <1>3, FineJoin
<1> QED BY <1>2, <1>4, Written

\* A register moved, unless it is the one.
LEMMA MovedFine ==
  ASSUME NEW mem, IsMem(mem), NEW K \in SUBSET Registers, NEW r \in Registers, NEW s \in Registers
  PROVE  Fine(mem, K, {s}, If(r # s, <<AluReg("mov", r, s)>>), {r})
<1>0. {s} \in SUBSET Places /\ Buf \notin K
  BY DEF Registers, Places, Buf
<1>1. CASE r = s
  <2>1. If(r # s, <<AluReg("mov", r, s)>>) = <<>>
    BY <1>1 DEF If
  <2> QED BY <1>1, <2>1, FineNone
<1>2. CASE r # s
  <2>1. If(r # s, <<AluReg("mov", r, s)>>) = <<AluReg("mov", r, s)>>
    BY <1>2 DEF If
  <2>2. Fine(mem, K, {s}, <<AluReg("mov", r, s)>>, {s} \cup {r})
    BY <1>0, Rules
  <2>3. Fine(mem, K, {s}, <<AluReg("mov", r, s)>>, {r})
    BY <1>0, <2>2, FineWeak
  <2> QED BY <2>1, <2>3
<1> QED BY <1>1, <1>2

\* An offset is added to the register of a pointer.
LEMMA AddedFine ==
  ASSUME NEW mem, IsMem(mem), NEW K \in SUBSET Registers, NEW s \in Registers, NEW n \in Int
  PROVE  Fine(mem, K, {s}, If(n # 0, <<AluImm("add", s, n)>>), {s})
<1>0. {s} \in SUBSET Places /\ "add" \in AluOps /\ {s} \cup {s} = {s}
  BY DEF Registers, Places, AluOps
<1>1. Fine(mem, K, {s}, <<AluImm("add", s, n)>>, {s} \cup {s})
  BY <1>0, Rules
<1> QED BY <1>0, <1>1, FineNone DEF If

\* A read by bpf_probe_read_kernel: from r3 to r3, the last one to its register.
LEMMA ProbeReadFine ==
  ASSUME NEW mem, IsMem(mem), NEW K \in SUBSET Registers, NEW o \in Offsets, NEW isLast \in BOOLEAN,
         NEW reg \in Registers, ~o.address => K \cap (1..5) = {}
  PROVE  Fine(mem, K, {3}, probeRead(o, isLast, reg), {IF isLast THEN reg ELSE 3})
<1>0. 3 \in Registers /\ o.offset \in Int /\ o.address \in BOOLEAN
  BY DEF Registers, Offsets
<1>1. PICK shift : shift = If(o.offset # 0, <<AluImm("add", 3, o.offset)>>)
  OBVIOUS
<1>2. Fine(mem, K, {3}, shift, {3})
  BY <1>0, <1>1, AddedFine
<1>3. CASE o.address
  <2>1. probeRead(o, isLast, reg) = shift \o If(isLast /\ reg # 3, <<AluReg("mov", reg, 3)>>)
    BY <1>1, <1>3 DEF probeRead
  <2>2. CASE isLast
    <3>1. Fine(mem, K, {3}, If(reg # 3, <<AluReg("mov", reg, 3)>>), {reg})
      <4>1. PICK s \in Registers : s = 3
        BY <1>0
      <4>2. Fine(mem, K, {s}, If(reg # s, <<AluReg("mov", reg, s)>>), {reg})
        BY MovedFine
      <4> QED BY <4>1, <4>2
    <3>2. If(isLast /\ reg # 3, <<AluReg("mov", reg, 3)>>) = If(reg # 3, <<AluReg("mov", reg, 3)>>)
      BY <2>2 DEF If
    <3>3. Fine(mem, K, {3}, probeRead(o, isLast, reg), {reg})
      BY <1>2, <2>1, <3>1, <3>2, FineJoin
    <3> QED BY <2>2, <3>3
  <2>3. CASE ~isLast
    <3>1. If(isLast /\ reg # 3, <<AluReg("mov", reg, 3)>>) = <<>>
      BY <2>3 DEF If
    <3>2. Fine(mem, K, {3}, probeRead(o, isLast, reg), {3})
      BY <1>2, <2>1, <3>1, FineNone, FineJoin
    <3> QED BY <2>3, <3>2
  <2> QED BY <2>2, <2>3
<1>4. CASE ~o.address
  <2>1. PICK tail : tail = IF isLast THEN <<Fill(reg, BufSlot)>>
                           ELSE <<Fill(3, BufSlot), JmpOff("jeq", 3, 0, ToExit)>>
    OBVIOUS
  <2>2. probeRead(o, isLast, reg) = shift \o (ProbeCall \o tail)
    BY <1>1, <1>4, <2>1 DEF probeRead
  <2>3. Fine(mem, K, {0, Buf}, tail, {IF isLast THEN reg ELSE 3})
    BY <1>0, <2>1, FilledFine
  <2>4. Fine(mem, K, {3}, ProbeCall, {0, Buf})
    BY <1>4, ProbeFine
  <2>5. Fine(mem, K, {3}, ProbeCall \o tail, {IF isLast THEN reg ELSE 3})
    BY <2>3, <2>4, FineJoin
  <2> QED BY <1>2, <2>2, <2>5, FineJoin
<1> QED BY <1>0, <1>3, <1>4

\* A read by bpf_rdonly_cast: from r1 to r1, the last one to its register.
LEMMA CoreReadFine ==
  ASSUME NEW mem, IsMem(mem), NEW K \in SUBSET Registers, NEW o \in Offsets, NEW isLast \in BOOLEAN,
         NEW reg \in Registers,
         ~o.address /\ ~(C.fast /\ ByCast(o)) => K \cap (1..5) = {},
         ~o.address => K \cap (1..2) = {}
  PROVE  Fine(mem, K, {1}, coreRead(o, isLast, reg), {IF isLast THEN reg ELSE 1})
<1>0. /\ 1 \in Registers /\ 3 \in Registers /\ 2 \in Registers /\ 0 \in Registers /\ o.offset \in Int
      /\ o.address \in BOOLEAN /\ 1 \in Int
  BY DEF Registers, Offsets
<1>p. Buf \notin K /\ {1} \in SUBSET Places /\ \A r \in Registers : r \in Places
  BY DEF Registers, Places, Buf
<1>1. CASE o.address
  <2>1. PICK shift : shift = If(o.offset # 0, <<AluImm("add", 1, o.offset)>>)
    OBVIOUS
  <2>2. Fine(mem, K, {1}, shift, {1})
    BY <1>0, <2>1, AddedFine
  <2>3. coreRead(o, isLast, reg) = shift \o If(isLast /\ reg # 1, <<AluReg("mov", reg, 1)>>)
    BY <1>1, <2>1 DEF coreRead
  <2>4. CASE isLast
    <3>1. Fine(mem, K, {1}, If(reg # 1, <<AluReg("mov", reg, 1)>>), {reg})
      BY <1>0, MovedFine
    <3>2. If(isLast /\ reg # 1, <<AluReg("mov", reg, 1)>>) = If(reg # 1, <<AluReg("mov", reg, 1)>>)
      BY <2>4 DEF If
    <3>3. Fine(mem, K, {1}, coreRead(o, isLast, reg), {reg})
      BY <2>2, <2>3, <3>1, <3>2, FineJoin
    <3> QED BY <2>4, <3>3
  <2>5. CASE ~isLast
    <3>1. If(isLast /\ reg # 1, <<AluReg("mov", reg, 1)>>) = <<>>
      BY <2>5 DEF If
    <3>2. Fine(mem, K, {1}, coreRead(o, isLast, reg), {1})
      BY <2>2, <2>3, <3>1, FineNone, FineJoin
    <3> QED BY <2>5, <3>2
  <2> QED BY <2>4, <2>5
<1>2. CASE ~o.address /\ ~ByCast(o)
  <2>1. PICK r \in Registers : r = IF isLast THEN reg ELSE 1
    BY <1>0
  <2>2. coreRead(o, isLast, reg) = (<<AluReg("mov", 3, 1)>> \o ProbeCall) \o <<Fill(r, BufSlot)>>
    BY <1>2, <2>1 DEF coreRead, coreReadByProbeRead
  <2>3. Fine(mem, K, {1}, <<AluReg("mov", 3, 1)>>, {3})
    <3>1. Fine(mem, K, {1}, <<AluReg("mov", 3, 1)>>, {1} \cup {3})
      BY <1>0, <1>p, Rules
    <3> QED BY <1>p, <3>1, FineWeak
  <2>4. Fine(mem, K, {1}, <<AluReg("mov", 3, 1)>> \o ProbeCall, {0, Buf})
    BY <1>2, <2>3, ProbeFine, FineJoin
  <2>5. Fine(mem, K, {0, Buf}, <<Fill(r, BufSlot)>>, {r})
    BY FilledFine
  <2> QED BY <2>1, <2>2, <2>4, <2>5, FineJoin
<1>3. CASE ~o.address /\ ByCast(o)
  <2>1. PICK n \in {2, 5}, r \in Registers, size \in {1, 2} :
          /\ n = (IF C.fast THEN 2 ELSE 5) /\ r = (IF isLast THEN reg ELSE 1)
          /\ size = IF o.t.size = 1 THEN 1 ELSE 2
    BY <1>0
  <2>2. PICK a, b, c : a = AluImm("mov", 2, 1) /\ b = RdonlyCast(n) /\ c = LoadMem(r, 0, o.offset, size)
    OBVIOUS
  <2>3. PICK tail : tail = If(~isLast, <<JmpOff("jeq", 1, 0, ToExit)>>)
    OBVIOUS
  <2>4. coreRead(o, isLast, reg) = <<a, b, c>> \o tail
    BY <1>3, <2>1, <2>2, <2>3 DEF coreRead
  <2>5. Fine(mem, K, {1}, <<a>>, {1, 2})
    <3>1. Fine(mem, K, {1}, <<a>>, {1} \cup {2})
      BY <1>0, <1>p, <2>2, Rules
    <3>2. {1} \cup {2} = {1, 2}
      OBVIOUS
    <3> QED BY <3>1, <3>2
  <2>6. Fine(mem, K, {1, 2}, <<b>>, {0})
    <3>1. K \cap (1..n) = {}
      <4>1. n = 2 => C.fast
        BY <2>1
      <4> QED BY <1>3, <2>1, <4>1
    <3>2. {1, 2} \in SUBSET Places
      BY DEF Places
    <3>3. Fine(mem, K, {1, 2}, <<b>>, ({1, 2} \ (1..n)) \cup {0})
      BY <2>2, <3>1, <3>2, CallRules
    <3> QED BY <1>p, <3>3, FineWeak
  <2>7. Fine(mem, K, {0}, <<c>>, {r})
    <3>1. {0} \in SUBSET Places
      BY DEF Places
    <3>2. Fine(mem, K, {0}, <<c>>, {0} \cup {r})
      BY <1>0, <2>2, <3>1, CallRules
    <3> QED BY <1>p, <3>2, FineWeak
  <2>8. Fine(mem, K, {1}, <<a>> \o (<<b>> \o <<c>>), {r})
    <3>1. Fine(mem, K, {1, 2}, <<b>> \o <<c>>, {r})
      BY <2>6, <2>7, FineJoin
    <3> QED BY <2>5, <3>1, FineJoin
  <2>9. Fine(mem, K, {1}, <<a, b, c>>, {r})
    BY <2>8, ThreeWritten
  <2>10. Fine(mem, K, {r}, tail, {r})
    <3>1. CASE isLast
      BY <2>3, <3>1, FineNone DEF If
    <3>2. CASE ~isLast
      <4>1. Fine(mem, K, {1}, <<JmpOff("jeq", 1, 0, ToExit)>>, {1})
        BY <1>0, <1>p, Rules
      <4> QED BY <2>1, <2>3, <3>2, <4>1 DEF If
    <3> QED BY <3>1, <3>2
  <2> QED BY <2>1, <2>4, <2>9, <2>10, FineJoin
<1> QED BY <1>0, <1>1, <1>2, <1>3

InReg == IF Core THEN 1 ELSE 3

\* A read, in either mode.
LEMMA ReadFine ==
  ASSUME IsMem(C.mem), NEW K \in SUBSET Registers, NEW a, a.offsets \in Seq(Offsets), NEW reg \in Registers,
         ~AllAddress(a), K \cap Lost(a) = {}, NEW i \in 1..LastOffset(a)
  PROVE  Fine(C.mem, K, {InReg}, readInsn(a, i, reg), {IF i = LastOffset(a) THEN reg ELSE InReg})
<1> DEFINE isLast == i = LastOffset(a)
<1>1. PICK o \in Offsets : o = a.offsets[i]
  BY DEF LastOffset
<1>2. i \in DOMAIN a.offsets /\ isLast \in BOOLEAN
  BY DEF LastOffset
<1>3. ~o.address /\ ~(C.fast /\ ByCast(o) /\ Core) => K \cap (1..5) = {}
  <2>1. ~o.address /\ ~(C.fast /\ ByCast(o) /\ Core) => Lost(a) = 0..5
    BY <1>1, <1>2 DEF Lost
  <2> QED BY <2>1
<1>4. ~o.address => K \cap (1..2) = {}
  <2>1. Lost(a) = 0..2 \/ Lost(a) = 0..5
    BY DEF Lost
  <2>2. 1..2 \subseteq 0..2 /\ 1..2 \subseteq 0..5
    OBVIOUS
  <2> QED BY <2>1, <2>2
<1>5. CASE Core
  <2>1. readInsn(a, i, reg) = coreRead(o, isLast, reg) /\ InReg = 1
    BY <1>1, <1>5 DEF readInsn, InReg
  <2> HIDE DEF isLast
  <2>2. Fine(C.mem, K, {1}, coreRead(o, isLast, reg), {IF isLast THEN reg ELSE 1})
    BY <1>2, <1>3, <1>4, <1>5, CoreReadFine
  <2> QED BY <2>1, <2>2 DEF isLast
<1>6. CASE ~Core
  <2>1. readInsn(a, i, reg) = probeRead(o, isLast, reg) /\ InReg = 3
    BY <1>1, <1>6 DEF readInsn, InReg
  <2> HIDE DEF isLast
  <2>2. Fine(C.mem, K, {3}, probeRead(o, isLast, reg), {IF isLast THEN reg ELSE 3})
    BY <1>2, <1>3, <1>6, ProbeReadFine
  <2> QED BY <2>1, <2>2 DEF isLast
<1> QED BY <1>5, <1>6

\* Sequences put one behind another.
Sequences(R, N, S) == \A k \in 1..N : R[k] \in Seq(S)
Joined(g, R, N)    == g[0] = <<>> /\ \A k \in 1..N : g[k] = g[k - 1] \o R[k]

\* A recursive function over code is code.
LEMMA Chained ==
  ASSUME NEW S, NEW N \in Nat, NEW R, Sequences(R, N, S)
  PROVE  \E g \in [0..N -> Seq(S)] : Joined(g, R, N)
<1> DEFINE G == Seq(S)
           F == [k \in 1..N |-> [s \in G |-> s \o R[k]]]
<1>1. <<>> \in G /\ \A s, t \in G : s \o t \in G
  OBVIOUS
<1>2. \A k \in 1..N : R[k] \in G
  BY DEF Sequences
<1> HIDE DEF G
<1>3. F \in [1..N -> [G -> G]]
  BY <1>1, <1>2
<1>4. PICK g \in [0..N -> G] : g[0] = <<>> /\ \A k \in 1..N : g[k] = F[k][g[k - 1]]
  <2> HIDE DEF F
  <2>1. PICK e \in G : e = <<>>
    BY <1>1
  <2>2. \E g \in [0..N -> G] : g[0] = e /\ \A k \in 1..N : g[k] = F[k][g[k - 1]]
    BY <1>3, <2>1, Recursion
  <2> QED BY <2>1, <2>2, Zenon
<1>5. \A k \in 1..N : g[k] = g[k - 1] \o R[k]
  <2> TAKE k \in 1..N
  <2>1. g[k - 1] \in G
    OBVIOUS
  <2> QED BY <1>4, <2>1
<1> QED BY <1>4, <1>5 DEF G, Joined

IsChain(a) == a.offsets \in Seq(Offsets)

\* All the reads of a chain: from r1 or r3 to its register.
LEMMA ReadsFine ==
  ASSUME IsMem(C.mem), NEW K \in SUBSET Registers, NEW a, IsChain(a), NEW reg \in Registers,
         ~AllAddress(a), K \cap Lost(a) = {}
  PROVE  Fine(C.mem, K, {InReg}, readInsns(a, reg), {reg})
<1> DEFINE N == LastOffset(a)
           G == Seq(Good(C.mem))
           L == CHOOSE g : g = [k \in 0..N |-> IF k = 0 THEN <<>> ELSE g[k - 1] \o readInsn(a, k, reg)]
<1>0. N \in Nat /\ N # 0
  BY DEF LastOffset, AllAddress, IsChain
<1>1. \A k \in 1..N : Fine(C.mem, K, {InReg}, readInsn(a, k, reg), {IF k = N THEN reg ELSE InReg})
  BY ReadFine DEF IsChain
<1>2. \A k \in 1..N : readInsn(a, k, reg) \in G
  BY <1>1 DEF Fine, Block
<1> HIDE DEF N, G
<1>4. PICK R : R = [k \in 1..N |-> readInsn(a, k, reg)]
  OBVIOUS
<1>5. PICK g \in [0..N -> G] : g[0] = <<>> /\ \A k \in 1..N : g[k] = g[k - 1] \o R[k]
  <2>1. Sequences(R, N, Good(C.mem))
    BY <1>2, <1>4 DEF G, Sequences
  <2>2. PICK S : S = Good(C.mem)
    OBVIOUS
  <2>3. Sequences(R, N, S)
    BY <2>1, <2>2
  <2>4. \E g \in [0..N -> Seq(S)] : Joined(g, R, N)
    BY <1>0, <2>3, Chained
  <2> QED BY <2>2, <2>4, Zenon DEF G, Joined
<1>6. \A k \in 1..N : g[k] = g[k - 1] \o readInsn(a, k, reg)
  BY <1>4, <1>5
<1>7. g = [k \in 0..N |-> IF k = 0 THEN <<>> ELSE g[k - 1] \o readInsn(a, k, reg)]
  <2>1. \A k \in 0..N : k # 0 => k \in 1..N
    BY <1>0
  <2> QED BY <1>5, <1>6, <2>1
<1>8. L = [k \in 0..N |-> IF k = 0 THEN <<>> ELSE L[k - 1] \o readInsn(a, k, reg)]
  BY <1>7
<1>9. readInsns(a, reg) = L[N]
  BY DEF readInsns, N
<1> HIDE DEF L
<1>10. L[0] = <<>> /\ \A k \in 1..N : L[k] = L[k - 1] \o readInsn(a, k, reg)
  <2>1. PICK M : M = [k \in 0..N |-> IF k = 0 THEN <<>> ELSE L[k - 1] \o readInsn(a, k, reg)]
    OBVIOUS
  <2>2. L = M
    BY <1>8, <2>1, Zenon
  <2>3. 0 \in 0..N /\ \A k \in 1..N : k \in 0..N /\ k # 0
    BY <1>0
  <2> QED BY <2>1, <2>2, <2>3
<1> DEFINE Out(k) == {IF k = N THEN reg ELSE InReg}
           I == {k \in Nat : k <= N => Fine(C.mem, K, {InReg}, L[k], Out(k))}
<1>o. Out(N) = {reg} /\ \A k : k # N => Out(k) = {InReg}
  OBVIOUS
<1>r. \A k \in 1..N : Fine(C.mem, K, {InReg}, readInsn(a, k, reg), Out(k))
  BY <1>1
<1> HIDE DEF Out
<1>11. 0 \in I
  <2>1. Fine(C.mem, K, {InReg}, L[0], {InReg})
    BY <1>10, FineNone
  <2> QED BY <1>0, <1>o, <2>1
<1>12. ASSUME NEW k \in Nat, k \in I PROVE k + 1 \in I
  <2> SUFFICES ASSUME k + 1 <= N PROVE Fine(C.mem, K, {InReg}, L[k + 1], Out(k + 1))
    OBVIOUS
  <2>0. k <= N /\ k # N
    BY <1>0
  <2>1. Fine(C.mem, K, {InReg}, L[k], {InReg})
    BY <1>o, <1>12, <2>0
  <2>2. PICK n \in 1..N : n = k + 1 /\ n - 1 = k
    BY <1>0
  <2>3. L[n] = L[k] \o readInsn(a, n, reg)
    BY <1>10, <2>2
  <2>4. Fine(C.mem, K, {InReg}, readInsn(a, n, reg), Out(n))
    BY <1>r
  <2>5. Fine(C.mem, K, {InReg}, L[n], Out(n))
    BY <2>1, <2>3, <2>4, FineJoin
  <2> QED BY <2>2, <2>5
<1> HIDE DEF I
<1>13. Nat \subseteq I
  BY <1>11, <1>12, SetInduction
<1>14. Fine(C.mem, K, {InReg}, L[N], Out(N))
  <2>1. N \in I /\ N <= N
    BY <1>0, <1>13
  <2> QED BY <2>1 DEF I
<1> QED BY <1>9, <1>o, <1>14

\* Instructions that do not jump may stand in any order.
LEMMA BlockEach ==
  ASSUME NEW mem, NEW code \in Seq(Good(mem)), \A k \in 1..Len(code) : code[k].op \notin Jumps
  PROVE  code \in Block(mem)
BY DEF Block, Lands

\* What is stored around a call has slots of its own, and all are there.
LEMMA SavedBlock ==
  ASSUME NEW mem, NEW regs \in SUBSET Registers, NEW n \in {2, 5}, NEW reserved \in {1, 2}
  PROVE  PushUsed(regs, n, reserved) \in Block(mem) /\ PopUsed(regs, n, reserved) \in Block(mem)
<1>1. PICK k \in 0..5 : k = CallerSaved(regs, n)
  <2>1. IsFiniteSet(1..n) /\ Cardinality(1..n) = n
    <3>1. 1 \in Int /\ n \in Int /\ 1 <= n /\ n - 1 + 1 = n
      OBVIOUS
    <3> QED BY <3>1, FS_Interval
  <2>2. regs \cap (1..n) \subseteq 1..n
    OBVIOUS
  <2>3. IsFiniteSet(regs \cap (1..n)) /\ Cardinality(regs \cap (1..n)) <= n
    BY <2>1, <2>2, FS_Subset
  <2>4. Cardinality(regs \cap (1..n)) \in Nat
    BY <2>3, FS_CardinalityType
  <2> QED BY <2>3, <2>4 DEF CallerSaved
<1>2. reserved + k + 1 \in Slots /\ 0 \in Registers
  BY DEF Slots, Registers
<1>3. \A i \in 1..k : i \in Registers /\ SavedSlot(reserved, k, i) \in Slots
  BY DEF Registers, SavedSlot, Slots
<1>4. \A r \in Registers, s \in Slots : /\ Spill(s, r) \in Good(mem) /\ Fill(r, s) \in Good(mem)
                                        /\ Spill(s, r).op \notin Jumps /\ Fill(r, s).op \notin Jumps
  BY Constructed DEF Spill, Fill, Insn, Jumps, Conds
<1>5. [i \in 1..k |-> Spill(SavedSlot(reserved, k, i), i)] \in Block(mem)
  <2>1. PICK code : code = [i \in 1..k |-> Spill(SavedSlot(reserved, k, i), i)]
    OBVIOUS
  <2>2. code \in Seq(Good(mem)) /\ Len(code) = k
    BY <1>3, <1>4, <2>1
  <2>3. \A i \in 1..k : code[i].op \notin Jumps
    BY <1>3, <1>4, <2>1
  <2> QED BY <2>1, <2>2, <2>3, BlockEach
<1>6. [i \in 1..k |-> Fill(i, SavedSlot(reserved, k, i))] \in Block(mem)
  <2>1. PICK code : code = [i \in 1..k |-> Fill(i, SavedSlot(reserved, k, i))]
    OBVIOUS
  <2>2. code \in Seq(Good(mem)) /\ Len(code) = k
    BY <1>3, <1>4, <2>1
  <2>3. \A i \in 1..k : code[i].op \notin Jumps
    BY <1>3, <1>4, <2>1
  <2> QED BY <2>1, <2>2, <2>3, BlockEach
<1>7. PICK s, t : s = <<Spill(reserved + k + 1, 0)>> /\ t = <<Fill(0, reserved + k + 1)>>
  OBVIOUS
<1>8. s \in Block(mem) /\ t \in Block(mem) /\ <<>> \in Block(mem)
  <2>1. PICK i \in Good(mem), j \in Good(mem) :
          /\ i = Spill(reserved + k + 1, 0) /\ j = Fill(0, reserved + k + 1)
          /\ i.op \notin Jumps /\ j.op \notin Jumps
    BY <1>2, <1>4
  <2>2. Lands(i, 0) /\ Lands(j, 0)
    BY <2>1 DEF Lands
  <2>3. <<i>> \in Block(mem) /\ <<j>> \in Block(mem) /\ <<>> \in Block(mem)
    BY <2>2, BlockOf
  <2> QED BY <1>7, <2>1, <2>3
<1>9. PushUsed(regs, n, reserved) =
        (IF 0 \in regs THEN s ELSE <<>>) \o [i \in 1..k |-> Spill(SavedSlot(reserved, k, i), i)]
  BY <1>1, <1>7 DEF PushUsed
<1>10. PopUsed(regs, n, reserved) =
        [i \in 1..k |-> Fill(i, SavedSlot(reserved, k, i))] \o (IF 0 \in regs THEN t ELSE <<>>)
  BY <1>1, <1>7 DEF PopUsed
<1> QED BY <1>5, <1>6, <1>8, <1>9, <1>10, BlockJoin

\* Nothing is, when the call loses no register in use.
LEMMA NothingSaved ==
  ASSUME NEW regs, NEW n \in {2, 5}, NEW reserved, regs \cap (1..n) = {}, 0 \notin regs
  PROVE  PushUsed(regs, n, reserved) = <<>> /\ PopUsed(regs, n, reserved) = <<>>
<1>1. CallerSaved(regs, n) = 0
  BY FS_EmptySet DEF CallerSaved
<1>2. /\ [i \in 1..0 |-> Spill(SavedSlot(reserved, 0, i), i)] = <<>>
      /\ [i \in 1..0 |-> Fill(i, SavedSlot(reserved, 0, i))] = <<>>
  OBVIOUS
<1>3. <<>> \o <<>> = <<>>
  <2>1. <<>> \in Seq({0})
    OBVIOUS
  <2> QED BY <2>1, ConcatEmptySeq
<1>4. PushUsed(regs, n, reserved) = <<>> \o [i \in 1..0 |-> Spill(SavedSlot(reserved, 0, i), i)]
  BY <1>1 DEF PushUsed
<1>5. PopUsed(regs, n, reserved) = [i \in 1..0 |-> Fill(i, SavedSlot(reserved, 0, i))] \o <<>>
  BY <1>1 DEF PopUsed
<1> QED BY <1>2, <1>3, <1>4, <1>5

\* The code for the offsets of a chain jumps only forward in itself, or to the exit label.
LEMMA OffsetsBlock ==
  ASSUME IsMem(C.mem), NEW a, IsChain(a), NEW reg \in Registers, NEW regs \in SUBSET Registers
  PROVE  offset2insns(a, reg, regs) \in Block(C.mem)
<1>1. CASE AllAddress(a)
  <2>1. PICK n \in Nat : n = LastOffset(a)
    BY DEF IsChain, LastOffset
  <2>2. \A i \in 1..n : AluImm("add", reg, a.offsets[i].offset) \in Plain(C.mem, {reg})
    <3> TAKE i \in 1..n
    <3>1. a.offsets[i] \in Offsets
      BY <2>1 DEF IsChain, LastOffset
    <3>2. a.offsets[i].offset \in Int /\ "add" \in AluOps
      BY <3>1 DEF Offsets, AluOps
    <3> QED BY <3>2, PlainIs
  <2>3. PICK code : code = [i \in 1..n |-> AluImm("add", reg, a.offsets[i].offset)]
    OBVIOUS
  <2>4. offset2insns(a, reg, regs) = code
    BY <1>1, <2>1, <2>3 DEF offset2insns
  <2>5. \A i \in 1..n : code[i] \in Good(C.mem) /\ code[i].op \notin Jumps
    <3> TAKE i \in 1..n
    <3>1. code[i] = AluImm("add", reg, a.offsets[i].offset)
      BY <2>3
    <3>2. code[i].op = "add"
      BY <3>1 DEF AluImm, Insn
    <3> QED BY <2>2, <3>1, <3>2 DEF Plain, Jumps, Conds
  <2>6. code \in Seq(Good(C.mem)) /\ Len(code) = n
    BY <2>3, <2>5
  <2> QED BY <2>4, <2>5, <2>6, BlockEach
<1>2. CASE ~AllAddress(a)
  <2>1. PICK n \in {2, 5}, k \in {1, 2} : n = Pushed /\ k = ReservedStack
    BY DEF Pushed, ReservedStack
  <2>2. PICK s \in Block(C.mem), t \in Block(C.mem) : s = PushUsed(regs, n, k) /\ t = PopUsed(regs, n, k)
    BY SavedBlock
  <2>3. InReg \in Registers
    BY DEF InReg, Registers
  <2>4. readInsns(a, reg) \in Block(C.mem)
    <3>1. PICK K \in SUBSET Registers : K = {}
      OBVIOUS
    <3>2. Fine(C.mem, K, {InReg}, readInsns(a, reg), {reg})
      BY <1>2, <3>1, ReadsFine
    <3> QED BY <3>2 DEF Fine
  <2>5. PICK mv : mv = If(reg # InReg, <<AluReg("mov", InReg, reg)>>)
    OBVIOUS
  <2>6. mv \in Block(C.mem)
    <3>1. PICK K \in SUBSET Registers : K = {}
      OBVIOUS
    <3>2. Fine(C.mem, K, {reg}, If(InReg # reg, <<AluReg("mov", InReg, reg)>>), {InReg})
      BY <2>3, MovedFine
    <3>3. If(InReg # reg, <<AluReg("mov", InReg, reg)>>) = mv
      BY <2>5 DEF If
    <3> QED BY <3>2, <3>3 DEF Fine
  <2>7. offset2insns(a, reg, regs) = s \o mv \o readInsns(a, reg) \o t
    BY <1>2, <2>1, <2>2, <2>5 DEF offset2insns, InReg
  <2>8. s \o mv \in Block(C.mem)
    BY <2>6, BlockJoin
  <2>9. s \o mv \o readInsns(a, reg) \in Block(C.mem)
    BY <2>4, <2>8, BlockJoin
  <2> QED BY <2>7, <2>9, BlockJoin
<1> QED BY <1>1, <1>2

\* As long as no register in use is lost to a call, it leaves all of them what they
\* were, and the chain's value in the chain's register.
LEMMA OffsetsFine ==
  ASSUME IsMem(C.mem), NEW a, IsChain(a), NEW regs \in SUBSET Registers, NEW reg \in regs,
         NEW K \in SUBSET Registers, K \cap Lost(a) = {}, regs \cap Lost(a) = {}
  PROVE  Fine(C.mem, K, {reg}, offset2insns(a, reg, regs), {reg})
<1>1. CASE AllAddress(a)
  <2>1. PICK n \in Nat : n = LastOffset(a)
    BY DEF IsChain, LastOffset
  <2>2. \A i \in 1..n : AluImm("add", reg, a.offsets[i].offset) \in Plain(C.mem, K \cup {reg})
    <3> TAKE i \in 1..n
    <3>1. a.offsets[i] \in Offsets
      BY <2>1 DEF IsChain, LastOffset
    <3>2. a.offsets[i].offset \in Int /\ "add" \in AluOps
      BY <3>1 DEF Offsets, AluOps
    <3>3. PICK R \in SUBSET Registers : R = K \cup {reg}
      OBVIOUS
    <3>4. reg \in R
      BY <3>3
    <3>5. AluImm("add", reg, a.offsets[i].offset) \in Plain(C.mem, R)
      BY <3>2, <3>4, PlainIs
    <3> QED BY <3>3, <3>5
  <2>3. PICK code : code = [i \in 1..n |-> AluImm("add", reg, a.offsets[i].offset)]
    OBVIOUS
  <2>4. offset2insns(a, reg, regs) = code
    BY <1>1, <2>1, <2>3 DEF offset2insns
  <2>5. code \in Block(C.mem)
    BY <2>4, OffsetsBlock
  <2>6. Len(code) = n /\ \A i \in 1..n : code[i] \in Plain(C.mem, K \cup {reg})
    <3>1. code \in Seq(Good(C.mem)) /\ DOMAIN code = 1..n
      BY <2>3, <2>5 DEF Block
    <3>2. Len(code) = n
      BY <3>1
    <3> QED BY <2>2, <2>3, <3>2
  <2>7. code \in Work(C.mem, K \cup {reg})
    BY <2>5, <2>6 DEF Work
  <2>8. {reg} \in SUBSET Registers
    OBVIOUS
  <2> QED BY <2>4, <2>7, <2>8, WorkFine
<1>2. CASE ~AllAddress(a)
  <2>0. \/ Lost(a) = 0..2 /\ Core /\ C.fast
        \/ Lost(a) = 0..5
    BY <1>2 DEF Lost
  <2>1. PICK n \in {2, 5}, k \in {1, 2} : n = Pushed /\ k = ReservedStack
    BY DEF Pushed, ReservedStack
  <2>2. 1..n \subseteq Lost(a) /\ 0 \in Lost(a) /\ InReg \in Lost(a)
    BY <2>0, <2>1 DEF Pushed, InReg
  <2>3. regs \cap (1..n) = {} /\ 0 \notin regs /\ reg # InReg
    BY <2>2
  <2>4. PushUsed(regs, n, k) = <<>> /\ PopUsed(regs, n, k) = <<>>
    BY <2>3, NothingSaved
  <2>5. PICK mv : mv = If(InReg # reg, <<AluReg("mov", InReg, reg)>>)
    OBVIOUS
  <2>6. InReg \in Registers
    BY DEF InReg, Registers
  <2>7. Fine(C.mem, K, {reg}, mv, {InReg})
    BY <2>5, <2>6, MovedFine
  <2>8. Fine(C.mem, K, {InReg}, readInsns(a, reg), {reg})
    BY <1>2, ReadsFine
  <2>9. If(reg # InReg, <<AluReg("mov", InReg, reg)>>) = mv
    BY <2>5 DEF If
  <2>10. offset2insns(a, reg, regs) = <<>> \o mv \o readInsns(a, reg) \o <<>>
    BY <1>2, <2>1, <2>4, <2>9 DEF offset2insns, InReg
  <2>11. Fine(C.mem, K, {reg}, <<>> \o mv, {InReg})
    BY <2>7, FineNone, FineJoin
  <2>12. Fine(C.mem, K, {reg}, <<>> \o mv \o readInsns(a, reg), {reg})
    BY <2>8, <2>11, FineJoin
  <2> QED BY <2>10, <2>12, FineNone, FineJoin
<1> QED BY <1>1, <1>2

\* What was read is cut in its register.
LEMMA CutWork ==
  ASSUME NEW mem, NEW a, a.bits \in Nat, a.bit \in Nat, NEW R \in SUBSET Registers, NEW reg \in R
  PROVE  cut2insns(a, reg) \in Work(mem, R)
<1>1. \A op \in {"rsh", "and", "lsh"}, n \in Int : /\ AluImm(op, reg, n) \in Plain(mem, R)
                                                   /\ Lands(AluImm(op, reg, n), 0) /\ Lands(AluImm(op, reg, n), 1)
  BY PlainIs DEF AluOps
<1>2. 2 ^ a.bits - 1 \in Int /\ Half \in Int /\ a.bit \in Int
  BY Positive, HalfAssumption
<1>3. CASE a.bits # 0
  <2>1. PICK i \in Plain(mem, R), j \in Plain(mem, R) :
          /\ i = AluImm("rsh", reg, a.bit) /\ j = AluImm("and", reg, 2 ^ a.bits - 1)
          /\ Lands(i, 1) /\ Lands(j, 0)
    BY <1>1, <1>2
  <2>2. <<i, j>> \in Work(mem, R) /\ <<j>> \in Work(mem, R)
    BY <2>1, WorkOf
  <2>3. <<i>> \o <<j>> = <<i, j>> /\ <<>> \o <<j>> = <<j>>
    BY Written
  <2>4. cut2insns(a, reg) = If(a.bit # 0, <<i>>) \o <<j>>
    BY <1>3, <2>1 DEF cut2insns
  <2> QED BY <2>2, <2>3, <2>4 DEF If
<1>4. CASE a.bits = 0
  <2>1. PICK i \in Plain(mem, R), j \in Plain(mem, R) :
          /\ i = AluImm("lsh", reg, Half) /\ j = AluImm("rsh", reg, Half)
          /\ Lands(i, 1) /\ Lands(j, 0)
    BY <1>1, <1>2
  <2>2. <<i, j>> \in Work(mem, R) /\ <<>> \in Work(mem, R)
    BY <2>1, WorkOf
  <2>3. cut2insns(a, reg) = If(a.t.size = 1, <<i, j>>)
    BY <1>4, <2>1 DEF cut2insns
  <2> QED BY <2>2, <2>3 DEF If
<1> QED BY <1>3, <1>4

-----------------------------------------------------------------------------
(* Types, and what C says of words.                                        *)

\* The types the compiler meets have sizes.
LEMMA TypeFacts ==
  /\ \A t \in AllTypes : t.size \in Nat /\ SizeTo(t) \in Nat /\ Factor(SizeTo(t)) \in Nat
  /\ \A t \in AllTypes : Pointing(t) => t.to \in Types
  /\ \A t \in AllTypes : IsArray(t) \/ t.kind = "struct" => t \in Types
  /\ \A t \in Types : t \in AllTypes /\ Ptr(t) \in AllTypes
  /\ \A t \in Types : t.kind = "struct" => t.to \in DOMAIN Members
  /\ Void \in AllTypes
<1>1. \A t \in Types : IsType(t)
  BY TypesAssumption
<1>2. ASSUME NEW t \in AllTypes PROVE /\ t.size \in Nat /\ (Pointing(t) => t.to \in Types)
                                      /\ IsArray(t) \/ t.kind = "struct" => t \in Types
  <2>1. CASE t \in Types
    BY <1>1, <2>1 DEF IsType, Pointing, IsPtr, IsArray
  <2>2. CASE \E u \in Types : t = Ptr(u)
    BY <2>2 DEF Ptr, Type, Pointing, IsPtr, IsArray
  <2>3. CASE t = Void
    BY <2>3 DEF Void, Type, Pointing, IsPtr, IsArray
  <2> QED BY <2>1, <2>2, <2>3 DEF AllTypes
<1>3. \A t \in AllTypes : SizeTo(t) \in Nat
  <2> TAKE t \in AllTypes
  <2>1. Pointing(t) => t.to.size \in Nat
    BY <1>2 DEF AllTypes
  <2> QED BY <2>1 DEF SizeTo
<1>4. \A t \in AllTypes : Factor(SizeTo(t)) \in Nat
  BY <1>3 DEF Factor
<1>5. \A t \in Types : t \in AllTypes /\ Ptr(t) \in AllTypes
  BY DEF AllTypes
<1>6. \A t \in Types : t.kind = "struct" => t.to \in DOMAIN Members
  BY <1>1 DEF IsType
<1> QED BY <1>2, <1>3, <1>4, <1>5, <1>6 DEF AllTypes

Refs == Words \cup {Undef}

\* What C says of a value is a word or nothing.
LEMMA RefFacts == \A w \in Refs : w # Undef => w \in Words
BY DEF Refs

\* What a value may be.
Typed(e) ==
  /\ IsValue(e) /\ e.typ \in {"num", "enum", "reg"}
  /\ e.v \in IF IsReg(e) THEN Allocatable ELSE Words
  /\ e.t \in AllTypes /\ e.bits \in Nat
  /\ e.ref \in Refs /\ e.step \in Nat

\* A value is an operand.
LEMMA TypedOperand ==
  ASSUME NEW e, Typed(e)
  PROVE  /\ WordOrReg(e)
         /\ e.typ = "enum" => ~IsNum(e) /\ ~IsReg(e) /\ e.v \in Words
         /\ IsReg(e) => RegOf(e) = {e.v} /\ e.v \in Registers
         /\ ~IsReg(e) => RegOf(e) = {}
BY TypeFacts, Ranges DEF Typed, WordOrReg, IsNum, IsReg, RegOf

\* A constant is a value.
LEMMA NumberTyped ==
  ASSUME NEW n \in Words
  PROVE  /\ Typed(Number(n)) /\ Typed(EnumName(n)) /\ ~IsReg(Number(n)) /\ ~IsReg(EnumName(n))
<1>1. ASSUME NEW typ \in {"num", "enum"}
      PROVE  Typed(Value(typ, n, Void, 0, n)) /\ ~IsReg(Value(typ, n, Void, 0, n))
  <2>1. PICK e : e = Value(typ, n, Void, 0, n)
    OBVIOUS
  <2>2. /\ e.typ = typ /\ e.v = n /\ e.t = Void /\ e.bits = 0 /\ e.ref = n /\ e.step = SizeTo(Void)
    BY <2>1 DEF Value
  <2>3. IsValue(e)
    BY <2>1, ValueShape
  <2>4. Void \in AllTypes /\ SizeTo(Void) \in Nat /\ n \in Refs /\ 0 \in Nat
    BY TypeFacts DEF Refs
  <2>5. ~IsReg(e)
    BY <2>2 DEF IsReg
  <2>6. Typed(e)
    BY <2>2, <2>3, <2>4, <2>5 DEF Typed
  <2> QED BY <2>1, <2>5, <2>6
<1> QED BY <1>1 DEF Number, EnumName

\* A register is a value.
LEMMA LoadedTyped ==
  ASSUME NEW r \in Allocatable, NEW t \in AllTypes, NEW bits \in Nat, NEW ref \in Refs
  PROVE  LET e == Loaded(r, t, bits, ref)
         IN  Typed(e) /\ IsReg(e) /\ e.v = r /\ (e.late <=> labelUsed)
<1>1. PICK x : x = Value("reg", r, t, bits, ref)
  OBVIOUS
<1>2. PICK e : e = Loaded(r, t, bits, ref)
  OBVIOUS
<1>3. x = [typ |-> "reg", v |-> r, t |-> t, bits |-> bits, ref |-> ref,
           step |-> SizeTo(t), odd |-> {}, null |-> FALSE, late |-> FALSE]
  BY <1>1 DEF Value
<1>4. e = [x EXCEPT !.late = labelUsed]
  BY <1>1, <1>2 DEF Loaded
<1>5. /\ e.typ = "reg" /\ e.v = r /\ e.t = t /\ e.bits = bits /\ e.ref = ref /\ e.step = SizeTo(t)
  BY <1>3, <1>4
<1>6. e.late = labelUsed
  BY <1>3, <1>4
<1>7. IsValue(e)
  BY <1>2, LoadedShape
<1>8. IsReg(e)
  BY <1>5 DEF IsReg
<1>9. Typed(e)
  BY <1>5, <1>7, <1>8, TypeFacts DEF Typed
<1> QED BY <1>2, <1>5, <1>6, <1>8, <1>9

\* The operators set four fields, and the others stay.
Noted(y, ref, step, odd, null) == [y EXCEPT !.ref = ref, !.step = step, !.odd = odd, !.null = null]

\* A value is one whatever C says of it.
LEMMA AnnotatedTyped ==
  ASSUME NEW y, NEW ref \in Refs, NEW step \in Nat, NEW odd, NEW null, Typed(y),
         NEW e, e = Noted(y, ref, step, odd, null)
  PROVE  Typed(e) /\ (IsReg(e) <=> IsReg(y)) /\ e.v = y.v /\ e.late = y.late
<1>0. e = [y EXCEPT !.ref = ref, !.step = step, !.odd = odd, !.null = null]
  BY DEF Noted
<1>1. PICK typ, v, t, bits, late : /\ typ = y.typ /\ v = y.v /\ t = y.t /\ bits = y.bits /\ late = y.late
  OBVIOUS
<1>2. y = [typ |-> typ, v |-> v, t |-> t, bits |-> bits, ref |-> y.ref,
           step |-> y.step, odd |-> y.odd, null |-> y.null, late |-> late]
  BY <1>1 DEF Typed, IsValue
<1>3. e = [typ |-> typ, v |-> v, t |-> t, bits |-> bits, ref |-> ref,
           step |-> step, odd |-> odd, null |-> null, late |-> late]
  <2>1. PICK o, n : o = y.odd /\ n = y.null
    OBVIOUS
  <2>2. PICK e1 : e1 = [y EXCEPT !.ref = ref]
    OBVIOUS
  <2>3. e1 = [typ |-> typ, v |-> v, t |-> t, bits |-> bits, ref |-> ref,
              step |-> y.step, odd |-> o, null |-> n, late |-> late]
    BY <1>2, <2>1, <2>2
  <2>4. PICK e2 : e2 = [e1 EXCEPT !.step = step]
    OBVIOUS
  <2>5. e2 = [typ |-> typ, v |-> v, t |-> t, bits |-> bits, ref |-> ref,
              step |-> step, odd |-> o, null |-> n, late |-> late]
    BY <2>3, <2>4
  <2>6. PICK e3 : e3 = [e2 EXCEPT !.odd = odd]
    OBVIOUS
  <2>7. e3 = [typ |-> typ, v |-> v, t |-> t, bits |-> bits, ref |-> ref,
              step |-> step, odd |-> odd, null |-> n, late |-> late]
    BY <2>5, <2>6
  <2>8. e = [e3 EXCEPT !.null = null]
    BY <1>0, <2>2, <2>4, <2>6
  <2> QED BY <2>7, <2>8
<1>4. e.typ = typ /\ e.v = v /\ e.t = t /\ e.bits = bits
  BY <1>3
<1>5. e.ref = ref /\ e.step = step
  BY <1>3
<1>6. e.late = late
  BY <1>3
<1>7. IsValue(e)
  BY <1>3 DEF IsValue
<1>8. Typed(e) /\ (IsReg(e) <=> IsReg(y)) /\ e.v = y.v /\ e.late = y.late
  BY <1>1, <1>4, <1>5, <1>6, <1>7 DEF Typed, IsReg
<1> QED BY <1>0, <1>8

\* A constant that takes another's size is still a word.
LEMMA AdjustWord ==
  ASSUME NEW n \in Words, NEW e, IsReg(e) => e.bits \in Nat
  PROVE  adjustNum(n, e) \in Words
<1>1. n % Low \in Words
  BY InWords, WordFacts
<1>2. IsReg(e) => n % (2 ^ e.bits) \in Words
  BY InWords, Positive
<1> QED BY <1>1, <1>2 DEF adjustNum

\* An operand is one after preHandleBinaryOp.
LEMMA PreparedTyped ==
  ASSUME NEW e, Typed(e), NEW other, Typed(other)
  PROVE  /\ Typed(Prepared(e, other))
         /\ IsReg(Prepared(e, other)) <=> IsReg(e)
         /\ IsReg(e) => Prepared(e, other) = e
<1>0. IsValue(e) /\ (IsReg(other) => other.bits \in Nat)
  BY DEF Typed
<1>1. CASE e.typ = "enum" /\ IsReg(other) /\ other.t.kind = "enum"
  <2>1. e.v \in Words
    BY <1>1, TypedOperand
  <2>2. adjustNum(e.v, other) \in Words
    BY <1>0, <2>1, AdjustWord
  <2>3. Prepared(e, other) = Number(adjustNum(e.v, other))
    BY <1>1 DEF Prepared
  <2> QED BY <1>0, <2>2, <2>3, NumberTyped, PreparedSame
<1>2. CASE ~(e.typ = "enum" /\ IsReg(other) /\ other.t.kind = "enum") /\ IsNum(e)
  <2>1. e.v \in Words
    BY <1>2, TypedOperand DEF WordOrReg
  <2>2. PICK w \in Words : w = adjustNum(e.v, other)
    BY <1>0, <2>1, AdjustWord
  <2>3. PICK u \in Refs : u = IF e.ref = Undef THEN Undef ELSE adjustNum(e.ref, other)
    <3>1. e.ref # Undef => e.ref \in Words
      BY RefFacts DEF Typed
    <3>2. e.ref # Undef => adjustNum(e.ref, other) \in Words
      BY <1>0, <3>1, AdjustWord
    <3> QED BY <3>2 DEF Refs
  <2>4. Prepared(e, other) = [e EXCEPT !.v = w, !.ref = u]
    BY <1>0, <1>2, <2>2, <2>3 DEF Prepared, IsValue
  <2>5. PICK y : y = [e EXCEPT !.v = w, !.ref = u]
    OBVIOUS
  <2>6. /\ y.typ = e.typ /\ y.v = w /\ y.t = e.t /\ y.bits = e.bits /\ y.ref = u /\ y.step = e.step
    BY <1>0, <2>5 DEF IsValue
  <2>7. IsValue(y) /\ ~IsReg(y) /\ ~IsReg(e)
    BY <1>0, <1>2, <2>4, <2>5, <2>6, PreparedSame DEF IsNum, IsReg
  <2>8. Typed(y)
    BY <2>6, <2>7 DEF Typed
  <2> QED BY <2>4, <2>5, <2>7, <2>8
<1>3. CASE ~(e.typ = "enum" /\ IsReg(other) /\ other.t.kind = "enum") /\ ~IsNum(e)
  BY <1>3 DEF Prepared
<1> QED BY <1>1, <1>2, <1>3

\* What C says of an operator's value is a word, or nothing.
LEMMA InCTyped ==
  ASSUME NEW op \in BinaryOps, NEW l, NEW r, Typed(l), Typed(r)
  PROVE  InC(op, l, r) \in Refs /\ StepInC(op, l, r) \in Nat
<1> DEFINE Arith(a, b) ==
      CASE op = "add" -> (a * (IF l.step = 0 THEN Factor(r.step) ELSE 1) + b * Factor(l.step)) % Word
        [] op = "sub" -> (a - b * Factor(l.step)) % Word
        [] op = "mul" -> (a * b) % Word
        [] op = "div" -> IF b = 0 THEN Undef ELSE IF BothNum(l, r) THEN Quotient(a, b) ELSE a \div b
        [] op = "mod" -> IF b = 0 THEN Undef
                         ELSE IF BothNum(l, r) THEN (Signed(a) - Signed(Quotient(a, b)) * Signed(b)) % Word
                         ELSE a % b
        [] op = "lsh" -> IF b \in Shifts THEN (a * 2 ^ b) % Word ELSE Undef
        [] op = "rsh" -> IF b \in Shifts THEN ((IF BothNum(l, r) THEN Signed(a) ELSE a) \div 2 ^ b) % Word
                         ELSE Undef
        [] op \in {"and", "or", "xor"} -> BitOp(op, a, b)
        [] op \in {"andand", "oror"} -> BoolToInt(b # 0)
        [] op \in Comparisons -> BoolToInt(Holds(op, IF BothNum(l, r) THEN Signed(a) ELSE a,
                                                     IF BothNum(l, r) THEN Signed(b) ELSE b))
<1>0. l.step \in Nat /\ r.step \in Nat /\ l.ref \in Refs /\ r.ref \in Refs
  BY DEF Typed
<1>f. Factor(l.step) \in Nat /\ Factor(r.step) \in Nat
  BY <1>0 DEF Factor
<1>w. 0 \in Words /\ 1 \in Words
  BY WordFacts
<1>b. \A p : BoolToInt(p) \in Words
  BY <1>w DEF BoolToInt
<1>1. ASSUME NEW a \in Words, NEW b \in Words PROVE Arith(a, b) \in Refs
  <2>0. a \in Int /\ b \in Int
    BY InWords
  <2>1. CASE op = "add"
    <3>1. PICK f, g \in Nat : f = (IF l.step = 0 THEN Factor(r.step) ELSE 1) /\ g = Factor(l.step)
      BY <1>f
    <3>2. f \in Nat
      BY <1>f, <3>1
    <3>3. a * f + b * g \in Int
      BY <2>0, <3>2
    <3>4. (a * f + b * g) % Word \in Words
      BY <3>3, InWords
    <3> QED BY <2>1, <3>1, <3>4 DEF Refs, Comparisons
  <2>2. CASE op = "sub"
    <3>1. PICK g \in Nat : g = Factor(l.step)
      BY <1>f
    <3>2. a - b * g \in Int
      BY <2>0
    <3>3. (a - b * g) % Word \in Words
      BY <3>2, InWords
    <3> QED BY <2>2, <3>1, <3>3 DEF Refs, Comparisons
  <2>3. CASE op = "mul"
    <3>1. (a * b) % Word \in Words
      BY Folded
    <3> QED BY <2>3, <3>1 DEF Refs, Comparisons
  <2>4. CASE op = "div"
    <3>1. b # 0 => Quotient(a, b) \in Words /\ a \div b \in Words
      <4>1. b # 0 => b \in Nat \ {0}
        BY InWords
      <4> QED BY <4>1, Folded, InWords
    <3> QED BY <2>4, <3>1 DEF Refs, Comparisons
  <2>5. CASE op = "mod"
    <3>1. b # 0 => (Signed(a) - Signed(Quotient(a, b)) * Signed(b)) % Word \in Words
      BY Folded
    <3>2. b # 0 => a % b \in Words
      <4>1. b # 0 => b \in Nat \ {0}
        BY InWords
      <4> QED BY <4>1, InWords
    <3>3. PICK w : w = (Signed(a) - Signed(Quotient(a, b)) * Signed(b)) % Word
      OBVIOUS
    <3>4. Arith(a, b) = IF b = 0 THEN Undef ELSE IF BothNum(l, r) THEN w ELSE a % b
      BY <2>5, <3>3 DEF Comparisons
    <3> HIDE DEF Arith
    <3> QED BY <3>1, <3>2, <3>3, <3>4 DEF Refs
  <2>6. CASE op = "lsh"
    <3>1. b \in Shifts => (a * 2 ^ b) % Word \in Words
      BY Folded, HalfAssumption DEF Shifts
    <3> QED BY <2>6, <3>1 DEF Refs, Comparisons
  <2>7. CASE op = "rsh"
    <3>1. b \in Shifts => (Signed(a) \div 2 ^ b) % Word \in Words
      BY Folded, HalfAssumption DEF Shifts
    <3>2. b \in Shifts => (a \div 2 ^ b) % Word \in Words
      <4>1. b \in Nat
        BY InWords
      <4>2. PICK p \in Nat \ {0} : p = 2 ^ b
        BY <4>1, Positive
      <4>3. a \div p \in Words
        BY InWords
      <4>4. (a \div p) % Word \in Words
        BY <4>3, InWords
      <4> QED BY <4>2, <4>4
    <3> QED BY <2>7, <3>1, <3>2 DEF Refs, Comparisons
  <2>8. CASE op \in {"and", "or", "xor"}
    <3>1. BitOp(op, a, b) \in Words
      BY <2>8, BitWord
    <3> QED BY <2>8, <3>1 DEF Refs, Comparisons
  <2>9. CASE op \in {"andand", "oror"}
    <3>1. BoolToInt(b # 0) \in Words
      BY <1>w DEF BoolToInt
    <3> QED BY <2>9, <3>1 DEF Refs, Comparisons
  <2>10. CASE op \in Comparisons
    <3>1. PICK x, y : /\ x = (IF BothNum(l, r) THEN Signed(a) ELSE a)
                      /\ y = (IF BothNum(l, r) THEN Signed(b) ELSE b)
      OBVIOUS
    <3>2. BoolToInt(Holds(op, x, y)) \in Words
      BY <1>w DEF BoolToInt
    <3>3. Arith(a, b) = BoolToInt(Holds(op, x, y))
      BY <2>10, <3>1 DEF Comparisons
    <3> QED BY <3>2, <3>3 DEF Refs
  <2> QED BY <2>1, <2>2, <2>3, <2>4, <2>5, <2>6, <2>7, <2>8, <2>9, <2>10 DEF BinaryOps
<1>2. \/ InC(op, l, r) \in {0, 1, Undef}
      \/ Undef \notin {l.ref, r.ref} /\ InC(op, l, r) = Arith(l.ref, r.ref)
  BY DEF InC
<1>3. InC(op, l, r) \in Refs
  <2>1. CASE InC(op, l, r) \in {0, 1, Undef}
    BY <1>w, <2>1 DEF Refs
  <2>2. CASE Undef \notin {l.ref, r.ref} /\ InC(op, l, r) = Arith(l.ref, r.ref)
    <3>1. l.ref \in Words /\ r.ref \in Words
      BY <1>0, <2>2, RefFacts
    <3> HIDE DEF Arith
    <3> QED BY <1>1, <2>2, <3>1
  <2> QED BY <1>2, <2>1, <2>2
<1>4. StepInC(op, l, r) \in Nat
  BY <1>0 DEF StepInC
<1> QED BY <1>3, <1>4

\* C says of a unary operator a word or nothing.
LEMMA InCUnaryTyped ==
  ASSUME NEW op \in UnaryOps, NEW e, Typed(e)
  PROVE  InCUnary(op, e) \in Refs
<1>0. e.ref \in Refs /\ e.step \in Nat /\ 0 \in Words /\ 1 \in Words
  BY WordFacts DEF Typed
<1>1. CASE e.ref = Undef
  BY <1>1 DEF InCUnary, Refs
<1>2. CASE e.ref # Undef
  <2>1. PICK w \in Words : w = e.ref
    BY <1>0, <1>2, RefFacts
  <2>2. PICK f \in Nat : f = Factor(e.step)
    BY <1>0 DEF Factor
  <2>3. /\ (Word - w) % Word \in Words /\ Word - 1 - w \in Words /\ BoolToInt(w = 0) \in Words
    BY <1>0, Folded DEF BoolToInt
  <2>4. (w + f) % Word \in Words /\ (w - f) % Word \in Words
    <3>1. w + f \in Int /\ w - f \in Int
      BY InWords
    <3> QED BY <3>1, InWords
  <2>5. InCUnary(op, e) = CASE op = "not"    -> BoolToInt(w = 0)
                            [] op = "minus"  -> (Word - w) % Word
                            [] op = "twid"   -> Word - 1 - w
                            [] op = "preInc" -> (w + f) % Word
                            [] op = "preDec" -> (w - f) % Word
    BY <1>2, <2>1, <2>2 DEF InCUnary
  <2> QED BY <2>3, <2>4, <2>5 DEF UnaryOps, Refs
<1> QED BY <1>1, <1>2

-----------------------------------------------------------------------------
(* Chains of accesses.                                                     *)

\* What a chain may be.
TypedAccess(a) ==
  /\ a = [base |-> a.base, v |-> a.v, t |-> a.t, bits |-> a.bits, bit |-> a.bit,
          offsets |-> a.offsets, lv |-> a.lv, w |-> a.w, odd |-> a.odd, null |-> a.null,
          late |-> a.late, steps |-> a.steps, ends |-> a.ends]
  /\ a.base \in {"var", "number", "computed"}
  /\ a.base = "var" => a.v \in DOMAIN C.types
  /\ a.base = "number" => a.v \in Words
  /\ a.base = "computed" => a.v \in Allocatable
  /\ a.t \in AllTypes /\ (a.lv => a.t \in Types)
  /\ a.bits \in Nat /\ a.bit \in Nat
  /\ IsChain(a)
  /\ a.w \in Refs

\* The configuration is one of those that the assumption is about.
LEMMA TheConfiguration ==
  ASSUME conf \in DOMAIN Confs
  PROVE  /\ IsMem(C.mem) /\ C.mem.args[1] \in Words
         /\ \A i \in DOMAIN C.types : C.mem.args[i] \in Words /\ C.types[i] \in Types
         /\ \A n \in C.nums \cup C.enums \cup C.bases : n \in Words
         /\ \A t \in C.casts : t \in Types
         /\ \A i \in C.indices : i \in Nat
         /\ \A d \in C.deltas : d \in Int
<1>1. IsConfiguration(C)
  BY ConfsAssumption DEF C
<1>2. C.types \in Seq(Types) /\ C.casts \subseteq Types /\ C.indices \subseteq Nat /\ C.deltas \subseteq Int
  BY <1>1 DEF IsConfiguration
<1>3. /\ C.mem.args[1] \in Words /\ \A i \in DOMAIN C.types : C.mem.args[i] \in Words
      /\ IsMem(C.mem) /\ C.nums \cup C.enums \cup C.bases \subseteq Words
  BY <1>1 DEF IsConfiguration, IsMem
<1> QED BY <1>2, <1>3

\* Members have types and places.
LEMMA TheMembers ==
  ASSUME NEW s \in DOMAIN Members, NEW name \in DOMAIN Members[s]
  PROVE  LET f == Members[s][name] IN f.t \in Types /\ f.off \in Nat /\ f.bits \in Nat /\ f.bit \in Nat
BY TypesAssumption

\* What C says of a chain is a word, or nothing.
LEMMA LoadTyped ==
  ASSUME IsMem(C.mem), NEW a, TypedAccess(a)
  PROVE  InCAccess(a) \in Refs
<1>0. a.w \in Refs /\ a.bits \in Nat /\ a.bit \in Nat /\ a.t \in AllTypes
  BY DEF TypedAccess
<1>1. CASE a.lv /\ a.w # Undef
  <2>1. a.w \in Words
    BY <1>0, <1>1, RefFacts
  <2>2. ReadMem(C.mem, a.w, 1) \in Words /\ ReadMem(C.mem, a.w, a.t.size) \in Words
    BY <2>1, ReadWord
  <2>3. (ReadMem(C.mem, a.w, 1) \div 2 ^ a.bit) % 2 ^ a.bits \in Words
    <3>1. PICK p \in Nat \ {0}, q \in Nat \ {0} : p = 2 ^ a.bit /\ q = 2 ^ a.bits
      BY <1>0, Positive
    <3>2. PICK w \in Words : w = ReadMem(C.mem, a.w, 1)
      BY <2>2
    <3>3. w \div p \in Words
      BY InWords
    <3>4. (w \div p) % q \in Words
      BY <3>3, InWords
    <3> QED BY <3>1, <3>2, <3>4
  <2>4. Load(a) \in Refs
    BY <1>0, <2>2, <2>3 DEF Load, Refs
  <2> QED BY <1>1, <2>4 DEF InCAccess
<1>2. CASE ~(a.lv /\ a.w # Undef)
  BY <1>0, <1>2 DEF InCAccess
<1> QED BY <1>1, <1>2

\* A chain that moves is at an address.
LEMMA MoveTyped ==
  ASSUME NEW w \in Refs, NEW n \in Int
  PROVE  Move(w, n) \in Refs
<1>1. w # Undef => (w + n) % Word \in Words
  <2> SUFFICES ASSUME w # Undef PROVE (w + n) % Word \in Words
    OBVIOUS
  <2>1. w \in Words
    BY RefFacts
  <2>2. w + n \in Int
    BY <2>1, InWords
  <2> QED BY <2>2, InWords
<1> QED BY <1>1 DEF Move, Refs

\* A step of a chain keeps what the chain began with.
Keeps(b, a) == TypedAccess(b) /\ b.base = a.base /\ b.v = a.v /\ b.late = a.late

\* Two steps keep what each keeps.
LEMMA KeepsTwice ==
  ASSUME NEW a, NEW b, NEW c, Keeps(b, a), Keeps(c, b)
  PROVE  Keeps(c, a)
BY DEF Keeps

\* Moving keeps the beginning of a chain.
LEMMA MovedKeeps ==
  ASSUME IsMem(C.mem), NEW a, TypedAccess(a), NEW n \in Int, NEW t \in AllTypes,
         NEW lv \in BOOLEAN, lv => t \in Types
  PROVE  Keeps(Moved(a, n, t, lv), a)
<1>1. PICK w \in Refs : w = Move(InCAccess(a), n)
  BY LoadTyped, MoveTyped
<1>2. PICK null : null = (a.null \/ IsNull(InCAccess(a)))
  OBVIOUS
<1>3. PICK steps : steps = a.steps + 1
  OBVIOUS
<1>4. PICK b : b = Moved(a, n, t, lv)
  OBVIOUS
<1>5. b = [a EXCEPT !.w = w, !.lv = lv, !.t = t, !.bits = 0, !.null = null, !.steps = steps, !.ends = lv]
  BY <1>1, <1>2, <1>3, <1>4 DEF Moved, TypedAccess
<1>6. b = [base |-> a.base, v |-> a.v, t |-> t, bits |-> 0, bit |-> a.bit,
           offsets |-> a.offsets, lv |-> lv, w |-> w, odd |-> a.odd, null |-> null,
           late |-> a.late, steps |-> steps, ends |-> lv]
  BY <1>5 DEF TypedAccess
<1>7. TypedAccess(b)
  BY <1>6 DEF TypedAccess, IsChain
<1>8. b.base = a.base /\ b.v = a.v /\ b.late = a.late
  BY <1>6
<1> QED BY <1>4, <1>7, <1>8 DEF Keeps

\* A chain with the same beginning.
SetAnew(a, t, bits, bit, offsets, lv, w, odd, null, steps, ends) ==
  [base |-> a.base, v |-> a.v, t |-> t, bits |-> bits, bit |-> bit,
   offsets |-> offsets, lv |-> lv, w |-> w, odd |-> odd, null |-> null,
   late |-> a.late, steps |-> steps, ends |-> ends]

\* A chain has these fields.
LEMMA ItsShape ==
  ASSUME NEW a, TypedAccess(a)
  PROVE  a = SetAnew(a, a.t, a.bits, a.bit, a.offsets, a.lv, a.w, a.odd, a.null, a.steps, a.ends)
BY DEF TypedAccess, SetAnew

\* A chain with the same beginning and other fields of the right types.
LEMMA SameKeeps ==
  ASSUME NEW a, TypedAccess(a), NEW t \in AllTypes, NEW bits \in Nat, NEW bit \in Nat, NEW offsets,
         offsets \in Seq(Offsets), NEW lv, lv => t \in Types, NEW w \in Refs, NEW odd, NEW null,
         NEW steps, NEW ends
  PROVE  Keeps(SetAnew(a, t, bits, bit, offsets, lv, w, odd, null, steps, ends), a)
<1>1. PICK b : b = SetAnew(a, t, bits, bit, offsets, lv, w, odd, null, steps, ends)
  OBVIOUS
<1>2. b = [base |-> a.base, v |-> a.v, t |-> t, bits |-> bits, bit |-> bit,
           offsets |-> offsets, lv |-> lv, w |-> w, odd |-> odd, null |-> null,
           late |-> a.late, steps |-> steps, ends |-> ends]
  BY <1>1 DEF SetAnew
<1>3. TypedAccess(b)
  BY <1>2 DEF TypedAccess, IsChain
<1>4. b.base = a.base /\ b.v = a.v /\ b.late = a.late
  BY <1>2
<1> QED BY <1>1, <1>3, <1>4 DEF Keeps

\* An offset more, and an offset changed.
LEMMA OffsetsTyped ==
  ASSUME NEW s, s \in Seq(Offsets), NEW t \in AllTypes, NEW prev \in AllTypes, NEW n \in Int,
         NEW address \in BOOLEAN, NEW inArray \in BOOLEAN
  PROVE  Append(s, [offset |-> n, t |-> t, prev |-> prev, address |-> address, inArray |-> inArray])
           \in Seq(Offsets)
<1>1. [offset |-> n, t |-> t, prev |-> prev, address |-> address, inArray |-> inArray] \in Offsets
  BY DEF Offsets
<1> QED BY <1>1, AppendProperties

\* The last offset is changed, and the others are not.
LEMMA OffsetChanged ==
  ASSUME NEW s, s \in Seq(Offsets), NEW i, NEW o, i \in DOMAIN s => o \in Offsets
  PROVE  [s EXCEPT ![i] = o] \in Seq(Offsets)
<1>1. \E n \in Nat : s \in [1..n -> Offsets]
  BY SeqDef
<1>2. PICK n \in Nat : s \in [1..n -> Offsets]
  BY <1>1
<1>3. \A k \in 1..n : (IF k = i THEN o ELSE s[k]) \in Offsets
  BY <1>2
<1>4. [s EXCEPT ![i] = o] = [k \in 1..n |-> IF k = i THEN o ELSE s[k]]
  BY <1>2
<1>5. [s EXCEPT ![i] = o] \in [1..n -> Offsets]
  BY <1>3, <1>4
<1> QED BY <1>5, SeqDef

\* An offset more.
LEMMA AddOffsetKeeps ==
  ASSUME NEW a, TypedAccess(a), NEW n \in Int, NEW t \in AllTypes, NEW prev \in AllTypes,
         NEW address \in BOOLEAN, NEW inArray \in BOOLEAN
  PROVE  Keeps(AddOffset(a, n, t, prev, address, inArray), a)
<1>1. PICK s : s = Append(a.offsets, [offset |-> n, t |-> t, prev |-> prev,
                                      address |-> address, inArray |-> inArray])
  OBVIOUS
<1>2. s \in Seq(Offsets)
  BY <1>1, OffsetsTyped DEF TypedAccess, IsChain
<1>3. AddOffset(a, n, t, prev, address, inArray) = [a EXCEPT !.offsets = s]
  BY <1>1 DEF AddOffset, TypedAccess
<1>4. [a EXCEPT !.offsets = s] = SetAnew(a, a.t, a.bits, a.bit, s, a.lv, a.w, a.odd, a.null, a.steps, a.ends)
  BY DEF TypedAccess, SetAnew
<1> QED BY <1>2, <1>3, <1>4, SameKeeps DEF TypedAccess

\* A read from the address a chain is at.
LEMMA ReadAtKeeps ==
  ASSUME IsMem(C.mem), NEW a, TypedAccess(a), NEW n \in Int, NEW t \in Types
  PROVE  Keeps(ReadAt(a, n, t), a)
<1>1. PICK b : b = Moved(a, n, t, TRUE)
  OBVIOUS
<1>2. Keeps(b, a)
  BY <1>1, MovedKeeps, TypeFacts
<1>3. PICK odd : odd = (b.odd \cup (IF IsArray(t) THEN {"array"} ELSE {}))
  OBVIOUS
<1>4. ReadAt(a, n, t) = [b EXCEPT !.odd = odd]
  BY <1>1, <1>2, <1>3 DEF ReadAt, Keeps, TypedAccess
<1>5. [b EXCEPT !.odd = odd] = SetAnew(b, b.t, b.bits, b.bit, b.offsets, b.lv, b.w, odd, b.null, b.steps, b.ends)
  BY <1>2 DEF Keeps, TypedAccess, SetAnew
<1>6. Keeps([b EXCEPT !.odd = odd], b)
  BY <1>2, <1>5, SameKeeps DEF Keeps, TypedAccess, IsChain
<1> QED BY <1>2, <1>4, <1>6, KeepsTwice

-----------------------------------------------------------------------------
(* The steps of a chain.                                                   *)

\* An error, or a panic.
Stops == Stop("failed") \/ Stop("crashed")

\* What is before a step: a chain of the configuration.
OnChain == conf \in DOMAIN Confs /\ acc # NoAccess /\ TypedAccess(acc)

\* What the last offset pointed to has a type.
LEMMA PrevTyped == ASSUME NEW a, TypedAccess(a) PROVE prevBtf(a) \in AllTypes
<1>1. a.offsets # <<>> => Last(a.offsets) \in Offsets
  BY DEF TypedAccess, IsChain, Last
<1> QED BY <1>1, TypeFacts DEF prevBtf, Offsets

\* An index stops the compiler, or keeps the chain's beginning.
LEMMA AccessIndexKeeps ==
  ASSUME OnChain, NEW i \in C.indices, AccessIndex(i)
  PROVE  Stops \/ \E a : Keeps(a, acc) /\ Chain(a)
<1>1. CASE Stops
  BY <1>1
<1>2. CASE ~Stops
  <2> DEFINE n == i * acc.t.to.size
  <2>1. /\ SizeTo(acc.t) # 0
        /\ Chain(AddOffset(ReadAt(acc, n, acc.t.to), n, acc.t.to, prevBtf(acc), FALSE, IsArray(acc.t)))
    BY <1>2 DEF AccessIndex, Stops
  <2>2. acc.t \in AllTypes /\ Pointing(acc.t)
    BY <2>1 DEF OnChain, TypedAccess, SizeTo
  <2>3. acc.t.to \in Types /\ acc.t.to \in AllTypes /\ acc.t.to.size \in Nat
    BY <2>2, TypeFacts
  <2>4. i \in Nat /\ IsMem(C.mem)
    BY TheConfiguration DEF OnChain
  <2>5. n \in Int
    BY <2>3, <2>4
  <2> HIDE DEF n
  <2>6. PICK b : b = ReadAt(acc, n, acc.t.to)
    OBVIOUS
  <2>7. Keeps(b, acc)
    BY <2>3, <2>4, <2>5, <2>6, ReadAtKeeps DEF OnChain
  <2>8. PICK prev \in AllTypes, no, in \in BOOLEAN : prev = prevBtf(acc) /\ no = FALSE /\ in = IsArray(acc.t)
    BY PrevTyped, Zenon DEF OnChain, IsArray
  <2>9. no \in BOOLEAN /\ TypedAccess(b)
    BY <2>7, <2>8 DEF Keeps
  <2>10. Keeps(AddOffset(b, n, acc.t.to, prev, no, in), b)
    BY <2>3, <2>5, <2>9, AddOffsetKeeps
  <2>11. Keeps(AddOffset(b, n, acc.t.to, prev, no, in), acc)
    BY <2>7, <2>10, KeepsTwice
  <2> QED BY <2>1, <2>6, <2>8, <2>11, Zenon DEF n
<1> QED BY <1>1, <1>2

\* So does "*".
LEMMA AccessIndirKeeps ==
  ASSUME OnChain, AccessIndir
  PROVE  Stops \/ \E a : Keeps(a, acc) /\ Chain(a)
<1>1. CASE Stops
  BY <1>1
<1>2. CASE ~Stops
  <2>1. /\ IsPtr(acc.t)
        /\ Chain(AddOffset(ReadAt(acc, 0, acc.t.to), 0, acc.t.to, acc.t, FALSE, FALSE))
    BY <1>2 DEF AccessIndir, Stops
  <2>2. acc.t \in AllTypes /\ acc.t.to \in Types /\ acc.t.to \in AllTypes
    BY <2>1, TypeFacts DEF OnChain, TypedAccess, Pointing
  <2>3. IsMem(C.mem) /\ 0 \in Int /\ FALSE \in BOOLEAN
    BY TheConfiguration DEF OnChain
  <2>4. PICK b : b = ReadAt(acc, 0, acc.t.to)
    OBVIOUS
  <2>5. Keeps(b, acc)
    BY <2>2, <2>3, <2>4, ReadAtKeeps DEF OnChain
  <2>6. PICK c : c = AddOffset(b, 0, acc.t.to, acc.t, FALSE, FALSE)
    OBVIOUS
  <2>7. Keeps(c, b)
    BY <2>2, <2>3, <2>5, <2>6, AddOffsetKeeps DEF Keeps
  <2>8. Keeps(c, acc)
    BY <2>5, <2>7, KeepsTwice
  <2> QED BY <2>1, <2>4, <2>6, <2>8
<1> QED BY <1>1, <1>2

\* A chain whose last offset is changed.
LEMMA LastChanged ==
  ASSUME NEW a, TypedAccess(a), NEW o, a.offsets # <<>> => o \in Offsets
  PROVE  [a.offsets EXCEPT ![LastOffset(a)] = o] \in Seq(Offsets)
<1>1. a.offsets \in Seq(Offsets)
  BY DEF TypedAccess, IsChain
<1>2. LastOffset(a) \in DOMAIN a.offsets => a.offsets # <<>>
  BY <1>1 DEF LastOffset
<1> QED BY <1>1, <1>2, OffsetChanged

\* The last offset has a type.
LEMMA LastTyped ==
  ASSUME NEW a, TypedAccess(a), a.offsets # <<>>
  PROVE  a.offsets[LastOffset(a)] \in Offsets
<1>1. a.offsets \in Seq(Offsets)
  BY DEF TypedAccess, IsChain
<1> QED BY <1>1 DEF LastOffset

\* So does "&".
LEMMA AccessAddrKeeps ==
  ASSUME OnChain, AccessAddr
  PROVE  \E a : Keeps(a, acc) /\ Chain(a)
<1> DEFINE n == LastOffset(acc)
<1>1. PICK b : b = [acc EXCEPT !.lv = FALSE, !.t = Ptr(@), !.steps = @ + 1, !.ends = TRUE,
                       !.offsets[LastOffset(acc)].address = TRUE,
                       !.offsets[LastOffset(acc)].t = Ptr(acc.t)]
  OBVIOUS
<1>2. Chain(b) /\ acc.lv /\ TypedAccess(acc)
  BY <1>1, Zenon DEF AccessAddr, OnChain
<1>3. acc.t \in Types
  BY <1>2 DEF TypedAccess
<1>4. PICK t \in AllTypes : t = Ptr(acc.t)
  BY <1>3, TypeFacts
<1>5. PICK s : s = [acc.offsets EXCEPT ![n].address = TRUE, ![n].t = t]
  OBVIOUS
<1>6. PICK o : o = [acc.offsets[n] EXCEPT !.address = TRUE, !.t = t]
  OBVIOUS
<1>7. s = [acc.offsets EXCEPT ![n] = o]
  BY <1>5, <1>6, <1>2 DEF TypedAccess, IsChain
<1>8. acc.offsets # <<>> => o \in Offsets
  BY <1>2, <1>6, LastTyped DEF Offsets
<1>9. s \in Seq(Offsets)
  BY <1>2, <1>7, <1>8, LastChanged
<1>10. PICK steps : steps = acc.steps + 1
  OBVIOUS
<1>11. b = SetAnew(acc, t, acc.bits, acc.bit, s, FALSE, acc.w, acc.odd, acc.null, steps, TRUE)
  BY <1>1, <1>2, <1>4, <1>5, <1>10 DEF TypedAccess, SetAnew
<1>12. Keeps(b, acc)
  BY <1>2, <1>9, <1>11, SameKeeps DEF TypedAccess
<1> QED BY <1>2, <1>12

\* So does a cast.
LEMMA AccessCastKeeps ==
  ASSUME OnChain, NEW t \in C.casts, AccessCast(t)
  PROVE  \E a : Keeps(a, acc) /\ Chain(a)
<1> DEFINE w0 == InCAccess(acc)
           wider == ~IsArray(acc.t) /\ t.size > acc.t.size
<1>0. IsMem(C.mem) /\ t \in Types /\ t \in AllTypes /\ TypedAccess(acc)
  BY TheConfiguration, TypeFacts DEF OnChain
<1>1. PICK w \in Refs : w = IF w0 = Undef THEN Undef ELSE IF t.size = 1 THEN w0 % Low ELSE w0
  <2>1. w0 \in Refs
    BY <1>0, LoadTyped
  <2>2. w0 # Undef => w0 % Low \in Words
    BY <2>1, RefFacts, InWords, WordFacts
  <2> QED BY <2>1, <2>2 DEF Refs
<1>2. PICK odd, steps : /\ odd = (acc.odd \cup (IF acc.bits # 0 \/ wider THEN {"cast"} ELSE {}))
                        /\ steps = acc.steps + 1
  OBVIOUS
<1>3. PICK b : b = [acc EXCEPT !.w = w, !.lv = FALSE, !.t = t, !.bits = 0, !.steps = steps, !.ends = FALSE,
                               !.odd = odd]
  OBVIOUS
<1>4. PICK c : c = IF acc.offsets = <<>> THEN b ELSE [b EXCEPT !.offsets[LastOffset(acc)].t = t]
  OBVIOUS
<1>5. Chain(c)
  BY <1>1, <1>2, <1>3, <1>4 DEF AccessCast, TypedAccess
<1>6. b = SetAnew(acc, t, 0, acc.bit, acc.offsets, FALSE, w, odd, acc.null, steps, FALSE)
  BY <1>0, <1>3 DEF TypedAccess, SetAnew
<1>7. Keeps(b, acc)
  BY <1>0, <1>6, SameKeeps DEF TypedAccess, IsChain
<1>8. CASE acc.offsets = <<>>
  BY <1>4, <1>5, <1>7, <1>8
<1>9. CASE acc.offsets # <<>>
  <2>1. b.offsets = acc.offsets
    BY <1>6 DEF SetAnew
  <2>2. PICK n, o : n = LastOffset(acc) /\ o = [acc.offsets[n] EXCEPT !.t = t]
    OBVIOUS
  <2>3. o \in Offsets
    BY <1>0, <1>9, <2>2, LastTyped DEF Offsets
  <2>4. PICK s : s = [acc.offsets EXCEPT ![n] = o]
    OBVIOUS
  <2>5. s \in Seq(Offsets)
    BY <1>0, <2>2, <2>3, <2>4, LastChanged
  <2>6. s = [acc.offsets EXCEPT ![n].t = t]
    BY <1>0, <2>2, <2>4 DEF TypedAccess, IsChain
  <2>7. c = [b EXCEPT !.offsets = s]
    BY <1>4, <1>7, <1>9, <2>1, <2>2, <2>6 DEF Keeps, TypedAccess
  <2>8. c = SetAnew(b, b.t, b.bits, b.bit, s, b.lv, b.w, b.odd, b.null, b.steps, b.ends)
    BY <1>7, <2>7 DEF Keeps, TypedAccess, SetAnew
  <2>9. Keeps(c, b)
    BY <1>7, <2>5, <2>8, SameKeeps DEF Keeps, TypedAccess
  <2>10. Keeps(c, acc)
    BY <1>7, <2>9, KeepsTwice
  <2> QED BY <1>5, <2>10
<1> QED BY <1>8, <1>9

\* So do "+" and "-".
LEMMA AccessAddKeeps ==
  ASSUME OnChain, NEW n \in C.deltas, AccessAdd(n)
  PROVE  Stops \/ \E a : Keeps(a, acc) /\ Chain(a)
<1>0. IsMem(C.mem) /\ n \in Int /\ TypedAccess(acc) /\ acc.t \in AllTypes
  BY TheConfiguration DEF OnChain, TypedAccess
<1>1. CASE Stops
  BY <1>1
<1>2. CASE ~Stops /\ n = 0
  <2>0. PICK steps : steps = acc.steps + 1
    OBVIOUS
  <2>1. PICK w \in Refs : w = InCAccess(acc)
    BY <1>0, LoadTyped
  <2>2. PICK b : b = [acc EXCEPT !.w = w, !.lv = FALSE, !.steps = steps, !.ends = FALSE]
    OBVIOUS
  <2>3. Chain(b)
    <3>1. Chain([acc EXCEPT !.w = InCAccess(acc), !.lv = FALSE, !.steps = @ + 1, !.ends = FALSE])
      BY <1>2, Zenon DEF AccessAdd, Stops
    <3>2. b = [acc EXCEPT !.w = InCAccess(acc), !.lv = FALSE, !.steps = @ + 1, !.ends = FALSE]
      BY <1>0, <2>0, <2>1, <2>2 DEF TypedAccess
    <3> QED BY <3>1, <3>2
  <2>4. b = SetAnew(acc, acc.t, acc.bits, acc.bit, acc.offsets, FALSE, w, acc.odd, acc.null, steps, FALSE)
    BY <1>0, <2>2 DEF TypedAccess, SetAnew
  <2>5. Keeps(b, acc)
    BY <1>0, <2>4, SameKeeps DEF TypedAccess, IsChain
  <2> QED BY <2>3, <2>5
<1>3. CASE ~Stops /\ n # 0
  <2> DEFINE d0 == n * Factor(SizeTo(acc.t))
             t0 == IF IsArray(acc.t) THEN Ptr(acc.t.to) ELSE acc.t
  <2>1. Chain(AddOffset(Moved(acc, d0, t0, FALSE), d0, t0, prevBtf(acc), TRUE, FALSE))
    BY <1>3, Zenon DEF AccessAdd, Stops
  <2>2. Factor(SizeTo(acc.t)) \in Nat
    BY <1>0, TypeFacts
  <2>3. PICK d \in Int : d = d0
    BY <1>0, <2>2
  <2>4. IsArray(acc.t) => acc.t.to \in Types
    BY <1>0, TypeFacts DEF Pointing
  <2>5. PICK t \in AllTypes : t = t0
    BY <1>0, <2>4, TypeFacts
  <2>6. PICK prev \in AllTypes, yes, no \in BOOLEAN : prev = prevBtf(acc) /\ yes = TRUE /\ no = FALSE
    BY <1>0, PrevTyped
  <2>7. PICK b : b = Moved(acc, d, t, no)
    OBVIOUS
  <2>8. Keeps(b, acc)
    BY <1>0, <2>6, <2>7, MovedKeeps
  <2>9. TypedAccess(b)
    BY <2>8 DEF Keeps
  <2>10. Keeps(AddOffset(b, d, t, prev, yes, no), b)
    BY <2>9, AddOffsetKeeps
  <2>11. Keeps(AddOffset(b, d, t, prev, yes, no), acc)
    BY <2>8, <2>10, KeepsTwice
  <2>12. Chain(AddOffset(b, d, t, prev, yes, no))
    BY <2>1, <2>3, <2>5, <2>6, <2>7, Zenon
  <2> QED BY <2>11, <2>12
<1> QED BY <1>1, <1>2, <1>3

\* A member of a struct that is pointed to, and of one that is an object.
LEMMA ArrowKeeps ==
  ASSUME OnChain, NEW f, f.t \in Types, f.off \in Nat, f.bits \in Nat, f.bit \in Nat
  PROVE  LET to == AddOffset(Moved(acc, f.off, f.t, TRUE), f.off, f.t, acc.t, IsArray(f.t), FALSE)
         IN  Keeps([to EXCEPT !.bits = f.bits, !.bit = f.bit], acc)
<1>0. IsMem(C.mem) /\ TypedAccess(acc) /\ acc.t \in AllTypes /\ f.t \in AllTypes /\ f.off \in Int
  BY TheConfiguration, TypeFacts DEF OnChain, TypedAccess
<1>1. PICK address, yes, no \in BOOLEAN : address = IsArray(f.t) /\ yes = TRUE /\ no = FALSE
  BY Zenon DEF IsArray
<1>2. PICK b : b = Moved(acc, f.off, f.t, yes)
  OBVIOUS
<1>3. Keeps(b, acc)
  BY <1>0, <1>2, MovedKeeps
<1>4. PICK c : c = AddOffset(b, f.off, f.t, acc.t, address, no)
  OBVIOUS
<1>5. Keeps(c, b)
  <2>1. PICK off \in Int, t, prev \in AllTypes : off = f.off /\ t = f.t /\ prev = acc.t
    BY <1>0
  <2>2. TypedAccess(b)
    BY <1>3 DEF Keeps
  <2>3. Keeps(AddOffset(b, off, t, prev, address, no), b)
    BY <2>2, AddOffsetKeeps
  <2> QED BY <1>4, <2>1, <2>3
<1>6. PICK d : d = [c EXCEPT !.bits = f.bits, !.bit = f.bit]
  OBVIOUS
<1>7. d = SetAnew(c, c.t, f.bits, f.bit, c.offsets, c.lv, c.w, c.odd, c.null, c.steps, c.ends)
  BY <1>5, <1>6 DEF Keeps, TypedAccess, SetAnew
<1>8. Keeps(d, c)
  <2>1. TypedAccess(c)
    BY <1>5 DEF Keeps
  <2>2. /\ c.t \in AllTypes /\ c.offsets \in Seq(Offsets) /\ (c.lv => c.t \in Types) /\ c.w \in Refs
    BY <2>1 DEF TypedAccess, IsChain
  <2>3. PICK bits, bit \in Nat : bits = f.bits /\ bit = f.bit
    OBVIOUS
  <2>4. Keeps(SetAnew(c, c.t, bits, bit, c.offsets, c.lv, c.w, c.odd, c.null, c.steps, c.ends), c)
    BY <2>1, <2>2, SameKeeps
  <2> QED BY <1>7, <2>3, <2>4
<1>9. Keeps(d, acc)
  BY <1>3, <1>5, <1>8, KeepsTwice
<1> QED BY <1>1, <1>2, <1>4, <1>6, <1>9, Zenon

\* So does ".", which changes the last offset.
LEMMA DotKeeps ==
  ASSUME OnChain, acc.offsets # <<>>, NEW f, f.t \in Types, f.off \in Nat, f.bits \in Nat, f.bit \in Nat
  PROVE  LET n == LastOffset(acc)
             to == [acc EXCEPT !.w = IF @ = Undef THEN @ ELSE (@ + f.off) % Word, !.t = f.t,
                               !.steps = @ + 1, !.ends = TRUE, !.offsets[n].offset = @ + f.off,
                               !.offsets[n].t = f.t,
                               !.offsets[n].address = @ \/ IsArray(f.t)]
         IN  Keeps([to EXCEPT !.bits = f.bits, !.bit = f.bit], acc)
<1>0. TypedAccess(acc) /\ f.t \in AllTypes /\ f.off \in Int
  BY TypeFacts DEF OnChain
<1>1. PICK n : n = LastOffset(acc)
  OBVIOUS
<1>17. PICK steps : steps = acc.steps + 1
  OBVIOUS
<1>2. PICK w \in Refs : w = IF acc.w = Undef THEN acc.w ELSE (acc.w + f.off) % Word
  <2>1. acc.w \in Refs
    BY <1>0 DEF TypedAccess
  <2>2. acc.w # Undef => (acc.w + f.off) % Word \in Words
    <3> SUFFICES ASSUME acc.w # Undef PROVE (acc.w + f.off) % Word \in Words
      OBVIOUS
    <3>1. acc.w \in Words
      BY <2>1, RefFacts
    <3>2. acc.w + f.off \in Int
      BY <1>0, <3>1, InWords
    <3> QED BY <3>2, InWords
  <2> QED BY <2>1, <2>2 DEF Refs
<1>3. PICK x \in Offsets : x = acc.offsets[n]
  BY <1>0, <1>1, LastTyped
<1>4. PICK address \in BOOLEAN : address = (x.address \/ IsArray(f.t))
  BY Zenon
<1>5. PICK off \in Int : off = x.offset + f.off
  BY <1>0, <1>3 DEF Offsets
<1>6. PICK o : o = [x EXCEPT !.offset = off, !.t = f.t, !.address = address]
  OBVIOUS
<1>7. o \in Offsets
  BY <1>0, <1>6 DEF Offsets
<1>8. PICK s : s = [acc.offsets EXCEPT ![n] = o]
  OBVIOUS
<1>9. s \in Seq(Offsets)
  BY <1>0, <1>1, <1>7, <1>8, LastChanged
<1>10. acc.offsets \in Seq(Offsets) /\ n \in DOMAIN acc.offsets
  BY <1>0, <1>1 DEF TypedAccess, IsChain, LastOffset
<1>11. PICK to : to = [acc EXCEPT !.w = IF @ = Undef THEN @ ELSE (@ + f.off) % Word, !.t = f.t,
                               !.steps = @ + 1, !.ends = TRUE, !.offsets[n].offset = @ + f.off,
                               !.offsets[n].t = f.t,
                               !.offsets[n].address = @ \/ IsArray(f.t)]
  OBVIOUS
<1>12. to.offsets = s
  BY <1>0, <1>3, <1>4, <1>5, <1>6, <1>8, <1>10, <1>11 DEF TypedAccess, Offsets
<1>13. to = SetAnew(acc, f.t, acc.bits, acc.bit, s, acc.lv, w, acc.odd, acc.null, steps, TRUE)
  BY <1>0, <1>2, <1>11, <1>12, <1>17 DEF TypedAccess, SetAnew
<1>14. PICK d : d = [to EXCEPT !.bits = f.bits, !.bit = f.bit]
  OBVIOUS
<1>15. d = SetAnew(acc, f.t, f.bits, f.bit, s, acc.lv, w, acc.odd, acc.null, steps, TRUE)
  BY <1>13, <1>14 DEF SetAnew
<1>16. Keeps(d, acc)
  BY <1>0, <1>9, <1>15, SameKeeps
<1> QED BY <1>1, <1>11, <1>14, <1>16, Zenon

\* So does a member of either kind.
LEMMA AccessMemberKeeps ==
  ASSUME OnChain, NEW name, AccessMember(name)
  PROVE  Stops \/ \E a : Keeps(a, acc) /\ Chain(a)
<1> DEFINE arrow == IsPtr(acc.t)
           t == IF arrow THEN acc.t.to ELSE acc.t
           f == Members[t.to][name]
           n == LastOffset(acc)
           to == IF arrow
                 THEN AddOffset(Moved(acc, f.off, f.t, TRUE), f.off, f.t, acc.t, IsArray(f.t), FALSE)
                 ELSE [acc EXCEPT !.w = IF @ = Undef THEN @ ELSE (@ + f.off) % Word, !.t = f.t,
                                  !.steps = @ + 1, !.ends = TRUE, !.offsets[n].offset = @ + f.off,
                                  !.offsets[n].t = f.t,
                                  !.offsets[n].address = @ \/ IsArray(f.t)]
<1>1. CASE Stops
  BY <1>1
<1>2. CASE ~Stops
  <2>1. /\ t.kind = "struct" /\ name \in DOMAIN Members[t.to]
        /\ ~arrow => acc.offsets # <<>>
        /\ Chain([to EXCEPT !.bits = f.bits, !.bit = f.bit])
    BY <1>2, Zenon DEF AccessMember, Stops
  <2>2. acc.t \in AllTypes
    BY DEF OnChain, TypedAccess
  <2>3. t \in Types
    BY <2>1, <2>2, TypeFacts DEF Pointing
  <2>4. t.to \in DOMAIN Members
    BY <2>1, <2>3, TypeFacts
  <2>5. f.t \in Types /\ f.off \in Nat /\ f.bits \in Nat /\ f.bit \in Nat
    BY <2>1, <2>4, TheMembers
  <2>6. PICK g : g = f
    OBVIOUS
  <2>7. CASE arrow
    <3>1. Keeps([to EXCEPT !.bits = f.bits, !.bit = f.bit], acc)
      BY <2>5, <2>7, ArrowKeeps
    <3> QED BY <2>1, <3>1
  <2>8. CASE ~arrow
    <3>1. Keeps([to EXCEPT !.bits = f.bits, !.bit = f.bit], acc)
      BY <2>1, <2>5, <2>8, DotKeeps
    <3> QED BY <2>1, <3>1
  <2> QED BY <2>7, <2>8
<1> QED BY <1>1, <1>2

-----------------------------------------------------------------------------
(* Where a chain begins.                                                   *)

\* A chain that begins.
LEMMA AccessTyped ==
  ASSUME NEW base \in {"var", "number", "computed"}, NEW v, NEW t \in AllTypes, NEW w \in Refs,
         NEW odd, NEW null, NEW late,
         base = "var" => v \in DOMAIN C.types, base = "number" => v \in Words,
         base = "computed" => v \in Allocatable
  PROVE  LET a == Access(base, v, t, w, odd, null, late)
         IN  TypedAccess(a) /\ a.base = base /\ a.v = v /\ a.late = late
<1>1. PICK a : a = Access(base, v, t, w, odd, null, late)
  OBVIOUS
<1>2. a = [base |-> base, v |-> v, t |-> t, bits |-> 0, bit |-> 0, offsets |-> <<>>, lv |-> FALSE,
           w |-> w, odd |-> odd, null |-> null, late |-> late, steps |-> 0, ends |-> FALSE]
  BY <1>1 DEF Access
<1>3. TypedAccess(a)
  BY <1>2 DEF TypedAccess, IsChain
<1>4. a.base = base /\ a.v = v /\ a.late = late
  BY <1>2
<1> QED BY <1>1, <1>3, <1>4

-----------------------------------------------------------------------------
(* The invariant.                                                          *)

\* What the compiler's state may be.
CompInv ==
  /\ conf \in DOMAIN Confs
  /\ phase \in {"compile", "done", "failed", "crashed"}
  /\ \A i \in 1..Len(stack) : Typed(stack[i])
  /\ acc # NoAccess => TypedAccess(acc)
  /\ used \subseteq Registers
  /\ m \in Machines /\ m.skip = 0
  /\ last \in Good(C.mem) /\ Lands(last, 0)
  /\ labelUsed \in BOOLEAN /\ spilled \in BOOLEAN

\* On machine x the register of e holds a word, unless the program may have left
\* before it was written, and has.
Readable(e, x) == IsReg(e) /\ (x.exit => ~e.late) => x.regs[e.v] # Junk

\* The program leaves by a label that was used, and the last instruction of a
\* filter closes it.  As long as no call was compiled with a register that it
\* loses in use, each value can be read.
HeldInv ==
  phase # "done" =>
    /\ m.exit => labelUsed
    /\ top \in FilterOps /\ Len(stack) > 0 /\ IsReg(stack[Len(stack)]) =>
         Closes(top, last, stack[Len(stack)].v)
    /\ ~spilled =>
         /\ ~m.bad /\ m.regs[ArgsReg] # Junk
         /\ \A i \in 1..Len(stack) : Readable(stack[i], m)
         /\ acc # NoAccess /\ acc.base = "computed" /\ (m.exit => ~acc.late) => m.regs[acc.v] # Junk

-----------------------------------------------------------------------------
(* What compiling a node does.                                             *)

JumpsToExit(code) == \E k \in DOMAIN code : code[k].op = "jeq" /\ code[k].off = ToExit

\* The value e takes the place of n operands, and code runs.
Emits(n, e, op, code) ==
  /\ conf' = conf /\ phase' = phase /\ acc' = NoAccess
  /\ stack' = Append(Below(n), e)
  /\ used' \subseteq Registers
  /\ m' = Run(m, code, C.mem)
  /\ last' = IF code = <<>> THEN last ELSE Last(code)
  /\ top' = op
  /\ labelUsed' \in BOOLEAN /\ spilled' \in BOOLEAN
  /\ (spilled => spilled') /\ (labelUsed => labelUsed')
  /\ JumpsToExit(code) => labelUsed'

\* The code reads nothing that is not written, leaves the registers in use what
\* they are, and the value where it is read from.
Ran(e, code) ==
  LET x == Steps(m, code, C.mem)
  IN  /\ ~x.bad
      /\ \A r \in used : m.regs[r] # Junk => x.regs[r] # Junk
      /\ Readable(e, x)

Sound(e, op, code) ==
  /\ Typed(e) /\ code \in Block(C.mem)
  /\ op \in FilterOps /\ IsReg(e) => code # <<>> /\ Closes(op, Last(code), e.v)
  /\ ~spilled' => Ran(e, code)

\* The machine after a node's code.
LEMMA RunIs ==
  ASSUME CompInv, NEW code \in Block(C.mem)
  PROVE  LET x == Steps(m, code, C.mem)
             y == Run(m, code, C.mem)
         IN  /\ y \in Machines /\ y.skip = 0 /\ y.regs = x.regs
             /\ (y.exit <=> x.exit) /\ (y.bad <=> x.bad)
             /\ x.exit => m.exit \/ JumpsToExit(code)
             /\ m.exit \/ m.bad => x = m
<1>1. IsMem(C.mem) /\ m \in Machines /\ m.skip = 0
  BY TheConfiguration DEF CompInv
<1>2. PICK x : x = Steps(m, code, C.mem)
  OBVIOUS
<1>3. x \in Machines /\ x.skip = 0 /\ (x.exit => m.exit \/ JumpsToExit(code))
  BY <1>1, <1>2, BlockRun DEF JumpsToExit
<1>4. m.exit \/ m.bad => x = m
  BY <1>1, <1>2, Stopped DEF Block
<1>5. PICK y : y = Run(m, code, C.mem)
  OBVIOUS
<1>6. y = [x EXCEPT !.stack = [s \in Slots |-> Junk]]
  BY <1>2, <1>5 DEF Run
<1>7. y \in Machines /\ y.skip = 0 /\ y.regs = x.regs /\ y.exit = x.exit /\ y.bad = x.bad
  BY <1>3, <1>6 DEF Machines
<1>8. (y.exit <=> x.exit) /\ (y.bad <=> x.bad)
  BY <1>7, Zenon
<1> QED BY <1>2, <1>3, <1>4, <1>5, <1>7, <1>8, Zenon

\* The last instruction of code may be run once more at the exit label.
LEMMA LastGood ==
  ASSUME NEW mem, NEW code \in Block(mem), code # <<>>
  PROVE  Last(code) \in Good(mem) /\ Lands(Last(code), 0)
<1>1. PICK n \in Nat \ {0} : n = Len(code) /\ code \in Seq(Good(mem)) /\ \A k \in 1..n : Lands(code[k], n - k)
  BY DEF Block
<1>2. n \in 1..n /\ n - n = 0 /\ Last(code) = code[n] /\ code[n] \in Good(mem)
  BY <1>1 DEF Last
<1>3. Lands(code[n], n - n)
  BY <1>1, <1>2
<1> QED BY <1>2, <1>3

\* The stack after a node.
LEMMA StackAfter ==
  ASSUME RegInv, NEW n \in Nat, n <= Len(stack), NEW e, stack' = Append(Below(n), e)
  PROVE  /\ Len(stack') = Len(stack) - n + 1 /\ Len(stack') \in Nat
         /\ stack'[Len(stack')] = e
         /\ \A i \in 1..Len(stack') : i # Len(stack') => i \in 1..Len(stack) /\ stack'[i] = stack[i]
<1>0. Len(stack) \in Nat
  BY DEF RegInv
<1>1. PICK k \in Nat : k = Len(stack) - n
  BY <1>0
<1>2. /\ Below(n) \in Seq(Values) /\ Len(Below(n)) = k
      /\ \A i \in 1..k : Below(n)[i] = stack[i]
  BY <1>1, Operands
<1>3. PICK b : b = Below(n)
  OBVIOUS
<1>4. b \in Seq(Values \cup {e}) /\ Len(b) = k
  BY <1>2, <1>3
<1>5. Len(stack') = k + 1 /\ stack'[k + 1] = e /\ \A i \in 1..k : stack'[i] = b[i]
  BY <1>3, <1>4
<1>6. \A i \in 1..(k + 1) : i # k + 1 => i \in 1..k
  OBVIOUS
<1>7. \A i \in 1..k : i \in 1..Len(stack) /\ b[i] = stack[i]
  BY <1>0, <1>1, <1>2, <1>3
<1>8. \A i \in 1..(k + 1) : i # k + 1 => i \in 1..Len(stack) /\ stack'[i] = stack[i]
  BY <1>5, <1>6, <1>7
<1>9. Len(stack') = Len(stack) - n + 1 /\ Len(stack') \in Nat
  BY <1>1, <1>5
<1> QED BY <1>5, <1>8, <1>9

\* A node leaves values, and a machine that skips nothing.
LEMMA NodeTyped ==
  ASSUME RegInv, CompInv, NEW n \in Nat, n <= Len(stack), NEW e, NEW op, NEW code,
         Emits(n, e, op, code), Typed(e), code \in Block(C.mem)
  PROVE  CompInv'
<1>1. C' = C
  BY DEF C, Emits
<1>2. m' \in Machines /\ m'.skip = 0
  BY RunIs DEF Emits
<1>3. last' \in Good(C.mem) /\ Lands(last', 0)
  <2>1. CASE code = <<>>
    BY <2>1 DEF Emits, CompInv
  <2>2. CASE code # <<>>
    BY <2>2, LastGood DEF Emits
  <2> QED BY <2>1, <2>2
<1>4. \A i \in 1..Len(stack') : Typed(stack'[i])
  <2>1. stack' = Append(Below(n), e)
    BY DEF Emits
  <2>2. \A i \in 1..Len(stack) : Typed(stack[i])
    BY DEF CompInv
  <2> QED BY <2>1, <2>2, StackAfter
<1>5. (\A i \in 1..Len(stack) : Typed(stack[i]))'
  BY <1>4 DEF Typed, IsValue, IsReg, AllTypes, Refs
<1>6. last' \in Good(C'.mem)
  BY <1>1, <1>3
<1> QED BY <1>2, <1>3, <1>5, <1>6 DEF CompInv, Emits

\* A node whose code is sound leaves every value where it is read from.
LEMMA NodeHeld ==
  ASSUME RegInv, CompInv, HeldInv, phase = "compile", NEW n \in Nat, n <= Len(stack), NEW e, NEW op, NEW code,
         Emits(n, e, op, code), Sound(e, op, code)
  PROVE  HeldInv'
<1>1. PICK x : x = Steps(m, code, C.mem)
  OBVIOUS
<1>2. /\ m'.regs = x.regs /\ (m'.exit <=> x.exit) /\ (m'.bad <=> x.bad)
      /\ x.exit => m.exit \/ JumpsToExit(code)
      /\ m.exit => x.exit
  BY <1>1, RunIs DEF Sound, Emits
<1>3. m'.exit => labelUsed'
  BY <1>2 DEF Emits, HeldInv
<1>4. top' \in FilterOps /\ Len(stack') > 0 /\ IsReg(stack'[Len(stack')]) =>
         Closes(top', last', stack'[Len(stack')].v)
  <2>1. stack'[Len(stack')] = e
    BY StackAfter DEF Emits
  <2> QED BY <2>1 DEF Sound, Emits
<1>5. acc' = NoAccess
  BY DEF Emits
<1>6. ASSUME ~spilled'
      PROVE  ~m'.bad /\ m'.regs[ArgsReg] # Junk /\ \A i \in 1..Len(stack') : Readable(stack[i], m)'
  <2>1. ~spilled /\ ~m.bad /\ m.regs[ArgsReg] # Junk /\ \A i \in 1..Len(stack) : Readable(stack[i], m)
    BY <1>6 DEF Emits, HeldInv
  <2>2. /\ ~x.bad /\ Readable(e, x)
        /\ \A r \in used : m.regs[r] # Junk => x.regs[r] # Junk
    BY <1>1, <1>6 DEF Sound, Ran
  <2>3. m'.regs[ArgsReg] # Junk
    <3>1. ArgsReg \in used
      BY DEF RegInv, Reserved
    <3> QED BY <1>2, <2>1, <2>2, <3>1
  <2>4. \A i \in 1..Len(stack') : Readable(stack'[i], m')
    <3> SUFFICES ASSUME NEW i \in 1..Len(stack') PROVE Readable(stack'[i], m')
      OBVIOUS
    <3>0. stack' = Append(Below(n), e)
      BY DEF Emits
    <3>1. CASE i = Len(stack')
      <4>1. stack'[i] = e
        BY <3>0, <3>1, StackAfter
      <4> QED BY <1>2, <2>2, <4>1 DEF Readable
    <3>2. CASE i # Len(stack')
      <4>1. i \in 1..Len(stack) /\ stack'[i] = stack[i]
        BY <3>0, <3>2, StackAfter
      <4>2. PICK y : y = stack[i]
        OBVIOUS
      <4>3. Readable(y, m) /\ (IsReg(y) => y.v \in used)
        BY <2>1, <4>1, <4>2 DEF RegInv, Fresh
      <4>4. Readable(y, m')
        BY <1>2, <2>2, <4>3 DEF Readable
      <4> QED BY <4>1, <4>2, <4>4
    <3> QED BY <3>1, <3>2
  <2>5. \A i \in 1..Len(stack') : Readable(stack[i], m)'
    BY <2>4 DEF Readable, IsReg
  <2> QED BY <1>2, <2>2, <2>3, <2>5
<1> QED BY <1>3, <1>4, <1>5, <1>6 DEF HeldInv, Closes, IsReg, AluReg, AluImm, Insn, FilterOps

\* The registers that hold words.
WrittenRegs == {r \in Registers : m.regs[r] # Junk}

\* Code that needs only registers that hold words.
LEMMA FineRan ==
  ASSUME CompInv, ~m.bad, ~m.exit, NEW e, NEW code, NEW K \in SUBSET WrittenRegs,
         NEW E \in SUBSET Registers,
         \A r \in used : m.regs[r] # Junk => r \in K,
         Fine(C.mem, K, {}, code, E),
         IsReg(e) => e.v \in K \/ (e.v \in E /\ (JumpsToExit(code) => e.late))
  PROVE  Ran(e, code)
<1>0. m \in Machines /\ m.skip = 0 /\ IsMem(C.mem) /\ code \in Block(C.mem)
  BY TheConfiguration DEF CompInv, Fine
<1>1. PICK x : x = Steps(m, code, C.mem)
  OBVIOUS
<1>2. \A p \in K : m.regs[p] # Junk
  BY DEF WrittenRegs
<1>3. Has(m, K, {})
  BY <1>0, <1>2 DEF Has
<1>4. Has(x, K, E)
  BY <1>0, <1>1, <1>3 DEF Fine
<1>5. x.exit => JumpsToExit(code)
  BY <1>1, <1>0, RunIs
<1>6. \A p \in E : p # Buf
  BY DEF Registers, Buf
<1>7. ~x.bad /\ (\A p \in K : x.regs[p] # Junk) /\ (~x.exit => \A p \in E : x.regs[p] # Junk)
  BY <1>4, <1>6 DEF Has, Full
<1>8. Readable(e, x)
  BY <1>5, <1>7 DEF Readable
<1>9. \A r \in used : m.regs[r] # Junk => x.regs[r] # Junk
  BY <1>7
<1> QED BY <1>1, <1>7, <1>8, <1>9 DEF Ran

\* A program that has left stays where it is.
LEMMA LeftRan ==
  ASSUME CompInv, ~m.bad, m.exit, NEW e, NEW code \in Block(C.mem), Readable(e, m)
  PROVE  Ran(e, code)
<1>1. Steps(m, code, C.mem) = m
  BY RunIs
<1> QED BY <1>1 DEF Ran

\* The code of operators has no jump to the exit label.
LEMMA WorkIn ==
  ASSUME NEW mem, NEW R, NEW code \in Work(mem, R)
  PROVE  code \in Block(mem) /\ ~JumpsToExit(code)
<1>1. code \in Block(mem) /\ \A k \in 1..Len(code) : code[k] \in Plain(mem, R)
  BY DEF Work
<1>2. DOMAIN code = 1..Len(code)
  BY <1>1 DEF Block
<1>3. \A k \in DOMAIN code : code[k].op = "jeq" => code[k].off # ToExit
  BY <1>1, <1>2 DEF Plain
<1> QED BY <1>1, <1>3 DEF JumpsToExit

\* A node that emits code of its own kind.
LEMMA NodeStep ==
  ASSUME RegInv, CompInv, HeldInv, phase = "compile", acc = NoAccess, NEW n \in Nat, n <= Len(stack),
         NEW e, NEW op, NEW code, NEW regs \in SUBSET Registers,
         Emit(op, Append(Below(n), e), regs, code),
         Typed(e), code \in Block(C.mem), ~JumpsToExit(code),
         op \in FilterOps /\ IsReg(e) => code # <<>> /\ Closes(op, Last(code), e.v),
         ~spilled => Ran(e, code)
  PROVE  CompInv' /\ HeldInv'
<1>1. Emits(n, e, op, code)
  BY DEF Emit, Emits, CompInv
<1>2. Sound(e, op, code)
  BY DEF Sound, Emit
<1> QED BY <1>1, <1>2, NodeTyped, NodeHeld

\* Where a register of an operand comes from.
OfStack(r) == \E i \in 1..Len(stack) : IsReg(stack[i]) /\ stack[i].v = r

\* A value that awaits its operator is in a register that was written.
LEMMA StackWritten ==
  ASSUME CompInv, HeldInv, phase = "compile", ~spilled, ~m.exit, NEW r, OfStack(r)
  PROVE  r \in WrittenRegs
<1>1. PICK y : IsReg(y) /\ y.v = r /\ Typed(y) /\ Readable(y, m)
  BY DEF OfStack, CompInv, HeldInv
<1>2. r \in Registers
  BY <1>1, TypedOperand
<1> QED BY <1>1, <1>2 DEF Readable, WrittenRegs

\* Such a register is in use.
LEMMA UsedWritten ==
  ASSUME CompInv
  PROVE  \A r \in used : m.regs[r] # Junk => r \in WrittenRegs
BY DEF CompInv, WrittenRegs

\* An operator's code, over the registers of its operands, one of which is that
\* of its result.
LEMMA WorkRan ==
  ASSUME CompInv, HeldInv, phase = "compile", ~spilled, NEW R \in SUBSET Registers, NEW e, NEW code,
         code \in Work(C.mem, R), \A r \in R : OfStack(r),
         IsReg(e) => \E i \in 1..Len(stack) : IsReg(stack[i]) /\ stack[i].v = e.v /\ stack[i].late = e.late
  PROVE  Ran(e, code)
<1>0. ~m.bad /\ (\A i \in 1..Len(stack) : Readable(stack[i], m)) /\ IsMem(C.mem)
  BY TheConfiguration DEF HeldInv, CompInv
<1>1. Readable(e, m)
  <2> SUFFICES ASSUME IsReg(e) PROVE Readable(e, m)
    BY DEF Readable
  <2>1. PICK y : IsReg(y) /\ y.v = e.v /\ y.late = e.late /\ Readable(y, m)
    BY <1>0
  <2> QED BY <2>1 DEF Readable
<1>2. CASE m.exit
  BY <1>0, <1>1, <1>2, LeftRan, WorkIn
<1>3. CASE ~m.exit
  <2>1. R \subseteq WrittenRegs
    BY <1>3, StackWritten
  <2>2. IsReg(e) => e.v \in WrittenRegs
    <3> SUFFICES ASSUME IsReg(e) PROVE e.v \in WrittenRegs
      OBVIOUS
    <3>1. OfStack(e.v)
      BY DEF OfStack
    <3> QED BY <1>3, <3>1, StackWritten
  <2>3. PICK K \in SUBSET Registers : K = WrittenRegs
    BY DEF WrittenRegs
  <2>4. code \in Work(C.mem, K \cup {})
    BY <2>1, <2>3 DEF Work, Plain
  <2>5. Fine(C.mem, K, {}, code, {})
    BY <1>0, <2>4, WorkFine
  <2>6. K \in SUBSET WrittenRegs /\ \A r \in used : m.regs[r] # Junk => r \in K
    BY <2>3, UsedWritten
  <2>7. PICK E \in SUBSET Registers : E = {}
    OBVIOUS
  <2>8. Fine(C.mem, K, {}, code, E)
    BY <2>5, <2>7
  <2>9. IsReg(e) => e.v \in K \/ (e.v \in E /\ (JumpsToExit(code) => e.late))
    BY <2>2, <2>3
  <2> QED BY <1>0, <1>3, <2>6, <2>8, <2>9, FineRan
<1> QED BY <1>2, <1>3

\* A value in a new register.
LEMMA NewRan ==
  ASSUME CompInv, HeldInv, phase = "compile", ~spilled, NEW e, NEW code \in Block(C.mem),
         IsReg(e), e.v \in Registers, e.late <=> labelUsed, ~JumpsToExit(code),
         ~m.exit => Fine(C.mem, WrittenRegs, {}, code, {e.v})
  PROVE  Ran(e, code)
<1>0. ~m.bad /\ (m.exit => labelUsed)
  BY DEF HeldInv
<1>1. CASE m.exit
  <2>1. Readable(e, m)
    BY <1>0, <1>1 DEF Readable
  <2> QED BY <1>0, <1>1, <2>1, LeftRan
<1>2. CASE ~m.exit
  <2>1. PICK K \in SUBSET WrittenRegs : K = WrittenRegs
    OBVIOUS
  <2>2. PICK E \in SUBSET Registers : E = {e.v}
    OBVIOUS
  <2> QED BY <1>0, <1>2, <2>1, <2>2, UsedWritten, FineRan
<1> QED BY <1>1, <1>2

-----------------------------------------------------------------------------
(* The nodes.                                                              *)

\* Before a node.
AtNode == RegInv /\ CompInv /\ HeldInv /\ phase = "compile" /\ acc = NoAccess

\* An error changes nothing else.
LEMMA StopsLeave ==
  ASSUME CompInv, HeldInv, phase = "compile", Stops
  PROVE  CompInv' /\ HeldInv'
<1>1. phase' \in {"failed", "crashed"} /\ UNCHANGED <<conf, stack, acc, used, m, labelUsed, last, top, nodes, spilled>>
  BY DEF Stops, Stop
<1>2. C' = C
  BY <1>1 DEF C
<1>3. HeldInv'
  BY <1>1 DEF HeldInv, Readable, IsReg, Closes, AluReg, AluImm, Insn, FilterOps
<1>4. \A i \in 1..Len(stack') : Typed(stack'[i])
  BY <1>1 DEF CompInv
<1>5. (\A i \in 1..Len(stack) : Typed(stack[i]))'
  BY <1>4 DEF Typed, IsValue, IsReg, AllTypes, Refs
<1>6. (acc # NoAccess => TypedAccess(acc))'
  BY <1>1, <1>2 DEF CompInv, TypedAccess, IsChain, Offsets, AllTypes, Refs, NoAccess
<1>7. CompInv'
  BY <1>1, <1>2, <1>5, <1>6 DEF CompInv
<1> QED BY <1>3, <1>7

\* The code of an operator, or none.
LEMMA WorkNode ==
  ASSUME AtNode, NEW n \in Nat, n <= Len(stack), NEW e, NEW op, NEW code,
         NEW regs \in SUBSET Registers, NEW R \in SUBSET Registers,
         Emit(op, Append(Below(n), e), regs, code), Typed(e), code \in Work(C.mem, R),
         \A r \in R : OfStack(r),
         IsReg(e) => \E i \in 1..Len(stack) : IsReg(stack[i]) /\ stack[i].v = e.v /\ stack[i].late = e.late,
         op \in FilterOps /\ IsReg(e) => code # <<>> /\ Closes(op, Last(code), e.v)
  PROVE  CompInv' /\ HeldInv'
<1>1. code \in Block(C.mem) /\ ~JumpsToExit(code)
  BY WorkIn
<1>2. ~spilled => Ran(e, code)
  BY WorkRan DEF AtNode
<1> QED BY <1>1, <1>2, NodeStep DEF AtNode

\* The code of a result that has a register of its own.
LEMMA NewNode ==
  ASSUME AtNode, NEW n \in Nat, n <= Len(stack), NEW e, NEW op, op \notin FilterOps, NEW code \in Block(C.mem),
         NEW regs \in SUBSET Registers,
         Emit(op, Append(Below(n), e), regs, code), Typed(e),
         IsReg(e), e.late <=> labelUsed, ~JumpsToExit(code),
         ~spilled /\ ~m.exit => Fine(C.mem, WrittenRegs, {}, code, {e.v})
  PROVE  CompInv' /\ HeldInv'
<1>1. e.v \in Registers
  BY TypedOperand
<1>2. ~spilled => Ran(e, code)
  BY <1>1, NewRan DEF AtNode
<1> QED BY <1>2, NodeStep DEF AtNode

\* The nodes, one by one: a constant or an enumerator,
LEMMA EvalNumberNode == ASSUME AtNode, EvalNumber PROVE CompInv' /\ HeldInv'
<1>1. PICK e, op : Typed(e) /\ ~IsReg(e) /\ op \in {"number", "name"} /\ Emit(op, Append(stack, e), used, <<>>)
  BY TheConfiguration, NumberTyped DEF EvalNumber, AtNode, CompInv
<1>2. Below(0) = stack /\ 0 <= Len(stack)
  BY DEF Below, AtNode, RegInv
<1>3. PICK R : R = {}
  OBVIOUS
<1>4. <<>> \in Work(C.mem, R) /\ R \in SUBSET Registers /\ \A r \in R : OfStack(r)
  BY <1>3, WorkOf
<1>5. op \notin FilterOps /\ used \in SUBSET Registers
  BY <1>1 DEF FilterOps, Comparisons, AtNode, CompInv
<1>6. Emit(op, Append(Below(0), e), used, <<>>)
  BY <1>1, <1>2
<1> QED BY <1>1, <1>2, <1>4, <1>5, <1>6, WorkNode

\* a variable,
LEMMA EvalNameNode == ASSUME AtNode, EvalName PROVE CompInv' /\ HeldInv'
<1>1. CASE Stops
  BY <1>1, StopsLeave DEF AtNode
<1>2. CASE ~Stops
  <2>1. PICK i \in DOMAIN C.types :
          /\ CanAlloc(used)
          /\ Emit("name", Append(stack, Loaded(Alloc(used), C.types[i], 0, C.mem.args[i])),
                  used \cup {Alloc(used)}, <<LoadArg(Alloc(used), i)>>)
    BY <1>2 DEF EvalName, Stops
  <2>2. PICK r \in Allocatable : r = Alloc(used)
    BY <2>1, AllocFree
  <2>3. /\ IsMem(C.mem) /\ C.mem.args[i] \in Words /\ C.types[i] \in AllTypes /\ C.types \in Seq(Types)
    BY TheConfiguration, TypeFacts, ConfsAssumption DEF AtNode, CompInv, IsConfiguration, C
  <2>4. PICK e : e = Loaded(r, C.types[i], 0, C.mem.args[i])
    OBVIOUS
  <2>5. Typed(e) /\ IsReg(e) /\ e.v = r /\ (e.late <=> labelUsed)
    <3>1. PICK t \in AllTypes, bits \in Nat, ref \in Refs : t = C.types[i] /\ bits = 0 /\ ref = C.mem.args[i]
      BY <2>3 DEF Refs
    <3>2. e = Loaded(r, t, bits, ref)
      BY <2>4, <3>1
    <3> QED BY <3>2, LoadedTyped
  <2>6. PICK code : code = <<LoadArg(r, i)>>
    OBVIOUS
  <2>7. Emit("name", Append(Below(0), e), used \cup {r}, code) /\ 0 <= Len(stack)
    <3>1. Below(0) = stack /\ 0 <= Len(stack)
      BY DEF Below, AtNode, RegInv
    <3> QED BY <2>1, <2>2, <2>4, <2>6, <3>1
  <2>8. r \in Registers /\ i \in Int
    BY <2>3, Ranges
  <2>9. code \in Block(C.mem) /\ ~JumpsToExit(code)
    <3>1. LoadArg(r, i) \in Good(C.mem)
      BY <2>3, <2>8, Constructed
    <3>2. LoadArg(r, i).op = "arg"
      BY DEF LoadArg, Insn
    <3>3. Lands(LoadArg(r, i), 0)
      BY <3>2 DEF Lands, Jumps, Conds
    <3>4. code \in Block(C.mem)
      BY <2>6, <3>1, <3>3, BlockOf
    <3> QED BY <2>6, <3>2, <3>4 DEF JumpsToExit
  <2>10. ~spilled /\ ~m.exit => Fine(C.mem, WrittenRegs, {}, code, {e.v})
    <3> SUFFICES ASSUME ~spilled, ~m.exit PROVE Fine(C.mem, WrittenRegs, {}, code, {e.v})
      OBVIOUS
    <3>1. PICK K \in SUBSET Registers : K = WrittenRegs
      BY DEF WrittenRegs
    <3>2. ArgsReg \in K
      BY <3>1, Ranges DEF WrittenRegs, AtNode, HeldInv
    <3>3. PICK D \in SUBSET Places : D = {}
      OBVIOUS
    <3>4. Fine(C.mem, K, D, <<LoadArg(r, i)>>, D \cup {r})
      BY <2>3, <2>8, <3>2, CallRules
    <3>5. D \cup {r} = {e.v}
      BY <2>5, <3>3
    <3> QED BY <2>6, <3>1, <3>3, <3>4, <3>5
  <2>11. "name" \notin FilterOps /\ used \cup {r} \in SUBSET Registers
    BY <2>8 DEF FilterOps, Comparisons, AtNode, CompInv
  <2>12. 0 \in Nat
    OBVIOUS
  <2> QED BY <2>5, <2>7, <2>9, <2>10, <2>11, <2>12, NewNode
<1> QED BY <1>1, <1>2

\* an operand, which is on the stack,
LEMMA OperandFrom ==
  ASSUME AtNode, NEW n \in Nat, n <= Len(stack), NEW i \in 1..n
  PROVE  /\ Len(stack) - n + i \in 1..Len(stack) /\ Operand(n, i) = stack[Len(stack) - n + i]
         /\ Typed(Operand(n, i)) /\ RegOf(Operand(n, i)) \subseteq Registers
         /\ \A r \in RegOf(Operand(n, i)) : OfStack(r)
         /\ IsReg(Operand(n, i)) =>
              \E k \in 1..Len(stack) : IsReg(stack[k]) /\ stack[k].v = Operand(n, i).v
                                         /\ stack[k].late = Operand(n, i).late
<1>1. PICK k \in 1..Len(stack) : k = Len(stack) - n + i /\ Operand(n, i) = stack[k]
  BY Operands DEF AtNode
<1>2. PICK x : x = Operand(n, i)
  OBVIOUS
<1>3. Typed(x) /\ x = stack[k]
  BY <1>1, <1>2 DEF AtNode, CompInv
<1>4. RegOf(x) \subseteq Registers
  BY <1>3, TypedOperand
<1>5. \A r \in RegOf(x) : OfStack(r)
  BY <1>3 DEF RegOf, OfStack
<1> QED BY <1>1, <1>2, <1>3, <1>4, <1>5

\* a unary operator,
LEMMA EvalUnaryNode ==
  ASSUME AtNode, NEW op \in UnaryOps, EvalUnary(op)
  PROVE  CompInv' /\ HeldInv'
<1>1. CASE Stops
  BY <1>1, StopsLeave DEF AtNode
<1>2. CASE ~Stops
  <2>1. 1 \in Nat /\ 1 <= Len(stack) /\ 1 \in 1..1
    BY DEF EvalUnary
  <2>2. PICK x : x = Operand(1, 1)
    OBVIOUS
  <2>3. /\ Typed(x) /\ RegOf(x) \subseteq Registers /\ \A r \in RegOf(x) : OfStack(r)
        /\ IsReg(x) => \E k \in 1..Len(stack) : IsReg(stack[k]) /\ stack[k].v = x.v /\ stack[k].late = x.late
    BY <2>1, <2>2, OperandFrom
  <2>4. PICK res : res = unary(op, x)
    OBVIOUS
  <2>5. PICK y : y = IF IsReg(x) THEN x ELSE Number(res.n)
    OBVIOUS
  <2>6. PICK ref, step, odd, null :
          /\ ref = InCUnary(op, x) /\ null = x.null
          /\ odd = (x.odd \cup (IF op \in {"preInc", "preDec"} /\ Factor(x.step) # 1
                                THEN {"stride"} ELSE {}))
          /\ step = (IF op \in {"preInc", "preDec"} THEN x.step ELSE 0)
    OBVIOUS
  <2>7. ref \in Refs /\ step \in Nat
    BY <2>3, <2>6, InCUnaryTyped DEF Typed
  <2>8. PICK d : d = [y EXCEPT !.ref = ref, !.null = null, !.odd = odd, !.step = step]
    OBVIOUS
  <2>9. res.keep # "fail" /\ Emit(op, Append(Below(1), d), used, res.code)
    BY <1>2, <2>2, <2>4, <2>5, <2>6, <2>8, Zenon DEF EvalUnary, Stops
  <2>10. /\ res.keep \in {"left", "num"}
         /\ res.keep = "left" => IsReg(x) /\ res.code \in Work(C.mem, RegOf(x))
         /\ res.keep = "num" => IsNum(x) /\ res.n \in Words /\ res.code = <<>>
    <3>1. WordOrReg(x)
      BY <2>3, TypedOperand
    <3> QED BY <2>4, <2>9, <3>1, UnaryCompiled
  <2>11. Typed(y) /\ (IsReg(y) <=> res.keep = "left") /\ (IsReg(y) => y = x)
    <3>1. CASE res.keep = "left"
      BY <2>3, <2>5, <2>10, <3>1
    <3>2. CASE res.keep = "num"
      <4>1. ~IsReg(x)
        BY <2>10, <3>2 DEF IsNum, IsReg
      <4>2. y = Number(res.n)
        BY <2>5, <4>1
      <4> QED BY <2>10, <3>2, <4>2, NumberTyped
    <3> QED BY <2>10, <3>1, <3>2
  <2>12. PICK e : e = [y EXCEPT !.ref = ref, !.step = step, !.odd = odd, !.null = null]
    OBVIOUS
  <2>13. d = e
    BY <2>8, <2>11, <2>12 DEF Typed, IsValue
  <2>14. Typed(e) /\ (IsReg(e) <=> IsReg(y)) /\ e.v = y.v /\ e.late = y.late
    <3>1. Typed(y)
      BY <2>11
    <3>2. e = Noted(y, ref, step, odd, null)
      BY <2>12 DEF Noted
    <3> QED BY <2>7, <3>1, <3>2, AnnotatedTyped
  <2>15. Emit(op, Append(Below(1), e), used, res.code) /\ used \in SUBSET Registers
    BY <2>9, <2>13 DEF AtNode, CompInv
  <2>16. PICK R \in SUBSET Registers : R = RegOf(x)
    BY <2>3
  <2>17. res.code \in Work(C.mem, R)
    BY <2>10, <2>16, WorkOf
  <2>18. op \in FilterOps /\ IsReg(e) => res.code # <<>> /\ Closes(op, Last(res.code), e.v)
    <3> SUFFICES ASSUME op \in FilterOps, IsReg(e) PROVE res.code # <<>> /\ Closes(op, Last(res.code), e.v)
      OBVIOUS
    <3>1. op = "not"
      BY DEF FilterOps, Comparisons, UnaryOps
    <3>2. unary("not", x).keep = "left" /\ e.v = x.v
      BY <2>4, <2>11, <2>14, <3>1
    <3> QED BY <2>4, <3>1, <3>2, NotCloses
  <2>19. IsReg(e) => \E k \in 1..Len(stack) : IsReg(stack[k]) /\ stack[k].v = e.v /\ stack[k].late = e.late
    BY <2>3, <2>11, <2>14
  <2>20. \A r \in R : OfStack(r)
    BY <2>3, <2>16
  <2> QED BY <2>1, <2>14, <2>15, <2>17, <2>18, <2>19, <2>20, WorkNode
<1> QED BY <1>1, <1>2

\* ?:,
LEMMA EvalCondNode == ASSUME AtNode, EvalCond PROVE CompInv' /\ HeldInv'
<1>1. CASE Stops
  BY <1>1, StopsLeave DEF AtNode
<1>2. CASE ~Stops
  <2>1. 3 \in Nat /\ 3 <= Len(stack) /\ 1 \in 1..3 /\ 2 \in 1..3 /\ 3 \in 1..3
    BY DEF EvalCond
  <2>2. PICK c, l, r : c = Operand(3, 1) /\ l = Operand(3, 2) /\ r = Operand(3, 3)
    OBVIOUS
  <2>3. \A x \in {c, l, r} :
          /\ Typed(x) /\ RegOf(x) \subseteq Registers /\ \A q \in RegOf(x) : OfStack(q)
          /\ IsReg(x) => \E k \in 1..Len(stack) : IsReg(stack[k]) /\ stack[k].v = x.v /\ stack[k].late = x.late
    <3>1. ASSUME NEW i \in 1..3, NEW x, x = Operand(3, i)
          PROVE  /\ Typed(x) /\ RegOf(x) \subseteq Registers /\ \A q \in RegOf(x) : OfStack(q)
                 /\ IsReg(x) => \E k \in 1..Len(stack) : IsReg(stack[k]) /\ stack[k].v = x.v
                                                            /\ stack[k].late = x.late
      BY <2>1, <3>1, OperandFrom
    <3> QED BY <2>1, <2>2, <3>1
  <2>4. PICK y : y = IF IsReg(c) THEN c ELSE IF c.v = 0 THEN r ELSE l
    OBVIOUS
  <2>5. y \in {c, l, r}
    BY <2>4
  <2>6. PICK ref, step, odd, null :
          /\ ref = (CASE c.ref = Undef -> Undef [] c.ref = 0 -> r.ref [] OTHER -> l.ref)
          /\ step = (IF l.step # 0 THEN l.step ELSE r.step)
          /\ odd = (c.odd \cup l.odd \cup r.odd
                     \cup (IF IsReg(c) /\ (\E e \in {l, r} : IsNum(e) /\ Imm(e.v) # e.v) THEN {"imm"} ELSE {}))
          /\ null = (c.null \/ l.null \/ r.null)
    OBVIOUS
  <2>7. ref \in Refs /\ step \in Nat
    BY <2>3, <2>6 DEF Typed, Refs
  <2>8. PICK d : d = [y EXCEPT !.ref = ref, !.step = step, !.odd = odd, !.null = null]
    OBVIOUS
  <2>9. /\ \A x \in {c, l, r} : Calculable(x)
        /\ IsReg(c) => Emit("cond", Append(Below(3), d), used \ (RegOf(l) \cup RegOf(r)), CondCode(c, l, r))
        /\ ~IsReg(c) => Emit("cond", Append(Below(3), d), used, <<>>)
    BY <1>2, <2>2, <2>4, <2>6, <2>8, Zenon DEF EvalCond, Stops, CondCode, MoveTo
  <2>10. Typed(d) /\ (IsReg(d) <=> IsReg(y)) /\ d.v = y.v /\ d.late = y.late
    <3>1. Typed(y)
      BY <2>3, <2>5
    <3>2. d = Noted(y, ref, step, odd, null)
      BY <2>8 DEF Noted
    <3> QED BY <2>7, <3>1, <3>2, AnnotatedTyped
  <2>11. IsReg(d) => \E k \in 1..Len(stack) : IsReg(stack[k]) /\ stack[k].v = d.v /\ stack[k].late = d.late
    <3>1. IsReg(y) => \E k \in 1..Len(stack) : IsReg(stack[k]) /\ stack[k].v = y.v /\ stack[k].late = y.late
      BY <2>3, <2>5
    <3> QED BY <2>10, <3>1
  <2>12. "cond" \notin FilterOps /\ used \in SUBSET Registers
    BY DEF FilterOps, Comparisons, AtNode, CompInv
  <2>13. CASE IsReg(c)
    <3>1. PICK R \in SUBSET Registers : R = RegOf(c) \cup RegOf(l) \cup RegOf(r)
      BY <2>3
    <3>2. CondCode(c, l, r) \in Work(C.mem, R)
      <4>1. WordOrReg(c) /\ WordOrReg(l) /\ WordOrReg(r)
        BY <2>3, TypedOperand
      <4>2. (IsReg(l) \/ IsNum(l)) /\ (IsReg(r) \/ IsNum(r))
        BY <2>9 DEF Calculable
      <4> QED BY <2>13, <3>1, <4>1, <4>2, CondCompiled
    <3>3. \A q \in R : OfStack(q)
      BY <2>3, <3>1
    <3>4. PICK regs \in SUBSET Registers : regs = used \ (RegOf(l) \cup RegOf(r))
      BY <2>12
    <3>5. Emit("cond", Append(Below(3), d), regs, CondCode(c, l, r))
      BY <2>9, <2>13, <3>4
    <3> QED BY <2>1, <2>10, <2>11, <2>12, <3>2, <3>3, <3>5, WorkNode
  <2>14. CASE ~IsReg(c)
    <3>1. PICK R \in SUBSET Registers : R = {}
      OBVIOUS
    <3>2. <<>> \in Work(C.mem, R) /\ \A q \in R : OfStack(q)
      BY <3>1, WorkOf
    <3>3. Emit("cond", Append(Below(3), d), used, <<>>)
      BY <2>9, <2>14
    <3> QED BY <2>1, <2>10, <2>11, <2>12, <3>2, <3>3, WorkNode
  <2> QED BY <2>13, <2>14
<1> QED BY <1>1, <1>2

\* A cast of a value in a register, and of a constant.
LEMMA CastTyped ==
  ASSUME NEW x, Typed(x), NEW v \in Allocatable, NEW t \in Types, NEW ref \in Refs, NEW odd, NEW late
  PROVE  LET e == [typ |-> "reg", v |-> v, t |-> t, bits |-> x.bits, ref |-> ref,
                   step |-> SizeTo(t), odd |-> odd, null |-> x.null, late |-> late]
         IN  Typed(e) /\ IsReg(e) /\ e.v = v /\ e.late = late
<1>1. PICK e : e = [typ |-> "reg", v |-> v, t |-> t, bits |-> x.bits, ref |-> ref,
                    step |-> SizeTo(t), odd |-> odd, null |-> x.null, late |-> late]
  OBVIOUS
<1>2. e.typ = "reg" /\ e.v = v /\ e.t = t /\ e.bits = x.bits /\ e.ref = ref /\ e.step = SizeTo(t)
  BY <1>1
<1>3. e.late = late /\ IsValue(e)
  BY <1>1 DEF IsValue
<1>4. IsReg(e)
  BY <1>2 DEF IsReg
<1>5. x.bits \in Nat /\ t \in AllTypes /\ SizeTo(t) \in Nat
  BY TypeFacts DEF Typed
<1>6. Typed(e)
  BY <1>2, <1>3, <1>4, <1>5 DEF Typed
<1> QED BY <1>1, <1>2, <1>3, <1>4, <1>6, Zenon

\* A constant is moved into a register of its own.
LEMMA MovIs ==
  ASSUME NEW mem, IsMem(mem), NEW r \in Registers, NEW n \in Int
  PROVE  /\ <<AluImm("mov", r, n)>> \in Block(mem) /\ ~JumpsToExit(<<AluImm("mov", r, n)>>)
         /\ \A K \in SUBSET Registers : Fine(mem, K, {}, <<AluImm("mov", r, n)>>, {r})
<1>1. PICK i : i = AluImm("mov", r, n)
  OBVIOUS
<1>2. i \in Good(mem) /\ i.op = "mov"
  BY <1>1, Constructed DEF AluImm, Insn
<1>3. Lands(i, 0)
  BY <1>2 DEF Lands, Jumps, Conds
<1>4. <<i>> \in Block(mem)
  BY <1>2, <1>3, BlockOf
<1>5. ~JumpsToExit(<<i>>)
  BY <1>2 DEF JumpsToExit
<1>6. ASSUME NEW K \in SUBSET Registers PROVE Fine(mem, K, {}, <<i>>, {r})
  <2>1. PICK D \in SUBSET Places : D = {}
    OBVIOUS
  <2>2. Fine(mem, K, D, <<AluImm("mov", r, n)>>, D \cup {r})
    BY Rules
  <2>3. D \cup {r} = {r}
    BY <2>1
  <2> QED BY <1>1, <2>1, <2>2, <2>3
<1> QED BY <1>1, <1>4, <1>5, <1>6

\* a cast,
LEMMA EvalCastNode ==
  ASSUME AtNode, NEW t \in C.casts, EvalCast(t)
  PROVE  CompInv' /\ HeldInv'
<1>1. CASE Stops
  BY <1>1, StopsLeave DEF AtNode
<1>2. CASE ~Stops
  <2>1. 1 \in Nat /\ 1 <= Len(stack) /\ 1 \in 1..1
    BY DEF EvalCast
  <2>2. PICK x : x = Operand(1, 1)
    OBVIOUS
  <2>3. /\ Typed(x) /\ RegOf(x) \subseteq Registers /\ \A q \in RegOf(x) : OfStack(q)
        /\ IsReg(x) => \E k \in 1..Len(stack) : IsReg(stack[k]) /\ stack[k].v = x.v /\ stack[k].late = x.late
    BY <2>1, <2>2, OperandFrom
  <2>4. t \in Types /\ IsMem(C.mem)
    BY TheConfiguration DEF AtNode, CompInv
  <2>5. PICK ref \in Refs : ref = IF x.ref = Undef THEN Undef ELSE IF t.size = 1 THEN x.ref % Low ELSE x.ref
    <3>1. x.ref \in Refs
      BY <2>3 DEF Typed
    <3>2. x.ref # Undef => x.ref % Low \in Words
      <4>1. PICK w : w = x.ref
        OBVIOUS
      <4>2. w # Undef => w \in Words
        BY <3>1, <4>1, RefFacts
      <4>3. w # Undef => w % Low \in Words
        BY <4>2, InWords, WordFacts
      <4> QED BY <4>1, <4>3
    <3> QED BY <3>1, <3>2 DEF Refs
  <2>6. PICK odd : odd = (x.odd \cup (IF t.size = 1 THEN {"cast"} ELSE {})
                                \cup (IF IsNum(x) /\ Imm(x.v) # x.v THEN {"imm"} ELSE {}))
    OBVIOUS
  <2>7. PICK val : val = [x EXCEPT !.typ = "reg", !.t = t, !.step = SizeTo(t), !.ref = ref, !.odd = odd]
    OBVIOUS
  <2>8. PICK new : new = [val EXCEPT !.v = Alloc(used), !.late = labelUsed]
    OBVIOUS
  <2>9. val = [x EXCEPT !.typ = "reg", !.t = t, !.step = SizeTo(t),
                          !.ref = IF @ = Undef THEN Undef ELSE IF t.size = 1 THEN @ % Low ELSE @,
                          !.odd = @ \cup (IF t.size = 1 THEN {"cast"} ELSE {})
                                    \cup (IF IsNum(x) /\ Imm(x.v) # x.v THEN {"imm"} ELSE {})]
    BY <2>3, <2>5, <2>6, <2>7 DEF Typed, IsValue
  <2>10. /\ IsReg(x) => Emit("cast", Append(Below(1), val), used, <<>>)
         /\ ~IsReg(x) => CanAlloc(used)
              /\ Emit("cast", Append(Below(1), new), used \cup {Alloc(used)}, <<AluImm("mov", Alloc(used), x.v)>>)
    BY <1>2, <2>2, <2>8, <2>9, Zenon DEF EvalCast, Stops
  <2>11. val = [typ |-> "reg", v |-> x.v, t |-> t, bits |-> x.bits, ref |-> ref,
                step |-> SizeTo(t), odd |-> odd, null |-> x.null, late |-> x.late]
    BY <2>3, <2>7 DEF Typed, IsValue
  <2>12. "cast" \notin FilterOps /\ used \in SUBSET Registers
    BY DEF FilterOps, Comparisons, AtNode, CompInv
  <2>13. CASE IsReg(x)
    <3>1. x.v \in Allocatable
      BY <2>3, <2>13 DEF Typed
    <3>2. Typed(val) /\ IsReg(val) /\ val.v = x.v /\ val.late = x.late
      <4>1. PICK late, v : late = x.late /\ v = x.v
        OBVIOUS
      <4> QED BY <2>3, <2>4, <2>11, <3>1, <4>1, CastTyped, Zenon
    <3>3. \E k \in 1..Len(stack) : IsReg(stack[k]) /\ stack[k].v = val.v /\ stack[k].late = val.late
      BY <2>3, <2>13, <3>2
    <3>4. PICK R \in SUBSET Registers : R = {}
      OBVIOUS
    <3>5. <<>> \in Work(C.mem, R) /\ \A q \in R : OfStack(q)
      BY <3>4, WorkOf
    <3>6. Emit("cast", Append(Below(1), val), used, <<>>)
      BY <2>10, <2>13
    <3> QED BY <2>1, <2>12, <3>2, <3>3, <3>5, <3>6, WorkNode
  <2>14. CASE ~IsReg(x)
    <3>1. PICK r \in Allocatable : r = Alloc(used) /\ r \in Registers
      BY <2>10, <2>14, AllocFree, Ranges
    <3>2. new = [typ |-> "reg", v |-> r, t |-> t, bits |-> x.bits, ref |-> ref,
                 step |-> SizeTo(t), odd |-> odd, null |-> x.null, late |-> labelUsed]
      BY <2>8, <2>11, <3>1
    <3>3. Typed(new) /\ IsReg(new) /\ new.v = r /\ new.late = labelUsed
      BY <2>3, <2>4, <3>2, CastTyped, Zenon
    <3>4. PICK regs \in SUBSET Registers : regs = used \cup {r}
      BY <2>12, <3>1
    <3>5. x.v \in Int
      BY <2>3, <2>14, InWords DEF Typed
    <3>6. PICK code : code = <<AluImm("mov", r, x.v)>>
      OBVIOUS
    <3>7. Emit("cast", Append(Below(1), new), regs, code)
      BY <2>10, <2>14, <3>1, <3>4, <3>6
    <3>8. code \in Block(C.mem) /\ ~JumpsToExit(code) /\ Fine(C.mem, WrittenRegs, {}, code, {new.v})
      BY <2>4, <3>1, <3>3, <3>5, <3>6, MovIs DEF WrittenRegs
    <3> QED BY <2>1, <2>12, <3>3, <3>7, <3>8, NewNode
  <2> QED BY <2>13, <2>14
<1> QED BY <1>1, <1>2

\* The operands of an operator, as it takes them.
TakenOver(l, r) ==
  \A x \in {l, r} :
    /\ Typed(x) /\ RegOf(x) \subseteq Registers /\ \A q \in RegOf(x) : OfStack(q)
    /\ IsReg(x) => \E k \in 1..Len(stack) : IsReg(stack[k]) /\ stack[k].v = x.v /\ stack[k].late = x.late

\* The operands of a binary operator are on the stack,
LEMMA PreparedTaken ==
  ASSUME AtNode, 2 <= Len(stack)
  PROVE  TakenOver(Prepared(Operand(2, 1), Operand(2, 2)), Prepared(Operand(2, 2), Operand(2, 1)))
<1>1. ASSUME NEW i \in 1..2, NEW j \in 1..2
      PROVE  LET x == Prepared(Operand(2, i), Operand(2, j))
             IN  /\ Typed(x) /\ RegOf(x) \subseteq Registers /\ \A q \in RegOf(x) : OfStack(q)
                 /\ IsReg(x) => \E k \in 1..Len(stack) : IsReg(stack[k]) /\ stack[k].v = x.v
                                                            /\ stack[k].late = x.late
  <2>1. PICK a, b, x : a = Operand(2, i) /\ b = Operand(2, j) /\ x = Prepared(a, b)
    OBVIOUS
  <2>2. /\ Typed(a) /\ Typed(b) /\ RegOf(a) \subseteq Registers /\ \A q \in RegOf(a) : OfStack(q)
        /\ IsReg(a) => \E k \in 1..Len(stack) : IsReg(stack[k]) /\ stack[k].v = a.v
                                                   /\ stack[k].late = a.late
    BY <2>1, OperandFrom
  <2>3. Typed(x) /\ (IsReg(x) <=> IsReg(a)) /\ (IsReg(a) => x = a)
    BY <2>1, <2>2, PreparedTyped
  <2>4. ~IsReg(x) => RegOf(x) = {}
    BY DEF RegOf
  <2>5. CASE IsReg(a)
    <3>1. x = a
      BY <2>3, <2>5
    <3> QED BY <2>1, <2>2, <3>1, Zenon
  <2>6. CASE ~IsReg(a)
    <3>1. RegOf(x) = {} /\ ~IsReg(x)
      BY <2>3, <2>4, <2>6
    <3> QED BY <2>1, <2>3, <3>1
  <2> QED BY <2>5, <2>6
<1>2. PICK x, y : x = Prepared(Operand(2, 1), Operand(2, 2)) /\ y = Prepared(Operand(2, 2), Operand(2, 1))
  OBVIOUS
<1>3. 1 \in 1..2 /\ 2 \in 1..2
  OBVIOUS
<1>4. \A u \in {x, y} :
        /\ Typed(u) /\ RegOf(u) \subseteq Registers /\ \A q \in RegOf(u) : OfStack(q)
        /\ IsReg(u) => \E k \in 1..Len(stack) : IsReg(stack[k]) /\ stack[k].v = u.v /\ stack[k].late = u.late
  BY <1>1, <1>2, <1>3
<1> QED BY <1>2, <1>4 DEF TakenOver

\* The result of a constant and a register is in a register that is written
\* whatever the jumps.
LEMMA MadeNode ==
  ASSUME AtNode, 2 <= Len(stack), NEW op, op \notin FilterOps, NEW l, NEW r, TakenOver(l, r), IsReg(r),
         CanAlloc(used), NEW code, code \in Made(C.mem, Alloc(used), r.v), NEW d,
         Typed(d), IsReg(d), d.v = Alloc(used), d.late <=> labelUsed, NEW regs \in SUBSET Registers,
         Emit(op, Append(Below(2), d), regs, code)
  PROVE  CompInv' /\ HeldInv'
<1>1. PICK z \in Registers : z = Alloc(used)
  BY AllocFree, Ranges
<1>2. PICK s \in Registers : s = r.v /\ OfStack(s)
  BY DEF TakenOver, RegOf
<1>3. code \in Work(C.mem, {z, s}) /\ IsMem(C.mem)
  BY <1>1, <1>2, MadeWork, TheConfiguration DEF AtNode, CompInv
<1>4. code \in Block(C.mem) /\ ~JumpsToExit(code)
  BY <1>3, WorkIn
<1>5. ~spilled /\ ~m.exit => Fine(C.mem, WrittenRegs, {}, code, {d.v})
  <2> SUFFICES ASSUME ~spilled, ~m.exit PROVE Fine(C.mem, WrittenRegs, {}, code, {d.v})
    OBVIOUS
  <2>1. PICK K \in SUBSET Registers : K = WrittenRegs
    BY DEF WrittenRegs
  <2>2. s \in K
    BY <1>2, <2>1, StackWritten DEF AtNode
  <2>3. Fine(C.mem, K, {s}, code, {s, z})
    BY <1>1, <1>2, <1>3, MadeFine
  <2>4. Buf \notin K
    BY DEF Buf, Registers
  <2>5. Fine(C.mem, K, {}, code, {z})
    <3>1. PICK D, E, e, n : D = {s} /\ E = {s, z} /\ e = {z} /\ n = {}
      OBVIOUS
    <3>2. D \subseteq n \cup K /\ e \subseteq E
      BY <2>2, <3>1
    <3>3. Fine(C.mem, K, D, code, E)
      BY <2>3, <3>1
    <3>4. Fine(C.mem, K, n, code, e)
      BY <2>4, <3>2, <3>3, FineWeak
    <3> QED BY <3>1, <3>4
  <2> QED BY <1>1, <2>1, <2>5
<1>6. 2 \in Nat
  OBVIOUS
<1> QED BY <1>4, <1>5, <1>6, NewNode

\* and what it makes of them is what the code leaves.
LEMMA EvalBinaryNode ==
  ASSUME AtNode, NEW op \in BinaryOps, EvalBinary(op)
  PROVE  CompInv' /\ HeldInv'
<1>1. CASE Stops
  BY <1>1, StopsLeave DEF AtNode
<1>2. CASE ~Stops
  <2>1. 2 \in Nat /\ 2 <= Len(stack)
    BY DEF EvalBinary
  <2>2. PICK l, r : /\ l = Prepared(Operand(2, 1), Operand(2, 2))
                    /\ r = Prepared(Operand(2, 2), Operand(2, 1))
    OBVIOUS
  <2>3. TakenOver(l, r)
    BY <2>1, <2>2, PreparedTaken
  <2>4. PICK z : z = IF CanAlloc(used) THEN Alloc(used) ELSE ArgsReg
    OBVIOUS
  <2>5. PICK res : res = IF Calculable(l) /\ Calculable(r) THEN binary(op, l, r, z) ELSE Fail
    OBVIOUS
  <2>6. PICK y : y = CASE res.keep = "left"  -> l
                       [] res.keep = "right" -> r
                       [] res.keep = "new"   -> Loaded(z, r.t, 0, 0)
                       [] OTHER              -> Number(res.n)
    OBVIOUS
  <2>7. PICK ref, step, odd, null :
          /\ ref = InC(op, l, r) /\ step = StepInC(op, l, r)
          /\ odd = (l.odd \cup r.odd \cup Departures(op, l, r))
          /\ null = (l.null \/ r.null)
    OBVIOUS
  <2>8. PICK d : d = [y EXCEPT !.ref = ref, !.step = step, !.odd = odd, !.null = null]
    OBVIOUS
  <2>9. PICK kept : kept = (used \ Freed(res.keep, l, r)) \cup (IF res.keep = "new" THEN {z} ELSE {})
    OBVIOUS
  <2>10. /\ res.keep \notin {"fail", "crash"}
         /\ res.keep = "new" => CanAlloc(used)
         /\ Emit(op, Append(Below(2), d), kept, res.code)
    BY <1>2, <2>2, <2>4, <2>5, <2>6, <2>7, <2>8, <2>9 DEF EvalBinary, Stops
  <2>11. /\ Typed(l) /\ Typed(r) /\ WordOrReg(l) /\ WordOrReg(r)
         /\ RegOf(l) \subseteq Registers /\ RegOf(r) \subseteq Registers
    BY <2>3, TypedOperand DEF TakenOver
  <2>12. Calculable(l) /\ Calculable(r) /\ res = binary(op, l, r, z)
    BY <2>5, <2>10 DEF Fail, Result
  <2>13. /\ IsNum(l) \/ IsReg(l)
         /\ IsNum(r) \/ IsReg(r)
    BY <2>12 DEF Calculable
  <2>14. z \in Registers /\ (res.keep = "new" => z = Alloc(used) /\ z \in Allocatable)
    BY <2>4, <2>10, AllocFree, Ranges
  <2>15. Compiled(C.mem, res, l, r, z)
    BY <2>11, <2>12, <2>13, <2>14, BinaryCompiled
  <2>16. Kept(res, l, r)
    BY <2>12, <2>13, BinaryKept DEF Operable
  <2>17. res.keep \in {"left", "right", "new", "num"}
    BY <2>10, <2>16 DEF Kept
  <2>18. ref \in Refs /\ step \in Nat
    BY <2>7, <2>11, InCTyped
  <2>19. /\ Typed(y)
         /\ res.keep = "left" => y = l /\ IsReg(l)
         /\ res.keep = "right" => y = r /\ IsReg(r)
         /\ res.keep = "new" => IsReg(y) /\ y.v = z /\ (y.late <=> labelUsed)
         /\ res.keep = "num" => ~IsReg(y)
    <3>1. CASE res.keep = "left"
      BY <2>6, <2>11, <2>16, <3>1 DEF Kept
    <3>2. CASE res.keep = "right"
      BY <2>6, <2>11, <2>16, <3>2 DEF Kept
    <3>3. CASE res.keep = "new"
      <4>1. PICK t \in AllTypes, bits \in Nat, w \in Refs : t = r.t /\ bits = 0 /\ w = 0
        BY <2>11, Ranges DEF Typed, Refs
      <4>2. y = Loaded(z, t, bits, w)
        BY <2>6, <3>3, <4>1
      <4> QED BY <2>14, <3>3, <4>2, LoadedTyped
    <3>4. CASE res.keep = "num"
      <4>1. y = Number(res.n) /\ res.n \in Words
        BY <2>6, <2>15, <3>4 DEF Compiled
      <4> QED BY <3>4, <4>1, NumberTyped
    <3> QED BY <2>17, <3>1, <3>2, <3>3, <3>4
  <2>20. Typed(d) /\ (IsReg(d) <=> IsReg(y)) /\ d.v = y.v /\ d.late = y.late
    <3>1. Typed(y)
      BY <2>19
    <3>2. d = Noted(y, ref, step, odd, null)
      BY <2>8 DEF Noted
    <3> QED BY <2>18, <3>1, <3>2, AnnotatedTyped
  <2>21. kept \in SUBSET Registers
    BY <2>9, <2>14 DEF AtNode, CompInv
  <2>22. CASE res.keep \in {"left", "right", "num"}
    <3>1. PICK R \in SUBSET Registers : R = RegOf(l) \cup RegOf(r)
      BY <2>11
    <3>2. res.code \in Work(C.mem, R)
      BY <2>15, <2>22, <3>1, WorkOf DEF Compiled
    <3>3. \A q \in R : OfStack(q)
      BY <2>3, <3>1 DEF TakenOver
    <3>4. IsReg(d) => \E k \in 1..Len(stack) : IsReg(stack[k]) /\ stack[k].v = d.v /\ stack[k].late = d.late
      <4>1. IsReg(y) => y \in {l, r}
        BY <2>19, <2>22
      <4>2. IsReg(y) => \E k \in 1..Len(stack) : IsReg(stack[k]) /\ stack[k].v = y.v /\ stack[k].late = y.late
        BY <2>3, <4>1 DEF TakenOver
      <4> QED BY <2>20, <4>2
    <3>5. op \in FilterOps /\ IsReg(d) => res.code # <<>> /\ Closes(op, Last(res.code), d.v)
      <4> SUFFICES ASSUME op \in FilterOps, IsReg(d) PROVE res.code # <<>> /\ Closes(op, Last(res.code), d.v)
        OBVIOUS
      <4>1. op \in FilterOps \cap BinaryOps
        OBVIOUS
      <4>2. /\ res.keep = "left" => res.code # <<>> /\ Closes(op, Last(res.code), l.v)
            /\ res.keep = "right" => res.code # <<>> /\ Closes(op, Last(res.code), r.v)
        BY <2>12, <2>13, <4>1, FilterCloses
      <4> QED BY <2>19, <2>20, <2>22, <4>2
    <3> QED BY <2>1, <2>10, <2>20, <2>21, <3>2, <3>3, <3>4, <3>5, WorkNode
  <2>23. CASE res.keep = "new"
    <3>1. op \notin FilterOps
      BY <2>12, <2>13, <2>23, FilterCloses
    <3>2. IsReg(r) /\ res.code \in Made(C.mem, Alloc(used), r.v)
      BY <2>14, <2>15, <2>23 DEF Compiled
    <3>3. IsReg(d) /\ d.v = Alloc(used) /\ (d.late <=> labelUsed)
      BY <2>14, <2>19, <2>20, <2>23
    <3> QED BY <2>1, <2>3, <2>10, <2>20, <2>21, <2>23, <3>1, <3>2, <3>3, MadeNode
  <2> QED BY <2>17, <2>22, <2>23
<1> QED BY <1>1, <1>2

-----------------------------------------------------------------------------
(* The steps of a chain.                                                   *)

\* A step that only sets the chain.
LEMMA ChainSet ==
  ASSUME CompInv, HeldInv, phase = "compile", NEW a, TypedAccess(a), Chain(a),
         a.base = "computed" => acc # NoAccess /\ acc.base = "computed" /\ a.v = acc.v /\ a.late = acc.late
  PROVE  CompInv' /\ HeldInv'
<1>1. acc' = a /\ UNCHANGED <<conf, phase, stack, used, m, labelUsed, last, top, nodes, spilled>>
  BY DEF Chain
<1>2. C' = C
  BY <1>1 DEF C
<1>3. \A i \in 1..Len(stack') : Typed(stack'[i])
  BY <1>1 DEF CompInv
<1>4. (\A i \in 1..Len(stack) : Typed(stack[i]))'
  BY <1>3 DEF Typed, IsValue, IsReg, AllTypes, Refs
<1>5. TypedAccess(acc)'
  BY <1>1, <1>2 DEF TypedAccess, IsChain, Offsets, AllTypes, Refs
<1>6. CompInv'
  BY <1>1, <1>2, <1>4, <1>5 DEF CompInv
<1>7. ~spilled /\ acc'.base = "computed" /\ (m.exit => ~acc'.late) => m.regs[acc'.v] # Junk
  BY <1>1 DEF HeldInv
<1>8. HeldInv'
  BY <1>1, <1>7 DEF HeldInv, Readable, IsReg, Closes, AluReg, AluImm, Insn, FilterOps
<1> QED BY <1>6, <1>8

\* A step that keeps the beginning of the chain.
LEMMA ChainNode ==
  ASSUME CompInv, HeldInv, phase = "compile", acc # NoAccess, NEW a, Keeps(a, acc), Chain(a)
  PROVE  CompInv' /\ HeldInv'
<1>1. TypedAccess(a) /\ a.base = acc.base /\ a.v = acc.v /\ a.late = acc.late
  BY DEF Keeps
<1> QED BY <1>1, ChainSet

\* Every step of a chain does, or is an error.
LEMMA AccessStepNode ==
  ASSUME CompInv, HeldInv,
         \/ \E name \in C.members : AccessMember(name)
         \/ \E i \in C.indices : AccessIndex(i)
         \/ \E n \in C.deltas : AccessAdd(n)
         \/ \E t \in C.casts : AccessCast(t)
         \/ AccessAddr \/ AccessIndir
  PROVE  CompInv' /\ HeldInv'
<1>1. phase = "compile" /\ acc # NoAccess
  BY DEF AccessMember, AccessIndex, AccessAdd, AccessCast, AccessAddr, AccessIndir, Accessing
<1>2. OnChain
  BY <1>1 DEF OnChain, CompInv
<1>3. Stops \/ \E a : Keeps(a, acc) /\ Chain(a)
  BY <1>2, AccessMemberKeeps, AccessIndexKeeps, AccessAddKeeps, AccessCastKeeps, AccessAddrKeeps, AccessIndirKeeps
<1> QED BY <1>1, <1>3, StopsLeave, ChainNode

\* Where a chain begins.
LEMMA AccessBaseNode ==
  ASSUME AtNode, AccessVariable \/ AccessNumber
  PROVE  CompInv' /\ HeldInv'
<1>0. conf \in DOMAIN Confs
  BY DEF AtNode, CompInv
<1>1. CASE AccessVariable
  <2>1. PICK i \in DOMAIN C.types :
          Chain(Access("var", i, C.types[i], C.mem.args[i], {}, FALSE, FALSE))
    BY <1>1 DEF AccessVariable
  <2>2. PICK t \in AllTypes, w \in Refs : t = C.types[i] /\ w = C.mem.args[i]
    BY <1>0, TheConfiguration, TypeFacts DEF Refs
  <2>3. PICK base, odd, no : base = "var" /\ odd = {} /\ no = FALSE
    OBVIOUS
  <2>4. PICK a : a = Access(base, i, t, w, odd, no, no)
    OBVIOUS
  <2>5. TypedAccess(a) /\ a.base = base
    BY <2>3, <2>4, AccessTyped
  <2>6. Chain(a)
    BY <2>1, <2>2, <2>3, <2>4
  <2> QED BY <2>3, <2>5, <2>6, ChainSet DEF AtNode
<1>2. CASE AccessNumber
  <2>1. PICK n \in C.bases, c \in C.casts :
          Chain(Access("number", n, c, n, IF n = 0 \/ Imm(n) # n THEN {"base"} ELSE {}, FALSE, FALSE))
    BY <1>2 DEF AccessNumber
  <2>2. PICK t \in AllTypes, w \in Refs : t = c /\ w = n /\ w \in Words
    BY <1>0, TheConfiguration, TypeFacts DEF Refs
  <2>3. PICK base, odd, no :
          base = "number" /\ odd = (IF n = 0 \/ Imm(n) # n THEN {"base"} ELSE {}) /\ no = FALSE
    OBVIOUS
  <2>4. PICK a : a = Access(base, w, t, w, odd, no, no)
    OBVIOUS
  <2>5. TypedAccess(a) /\ a.base = base
    BY <2>2, <2>3, <2>4, AccessTyped
  <2>6. Chain(a)
    BY <2>1, <2>2, <2>3, <2>4
  <2> QED BY <2>3, <2>5, <2>6, ChainSet DEF AtNode
<1> QED BY <1>1, <1>2

\* A chain that begins with a value takes it from the stack.
LEMMA AccessComputedNode ==
  ASSUME AtNode, AccessComputed
  PROVE  CompInv' /\ HeldInv'
<1>1. CASE Stops
  BY <1>1, StopsLeave DEF AtNode
<1>2. CASE ~Stops
  <2>1. 1 \in Nat /\ 1 <= Len(stack) /\ 1 \in 1..1 /\ top \notin FilterOps
    BY DEF AccessComputed, FilterOps, Comparisons
  <2>2. PICK e : e = Operand(1, 1)
    OBVIOUS
  <2>3. PICK k \in 1..Len(stack) : e = stack[k]
    BY <2>1, <2>2, OperandFrom
  <2>4. PICK odd : odd = (e.odd \cup (IF SizeTo(e.t) = e.step THEN {} ELSE {"stride"}))
    OBVIOUS
  <2>5. /\ IsReg(e) /\ acc' = Access("computed", e.v, e.t, e.ref, odd, e.null, e.late)
        /\ stack' = Below(1)
        /\ UNCHANGED <<conf, phase, used, m, labelUsed, last, top, nodes, spilled>>
    BY <1>2, <2>2, <2>4 DEF AccessComputed, Stops
  <2>6. Typed(e) /\ e.v \in Allocatable /\ e.t \in AllTypes /\ e.ref \in Refs
    BY <2>3, <2>5 DEF AtNode, CompInv, Typed
  <2>7. TypedAccess(acc') /\ acc'.base = "computed" /\ acc'.v = e.v /\ acc'.late = e.late
    <3>1. PICK v \in Allocatable, t \in AllTypes, w \in Refs : v = e.v /\ t = e.t /\ w = e.ref
      BY <2>6
    <3>2. PICK base, null, late : base = "computed" /\ null = e.null /\ late = e.late
      OBVIOUS
    <3>3. PICK a : a = Access(base, v, t, w, odd, null, late)
      OBVIOUS
    <3>4. TypedAccess(a) /\ a.base = base /\ a.v = v /\ a.late = late
      BY <3>2, <3>3, AccessTyped
    <3>5. acc' = a
      BY <2>5, <3>1, <3>2, <3>3
    <3> QED BY <3>1, <3>2, <3>4, <3>5
  <2>8. /\ Len(stack') = Len(stack) - 1
        /\ \A i \in 1..Len(stack') : i \in 1..Len(stack) /\ stack'[i] = stack[i]
    <3>1. Len(Below(1)) = Len(stack) - 1 /\ \A i \in 1..(Len(stack) - 1) : Below(1)[i] = stack[i]
      BY <2>1, Operands DEF AtNode
    <3>2. Len(stack) \in Nat
      BY DEF AtNode, RegInv
    <3> QED BY <2>5, <3>1, <3>2
  <2>9. C' = C
    BY <2>5 DEF C
  <2>10. \A i \in 1..Len(stack') : Typed(stack'[i])
    BY <2>8 DEF AtNode, CompInv
  <2>11. (\A i \in 1..Len(stack) : Typed(stack[i]))'
    BY <2>10 DEF Typed, IsValue, IsReg, AllTypes, Refs
  <2>12. TypedAccess(acc)'
    BY <2>7, <2>9 DEF TypedAccess, IsChain, Offsets, AllTypes, Refs
  <2>13. CompInv'
    BY <2>5, <2>9, <2>11, <2>12 DEF AtNode, CompInv
  <2>14. ~spilled /\ (m.exit => ~acc'.late) => m.regs[acc'.v] # Junk
    <3> SUFFICES ASSUME ~spilled, m.exit => ~acc'.late PROVE m.regs[acc'.v] # Junk
      OBVIOUS
    <3>1. Readable(e, m)
      BY <2>3 DEF AtNode, HeldInv
    <3> QED BY <2>5, <2>7, <3>1 DEF Readable
  <2>15. ~spilled => \A i \in 1..Len(stack') : Readable(stack'[i], m')
    BY <2>5, <2>8 DEF AtNode, HeldInv
  <2>16. ~spilled => (\A i \in 1..Len(stack) : Readable(stack[i], m))'
    BY <2>15 DEF Readable, IsReg
  <2>17. top' \notin FilterOps'
    BY <2>1, <2>5 DEF FilterOps
  <2>18. HeldInv'
    BY <2>5, <2>14, <2>16, <2>17 DEF AtNode, HeldInv
  <2> QED BY <2>13, <2>18
<1> QED BY <1>1, <1>2

-----------------------------------------------------------------------------
(* The end of a chain.                                                     *)

\* Where a chain's code begins.
BaseCode(a, reg) ==
  CASE a.base = "var"      -> <<LoadArg(reg, a.v)>>
    [] a.base = "number"   -> <<IF a.v = 0 THEN LoadArg(reg, 1) ELSE AluImm("mov", reg, a.v)>>
    [] a.base = "computed" -> <<>>

\* An argument is loaded from r9.
LEMMA ArgIs ==
  ASSUME NEW mem, IsMem(mem), NEW r \in Registers, NEW n \in Int, mem.args[n] \in Words
  PROVE  /\ <<LoadArg(r, n)>> \in Block(mem) /\ ~JumpsToExit(<<LoadArg(r, n)>>)
         /\ \A K \in SUBSET Registers : ArgsReg \in K => Fine(mem, K, {}, <<LoadArg(r, n)>>, {r})
<1>1. PICK i : i = LoadArg(r, n)
  OBVIOUS
<1>2. i \in Good(mem) /\ i.op = "arg"
  BY <1>1, Constructed DEF LoadArg, Insn
<1>3. Lands(i, 0)
  BY <1>2 DEF Lands, Jumps, Conds
<1>4. <<i>> \in Block(mem)
  BY <1>2, <1>3, BlockOf
<1>5. ~JumpsToExit(<<i>>)
  BY <1>2 DEF JumpsToExit
<1>6. ASSUME NEW K \in SUBSET Registers, ArgsReg \in K PROVE Fine(mem, K, {}, <<i>>, {r})
  <2>1. PICK D \in SUBSET Places : D = {}
    OBVIOUS
  <2>2. Fine(mem, K, D, <<LoadArg(r, n)>>, D \cup {r})
    BY <1>6, CallRules
  <2>3. D \cup {r} = {r}
    BY <2>1
  <2> QED BY <1>1, <2>1, <2>2, <2>3
<1> QED BY <1>1, <1>4, <1>5, <1>6

\* The beginning of a chain is in its register.
LEMMA BaseFine ==
  ASSUME conf \in DOMAIN Confs, NEW a, TypedAccess(a), NEW reg \in Registers
  PROVE  /\ BaseCode(a, reg) \in Block(C.mem) /\ ~JumpsToExit(BaseCode(a, reg))
         /\ \A K \in SUBSET Registers : ArgsReg \in K /\ (a.base = "computed" => reg \in K) =>
              Fine(C.mem, K, {}, BaseCode(a, reg), {reg})
<1>0. /\ IsMem(C.mem) /\ C.mem.args[1] \in Words /\ 1 \in Int
      /\ \A i \in DOMAIN C.types : C.mem.args[i] \in Words
  BY TheConfiguration
<1>1. C.types \in Seq(Types)
  BY ConfsAssumption DEF IsConfiguration, C
<1>2. CASE a.base = "var"
  <2>1. PICK i \in DOMAIN C.types : i = a.v
    BY <1>2 DEF TypedAccess
  <2>2. i \in Int /\ C.mem.args[i] \in Words
    BY <1>0, <1>1
  <2>3. BaseCode(a, reg) = <<LoadArg(reg, i)>>
    BY <1>2, <2>1 DEF BaseCode
  <2> QED BY <1>0, <2>2, <2>3, ArgIs
<1>3. CASE a.base = "number" /\ a.v = 0
  <2>1. BaseCode(a, reg) = <<LoadArg(reg, 1)>>
    BY <1>3 DEF BaseCode
  <2> QED BY <1>0, <2>1, ArgIs
<1>4. CASE a.base = "number" /\ a.v # 0
  <2>1. PICK n \in Int : n = a.v
    BY <1>4, InWords DEF TypedAccess
  <2>2. BaseCode(a, reg) = <<AluImm("mov", reg, n)>>
    BY <1>4, <2>1 DEF BaseCode
  <2> QED BY <1>0, <2>2, MovIs
<1>5. CASE a.base = "computed"
  <2>1. BaseCode(a, reg) = <<>>
    BY <1>5 DEF BaseCode
  <2>2. <<>> \in Block(C.mem) /\ ~JumpsToExit(<<>>)
    BY BlockOf DEF JumpsToExit
  <2>3. ASSUME NEW K \in SUBSET Registers, reg \in K PROVE Fine(C.mem, K, {}, <<>>, {reg})
    <3>1. PICK D, n : D = {reg} /\ n = {}
      OBVIOUS
    <3>2. Fine(C.mem, K, D, <<>>, D)
      BY <1>0, FineNone
    <3>3. D \subseteq n \cup K /\ D \subseteq D /\ Buf \notin K
      BY <2>3, <3>1 DEF Buf, Registers
    <3>4. Fine(C.mem, K, n, <<>>, D)
      BY <3>2, <3>3, FineWeak
    <3> QED BY <3>1, <3>4
  <2> QED BY <1>5, <2>1, <2>2, <2>3
<1> QED BY <1>2, <1>3, <1>4, <1>5 DEF TypedAccess

\* The code of a chain: its base, its offsets, and the cut to its size.
ChainCode(a, reg, regs) == BaseCode(a, reg) \o offset2insns(a, reg, regs) \o cut2insns(a, reg)

\* A chain's code jumps within itself or to the exit label.
LEMMA ChainBlock ==
  ASSUME conf \in DOMAIN Confs, NEW a, TypedAccess(a), NEW regs \in SUBSET Registers, NEW reg \in regs
  PROVE  /\ BaseCode(a, reg) \in Block(C.mem) /\ offset2insns(a, reg, regs) \in Block(C.mem)
         /\ cut2insns(a, reg) \in Work(C.mem, {reg}) /\ cut2insns(a, reg) \in Block(C.mem)
         /\ ChainCode(a, reg, regs) \in Block(C.mem)
<1>0. reg \in Registers /\ IsMem(C.mem) /\ IsChain(a) /\ a.bits \in Nat /\ a.bit \in Nat
  BY TheConfiguration DEF TypedAccess
<1>1. BaseCode(a, reg) \in Block(C.mem)
  BY <1>0, BaseFine
<1>2. offset2insns(a, reg, regs) \in Block(C.mem)
  BY <1>0, OffsetsBlock
<1>3. cut2insns(a, reg) \in Work(C.mem, {reg})
  <2>1. PICK R \in SUBSET Registers : R = {reg}
    BY <1>0
  <2>2. cut2insns(a, reg) \in Work(C.mem, R)
    BY <1>0, <2>1, CutWork
  <2> QED BY <2>1, <2>2
<1>4. cut2insns(a, reg) \in Block(C.mem)
  BY <1>3, WorkIn
<1> QED BY <1>1, <1>2, <1>3, <1>4, BlockJoin DEF ChainCode

\* A chain's code leaves the registers in use what they are, and its value in its
\* register: even if it leaves by the exit label, for it has written it by then.
LEMMA ChainRan ==
  ASSUME CompInv, ~m.bad, ~m.exit, m.regs[ArgsReg] # Junk, NEW a, TypedAccess(a), NEW reg \in Registers,
         a.base = "computed" => m.regs[reg] # Junk,
         NEW regs, regs = used \cup {reg}, regs \cap Lost(a) = {}, ArgsReg \in used
  PROVE  LET x == Steps(m, ChainCode(a, reg, regs), C.mem)
         IN  /\ ~x.bad /\ x.regs[reg] # Junk
             /\ \A r \in used : m.regs[r] # Junk => x.regs[r] # Junk
<1>0. /\ m \in Machines /\ m.skip = 0 /\ conf \in DOMAIN Confs /\ IsMem(C.mem)
      /\ regs \in SUBSET Registers /\ reg \in regs /\ IsChain(a)
  BY TheConfiguration DEF CompInv, TypedAccess
<1>1. PICK b, o, c : b = BaseCode(a, reg) /\ o = offset2insns(a, reg, regs) /\ c = cut2insns(a, reg)
  OBVIOUS
<1>2. /\ b \in Block(C.mem) /\ o \in Block(C.mem) /\ c \in Block(C.mem)
      /\ c \in Work(C.mem, {reg}) /\ ~JumpsToExit(b)
  BY <1>0, <1>1, ChainBlock, BaseFine
<1>3. PICK K \in SUBSET Registers : K = WrittenRegs \ Lost(a)
  BY DEF WrittenRegs
<1>4. ArgsReg \in K /\ (a.base = "computed" => reg \in K) /\ \A r \in used : m.regs[r] # Junk => r \in K
  BY <1>0, <1>3, Ranges DEF WrittenRegs
<1>5. PICK x1 \in Machines : x1 = Steps(m, b, C.mem) /\ ~x1.exit /\ Has(x1, K, {reg})
  <2>1. PICK x : x = Steps(m, b, C.mem)
    OBVIOUS
  <2>2. x \in Machines /\ ~x.exit
    BY <1>0, <1>2, <2>1, BlockRun DEF JumpsToExit
  <2>3. Fine(C.mem, K, {}, b, {reg})
    BY <1>0, <1>1, <1>4, BaseFine
  <2>4. \A p \in K : m.regs[p] # Junk
    BY <1>3 DEF WrittenRegs
  <2>5. Has(m, K, {})
    BY <1>0, <2>4 DEF Has
  <2>6. Has(x, K, {reg})
    BY <1>0, <2>1, <2>3, <2>5 DEF Fine
  <2> QED BY <2>1, <2>2, <2>6
<1>6. PICK L \in SUBSET Registers : L = K \cup {reg}
  OBVIOUS
<1>7. Has(x1, L, {reg})
  BY <1>5, <1>6 DEF Has, Full, Buf, Registers
<1>8. PICK x2 \in Machines : x2 = Steps(x1, o, C.mem) /\ Has(x2, L, {reg})
  <2>1. L \cap Lost(a) = {}
    BY <1>0, <1>3, <1>6
  <2>2. Fine(C.mem, L, {reg}, o, {reg})
    BY <1>0, <1>1, <2>1, OffsetsFine
  <2>3. Has(Steps(x1, o, C.mem), L, {reg})
    BY <1>7, <2>2 DEF Fine
  <2>4. Steps(x1, o, C.mem) \in Machines
    BY <1>0, <1>2, StepsTyped DEF Block
  <2> QED BY <2>3, <2>4
<1>9. PICK x3 : x3 = Steps(x2, c, C.mem) /\ Has(x3, L, {reg})
  <2>1. PICK D \in SUBSET Registers : D = {reg}
    OBVIOUS
  <2>2. c \in Work(C.mem, L \cup D)
    BY <1>2, <2>1 DEF Work, Plain
  <2>3. Fine(C.mem, L, D, c, D)
    BY <1>0, <2>2, WorkFine
  <2> QED BY <1>8, <2>1, <2>3 DEF Fine
<1>10. Steps(m, ChainCode(a, reg, regs), C.mem) = x3
  <2>1. /\ b \in Seq(Good(C.mem)) /\ o \in Seq(Good(C.mem)) /\ c \in Seq(Good(C.mem))
        /\ b \o o \in Block(C.mem)
    BY <1>2, BlockJoin DEF Block
  <2>2. PICK s \in Seq(Good(C.mem)) : s = b \o o
    BY <2>1 DEF Block
  <2>3. Steps(m, s \o c, C.mem) = Steps(Steps(m, s, C.mem), c, C.mem)
    BY <1>0, <2>1, StepsJoin
  <2>4. Steps(m, s, C.mem) = x2
    BY <1>0, <1>5, <1>8, <2>1, <2>2, StepsJoin
  <2>5. ChainCode(a, reg, regs) = s \o c
    BY <1>1, <2>2 DEF ChainCode
  <2> QED BY <1>9, <2>3, <2>4, <2>5
<1>11. ~x3.bad /\ x3.regs[reg] # Junk /\ \A r \in K : x3.regs[r] # Junk
  BY <1>6, <1>9 DEF Has
<1> QED BY <1>4, <1>10, <1>11

\* The value of a chain: y, but for its departures and where it comes from.
Remarked(y, odd, null, late) == [y EXCEPT !.odd = odd, !.null = null, !.late = late]

\* What a chain leaves is a value in its register.
LEMMA ChainValue ==
  ASSUME conf \in DOMAIN Confs, NEW a, TypedAccess(a), NEW reg \in Allocatable, NEW odd, NEW null, NEW late,
         NEW x, x = Loaded(reg, a.t, a.bits, InCAccess(a)), NEW e, e = Remarked(x, odd, null, late)
  PROVE  Typed(e) /\ IsReg(e) /\ e.v = reg /\ e.late = late
<1>1. PICK t \in AllTypes, bits \in Nat, w \in Refs : t = a.t /\ bits = a.bits /\ w = InCAccess(a)
  BY TheConfiguration, LoadTyped DEF TypedAccess
<1>2. x = Loaded(reg, t, bits, w)
  BY <1>1
<1>3. Typed(x) /\ IsReg(x) /\ x.v = reg
  BY <1>2, LoadedTyped
<1>4. PICK typ, v, ty, b, ref, step : /\ typ = x.typ /\ v = x.v /\ ty = x.t /\ b = x.bits
                                      /\ ref = x.ref /\ step = x.step
  OBVIOUS
<1>5. x = [typ |-> typ, v |-> v, t |-> ty, bits |-> b, ref |-> ref,
           step |-> step, odd |-> x.odd, null |-> x.null, late |-> x.late]
  BY <1>3, <1>4 DEF Typed, IsValue
<1>6. e = [typ |-> typ, v |-> v, t |-> ty, bits |-> b, ref |-> ref,
           step |-> step, odd |-> odd, null |-> null, late |-> late]
  <2>1. PICK o, n, l : o = x.odd /\ n = x.null /\ l = x.late
    OBVIOUS
  <2>2. PICK e1 : e1 = [x EXCEPT !.odd = odd]
    OBVIOUS
  <2>3. e1 = [typ |-> typ, v |-> v, t |-> ty, bits |-> b, ref |-> ref,
              step |-> step, odd |-> odd, null |-> n, late |-> l]
    BY <1>5, <2>1, <2>2
  <2>4. PICK e2 : e2 = [e1 EXCEPT !.null = null]
    OBVIOUS
  <2>5. e2 = [typ |-> typ, v |-> v, t |-> ty, bits |-> b, ref |-> ref,
              step |-> step, odd |-> odd, null |-> null, late |-> l]
    BY <2>3, <2>4
  <2>6. e = [e2 EXCEPT !.late = late]
    BY <2>2, <2>4 DEF Remarked
  <2> QED BY <2>5, <2>6
<1>7. e.typ = typ /\ e.v = v /\ e.t = ty /\ e.bits = b
  BY <1>6
<1>8. e.ref = ref /\ e.step = step
  BY <1>6
<1>9. e.late = late
  BY <1>6
<1>10. IsValue(e)
  BY <1>6 DEF IsValue
<1> QED BY <1>3, <1>4, <1>7, <1>8, <1>9, <1>10 DEF Typed, IsReg

\* A chain leaves its value where it is read from, and every other in its place.
LEMMA AccessDoneNode ==
  ASSUME RegInv, CompInv, HeldInv, AccessDone
  PROVE  CompInv' /\ HeldInv'
<1>0. phase = "compile" /\ acc # NoAccess /\ conf \in DOMAIN Confs /\ TypedAccess(acc)
  BY DEF AccessDone, CompInv
<1>1. CASE Stops
  BY <1>0, <1>1, StopsLeave
<1>2. CASE ~Stops
  <2>1. acc.base # "computed" => CanAlloc(used)
    BY <1>2 DEF AccessDone, Stops
  <2>2. PICK reg \in Allocatable : reg = IF acc.base = "computed" THEN acc.v ELSE Alloc(used)
    BY <1>0, <2>1, AllocFree DEF TypedAccess
  <2>3. reg \in Registers
    BY Ranges
  <2>4. PICK regs \in SUBSET Registers : regs = used \cup {reg}
    BY <2>3 DEF CompInv
  <2>5. PICK odd, late : odd = AccessDepartures(acc) /\ late = IF acc.base = "computed" THEN acc.late ELSE labelUsed
    OBVIOUS
  <2>6. PICK x : x = Loaded(reg, acc.t, acc.bits, InCAccess(acc))
    OBVIOUS
  <2>7. PICK e, null : e = Remarked(x, odd, null, late) /\ null = acc.null
    OBVIOUS
  <2>8. e = [x EXCEPT !.odd = AccessDepartures(acc), !.null = acc.null,
                      !.late = IF acc.base = "computed" THEN acc.late ELSE @]
    <3>1. PICK y : y = Value("reg", reg, acc.t, acc.bits, InCAccess(acc))
      OBVIOUS
    <3>2. IsValue(y)
      BY <3>1, ValueShape
    <3>3. x = [y EXCEPT !.late = labelUsed]
      BY <2>6, <3>1 DEF Loaded
    <3>4. x.late = labelUsed /\ IsValue(x)
      BY <3>2, <3>3 DEF IsValue
    <3> QED BY <2>5, <2>7, <3>4 DEF IsValue, Remarked
  <2>9. PICK code : code = ChainCode(acc, reg, regs)
    OBVIOUS
  <2>10. /\ stack' = Append(stack, e) /\ used' = regs
         /\ m' = Run(m, code, C.mem)
         /\ last' = IF code = <<>> THEN last ELSE Last(code)
         /\ top' = "access" /\ acc' = NoAccess
         /\ labelUsed' = (labelUsed \/ JumpsToExit(code))
         /\ spilled' = (spilled \/ regs \cap Lost(acc) # {})
         /\ UNCHANGED <<conf, phase>>
    BY <1>2, <2>2, <2>4, <2>6, <2>8, <2>9, Zenon DEF AccessDone, Stops, ChainCode, BaseCode, JumpsToExit
  <2>11. Typed(e) /\ IsReg(e) /\ e.v = reg /\ e.late = late
    BY <1>0, <2>6, <2>7, ChainValue
  <2>12. code \in Block(C.mem)
    BY <1>0, <2>4, <2>9, ChainBlock
  <2>13. "access" \notin FilterOps
    BY DEF FilterOps, Comparisons
  <2>14. Emits(0, e, "access", code) /\ 0 <= Len(stack)
    <3>1. Below(0) = stack /\ 0 <= Len(stack)
      BY DEF Below, RegInv
    <3>2. labelUsed' \in BOOLEAN /\ spilled' \in BOOLEAN /\ (labelUsed => labelUsed')
          /\ (spilled => spilled') /\ (JumpsToExit(code) => labelUsed')
      BY <2>10, Zenon
    <3> QED BY <2>10, <3>1, <3>2 DEF Emits
  <2>15. ~spilled' => Ran(e, code)
    <3> SUFFICES ASSUME ~spilled' PROVE Ran(e, code)
      OBVIOUS
    <3>1. ~spilled /\ regs \cap Lost(acc) = {}
      BY <2>10, Zenon
    <3>2. /\ ~m.bad /\ m.regs[ArgsReg] # Junk /\ (m.exit => labelUsed)
          /\ acc.base = "computed" /\ (m.exit => ~acc.late) => m.regs[acc.v] # Junk
      BY <1>0, <3>1 DEF HeldInv
    <3>3. CASE m.exit
      <4>1. Readable(e, m)
        BY <2>2, <2>5, <2>11, <3>2, <3>3 DEF Readable
      <4> QED BY <2>12, <3>2, <3>3, <4>1, LeftRan
    <3>4. CASE ~m.exit
      <4>1. ArgsReg \in used
        BY DEF RegInv, Reserved
      <4>2. acc.base = "computed" => m.regs[reg] # Junk
        BY <2>2, <3>2, <3>4
      <4>3. PICK y : y = Steps(m, code, C.mem)
        OBVIOUS
      <4>4. /\ ~y.bad /\ y.regs[reg] # Junk
            /\ \A r \in used : m.regs[r] # Junk => y.regs[r] # Junk
        BY <1>0, <2>3, <2>4, <2>9, <3>1, <3>2, <3>4, <4>1, <4>2, <4>3, ChainRan
      <4> QED BY <2>11, <4>3, <4>4 DEF Ran, Readable
    <3> QED BY <3>3, <3>4
  <2>16. Sound(e, "access", code)
    BY <2>11, <2>12, <2>13, <2>15 DEF Sound
  <2>17. 0 \in Nat
    OBVIOUS
  <2> QED BY <1>0, <2>11, <2>12, <2>14, <2>16, <2>17, NodeTyped, NodeHeld
<1> QED BY <1>1, <1>2

-----------------------------------------------------------------------------
(* The end of the program.                                                 *)

\* One instruction, run on its own.
LEMMA OneRun ==
  ASSUME NEW x \in Machines, x.skip = 0, NEW mem, IsMem(mem), NEW i \in Good(mem), Lands(i, 0)
  PROVE  LET y == Run(x, <<i>>, mem)
         IN  /\ y \in Machines /\ y.skip = 0
             /\ \A R \in SUBSET Registers : i \in Plain(mem, R) /\ ~x.bad /\ (~x.exit => Holding(x, R)) =>
                  ~y.bad /\ \A r \in Registers : x.regs[r] # Junk => y.regs[r] # Junk
<1>1. PICK code \in Block(mem) : code = <<i>>
  BY BlockOf
<1>2. PICK x1 : x1 = Steps(x, code, mem)
  OBVIOUS
<1>3. x1 \in Machines /\ x1.skip = 0
  BY <1>2, BlockRun
<1>4. PICK y : y = Run(x, <<i>>, mem)
  OBVIOUS
<1>5. y = [x1 EXCEPT !.stack = [s \in Slots |-> Junk]]
  BY <1>1, <1>2, <1>4 DEF Run
<1>6. y \in Machines /\ y.skip = 0 /\ y.regs = x1.regs /\ y.bad = x1.bad
  BY <1>3, <1>5 DEF Machines
<1>7. y.bad <=> x1.bad
  BY <1>6, Zenon
<1>8. ASSUME NEW R \in SUBSET Registers, i \in Plain(mem, R), ~x.bad, ~x.exit => Holding(x, R)
      PROVE  ~y.bad /\ \A r \in Registers : x.regs[r] # Junk => y.regs[r] # Junk
  <2>1. code \in Work(mem, R)
    BY <1>1, <1>8, WorkOf
  <2>2. ~x1.bad /\ \A r \in Registers : x.regs[r] # Junk => x1.regs[r] # Junk
    BY <1>2, <1>8, <2>1, WorkRun
  <2> QED BY <1>6, <1>7, <2>2
<1> QED BY <1>4, <1>6, <1>8

\* The last instruction of a filter leaves a word in its register.
LEMMA ClosesPlain ==
  ASSUME NEW mem, NEW v \in Registers, NEW op, NEW i, Closes(op, i, v)
  PROVE  i \in Plain(mem, {v}) /\ Lands(i, 0)
<1>1. PICK R \in SUBSET Registers : R = {v}
  OBVIOUS
<1>2. v \in R /\ 1 \in Int /\ 0 \in Nat /\ "mov" \in AluOps /\ "xor" \in AluOps \ {"neg"}
  BY <1>1 DEF AluOps
<1>3. AluReg("xor", v, v) \in Plain(mem, R) /\ Lands(AluReg("xor", v, v), 0)
  BY <1>2, PlainIs
<1>4. AluImm("mov", v, 1) \in Plain(mem, R) /\ Lands(AluImm("mov", v, 1), 0)
  BY <1>2, PlainIs
<1> QED BY <1>1, <1>3, <1>4 DEF Closes

\* The result is moved to r0.
LEMMA ResultPlain ==
  ASSUME NEW mem, NEW v \in Registers
  PROVE  LET i == AluReg("mov", 0, v) IN i \in Plain(mem, {v}) /\ i \in Good(mem) /\ Lands(i, 0)
<1>1. PICK i : i = AluReg("mov", 0, v)
  OBVIOUS
<1>2. i.op = "mov" /\ i.dst = 0 /\ i.imm = FALSE /\ i.src = v /\ i.off = 0
  BY <1>1 DEF AluReg, Insn
<1>3. i \in Insns
  BY <1>1 DEF AluReg, Insn, Insns, Ops, AluOps, Registers
<1>4. PICK R \in SUBSET Registers : R = {v}
  OBVIOUS
<1>5. "mov" \in AluOps /\ "mov" \notin Jumps
  BY DEF AluOps, Jumps, Conds
<1>6. /\ i.op \in AluOps \cup Jumps /\ i.off \in Nat
      /\ i.op # "ja" /\ i.op # "mov" => i.dst \in R
      /\ i.op # "ja" /\ ~i.imm => i.src \in R /\ i.op # "neg"
  BY <1>2, <1>4, <1>5
<1>7. i \in Plain(mem, R) /\ (i.op \notin Jumps \/ i.off <= 0 => Lands(i, 0))
  BY <1>3, <1>6, PlainInsn
<1>8. Lands(i, 0)
  BY <1>2, <1>5, <1>7
<1> QED BY <1>1, <1>4, <1>7, <1>8 DEF Plain

\* Only the jumps of a machine are reset.
LEMMA Reset ==
  ASSUME NEW x \in Machines
  PROVE  /\ LET y == [x EXCEPT !.exit = FALSE]
            IN  y \in Machines /\ y.skip = x.skip /\ y.regs = x.regs /\ (y.bad <=> x.bad) /\ ~y.exit
         /\ LET y == [x EXCEPT !.skip = 0]
            IN  y \in Machines /\ y.skip = 0 /\ y.regs = x.regs /\ (y.bad <=> x.bad) /\ (y.exit <=> x.exit)
         /\ \A z \in Machines :
            LET y == [x EXCEPT !.exit = z.exit]
            IN  y \in Machines /\ y.skip = x.skip /\ y.regs = x.regs /\ (y.bad <=> x.bad) /\ (y.exit <=> z.exit)
<1>2. PICK y : y = [x EXCEPT !.exit = FALSE]
  OBVIOUS
<1>3. y \in Machines /\ y.skip = x.skip /\ y.regs = x.regs /\ (y.bad <=> x.bad) /\ ~y.exit
  <2>1. y.bad = x.bad /\ y.exit = FALSE
    BY <1>2 DEF Machines
  <2>2. (y.bad <=> x.bad) /\ ~y.exit
    BY <2>1, Zenon
  <2> QED BY <1>2, <2>2 DEF Machines
<1>4. PICK z : z = [x EXCEPT !.skip = 0]
  OBVIOUS
<1>5. z \in Machines /\ z.skip = 0 /\ z.regs = x.regs /\ (z.bad <=> x.bad) /\ (z.exit <=> x.exit)
  <2>1. z \in Machines /\ z.skip = 0 /\ z.regs = x.regs /\ z.bad = x.bad /\ z.exit = x.exit
    BY <1>4 DEF Machines
  <2>2. (z.bad <=> x.bad) /\ (z.exit <=> x.exit)
    BY <2>1, Zenon
  <2> QED BY <2>1, <2>2
<1>6. ASSUME NEW w \in Machines, NEW u, u = [x EXCEPT !.exit = w.exit]
      PROVE  u \in Machines /\ u.skip = x.skip /\ u.regs = x.regs /\ (u.bad <=> x.bad) /\ (u.exit <=> w.exit)
  <2>1. u \in Machines /\ u.skip = x.skip /\ u.regs = x.regs /\ u.bad = x.bad /\ u.exit = w.exit
    BY <1>6 DEF Machines
  <2>2. (u.bad <=> x.bad) /\ (u.exit <=> w.exit)
    BY <2>1, Zenon
  <2> QED BY <2>1, <2>2
<1> QED BY <1>2, <1>3, <1>4, <1>5, <1>6

\* The last instruction of a filter leaves 0, or 1 but for "||" only.
LEMMA ClosesRun ==
  ASSUME NEW x \in Machines, x.skip = 0, ~x.exit, NEW mem, IsMem(mem), NEW v \in Registers,
         NEW op, NEW i \in Good(mem), Closes(op, i, v), ~Run(x, <<i>>, mem).bad
  PROVE  Run(x, <<i>>, mem).regs[v] = 0 \/ op = "oror"
<1> SUFFICES ASSUME op # "oror" PROVE Run(x, <<i>>, mem).regs[v] = 0
  OBVIOUS
<1>1. i = AluReg("xor", v, v)
  BY DEF Closes
<1>2. /\ i.op = "xor" /\ i.dst = v /\ ~i.imm /\ i.src = v
      /\ Reads(i) = {v} /\ i.op \in AluOps
  BY <1>1 DEF AluReg, Insn, Reads, AluOps, Conds
<1>3. PICK y : y = Step(x, i, mem)
  OBVIOUS
<1>4. y \in Machines /\ Run(x, <<i>>, mem) = [y EXCEPT !.stack = [s \in Slots |-> Junk]]
  BY <1>3, StepsOne, StepTyped DEF Run
<1>5. Run(x, <<i>>, mem).regs = y.regs /\ Run(x, <<i>>, mem).bad = y.bad
  BY <1>4 DEF Machines
<1>6. ~y.bad
  BY <1>5, Zenon
<1>7. x.regs[v] # Junk /\ ~x.bad /\ y = Exec(x, i, mem)
  <2>1. ~x.bad
    BY <1>3, <1>6 DEF Step
  <2>2. y = IF \E r \in Reads(i) : x.regs[r] = Junk THEN Bad(x) ELSE Exec(x, i, mem)
    BY <1>3, <2>1 DEF Step
  <2>3. Bad(x).bad
    BY DEF Bad, Machines
  <2> QED BY <1>2, <1>6, <2>1, <2>2, <2>3
<1>8. x.regs[v] \in Words /\ x.regs \in Regs
  BY <1>7 DEF Machines, Regs
<1>9. y = Put(x, v, Alu("xor", x.regs[v], x.regs[v]))
  <2>1. i.op \notin Conds /\ i.op \notin {"ja", "arg", "ldx", "fp", "spill", "fill", "probe", "cast"}
    BY <1>2 DEF Conds
  <2>2. Exec(x, i, mem) = Put(x, i.dst, Alu(i.op, x.regs[i.dst], x.regs[i.src]))
    BY <1>2, <2>1 DEF Exec
  <2> QED BY <1>2, <1>7, <2>2
<1>10. Alu("xor", x.regs[v], x.regs[v]) = 0
  BY <1>8, BitWord DEF Alu
<1>11. y.regs[v] = 0
  BY <1>8, <1>9, <1>10 DEF Put, Machines, Regs
<1> QED BY <1>5, <1>11

\* What is moved to r0.
LEMMA MovedRun ==
  ASSUME NEW x \in Machines, x.skip = 0, ~x.exit, NEW mem, IsMem(mem), NEW v \in Registers,
         ~Run(x, <<AluReg("mov", 0, v)>>, mem).bad
  PROVE  Run(x, <<AluReg("mov", 0, v)>>, mem).regs[0] = x.regs[v] /\ ~x.bad
<1>1. PICK i : i = AluReg("mov", 0, v)
  OBVIOUS
<1>2. /\ i.op = "mov" /\ i.dst = 0 /\ ~i.imm /\ i.src = v /\ i.op \in AluOps /\ i \in Good(mem)
  BY <1>1, ResultPlain DEF AluReg, Insn, AluOps
<1>3. PICK y : y = Step(x, i, mem)
  OBVIOUS
<1>4. y \in Machines /\ Run(x, <<i>>, mem) = [y EXCEPT !.stack = [s \in Slots |-> Junk]]
  BY <1>2, <1>3, StepsOne, StepTyped DEF Run
<1>5. Run(x, <<i>>, mem).regs = y.regs /\ Run(x, <<i>>, mem).bad = y.bad
  BY <1>4 DEF Machines
<1>6. ~y.bad
  BY <1>1, <1>5, Zenon
<1>7. ~x.bad /\ y = Exec(x, i, mem)
  <2>1. ~x.bad
    BY <1>3, <1>6 DEF Step
  <2>2. y = IF \E r \in Reads(i) : x.regs[r] = Junk THEN Bad(x) ELSE Exec(x, i, mem)
    BY <1>3, <2>1 DEF Step
  <2>3. Bad(x).bad
    BY DEF Bad, Machines
  <2> QED BY <1>6, <2>1, <2>2, <2>3
<1>8. y = Put(x, 0, x.regs[v])
  <2>1. i.op \notin Conds /\ i.op \notin {"ja", "arg", "ldx", "fp", "spill", "fill", "probe", "cast"}
    BY <1>2 DEF Conds
  <2>2. Exec(x, i, mem) = Put(x, i.dst, Alu(i.op, x.regs[i.dst], x.regs[i.src]))
    BY <1>2, <2>1 DEF Exec
  <2>3. Alu(i.op, x.regs[i.dst], x.regs[i.src]) = x.regs[v]
    BY <1>2 DEF Alu
  <2> QED BY <1>2, <1>7, <2>2, <2>3
<1>9. y.regs[0] = x.regs[v]
  BY <1>8, Ranges DEF Put, Machines, Regs
<1> QED BY <1>1, <1>5, <1>7, <1>9

\* A filter's result is a machine; it read a register before it was written only
\* if the result's was written too late, and rejects if it left.
LEMMA Ended ==
  ASSUME CompInv, NEW v \in Registers
  PROVE  LET y == EndFilter(v)
         IN  /\ y \in Machines /\ y.skip = 0 /\ (y.exit <=> m.exit)
             /\ ~m.bad /\ (~m.exit => m.regs[v] # Junk)
                /\ (m.exit => labelUsed /\ m.regs[v] # Junk /\ \E op : Closes(op, last, v)) => ~y.bad
             /\ ~y.bad /\ m.exit /\ labelUsed => \A op : Closes(op, last, v) => y.regs[0] = 0 \/ op = "oror"
<1>0. m \in Machines /\ m.skip = 0 /\ IsMem(C.mem) /\ last \in Good(C.mem) /\ Lands(last, 0) /\ m.exit \in BOOLEAN
  BY TheConfiguration DEF CompInv, Machines
<1>1. PICK m1 : m1 = [m EXCEPT !.exit = FALSE]
  OBVIOUS
<1>2. m1 \in Machines /\ m1.skip = 0 /\ m1.regs = m.regs /\ (m1.bad <=> m.bad) /\ ~m1.exit
  BY <1>0, <1>1, Reset
<1>3. PICK m2 : m2 = Run(m1, <<last>>, C.mem)
  OBVIOUS
<1>4. m2 \in Machines /\ m2.skip = 0
  BY <1>0, <1>2, <1>3, OneRun
<1>5. PICK landed : landed = IF m.exit /\ labelUsed THEN m2 ELSE m
  OBVIOUS
<1>6. landed \in Machines
  BY <1>0, <1>4, <1>5
<1>7. PICK m3 : m3 = [landed EXCEPT !.exit = FALSE, !.skip = 0]
  OBVIOUS
<1>8. m3 \in Machines /\ m3.skip = 0 /\ m3.regs = landed.regs /\ (m3.bad <=> landed.bad) /\ ~m3.exit
  <2>1. PICK x : x = [landed EXCEPT !.exit = FALSE]
    OBVIOUS
  <2>2. x \in Machines /\ x.regs = landed.regs /\ (x.bad <=> landed.bad) /\ ~x.exit
    BY <1>6, <2>1, Reset
  <2>3. m3 = [x EXCEPT !.skip = 0]
    BY <1>7, <2>1
  <2> QED BY <2>2, <2>3, Reset
<1>9. PICK i : i = AluReg("mov", 0, v)
  OBVIOUS
<1>10. i \in Plain(C.mem, {v}) /\ i \in Good(C.mem) /\ Lands(i, 0)
  BY <1>9, ResultPlain
<1>11. PICK m4 : m4 = Run(m3, <<i>>, C.mem)
  OBVIOUS
<1>12. m4 \in Machines /\ m4.skip = 0
  BY <1>0, <1>8, <1>10, <1>11, OneRun
<1>13. PICK y : y = [m4 EXCEPT !.exit = m.exit]
  OBVIOUS
<1>14. y \in Machines /\ y.skip = 0 /\ y.regs = m4.regs /\ (y.bad <=> m4.bad) /\ (y.exit <=> m.exit)
  BY <1>0, <1>12, <1>13, Reset
<1>15. y = EndFilter(v)
  BY <1>1, <1>3, <1>5, <1>7, <1>9, <1>11, <1>13 DEF EndFilter
<1>16. PICK R \in SUBSET Registers : R = {v}
  OBVIOUS
<1>17. ASSUME ~landed.bad, landed.regs[v] # Junk PROVE ~y.bad
  <2>1. Holding(m3, R) /\ ~m3.bad
    BY <1>8, <1>16, <1>17 DEF Holding
  <2>2. ~m4.bad
    BY <1>0, <1>8, <1>10, <1>11, <1>16, <2>1, OneRun
  <2> QED BY <1>14, <2>2
<1>18. ASSUME ~m.bad, ~m.exit, m.regs[v] # Junk PROVE ~y.bad
  BY <1>5, <1>17, <1>18
<1>19. ASSUME ~m.bad, m.exit, labelUsed, m.regs[v] # Junk, NEW op, Closes(op, last, v) PROVE ~y.bad
  <2>1. last \in Plain(C.mem, R)
    BY <1>16, <1>19, ClosesPlain
  <2>2. Holding(m1, R) /\ ~m1.bad
    BY <1>2, <1>16, <1>19 DEF Holding
  <2>3. ~m2.bad /\ m2.regs[v] # Junk
    BY <1>0, <1>2, <1>3, <1>19, <2>1, <2>2, OneRun
  <2> QED BY <1>5, <1>17, <1>19, <2>3
<1>20. ASSUME ~y.bad, m.exit, labelUsed, NEW op, Closes(op, last, v) PROVE y.regs[0] = 0 \/ op = "oror"
  <2>1. landed = m2 /\ ~m4.bad
    BY <1>5, <1>14, <1>20
  <2>2. m4.regs[0] = m3.regs[v] /\ ~m3.bad
    BY <1>0, <1>8, <1>9, <1>11, <2>1, MovedRun
  <2>3. ~m2.bad
    BY <1>8, <2>1, <2>2
  <2>4. m2.regs[v] = 0 \/ op = "oror"
    BY <1>0, <1>2, <1>3, <1>20, <2>3, ClosesRun
  <2> QED BY <1>8, <1>14, <2>1, <2>2, <2>4
<1> QED BY <1>14, <1>15, <1>18, <1>19, <1>20

\* The end of the program reads nothing unwritten but a late result.
LEMMA FinishNode ==
  ASSUME RegInv, CompInv, HeldInv, Finish
  PROVE  CompInv' /\ HeldInv' /\ NoUninit' /\ ExitRejects'
<1>0. phase = "compile" /\ acc = NoAccess /\ Len(stack) = 1
  BY DEF Finish
<1>1. CASE Stops
  <2>1. CompInv' /\ HeldInv' /\ phase' # "done"
    BY <1>0, <1>1, StopsLeave DEF Stops, Stop
  <2> QED BY <2>1 DEF HeldInv, NoUninit, ExitRejects
<1>2. CASE ~Stops
  <2>1. PICK e : e = stack[1]
    OBVIOUS
  <2>2. /\ IsReg(e) /\ (C.kind = "filter" => top \in FilterOps)
        /\ phase' = "done" /\ m' = (IF C.kind = "filter" THEN EndFilter(e.v) ELSE m)
        /\ UNCHANGED <<conf, stack, acc, used, labelUsed, last, top, nodes, spilled>>
    BY <1>2, <2>1 DEF Finish, Stops
  <2>3. Typed(e) /\ e.v \in Registers
    BY <1>0, <2>1, <2>2, TypedOperand DEF CompInv
  <2>4. PICK y : y = EndFilter(e.v)
    OBVIOUS
  <2>5. /\ y \in Machines /\ y.skip = 0 /\ (y.exit <=> m.exit)
        /\ ~m.bad /\ (~m.exit => m.regs[e.v] # Junk)
           /\ (m.exit => labelUsed /\ m.regs[e.v] # Junk /\ \E op : Closes(op, last, e.v)) => ~y.bad
        /\ ~y.bad /\ m.exit /\ labelUsed => \A op : Closes(op, last, e.v) => y.regs[0] = 0 \/ op = "oror"
    BY <2>3, <2>4, Ended
  <2>6. m' \in Machines /\ m'.skip = 0
    BY <2>2, <2>4, <2>5 DEF CompInv
  <2>7. C' = C
    BY <2>2 DEF C
  <2>8. \A i \in 1..Len(stack') : Typed(stack'[i])
    BY <2>2 DEF CompInv
  <2>9. (\A i \in 1..Len(stack) : Typed(stack[i]))'
    BY <2>8 DEF Typed, IsValue, IsReg, AllTypes, Refs
  <2>10. CompInv'
    BY <1>0, <2>2, <2>6, <2>7, <2>9 DEF CompInv
  <2>11. HeldInv'
    BY <2>2 DEF HeldInv
  <2>12. ASSUME ~spilled, m'.bad PROVE m'.exit /\ e.late
    <3>1. ~m.bad /\ Readable(e, m) /\ (m.exit => labelUsed)
      BY <1>0, <2>1, <2>12 DEF HeldInv
    <3>2. C.kind = "filter" /\ m' = y
      BY <2>2, <2>4, <2>12, <3>1
    <3>3. Closes(top, last, e.v)
      BY <1>0, <2>1, <2>2, <2>12, <3>2 DEF HeldInv
    <3>4. ~m.exit => m.regs[e.v] # Junk
      BY <2>2, <3>1 DEF Readable
    <3>5. m.exit /\ ~(m.regs[e.v] # Junk)
      BY <2>5, <2>12, <3>1, <3>2, <3>3, <3>4
    <3> QED BY <2>2, <2>5, <3>1, <3>2, <3>5 DEF Readable
  <2>13. NoUninit'
    BY <2>1, <2>2, <2>12 DEF NoUninit
  <2>14. ExitRejects'
    <3> SUFFICES ASSUME m'.exit, ~m'.bad, C.kind = "filter" PROVE m'.regs[0] = 0 \/ top = "oror"
      BY <2>2, <2>7 DEF ExitRejects
    <3>1. m' = y /\ m.exit /\ top \in FilterOps
      BY <2>2, <2>4, <2>5
    <3>2. labelUsed /\ Closes(top, last, e.v)
      BY <1>0, <2>1, <2>2, <3>1 DEF HeldInv
    <3> QED BY <2>5, <3>1, <3>2
  <2> QED BY <2>10, <2>11, <2>13, <2>14
<1> QED BY <1>1, <1>2

-----------------------------------------------------------------------------
(* The theorems.                                                           *)

\* The invariant holds before the first node.
LEMMA CompilerInit == Init => CompInv /\ HeldInv /\ NoUninit /\ ExitRejects
<1> SUFFICES ASSUME Init PROVE CompInv /\ HeldInv /\ NoUninit /\ ExitRejects
  OBVIOUS
<1>1. Len(stack) = 0 /\ acc = NoAccess /\ phase = "compile" /\ conf \in DOMAIN Confs
      /\ ~labelUsed /\ ~spilled /\ last = Ja(0) /\ top = "none"
  BY DEF Init
<1>2. used \subseteq Registers
  BY DEF Init, Reserved, Registers, ArgsReg
<1>3. Ja(0) \in Good(C.mem) /\ Lands(Ja(0), 0)
  <2>1. PICK R \in SUBSET Registers : R = {}
    OBVIOUS
  <2>2. 0 \in Nat /\ 0 <= 0
    OBVIOUS
  <2>3. Ja(0) \in Plain(C.mem, R) /\ Lands(Ja(0), 0)
    BY <2>1, <2>2, PlainIs
  <2> QED BY <2>3 DEF Plain
<1>4. PICK regs : regs = [r \in Registers |-> IF r = ArgsReg \/ (C.kind = "filter" /\ r = 1)
                                                \/ (C.kind = "output" /\ r \in {2, 8}) THEN 0 ELSE Junk]
  OBVIOUS
<1>5. m = Machine(regs)
  BY <1>4 DEF Init
<1>6. regs \in Regs /\ regs[ArgsReg] = 0
  BY <1>4, Ranges DEF Regs
<1>7. m = [regs |-> regs, stack |-> [s \in Slots |-> Junk], skip |-> 0, exit |-> FALSE, bad |-> FALSE]
  BY <1>5 DEF Machine
<1>8. m \in Machines /\ m.skip = 0 /\ m.regs = regs
  BY <1>6, <1>7 DEF Machines
<1>9. m.exit = FALSE /\ m.bad = FALSE
  BY <1>7
<1>10. ~m.exit /\ ~m.bad
  BY <1>9, Zenon
<1>11. CompInv
  <2>1. labelUsed \in BOOLEAN /\ spilled \in BOOLEAN
    BY DEF Init
  <2>2. last \in Good(C.mem) /\ Lands(last, 0)
    BY <1>1, <1>3
  <2>3. \A i \in 1..Len(stack) : Typed(stack[i])
    BY <1>1
  <2> QED BY <1>1, <1>2, <1>8, <2>1, <2>2, <2>3 DEF CompInv
<1>12. HeldInv
  BY <1>1, <1>6, <1>8, <1>10, Ranges DEF HeldInv
<1>13. NoUninit /\ ExitRejects
  BY <1>1, <1>10 DEF NoUninit, ExitRejects
<1> QED BY <1>11, <1>12, <1>13

\* A step that does not end the program.
LEMMA NodeNext ==
  ASSUME RegInv, CompInv, HeldInv,
         \/ EvalNumber \/ EvalName \/ EvalCond
         \/ \E op \in BinaryOps : EvalBinary(op)
         \/ \E op \in UnaryOps : EvalUnary(op)
         \/ \E t \in C.casts : EvalCast(t)
         \/ AccessVariable \/ AccessNumber \/ AccessComputed
  PROVE  CompInv' /\ HeldInv'
<1>1. phase = "compile" /\ acc = NoAccess
  BY DEF EvalNumber, EvalName, EvalCond, EvalBinary, EvalUnary, EvalCast,
         AccessVariable, AccessNumber, AccessComputed, Compiling
<1>2. AtNode
  BY <1>1 DEF AtNode
<1> QED BY <1>2, EvalNumberNode, EvalNameNode, EvalCondNode, EvalBinaryNode, EvalUnaryNode,
           EvalCastNode, AccessBaseNode, AccessComputedNode

\* Every step keeps it.
LEMMA CompilerStep ==
  RegInv /\ CompInv /\ HeldInv /\ NoUninit /\ ExitRejects /\ [Next]_vars
    => CompInv' /\ HeldInv' /\ NoUninit' /\ ExitRejects'
<1> SUFFICES ASSUME RegInv, CompInv, HeldInv, NoUninit, ExitRejects, [Next]_vars
             PROVE  CompInv' /\ HeldInv' /\ NoUninit' /\ ExitRejects'
  OBVIOUS
<1>1. ASSUME CompInv', HeldInv', phase' # "done" PROVE NoUninit' /\ ExitRejects'
  BY <1>1 DEF HeldInv, NoUninit, ExitRejects
<1>2. CASE \/ EvalNumber \/ EvalName \/ EvalCond
           \/ \E op \in BinaryOps : EvalBinary(op)
           \/ \E op \in UnaryOps : EvalUnary(op)
           \/ \E t \in C.casts : EvalCast(t)
           \/ AccessVariable \/ AccessNumber \/ AccessComputed
  <2>1. phase' # "done"
    BY <1>2 DEF EvalNumber, EvalName, EvalCond, EvalBinary, EvalUnary, EvalCast,
                AccessVariable, AccessNumber, AccessComputed, Compiling, Chain, Emit, Stop
  <2> QED BY <1>1, <1>2, <2>1, NodeNext
<1>3. CASE \/ \E name \in C.members : AccessMember(name)
           \/ \E i \in C.indices : AccessIndex(i)
           \/ \E n \in C.deltas : AccessAdd(n)
           \/ \E t \in C.casts : AccessCast(t)
           \/ AccessAddr \/ AccessIndir
  <2>1. phase' # "done"
    BY <1>3 DEF AccessMember, AccessIndex, AccessAdd, AccessCast, AccessAddr, AccessIndir,
                Accessing, Chain, Stop
  <2> QED BY <1>1, <1>3, <2>1, AccessStepNode
<1>4. CASE AccessDone
  <2>1. phase' # "done"
    BY <1>4 DEF AccessDone, Stop
  <2> QED BY <1>1, <1>4, <2>1, AccessDoneNode
<1>5. CASE Finish
  BY <1>5, FinishNode
<1>6. CASE UNCHANGED vars
  <2>1. UNCHANGED <<conf, phase, stack, acc, used, m, labelUsed, last, top, nodes, spilled>>
    BY <1>6 DEF vars
  <2>2. C' = C
    BY <2>1 DEF C
  <2>3. HeldInv'
    BY <2>1 DEF HeldInv, Readable, IsReg, Closes, AluReg, AluImm, Insn, FilterOps
  <2>4. \A i \in 1..Len(stack') : Typed(stack'[i])
    BY <2>1 DEF CompInv
  <2>5. (\A i \in 1..Len(stack) : Typed(stack[i]))'
    BY <2>4 DEF Typed, IsValue, IsReg, AllTypes, Refs
  <2>6. (acc # NoAccess => TypedAccess(acc))'
    BY <2>1, <2>2 DEF CompInv, TypedAccess, IsChain, Offsets, AllTypes, Refs, NoAccess
  <2>7. CompInv'
    BY <2>1, <2>2, <2>5, <2>6 DEF CompInv
  <2>8. NoUninit' /\ ExitRejects'
    BY <2>1, <2>2 DEF NoUninit, ExitRejects
  <2> QED BY <2>3, <2>7, <2>8
<1> QED BY <1>2, <1>3, <1>4, <1>5, <1>6 DEF Next

\* A value is a register that the compiler allocates or a word, registers hold
\* words, and no jump of an operator or an access leads beyond its code.
THEOREM CompilerTyped == Spec => []TypeOK
<1>1. RegInv /\ CompInv => TypeOK
  <2> SUFFICES ASSUME RegInv, CompInv PROVE TypeOK
    OBVIOUS
  <2>1. DOMAIN stack = 1..Len(stack)
    BY DEF RegInv
  <2>2. \A i \in 1..Len(stack) : /\ stack[i].v \in (IF IsReg(stack[i]) THEN Allocatable ELSE Words)
                                 /\ stack[i].ref \in Words \cup {Undef}
    BY DEF CompInv, Typed, Refs
  <2>3. m.regs \in [Registers -> Words \cup {Junk}] /\ m.skip = 0
    BY DEF CompInv, Machines, Regs
  <2> QED BY <2>1, <2>2, <2>3 DEF CompInv, TypeOK
<1> QED BY <1>1, RegInit, RegStep, CompilerInit, CompilerStep, PTL DEF Spec

\* No instruction of any compiled program reads a register before it is written,
\* as long as no call loses a register in use; but for the result of a filter that
\* was left before its register was written.
THEOREM NothingUninitialized == Spec => []NoUninit
BY RegInit, RegStep, CompilerInit, CompilerStep, PTL DEF Spec

\* A filter that leaves by the exit label rejects the event, unless the whole
\* expression is "||".
THEOREM LeavingRejects == Spec => []ExitRejects
BY RegInit, RegStep, CompilerInit, CompilerStep, PTL DEF Spec
=============================================================================
