------------------------------ MODULE CcMachine ------------------------------
(***************************************************************************)
(* What the expression compiler of internal/cc compiles for: the registers *)
(* and instructions of a BPF program, with the memory of the kernel that   *)
(* the program reads, and the compiler's register allocator.               *)
(*                                                                         *)
(* A register has 64 bits and an immediate operand 32: in the model 2*Half *)
(* and Half.  The same number stands for the 8 bits of a byte, so that a   *)
(* cell of memory is a byte, and a u32; two cells are a word.              *)
(***************************************************************************)
EXTENDS Integers, Sequences, SequencesExt, FiniteSets

CONSTANT Half   \* bits of an immediate operand and of a cell

ASSUME HalfAssumption == Half \in Nat \ {0}

Low   == 2 ^ Half
Word  == 2 ^ (2 * Half)
Words == 0..(Word - 1)
Junk  == -1     \* what the verifier lets no program read
Undef == -2     \* what C says nothing of

-----------------------------------------------------------------------------
(* Words.                                                                  *)

\* An immediate operand: int32(n), extended with its sign by the machine.
Imm(n) == LET low == n % Low IN IF 2 * low >= Low THEN Word - Low + low ELSE low

Signed(w) == IF 2 * w >= Word THEN w - Word ELSE w

Bit(w, i) == (w \div (2 ^ i)) % 2
BitOf(op, x, y) ==
  CASE op = "and" -> x * y [] op = "or" -> x + y - x * y [] op = "xor" -> (x + y) % 2
BitOp(op, a, b) ==
  LET low[n \in 0..(2 * Half)] ==   \* of the n lowest bits
        IF n = 0 THEN 0 ELSE low[n - 1] + BitOf(op, Bit(a, n - 1), Bit(b, n - 1)) * 2 ^ (n - 1)
  IN  low[2 * Half]

Shifts == 0..(2 * Half - 1)

\* The arithmetic of BPF: dividing by zero gives zero, and a remainder by zero
\* leaves the register alone; shifts take the count modulo the width.
Alu(op, a, b) ==
  CASE op = "mov" -> b
    [] op = "add" -> (a + b) % Word
    [] op = "sub" -> (a - b) % Word
    [] op = "mul" -> (a * b) % Word
    [] op = "div" -> IF b = 0 THEN 0 ELSE a \div b
    [] op = "mod" -> IF b = 0 THEN a ELSE a % b
    [] op \in {"and", "or", "xor"} -> BitOp(op, a, b)
    [] op = "lsh" -> (a * 2 ^ (b % (2 * Half))) % Word
    [] op = "rsh" -> a \div 2 ^ (b % (2 * Half))
    [] op = "neg" -> (Word - a) % Word

AluOps == {"mov", "add", "sub", "mul", "div", "mod", "and", "or", "xor", "lsh", "rsh", "neg"}

Taken(cond, a, b) ==
  CASE cond = "jeq" -> a = b
    [] cond = "jne" -> a # b
    [] cond = "jgt" -> a > b
    [] cond = "jge" -> a >= b
    [] cond = "jlt" -> a < b
    [] cond = "jle" -> a <= b

Conds == {"jeq", "jne", "jgt", "jge", "jlt", "jle"}

-----------------------------------------------------------------------------
(* Instructions.  Every one has all the fields: src is a register or an     *)
(* immediate, off the distance of a jump, or where memory is read.          *)

Insn(op, dst, imm, src, off) == [op |-> op, dst |-> dst, imm |-> imm, src |-> src, off |-> off]

AluImm(op, r, n)     == Insn(op, r, TRUE, n, 0)
AluReg(op, r, s)     == Insn(op, r, FALSE, s, 0)
JmpOff(op, r, n, d)  == Insn(op, r, TRUE, n, d)
JmpReg(op, r, s, d)  == Insn(op, r, FALSE, s, d)
Ja(d)                == Insn("ja", 0, TRUE, 0, d)
LoadArg(r, i)        == Insn("arg", r, TRUE, i, 0)        \* r = args[i]
LoadMem(r, s, o, sz) == Insn("ldx", r, FALSE, s, <<o, sz>>)
Fill(r, slot)        == Insn("fill", r, TRUE, slot, 0)    \* r = stack slot
Spill(slot, r)       == Insn("spill", r, TRUE, slot, 0)
Frame(r)             == Insn("fp", r, TRUE, 0, 0)         \* r = fp - 8
ProbeRead            == Insn("probe", 0, TRUE, 0, 0)      \* bpf_probe_read_kernel
RdonlyCast(n)        == Insn("cast", 0, TRUE, n, 0)       \* bpf_rdonly_cast

ToExit == -1    \* the distance of a jump to the exit label

Registers == 0..9
ArgsReg   == 9
Slots     == 1..10  \* 8-byte slots of the stack, from the frame pointer down
BufSlot   == 1      \* where bpf_probe_read_kernel writes

\* A machine: registers; instructions to skip; whether the program jumped to
\* the exit label; whether it read what the verifier does not let it read.
Machine(regs) == [regs |-> regs, stack |-> [s \in Slots |-> Junk],
                  skip |-> 0, exit |-> FALSE, bad |-> FALSE]

\* A read of a word or of a cell; one near address 0 faults and gives zero.
ReadMem(mem, a, size) ==
  IF mem.null > a THEN 0
  ELSE IF size = 1 THEN mem.cell[a] ELSE mem.cell[a] + Low * mem.cell[(a + 1) % Word]

Put(m, r, w) == [m EXCEPT !.regs[r] = w]
Bad(m)       == [m EXCEPT !.bad = TRUE]

\* A call leaves its result in r0 and nothing in r1 to rn: r5, or r2 for a bpf_fastcall.
AfterCall(m, w, n) ==
  [m EXCEPT !.regs = [r \in Registers |-> IF r = 0 THEN w ELSE IF r \in 1..n THEN Junk ELSE @[r]]]

Reads(i) ==
  CASE i.op = "mov" -> IF i.imm THEN {} ELSE {i.src}
    [] i.op = "neg" \/ i.op = "spill" -> {i.dst}
    [] i.op \in (AluOps \cup Conds) \ {"mov", "neg"} ->
         {i.dst} \cup (IF i.imm THEN {} ELSE {i.src})
    [] i.op = "ldx"   -> {i.src}
    [] i.op = "arg"   -> {ArgsReg}
    [] i.op = "probe" -> {1, 2, 3}
    [] i.op = "cast"  -> {1, 2}
    [] i.op \in {"ja", "fill", "fp"} -> {}

Exec(m, i, mem) ==
  LET b == IF i.imm THEN Imm(i.src) ELSE m.regs[i.src]
  IN  CASE i.op \in AluOps -> Put(m, i.dst, Alu(i.op, m.regs[i.dst], b))
        [] i.op \in Conds  ->
             IF ~Taken(i.op, m.regs[i.dst], b) THEN m
             ELSE IF i.off = ToExit THEN [m EXCEPT !.exit = TRUE] ELSE [m EXCEPT !.skip = i.off]
        [] i.op = "ja"    -> [m EXCEPT !.skip = i.off]
        [] i.op = "arg"   -> Put(m, i.dst, mem.args[i.src])
        [] i.op = "ldx"   -> Put(m, i.dst, ReadMem(mem, (m.regs[i.src] + i.off[1]) % Word, i.off[2]))
        [] i.op = "fp"    -> Put(m, i.dst, 0)
        [] i.op = "spill" -> [m EXCEPT !.stack[i.src] = m.regs[i.dst]]
        [] i.op = "fill"  -> Put(m, i.dst, m.stack[i.src])
        [] i.op = "probe" ->
             [AfterCall(m, 0, 5) EXCEPT !.stack[BufSlot] = ReadMem(mem, m.regs[3], 2)]
        [] i.op = "cast"  -> AfterCall(m, m.regs[1], i.src)

\* One instruction: skipped by a jump, or not let through by the verifier, or
\* executed.  After the jump to the exit label nothing is, up to that label.
Step(m, i, mem) ==
  IF m.exit \/ m.bad THEN m
  ELSE IF m.skip > 0 THEN [m EXCEPT !.skip = @ - 1]
  ELSE IF \E r \in Reads(i) : m.regs[r] = Junk THEN Bad(m)
  ELSE Exec(m, i, mem)

Steps(m, code, mem) ==
  LET after[k \in 0..Len(code)] == IF k = 0 THEN m ELSE Step(after[k - 1], code[k], mem)
  IN  after[Len(code)]

\* The stack holds nothing from one node to the next.
Run(m, code, mem) == [Steps(m, code, mem) EXCEPT !.stack = [s \in Slots |-> Junk]]

-----------------------------------------------------------------------------
(* RegisterAllocator.                                                      *)

Allocatable == 0..8

\* Alloc: r8 first, r0 last; it fails when all are used.
CanAlloc(used) == Allocatable \ used # {}
Alloc(used) == CHOOSE r \in Allocatable \ used : \A s \in Allocatable \ used : s <= r

\* pushUsedCallerSavedRegsN counts the used ones of r1 to rN, and stores as many
\* registers, r1 first; r0 goes below them.
CallerSaved(used, n)    == Cardinality(used \cap (1..n))
SavedSlot(reserved, k, i) == reserved + k + 1 - i
PushUsed(used, n, reserved) ==
  LET k == CallerSaved(used, n)
  IN  (IF 0 \in used THEN <<Spill(reserved + k + 1, 0)>> ELSE <<>>)
        \o [i \in 1..k |-> Spill(SavedSlot(reserved, k, i), i)]
PopUsed(used, n, reserved) ==
  LET k == CallerSaved(used, n)
  IN  [i \in 1..k |-> Fill(i, SavedSlot(reserved, k, i))]
        \o (IF 0 \in used THEN <<Fill(0, reserved + k + 1)>> ELSE <<>>)
=============================================================================
