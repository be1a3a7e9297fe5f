---------------------------- MODULE RecordLayout ----------------------------
(***************************************************************************)
(* The part of an event that Go both lays out and reads: the arguments and *)
(* the return value of the traced function (func_arg.go writes the program *)
(* that stores them, bpfsnoop_func_args.go reads them) and the attributes  *)
(* of --output-arg (output_arg.go, bpfsnoop_arg.go).                       *)
(*                                                                         *)
(* A record is a sequence of words; a word is what was stored there.       *)
(***************************************************************************)
EXTENDS Integers, Sequences, SequencesExt

CONSTANTS
  StrWords, \* words of maxOutputStrLen
  BufWords  \* words of a buffer attribute

ASSUME LayoutAssumption == StrWords \in Nat \ {0, 1} /\ BufWords \in Nat \ {0, 1}

ParamKinds == {"num", "numptr", "charptr", "struct"}
AttrKinds  == {"num", "buf", "hist"}

NoWord == <<>>
OldWord == <<"old">>
Null == <<"NULL">>

Times(n, x) == [k \in 1..n |-> x]

-----------------------------------------------------------------------------
(* Arguments.  A parameter is of one of ParamKinds; "struct" is one of 9   *)
(* to 16 bytes, in two registers.                                          *)

\* FuncParamFlags of every register: only the first string is read as one.
paramFlags(params, i) ==
  LET isStr == params[i] = "charptr" /\ \A k \in 1..(i - 1) : params[k] # "charptr"
  IN CASE params[i] = "struct" -> <<[arg |-> i, kind |-> "num"], [arg |-> i, kind |-> "part"]>>
       [] isStr -> <<[arg |-> i, kind |-> "str"]>>
       [] params[i] = "numptr" -> <<[arg |-> i, kind |-> "numptr"]>>
       [] OTHER -> <<[arg |-> i, kind |-> "num"]>>
getFuncParams(params) == FlattenSeq([i \in DOMAIN params |-> paramFlags(params, i)])

Stored(kind, arg) ==
  CASE kind = "str" -> Times(StrWords, <<arg, "str">>)
    [] kind = "numptr" -> <<<<arg, "num">>, <<arg, "value">>>>
    [] kind = "part" -> <<<<arg, "high">>>>
    [] OTHER -> <<<<arg, "num">>>>

\* The words output_fn_args stores.
genOutputFuncArgs(params, ret) ==
  LET regs == getFuncParams(params)
  IN FlattenSeq([k \in DOMAIN regs |-> Stored(regs[k].kind, regs[k].arg)])
     \o (IF ret = "none" THEN <<>> ELSE Stored(ret, 0))

Consumed_fault(kind) == 1

\* Words the reader takes for a register; none for the second one of a struct.
Consumed(kind) ==
  CASE kind = "str" -> StrWords [] kind = "numptr" -> 2 [] kind = "part" -> 0 [] OTHER -> 1

Words(data, from, n) == SubSeq(data, from, IF from + n - 1 > Len(data) THEN Len(data) ELSE from + n - 1)

\* What the reader shows: the words of each parameter, then those of the
\* return value.  The word after a parameter is looked at, not taken, for the
\* high half of a struct, while the register is not past the parameters.
readParam(params, data, acc, k) ==
  LET r == getFuncParams(params)[k]
      n == Consumed(r.kind)
      next == IF params[r.arg] = "struct"
                THEN IF k < Len(params) THEN <<data[acc.at + n]>> ELSE <<NoWord>>
                ELSE <<>>
  IN IF r.kind = "part" THEN acc
     ELSE [at |-> acc.at + n, shown |-> Append(acc.shown, Words(data, acc.at, n) \o next)]

outputFnArgs(params, ret, data) ==
  LET regs == Len(getFuncParams(params))
      read[k \in 0..regs] ==
        IF k = 0 THEN [at |-> 1, shown |-> <<>>] ELSE readParam(params, data, read[k - 1], k)
      args == read[regs]
  IN args.shown \o (IF ret = "none" THEN <<>> ELSE <<Words(data, args.at, Consumed(ret))>>)

\* What should be shown of the parameter i, or of the return value.
ArgWords(params, i) ==
  IF params[i] = "struct" THEN <<<<i, "num">>, <<i, "high">>>>
  ELSE LET r == CHOOSE r \in ToSet(getFuncParams(params)) : r.arg = i
       IN Stored(r.kind, i)

-----------------------------------------------------------------------------
(* Attributes.  An attribute is [kind, null]: null says that evaluating it *)
(* ends at a null pointer, and its data is not stored.                     *)

DataWords(kind) == IF kind = "buf" THEN BufWords ELSE 1
AttrSize(attr) == DataWords(attr.kind) + 1

\* The words output_arg stores over what was there.
OutputAttr(attr, j, old) ==
  (IF attr.null THEN old ELSE Times(DataWords(attr.kind), <<j, "attr">>)) \o <<IF attr.null THEN Null ELSE NoWord>>
output_arg(attrs, old) ==
  FlattenSeq([j \in DOMAIN attrs |-> OutputAttr(attrs[j], j, Times(DataWords(attrs[j].kind), old))])

\* What is shown of each attribute, or fed to the histogram: a histogram that
\* got a value leaves data where it is.
readAttr(attrs, data, acc, j) ==
  LET size == AttrSize(attrs[j])
      exception == data[acc.at + size - 1]
      next == acc.at + size
  IN IF exception # NoWord
       THEN [at |-> next, shown |-> Append(acc.shown, <<Null>>)]
       ELSE [at |-> IF attrs[j].kind = "hist" THEN acc.at ELSE next,
             shown |-> Append(acc.shown, Words(data, acc.at, DataWords(attrs[j].kind)))]

outputFuncArgAttrs(attrs, data) ==
  LET read[j \in 0..Len(attrs)] ==
        IF j = 0 THEN [at |-> 1, shown |-> <<>>] ELSE readAttr(attrs, data, read[j - 1], j)
  IN read[Len(attrs)].shown

AttrWords(attrs, j) ==
  IF attrs[j].null THEN <<Null>> ELSE Times(DataWords(attrs[j].kind), <<j, "attr">>)
=============================================================================
