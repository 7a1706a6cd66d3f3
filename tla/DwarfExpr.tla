----------------------------- MODULE DwarfExpr -----------------------------
(***************************************************************************)
(* scripts/elftools/dwarf: DWARF expressions are decoded by a visitor       *)
(* (dwarf_expr.py) and described by ExprDumper (descriptions.py), of which  *)
(* describe_DWARF_expr() keeps one for each DWARFStructs for the life of    *)
(* the process.                                                             *)
(*                                                                         *)
(* An expression is [code, cut]: the instructions that were written, each   *)
(* [op, raw, args] with its operands' bytes and values, and how many bytes  *)
(* are missing at the end.  An unsigned operand of a fixed size stays the   *)
(* bytes that it is written with.                                           *)
(***************************************************************************)
EXTENDS Operands

CONSTANTS
  Exprs,          \* expressions, for a DWARFStructs each
  ExprStructs,    \* DWARFStructs [addr, format]
  MaxDescribed    \* bound: calls

ASSUME DwarfExprAssumption == MaxDescribed \in Nat

VARIABLES
  arch,       \* _MACHINE_ARCH
  dumpers,    \* _DWARF_EXPR_DUMPER_CACHE: the _str_parts of each dumper
  described,  \* the last call: its arguments, the arch and what it returned
  exprCalls

exprVars == << arch, dumpers, described, exprCalls >>

NotCalled == [expr |-> [code |-> << >>, cut |-> 0], structs |-> [addr |-> 4, format |-> 32],
              arch |-> "none", ok |-> TRUE, parts |-> << >>]

ExprBytes(e) ==
  LET b == FlattenSeq([i \in DOMAIN e.code |-> << e.code[i].op >> \o e.code[i].raw])
  IN SubSeq(b, 1, Len(b) - e.cut)

-----------------------------------------------------------------------------
Lits  == 48 .. 79       \* DW_OP_lit0 ... DW_OP_lit31
Regs  == 80 .. 111
Bregs == 112 .. 143
Regx  == 144

(* _init_dispatch_table(): the operands each opcode's visitor reads.  An     *)
(* opcode without a visitor reads none.                                      *)
VisitorArgs(op) ==
  CASE op = 3                         -> << "addr" >>
    [] op \in {8, 21}                 -> << "u8" >>            \* const1u, pick
    [] op \in {9, 148, 149}           -> << "s8" >>            \* const1s, [x]deref_size
    [] op \in {10, 152}               -> << "u16" >>           \* const2u, call2
    [] op \in {11, 40, 47}            -> << "s16" >>           \* const2s, bra, skip
    [] op \in {12, 153}               -> << "u32" >>           \* const4u, call4
    [] op = 13                        -> << "s32" >>
    [] op = 14                        -> << "u32", "u32" >>    \* const8u
    [] op = 15                        -> << "s32", "s32" >>
    [] op \in {16, 35, Regx, 147}     -> << "uleb" >>          \* constu, plus_uconst, piece
    [] op \in {17, 145} \cup Bregs    -> << "sleb" >>          \* consts, fbreg
    [] op = 146                       -> << "uleb", "sleb" >>  \* bregx
    [] op = 157                       -> << "uleb", "uleb" >>  \* bit_piece
    [] op = 154                       -> << "offset" >>        \* call_ref
    [] op \in Lits \cup Regs          -> << >>                \* the number is in the opcode
    [] OTHER                          -> << >>

(* An operand of the signed formats, b, h and l of struct.unpack()           *)
SignedFormats == {"s8", "s16", "s32"}
Signed(b) == NumberOf(Front(b), 256) + (IF Last(b) < 128 THEN Last(b) ELSE Last(b) - 256) * 256^(Len(b) - 1)
ArgValues(kinds, vals) == [i \in DOMAIN vals |-> IF kinds[i] \in SignedFormats THEN Signed(vals[i]) ELSE vals[i]]

(* ExprDumper._init_lookups() *)
DecimalArg     == {8, 9, 10, 11, 12, 13, 16, 17, 21, 35, 40, 47, 145, 147, 148, 149, Regx} \cup Bregs
TwoDecimalArgs == {14, 15, 146, 157}
HexArg         == {3, 152, 153, 154}

(* describe_reg_name(): the tables end, and an unknown machine has no names. *)
RegCount == [x86 |-> 50, x64 |-> 67]
NoReg    == "<none>"
BadReg   == "IndexError"
RegName(n, a) == IF a \notin DOMAIN RegCount THEN NoReg
                 ELSE IF n < RegCount[a] THEN << a, n >> ELSE BadReg

Part(op, reg, args) == [op |-> op, reg |-> reg, args |-> args]

DumpToString(op, args, a) ==
  CASE args = << >> /\ op \in Regs  -> Part(op, RegName(op - 80, a), << >>)
    [] args = << >> /\ op \notin Regs -> Part(op, NoReg, << >>)
    [] op \in Bregs                 -> Part(op, RegName(op - 112, a), << args[1] >>)
    [] op = Regx                    -> Part(op, RegName(args[1], a), << args[1] >>)
    [] op \in (DecimalArg \ (Bregs \cup {Regx})) \cup HexArg -> Part(op, NoReg, << args[1] >>)
    [] op \in TwoDecimalArgs        -> Part(op, NoReg, << args[1], args[2] >>)
    [] OTHER                        -> Part("<unknown>", NoReg, << >>)

(* The instructions that process_expr() reads before it ends or an operand   *)
(* is cut short                                                              *)
DecodeExpr(b, s) ==
  FoldLeft(LAMBDA so, i :
             IF ~so.ok \/ so.pos = Len(b) THEN so
             ELSE LET r == TakeOperands(VisitorArgs(b[so.pos + 1]), b, so.pos + 1, s)
                  IN [ok |-> r.ok, pos |-> r.pos,
                      code |-> IF r.ok THEN Append(so.code, << b[so.pos + 1], ArgValues(VisitorArgs(b[so.pos + 1]), r.val) >>)
                              ELSE so.code],
           [ok |-> TRUE, pos |-> 0, code |-> << >>], [i \in 1 .. Len(b) |-> i])

(* _after_visit() appends to the parts after each of them.  A register past  *)
(* the table raises, as an operand cut short does, and the parts stay.       *)
ProcessExpr(d, a, parts) ==
  LET made == [i \in DOMAIN d.code |-> DumpToString(d.code[i][1], d.code[i][2], a)]
      bad  == SelectInSeq(made, LAMBDA p : p.reg = BadReg)
  IN [ok |-> d.ok /\ bad = 0, parts |-> parts \o IF bad = 0 THEN made ELSE SubSeq(made, 1, bad - 1)]

-----------------------------------------------------------------------------
ExprInit == arch = "none" /\ dumpers = [s \in {} |-> << >>] /\ described = NotCalled /\ exprCalls = 0

SetGlobalMachineArch(a) == arch' = a /\ UNCHANGED << dumpers, described, exprCalls >>

(* Mutant: a dumper that is there is used as it was left. *)
DumperUncleared(s) == IF s \in DOMAIN dumpers THEN dumpers[s] ELSE << >>

(* The parts that the dumper starts with: clear() *)
DumperCleared(s) == << >>

DescribeDWARFExpr(e, s) ==
  /\ exprCalls < MaxDescribed /\ exprCalls' = exprCalls + 1
  /\ \E d \in {DecodeExpr(ExprBytes(e), s)} : \E r \in {ProcessExpr(d, arch, DumperCleared(s))} :
     /\ dumpers' = [t \in DOMAIN dumpers \cup {s} |-> IF t = s THEN r.parts ELSE dumpers[t]]
     /\ described' = [expr |-> e, structs |-> s, arch |-> arch, ok |-> r.ok,
                      parts |-> IF r.ok THEN r.parts ELSE << >>]
     /\ UNCHANGED arch

ExprNext ==
  \/ \E a \in {"x86", "x64"} : SetGlobalMachineArch(a)
  \/ \E s \in ExprStructs : \E e \in Exprs[s] : DescribeDWARFExpr(e, s)

ExprSpec == ExprInit /\ [][ExprNext]_exprVars

-----------------------------------------------------------------------------
(* A description shows the instructions of its expression, each with all of  *)
(* its operands, and nothing that an earlier call left, one that raised      *)
(* included.  It fails only when the expression ends inside an instruction   *)
(* or names a register that the machine does not have.  (The size operand of *)
(* DW_OP_[x]deref_size, in DWARF unsigned, is read as a signed byte: of those *)
(* that a machine has, 1 to 8, that is the same number.)                     *)
DescribedAsWritten ==
  LET e == described.expr
      size(i) == 1 + Len(e.code[i].raw)
      kept == Len(ExprBytes(e))
      ends == {FoldLeft(LAMBDA acc, i : acc + size(i), 0, [j \in 1 .. k |-> j]) : k \in 0 .. Len(e.code)}
  IN IF described.ok
     THEN /\ kept \in ends
          /\ Len(described.parts) <= Len(e.code)
          /\ \A i \in DOMAIN described.parts :
               /\ described.parts[i].op = e.code[i].op
               /\ described.parts[i].args = e.code[i].args
          /\ e.cut = 0 => Len(described.parts) = Len(e.code)
     ELSE kept \notin ends \/ described.arch # "none"
=============================================================================
