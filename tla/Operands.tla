------------------------------ MODULE Operands ------------------------------
(***************************************************************************)
(* Operands of DWARF instructions in a block of bytes, 0..255: what         *)
(* struct_parse() reads for the fields of elftools/dwarf/structs.py.        *)
(* Operands of a fixed size are kept as their bytes (of the signed ones     *)
(* DwarfExpr makes numbers); LEB128 numbers, which have many encodings, and *)
(* blocks are decoded.  s is a DWARFStructs: [addr, format].                *)
(***************************************************************************)
EXTENDS Integers, Sequences, SequencesExt, FiniteSetsExt

OperandSize(kind, s) ==
  CASE kind \in {"u8", "s8"}   -> 1
    [] kind \in {"u16", "s16"} -> 2
    [] kind \in {"u32", "s32"} -> 4
    [] kind = "addr"           -> s.addr
    [] kind = "offset"         -> IF s.format = 32 THEN 4 ELSE 8

(* A little endian number of digits below base *)
NumberOf(digits, base) ==
  LET last[k \in 0 .. Len(digits)] == IF k = 0 THEN 0 ELSE last[k - 1] * base + digits[Len(digits) + 1 - k]
  IN last[Len(digits)]

Took(val, pos) == [ok |-> TRUE, val |-> val, pos |-> pos]
Short(pos)     == [ok |-> FALSE, val |-> << >>, pos |-> pos]

TakeBytes(n, b, pos) ==
  IF pos + n <= Len(b) THEN Took(SubSeq(b, pos + 1, pos + n), pos + n) ELSE Short(Len(b))

(* Bytes up to the first that has not the high bit *)
TakeLeb(b, pos, signed) ==
  LET ends == {i \in pos + 1 .. Len(b) : b[i] < 128}
  IN IF ends = {} THEN Short(Len(b))
     ELSE LET end == Min(ends)
              n == NumberOf([i \in 1 .. end - pos |-> b[pos + i] % 128], 128)
          IN Took(IF signed /\ b[end] >= 64 THEN n - 128^(end - pos) ELSE n, end)

TakeBlock(b, pos) ==
  LET n == TakeLeb(b, pos, FALSE)
  IN IF n.ok THEN TakeBytes(n.val, b, n.pos) ELSE n

TakeOperand(kind, b, pos, s) ==
  CASE kind = "uleb"  -> TakeLeb(b, pos, FALSE)
    [] kind = "sleb"  -> TakeLeb(b, pos, TRUE)
    [] kind = "block" -> TakeBlock(b, pos)
    [] OTHER          -> TakeBytes(OperandSize(kind, s), b, pos)

(* The operands of one instruction, in order; val is the sequence of them. *)
TakeNext(acc, kind, b, s) ==
  LET r == TakeOperand(kind, b, acc.pos, s)
  IN IF ~acc.ok THEN acc
     ELSE IF r.ok THEN Took(Append(acc.val, r.val), r.pos) ELSE Short(r.pos)

TakeOperands(kinds, b, pos, s) ==
  LET took[k \in 0 .. Len(kinds)] == IF k = 0 THEN Took(<< >>, pos) ELSE TakeNext(took[k - 1], kinds[k], b, s)
  IN took[Len(kinds)]
=============================================================================
