----------------------------- MODULE CallFrame ------------------------------
(***************************************************************************)
(* scripts/elftools/dwarf/callframe.py: CallFrameInfo reads the entries of   *)
(* .debug_frame, and CFIEntry decodes each into a table of lines.           *)
(*                                                                         *)
(* An entry has a number and takes one unit of the section; the stream       *)
(* position is the number of the entry it is at.  A CIE says in frames[n].of *)
(* 0, an FDE the number of its CIE.  Lines are dictionaries that the code    *)
(* passes by reference: a line is a place in heap.                          *)
(***************************************************************************)
EXTENDS Integers, Sequences, FiniteSets, SequencesExt, Operands

CONSTANTS
  Sections,     \* sequences of entries [of, format, code]
  MaxRead,      \* bound: entries appended by _parse_entries()
  CodeAlign     \* code_alignment_factor of the CIE

CfaOps == {"cfa", "cfa_sf", "cfa_reg", "cfa_offset", "cfa_expr"}
CfiOps == {"advance", "rule", "restore", "remember", "recall"} \cup CfaOps
CodesOf(s) == UNION {ToSet(s[n].code) : n \in DOMAIN s}

(* An FDE points at a CIE of its section: one that points at an FDE, which    *)
(* the code would take for its CIE, is left out.  The key of a rule of a      *)
(* register is a number, never one of the two names.                         *)
SectionIs(s) ==
  /\ Len(s) \in Nat /\ DOMAIN s = 1 .. Len(s)
  /\ \A n \in DOMAIN s : s[n].of \in 0 .. Len(s) /\ s[n].code \in Seq(CodesOf(s))
  /\ \A n \in DOMAIN s : s[n].of # 0 => s[s[n].of].of = 0
  /\ \A c \in CodesOf(s) :
       c[1] \in CfiOps /\ (c[1] \in {"rule", "restore"} => c[2] \notin {"pc", "cfa"})

ASSUME CallFrameAssumption ==
  MaxRead \in Nat /\ CodeAlign \in Nat /\ \A s \in Sections : SectionIs(s)

VARIABLES
  frames,    \* the section
  framePos,  \* position of self.stream
  at,        \* offset of _parse_entries()
  known,     \* keys of _entry_cache
  got,       \* the list of entries
  cfiPc,     \* "read", "decode" or "raised"
  heap,      \* the line dictionaries
  decoded,    \* _decoded_table of each entry: a sequence of lines, << >> if None
  orders,    \* reg_order of each entry
  busy,      \* entries being decoded, the innermost first
  todo,      \* instructions left of that one, or NotBegun
  cur,       \* cur_line
  base,      \* last_line_in_CIE
  saved,     \* line_stack
  table,     \* table of the one being decoded
  order      \* its reg_order

readVars   == << frames, framePos, at, known, got >>
decodeVars == << heap, decoded, orders, busy, todo, cur, base, saved, table, order >>
cfiVars    == << readVars, cfiPc, decodeVars >>

NotBegun == << << "begin" >> >>

(* A CFARule: a part that is None is the empty set.  NoRule is no CFARule,    *)
(* but the None that a CIE starts with.                                      *)
CFARule(reg, offset, expr) == [reg |-> reg, offset |-> offset, expr |-> expr]
NoRule == CFARule({}, {}, {})

CfiInit ==
  /\ frames \in Sections
  /\ framePos = 1 /\ at = 1 /\ known = {} /\ got = << >> /\ cfiPc = "read"
  /\ heap = << >>
  /\ decoded = [n \in DOMAIN frames |-> << >>] /\ orders = decoded
  /\ busy = << >> /\ todo = NotBegun
  /\ cur = 0 /\ base = 0 /\ saved = << >> /\ table = << >> /\ order = << >>

-----------------------------------------------------------------------------
(* CallFrameInfo *)

(* Of a 64 bit entry the code compares the length, not the id, with all      *)
(* ones: it takes every one for an FDE.                                      *)
TakenForCIE(n) == frames[n].of = 0 /\ frames[n].format = 32

(* The CIE an FDE points at; the id of a CIE points nowhere. *)
PointsAt(n) == frames[n].of
Readable(n) == TakenForCIE(n) \/ (PointsAt(n) # 0 /\ TakenForCIE(PointsAt(n)))

(* Where an entry and, of an FDE, its CIE leave the stream. *)
StaysAtFDE(n) == IF TakenForCIE(n) THEN n + 1 ELSE n     \* mutant: it covers the whole FDE
KeepsPosition(n) == n + 1

(* _parse_entry_at(), of an entry seen before: the stream is not moved. *)
ReadCached ==
  /\ cfiPc = "read" /\ at <= Len(frames) /\ Len(got) < MaxRead
  /\ at \in known
  /\ got' = Append(got, at)
  /\ at' = framePos
  /\ UNCHANGED << frames, framePos, known, cfiPc, decodeVars >>

(* ... of a CIE, or of an FDE and, unless it is known, of its CIE. *)
ReadEntry ==
  /\ cfiPc = "read" /\ at <= Len(frames) /\ Len(got) < MaxRead
  /\ at \notin known
  /\ Readable(at)
  /\ known' = known \cup {at} \cup (IF TakenForCIE(at) THEN {} ELSE {PointsAt(at)})
  /\ got' = Append(got, at)
  /\ framePos' = KeepsPosition(at) /\ at' = framePos'
  /\ UNCHANGED << frames, cfiPc, decodeVars >>

ReadRaises ==
  /\ cfiPc = "read" /\ at <= Len(frames)
  /\ at \notin known /\ ~Readable(at)
  /\ cfiPc' = "raised"
  /\ UNCHANGED << readVars, decodeVars >>

ReadAll ==
  /\ cfiPc = "read" /\ at > Len(frames)
  /\ cfiPc' = "decode"
  /\ UNCHANGED << readVars, decodeVars >>

-----------------------------------------------------------------------------
(* CFIEntry._decode_CFI_table() *)

IsFDE(n) == frames[n].of # 0

(* get_decoded(): an FDE first needs the table of its CIE. *)
GetDecoded(n) ==
  /\ cfiPc = "decode" /\ busy = << >>
  /\ n \in ToSet(got) /\ decoded[n] = << >>
  /\ busy' = IF IsFDE(n) /\ decoded[frames[n].of] = << >> THEN << frames[n].of, n >> ELSE << n >>
  /\ UNCHANGED << readVars, cfiPc, heap, decoded, orders, todo, cur, base, saved, table, order >>

FreshLine == [k \in {"pc", "cfa"} |-> IF k = "pc" THEN 0 ELSE NoRule]

ShareLast(l) == heap' = [heap EXCEPT ![l]["pc"] = 10] /\ cur' = l   \* mutant: no copy.copy()
CopyLast(l)  == /\ heap' = Append(heap, [heap[l] EXCEPT !["pc"] = 10])
                /\ cur' = Len(heap) + 1

(* The line an FDE starts with is last_line_in_CIE itself. *)
Begin ==
  /\ busy # << >> /\ todo = NotBegun
  /\ LET n == Head(busy) IN
       /\ IF IsFDE(n) THEN CopyLast(Last(decoded[frames[n].of]))
          ELSE heap' = Append(heap, FreshLine) /\ cur' = Len(heap) + 1
       /\ order' = IF IsFDE(n) THEN orders[frames[n].of] ELSE << >>
       /\ todo' = frames[n].code
  /\ base' = cur' /\ saved' = << >> /\ table' = << >>
  /\ UNCHANGED << readVars, cfiPc, decoded, orders, busy >>

Doing(op) == busy # << >> /\ todo \notin {NotBegun, << >>} /\ Head(todo)[1] = op
Done == /\ todo' = Tail(todo)
        /\ UNCHANGED << readVars, cfiPc, decoded, orders, busy, base >>

(* DW_CFA_set_loc, DW_CFA_advance_loc*: a copy of the line enters the table. *)
AdvanceLoc ==
  /\ Doing("advance") /\ Done
  /\ heap' = Append([heap EXCEPT ![cur]["pc"] = @ + 1], heap[cur])
  /\ table' = Append(table, Len(heap) + 1)
  /\ UNCHANGED << cur, saved, order >>

SetRule(k, rule) ==
  heap' = [heap EXCEPT ![cur] = [x \in DOMAIN @ \cup {k} |-> IF x = k THEN rule ELSE @[x]]]

AddToOrder(r)  == order' = IF r \in DOMAIN heap[cur] THEN order ELSE Append(order, r)

(* DW_CFA_def_cfa, _sf, _register, _offset and _expression.  The offset of    *)
(* _sf is scaled by the code alignment factor (by the data alignment factor  *)
(* in the text of the instruction); _register and _offset keep the other     *)
(* half of the rule there is, which of an expression is None.                *)
CfaOf(instr, rule) ==
  CASE instr[1] = "cfa"        -> CFARule({instr[2]}, {instr[3]}, {})
    [] instr[1] = "cfa_sf"     -> CFARule({instr[2]}, {instr[3] * CodeAlign}, {})
    [] instr[1] = "cfa_reg"    -> CFARule({instr[2]}, rule.offset, {})
    [] instr[1] = "cfa_offset" -> CFARule(rule.reg, {instr[2]}, {})
    [] instr[1] = "cfa_expr"   -> CFARule({}, {}, {instr[2]})

NeedsRule == {"cfa_reg", "cfa_offset"}

DefCfa ==
  /\ \E op \in CfaOps : Doing(op) /\ (op \in NeedsRule => heap[cur]["cfa"] # NoRule)
  /\ Done
  /\ SetRule("cfa", CfaOf(Head(todo), heap[cur]["cfa"]))
  /\ UNCHANGED << cur, saved, table, order >>

(* DW_CFA_offset, DW_CFA_register, DW_CFA_undefined and the like. *)
RegisterRule ==
  /\ Doing("rule") /\ Done
  /\ AddToOrder(Head(todo)[2])
  /\ SetRule(Head(todo)[2], Head(todo)[3])
  /\ UNCHANGED << cur, saved, table >>

(* DW_CFA_restore: the rule of last_line_in_CIE, that is of the line the FDE *)
(* started with, which is mostly the current line.                           *)
Restorable(r) == IsFDE(Head(busy)) /\ r \in DOMAIN heap[base]

Restore ==
  /\ Doing("restore") /\ Restorable(Head(todo)[2]) /\ Done
  /\ AddToOrder(Head(todo)[2])
  /\ SetRule(Head(todo)[2], heap[base][Head(todo)[2]])
  /\ UNCHANGED << cur, saved, table >>

RememberState ==
  /\ Doing("remember") /\ Done
  /\ saved' = Append(saved, cur)
  /\ UNCHANGED << heap, cur, table, order >>

RestoreState ==
  /\ Doing("recall") /\ saved # << >> /\ Done
  /\ cur' = Last(saved) /\ saved' = Front(saved)
  /\ UNCHANGED << heap, table, order >>

(* A failed dwarf_assert(), an attribute of None, a pop from an empty stack. *)
DecodeRaises ==
  /\ \/ (\E op \in NeedsRule : Doing(op)) /\ heap[cur]["cfa"] = NoRule
     \/ Doing("restore") /\ ~Restorable(Head(todo)[2])
     \/ Doing("recall") /\ saved = << >>
  /\ cfiPc' = "raised" /\ busy' = << >> /\ todo' = NotBegun
  /\ UNCHANGED << readVars, heap, decoded, orders, cur, base, saved, table, order >>

Finish ==
  /\ busy # << >> /\ todo = << >>
  /\ decoded' = [decoded EXCEPT ![Head(busy)] = Append(table, cur)]
  /\ orders' = [orders EXCEPT ![Head(busy)] = order]
  /\ busy' = Tail(busy) /\ todo' = NotBegun
  /\ UNCHANGED << readVars, cfiPc, heap, cur, base, saved, table, order >>

CfiStep == ReadCached \/ ReadEntry \/ ReadRaises \/ ReadAll
DecodeStep ==
  \/ Begin \/ AdvanceLoc \/ DefCfa \/ RegisterRule \/ Restore
  \/ RememberState \/ RestoreState \/ DecodeRaises \/ Finish

CfiNext == CfiStep \/ DecodeStep \/ \E n \in DOMAIN frames : GetDecoded(n)
CfiFairness == WF_cfiVars(CfiStep)
CfiSpec == CfiInit /\ [][CfiNext]_cfiVars /\ CfiFairness

-----------------------------------------------------------------------------
(* What the instructions of an entry come to, by value: the lines that a      *)
(* program gives from a first line.  cur_line, last_line_in_CIE and all that  *)
(* line_stack holds are one object, so that a register is "restored" to the  *)
(* rule it has, and a state to what has become of it: other than DWARF says  *)
(* (6.4.2), these instructions change nothing.                               *)
Put(line, k, v) == [x \in DOMAIN line \cup {k} |-> IF x = k THEN v ELSE line[x]]

CfiEffect(c, s) ==
  CASE c[1] = "advance"              -> [s EXCEPT !.out = Append(@, s.line), !.line["pc"] = @ + 1]
    [] c[1] = "rule"                 -> [s EXCEPT !.line = Put(@, c[2], c[3])]
    [] c[1] = "restore"              -> [s EXCEPT !.line = Put(@, c[2], @[c[2]])]
    [] c[1] \in {"remember", "recall"} -> s
    [] OTHER                         -> [s EXCEPT !.line = Put(@, "cfa", CfaOf(c, @["cfa"]))]

CfiMeaning(code, first) ==
  LET S[i \in 0 .. Len(code)] == IF i = 0 THEN [line |-> first, out |-> << >>] ELSE CfiEffect(code[i], S[i - 1])
  IN Append(S[Len(code)].out, S[Len(code)].line)

Means(n) ==
  IF IsFDE(n)
  THEN CfiMeaning(frames[n].code, Put(Last(CfiMeaning(frames[frames[n].of].code, FreshLine)), "pc", 10))
  ELSE CfiMeaning(frames[n].code, FreshLine)

Decoded(n) == decoded[n] # << >>
LinesOf(n) == [i \in DOMAIN decoded[n] |-> heap[decoded[n][i]]]

(* The decoder is in a state the code can be in: every line exists, an entry *)
(* is decoded under its CIE only, and the stack holds lines.                 *)
CfiTypeOK ==
  /\ cfiPc \in {"read", "decode", "raised"}
  /\ framePos \in 1 .. Len(frames) + 1 /\ at \in 1 .. Len(frames) + 1
  /\ known \subseteq DOMAIN frames /\ ToSet(got) \subseteq known
  /\ \A n \in DOMAIN frames : ToSet(decoded[n]) \subseteq DOMAIN heap
  /\ ToSet(saved) \cup ToSet(table) \subseteq DOMAIN heap
  /\ Len(busy) <= 2 /\ (Len(busy) = 2 => frames[busy[2]].of = busy[1])

(* get_entries(): the entries are those of the section, one by one, up to     *)
(* the first CIE that an earlier FDE points at.  That one is cached and the  *)
(* stream stays at it: it is all that is appended from there on, without end *)
(* (until MaxRead).                                                          *)
Ahead == {n \in DOMAIN frames : \E k \in 1 .. n - 1 : frames[k].of = n}
IsNth(i, n) == n \in 1 .. i /\ (\A m \in Ahead : n <= m) /\ (n < i => n \in Ahead)

EntriesInOrder == (\A i \in 1 .. Len(got) : IsNth(i, got[i])) /\ IsNth(Len(got) + 1, at)

(* _parse_entries() ends on a section without such a CIE.                    *)
FramesAreRead == (Ahead = {} /\ Len(frames) <= MaxRead) ~> cfiPc # "read"

(* The table of an entry is what its instructions come to, from the last      *)
(* line of its CIE, whatever was decoded in between.                         *)
DecodedAsWritten == \A n \in DOMAIN frames : Decoded(n) => LinesOf(n) = Means(n)

(* A line returned to a caller is never written again, whichever entries are *)
(* decoded later: an FDE starts from a copy of its CIE's last line.          *)
LinesAreFinal ==
  [][\A n \in DOMAIN frames : Decoded(n) => LinesOf(n)' = LinesOf(n)]_cfiVars

(* reg_order names every register that some line has a rule for, once.       *)
RegOrderExact ==
  \A n \in DOMAIN frames : Decoded(n) =>
    /\ IsInjective(orders[n])
    /\ ToSet(orders[n]) =
         (UNION {DOMAIN LinesOf(n)[i] : i \in DOMAIN decoded[n]}) \ {"pc", "cfa"}

-----------------------------------------------------------------------------
(***************************************************************************)
(* scripts/elftools/dwarf: the instructions of a call frame entry, as       *)
(* callframe.py takes them from the section and descriptions.py describes   *)
(* them.  Above is what they do to the table of lines.                      *)
(*                                                                         *)
(* An entry is [fde, code, cut, after]: the instructions that were written, *)
(* each [op, raw, args] with the bytes and the values of its operands, how  *)
(* many of their bytes the length of the entry leaves out, and the bytes of *)
(* the section behind them.  The names of registers are left out.           *)
(***************************************************************************)
CONSTANTS
  CfiEntries,   \* entries
  CfiStructs,   \* the DWARFStructs [addr, format] of the entries
  StartPc       \* initial_location of an FDE

VARIABLES
  cfiEntry,     \* the entry
  instOffset,   \* offset of _parse_instructions()
  insts,        \* the instructions so far
  textPc,       \* pc of describe_CFI_instructions()
  told,         \* what it has said: the name and, of a step of pc, where to
  instPc        \* "parse", "describe", "done" or "raised"

instVars == << cfiEntry, instOffset, insts, textPc, told, instPc >>

InstBytes(i) == << i.op >> \o i.raw
CodeBytes == FlattenSeq([i \in DOMAIN cfiEntry.code |-> InstBytes(cfiEntry.code[i])])
SectionTail == CodeBytes \o cfiEntry.after
EndOffset == Len(CodeBytes) - cfiEntry.cut

-----------------------------------------------------------------------------
Primary(op) == op \div 64        \* _PRIMARY_MASK
PrimaryArg(op) == op % 64

(* The operands that follow an opcode; "?" is an opcode that is not known.   *)
CfiArgs(op) ==
  CASE Primary(op) \in {1, 3}         -> << >>                  \* advance_loc, restore
    [] Primary(op) = 2                -> << "uleb" >>           \* offset
    [] op \in {0, 10, 11}             -> << >>                  \* nop, remember_, restore_state
    [] op = 1                         -> << "addr" >>           \* set_loc
    [] op = 2                         -> << "u8" >>             \* advance_loc1
    [] op = 3                         -> << "u16" >>
    [] op = 4                         -> << "u32" >>
    [] op \in {5, 9, 12, 20}          -> << "uleb", "uleb" >>   \* offset_extended, register, def_cfa, val_offset
    [] op \in {6, 7, 8, 13, 14}       -> << "uleb" >>           \* restore_extended ... def_cfa_offset
    [] op = 19                        -> << "sleb" >>           \* def_cfa_offset_sf
    [] op = 15                        -> << "block" >>          \* def_cfa_expression
    [] op \in {16, 22}                -> << "uleb", "block" >>  \* expression, val_expression
    [] op \in {17, 18, 21}            -> << "uleb", "sleb" >>   \* ..._sf
    [] OTHER                          -> << "?" >>

(* args has the low bits of the opcode first. *)
AllArgs(op, vals) == IF Primary(op) = 0 THEN vals ELSE << PrimaryArg(op) >> \o vals

(* One round of _parse_instructions().  Only where an instruction begins is  *)
(* compared with the end of the entry.                                       *)
ParseInstruction ==
  /\ instPc = "parse" /\ instOffset < EndOffset
  /\ LET op == SectionTail[instOffset + 1]
         r == TakeOperands(CfiArgs(op), SectionTail, instOffset + 1, CfiStructs)
     IN IF CfiArgs(op) = << "?" >> \/ ~r.ok
        THEN instPc' = "raised" /\ UNCHANGED << instOffset, insts >>
        ELSE /\ insts' = Append(insts, [op |-> op, args |-> AllArgs(op, r.val)])
             /\ instOffset' = r.pos
             /\ UNCHANGED instPc
  /\ UNCHANGED << cfiEntry, textPc, told >>

ParsedAll ==
  /\ instPc = "parse" /\ instOffset >= EndOffset
  /\ instPc' = "describe"
  /\ UNCHANGED << cfiEntry, instOffset, insts, textPc, told >>

(* The bytes of an instruction that was written, read by themselves, are its  *)
(* opcode and its arguments.                                                 *)
Octets == 0 .. 255
Written(i) ==
  LET r == TakeOperands(CfiArgs(i.op), i.raw, 0, CfiStructs)
  IN /\ i.op \in Octets /\ i.raw \in Seq(Octets)
     /\ CfiArgs(i.op) # << "?" >> => r.ok /\ r.pos = Len(i.raw) /\ AllArgs(i.op, r.val) = i.args

ASSUME CfiInstructionsAssumption ==
  /\ StartPc \in Nat /\ CfiStructs.addr \in Nat
  /\ \A e \in CfiEntries :
       /\ e.cut \in Nat /\ e.after \in Seq(Octets) /\ e.code \in Seq(ToSet(e.code))
       /\ \A i \in ToSet(e.code) : Written(i)

-----------------------------------------------------------------------------
(* instruction_name(): the name is that of the primary opcode if it has one. *)
InstructionName(op) == IF Primary(op) = 0 THEN op ELSE Primary(op) * 64

Advances == {64, 2, 3, 4}
AdvanceArg(i) == IF i.op \in {2, 3, 4} THEN NumberOf(i.args[1], 256) ELSE i.args[1]

FactoredOffset(i) == AdvanceArg(i) * CodeAlign

(* describe_CFI_instructions(), one instruction.  A CIE has no pc: it must   *)
(* not advance.                                                              *)
DescribeInstruction ==
  /\ instPc = "describe" /\ Len(told) < Len(insts)
  /\ LET i == insts[Len(told) + 1]
         name == InstructionName(i.op)
         to == textPc + FactoredOffset(i)
     IN CASE name = 1 ->
               /\ textPc' = NumberOf(i.args[1], 256)
               /\ told' = Append(told, << name, textPc' >>) /\ UNCHANGED instPc
          [] name \in Advances /\ ~cfiEntry.fde ->
               instPc' = "raised" /\ UNCHANGED << textPc, told >>
          [] name \in Advances /\ cfiEntry.fde ->
               textPc' = to /\ told' = Append(told, << name, to >>) /\ UNCHANGED instPc
          [] OTHER ->
               told' = Append(told, << name >>) /\ UNCHANGED << textPc, instPc >>
  /\ UNCHANGED << cfiEntry, instOffset, insts >>

DescribedAll ==
  /\ instPc = "describe" /\ Len(told) = Len(insts)
  /\ instPc' = "done"
  /\ UNCHANGED << cfiEntry, instOffset, insts, textPc, told >>

InstInit ==
  /\ cfiEntry \in CfiEntries
  /\ instOffset = 0 /\ insts = << >> /\ told = << >> /\ instPc = "parse"
  /\ textPc = StartPc

InstNext == ParseInstruction \/ ParsedAll \/ DescribeInstruction \/ DescribedAll

InstSpec == InstInit /\ [][InstNext]_instVars

-----------------------------------------------------------------------------
(* The pc of the lines that _decode_CFI_table() makes of the same            *)
(* instructions (AdvanceLoc of CallFrame).                                   *)
TablePcNext(i, pc) ==
  IF i.op = 1 THEN NumberOf(i.args[1], 256)
  ELSE IF InstructionName(i.op) \in Advances THEN pc + AdvanceArg(i) * CodeAlign
  ELSE pc

TablePc ==
  LET pcAt[k \in 0 .. Len(told)] == IF k = 0 THEN StartPc ELSE TablePcNext(insts[k], pcAt[k - 1])
  IN pcAt[Len(told)]

(* The instructions are the ones that were written, as far as they begin     *)
(* inside the entry, each whole: the one that the length cuts is read from   *)
(* the bytes behind.  Parsing fails only for an opcode that is not known or  *)
(* for the end of the section.                                               *)
InstructionsAsWritten ==
  LET code == cfiEntry.code
      startOf(k) == Len(FlattenSeq([j \in 1 .. k - 1 |-> InstBytes(code[j])]))
      begun == {k \in DOMAIN code : startOf(k) < EndOffset}
  IN /\ \A k \in DOMAIN insts : k \in begun /\ insts[k].op = code[k].op /\ insts[k].args = code[k].args
     /\ instPc \in {"describe", "done"} => Len(insts) = Cardinality(begun)
     /\ instPc = "raised" /\ told = << >> /\ Len(insts) < Cardinality(begun) =>
          CfiArgs(code[Len(insts) + 1].op) = << "?" >>

(* The addresses in the description of an FDE are those of its table.  (The   *)
(* offset of a DW_CFA_def_cfa_sf is not: see CfaOf.)                         *)
TextMatchesTable == instPc # "raised" /\ cfiEntry.fde => textPc = TablePc

(* The entries, their instructions, the tables decoded of them and the       *)
(* addresses in the text are what the section holds.                         *)
CallFramesExact ==
  /\ CfiTypeOK /\ EntriesInOrder /\ DecodedAsWritten /\ RegOrderExact
  /\ InstructionsAsWritten /\ TextMatchesTable

(* Reading the entries ends, and the tables returned do not change any more. *)
FramesSettle == FramesAreRead /\ LinesAreFinal
=============================================================================
