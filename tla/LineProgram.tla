---------------------------- MODULE LineProgram ----------------------------
(***************************************************************************)
(* scripts/elftools/dwarf/lineprogram.py: LineProgram._decode_line_program() *)
(* runs a line number program and lists its entries, one for most            *)
(* instructions; those that add a row of the line table carry a copy of the  *)
(* registers.  An instruction is << name >> or << name, operand >>.          *)
(***************************************************************************)
EXTENDS Integers, Sequences, FiniteSets, FiniteSetsExt

CONSTANTS
  Programs,      \* the line programs: sequences of instructions
  LineBase,      \* line_base of the header
  LineRange,     \* line_range
  InstLength,    \* minimum_instruction_length
  DefaultIsStmt, \* default_is_stmt
  MaxSpecial     \* 255 - opcode_base, the last special opcode

(* Addresses and their advances are unsigned, advances of the line are not. *)
WellFormed(c) ==
  /\ c[1] = "special" => c[2] \in 0 .. MaxSpecial
  /\ c[1] \in {"set_address", "advance_pc", "fixed_advance_pc"} => c[2] \in Nat
  /\ c[1] = "advance_line" => c[2] \in Int

ASSUME LineProgramAssumption ==
  /\ LineBase \in Int /\ LineRange \in Nat \ {0}
  /\ InstLength \in Nat \ {0} /\ MaxSpecial \in Nat /\ DefaultIsStmt \in BOOLEAN
  /\ \A p \in Programs : Len(p) \in Nat /\ \A i \in 1 .. Len(p) : WellFormed(p[i])

VARIABLES
  program,    \* the instructions
  next,       \* the instruction at offset
  state,      \* the LineState
  operand,    \* the local variable of that name, or Unbound
  files,      \* file_entry of the header
  entries,    \* the list being built
  linePc      \* "run", "done" or "raised"

lineVars == << program, next, state, operand, files, entries, linePc >>

Unbound == -1000
NoState == [address |-> Unbound]

(* LineState.__init__() *)
LineState ==
  [address |-> 0, file |-> 1, line |-> 1, column |-> 0, is_stmt |-> DefaultIsStmt,
   basic_block |-> FALSE, end_sequence |-> FALSE,
   prologue_end |-> FALSE, epilogue_begin |-> FALSE, isa |-> 0]

LineInit ==
  /\ program \in Programs
  /\ next = 1 /\ state = LineState /\ operand = Unbound
  /\ files = 0 /\ entries = << >> /\ linePc = "run"

Op  == program[next][1]
Arg == program[next][2]

AddOldState(args) ==
  entries' = Append(entries, [at |-> next, args |-> args, state |-> NoState])

(* add_entry_new_state(): the row, and the registers cleared after it. *)
ClearsNothing(s) == s            \* mutant: the registers are not cleared
Cleared(s) == [s EXCEPT !.basic_block = FALSE, !.prologue_end = FALSE, !.epilogue_begin = FALSE]

AddNewState(s, args) ==
  entries' = Append(entries, [at |-> next, args |-> args, state |-> s])

Running == linePc = "run" /\ next <= Len(program)
Advance == next' = next + 1 /\ UNCHANGED << program, linePc >>

AddressAddend(k) == (k \div LineRange) * InstLength
LineAddend(k)    == LineBase + (k % LineRange)

SpecialOpcode ==
  /\ Running /\ Op = "special" /\ Advance
  /\ LET s == [state EXCEPT !.address = @ + AddressAddend(Arg), !.line = @ + LineAddend(Arg)]
     IN AddNewState(s, << LineAddend(Arg), AddressAddend(Arg) >>) /\ state' = Cleared(s)
  /\ UNCHANGED << operand, files >>

Copy ==
  /\ Running /\ Op = "copy" /\ Advance
  /\ AddNewState(state, << >>) /\ state' = Cleared(state)
  /\ UNCHANGED << operand, files >>

AfterSequence(s) == LineState

EndSequence ==
  /\ Running /\ Op = "end_sequence" /\ Advance
  /\ AddNewState([state EXCEPT !.end_sequence = TRUE], << >>)
  /\ state' = AfterSequence(state)
  /\ UNCHANGED << operand, files >>

(* The instructions that set a register from their operand. *)
WithOperand ==
  {"set_address", "advance_pc", "set_file", "set_column", "fixed_advance_pc", "set_isa"}

SetRegister ==
  /\ Running /\ Op \in WithOperand /\ Advance
  /\ operand' = Arg
  /\ state' = CASE Op = "set_address"      -> [state EXCEPT !.address = Arg]
                [] Op = "advance_pc"       -> [state EXCEPT !.address = @ + Arg * InstLength]
                [] Op = "fixed_advance_pc" -> [state EXCEPT !.address = @ + Arg]
                [] Op = "set_file"         -> [state EXCEPT !.file = Arg]
                [] Op = "set_column"       -> [state EXCEPT !.column = Arg]
                [] Op = "set_isa"          -> [state EXCEPT !.isa = Arg]
  /\ AddOldState(<< IF Op = "advance_pc" THEN Arg * InstLength ELSE Arg >>)
  /\ UNCHANGED files

(* DW_LNS_advance_line adds no entry. *)
AdvanceLine ==
  /\ Running /\ Op = "advance_line" /\ Advance
  /\ operand' = Arg /\ state' = [state EXCEPT !.line = @ + Arg]
  /\ UNCHANGED << files, entries >>

ConstAddPc ==
  /\ Running /\ Op = "const_add_pc" /\ Advance
  /\ state' = [state EXCEPT !.address = @ + AddressAddend(MaxSpecial)]
  /\ AddOldState(<< AddressAddend(MaxSpecial) >>)
  /\ UNCHANGED << operand, files >>

SetFlag ==
  /\ Running /\ Op \in {"set_prologue_end", "set_epilogue_begin"} /\ Advance
  /\ state' = IF Op = "set_prologue_end" THEN [state EXCEPT !.prologue_end = TRUE]
              ELSE [state EXCEPT !.epilogue_begin = TRUE]
  /\ AddOldState(<< >>)
  /\ UNCHANGED << operand, files >>

(* Of DW_LNS_negate_stmt and DW_LNS_set_basic_block, which have no operand,  *)
(* the entry shows the operand of an instruction before, if there was one.   *)
FlagShowingOperand ==
  /\ Running /\ Op \in {"negate_stmt", "set_basic_block"} /\ operand # Unbound /\ Advance
  /\ state' = IF Op = "negate_stmt" THEN [state EXCEPT !.is_stmt = ~@]
              ELSE [state EXCEPT !.basic_block = TRUE]
  /\ AddOldState(<< operand >>)
  /\ UNCHANGED << operand, files >>

DefineFile ==
  /\ Running /\ Op = "define_file" /\ Advance
  /\ operand' = Arg /\ files' = files + 1
  /\ AddOldState(<< Arg >>)
  /\ UNCHANGED state

(* An unknown extended opcode is skipped. *)
SkipUnknown ==
  /\ Running /\ Op = "unknown_extended" /\ Advance
  /\ UNCHANGED << state, operand, files, entries >>

(* An unbound operand, or an invalid standard opcode. *)
DecodeFails ==
  /\ Running
  /\ \/ Op \in {"negate_stmt", "set_basic_block"} /\ operand = Unbound
     \/ Op = "invalid"
  /\ linePc' = "raised"
  /\ UNCHANGED << program, next, state, operand, files, entries >>

GetEntries ==
  /\ linePc = "run" /\ next > Len(program)
  /\ linePc' = "done"
  /\ UNCHANGED << program, next, state, operand, files, entries >>

LineNext ==
  \/ SpecialOpcode \/ Copy \/ EndSequence \/ SetRegister \/ AdvanceLine \/ ConstAddPc
  \/ SetFlag \/ FlagShowingOperand \/ DefineFile \/ SkipUnknown \/ DecodeFails \/ GetEntries
LineSpec == LineInit /\ [][LineNext]_lineVars

-----------------------------------------------------------------------------
(* The line table of a program p, from its instructions alone. *)
Is(p, i, names) == p[i][1] \in names
RowOps == {"special", "copy", "end_sequence"}

(* The instructions of i's sequence up to i, and those after the row before. *)
SequenceTo(p, i) ==
  {j \in 1 .. i : \A k \in j .. i - 1 : ~Is(p, k, {"end_sequence"})}
SinceRow(p, i) == {j \in SequenceTo(p, i) : \A k \in j .. i - 1 : ~Is(p, k, RowOps)}

(* What the last instruction of that name in S sets. *)
LastSet(p, S, name, default) ==
  LET L == {j \in S : Is(p, j, {name})}
  IN IF L = {} THEN default ELSE p[Max(L)][2]

(* A special opcode k encodes a line and an address advance. *)
SpecialParts(k) ==
  CHOOSE d \in (LineBase .. LineBase + LineRange - 1) \X (0 .. k) :
    k = (d[1] - LineBase) + LineRange * d[2]

LineSteps(p) == [j \in 1 .. Len(p) |->
  IF Is(p, j, {"special"}) THEN SpecialParts(p[j][2])[1]
  ELSE IF Is(p, j, {"advance_line"}) THEN p[j][2] ELSE 0]

AddressSteps(p) == [j \in 1 .. Len(p) |->
  CASE Is(p, j, {"special"})          -> SpecialParts(p[j][2])[2] * InstLength
    [] Is(p, j, {"advance_pc"})       -> p[j][2] * InstLength
    [] Is(p, j, {"fixed_advance_pc"}) -> p[j][2]
    [] Is(p, j, {"const_add_pc"})     -> SpecialParts(MaxSpecial)[2] * InstLength
    [] OTHER                          -> 0]

(* The sum of the steps at the places in S, along the program. *)
Total(p, steps, S) ==
  LET upTo[i \in 0 .. Len(p)] ==
        IF i = 0 THEN 0 ELSE upTo[i - 1] + (IF i \in S THEN steps[i] ELSE 0)
  IN upTo[Len(p)]

(* A set_address discards the steps before it. *)
AfterSet(p, i) ==
  {j \in SequenceTo(p, i) : \A k \in j .. i : ~Is(p, k, {"set_address"})}

(* The default, negated as often as an instruction in S says so. *)
StmtAfter(p, S) ==
  (Cardinality({j \in S : Is(p, j, {"negate_stmt"})}) % 2 = 0) = DefaultIsStmt

Row(p, i) ==
  LET S == SequenceTo(p, i)
  IN [address |-> LastSet(p, S, "set_address", 0) + Total(p, AddressSteps(p), AfterSet(p, i)),
      file |-> LastSet(p, S, "set_file", 1),
      line |-> 1 + Total(p, LineSteps(p), S),
      column |-> LastSet(p, S, "set_column", 0),
      is_stmt |-> StmtAfter(p, S),
      basic_block |-> \E j \in SinceRow(p, i) : Is(p, j, {"set_basic_block"}),
      end_sequence |-> Is(p, i, {"end_sequence"}),
      prologue_end |-> \E j \in SinceRow(p, i) : Is(p, j, {"set_prologue_end"}),
      epilogue_begin |-> \E j \in SinceRow(p, i) : Is(p, j, {"set_epilogue_begin"}),
      isa |-> LastSet(p, S, "set_isa", 0)]

(* The rows listed are the rows of the table so far, each with the registers *)
(* that the instructions of its own sequence give: nothing leaks from one    *)
(* sequence, or past one row, into the next.                                 *)
RowsAsWritten ==
  LET rows == {n \in DOMAIN entries : entries[n].state # NoState}
  IN /\ {entries[n].at : n \in rows} = {i \in 1 .. next - 1 : Is(program, i, RowOps)}
     /\ \A n \in rows : entries[n].state = Row(program, entries[n].at)

(* Entries stand in the order of their instructions; all but                  *)
(* DW_LNS_advance_line and unknown ones have one.                            *)
EveryCommandListed ==
  /\ \A m, n \in DOMAIN entries : m < n => entries[m].at < entries[n].at
  /\ {entries[n].at : n \in DOMAIN entries} =
       {i \in 1 .. next - 1 : ~Is(program, i, {"advance_line", "unknown_extended"})}

(* The entries of a line program are its instructions, and its rows those    *)
(* of the line table.                                                        *)
LineTableExact == RowsAsWritten /\ EveryCommandListed
=============================================================================
