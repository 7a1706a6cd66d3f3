----------------------------- MODULE DebugInfo -----------------------------
(***************************************************************************)
(* scripts/elftools/dwarf: DWARFInfo iterates over the compile units of      *)
(* .debug_info (dwarfinfo.py), CompileUnit reads the entries of one on       *)
(* demand and links them into a tree (compileunit.py, die.py), and the first *)
(* entry says where the unit's line program is.  All of them move one        *)
(* stream, and the caller mixes them as it likes.                           *)
(*                                                                         *)
(* A unit's header and each of its entries take one place in the stream.  An *)
(* entry is its abbreviation code; 0 is the null entry.  The length field of *)
(* a line program takes one place of .debug_line.                           *)
(***************************************************************************)
EXTENDS Integers, Sequences, FiniteSets, SequencesExt

CONSTANTS
  InfoSections,   \* sequences of units [version, abbrevs, codes, stmts]
  AbbrevTables,   \* per offset in .debug_abbrev: per code [kids, form]
  LineSections    \* sequences of line programs [head, body]; << >>: no section

InfoUnits == [version : Nat, abbrevs : Nat, codes : Seq(Nat), stmts : Nat]
LinePrograms == [head : Nat, body : Nat]

(* A unit whose first entry has DW_AT_stmt_list points at a line program.    *)
ASSUME InfoAssumption ==
  /\ InfoSections \subseteq Seq(InfoUnits)
  /\ LineSections \subseteq Seq(LinePrograms)
  /\ \A u \in InfoSections, l \in LineSections : \A k \in DOMAIN u :
       l # << >> => u[k].stmts \in 0 .. Len(l)

VARIABLES
  units,      \* the section
  cuOffset,   \* offset of the generator _parse_CUs_iter()
  cuEnded,    \* it has ended, or has raised
  yielded,    \* units it gave
  infoPos,    \* position of the stream
  dielist,    \* _dielist of each unit, as indices into its codes
  parsing,    \* the unit whose _parse_DIEs() runs, or 0
  dieOffset,  \* its die_offset
  linkAt,     \* the entry _unflatten_tree() is at, 0 before
  parentstack,
  parent,     \* per unit and entry: _parent, or 0
  children,   \* per unit and entry: _children
  returned,   \* number of entries when _parse_DIEs() last returned, per unit
  linked,     \* units whose tree was linked to the end
  failed,     \* units whose _parse_DIEs() has raised
  lineSec,    \* .debug_line
  seeking,      \* the unit whose line_program_for_CU() runs, or 0
  lineOf      \* per unit: what it has returned, << >> before

cuVars   == << units, cuOffset, cuEnded, yielded >>
treeVars == << linkAt, parentstack, parent, children >>
askVars  == << lineSec, seeking, lineOf >>
infoVars == << cuVars, infoPos, dielist, parsing, dieOffset, treeVars, returned, linked, failed, askVars >>

Unparsed == [k \in DOMAIN units |-> << >>]
Unlinked(none) == [k \in DOMAIN units |-> [i \in DOMAIN units[k].codes |-> none]]

InfoInit ==
  /\ units \in InfoSections /\ lineSec \in LineSections
  /\ cuOffset = 0 /\ cuEnded = FALSE /\ yielded = << >> /\ infoPos = 0
  /\ dielist = Unparsed /\ parsing = 0 /\ dieOffset = 0
  /\ linkAt = 0 /\ parentstack = << >> /\ parent = Unlinked(0) /\ children = Unlinked(<< >>)
  /\ returned = [k \in DOMAIN units |-> 0] /\ linked = {} /\ failed = {}
  /\ seeking = 0 /\ lineOf = [k \in DOMAIN units |-> << >>]

AtRest == parsing = 0 /\ seeking = 0      \* no call of the caller is under way

-----------------------------------------------------------------------------
(* DWARFInfo *)

UnitLength(k) == Len(units[k].codes)      \* what follows the header

(* Where the k-th of things of these sizes begins, each behind the one before. *)
Begins(sizes, k) == LET S[j \in 1 .. k] == IF j = 1 THEN 0 ELSE S[j - 1] + sizes[j - 1] IN S[k]

UnitSizes == [k \in DOMAIN units |-> 1 + UnitLength(k)]
Start(k) == Begins(UnitSizes, k)
InfoSize == Start(Len(units) + 1)

UnitAt(o) == CHOOSE k \in DOMAIN units : o \in Start(k) .. Start(k) + UnitLength(k)
_is_supported_version(v) == v \in 2 .. 3

WhereStreamIs == infoPos               \* mutant: the generator asks the stream
Resumes == cuOffset

(* next() of iter_CUs(): the generator computes the offset of the next unit   *)
(* from the header, and goes on there wherever the stream stands by then.    *)
NextCU ==
  /\ AtRest /\ ~cuEnded /\ Resumes < InfoSize
  /\ LET k == UnitAt(Resumes) IN
       /\ infoPos' = Start(k) + 1
       /\ IF _is_supported_version(units[k].version)
          THEN /\ yielded' = Append(yielded, k)
               /\ cuOffset' = Start(k) + UnitLength(k) + 1
               /\ UNCHANGED cuEnded
          ELSE cuEnded' = TRUE /\ UNCHANGED << yielded, cuOffset >>
  /\ UNCHANGED << units, dielist, parsing, dieOffset, treeVars, returned, linked, failed, askVars >>

StopIteration ==
  /\ AtRest /\ ~cuEnded /\ Resumes >= InfoSize
  /\ cuEnded' = TRUE
  /\ UNCHANGED << units, cuOffset, yielded, infoPos, dielist, parsing, dieOffset, treeVars,
                  returned, linked, failed, askVars >>

-----------------------------------------------------------------------------
(* CompileUnit._parse_DIEs() *)

Code(k, i) == units[k].codes[i]
IsNull(k, i) == Code(k, i) = 0

(* get_abbrev_table() asserts its offset, get_abbrev() raises KeyError, and   *)
(* _translate_attr_value() of DW_FORM_indirect uses an undefined name.       *)
HasAbbrev(k, i) ==
  /\ units[k].abbrevs \in DOMAIN AbbrevTables
  /\ Code(k, i) \in DOMAIN AbbrevTables[units[k].abbrevs]
  /\ AbbrevTables[units[k].abbrevs][Code(k, i)].form # "indirect"
HasChildren(k, i) == AbbrevTables[units[k].abbrevs][Code(k, i)].kids

Boundary(k) == Start(k) + UnitLength(k) + 1

(* A list that is not empty is returned as it is. *)
AlreadyParsed(k) ==
  /\ AtRest /\ k \in ToSet(yielded) /\ dielist[k] # << >>
  /\ returned' = [returned EXCEPT ![k] = Len(dielist[k])]
  /\ UNCHANGED << cuVars, infoPos, dielist, parsing, dieOffset, treeVars, linked, failed, askVars >>

ParseDIEs(k) ==
  /\ dielist[k] = << >>
  /\ parsing' = k /\ dieOffset' = Start(k) + 1 /\ linkAt' = 0

BeginDIEs(k) ==
  /\ AtRest /\ k \in ToSet(yielded) /\ ParseDIEs(k)
  /\ UNCHANGED << cuVars, infoPos, dielist, parentstack, parent, children, returned, linked, failed, askVars >>

Reading == parsing # 0 /\ linkAt = 0 /\ dieOffset < Boundary(parsing)
ReadIndex == dieOffset - Start(parsing)

ReadDIE ==
  /\ Reading /\ (IsNull(parsing, ReadIndex) \/ HasAbbrev(parsing, ReadIndex))
  /\ dielist' = [dielist EXCEPT ![parsing] = Append(@, ReadIndex)]
  /\ infoPos' = dieOffset + 1 /\ dieOffset' = dieOffset + 1
  /\ UNCHANGED << cuVars, parsing, treeVars, returned, linked, failed, askVars >>

Raise == parsing' = 0 /\ failed' = failed \cup {parsing} /\ seeking' = 0 /\ UNCHANGED << lineSec, lineOf >>

(* The entries read so far stay in _dielist. *)
ReadDIERaises ==
  /\ Reading /\ ~IsNull(parsing, ReadIndex) /\ ~HasAbbrev(parsing, ReadIndex)
  /\ Raise /\ infoPos' = dieOffset + 1
  /\ UNCHANGED << cuVars, dielist, dieOffset, treeVars, returned, linked >>

(* _unflatten_tree(): the first entry is the root, with children or not. *)
BeginTree ==
  /\ parsing # 0 /\ linkAt = 0 /\ dieOffset >= Boundary(parsing)
  /\ dielist[parsing] # << >>
  /\ parentstack' = << 1 >> /\ linkAt' = 2
  /\ UNCHANGED << cuVars, infoPos, dielist, parsing, dieOffset, parent, children, returned, linked, failed, askVars >>

EmptyUnitRaises ==
  /\ parsing # 0 /\ linkAt = 0 /\ dieOffset >= Boundary(parsing)
  /\ dielist[parsing] = << >>
  /\ Raise
  /\ UNCHANGED << cuVars, infoPos, dielist, dieOffset, treeVars, returned, linked >>

Pushes(k, i) == HasChildren(k, i)

Linking == parsing # 0 /\ linkAt \in 2 .. Len(dielist[parsing])

LinkDIE ==
  /\ Linking /\ ~IsNull(parsing, linkAt) /\ parentstack # << >>
  /\ parent' = [parent EXCEPT ![parsing][linkAt] = Last(parentstack)]
  /\ children' = [children EXCEPT ![parsing][Last(parentstack)] = Append(@, linkAt)]
  /\ parentstack' = IF Pushes(parsing, linkAt) THEN Append(parentstack, linkAt) ELSE parentstack
  /\ linkAt' = linkAt + 1
  /\ UNCHANGED << cuVars, infoPos, dielist, parsing, dieOffset, returned, linked, failed, askVars >>

LinkNull ==
  /\ Linking /\ IsNull(parsing, linkAt) /\ parentstack # << >>
  /\ parentstack' = Front(parentstack) /\ linkAt' = linkAt + 1
  /\ UNCHANGED << cuVars, infoPos, dielist, parsing, dieOffset, parent, children, returned, linked, failed, askVars >>

LinkRaises ==
  /\ Linking /\ parentstack = << >>
  /\ Raise
  /\ UNCHANGED << cuVars, infoPos, dielist, dieOffset, treeVars, returned, linked >>

EndTree ==
  /\ parsing # 0 /\ linkAt > Len(dielist[parsing])
  /\ returned' = [returned EXCEPT ![parsing] = Len(dielist[parsing])]
  /\ linked' = linked \cup {parsing} /\ parsing' = 0
  /\ UNCHANGED << cuVars, infoPos, dielist, dieOffset, treeVars, failed, askVars >>

-----------------------------------------------------------------------------
(* line_program_for_CU(): get_top_DIE() reads the entries when there are     *)
(* none yet, and also takes the first of a list that was left unfinished.    *)
AskLineProgram(k) ==
  /\ AtRest /\ k \in ToSet(yielded)
  /\ seeking' = k
  /\ ParseDIEs(k) \/ (dielist[k] # << >> /\ UNCHANGED << parsing, dieOffset, linkAt >>)
  /\ UNCHANGED << cuVars, infoPos, dielist, parentstack, parent, children, returned, linked, failed, lineSec, lineOf >>

(* Offset of a line program, which is what DW_AT_stmt_list holds *)
LineSizes == [p \in DOMAIN lineSec |-> 1 + lineSec[p].head + lineSec[p].body]
ProgramAt(p) == Begins(LineSizes, p)
LineSize == ProgramAt(Len(lineSec) + 1)
HasStmtList(k) == ~IsNull(k, 1) /\ units[k].stmts # 0

(* Where the instructions start and end *)
_parse_line_program_at_offset(p) ==
  << ProgramAt(p) + 1 + lineSec[p].head, ProgramAt(p) + 1 + lineSec[p].head + lineSec[p].body >>

(* Without the section the call raises. *)
GiveLineProgram ==
  /\ parsing = 0 /\ seeking # 0
  /\ seeking' = 0
  /\ lineOf' = [lineOf EXCEPT ![seeking] =
       IF ~HasStmtList(seeking) THEN <<"none">>
       ELSE IF lineSec = << >> THEN <<"raised">>
       ELSE _parse_line_program_at_offset(units[seeking].stmts)]
  /\ UNCHANGED << cuVars, infoPos, dielist, parsing, dieOffset, treeVars, returned, linked, failed, lineSec >>

InfoNext ==
  \/ NextCU \/ StopIteration
  \/ \E k \in DOMAIN units : AlreadyParsed(k) \/ BeginDIEs(k) \/ AskLineProgram(k)
  \/ ReadDIE \/ ReadDIERaises \/ BeginTree \/ EmptyUnitRaises
  \/ LinkDIE \/ LinkNull \/ LinkRaises \/ EndTree
  \/ GiveLineProgram
InfoSpec == InfoInit /\ [][InfoNext]_infoVars

-----------------------------------------------------------------------------
(* iter_CUs() gives the units "in order of appearance", each once and none   *)
(* left out, however many entries the caller reads in between.               *)
CUsInOrder ==
  /\ yielded = [i \in 1 .. Len(yielded) |-> i]
  /\ cuEnded => \/ Len(yielded) = Len(units)
                \/ ~_is_supported_version(units[Len(yielded) + 1].version)

(* What nesting says: the parent of an entry is the last one before it that  *)
(* may have children and whose children have not ended.                      *)
Opens(k, j) == j = 1 \/ (~IsNull(k, j) /\ HasChildren(k, j))
NestingParent(k, i) ==
  Max({j \in 1 .. i - 1 :
         /\ Opens(k, j)
         /\ Cardinality({x \in j + 1 .. i - 1 : Opens(k, x)}) =
              Cardinality({x \in j + 1 .. i - 1 : IsNull(k, x)})})

iter_children(k, i) == children[k][i]
iter_siblings(k, i) ==
  IF parent[k][i] = 0 THEN {} ELSE ToSet(iter_children(k, parent[k][i])) \ {i}

(* A tree that was linked is the one the null entries describe, and children *)
(* stand in the order of their appearance.                                   *)
TreeIsNesting ==
  \A k \in linked : \A i \in 1 .. UnitLength(k) :
    /\ parent[k][i] = IF i = 1 \/ IsNull(k, i) THEN 0 ELSE NestingParent(k, i)
    /\ LET mine == {j \in 1 .. UnitLength(k) : parent[k][j] = i}
       IN ToSet(children[k][i]) = mine /\ Len(children[k][i]) = Cardinality(mine)
    /\ \A a, b \in DOMAIN children[k][i] : a < b => children[k][i][a] < children[k][i][b]
    /\ \A j \in iter_siblings(k, i) : i \in iter_siblings(k, j)

(* iter_DIEs() of a unit whose reading never failed gives all its entries.   *)
DIEsComplete ==
  \A k \in DOMAIN units \ failed : returned[k] \in {0, UnitLength(k)}

(* The line program of a unit begins behind the header of the one its first  *)
(* entry points to and ends where the next begins, the last one at the end   *)
(* of .debug_line: whichever units were read before, and also when the       *)
(* reading of the unit's entries has failed behind the first.                *)
LineProgramsMeet ==
  \A k \in DOMAIN units : lineOf[k] # << >> =>
    LET p == units[k].stmts
    IN IF ~HasStmtList(k) THEN lineOf[k] = <<"none">>
       ELSE IF lineSec = << >> THEN lineOf[k] = <<"raised">>
       ELSE /\ lineOf[k][2] - lineOf[k][1] = lineSec[p].body
            /\ lineOf[k][2] = IF p = Len(lineSec) THEN LineSize ELSE ProgramAt(p + 1)

(* However a caller mixes the units, entries, trees and line programs that   *)
(* it reads through one stream, each is complete and in order.               *)
UnitsExact == CUsInOrder /\ TreeIsNesting /\ DIEsComplete /\ LineProgramsMeet
=============================================================================
