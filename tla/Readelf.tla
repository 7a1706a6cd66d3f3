------------------------------ MODULE Readelf ------------------------------
(***************************************************************************)
(* scripts/pyelftools-0.20/scripts/readelf.py: what is displayed of a file. *)
(* main() goes through the displays that the options ask for; a display     *)
(* that raises is the last one.  Of the text only what it shows is kept:    *)
(* 'out' is the sequence of items emitted.                                  *)
(*                                                                         *)
(* A run is [opts, spec, what, file].  The file is [secs, segs, syms, dies, *)
(* line, frames]: its sections [name, kind, data, link, info], segments (the *)
(* set of the sections inside), symbols [name, shndx], the entries of a     *)
(* unit (0 null, 1 with children, 2 without), a line program [dirs, files,  *)
(* code] and the decoded call frames [cie, ra, regs, table], a line of a     *)
(* table being [cfa, rules]: the registers that the text of the CFA names    *)
(* and, for each register with a rule, those that the text of the rule       *)
(* names.  Sections are numbered from 0.                                     *)
(***************************************************************************)
EXTENDS Integers, Sequences, FiniteSets, SequencesExt, FiniteSetsExt

CONSTANTS
  ElfRuns,      \* runs
  LineBytes,    \* bytes in a line of a hex dump: 16 in the code
  RegNames      \* registers that the architecture has a name for

ASSUME ReadelfAssumption == LineBytes \in Nat \ {0} /\ RegNames \subseteq Nat

VARIABLES
  elfRun,     \* the run
  displays,   \* displays left, the current one first
  out,        \* what was emitted
  ptr,        \* how far the loop of the current display is; -1 before it
  dumped,     \* the section that is dumped
  dieDepth,   \* die_depth
  rdPc        \* "on", "exit" (sys.exit(0), or the end) or "raised"

rdVars == << elfRun, displays, out, ptr, dumped, dieDepth, rdPc >>

file == elfRun.file
SecOf(n) == file.secs[n + 1]
SecNums == 0 .. Len(file.secs) - 1

-----------------------------------------------------------------------------
(* The order of the displays in main(); -e asks for the first three. *)
DisplayOrder == << "-h", "-S", "-l", "-s", "-r", "-x", "-p", "--debug-dump" >>
Wanted(d) == d \in elfRun.opts \/ (d \in {"-h", "-S", "-l"} /\ "-e" \in elfRun.opts)

ReadelfInit ==
  /\ elfRun \in ElfRuns
  /\ displays = IF "-H" \in elfRun.opts THEN << >> ELSE SelectSeq(DisplayOrder, Wanted)
  /\ out = << >> /\ ptr = -1 /\ dumped = -1 /\ dieDepth = 0 /\ rdPc = "on"

Showing(d) == rdPc = "on" /\ displays # << >> /\ Head(displays) = d

(* The current display is over, having emitted the items last. *)
Displayed(items) ==
  /\ out' = out \o items
  /\ displays' = Tail(displays) /\ ptr' = -1 /\ dumped' = -1 /\ dieDepth' = 0
  /\ UNCHANGED << elfRun, rdPc >>

(* An exception leaves main(), with what was emitted before it. *)
LeavesMain(items) ==
  /\ out' = out \o items /\ rdPc' = "raised"
  /\ UNCHANGED << elfRun, displays, ptr, dumped, dieDepth >>

MainReturns ==
  /\ rdPc = "on" /\ displays = << >>
  /\ rdPc' = "exit"
  /\ UNCHANGED << elfRun, displays, out, ptr, dumped, dieDepth >>

-----------------------------------------------------------------------------
Numbers(s) == [i \in DOMAIN s |-> i - 1]
Kept(s, P(_)) == SelectSeq(s, P)

DisplayFileHeader == Showing("-h") /\ Displayed(<< << "-h", "header" >> >>)

DisplaySectionHeaders ==
  /\ Showing("-S")
  /\ Displayed([i \in DOMAIN file.secs |-> << "-S", i - 1 >>])

(* The null section is in no segment.  Without sections there is no mapping. *)
DisplayProgramHeaders ==
  /\ Showing("-l")
  /\ LET table == [i \in DOMAIN file.segs |-> << "-l", i >>]
         inside(g) == Kept(Numbers(file.secs), LAMBDA n : SecOf(n).kind # "null" /\ n \in g)
         mapping == [i \in DOMAIN file.segs |-> << "-l", i, inside(file.segs[i]) >>]
     IN Displayed(IF table = << >> THEN << << "-l", "none" >> >>
                  ELSE IF file.secs = << >> THEN table ELSE table \o mapping)

DisplaySymbolTables ==
  /\ Showing("-s")
  /\ LET tables == Kept(Numbers(file.secs), LAMBDA n : SecOf(n).kind = "symtab")
         syms(n) == << << "-s", n >> >> \o [i \in DOMAIN file.syms |-> << "-s", n, file.syms[i].name >>]
     IN Displayed(FlattenSeq([i \in DOMAIN tables |-> syms(tables[i])]))

(* A symbol without a name has that of its section; one whose section is not *)
(* a number (SHN_ABS, ...) has none to look up: TypeError.                   *)
Nameless == ""
SymName(i) == LET s == file.syms[i] IN IF s.name # Nameless THEN s.name ELSE SecOf(s.shndx).name
Nameable(i) == file.syms[i].name = Nameless => file.syms[i].shndx \in SecNums

RelItems(n) ==
  << << "-r", n >> >> \o [i \in DOMAIN SecOf(n).data |->
       LET sym == SecOf(n).data[i] IN IF sym = 0 THEN << "-r", n, 0 >> ELSE << "-r", n, sym, SymName(sym) >>]
CanShow(n) == SecOf(n).link \in SecNums /\ \A i \in DOMAIN SecOf(n).data : SecOf(n).data[i] # 0 => Nameable(SecOf(n).data[i])

DisplayRelocations ==
  /\ Showing("-r")
  /\ LET rels == Kept(Numbers(file.secs), LAMBDA n : SecOf(n).kind = "rel")
         good == {k \in 0 .. Len(rels) : \A i \in 1 .. k : CanShow(rels[i])}
         shown == FlattenSeq([i \in 1 .. Max(good) |-> RelItems(rels[i])])
     IN IF rels = << >> THEN Displayed(<< << "-r", "none" >> >>)
        ELSE IF Max(good) = Len(rels) THEN Displayed(shown)
        ELSE LeavesMain(shown \o << << "-r", rels[Max(good) + 1] >> >>)

-----------------------------------------------------------------------------
(* _section_from_spec(): a number is one even if a section has that name; a  *)
(* negative one passes the test and reads whatever lies before the table.    *)
NoSec == -1
SpecOutcomes ==
  IF elfRun.spec[1] = "num"
  THEN LET n == elfRun.spec[2] IN IF n \in SecNums THEN {n} ELSE IF n < 0 THEN SecNums ELSE {NoSec}
  ELSE {Max({NoSec} \cup {n \in SecNums : SecOf(n).name = elfRun.spec[2]})}

(* _note_relocs_for_section() *)
Noted(n) == \E r \in SecNums : SecOf(r).kind = "rel" /\ SecOf(r).info = n

BeginDump(d) ==
  /\ Showing(d) /\ d \in {"-x", "-p"} /\ ptr = -1
  /\ \E n \in SpecOutcomes :
       IF n = NoSec THEN Displayed(<< << d, "none" >> >>)
       ELSE /\ dumped' = n /\ ptr' = 0
            /\ out' = out \o (IF d = "-x" /\ Noted(n) THEN << << d, "note" >> >> ELSE << >>)
            /\ UNCHANGED << elfRun, displays, dieDepth, rdPc >>

Data == SecOf(dumped).data

LineLength(left) == IF left > LineBytes THEN LineBytes ELSE left

BytesLeft(p) == p < Len(Data)

HexLine ==
  /\ Showing("-x") /\ ptr >= 0 /\ BytesLeft(ptr)
  /\ LET n == LineLength(Len(Data) - ptr) IN
       /\ out' = Append(out, << "-x", ptr, SubSeq(Data, ptr + 1, ptr + n) >>)
       /\ ptr' = ptr + n
  /\ UNCHANGED << elfRun, displays, dumped, dieDepth, rdPc >>

HexEnds == Showing("-x") /\ ptr >= 0 /\ ~BytesLeft(ptr) /\ Displayed(<< >>)

Printable(b) == b \in 32 .. 127

(* Mutant: the next string is looked for right after the start of this one. *)
AfterStart(start, end) == start + 1
AfterString(start, end) == end

(* The next string: from a byte that can be printed up to a 0 *)
NextString ==
  /\ Showing("-p") /\ ptr >= 0
  /\ \E i \in ptr + 1 .. Len(Data) : Printable(Data[i])
  /\ LET start == Min({i \in ptr + 1 .. Len(Data) : Printable(Data[i])}) - 1
         end == Min({i \in start + 1 .. Len(Data) : Data[i] = 0} \cup {Len(Data) + 1}) - 1
     IN /\ out' = Append(out, << "-p", start, SubSeq(Data, start + 1, end) >>)
        /\ ptr' = AfterString(start, end)
  /\ UNCHANGED << elfRun, displays, dumped, dieDepth, rdPc >>

StringsEnd ==
  /\ Showing("-p") /\ ptr >= 0
  /\ ~\E i \in ptr + 1 .. Len(Data) : Printable(Data[i])
  /\ Displayed(IF \E i \in DOMAIN out : out[i][1] = "-p" THEN << >> ELSE << << "-p", "none" >> >>)

-----------------------------------------------------------------------------
Dumping(what) == Showing("--debug-dump") /\ elfRun.what = what

(* Without debug sections, or for an unknown section, nothing is dumped. *)
NoDebugDump ==
  /\ Showing("--debug-dump")
  /\ elfRun.what \notin {"info", "decodedline", "frames", "frames-interp"}
  /\ Displayed(<< >>)

DepthAfter(c) == IF c = 1 THEN dieDepth + 1 ELSE dieDepth

Item == IF ptr = -1 THEN 1 ELSE ptr     \* the item of the loop that is next

DumpDIE ==
  /\ Dumping("info") /\ Item <= Len(file.dies)
  /\ LET c == file.dies[Item] IN
       IF c = 0 THEN dieDepth' = dieDepth - 1 /\ UNCHANGED out
       ELSE dieDepth' = DepthAfter(c) /\ out' = Append(out, << "die", Item, dieDepth >>)
  /\ ptr' = Item + 1
  /\ UNCHANGED << elfRun, displays, dumped, rdPc >>

InfoEnds == Dumping("info") /\ Item > Len(file.dies) /\ Displayed(<< >>)

(* A Python list takes indices from -Len(s), those below 0 from its end. *)
PyHas(s, i) == i \in -Len(s) .. Len(s) - 1
PyAt(s, i) == s[IF i < 0 THEN Len(s) + i + 1 ELSE i + 1]

(* What lineprogram.py gives for file.line.code: the file of the state at i  *)
StateFile(i) ==
  LET code == file.line.code
      sets == {j \in 1 .. i : code[j][1] \in {"set_file", "end"} /\ (code[j][1] = "end" => j < i)}
  IN IF sets = {} \/ code[Max(sets)][1] = "end" THEN 1 ELSE code[Max(sets)][2]

FileIndex(f) == f - 1

(* get_entries() has decoded the whole program before the loop over it, and  *)
(* has put the files that it defines after those of the header.              *)
DefinedFile(code) == [name |-> "defined", dir |-> code[2]]
Defines(code) == code[1] = "define_file"
AllFiles ==
  LET defs == SelectSeq(file.line.code, Defines)
  IN file.line.files \o [j \in DOMAIN defs |-> DefinedFile(defs[j])]

LineItem(i) ==
  LET code == file.line.code[i] files == AllFiles dirs == file.line.dirs
      shown(f) == << "name", PyAt(files, f).name >>
  IN CASE code[1] = "set_file" ->
            LET f == FileIndex(code[2]) IN
              IF ~PyHas(files, f) THEN << "raises" >>
              ELSE IF PyAt(files, f).dir # 0 /\ ~PyHas(dirs, PyAt(files, f).dir - 1) THEN << "raises" >>
              ELSE << "file" >> \o shown(f)
       [] code[1] = "define_file" ->
            IF PyHas(dirs, code[2]) THEN << "dir", PyAt(dirs, code[2]) >> ELSE << "raises" >>
       [] code[1] = "row" ->
            LET f == FileIndex(StateFile(i)) IN IF PyHas(files, f) THEN << "row" >> \o shown(f) ELSE << "raises" >>
       [] OTHER -> << "silent" >>

(* The heading names the first file of the header. *)
NoHeading ==
  /\ Dumping("decodedline") /\ ptr = -1 /\ file.line.files = << >>
  /\ LeavesMain(<< >>)

Headed == Dumping("decodedline") /\ file.line.files # << >>

DumpLineEntry ==
  /\ Headed /\ Item <= Len(file.line.code)
  /\ LET x == LineItem(Item) IN
       IF x[1] = "raises" THEN LeavesMain(<< >>)
       ELSE /\ out' = IF x[1] = "silent" THEN out ELSE Append(out, << "line", Item >> \o x)
            /\ ptr' = Item + 1
            /\ UNCHANGED << elfRun, displays, dumped, dieDepth, rdPc >>

LinesEnd == Headed /\ Item > Len(file.line.code) /\ Displayed(<< >>)

(* Columns: the registers in order, that of the return address last *)
Columns(regs, ra) == Append(SetToSortSeq(ToSet(SelectSeq(regs, LAMBDA r : r # ra)), <), ra)

(* The instructions of an entry are described one after the other. *)
DumpEntry ==
  /\ Dumping("frames") /\ Item <= Len(file.frames)
  /\ out' = Append(out, << "entry", Item, file.frames[Item].cie >>)
  /\ ptr' = Item + 1
  /\ UNCHANGED << elfRun, displays, dumped, dieDepth, rdPc >>

(* A line without a CFA, or with an empty expression for one, has no text    *)
(* (None has no expr), and a register without a name has none either.        *)
NoCfa == {-1}
Describable(line) == line.cfa \cup UNION Range(line.rules) \subseteq RegNames

(* The heading has the name of each register but that of the return address. *)
DumpFrame ==
  /\ Dumping("frames-interp") /\ Item <= Len(file.frames)
  /\ LET e == file.frames[Item]
         cols == Columns(e.regs, e.ra)
         row(k) == << "frame", Item, cols, [j \in DOMAIN cols |-> IF cols[j] \in DOMAIN e.table[k].rules THEN "rule" ELSE "u"] >>
         bad == {k \in DOMAIN e.table : ~Describable(e.table[k])}
     IN IF ~(Range(Front(cols)) \subseteq RegNames) THEN LeavesMain(<< >>)
        ELSE IF bad # {} THEN LeavesMain([k \in 1 .. Min(bad) - 1 |-> row(k)])
        ELSE /\ out' = out \o [k \in DOMAIN e.table |-> row(k)]
             /\ ptr' = Item + 1
             /\ UNCHANGED << elfRun, displays, dumped, dieDepth, rdPc >>

FramesEnd ==
  /\ Dumping("frames") \/ Dumping("frames-interp")
  /\ Item > Len(file.frames)
  /\ Displayed(<< >>)

ReadelfNext ==
  \/ DisplayFileHeader \/ DisplaySectionHeaders \/ DisplayProgramHeaders \/ DisplaySymbolTables \/ DisplayRelocations
  \/ \E d \in {"-x", "-p"} : BeginDump(d)
  \/ HexLine \/ HexEnds \/ NextString \/ StringsEnd
  \/ NoDebugDump \/ DumpDIE \/ InfoEnds \/ NoHeading \/ DumpLineEntry \/ LinesEnd \/ DumpEntry \/ DumpFrame \/ FramesEnd
  \/ MainReturns

ReadelfSpec == ReadelfInit /\ [][ReadelfNext]_rdVars

-----------------------------------------------------------------------------
ItemsOf(d) == SelectSeq(out, LAMBDA x : x[1] = d)
Past(d) == Wanted(d) /\ "-H" \notin elfRun.opts /\ d \notin Range(displays)
Asked == elfRun.spec[1] = "name" \/ elfRun.spec[2] >= 0

(* A hex dump that has ended shows the bytes of the section that was asked   *)
(* for, each once and at its address, in lines that are full but for the     *)
(* last.                                                                     *)
HexDumpIsData ==
  Past("-x") /\ Asked /\ SpecOutcomes # {NoSec} =>
    LET data == SecOf(CHOOSE n \in SpecOutcomes : TRUE).data
        lines == SelectSeq(ItemsOf("-x"), LAMBDA x : Len(x) = 3)
    IN /\ FlattenSeq([i \in DOMAIN lines |-> lines[i][3]]) = data
       /\ \A i \in DOMAIN lines :
            /\ lines[i][2] = LineBytes * (i - 1)
            /\ i < Len(lines) => Len(lines[i][3]) = LineBytes

(* A string dump that has ended shows every byte that can be printed in      *)
(* exactly one string, and no string goes past a 0.                          *)
StringsCovered ==
  Past("-p") /\ Asked /\ SpecOutcomes # {NoSec} =>
    LET data == SecOf(CHOOSE n \in SpecOutcomes : TRUE).data
        strs == SelectSeq(ItemsOf("-p"), LAMBDA x : Len(x) = 3)
        holds(x, i) == i \in x[2] + 1 .. x[2] + Len(x[3])
    IN /\ \A i \in DOMAIN data : Printable(data[i]) => Cardinality({k \in DOMAIN strs : holds(strs[k], i)}) = 1
       /\ \A k \in DOMAIN strs : \A i \in DOMAIN strs[k][3] : strs[k][3][i] = data[strs[k][2] + i] /\ strs[k][3][i] # 0

(* The parent of entry i: the last entry with children that i is inside of,  *)
(* 0 for the top.  Between the two lie whole subtrees.                       *)
Balanced(s) == Cardinality({i \in DOMAIN s : s[i] = 1}) = Cardinality({i \in DOMAIN s : s[i] = 0})
ParentOf(d, i) ==
  Max({0} \cup {j \in 1 .. i - 1 : d[j] = 1 /\ Balanced(SubSeq(d, j + 1, i - 1))})

(* An entry is shown one level below its parent, in a unit whose lists of    *)
(* children are closed by one null entry each.                               *)
DepthIsNesting ==
  \A k \in DOMAIN ItemsOf("die") :
    LET i == ItemsOf("die")[k][2] depth(j) == ItemsOf("die")[j][3] up == ParentOf(file.dies, i)
    IN IF up = 0 THEN i = 1 => depth(k) = 0
       ELSE \A j \in DOMAIN ItemsOf("die") : ItemsOf("die")[j][2] = up => depth(k) = depth(j) + 1

(* A row comes under the file that was announced: it has the name that the   *)
(* last set_file since the start of its sequence showed, be it of the header *)
(* or defined by the program, or that of the first file.                     *)
RowsUnderTheirFile ==
  \A k \in DOMAIN ItemsOf("line") :
    LET x == ItemsOf("line")[k]
        before == {j \in 1 .. k - 1 : ItemsOf("line")[j][3] = "file" /\
                     ~\E e \in ItemsOf("line")[j][2] .. x[2] - 1 : file.line.code[e][1] = "end"}
    IN x[3] = "row" => IF before = {} THEN x[5] = file.line.files[1].name
                       ELSE x[5] = ItemsOf("line")[Max(before)][5]

(* A row of a decoded table has one column for each register that some line  *)
(* has a rule for, and one for the return address, the last.                 *)
ColumnsOnce ==
  \A k \in DOMAIN ItemsOf("frame") :
    LET x == ItemsOf("frame")[k] e == file.frames[x[2]]
    IN /\ IsInjective(x[3]) /\ Last(x[3]) = e.ra
       /\ UNION {DOMAIN line.rules : line \in Range(e.table)} \subseteq Range(x[3])

(* What the displays show is what the file holds, each item once and under   *)
(* its own heading.                                                          *)
ReadelfExact ==
  /\ HexDumpIsData /\ StringsCovered /\ DepthIsNesting
  /\ RowsUnderTheirFile /\ ColumnsOnce
=============================================================================
