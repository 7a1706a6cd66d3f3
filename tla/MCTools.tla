------------------------------- MODULE MCTools -------------------------------
(***************************************************************************)
(* The tools under scripts/: each is a process of its own, and a run of    *)
(* this module is a run of one of them, 'tool', chosen at the start.  The  *)
(* variables of the others stay as their Idle definitions leave them.      *)
(* The instances are below, after the composition.                         *)
(***************************************************************************)
EXTENDS DwarfStructs, CallFrame, LineProgram, DebugInfo, ElfFile,
        PathSearch, Emulator, ScanTable, OrderedDict, DwarfExpr, DwarfLists,
        Docs, FsTest, Readelf, ConstructStreams, AttrValues

VARIABLE tool

Tools == {"construct", "structs", "callframe", "lineprogram", "debuginfo",
          "elffile", "graph", "run", "scantable", "lexer", "dict",
          "sections", "expr", "lists", "instructions", "docs", "fstest",
          "readelf", "lazy", "bits", "attrs"}

InitOf(t) ==
  CASE t = "construct"   -> ConInit
    [] t = "structs"     -> DwarfInit
    [] t = "callframe"   -> CfiInit
    [] t = "lineprogram" -> LineInit
    [] t = "debuginfo"   -> InfoInit
    [] t = "elffile"     -> ElfInit
    [] t = "graph"       -> PathInit
    [] t = "run"         -> EmInit
    [] t = "scantable"   -> ScanInit
    [] t = "lexer"       -> LexInit
    [] t = "dict"        -> OdInit
    [] t = "sections"    -> SecInit
    [] t = "expr"        -> ExprInit
    [] t = "lists"       -> ListInit
    [] t = "instructions"-> InstInit
    [] t = "docs"        -> DocInit
    [] t = "fstest"      -> FsInit
    [] t = "readelf"     -> ReadelfInit
    [] t = "lazy"        -> LazyInit
    [] t = "bits"        -> BitInit
    [] t = "attrs"       -> AttrInit

Ident(c, d) == [magic |-> TRUE, class |-> c, data |-> d]
Refusal(id) == [ident |-> id, strs |-> << >>, shnum |-> 0, secs |-> << >>, segs |-> << >>]
CfiE(f, c, k, a) == [fde |-> f, code |-> c, cut |-> k, after |-> a]
AnyOf(S) == CHOOSE x \in S : TRUE
(* The idle section has a CIE after its FDE, which FramesAreRead leaves out. *)
Behind == << [of |-> 2, format |-> 32, code |-> << >>], [of |-> 0, format |-> 32, code |-> << >>] >>
IdleOf(t) ==
  CASE t = "construct"   -> gram = 1 /\ stream = << >> /\ ConInit
    [] t = "structs"     -> header = AnyOf(Headers) /\ offset = 0 /\ section = << >> /\ read = NoResult
    [] t = "callframe"   -> frames = Behind /\ CfiInit
    [] t = "lineprogram" -> program = AnyOf(Programs) /\ LineInit
    [] t = "debuginfo"   -> units = AnyOf(InfoSections) /\ lineSec = << >> /\ InfoInit
    [] t = "elffile"     -> elf = AnyOf(ElfFiles) /\ ElfInit
    [] t = "graph"       -> graphFile = << >> /\ PathInit
    [] t = "run"         -> model = "qemu" /\ timed = FALSE /\ stdin = "quiet" /\ EmInit
    [] t = "scantable"   -> ScanInit
    [] t = "lexer"       -> includes = [f \in Files |-> << >>] /\ LexInit
    [] t = "dict"        -> OdInit
    [] t = "sections"    -> image = Refusal(Ident(3, 1)) /\ SecInit
    [] t = "expr"        -> ExprInit
    [] t = "lists"       -> lists = [kind |-> "loc", lists |-> << >>, cut |-> 0] /\ ListInit
    [] t = "instructions"-> cfiEntry = CfiE(FALSE, << >>, 0, << >>) /\ InstInit
    [] t = "docs"        -> docFiles = << << >> >> /\ docOther = << >> /\ DocInit
    [] t = "fstest"      -> FsInit
    [] t = "readelf"     -> elfRun = AnyOf(ElfRuns) /\ ReadelfInit
    [] t = "lazy"        -> lazyRun = AnyOf(LazyRuns) /\ binding = 1 /\ LazyInit
    [] t = "bits"        -> bitFile = AnyOf(BitFiles) /\ subTell = 0 /\ BitInit
    [] t = "attrs"       -> attrCase = AnyOf(AttrCases) /\ AttrInit

ToolsInit == \E t \in Tools : tool = t /\ (\A i \in Tools \ {t} : IdleOf(i)) /\ InitOf(t)

Only(t) ==
  /\ tool' = t
  /\ IF t = "construct" THEN TRUE ELSE UNCHANGED conVars
  /\ IF t = "structs" THEN TRUE ELSE UNCHANGED dwarfVars
  /\ IF t = "callframe" THEN TRUE ELSE UNCHANGED cfiVars
  /\ IF t = "lineprogram" THEN TRUE ELSE UNCHANGED lineVars
  /\ IF t = "debuginfo" THEN TRUE ELSE UNCHANGED infoVars
  /\ IF t = "elffile" THEN TRUE ELSE UNCHANGED elfVars
  /\ IF t = "graph" THEN TRUE ELSE UNCHANGED pathVars
  /\ IF t = "run" THEN TRUE ELSE UNCHANGED emVars
  /\ IF t = "scantable" THEN TRUE ELSE UNCHANGED scanVars
  /\ IF t = "lexer" THEN TRUE ELSE UNCHANGED lexVars
  /\ IF t = "dict" THEN TRUE ELSE UNCHANGED odVars
  /\ IF t = "sections" THEN TRUE ELSE UNCHANGED esVars
  /\ IF t = "expr" THEN TRUE ELSE UNCHANGED exprVars
  /\ IF t = "lists" THEN TRUE ELSE UNCHANGED listVars
  /\ IF t = "instructions" THEN TRUE ELSE UNCHANGED instVars
  /\ IF t = "docs" THEN TRUE ELSE UNCHANGED docVars
  /\ IF t = "fstest" THEN TRUE ELSE UNCHANGED fsVars
  /\ IF t = "readelf" THEN TRUE ELSE UNCHANGED rdVars
  /\ IF t = "lazy" THEN TRUE ELSE UNCHANGED lazyVars
  /\ IF t = "bits" THEN TRUE ELSE UNCHANGED bitVars
  /\ IF t = "attrs" THEN TRUE ELSE UNCHANGED attrVars

ToolsNext ==
  \/ tool = "construct" /\ ConNext /\ Only("construct")
  \/ tool = "structs" /\ DwarfNext /\ Only("structs")
  \/ tool = "callframe" /\ CfiNext /\ Only("callframe")
  \/ tool = "lineprogram" /\ LineNext /\ Only("lineprogram")
  \/ tool = "debuginfo" /\ InfoNext /\ Only("debuginfo")
  \/ tool = "elffile" /\ ElfNext /\ Only("elffile")
  \/ tool = "graph" /\ PathNext /\ Only("graph")
  \/ tool = "run" /\ EmNext /\ Only("run")
  \/ tool = "scantable" /\ ScanNext /\ Only("scantable")
  \/ tool = "lexer" /\ LexNext /\ Only("lexer")
  \/ tool = "dict" /\ OdNext /\ Only("dict")
  \/ tool = "sections" /\ SecNext /\ Only("sections")
  \/ tool = "expr" /\ ExprNext /\ Only("expr")
  \/ tool = "lists" /\ ListNext /\ Only("lists")
  \/ tool = "instructions" /\ InstNext /\ Only("instructions")
  \/ tool = "docs" /\ DocNext /\ Only("docs")
  \/ tool = "fstest" /\ FsNext /\ Only("fstest")
  \/ tool = "readelf" /\ ReadelfNext /\ Only("readelf")
  \/ tool = "lazy" /\ LazyNext /\ Only("lazy")
  \/ tool = "bits" /\ BitNext /\ Only("bits")
  \/ tool = "attrs" /\ AttrNext /\ Only("attrs")

toolsVars == << tool, conVars, dwarfVars, cfiVars, lineVars, infoVars, elfVars, pathVars,
                emVars, scanVars, lexVars, odVars, esVars, exprVars, listVars, instVars,
                docVars, fsVars, rdVars, lazyVars, bitVars, attrVars >>

(* The fairness of the tools that have one, for the tool that runs. *)
ToolsFairness ==
  /\ WF_cfiVars(tool = "callframe" /\ CfiStep)
  /\ WF_emVars(tool = "run" /\ RunStep) /\ WF_emVars(tool = "run" /\ Alarm)
  /\ WF_emVars(tool = "run" /\ EmuDies) /\ WF_emVars(tool = "run" /\ MonitorDumps)

ToolsSpec == ToolsInit /\ [][ToolsNext]_toolsVars /\ ToolsFairness

\* segments.py:42-43 says of section_in_segment() that only PT_LOAD,
\* PT_GNU_RELR0 and PT_TLS segments can contain sections of SHF_TLS; line 47
\* says that PT_PHDR segments contain no section at all.
TlsSectionsWhereSaid ==
  esPc = "open" =>
    \A s \in Range(image.secs), g \in Range(image.segs) :
      s.tls /\ SectionInSegment(g, s) => g.type \in {"PT_LOAD", "PT_GNU_RELR0", "PT_TLS"}

(* Expressions, lists and attributes of debugging entries are given and      *)
(* described as they were written.  An expression and a list that is looked  *)
(* up by offset are so whatever came before; of a walk over the lists and of *)
(* the entry that an import names, see WalkGivesLists and ImportIsHolder.    *)
DwarfValuesExact ==
  /\ DescribedAsWritten
  /\ LookupIsExact /\ WalkGivesLists
  /\ ImportIsHolder /\ TextAndExtraAgree

-----------------------------------------------------------------------------
(* construct: one grammar for each construct, adapter and macro. *)
Point == Struct("p", << UInt8("x"), UBInt16("y") >>)
MCGrammars == <<
  Point,
  Struct("s", << ULInt16("a"), SInt8("b"), Alias("c", "a"), Anchor("d") >>),
  Struct("s", << UInt8("len"), MetaField("data", Ctx("len")), UInt8("z") >>),
  Struct("s", << UInt8("n"), MetaArray(Ctx("n"), UInt8("e")), Padding(Lit(1)) >>),
  Struct("s", << PrefixedArray(UInt8("e"), UInt8("n")), UInt8("z") >>),
  GreedyRange(Struct("e", << UInt8("k"), UInt8("v") >>)),
  Struct("s", << GreedyRange(UInt8("e")), Terminator >>),
  Struct("s", << OptionalGreedyRange(OneOf(UInt8("e"), {<<"int", 1>>, <<"int", 2>>})), UInt8("z") >>),
  Struct("s", << CString("name"), Optional(Struct("o", << Magic(<<3>>), UInt8("w") >>)) >>),
  Struct("s", << UInt8("t"), Switch("v", Ctx("t"), [k \in 1..2 |-> IF k = 1 THEN UInt8("v") ELSE UBInt16("v")], Pass) >>),
  Struct("s", << UInt8("t"), If(<<"eq", "t", 1>>, Embedded(Struct("", << UInt8("u") >>))) >>),
  Struct("s", << UInt8("t"), Embedded(Struct("", << UInt8("u") >>)), Struct("v", << UInt8("w") >>) >>),
  Union("u", UBInt16("whole"), << Struct("parts", << UInt8("hi"), UInt8("lo") >>) >>),
  Struct("s", << UInt8("at"), Padding(Lit(1)), Pointer(Ctx("at"), UInt8("there")) >>),
  Struct("s", << Aligned(UInt8("a"), 2), Enum(UInt8("k"), [k \in 0..1 |-> IF k = 0 THEN "off" ELSE "on"], "none") >>),
  Struct("s", << BitStruct("b", << BitField("hi", 3, FALSE, FALSE), Padding(Lit(1)) >>), PascalString("p", UInt8("n")) >>),
  Struct("s", << PaddedString("p", 2, 0), Enum(UInt8("k"), [k \in 0..1 |-> IF k = 0 THEN "off" ELSE "on"], "pass") >>),
  Select("c", << Struct("w", << UInt8("a"), Magic(<<1>>), UInt8("b") >>), UInt8("n") >>),
  Struct("s", << FlagsEnum(UInt8("f"), [x \in {"lo", "hi"} |-> IF x = "lo" THEN 1 ELSE 2]), Flag("g"), NoneOf(UInt8("n"), {<<"int", 3>>}) >>),
  Struct("s", << UInt8("t"), EmbeddedBitStruct(<< Bit("hi"), Bit("lo") >>), ExprAdapter(UInt8("z"), 2) >>),
  BitStruct("b", << BitField("w", 4, TRUE, TRUE), BitField("v", 1, FALSE, FALSE), Flag("g") >>),
  SlicingAdapter(Sequence("q", << ConstAdapter(UInt8("m"), <<"int", 3>>), UInt8("a"), UInt8("b") >>, TRUE), 1),
  Struct("s", << TunnelAdapter(PascalString("p", UInt8("n")), OpenRange(0, UBInt16("e"))), UInt8("z") >>),
  AlignedStruct("s", << UInt8("a"), UBInt16("b") >>, 2),
  Struct("s", << UInt8("t"), Select("c", << Embedded(Struct("", << Magic(<<1>>), UInt8("u") >>)), Embedded(Struct("", << UInt8("v") >>)) >>), UInt8("z") >>),
  Struct("s", << UInt8("t"), Peek(Embedded(Struct("", << UInt8("u") >>)), FALSE), UInt8("z") >>),
  Sequence("q", << UInt8("a"), Embedded(Sequence("", << UInt8("b"), UInt8("c") >>, TRUE)), UInt8("d") >>, TRUE)
>>

(* structs.py: file names and augmentations. *)
MCNames == {<<1>>, <<2, 3>>}

(* callframe.py: every CIE of at most one instruction with every FDE of at   *)
(* most two, a CIE with every FDE of at most three, and sections with        *)
(* several entries, in both orders and both formats.                         *)
Entry(of, format, code) == [of |-> of, format |-> format, code |-> code]
Adv == <<"advance">>
Cfa(v) == <<"cfa", "r" \o ToString(v), v>>
Rule(r, v) == <<"rule", r, v>>
Ops == {Adv, Cfa(1), <<"cfa_sf", "r1", 2>>, <<"cfa_expr", <<1>> >>, <<"cfa_reg", "r2">>, Rule("r1", 1), Rule("r2", 2), <<"restore", "r1">>, <<"remember">>, <<"recall">>}
UpTo(k) == UNION {[1 .. j -> Ops] : j \in 0 .. k}
MCSections == {<< Entry(0, 32, c), Entry(1, 32, f) >> : c \in UpTo(1), f \in UpTo(2)}
  \cup {<< Entry(0, 32, <<Rule("r1", 1)>>), Entry(1, 32, f) >> : f \in UpTo(3)} \cup {
  << Entry(3, 32, <<Adv>>), Entry(3, 32, <<Adv>>), Entry(0, 32, << >>) >>,
  << Entry(0, 32, <<Cfa(1), Rule("r1", 1)>>),
     Entry(1, 32, <<Adv, Rule("r2", 2), Adv, <<"cfa_reg", "r2">>, Adv, <<"cfa_offset", 9>> >>),
     Entry(1, 32, <<Rule("r1", 3), Adv, Rule("r1", 4), Rule("r2", 4)>>) >>,
  << Entry(0, 32, <<Adv>>), Entry(0, 32, <<Rule("r2", 5)>>),
     Entry(2, 32, <<Rule("r2", 1), Adv>>), Entry(1, 32, <<Adv, Rule("r1", 1)>>) >>,
  << Entry(2, 32, <<Adv>>), Entry(0, 32, << <<"cfa_offset", 3>> >>) >>,
  << Entry(0, 32, << <<"cfa_expr", <<2>> >> >>), Entry(1, 32, << <<"cfa_offset", 3>>, Adv, <<"cfa_reg", "r1">>, Adv, <<"cfa_sf", "r2", -1>> >>) >>,
  << Entry(0, 64, << >>), Entry(1, 32, <<Adv>>) >>,
  << Entry(0, 32, <<Adv>>), Entry(0, 32, << <<"cfa_offset", 3>> >>), Entry(2, 32, <<Adv>>) >>,
  << Entry(0, 32, << >>), Entry(1, 64, <<Adv>>), Entry(1, 32, <<Adv>>) >>,
  << Entry(0, 32, <<Rule("r1", 1)>>), Entry(1, 32, <<Rule("r1", 2), Adv, <<"restore", "r1">> >>),
     Entry(1, 32, << <<"restore", "r2">> >>) >>,
  << Entry(0, 32, <<Cfa(1)>>), Entry(1, 32, << <<"remember">>, Cfa(2), Adv, <<"recall">> >>),
     Entry(1, 32, << <<"recall">> >>) >>,
  Behind }

(* lineprogram.py: every program of four of the common instructions, and     *)
(* the others around a row.                                                  *)
Common == {<<"special", 7>>, <<"copy">>, <<"end_sequence">>, <<"set_address", 20>>,
           <<"advance_pc", 3>>, <<"advance_line", 5>>, <<"negate_stmt">>,
           <<"set_basic_block">>}
Rare == {<<"const_add_pc">>, <<"set_prologue_end">>, <<"set_epilogue_begin">>, <<"set_isa", 3>>, <<"fixed_advance_pc", 9>>, <<"define_file", 4>>,
         <<"unknown_extended">>, <<"invalid">>, <<"set_file", 2>>, <<"set_column", 6>>}
MCPrograms == [1 .. 4 -> Common]
  \cup {<<i, j, <<"copy">>, k, <<"copy">>>> : i \in Rare, j \in Common \cup Rare, k \in Rare}
MCBase == -1

(* compileunit.py: a good unit before every unit of at most three entries,   *)
(* and deeper, unsupported and damaged ones.                                 *)
UnitOf(v, a, c, s) == [version |-> v, abbrevs |-> a, codes |-> c, stmts |-> s]
Unit(v, c) == UnitOf(v, 1, c, 1)
Decl(kids, form) == [kids |-> kids, form |-> form]
MCAbbrev == 1 :> (1 :> Decl(TRUE, "plain") @@ 2 :> Decl(FALSE, "plain") @@ 3 :> Decl(FALSE, "indirect"))
MCInfoSections ==
  {<< Unit(2, <<1, 2, 0>>), UnitOf(3, 1, d, 2) >> : d \in UNION {[1 .. j -> {0, 1, 2}] : j \in 0 .. 3}} \cup
  { << Unit(3, <<1, 1, 1, 2, 0, 0, 2, 0>>) >>, << Unit(2, <<1, 3>>), Unit(4, <<1>>) >>,
    << Unit(2, <<1, 4, 0>>), Unit(3, <<1, 1, 2, 0, 2, 0>>) >>,
    << UnitOf(2, 9, <<1, 2>>, 1) >>, << Unit(3, << >>), UnitOf(2, 1, <<1, 0, 0>>, 0) >> }
MCLineSections == { << >>, <<[head |-> 2, body |-> 3], [head |-> 1, body |-> 0]>> }

(* relocation.py: up to two relocations of a section of three words. *)
Rela64 == {[offset |-> o, sym |-> s, type |-> t, addend |-> a, rela |-> TRUE] :
             o \in 1 .. 3, s \in 1 .. 2, t \in {"none", "64", "32"}, a \in {0, 2}}
Rel86 == {[offset |-> o, sym |-> s, type |-> t, addend |-> 0, rela |-> FALSE] :
             o \in 1 .. 3, s \in 1 .. 3, t \in {"none", "32", "pc32", "odd"}}
Relocatable(a, R) ==
  {[arch |-> a, symbols |-> <<0, 2>>, data |-> <<1, 3, 0>>, relocs |-> q, link |-> "symtab"] :
     q \in UNION {[1 .. n -> R] : n \in 0 .. 2}}
  \cup {[arch |-> a, symbols |-> <<0, 2>>, data |-> <<1, 3, 0>>, relocs |-> q, link |-> l] :
     q \in {<< >>} \cup {<<r>> : r \in R}, l \in {"other", "none"}}
MCElfFiles == Relocatable("x64", Rela64) \cup Relocatable("x86", Rel86) \cup
  {[arch |-> "arm", symbols |-> <<0>>, data |-> <<1>>,
    relocs |-> <<[offset |-> 1, sym |-> 1, type |-> "32", addend |-> 0, rela |-> FALSE]>>, link |-> "symtab"]}

(* graph.py: graphs of three and of four nodes, one with a self-edge, and    *)
(* every file of three of these lines.                                       *)
MCLayouts == SUBSET {<<1, 2>>, <<2, 1>>, <<2, 3>>, <<3, 2>>, <<3, 4>>, <<4, 2>>, <<1, 3>>, <<4, 1>>}
  \cup SUBSET {<<1, 2>>, <<2, 1>>, <<2, 3>>, <<3, 2>>, <<1, 3>>, <<3, 1>>} \cup {{<<1, 1>>, <<1, 2>>}}
GraphLines == {<<"edge", 1, 2>>, <<"edge", 2, 1>>, <<"files", 1, <<"f">>>>, <<"files", 2, <<"g", "h">>>>, <<"files", 3, <<"f">>>>, <<"blank">>, <<"odd">>}
MCGraphFiles == {FoldSet(LAMBDA e, q : Append(q, <<"edge", e[1], e[2]>>), << >>, l) : l \in MCLayouts} \cup [1 .. 3 -> GraphLines]
  \cup {<< <<"edge", 1, 2>>, <<"files", 1, <<"f">>>>, <<"edge", 2, 1>>, <<"files", 1, <<"g">>>> >>}

(* scantable.py: a key that gives one character, and one that gives two. *)
MCStrings == {<<1>>, <<2, 1>>}

(* elffile.py: every file of at most two of these sections, and of a third,  *)
(* sections in and around segments, and files that are not ELF.              *)
Sec(type, name, link, ent) ==
  [type |-> type, name |-> name, link |-> link, entsize |-> ent, size |-> 2,
   addr |-> 0, offset |-> 0, alloc |-> FALSE, tls |-> FALSE]
SecSet == {Sec("strtab", 2, 1, 0), Sec("symtab", 2, 1, 1), Sec("dynsym", 0, 2, 1), Sec("symtab", 2, 9, 1),
           Sec("symtab", 1, 1, 0), Sec("bits", 1, 1, 0), Sec("nobits", 5, 1, 0), Sec("rel", 0, 1, 1),
           Sec("rela", 3, 1, 1), Sec("rel", 0, 1, 2), Sec("bits", 7, 1, 0)}
Seg(t, v, m, o, f) == [type |-> t, vaddr |-> v, memsz |-> m, offset |-> o, filesz |-> f]
SegPairs == {<< Seg("PT_LOAD", 0, 2, 1, 2), Seg("PT_LOAD", 2, 2, 3, 1) >>,
             << Seg("PT_LOAD", 1, 0, 1, 0), Seg("PT_LOAD", 1, 2, 1, 2) >>,
             << Seg("PT_PHDR", 0, 1, 0, 1), Seg("PT_TLS", 1, 2, 1, 1) >>}
Placed == {[type |-> t, name |-> 1, link |-> 1, entsize |-> 0, size |-> n, addr |-> a, offset |-> o, alloc |-> l, tls |-> s] :
             t \in {"bits", "nobits"}, n \in 0 .. 2, a \in 0 .. 3, o \in 0 .. 3, l, s \in BOOLEAN}
MCStrs == << 3, 1, 0, 3, 4, 2, 0, 1, 2 >>
MCImages ==
  {[ident |-> Ident(1, 1), strs |-> MCStrs, shnum |-> Len(q), secs |-> q, segs |-> << >>] :
     q \in UNION {[1 .. n -> SecSet] : n \in 0 .. 2} \cup {<<r, s, Sec("bits", 1, 1, 0)>> : r, s \in SecSet}}
  \cup {[ident |-> Ident(2, 2), strs |-> << 1, 0 >>, shnum |-> 1, secs |-> << s >>, segs |-> g] : s \in Placed, g \in SegPairs}
  \cup {[ident |-> Ident(1, 1), strs |-> MCStrs, shnum |-> 1, secs |-> <<r, s>>, segs |-> << >>] : r, s \in SecSet}
  \cup {Refusal(Ident(3, 1)), Refusal(Ident(1, 0)), Refusal([magic |-> FALSE, class |-> 1, data |-> 1])}
MCDebugNames == << <<1>>, <<2>> >>
MCRelPrefixes == {<<3>>, <<3, 4>>}
MCAskedNames == {<<1>>, <<3, 1>>, <<9>>}

(* dwarf_expr.py: every kind of operand, whole and cut. *)
Coded(op, raw, args) == [op |-> op, raw |-> raw, args |-> args]
Bare(op) == Coded(op, << >>, << >>)
Fixed(op, n) == LET b == [i \in 1 .. n |-> 200 + i] IN Coded(op, b, << b >>)
SignedCodes == {Coded(op, <<201>>, <<-55>>) : op \in {9, 148, 149}} \cup {Coded(9, <<127>>, <<127>>)}
  \cup {Coded(op, <<254, 255>>, <<-2>>) : op \in {11, 40, 47}} \cup {Coded(40, <<2, 1>>, <<258>>)}
  \cup {Coded(13, <<0, 0, 0, 128>>, <<-2147483647 - 1>>), Coded(13, <<1, 0, 1, 0>>, <<65537>>)}
  \cup {Coded(15, <<255, 255, 255, 255, 6, 7, 0, 0>>, <<-1, 1798>>)}
MCExprStructs == {[addr |-> 4, format |-> 32], [addr |-> 8, format |-> 64]}
ExprCodes(s) ==
  {Bare(op) : op \in {0, 6, 18, 33, 50, 85, 150, 224}}
  \cup {Fixed(op, 1) : op \in {8, 21}} \cup {Fixed(op, 2) : op \in {10, 152}} \cup SignedCodes
  \cup {Fixed(op, 4) : op \in {12, 153}} \cup {Fixed(3, s.addr), Fixed(154, s.format \div 8)}
  \cup {Coded(14, <<1, 0, 0, 128, 6, 7, 8, 9>>, << <<1, 0, 0, 128>>, <<6, 7, 8, 9>> >>)}
  \cup {Coded(op, <<172, 2>>, <<300>>) : op \in {16, 35, 147}} \cup {Coded(144, <<133, 0>>, <<5>>), Coded(144, <<60>>, <<60>>)}
  \cup {Coded(op, <<255, 126>>, <<-129>>) : op \in {17, 112, 143, 145}}
  \cup {Coded(146, <<3, 127>>, <<3, -1>>), Coded(157, <<129, 1, 4>>, <<129, 4>>)}
MCExprs == [s \in MCExprStructs |->
  {[code |-> <<c>>, cut |-> 0] : c \in ExprCodes(s)}
  \cup {[code |-> <<c>>, cut |-> 1] : c \in {x \in ExprCodes(s) : x.op \in {3, 12, 15, 16, 146}}}
  \cup {[code |-> <<Bare(50), Fixed(3, s.addr), Bare(85)>>, cut |-> k] : k \in 0 .. 2}]

(* locationlists.py, ranges.py: up to three lists of up to two entries. *)
LocEntries == {<<Addr(0), Addr(1), <<5, 6>>>>, <<Addr(1), Addr(0), << >>>>, <<Addr(255), Addr(2)>>}
RangeEntries == {<<Addr(0), Addr(1)>>, <<Addr(255), Addr(0)>>}
ListsOf(E) == UNION {[1 .. n -> E] : n \in 0 .. 2}
InSection(k, q, c) == [kind |-> k, lists |-> q, cut |-> c]
MCListSections ==
  {InSection("loc", q, 0) : q \in UNION {[1 .. n -> ListsOf(LocEntries)] : n \in 0 .. 2}}
  \cup {InSection("loc", <<l, m>>, c) : l, m \in ListsOf(LocEntries), c \in {1, 5}}
  \cup {InSection("range", <<l, m>>, c) : l, m \in ListsOf(RangeEntries), c \in {0, 1}}
  \cup {InSection("range", <<l, m, << >> >>, 0) : l, m \in ListsOf(RangeEntries)}

(* callframe.py, instructions: entries of three, CIEs and cut entries of two. *)
CfiCodes ==
  {Bare(0), Bare(11), Coded(1, <<9, 1, 0, 0>>, << <<9, 1, 0, 0>> >>), Coded(2, <<7>>, << <<7>> >>), Coded(3, <<7, 1>>, << <<7, 1>> >>),
   Coded(4, <<1, 1, 0, 0>>, << <<1, 1, 0, 0>> >>), Coded(65, << >>, <<1>>), Coded(131, <<130, 1>>, <<3, 130>>), Coded(197, << >>, <<5>>),
   Coded(12, <<7, 128, 1>>, <<7, 128>>), Coded(14, <<16>>, <<16>>), Coded(19, <<127>>, <<-1>>), Coded(15, <<2, 65, 66>>, << <<65, 66>> >>),
   Coded(16, <<3, 1, 9>>, <<3, <<9>> >>), Coded(22, <<3, 0>>, <<3, << >> >>), Coded(17, <<3, 126>>, <<3, -2>>)}
MCCfiEntries ==
  {CfiE(TRUE, <<c, d, Bare(0)>>, 0, <<0, 0>>) : c, d \in CfiCodes} \cup {CfiE(TRUE, <<c, d, e>>, 0, <<0>>) : c, e \in CfiCodes, d \in {Bare(11), Coded(65, << >>, <<1>>)}}
  \cup {CfiE(FALSE, <<c, d>>, 0, <<1>>) : c, d \in CfiCodes} \cup {CfiE(TRUE, <<d, c>>, 1, <<0>>) : d, c \in CfiCodes}
  \cup {CfiE(TRUE, <<c, Bare(63)>>, 0, << >>) : c \in CfiCodes} \cup {CfiE(FALSE, << >>, 0, << >>)}
MCCfiStructs == [addr |-> 4, format |-> 32]

(* docs.py: a chapter of one file of three lines, or of two of two lines,    *)
(* and a file to embed of up to four lines.                                  *)
DocT(k, b, o, c, t) == [kind |-> k, brace |-> b, ord |-> o, cut |-> c, tail |-> t]
DocL(k, b, o) == DocT(k, b, o, FALSE, FALSE)
DocLines == {DocL("code", "", NoOrd), DocL("open", "", NoOrd), DocL("open", "", 2), DocL("whole", "{", 1), DocL("whole", "", 0),
             DocT("end", "{", NoOrd, FALSE, TRUE), DocL("end", "{}", NoOrd), DocL("end", "}", NoOrd), DocL("asm", "", 1),
             DocL("asm", "{", NoOrd), DocT("open", "", NoOrd, TRUE, FALSE), DocT("asm", "", NoOrd, TRUE, FALSE)}
Texts(n, S) == UNION {[1 .. k -> S] : k \in 0 .. n}
MCChapters ==
  {[files |-> <<f>>, other |-> << >>] : f \in Texts(3, DocLines)}
  \cup {[files |-> <<f, g>>, other |-> << >>] : f \in Texts(2, DocLines),
          g \in Texts(2, {DocL("code", "", NoOrd), DocL("whole", "", 1), DocL("whole", "{", NoOrd)})}
  \cup {[files |-> << <<DocL("code", "", NoOrd), DocL("open", "", 1), DocL("end", "{}", NoOrd)>> >>, other |-> e] :
          e \in Texts(4, SUBSET {"from", "to"})}

(* readelf.py: one file for each display, with what that display reads.      *)
ElfSec(x, k, d, l, i) == [name |-> x, kind |-> k, data |-> d, link |-> l, info |-> i]
EmptyElf == [secs |-> << >>, segs |-> << >>, syms |-> << >>, dies |-> << >>,
             line |-> [dirs |-> << >>, files |-> << >>, code |-> << >>], frames |-> << >>]
ElfRun(o, s, w, f) == [opts |-> o, spec |-> s, what |-> w, file |-> f]
ElfSecs(d) == << ElfSec("", "null", << >>, 0, 0), ElfSec("a", "data", d, 0, 0), ElfSec("b", "rel", <<0, 1, 2>>, 1, 1), ElfSec("t", "symtab", << >>, 0, 0) >>
ElfHeaders == [EmptyElf EXCEPT !.secs = ElfSecs(<<65>>), !.segs = <<{0, 1}, {3}>>,
             !.syms = <<[name |-> "s", shndx |-> 1], [name |-> "", shndx |-> 2], [name |-> "", shndx |-> -1]>>]
DumpSpecs == {<<"num", -1>>, <<"num", 1>>, <<"num", 4>>, <<"name", "a">>, <<"name", "z">>}
ElfTexts == UNION {[1 .. n -> {0, 1, 65}] : n \in 0 .. 4}
ElfLines == {<<"set_file", 0>>, <<"set_file", 1>>, <<"set_file", 2>>, <<"set_file", 3>>, <<"row">>, <<"end">>, <<"define_file", 0>>, <<"define_file", 1>>, <<"other">>}
MCRegNames == 0 .. 16
ElfRow(r, c) == [cfa |-> c, rules |-> [x \in ToSet(r) |-> IF x = 3 THEN {6} ELSE {}]]
ElfFrames == {[cie |-> c, ra |-> 16, regs |-> r, table |-> IF q = NoCfa THEN << ElfRow(<< >>, {}), ElfRow(r, {7}), ElfRow(r, q) >>
                                                            ELSE << ElfRow(<< >>, q), ElfRow(r, {7}) >>] :
                c \in BOOLEAN, r \in {<< >>, <<6, 3>>, <<16, 6>>, <<6, 17>>, <<6, 16, 3>>}, q \in {{}, {17}, NoCfa}}
MCElfRuns ==
  {ElfRun(o, <<"num", 1>>, "info", [ElfHeaders EXCEPT !.secs = @ \o x]) : o \in SUBSET {"-h", "-e", "-s", "-r", "-H"},
     x \in {<< >>, <<ElfSec("c", "rel", <<3>>, 1, 1)>>}}
  \cup {ElfRun({"-e", "-r"}, <<"num", 1>>, "info", f) : f \in {EmptyElf, [EmptyElf EXCEPT !.segs = <<{}>>]}}
  \cup {ElfRun({"-x", "-p"}, s, "info", [EmptyElf EXCEPT !.secs = ElfSecs(d)]) : s \in DumpSpecs, d \in ElfTexts}
  \cup {ElfRun({"--debug-dump"}, <<"num", 1>>, w, [EmptyElf EXCEPT !.dies = d]) :
          w \in {"info", "odd"}, d \in {<<1>> \o q : q \in UNION {[1 .. n -> 0 .. 2] : n \in 0 .. 4}}}
  \cup {ElfRun({"--debug-dump"}, <<"num", 1>>, "decodedline", [EmptyElf EXCEPT !.line =
          [dirs |-> <<"d">>, files |-> x, code |-> q]]) :
            x \in {<< >>, <<[name |-> "f", dir |-> 0], [name |-> "g", dir |-> 1]>>}, q \in [1 .. 3 -> ElfLines]}
  \cup {ElfRun({"--debug-dump"}, <<"num", 1>>, w, [EmptyElf EXCEPT !.frames = <<e, f>>]) :
          w \in {"frames", "frames-interp"}, e \in ElfFrames, f \in {x \in ElfFrames : x.regs = <<6, 3>>}}

(* OnDemand fields in the stream, and pointers to the end and to the start. *)
MCLazyRuns == {[data |-> d, force |-> f, offs |-> o] : d \in {<<1, 2, 3>>}, f \in BOOLEAN, o \in {<< >>, <<2, 0>>, <<3, 1>>}}

(* bitstream.py: three bytes, and one. *)
MCBitFiles == {<<1, 0, 0, 1, 1, 1, 0, 1, 0>>, <<0, 1, 1>>}

(* descriptions.py: references between three units, the second of the 64-bit format. *)
AttrUnit(i, n, d) == [init |-> i, length |-> n, dies |-> d]
AttrUnits == << AttrUnit(1, 3, {2, 3}), AttrUnit(3, 5, {4, 5, 7}), AttrUnit(1, 2, {2}) >>
AttrCase(g, k, n, f, v) == [section |-> [global |-> g, units |-> AttrUnits], attr |-> [unit |-> k, name |-> n, form |-> f, value |-> v]]
MCAttrCases ==
  {AttrCase(g, k, "import", f, v) : g \in {0, 1}, k \in 1 .. 3, f \in {"ref1", "ref_udata", "ref8", "ref_addr"}, v \in 0 .. 15}
  \cup {AttrCase(0, 1, n, f, 2) : n \in {"encoding", "location", "name"}, f \in {"ref1", "data1", "data4", "data8", "addr", "flag", "string", "sec_offset"}}
  \cup {AttrCase(0, 1, n, "block", <<1, 2>>) : n \in {"location", "name"}} \cup {AttrCase(0, 1, "encoding", "data1", 3)}
==============================================================================
