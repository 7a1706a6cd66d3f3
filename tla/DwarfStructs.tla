---------------------------- MODULE DwarfStructs ----------------------------
(***************************************************************************)
(* scripts/elftools/elf/structs.py, dwarf/structs.py: the headers of ELF    *)
(* and DWARF as constructs, and what struct_parse() makes of their bytes.   *)
(* Fields that are read alike are represented by one or two of them.  An 8, *)
(* 16 or 32 bit integer takes one byte and a 64 bit integer two: the        *)
(* formats differ in which fields are wide and in what decides it.          *)
(*                                                                         *)
(* A header is written by a reference writer, byte by byte as the formats   *)
(* prescribe, possibly cut short, and read by the code.                     *)
(***************************************************************************)
EXTENDS Construct

CONSTANTS Names,   \* strings of file names, directories and augmentations
          MaxSeq   \* bound: entries of a list in a header

-----------------------------------------------------------------------------
(* The constructs *)

Dwarf_uint8(name)  == UInt8(name)
Dwarf_uint64(name) == ULInt16(name)
Dwarf_offset(name, format) == IF format = 32 THEN UInt8(name) ELSE ULInt16(name)

_LEB128_reader == RepeatUntil({<< "bytes", << b >> >> : b \in 0..(Half - 1)},
                              StaticField(NoName, 1))
Dwarf_uleb128(name) == Rename(name, Adapter("uleb", _LEB128_reader, 0))
Dwarf_sleb128(name) == Rename(name, Adapter("sleb", _LEB128_reader, 0))

Dwarf_initial_length(name) ==
  Adapter("initial",
    Struct(name, << UInt8("first"), If(<< "eq", "first", Escape >>, Dwarf_uint64("second")) >>), 0)

Dwarf_CU_header(format) ==
  Struct("CU_header",
    << Dwarf_initial_length("unit_length"), Dwarf_uint8("version"),
       Dwarf_offset("debug_abbrev_offset", format), Dwarf_uint8("address_size") >>)

ENUM_DW_CHILDREN == [k \in 0..1 |-> IF k = 0 THEN "no" ELSE "yes"]
ENUM_DW_AT       == [k \in {0} |-> "null"]       \* unmapped ones pass as they are
ENUM_DW_FORM     == [k \in {0} |-> "null"]
NullSpec == << "obj", Bind(Bind(Empty, "name", << "name", "null" >>), "form", << "name", "null" >>) >>

Dwarf_abbrev_declaration ==
  Struct("abbrev_entry",
    << Dwarf_uleb128("tag"), Enum(Dwarf_uint8("children_flag"), ENUM_DW_CHILDREN, "none"),
       RepeatUntilExcluding({NullSpec},
         Struct("attr_spec", << Enum(Dwarf_uleb128("name"), ENUM_DW_AT, "pass"),
                                Enum(Dwarf_uleb128("form"), ENUM_DW_FORM, "pass") >>)) >>)

_make_block_struct(field) == PrefixedArray(Dwarf_uint8("elem"), field)

(* The entry that ends the list has an empty name and no more fields: the    *)
(* embedded structure is not read, and the object offered to it stays in     *)
(* the entry's own context.                                                  *)
Dwarf_lineprog_file_entry ==
  Struct("file_entry",
    << CString("name"),
       If(<< "full", "name" >>,
          Embedded(Struct(NoName, << Dwarf_uleb128("dir_index"), Dwarf_uleb128("length") >>))) >>)

EntryWithoutName ==
  {<< "obj", Bind(Empty, "name", << "bytes", << >> >>) >>}

Dwarf_lineprog_header(format) ==
  Struct("lineprog_header",
    << Dwarf_initial_length("unit_length"), Dwarf_offset("header_length", format),
       SInt8("line_base"), Dwarf_uint8("opcode_base"),
       MetaArray(<< "pred", "opcode_base" >>, Dwarf_uint8("standard_opcode_lengths")),
       RepeatUntilExcluding({<< "bytes", << >> >>}, CString("include_directory")),
       RepeatUntilExcluding(EntryWithoutName, Dwarf_lineprog_file_entry) >>)

Dwarf_CIE_header(format) ==
  Struct("CIE_header",
    << Dwarf_initial_length("length"), Dwarf_offset("CIE_id", format), Dwarf_uint8("version"),
       CString("augmentation"), Dwarf_uleb128("code_alignment_factor"),
       Dwarf_sleb128("data_alignment_factor") >>)

(* elf/structs.py *)
ENUM_EI_CLASS == [k \in 1..2 |-> IF k = 1 THEN "32" ELSE "64"]
ENUM_ET       == [k \in {1} |-> "REL"]
ENUM_BIND     == [k \in {1} |-> "GLOBAL"]

Elf_Ehdr ==
  Struct("Ehdr",
    << Struct("e_ident", << Array(2, UInt8("EI_MAG")),
                            Enum(UInt8("EI_CLASS"), ENUM_EI_CLASS, "none"), Padding(Lit(1)) >>),
       Enum(UInt8("e_type"), ENUM_ET, "pass"), UInt8("e_shoff") >>)

ENUM_PT       == [k \in {1} |-> "LOAD"]

(* Addresses, offsets and Elf_xword have the width of the class. *)
Elf_addr(name, class) == IF class = 32 THEN UInt8(name) ELSE ULInt16(name)

(* The classes order the fields differently. *)
Elf_Phdr(class) ==
  LET type   == Enum(UInt8("p_type"), ENUM_PT, "pass")
      flags  == UInt8("p_flags")
      offs   == Elf_addr("p_offset", class)
      filesz == Elf_addr("p_filesz", class)
  IN Struct("Phdr", IF class = 32 THEN << type, offs, filesz, flags >> ELSE << type, flags, offs, filesz >>)

(* st_info packs two fields into a byte. *)
Elf_Sym(class) ==
  LET name  == UInt8("st_name")
      value == Elf_addr("st_value", class)
      info  == BitStruct("st_info", << Enum(BitField("bind", 1, FALSE, FALSE), ENUM_BIND, "pass"),
                                       BitField("type", 1, FALSE, FALSE) >>)
      shndx == UInt8("st_shndx")
  IN Struct("Sym", IF class = 32 THEN << name, value, info, shndx >> ELSE << name, info, shndx, value >>)

(* r_info_sym and r_info_type are computed from r_info, of which the class    *)
(* decides how many bits are the type.                                       *)
InfoTypes(class) == IF class = 32 THEN Half ELSE Base
Elf_Rel(class) ==
  Struct("Rel",
    << Elf_addr("r_offset", class), Elf_addr("r_info", class),
       Value("r_info_sym", << "div", "r_info", InfoTypes(class) >>),
       Value("r_info_type", << "mod", "r_info", InfoTypes(class) >>) >>)

-----------------------------------------------------------------------------
(* The reference: how the standards lay the headers out. *)

RECURSIVE WriteU(_), WriteS(_)
WriteU(n) == IF n < Half THEN << n >> ELSE << Half + (n % Half) >> \o WriteU(n \div Half)
WriteS(n) == IF -(Half \div 2) <= n /\ n < Half \div 2 THEN << n % Half >>
             ELSE << Half + (n % Half) >> \o WriteS(n \div Half)

WriteLength(n, format) == IF format = 32 THEN << n >> ELSE << Escape, n % Base, n \div Base >>
WriteOffset(n, format) == IF format = 32 THEN << n >> ELSE << n % Base, n \div Base >>
WriteString(s)  == Append(s, 0)
WriteAll(ss, W(_)) == FlattenSeq([i \in DOMAIN ss |-> W(ss[i])])

Num(n)  == << "int", n >>
Str(s)  == << "bytes", s >>
Seqn(s) == << "list", s >>
Made(pairs) == << "obj", [x \in {pairs[i][1] : i \in DOMAIN pairs} |->
                           LET i == CHOOSE j \in DOMAIN pairs : pairs[j][1] = x IN pairs[i][2]] >>

Lists(S) == UNION {[1..n -> S] : n \in 0..MaxSeq}

(* format is the class of an ELF header; a is a length or an offset, k a byte, *)
(* s a list of strings.                                                       *)
Headers ==
  {h \in [kind : {"cu", "line", "cie", "abbrev", "block", "ehdr", "phdr", "sym", "rel"},
          format : {32, 64}, a : {0, 1, 5}, k : Bytes, s : Lists(Names)] :
     /\ h.format = 32 => h.a < Reserved
     /\ h.kind \in {"abbrev", "block", "ehdr"} => h.format = 32
     /\ h.kind \in {"abbrev", "ehdr"} => h.k < 2
     /\ h.kind \in {"line", "block"} \/ h.s = << >>}

Specs(h) == [i \in 1..(h.a + h.k) |-> << i % 2, h.a >>]

Text(h) ==
  CASE h.kind = "cu"   -> WriteLength(h.a, h.format) \o << h.k >>
                          \o WriteOffset(h.a, h.format) \o << h.k >>
    [] h.kind = "line" -> WriteLength(h.a, h.format) \o WriteOffset(h.a, h.format)
                          \o << h.k >> \o << h.k >> \o [i \in 1..(h.k - 1) |-> i]
                          \o WriteAll(h.s, WriteString) \o << 0 >>
                          \o WriteAll(h.s, LAMBDA f : WriteString(f) \o WriteU(h.a) \o WriteU(h.k))
                          \o << 0 >>
    [] h.kind = "cie"  -> WriteLength(h.a, h.format) \o WriteOffset(h.a, h.format)
                          \o << h.k >> \o WriteString(<< >>) \o WriteU(h.a) \o WriteS(h.k - 2)
    [] h.kind = "abbrev" -> WriteU(h.a) \o << h.k >>
                            \o WriteAll(Specs(h), LAMBDA p : WriteU(p[1]) \o WriteU(p[2] + 1)) \o << 0, 0 >>
    [] h.kind = "block" -> << Len(h.s) >> \o [i \in DOMAIN h.s |-> h.k]
    [] h.kind = "ehdr"  -> << 1, 2, h.k + 1, 3, h.a, h.k >>
    [] h.kind = "phdr"  -> IF h.format = 32 THEN << 1, h.a, h.k, h.k >>
                           ELSE << 1, h.k >> \o WriteOffset(h.a, 64) \o << h.k, 1 >>
    [] h.kind = "sym"   -> IF h.format = 32 THEN << h.k, h.a, h.k, 1 >>
                           ELSE << h.k, h.k, 1 >> \o WriteOffset(h.a, 64)
    [] h.kind = "rel"   -> WriteOffset(h.a, h.format) \o << h.k >> \o IF h.format = 32 THEN << >> ELSE << 1 >>

Meant(h) ==
  CASE h.kind = "cu" -> Made(<< << "unit_length", Num(h.a) >>, << "version", Num(h.k) >>,
                          << "debug_abbrev_offset", Num(h.a) >>, << "address_size", Num(h.k) >> >>)
    [] h.kind = "line" ->
         Made(<< << "unit_length", Num(h.a) >>, << "header_length", Num(h.a) >>,
           << "line_base", Num(IF h.k < Half THEN h.k ELSE h.k - Base) >>, << "opcode_base", Num(h.k) >>,
           << "standard_opcode_lengths", Seqn([i \in 1..(h.k - 1) |-> Num(i)]) >>,
           << "include_directory", Seqn([i \in DOMAIN h.s |-> Str(h.s[i])]) >>,
           << "file_entry", Seqn([i \in DOMAIN h.s |->
                Made(<< << "name", Str(h.s[i]) >>, << "dir_index", Num(h.a) >>,
                        << "length", Num(h.k) >> >>)]) >> >>)
    [] h.kind = "cie" ->
         Made(<< << "length", Num(h.a) >>, << "CIE_id", Num(h.a) >>, << "version", Num(h.k) >>,
           << "augmentation", Str(<< >>) >>, << "code_alignment_factor", Num(h.a) >>,
           << "data_alignment_factor", Num(h.k - 2) >> >>)
    [] h.kind = "abbrev" ->
         Made(<< << "tag", Num(h.a) >>, << "children_flag", << "name", ENUM_DW_CHILDREN[h.k] >> >>,
           << "attr_spec", Seqn([i \in DOMAIN Specs(h) |->
                Made(<< << "name", IF i % 2 = 0 THEN << "name", "null" >> ELSE Num(1) >>,
                        << "form", Num(h.a + 1) >> >>)]) >> >>)
    [] h.kind = "block" -> Seqn([i \in DOMAIN h.s |-> Num(h.k)])
    [] h.kind = "ehdr" ->
         Made(<< << "e_ident", Made(<< << "EI_MAG", Seqn(<< Num(1), Num(2) >>) >>,
                                       << "EI_CLASS", << "name", ENUM_EI_CLASS[h.k + 1] >> >> >>) >>,
           << "e_type", IF h.a = 1 THEN << "name", "REL" >> ELSE Num(h.a) >>,
           << "e_shoff", Num(h.k) >> >>)
    [] h.kind = "phdr" ->
         Made(<< << "p_type", << "name", "LOAD" >> >>, << "p_offset", Num(h.a) >>,
           << "p_filesz", Num(IF h.format = 32 THEN h.k ELSE h.k + Base) >>, << "p_flags", Num(h.k) >> >>)
    [] h.kind = "sym" ->
         Made(<< << "st_name", Num(h.k) >>, << "st_value", Num(h.a) >>,
           << "st_info", Made(<< << "bind", IF h.k >= Half THEN << "name", "GLOBAL" >> ELSE Num(0) >>,
                                 << "type", Num(h.k % Half) >> >>) >>,
           << "st_shndx", Num(1) >> >>)
    [] h.kind = "rel" ->
         LET info == IF h.format = 32 THEN h.k ELSE h.k + Base
         IN Made(<< << "r_offset", Num(h.a) >>, << "r_info", Num(info) >>,
                    << "r_info_sym", Num(info \div InfoTypes(h.format)) >>,
                    << "r_info_type", Num(info % InfoTypes(h.format)) >> >>)

Format(h) ==
  CASE h.kind = "cu"     -> Dwarf_CU_header(h.format)
    [] h.kind = "line"   -> Dwarf_lineprog_header(h.format)
    [] h.kind = "cie"    -> Dwarf_CIE_header(h.format)
    [] h.kind = "abbrev" -> Dwarf_abbrev_declaration
    [] h.kind = "block"  -> _make_block_struct(Dwarf_uint8(""))
    [] h.kind = "ehdr"   -> Elf_Ehdr
    [] h.kind = "phdr"   -> Elf_Phdr(h.format)
    [] h.kind = "sym"    -> Elf_Sym(h.format)
    [] h.kind = "rel"    -> Elf_Rel(h.format)

-----------------------------------------------------------------------------
VARIABLES
  header,    \* what was written
  section,   \* the bytes: of the header, cut short or with one more behind
  offset,    \* where in the section the header begins
  read       \* result of struct_parse(), or NoResult before it

dwarfVars == << header, section, offset, read >>

DwarfInit ==
  /\ header \in Headers
  /\ offset \in 0..1
  /\ \E cut \in 0..Len(Text(header)), more \in {<< >>, << Base - 1 >>} :
       /\ cut < Len(Text(header)) => more = << >>
       /\ section = [i \in 1..offset |-> 0] \o SubSeq(Text(header), 1, cut) \o more
  /\ read = NoResult

(* struct_parse(struct, stream, stream_pos) *)
StructParse ==
  /\ read = NoResult
  /\ read' = Parse(Format(header), section, offset, Empty)
  /\ UNCHANGED << header, section, offset >>

DwarfNext == StructParse
DwarfSpec == DwarfInit /\ [][DwarfNext]_dwarfVars

Whole == Len(section) >= offset + Len(Text(header))

(* Each header is read as it was written, wherever it begins and whatever    *)
(* follows it, and the stream is left just behind it: where the caller       *)
(* goes on to read the entries, the program or the instructions.             *)
HeaderIsRead ==
  read # NoResult /\ Whole =>
    read.ok /\ read.val = Meant(header) /\ read.pos = offset + Len(Text(header))

(* A header that is cut short is refused, never read as a shorter one.       *)
CutIsRefused == read # NoResult /\ ~Whole => ~read.ok

(* struct_parse() reads headers as written, and no part of one as a whole.   *)
HeadersExact == HeaderIsRead /\ CutIsRefused
=============================================================================
