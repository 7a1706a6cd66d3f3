------------------------------ MODULE ElfFile -------------------------------
(***************************************************************************)
(* scripts/elftools/elf: get_dwarf_info() copies the DWARF sections of a     *)
(* file and relocates the copies (elffile.py, relocation.py).               *)
(*                                                                         *)
(* A section's data is a sequence of 32 bit words, here below WordMod; a     *)
(* 64 bit value is two of them, the low one first.                          *)
(***************************************************************************)
EXTENDS Integers, Sequences, FiniteSets, SequencesExt, FiniteSetsExt

CONSTANTS
  ElfFiles,      \* files [arch, symbols, data, relocs, link]
  WordMod,       \* one more than the largest word
  MaxCopies      \* bound: calls of get_dwarf_info()

Relocations == [offset : Nat \ {0}, sym : Nat, type : STRING, addend : Int, rela : BOOLEAN]

ASSUME ElfFileAssumption ==
  /\ WordMod \in Nat \ {0} /\ MaxCopies \in Nat
  /\ \A f \in ElfFiles : f.data \in Seq(0 .. WordMod - 1) /\ f.symbols \in Seq(Nat) /\ f.relocs \in Seq(Relocations)

VARIABLES
  elf,       \* the file: arch "x86", "x64" or other; symbols st_value by index;
             \* data of one section; relocs of its RelocationSection, and what
             \* the sh_link of that is: "symtab", an "other" section or "none"
  copies,    \* number of copies made
  copy,      \* the section_stream
  reloc,     \* next relocation, 0 when no copy is being relocated
  elfPc      \* "idle", "relocating", "relocated" or "raised"

elfVars == << elf, copies, copy, reloc, elfPc >>

ElfInit ==
  /\ elf \in ElfFiles
  /\ copies = 0 /\ copy = << >> /\ reloc = 0 /\ elfPc = "idle"

(* _RELOCATION_RECIPES_X86 and _X64: words read and written, and the value. *)
Words(r) == IF elf.arch = "x64" /\ r.type \in {"none", "64"} THEN 2 ELSE 1

Calc(r, value, sym) ==
  IF r.type = "none" THEN value
  ELSE IF r.type = "pc32" THEN sym + value - r.offset
  ELSE IF elf.arch = "x86" THEN sym + value
  ELSE sym + r.addend

HasRecipe(r) ==
  \/ elf.arch = "x86" /\ ~r.rela /\ r.type \in {"none", "32", "pc32"}
  \/ elf.arch = "x64" /\ r.rela /\ r.type \in {"none", "64", "32", "32s"}

(* Elf_word and Elf_word64 of the structs, read and written. *)
ValueAt(d, o, n) == IF n = 1 THEN d[o] ELSE d[o] + WordMod * d[o + 1]
Fits(v, n) == v >= 0 /\ v < (IF n = 1 THEN WordMod ELSE WordMod * WordMod)
Store(d, o, n, v) ==
  [i \in DOMAIN d |-> IF i = o THEN v % WordMod
                      ELSE IF n = 2 /\ i = o + 1 THEN v \div WordMod ELSE d[i]]

WriteAt(r) == r.offset

FreshCopy == elf.data

(* _read_dwarf_section(): every call copies the section again. *)
ReadDwarfSection ==
  /\ elfPc \in {"idle", "relocated"} /\ copies < MaxCopies
  /\ copies' = copies + 1 /\ copy' = FreshCopy
  /\ reloc' = 1 /\ elfPc' = "relocating"
  /\ UNCHANGED elf

Sym(r) == elf.symbols[r.sym]
InBounds(r) == r.offset + Words(r) - 1 <= Len(copy)

(* Of another section than a symbol table num_symbols() cannot be asked. *)
Applies(r) ==
  /\ elf.link = "symtab"
  /\ r.sym \in DOMAIN elf.symbols /\ HasRecipe(r) /\ InBounds(r)
  /\ Fits(Calc(r, ValueAt(copy, r.offset, Words(r)), Sym(r)), Words(r))

(* _do_apply_relocation() *)
ApplyRelocation ==
  /\ elfPc = "relocating" /\ reloc <= Len(elf.relocs)
  /\ LET r == elf.relocs[reloc] IN
       /\ Applies(r)
       /\ copy' = Store(copy, WriteAt(r), Words(r),
                        Calc(r, ValueAt(copy, r.offset, Words(r)), Sym(r)))
  /\ reloc' = reloc + 1
  /\ UNCHANGED << elf, copies, elfPc >>

(* There is no section at sh_link, which is asked for even where there is no  *)
(* relocation; ELFRelocationError, a read past the end, or a value that       *)
(* struct.pack() refuses: get_dwarf_info() returns nothing.                  *)
RelocationRaises ==
  /\ elfPc = "relocating"
  /\ \/ elf.link = "none"
     \/ reloc <= Len(elf.relocs) /\ ~Applies(elf.relocs[reloc])
  /\ elfPc' = "raised"
  /\ UNCHANGED << elf, copies, copy, reloc >>

Relocated ==
  /\ elfPc = "relocating" /\ reloc > Len(elf.relocs) /\ elf.link # "none"
  /\ elfPc' = "relocated"
  /\ UNCHANGED << elf, copies, copy, reloc >>

ElfNext == ReadDwarfSection \/ ApplyRelocation \/ RelocationRaises \/ Relocated
ElfSpec == ElfInit /\ [][ElfNext]_elfVars

-----------------------------------------------------------------------------
Place(r) == r.offset .. r.offset + Words(r) - 1

(* The relocations that change word o. *)
Aimed(o) ==
  {i \in DOMAIN elf.relocs : elf.relocs[i].type # "none" /\ o \in Place(elf.relocs[i])}

(* Word o of S + A *)
WordOf(r, o) ==
  IF o = r.offset THEN (Sym(r) + r.addend) % WordMod ELSE (Sym(r) + r.addend) \div WordMod

(* S, or S - P: what a relocation without addend adds to what is there.      *)
Shift == [i \in DOMAIN elf.relocs |->
  Sym(elf.relocs[i]) - (IF elf.relocs[i].type = "pc32" THEN elf.relocs[i].offset ELSE 0)]
ShiftBy(S) ==
  LET upTo[i \in 0 .. Len(elf.relocs)] ==
        IF i = 0 THEN 0 ELSE upTo[i - 1] + (IF i \in S THEN Shift[i] ELSE 0)
  IN upTo[Len(elf.relocs)]

(* Every copy returned holds, the first time and every time after, the value *)
(* the ABI gives at each relocated place (S + A, or S + A - P) and the       *)
(* section's own words elsewhere.  Where relocations overlap, those without  *)
(* addend add up, and of those with addend the last has the word: each       *)
(* overwrites what the one before left, also the half of a wider one.        *)
RelocatedAsSpecified ==
  elfPc = "relocated" =>
    /\ Len(copy) = Len(elf.data)
    /\ \A o \in DOMAIN copy :
         copy[o] = IF Aimed(o) = {} THEN elf.data[o]
                   ELSE IF elf.arch = "x64" THEN WordOf(elf.relocs[Max(Aimed(o))], o)
                   ELSE elf.data[o] + ShiftBy(Aimed(o))

-----------------------------------------------------------------------------
(***************************************************************************)
(* scripts/elftools/elf: sections and segments of a file.  get_section()    *)
(* makes a section object from the header at an index; the first call of    *)
(* get_section_by_name() makes every one of them to build the map from      *)
(* names to indices, and keeps what it had when one of them raises.         *)
(*                                                                         *)
(* The stream is left out: every read seeks first.  A file is               *)
(*   [ident, strs, shnum, secs, segs]: what e_ident holds, the bytes from   *)
(* the file's string table to the end, 0 ending a string, and the headers.  *)
(* The table has shnum section headers; secs goes on with what the bytes    *)
(* behind the table read as, up to the end of the file, for get_section()   *)
(* does not look at shnum.  Sections are numbered from 1 and names are      *)
(* sequences of bytes.  An image whose table is cut is not looked at.       *)
(***************************************************************************)
CONSTANTS
  ElfImages,      \* files
  ChunkSize,      \* CHUNKSIZE, 64 in the code
  DebugNames,     \* the sequence of the names that get_dwarf_info() asks for
  RelPrefixes,    \* ".rel" and ".rela"
  AskedNames,     \* names that a caller asks for
  MaxCalls        \* bound: calls by name

ElfSections == [type : STRING, name : Nat, link : Nat \ {0}, entsize : Nat, size : Nat, addr : Nat,
                offset : Nat, alloc : BOOLEAN, tls : BOOLEAN]
ElfSegments == [type : STRING, vaddr : Nat, memsz : Nat, offset : Nat, filesz : Nat]

ASSUME ElfSectionsAssumption ==
  /\ ChunkSize \in Nat \ {0} /\ MaxCalls \in Nat /\ DebugNames \in Seq(Seq(Nat))
  /\ \A f \in ElfImages :
       /\ f.strs \in Seq(Nat) /\ f.secs \in Seq(ElfSections) /\ f.segs \in Seq(ElfSegments)
       /\ f.shnum \in 0 .. Len(f.secs)

VARIABLES
  image,      \* the file
  esPc,       \* "closed", "open", "dwarf" or "refused"
  nameMap,    \* _section_name_map
  asked,      \* the name of the last call of get_section_by_name()
  answer,     \* what it returned: an index, NoSection or Raised
  dwarf,      \* debug_sections: the sections found so far, with their relocations
  calls

esVars == << image, esPc, nameMap, asked, answer, dwarf, calls >>

NoSection == 0
Raised == -1
NoMap == [built |-> FALSE]
NoString == <<-1>>          \* get_string() found no end

SecCount == image.shnum

-----------------------------------------------------------------------------
ChunkAt(b, i) == SubSeq(b, i * ChunkSize + 1, Min({(i + 1) * ChunkSize, Len(b)}))

(* parse_cstring_from_stream(): chunks until one has an end or is not full.  *)
CString0(b) ==
  LET HasEnd(i) == \E j \in DOMAIN ChunkAt(b, i) : ChunkAt(b, i)[j] = 0
      last == Min({i \in 0 .. Len(b) : HasEnd(i) \/ Len(ChunkAt(b, i)) < ChunkSize})
      End(c) == Min({j \in DOMAIN c : c[j] = 0})
  IN IF HasEnd(last)
     THEN FlattenSeq([i \in 1 .. last |-> ChunkAt(b, i - 1)])
            \o SubSeq(ChunkAt(b, last), 1, End(ChunkAt(b, last)) - 1)
     ELSE NoString

GetString(offset) == CString0(SubSeq(image.strs, offset + 1, Len(image.strs)))
SectionName(n) == GetString(image.secs[n].name)

-----------------------------------------------------------------------------
IsSymtab(n) == image.secs[n].type \in {"symtab", "dynsym"}
IsReloc(n) == image.secs[n].type \in {"rel", "rela"}

(* The sections that get_section(n) makes: a symbol table makes the section  *)
(* it links to first.                                                        *)
LinkAfter(n, i) ==
  LET at[j \in 0 .. i] ==
        IF j = 0 THEN n
        ELSE IF at[j - 1] \in DOMAIN image.secs /\ IsSymtab(at[j - 1]) THEN image.secs[at[j - 1]].link
        ELSE at[j - 1]
  IN at[i]
MadeWith(n) == {LinkAfter(n, i) : i \in 0 .. Len(image.secs)}

(* SymbolTableSection, RelocationSection: entries of the right size *)
EntriesOk(n) ==
  /\ IsSymtab(n) => image.secs[n].entsize > 0 /\ image.secs[n].size % image.secs[n].entsize = 0
  /\ IsReloc(n) => image.secs[n].entsize = 1

(* get_section(n) returns: no header past the end is read, no assertion      *)
(* fails, and the links of the symbol tables come to an end.                 *)
CanMake(n) ==
  /\ \A m \in MadeWith(n) : m \in DOMAIN image.secs /\ EntriesOk(m)
  /\ \E m \in MadeWith(n) : ~IsSymtab(m)

-----------------------------------------------------------------------------
(* Mutant: a name keeps its first section. *)
MapOfFirst(n) == [built |-> TRUE,
  at |-> [x \in {SectionName(i) : i \in 1 .. n} |-> Min({i \in 1 .. n : SectionName(i) = x})]]

(* What the loop over the first n sections puts in the map: the last wins.   *)
MapOf(n) == [built |-> TRUE,
  at |-> [x \in {SectionName(i) : i \in 1 .. n} |-> Max({i \in 1 .. n : SectionName(i) = x})]]

(* Sections that iter_sections() yields before one raises *)
Yielded == IF \A i \in 1 .. SecCount : CanMake(i) THEN SecCount
           ELSE Min({i \in 1 .. SecCount : ~CanMake(i)}) - 1

MapNow == IF nameMap.built THEN nameMap ELSE MapOf(Yielded)
RaisesNow == ~nameMap.built /\ Yielded < SecCount
SecnumOf(x) == IF x \in DOMAIN MapNow.at THEN MapNow.at[x] ELSE NoSection

GetSectionByName(x) ==
  /\ esPc = "open" /\ calls < MaxCalls
  /\ calls' = calls + 1
  /\ asked' = x
  /\ nameMap' = MapNow
  /\ answer' = IF RaisesNow THEN Raised ELSE SecnumOf(x)
  /\ UNCHANGED << image, esPc, dwarf >>

-----------------------------------------------------------------------------
(* ELFFile(): the identification and the header of the string table. *)
Identified == image.ident.magic /\ image.ident.class \in {1, 2} /\ image.ident.data \in {1, 2}

OpenFile ==
  /\ esPc = "closed"
  /\ esPc' = IF Identified THEN "open" ELSE "refused"
  /\ UNCHANGED << image, nameMap, asked, answer, dwarf, calls >>

(* get_dwarf_info(): one debug section after the other. *)
GetDwarfInfo ==
  /\ esPc = "open" /\ calls < MaxCalls
  /\ esPc' = "dwarf" /\ dwarf' = << >> /\ calls' = calls + 1
  /\ UNCHANGED << image, nameMap, asked, answer >>

(* The relocation sections whose name is aimed at x *)
RelocsFor(x) == {n \in 1 .. SecCount : IsReloc(n) /\ \E p \in RelPrefixes : SectionName(n) = p \o x}

(* find_relocations_for_section(): the first one, made after the sections    *)
(* before it.                                                                *)
FindRelocations(x) ==
  LET first == IF RelocsFor(x) = {} THEN SecCount + 1 ELSE Min(RelocsFor(x))
  IN IF Yielded < Min({first, SecCount}) THEN Raised
     ELSE IF first > SecCount THEN NoSection ELSE first

DebugSection ==
  /\ esPc = "dwarf" /\ Len(dwarf) < Len(DebugNames)
  /\ LET x == DebugNames[Len(dwarf) + 1]
         sec == IF RaisesNow THEN Raised ELSE SecnumOf(x)
         rel == IF sec \in {Raised, NoSection} THEN NoSection ELSE FindRelocations(x)
     IN /\ nameMap' = MapNow
        /\ asked' = x /\ answer' = sec
        /\ IF Raised \in {sec, rel}
             THEN esPc' = "open" /\ dwarf' = << >>
             ELSE /\ dwarf' = Append(dwarf, << sec, rel >>)
                  /\ UNCHANGED esPc
  /\ UNCHANGED << image, calls >>

DwarfReturns ==
  /\ esPc = "dwarf" /\ Len(dwarf) = Len(DebugNames)
  /\ esPc' = "open"
  /\ UNCHANGED << image, nameMap, asked, answer, dwarf, calls >>

SecInit ==
  /\ image \in ElfImages
  /\ esPc = "closed" /\ nameMap = NoMap /\ asked = << >> /\ answer = NoSection
  /\ dwarf = << >> /\ calls = 0

SecNext ==
  \/ OpenFile
  \/ \E x \in AskedNames : GetSectionByName(x)
  \/ GetDwarfInfo \/ DebugSection \/ DwarfReturns

SecSpec == SecInit /\ [][SecNext]_esVars

-----------------------------------------------------------------------------

(* Wholly inside, and not an empty section at the very end *)
Within(at, size, start, length) ==
  /\ at >= start
  /\ at - start + size <= length
  /\ at - start <= length - 1

(* section_in_segment(), as it is written: sections of SHF_TLS are turned    *)
(* away by the segments that its comment names, and let in by PT_PHDR.       *)
SectionInSegment(g, s) ==
  /\ ~(s.tls /\ g.type \in {"PT_TLS", "PT_GNU_RELR0", "PT_LOAD"})
  /\ ~(s.tls /\ g.type \notin {"PT_TLS", "PT_PHDR"})
  /\ s.alloc => Within(s.addr, s.size, g.vaddr, g.memsz)
  /\ s.type = "nobits" \/ Within(s.offset, s.size, g.offset, g.filesz)

-----------------------------------------------------------------------------
(* The sections of that name among the first that iter_sections() yields:    *)
(* all of the file's, when every section can be made.                        *)
Named(x) == {n \in 1 .. Yielded : SectionName(n) = x}
LastNamed(x) == IF Named(x) = {} THEN NoSection ELSE Max(Named(x))

(* get_section_by_name() raises in the first call if a section cannot be     *)
(* made; every other answer is the last section of that name among those     *)
(* before it.  A section behind is reported as missing, or one before it     *)
(* given for it, which the docstring (elffile.py:70-72) does not say.        *)
ByNameIsNamed ==
  asked # << >> =>
    /\ answer = Raised => Yielded < SecCount
    /\ answer # Raised => answer = LastNamed(asked)

(* A get_dwarf_info() that returns has left out, of the sections that can be *)
(* found, no debug section, and of each the first relocations.               *)
DwarfIsWhole ==
  esPc = "open" /\ dwarf # << >> =>
    \A i \in DOMAIN DebugNames :
      LET R == RelocsFor(DebugNames[i]) IN
        /\ dwarf[i][1] = LastNamed(DebugNames[i])
        /\ dwarf[i][1] # NoSection => dwarf[i][2] = IF R = {} THEN NoSection ELSE Min(R)

(* A string does not depend on where the chunks that were read ended.        *)
StringsWhole ==
  \A o \in 0 .. Len(image.strs) :
    LET ends == {j \in o + 1 .. Len(image.strs) : image.strs[j] = 0}
    IN GetString(o) = IF ends = {} THEN NoString ELSE SubSeq(image.strs, o + 1, Min(ends) - 1)

(* Segments that share no address share no section that has addresses, an    *)
(* empty one on the border included, and a section is inside in the file as  *)
(* well as in memory.                                                        *)
SegmentsShareNothing ==
  \A n \in DOMAIN image.secs, g, h \in Range(image.segs) :
    LET s == image.secs[n] IN
      /\ g.vaddr + g.memsz <= h.vaddr /\ s.alloc =>
           ~(SectionInSegment(g, s) /\ SectionInSegment(h, s))
      /\ SectionInSegment(g, s) /\ s.type # "nobits" =>
           g.offset <= s.offset /\ s.offset + s.size <= g.offset + g.filesz

(* Sections are found by name, whole, in the segments they lie in, and       *)
(* relocated as the ABI says.                                                *)
SectionsExact ==
  /\ RelocatedAsSpecified
  /\ ByNameIsNamed /\ DwarfIsWhole /\ StringsWhole /\ SegmentsShareNothing
=============================================================================
