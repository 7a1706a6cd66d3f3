----------------------------- MODULE AttrValues -----------------------------
(***************************************************************************)
(* scripts/elftools/dwarf/descriptions.py: describe_attr_value(), the text  *)
(* of an attribute of a debugging entry.  A table by form gives the value,  *)
(* one by name what is added to it; for DW_AT_import that is the entry      *)
(* referred to, which is looked for in all compile units.                   *)
(*                                                                         *)
(* A section is [global, units], its offset in the file and its units       *)
(* [init, length, dies]: the bytes of the initial length field, what this   *)
(* says, and the offsets of the entries in the unit.  An attribute is       *)
(* [unit, name, form, value].                                               *)
(***************************************************************************)
EXTENDS Integers, Sequences, FiniteSets, SequencesExt, FiniteSetsExt

CONSTANTS
  AttrCases,   \* [section, attr]
  WordValues   \* values of a word: 2^32 in the code

ASSUME AttrAssumption == WordValues \in Nat \ {0}

VARIABLES
  attrCase,
  attrText,    \* the value, as a tagged tuple
  attrExtra,   \* what is added
  scanUnit,    \* the unit that _import_extra() looks at
  refOffset,   \* ref_die_offset
  attrPos,     \* position of the stream of .debug_info
  attrPc       \* "value", "extra", "scan", "done" or "raised"

attrVars == << attrCase, attrText, attrExtra, scanUnit, refOffset, attrPos, attrPc >>

attr  == attrCase.attr
infoUnits == attrCase.section.units
CuOffset(k) == LET S[j \in 1 .. k] == IF j = 1 THEN 0 ELSE S[j - 1] + infoUnits[j - 1].init + infoUnits[j - 1].length IN S[k]

AttrInit ==
  /\ attrCase \in AttrCases
  /\ attrText = << >> /\ attrExtra = << >>
  /\ scanUnit = 1 /\ refOffset = 0 /\ attrPos = 0 /\ attrPc = "value"

-----------------------------------------------------------------------------
_describe_attr_ref(a) == << "ref", a.value + CuOffset(a.unit) >>
_describe_attr_split_64bit(a) == << "words", a.value % WordValues, (a.value \div WordValues) % WordValues >>

(* _ATTR_DESCRIPTION_MAP, with what the others keep of the value; a form it  *)
(* does not have shows the value.                                            *)
ValueText(a) ==
  CASE a.form \in {"ref1", "ref2", "ref4", "ref_udata"}      -> _describe_attr_ref(a)
    [] a.form \in {"ref8", "data8"}                          -> _describe_attr_split_64bit(a)
    [] a.form = "ref_addr"                                   -> << "ref", a.value >>
    [] a.form \in {"data4", "addr", "sec_offset"}            -> << "hex", a.value >>
    [] a.form = "flag"                                       -> << "flag", IF a.value = 0 THEN 0 ELSE 1 >>
    [] a.form \in {"string", "strp"}                         -> << "string", a.value >>
    [] a.form = "block"                                      -> << "block", Len(a.value), a.value >>
    [] OTHER                                                 -> << "value", a.value >>

DescribeValue ==
  /\ attrPc = "value"
  /\ attrText' = ValueText(attr) /\ attrPc' = "extra"
  /\ UNCHANGED << attrCase, attrExtra, scanUnit, refOffset, attrPos >>

(* _EXTRA_INFO_DESCRIPTION_MAP: names of the values of an enumeration, with  *)
(* a default; an expression, which has to be a block of bytes; nothing.      *)
Locations == {"location", "frame_base", "data_member_location"}
MakesExtra ==
  /\ attrPc = "extra" /\ attr.name # "import"
  /\ CASE attr.name = "encoding" -> attrExtra' = << IF attr.value \in 1 .. 2 THEN "name" ELSE "unknown" >> /\ attrPc' = "done"
       [] attr.name \in Locations /\ attr.form \in {"data4", "data8"} -> attrExtra' = << "list" >> /\ attrPc' = "done"
       [] attr.name \in Locations /\ attr.form = "block" -> attrExtra' = << "expr", attr.value >> /\ attrPc' = "done"
       [] attr.name \in Locations /\ attr.form \notin {"data4", "data8", "block"} -> attrPc' = "raised" /\ UNCHANGED attrExtra
       [] OTHER -> attrExtra' = << "nothing" >> /\ attrPc' = "done"
  /\ UNCHANGED << attrCase, attrText, scanUnit, refOffset, attrPos >>

(* _import_extra(): the value of DW_FORM_ref_addr, an offset in the section, *)
(* is taken for one in the file.                                             *)
StartScan ==
  /\ attrPc = "extra" /\ attr.name = "import"
  /\ refOffset' = IF attr.form = "ref_addr" THEN attrCase.section.global + attr.value
                  ELSE attr.value + CuOffset(attr.unit)
  /\ scanUnit' = 1 /\ attrPc' = "scan"
  /\ UNCHANGED << attrCase, attrText, attrExtra, attrPos >>

(* unit_length does not count the length field: the last bytes of the unit   *)
(* are left out.                                                             *)
Spans(k) == infoUnits[k].length + CuOffset(k) > refOffset /\ refOffset >= CuOffset(k)

(* next() of iter_CUs() leaves the stream behind the header; the parse of    *)
(* the entry puts it back there.                                             *)
ScanUnit ==
  /\ attrPc = "scan" /\ scanUnit \in DOMAIN infoUnits
  /\ attrPos' = CuOffset(scanUnit) + infoUnits[scanUnit].init
  /\ IF Spans(scanUnit)
     THEN attrExtra' = << "entry", scanUnit, refOffset >> /\ attrPc' = "done" /\ UNCHANGED scanUnit
     ELSE scanUnit' = scanUnit + 1 /\ UNCHANGED << attrExtra, attrPc >>
  /\ UNCHANGED << attrCase, attrText, refOffset >>

ScanEnds ==
  /\ attrPc = "scan" /\ scanUnit \notin DOMAIN infoUnits
  /\ attrExtra' = << "unknown" >> /\ attrPc' = "done"
  /\ UNCHANGED << attrCase, attrText, scanUnit, refOffset, attrPos >>

AttrNext == DescribeValue \/ MakesExtra \/ StartScan \/ ScanUnit \/ ScanEnds
AttrSpec == AttrInit /\ [][AttrNext]_attrVars

-----------------------------------------------------------------------------
UnitEnd(k) == CuOffset(k) + infoUnits[k].init + infoUnits[k].length
HolderOf(o) == CHOOSE k \in DOMAIN infoUnits : o \in CuOffset(k) .. UnitEnd(k) - 1

(* The entry that the attribute refers to, as an offset in the section *)
Target == IF attr.form = "ref_addr" THEN attr.value ELSE attr.value + CuOffset(attr.unit)
Refers == attr.name = "import" /\ \E k \in DOMAIN infoUnits : Target - CuOffset(k) \in infoUnits[k].dies

(* An import of an entry is described by that entry, read with the           *)
(* abbreviations of the unit that holds it, or as unknown, but never by       *)
(* another.  The code looks for a unit "spanning an address space containing" *)
(* it, but may miss one in the last bytes of its unit, as many as the length  *)
(* field has; anywhere else it is found.  Left out is DW_FORM_ref_addr in a   *)
(* section that does not start the file: see StartScan.                      *)
ImportIsHolder ==
  attrPc = "done" /\ Refers /\ (attr.form = "ref_addr" => attrCase.section.global = 0) =>
    LET k == HolderOf(Target) IN
      \/ attrExtra = << "entry", k, Target >>
      \/ attrExtra = << "unknown" >> /\ Target >= UnitEnd(k) - infoUnits[k].init

(* The text of a reference and what is added to it name the same entry. *)
TextAndExtraAgree ==
  attrPc = "done" /\ Refers /\ attrText[1] = "ref" /\ attrExtra[1] = "entry"
     /\ (attr.form = "ref_addr" => attrCase.section.global = 0)
  => attrText[2] = attrExtra[3]
=============================================================================
