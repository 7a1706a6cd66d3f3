----------------------------- MODULE DwarfLists -----------------------------
(***************************************************************************)
(* scripts/elftools/dwarf/locationlists.py and ranges.py: lists of address  *)
(* ranges, found by offset or one after the other.  The generators do not   *)
(* seek between two lists: they go on from wherever the stream is, which a  *)
(* lookup by offset has moved.                                              *)
(*                                                                         *)
(* A section is [kind, lists, cut]: "loc" or "range", the lists that were   *)
(* written, each a sequence of <<begin, end>> or <<begin, end, expr>>, and  *)
(* the bytes missing at its end.  Addresses are sequences of bytes.         *)
(***************************************************************************)
EXTENDS Operands

CONSTANTS
  ListSections,   \* sections
  AddressSize,    \* bytes of a target address
  MaxLookups      \* bound: calls by offset

ASSUME DwarfListsAssumption == AddressSize \in Nat \ {0} /\ MaxLookups \in Nat

VARIABLES
  lists,       \* the section
  listPos,     \* position of self.stream
  walk,        \* the generator: "new", "on", "done" or "raised"
  walked,      \* the lists it has given
  looked,      \* the last lookup: its offset and what it returned
  lookups,
  behind,      \* history: the list that the stream is behind while the generator
               \* is on; one that is cut short leaves it at the end
  places       \* history: which lists the generator has come to

listVars == << lists, listPos, walk, walked, looked, lookups, behind, places >>

Addr(n) == [i \in 1 .. AddressSize |-> n]
Zero == Addr(0)
MaxAddr == Addr(255)      \* _max_addr

(* The bytes of a list and of the section, as a producer writes them *)
EntryBytes(e) ==
  IF Len(e) = 3 THEN e[1] \o e[2] \o << Len(e[3]), 0 >> \o e[3] ELSE e[1] \o e[2]
ListBytes(l) == FlattenSeq([i \in DOMAIN l |-> EntryBytes(l[i])]) \o Zero \o Zero
SectionBytes ==
  LET b == FlattenSeq([i \in DOMAIN lists.lists |-> ListBytes(lists.lists[i])])
  IN SubSeq(b, 1, Len(b) - lists.cut)
StartOf(k) ==
  FoldLeft(LAMBDA acc, i : acc + Len(ListBytes(lists.lists[i])), 0, [j \in 1 .. k - 1 |-> j])

-----------------------------------------------------------------------------
(* Entries with an expression after the two addresses *)
HasExpr(begin) == lists.kind = "loc" /\ begin # MaxAddr

(* The bytes there are of n at pos *)
Slice(b, pos, n) == SubSeq(b, pos + 1, Min({pos + n, Len(b)}))

(* The bytes of the entry at pos: two addresses and, where there is one, an  *)
(* expression behind its length.                                             *)
EntrySize(b, pos) ==
  LET begin == Slice(b, pos, AddressSize)
      end   == Slice(b, pos + AddressSize, AddressSize)
      len   == Slice(b, pos + 2 * AddressSize, 2)
  IN 2 * AddressSize
     + IF HasExpr(begin) /\ ~(begin = Zero /\ end = Zero) THEN 2 + NumberOf(len, 256) ELSE 0

EntryOf(e) ==
  LET range == << SubSeq(e, 1, AddressSize), SubSeq(e, AddressSize + 1, 2 * AddressSize) >>
  IN IF Len(e) = 2 * AddressSize THEN range ELSE Append(range, SubSeq(e, 2 * AddressSize + 3, Len(e)))

(* One turn of the loop in _parse_location_list_from_stream() and            *)
(* _parse_range_list_from_stream().  so is what has been read: 'on' while    *)
(* the loop goes on, the entries in val.                                     *)
ParseEntry(b, so) ==
  LET e    == Slice(b, so.pos, EntrySize(b, so.pos))
      ok   == Len(e) = EntrySize(b, so.pos)
      goes == ok /\ e # Zero \o Zero
  IN [on |-> goes, ok |-> ok, pos |-> so.pos + Len(e),
      val |-> IF goes THEN Append(so.val, EntryOf(e)) ELSE so.val]

ParseList(b, pos) ==
  FoldLeft(LAMBDA so, i : IF so.on THEN ParseEntry(b, so) ELSE so,
           [on |-> TRUE, ok |-> TRUE, pos |-> pos, val |-> << >>], [i \in 1 .. Len(b) \div (2 * AddressSize) + 1 |-> i])

ListInit ==
  /\ lists \in ListSections
  /\ listPos = 0 /\ walk = "new" /\ walked = << >>
  /\ looked = [at |-> 0, ok |-> FALSE, val |-> << >>] /\ lookups = 0
  /\ behind = 0 /\ places = << >>

GetListAtOffset(k) ==
  /\ lookups < MaxLookups
  /\ \E r \in {ParseList(SectionBytes, StartOf(k))} :
       /\ listPos' = r.pos
       /\ looked' = [at |-> k, ok |-> r.ok, val |-> IF r.ok THEN r.val ELSE << >>]
  /\ lookups' = lookups + 1
  /\ behind' = IF walk # "on" THEN behind ELSE IF looked'.ok THEN k ELSE Len(lists.lists)
  /\ UNCHANGED << lists, walk, walked, places >>

(* Where the generator reads the next list *)
IterFrom == IF walk = "new" THEN 0 ELSE listPos

(* iter_location_lists(), iter_range_lists() from one yield to the next *)
IterLists ==
  /\ walk \in {"new", "on"}
  /\ \E r \in {ParseList(SectionBytes, IterFrom)} :
        IF IterFrom >= Len(SectionBytes)
        THEN walk' = "done" /\ listPos' = IterFrom /\ UNCHANGED << walked, behind, places >>
        ELSE /\ listPos' = r.pos
             /\ places' = Append(places, 1 + IF walk = "new" THEN 0 ELSE behind)
             /\ behind' = IF r.ok THEN Last(places') ELSE Len(lists.lists)
             /\ walk' = IF r.ok THEN "on" ELSE "raised"
             /\ walked' = IF r.ok THEN Append(walked, r.val) ELSE walked
  /\ UNCHANGED << lists, looked, lookups >>

(* The caller starts another generator. *)
IterAgain ==
  /\ walk \in {"done", "raised"} /\ lookups < MaxLookups
  /\ walk' = "new" /\ walked' = << >> /\ places' = << >> /\ lookups' = lookups + 1
  /\ UNCHANGED << lists, listPos, looked, behind >>

ListNext ==
  \/ \E k \in DOMAIN lists.lists : GetListAtOffset(k)
  \/ IterLists
  \/ IterAgain

ListSpec == ListInit /\ [][ListNext]_listVars

-----------------------------------------------------------------------------
(* A lookup by offset returns the list written there, wherever a generator   *)
(* has left the stream; only one that the section cuts short is refused.     *)
LookupIsExact ==
  looked.at # 0 =>
    IF looked.ok THEN looked.val = lists.lists[looked.at]
    ELSE StartOf(looked.at + 1) > Len(SectionBytes)

(* A generator gives lists as they are written, each the one behind that     *)
(* which was read last, by itself or by a lookup, and ends behind the last.  *)
(* So it gives all of them in order, as the code says of it, if no lookup     *)
(* comes between its steps; one that does makes it skip or repeat lists.     *)
WalkGivesLists ==
  LET n == Len(lists.lists)
      given == IF walk = "raised" THEN Front(places) ELSE places
  IN /\ walked = [i \in DOMAIN given |-> lists.lists[given[i]]]
     /\ walk = "done" => behind = n \/ SectionBytes = << >>
     /\ walk = "raised" => StartOf(Last(places) + 1) > Len(SectionBytes)
=============================================================================
