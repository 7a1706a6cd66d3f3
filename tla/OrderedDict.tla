----------------------------- MODULE OrderedDict -----------------------------
(***************************************************************************)
(* elftools/common/ordereddict.py: a dictionary with a circular, doubly    *)
(* linked list of its keys.  A link is an object, so that an iterator can  *)
(* hold one that has left the list: links are numbered as they are made,   *)
(* and 0 is the sentinel, __root.                                          *)
(***************************************************************************)
EXTENDS Naturals, Sequences, FiniteSets, SequencesExt

CONSTANTS DictKeys,
          DictValues,
          MaxLinks      \* bound: links made in one run

ASSUME OrderedDictAssumption == MaxLinks \in Nat

VARIABLES odDict,       \* the inherited dict
          odMap,        \* __map: the link of each key
          linkPrev, linkNext,   \* fields 0 and 1 of each link made so far, and of the root
          keyAt,        \* field 2
          iter          \* a generator of __iter__() or __reversed__()

odVars == <<odDict, odMap, linkPrev, linkNext, keyAt, iter>>

Root0 == 0
Gone == MaxLinks + 1      \* a field of a link that clear() has emptied
LinksMade == Len(keyAt)

Put1(f, k, v) == [x \in DOMAIN f \cup {k} |-> IF x = k THEN v ELSE f[x]]
Drop(f, k) == [x \in DOMAIN f \ {k} |-> f[x]]

\* 'stay' are the keys that were there from the start of the iteration.
NoIter == [at |-> Root0, way |-> "none", given |-> << >>, stay |-> {}]

OdInit ==
  /\ odDict = << >> /\ odMap = << >> /\ keyAt = << >>
  /\ linkPrev = [l \in {Root0} |-> Root0] /\ linkNext = linkPrev
  /\ iter = NoIter

----------------------------------------------------------------------------
\* A new link l goes to the end of the list.
LinkAtEnd(l) ==
  /\ linkPrev' = Put1([linkPrev EXCEPT ![Root0] = l], l, linkPrev[Root0])
  /\ linkNext' = Put1([linkNext EXCEPT ![linkPrev[Root0]] = l], l, Root0)

\* Mutant: setting a key that is there moves its link.
SetItemMoves(k, v) ==
  /\ LinksMade < MaxLinks
  /\ LinkAtEnd(LinksMade + 1)
  /\ odMap' = Put1(odMap, k, LinksMade + 1)
  /\ keyAt' = Append(keyAt, k)
  /\ odDict' = Put1(odDict, k, v)
  /\ UNCHANGED iter

SetItem(k, v) ==
  /\ IF k \in DOMAIN odDict
       THEN UNCHANGED <<odMap, linkPrev, linkNext, keyAt>>
       ELSE /\ LinksMade < MaxLinks
            /\ LinkAtEnd(LinksMade + 1)
            /\ odMap' = Put1(odMap, k, LinksMade + 1)
            /\ keyAt' = Append(keyAt, k)
  /\ odDict' = Put1(odDict, k, v)
  /\ UNCHANGED iter

\* update(), __init__(), fromkeys() and copy() set one key after another.
Update(k, v) == SetItem(k, v)

SetDefault(k, v) == k \notin DOMAIN odDict /\ SetItem(k, v)

\* The key is no longer one that stays.
Leaves(k) == iter' = [iter EXCEPT !.stay = @ \ {k}]

\* The links around l are joined; l itself keeps pointing at them.
Unlink(l) ==
  /\ linkNext' = [linkNext EXCEPT ![linkPrev[l]] = linkNext[l]]
  /\ linkPrev' = [linkPrev EXCEPT ![linkNext[l]] = linkPrev[l]]

DelItem(k) ==
  /\ k \in DOMAIN odDict
  /\ Unlink(odMap[k])
  /\ odDict' = Drop(odDict, k) /\ odMap' = Drop(odMap, k)
  /\ Leaves(k)
  /\ UNCHANGED keyAt

Pop(k) == DelItem(k)

PopItem(last) ==
  /\ DOMAIN odDict # {}
  /\ LET l == IF last THEN linkPrev[Root0] ELSE linkNext[Root0] IN
       /\ Unlink(l)
       /\ odMap' = Drop(odMap, keyAt[l]) /\ odDict' = Drop(odDict, keyAt[l])
       /\ Leaves(keyAt[l])
  /\ UNCHANGED keyAt

\* clear() empties the links that are in the map.
Clear ==
  /\ LET inMap == {odMap[k] : k \in DOMAIN odMap}
         wiped(f) == [l \in DOMAIN f |-> IF l = Root0 THEN Root0 ELSE IF l \in inMap THEN Gone ELSE f[l]]
     IN linkPrev' = wiped(linkPrev) /\ linkNext' = wiped(linkNext)
  /\ odDict' = << >> /\ odMap' = << >>
  /\ iter' = [iter EXCEPT !.stay = {}]
  /\ UNCHANGED keyAt

----------------------------------------------------------------------------
\* __iter__(), __reversed__() and iteritems(), up to each yield
Iterate(way) ==
  /\ iter.way \in {"none", "done", "failed"}
  /\ iter' = [NoIter EXCEPT !.way = way, !.stay = DOMAIN odDict]
  /\ UNCHANGED <<odDict, odMap, linkPrev, linkNext, keyAt>>

\* iteritems() looks the key up, which may have gone.
IterNext ==
  /\ iter.way \in {"forward", "back", "items"}
  /\ LET to == IF iter.way = "back" THEN linkPrev[iter.at] ELSE linkNext[iter.at]
         end == CASE to = Gone -> "failed"
                  [] to = Root0 -> "done"
                  [] linkNext[to] = Gone -> "failed"
                  [] iter.way = "items" /\ keyAt[to] \notin DOMAIN odDict -> "failed"
                  [] OTHER -> iter.way
     IN iter' = IF end \in {"done", "failed"} THEN [iter EXCEPT !.way = end]
                ELSE [iter EXCEPT !.at = to, !.given = Append(@, keyAt[to])]
  /\ UNCHANGED <<odDict, odMap, linkPrev, linkNext, keyAt>>

OdNext ==
  \/ \E k \in DictKeys, v \in DictValues : SetItem(k, v) \/ Update(k, v) \/ SetDefault(k, v)
  \/ \E k \in DictKeys : DelItem(k) \/ Pop(k)
  \/ \E last \in BOOLEAN : PopItem(last)
  \/ Clear
  \/ \E way \in {"forward", "back", "items"} : Iterate(way)
  \/ IterNext

OdSpec == OdInit /\ [][OdNext]_odVars
----------------------------------------------------------------------------
\* The keys met when following f from the root.
Walk(f) ==
  LET n == Cardinality(DOMAIN odDict)
      at[i \in 0 .. n] == IF i = 0 THEN Root0 ELSE f[at[i - 1]]
  IN [i \in 1 .. n |-> keyAt[at[i]]]

\* The list can be walked both ways from the root, and ends there again:
\* after any sets, deletions, pops and clears it holds the links of __map.
ListIsDoubly ==
  /\ Walk(linkNext) = Reverse(Walk(linkPrev))
  /\ DOMAIN odMap = DOMAIN odDict
  /\ \A k \in DOMAIN odMap : LET l == odMap[k] IN
       keyAt[l] = k /\ linkPrev[linkNext[l]] = l /\ linkNext[linkPrev[l]] = l

OM == INSTANCE OrderedMap WITH Keys <- DictKeys, Values <- DictValues,
                               order <- Walk(linkNext), value <- odDict

\* A generator that has ended gave every key that was there all the time,
\* once, although other keys were deleted under it, the one it stood on
\* included: a link that has left the list still leads back to it.
StayersAreGiven ==
  iter.way = "done" =>
    \A k \in iter.stay : Cardinality({i \in DOMAIN iter.given : iter.given[i] = k}) = 1

\* OrderedDict is a map that remembers insertion order, in its list walked
\* either way and in what its generators give while it is modified.
IsOrderedMap == OM!OmSpec /\ [](ListIsDoubly /\ StayersAreGiven)
=============================================================================
