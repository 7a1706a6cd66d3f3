----------------------------- MODULE OrderedMap -----------------------------
(***************************************************************************)
(* What a dictionary that remembers insertion order promises: a sequence   *)
(* of distinct keys, each with a value.  Setting a key that is there keeps *)
(* its place; a new one goes to the end.                                   *)
(***************************************************************************)
EXTENDS Sequences, SequencesExt

CONSTANTS Keys, Values

VARIABLES order,   \* the keys, first to last
          value    \* the value of each of them

omVars == <<order, value>>

OrderWithout(k) == RemoveAt(order, CHOOSE i \in DOMAIN order : order[i] = k)

OmInit == order = << >> /\ value = << >>

Put(k, v) ==
  /\ order' = IF k \in DOMAIN value THEN order ELSE Append(order, k)
  /\ value' = [x \in DOMAIN value \cup {k} |-> IF x = k THEN v ELSE value[x]]

RemoveKey(k) ==
  /\ k \in DOMAIN value
  /\ order' = OrderWithout(k)
  /\ value' = [x \in DOMAIN value \ {k} |-> value[x]]

RemoveEnd == order # << >> /\ \E k \in {Head(order), Last(order)} : RemoveKey(k)

EmptyMap == order' = << >> /\ value' = << >>

OmNext ==
  \/ \E k \in Keys, v \in Values : Put(k, v)
  \/ \E k \in Keys : RemoveKey(k)
  \/ RemoveEnd
  \/ EmptyMap

OmSpec == OmInit /\ [][OmNext]_omVars
=============================================================================
