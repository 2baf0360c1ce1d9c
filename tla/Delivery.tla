------------------------------- MODULE Delivery -------------------------------
(***************************************************************************)
(* What a sink of the stream promises, whatever it does inside: messages    *)
(* of the topic are stored, perhaps more than once, and the position up to  *)
(* which the sink calls them done only ever passes stored messages.         *)
(***************************************************************************)
EXTENDS Naturals

CONSTANTS
  Offsets,  \* the offsets of the topic
  Unset     \* the position of a sink that has not started

VARIABLES
  first,   \* the offset the sink starts from, or Unset
  stored,  \* the offsets whose message it has stored
  done     \* it will not look at offsets below this one again

vars == <<first, stored, done>>

Init == first = Unset /\ stored = {} /\ done = 0

\* The sink settles where it starts: what is older is not its business.
Begin ==
  /\ first = Unset
  /\ first' \in Nat
  /\ done' = first'
  /\ UNCHANGED stored

\* Some messages from the position on are stored, for the first time or again.
Store ==
  /\ first # Unset
  /\ \E S \in SUBSET {o \in Offsets : o >= done} : stored' = stored \cup S
  /\ UNCHANGED <<first, done>>

\* The position moves forward over stored messages.
Finish ==
  /\ first # Unset
  /\ done' \in Nat /\ done' > done
  /\ done .. done' - 1 \subseteq stored
  /\ UNCHANGED <<first, stored>>

Next == Begin \/ Store \/ Finish

Spec == Init /\ [][Next]_vars
=============================================================================
