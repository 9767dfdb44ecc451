----------------------------- MODULE MCSharing ------------------------------
(* Instances of Sharing for TLC.                                            *)
EXTENDS Sharing, FiniteSets, TLC

CONSTANT MaxRows   (* bound: rows of all the tables together               *)

\* The processes and the row ids are interchangeable; the accounts are not,
\* because a pair of them is stored in their order.
MCSymmetry == Permutations(Api) \cup Permutations(Place) \cup Permutations(Request)

Drawn(table) == Cardinality({id \in DOMAIN table : table[id] # None})

\* Bound: a second request is drawn only beside one place.
MCFewRows ==
  /\ Drawn(request) + Drawn(place) + Drawn(review) + Drawn(course) <= MaxRows
  /\ Drawn(request) > 1 =>
       /\ Drawn(place) <= 1 /\ Drawn(review) + Drawn(course) = 0
       /\ \A a \in Api : work[a] = None
=============================================================================
