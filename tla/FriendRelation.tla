--------------------------- MODULE FriendRelation ---------------------------
(***************************************************************************)
(* What the friends of an account are: a symmetric relation that grows by  *)
(* consent only.  One account asks, the one that was asked agrees or       *)
(* declines, and either of two friends may part.                           *)
(***************************************************************************)
CONSTANT Account

VARIABLES
  asked,    (* pairs <<u, v>> such that a request of u waits for v          *)
  friends   (* the relation, a set of pairs {u, v}                          *)

relationVars == <<asked, friends>>

Init == asked = {} /\ friends = {}

Ask(u, v) ==
  /\ u # v
  /\ asked' = asked \cup {<<u, v>>}
  /\ UNCHANGED friends

\* The answer to one request; a second one of the same pair may go on waiting.
Answered(u, v) == asked' = asked \/ asked' = asked \ {<<u, v>>}

Agree(u, v) ==
  /\ <<u, v>> \in asked /\ {u, v} \notin friends
  /\ friends' = friends \cup {{u, v}}
  /\ Answered(u, v)

Decline(u, v) ==
  /\ <<u, v>> \in asked
  /\ Answered(u, v)
  /\ UNCHANGED friends

Part(u, v) ==
  /\ {u, v} \in friends
  /\ friends' = friends \ {{u, v}}
  /\ UNCHANGED asked

Next == \E u, v \in Account : Ask(u, v) \/ Agree(u, v) \/ Decline(u, v) \/ Part(u, v)

Spec == Init /\ [][Next]_relationVars
=============================================================================
