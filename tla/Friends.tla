------------------------------- MODULE Friends -------------------------------
(***************************************************************************)
(* Friend requests and friendships (routers/friends.py).                   *)
(*                                                                         *)
(* Sending a request reads the two tables and inserts a row, without a     *)
(* lock in between: the two are actions of their own, and two processes of *)
(* the API may overlap there.  The other handlers lock the row they read   *)
(* and are one action each.  A process runs one handler at a time; the     *)
(* account search it awaits comes before the transaction and carries no    *)
(* state into it.                                                          *)
(***************************************************************************)
EXTENDS Naturals

CONSTANTS
  Account,   (* account ids, ordered as the code sorts them                *)
  Request,   (* bound: request ids ever drawn                              *)
  Api,       (* processes of the API                                       *)
  None       (* no row, nothing                                            *)

ASSUME FriendsAssumption ==
  /\ Account \subseteq Nat
  /\ None \notin Nat \X Nat
  /\ None \notin [from : Account, to : Account,
                  status : {"pending", "accepted", "rejected"}]

VARIABLES
  request,     (* travel_friend_requests                                   *)
  friendship,  (* travel_friendships: (account_a_id, account_b_id)         *)
  sending,     (* <<requester, addressee>> of the row a process will insert *)
  crossed      (* history: pairs one of whose requests was being sent when *)
               (* another was begun or accepted                            *)

friendVars == <<request, friendship, sending, crossed>>

RequestRow == [from : Account, to : Account,
               status : {"pending", "accepted", "rejected"}]

FriendsTypeOK ==
  /\ request \in [Request -> RequestRow \cup {None}]
  /\ friendship \subseteq Account \X Account
  /\ sending \in [Api -> (Account \X Account) \cup {None}]
  /\ crossed \subseteq Account \X Account

FriendsInit ==
  /\ request = [r \in Request |-> None]
  /\ friendship = {}
  /\ sending = [a \in Api |-> None]
  /\ crossed = {}

-----------------------------------------------------------------------------
\* Mutant: the pair is stored as it comes.
Unsorted(u, v) == <<u, v>>
\* sorted((u, v)): the order of the columns account_a_id and account_b_id.
Sorted(u, v) == IF u < v THEN <<u, v>> ELSE <<v, u>>

\* are_friends
AreFriends(u, v) == u # v /\ Sorted(u, v) \in friendship

Pending(r) == request[r] # None /\ request[r].status = "pending"
PairOf(r)  == Sorted(request[r].from, request[r].to)

\* Mutant: only a request in the same direction counts.
HasPendingSameWay(u, v) ==
  \E r \in Request : Pending(r) /\ request[r].from = u /\ request[r].to = v
\* The SELECT of a pending request in either direction.
HasPending(u, v) ==
  \E r \in Request :
    /\ Pending(r)
    /\ <<request[r].from, request[r].to>> \in {<<u, v>>, <<v, u>>}

\* A process is about to insert a request between the two accounts of a pair.
Sends(b, pair) == sending[b] # None /\ Sorted(sending[b][1], sending[b][2]) = pair

Cross(pair) ==
  crossed' = IF \E b \in Api : Sends(b, pair) THEN crossed \cup {pair} ELSE crossed

\* send_friend_request up to its INSERT.
BeginSend(a, u, v) ==
  /\ sending[a] = None
  /\ u # v
  /\ ~AreFriends(u, v) /\ ~HasPending(u, v)
  /\ Cross(Sorted(u, v))
  /\ sending' = [sending EXCEPT ![a] = <<u, v>>]
  /\ UNCHANGED <<request, friendship>>

\* Its INSERT and the commit.
EndSend(a, r) ==
  /\ sending[a] # None /\ request[r] = None
  /\ request' = [request EXCEPT ![r] =
                   [from |-> sending[a][1], to |-> sending[a][2], status |-> "pending"]]
  /\ sending' = [sending EXCEPT ![a] = None]
  /\ UNCHANGED <<friendship, crossed>>

\* Mutant: an answered request can be answered again.
AnswerableAgain(u, r) == request[r] # None /\ request[r].to = u
\* _require_pending_addressee
Answerable(u, r) == Pending(r) /\ request[r].to = u

Respond(r, answer) == request' = [request EXCEPT ![r].status = answer]

\* accept_friend_request: uq_friendship_pair fails the INSERT of a second row.
Accept(a, u, r) ==
  /\ sending[a] = None /\ Answerable(u, r)
  /\ PairOf(r) \notin friendship
  /\ friendship' = friendship \cup {PairOf(r)}
  /\ Respond(r, "accepted")
  /\ Cross(PairOf(r))
  /\ UNCHANGED sending

\* reject_friend_request
Reject(a, u, r) ==
  /\ sending[a] = None /\ Answerable(u, r)
  /\ Respond(r, "rejected")
  /\ UNCHANGED <<friendship, sending, crossed>>

\* remove_friend
Remove(a, u, v) ==
  /\ sending[a] = None /\ Sorted(u, v) \in friendship
  /\ friendship' = friendship \ {Sorted(u, v)}
  /\ UNCHANGED <<request, sending, crossed>>

\* The process dies, or its connection: the transaction is rolled back.
Rollback(a) ==
  /\ sending' = [sending EXCEPT ![a] = None]
  /\ UNCHANGED <<request, friendship, crossed>>

Handle(a) ==
  \/ \E u, v \in Account : BeginSend(a, u, v) \/ Remove(a, u, v)
  \/ \E r \in Request : EndSend(a, r)
  \/ \E u \in Account, r \in Request : Accept(a, u, r) \/ Reject(a, u, r)

FriendsNext == \E a \in Api : Handle(a) \/ Rollback(a)

FriendsSpec == FriendsInit /\ [][FriendsNext]_friendVars

-----------------------------------------------------------------------------
(* Properties.                                                             *)

\* Between two accounts there is one pending request at most, in whichever
\* direction, and none once they are friends; only handlers of two processes
\* that overlapped on this very pair can break it.
OnePendingRequest ==
  \A r, s \in Request :
    Pending(r) /\ PairOf(r) \notin crossed =>
      /\ PairOf(r) \notin friendship
      /\ Pending(s) /\ PairOf(s) = PairOf(r) => r = s

\* The two tables implement a symmetric relation that grows by consent only,
\* whichever handlers overlap.
Relation == INSTANCE FriendRelation WITH
  asked   <- {<<request[r].from, request[r].to>> : r \in {q \in Request : Pending(q)}},
  friends <- {{p[1], p[2]} : p \in friendship}

ImplementsRelation == Relation!Spec
=============================================================================
