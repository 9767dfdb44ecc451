---------------------------- MODULE SharingProofs ----------------------------
(***************************************************************************)
(* What TLAPS proves of the friendships, and of the places, reviews and    *)
(* courses that depend on them, for all accounts, processes and rows.      *)
(***************************************************************************)
EXTENDS Sharing, TLAPS

USE FriendsAssumption, SharingAssumption

-----------------------------------------------------------------------------
(* Pairs.                                                                  *)

LEMMA PairParts ==
  ASSUME NEW x \in Account \X Account
  PROVE  \E u \in Account, v \in Account : x = <<u, v>>
  <1>1. x[1] \in Account /\ x[2] \in Account /\ x = <<x[1], x[2]>> OBVIOUS
  <1> QED BY <1>1

LEMMA SortedPair ==
  ASSUME NEW u \in Account, NEW v \in Account
  PROVE  /\ Sorted(u, v) \in Account \X Account
         /\ {Sorted(u, v)[1], Sorted(u, v)[2]} = {u, v}
         /\ Sorted(u, v) = Sorted(v, u)
         /\ u # v => Sorted(u, v)[1] < Sorted(u, v)[2]
  BY DEF Sorted

LEMMA SortedIsInjective ==
  ASSUME NEW u \in Account, NEW v \in Account, NEW x \in Account, NEW y \in Account,
         Sorted(x, y) = Sorted(u, v)
  PROVE  {x, y} = {u, v}
  BY DEF Sorted

\* A sorted pair is known by its accounts.
LEMMA SortedIsUnique ==
  ASSUME NEW u \in Account, NEW v \in Account, NEW p \in Account \X Account,
         p[1] < p[2], {p[1], p[2]} = {u, v}
  PROVE  p = Sorted(u, v)
  BY DEF Sorted

-----------------------------------------------------------------------------
(* Friends.  All steps of the composition that are not theirs leave their  *)
(* tables alone.                                                           *)

LEMMA StepOfFriends == [Next]_vars => [FriendsNext]_friendVars
  BY DEF Next, vars, FriendStep, FriendsNext, PlaceStep, WorkStep, ProcessStep, CreatePlace,
         UpdatePlace, DeletePlace, RestorePlace, WritePlace, BeginReview, BeginCourse, Begin,
         LockAndCheck, EndReview, EndCourse, DeleteCourse, Abandon, Start, Migrate,
         OwnerNotFound, Crash

LEMMA FriendsTypeStep == FriendsTypeOK /\ [FriendsNext]_friendVars => FriendsTypeOK'
  <1> SUFFICES ASSUME FriendsTypeOK, [FriendsNext]_friendVars PROVE FriendsTypeOK' OBVIOUS
  <1> USE DEF FriendsTypeOK, RequestRow
  <1>1. CASE UNCHANGED friendVars BY <1>1 DEF friendVars
  <1>2. ASSUME NEW a \in Api, NEW u \in Account, NEW v \in Account, BeginSend(a, u, v)
        PROVE  FriendsTypeOK'
    BY <1>2, SortedPair DEF BeginSend, Cross
  <1>3. ASSUME NEW a \in Api, NEW r \in Request, EndSend(a, r) PROVE FriendsTypeOK'
    BY <1>3 DEF EndSend
  <1>4. ASSUME NEW u \in Account, NEW r \in Request, Answerable(u, r)
        PROVE  PairOf(r) \in Account \X Account
    BY <1>4, SortedPair DEF Answerable, Pending, PairOf
  <1>5. ASSUME NEW a \in Api, NEW u \in Account, NEW r \in Request, Accept(a, u, r)
        PROVE  FriendsTypeOK'
    BY <1>4, <1>5 DEF Accept, Answerable, Pending, Respond, Cross
  <1>6. ASSUME NEW a \in Api, NEW u \in Account, NEW r \in Request, Reject(a, u, r)
        PROVE  FriendsTypeOK'
    BY <1>6 DEF Reject, Answerable, Pending, Respond
  <1>7. ASSUME NEW a \in Api, NEW u \in Account, NEW v \in Account, Remove(a, u, v)
        PROVE  FriendsTypeOK'
    BY <1>7 DEF Remove
  <1>8. ASSUME NEW a \in Api, Rollback(a) PROVE FriendsTypeOK' BY <1>8 DEF Rollback
  <1> QED BY <1>1, <1>2, <1>3, <1>5, <1>6, <1>7, <1>8 DEF FriendsNext, Handle

\* Rows are between two accounts, and friendships are stored sorted.
TwoInv ==
  /\ \A r \in Request : request[r] # None => request[r].from # request[r].to
  /\ \A a \in Api : sending[a] # None => sending[a][1] # sending[a][2]
  /\ \A p \in friendship : p[1] < p[2]

PairInv == FriendsTypeOK /\ TwoInv

LEMMA PairInit == Init => PairInv
  BY DEF Init, FriendsInit, PairInv, FriendsTypeOK, TwoInv

LEMMA PairStep == PairInv /\ [FriendsNext]_friendVars => PairInv'
  <1> SUFFICES ASSUME PairInv, [FriendsNext]_friendVars PROVE TwoInv'
    BY FriendsTypeStep DEF PairInv
  <1> USE DEF PairInv, TwoInv, FriendsTypeOK, RequestRow
  <1>1. CASE UNCHANGED friendVars BY <1>1 DEF friendVars
  <1>2. ASSUME NEW a \in Api, NEW u \in Account, NEW v \in Account, BeginSend(a, u, v)
        PROVE  TwoInv'
    BY <1>2 DEF BeginSend
  <1>3. ASSUME NEW a \in Api, NEW r \in Request, EndSend(a, r) PROVE TwoInv'
    BY <1>3 DEF EndSend
  <1>4. ASSUME NEW a \in Api, NEW u \in Account, NEW r \in Request, Accept(a, u, r)
        PROVE  TwoInv'
    <2>1. request[r].from # request[r].to /\ request[r] \in RequestRow
      BY <1>4 DEF Accept, Answerable, Pending
    <2>2. PairOf(r)[1] < PairOf(r)[2] BY <2>1, SortedPair DEF PairOf
    <2> QED BY <1>4, <2>1, <2>2 DEF Accept, Respond
  <1>5. ASSUME NEW a \in Api, NEW u \in Account, NEW r \in Request, Reject(a, u, r)
        PROVE  TwoInv'
    BY <1>5 DEF Reject, Answerable, Pending, Respond
  <1>6. ASSUME NEW a \in Api, NEW u \in Account, NEW v \in Account, Remove(a, u, v)
        PROVE  TwoInv'
    BY <1>6 DEF Remove
  <1>7. ASSUME NEW a \in Api, Rollback(a) PROVE TwoInv' BY <1>7 DEF Rollback
  <1> QED BY <1>1, <1>2, <1>3, <1>4, <1>5, <1>6, <1>7 DEF FriendsNext, Handle

LEMMA PairInvariant == Spec => []PairInv
  BY PairInit, PairStep, StepOfFriends, PTL DEF Spec

-----------------------------------------------------------------------------
(* The tables implement a relation.                                        *)

Asked == {<<request[r].from, request[r].to>> : r \in {q \in Request : Pending(q)}}
Friends2 == {{p[1], p[2]} : p \in friendship}

\* An answer takes the pair away, unless another request of the pair waits.
LEMMA AnswerAsks ==
  ASSUME PairInv, NEW r \in Request, Pending(r), NEW s \in {"accepted", "rejected"},
         Respond(r, s)
  PROVE  \/ Asked' = Asked
         \/ Asked' = Asked \ {<<request[r].from, request[r].to>>}
  <1> USE DEF PairInv, FriendsTypeOK, RequestRow, Pending, Asked
  <1>1. /\ ~Pending(r)'
        /\ \A q \in Request \ {r} : request'[q] = request[q]
    BY DEF Respond
  <1>2. \A q \in Request : Pending(q)' <=> q # r /\ Pending(q) BY <1>1
  <1>3. CASE \E q \in Request \ {r} :
               Pending(q) /\ request[q].from = request[r].from /\ request[q].to = request[r].to
    BY <1>1, <1>2, <1>3
  <1>4. CASE ~\E q \in Request \ {r} :
               Pending(q) /\ request[q].from = request[r].from /\ request[q].to = request[r].to
    <2>1. \A q \in Request \ {r} : Pending(q) =>
            <<request[q].from, request[q].to>> # <<request[r].from, request[r].to>>
      BY <1>4
    <2> QED BY <1>1, <1>2, <2>1
  <1> QED BY <1>3, <1>4

LEMMA RelationStep ==
  ASSUME PairInv, [FriendsNext]_friendVars
  PROVE  [Relation!Next]_<<Asked, Friends2>>
  <1> USE DEF PairInv, FriendsTypeOK, RequestRow
  <1>1. CASE UNCHANGED <<request, friendship>>
    BY <1>1 DEF Asked, Friends2, Pending
  <1>2. ASSUME NEW a \in Api, NEW r \in Request, EndSend(a, r) PROVE Relation!Next
    <2>1. PICK u \in Account, v \in Account : sending[a] = <<u, v>> /\ u # v
      <3>1. /\ sending[a] \in Account \X Account /\ sending[a][1] # sending[a][2]
        BY <1>2 DEF EndSend, TwoInv
      <3> QED BY <3>1, PairParts
    <2>2. /\ request'[r] = [from |-> u, to |-> v, status |-> "pending"]
          /\ \A q \in Request \ {r} : request'[q] = request[q]
          /\ ~Pending(r)
      BY <1>2, <2>1 DEF EndSend, Pending
    <2>3. Pending(r)' /\ \A q \in Request \ {r} : Pending(q)' = Pending(q)
      BY <2>1, <2>2 DEF Pending
    <2>4. Asked' = Asked \cup {<<u, v>>} BY <2>1, <2>2, <2>3 DEF Asked
    <2>5. Friends2' = Friends2 BY <1>2 DEF EndSend, Friends2
    <2>6. Relation!Ask(u, v) BY <2>1, <2>4, <2>5 DEF Relation!Ask, Asked, Friends2
    <2> QED BY <2>1, <2>6 DEF Relation!Next
  <1>3. ASSUME NEW a \in Api, NEW w \in Account, NEW r \in Request, Accept(a, w, r)
        PROVE  Relation!Next
    <2>1. PICK u \in Account, v \in Account :
            Pending(r) /\ request[r].from = u /\ request[r].to = v /\ u # v
      BY <1>3 DEF Accept, Answerable, Pending, TwoInv
    <2>2. PairOf(r) = Sorted(u, v) BY <2>1 DEF PairOf
    <2>3. <<u, v>> \in Asked BY <2>1 DEF Asked
    <2>4. {u, v} \notin Friends2
      <3> SUFFICES ASSUME NEW p \in friendship, {p[1], p[2]} = {u, v} PROVE FALSE
        BY DEF Friends2
      <3>1. p = Sorted(u, v) BY <2>1, SortedIsUnique DEF TwoInv
      <3> QED BY <1>3, <2>2, <3>1 DEF Accept
    <2>5. Friends2' = Friends2 \cup {{u, v}}
      <3>1. friendship' = friendship \cup {Sorted(u, v)} BY <1>3, <2>2 DEF Accept
      <3> QED BY <2>1, <3>1, SortedPair DEF Friends2
    <2>6. Asked' = Asked \/ Asked' = Asked \ {<<u, v>>}
      BY <1>3, <2>1, AnswerAsks DEF Accept
    <2>7. Relation!Agree(u, v)
      BY <2>3, <2>4, <2>5, <2>6 DEF Relation!Agree, Relation!Answered, Asked, Friends2
    <2> QED BY <2>1, <2>7 DEF Relation!Next
  <1>4. ASSUME NEW a \in Api, NEW w \in Account, NEW r \in Request, Reject(a, w, r)
        PROVE  Relation!Next
    <2>1. PICK u \in Account, v \in Account :
            Pending(r) /\ request[r].from = u /\ request[r].to = v
      BY <1>4 DEF Reject, Answerable, Pending
    <2>2. <<u, v>> \in Asked BY <2>1 DEF Asked
    <2>3. Asked' = Asked \/ Asked' = Asked \ {<<u, v>>}
      BY <1>4, <2>1, AnswerAsks DEF Reject
    <2>4. Friends2' = Friends2 BY <1>4 DEF Reject, Friends2
    <2>5. Relation!Decline(u, v)
      BY <2>2, <2>3, <2>4 DEF Relation!Decline, Relation!Answered, Asked, Friends2
    <2> QED BY <2>1, <2>5 DEF Relation!Next
  <1>5. ASSUME NEW a \in Api, NEW u \in Account, NEW v \in Account, Remove(a, u, v)
        PROVE  Relation!Next
    <2>1. /\ Sorted(u, v) \in friendship /\ UNCHANGED request
          /\ friendship' = friendship \ {Sorted(u, v)}
      BY <1>5 DEF Remove
    <2>2. {u, v} \in Friends2 BY <2>1, SortedPair DEF Friends2
    <2>3. \A p \in friendship : {p[1], p[2]} = {u, v} => p = Sorted(u, v)
      BY SortedIsUnique DEF TwoInv
    <2>4. Friends2' = Friends2 \ {{u, v}} BY <2>1, <2>3, SortedPair DEF Friends2
    <2>5. Asked' = Asked BY <2>1 DEF Asked, Pending
    <2>6. Relation!Part(u, v) BY <2>2, <2>4, <2>5 DEF Relation!Part, Asked, Friends2
    <2> QED BY <2>6 DEF Relation!Next
  <1> QED BY <1>1, <1>2, <1>3, <1>4, <1>5
          DEF FriendsNext, Handle, BeginSend, Rollback, friendVars

\* Whichever handlers overlap, the friendships grow by consent only.
THEOREM RelationRefined == Spec => ImplementsRelation
  <1>1. Init => Relation!Init
    BY DEF Init, FriendsInit, Relation!Init, Pending
  <1>2. PairInv /\ [FriendsNext]_friendVars => [Relation!Next]_Relation!relationVars
    BY RelationStep DEF Relation!relationVars, Asked, Friends2
  <1> QED BY <1>1, <1>2, PairInvariant, StepOfFriends, PTL
          DEF Spec, ImplementsRelation, Relation!Spec

-----------------------------------------------------------------------------
(* One request at a time.                                                  *)

\* What a process checked before its INSERT still holds of a pair that no other
\* handler crossed.
SendInv ==
  \A a \in Api : sending[a] # None =>
    LET pair == Sorted(sending[a][1], sending[a][2]) IN
    pair \notin crossed =>
      /\ pair \notin friendship
      /\ \A r \in Request : Pending(r) => PairOf(r) # pair
      /\ \A b \in Api \ {a} : ~Sends(b, pair)

RequestInv == OnePendingRequest /\ SendInv

LEMMA RequestStep ==
  ASSUME PairInv, RequestInv, [FriendsNext]_friendVars
  PROVE  RequestInv'
  <1> USE DEF PairInv, FriendsTypeOK, RequestRow, RequestInv, OnePendingRequest, SendInv, Sends,
              Pending, PairOf
  <1>1. CASE UNCHANGED friendVars BY <1>1 DEF friendVars
  <1>2. ASSUME NEW a \in Api, NEW u \in Account, NEW v \in Account, BeginSend(a, u, v)
        PROVE  RequestInv'
    <2> DEFINE pair == Sorted(u, v)
    <2>1. /\ pair \notin friendship /\ UNCHANGED <<request, friendship>>
          /\ sending' = [sending EXCEPT ![a] = <<u, v>>]
          /\ pair \notin crossed' => \A b \in Api : ~Sends(b, pair)
          /\ crossed \subseteq crossed'
      BY <1>2 DEF BeginSend, AreFriends, Cross
    <2>2. \A r \in Request : Pending(r) => PairOf(r) # pair
      <3> SUFFICES ASSUME NEW r \in Request, Pending(r), PairOf(r) = pair PROVE FALSE OBVIOUS
      <3>1. PICK x \in Account, y \in Account : request[r].from = x /\ request[r].to = y OBVIOUS
      <3>2. Sorted(x, y) = Sorted(u, v) BY <3>1
      <3>3. {x, y} = {u, v} BY <3>2, SortedIsInjective
      <3>4. HasPending(u, v) BY <3>1, <3>3 DEF HasPending
      <3> QED BY <1>2, <3>4 DEF BeginSend
    <2>3. OnePendingRequest' BY <2>1
    <2>4. SendInv' BY <2>1, <2>2
    <2> QED BY <2>3, <2>4
  <1>3. ASSUME NEW a \in Api, NEW r \in Request, EndSend(a, r) PROVE RequestInv'
    <2> DEFINE u == sending[a][1]  v == sending[a][2]
    <2>1. /\ sending[a] # None /\ u \in Account /\ v \in Account
          /\ request' = [request EXCEPT ![r] = [from |-> u, to |-> v, status |-> "pending"]]
          /\ sending' = [sending EXCEPT ![a] = None] /\ UNCHANGED <<friendship, crossed>>
      BY <1>3 DEF EndSend
    <2>2. /\ PairOf(r)' = Sorted(u, v)
          /\ \A q \in Request \ {r} : PairOf(q)' = PairOf(q) /\ Pending(q)' = Pending(q)
      BY <2>1
    <2>3. OnePendingRequest' BY <2>1, <2>2
    <2>4. SendInv' BY <2>1, <2>2
    <2> QED BY <2>3, <2>4
  <1>4. ASSUME NEW a \in Api, NEW w \in Account, NEW r \in Request, Accept(a, w, r)
        PROVE  RequestInv'
    <2>1. /\ Pending(r) /\ ~Pending(r)' /\ UNCHANGED sending
          /\ \A q \in Request : Pending(q)' => q # r /\ Pending(q) /\ PairOf(q)' = PairOf(q)
          /\ friendship' = friendship \cup {PairOf(r)} /\ crossed \subseteq crossed'
          /\ PairOf(r) \notin crossed' => \A b \in Api : ~Sends(b, PairOf(r))
      BY <1>4 DEF Accept, Answerable, Respond, Cross
    <2>2. OnePendingRequest' BY <2>1
    <2>3. SendInv' BY <2>1
    <2> QED BY <2>2, <2>3
  <1>5. ASSUME NEW a \in Api, NEW w \in Account, NEW r \in Request, Reject(a, w, r)
        PROVE  RequestInv'
    <2>1. /\ \A q \in Request : Pending(q)' => Pending(q) /\ PairOf(q)' = PairOf(q)
          /\ UNCHANGED <<friendship, sending, crossed>>
      BY <1>5 DEF Reject, Answerable, Respond
    <2> QED BY <2>1
  <1>6. ASSUME NEW a \in Api, NEW u \in Account, NEW v \in Account, Remove(a, u, v)
        PROVE  RequestInv'
    BY <1>6 DEF Remove
  <1>7. ASSUME NEW a \in Api, Rollback(a) PROVE RequestInv' BY <1>7 DEF Rollback
  <1> QED BY <1>1, <1>2, <1>3, <1>4, <1>5, <1>6, <1>7 DEF FriendsNext, Handle

\* Handlers that do not overlap on a pair keep it to one pending request, and
\* to none between friends.
THEOREM OneRequest == Spec => []OnePendingRequest
  <1>1. Init => RequestInv
    BY DEF Init, FriendsInit, RequestInv, OnePendingRequest, SendInv, Pending
  <1>2. RequestInv => OnePendingRequest BY DEF RequestInv
  <1> QED BY <1>1, <1>2, RequestStep, PairInvariant, StepOfFriends, PTL DEF Spec

-----------------------------------------------------------------------------
(* The rows of places, reviews and courses.                                *)

RowTypeOK ==
  /\ process \in [Api -> {"down", "migrating", "up"}]
  /\ place \in [Place -> PlaceRow \cup {None}]
  /\ review \in [Review -> ReviewRow \cup {None}]
  /\ course \in [Course -> CourseRow \cup {None}]
  /\ work \in [Api -> Work \cup {None}]

LEMMA RowTypeInit == Init => RowTypeOK
  <1> SUFFICES ASSUME Init PROVE RowTypeOK OBVIOUS
  <1>1. place \in [Place -> PlaceRow \cup {None}]
    <2>1. OldPlace \in PlaceRow BY DEF OldPlace, PlaceRow
    <2> QED BY <2>1 DEF Init
  <1>2. review \in [Review -> ReviewRow \cup {None}]
    BY DEF Init, OldReview, ReviewRow
  <1>3. course \in [Course -> CourseRow \cup {None}]
    <2>1. \A s \in SUBSET Place : OldCourse(s) \in CourseRow BY DEF OldCourse, CourseRow
    <2> QED BY <2>1 DEF Init
  <1> QED BY <1>1, <1>2, <1>3 DEF Init, RowTypeOK

LEMMA NewWork ==
  ASSUME NEW what \in {"review", "course"}, NEW u \in Account, NEW places \in SUBSET Place
  PROVE  Writing(what, u, places) \in Work /\ Writing(what, u, places).held = {}
  <1>1. None \in {None} \cup SUBSET (Account \X Account) OBVIOUS
  <1>2. {} \in SUBSET Place OBVIOUS
  <1> QED BY <1>1, <1>2 DEF Writing, Work

LEMMA BeginWrites ==
  ASSUME NEW a \in Api,
         \/ \E u \in Account, p \in Place : BeginReview(a, u, p)
         \/ \E u \in Account, places \in SUBSET Place : BeginCourse(a, u, places)
  PROVE  \E w \in Work : Begin(a, w) /\ w.held = {}
  <1>1. CASE \E u \in Account, p \in Place : BeginReview(a, u, p)
    <2>1. PICK u \in Account, p \in Place : BeginReview(a, u, p) BY <1>1
    <2>2. {p} \in SUBSET Place OBVIOUS
    <2> QED BY <2>1, <2>2, NewWork DEF BeginReview
  <1>2. CASE \E u \in Account, places \in SUBSET Place : BeginCourse(a, u, places)
    <2>1. PICK u \in Account, places \in SUBSET Place : BeginCourse(a, u, places) BY <1>2
    <2> QED BY <2>1, NewWork DEF BeginCourse
  <1> QED BY <1>1, <1>2

\* What the handlers of the places write: a row with the owner it had, or that
\* of its creator.
LEMMA PlaceWrites ==
  ASSUME RowTypeOK, NEW a \in Api, PlaceStep(a)
  PROVE  \E p \in Place, row \in PlaceRow :
           /\ WritePlace(a, p, row)
           /\ IF place[p] = None THEN row.owner # None ELSE row.owner = place[p].owner
  <1>1. PICK u \in Account, p \in Place :
          \/ \E visibility \in {"public", "private"} :
               CreatePlace(a, u, p, visibility) \/ UpdatePlace(a, u, p, visibility)
          \/ DeletePlace(a, u, p) \/ RestorePlace(a, u, p)
    BY DEF PlaceStep
  <1>2. u # None OBVIOUS
  <1>3. CASE \E visibility \in {"public", "private"} : CreatePlace(a, u, p, visibility)
    <2>1. PICK visibility \in {"public", "private"} : CreatePlace(a, u, p, visibility) BY <1>3
    <2>2. [owner |-> u, visibility |-> visibility, deleted |-> FALSE] \in PlaceRow
      BY DEF PlaceRow
    <2> QED BY <1>2, <2>1, <2>2 DEF CreatePlace
  <1>4. CASE \E visibility \in {"public", "private"} : UpdatePlace(a, u, p, visibility)
    <2>1. PICK visibility \in {"public", "private"} : UpdatePlace(a, u, p, visibility) BY <1>4
    <2>2. place[p] \in PlaceRow BY <2>1 DEF UpdatePlace, Active, RowTypeOK
    <2>3. /\ [place[p] EXCEPT !.visibility = visibility] \in PlaceRow
          /\ [place[p] EXCEPT !.visibility = visibility].owner = place[p].owner
      BY <2>2 DEF PlaceRow
    <2>4. WritePlace(a, p, [place[p] EXCEPT !.visibility = visibility]) /\ place[p] # None
      BY <2>1 DEF UpdatePlace, Active
    <2> QED BY <2>3, <2>4
  <1>5. CASE DeletePlace(a, u, p)
    <2>1. place[p] \in PlaceRow BY <1>5 DEF DeletePlace, Active, RowTypeOK
    <2>2. /\ [place[p] EXCEPT !.deleted = TRUE] \in PlaceRow
          /\ [place[p] EXCEPT !.deleted = TRUE].owner = place[p].owner
      BY <2>1 DEF PlaceRow
    <2>3. WritePlace(a, p, [place[p] EXCEPT !.deleted = TRUE]) /\ place[p] # None
      BY <1>5 DEF DeletePlace, Active
    <2> QED BY <2>2, <2>3
  <1>6. CASE RestorePlace(a, u, p)
    <2>1. place[p] \in PlaceRow BY <1>6 DEF RestorePlace, RowTypeOK
    <2>2. /\ [place[p] EXCEPT !.deleted = FALSE] \in PlaceRow
          /\ [place[p] EXCEPT !.deleted = FALSE].owner = place[p].owner
      BY <2>1 DEF PlaceRow
    <2>3. WritePlace(a, p, [place[p] EXCEPT !.deleted = FALSE]) /\ place[p] # None
      BY <1>6 DEF RestorePlace
    <2> QED BY <2>2, <2>3
  <1> QED BY <1>1, <1>3, <1>4, <1>5, <1>6

LEMMA RowTypeStep == FriendsTypeOK /\ RowTypeOK /\ [Next]_vars => RowTypeOK'
  <1> SUFFICES ASSUME FriendsTypeOK, RowTypeOK, [Next]_vars PROVE RowTypeOK' OBVIOUS
  <1> USE DEF RowTypeOK
  <1>1. CASE UNCHANGED vars BY <1>1 DEF vars, sharedVars
  <1>2. ASSUME NEW a \in Api, FriendStep(a) PROVE RowTypeOK'
    BY <1>2 DEF FriendStep, sharedVars
  <1>3. ASSUME NEW a \in Api, PlaceStep(a) PROVE RowTypeOK'
    <2>1. PICK p \in Place, row \in PlaceRow : WritePlace(a, p, row) BY <1>3, PlaceWrites
    <2> QED BY <2>1 DEF WritePlace
  <1>4. ASSUME NEW a \in Api, WorkStep(a) PROVE RowTypeOK'
    <2>1. CASE (\E u \in Account, p \in Place : BeginReview(a, u, p))
               \/ (\E u \in Account, places \in SUBSET Place : BeginCourse(a, u, places))
      <3>1. PICK w \in Work : Begin(a, w)
        BY <2>1, BeginWrites
      <3> QED BY <3>1 DEF Begin
    <2>2. ASSUME NEW p \in Place, LockAndCheck(a, p) PROVE RowTypeOK'
      <3> DEFINE w == work[a]
                 seen == IF w.user # place[p].owner /\ w.seen = None THEN friendship ELSE w.seen
                 next == [w EXCEPT !.todo = @ \ {p}, !.held = @ \cup {p}, !.seen = seen]
      <3>1. w \in Work BY <2>2 DEF LockAndCheck
      <3>2. next \in Work BY <3>1 DEF Work, FriendsTypeOK
      <3>3. /\ work' = [work EXCEPT ![a] = next]
            /\ UNCHANGED <<process, place, review, course>>
        BY <2>2 DEF LockAndCheck
      <3> QED BY <3>2, <3>3
    <2>3. ASSUME NEW r \in Review, NEW p \in Place, EndReview(a, r, p) PROVE RowTypeOK'
      <3>1. work[a].user \in Account BY <2>3 DEF EndReview, Ends, Work
      <3> QED BY <2>3, <3>1 DEF EndReview, ReviewRow
    <2>4. ASSUME NEW c \in Course, EndCourse(a, c) PROVE RowTypeOK'
      <3>1. work[a].user \in Account /\ work[a].held \in SUBSET Place
        BY <2>4 DEF EndCourse, Ends, Work
      <3> QED BY <2>4, <3>1 DEF EndCourse, CourseRow
    <2>5. ASSUME NEW u \in Account, NEW c \in Course, DeleteCourse(a, u, c) PROVE RowTypeOK'
      BY <2>5 DEF DeleteCourse
    <2>6. CASE Abandon(a) BY <2>6 DEF Abandon
    <2> QED BY <1>4, <2>1, <2>2, <2>3, <2>4, <2>5, <2>6 DEF WorkStep
  <1>5. ASSUME NEW a \in Api, ProcessStep(a) PROVE RowTypeOK'
    <2>1. CASE Start(a)
      <3>1. \A p \in Place : place'[p] \in PlaceRow \cup {None} BY <2>1 DEF Start, PlaceRow
      <3> QED BY <2>1, <3>1 DEF Start
    <2>2. ASSUME NEW owner \in Legacy, Migrate(a, owner) PROVE RowTypeOK'
      <3>1. owner \in Account OBVIOUS
      <3>2. \A p \in Place : place'[p] \in PlaceRow \cup {None}
        BY <2>2, <3>1 DEF Migrate, Coalesced, PlaceRow
      <3>3. \A r \in Review : review'[r] \in ReviewRow \cup {None}
        BY <2>2, <3>1 DEF Migrate, Coalesced, ReviewRow
      <3>4. \A c \in Course : course'[c] \in CourseRow \cup {None}
        BY <2>2, <3>1 DEF Migrate, Coalesced, CourseRow
      <3> QED BY <2>2, <3>2, <3>3, <3>4 DEF Migrate
    <2>3. CASE OwnerNotFound(a) BY <2>3 DEF OwnerNotFound
    <2>4. CASE Crash(a) BY <2>4 DEF Crash
    <2> QED BY <1>5, <2>1, <2>2, <2>3, <2>4 DEF ProcessStep
  <1> QED BY <1>1, <1>2, <1>3, <1>4, <1>5 DEF Next

\* Every state is well typed.
THEOREM SharingTypeCorrect == Spec => []TypeOK
  <1>1. PairInv /\ RowTypeOK => TypeOK BY DEF PairInv, TypeOK, RowTypeOK
  <1>2. PairInv /\ RowTypeOK /\ [Next]_vars => RowTypeOK' BY RowTypeStep DEF PairInv
  <1> QED BY <1>1, <1>2, RowTypeInit, PairInvariant, PTL DEF Spec

\* A friendship is found in either column or under the sorted pair alike.
THEOREM ListAndLookupAgree == Spec => []ListedIsFetched
  <1>1. ASSUME PairInv, TypeOK PROVE ListedIsFetched
    <2> SUFFICES ASSUME NEW u \in Account, NEW p \in Place, Active(p), place[p].owner # None
                 PROVE  Listed(u, p) <=> Fetched(u, p)
      BY DEF ListedIsFetched
    <2>1. PICK v \in Account : place[p].owner = v
      BY <1>1 DEF TypeOK, PlaceRow, Active
    <2>2. (\E f \in friendship : f \in {<<u, v>>, <<v, u>>}) <=> AreFriends(u, v)
      BY <1>1 DEF PairInv, TwoInv, FriendsTypeOK, AreFriends, Sorted
    <2> QED BY <2>1, <2>2 DEF Listed, Fetched, CanView
  <1> QED BY <1>1, PairInvariant, SharingTypeCorrect, PTL

-----------------------------------------------------------------------------
(* Ownership.                                                              *)

LEMMA OwnedStep == RowTypeOK /\ RowTypeOK' /\ ServedIsOwned /\ [Next]_vars => ServedIsOwned'
  <1> SUFFICES ASSUME RowTypeOK, RowTypeOK', ServedIsOwned, [Next]_vars,
                      NEW b \in Api, process'[b] = "up"
               PROVE  ~OwnershipIsMissing'
    BY DEF ServedIsOwned
  <1> USE DEF ServedIsOwned, OwnershipIsMissing
  <1>1. CASE UNCHANGED vars BY <1>1 DEF vars, sharedVars
  <1>2. ASSUME NEW a \in Api, FriendStep(a) PROVE ~OwnershipIsMissing'
    BY <1>2 DEF FriendStep, sharedVars
  <1>3. ASSUME NEW a \in Api, PlaceStep(a) PROVE ~OwnershipIsMissing'
    <2>1. PICK p \in Place, row \in PlaceRow :
            /\ WritePlace(a, p, row)
            /\ IF place[p] = None THEN row.owner # None ELSE row.owner = place[p].owner
      BY <1>3, PlaceWrites
    <2>2. ~OwnershipIsMissing BY <2>1 DEF WritePlace, Idle
    <2>3. /\ place' = [place EXCEPT ![p] = row] /\ UNCHANGED <<review, course>>
          /\ row # None
      BY <2>1 DEF WritePlace
    <2>4. row.owner # None
      <3>1. CASE place[p] = None BY <2>1, <3>1 DEF RowTypeOK
      <3>2. CASE place[p] # None BY <2>1, <2>2, <3>2
      <3> QED BY <3>1, <3>2
    <2> QED BY <2>2, <2>3, <2>4 DEF RowTypeOK
  <1>4. ASSUME NEW a \in Api, WorkStep(a) PROVE ~OwnershipIsMissing'
    <2>1. ~OwnershipIsMissing /\ UNCHANGED <<process, place>>
      BY <1>4 DEF WorkStep, BeginReview, BeginCourse, Begin, LockAndCheck, EndReview, EndCourse,
                  DeleteCourse, Abandon
    <2>2. work[a] # None => work[a].user \in Account BY DEF RowTypeOK, Work
    <2>3. ASSUME NEW r \in Review, NEW p \in Place, EndReview(a, r, p)
          PROVE  ~OwnershipIsMissing'
      BY <2>1, <2>2, <2>3 DEF EndReview, Ends, RowTypeOK
    <2>4. ASSUME NEW c \in Course, EndCourse(a, c) PROVE ~OwnershipIsMissing'
      BY <2>1, <2>2, <2>4 DEF EndCourse, Ends, RowTypeOK
    <2>5. ASSUME NEW u \in Account, NEW c \in Course, DeleteCourse(a, u, c)
          PROVE  ~OwnershipIsMissing'
      BY <2>1, <2>5 DEF DeleteCourse, RowTypeOK
    <2>6. CASE UNCHANGED <<review, course>> BY <2>1, <2>6
    <2> QED BY <1>4, <2>3, <2>4, <2>5, <2>6
            DEF WorkStep, BeginReview, BeginCourse, Begin, LockAndCheck, Abandon
  <1>5. ASSUME NEW a \in Api, ProcessStep(a) PROVE ~OwnershipIsMissing'
    <2>1. CASE Start(a) BY <2>1 DEF Start, RowTypeOK, PlaceRow
    <2>2. ASSUME NEW owner \in Legacy, Migrate(a, owner) PROVE ~OwnershipIsMissing'
      <3>1. owner # None OBVIOUS
      <3> QED BY <2>2, <3>1 DEF Migrate, Coalesced, RowTypeOK, PlaceRow, ReviewRow, CourseRow
    <2>3. CASE OwnerNotFound(a) BY <2>3 DEF OwnerNotFound, RowTypeOK
    <2>4. CASE Crash(a) BY <2>4 DEF Crash, RowTypeOK
    <2> QED BY <1>5, <2>1, <2>2, <2>3, <2>4 DEF ProcessStep
  <1> QED BY <1>1, <1>2, <1>3, <1>4, <1>5 DEF Next

LEMMA RowTypes == Spec => []RowTypeOK
  <1>1. TypeOK => RowTypeOK BY DEF TypeOK, RowTypeOK
  <1> QED BY <1>1, SharingTypeCorrect, PTL

\* No process serves while a row has no owner, however the processes start and
\* die.
THEOREM AllServedIsOwned == Spec => []ServedIsOwned
  <1>1. Init => ServedIsOwned BY DEF Init, ServedIsOwned
  <1> QED BY <1>1, OwnedStep, RowTypes, PTL DEF Spec

\* No step of any process gives a row that has an owner to somebody else.
THEOREM OwnersAreKept == Spec => OwnersStay
  <1> DEFINE Kept ==
        /\ \A p \in Place : place[p] # None /\ place[p].owner # None =>
             place'[p] # None /\ place'[p].owner = place[p].owner
        /\ \A r \in Review : review[r] # None /\ review[r].author # None =>
             review'[r] = review[r]
        /\ \A c \in Course : course[c] # None /\ course[c].owner # None =>
             course'[c] \in {None, course[c]}
  <1>1. ASSUME RowTypeOK, RowTypeOK', [Next]_vars PROVE Kept
    <2> USE <1>1 DEF RowTypeOK
    <2>1. CASE UNCHANGED vars BY <2>1 DEF vars, sharedVars
    <2>2. ASSUME NEW a \in Api, FriendStep(a) PROVE Kept
      BY <2>2 DEF FriendStep, sharedVars
    <2>3. ASSUME NEW a \in Api, PlaceStep(a) PROVE Kept
      <3>1. PICK p \in Place, row \in PlaceRow :
              /\ WritePlace(a, p, row)
              /\ IF place[p] = None THEN row.owner # None ELSE row.owner = place[p].owner
        BY <2>3, PlaceWrites
      <3> QED BY <3>1 DEF WritePlace
    <2>4. ASSUME NEW a \in Api, WorkStep(a) PROVE Kept
      BY <2>4 DEF WorkStep, BeginReview, BeginCourse, Begin, LockAndCheck, EndReview, EndCourse,
                  DeleteCourse, Abandon
    <2>5. ASSUME NEW a \in Api, ProcessStep(a) PROVE Kept
      <3>1. CASE Start(a)
        <4>1. \A p \in Place : place[p] # None =>
                place'[p] # None /\ place'[p].owner = place[p].owner
          BY <3>1 DEF Start, PlaceRow
        <4> QED BY <3>1, <4>1 DEF Start
      <3>2. ASSUME NEW owner \in Legacy, Migrate(a, owner) PROVE Kept
        <4>1. \A p \in Place : place[p] # None /\ place[p].owner # None => place'[p] = place[p]
          BY <3>2 DEF Migrate, Coalesced, PlaceRow
        <4>2. \A r \in Review : review[r] # None /\ review[r].author # None =>
                review'[r] = review[r]
          BY <3>2 DEF Migrate, Coalesced, ReviewRow
        <4>3. \A c \in Course : course[c] # None /\ course[c].owner # None =>
                course'[c] = course[c]
          BY <3>2 DEF Migrate, Coalesced, CourseRow
        <4> QED BY <4>1, <4>2, <4>3
      <3>3. CASE OwnerNotFound(a) BY <3>3 DEF OwnerNotFound
      <3>4. CASE Crash(a) BY <3>4 DEF Crash
      <3> QED BY <2>5, <3>1, <3>2, <3>3, <3>4 DEF ProcessStep
    <2> QED BY <2>1, <2>2, <2>3, <2>4, <2>5 DEF Next
  <1>2. RowTypeOK /\ RowTypeOK' /\ [Next]_vars => [Kept]_vars BY <1>1
  <1> QED BY <1>2, RowTypes, PTL DEF Spec, OwnersStay

-----------------------------------------------------------------------------
(* The locks.                                                              *)

\* A place that a transaction has checked stays open to it until it ends.
HeldInv == \A a \in Api : work[a] # None => \A p \in work[a].held : Open(work[a].user, p)

LEMMA HeldStep == RowTypeOK /\ HeldInv /\ [Next]_vars => HeldInv'
  <1> SUFFICES ASSUME RowTypeOK, HeldInv, [Next]_vars PROVE HeldInv' OBVIOUS
  <1> USE DEF RowTypeOK, HeldInv, Open, Active, CanView
  <1>1. CASE UNCHANGED vars BY <1>1 DEF vars, sharedVars
  <1>2. ASSUME NEW a \in Api, FriendStep(a) PROVE HeldInv'
    BY <1>2 DEF FriendStep, sharedVars
  <1>3. ASSUME NEW a \in Api, PlaceStep(a) PROVE HeldInv'
    <2>1. PICK p \in Place, row \in PlaceRow : WritePlace(a, p, row) BY <1>3, PlaceWrites
    <2> QED BY <2>1 DEF WritePlace, Locked
  <1>4. ASSUME NEW a \in Api, WorkStep(a) PROVE HeldInv'
    <2>1. CASE (\E u \in Account, p \in Place : BeginReview(a, u, p))
               \/ (\E u \in Account, places \in SUBSET Place : BeginCourse(a, u, places))
      <3>1. PICK w \in Work : Begin(a, w) /\ w.held = {}
        BY <2>1, BeginWrites
      <3> QED BY <3>1 DEF Begin
    <2>2. ASSUME NEW p \in Place, LockAndCheck(a, p) PROVE HeldInv'
      <3>1. Open(work[a].user, p) /\ work[a] \in Work BY <2>2 DEF LockAndCheck
      <3>2. /\ work'[a].user = work[a].user /\ work'[a].held = work[a].held \cup {p}
            /\ \A b \in Api \ {a} : work'[b] = work[b]
            /\ UNCHANGED place
        BY <2>2, <3>1 DEF LockAndCheck, Work
      <3> QED BY <2>2, <3>1, <3>2 DEF LockAndCheck
    <2>3. CASE \/ \E r \in Review, p \in Place : EndReview(a, r, p)
               \/ \E c \in Course : EndCourse(a, c)
               \/ Abandon(a)
      BY <2>3 DEF EndReview, EndCourse, Abandon
    <2>4. ASSUME NEW u \in Account, NEW c \in Course, DeleteCourse(a, u, c) PROVE HeldInv'
      BY <2>4 DEF DeleteCourse
    <2> QED BY <1>4, <2>1, <2>2, <2>3, <2>4 DEF WorkStep
  <1>5. ASSUME NEW a \in Api, ProcessStep(a) PROVE HeldInv'
    <2>1. CASE Start(a) \/ \E owner \in Legacy : Migrate(a, owner)
      <3>1. /\ \A p \in Place : ~Locked(p)
            /\ UNCHANGED work
        BY <2>1 DEF Start, Migrate
      <3>2. \A b \in Api : work[b] # None => work[b].held = {} BY <3>1 DEF Locked, Work
      <3> QED BY <3>1, <3>2
    <2>2. CASE OwnerNotFound(a) BY <2>2 DEF OwnerNotFound
    <2>3. CASE Crash(a) BY <2>3 DEF Crash
    <2> QED BY <1>5, <2>1, <2>2, <2>3 DEF ProcessStep
  <1> QED BY <1>1, <1>2, <1>3, <1>4, <1>5 DEF Next

\* Because the places stay locked, a review or a course is written only about
\* places that are open to its writer.
THEOREM WritesOnOpenPlaces == Spec => WrittenOnOpenPlaces
  <1> DEFINE Good ==
        /\ \A r \in Review : review[r] = None /\ review'[r] # None =>
             Open(review[r].author, review[r].place)'
        /\ \A c \in Course : course[c] = None /\ course'[c] # None =>
             (\A p \in course[c].stops : Open(course[c].owner, p))'
  <1>1. ASSUME RowTypeOK, HeldInv, [Next]_vars PROVE Good
    <2> USE <1>1 DEF RowTypeOK
    <2>1. ASSUME NEW a \in Api, NEW r \in Review, NEW p \in Place, EndReview(a, r, p) PROVE Good
      <3>1. Open(work[a].user, p) /\ UNCHANGED <<place, course>>
        BY <2>1 DEF EndReview, Ends, HeldInv
      <3>2. review' = [review EXCEPT ![r] = [place |-> p, author |-> work[a].user]]
        BY <2>1 DEF EndReview
      <3> QED BY <3>1, <3>2 DEF Open, Active, CanView
    <2>2. ASSUME NEW a \in Api, NEW c \in Course, EndCourse(a, c) PROVE Good
      <3>1. (\A p \in work[a].held : Open(work[a].user, p)) /\ UNCHANGED <<place, review>>
        BY <2>2 DEF EndCourse, Ends, HeldInv
      <3>2. course' = [course EXCEPT ![c] = [owner |-> work[a].user, stops |-> work[a].held]]
        BY <2>2 DEF EndCourse
      <3> QED BY <3>1, <3>2 DEF Open, Active, CanView
    <2>3. ASSUME \A r \in Review : review[r] = None => review'[r] = None,
                 \A c \in Course : course[c] = None => course'[c] = None
          PROVE  Good
      BY <2>3
    <2>4. ASSUME NEW a \in Api, PlaceStep(a) PROVE Good
      BY <2>3, <2>4, PlaceWrites DEF WritePlace
    <2>5. ASSUME NEW a \in Api, WorkStep(a) PROVE Good
      BY <2>1, <2>2, <2>3, <2>5 DEF WorkStep, BeginReview, BeginCourse, Begin, LockAndCheck,
                                    DeleteCourse, Abandon
    <2>6. ASSUME NEW a \in Api, FriendStep(a) \/ ProcessStep(a) PROVE Good
      BY <2>3, <2>6 DEF FriendStep, ProcessStep, Start, Migrate, OwnerNotFound, Crash, sharedVars
    <2>7. CASE UNCHANGED vars BY <2>3, <2>7 DEF vars, sharedVars
    <2> QED BY <2>4, <2>5, <2>6, <2>7 DEF Next
  <1>2. RowTypeOK /\ HeldInv /\ [Next]_vars => [Good]_vars BY <1>1
  <1>3. Init => HeldInv BY DEF Init, HeldInv
  <1> QED BY <1>2, <1>3, HeldStep, RowTypes, PTL DEF Spec, WrittenOnOpenPlaces
=============================================================================
