------------------------------ MODULE Sharing -------------------------------
(***************************************************************************)
(* Places, their reviews and the courses made of them, and who may see     *)
(* them (routers/places.py, routers/courses.py, services/authorization.py, *)
(* the ownership migration of connectors), beside the friendships they     *)
(* depend on.                                                              *)
(*                                                                         *)
(* A process runs init_db before it serves.  A handler that locks one row, *)
(* writes it and commits is one action that waits for the lock; a review   *)
(* or a course is written after further reads, and takes the lock of each  *)
(* place in a step of its own.  Names, texts and coordinates are left out, *)
(* and the media of a place are those of module Media.                     *)
(***************************************************************************)
EXTENDS Friends

CONSTANTS
  Superadmin,  (* the accounts of the permission superadmin                *)
  Legacy,      (* accounts the search for the legacy owner may answer      *)
  Place, Review, Course   (* bounds: row ids ever drawn                    *)

\* visibility "unset" is the NULL of a row older than the column.
PlaceRow  == [owner : Account \cup {None}, visibility : {"unset", "public", "private"},
              deleted : BOOLEAN]
ReviewRow == [place : Place, author : Account \cup {None}]
CourseRow == [owner : Account \cup {None}, stops : SUBSET Place]
\* `todo' are the places still to be locked and checked, `seen' the
\* friendships of the snapshot that the first plain read opens.
Work == [for : {"review", "course"}, user : Account, todo : SUBSET Place,
         held : SUBSET Place, seen : {None} \cup SUBSET (Account \X Account)]

ASSUME SharingAssumption ==
  /\ Superadmin \subseteq Account /\ Legacy \subseteq Account
  /\ None \notin Account /\ None \notin PlaceRow /\ None \notin ReviewRow
  /\ None \notin CourseRow /\ None \notin Work

VARIABLES
  process,   (* of each process: "down", "migrating" or "up"               *)
  place,     (* travel_places                                              *)
  review,    (* travel_place_reviews                                       *)
  course,    (* travel_courses with their travel_course_stops              *)
  work       (* the open transaction of a process that writes a review or  *)
             (* a course                                                   *)

sharedVars == <<process, place, review, course, work>>
vars == <<friendVars, sharedVars>>

TypeOK ==
  /\ FriendsTypeOK
  /\ process \in [Api -> {"down", "migrating", "up"}]
  /\ place \in [Place -> PlaceRow \cup {None}]
  /\ review \in [Review -> ReviewRow \cup {None}]
  /\ course \in [Course -> CourseRow \cup {None}]
  /\ work \in [Api -> Work \cup {None}]

\* The rows an earlier release left: nobody owns them.
OldPlace     == [owner |-> None, visibility |-> "unset", deleted |-> FALSE]
OldReview(p) == [place |-> p, author |-> None]
OldCourse(s) == [owner |-> None, stops |-> s]

Init ==
  /\ FriendsInit
  /\ process = [a \in Api |-> "down"]
  /\ place \in [Place -> {OldPlace, None}]
  /\ LET old == {p \in Place : place[p] # None} IN
       /\ review \in [Review -> {OldReview(p) : p \in old} \cup {None}]
       /\ course \in [Course -> {OldCourse(s) : s \in (SUBSET old) \ {{}}} \cup {None}]
  /\ work = [a \in Api |-> None]

-----------------------------------------------------------------------------
(* Startup.                                                                *)

Idle(a) == process[a] = "up" /\ work[a] = None /\ sending[a] = None

\* Mutant: a SELECT without FOR UPDATE.
NotLocked(p) == FALSE
\* FOR UPDATE: the row waits for the transaction that holds it.
Locked(p) == \E a \in Api : work[a] # None /\ p \in work[a].held

\* _legacy_ownership_is_missing
OwnershipIsMissing ==
  \/ \E p \in Place : place[p] # None /\ place[p].owner = None
  \/ \E r \in Review : review[r] # None /\ review[r].author = None
  \/ \E c \in Course : course[c] # None /\ course[c].owner = None

\* init_db up to the search for the legacy owner.  The UPDATE of the visibility
\* scans the table and waits for the locks of the others.
Start(a) ==
  /\ process[a] = "down"
  /\ \A p \in Place : ~Locked(p)
  /\ place' = [p \in Place |->
                 IF place[p] # None /\ place[p].visibility = "unset"
                 THEN [place[p] EXCEPT !.visibility = "public"] ELSE place[p]]
  /\ process' = [process EXCEPT ![a] = IF OwnershipIsMissing THEN "migrating" ELSE "up"]
  /\ UNCHANGED <<review, course, work, friendVars>>

\* Mutant: every row is given to the account found.
GivenTo(old, owner) == owner
\* COALESCE and the WHERE of the UPDATEs: a row that has an owner keeps it.
Coalesced(old, owner) == IF old = None THEN owner ELSE old

\* migrate_legacy_ownership: its three UPDATEs in one transaction.
Migrate(a, owner) ==
  /\ process[a] = "migrating"
  /\ \A p \in Place : ~Locked(p)
  /\ place' = [p \in Place |-> IF place[p] = None THEN None ELSE
                 [place[p] EXCEPT !.owner = Coalesced(@, owner)]]
  /\ review' = [r \in Review |-> IF review[r] = None THEN None ELSE
                 [review[r] EXCEPT !.author = Coalesced(@, owner)]]
  /\ course' = [c \in Course |-> IF course[c] = None THEN None ELSE
                 [course[c] EXCEPT !.owner = Coalesced(@, owner)]]
  /\ process' = [process EXCEPT ![a] = "up"]
  /\ UNCHANGED <<work, friendVars>>

\* Mutant: the process serves all the same.
ServesAnyway(a) ==
  /\ process[a] = "migrating"
  /\ process' = [process EXCEPT ![a] = "up"]
  /\ UNCHANGED <<place, review, course, work, friendVars>>

\* The account is not found exactly once, or the auth API does not answer.
OwnerNotFound(a) ==
  /\ process[a] = "migrating"
  /\ process' = [process EXCEPT ![a] = "down"]
  /\ UNCHANGED <<place, review, course, work, friendVars>>

-----------------------------------------------------------------------------
(* Who may see and change what.                                            *)

Active(p) == place[p] # None /\ ~place[p].deleted

\* can_view_place, which is can_review_place too; `friendly' is are_friends.
CanView(u, p, friendly) ==
  \/ u \in Superadmin
  \/ place[p].owner = u
  \/ place[p].visibility = "public" /\ friendly

\* can_manage_place, can_access_course
CanManage(u, owner) == u \in Superadmin \/ owner = u

\* _fetch_place_row: the friendship is looked up by the sorted pair.
Fetched(u, p) == Active(p) /\ CanView(u, p, AreFriends(u, place[p].owner))

\* get_places: the friendship is looked for in either column.
Listed(u, p) ==
  /\ Active(p)
  /\ \/ u \in Superadmin
     \/ place[p].owner = u
     \/ /\ place[p].visibility = "public"
        /\ \E f \in friendship : f \in {<<u, place[p].owner>>, <<place[p].owner, u>>}

-----------------------------------------------------------------------------
(* Places.                                                                 *)

WritePlace(a, p, row) ==
  /\ Idle(a) /\ ~Locked(p)
  /\ place' = [place EXCEPT ![p] = row]
  /\ UNCHANGED <<process, review, course, work, friendVars>>

\* create_place
CreatePlace(a, u, p, visibility) ==
  /\ place[p] = None
  /\ WritePlace(a, p, [owner |-> u, visibility |-> visibility, deleted |-> FALSE])

\* update_place, of which the visibility is kept here.
UpdatePlace(a, u, p, visibility) ==
  /\ Active(p) /\ CanManage(u, place[p].owner)
  /\ WritePlace(a, p, [place[p] EXCEPT !.visibility = visibility])

\* delete_place: the row is marked, so what refers to it stays.
DeletePlace(a, u, p) ==
  /\ Active(p) /\ CanManage(u, place[p].owner)
  /\ WritePlace(a, p, [place[p] EXCEPT !.deleted = TRUE])

\* restore_place
RestorePlace(a, u, p) ==
  /\ place[p] # None /\ place[p].deleted /\ CanManage(u, place[p].owner)
  /\ WritePlace(a, p, [place[p] EXCEPT !.deleted = FALSE])

-----------------------------------------------------------------------------
(* Reviews and courses.                                                    *)

Begin(a, work0) ==
  /\ Idle(a)
  /\ work' = [work EXCEPT ![a] = work0]
  /\ UNCHANGED <<process, place, review, course, friendVars>>

Writing(what, u, places) ==
  [for |-> what, user |-> u, todo |-> places, held |-> {}, seen |-> None]

\* create_review
BeginReview(a, u, p) == Begin(a, Writing("review", u, {p}))
\* create_course, and import_course for the payloads with a stop at least that
\* validate_import_payload lets pass.
BeginCourse(a, u, places) == Begin(a, Writing("course", u, places))

\* _require_accessible_place_id, and the first half of create_review: the row is
\* locked and read as it is now, the friendship as of the snapshot.
LockAndCheck(a, p) ==
  LET w == work[a]
      asks == w.user # place[p].owner
      seen == IF asks /\ w.seen = None THEN friendship ELSE w.seen IN
  /\ w # None /\ p \in w.todo /\ ~Locked(p)
  /\ Active(p)
  /\ CanView(w.user, p, asks /\ Sorted(w.user, place[p].owner) \in seen)
  /\ work' = [work EXCEPT ![a] = [w EXCEPT !.todo = @ \ {p}, !.held = @ \cup {p},
                                           !.seen = seen]]
  /\ UNCHANGED <<process, place, review, course, friendVars>>

Ends(a, what) == work[a] # None /\ work[a].for = what /\ work[a].todo = {}

\* The INSERT of the review and the commit.
EndReview(a, r, p) ==
  /\ Ends(a, "review") /\ p \in work[a].held /\ review[r] = None
  /\ review' = [review EXCEPT ![r] = [place |-> p, author |-> work[a].user]]
  /\ work' = [work EXCEPT ![a] = None]
  /\ UNCHANGED <<process, place, course, friendVars>>

\* _persist_course: the INSERTs of the course and its stops, and the commit.
EndCourse(a, c) ==
  /\ Ends(a, "course") /\ course[c] = None
  /\ course' = [course EXCEPT ![c] = [owner |-> work[a].user, stops |-> work[a].held]]
  /\ work' = [work EXCEPT ![a] = None]
  /\ UNCHANGED <<process, place, review, friendVars>>

\* delete_course; the stops go with it (ON DELETE CASCADE).
DeleteCourse(a, u, c) ==
  /\ Idle(a) /\ course[c] # None /\ CanManage(u, course[c].owner)
  /\ course' = [course EXCEPT ![c] = None]
  /\ UNCHANGED <<process, place, review, work, friendVars>>

-----------------------------------------------------------------------------
\* A check fails, or the database gives the transaction up: two courses that
\* lock the same places in another order deadlock, and one is the victim.
Abandon(a) ==
  /\ work[a] # None
  /\ work' = [work EXCEPT ![a] = None]
  /\ UNCHANGED <<process, place, review, course, friendVars>>

\* The process dies: its transaction is rolled back.
Crash(a) ==
  /\ process[a] # "down"
  /\ process' = [process EXCEPT ![a] = "down"]
  /\ work' = [work EXCEPT ![a] = None]
  /\ Rollback(a)
  /\ UNCHANGED <<place, review, course>>

\* A handler of the friends, or the rollback of one.
FriendStep(a) ==
  /\ process[a] = "up" /\ work[a] = None
  /\ Handle(a) \/ (sending[a] # None /\ Rollback(a))
  /\ UNCHANGED sharedVars

PlaceStep(a) ==
  \E u \in Account, p \in Place :
    \/ \E visibility \in {"public", "private"} :
         CreatePlace(a, u, p, visibility) \/ UpdatePlace(a, u, p, visibility)
    \/ DeletePlace(a, u, p)
    \/ RestorePlace(a, u, p)

WorkStep(a) ==
  \/ \E u \in Account, p \in Place : BeginReview(a, u, p)
  \/ \E u \in Account, places \in SUBSET Place : BeginCourse(a, u, places)
  \/ \E p \in Place : LockAndCheck(a, p)
  \/ \E r \in Review, p \in Place : EndReview(a, r, p)
  \/ \E c \in Course : EndCourse(a, c)
  \/ \E u \in Account, c \in Course : DeleteCourse(a, u, c)
  \/ Abandon(a)

ProcessStep(a) ==
  \/ Start(a)
  \/ \E owner \in Legacy : Migrate(a, owner)
  \/ OwnerNotFound(a)
  \/ Crash(a)

Next == \E a \in Api : FriendStep(a) \/ PlaceStep(a) \/ WorkStep(a) \/ ProcessStep(a)

Spec == Init /\ [][Next]_vars

-----------------------------------------------------------------------------
(* Properties.                                                             *)

\* The list of the places and the lookup of one agree on what an account may
\* see, though one searches the friendship in either column and the other by
\* the sorted pair.
ListedIsFetched ==
  \A u \in Account, p \in Place :
    Active(p) /\ place[p].owner # None => (Listed(u, p) <=> Fetched(u, p))

\* While a process serves, every place, review and course has an owner,
\* whichever other process is being started or has died in the migration.
ServedIsOwned == (\E a \in Api : process[a] = "up") => ~OwnershipIsMissing

\* Nobody's place, review or course is ever given to somebody else, though a
\* process may migrate long after the others began to serve.
OwnersStay ==
  [][/\ \A p \in Place : place[p] # None /\ place[p].owner # None =>
          place'[p] # None /\ place'[p].owner = place[p].owner
     /\ \A r \in Review : review[r] # None /\ review[r].author # None =>
          review'[r] = review[r]
     /\ \A c \in Course : course[c] # None /\ course[c].owner # None =>
          course'[c] \in {None, course[c]}]_vars

\* A review or a course is written about places that are, at that moment, not
\* deleted and open to its writer: nobody deletes or closes one of them after
\* it was checked.  (The friendship may have ended since the check.)
Open(u, p) == Active(p) /\ CanView(u, p, TRUE)
WrittenOnOpenPlaces ==
  [][/\ \A r \in Review : review[r] = None /\ review'[r] # None =>
          Open(review[r].author, review[r].place)'
     /\ \A c \in Course : course[c] = None /\ course'[c] # None =>
          (\A p \in course[c].stops : Open(course[c].owner, p))']_vars
=============================================================================
