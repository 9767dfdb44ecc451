------------------------------- MODULE Media --------------------------------
(***************************************************************************)
(* The media that clients upload (services/media.py, routers/uploads.py):  *)
(* an object of the store and a row of travel_media that is 'temporary'    *)
(* until a place or a review names it.  Startup expires the rows left      *)
(* temporary for too long, and a change of a place deletes what nothing    *)
(* refers to any more.                                                     *)
(*                                                                         *)
(* One action is one transaction or one call to the store; the rows that a *)
(* transaction deletes go when it commits, the objects at once.  There is  *)
(* one process of the API, as the deployment has it, and its handlers have *)
(* no await between their steps.                                           *)
(***************************************************************************)
EXTENDS Naturals, FiniteSets

CONSTANTS
  Account,     (* accounts; each may change every place of the model       *)
  Superadmin,  (* those that may attach the media of others                *)
  Place,       (* places that exist                                        *)
  MaxMedia,    (* bound: media ids drawn                                   *)
  Owner,       (* the account that uploads each of them                    *)
  Limit,       (* the LIMIT of one expiry                                  *)
  Faults,      (* kinds of fault the environment may inject                *)
  MaxFaults    (* bound: faults injected in a behaviour                    *)

\* Media are numbered as their ids are drawn, which is the order of created_at.
Media == 1..MaxMedia

ASSUME MediaAssumption ==
  /\ MaxMedia \in Nat /\ Limit \in Nat \ {0} /\ MaxFaults \in Nat
  /\ Superadmin \subseteq Account /\ Owner \in [Media -> Account]
  /\ Faults \subseteq {"crash", "error", "lost"}

VARIABLES
  pc,        (* what the process is doing                                  *)
  current,   (* the media it still has to go through                       *)
  gone,      (* rows its transaction has deleted and not committed         *)
  drawn,     (* ids drawn so far: 1..drawn                                 *)
  aged,      (* media 1..aged are older than the time to live              *)
  row,       (* travel_media: "none", "temporary" or "attached"            *)
  objects,   (* objects in the store                                       *)
  known,     (* ids that a client was told                                 *)
  photos,    (* media that cover_media_id and photo_media_ids_json name    *)
  told,      (* media that the reviews name                                *)
  broken,    (* history: rows that a fault left without their object       *)
  faults     (* faults injected so far                                     *)

processVars == <<pc, current, gone>>
uploadVars  == <<drawn, aged, known>>
placeVars   == <<photos, told>>
vars == <<processVars, uploadVars, row, objects, placeVars, broken, faults>>

TypeOK ==
  /\ pc \in {"down", "expiring", "idle", "inserting", "undoing", "cleaning", "deleting"}
  /\ current \subseteq Media /\ gone \subseteq Media
  /\ drawn \in 0..MaxMedia /\ aged \in 0..drawn
  /\ row \in [Media -> {"none", "temporary", "attached"}]
  /\ objects \subseteq Media /\ known \subseteq Media
  /\ photos \in [Place -> SUBSET Media] /\ told \subseteq Media
  /\ broken \subseteq Media
  /\ faults \in 0..MaxFaults

Init ==
  /\ pc = "down" /\ current = {} /\ gone = {}
  /\ drawn = 0 /\ aged = 0 /\ known = {}
  /\ row = [m \in Media |-> "none"] /\ objects = {}
  /\ photos = [p \in Place |-> {}] /\ told = {}
  /\ broken = {} /\ faults = 0

Rows == {m \in Media : row[m] # "none"}
With(xs, status) == [m \in Media |-> IF m \in xs THEN status ELSE row[m]]

Fault(kind) == kind \in Faults /\ faults < MaxFaults /\ faults' = faults + 1

Goto(where, xs) == pc' = where /\ current' = xs /\ gone' = {}

-----------------------------------------------------------------------------
(* An upload.                                                              *)

\* upload_fileobj_to_key
Put ==
  /\ pc = "idle" /\ drawn < MaxMedia
  /\ drawn' = drawn + 1
  /\ objects' = objects \cup {drawn'}
  /\ Goto("inserting", {drawn'})
  /\ UNCHANGED <<aged, known, row, placeVars, broken, faults>>

\* The put raises: without effect, or because the answer is lost or the state
\* of the store cannot be saved.
PutFails ==
  /\ pc = "idle" /\ drawn < MaxMedia
  /\ drawn' = drawn + 1
  /\ \/ Fault("error") /\ UNCHANGED objects
     \/ Fault("lost") /\ objects' = objects \cup {drawn'}
  /\ UNCHANGED <<processVars, aged, known, row, placeVars, broken>>

\* create_uploaded_media: the row, and the id goes to the client.
Insert ==
  /\ pc = "inserting"
  /\ row' = With(current, "temporary")
  /\ known' = known \cup current
  /\ Goto("idle", {})
  /\ UNCHANGED <<drawn, aged, objects, placeVars, broken, faults>>

\* Its transaction raises, rolled back or with its answer lost.
InsertFails ==
  /\ pc = "inserting"
  /\ \/ Fault("error") /\ UNCHANGED row
     \/ Fault("lost") /\ row' = With(current, "temporary")
  /\ Goto("undoing", current)
  /\ UNCHANGED <<uploadVars, objects, placeVars, broken>>

\* ... and the object is deleted again, if the store answers.
Undo ==
  /\ pc = "undoing"
  /\ \/ objects' = objects \ current /\ UNCHANGED faults
     \/ Fault("error") /\ UNCHANGED objects
  /\ Goto("idle", {})
  /\ UNCHANGED <<uploadVars, row, placeVars, broken>>

-----------------------------------------------------------------------------
(* Places and reviews.                                                     *)

\* attach_media
Attachable(u, xs) ==
  /\ xs \subseteq Rows
  /\ u \in Superadmin \/ \A m \in xs : Owner[m] = u

\* create_review
Tell(u, xs) ==
  /\ pc = "idle" /\ xs \subseteq known /\ Attachable(u, xs)
  /\ row' = With(xs, "attached")
  /\ told' = told \cup xs
  /\ UNCHANGED <<processVars, uploadVars, objects, photos, broken, faults>>

\* The transaction of update_place, or of create_place: `xs' are named by the
\* fields it writes, `kept' by those it leaves alone.
Name(u, p, xs, kept) ==
  /\ pc = "idle" /\ xs \subseteq known /\ Attachable(u, xs) /\ kept \subseteq photos[p]
  /\ row' = With(xs, "attached")
  /\ photos' = [photos EXCEPT ![p] = xs \cup kept]
  /\ UNCHANGED <<uploadVars, objects, told, broken>>

\* Mutant: the old media are read after the UPDATE.
UpdateThenRead(u, p, xs, kept) ==
  /\ Name(u, p, xs, kept)
  /\ Goto("cleaning", photos'[p] \ (xs \cup kept))
  /\ UNCHANGED faults

UpdatePlace(u, p, xs, kept) ==
  /\ Name(u, p, xs, kept)
  /\ Goto("cleaning", photos[p] \ (xs \cup kept))
  /\ UNCHANGED faults

\* It is committed and its answer lost: the removed media are not looked at.
UpdateLost(u, p, xs, kept) ==
  /\ Fault("lost")
  /\ Name(u, p, xs, kept)
  /\ UNCHANGED processVars

\* Mutant: the reviews are not looked at.
ReferencedByPlace(m) == \E p \in Place : m \in photos[p]
\* _is_media_referenced
Referenced(m) == (\E p \in Place : m \in photos[p]) \/ m \in told

\* cleanup_unreferenced_media reads one snapshot.
Look ==
  /\ pc = "cleaning"
  /\ Goto("deleting", {m \in current \cap Rows : ~Referenced(m)})
  /\ UNCHANGED <<uploadVars, row, objects, placeVars, broken, faults>>

-----------------------------------------------------------------------------
(* Startup.                                                                *)

\* Mutant: the age is not looked at.
StaleAtAnyAge == {m \in Media : row[m] = "temporary"}
\* The rows that are temporary and older than the time to live.
Stale == {m \in Media : row[m] = "temporary" /\ m <= aged}

\* Mutant: ORDER BY created_at DESC.
LatestOf(xs) == {m \in xs : Cardinality({n \in xs : n > m}) < Limit}
\* ORDER BY created_at LIMIT 500
FirstOf(xs) == {m \in xs : Cardinality({n \in xs : n < m}) < Limit}

\* cleanup_stale_temporary_media, in the lifespan of the application.
Start ==
  /\ pc = "down"
  /\ Goto("expiring", FirstOf(Stale))
  /\ UNCHANGED <<uploadVars, row, objects, placeVars, broken, faults>>

-----------------------------------------------------------------------------
(* The loop of both cleanups: the object, then the row.                    *)

Deleting == pc \in {"expiring", "deleting"}

DeleteOne(m) ==
  /\ Deleting /\ m \in current
  /\ objects' = objects \ {m}
  /\ current' = current \ {m} /\ gone' = gone \cup {m}
  /\ UNCHANGED <<pc, uploadVars, row, placeVars, broken, faults>>

\* The store raises, and the row stays.
DeleteFails(m) ==
  /\ Deleting /\ m \in current
  /\ \/ Fault("error") /\ UNCHANGED objects
     \/ Fault("lost") /\ objects' = objects \ {m}
  /\ broken' = broken \cup ({m} \ objects')
  /\ current' = current \ {m}
  /\ UNCHANGED <<pc, gone, uploadVars, row, placeVars>>

\* The commit; startup is over, or the handler.
Commit ==
  /\ Deleting /\ current = {}
  /\ row' = With(gone, "none")
  /\ broken' = broken \ gone
  /\ Goto("idle", {})
  /\ UNCHANGED <<uploadVars, objects, placeVars, faults>>

\* The rows that stay without their object when the transaction is rolled back;
\* the next startup finds again what this one had found.
LeftBroken == IF pc = "deleting" THEN gone ELSE {}

\* The process dies, or its transaction is rolled back and startup fails.
Crash ==
  /\ Fault("crash") /\ pc # "down"
  /\ broken' = broken \cup LeftBroken
  /\ Goto("down", {})
  /\ UNCHANGED <<uploadVars, row, objects, placeVars>>

\* The transaction of a handler is rolled back.
CommitFails ==
  /\ Fault("error") /\ pc = "deleting" /\ current = {}
  /\ broken' = broken \cup LeftBroken
  /\ Goto("idle", {})
  /\ UNCHANGED <<uploadVars, row, objects, placeVars>>

\* Time passes.
Age ==
  /\ aged < drawn
  /\ aged' = aged + 1
  /\ UNCHANGED <<processVars, drawn, known, row, objects, placeVars, broken, faults>>

\* A new release: the container is replaced while nothing is under way.
Redeploy ==
  /\ pc = "idle" /\ Goto("down", {})
  /\ UNCHANGED <<uploadVars, row, objects, placeVars, broken, faults>>

-----------------------------------------------------------------------------
Upload == Put \/ PutFails \/ Insert \/ InsertFails \/ Undo

Use == \E u \in Account, xs \in SUBSET known :
         \/ Tell(u, xs)
         \/ \E p \in Place : \E kept \in SUBSET (photos[p] \ xs) :
              UpdatePlace(u, p, xs, kept) \/ UpdateLost(u, p, xs, kept)

Cleanup == \/ Look \/ Start
           \/ \E m \in Media : DeleteOne(m) \/ DeleteFails(m)
           \/ Commit \/ CommitFails

Next == Upload \/ Use \/ Cleanup \/ Crash \/ Redeploy \/ Age

Spec == Init /\ [][Next]_vars

-----------------------------------------------------------------------------
(* Properties.                                                             *)

\* What a place, deleted or not, or a review refers to is registered, attached
\* and stored, through expiry, cleanups, crashes and lost answers; except for
\* the rows a deletion that failed half-way had left without their object.
Used == (UNION {photos[p] : p \in Place}) \cup told
ReferencedIsStored ==
  \A m \in Used : row[m] = "attached" /\ (m \in objects \/ m \in broken)

\* Whoever was told an id can use it as long as it is registered: while the
\* process serves, its object is there, with the same exception.
KnownIsStored ==
  pc = "idle" => \A m \in known \cap Rows : m \in objects \/ m \in broken

\* A media whose id was told stays registered until it is older than the time
\* to live, whatever is restarted meanwhile.
FreshStays ==
  [][\A m \in known \cap Rows :
       m > aged /\ row[m] = "temporary" => row'[m] # "none"]_vars

\* Without faults nothing is lost sight of: when the process is idle, the store
\* holds the objects of the rows and no others, and what nothing refers to is
\* temporary, so that it will expire.
NothingLeaks ==
  pc = "idle" /\ faults = 0 =>
    /\ objects = Rows
    /\ \A m \in Media : row[m] = "attached" <=> m \in Used
=============================================================================
