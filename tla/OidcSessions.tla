---------------------------- MODULE OidcSessions ----------------------------
(***************************************************************************)
(* The login transactions and sessions that the API process keeps in       *)
(* memory (services/session_auth.py).  A request reads its session on the  *)
(* event loop and then works in a pool thread (asyncio.to_thread), so      *)
(* refreshes, logouts and logins of one session really overlap.            *)
(*                                                                         *)
(* One action is one critical section of _lock, together with the local    *)
(* code around it, or one call answered by the authorization server.  The  *)
(* lock _lock is never held across a step and is not modelled; the         *)
(* refresh_lock of a session is held across the call to the server.        *)
(***************************************************************************)
EXTENDS Naturals

CONSTANTS
  Session,     (* session ids _random_token may draw                       *)
  State,       (* login states _random_token may draw                      *)
  Thread,      (* requests that may be in progress at once                 *)
  None,        (* no session, no thread                                    *)
  MaxTokens,   (* bound: refresh tokens the server ever issues             *)
  Faults,      (* kinds of fault the environment may inject                *)
  MaxFaults    (* bound: faults of each kind in a behaviour                *)

FaultKind == {"lost", "restart"}

ASSUME ConstantsAssumption ==
  /\ None \notin Thread /\ None \notin Session /\ None \notin State
  /\ MaxTokens \in Nat /\ MaxFaults \in Nat
  /\ Faults \subseteq FaultKind

VARIABLES
  login,     (* _login_transactions, and what became of the others         *)
  origin,    (* the login state a session id was created for               *)
  live,      (* _sessions: the session object of each id, or None          *)
  holder,    (* thread inside each refresh_lock                            *)
  token,     (* the server's state of each refresh token                   *)
  ntokens,   (* tokens issued                                              *)
  pc,        (* where each request is                                      *)
  sid,       (* the session it works on                                    *)
  force,     (* whether it must refresh (POST /session/refresh)            *)
  waits,     (* the refresh_lock it entered 'with' on                      *)
  seen,      (* the session object it read last                            *)
  new,       (* the refresh token the server answered                      *)
  faults     (* faults of each kind injected so far                        *)

memoryVars == <<login, live, holder>>
serverVars == <<token, ntokens>>
threadVars == <<pc, sid, force, waits, seen, new>>
vars == <<origin, memoryVars, serverVars, threadVars, faults>>

Token == 1..MaxTokens

\* TravelSession: refresh_token, whether the access token is good for more
\* than 30 s, whether session_expires_at has passed, refresh_lock.  A lock is
\* named by the first token of the session it was made for.
SessionObject == [token : Token, fresh : BOOLEAN, elapsed : BOOLEAN, lock : Token]

TypeOK ==
  /\ login \in [State -> {"unused", "open", "aged", "pruned", "taken"}]
  /\ origin \in [Session -> State \cup {None}]
  /\ live \in [Session -> SessionObject \cup {None}]
  /\ holder \in [Token -> Thread \cup {None}]
  /\ token \in [Token -> {"unissued", "valid", "used", "revoked"}]
  /\ ntokens \in 0..MaxTokens
  /\ pc \in [Thread -> {"idle", "exchange", "wait", "sent", "granted",
                        "revoking", "deleting"}]
  /\ sid \in [Thread -> Session \cup State \cup {None}]
  /\ force \in [Thread -> BOOLEAN]
  /\ waits \in [Thread -> Token \cup {0}]
  /\ seen \in [Thread -> SessionObject \cup {None}]
  /\ new \in [Thread -> 0..MaxTokens]
  /\ faults \in [FaultKind -> 0..MaxFaults]

Init ==
  /\ login = [st \in State |-> "unused"]
  /\ origin = [s \in Session |-> None]
  /\ live = [s \in Session |-> None]
  /\ holder = [k \in Token |-> None]
  /\ token = [k \in Token |-> "unissued"]
  /\ ntokens = 0
  /\ pc = [t \in Thread |-> "idle"]
  /\ sid = [t \in Thread |-> None]
  /\ force = [t \in Thread |-> FALSE]
  /\ waits = [t \in Thread |-> 0]
  /\ seen = [t \in Thread |-> None]
  /\ new = [t \in Thread |-> 0]
  /\ faults = [kind \in FaultKind |-> 0]

-----------------------------------------------------------------------------
(* The tables.                                                             *)

\* _get_session_by_id returns a session, or pops an expired one.
Present(s) == live[s] # None /\ ~live[s].elapsed
Discard(s) == live' = [live EXCEPT ![s] = None]

\* _prune_expired_login_transactions
Prune == [st \in State |-> IF login[st] = "aged" THEN "pruned" ELSE login[st]]

\* The browser holds the cookie of a session that was created once.
Known(s) == origin[s] # None

Goto(t, where) == pc' = [pc EXCEPT ![t] = where]

\* A request ends and its locals with it.
Finish(t) ==
  /\ Goto(t, "idle")
  /\ sid' = [sid EXCEPT ![t] = None]
  /\ force' = [force EXCEPT ![t] = FALSE]
  /\ waits' = [waits EXCEPT ![t] = 0]
  /\ seen' = [seen EXCEPT ![t] = None]
  /\ new' = [new EXCEPT ![t] = 0]

\* Leaving 'with session.refresh_lock', by return or by exception.
Leave(t) == holder' = [holder EXCEPT ![waits[t]] = None] /\ Finish(t)

-----------------------------------------------------------------------------
(* Login.                                                                  *)

\* _start_login_sync
StartLogin(st) ==
  /\ login[st] = "unused"
  /\ login' = [Prune EXCEPT ![st] = "open"]
  /\ UNCHANGED <<origin, live, holder, serverVars, threadVars, faults>>

\* The transaction is older than LOGIN_TRANSACTION_TTL_SECONDS.
Age(st) ==
  /\ login[st] = "open"
  /\ login' = [login EXCEPT ![st] = "aged"]
  /\ UNCHANGED <<origin, live, holder, serverVars, threadVars, faults>>

\* Mutant: the transaction is read and not popped.
PopLoginReads(st) == login' = Prune
\* _pop_login_transaction, after the pruning.
PopLogin(st) == login' = [Prune EXCEPT ![st] = IF @ = "open" THEN "taken" ELSE @]

\* _handle_oidc_callback_sync up to the call to /oauth/token.  The browser may
\* open the redirect twice, and at any time after the login began.
Callback(t, st) ==
  /\ pc[t] = "idle" /\ Prune[st] = "open"
  /\ PopLogin(st)
  /\ Goto(t, "exchange")
  /\ sid' = [sid EXCEPT ![t] = st]
  /\ UNCHANGED <<origin, live, holder, serverVars, force, waits, seen, new, faults>>

\* The callback carries an error or no code, or its state is unknown.
CallbackRefused(st) ==
  /\ login[st] # "unused"
  /\ PopLogin(st)
  /\ UNCHANGED <<origin, live, holder, serverVars, threadVars, faults>>

\* _exchange_code_for_token, _create_session and _store_session: nobody knows
\* the new id before the redirect is answered.
Exchange(t, s) ==
  /\ pc[t] = "exchange" /\ ~Known(s) /\ ntokens < MaxTokens
  /\ ntokens' = ntokens + 1
  /\ token' = [token EXCEPT ![ntokens + 1] = "valid"]
  /\ live' = [live EXCEPT ![s] = [token |-> ntokens + 1, fresh |-> TRUE,
                                  elapsed |-> FALSE, lock |-> ntokens + 1]]
  /\ origin' = [origin EXCEPT ![s] = sid[t]]
  /\ Finish(t)
  /\ UNCHANGED <<login, holder, faults>>

\* The exchange fails, or its answer is no session.
ExchangeFails(t) ==
  /\ pc[t] = "exchange"
  /\ Finish(t)
  /\ UNCHANGED <<origin, memoryVars, serverVars, faults>>

-----------------------------------------------------------------------------
(* Using and refreshing a session: _refresh_session_sync.                  *)

\* A request finds no session, or an expired one: 401.
Unauthorized(s) ==
  /\ Known(s) /\ live[s] # None /\ ~Present(s)
  /\ Discard(s)
  /\ UNCHANGED <<origin, login, holder, serverVars, threadVars, faults>>

\* A request that needs a refresh reaches the lock.  One whose access token
\* is good for more than 30 s returns its session and changes nothing.
Request(t, s, forced) ==
  /\ pc[t] = "idle" /\ Present(s)
  /\ forced \/ ~live[s].fresh
  /\ Goto(t, "wait")
  /\ sid' = [sid EXCEPT ![t] = s]
  /\ force' = [force EXCEPT ![t] = forced]
  /\ waits' = [waits EXCEPT ![t] = live[s].lock]
  /\ seen' = [seen EXCEPT ![t] = live[s]]
  /\ UNCHANGED <<origin, memoryVars, serverVars, new, faults>>

AtLock(t) == pc[t] = "wait" /\ holder[waits[t]] = None

\* Inside the lock the session is read again: it is gone, ...
FindsGone(t) ==
  /\ AtLock(t) /\ ~Present(sid[t])
  /\ Discard(sid[t])
  /\ Finish(t)
  /\ UNCHANGED <<origin, login, holder, serverVars, faults>>

\* ... or another request has refreshed it meanwhile, ...
FindsFresh(t) ==
  /\ AtLock(t) /\ Present(sid[t])
  /\ ~force[t] /\ live[sid[t]].fresh
  /\ Finish(t)
  /\ UNCHANGED <<origin, memoryVars, serverVars, faults>>

\* Mutant: the session is not read again inside the lock.
SendUnread(t) ==
  /\ AtLock(t)
  /\ force[t] \/ ~seen[t].fresh
  /\ holder' = [holder EXCEPT ![waits[t]] = t]
  /\ Goto(t, "sent")
  /\ UNCHANGED <<origin, login, live, serverVars, sid, force, waits, seen, new, faults>>

\* ... or its refresh token is sent to the server.
Send(t) ==
  /\ AtLock(t) /\ Present(sid[t])
  /\ force[t] \/ ~live[sid[t]].fresh
  /\ holder' = [holder EXCEPT ![waits[t]] = t]
  /\ seen' = [seen EXCEPT ![t] = live[sid[t]]]
  /\ Goto(t, "sent")
  /\ UNCHANGED <<origin, login, live, serverVars, sid, force, waits, new, faults>>

\* The server rotates the token.
Grant(t) ==
  /\ pc[t] = "sent" /\ token[seen[t].token] = "valid" /\ ntokens < MaxTokens
  /\ ntokens' = ntokens + 1
  /\ token' = [token EXCEPT ![seen[t].token] = "used", ![ntokens + 1] = "valid"]
  /\ new' = [new EXCEPT ![t] = ntokens + 1]
  /\ Goto(t, "granted")
  /\ UNCHANGED <<origin, memoryVars, sid, force, waits, seen, faults>>

\* Mutant: a failure leaves without releasing the lock.
RefuseInside(t) ==
  /\ pc[t] = "sent"
  /\ IF live[sid[t]] # None /\ live[sid[t]].token = seen[t].token
     THEN Discard(sid[t]) ELSE UNCHANGED live
  /\ Finish(t)
  /\ UNCHANGED <<origin, login, holder, serverVars, faults>>

\* The server refuses or cannot be reached: an HTTPException, which drops the
\* session unless someone has changed its token.
Refuse(t) ==
  /\ pc[t] = "sent"
  /\ IF live[sid[t]] # None /\ live[sid[t]].token = seen[t].token
     THEN Discard(sid[t]) ELSE UNCHANGED live
  /\ Leave(t)
  /\ UNCHANGED <<origin, login, serverVars, faults>>

\* Mutant: the new object gets a lock of its own.
StoreNewLock(t) ==
  /\ pc[t] = "granted"
  /\ live' = [live EXCEPT ![sid[t]] = [token |-> new[t], fresh |-> TRUE,
                                       elapsed |-> FALSE, lock |-> new[t]]]
  /\ Leave(t)
  /\ UNCHANGED <<origin, login, serverVars, faults>>

\* _create_session makes the new object and the table takes it.  It looks the
\* old object up for its expiry, which pops an expired one; without an old
\* object the new one gets a whole TRAVEL_SESSION_MAX_AGE_SECONDS.
Store(t) ==
  /\ pc[t] = "granted"
  /\ live' = [live EXCEPT ![sid[t]] = [token |-> new[t], fresh |-> TRUE,
                                       elapsed |-> FALSE, lock |-> seen[t].lock]]
  /\ Leave(t)
  /\ UNCHANGED <<origin, login, serverVars, faults>>

-----------------------------------------------------------------------------
(* Logout.                                                                 *)

Logout(t, s) ==
  /\ pc[t] = "idle" /\ Present(s)
  /\ Goto(t, "revoking")
  /\ sid' = [sid EXCEPT ![t] = s]
  /\ seen' = [seen EXCEPT ![t] = live[s]]
  /\ UNCHANGED <<origin, memoryVars, serverVars, force, waits, new, faults>>

\* _revoke_refresh_token_safe: the server may refuse or be unreachable.
Revoke(t) ==
  /\ pc[t] = "revoking"
  /\ \/ token' = [token EXCEPT ![seen[t].token] = IF @ = "valid" THEN "revoked" ELSE @]
     \/ UNCHANGED token
  /\ Goto(t, "deleting")
  /\ UNCHANGED <<origin, memoryVars, ntokens, sid, force, waits, seen, new, faults>>

\* _delete_session
Delete(t) ==
  /\ pc[t] = "deleting"
  /\ Discard(sid[t])
  /\ Finish(t)
  /\ UNCHANGED <<origin, login, holder, serverVars, faults>>

-----------------------------------------------------------------------------
(* Time and faults.                                                        *)

\* The access token has 30 s left.
AccessExpires(s) ==
  /\ live[s] # None /\ live[s].fresh
  /\ live' = [live EXCEPT ![s].fresh = FALSE]
  /\ UNCHANGED <<origin, login, holder, serverVars, threadVars, faults>>

\* session_expires_at passes.
SessionExpires(s) ==
  /\ live[s] # None /\ ~live[s].elapsed
  /\ live' = [live EXCEPT ![s].elapsed = TRUE]
  /\ UNCHANGED <<origin, login, holder, serverVars, threadVars, faults>>

Fault(kind) ==
  /\ kind \in Faults /\ faults[kind] < MaxFaults
  /\ faults' = [faults EXCEPT ![kind] = @ + 1]

\* The answer never comes (a read times out, which is no HTTPException) or is
\* no session: the request fails and the old object stays in the table.
AnswerLost(t) ==
  /\ Fault("lost")
  /\ \/ pc[t] \in {"sent", "granted"} /\ Leave(t)
     \/ pc[t] = "deleting" /\ Finish(t) /\ UNCHANGED holder
  /\ UNCHANGED <<origin, login, live, serverVars>>

\* The process restarts: its memory is empty.
Restart ==
  /\ Fault("restart")
  /\ login' = [st \in State |-> IF login[st] \in {"open", "aged"} THEN "pruned" ELSE login[st]]
  /\ live' = [s \in Session |-> None]
  /\ holder' = [k \in Token |-> None]
  /\ pc' = [t \in Thread |-> "idle"]
  /\ sid' = [t \in Thread |-> None]
  /\ force' = [t \in Thread |-> FALSE]
  /\ waits' = [t \in Thread |-> 0]
  /\ seen' = [t \in Thread |-> None]
  /\ new' = [t \in Thread |-> 0]
  /\ UNCHANGED <<origin, serverVars>>

-----------------------------------------------------------------------------
ThreadStep(t) ==
  \/ \E s \in Session : Exchange(t, s)
  \/ ExchangeFails(t)
  \/ FindsGone(t) \/ FindsFresh(t) \/ Send(t)
  \/ Grant(t) \/ Refuse(t) \/ Store(t)
  \/ Revoke(t) \/ Delete(t)

Next ==
  \/ \E st \in State : StartLogin(st) \/ Age(st) \/ CallbackRefused(st)
  \/ \E s \in Session : Unauthorized(s) \/ AccessExpires(s) \/ SessionExpires(s)
  \/ \E t \in Thread, st \in State : Callback(t, st)
  \/ \E t \in Thread, s \in Session :
       Logout(t, s) \/ \E forced \in BOOLEAN : Request(t, s, forced)
  \/ \E t \in Thread : ThreadStep(t) \/ AnswerLost(t)
  \/ Restart

Spec == Init /\ [][Next]_vars

\* A thread that can run runs; a call to the server is answered, refused or
\* times out after ten seconds; no thread waits for a lock that is free again
\* and again without getting it.
LockStep(t) == FindsGone(t) \/ FindsFresh(t) \/ Send(t)
FairSpec == Spec /\ \A t \in Thread : WF_vars(ThreadStep(t)) /\ SF_vars(LockStep(t))

-----------------------------------------------------------------------------
(* Properties.                                                             *)

\* Refreshing t's session is under way.
InFlight(t, s) == pc[t] \in {"sent", "granted"} /\ sid[t] = s

\* A session has one refresh under way at most: the refresh_lock outlives the
\* session objects, each of which carries it to its successor.
OneRefresh ==
  \A t, u \in Thread, s \in Session : InFlight(t, s) /\ InFlight(u, s) => t = u

\* As long as no answer is lost, no request presents a refresh token that an
\* earlier one already exchanged: what a request sends is what it read after
\* it got the lock, never what it read before it waited.
NoReplay ==
  faults["lost"] = 0 =>
    \A t \in Thread : pc[t] = "sent" => token[seen[t].token] # "used"

\* A login state makes one session: a redirect opened twice finds its
\* transaction popped.
LoginOnce ==
  \A r, s \in Session : origin[r] # None /\ origin[r] = origin[s] => r = s

\* A session that is gone, by logout, expiry or a refused refresh, is gone for
\* good, unless a refresh of it was already under way: a request that waited
\* for the lock meanwhile does not refresh it.
Dead(s) == Known(s) /\ live[s] = None /\ ~(\E t \in Thread : InFlight(t, s))

GoneStaysGone == [][\A s \in Session : Dead(s) => Dead(s)']_vars

\* Every request that waits for a lock or an answer comes to its end: no
\* failure leaves a refresh_lock behind.
RequestsEnd ==
  \A t \in Thread : pc[t] # "idle" ~> pc[t] = "idle"
=============================================================================
