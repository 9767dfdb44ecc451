----------------------------- MODULE AuthProofs ------------------------------
(***************************************************************************)
(* Proofs about the two components that decide who calls.  OidcSessions,   *)
(* for any number of sessions, requests and tokens: the refreshes of one   *)
(* session exclude each other (LockInv), a login makes one session         *)
(* (LoginTaken), a session that is gone stays gone (GoneStep), and no      *)
(* refresh token is presented after it was exchanged, because every token  *)
(* belongs to one session or to the one refresh of it (TokenInv).          *)
(* JwksCache: the races for the cache of signing keys are benign; for any  *)
(* number of threads and keys, and whatever they overwrite, a key that is  *)
(* accepted was published not long ago (AgeInv), and a verification nobody *)
(* disturbs is right (AloneInv).                                           *)
(***************************************************************************)
EXTENDS OidcSessions, JwksCache, TLAPS

\* Refreshing, from the first look at the session to the end.
Refreshing(t) == pc[t] \in {"wait", "sent", "granted"}
Sending(t)    == pc[t] \in {"sent", "granted"}

\* What the locals of a request hold at each place.
Places ==
  /\ \A t \in Thread :
       /\ pc[t] = "exchange" => sid[t] \in State
       /\ Refreshing(t) => sid[t] \in Session /\ waits[t] \in Token /\ Known(sid[t])
       /\ Sending(t) => seen[t] \in SessionObject
       /\ pc[t] = "granted" => new[t] \in Token
       /\ pc[t] \in {"revoking", "deleting"} => sid[t] \in Session /\ seen[t] \in SessionObject
  /\ \A s \in Session : live[s] # None => Known(s)

\* A session has one refresh_lock: its object carries it, whoever refreshes it
\* waits on it, and whoever is past it holds it.
Locks ==
  /\ \A t \in Thread :
       /\ Refreshing(t) /\ live[sid[t]] # None => live[sid[t]].lock = waits[t]
       /\ Sending(t) => holder[waits[t]] = t /\ seen[t].lock = waits[t]
  /\ \A t, u \in Thread :
       Refreshing(t) /\ Refreshing(u) /\ sid[t] = sid[u] => waits[t] = waits[u]

LockInv == TypeOK /\ Places /\ Locks

\* The invariant holds initially.
LEMMA InitLock == Init => LockInv
  BY ConstantsAssumption
  DEF Init, LockInv, TypeOK, Places, Locks, Refreshing, Sending, Known

\* What the end of a request leaves alone.
LEMMA FinishFrame ==
  ASSUME TypeOK, NEW t \in Thread, Finish(t)
  PROVE  /\ pc' \in [Thread -> {"idle", "exchange", "wait", "sent", "granted",
                                "revoking", "deleting"}]
         /\ sid' \in [Thread -> Session \cup State \cup {None}]
         /\ force' \in [Thread -> BOOLEAN]
         /\ waits' \in [Thread -> Token \cup {0}]
         /\ seen' \in [Thread -> SessionObject \cup {None}]
         /\ new' \in [Thread -> 0..MaxTokens]
         /\ pc'[t] = "idle"
         /\ \A u \in Thread \ {t} :
              /\ pc'[u] = pc[u] /\ sid'[u] = sid[u] /\ waits'[u] = waits[u]
              /\ seen'[u] = seen[u] /\ new'[u] = new[u]
  BY ConstantsAssumption DEF TypeOK, Finish, Goto

\* What a move inside a request leaves alone.
LEMMA GotoFrame ==
  ASSUME TypeOK, NEW t \in Thread, NEW where, Goto(t, where)
  PROVE  /\ pc'[t] = where
         /\ \A u \in Thread \ {t} : pc'[u] = pc[u]
         /\ where \in {"idle", "exchange", "wait", "sent", "granted", "revoking", "deleting"} =>
              pc' \in [Thread -> {"idle", "exchange", "wait", "sent", "granted",
                                  "revoking", "deleting"}]
  BY DEF TypeOK, Goto

\* A request that ends preserves the invariant, if the table only loses
\* sessions and the lock, when it held one, is given back.
LEMMA EndLock ==
  ASSUME LockInv, NEW t \in Thread, Finish(t), UNCHANGED <<origin, login, serverVars>>,
         faults' \in [FaultKind -> 0..MaxFaults],
         \A s \in Session : live'[s] \in {live[s], None},
         live' \in [Session -> SessionObject \cup {None}],
         holder' = holder \/ (Sending(t) /\ holder' = [holder EXCEPT ![waits[t]] = None])
  PROVE  LockInv'
  <1> USE DEF LockInv
  <1>1. TypeOK' BY FinishFrame, ConstantsAssumption DEF TypeOK, serverVars
  <1>2. Places' BY FinishFrame DEF Places, Refreshing, Sending, Known
  <1>3. \A u \in Thread \ {t} : Sending(u) => holder'[waits[u]] = u
    BY ConstantsAssumption DEF TypeOK, Places, Locks, Refreshing, Sending
  <1>4. Locks' BY <1>3, FinishFrame DEF Places, Locks, Refreshing, Sending, Known
  <1> QED BY <1>1, <1>2, <1>4

-----------------------------------------------------------------------------
\* The steps of login.
LEMMA LoginLock ==
  ASSUME LockInv,
         \/ \E st \in State : StartLogin(st) \/ Age(st) \/ CallbackRefused(st)
         \/ \E t \in Thread, st \in State : Callback(t, st)
         \/ \E t \in Thread : ExchangeFails(t) \/ \E s \in Session : Exchange(t, s)
  PROVE  LockInv'
  <1> USE DEF LockInv
  <1>1. CASE \E st \in State : StartLogin(st) \/ Age(st) \/ CallbackRefused(st)
    <2>1. login' \in [State -> {"unused", "open", "aged", "pruned", "taken"}]
      BY <1>1 DEF StartLogin, Age, CallbackRefused, PopLogin, Prune, TypeOK
    <2>2. UNCHANGED <<origin, live, holder, serverVars, threadVars, faults>>
      BY <1>1 DEF StartLogin, Age, CallbackRefused
    <2> QED BY <2>1, <2>2 DEF TypeOK, Places, Locks, Refreshing, Sending, Known,
                              serverVars, threadVars
  <1>2. ASSUME NEW t \in Thread, NEW st \in State, Callback(t, st) PROVE LockInv'
    <2>1. login' \in [State -> {"unused", "open", "aged", "pruned", "taken"}]
      BY <1>2 DEF Callback, PopLogin, Prune, TypeOK
    <2>2. TypeOK' BY <1>2, <2>1, GotoFrame DEF Callback, TypeOK, serverVars
    <2>3. sid'[t] = st /\ \A u \in Thread \ {t} : sid'[u] = sid[u]
      BY <1>2 DEF Callback, TypeOK
    <2>4. Places' /\ Locks'
      BY <1>2, <2>3, GotoFrame DEF Callback, Places, Locks, Refreshing, Sending, Known
    <2> QED BY <2>2, <2>4
  <1>3. ASSUME NEW t \in Thread, ExchangeFails(t) PROVE LockInv'
    BY <1>3, EndLock DEF ExchangeFails, memoryVars, TypeOK
  <1>4. ASSUME NEW t \in Thread, NEW s \in Session, Exchange(t, s) PROVE LockInv'
    <2>1. ntokens + 1 \in Token BY <1>4, ConstantsAssumption DEF Exchange, TypeOK, Token
    <2>2. sid[t] \in State BY <1>4 DEF Exchange, Places
    <2>3. live'[s] = [token |-> ntokens + 1, fresh |-> TRUE, elapsed |-> FALSE,
                      lock |-> ntokens + 1]
          /\ \A r \in Session \ {s} : live'[r] = live[r]
      BY <1>4 DEF Exchange, TypeOK
    <2>4. live' \in [Session -> SessionObject \cup {None}]
      BY <1>4, <2>1 DEF Exchange, TypeOK, SessionObject
    <2>5. TypeOK'
      BY <1>4, <2>1, <2>2, <2>4, FinishFrame, ConstantsAssumption DEF Exchange, TypeOK
    <2>6. \A r \in Session : (Known(r) => Known(r)') /\ (r # s => origin'[r] = origin[r])
      BY <1>4 DEF Exchange, Known, TypeOK
    <2>7. \A u \in Thread : Refreshing(u) => sid[u] # s
      BY <1>4 DEF Exchange, Places
    <2>8. Places'
      <3>1. Known(s)' => \A r \in Session : live'[r] # None => Known(r)'
        BY <2>3, <2>6 DEF Places
      <3>2. pc[t] = "exchange" /\ origin'[s] = sid[t] BY <1>4 DEF Exchange, TypeOK
      <3>3. ASSUME Known(s)' PROVE Places'
        BY <1>4, <2>6, <3>1, <3>3, FinishFrame DEF Exchange, Places, Refreshing, Sending
      <3> QED BY <2>2, <3>2, <3>3, ConstantsAssumption DEF Known
    <2>9. Locks'
      BY <1>4, <2>3, <2>7, FinishFrame DEF Exchange, Places, Locks, Refreshing, Sending
    <2> QED BY <2>5, <2>8, <2>9
  <1> QED BY <1>1, <1>2, <1>3, <1>4

\* The steps of a refresh.
LEMMA RefreshLock ==
  ASSUME LockInv, NEW t \in Thread,
         \/ \E s \in Session, forced \in BOOLEAN : Request(t, s, forced)
         \/ FindsGone(t) \/ FindsFresh(t) \/ Send(t)
         \/ Grant(t) \/ Refuse(t) \/ Store(t) \/ AnswerLost(t)
  PROVE  LockInv'
  <1> USE DEF LockInv
  <1>1. ASSUME NEW s \in Session, NEW forced \in BOOLEAN, Request(t, s, forced) PROVE LockInv'
    <2>1. live[s] \in SessionObject /\ live[s] # None /\ Known(s)
      BY <1>1 DEF Request, Present, TypeOK, Places
    <2>2. sid'[t] = s /\ waits'[t] = live[s].lock /\ live[s].lock \in Token
      BY <1>1, <2>1 DEF Request, TypeOK, SessionObject
    <2>3. \A u \in Thread \ {t} :
            sid'[u] = sid[u] /\ waits'[u] = waits[u] /\ seen'[u] = seen[u] /\ new'[u] = new[u]
      BY <1>1 DEF Request, TypeOK
    <2>4. TypeOK'
      BY <1>1, <2>1, <2>2, GotoFrame DEF Request, TypeOK, memoryVars, serverVars
    <2>5. Places'
      BY <1>1, <2>1, <2>2, <2>3, GotoFrame
      DEF Request, Places, Refreshing, Sending, Known, memoryVars
    <2>6. Locks'
      BY <1>1, <2>1, <2>2, <2>3, GotoFrame
      DEF Request, Places, Locks, Refreshing, Sending, memoryVars
    <2> QED BY <2>4, <2>5, <2>6
  <1>2. CASE FindsGone(t)
    BY <1>2, EndLock DEF FindsGone, Discard, TypeOK
  <1>3. CASE FindsFresh(t)
    BY <1>3, EndLock DEF FindsFresh, memoryVars, TypeOK
  <1>4. CASE Send(t)
    <2>1. sid[t] \in Session /\ waits[t] \in Token /\ Known(sid[t]) /\ Refreshing(t)
          /\ holder[waits[t]] = None
      BY <1>4 DEF Send, AtLock, Places, Refreshing
    <2>2. live[sid[t]] \in SessionObject /\ live[sid[t]].lock = waits[t]
      BY <1>4, <2>1 DEF Send, Present, TypeOK, Locks
    <2>3. seen'[t] = live[sid[t]] /\ holder'[waits[t]] = t
          /\ \A u \in Thread \ {t} : seen'[u] = seen[u]
      BY <1>4, <2>1 DEF Send, TypeOK
    <2>4. \A u \in Thread \ {t} : Sending(u) => holder'[waits[u]] = u
      BY <1>4, <2>1, ConstantsAssumption
      DEF Send, TypeOK, Places, Locks, Refreshing, Sending
    <2>5. TypeOK' BY <1>4, <2>2, GotoFrame DEF Send, TypeOK, serverVars
    <2>6. Places'
      BY <1>4, <2>1, <2>2, <2>3, GotoFrame DEF Send, Places, Refreshing, Sending, Known
    <2>7. Locks'
      BY <1>4, <2>1, <2>2, <2>3, <2>4, GotoFrame DEF Send, Locks, Refreshing, Sending
    <2> QED BY <2>5, <2>6, <2>7
  <1>5. CASE Grant(t)
    <2>1. ntokens + 1 \in Token BY <1>5, ConstantsAssumption DEF Grant, TypeOK, Token
    <2>2. TypeOK'
      <3>1. token' \in [Token -> {"unissued", "valid", "used", "revoked"}]
        BY <1>5 DEF Grant, TypeOK
      <3>2. ntokens' \in 0..MaxTokens /\ new' \in [Thread -> 0..MaxTokens]
        BY <1>5, <2>1, ConstantsAssumption DEF Grant, TypeOK, Token
      <3> QED BY <1>5, <3>1, <3>2, GotoFrame DEF Grant, TypeOK, memoryVars
    <2>3. new'[t] = ntokens + 1 /\ \A u \in Thread \ {t} : new'[u] = new[u]
      BY <1>5 DEF Grant, TypeOK
    <2>4. Places' /\ Locks'
      BY <1>5, <2>1, <2>3, GotoFrame
      DEF Grant, Places, Locks, Refreshing, Sending, Known, memoryVars
    <2> QED BY <2>2, <2>4
  <1>6. CASE Refuse(t)
    <2>1. Sending(t) /\ Finish(t) /\ holder' = [holder EXCEPT ![waits[t]] = None]
      BY <1>6 DEF Refuse, Leave, Sending
    <2>2. \A s \in Session : live'[s] \in {live[s], None}
      BY <1>6 DEF Refuse, Discard, TypeOK
    <2>3. live' \in [Session -> SessionObject \cup {None}]
      BY <1>6 DEF Refuse, Discard, TypeOK
    <2> QED BY <1>6, <2>1, <2>2, <2>3, EndLock DEF Refuse, TypeOK
  <1>7. CASE Store(t)
    <2>1. /\ sid[t] \in Session /\ Known(sid[t]) /\ waits[t] \in Token
          /\ new[t] \in Token /\ seen[t] \in SessionObject /\ seen[t].lock = waits[t]
          /\ holder[waits[t]] = t
      BY <1>7 DEF Store, Places, Locks, Refreshing, Sending
    <2>2. Finish(t) /\ holder' = [holder EXCEPT ![waits[t]] = None]
      BY <1>7 DEF Store, Leave
    <2>3. live'[sid[t]] = [token |-> new[t], fresh |-> TRUE, elapsed |-> FALSE,
                           lock |-> waits[t]]
          /\ \A r \in Session \ {sid[t]} : live'[r] = live[r]
      BY <1>7, <2>1 DEF Store, TypeOK
    <2>4. live' \in [Session -> SessionObject \cup {None}]
      BY <1>7, <2>1 DEF Store, TypeOK, SessionObject
    <2>5. \A u \in Thread \ {t} : Sending(u) => holder'[waits[u]] = u
      BY <2>1, <2>2 DEF TypeOK, Places, Locks, Refreshing, Sending
    <2>6. TypeOK'
      BY <1>7, <2>2, <2>4, FinishFrame, ConstantsAssumption DEF Store, TypeOK, serverVars
    <2>7. Places'
      BY <1>7, <2>1, <2>2, <2>3, FinishFrame DEF Store, Places, Refreshing, Sending, Known
    <2>8. Locks'
      <3>1. \A u \in Thread \ {t} : Refreshing(u) /\ sid[u] = sid[t] => waits[u] = waits[t]
        BY <1>7 DEF Store, Locks, Refreshing
      <3> QED BY <2>2, <2>3, <2>5, <3>1, FinishFrame DEF Places, Locks, Refreshing, Sending
    <2> QED BY <2>6, <2>7, <2>8
  <1>8. CASE AnswerLost(t)
    <2>1. faults' \in [FaultKind -> 0..MaxFaults]
      BY <1>8, ConstantsAssumption DEF AnswerLost, Fault, TypeOK
    <2>2. Finish(t) /\ (holder' = holder
                        \/ (Sending(t) /\ holder' = [holder EXCEPT ![waits[t]] = None]))
      BY <1>8 DEF AnswerLost, Leave, Sending
    <2>3. UNCHANGED <<origin, login, live, serverVars>> BY <1>8 DEF AnswerLost
    <2> QED BY <2>1, <2>2, <2>3, EndLock DEF TypeOK
  <1> QED BY <1>1, <1>2, <1>3, <1>4, <1>5, <1>6, <1>7, <1>8

\* Logout, time and restarts.
LEMMA OtherLock ==
  ASSUME LockInv,
         \/ \E t \in Thread : Revoke(t) \/ Delete(t) \/ \E s \in Session : Logout(t, s)
         \/ \E s \in Session : Unauthorized(s) \/ AccessExpires(s) \/ SessionExpires(s)
         \/ Restart
  PROVE  LockInv'
  <1> USE DEF LockInv
  <1>1. ASSUME NEW t \in Thread, NEW s \in Session, Logout(t, s) PROVE LockInv'
    <2>1. live[s] \in SessionObject BY <1>1 DEF Logout, Present, TypeOK
    <2>2. sid'[t] = s /\ seen'[t] = live[s]
          /\ \A u \in Thread \ {t} : sid'[u] = sid[u] /\ seen'[u] = seen[u]
      BY <1>1 DEF Logout, TypeOK
    <2>3. TypeOK' BY <1>1, <2>1, GotoFrame DEF Logout, TypeOK, memoryVars, serverVars
    <2>4. Places' /\ Locks'
      BY <1>1, <2>1, <2>2, GotoFrame
      DEF Logout, Places, Locks, Refreshing, Sending, Known, memoryVars
    <2> QED BY <2>3, <2>4
  <1>2. ASSUME NEW t \in Thread, Revoke(t) PROVE LockInv'
    <2>1. token' \in [Token -> {"unissued", "valid", "used", "revoked"}]
      BY <1>2 DEF Revoke, TypeOK
    <2>2. TypeOK' BY <1>2, <2>1, GotoFrame DEF Revoke, TypeOK, memoryVars
    <2>3. Places' /\ Locks'
      BY <1>2, GotoFrame DEF Revoke, Places, Locks, Refreshing, Sending, Known, memoryVars
    <2> QED BY <2>2, <2>3
  <1>3. ASSUME NEW t \in Thread, Delete(t) PROVE LockInv'
    BY <1>3, EndLock DEF Delete, Discard, TypeOK
  <1>4. ASSUME NEW s \in Session, Unauthorized(s) \/ AccessExpires(s) \/ SessionExpires(s)
        PROVE  LockInv'
    <2>1. UNCHANGED <<origin, login, holder, serverVars, threadVars, faults>>
      BY <1>4 DEF Unauthorized, AccessExpires, SessionExpires
    <2>2. /\ \A r \in Session : live'[r] # None =>
               live[r] # None /\ live'[r].lock = live[r].lock
          /\ live' \in [Session -> SessionObject \cup {None}]
      <3>1. CASE Unauthorized(s)
        BY <3>1 DEF Unauthorized, Discard, TypeOK
      <3>2. CASE AccessExpires(s)
        <4>1. live[s] \in SessionObject /\ live[s] # None BY <3>2 DEF AccessExpires, TypeOK
        <4>2. live' = [live EXCEPT ![s] = [live[s] EXCEPT !.fresh = FALSE]]
          BY <3>2 DEF AccessExpires
        <4>3. [live[s] EXCEPT !.fresh = FALSE] \in SessionObject
              /\ [live[s] EXCEPT !.fresh = FALSE].lock = live[s].lock
          BY <4>1 DEF SessionObject
        <4> QED BY <4>1, <4>2, <4>3 DEF TypeOK
      <3>3. CASE SessionExpires(s)
        <4>1. live[s] \in SessionObject /\ live[s] # None BY <3>3 DEF SessionExpires, TypeOK
        <4>2. live' = [live EXCEPT ![s] = [live[s] EXCEPT !.elapsed = TRUE]]
          BY <3>3 DEF SessionExpires
        <4>3. [live[s] EXCEPT !.elapsed = TRUE] \in SessionObject
              /\ [live[s] EXCEPT !.elapsed = TRUE].lock = live[s].lock
          BY <4>1 DEF SessionObject
        <4> QED BY <4>1, <4>2, <4>3 DEF TypeOK
      <3> QED BY <1>4, <3>1, <3>2, <3>3
    <2>3. live' \in [Session -> SessionObject \cup {None}] BY <2>2
    <2>4. TypeOK' BY <2>1, <2>3 DEF TypeOK, serverVars, threadVars
    <2>5. Places' /\ Locks'
      BY <2>1, <2>2 DEF Places, Locks, Refreshing, Sending, Known, threadVars
    <2> QED BY <2>4, <2>5
  <1>5. CASE Restart
    <2>1. TypeOK' BY <1>5, ConstantsAssumption DEF Restart, Fault, TypeOK, serverVars
    <2>2. Places' /\ Locks' BY <1>5 DEF Restart, Places, Locks, Refreshing, Sending
    <2> QED BY <2>1, <2>2
  <1> QED BY <1>1, <1>2, <1>3, <1>4, <1>5

LEMMA LockStepInv == LockInv /\ [Next]_vars => LockInv'
  <1> SUFFICES ASSUME LockInv, [Next]_vars PROVE LockInv' OBVIOUS
  <1>1. CASE UNCHANGED vars
    BY <1>1 DEF vars, memoryVars, serverVars, threadVars, LockInv, TypeOK, Places, Locks,
                Refreshing, Sending, Known
  <1>2. CASE Next
    BY <1>2, LoginLock, RefreshLock, OtherLock DEF Next, ThreadStep
  <1> QED BY <1>1, <1>2

\* One refresh of a session at a time: its objects hand the lock on, so a
\* request that read an old object waits on the same lock as one that reads
\* the new one.
THEOREM RefreshesExclude == Spec => [](TypeOK /\ OneRefresh)
  <1>1. LockInv => TypeOK /\ OneRefresh
    BY DEF LockInv, Locks, OneRefresh, InFlight, Refreshing, Sending
  <1> QED BY InitLock, LockStepInv, <1>1, PTL DEF Spec

-----------------------------------------------------------------------------
(* A login state makes one session.                                        *)

\* Whoever has taken a login is the only one, until its session exists.
LoginTaken ==
  /\ \A st \in State : login[st] # "taken" =>
       /\ \A t \in Thread : pc[t] = "exchange" => sid[t] # st
       /\ \A s \in Session : origin[s] # st
  /\ \A t, u \in Thread :
       pc[t] = "exchange" /\ pc[u] = "exchange" /\ sid[t] = sid[u] => t = u
  /\ \A t \in Thread, s \in Session : pc[t] = "exchange" => origin[s] # sid[t]
  /\ LoginOnce

\* A step that takes no login and makes no session.
LEMMA LoginFrame ==
  ASSUME LoginTaken, UNCHANGED origin,
         \A st \in State : login[st] = "taken" => login'[st] = "taken",
         \A t \in Thread : pc'[t] = "exchange" => pc[t] = "exchange" /\ sid'[t] = sid[t]
  PROVE  LoginTaken'
  BY DEF LoginTaken, LoginOnce

LEMMA LoginStep == LockInv /\ LoginTaken /\ [Next]_vars => LoginTaken'
  <1> SUFFICES ASSUME LockInv, LoginTaken, [Next]_vars PROVE LoginTaken' OBVIOUS
  <1> USE DEF LockInv
  <1>1. CASE UNCHANGED vars BY <1>1, LoginFrame DEF vars, memoryVars, threadVars
  <1>2. ASSUME NEW st \in State, StartLogin(st) \/ Age(st) \/ CallbackRefused(st)
        PROVE  LoginTaken'
    <2>1. \A x \in State : login[x] = "taken" => login'[x] = "taken"
      BY <1>2 DEF StartLogin, Age, CallbackRefused, PopLogin, Prune, TypeOK
    <2> QED BY <1>2, <2>1, LoginFrame DEF StartLogin, Age, CallbackRefused, threadVars
  <1>3. ASSUME NEW s \in Session, Unauthorized(s) \/ AccessExpires(s) \/ SessionExpires(s)
        PROVE  LoginTaken'
    BY <1>3, LoginFrame DEF Unauthorized, AccessExpires, SessionExpires, threadVars
  <1>4. ASSUME NEW t \in Thread, NEW st \in State, Callback(t, st) PROVE LoginTaken'
    <2>1. login[st] # "taken" /\ login'[st] = "taken"
      BY <1>4 DEF Callback, PopLogin, Prune, TypeOK
    <2>2. \A x \in State : login[x] = "taken" => login'[x] = "taken"
      BY <1>4 DEF Callback, PopLogin, Prune, TypeOK
    <2>3. sid'[t] = st /\ \A u \in Thread \ {t} : sid'[u] = sid[u] /\ pc'[u] = pc[u]
      BY <1>4, GotoFrame DEF Callback, TypeOK
    <2>4. origin' = origin BY <1>4 DEF Callback
    <2> QED BY <2>1, <2>2, <2>3, <2>4 DEF LoginTaken, LoginOnce
  <1>5. ASSUME NEW t \in Thread, NEW s \in Session, Exchange(t, s) PROVE LoginTaken'
    <2>1. pc[t] = "exchange" /\ login' = login BY <1>5 DEF Exchange
    <2>2. origin'[s] = sid[t] /\ \A r \in Session \ {s} : origin'[r] = origin[r]
      BY <1>5 DEF Exchange, TypeOK
    <2>3. pc'[t] = "idle" /\ \A u \in Thread \ {t} : sid'[u] = sid[u] /\ pc'[u] = pc[u]
      BY <1>5, FinishFrame DEF Exchange
    <2>4. sid[t] \in State BY <2>1 DEF Places
    <2> QED BY <2>1, <2>2, <2>3, <2>4 DEF LoginTaken, LoginOnce
  <1>6. ASSUME NEW t \in Thread,
               ExchangeFails(t) \/ FindsGone(t) \/ FindsFresh(t) \/ Refuse(t) \/ Store(t)
               \/ Delete(t) \/ AnswerLost(t)
        PROVE  LoginTaken'
    <2>1. Finish(t) /\ UNCHANGED <<origin, login>>
      BY <1>6 DEF ExchangeFails, FindsGone, FindsFresh, Refuse, Store, Delete, AnswerLost,
                  Leave, memoryVars
    <2> QED BY <2>1, FinishFrame, LoginFrame
  <1>7. ASSUME NEW t \in Thread, Send(t) \/ Grant(t) \/ Revoke(t) PROVE LoginTaken'
    <2>1. UNCHANGED <<origin, login, sid>>
      BY <1>7 DEF Send, Grant, Revoke, memoryVars
    <2>2. \A u \in Thread : pc'[u] = "exchange" => pc[u] = "exchange"
      BY <1>7, GotoFrame DEF Send, Grant, Revoke
    <2> QED BY <2>1, <2>2, LoginFrame
  <1>8. ASSUME NEW t \in Thread, NEW s \in Session, NEW forced \in BOOLEAN,
               Logout(t, s) \/ Request(t, s, forced)
        PROVE  LoginTaken'
    <2>1. UNCHANGED <<origin, login>> BY <1>8 DEF Logout, Request, memoryVars
    <2>2. \A u \in Thread : pc'[u] = "exchange" => pc[u] = "exchange" /\ sid'[u] = sid[u]
      BY <1>8, GotoFrame DEF Logout, Request, TypeOK
    <2> QED BY <2>1, <2>2, LoginFrame
  <1>9. CASE Restart
    <2>1. \A st \in State : login[st] = "taken" => login'[st] = "taken" BY <1>9 DEF Restart
    <2> QED BY <1>9, <2>1, LoginFrame DEF Restart
  <1> QED BY <1>1, <1>2, <1>3, <1>4, <1>5, <1>6, <1>7, <1>8, <1>9 DEF Next, ThreadStep

\* A login state makes one session, however often and late its redirect is
\* opened, and whatever fails or restarts meanwhile.
THEOREM LoginsAreSingle == Spec => []LoginOnce
  <1>1. Init => LoginTaken BY ConstantsAssumption DEF Init, LoginTaken, LoginOnce
  <1>2. LoginTaken => LoginOnce BY DEF LoginTaken
  <1> QED BY InitLock, LockStepInv, LoginStep, <1>1, <1>2, PTL DEF Spec

-----------------------------------------------------------------------------
(* A session that is gone stays gone.                                      *)

LEMMA GoneStep ==
  ASSUME LockInv, [Next]_vars, NEW s \in Session, Dead(s)
  PROVE  Dead(s)'
  <1> USE DEF LockInv
  <1>1. Known(s) /\ live[s] = None /\ \A t \in Thread : ~InFlight(t, s) BY DEF Dead
  <1>2. Known(s)'
    BY <1>1 DEF Next, ThreadStep, Known, TypeOK, vars, StartLogin, Age, CallbackRefused,
       Unauthorized, AccessExpires, SessionExpires, Callback, Logout, Request, Exchange,
       ExchangeFails, FindsGone, FindsFresh, Send, Grant, Refuse, Store, Revoke, Delete,
       AnswerLost, Restart
  <1>3. live'[s] = None
    <2>1. ASSUME NEW t \in Thread, Store(t) PROVE live'[s] = None
      <3>1. sid[t] # s BY <1>1, <2>1 DEF Store, InFlight
      <3> QED BY <1>1, <2>1, <3>1 DEF Store, TypeOK
    <2>2. ASSUME NEW t \in Thread, NEW r \in Session, Exchange(t, r) PROVE live'[s] = None
      BY <1>1, <2>2 DEF Exchange, TypeOK
    <2>3. ASSUME NEW r \in Session, AccessExpires(r) \/ SessionExpires(r)
          PROVE  live'[s] = None
      BY <1>1, <2>3 DEF AccessExpires, SessionExpires, TypeOK
    <2>4. ASSUME NEW t \in Thread, FindsGone(t) \/ Refuse(t) \/ Delete(t)
          PROVE  live'[s] = None
      BY <1>1, <2>4 DEF FindsGone, Refuse, Delete, Discard, TypeOK
    <2>5. CASE (\E r \in Session : Unauthorized(r)) \/ Restart
      BY <1>1, <2>5 DEF Unauthorized, Restart, Discard, TypeOK
    <2>6. CASE UNCHANGED live BY <1>1, <2>6
    <2>7. \/ UNCHANGED live
          \/ \E t \in Thread : \/ Store(t) \/ FindsGone(t) \/ Refuse(t) \/ Delete(t)
                               \/ \E r \in Session : Exchange(t, r)
          \/ \E r \in Session : Unauthorized(r) \/ AccessExpires(r) \/ SessionExpires(r)
          \/ Restart
      BY DEF Next, ThreadStep, vars, memoryVars, StartLogin, Age, CallbackRefused, Callback,
         Logout, Request, ExchangeFails, FindsFresh, Send, Grant, Revoke, AnswerLost
    <2> QED BY <2>1, <2>2, <2>3, <2>4, <2>5, <2>6, <2>7
  <1>4. \A t \in Thread : ~InFlight(t, s)'
    <2>1. ASSUME NEW t \in Thread, Send(t) PROVE \A u \in Thread : ~InFlight(u, s)'
      <3>1. sid[t] # s BY <1>1, <2>1 DEF Send, Present
      <3> QED BY <1>1, <2>1, <3>1, GotoFrame DEF Send, InFlight
    <2>2. ASSUME NEW t \in Thread, Finish(t) PROVE \A u \in Thread : ~InFlight(u, s)'
      BY <1>1, <2>2, FinishFrame DEF InFlight
    <2>3. ASSUME NEW t \in Thread, Grant(t) \/ Revoke(t)
          PROVE  \A u \in Thread : ~InFlight(u, s)'
      BY <1>1, <2>3, GotoFrame DEF Grant, Revoke, InFlight
    <2>4. ASSUME NEW t \in Thread, NEW x, sid' = [sid EXCEPT ![t] = x], pc[t] = "idle",
                 Goto(t, "exchange") \/ Goto(t, "wait") \/ Goto(t, "revoking")
          PROVE  \A u \in Thread : ~InFlight(u, s)'
      BY <1>1, <2>4, GotoFrame DEF InFlight, TypeOK
    <2>5. CASE Restart BY <2>5 DEF Restart, InFlight
    <2>6. CASE UNCHANGED <<pc, sid>> BY <1>1, <2>6 DEF InFlight
    <2>7. \/ UNCHANGED <<pc, sid>> \/ Restart
          \/ \E t \in Thread : Send(t) \/ Finish(t) \/ Grant(t) \/ Revoke(t)
          \/ \E t \in Thread, st \in State : Callback(t, st)
          \/ \E t \in Thread, r \in Session :
               Logout(t, r) \/ \E forced \in BOOLEAN : Request(t, r, forced)
      BY DEF Next, ThreadStep, vars, threadVars, StartLogin, Age, CallbackRefused,
         Unauthorized, AccessExpires, SessionExpires, Exchange, ExchangeFails, FindsGone,
         FindsFresh, Refuse, Store, Delete, AnswerLost, Leave
    <2>8. ASSUME NEW t \in Thread, NEW st \in State, Callback(t, st)
          PROVE  \A u \in Thread : ~InFlight(u, s)'
      BY <2>4, <2>8 DEF Callback
    <2>9. ASSUME NEW t \in Thread, NEW r \in Session, NEW forced \in BOOLEAN,
                 Logout(t, r) \/ Request(t, r, forced)
          PROVE  \A u \in Thread : ~InFlight(u, s)'
      BY <2>4, <2>9 DEF Logout, Request
    <2> QED BY <2>1, <2>2, <2>3, <2>5, <2>6, <2>7, <2>8, <2>9
  <1> QED BY <1>2, <1>3, <1>4 DEF Dead

\* A session that is gone comes back by a refresh already under way only: a
\* logout, an expiry or a refusal is final for whoever waits at its lock.
THEOREM GoneSessionsStayGone == Spec => GoneStaysGone
  <1>1. LockInv /\ [Next]_vars => [\A s \in Session : Dead(s) => Dead(s)']_vars
    BY GoneStep
  <1>2. Spec => [][\A s \in Session : Dead(s) => Dead(s)']_vars
    BY InitLock, LockStepInv, <1>1, PTL DEF Spec
  <1> QED BY <1>2 DEF GoneStaysGone

-----------------------------------------------------------------------------
(* No refresh token is presented twice.                                    *)

\* The refresh tokens that a session, or a refresh of it, has.
Holds(s, k) ==
  \/ live[s] # None /\ live[s].token = k
  \/ \E t \in Thread : Sending(t) /\ sid[t] = s /\
       (seen[t].token = k \/ (pc[t] = "granted" /\ new[t] = k))

\* Only the holder of the lock changes the token of a session that stays.
SeenIsLive ==
  \A t \in Thread : Sending(t) /\ live[sid[t]] # None => live[sid[t]].token = seen[t].token

HeldOnce ==
  /\ \A s \in Session : \A k \in Token : Holds(s, k) => k <= ntokens
  /\ \A s, r \in Session : \A k \in Token : Holds(s, k) /\ Holds(r, k) => s = r

\* As long as no answer is lost, a used token is one whose successor is at hand.
NoneUsed ==
  faults["lost"] = 0 =>
    /\ \A t \in Thread : pc[t] = "sent" => token[seen[t].token] # "used"
    /\ \A t \in Thread : pc[t] = "granted" => token[new[t]] # "used"
    /\ \A s \in Session : live[s] # None /\ (\A t \in Thread : ~InFlight(t, s)) =>
         token[live[s].token] # "used"

TokenInv == SeenIsLive /\ HeldOnce /\ NoneUsed

\* A step that neither issues nor exchanges a token, and lets sessions and
\* refreshes only go on or end.
LEMMA TokenFrame ==
  ASSUME LockInv, TokenInv, UNCHANGED ntokens,
         \A k \in Token : token'[k] = "used" => token[k] = "used",
         \A s \in Session : live'[s] # None =>
           live[s] # None /\ live'[s].token = live[s].token,
         \A t \in Thread : Sending(t)' =>
           /\ pc'[t] = pc[t] /\ sid'[t] = sid[t] /\ seen'[t] = seen[t] /\ new'[t] = new[t],
         faults'["lost"] = 0 =>
           /\ faults["lost"] = 0
           /\ \A t \in Thread, s \in Session :
                InFlight(t, s) => InFlight(t, s)' \/ live'[s] = None
  PROVE  TokenInv'
  <1>1. \A t \in Thread : Sending(t)' =>
          Sending(t) /\ sid[t] \in Session /\ seen[t] \in SessionObject
    BY DEF Sending, LockInv, Places, Refreshing
  <1>2. \A s \in Session : \A k \in Token : Holds(s, k)' => Holds(s, k)
    BY <1>1 DEF Holds
  <1>3. HeldOnce' BY <1>2 DEF HeldOnce, TokenInv
  <1>4. SeenIsLive' BY <1>1 DEF SeenIsLive, TokenInv
  <1>5. ASSUME faults'["lost"] = 0 PROVE NoneUsed'
    <2>1. \A t \in Thread : pc'[t] = "sent" => token'[seen'[t].token] # "used"
      BY <1>1, <1>5 DEF NoneUsed, TokenInv, Sending, SessionObject
    <2>2. \A t \in Thread : pc'[t] = "granted" => token'[new'[t]] # "used"
      BY <1>1, <1>5 DEF NoneUsed, TokenInv, Sending, LockInv, Places
    <2>3. ASSUME NEW s \in Session, live'[s] # None, \A t \in Thread : ~InFlight(t, s)'
          PROVE  token'[live'[s].token] # "used"
      <3>1. \A t \in Thread : ~InFlight(t, s) BY <1>5, <2>3
      <3>2. token[live[s].token] # "used" BY <1>5, <2>3, <3>1 DEF NoneUsed, TokenInv
      <3>3. live[s] \in SessionObject BY <2>3 DEF LockInv, TypeOK
      <3> QED BY <2>3, <3>2, <3>3 DEF SessionObject
    <2> QED BY <2>1, <2>2, <2>3 DEF NoneUsed
  <1> QED BY <1>3, <1>4, <1>5 DEF TokenInv, NoneUsed

\* The end of a request that was not refreshing, or dropped its session.
LEMMA EndToken ==
  ASSUME LockInv, TokenInv, NEW t \in Thread, Finish(t), UNCHANGED <<serverVars, faults>>,
         \A s \in Session : live'[s] \in {live[s], None},
         Sending(t) => live'[sid[t]] = None
  PROVE  TokenInv'
  <1>1. pc'[t] = "idle"
        /\ \A u \in Thread \ {t} :
             pc'[u] = pc[u] /\ sid'[u] = sid[u] /\ seen'[u] = seen[u] /\ new'[u] = new[u]
    BY FinishFrame DEF LockInv
  <1>2. \A u \in Thread, s \in Session : InFlight(u, s) => InFlight(u, s)' \/ live'[s] = None
    BY <1>1 DEF InFlight, Sending
  <1>3. \A u \in Thread : Sending(u)' =>
          /\ pc'[u] = pc[u] /\ sid'[u] = sid[u] /\ seen'[u] = seen[u] /\ new'[u] = new[u]
    BY <1>1 DEF Sending
  <1>4. \A s \in Session : live'[s] # None =>
          live[s] # None /\ live'[s].token = live[s].token
    OBVIOUS
  <1> QED BY <1>2, <1>3, <1>4, TokenFrame DEF serverVars

LEMMA SendToken ==
  ASSUME LockInv, TokenInv, NEW t \in Thread, Send(t)
  PROVE  TokenInv'
  <1>1. /\ sid[t] \in Session /\ live[sid[t]] # None /\ live[sid[t]] \in SessionObject
        /\ pc[t] = "wait" /\ waits[t] \in Token
    BY DEF Send, AtLock, Present, LockInv, TypeOK, Places, Refreshing
  <1>2. /\ pc'[t] = "sent" /\ seen'[t] = live[sid[t]]
        /\ \A u \in Thread \ {t} : pc'[u] = pc[u] /\ seen'[u] = seen[u]
    BY GotoFrame DEF Send, LockInv, TypeOK
  <1>3. UNCHANGED <<live, token, ntokens, sid, new, faults>>
    BY DEF Send, serverVars
  <1>4. \A u \in Thread : ~InFlight(u, sid[t])
    <2> SUFFICES ASSUME NEW u \in Thread, InFlight(u, sid[t]) PROVE FALSE OBVIOUS
    <2>1. waits[u] = waits[t] /\ holder[waits[u]] = u
      BY <1>1 DEF InFlight, LockInv, Locks, Refreshing, Sending
    <2> QED BY <2>1, ConstantsAssumption DEF Send, AtLock
  <1>5. \A s \in Session : \A k \in Token : Holds(s, k)' => Holds(s, k)
    BY <1>1, <1>2, <1>3 DEF Holds, Sending
  <1>6. HeldOnce' BY <1>3, <1>5 DEF HeldOnce, TokenInv
  <1>7. SeenIsLive' BY <1>1, <1>2, <1>3 DEF SeenIsLive, TokenInv, Sending
  <1>8. ASSUME faults["lost"] = 0 PROVE token[live[sid[t]].token] # "used"
    BY <1>1, <1>4, <1>8 DEF NoneUsed, TokenInv
  <1>9. \A u \in Thread, s \in Session : InFlight(u, s) => InFlight(u, s)'
    BY <1>1, <1>2, <1>3 DEF InFlight
  <1>10. NoneUsed'
    <2> SUFFICES ASSUME faults["lost"] = 0 PROVE NoneUsed' BY <1>3 DEF NoneUsed
    <2>1. \A u \in Thread : pc'[u] = "sent" => token'[seen'[u].token] # "used"
      BY <1>2, <1>3, <1>8 DEF NoneUsed, TokenInv
    <2>2. \A u \in Thread : pc'[u] = "granted" => token'[new'[u]] # "used"
      BY <1>2, <1>3 DEF NoneUsed, TokenInv
    <2>3. ASSUME NEW s \in Session, live'[s] # None, \A u \in Thread : ~InFlight(u, s)'
          PROVE  token'[live'[s].token] # "used"
      BY <1>3, <1>9, <2>3 DEF NoneUsed, TokenInv
    <2> QED BY <2>1, <2>2, <2>3 DEF NoneUsed
  <1> QED BY <1>6, <1>7, <1>10 DEF TokenInv

LEMMA GrantToken ==
  ASSUME LockInv, TokenInv, NEW t \in Thread, Grant(t)
  PROVE  TokenInv'
  <1>1. /\ sid[t] \in Session /\ seen[t] \in SessionObject /\ pc[t] = "sent"
        /\ seen[t].token \in Token
    BY DEF Grant, LockInv, Places, Refreshing, Sending, SessionObject
  <1>2. ntokens + 1 \in Token /\ ntokens' = ntokens + 1 /\ ntokens \in Nat
    BY ConstantsAssumption DEF Grant, LockInv, TypeOK, Token
  <1>3. /\ pc'[t] = "granted" /\ new'[t] = ntokens + 1
        /\ \A u \in Thread \ {t} : pc'[u] = pc[u] /\ new'[u] = new[u]
    BY GotoFrame DEF Grant, LockInv, TypeOK
  <1>4. UNCHANGED <<live, sid, seen, faults>> BY DEF Grant, memoryVars
  <1>5. token'[ntokens + 1] = "valid"
        /\ \A k \in Token : k \notin {seen[t].token, ntokens + 1} => token'[k] = token[k]
    BY <1>1, <1>2 DEF Grant, LockInv, TypeOK
  <1>6. \A s \in Session : \A k \in Token :
          Holds(s, k)' => Holds(s, k) \/ (s = sid[t] /\ k = ntokens + 1)
    BY <1>1, <1>3, <1>4 DEF Holds, Sending
  <1>7. \A s \in Session : \A k \in Token : Holds(s, k) => k <= ntokens
    BY DEF HeldOnce, TokenInv
  <1>8. HeldOnce'
    <2>1. \A s \in Session : \A k \in Token : Holds(s, k)' => k <= ntokens'
      BY <1>2, <1>6, <1>7 DEF Token
    <2>2. \A s, r \in Session : \A k \in Token : Holds(s, k)' /\ Holds(r, k)' => s = r
      BY <1>2, <1>6, <1>7 DEF HeldOnce, TokenInv, Token
    <2> QED BY <2>1, <2>2 DEF HeldOnce
  <1>9. SeenIsLive' BY <1>3, <1>4, <1>1 DEF SeenIsLive, TokenInv, Sending
  <1>10. \A s \in Session : \A k \in Token :
           Holds(s, k) /\ s # sid[t] => token'[k] = token[k]
    <2>1. Holds(sid[t], seen[t].token) BY <1>1 DEF Holds, Sending
    <2>2. \A s \in Session : \A k \in Token : Holds(s, k) /\ s # sid[t] => k # seen[t].token
      BY <1>1, <2>1 DEF HeldOnce, TokenInv
    <2>3. ~(ntokens + 1 <= ntokens) BY <1>2
    <2>4. \A s \in Session : \A k \in Token : Holds(s, k) => k # ntokens + 1
      BY <1>7, <2>3
    <2> QED BY <1>5, <2>2, <2>4
  <1>11. \A u \in Thread \ {t} : Sending(u) => sid[u] \in Session /\ sid[u] # sid[t]
    <2> SUFFICES ASSUME NEW u \in Thread \ {t}, Sending(u), sid[u] = sid[t] PROVE FALSE
      BY DEF LockInv, Places, Refreshing, Sending
    <2>1. waits[u] = waits[t] /\ holder[waits[u]] = u /\ holder[waits[t]] = t
      BY <1>1 DEF LockInv, Locks, Refreshing, Sending
    <2> QED BY <2>1
  <1>12. NoneUsed'
    <2> SUFFICES ASSUME faults["lost"] = 0 PROVE NoneUsed' BY <1>4 DEF NoneUsed
    <2>1. ASSUME NEW u \in Thread, pc'[u] = "sent" PROVE token'[seen'[u].token] # "used"
      <3>1. u # t /\ pc[u] = "sent" /\ seen'[u] = seen[u] BY <1>3, <1>4, <2>1
      <3>2. Sending(u) /\ seen[u].token \in Token /\ token[seen[u].token] # "used"
        BY <3>1 DEF Sending, LockInv, Places, SessionObject, NoneUsed, TokenInv
      <3>3. Holds(sid[u], seen[u].token) BY <3>2 DEF Holds
      <3> QED BY <1>10, <1>11, <3>1, <3>2, <3>3
    <2>2. ASSUME NEW u \in Thread, pc'[u] = "granted" PROVE token'[new'[u]] # "used"
      <3>1. CASE u = t BY <1>3, <1>5, <3>1
      <3>2. CASE u # t
        <4>1. pc[u] = "granted" /\ new'[u] = new[u] BY <1>3, <2>2, <3>2
        <4>2. Sending(u) /\ new[u] \in Token /\ token[new[u]] # "used"
          BY <4>1 DEF Sending, LockInv, Places, NoneUsed, TokenInv
        <4>3. Holds(sid[u], new[u]) BY <4>1, <4>2 DEF Holds
        <4> QED BY <1>10, <1>11, <3>2, <4>1, <4>2, <4>3
      <3> QED BY <3>1, <3>2
    <2>3. ASSUME NEW s \in Session, live'[s] # None, \A u \in Thread : ~InFlight(u, s)'
          PROVE  token'[live'[s].token] # "used"
      <3>1. s # sid[t] /\ \A u \in Thread : ~InFlight(u, s)
        BY <1>1, <1>3, <1>4, <2>3 DEF InFlight
      <3>2. live[s] \in SessionObject /\ live[s] # None /\ live' = live
        BY <1>4, <2>3 DEF LockInv, TypeOK
      <3>3. Holds(s, live[s].token) /\ live[s].token \in Token
        BY <3>2 DEF Holds, SessionObject
      <3>4. token[live[s].token] # "used" BY <3>1, <3>2 DEF NoneUsed, TokenInv
      <3> QED BY <1>10, <3>1, <3>2, <3>3, <3>4
    <2> QED BY <2>1, <2>2, <2>3 DEF NoneUsed
  <1> QED BY <1>8, <1>9, <1>12 DEF TokenInv

LEMMA StoreToken ==
  ASSUME LockInv, TokenInv, NEW t \in Thread, Store(t)
  PROVE  TokenInv'
  <1>1. sid[t] \in Session /\ new[t] \in Token /\ pc[t] = "granted"
    BY DEF Store, LockInv, Places, Refreshing, Sending
  <1>2. /\ pc'[t] = "idle"
        /\ \A u \in Thread \ {t} :
             pc'[u] = pc[u] /\ sid'[u] = sid[u] /\ seen'[u] = seen[u] /\ new'[u] = new[u]
    BY FinishFrame DEF Store, Leave, LockInv
  <1>3. UNCHANGED <<token, ntokens, faults>> BY DEF Store, serverVars
  <1>4. live'[sid[t]].token = new[t] /\ \A s \in Session \ {sid[t]} : live'[s] = live[s]
    BY <1>1 DEF Store, LockInv, TypeOK
  <1>5. \A s \in Session : \A k \in Token : Holds(s, k)' => Holds(s, k)
    BY <1>1, <1>2, <1>4 DEF Holds, Sending
  <1>6. HeldOnce' BY <1>3, <1>5 DEF HeldOnce, TokenInv
  <1>7. \A u \in Thread \ {t} : Sending(u) => sid[u] \in Session /\ sid[u] # sid[t]
    <2> SUFFICES ASSUME NEW u \in Thread \ {t}, Sending(u), sid[u] = sid[t] PROVE FALSE
      BY DEF LockInv, Places, Refreshing, Sending
    <2>1. waits[u] = waits[t] /\ holder[waits[u]] = u /\ holder[waits[t]] = t
      BY <1>1 DEF LockInv, Locks, Refreshing, Sending
    <2> QED BY <2>1
  <1>8. SeenIsLive' BY <1>2, <1>4, <1>7 DEF SeenIsLive, TokenInv, Sending
  <1>9. NoneUsed'
    <2> SUFFICES ASSUME faults["lost"] = 0 PROVE NoneUsed' BY <1>3 DEF NoneUsed
    <2>1. \A u \in Thread : pc'[u] = "sent" => token'[seen'[u].token] # "used"
      BY <1>2, <1>3 DEF NoneUsed, TokenInv
    <2>2. \A u \in Thread : pc'[u] = "granted" => token'[new'[u]] # "used"
      BY <1>2, <1>3 DEF NoneUsed, TokenInv
    <2>3. ASSUME NEW s \in Session, live'[s] # None, \A u \in Thread : ~InFlight(u, s)'
          PROVE  token'[live'[s].token] # "used"
      <3>1. CASE s = sid[t] BY <1>1, <1>3, <1>4, <3>1 DEF NoneUsed, TokenInv
      <3>2. CASE s # sid[t]
        <4>1. \A u \in Thread : ~InFlight(u, s) BY <1>2, <2>3, <3>2 DEF InFlight
        <4> QED BY <1>3, <1>4, <2>3, <3>2, <4>1 DEF NoneUsed, TokenInv
      <3> QED BY <3>1, <3>2
    <2> QED BY <2>1, <2>2, <2>3 DEF NoneUsed
  <1> QED BY <1>6, <1>8, <1>9 DEF TokenInv

LEMMA ExchangeToken ==
  ASSUME LockInv, TokenInv, NEW t \in Thread, NEW s \in Session, Exchange(t, s)
  PROVE  TokenInv'
  <1>1. ntokens + 1 \in Token /\ ntokens' = ntokens + 1 /\ ntokens \in Nat
    BY ConstantsAssumption DEF Exchange, LockInv, TypeOK, Token
  <1>2. /\ pc[t] = "exchange" /\ pc'[t] = "idle"
        /\ \A u \in Thread \ {t} :
             pc'[u] = pc[u] /\ sid'[u] = sid[u] /\ seen'[u] = seen[u] /\ new'[u] = new[u]
    BY FinishFrame DEF Exchange, LockInv
  <1>3. live'[s].token = ntokens + 1 /\ \A r \in Session \ {s} : live'[r] = live[r]
    BY DEF Exchange, LockInv, TypeOK
  <1>4. token'[ntokens + 1] = "valid"
        /\ \A k \in Token : k # ntokens + 1 => token'[k] = token[k]
    BY <1>1 DEF Exchange, LockInv, TypeOK
  <1>5. live[s] = None /\ \A u \in Thread : Sending(u) => sid[u] # s
    BY DEF Exchange, LockInv, Places, Refreshing, Sending
  <1>6. \A u \in Thread : Sending(u)' => u # t /\ Sending(u) BY <1>2 DEF Sending
  <1>7. \A r \in Session : \A k \in Token :
          Holds(r, k)' => (r # s /\ Holds(r, k)) \/ (r = s /\ k = ntokens + 1)
    BY <1>2, <1>3, <1>5, <1>6 DEF Holds
  <1>8. \A r \in Session : \A k \in Token : Holds(r, k) => k <= ntokens
    BY DEF HeldOnce, TokenInv
  <1>9. HeldOnce'
    <2>1. \A r \in Session : \A k \in Token : Holds(r, k)' => k <= ntokens'
      BY <1>1, <1>7, <1>8 DEF Token
    <2>2. \A r, q \in Session : \A k \in Token : Holds(r, k)' /\ Holds(q, k)' => r = q
      <3>1. ~(ntokens + 1 <= ntokens) BY <1>1
      <3>2. \A r \in Session : ~Holds(r, ntokens + 1) BY <1>1, <1>8, <3>1
      <3> QED BY <1>7, <3>2 DEF HeldOnce, TokenInv
    <2> QED BY <2>1, <2>2 DEF HeldOnce
  <1>10. SeenIsLive'
    <2>1. \A u \in Thread : Sending(u)' =>
            /\ Sending(u) /\ sid[u] \in Session /\ sid[u] # s
            /\ sid'[u] = sid[u] /\ seen'[u] = seen[u]
      BY <1>2, <1>5, <1>6 DEF LockInv, Places, Refreshing, Sending
    <2> QED BY <1>3, <2>1 DEF SeenIsLive, TokenInv
  <1>11. \A k \in Token : token'[k] = "used" => token[k] = "used" BY <1>1, <1>4
  <1>12. faults' = faults BY DEF Exchange
  <1>13. NoneUsed'
    <2> SUFFICES ASSUME faults["lost"] = 0 PROVE NoneUsed' BY <1>12 DEF NoneUsed
    <2>1. ASSUME NEW u \in Thread, pc'[u] = "sent" PROVE token'[seen'[u].token] # "used"
      <3>1. pc[u] = "sent" /\ seen'[u] = seen[u] /\ Sending(u) BY <1>2, <2>1 DEF Sending
      <3>2. seen[u].token \in Token BY <3>1 DEF LockInv, Places, SessionObject
      <3> QED BY <1>11, <3>1, <3>2 DEF NoneUsed, TokenInv
    <2>2. ASSUME NEW u \in Thread, pc'[u] = "granted" PROVE token'[new'[u]] # "used"
      <3>1. pc[u] = "granted" /\ new'[u] = new[u] BY <1>2, <2>2
      <3>2. new[u] \in Token BY <3>1 DEF LockInv, Places
      <3> QED BY <1>11, <3>1, <3>2 DEF NoneUsed, TokenInv
    <2>3. ASSUME NEW r \in Session, live'[r] # None, \A u \in Thread : ~InFlight(u, r)'
          PROVE  token'[live'[r].token] # "used"
      <3>1. CASE r = s BY <1>3, <1>4, <3>1
      <3>2. CASE r # s
        <4>1. \A u \in Thread : ~InFlight(u, r) BY <1>2, <2>3 DEF InFlight
        <4>2. live[r] \in SessionObject /\ live[r] # None /\ live'[r] = live[r]
          BY <1>3, <2>3, <3>2 DEF LockInv, TypeOK
        <4>3. live[r].token \in Token BY <4>2 DEF SessionObject
        <4> QED BY <1>11, <4>1, <4>2, <4>3 DEF NoneUsed, TokenInv
      <3> QED BY <3>1, <3>2
    <2> QED BY <2>1, <2>2, <2>3 DEF NoneUsed
  <1> QED BY <1>9, <1>10, <1>13 DEF TokenInv

LEMMA TokenStep == LockInv /\ TokenInv /\ [Next]_vars => TokenInv'
  <1> SUFFICES ASSUME LockInv, TokenInv, [Next]_vars PROVE TokenInv' OBVIOUS
  <1>1. ASSUME UNCHANGED <<live, ntokens, faults>>,
               \A k \in Token : token'[k] = "used" => token[k] = "used",
               NEW t \in Thread, pc[t] \in {"idle", "revoking"},
               pc'[t] \in {"exchange", "wait", "revoking", "deleting"},
               \A u \in Thread \ {t} :
                 pc'[u] = pc[u] /\ sid'[u] = sid[u] /\ seen'[u] = seen[u] /\ new'[u] = new[u]
        PROVE  TokenInv'
    <2>1. \A u \in Thread, s \in Session : InFlight(u, s) => InFlight(u, s)'
      BY <1>1 DEF InFlight
    <2>2. \A u \in Thread : Sending(u)' =>
            /\ pc'[u] = pc[u] /\ sid'[u] = sid[u] /\ seen'[u] = seen[u] /\ new'[u] = new[u]
      BY <1>1 DEF Sending
    <2> QED BY <1>1, <2>1, <2>2, TokenFrame
  <1>2. ASSUME NEW t \in Thread, NEW st \in State, Callback(t, st) PROVE TokenInv'
    <2>1. pc'[t] = "exchange" /\ pc[t] = "idle"
          /\ UNCHANGED <<live, ntokens, faults, token, seen, new>>
          /\ \A u \in Thread \ {t} : pc'[u] = pc[u] /\ sid'[u] = sid[u]
      BY <1>2, GotoFrame DEF Callback, LockInv, TypeOK, serverVars
    <2> QED BY <1>1, <2>1
  <1>3. ASSUME NEW t \in Thread, NEW s \in Session, NEW forced \in BOOLEAN,
               Logout(t, s) \/ Request(t, s, forced)
        PROVE  TokenInv'
    <2>1. pc'[t] \in {"wait", "revoking"} /\ pc[t] = "idle"
          /\ UNCHANGED <<live, ntokens, faults, token, new>>
          /\ \A u \in Thread \ {t} : pc'[u] = pc[u] /\ sid'[u] = sid[u] /\ seen'[u] = seen[u]
      BY <1>3, GotoFrame DEF Logout, Request, LockInv, TypeOK, serverVars, memoryVars
    <2> QED BY <1>1, <2>1
  <1>4. ASSUME NEW t \in Thread, Revoke(t) PROVE TokenInv'
    <2>1. pc'[t] = "deleting" /\ pc[t] = "revoking"
          /\ UNCHANGED <<live, ntokens, faults, sid, seen, new>>
          /\ \A u \in Thread \ {t} : pc'[u] = pc[u]
      BY <1>4, GotoFrame DEF Revoke, LockInv, memoryVars
    <2>2. \A k \in Token : token'[k] = "used" => token[k] = "used"
      BY <1>4 DEF Revoke, LockInv, TypeOK
    <2> QED BY <1>1, <2>1, <2>2
  <1>5. ASSUME NEW t \in Thread,
               ExchangeFails(t) \/ FindsGone(t) \/ FindsFresh(t) \/ Delete(t)
        PROVE  TokenInv'
    <2>1. Finish(t) /\ UNCHANGED <<serverVars, faults>> /\ ~Sending(t)
      BY <1>5 DEF ExchangeFails, FindsGone, FindsFresh, Delete, AtLock, Sending
    <2>2. \A s \in Session : live'[s] \in {live[s], None}
      BY <1>5 DEF ExchangeFails, FindsGone, FindsFresh, Delete, Discard, memoryVars,
                  LockInv, TypeOK
    <2> QED BY <2>1, <2>2, EndToken
  <1>6. ASSUME NEW t \in Thread, Refuse(t) PROVE TokenInv'
    <2>1. Finish(t) /\ UNCHANGED <<serverVars, faults>> /\ Sending(t) /\ sid[t] \in Session
      BY <1>6 DEF Refuse, Leave, Sending, LockInv, Places, Refreshing
    <2>2. live[sid[t]] # None => live[sid[t]].token = seen[t].token
      BY <2>1 DEF TokenInv, SeenIsLive
    <2>3. live'[sid[t]] = None /\ \A s \in Session : live'[s] \in {live[s], None}
      BY <1>6, <2>1, <2>2 DEF Refuse, Discard, LockInv, TypeOK
    <2> QED BY <2>1, <2>3, EndToken
  <1>7. ASSUME NEW t \in Thread, AnswerLost(t) PROVE TokenInv'
    <2>1. faults'["lost"] # 0
      BY <1>7, ConstantsAssumption DEF AnswerLost, Fault, LockInv, TypeOK, FaultKind
    <2>2. Finish(t) /\ UNCHANGED <<live, token, ntokens>>
      BY <1>7 DEF AnswerLost, Leave, serverVars
    <2>3. \A u \in Thread : Sending(u)' =>
            /\ pc'[u] = pc[u] /\ sid'[u] = sid[u] /\ seen'[u] = seen[u] /\ new'[u] = new[u]
      BY <2>2, FinishFrame DEF Sending, LockInv
    <2> QED BY <2>1, <2>2, <2>3, TokenFrame
  <1>8. ASSUME UNCHANGED <<token, ntokens, pc, sid, seen, new, faults>>,
               \A s \in Session : live'[s] # None =>
                 live[s] # None /\ live'[s].token = live[s].token
        PROVE  TokenInv'
    <2>1. \A u \in Thread, s \in Session : InFlight(u, s) => InFlight(u, s)'
      BY <1>8 DEF InFlight
    <2> QED BY <1>8, <2>1, TokenFrame
  <1>9. ASSUME NEW s \in Session, Unauthorized(s) \/ AccessExpires(s) \/ SessionExpires(s)
        PROVE  TokenInv'
    <2>1. \A r \in Session : live'[r] # None => live[r] # None /\ live'[r].token = live[r].token
      <3>1. CASE Unauthorized(s) BY <3>1 DEF Unauthorized, Discard, LockInv, TypeOK
      <3>2. CASE AccessExpires(s) \/ SessionExpires(s)
        <4>1. live[s] \in SessionObject /\ live[s] # None
          BY <3>2 DEF AccessExpires, SessionExpires, LockInv, TypeOK
        <4>2. [live[s] EXCEPT !.fresh = FALSE].token = live[s].token
              /\ [live[s] EXCEPT !.elapsed = TRUE].token = live[s].token
          BY <4>1 DEF SessionObject
        <4>3. \/ live' = [live EXCEPT ![s] = [live[s] EXCEPT !.fresh = FALSE]]
              \/ live' = [live EXCEPT ![s] = [live[s] EXCEPT !.elapsed = TRUE]]
          BY <3>2 DEF AccessExpires, SessionExpires
        <4> QED BY <4>1, <4>2, <4>3 DEF LockInv, TypeOK
      <3> QED BY <1>9, <3>1, <3>2
    <2> QED BY <1>8, <1>9, <2>1
        DEF Unauthorized, AccessExpires, SessionExpires, threadVars, serverVars
  <1>10. ASSUME NEW st \in State, StartLogin(st) \/ Age(st) \/ CallbackRefused(st)
         PROVE  TokenInv'
    BY <1>8, <1>10 DEF StartLogin, Age, CallbackRefused, threadVars, serverVars
  <1>11. CASE UNCHANGED vars
    BY <1>8, <1>11 DEF vars, memoryVars, threadVars, serverVars
  <1>12. CASE Restart
    <2>1. \A u \in Thread : ~Sending(u)' BY <1>12 DEF Restart, Sending
    <2>2. \A s \in Session : live'[s] = None BY <1>12 DEF Restart
    <2>3. faults'["lost"] = faults["lost"] /\ UNCHANGED <<token, ntokens>>
      BY <1>12 DEF Restart, Fault, LockInv, TypeOK, FaultKind, serverVars
    <2> QED BY <2>1, <2>2, <2>3, TokenFrame
  <1> QED BY <1>2, <1>3, <1>4, <1>5, <1>6, <1>7, <1>9, <1>10, <1>11, <1>12, SendToken,
             GrantToken, StoreToken, ExchangeToken DEF Next, ThreadStep

\* While no answer is lost, what is sent to the server was never exchanged.
THEOREM TokensAreNotReplayed == Spec => []NoReplay
  <1>1. Init => TokenInv
    <2> SUFFICES ASSUME Init PROVE TokenInv OBVIOUS
    <2>1. (\A t \in Thread : ~Sending(t)) /\ \A s \in Session : live[s] = None
      BY DEF Init, Sending
    <2> QED BY <2>1 DEF TokenInv, SeenIsLive, HeldOnce, NoneUsed, Holds, Sending
  <1>2. TokenInv => NoReplay BY DEF TokenInv, NoneUsed, NoReplay
  <1> QED BY InitLock, LockStepInv, TokenStep, <1>1, <1>2, PTL DEF Spec
-----------------------------------------------------------------------------
(* The cache of signing keys: its types.                                   *)

USE JwksAssumption

LEMMA TypeInit == JwksInit => JwksTypeOK
  BY DEF JwksInit, JwksTypeOK, PC

LEMMA TypeStep == JwksTypeOK /\ [JwksNext]_jwksVars => JwksTypeOK'
  <1> SUFFICES ASSUME JwksTypeOK, [JwksNext]_jwksVars PROVE JwksTypeOK' OBVIOUS
  <1> USE DEF JwksTypeOK, PC, globals, server, locals, history
  <1>1. CASE UNCHANGED jwksVars BY <1>1 DEF jwksVars
  <1>2. ASSUME NEW t \in Verifier, NEW k \in Key, Begin(t, k) PROVE JwksTypeOK'
    BY <1>2 DEF Begin, Step
  <1>3. ASSUME NEW t \in Verifier, End(t) PROVE JwksTypeOK'
    BY <1>3 DEF End
  <1>4. ASSUME NEW t \in Verifier, Check(t) \/ Expiry(t) \/ Fetch(t) \/ FetchFails(t) PROVE JwksTypeOK'
    BY <1>4 DEF Check, Expiry, Fetch, FetchFails, Step
  <1>5. ASSUME NEW t \in Verifier, StoreKeys(t) PROVE JwksTypeOK'
    BY <1>5 DEF StoreKeys, Step, Disturbs
  <1>6. ASSUME NEW t \in Verifier, Stamp(t) PROVE JwksTypeOK'
    <2>1. began[t] \in 0..MaxTime BY <1>6
    <2>2. began[t] + TTL \in 0..(MaxTime + TTL) BY <2>1
    <2> QED BY <1>6, <2>2 DEF Stamp, Step, Disturbs
  <1>7. ASSUME NEW t \in Verifier, Return(t) \/ Find(t) PROVE JwksTypeOK'
    BY <1>7 DEF Return, Find, Step
  <1>8. ASSUME NEW t \in Verifier, Clear(t) \/ Unstamp(t) PROVE JwksTypeOK'
    <2>1. 0 \in 0..(MaxTime + TTL) OBVIOUS
    <2>2. CASE Clear(t) BY <2>2 DEF Clear, Step, Disturbs
    <2>3. CASE Unstamp(t) BY <2>1, <2>3 DEF Unstamp, Step, Disturbs
    <2> QED BY <1>8, <2>2, <2>3
  <1>9. ASSUME NEW keys \in SUBSET Key, Rotate(keys) PROVE JwksTypeOK'
    BY <1>9 DEF Rotate
  <1>10. CASE Tick BY <1>10 DEF Tick
  <1> QED BY <1>1, <1>2, <1>3, <1>4, <1>5, <1>6, <1>7, <1>8, <1>9, <1>10 DEF JwksNext, Verify

\* Every state is well typed.
THEOREM JwksTypeCorrect == JwksSpec => []JwksTypeOK
  BY TypeInit, TypeStep, PTL DEF JwksSpec

-----------------------------------------------------------------------------
(* How old a key set can be.                                               *)

Includes(keys, k) == keys # NoKey /\ k \in keys

\* The history tells when a key was last published.
TrustInv ==
  \A k \in Key : trusted[k] <= time /\ (k \in published => trusted[k] = time)

\* A call is not older than MaxCall, and what it fetched was published since.
CallInv ==
  \A t \in Verifier :
    /\ began[t] <= time
    /\ at[t] \notin Ended \cup {"check"} => time <= began[t] + MaxCall
    /\ at[t] = "store" => \A k \in Key : Includes(got[t], k) => began[t] <= trusted[k]

\* Whichever calls wrote the cache and its expiry, the one outlives the keys of
\* the other by a call at most, and so does a call about to stamp or to return.
CacheInv ==
  /\ expires <= time + TTL
  /\ \A k \in Key : Includes(cache, k) =>
       /\ expires <= trusted[k] + MaxCall + TTL
       /\ \A t \in Verifier :
            /\ at[t] = "stamp" => began[t] <= trusted[k] + MaxCall
            /\ at[t] = "return" => began[t] < trusted[k] + MaxCall + TTL

FindInv ==
  \A t \in Verifier : at[t] = "find" =>
    /\ got[t] # NoKey
    /\ \A k \in Key : Includes(got[t], k) => began[t] < trusted[k] + MaxCall + TTL

AgeInv == JwksTypeOK /\ TrustInv /\ CallInv /\ CacheInv /\ FindInv

LEMMA AgeInit == JwksInit => AgeInv
  BY TypeInit DEF JwksInit, AgeInv, TrustInv, CallInv, CacheInv, FindInv, Ended, Includes, JwksTypeOK

\* Steps of a thread that write no global.
LEMMA AgeLocalStep ==
  ASSUME AgeInv, JwksTypeOK', NEW t \in Verifier,
         \/ \E k \in Key : Begin(t, k)
         \/ End(t) \/ Check(t) \/ Expiry(t) \/ Fetch(t) \/ FetchFails(t) \/ Return(t) \/ Find(t)
  PROVE  AgeInv'
  <1> USE DEF AgeInv, JwksTypeOK, globals, server, locals, history
  <1>1. TrustInv'
    BY DEF TrustInv, Begin, End, Check, Expiry, Fetch, FetchFails, Return, Find
  <1>2. CallInv'
    BY DEF CallInv, TrustInv, Includes, Ended, Step, Begin, End, Check, Expiry, Fetch, FetchFails,
           Return, Find
  <1>3. CacheInv'
    BY DEF CacheInv, CallInv, Step, Ended, Begin, End, Check, Expiry, Fetch, FetchFails, Return, Find
  <1>4. FindInv'
    BY DEF FindInv, CacheInv, Includes, Step, Ended, Begin, End, Check, Expiry, Fetch, FetchFails,
           Return, Find
  <1> QED BY <1>1, <1>2, <1>3, <1>4

\* Steps that write a global: the keys that are stored are no older than a call,
\* the expiry that is written is that of a call.
LEMMA AgeGlobalStep ==
  ASSUME AgeInv, JwksTypeOK', NEW t \in Verifier, StoreKeys(t) \/ Stamp(t) \/ Clear(t) \/ Unstamp(t)
  PROVE  AgeInv'
  <1> USE DEF AgeInv, JwksTypeOK, globals, server, locals, history
  <1>1. TrustInv' BY DEF TrustInv, StoreKeys, Stamp, Clear, Unstamp
  <1>2. CallInv' BY DEF CallInv, Includes, Step, Ended, StoreKeys, Stamp, Clear, Unstamp
  <1>3. CacheInv'
    <2>1. CASE StoreKeys(t)
      <3>1. ASSUME NEW k \in Key, Includes(cache', k)
            PROVE  time <= trusted[k] + MaxCall
        BY <2>1, <3>1 DEF StoreKeys, Step, Ended, CallInv
      <3>2. \A s \in Verifier : began[s] <= time BY DEF CallInv
      <3> QED BY <2>1, <3>1, <3>2 DEF StoreKeys, Step, CacheInv
    <2>2. CASE Stamp(t) BY <2>2 DEF Stamp, Step, CacheInv, CallInv, Includes
    <2>3. CASE Clear(t) BY <2>3 DEF Clear, Step, CacheInv, Includes
    <2>4. CASE Unstamp(t) BY <2>4 DEF Unstamp, Step, CacheInv, Includes
    <2> QED BY <2>1, <2>2, <2>3, <2>4
  <1>4. FindInv' BY DEF FindInv, Includes, Step, StoreKeys, Stamp, Clear, Unstamp
  <1> QED BY <1>1, <1>2, <1>3, <1>4

LEMMA AgeStep == AgeInv /\ [JwksNext]_jwksVars => AgeInv'
  <1> SUFFICES ASSUME AgeInv, [JwksNext]_jwksVars PROVE AgeInv' OBVIOUS
  <1>1. JwksTypeOK' BY TypeStep DEF AgeInv
  <1>2. CASE UNCHANGED jwksVars
    BY <1>1, <1>2 DEF AgeInv, TrustInv, CallInv, CacheInv, FindInv, Includes, jwksVars, globals, server,
                      locals, history
  <1>3. CASE \E keys \in SUBSET Key : Rotate(keys)
    <2>1. \A k \in Key : trusted'[k] \in {time, trusted[k]} /\ trusted[k] <= trusted'[k]
      BY <1>3 DEF Rotate, AgeInv, TrustInv, JwksTypeOK
    <2>2. UNCHANGED <<time, globals, at, locals>> BY <1>3 DEF Rotate
    <2>3. TrustInv' BY <1>3 DEF Rotate, AgeInv, TrustInv, JwksTypeOK
    <2>4. CallInv' /\ CacheInv' /\ FindInv'
      BY <1>1, <2>1, <2>2 DEF AgeInv, JwksTypeOK, CallInv, CacheInv, FindInv, Includes, globals, locals
    <2> QED BY <1>1, <2>3, <2>4 DEF AgeInv
  <1>4. CASE Tick
    <2>1. \A k \in Key : trusted[k] <= trusted'[k]
      BY <1>4 DEF Tick, AgeInv, TrustInv, JwksTypeOK
    <2>2. UNCHANGED <<published, globals, at, locals>> /\ time' = time + 1 BY <1>4 DEF Tick
    <2>3. \A t \in Verifier : at[t] \in Ended \cup {"check"} \/ time < began[t] + MaxCall
      BY <1>4 DEF Tick
    <2>4. TrustInv' BY <1>4 DEF Tick, AgeInv, TrustInv, JwksTypeOK
    <2>5. CallInv' /\ CacheInv' /\ FindInv'
      BY <1>1, <2>1, <2>2, <2>3
         DEF AgeInv, JwksTypeOK, CallInv, CacheInv, FindInv, Includes, globals, locals, Ended
    <2> QED BY <1>1, <2>4, <2>5 DEF AgeInv
  <1> QED BY <1>1, <1>2, <1>3, <1>4, AgeLocalStep, AgeGlobalStep DEF JwksNext, Verify

\* An accepted key was published within the life of a cache and two calls.
THEOREM TrustBounded == JwksSpec => TrustIsBounded
  <1>1. ASSUME AgeInv, [JwksNext]_jwksVars, NEW t \in Verifier, at[t] = "find", at'[t] = "accepted"
        PROVE  time < trusted[kid[t]] + TTL + 2 * MaxCall
    <2>1. kid[t] \in got[t]
      BY <1>1 DEF AgeInv, JwksTypeOK, PC, Ended, JwksNext, Verify, Begin, End, Check, Expiry, Fetch,
                  FetchFails, StoreKeys, Stamp, Return, Find, Clear, Unstamp, Rotate, Tick, Step,
                  locals, jwksVars
    <2>2. got[t] \in SUBSET Key BY <1>1 DEF AgeInv, JwksTypeOK, FindInv
    <2>3. kid[t] \in Key /\ Includes(got[t], kid[t])
      BY <1>1, <2>1, <2>2 DEF AgeInv, FindInv, Includes
    <2>4. /\ began[t] < trusted[kid[t]] + MaxCall + TTL /\ time <= began[t] + MaxCall
      BY <1>1, <2>3 DEF AgeInv, FindInv, CallInv, Ended
    <2> QED BY <1>1, <2>3, <2>4 DEF AgeInv, JwksTypeOK
  <1>2. AgeInv /\ [JwksNext]_jwksVars =>
          \A t \in Verifier : at[t] = "find" /\ at'[t] = "accepted" =>
            time < trusted[kid[t]] + TTL + 2 * MaxCall
    BY <1>1
  <1> QED BY <1>2, AgeInit, AgeStep, PTL DEF JwksSpec, TrustIsBounded

-----------------------------------------------------------------------------
(* A verification that no other disturbs.                                  *)

\* Its key is published as long as the history says so.
SteadyInv ==
  \A t \in Verifier : steady[t] /\ at[t] \notin Ended => kid[t] \in published

\* It meets what it wrote itself: no cache once it has cleared it, and a cache
\* where it has seen one or stored one.
OwnWritesInv ==
  \A t \in Verifier : ~disturbed[t] =>
    /\ at[t] = "idle" => ~retried[t]
    /\ at[t] = "unstamp" => cache = NoKey
    /\ at[t] = "check" /\ retried[t] => cache = NoKey
    /\ at[t] \in {"expiry", "stamp", "return"} => cache # NoKey
    /\ at[t] = "expiry" => ~retried[t]

\* On the second search the key set is that of a fetch made since it began.
SecondInv ==
  \A t \in Verifier : steady[t] =>
    /\ at[t] = "store" => kid[t] \in got[t]
    /\ ~disturbed[t] /\ retried[t] =>
         /\ at[t] \in {"stamp", "return"} => kid[t] \in cache
         /\ at[t] = "find" => kid[t] \in got[t]

StoredInv == \A t \in Verifier : at[t] = "store" => got[t] \in SUBSET Key

AloneInv == JwksTypeOK /\ SteadyInv /\ OwnWritesInv /\ SecondInv /\ StoredInv

LEMMA AloneInit == JwksInit => AloneInv
  BY TypeInit DEF JwksInit, AloneInv, SteadyInv, OwnWritesInv, SecondInv, StoredInv, Ended

\* Steps of a thread that write no global.
LEMMA AloneLocalStep ==
  ASSUME AloneInv, JwksTypeOK', NEW t \in Verifier,
         \/ \E k \in Key : Begin(t, k)
         \/ End(t) \/ Check(t) \/ Expiry(t) \/ Fetch(t) \/ FetchFails(t) \/ Return(t) \/ Find(t)
  PROVE  AloneInv'
  <1> USE DEF AloneInv, JwksTypeOK, Ended, Step, globals, server, locals, history
  <1>1. SteadyInv'
    BY DEF SteadyInv, Begin, End, Check, Expiry, Fetch, FetchFails, Return, Find
  <1>2. OwnWritesInv'
    BY DEF OwnWritesInv, Begin, End, Check, Expiry, Fetch, FetchFails, Return, Find
  <1>3. SecondInv'
    BY DEF SecondInv, OwnWritesInv, SteadyInv, Begin, End, Check, Expiry, Fetch, FetchFails,
           Return, Find
  <1>4. StoredInv'
    BY DEF StoredInv, Begin, End, Check, Expiry, Fetch, FetchFails, Return, Find
  <1> QED BY <1>1, <1>2, <1>3, <1>4

\* Steps that write a global: they disturb the others.
LEMMA AloneGlobalStep ==
  ASSUME AloneInv, JwksTypeOK', NEW t \in Verifier, StoreKeys(t) \/ Stamp(t) \/ Clear(t) \/ Unstamp(t)
  PROVE  AloneInv'
  <1> USE DEF AloneInv, JwksTypeOK, Ended, Step, globals, server, locals, history
  <1>1. \A s \in Verifier \ {t} : /\ at'[s] = at[s] /\ retried'[s] = retried[s]
                                /\ kid'[s] = kid[s] /\ got'[s] = got[s]
                                /\ ~disturbed'[s] => ~disturbed[s] /\ at[s] \in Ended
    BY DEF StoreKeys, Stamp, Clear, Unstamp, Disturbs
  <1>2. steady' = steady /\ kid' = kid /\ published' = published
        /\ (~disturbed'[t] => ~disturbed[t])
    BY DEF StoreKeys, Stamp, Clear, Unstamp, Disturbs
  <1>3. SteadyInv' BY <1>1, <1>2 DEF SteadyInv, StoreKeys, Stamp, Clear, Unstamp
  <1>4. OwnWritesInv'
    BY <1>1, <1>2 DEF OwnWritesInv, StoredInv, StoreKeys, Stamp, Clear, Unstamp
  <1>5. SecondInv'
    BY <1>1, <1>2 DEF SecondInv, StoreKeys, Stamp, Clear, Unstamp
  <1>6. StoredInv' BY <1>1 DEF StoredInv, StoreKeys, Stamp, Clear, Unstamp
  <1> QED BY <1>3, <1>4, <1>5, <1>6

LEMMA AloneStep == AloneInv /\ [JwksNext]_jwksVars => AloneInv'
  <1> SUFFICES ASSUME AloneInv, [JwksNext]_jwksVars PROVE AloneInv' OBVIOUS
  <1>1. JwksTypeOK' BY TypeStep DEF AloneInv
  <1> USE DEF AloneInv, SteadyInv, OwnWritesInv, SecondInv, StoredInv
  <1>2. CASE UNCHANGED jwksVars
    BY <1>1, <1>2 DEF jwksVars, globals, server, locals, history
  <1>3. ASSUME NEW keys \in SUBSET Key, Rotate(keys) PROVE AloneInv'
    BY <1>1, <1>3 DEF Rotate, JwksTypeOK, globals, locals
  <1>4. CASE Tick BY <1>1, <1>4 DEF Tick, globals, locals, history
  <1> QED BY <1>1, <1>2, <1>3, <1>4, AloneLocalStep, AloneGlobalStep DEF JwksNext, Verify

\* Left alone, it fails only with the auth API, and refuses no key that was
\* published all the while.
THEOREM AloneRight == JwksSpec => AloneIsRight
  <1>1. ASSUME AloneInv, [JwksNext]_jwksVars, NEW t \in Verifier, ~disturbed[t], at'[t] # at[t]
        PROVE  /\ at'[t] = "failed" => at[t] = "fetch"
               /\ at'[t] = "refused" => ~steady[t]
    <2> USE DEF AloneInv, JwksTypeOK, PC
    <2>1. at'[t] = "failed" => at[t] = "fetch" \/ (at[t] = "return" /\ cache = NoKey)
      BY <1>1 DEF JwksNext, Verify, Begin, End, Check, Expiry, Fetch, FetchFails, StoreKeys, Stamp,
                  Return, Find, Clear, Unstamp, Rotate, Tick, Step, jwksVars, locals
    <2>2. at'[t] = "refused" => at[t] = "find" /\ kid[t] \notin got[t] /\ retried[t]
      BY <1>1 DEF JwksNext, Verify, Begin, End, Check, Expiry, Fetch, FetchFails, StoreKeys, Stamp,
                  Return, Find, Clear, Unstamp, Rotate, Tick, Step, jwksVars, locals
    <2> QED BY <1>1, <2>1, <2>2 DEF OwnWritesInv, SecondInv
  <1>2. AloneInv /\ [JwksNext]_jwksVars =>
          \A t \in Verifier : ~disturbed[t] /\ at'[t] # at[t] =>
            /\ at'[t] = "failed" => at[t] = "fetch"
            /\ at'[t] = "refused" => ~steady[t]
    BY <1>1
  <1> QED BY <1>2, AloneInit, AloneStep, PTL DEF JwksSpec, AloneIsRight
=============================================================================
