----------------------------- MODULE JwksCache ------------------------------
(***************************************************************************)
(* The cache of the signing keys of the auth API (token_verifier.py).      *)
(* Tokens are verified on the event loop (auth_utils.py) and in threads    *)
(* (services/session_auth.py), and all of them read and write the globals  *)
(* _jwks_cache and _jwks_cache_expires_at without a lock: one action is    *)
(* one read or write of a global, or the answer to a fetch.                *)
(*                                                                         *)
(* Keys are named by their kid; what is signed with a key is the matter of *)
(* the library that verifies it.                                           *)
(***************************************************************************)
EXTENDS Integers

CONSTANTS
  Verifier,  (* verifications under way at the same time                   *)
  Key,       (* key ids                                                    *)
  TTL,       (* AUTH_JWKS_CACHE_SECONDS                                    *)
  MaxCall,   (* the longest one call of _find_jwk takes                    *)
  MaxTime,   (* bound: the clock                                           *)
  NoKey      (* no cache, no key id                                       *)

ASSUME JwksAssumption ==
  /\ TTL \in Nat \ {0} /\ MaxCall \in Nat /\ MaxTime \in Nat
  /\ NoKey \notin Key /\ \A keys \in SUBSET Key : keys # NoKey

VARIABLES
  time,       (* the clock                                                 *)
  published,  (* keys the auth API publishes                               *)
  trusted,    (* history: when each key was last published, or -1          *)
  cache,      (* _jwks_cache                                               *)
  expires,    (* _jwks_cache_expires_at                                    *)
  at,         (* where each verification is                                *)
  kid,        (* the key it looks for                                      *)
  began,      (* `now' of its call of _get_jwks                            *)
  got,        (* the key set it fetched, then the one _get_jwks returned   *)
  retried,    (* whether it has cleared the cache once                     *)
  disturbed,  (* history: another one wrote the globals since it began     *)
  steady      (* history: its key was published since it began             *)

globals == <<cache, expires>>
server  == <<time, published, trusted>>
locals  == <<kid, began, got, retried>>
history == <<disturbed, steady>>
jwksVars == <<server, globals, at, locals, history>>

PC == {"idle", "check", "expiry", "fetch", "store", "stamp", "return", "find",
       "clear", "unstamp", "accepted", "refused", "failed"}
Ended == {"idle", "accepted", "refused", "failed"}

JwksTypeOK ==
  /\ time \in 0..MaxTime /\ published \subseteq Key
  /\ trusted \in [Key -> -1..MaxTime]
  /\ cache \in {NoKey} \cup SUBSET Key /\ expires \in 0..(MaxTime + TTL)
  /\ at \in [Verifier -> PC]
  /\ kid \in [Verifier -> {NoKey} \cup Key] /\ began \in [Verifier -> 0..MaxTime]
  /\ got \in [Verifier -> {NoKey} \cup SUBSET Key]
  /\ retried \in [Verifier -> BOOLEAN]
  /\ disturbed \in [Verifier -> BOOLEAN] /\ steady \in [Verifier -> BOOLEAN]

JwksInit ==
  /\ time = 0 /\ published \in SUBSET Key
  /\ trusted = [k \in Key |-> IF k \in published THEN 0 ELSE -1]
  /\ cache = NoKey /\ expires = 0
  /\ at = [t \in Verifier |-> "idle"]
  /\ kid \in [Verifier -> {NoKey} \cup Key] /\ began = [t \in Verifier |-> 0]
  /\ got = [t \in Verifier |-> NoKey] /\ retried = [t \in Verifier |-> FALSE]
  /\ disturbed = [t \in Verifier |-> FALSE] /\ steady = [t \in Verifier |-> FALSE]

-----------------------------------------------------------------------------
Step(t, from, to) == at[t] = from /\ at' = [at EXCEPT ![t] = to]

\* A write of t disturbs the verifications of the others.
Disturbs(t) ==
  /\ disturbed' = [s \in Verifier |-> disturbed[s] \/ (s # t /\ at[s] \notin Ended)]
  /\ UNCHANGED steady

\* decode_auth_api_token reads the kid of the header.
Begin(t, k) ==
  /\ Step(t, "idle", "check")
  /\ kid' = [kid EXCEPT ![t] = k]
  /\ steady' = [steady EXCEPT ![t] = k \in published]
  /\ UNCHANGED <<server, globals, began, got, retried, disturbed>>

\* The user, or the error, is the caller's.
End(t) ==
  /\ at[t] \in Ended \ {"idle"}
  /\ at' = [at EXCEPT ![t] = "idle"]
  /\ kid' = [kid EXCEPT ![t] = NoKey] /\ began' = [began EXCEPT ![t] = 0]
  /\ got' = [got EXCEPT ![t] = NoKey] /\ retried' = [retried EXCEPT ![t] = FALSE]
  /\ disturbed' = [disturbed EXCEPT ![t] = FALSE] /\ steady' = [steady EXCEPT ![t] = FALSE]
  /\ UNCHANGED <<server, globals>>

\* _get_jwks: `now', and whether there is a cache.
Check(t) ==
  /\ Step(t, "check", IF cache = NoKey THEN "fetch" ELSE "expiry")
  /\ began' = [began EXCEPT ![t] = time]
  /\ UNCHANGED <<server, globals, kid, got, retried, history>>

\* Mutant: a cache is used however old it is.
NeverExpires(t) ==
  /\ Step(t, "expiry", "return")
  /\ UNCHANGED <<server, globals, locals, history>>
\* ... whether it has not expired.
Expiry(t) ==
  /\ Step(t, "expiry", IF expires > began[t] THEN "return" ELSE "fetch")
  /\ UNCHANGED <<server, globals, locals, history>>

\* The auth API answers with the keys it publishes, or does not answer.
Fetch(t) ==
  /\ Step(t, "fetch", "store")
  /\ got' = [got EXCEPT ![t] = published]
  /\ UNCHANGED <<server, globals, kid, began, retried, history>>

FetchFails(t) ==
  /\ Step(t, "fetch", "failed")
  /\ UNCHANGED <<server, globals, locals, history>>

StoreKeys(t) ==
  /\ Step(t, "store", "stamp")
  /\ cache' = got[t]
  /\ Disturbs(t)
  /\ UNCHANGED <<server, expires, locals>>

Stamp(t) ==
  /\ Step(t, "stamp", "return")
  /\ expires' = began[t] + TTL
  /\ Disturbs(t)
  /\ UNCHANGED <<server, cache, locals>>

\* The global is read again to be returned; NoKey.get() raises in _find_jwk.
Return(t) ==
  /\ Step(t, "return", IF cache = NoKey THEN "failed" ELSE "find")
  /\ got' = [got EXCEPT ![t] = cache]
  /\ UNCHANGED <<server, globals, kid, began, retried, history>>

\* Mutant: the second search is made in the same cache.
SearchAgain(t) ==
  /\ Step(t, "find", IF kid[t] \in got[t] THEN "accepted"
                     ELSE IF retried[t] THEN "refused" ELSE "check")
  /\ retried' = [retried EXCEPT ![t] = TRUE]
  /\ UNCHANGED <<server, globals, kid, began, got, history>>
\* _find_jwk, and what decode_auth_api_token makes of its answer.
Find(t) ==
  /\ Step(t, "find", IF kid[t] \in got[t] THEN "accepted"
                     ELSE IF retried[t] THEN "refused" ELSE "clear")
  /\ UNCHANGED <<server, globals, locals, history>>

\* clear_jwks_cache
Clear(t) ==
  /\ Step(t, "clear", "unstamp")
  /\ cache' = NoKey
  /\ Disturbs(t)
  /\ UNCHANGED <<server, expires, locals>>

Unstamp(t) ==
  /\ Step(t, "unstamp", "check")
  /\ expires' = 0
  /\ got' = [got EXCEPT ![t] = NoKey]
  /\ retried' = [retried EXCEPT ![t] = TRUE]
  /\ Disturbs(t)
  /\ UNCHANGED <<server, cache, kid, began>>

-----------------------------------------------------------------------------
(* The auth API rotates its keys, and time passes.                         *)

Rotate(keys) ==
  /\ published' = keys
  /\ trusted' = [k \in Key |-> IF k \in keys THEN time ELSE trusted[k]]
  /\ steady' = [t \in Verifier |-> steady[t] /\ kid[t] \in keys]
  /\ UNCHANGED <<time, globals, at, locals, disturbed>>

\* A call of _find_jwk takes MaxCall at most: urlopen times out, and the rest
\* is a few instructions.
Tick ==
  /\ time < MaxTime
  /\ \A t \in Verifier : at[t] \in Ended \cup {"check"} \/ time < began[t] + MaxCall
  /\ time' = time + 1
  /\ trusted' = [k \in Key |-> IF k \in published THEN time' ELSE trusted[k]]
  /\ UNCHANGED <<published, globals, at, locals, history>>

Verify(t) ==
  \/ \E k \in Key : Begin(t, k)
  \/ End(t) \/ Check(t) \/ Expiry(t) \/ Fetch(t) \/ FetchFails(t) \/ StoreKeys(t) \/ Stamp(t)
  \/ Return(t) \/ Find(t) \/ Clear(t) \/ Unstamp(t)

JwksNext == (\E t \in Verifier : Verify(t)) \/ (\E keys \in SUBSET Key : Rotate(keys)) \/ Tick

JwksSpec == JwksInit /\ [][JwksNext]_jwksVars

-----------------------------------------------------------------------------
(* Properties.                                                             *)

\* A key that is accepted was published not longer ago than a cache lives, give
\* or take a call to fill it and a call to read it, whichever threads stored an
\* older key set or an older expiry over those of another.
TrustIsBounded ==
  [][\A t \in Verifier : at[t] = "find" /\ at'[t] = "accepted" =>
       time < trusted[kid[t]] + TTL + 2 * MaxCall]_jwksVars

\* Left alone by the other threads, a verification accepts a key that was
\* published all the while, even one newer than the cache, and never meets an
\* empty cache where it expects a key set.
AloneIsRight ==
  [][\A t \in Verifier : ~disturbed[t] /\ at'[t] # at[t] =>
       /\ at'[t] = "failed" => at[t] = "fetch"
       /\ at'[t] = "refused" => ~steady[t]]_jwksVars
=============================================================================
