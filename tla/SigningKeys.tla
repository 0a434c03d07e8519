----------------------------- MODULE SigningKeys -----------------------------
(***************************************************************************)
(* The signing keys that AuthService fetches from an identity provider to  *)
(* verify access tokens.  One fetch is under way at a time, and all that   *)
(* need one share it; its answer is cached; a key id that the cache does   *)
(* not know forces a fetch, but not more often than a cooldown allows.     *)
(*                                                                         *)
(* The provider rotates its key at any time.  Between two awaits a request *)
(* is not interrupted, and a fetch that ends resumes all that wait for it. *)
(***************************************************************************)
EXTENDS Naturals

CONSTANTS
  Bearers,     \* requests that bring a token
  CacheTime,   \* MCP_JWKS_CACHE_MS
  FetchTime,   \* MCP_JWKS_FETCH_TIMEOUT_MS
  Cooldown,    \* MCP_JWKS_UNKNOWN_KID_REFRESH_COOLDOWN_MS
  MaxClock,    \* bound on the time
  MaxKey       \* bound on rotations: keys are numbered as they are published

ASSUME KeyTimes ==
  /\ FetchTime \in Nat /\ MaxClock \in Nat /\ MaxKey \in Nat \ {0}
  /\ CacheTime \in Nat \ {0} /\ Cooldown \in 1..MaxClock

VARIABLES
  keyClock,      \* the time
  published,     \* the key the provider publishes
  retiredAt,     \* when it ceased to publish a key, 0 as long as it does
  keyCache,      \* remoteJwksCache: a key, 0 if none, and fetchedAt
  keyFetch,      \* remoteJwksFetch: when it began, 0 if none, and its answer
  refreshedAt,   \* remoteUnknownKidRefreshedAt
  reqPc,         \* new, waiting for a fetch, accepted, rejected
  reqKey,        \* the key that signed the token of a request
  decidedAt      \* when it was accepted or rejected

keyVars == <<keyClock, published, retiredAt, keyCache, keyFetch, refreshedAt,
             reqPc, reqKey, decidedAt>>

Keys == 1..MaxKey
NoFetch == [began |-> 0, answer |-> 0]

KeyTypeOK ==
  /\ keyClock \in Cooldown..MaxClock /\ published \in Keys
  /\ retiredAt \in [Keys -> 0..MaxClock]
  /\ keyCache \in [key : 0..MaxKey, fetchedAt : 0..MaxClock]
  /\ keyFetch \in [began : 0..MaxClock, answer : 0..MaxKey]
  /\ refreshedAt \in 0..MaxClock
  /\ reqPc \in [Bearers -> {"new", "waiting", "accepted", "rejected"}]
  /\ reqKey \in [Bearers -> 0..MaxKey]
  /\ decidedAt \in [Bearers -> 0..MaxClock]

(* No unknown key has been met: the cooldown is over. *)
KeyInit ==
  /\ keyClock = Cooldown /\ published = 1
  /\ retiredAt = [k \in Keys |-> 0]
  /\ keyCache = [key |-> 0, fetchedAt |-> 0]
  /\ keyFetch = NoFetch /\ refreshedAt = 0
  /\ reqPc = [r \in Bearers |-> "new"]
  /\ reqKey = [r \in Bearers |-> 0]
  /\ decidedAt = [r \in Bearers |-> 0]

CachedYetAtItsEnd ==   \* mutant
  keyCache.key # 0 /\ keyClock - keyCache.fetchedAt <= CacheTime

Cached == keyCache.key # 0 /\ keyClock - keyCache.fetchedAt < CacheTime

CanRefresh == keyClock - refreshedAt >= Cooldown

(* resolveUniqueMcpSigningKey and the signature decide. *)
Verdict(key, trusted) == IF key = trusted THEN "accepted" ELSE "rejected"

Conclude(r, key) ==
  /\ reqPc' = [reqPc EXCEPT ![r] = Verdict(key, keyCache.key)]
  /\ decidedAt' = [decidedAt EXCEPT ![r] = keyClock]
  /\ UNCHANGED <<keyFetch, refreshedAt>>

(* loadRemoteMcpJwks: the fetch under way is shared. *)
AwaitFetch(r) ==
  /\ keyFetch' = IF keyFetch = NoFetch THEN [began |-> keyClock, answer |-> 0] ELSE keyFetch
  /\ reqPc' = [reqPc EXCEPT ![r] = "waiting"]
  /\ UNCHANGED decidedAt

(* Bearers differ only in what they bring: they come in a fixed order. *)
Arrives(r) ==
  reqPc[r] = "new" /\ r = CHOOSE first \in Bearers : reqPc[first] = "new"

(* The cache knows the key, or may not be refreshed for it. *)
Authenticate(r, key) ==
  /\ Arrives(r) /\ Cached /\ (key = keyCache.key \/ ~CanRefresh)
  /\ reqKey' = [reqKey EXCEPT ![r] = key]
  /\ Conclude(r, key)
  /\ UNCHANGED <<keyClock, published, retiredAt, keyCache>>

AwaitUnknown(r, key) ==
  /\ Arrives(r) /\ Cached /\ key # keyCache.key /\ CanRefresh
  /\ reqKey' = [reqKey EXCEPT ![r] = key]
  /\ refreshedAt' = keyClock
  /\ AwaitFetch(r)
  /\ UNCHANGED <<keyClock, published, retiredAt, keyCache>>

AwaitKeys(r, key) ==
  /\ Arrives(r) /\ ~Cached
  /\ reqKey' = [reqKey EXCEPT ![r] = key]
  /\ AwaitFetch(r)
  /\ UNCHANGED <<keyClock, published, retiredAt, keyCache, refreshedAt>>

(* The provider answers with the key it publishes at that moment. *)
AnswerFetch ==
  /\ keyFetch # NoFetch /\ keyFetch.answer = 0
  /\ keyFetch' = [keyFetch EXCEPT !.answer = published]
  /\ UNCHANGED <<keyClock, published, retiredAt, keyCache, refreshedAt, reqPc,
                 reqKey, decidedAt>>

Awaiting == {r \in Bearers : reqPc[r] = "waiting"}

(* The answer arrives: it is cached, and no request that has waited for it
   asks for another. *)
FetchArrives ==
  /\ keyFetch.answer # 0
  /\ keyCache' = [key |-> keyFetch.answer, fetchedAt |-> keyClock]
  /\ reqPc' = [r \in Bearers |->
                 IF r \in Awaiting THEN Verdict(reqKey[r], keyFetch.answer) ELSE reqPc[r]]
  /\ decidedAt' = [r \in Bearers |-> IF r \in Awaiting THEN keyClock ELSE decidedAt[r]]
  /\ keyFetch' = NoFetch
  /\ UNCHANGED <<keyClock, published, retiredAt, refreshedAt, reqKey>>

(* It fails, is malformed, or is aborted by its timeout: what is cached stays,
   with the age it has. *)
FetchFails ==
  /\ keyFetch # NoFetch
  /\ reqPc' = [r \in Bearers |-> IF r \in Awaiting THEN "rejected" ELSE reqPc[r]]
  /\ decidedAt' = [r \in Bearers |-> IF r \in Awaiting THEN keyClock ELSE decidedAt[r]]
  /\ keyFetch' = NoFetch
  /\ UNCHANGED <<keyClock, published, retiredAt, keyCache, refreshedAt, reqKey>>

(* The provider: external. *)
Rotate ==
  /\ published < MaxKey
  /\ published' = published + 1
  /\ retiredAt' = [retiredAt EXCEPT ![published] = keyClock]
  /\ UNCHANGED <<keyClock, keyCache, keyFetch, refreshedAt, reqPc, reqKey, decidedAt>>

(* No fetch outlives its timeout. *)
PassTime ==
  /\ keyClock < MaxClock
  /\ keyFetch # NoFetch => keyClock < keyFetch.began + FetchTime
  /\ keyClock' = keyClock + 1
  /\ UNCHANGED <<published, retiredAt, keyCache, keyFetch, refreshedAt, reqPc,
                 reqKey, decidedAt>>

(* A token is signed by a key the provider has published so far. *)
KeysNext ==
  \/ \E r \in Bearers, key \in 1..published :
       Authenticate(r, key) \/ AwaitUnknown(r, key) \/ AwaitKeys(r, key)
  \/ AnswerFetch \/ FetchArrives \/ FetchFails \/ Rotate \/ PassTime

KeysSpec == KeyInit /\ [][KeysNext]_keyVars

---------------------------------------------------------------------------
(* A key the provider has withdrawn is trusted for less than the life of the
   cache and the longest fetch together, however fetches, refreshes forced by
   unknown keys, failures and rotations interleave: sharing an older fetch or
   failing to refresh never makes what is cached younger than it is. *)
WithdrawnKeysLapse ==
  \A r \in Bearers :
    reqPc[r] = "accepted" /\ retiredAt[reqKey[r]] # 0 =>
      decidedAt[r] < retiredAt[reqKey[r]] + CacheTime + FetchTime
=============================================================================
