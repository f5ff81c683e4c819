------------------------------ MODULE JwksCache -------------------------------
(***************************************************************************)
(* The cache of issuers' key sets (internal/jose/jwk/cache.go): what       *)
(* jwk.Fetch gives to the checks of federated tokens.                      *)
(*                                                                         *)
(* One mutex guards the entries of all issuers, and it is held while a key *)
(* set is fetched over HTTP.  An entry serves its keys until it expires,   *)
(* whatever the issuer publishes meanwhile; an expired entry stays in the  *)
(* map, unused, until a fetch replaces it.                                 *)
(***************************************************************************)
EXTENDS Integers

CONSTANTS
  Uri,       \* jwks_uri of the issuers
  Key,       \* keys issuers publish
  Caller,    \* goroutines that call Fetch, one call after another
  FirstKeys, \* what each issuer publishes at first
  MinLife,   \* cacheExpMins
  MaxLife,   \* cacheExpMins + cacheExpRandMins - 1: rand.Int32N excludes its bound
  MaxTime,   \* bound on the clock
  MaxTurns,  \* bound on the changes issuers make to their key sets
  None       \* nobody, no entry, no answer

ASSUME LifeAssumption == MinLife \in Nat /\ MaxLife \in Nat /\ MinLife <= MaxLife
ASSUME FirstKeysAssumption == FirstKeys \in [Uri -> SUBSET Key]
ASSUME BoundAssumption == MaxTime \in Nat /\ MaxTurns \in Nat
ASSUME NobodyAssumption == None \notin Caller \cup Uri

VARIABLES
  now,        \* the clock
  published,  \* the key set of each issuer
  changed,    \* history: when a key last entered or left that set, 0 if never
  turns,      \* history: changes so far
  cache,      \* cache.m: the entry of each issuer
  mutex,      \* who holds cache.Mutex
  call        \* the calls: where they are, for which issuer, what they got

issuers == <<published, changed, turns>>

cacheVars == <<now, issuers, cache, mutex, call>>

\* An answer to a fetch: the keys in it, and, as history, when the issuer was
\* asked and whether the body was that of an error.
Answer == [keys : SUBSET Key, asked : Nat, outage : BOOLEAN]

\* cacheEntry; filled is history.
Entry == [answer : Answer, filled : Nat, exp : Nat]

ASSUME NothingAssumption == None \notin Answer /\ None \notin Entry

\* lock: waiting for the mutex.  fetch: holding it, the request is on its way.
\* fill: the answer has arrived.  back: Fetch has returned got, None for an error.
Calls == [pc : {"idle", "lock", "fetch", "fill", "back"}, uri : Uri \cup {None},
          asked : Nat, got : Answer \cup {None}]

NoCall == [pc |-> "idle", uri |-> None, asked |-> 0, got |-> None]

Init ==
  /\ now = 1
  /\ published = FirstKeys
  /\ changed = [u \in Uri |-> [k \in Key |-> 0]]
  /\ turns = 0
  /\ cache = [u \in Uri |-> None]
  /\ mutex = None
  /\ call = [c \in Caller |-> NoCall]

-------------------------------------------------------------------------------
\* The environment: time passes, an issuer publishes or withdraws a key.

Tick ==
  /\ now < MaxTime
  /\ now' = now + 1
  /\ UNCHANGED <<issuers, cache, mutex, call>>

Turn(u, k) ==
  /\ turns < MaxTurns
  /\ turns' = turns + 1
  /\ published' = [published EXCEPT ![u] = IF k \in @ THEN @ \ {k} ELSE @ \cup {k}]
  /\ changed' = [changed EXCEPT ![u][k] = now]
  /\ UNCHANGED <<now, cache, mutex, call>>

-------------------------------------------------------------------------------
Call(c, u) ==
  /\ call[c].pc = "idle"
  /\ call' = [call EXCEPT ![c] = [pc |-> "lock", uri |-> u, asked |-> 0, got |-> None]]
  /\ UNCHANGED <<now, issuers, cache, mutex>>

\* Mutated form of Live: an entry that has been filled is good for ever.
LiveForever(u) == cache[u] # None

\* "ok && !ce.Expired()": an entry is good at its very expiry instant.
Live(u) == cache[u] # None /\ ~(now > cache[u].exp)

\* Mutated form of Served: the first entry at hand, whoever it is from.
ServedAny(u) == LET v == CHOOSE x \in Uri : Live(x) IN cache[v].answer

\* The keys of a live entry.
Served(u) == cache[u].answer

\* The mutex is taken and released in one step: nothing in it waits.
Hit(c) ==
  /\ call[c].pc = "lock"
  /\ mutex = None
  /\ Live(call[c].uri)
  /\ call' = [call EXCEPT ![c] = [pc |-> "back", uri |-> call[c].uri, asked |-> 0,
                                  got |-> Served(call[c].uri)]]
  /\ UNCHANGED <<now, issuers, cache, mutex>>

\* Mutated form of Miss: the mutex guards the map only, not the fetch.
MissUnlocked(c) ==
  /\ call[c].pc = "lock"
  /\ ~Live(call[c].uri)
  /\ call' = [call EXCEPT ![c] = [pc |-> "fetch", uri |-> call[c].uri, asked |-> now, got |-> None]]
  /\ UNCHANGED <<now, issuers, cache, mutex>>

\* No entry, or an expired one: the mutex stays taken.
Miss(c) ==
  /\ call[c].pc = "lock"
  /\ mutex = None
  /\ ~Live(call[c].uri)
  /\ mutex' = c
  /\ call' = [call EXCEPT ![c] = [pc |-> "fetch", uri |-> call[c].uri, asked |-> now, got |-> None]]
  /\ UNCHANGED <<now, issuers, cache>>

Receive(c, keys, outage) ==
  /\ call[c].pc = "fetch"
  /\ LET answer == [keys |-> keys, asked |-> call[c].asked, outage |-> outage]
     IN call' = [call EXCEPT ![c] = [pc |-> "fill", uri |-> call[c].uri, asked |-> 0,
                                     got |-> answer]]
  /\ UNCHANGED <<now, issuers, cache, mutex>>

\* The issuer answers with the keys it publishes at that moment.
Respond(c) == Receive(c, published[call[c].uri], FALSE)

\* The issuer answers with an error whose body is a JSON object: keysFromUri
\* does not look at the status, and an object without "keys" is an empty set.
RespondError(c) == Receive(c, {}, TRUE)

\* Mutated form of FetchFails: the mutex is released on the way to the end only.
FetchFailsLocked(c) ==
  /\ call[c].pc = "fetch"
  /\ call' = [call EXCEPT ![c] = [pc |-> "back", uri |-> call[c].uri, asked |-> 0, got |-> None]]
  /\ UNCHANGED <<now, issuers, cache, mutex>>

\* No connection, a body that is not JSON, or the caller's context is done: an
\* error for this caller, and the next one tries again.
FetchFails(c) ==
  /\ call[c].pc = "fetch"
  /\ mutex' = None
  /\ call' = [call EXCEPT ![c] = [pc |-> "back", uri |-> call[c].uri, asked |-> 0, got |-> None]]
  /\ UNCHANGED <<now, issuers, cache>>

\* cacheExpMins and a random rest.
Lifetime == MinLife .. MaxLife

\* The answer is stored, returned, and the mutex released.
Fill(c) ==
  /\ call[c].pc = "fill"
  /\ \E life \in Lifetime :
       cache' = [cache EXCEPT ![call[c].uri] =
                   [answer |-> call[c].got, filled |-> now, exp |-> now + life]]
  /\ mutex' = None
  /\ call' = [call EXCEPT ![c].pc = "back"]
  /\ UNCHANGED <<now, issuers>>

\* The caller goes on with what it got.
Done(c) ==
  /\ call[c].pc = "back"
  /\ call' = [call EXCEPT ![c] = NoCall]
  /\ UNCHANGED <<now, issuers, cache, mutex>>

\* The steps of a call between its beginning and its end.
Arrive(c) == Respond(c) \/ RespondError(c) \/ FetchFails(c)

Acquire(c) == Hit(c) \/ Miss(c)

Environment == Tick \/ \E u \in Uri, k \in Key : Turn(u, k)

Next ==
  \/ Environment
  \/ \E c \in Caller :
       \/ \E u \in Uri : Call(c, u)
       \/ Acquire(c) \/ Arrive(c) \/ Fill(c) \/ Done(c)

Spec == Init /\ [][Next]_cacheVars

-------------------------------------------------------------------------------
\* Types, and who holds the mutex: the caller whose fetch is under way.
CacheTypeOK ==
  /\ now \in Nat
  /\ published \in [Uri -> SUBSET Key]
  /\ changed \in [Uri -> [Key -> Nat]]
  /\ turns \in Nat
  /\ cache \in [Uri -> Entry \cup {None}]
  /\ mutex \in Caller \cup {None}
  /\ call \in [Caller -> Calls]
  /\ \A c \in Caller : /\ call[c].pc # "idle" => call[c].uri \in Uri
                       /\ call[c].pc = "fill" => call[c].got # None
                       /\ mutex = c <=> call[c].pc \in {"fetch", "fill"}

\* An answer about issuer u is what u published at some moment since it was
\* asked: where it differs from today's set, that key has changed since then.
\* An error answer may lack any key.
Faithful(u, answer) ==
  \A k \in Key :
    /\ k \in answer.keys => k \in published[u] \/ changed[u][k] >= answer.asked
    /\ k \notin answer.keys => \/ k \notin published[u]
                               \/ changed[u][k] >= answer.asked
                               \/ answer.outage

\* What the cache holds and what Fetch returns is a faithful answer about the
\* very issuer it is kept and returned for, though issuers rotate their keys
\* while requests are on their way and while entries wait to expire.
AsPublished ==
  /\ \A u \in Uri : cache[u] # None => Faithful(u, cache[u].answer)
  /\ \A c \in Caller :
       call[c].pc \in {"fill", "back"} /\ call[c].got # None => Faithful(call[c].uri, call[c].got)

\* An issuer is asked for its keys only while the cache has no live entry of it,
\* until the answer is stored: callers that miss together do not all ask (the
\* mutex is held across the fetch).
FetchOnlyWhenStale ==
  \A c \in Caller : call[c].pc \in {"fetch", "fill"} => ~Live(call[c].uri)

\* Keys that a caller is served from the cache arrived from the issuer at most
\* MaxLife ago, also when the issuer has been unreachable since.
ServedInTime ==
  [][\A c \in Caller :
       call[c].pc = "lock" /\ call'[c].pc = "back" =>
         now <= cache[call[c].uri].filled + MaxLife]_cacheVars

===============================================================================
