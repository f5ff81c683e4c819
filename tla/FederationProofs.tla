---------------------------- MODULE FederationProofs ----------------------------
(***************************************************************************)
(* Proofs about the cache of issuers' keys and the checks that use it, for *)
(* any issuers, keys and callers, any lifetimes, and any number of key     *)
(* rotations.  The composition implements the cache's own specification,   *)
(* so what is proved of the cache holds of it.                             *)
(***************************************************************************)
EXTENDS Federation, TLAPS

\* What the cache's properties rest on: nothing was asked or filled later than
\* now, and an entry lives MaxLife at most.
Dated ==
  /\ \A c \in Caller : /\ call[c].asked <= now
                       /\ call[c].got # None => call[c].got.asked <= now
  /\ \A u \in Uri : cache[u] # None => /\ cache[u].answer.asked <= now
                                       /\ cache[u].filled <= now
                                       /\ cache[u].exp <= cache[u].filled + MaxLife

CacheInv == CacheTypeOK /\ Dated /\ AsPublished /\ FetchOnlyWhenStale

\* The invariant of the cache holds of a cache that is empty.
LEMMA CacheInit == Init => CacheInv
  BY FirstKeysAssumption, NobodyAssumption
  DEF Init, NoCall, CacheInv, CacheTypeOK, Calls, Dated, AsPublished, FetchOnlyWhenStale

\* A caller has an issuer from Call to Done.
LEMMA BusyHasUri ==
  ASSUME CacheInv, NEW c \in Caller, call[c].pc # "idle"
  PROVE  call[c].uri \in Uri
  BY DEF CacheInv, CacheTypeOK

\* What a step of one call has to keep of the calls and the mutex.
LEMMA CallMoves ==
  ASSUME CacheInv, NEW c \in Caller, NEW r \in Calls,
         call' = [call EXCEPT ![c] = r],
         r.pc # "idle" => r.uri \in Uri,
         r.pc = "fill" => r.got # None,
         mutex' = c <=> r.pc \in {"fetch", "fill"},
         \A d \in Caller : d # c => (mutex' = d <=> mutex = d)
  PROVE  /\ call' \in [Caller -> Calls]
         /\ \A d \in Caller : /\ call'[d].pc # "idle" => call'[d].uri \in Uri
                              /\ call'[d].pc = "fill" => call'[d].got # None
                              /\ mutex' = d <=> call'[d].pc \in {"fetch", "fill"}
  <1>1. call'[c] = r /\ \A d \in Caller : d # c => call'[d] = call[d]
    BY DEF CacheInv, CacheTypeOK
  <1> QED
    BY <1>1 DEF CacheInv, CacheTypeOK

\* Every step of the cache keeps the types of its rows and of the pages published.
LEMMA CacheTypeStep == CacheInv /\ [Next]_cacheVars => CacheTypeOK'
<1> SUFFICES ASSUME CacheInv, [Next]_cacheVars PROVE CacheTypeOK'
  OBVIOUS
<1> USE NobodyAssumption, NothingAssumption, LifeAssumption
<1>1. CASE Tick
  BY <1>1 DEF Tick, issuers, CacheInv, CacheTypeOK
<1>2. ASSUME NEW u \in Uri, NEW k \in Key, Turn(u, k) PROVE CacheTypeOK'
  <2>1. /\ published' \in [Uri -> SUBSET Key]
        /\ changed' \in [Uri -> [Key -> Nat]]
        /\ turns' \in Nat
    BY <1>2 DEF Turn, CacheInv, CacheTypeOK
  <2> QED
    BY <1>2, <2>1 DEF Turn, CacheInv, CacheTypeOK
<1>3. ASSUME NEW c \in Caller, NEW u \in Uri, Call(c, u) PROVE CacheTypeOK'
  <2> DEFINE r == [pc |-> "lock", uri |-> u, asked |-> 0, got |-> None]
  <2>2. call' = [call EXCEPT ![c] = r]
    BY <1>3 DEF Call, Calls, CacheInv, CacheTypeOK
  <2>3. r \in Calls
    BY DEF Calls, CacheInv, CacheTypeOK
  <2>4. r.pc = "lock" /\ r.uri \in Uri /\ mutex' = mutex /\ mutex # c
    BY <1>3, BusyHasUri DEF Call, CacheInv, CacheTypeOK
  <2> HIDE DEF r
  <2>5. /\ call' \in [Caller -> Calls]
        /\ \A d \in Caller : /\ call'[d].pc # "idle" => call'[d].uri \in Uri
                             /\ call'[d].pc = "fill" => call'[d].got # None
                             /\ mutex' = d <=> call'[d].pc \in {"fetch", "fill"}
    BY <2>2, <2>3, <2>4, CallMoves
  <2>6. mutex' \in Caller \cup {None} /\ UNCHANGED <<now, published, changed, turns, cache>>
    BY <1>3, <2>4 DEF Call, issuers, CacheInv, CacheTypeOK
  <2> QED
    BY <2>5, <2>6 DEF CacheInv, CacheTypeOK
<1>4. ASSUME NEW c \in Caller, Hit(c) PROVE CacheTypeOK'
  <2>1. Served(call[c].uri) \in Answer
    BY <1>4, BusyHasUri DEF Hit, Live, Served, Entry, CacheInv, CacheTypeOK
  <2> DEFINE r == [pc |-> "back", uri |-> call[c].uri, asked |-> 0,
                   got |-> Served(call[c].uri)]
  <2>2. call' = [call EXCEPT ![c] = r]
    BY <1>4 DEF Hit, Calls, CacheInv, CacheTypeOK
  <2>3. r \in Calls
    BY <2>1 DEF Calls, CacheInv, CacheTypeOK
  <2>4. r.pc = "back" /\ r.uri \in Uri /\ mutex' = mutex /\ mutex = None
    BY <1>4, BusyHasUri DEF Hit, CacheInv, CacheTypeOK
  <2> HIDE DEF r
  <2>5. /\ call' \in [Caller -> Calls]
        /\ \A d \in Caller : /\ call'[d].pc # "idle" => call'[d].uri \in Uri
                             /\ call'[d].pc = "fill" => call'[d].got # None
                             /\ mutex' = d <=> call'[d].pc \in {"fetch", "fill"}
    BY <2>2, <2>3, <2>4, CallMoves
  <2>6. mutex' \in Caller \cup {None} /\ UNCHANGED <<now, published, changed, turns, cache>>
    BY <1>4, <2>4 DEF Hit, issuers, CacheInv, CacheTypeOK
  <2> QED
    BY <2>5, <2>6 DEF CacheInv, CacheTypeOK
<1>5. ASSUME NEW c \in Caller, Miss(c) PROVE CacheTypeOK'
  <2> DEFINE r == [pc |-> "fetch", uri |-> call[c].uri, asked |-> now, got |-> None]
  <2>2. call' = [call EXCEPT ![c] = r]
    BY <1>5 DEF Miss, Calls, CacheInv, CacheTypeOK
  <2>3. r \in Calls
    BY DEF Calls, CacheInv, CacheTypeOK
  <2>4. r.pc = "fetch" /\ r.uri \in Uri /\ mutex' = c /\ mutex = None
    BY <1>5, BusyHasUri DEF Miss, CacheInv, CacheTypeOK
  <2> HIDE DEF r
  <2>5. /\ call' \in [Caller -> Calls]
        /\ \A d \in Caller : /\ call'[d].pc # "idle" => call'[d].uri \in Uri
                             /\ call'[d].pc = "fill" => call'[d].got # None
                             /\ mutex' = d <=> call'[d].pc \in {"fetch", "fill"}
    BY <2>2, <2>3, <2>4, CallMoves
  <2>6. mutex' \in Caller \cup {None} /\ UNCHANGED <<now, published, changed, turns, cache>>
    BY <1>5, <2>4 DEF Miss, issuers, CacheInv, CacheTypeOK
  <2> QED
    BY <2>5, <2>6 DEF CacheInv, CacheTypeOK
<1>6. ASSUME NEW c \in Caller, NEW keys \in SUBSET Key, NEW outage \in BOOLEAN,
             Receive(c, keys, outage)
      PROVE  CacheTypeOK'
  <2>1. [keys |-> keys, asked |-> call[c].asked, outage |-> outage] \in Answer
    BY DEF Answer, Calls, CacheInv, CacheTypeOK
  <2> DEFINE r == [pc |-> "fill", uri |-> call[c].uri, asked |-> 0,
                   got |-> [keys |-> keys, asked |-> call[c].asked, outage |-> outage]]
  <2>2. call' = [call EXCEPT ![c] = r]
    BY <1>6 DEF Receive, Calls, CacheInv, CacheTypeOK
  <2>3. r \in Calls
    BY <2>1 DEF Calls, CacheInv, CacheTypeOK
  <2>4. r.pc = "fill" /\ r.uri \in Uri /\ r.got # None /\ mutex' = mutex /\ mutex = c
    BY <1>6, <2>1, BusyHasUri DEF Receive, CacheInv, CacheTypeOK
  <2> HIDE DEF r
  <2>5. /\ call' \in [Caller -> Calls]
        /\ \A d \in Caller : /\ call'[d].pc # "idle" => call'[d].uri \in Uri
                             /\ call'[d].pc = "fill" => call'[d].got # None
                             /\ mutex' = d <=> call'[d].pc \in {"fetch", "fill"}
    BY <2>2, <2>3, <2>4, CallMoves
  <2>6. mutex' \in Caller \cup {None} /\ UNCHANGED <<now, published, changed, turns, cache>>
    BY <1>6, <2>4 DEF Receive, issuers, CacheInv, CacheTypeOK
  <2> QED
    BY <2>5, <2>6 DEF CacheInv, CacheTypeOK
<1>7. ASSUME NEW c \in Caller, Arrive(c) PROVE CacheTypeOK'
  <2>1. CASE Respond(c)
    BY <2>1, <1>6, BusyHasUri DEF Respond, Receive, CacheInv, CacheTypeOK
  <2>2. CASE RespondError(c)
    BY <2>2, <1>6 DEF RespondError
  <2>3. CASE FetchFails(c)
    BY <2>3 DEF FetchFails, issuers, Calls, CacheInv, CacheTypeOK
  <2> QED
    BY <1>7, <2>1, <2>2, <2>3 DEF Arrive
<1>8. ASSUME NEW c \in Caller, Fill(c) PROVE CacheTypeOK'
  <2>1. PICK life \in Lifetime :
          cache' = [cache EXCEPT ![call[c].uri] =
                      [answer |-> call[c].got, filled |-> now, exp |-> now + life]]
    BY <1>8 DEF Fill
  <2>2. call[c].got \in Answer /\ now \in Nat /\ now + life \in Nat
    BY <1>8 DEF Fill, Lifetime, Calls, CacheInv, CacheTypeOK
  <2>3. [answer |-> call[c].got, filled |-> now, exp |-> now + life] \in Entry
    BY <2>2 DEF Entry
  <2>4. cache' \in [Uri -> Entry \cup {None}]
    BY <2>1, <2>3 DEF CacheInv, CacheTypeOK
  <2> QED
    BY <1>8, <2>4 DEF Fill, issuers, Calls, CacheInv, CacheTypeOK
<1>9. ASSUME NEW c \in Caller, Done(c) PROVE CacheTypeOK'
  BY <1>9 DEF Done, NoCall, issuers, Calls, CacheInv, CacheTypeOK
<1>10. CASE UNCHANGED cacheVars
  BY <1>10 DEF cacheVars, issuers, CacheInv, CacheTypeOK
<1> QED
  BY <1>1, <1>2, <1>3, <1>4, <1>5, <1>7, <1>8, <1>9, <1>10 DEF Next, Environment, Acquire

\* How the steps of a call change what its caller knows and has got: the others
\* keep theirs, and only Fill changes the cache.
LEMMA OneMoves ==
  ASSUME CacheInv, NEW c \in Caller,
         Acquire(c) \/ Arrive(c) \/ Fill(c) \/ Done(c) \/ (\E u \in Uri : Call(c, u))
  PROVE  /\ \A d \in Caller : d # c => call'[d] = call[d]
         /\ UNCHANGED <<now, published, changed>>
         /\ ~Fill(c) => cache' = cache
  BY DEF Acquire, Hit, Miss, Arrive, Respond, RespondError, Receive, FetchFails, Fill, Done, Call,
         issuers, CacheInv, CacheTypeOK

\* Every step keeps what the dates of a cached row say of when it was published.
LEMMA DatedStep == CacheInv /\ [Next]_cacheVars => Dated'
<1> SUFFICES ASSUME CacheInv, [Next]_cacheVars PROVE Dated'
  OBVIOUS
<1> USE NobodyAssumption, NothingAssumption, LifeAssumption
<1>1. /\ now \in Nat
      /\ \A c \in Caller : call[c].asked \in Nat /\ (call[c].got # None => call[c].got.asked \in Nat)
      /\ \A u \in Uri : cache[u] # None => /\ cache[u].answer.asked \in Nat
                                           /\ cache[u].filled \in Nat /\ cache[u].exp \in Nat
  BY DEF CacheInv, CacheTypeOK, Calls, Entry, Answer
<1>2. CASE Tick
  BY <1>1, <1>2 DEF Tick, issuers, CacheInv, Dated
<1>3. ASSUME NEW u \in Uri, NEW k \in Key, Turn(u, k) PROVE Dated'
  BY <1>3 DEF Turn, CacheInv, Dated
<1>4. ASSUME NEW c \in Caller,
             Acquire(c) \/ Arrive(c) \/ Fill(c) \/ Done(c) \/ (\E u \in Uri : Call(c, u))
      PROVE  Dated'
  <2>1. /\ call'[c].asked <= now
        /\ call'[c].got # None => call'[c].got.asked <= now
    <3>1. ASSUME NEW u \in Uri, Call(c, u) PROVE <2>1
      BY <1>1, <3>1 DEF Call, CacheInv, CacheTypeOK
    <3>2. CASE Hit(c)
      BY <1>1, <3>2, BusyHasUri DEF Hit, Live, Served, CacheInv, CacheTypeOK, Dated
    <3>3. CASE Miss(c)
      BY <1>1, <3>3 DEF Miss, CacheInv, CacheTypeOK
    <3>4. ASSUME NEW keys \in SUBSET Key, NEW outage \in BOOLEAN, Receive(c, keys, outage)
          PROVE  <2>1
      BY <1>1, <3>4 DEF Receive, CacheInv, CacheTypeOK, Dated
    <3>5. CASE Respond(c) \/ RespondError(c)
      BY <3>4, <3>5, BusyHasUri DEF Respond, RespondError, Receive, CacheInv, CacheTypeOK
    <3>6. CASE FetchFails(c)
      BY <1>1, <3>6 DEF FetchFails, CacheInv, CacheTypeOK, Dated
    <3>7. CASE Fill(c)
      BY <1>1, <3>7 DEF Fill, CacheInv, CacheTypeOK, Dated
    <3>8. CASE Done(c)
      BY <1>1, <3>8 DEF Done, NoCall, CacheInv, CacheTypeOK
    <3> QED
      BY <1>4, <3>1, <3>2, <3>3, <3>5, <3>6, <3>7, <3>8 DEF Acquire, Arrive
  <2>2. \A u \in Uri : cache'[u] # None => /\ cache'[u].answer.asked <= now
                                           /\ cache'[u].filled <= now
                                           /\ cache'[u].exp <= cache'[u].filled + MaxLife
    <3>1. CASE Fill(c)
      <4>1. PICK life \in Lifetime :
              cache' = [cache EXCEPT ![call[c].uri] =
                          [answer |-> call[c].got, filled |-> now, exp |-> now + life]]
        BY <3>1 DEF Fill
      <4>2. call[c].got # None
        BY <3>1 DEF Fill, CacheInv, CacheTypeOK
      <4> QED
        BY <1>1, <4>1, <4>2 DEF Lifetime, CacheInv, CacheTypeOK, Dated
    <3>2. CASE ~Fill(c)
      BY <1>4, <3>2, OneMoves DEF CacheInv, Dated
    <3> QED
      BY <3>1, <3>2
  <2> QED
    BY <1>4, <2>1, <2>2, OneMoves DEF CacheInv, Dated
<1>5. CASE UNCHANGED cacheVars
  BY <1>5 DEF cacheVars, CacheInv, Dated
<1> QED
  BY <1>2, <1>3, <1>4, <1>5 DEF Next, Environment

\* Every step keeps the answers faithful.  The interesting case is Turn: an
\* issuer changes a key at an instant no answer was asked after.
LEMMA AsPublishedStep == CacheInv /\ [Next]_cacheVars => AsPublished'
<1> SUFFICES ASSUME CacheInv, [Next]_cacheVars PROVE AsPublished'
  OBVIOUS
<1> USE NobodyAssumption, NothingAssumption
<1>1. CASE Tick
  BY <1>1 DEF Tick, issuers, CacheInv, AsPublished, Faithful
<1>2. ASSUME NEW u \in Uri, NEW k \in Key, Turn(u, k) PROVE AsPublished'
  <2>1. \A v \in Uri, j \in Key :
          \/ (j \in published'[v] <=> j \in published[v]) /\ changed'[v][j] = changed[v][j]
          \/ changed'[v][j] = now
    BY <1>2 DEF Turn, CacheInv, CacheTypeOK
  <2>2. ASSUME NEW v \in Uri, NEW a, a.asked \in Nat, a.asked <= now, Faithful(v, a)
        PROVE  \A j \in Key :
                 /\ j \in a.keys => j \in published'[v] \/ changed'[v][j] >= a.asked
                 /\ j \notin a.keys => \/ j \notin published'[v]
                                       \/ changed'[v][j] >= a.asked
                                       \/ a.outage
    BY <2>1, <2>2 DEF Faithful, CacheInv, CacheTypeOK
  <2>3. UNCHANGED <<cache, call>>
    BY <1>2 DEF Turn
  <2>4. \A v \in Uri : cache[v] # None =>
          cache[v].answer.asked \in Nat /\ cache[v].answer.asked <= now
    BY DEF CacheInv, CacheTypeOK, Dated, Entry, Answer
  <2>5. \A c \in Caller : call[c].got # None =>
          call[c].got.asked \in Nat /\ call[c].got.asked <= now
    BY DEF CacheInv, CacheTypeOK, Dated, Calls, Answer
  <2> QED
    BY <2>2, <2>3, <2>4, <2>5, BusyHasUri DEF CacheInv, AsPublished, Faithful
<1>3. ASSUME NEW c \in Caller,
             Acquire(c) \/ Arrive(c) \/ Fill(c) \/ Done(c) \/ (\E u \in Uri : Call(c, u))
      PROVE  AsPublished'
  <2>1. call'[c].pc \in {"fill", "back"} /\ call'[c].got # None
          => Faithful(call'[c].uri, call'[c].got)
    <3>1. ASSUME NEW u \in Uri, Call(c, u) PROVE <2>1
      BY <3>1 DEF Call, CacheInv, CacheTypeOK
    <3>2. CASE Hit(c)
      BY <3>2, BusyHasUri DEF Hit, Live, Served, CacheInv, CacheTypeOK, AsPublished
    <3>3. CASE Miss(c)
      BY <3>3 DEF Miss, CacheInv, CacheTypeOK
    <3>4. CASE Respond(c)
      BY <3>4 DEF Respond, Receive, CacheInv, CacheTypeOK, Faithful
    <3>5. CASE RespondError(c)
      BY <3>5 DEF RespondError, Receive, CacheInv, CacheTypeOK, Faithful
    <3>6. CASE FetchFails(c)
      BY <3>6 DEF FetchFails, CacheInv, CacheTypeOK
    <3>7. CASE Fill(c)
      BY <3>7 DEF Fill, CacheInv, CacheTypeOK, AsPublished
    <3>8. CASE Done(c)
      BY <3>8 DEF Done, NoCall, CacheInv, CacheTypeOK
    <3> QED
      BY <1>3, <3>1, <3>2, <3>3, <3>4, <3>5, <3>6, <3>7, <3>8 DEF Acquire, Arrive
  <2>2. \A u \in Uri : cache'[u] # None => Faithful(u, cache'[u].answer)
    <3>1. CASE Fill(c)
      <4>1. call[c].got # None /\ call[c].pc = "fill"
        BY <3>1 DEF Fill, CacheInv, CacheTypeOK
      <4>2. PICK life \in Lifetime :
              cache' = [cache EXCEPT ![call[c].uri] =
                          [answer |-> call[c].got, filled |-> now, exp |-> now + life]]
        BY <3>1 DEF Fill
      <4>3. Faithful(call[c].uri, call[c].got)
        BY <4>1 DEF CacheInv, AsPublished
      <4> QED
        BY <4>2, <4>3 DEF CacheInv, CacheTypeOK, AsPublished
    <3>2. CASE ~Fill(c)
      BY <1>3, <3>2, OneMoves DEF CacheInv, AsPublished
    <3> QED
      BY <3>1, <3>2
  <2> QED
    BY <1>3, <2>1, <2>2, OneMoves DEF CacheInv, AsPublished, Faithful
<1>4. CASE UNCHANGED cacheVars
  BY <1>4 DEF cacheVars, issuers, CacheInv, AsPublished, Faithful
<1> QED
  BY <1>1, <1>2, <1>3, <1>4 DEF Next, Environment

\* Every step keeps the fetches apart.  The interesting case is Fill: it makes
\* an entry live, and its caller holds the mutex, so nobody else is fetching.
LEMMA FetchStep == CacheInv /\ [Next]_cacheVars => FetchOnlyWhenStale'
<1> SUFFICES ASSUME CacheInv, [Next]_cacheVars PROVE FetchOnlyWhenStale'
  OBVIOUS
<1> USE NobodyAssumption, NothingAssumption
<1>1. CASE Tick
  <2>1. \A u \in Uri : Live(u)' => Live(u)
    BY <1>1 DEF Tick, Live, CacheInv, CacheTypeOK, Entry
  <2> QED
    BY <1>1, <2>1, BusyHasUri DEF Tick, CacheInv, FetchOnlyWhenStale
<1>2. ASSUME NEW u \in Uri, NEW k \in Key, Turn(u, k) PROVE FetchOnlyWhenStale'
  BY <1>2 DEF Turn, Live, CacheInv, FetchOnlyWhenStale
<1>3. ASSUME NEW c \in Caller,
             Acquire(c) \/ Arrive(c) \/ Fill(c) \/ Done(c) \/ (\E u \in Uri : Call(c, u))
      PROVE  FetchOnlyWhenStale'
  <2>1. CASE Fill(c)
    <3>1. call[c].pc = "fill" /\ mutex = c
      BY <2>1 DEF Fill, CacheInv, CacheTypeOK
    <3>2. call'[c].pc = "back"
      BY <2>1 DEF Fill, CacheInv, CacheTypeOK
    <3>3. \A d \in Caller : d # c => call[d].pc \notin {"fetch", "fill"} /\ call'[d] = call[d]
      BY <3>1, <1>3, OneMoves DEF CacheInv, CacheTypeOK
    <3> QED
      BY <3>2, <3>3 DEF FetchOnlyWhenStale
  <2>2. CASE ~Fill(c)
    <3>1. \A u \in Uri : Live(u)' = Live(u)
      BY <1>3, <2>2, OneMoves DEF Live
    <3>2. call'[c].pc \in {"fetch", "fill"} => call'[c].uri \in Uri /\ ~Live(call'[c].uri)
      <4>1. CASE Miss(c)
        BY <4>1, BusyHasUri DEF Miss, CacheInv, CacheTypeOK
      <4>2. CASE Respond(c) \/ RespondError(c)
        BY <4>2, BusyHasUri
        DEF Respond, RespondError, Receive, CacheInv, CacheTypeOK, FetchOnlyWhenStale
      <4>3. ASSUME Hit(c) \/ FetchFails(c) \/ Done(c) \/ (\E u \in Uri : Call(c, u))
            PROVE  call'[c].pc \notin {"fetch", "fill"}
        BY <4>3 DEF Hit, FetchFails, Done, NoCall, Call, CacheInv, CacheTypeOK
      <4> QED
        BY <1>3, <2>2, <4>1, <4>2, <4>3 DEF Acquire, Arrive
    <3> QED
      BY <1>3, <3>1, <3>2, OneMoves, BusyHasUri DEF CacheInv, FetchOnlyWhenStale
  <2> QED
    BY <2>1, <2>2
<1>4. CASE UNCHANGED cacheVars
  BY <1>4 DEF cacheVars, Live, CacheInv, FetchOnlyWhenStale
<1> QED
  BY <1>1, <1>2, <1>3, <1>4 DEF Next, Environment

\* The invariant of the cache, for any number of issuers, pages and requests.
THEOREM CacheInvariance == Spec => []CacheInv
<1>1. CacheInv /\ [Next]_cacheVars => CacheInv'
  BY CacheTypeStep, DatedStep, AsPublishedStep, FetchStep DEF CacheInv
<1> QED
  BY CacheInit, <1>1, PTL DEF Spec

\* The cache bounds how long a caller may be served keys that have been
\* withdrawn (cacheFetch, Expired): MaxLife from the moment they arrived.
THEOREM CacheServedInTime == Spec => ServedInTime
<1>1. ASSUME CacheInv, [Next]_cacheVars,
             NEW c \in Caller, call[c].pc = "lock", call'[c].pc = "back"
      PROVE  now <= cache[call[c].uri].filled + MaxLife
  <2>1. Hit(c)
    <3>1. ASSUME NEW d \in Caller,
                 Acquire(d) \/ Arrive(d) \/ Fill(d) \/ Done(d) \/ (\E u \in Uri : Call(d, u))
          PROVE  Hit(c)
      <4>1. d = c
        BY <1>1, <3>1, OneMoves
      <4> QED
        BY <1>1, <3>1, <4>1
        DEF Acquire, Miss, Arrive, Respond, RespondError, Receive, FetchFails, Fill, Done, Call,
            CacheInv, CacheTypeOK
    <3>2. CASE Environment \/ UNCHANGED cacheVars
      BY <1>1, <3>2 DEF Environment, Tick, Turn, cacheVars
    <3> QED
      BY <1>1, <3>1, <3>2 DEF Next
  <2>2. call[c].uri \in Uri /\ cache[call[c].uri] # None /\ ~(now > cache[call[c].uri].exp)
    BY <2>1, BusyHasUri, <1>1 DEF Hit, Live
  <2>3. cache[call[c].uri] \in Entry /\ now \in Nat
    BY <2>2, <1>1 DEF CacheInv, CacheTypeOK
  <2> QED
    BY <2>2, <2>3, <1>1, LifeAssumption DEF Entry, CacheInv, Dated
<1>2. CacheInv /\ [Next]_cacheVars =>
        [\A c \in Caller : call[c].pc = "lock" /\ call'[c].pc = "back" =>
           now <= cache[call[c].uri].filled + MaxLife]_cacheVars
  BY <1>1
<1> QED
  BY <1>2, CacheInvariance, PTL DEF Spec, ServedInTime

-------------------------------------------------------------------------------
\* The checks implement the cache's specification: each of their steps is a step
\* of the cache or leaves it alone (checkJwt calls jwk.Fetch, nothing else does).
LEMMA FederationStepIsCacheStep == [FederationNext]_federationVars => [Next]_cacheVars
<1>1. ASSUME NEW c \in Caller, NEW app \in App, NEW t \in Jwt, CheckJwt(c, app, t)
      PROVE  [Next]_cacheVars
  <2>1. ASSUME NEW f \in RowOf(app, t.iss), Call(c, f.uri) PROVE Next
    BY <2>1, RowAssumption DEF RowOf, Next
  <2> QED
    BY <1>1, <2>1 DEF CheckJwt
<1>2. ASSUME NEW c \in Caller, Verify(c) \/ Lookup(c) PROVE [Next]_cacheVars
  BY <1>2 DEF Verify, Lookup, Next
<1>3. UNCHANGED federationVars => UNCHANGED cacheVars
  BY DEF federationVars
<1> QED
  BY <1>1, <1>2, <1>3 DEF FederationNext, Next

\* The service with its tokens is, seen from its cache, the cache: every theorem
\* about JwksCache holds of it.
THEOREM FederationImplementsCache == FederationSpec => Spec
<1>1. FederationInit => Init
  BY DEF FederationInit
<1> QED
  BY <1>1, FederationStepIsCacheStep, PTL DEF FederationSpec, Spec

\* Keys are served to a check in time (cacheFetch, Expired).
THEOREM FederationServedInTime == FederationSpec => ServedInTime
  BY FederationImplementsCache, CacheServedInTime, PTL

\* Issuers' keys are kept and returned faithfully (keysFromUri, cacheFetch).
THEOREM FederationAsPublished == FederationSpec => []AsPublished
  BY FederationImplementsCache, CacheInvariance, PTL DEF CacheInv

\* An issuer is asked only while the cache has no live entry of it (cacheFetch).
THEOREM FederationFetchOnlyWhenStale == FederationSpec => []FetchOnlyWhenStale
  BY FederationImplementsCache, CacheInvariance, PTL DEF CacheInv

-------------------------------------------------------------------------------
\* A check in progress has a token of an issuer the app trusts, and while it
\* waits for keys its caller is fetching those of that very issuer.
Asking ==
  \A c \in Caller :
    /\ check[c].pc \in {"keys", "lookup"} => check[c].app \in App /\ check[c].jwt \in Jwt
    /\ check[c].pc = "keys" => /\ call[c].pc # "idle"
                              /\ \E f \in RowOf(check[c].app, check[c].jwt.iss) :
                                   call[c].uri = f.uri
    /\ check[c].pc # "keys" => call[c].pc = "idle"
    /\ check[c].pc # "done" => check[c].idn = None

FederationInv == CacheInv /\ check \in [Caller -> Checks] /\ Asking /\ IdentityOfFederation

\* Before the first request there is nothing that could be wrong.
LEMMA FederationInitInv == FederationInit => FederationInv
  BY CacheInit
  DEF FederationInit, Init, NoCall, NoCheck, Checks, Asking, IdentityOfFederation, FederationInv

\* What a step of the cache that no check begins or ends with leaves in place.
LEMMA CacheStepKeepsChecks ==
  ASSUME FederationInv, UNCHANGED check,
         Environment \/ (\E c \in Caller : Acquire(c) \/ Arrive(c) \/ Fill(c))
  PROVE  Asking' /\ IdentityOfFederation'
<1>1. \A c \in Caller : call'[c].uri = call[c].uri /\ (call'[c].pc = "idle" <=> call[c].pc = "idle")
  <2>1. CASE Environment
    BY <2>1 DEF Environment, Tick, Turn
  <2>2. ASSUME NEW c \in Caller, Acquire(c) \/ Arrive(c) \/ Fill(c) PROVE <1>1
    <3>1. \A d \in Caller : d # c => call'[d] = call[d]
      BY <2>2, OneMoves DEF FederationInv
    <3>2. call[c].pc # "idle" /\ call'[c].pc # "idle" /\ call'[c].uri = call[c].uri
      <4>1. CASE Hit(c) \/ Miss(c)
        BY <4>1 DEF Hit, Miss, FederationInv, CacheInv, CacheTypeOK, Calls
      <4>2. CASE Respond(c) \/ RespondError(c)
        BY <4>2 DEF Respond, RespondError, Receive, FederationInv, CacheInv, CacheTypeOK, Calls
      <4>3. CASE FetchFails(c) \/ Fill(c)
        BY <4>3 DEF FetchFails, Fill, FederationInv, CacheInv, CacheTypeOK, Calls
      <4> QED
        BY <2>2, <4>1, <4>2, <4>3 DEF Acquire, Arrive
    <3> QED
      BY <3>1, <3>2
  <2> QED
    BY <2>1, <2>2
<1> QED
  BY <1>1 DEF FederationInv, Asking, IdentityOfFederation

\* Every step of the service, its cache included, keeps the invariant.
LEMMA FederationStepInv == FederationInv /\ [FederationNext]_federationVars => FederationInv'
<1> SUFFICES ASSUME FederationInv, [FederationNext]_federationVars PROVE FederationInv'
  OBVIOUS
<1>1. CacheInv'
  BY FederationStepIsCacheStep, CacheTypeStep, DatedStep, AsPublishedStep, FetchStep
  DEF FederationInv, CacheInv
<1> SUFFICES check' \in [Caller -> Checks] /\ Asking' /\ IdentityOfFederation'
  BY <1>1 DEF FederationInv
<1>2. CASE /\ Environment \/ \E c \in Caller : Acquire(c) \/ Arrive(c) \/ Fill(c)
           /\ UNCHANGED check
  BY <1>2, CacheStepKeepsChecks DEF FederationInv
<1>3. ASSUME NEW c \in Caller, NEW app \in App, NEW t \in Jwt, CheckJwt(c, app, t)
      PROVE  check' \in [Caller -> Checks] /\ Asking' /\ IdentityOfFederation'
  <2>1. CASE /\ check' = [check EXCEPT ![c] = NoCheck]
             /\ UNCHANGED cacheVars
    BY <1>3, <2>1
    DEF CheckJwt, cacheVars, NoCheck, Checks, FederationInv, Asking, IdentityOfFederation
  <2>2. ASSUME NEW f \in RowOf(app, t.iss), Call(c, f.uri),
               check' = [check EXCEPT ![c] = [pc |-> "keys", app |-> app, jwt |-> t,
                                              from |-> now, idn |-> None]]
        PROVE  check' \in [Caller -> Checks] /\ Asking' /\ IdentityOfFederation'
    <3>1. f.uri \in Uri /\ now \in Nat
      BY RowAssumption DEF RowOf, FederationInv, CacheInv, CacheTypeOK
    <3>2. check' \in [Caller -> Checks]
      BY <2>2, <3>1 DEF Checks, FederationInv
    <3>3. call'[c].pc = "lock" /\ call'[c].uri = f.uri
          /\ \A d \in Caller : d # c => call'[d] = call[d]
      BY <2>2 DEF Call, FederationInv, CacheInv, CacheTypeOK
    <3>4. check'[c] = [pc |-> "keys", app |-> app, jwt |-> t, from |-> now, idn |-> None]
          /\ \A d \in Caller : d # c => check'[d] = check[d]
      BY <2>2 DEF FederationInv
    <3> QED
      BY <2>2, <3>2, <3>3, <3>4 DEF FederationInv, Asking, IdentityOfFederation
  <2> QED
    BY <1>3, <2>1, <2>2 DEF CheckJwt
<1>4. ASSUME NEW c \in Caller, Verify(c)
      PROVE  check' \in [Caller -> Checks] /\ Asking' /\ IdentityOfFederation'
  <2>1. /\ call'[c].pc = "idle"
        /\ \A d \in Caller : d # c => call'[d] = call[d]
    BY <1>4 DEF Verify, Done, NoCall, FederationInv, CacheInv, CacheTypeOK
  <2>2. \/ check' = [check EXCEPT ![c].pc = "lookup"]
        \/ check' = [check EXCEPT ![c] = NoCheck]
    BY <1>4 DEF Verify
  <2>3. check[c].pc = "keys" /\ check[c].app \in App /\ check[c].jwt \in Jwt /\ check[c].idn = None
    BY <1>4 DEF Verify, FederationInv, Asking
  <2>4. CASE check' = [check EXCEPT ![c].pc = "lookup"]
    BY <2>1, <2>3, <2>4 DEF Checks, FederationInv, Asking, IdentityOfFederation
  <2>5. CASE check' = [check EXCEPT ![c] = NoCheck]
    BY <2>1, <2>5 DEF NoCheck, Checks, FederationInv, Asking, IdentityOfFederation
  <2> QED
    BY <2>2, <2>4, <2>5
<1>5. ASSUME NEW c \in Caller, Lookup(c)
      PROVE  check' \in [Caller -> Checks] /\ Asking' /\ IdentityOfFederation'
  <2>1. check[c].pc = "lookup" /\ call' = call
    BY <1>5 DEF Lookup, cacheVars
  <2>2. CASE check' = [check EXCEPT ![c] = NoCheck]
    BY <2>1, <2>2 DEF NoCheck, Checks, FederationInv, Asking, IdentityOfFederation
  <2>3. ASSUME NEW i \in FederatedLogin(check[c].app, check[c].jwt),
               check' = [check EXCEPT ![c] = [pc |-> "done", app |-> check[c].app,
                                              jwt |-> check[c].jwt, from |-> 0, idn |-> i]]
        PROVE  check' \in [Caller -> Checks] /\ Asking' /\ IdentityOfFederation'
    <3>1. check'[c] = [pc |-> "done", app |-> check[c].app, jwt |-> check[c].jwt,
                       from |-> 0, idn |-> i]
          /\ \A d \in Caller : d # c => check'[d] = check[d]
      BY <2>3 DEF Checks, FederationInv
    <3>2. check' \in [Caller -> Checks]
      BY <2>3 DEF FederatedLogin, Checks, FederationInv
    <3> QED
      BY <2>1, <3>1, <3>2
      DEF FederatedLogin, RowOf, FederationInv, Asking, IdentityOfFederation
  <2> QED
    BY <1>5, <2>2, <2>3 DEF Lookup
<1>6. CASE UNCHANGED federationVars
  BY <1>6 DEF federationVars, cacheVars, FederationInv, Asking, IdentityOfFederation
<1> QED
  BY <1>2, <1>3, <1>4, <1>5, <1>6 DEF FederationNext

\* The invariant of the service, for any issuers, keys, tokens and requests.
THEOREM FederationInvariance == FederationSpec => []FederationInv
  BY FederationInitInv, FederationStepInv, PTL DEF FederationSpec

\* Every variable of the service and of its cache has its type.
THEOREM FederationTypeCorrect == FederationSpec => []TypeOK
  BY FederationInvariance, PTL DEF FederationInv, CacheInv, TypeOK

\* The identity returned is the app's, by way of the federation with the token's
\* issuer (RetrieveIdnByFederatedLogin).
THEOREM FederationIdentity == FederationSpec => []IdentityOfFederation
  BY FederationInvariance, PTL DEF FederationInv

\* A token passes only if its own issuer published the key that signed it, since
\* it was asked, and is good at that moment (jws.Validate, claims.validate).
THEOREM FederationGenuine == FederationSpec => GenuineAtAcceptance
<1> DEFINE Genuine(c, f) ==
      \E k \in Key : /\ k.pair = check[c].jwt.signer /\ k.use = "sig"
                     /\ \/ k \in published[f.uri]
                        \/ changed[f.uri][k] >= call[c].got.asked
<1> DEFINE Good(c) ==
      /\ check[c].jwt.alg = "RS256" /\ check[c].jwt.iat <= now /\ now <= check[c].jwt.exp
      /\ \E f \in RowOf(check[c].app, check[c].jwt.iss) : Genuine(c, f)
<1>1. ASSUME FederationInv, [FederationNext]_federationVars, NEW c \in Caller, Passes(c)
      PROVE  Good(c)
  <2>1. Verify(c)
    <3>1. \A d \in Caller :
            /\ \A app \in App, t \in Jwt : ~CheckJwt(d, app, t)
            /\ Verify(d) => d = c
            /\ ~Lookup(d)
      BY <1>1 DEF Passes, CheckJwt, NoCheck, Verify, Lookup, FederationInv, Checks
    <3> QED
      BY <1>1, <3>1 DEF Passes, FederationNext, federationVars
  <2> DEFINE t == check[c].jwt
  <2>2. PICK k \in SelectKeys(call[c].got.keys, t.kid) :
          call[c].got # None /\ Verified(k, t) /\ ClaimsValid(t, now)
    BY <1>1, <2>1 DEF Verify, Passes, NoCheck, ClaimsTime, FederationInv, Checks
  <2>3. t \in Jwt /\ \E f \in RowOf(check[c].app, t.iss) : call[c].uri = f.uri
    BY <1>1 DEF Passes, FederationInv, Asking
  <2>4. t.alg = "RS256" /\ t.iat <= now /\ now <= t.exp
    BY <1>1, <2>2, <2>3, JwtAssumption
    DEF Verified, Signature, ClaimsValid, FederationInv, CacheInv, CacheTypeOK
  <2>5. call[c].got \in Answer /\ k \in Key /\ k \in call[c].got.keys
    BY <1>1, <2>2 DEF SelectKeys, Answer, Calls, FederationInv, CacheInv, CacheTypeOK
  <2>6. Faithful(call[c].uri, call[c].got)
    BY <1>1, <2>1, <2>2 DEF Verify, Done, FederationInv, CacheInv, AsPublished
  <2>7. k \in published[call[c].uri] \/ changed[call[c].uri][k] >= call[c].got.asked
    BY <2>5, <2>6 DEF Faithful
  <2> QED
    BY <2>2, <2>3, <2>4, <2>5, <2>7 DEF Verified, Signature
<1>2. FederationInv /\ [FederationNext]_federationVars =>
        [\A c \in Caller : Passes(c) => Good(c)]_federationVars
  BY <1>1
<1>3. [][\A c \in Caller : Passes(c) => Good(c)]_federationVars => GenuineAtAcceptance
  BY DEF GenuineAtAcceptance
<1> QED
  BY <1>2, <1>3, FederationInvariance, PTL DEF FederationSpec

\* A good token whose key the issuer publishes is refused, once the federation is
\* found, only for a cause outside it: the fetch failed, the issuer answered with an error, or the key has changed
\* since the answer in use was asked for (mkJwkFunc, jws.Validate, cacheFetch).
THEOREM FederationRefusedForCause == FederationSpec => RefusedForCause
<1> DEFINE Wanted(c, k) ==
      /\ k.kid = check[c].jwt.kid /\ Verified(k, check[c].jwt) /\ ClaimsValid(check[c].jwt, now)
      /\ \A other \in Key : other.kid = k.kid => other = k
<1> DEFINE Cause(c, f, k) ==
      call[c].got = None \/ call[c].got.outage \/ changed[f.uri][k] >= call[c].got.asked
<1> DEFINE Caused(c) ==
      \A f \in RowOf(check[c].app, check[c].jwt.iss) :
        \A k \in published[f.uri] : Wanted(c, k) => Cause(c, f, k)
<1>1. ASSUME FederationInv, [FederationNext]_federationVars, NEW c \in Caller, Refuses(c)
      PROVE  Caused(c)
  <2>1. Verify(c)
    <3>1. \A d \in Caller :
            /\ \A app \in App, t \in Jwt : CheckJwt(d, app, t) => d # c
            /\ Verify(d) => d = c
            /\ Lookup(d) => d # c
      BY <1>1 DEF Refuses, CheckJwt, NoCheck, Verify, Lookup, FederationInv, Checks
    <3>2. \A d \in Caller :
            /\ \A app \in App, t \in Jwt : ~CheckJwt(d, app, t)
            /\ ~Lookup(d)
      BY <1>1, <3>1 DEF Refuses, CheckJwt, Lookup, NoCheck, FederationInv, Checks
    <3> QED
      BY <1>1, <3>1, <3>2 DEF Refuses, FederationNext, federationVars
  <2> DEFINE t == check[c].jwt
  <2> SUFFICES ASSUME NEW f \in RowOf(check[c].app, t.iss), NEW k \in published[f.uri],
                      Wanted(c, k), call[c].got # None, ~call[c].got.outage
               PROVE  changed[f.uri][k] >= call[c].got.asked
    OBVIOUS
  <2>2. f.uri \in Uri /\ call[c].uri = f.uri /\ k \in Key
    <3>1. PICK g \in RowOf(check[c].app, t.iss) : call[c].uri = g.uri
      BY <1>1 DEF Refuses, FederationInv, Asking
    <3>2. f = g
      BY <3>1, UniqueAssumption DEF RowOf
    <3> QED
      BY <1>1, <3>1, <3>2, RowAssumption DEF RowOf, FederationInv, CacheInv, CacheTypeOK
  <2>3. call[c].got \in Answer
    BY <1>1 DEF Calls, FederationInv, CacheInv, CacheTypeOK
  <2>4. k \notin call[c].got.keys
    <3>1. PICK found : found = SelectKeys(call[c].got.keys, t.kid)
                       /\ (found = {} \/ \E x \in found : ~(Verified(x, t) /\ ClaimsValid(t, now)))
      BY <1>1, <2>1 DEF Verify, Refuses, ClaimsTime, FederationInv, Checks
    <3>2. found \subseteq {k}
      BY <2>3, <3>1 DEF SelectKeys, Answer
    <3> QED
      BY <3>1, <3>2 DEF SelectKeys
  <2>5. Faithful(f.uri, call[c].got)
    BY <1>1, <2>1, <2>2 DEF Verify, Done, FederationInv, CacheInv, AsPublished
  <2> QED
    BY <2>2, <2>4, <2>5 DEF Faithful
<1>2. FederationInv /\ [FederationNext]_federationVars =>
        [\A c \in Caller : Refuses(c) => Caused(c)]_federationVars
  BY <1>1
<1>3. [][\A c \in Caller : Refuses(c) => Caused(c)]_federationVars => RefusedForCause
  BY DEF RefusedForCause
<1> QED
  BY <1>2, <1>3, FederationInvariance, PTL DEF FederationSpec

================================================================================
