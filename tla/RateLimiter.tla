----------------------------- MODULE RateLimiter -----------------------------
(***************************************************************************)
(* RateLimiterService (services/rate-limiter.service.ts): the token bucket of *)
(* one limiter key, kept in storage and cached by every instance. Requests   *)
(* call tryConsume and, when it denies, getWaitTimeMs, as processTask does.   *)
(*                                                                         *)
(* A cached bucket is an object that calls of one instance share and change   *)
(* in place; a bucket read from storage is a copy (MongoDB with lean(), Redis *)
(* with JSON). Tokens are counted in parts of 1/TimeMS, so a refill, which is *)
(* (elapsed / refillTimeMs) * maxTokens, is exact.                           *)
(***************************************************************************)
EXTENDS Integers, FiniteSets

CONSTANTS
    Instances,          \* processes with a RateLimiterService each
    Callers,            \* requests that may be in service at the same time
    InstanceOf,         \* the instance that serves a caller
    Nobody,             \* not an instance
    Several,            \* not an instance either
    Tokens, TimeMS,     \* RateLimiterOptions of the key
    CacheTTL,           \* CACHE_TTL
    Dynamic,            \* is the limiter registered at run time?
    MaxTime,            \* the clock stops here
    MaxRequests,        \* calls of tryConsume in all
    MaxDisruptions      \* restarts, evictions and unregistrations in all

ASSUME LimiterAssumption ==
    /\ IsFiniteSet(Instances) /\ IsFiniteSet(Callers)
    /\ InstanceOf \in [Callers -> Instances]
    /\ Nobody \notin Instances /\ Several \notin Instances /\ Nobody # Several
    /\ Tokens \in Nat \ {0} /\ TimeMS \in Nat \ {0} /\ CacheTTL \in Nat
    /\ Dynamic \in BOOLEAN
    /\ MaxTime \in Nat /\ MaxRequests \in Nat /\ MaxDisruptions \in Nat

VARIABLES
    now,            \* Date.now()
    stored,         \* the bucket in storage
    heap,           \* the bucket objects of all instances
    cache,          \* buckets: what each instance has cached for the key
    registered,     \* dynamicLimiters: the instances that know the limiter
    request,        \* the calls being served
    deleting,       \* the instances whose deleteRateLimiterBucket is on its way
    granted,        \* history: how many tokens had been granted by each moment
    requests, disruptions,  \* history: what the bounds count
    served,         \* history: the instance all requests came to one by one
    lost, deletes,  \* history: consumed tokens a restart lost, buckets deleted
    waitOver        \* history: when the wait told last is over

vars == <<now, stored, heap, cache, registered, request, deleting,
          granted, requests, disruptions, served, lost, deletes, waitOver>>
history == <<granted, requests, disruptions, served, lost, deletes, waitOver>>

----------------------------------------------------------------------------
(* Buckets *)

NoBucket == [tokens |-> 0, lastRefill |-> -1]
Buckets == [tokens : 0 .. Tokens * TimeMS, lastRefill : 0 .. MaxTime]

\* One object more than can be referred to, so that there is always a free one.
Objects == 1 .. Cardinality(Instances) + Cardinality(Callers) + 1
NoObject == 0
NoEntry == [bucket |-> NoObject, expiry |-> 0]

NewBucket == [tokens |-> Tokens * TimeMS, lastRefill |-> now]

\* Mutant of Capped: without Math.min.
Capped_NoMin(n) == n

Capped(n) == IF n > Tokens * TimeMS THEN Tokens * TimeMS ELSE n

\* Mutant of Refilled: lastRefill is not moved.
Refilled_KeepsLastRefill(b) ==
    [b EXCEPT !.tokens = Capped(@ + (now - b.lastRefill) * Tokens)]

Refilled(b) ==
    IF now - b.lastRefill <= 0 THEN b
    ELSE [tokens |-> Capped(b.tokens + (now - b.lastRefill) * Tokens),
          lastRefill |-> now]

\* Mutant of HasToken: > for >=.
HasToken_More(b) == b.tokens > TimeMS

HasToken(b) == b.tokens >= TimeMS
Consumed(b) == [b EXCEPT !.tokens = @ - TimeMS]

\* Mutant of WaitTime: rounded down.
WaitTime_Floor(b) == IF HasToken(b) THEN 0 ELSE (TimeMS - b.tokens) \div Tokens

\* Math.ceil((1 - tokens) / (maxTokens / refillTimeMs))
WaitTime(b) ==
    IF HasToken(b) THEN 0 ELSE (TimeMS - b.tokens + Tokens - 1) \div Tokens

----------------------------------------------------------------------------
(* The cache *)

Cached(i) == cache[i].bucket # NoObject /\ cache[i].expiry > now
Dropped(i) == [cache EXCEPT ![i] = NoEntry]
EntryOf(o) == [bucket |-> o, expiry |-> now + CacheTTL]

Referenced == {cache[i].bucket : i \in Instances} \cup {request[c].bucket : c \in Callers}
FreeObject == CHOOSE o \in Objects : o \notin Referenced

\* A new object is made; what nothing refers to any more is collected.
Allocated(b) ==
    [o \in Objects |-> IF o = FreeObject THEN b
                       ELSE IF o \in Referenced THEN heap[o] ELSE NoBucket]

Idle == [at |-> "idle", bucket |-> NoObject, saving |-> NoBucket, grants |-> FALSE]

Init ==
    /\ now = 0
    /\ stored = NoBucket
    /\ heap = [o \in Objects |-> NoBucket]
    /\ cache = [i \in Instances |-> NoEntry]
    /\ registered = IF Dynamic THEN {} ELSE Instances
    /\ request = [c \in Callers |-> Idle]
    /\ deleting = {}
    /\ granted = [s \in 0 .. MaxTime |-> 0]
    /\ requests = 0 /\ disruptions = 0
    /\ served = Nobody
    /\ lost = 0 /\ deletes = 0
    /\ waitOver = -1

----------------------------------------------------------------------------
(* tryConsume *)

InService == {c \in Callers : request[c].at # "idle"}

\* Bookkeeping of a call: do all requests come to one instance, one at a time?
CountRequest(c) ==
    /\ requests < MaxRequests
    /\ requests' = requests + 1
    /\ served' = IF InService = {} /\ served \in {Nobody, InstanceOf[c]}
                 THEN InstanceOf[c] ELSE Several

Grant ==
    /\ granted' = [granted EXCEPT ![now] = @ + 1]
    /\ waitOver' = -1

\* Lines 84-107: refill the bucket, take a token if there is one, save.
Draw(c, o, b) ==
    LET full == Refilled(b)
        left == IF HasToken(full) THEN Consumed(full) ELSE full
    IN  /\ heap' = IF o = FreeObject THEN Allocated(left) ELSE [heap EXCEPT ![o] = left]
        /\ request' = [request EXCEPT
               ![c] = [at |-> "save", bucket |-> o, saving |-> left,
                       grants |-> HasToken(full)]]
        /\ IF HasToken(full) THEN Grant ELSE UNCHANGED <<granted, waitOver>>

\* The bucket is cached: everything up to the save happens at once.
TryCached(c) ==
    /\ request[c].at = "idle"
    /\ InstanceOf[c] \in registered
    /\ Cached(InstanceOf[c])
    /\ CountRequest(c)
    /\ Draw(c, cache[InstanceOf[c]].bucket, heap[cache[InstanceOf[c]].bucket])
    /\ UNCHANGED <<now, stored, cache, registered, deleting, disruptions, lost, deletes>>

TryUncached(c) ==
    /\ request[c].at = "idle"
    /\ InstanceOf[c] \in registered
    /\ ~Cached(InstanceOf[c])
    /\ CountRequest(c)
    /\ cache' = Dropped(InstanceOf[c])
    /\ request' = [request EXCEPT ![c].at = "fetch"]
    /\ UNCHANGED <<now, stored, heap, registered, deleting,
                   granted, disruptions, lost, deletes, waitOver>>

Fetch(c) ==
    /\ request[c].at = "fetch"
    /\ stored # NoBucket
    /\ Draw(c, FreeObject, stored)
    /\ UNCHANGED <<now, stored, cache, registered, deleting,
                   requests, disruptions, served, lost, deletes>>

\* Lines 66-80: the first request of a key is granted from a full bucket.
Create(c) ==
    /\ request[c].at = "fetch"
    /\ stored = NoBucket
    /\ heap' = Allocated(NewBucket)
    /\ request' = [request EXCEPT
           ![c] = [at |-> "save", bucket |-> FreeObject, saving |-> NewBucket,
                   grants |-> TRUE]]
    /\ Grant
    /\ UNCHANGED <<now, stored, cache, registered, deleting,
                   requests, disruptions, served, lost, deletes>>

\* The write reaches the storage: the values the bucket had when it was saved.
Save(c) ==
    /\ request[c].at = "save"
    /\ stored' = request[c].saving
    /\ request' = [request EXCEPT ![c].at = "cache", ![c].saving = NoBucket]
    /\ UNCHANGED <<now, heap, cache, registered, deleting, history>>

\* setCachedBucket, and the result: true, or false and getWaitTimeMs follows.
CacheBucket(c) ==
    /\ request[c].at = "cache"
    /\ cache' = [cache EXCEPT ![InstanceOf[c]] = EntryOf(request[c].bucket)]
    /\ request' = [request EXCEPT
           ![c] = IF request[c].grants THEN Idle ELSE [Idle EXCEPT !.at = "wait"]]
    /\ UNCHANGED <<now, stored, heap, registered, deleting, history>>

----------------------------------------------------------------------------
(* getWaitTimeMs *)

\* A second wait told before the first is over does not put off the first.
Tell(ms) ==
    waitOver' = IF waitOver = -1 THEN now + ms ELSE waitOver

\* No limiter means no waiting (lines 121-124).
WaitUnregistered(c) ==
    /\ request[c].at = "wait"
    /\ InstanceOf[c] \notin registered
    /\ request' = [request EXCEPT ![c] = Idle]
    /\ UNCHANGED <<now, stored, heap, cache, registered, deleting, history>>

WaitCached(c) ==
    /\ request[c].at = "wait"
    /\ InstanceOf[c] \in registered
    /\ Cached(InstanceOf[c])
    /\ Tell(WaitTime(heap[cache[InstanceOf[c]].bucket]))
    /\ request' = [request EXCEPT ![c] = Idle]
    /\ UNCHANGED <<now, stored, heap, cache, registered, deleting,
                   granted, requests, disruptions, served, lost, deletes>>

WaitUncached(c) ==
    /\ request[c].at = "wait"
    /\ InstanceOf[c] \in registered
    /\ ~Cached(InstanceOf[c])
    /\ cache' = Dropped(InstanceOf[c])
    /\ request' = [request EXCEPT ![c].at = "waitFetch"]
    /\ UNCHANGED <<now, stored, heap, registered, deleting, history>>

WaitFetch(c) ==
    /\ request[c].at = "waitFetch"
    /\ IF stored = NoBucket
       THEN Tell(0) /\ UNCHANGED <<heap, cache>>
       ELSE /\ Tell(WaitTime(stored))
            /\ heap' = Allocated(stored)
            /\ cache' = [cache EXCEPT ![InstanceOf[c]] = EntryOf(FreeObject)]
    /\ request' = [request EXCEPT ![c] = Idle]
    /\ UNCHANGED <<now, stored, registered, deleting,
                   granted, requests, disruptions, served, lost, deletes>>

----------------------------------------------------------------------------
(* Registration, and what happens around the service *)

Register(i) ==
    /\ Dynamic /\ i \notin registered
    /\ registered' = registered \cup {i}
    /\ UNCHANGED <<now, stored, heap, cache, request, deleting, history>>

Disrupt ==
    /\ disruptions < MaxDisruptions
    /\ disruptions' = disruptions + 1

\* unregisterDynamicLimiter does not await the deletion it starts. While one is
\* on its way no second one of the same instance is modelled.
Unregister(i) ==
    /\ Dynamic /\ i \in registered /\ i \notin deleting
    /\ Disrupt
    /\ registered' = registered \ {i}
    /\ cache' = Dropped(i)
    /\ deleting' = deleting \cup {i}
    /\ UNCHANGED <<now, stored, heap, request,
                   granted, requests, served, lost, deletes, waitOver>>

DeleteBucket(i) ==
    /\ i \in deleting
    /\ stored' = NoBucket
    /\ deleting' = deleting \ {i}
    /\ deletes' = IF stored = NoBucket THEN deletes ELSE deletes + 1
    /\ UNCHANGED <<now, heap, cache, registered, request,
                   granted, requests, disruptions, served, lost, waitOver>>

\* Another key overfills the cache: the 100 oldest entries go, this one included.
Evict(i) ==
    /\ cache[i] # NoEntry
    /\ Disrupt
    /\ cache' = Dropped(i)
    /\ UNCHANGED <<now, stored, heap, registered, request, deleting,
                   granted, requests, served, lost, deletes, waitOver>>

\* The process stops and starts again: its cache, limiters and requests are gone.
Restart(i) ==
    /\ Disrupt
    /\ cache' = Dropped(i)
    /\ registered' = IF Dynamic THEN registered \ {i} ELSE registered
    /\ deleting' = deleting \ {i}
    /\ request' = [c \in Callers |-> IF InstanceOf[c] = i THEN Idle ELSE request[c]]
    /\ lost' = lost + Cardinality({c \in Callers :
           InstanceOf[c] = i /\ request[c].at = "save" /\ request[c].grants})
    /\ UNCHANGED <<now, stored, heap, granted, requests, served, deletes, waitOver>>

Tick ==
    /\ now < MaxTime
    /\ now' = now + 1
    /\ granted' = [granted EXCEPT ![now + 1] = granted[now]]
    /\ UNCHANGED <<stored, heap, cache, registered, request, deleting,
                   requests, disruptions, served, lost, deletes, waitOver>>

TryConsume(c) ==
    TryCached(c) \/ TryUncached(c) \/ Fetch(c) \/ Create(c) \/ Save(c) \/ CacheBucket(c)

GetWaitTimeMs(c) ==
    WaitUnregistered(c) \/ WaitCached(c) \/ WaitUncached(c) \/ WaitFetch(c)

Next ==
    \/ \E c \in Callers : TryConsume(c) \/ GetWaitTimeMs(c)
    \/ \E i \in Instances :
          Register(i) \/ Unregister(i) \/ DeleteBucket(i) \/ Evict(i) \/ Restart(i)
    \/ Tick

Spec == Init /\ [][Next]_vars

----------------------------------------------------------------------------
(* Properties *)

TypeOK ==
    /\ now \in 0 .. MaxTime
    /\ stored \in Buckets \cup {NoBucket}
    /\ heap \in [Objects -> Buckets \cup {NoBucket}]
    /\ cache \in [Instances -> [bucket : Objects \cup {NoObject}, expiry : 0 .. MaxTime + CacheTTL]]
    /\ registered \subseteq Instances /\ deleting \subseteq Instances
    /\ request \in [Callers ->
           [at : {"idle", "fetch", "save", "cache", "wait", "waitFetch"},
            bucket : Objects \cup {NoObject},
            saving : Buckets \cup {NoBucket}, grants : BOOLEAN]]
    /\ granted \in [0 .. MaxTime -> 0 .. MaxRequests]
    /\ requests \in 0 .. MaxRequests /\ disruptions \in 0 .. MaxDisruptions
    /\ served \in Instances \cup {Nobody, Several}
    /\ lost \in Nat /\ deletes \in Nat
    /\ waitOver \in Int

\* How many tokens were granted after the moment s, which may be before time 0.
GrantedBy(s) == IF s < 0 THEN 0 ELSE granted[s]
GrantedAfter(s) == granted[now] - GrantedBy(s)

\* The decision to deny caller c: its bucket was refilled and held no token.
Denies(c) == request[c].at # "save" /\ request'[c].at = "save" /\ ~request'[c].grants

\* tryConsume (rate-limiter.service.ts:84-110) denies a request only when the
\* limit is used up: during the last refillTimeMs at least maxTokens requests
\* were granted. Stale caches, late saves, evictions, restarts and deletions
\* may grant too much, but never deny too much.
DenialIsGenuine ==
    [][\A c \in Callers : Denies(c) => GrantedAfter(now - TimeMS) >= Tokens]_vars

\* The limit persists (README, Rate Limiting): as long as requests come to one
\* instance one at a time, an expired or evicted cache entry, a restart or a
\* denial never fills the bucket. What is granted in all is the full bucket, one
\* for its creation and what time refills; a restart may lose what was consumed
\* but not saved, and a deleted bucket starts anew.
WithinBudget ==
    served # Several =>
        TimeMS * granted[now]
            <= TimeMS * ((1 + deletes) * (Tokens + 1) + lost) + Tokens * now

\* getWaitTimeMs (rate-limiter.service.ts:113-156): who waits as long as it says
\* is granted, unless another request was granted meanwhile. For requests that
\* come to one instance one at a time.
WaitSuffices ==
    [][served # Several /\ waitOver # -1 /\ now >= waitOver =>
          \A c \in Callers : ~Denies(c)]_vars
=============================================================================
