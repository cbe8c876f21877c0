--------------------------- MODULE RateLimiterProofs ---------------------------
(***************************************************************************)
(* Theorems about RateLimiter for every value of its constants.            *)
(***************************************************************************)
EXTENDS RateLimiter, FiniteSetTheorems, TLAPS

Full == Tokens * TimeMS

Live == Referenced \ {NoObject}

At(c, steps) == request[c].at \in steps

Fetching == {c \in Callers : At(c, {"fetch"})}

(***************************************************************************)
(* What is missing from a bucket was granted: since any moment of the last *)
(* TimeMS before its refill, it has gained what time refills and lost no   *)
(* more than what was granted to anybody.                                  *)
(***************************************************************************)
Backed(b) ==
    \A s \in b.lastRefill - TimeMS .. b.lastRefill :
        b.tokens + TimeMS * GrantedAfter(s) >= Tokens * (b.lastRefill - s)

Sound(b) == b \in Buckets /\ b.lastRefill <= now /\ Backed(b)

ClockOK ==
    /\ now \in 0 .. MaxTime
    /\ granted \in [0 .. MaxTime -> 0 .. MaxRequests]
    /\ \A s \in 0 .. now : granted[s] <= granted[now]
    /\ requests \in 0 .. MaxRequests /\ disruptions \in 0 .. MaxDisruptions
    /\ granted[now] + Cardinality(Fetching) <= requests
    /\ lost \in Nat /\ deletes \in Nat /\ waitOver \in Int
    /\ served \in Instances \cup {Nobody, Several}

BucketsOK ==
    /\ stored = NoBucket \/ Sound(stored)
    /\ heap \in [Objects -> Buckets \cup {NoBucket}]
    /\ \A o \in Live : Sound(heap[o])

InstancesOK ==
    /\ cache \in [Instances -> [bucket : Objects \cup {NoObject}, expiry : 0 .. MaxTime + CacheTTL]]
    /\ registered \subseteq Instances /\ deleting \subseteq Instances

Requests ==
    [at : {"idle", "fetch", "save", "cache", "wait", "waitFetch"},
     bucket : Objects \cup {NoObject}, saving : Buckets \cup {NoBucket}, grants : BOOLEAN]

RequestAt(c) ==
    /\ At(c, {"save", "cache"}) <=> request[c].bucket # NoObject
    /\ At(c, {"save"}) => Sound(request[c].saving)

RequestsOK == request \in [Callers -> Requests] /\ \A c \in Callers : RequestAt(c)

TypeInv == ClockOK /\ BucketsOK /\ InstancesOK /\ RequestsOK

(***************************************************************************)
(* While requests come to one instance one by one, there is one object,    *)
(* and the storage has its values but while they are being saved.          *)
(***************************************************************************)
Saving == \E c \in Callers : At(c, {"save"})

OneByOne ==
    served # Several =>
        /\ \A c, d \in InService : c = d /\ InstanceOf[c] = served
        /\ \A i \in Instances : i # served => cache[i].bucket = NoObject
        /\ \A o, p \in Live : o = p
        /\ (\E c \in Callers : At(c, {"fetch", "waitFetch"})) => Live = {}
        /\ \A c \in Callers : At(c, {"save"}) => heap[request[c].bucket] = request[c].saving
        /\ ~Saving => \A o \in Live : stored \in {NoBucket, heap[o]}

(***************************************************************************)
(* The budget. What was granted and what is still in a bucket, less what   *)
(* time has refilled, is what deleted buckets and lost saves allow, and    *)
(* one bucket besides.                                                     *)
(***************************************************************************)
Spent == TimeMS * granted[now]
Due == Tokens * now
Balance(b) == b.tokens - Tokens * b.lastRefill

Gone == TimeMS * (deletes * (Tokens + 1) + lost)
Allowed == TimeMS * ((1 + deletes) * (Tokens + 1) + lost)

Granting == \E c \in Callers : At(c, {"save"}) /\ request[c].grants

\* No bucket is stored, and none is on its way; or one is, just created.
NoneCreated == Spent <= Gone + Due /\ \A o \in Live : Spent + Balance(heap[o]) <= Gone

OneCreated ==
    /\ Granting
    /\ Spent <= Gone + Due + TimeMS
    /\ \A o \in Live : Spent + Balance(heap[o]) <= Allowed

Stored ==
    /\ \A o \in Live : Spent + Balance(heap[o]) <= Allowed
    /\ Spent + Balance(stored) <= Allowed + (IF Granting THEN TimeMS ELSE 0)

InBudget ==
    served # Several =>
        IF stored = NoBucket THEN NoneCreated \/ OneCreated ELSE Stored

(***************************************************************************)
(* The wait. A bucket promises a token if it will have one when the wait   *)
(* is over.                                                                *)
(***************************************************************************)
Later == IF waitOver > now THEN waitOver ELSE now
Ahead == Tokens * Later

Promises(b) == Balance(b) + Ahead >= TimeMS

Promised ==
    served # Several /\ waitOver # -1 =>
        /\ stored # NoBucket => Promises(stored)
        /\ \A o \in Live : Promises(heap[o])

-----------------------------------------------------------------------------
(* Arithmetic *)

LEMMA Split ==
    ASSUME NEW n \in Int, NEW x \in Int, NEW y \in Int
    PROVE  /\ n * (x + y) = n * x + n * y
           /\ n * (x - y) = n * x - n * y
           /\ n * x \in Int
           /\ x * n = n * x
OBVIOUS

LEMMA Grows ==
    ASSUME NEW n \in Nat, NEW x \in Int, NEW y \in Int, x <= y
    PROVE  n * x <= n * y
<1>1. y - x \in Nat
  OBVIOUS
<1>2. n * (y - x) \in Nat
  BY <1>1
<1>3. QED
  BY <1>2, Split

LEMMA FullType ==
    /\ Tokens \in Nat \ {0} /\ TimeMS \in Nat \ {0}
    /\ Full \in Nat /\ Full >= TimeMS
<1>1. Tokens \in Nat \ {0} /\ TimeMS \in Nat \ {0}
  BY LimiterAssumption
<1>2. Full \in Nat
  BY <1>1 DEF Full
<1>3. TimeMS * 1 <= TimeMS * Tokens
  BY <1>1, Grows
<1>4. QED
  BY <1>1, <1>2, <1>3, Split DEF Full

LEMMA Quotient ==
    ASSUME NEW x \in Int, NEW n \in Nat \ {0}
    PROVE  x \div n \in Int /\ n * (x \div n) > x - n
<1>1. x \div n \in Int /\ x % n \in 0 .. n - 1
  OBVIOUS
<1>2. x = n * (x \div n) + (x % n)
  OBVIOUS
<1>3. QED
  BY <1>1, <1>2
-----------------------------------------------------------------------------
(* Buckets *)

LEMMA BucketsType ==
    /\ Buckets = [tokens : 0 .. Full, lastRefill : 0 .. MaxTime]
    /\ NoBucket \notin Buckets
    /\ MaxTime \in Nat /\ MaxRequests \in Nat /\ CacheTTL \in Nat /\ MaxDisruptions \in Nat
BY LimiterAssumption DEF Buckets, NoBucket, Full

\* refillBucket adds what time has brought, up to the limit.
LEMMA RefillEffect ==
    ASSUME ClockOK, NEW b \in Buckets, b.lastRefill <= now
    PROVE  LET r == Refilled(b)
               brought == b.tokens + Tokens * (now - b.lastRefill)
           IN  /\ r \in Buckets /\ r.lastRefill = now
               /\ brought \in Nat
               /\ r.tokens <= brought
               /\ r.tokens = brought \/ r.tokens = Full
<1> DEFINE passed == now - b.lastRefill
<1>1. /\ b.tokens \in 0 .. Full /\ b.lastRefill \in 0 .. MaxTime /\ now \in 0 .. MaxTime
      /\ b = [tokens |-> b.tokens, lastRefill |-> b.lastRefill]
  BY BucketsType DEF ClockOK
<1>2. passed \in Nat /\ Tokens * passed \in Nat /\ passed * Tokens = Tokens * passed
  BY <1>1, FullType, BucketsType, Split
<1>3. CASE passed = 0
  <2>1. /\ Refilled(b) = b /\ b.lastRefill = now
        /\ b.tokens + Tokens * passed = b.tokens
    <3>1. Refilled(b) = b /\ b.lastRefill = now
      BY <1>1, <1>3, BucketsType DEF Refilled
    <3>2. Tokens * 0 = 0
      BY FullType
    <3>3. QED
      BY <1>1, <1>3, <3>1, <3>2, BucketsType
  <2> HIDE DEF passed
  <2>2. b.tokens + Tokens * passed \in Nat
    BY <1>1, <2>1, FullType
  <2>3. QED
    BY <1>1, <2>1, <2>2 DEF passed
<1>4. CASE passed > 0
  <2>1. Refilled(b) = [tokens |-> Capped(b.tokens + Tokens * passed), lastRefill |-> now]
    BY <1>2, <1>4 DEF Refilled
  <2>2. /\ Capped(b.tokens + Tokens * passed) \in 0 .. Full
        /\ \/ Capped(b.tokens + Tokens * passed) = b.tokens + Tokens * passed
           \/ /\ Capped(b.tokens + Tokens * passed) = Full
              /\ Full <= b.tokens + Tokens * passed
    BY <1>1, <1>2, FullType DEF Capped, Full
  <2>3. QED
    BY <1>1, <1>2, <2>1, <2>2, BucketsType, FullType
<1>5. QED
  BY <1>2, <1>3, <1>4

LEMMA HistoryFacts ==
    ASSUME ClockOK, NEW s \in Int, s <= now
    PROVE  GrantedAfter(s) \in Nat /\ GrantedBy(s) \in Nat /\ TimeMS * GrantedAfter(s) \in Nat
<1>1. now \in 0 .. MaxTime /\ granted \in [0 .. MaxTime -> 0 .. MaxRequests]
  BY DEF ClockOK
<1>2. GrantedBy(s) \in Nat /\ granted[now] \in Nat /\ GrantedBy(s) <= granted[now]
  BY <1>1, BucketsType DEF ClockOK, GrantedBy
<1>3. QED
  BY <1>2, FullType DEF GrantedAfter

LEMMA NewBucketSound == ClockOK => Sound(NewBucket)
<1> SUFFICES ASSUME ClockOK PROVE Sound(NewBucket)
  OBVIOUS
<1>1. NewBucket = [tokens |-> Full, lastRefill |-> now] /\ now \in 0 .. MaxTime
  BY DEF NewBucket, Full, ClockOK
<1>2. ASSUME NEW s \in now - TimeMS .. now
      PROVE  Full + TimeMS * GrantedAfter(s) >= Tokens * (now - s)
  <2>1. s \in Int /\ s <= now /\ now - s \in Nat /\ now - s <= TimeMS
    BY <1>1, <1>2, FullType, BucketsType
  <2>2. Tokens * (now - s) <= Full /\ Tokens * (now - s) \in Int
    BY <2>1, FullType, Grows DEF Full
  <2>3. QED
    BY <2>1, <2>2, FullType, HistoryFacts
<1>3. NewBucket \in Buckets
  BY <1>1, BucketsType, FullType
<1>4. QED
  BY <1>1, <1>2, <1>3 DEF Sound, Backed

LEMMA RefilledSound ==
    ASSUME ClockOK, NEW b, Sound(b)
    PROVE  Sound(Refilled(b))
<1> DEFINE r == Refilled(b)
<1>1. /\ b \in Buckets /\ b.lastRefill <= now /\ b.tokens \in 0 .. Full
      /\ b.lastRefill \in 0 .. MaxTime /\ now \in 0 .. MaxTime
  BY BucketsType DEF Sound, ClockOK
<1>2. /\ r \in Buckets /\ r.lastRefill = now /\ r.tokens \in Nat
      /\ r.tokens = b.tokens + Tokens * (now - b.lastRefill) \/ r.tokens = Full
  BY <1>1, RefillEffect, BucketsType, FullType
<1> HIDE DEF r
<1>3. ASSUME NEW s \in now - TimeMS .. now
      PROVE  r.tokens + TimeMS * GrantedAfter(s) >= Tokens * (now - s)
  <2>1. /\ s \in Int /\ s <= now /\ now - s \in Nat /\ now - s <= TimeMS
        /\ TimeMS * GrantedAfter(s) \in Nat
    BY <1>1, <1>3, FullType, BucketsType, HistoryFacts
  <2>2. Tokens * (now - s) \in Int /\ Tokens * (now - b.lastRefill) \in Int
    BY <1>1, <2>1, FullType, BucketsType
  <2>3. CASE r.tokens = Full
    <3>1. Tokens * (now - s) <= Full
      BY <2>1, FullType, Grows DEF Full
    <3>2. QED
      BY <2>1, <2>2, <2>3, <3>1, FullType
  <2>4. CASE r.tokens = b.tokens + Tokens * (now - b.lastRefill) /\ s > b.lastRefill
    <3>1. Tokens * (now - s) <= Tokens * (now - b.lastRefill)
      BY <1>1, <2>1, <2>4, FullType, BucketsType, Grows
    <3>2. QED
      BY <1>1, <2>1, <2>2, <2>4, <3>1, FullType
  <2>5. CASE r.tokens = b.tokens + Tokens * (now - b.lastRefill) /\ s <= b.lastRefill
    <3>1. s \in b.lastRefill - TimeMS .. b.lastRefill
      BY <1>1, <2>1, <2>5, FullType, BucketsType
    <3>2. b.tokens + TimeMS * GrantedAfter(s) >= Tokens * (b.lastRefill - s)
      BY <3>1 DEF Sound, Backed
    <3>3. Tokens * (now - s) = Tokens * (now - b.lastRefill) + Tokens * (b.lastRefill - s)
      <4>1. now - s = (now - b.lastRefill) + (b.lastRefill - s)
        BY <1>1, <2>1
      <4>2. now - b.lastRefill \in Int /\ b.lastRefill - s \in Int /\ Tokens \in Int
        BY <1>1, <2>1, FullType
      <4>3. QED
        BY <4>1, <4>2, Split
    <3>4. Tokens * (b.lastRefill - s) \in Int
      BY <1>1, <2>1, FullType
    <3>5. QED
      BY <1>1, <2>1, <2>2, <2>5, <3>2, <3>3, <3>4
  <2>6. QED
    BY <1>1, <1>2, <2>1, <2>3, <2>4, <2>5
<1>4. Sound(r)
  BY <1>1, <1>2, <1>3 DEF Sound, Backed
<1>5. QED
  BY <1>4 DEF r

\* What was granted after a moment never becomes less.
HistoryGrows ==
    /\ ClockOK /\ ClockOK'
    /\ now <= now'
    /\ \A s \in Int : s <= now => GrantedAfter(s) <= GrantedAfter(s)'

LEMMA SoundStays ==
    ASSUME HistoryGrows, NEW b, Sound(b)
    PROVE  Sound(b)'
<1>1. /\ b \in Buckets /\ b.lastRefill \in 0 .. MaxTime /\ b.tokens \in 0 .. Full
      /\ b.lastRefill <= now /\ now <= now'
      /\ now \in 0 .. MaxTime /\ now' \in 0 .. MaxTime
  BY BucketsType DEF Sound, HistoryGrows, ClockOK
<1>2. ASSUME NEW s \in b.lastRefill - TimeMS .. b.lastRefill
      PROVE  b.tokens + TimeMS * GrantedAfter(s)' >= Tokens * (b.lastRefill - s)
  <2>1. s \in Int /\ s <= now /\ s <= now'
    BY <1>1, <1>2, FullType, BucketsType
  <2>2. GrantedAfter(s) \in Nat
    BY <2>1, HistoryFacts DEF HistoryGrows
  <2>3. GrantedAfter(s)' \in Int /\ GrantedAfter(s) <= GrantedAfter(s)'
    <3>1. granted' \in [0 .. MaxTime -> 0 .. MaxRequests]
      BY DEF HistoryGrows, ClockOK
    <3>2. granted'[now'] \in Int /\ (s >= 0 => granted'[s] \in Int)
      BY <1>1, <2>1, <3>1, BucketsType
    <3>3. GrantedAfter(s)' \in Int
      BY <2>1, <3>2 DEF GrantedAfter, GrantedBy
    <3>4. QED
      BY <2>1, <3>3 DEF HistoryGrows
  <2>4. TimeMS * GrantedAfter(s) <= TimeMS * GrantedAfter(s)'
    BY <2>2, <2>3, FullType, Grows
  <2>5. b.tokens + TimeMS * GrantedAfter(s) >= Tokens * (b.lastRefill - s)
    BY <1>2 DEF Sound, Backed
  <2>6. /\ TimeMS * GrantedAfter(s) \in Int /\ TimeMS * GrantedAfter(s)' \in Int
        /\ Tokens * (b.lastRefill - s) \in Int
    BY <1>1, <2>1, <2>2, <2>3, FullType
  <2>7. QED
    BY <1>1, <2>4, <2>5, <2>6, FullType
<1>3. QED
  BY <1>1, <1>2, BucketsType DEF Sound, Backed

\* A token that is taken is granted in the same step.
LEMMA ConsumedSound ==
    ASSUME ClockOK, Grant, now' = now, NEW b, Sound(b), b.lastRefill = now, HasToken(b)
    PROVE  Sound(Consumed(b))'
<1> DEFINE left == Consumed(b)
<1>1. /\ b \in Buckets /\ b.lastRefill \in 0 .. MaxTime /\ b.tokens \in 0 .. Full
      /\ now \in 0 .. MaxTime /\ b.tokens >= TimeMS
      /\ b = [tokens |-> b.tokens, lastRefill |-> b.lastRefill]
      /\ granted \in [0 .. MaxTime -> 0 .. MaxRequests]
  BY BucketsType DEF Sound, ClockOK, HasToken
<1>2. left = [tokens |-> b.tokens - TimeMS, lastRefill |-> now]
  BY <1>1 DEF Consumed
<1>3. left \in Buckets
  BY <1>1, <1>2, BucketsType, FullType
<1>4. ASSUME NEW s \in now - TimeMS .. now
      PROVE  (b.tokens - TimeMS) + TimeMS * GrantedAfter(s)' >= Tokens * (now - s)
  <2>1. s \in Int /\ s <= now /\ GrantedAfter(s) \in Nat
    BY <1>1, <1>4, FullType, BucketsType, HistoryFacts
  <2>2. /\ TimeMS * GrantedAfter(s) \in Int /\ Tokens * (now - s) \in Int
        /\ b.tokens + TimeMS * GrantedAfter(s) >= Tokens * (now - s)
    BY <1>1, <1>4, <2>1, FullType DEF Sound, Backed
  <2>3. CASE s < now
    <3>1. GrantedAfter(s)' = GrantedAfter(s) + 1
      BY <1>1, <2>1, <2>3, BucketsType DEF Grant, GrantedAfter, GrantedBy
    <3>2. TimeMS * GrantedAfter(s)' = TimeMS * GrantedAfter(s) + TimeMS
      <4>1. TimeMS * (GrantedAfter(s) + 1) = TimeMS * GrantedAfter(s) + TimeMS * 1
        BY <2>1, FullType, Split
      <4>2. QED
        BY <3>1, <4>1, FullType
    <3>3. QED
      BY <1>1, <2>2, <3>2, FullType
  <2>4. CASE s = now
    <3>1. GrantedAfter(s)' = 0
      BY <1>1, <2>4, BucketsType DEF Grant, GrantedAfter, GrantedBy
    <3>2. TimeMS * 0 = 0 /\ Tokens * 0 = 0
      BY FullType
    <3>3. QED
      BY <1>1, <2>4, <3>1, <3>2, FullType
  <2>5. QED
    BY <1>1, <2>1, <2>3, <2>4, BucketsType
<1>5. Sound(left)'
  <2>1. /\ left.tokens = b.tokens - TimeMS /\ left.lastRefill = now
        /\ left' = left
    BY <1>2 DEF Consumed
  <2>2. QED
    BY <1>1, <1>3, <1>4, <2>1, BucketsType DEF Sound, Backed
<1>6. QED
  BY <1>5
-----------------------------------------------------------------------------
(* Objects *)

\* There are more objects than references to them.
LEMMA FreeObjectIsFree ==
    ASSUME InstancesOK, RequestsOK
    PROVE  /\ FreeObject \in Objects /\ FreeObject \notin Referenced
           /\ NoObject \notin Objects /\ Referenced \subseteq Objects \cup {NoObject}
<1> DEFINE inCaches == {cache[i].bucket : i \in Instances}
           inRequests == {request[c].bucket : c \in Callers}
           n == Cardinality(Instances) + Cardinality(Callers) + 1
<1>1. IsFiniteSet(Instances) /\ IsFiniteSet(Callers)
  BY LimiterAssumption
<1>2. Cardinality(Instances) \in Nat /\ Cardinality(Callers) \in Nat
  BY <1>1, FS_CardinalityType
<1>3. IsFiniteSet(inCaches) /\ Cardinality(inCaches) <= Cardinality(Instances)
  <2> DEFINE f == [i \in Instances |-> cache[i].bucket]
  <2>1. f \in Surjection(Instances, inCaches)
    BY DEF Surjection
  <2>2. QED
    BY <1>1, <2>1, FS_Surjection
<1>4. IsFiniteSet(inRequests) /\ Cardinality(inRequests) <= Cardinality(Callers)
  <2> DEFINE f == [c \in Callers |-> request[c].bucket]
  <2>1. f \in Surjection(Callers, inRequests)
    BY DEF Surjection
  <2>2. QED
    BY <1>1, <2>1, FS_Surjection
<1>5. Referenced = inCaches \cup inRequests
  BY DEF Referenced
<1> HIDE DEF inCaches, inRequests
<1>6. /\ IsFiniteSet(Referenced)
      /\ Cardinality(Referenced) \in Nat
      /\ Cardinality(Referenced) <= Cardinality(Instances) + Cardinality(Callers)
  <2>1. /\ IsFiniteSet(Referenced)
        /\ Cardinality(Referenced)
             = Cardinality(inCaches) + Cardinality(inRequests)
               - Cardinality(inCaches \cap inRequests)
    BY <1>3, <1>4, <1>5, FS_Union
  <2>2. Cardinality(inCaches \cap inRequests) \in Nat
    BY <1>3, FS_Intersection, FS_CardinalityType
  <2>3. /\ Cardinality(inCaches) \in Nat /\ Cardinality(inRequests) \in Nat
        /\ Cardinality(Referenced) \in Nat
    BY <1>3, <1>4, <2>1, FS_CardinalityType
  <2>4. QED
    BY <1>2, <1>3, <1>4, <2>1, <2>2, <2>3
<1>7. n \in Nat /\ Objects = 1 .. n
  BY <1>2 DEF Objects
<1> HIDE DEF n
<1>8. IsFiniteSet(Objects) /\ Cardinality(Objects) = n
  BY <1>7, FS_Interval
<1>9. n > Cardinality(Referenced)
  BY <1>2, <1>6 DEF n
<1>10. \E o \in Objects : o \notin Referenced
  <2> SUFFICES ASSUME Objects \subseteq Referenced PROVE FALSE
    OBVIOUS
  <2>1. Cardinality(Objects) <= Cardinality(Referenced)
    BY <1>6, FS_Subset
  <2>2. QED
    BY <1>6, <1>7, <1>8, <1>9, <2>1
<1>11. FreeObject \in Objects /\ FreeObject \notin Referenced
  BY <1>10 DEF FreeObject
<1>12. QED
  BY <1>7, <1>11 DEF Referenced, NoObject, InstancesOK, RequestsOK, Requests
-----------------------------------------------------------------------------
(* The history and the counters *)

LEMMA StepKinds ==
    ASSUME [Next]_vars
    PROVE  \/ \E c \in Callers : TryConsume(c) \/ GetWaitTimeMs(c)
           \/ \E i \in Instances :
                 Register(i) \/ Unregister(i) \/ DeleteBucket(i) \/ Evict(i) \/ Restart(i)
           \/ Tick
           \/ UNCHANGED vars
BY DEF Next

\* The request of one caller changes.
Replaced(c, q) ==
    /\ request' = [request EXCEPT ![c] = q]
    /\ q \in Requests

LEMMA ReplacedEffect ==
    ASSUME RequestsOK, NEW c \in Callers, NEW q, Replaced(c, q)
    PROVE  /\ request' \in [Callers -> Requests]
           /\ request'[c] = q
           /\ \A d \in Callers : d # c => request'[d] = request[d]
           /\ Fetching' = IF q.at = "fetch" THEN Fetching \cup {c} ELSE Fetching \ {c}
<1>1. /\ request \in [Callers -> Requests]
      /\ request' = [request EXCEPT ![c] = q] /\ q \in Requests
  BY DEF Replaced, RequestsOK
<1>2. QED
  BY <1>1 DEF Fetching, At

LEMMA FetchingFinite ==
    /\ IsFiniteSet(Fetching) /\ Cardinality(Fetching) \in Nat
    /\ \A c \in Callers :
          /\ Cardinality(Fetching \cup {c})
               = IF c \in Fetching THEN Cardinality(Fetching) ELSE Cardinality(Fetching) + 1
          /\ Cardinality(Fetching \ {c})
               = IF c \in Fetching THEN Cardinality(Fetching) - 1 ELSE Cardinality(Fetching)
<1>1. Fetching \subseteq Callers /\ IsFiniteSet(Callers)
  BY LimiterAssumption DEF Fetching
<1>2. IsFiniteSet(Fetching)
  BY <1>1, FS_Subset
<1>3. QED
  BY <1>2, FS_CardinalityType, FS_AddElement, FS_RemoveElement

\* What a call of tryConsume or getWaitTimeMs does to its request.
Idles == {Idle, [Idle EXCEPT !.at = "fetch"], [Idle EXCEPT !.at = "wait"],
          [Idle EXCEPT !.at = "waitFetch"]}

LEMMA IdlesType ==
    /\ Idles \subseteq Requests
    /\ \A q \in Idles : q.bucket = NoObject /\ q.at \notin {"save", "cache"}
<1>1. /\ Idle \in Requests /\ Idle.bucket = NoObject /\ Idle.at = "idle"
  BY DEF Idle, Requests
<1>2. \A at \in {"fetch", "wait", "waitFetch"} :
          /\ [Idle EXCEPT !.at = at] \in Requests
          /\ [Idle EXCEPT !.at = at].bucket = NoObject
          /\ [Idle EXCEPT !.at = at].at = at
  BY <1>1 DEF Requests
<1>3. QED
  BY <1>1, <1>2 DEF Idles

LEMMA IdleRequests ==
    ASSUME RequestsOK, NEW c \in Callers, ~At(c, {"save", "cache"})
    PROVE  request[c].bucket = NoObject
BY DEF RequestsOK, RequestAt

(***************************************************************************)
(* Draw: the object o, new or cached, is refilled to full, a token is      *)
(* taken if there is one, and what is left is being saved.                 *)
(***************************************************************************)
Drawn(c, o, full, left) ==
    /\ full \in Buckets /\ full.lastRefill = now
    /\ left = IF HasToken(full) THEN Consumed(full) ELSE full
    /\ left \in Buckets /\ left.lastRefill = now
    /\ Replaced(c, [at |-> "save", bucket |-> o, saving |-> left, grants |-> HasToken(full)])
    /\ IF HasToken(full) THEN Grant ELSE UNCHANGED <<granted, waitOver>>
    /\ heap' \in [Objects -> Buckets \cup {NoBucket}] /\ heap'[o] = left
    /\ \A p \in Live : p # o => heap'[p] = heap[p]

LEMMA AllocatedEffect ==
    ASSUME BucketsOK, InstancesOK, RequestsOK, NEW b \in Buckets, heap' = Allocated(b)
    PROVE  /\ heap' \in [Objects -> Buckets \cup {NoBucket}]
           /\ heap'[FreeObject] = b
           /\ \A p \in Live : p # FreeObject /\ heap'[p] = heap[p]
BY FreeObjectIsFree DEF Allocated, BucketsOK, Live

LEMMA ConsumedType ==
    ASSUME NEW b \in Buckets, HasToken(b)
    PROVE  /\ Consumed(b) \in Buckets
           /\ Consumed(b).tokens = b.tokens - TimeMS /\ Consumed(b).lastRefill = b.lastRefill
BY BucketsType, FullType DEF HasToken, Consumed

LEMMA DrawEffect ==
    ASSUME TypeInv, NEW c \in Callers, NEW o, NEW b, Sound(b), Draw(c, o, b), now' = now,
           o = FreeObject \/ o \in Live
    PROVE  /\ o \in Objects
           /\ Drawn(c, o, Refilled(b), heap'[o])
           /\ \A left : left = heap'[o] => Sound(left)'
<1>1. ClockOK /\ BucketsOK /\ InstancesOK /\ RequestsOK
  BY DEF TypeInv
<1>2. PICK full : full = Refilled(b)
  OBVIOUS
<1>3. full \in Buckets /\ full.lastRefill = now /\ Sound(full)
  BY <1>1, <1>2, RefillEffect, RefilledSound DEF Sound
<1>4. PICK left : left = IF HasToken(full) THEN Consumed(full) ELSE full
  OBVIOUS
<1>5. left \in Buckets /\ left.lastRefill = now
  BY <1>3, <1>4, ConsumedType
<1>6. /\ heap' = IF o = FreeObject THEN Allocated(left) ELSE [heap EXCEPT ![o] = left]
      /\ request' = [request EXCEPT
             ![c] = [at |-> "save", bucket |-> o, saving |-> left, grants |-> HasToken(full)]]
      /\ IF HasToken(full) THEN Grant ELSE UNCHANGED <<granted, waitOver>>
  BY <1>2, <1>4 DEF Draw
<1>7. o \in Objects /\ (o # FreeObject => o \in Live)
  BY <1>1, FreeObjectIsFree DEF Live
<1>8. /\ heap' \in [Objects -> Buckets \cup {NoBucket}] /\ heap'[o] = left
      /\ \A p \in Live : p # o => heap'[p] = heap[p]
  <2>1. CASE o = FreeObject
    BY <1>1, <1>5, <1>6, <2>1, AllocatedEffect
  <2>2. CASE o # FreeObject
    BY <1>1, <1>5, <1>6, <1>7, <2>2 DEF BucketsOK
  <2>3. QED
    BY <2>1, <2>2
<1>9. [at |-> "save", bucket |-> o, saving |-> left, grants |-> HasToken(full)] \in Requests
  BY <1>5, <1>7 DEF Requests, HasToken
<1>10. Drawn(c, o, full, left)
  BY <1>3, <1>4, <1>5, <1>6, <1>8, <1>9 DEF Drawn, Replaced
<1>11. Sound(left)'
  <2>1. CASE HasToken(full)
    BY <1>1, <1>3, <1>4, <1>6, <2>1, ConsumedSound
  <2>2. CASE ~HasToken(full)
    BY <1>3, <1>4, <1>6, <2>2 DEF Sound, Backed, GrantedAfter, GrantedBy
  <2>3. QED
    BY <2>1, <2>2
<1>12. QED
  BY <1>2, <1>7, <1>8, <1>10, <1>11

LEMMA CreateEffect ==
    ASSUME TypeInv, NEW c \in Callers, Create(c)
    PROVE  /\ FreeObject \in Objects
           /\ NewBucket \in Buckets
           /\ Replaced(c, [at |-> "save", bucket |-> FreeObject, saving |-> NewBucket,
                           grants |-> TRUE])
           /\ heap' \in [Objects -> Buckets \cup {NoBucket}]
           /\ heap'[FreeObject] = NewBucket
           /\ \A p \in Live : p # FreeObject /\ heap'[p] = heap[p]
<1>1. ClockOK /\ BucketsOK /\ InstancesOK /\ RequestsOK
  BY DEF TypeInv
<1>2. NewBucket \in Buckets
  BY <1>1, NewBucketSound DEF Sound
<1>3. FreeObject \in Objects
  BY <1>1, FreeObjectIsFree
<1>4. [at |-> "save", bucket |-> FreeObject, saving |-> NewBucket, grants |-> TRUE] \in Requests
  BY <1>2, <1>3 DEF Requests
<1>5. QED
  BY <1>1, <1>2, <1>3, <1>4, AllocatedEffect DEF Create, Replaced

\* The waiting time is a number, and enough for a token.
LEMMA WaitTimeEnough ==
    ASSUME NEW b \in Buckets
    PROVE  WaitTime(b) \in Int /\ WaitTime(b) >= 0 /\ b.tokens + Tokens * WaitTime(b) >= TimeMS
<1>1. b.tokens \in Nat
  BY BucketsType, FullType
<1>2. CASE HasToken(b)
  <2>1. WaitTime(b) = 0 /\ Tokens * 0 = 0
    BY <1>2, FullType DEF WaitTime
  <2>2. QED
    BY <1>1, <1>2, <2>1, FullType DEF HasToken
<1>3. CASE ~HasToken(b)
  <2>1. PICK x \in Nat \ {0} : x = TimeMS - b.tokens
    BY <1>1, <1>3, FullType DEF HasToken
  <2> DEFINE w == (x + Tokens - 1) \div Tokens
  <2>2. WaitTime(b) = w
    BY <1>3, <2>1 DEF WaitTime
  <2>3. w \in Int /\ Tokens * w \in Int /\ Tokens * w >= x
    <3>1. PICK y \in Int : y = x + Tokens - 1
      BY <2>1, FullType
    <3>2. y \div Tokens \in Int /\ Tokens * (y \div Tokens) > y - Tokens
      BY FullType, Quotient
    <3>3. w = y \div Tokens
      BY <3>1
    <3> HIDE DEF w
    <3>4. w \in Int /\ Tokens * w > x - 1
      BY <2>1, <3>1, <3>2, <3>3, FullType
    <3>5. QED
      BY <2>1, <3>4, FullType
  <2>4. w >= 0
    <3> SUFFICES ASSUME w <= -1 PROVE FALSE
      BY <2>3
    <3> HIDE DEF w
    <3>1. Tokens * w <= Tokens * (-1) /\ Tokens * (-1) = -Tokens
      BY <2>3, FullType, Grows
    <3>2. QED
      BY <2>1, <2>3, <3>1, FullType
  <2> HIDE DEF w
  <2>5. QED
    BY <1>1, <2>1, <2>2, <2>3, <2>4, FullType
<1>4. QED
  BY <1>2, <1>3
-----------------------------------------------------------------------------
(* Types: the clock and the history *)

CountersOK ==
    /\ requests \in 0 .. MaxRequests /\ disruptions \in 0 .. MaxDisruptions
    /\ lost \in Nat /\ deletes \in Nat /\ waitOver \in Int
    /\ served \in Instances \cup {Nobody, Several}

\* At one moment the history only grows, by one at most.
LEMMA ClockStays ==
    ASSUME ClockOK, now' = now, CountersOK', Grant \/ UNCHANGED granted,
           Cardinality(Fetching') \in Nat,
           granted'[now] + Cardinality(Fetching') <= requests'
    PROVE  HistoryGrows
<1>1. /\ now \in 0 .. MaxTime /\ granted \in [0 .. MaxTime -> 0 .. MaxRequests]
      /\ \A s \in 0 .. now : granted[s] <= granted[now]
      /\ requests' \in 0 .. MaxRequests
  BY DEF ClockOK, CountersOK
<1>2. /\ \A s \in 0 .. MaxTime : s # now => granted'[s] = granted[s]
      /\ granted'[now] \in {granted[now], granted[now] + 1}
      /\ granted' = [s \in 0 .. MaxTime |-> granted'[s]]
  BY <1>1 DEF Grant
<1>3. granted'[now] \in 0 .. MaxRequests
  BY <1>1, <1>2, BucketsType
<1>4. granted' \in [0 .. MaxTime -> 0 .. MaxRequests]
  BY <1>1, <1>2, <1>3
<1>5. \A s \in 0 .. now : granted'[s] <= granted'[now]
  BY <1>1, <1>2, BucketsType
<1>6. ClockOK'
  BY <1>1, <1>4, <1>5 DEF ClockOK, CountersOK
<1>7. ASSUME NEW s \in Int, s <= now PROVE GrantedAfter(s) <= GrantedAfter(s)'
  <2>1. CASE s < 0
    BY <1>1, <1>2, <2>1, BucketsType DEF GrantedAfter, GrantedBy
  <2>2. CASE s \in 0 .. MaxTime /\ s # now
    <3>1. granted'[s] = granted[s] /\ granted[s] \in Int
      BY <1>1, <1>2, <2>2, BucketsType
    <3>2. QED
      BY <1>1, <1>2, <2>2, <3>1, BucketsType DEF GrantedAfter, GrantedBy
  <2>3. CASE s = now
    BY <1>1, <1>2, <2>3, BucketsType DEF GrantedAfter, GrantedBy
  <2>4. QED
    BY <1>1, <1>7, <2>1, <2>2, <2>3, BucketsType
<1>8. QED
  BY <1>1, <1>6, <1>7, BucketsType DEF HistoryGrows

LEMMA TickGrows ==
    ASSUME TypeInv, Tick
    PROVE  HistoryGrows
<1>1. /\ now \in 0 .. MaxTime /\ granted \in [0 .. MaxTime -> 0 .. MaxRequests]
      /\ \A s \in 0 .. now : granted[s] <= granted[now]
  BY DEF TypeInv, ClockOK
<1>2. /\ now < MaxTime /\ now' = now + 1 /\ now' \in 0 .. MaxTime
      /\ granted' = [granted EXCEPT ![now + 1] = granted[now]]
  BY <1>1, BucketsType DEF Tick
<1>3. /\ granted' \in [0 .. MaxTime -> 0 .. MaxRequests]
      /\ granted'[now'] = granted[now]
      /\ \A s \in 0 .. now : granted'[s] = granted[s]
  BY <1>1, <1>2, BucketsType
<1>4. \A s \in 0 .. now' : granted'[s] <= granted'[now']
  <2>1. ASSUME NEW s \in 0 .. now' PROVE s = now' \/ s \in 0 .. now
    BY <1>1, <1>2, BucketsType
  <2>2. granted[now] \in Int
    BY <1>1, BucketsType
  <2>3. QED
    BY <1>1, <1>3, <2>1, <2>2
<1>5. /\ requests' = requests /\ disruptions' = disruptions /\ lost' = lost
      /\ deletes' = deletes /\ waitOver' = waitOver /\ served' = served
      /\ Fetching' = Fetching
  BY DEF Tick, Fetching, At
<1>6. ClockOK'
  BY <1>2, <1>3, <1>4, <1>5 DEF TypeInv, ClockOK
<1>7. ASSUME NEW s \in Int, s <= now PROVE GrantedAfter(s) <= GrantedAfter(s)'
  <2>1. GrantedAfter(s)' = GrantedAfter(s)
    BY <1>1, <1>3, <1>7, BucketsType DEF GrantedAfter, GrantedBy
  <2>2. GrantedAfter(s) \in Nat
    BY <1>7, HistoryFacts DEF TypeInv
  <2>3. QED
    BY <2>1, <2>2
<1>8. QED
  BY <1>1, <1>2, <1>6, <1>7, BucketsType DEF HistoryGrows, TypeInv

LEMMA CountedStep ==
    ASSUME TypeInv, NEW c \in Callers, NEW q, Replaced(c, q), now' = now, CountersOK',
           Grant \/ UNCHANGED granted,
           \/ UNCHANGED granted /\ q.at # "fetch" /\ requests' = requests
           \/ q.at # "fetch" /\ c \in Fetching /\ requests' = requests
           \/ q.at # "fetch" /\ requests' = requests + 1
           \/ UNCHANGED granted /\ requests' = requests + 1
    PROVE  HistoryGrows
<1>1. /\ ClockOK /\ RequestsOK
      /\ now \in 0 .. MaxTime /\ granted \in [0 .. MaxTime -> 0 .. MaxRequests]
      /\ requests \in 0 .. MaxRequests /\ granted[now] + Cardinality(Fetching) <= requests
  BY DEF TypeInv, ClockOK
<1>2. Fetching' = IF q.at = "fetch" THEN Fetching \cup {c} ELSE Fetching \ {c}
  BY <1>1, ReplacedEffect
<1>3. /\ granted[now] \in Nat /\ requests \in Nat
      /\ granted'[now] \in {granted[now], granted[now] + 1}
      /\ UNCHANGED granted => granted'[now] = granted[now]
  BY <1>1, BucketsType DEF Grant
<1>4. /\ Cardinality(Fetching) \in Nat
      /\ q.at # "fetch" /\ c \in Fetching => Cardinality(Fetching') = Cardinality(Fetching) - 1
      /\ q.at # "fetch" /\ c \notin Fetching => Cardinality(Fetching') = Cardinality(Fetching)
      /\ q.at = "fetch" =>
             Cardinality(Fetching') \in {Cardinality(Fetching), Cardinality(Fetching) + 1}
  BY <1>2, FetchingFinite
<1>5. c \in Fetching => Cardinality(Fetching) >= 1
  BY FetchingFinite, FS_EmptySet
<1>6. Cardinality(Fetching') \in Nat
  <2>1. CASE q.at = "fetch"
    BY <1>4, <2>1
  <2>2. CASE q.at # "fetch" /\ c \in Fetching
    BY <1>4, <1>5, <2>2
  <2>3. CASE q.at # "fetch" /\ c \notin Fetching
    BY <1>4, <2>3
  <2>4. QED
    BY <2>1, <2>2, <2>3
<1>7. granted'[now] + Cardinality(Fetching') <= requests'
  <2>1. CASE q.at = "fetch"
    BY <1>1, <1>3, <1>4, <2>1
  <2>2. CASE q.at # "fetch" /\ c \in Fetching
    <3>1. PICK f \in Nat, g \in Nat, r \in Nat :
              f = Cardinality(Fetching) /\ g = granted[now] /\ r = requests /\ g + f <= r
      BY <1>1, <1>3, <1>4
    <3>2. Cardinality(Fetching') = f - 1
      BY <1>4, <2>2, <3>1
    <3>3. granted'[now] \in {g, g + 1} /\ requests' \in {r, r + 1}
      BY <1>3, <3>1
    <3>4. QED
      BY <3>1, <3>2, <3>3
  <2>3. CASE q.at # "fetch" /\ c \notin Fetching
    BY <1>1, <1>3, <1>4, <2>3
  <2>4. QED
    BY <2>1, <2>2, <2>3
<1>8. QED
  BY <1>1, <1>6, <1>7, ClockStays

LEMMA CountRequestCounts ==
    ASSUME TypeInv, NEW c \in Callers, CountRequest(c), disruptions' = disruptions,
           lost' = lost, deletes' = deletes, waitOver' \in {waitOver, -1}
    PROVE  CountersOK' /\ requests' = requests + 1
<1>1. InstanceOf[c] \in Instances
  BY LimiterAssumption
<1>2. /\ requests \in 0 .. MaxRequests /\ disruptions \in 0 .. MaxDisruptions
      /\ lost \in Nat /\ deletes \in Nat /\ waitOver \in Int
  BY DEF TypeInv, ClockOK
<1>3. requests' = requests + 1 /\ requests' \in 0 .. MaxRequests
  BY <1>2, BucketsType DEF CountRequest
<1>4. served' \in Instances \cup {Nobody, Several}
  BY <1>1 DEF CountRequest
<1>5. QED
  BY <1>2, <1>3, <1>4 DEF CountersOK

LEMMA TryCachedGrows ==
    ASSUME TypeInv, NEW c \in Callers, TryCached(c)
    PROVE  LET o == cache[InstanceOf[c]].bucket
           IN  /\ HistoryGrows
               /\ o \in Live
               /\ Drawn(c, o, Refilled(heap[o]), heap'[o])
               /\ \A left : left = heap'[o] => Sound(left)'
<1> DEFINE o == cache[InstanceOf[c]].bucket
<1>1. /\ CountRequest(c) /\ Draw(c, o, heap[o]) /\ o # NoObject
      /\ UNCHANGED <<now, disruptions, lost, deletes>>
  BY DEF TryCached, Cached
<1>2. o \in Live
  BY <1>1, LimiterAssumption DEF Live, Referenced
<1>3. PICK b : b = heap[o]
  OBVIOUS
<1>4. Sound(b)
  BY <1>2, <1>3 DEF TypeInv, BucketsOK
<1>5. /\ Drawn(c, o, Refilled(heap[o]), heap'[o])
      /\ \A left : left = heap'[o] => Sound(left)'
  <2>1. Draw(c, o, b) /\ now' = now
    BY <1>1, <1>3
  <2> HIDE DEF o
  <2>2. Drawn(c, o, Refilled(b), heap'[o]) /\ \A left : left = heap'[o] => Sound(left)'
    BY <1>2, <1>4, <2>1, DrawEffect
  <2>3. QED
    BY <1>3, <2>2
<1>6. /\ Grant \/ UNCHANGED granted
      /\ waitOver' \in {waitOver, -1}
      /\ \E q : Replaced(c, q) /\ q.at = "save"
  BY <1>5 DEF Drawn, Grant
<1>7. CountersOK' /\ requests' = requests + 1
  BY <1>1, <1>6, CountRequestCounts
<1>8. HistoryGrows
  BY <1>1, <1>6, <1>7, CountedStep
<1>9. QED
  BY <1>2, <1>5, <1>8

LEMMA FetchGrows ==
    ASSUME TypeInv, NEW c \in Callers, Fetch(c)
    PROVE  /\ HistoryGrows
           /\ stored \in Buckets /\ Sound(stored)
           /\ FreeObject \in Objects
           /\ Drawn(c, FreeObject, Refilled(stored), heap'[FreeObject])
           /\ \A left : left = heap'[FreeObject] => Sound(left)'
<1>1. /\ Draw(c, FreeObject, stored) /\ stored # NoBucket /\ c \in Fetching
      /\ UNCHANGED <<now, requests, disruptions, served, lost, deletes>>
  BY DEF Fetch, Fetching, At
<1>2. PICK b : b = stored
  OBVIOUS
<1>3. Sound(b)
  BY <1>1, <1>2 DEF TypeInv, BucketsOK
<1>4. /\ FreeObject \in Objects
      /\ Drawn(c, FreeObject, Refilled(stored), heap'[FreeObject])
      /\ \A left : left = heap'[FreeObject] => Sound(left)'
  BY <1>1, <1>2, <1>3, DrawEffect
<1>5. /\ Grant \/ UNCHANGED granted
      /\ waitOver' \in {waitOver, -1}
      /\ \E q : Replaced(c, q) /\ q.at = "save"
  BY <1>4 DEF Drawn, Grant
<1>6. CountersOK'
  BY <1>1, <1>5, BucketsType DEF CountersOK, TypeInv, ClockOK
<1>7. HistoryGrows
  BY <1>1, <1>5, <1>6, CountedStep
<1>8. QED
  BY <1>2, <1>3, <1>4, <1>7 DEF Sound

LEMMA CreateGrows ==
    ASSUME TypeInv, NEW c \in Callers, Create(c)
    PROVE  HistoryGrows /\ Grant /\ \A b : b = NewBucket => Sound(b)'
<1>1. /\ c \in Fetching /\ Grant
      /\ UNCHANGED <<now, requests, disruptions, served, lost, deletes>>
      /\ \E q : Replaced(c, q) /\ q.at = "save"
  <2> DEFINE q == [at |-> "save", bucket |-> FreeObject, saving |-> NewBucket, grants |-> TRUE]
  <2>1. Replaced(c, q) /\ q.at = "save"
    BY CreateEffect
  <2>2. QED
    BY <2>1 DEF Create, Fetching, At
<1>2. CountersOK'
  BY <1>1, BucketsType DEF CountersOK, TypeInv, ClockOK, Grant
<1>3. HistoryGrows
  BY <1>1, <1>2, CountedStep
<1>4. ASSUME NEW b, b = NewBucket PROVE Sound(b)'
  BY <1>3, <1>4, NewBucketSound, SoundStays DEF TypeInv
<1>5. QED
  BY <1>1, <1>3, <1>4

\* The other steps of a call: what becomes of its request.
LEMMA RestEffect ==
    ASSUME TypeInv, NEW c \in Callers
    PROVE  /\ TryUncached(c) => \E q : /\ Replaced(c, q) /\ q.at = "fetch"
                                       /\ q.bucket = NoObject
           /\ Save(c) => \E q : /\ Replaced(c, q) /\ q.at = "cache"
                                /\ q.bucket = request[c].bucket
                                /\ q.grants = request[c].grants
           /\ CacheBucket(c) => \E q \in Idles : /\ Replaced(c, q)
                                                 /\ q.at \in {"idle", "wait"}
           /\ WaitUnregistered(c) \/ WaitCached(c) \/ WaitFetch(c) =>
                  Replaced(c, Idle)
           /\ WaitUncached(c) => \E q : /\ Replaced(c, q) /\ q.at = "waitFetch"
                                        /\ q.bucket = NoObject
<1>1. /\ request \in [Callers -> Requests] /\ request[c] \in Requests
      /\ ~At(c, {"save", "cache"}) => request[c].bucket = NoObject
  BY DEF TypeInv, RequestsOK, RequestAt
<1>2. ASSUME TryUncached(c)
      PROVE  LET q == [request[c] EXCEPT !.at = "fetch"]
             IN  Replaced(c, q) /\ q.at = "fetch" /\ q.bucket = NoObject
  BY <1>1, <1>2 DEF TryUncached, Replaced, Requests, At
<1>3. ASSUME Save(c)
      PROVE  LET q == [request[c] EXCEPT !.at = "cache", !.saving = NoBucket]
             IN  /\ Replaced(c, q) /\ q.at = "cache" /\ q.bucket = request[c].bucket
                 /\ q.grants = request[c].grants
  BY <1>1, <1>3 DEF Save, Replaced, Requests, At
<1>4. ASSUME CacheBucket(c)
      PROVE  LET q == IF request[c].grants THEN Idle ELSE [Idle EXCEPT !.at = "wait"]
             IN  Replaced(c, q) /\ q \in Idles /\ q.at \in {"idle", "wait"}
  <2>1. Idle.at = "idle" /\ [Idle EXCEPT !.at = "wait"].at = "wait"
    BY DEF Idle
  <2>2. QED
    BY <1>1, <1>4, <2>1, IdlesType DEF CacheBucket, Replaced, Idles
<1>5. ASSUME WaitUnregistered(c) \/ WaitCached(c) \/ WaitFetch(c)
      PROVE  Replaced(c, Idle)
  <2>1. Idle \in Requests
    BY IdlesType DEF Idles
  <2>2. QED
    BY <1>1, <1>5, <2>1 DEF WaitUnregistered, WaitCached, WaitFetch, Replaced
<1>6. ASSUME WaitUncached(c)
      PROVE  LET q == [request[c] EXCEPT !.at = "waitFetch"]
             IN  Replaced(c, q) /\ q.at = "waitFetch" /\ q.bucket = NoObject
  BY <1>1, <1>6 DEF WaitUncached, Replaced, Requests, At
<1>7. QED
  BY <1>2, <1>3, <1>4, <1>5, <1>6

LEMMA RestGrows ==
    ASSUME TypeInv, NEW c \in Callers,
           \/ TryUncached(c) \/ Save(c) \/ CacheBucket(c)
           \/ WaitUnregistered(c) \/ WaitCached(c) \/ WaitUncached(c) \/ WaitFetch(c)
    PROVE  HistoryGrows
<1>1. /\ requests \in 0 .. MaxRequests /\ disruptions \in 0 .. MaxDisruptions
      /\ lost \in Nat /\ deletes \in Nat /\ waitOver \in Int /\ now \in 0 .. MaxTime
      /\ served \in Instances \cup {Nobody, Several}
      /\ heap \in [Objects -> Buckets \cup {NoBucket}]
      /\ stored \in Buckets \cup {NoBucket}
  BY DEF TypeInv, ClockOK, BucketsOK, Sound
<1>2. CASE TryUncached(c)
  <2>1. CountersOK' /\ requests' = requests + 1
    BY <1>2, CountRequestCounts DEF TryUncached
  <2>2. QED
    BY <1>2, <2>1, RestEffect, CountedStep DEF TryUncached
<1>3. CASE Save(c)
  <2>1. CountersOK' /\ UNCHANGED <<now, granted, requests>>
    BY <1>1, <1>3 DEF Save, CountersOK, history
  <2>2. QED
    BY <1>3, <2>1, RestEffect, CountedStep
<1>4. CASE CacheBucket(c)
  <2>1. CountersOK' /\ UNCHANGED <<now, granted, requests>>
    BY <1>1, <1>4 DEF CacheBucket, CountersOK, history
  <2>2. \E q : Replaced(c, q) /\ q.at # "fetch"
    BY <1>4, RestEffect
  <2>3. QED
    BY <2>1, <2>2, CountedStep
<1>5. CASE WaitUncached(c)
  <2>1. CountersOK' /\ UNCHANGED <<now, granted, requests>>
    BY <1>1, <1>5 DEF WaitUncached, CountersOK, history
  <2>2. QED
    BY <1>5, <2>1, RestEffect, CountedStep
<1>6. CASE WaitUnregistered(c) \/ WaitCached(c) \/ WaitFetch(c)
  <2>1. waitOver' \in Int
    <3>1. CASE WaitUnregistered(c)
      BY <1>1, <3>1 DEF WaitUnregistered, history
    <3>2. CASE WaitCached(c)
      <4> DEFINE b == heap[cache[InstanceOf[c]].bucket]
      <4>1. b \in Buckets
        <5>1. cache[InstanceOf[c]].bucket \in Live
          BY <3>2, LimiterAssumption DEF WaitCached, Cached, Live, Referenced
        <5>2. QED
          BY <5>1 DEF TypeInv, BucketsOK, Sound
      <4>2. WaitTime(b) \in Int
        BY <4>1, WaitTimeEnough
      <4> HIDE DEF b
      <4>3. QED
        BY <1>1, <3>2, <4>2, BucketsType DEF WaitCached, Tell, b
    <3>3. CASE WaitFetch(c)
      <4>1. stored # NoBucket => WaitTime(stored) \in Int
        BY <1>1, WaitTimeEnough
      <4>2. QED
        BY <1>1, <3>3, <4>1, BucketsType DEF WaitFetch, Tell
    <3>4. QED
      BY <1>6, <3>1, <3>2, <3>3
  <2>2. CountersOK' /\ UNCHANGED <<now, granted, requests>>
    BY <1>1, <1>6, <2>1
       DEF WaitUnregistered, WaitCached, WaitFetch, CountersOK, history
  <2>3. Idle.at = "idle" /\ Replaced(c, Idle)
    BY <1>6, RestEffect DEF Idle
  <2>4. QED
    BY <2>2, <2>3, CountedStep
<1>7. QED
  BY <1>2, <1>3, <1>4, <1>5, <1>6

LEMMA InstanceGrows ==
    ASSUME TypeInv, NEW i \in Instances,
           Register(i) \/ Unregister(i) \/ DeleteBucket(i) \/ Evict(i) \/ Restart(i)
    PROVE  HistoryGrows /\ UNCHANGED <<now, granted>>
<1>1. UNCHANGED <<now, granted, requests, served, waitOver>>
  BY DEF Register, Unregister, DeleteBucket, Evict, Restart, history
<1>2. disruptions' \in 0 .. MaxDisruptions /\ deletes' \in Nat
  <2>1. disruptions \in 0 .. MaxDisruptions /\ deletes \in Nat
    BY DEF TypeInv, ClockOK
  <2>2. /\ disruptions' = disruptions \/ Disrupt
        /\ deletes' \in {deletes, deletes + 1}
    BY DEF Register, Unregister, DeleteBucket, Evict, Restart, history
  <2>3. QED
    BY <2>1, <2>2, BucketsType DEF Disrupt
<1>3. lost' \in Nat
  <2> DEFINE stopped == {c \in Callers :
                 InstanceOf[c] = i /\ request[c].at = "save" /\ request[c].grants}
  <2>1. Cardinality(stopped) \in Nat
    <3>1. stopped \subseteq Callers /\ IsFiniteSet(Callers)
      BY LimiterAssumption
    <3>2. QED
      BY <3>1, FS_Subset, FS_CardinalityType
  <2>2. lost \in Nat
    BY DEF TypeInv, ClockOK
  <2> HIDE DEF stopped
  <2>3. lost' \in {lost, lost + Cardinality(stopped)}
    BY DEF Register, Unregister, DeleteBucket, Evict, Restart, history, stopped
  <2>4. QED
    BY <2>1, <2>2, <2>3
<1>4. CountersOK'
  BY <1>1, <1>2, <1>3 DEF CountersOK, TypeInv, ClockOK
<1>5. Fetching' \subseteq Fetching
  <2>1. \A c \in Callers : request'[c] = request[c] \/ request'[c] = Idle
    BY DEF Register, Unregister, DeleteBucket, Evict, Restart
  <2>2. QED
    BY <2>1 DEF Fetching, At, Idle
<1>6. /\ Cardinality(Fetching') \in Nat /\ Cardinality(Fetching) \in Nat
      /\ Cardinality(Fetching') <= Cardinality(Fetching)
  BY <1>5, FetchingFinite, FS_Subset, FS_CardinalityType
<1>7. /\ ClockOK /\ granted[now] \in Nat /\ requests \in Nat
      /\ granted[now] + Cardinality(Fetching) <= requests
  BY BucketsType DEF TypeInv, ClockOK
<1>8. granted'[now] + Cardinality(Fetching') <= requests'
  BY <1>1, <1>6, <1>7
<1>9. QED
  BY <1>1, <1>4, <1>6, <1>7, <1>8, ClockStays

LEMMA HistoryStep ==
    ASSUME TypeInv, [Next]_vars
    PROVE  HistoryGrows
<1>1. ASSUME NEW c \in Callers, TryConsume(c) \/ GetWaitTimeMs(c) PROVE HistoryGrows
  BY <1>1, TryCachedGrows, FetchGrows, CreateGrows, RestGrows DEF TryConsume, GetWaitTimeMs
<1>2. CASE UNCHANGED vars
  <2>1. ClockOK /\ ClockOK' /\ now' = now /\ now \in Int
    BY <1>2, BucketsType DEF TypeInv, ClockOK, vars, Fetching, At
  <2>2. ASSUME NEW s \in Int, s <= now PROVE GrantedAfter(s) <= GrantedAfter(s)'
    <3>1. GrantedAfter(s)' = GrantedAfter(s)
      BY <1>2 DEF vars, GrantedAfter, GrantedBy
    <3>2. QED
      BY <2>1, <2>2, <3>1, HistoryFacts
  <2>3. QED
    BY <2>1, <2>2 DEF HistoryGrows
<1>3. QED
  BY <1>1, <1>2, InstanceGrows, TickGrows, StepKinds
-----------------------------------------------------------------------------
(* Types: buckets, caches and requests *)

LEMMA BucketsStay ==
    ASSUME TypeInv, HistoryGrows, NEW o,
           heap' \in [Objects -> Buckets \cup {NoBucket}],
           Live' \subseteq Live \cup {o},
           \A p \in Live : p # o => heap'[p] = heap[p],
           o \in Live' => \A left : left = heap'[o] => Sound(left)',
           stored' \in {NoBucket, stored} \/ \A b : b = stored' => Sound(b)'
    PROVE  BucketsOK'
<1>1. \A b : Sound(b) => Sound(b)'
  BY SoundStays
<1>2. stored' = NoBucket \/ Sound(stored)'
  <2>1. PICK b : b = stored'
    OBVIOUS
  <2>2. CASE stored' = stored /\ stored # NoBucket
    <3>1. Sound(b)
      BY <2>1, <2>2 DEF TypeInv, BucketsOK
    <3>2. Sound(b)'
      BY <1>1, <3>1
    <3>3. QED
      BY <2>1, <3>2 DEF Sound, Backed
  <2>3. CASE \A d : d = stored' => Sound(d)'
    <3>1. Sound(b)'
      BY <2>1, <2>3
    <3>2. QED
      BY <2>1, <3>1 DEF Sound, Backed
  <2>4. QED
    BY <2>2, <2>3
<1>3. ASSUME NEW p \in Live' PROVE Sound(heap[p])'
  <2>1. PICK b : b = heap'[p]
    OBVIOUS
  <2>2. Sound(b)'
    <3>1. CASE p = o
      BY <1>3, <2>1, <3>1
    <3>2. CASE p # o
      <4>1. p \in Live /\ b = heap[p]
        BY <1>3, <2>1, <3>2
      <4>2. Sound(b)
        BY <4>1 DEF TypeInv, BucketsOK
      <4>3. QED
        BY <1>1, <4>2
    <3>3. QED
      BY <3>1, <3>2
  <2>3. QED
    BY <2>1, <2>2 DEF Sound, Backed
<1>4. QED
  BY <1>2, <1>3 DEF BucketsOK

LEMMA RequestsStay ==
    ASSUME TypeInv, HistoryGrows, NEW c \in Callers, NEW q, Replaced(c, q),
           q.at \in {"save", "cache"} <=> q.bucket # NoObject,
           q.at = "save" => \A b : b = q.saving => Sound(b)'
    PROVE  RequestsOK'
<1>1. RequestsOK
  BY DEF TypeInv
<1>2. /\ request' \in [Callers -> Requests] /\ request'[c] = q
      /\ \A d \in Callers : d # c => request'[d] = request[d]
  BY <1>1, ReplacedEffect
<1>3. ASSUME NEW d \in Callers PROVE RequestAt(d)'
  <2>1. At(d, {"save", "cache"})' <=> request'[d].bucket # NoObject
    BY <1>1, <1>2 DEF RequestsOK, RequestAt, At
  <2>2. ASSUME request'[d].at = "save" PROVE Sound(request[d].saving)'
    <3>1. PICK b : b = request'[d].saving
      OBVIOUS
    <3>2. Sound(b)'
      <4>1. CASE d = c
        BY <1>2, <2>2, <3>1, <4>1
      <4>2. CASE d # c
        <5>1. Sound(b)
          BY <1>1, <1>2, <2>2, <3>1, <4>2 DEF RequestsOK, RequestAt, At
        <5>2. QED
          BY <5>1, SoundStays
      <4>3. QED
        BY <4>1, <4>2
    <3>3. QED
      BY <3>1, <3>2 DEF Sound, Backed
  <2>3. QED
    BY <2>1, <2>2 DEF RequestAt, At
<1>4. QED
  BY <1>2, <1>3 DEF RequestsOK

\* What is cached is cached until CacheTTL from now; what is dropped is not.
LEMMA CacheType ==
    ASSUME TypeInv, NEW i \in Instances
    PROVE  LET entries == [bucket : Objects \cup {NoObject}, expiry : 0 .. MaxTime + CacheTTL]
           IN  /\ Dropped(i) \in [Instances -> entries]
               /\ Dropped(i)[i].bucket = NoObject
               /\ \A j \in Instances : j # i => Dropped(i)[j] = cache[j]
               /\ \A o \in Objects \cup {NoObject} :
                     LET filled == [cache EXCEPT ![i] = EntryOf(o)]
                     IN  /\ filled \in [Instances -> entries]
                         /\ filled[i].bucket = o
                         /\ \A j \in Instances : j # i => filled[j] = cache[j]
<1> DEFINE entries == [bucket : Objects \cup {NoObject}, expiry : 0 .. MaxTime + CacheTTL]
<1>1. cache \in [Instances -> entries] /\ now \in 0 .. MaxTime
  BY DEF TypeInv, InstancesOK, ClockOK
<1>2. NoEntry \in entries /\ NoEntry.bucket = NoObject
  BY BucketsType DEF NoEntry
<1>3. \A o \in Objects \cup {NoObject} : EntryOf(o) \in entries /\ EntryOf(o).bucket = o
  <2>1. now + CacheTTL \in 0 .. MaxTime + CacheTTL
    BY <1>1, BucketsType
  <2>2. QED
    BY <2>1 DEF EntryOf
<1> HIDE DEF entries
<1>4. QED
  BY <1>1, <1>2, <1>3 DEF Dropped, entries

\* Which objects a step may come to refer to.
LEMMA LiveStep ==
    ASSUME NEW o,
           \A i \in Instances : cache'[i].bucket \in {cache[i].bucket, NoObject, o},
           \A c \in Callers : request'[c].bucket \in {request[c].bucket, NoObject, o}
    PROVE  Live' \subseteq Live \cup {o}
BY DEF Live, Referenced

LEMMA TypeDrawn ==
    ASSUME TypeInv, HistoryGrows, NEW c \in Callers, NEW o \in Objects, NEW full,
           Drawn(c, o, full, heap'[o]), \A left : left = heap'[o] => Sound(left)',
           UNCHANGED <<stored, cache, registered, deleting>>
    PROVE  TypeInv' /\ Live' \subseteq Live \cup {o}
<1>1. PICK q : /\ Replaced(c, q) /\ q.at = "save" /\ q.bucket = o /\ q.saving = heap'[o]
  BY DEF Drawn
<1>2. NoObject \notin Objects /\ RequestsOK
  BY FreeObjectIsFree DEF TypeInv
<1>3. RequestsOK'
  BY <1>1, <1>2, RequestsStay
<1>4. Live' \subseteq Live \cup {o}
  <2>1. \A d \in Callers : request'[d].bucket \in {request[d].bucket, o}
    BY <1>1, <1>2, ReplacedEffect
  <2>2. QED
    BY <2>1, LiveStep
<1>5. BucketsOK'
  BY <1>4, BucketsStay DEF Drawn
<1>6. QED
  BY <1>3, <1>4, <1>5 DEF TypeInv, HistoryGrows, InstancesOK

LEMMA TypeTryConsume ==
    ASSUME TypeInv, HistoryGrows, NEW c \in Callers, TryConsume(c)
    PROVE  TypeInv'
<1>1. /\ ClockOK' /\ RequestsOK /\ InstancesOK
      /\ heap \in [Objects -> Buckets \cup {NoBucket}]
      /\ InstanceOf[c] \in Instances
  BY LimiterAssumption DEF TypeInv, HistoryGrows, BucketsOK
<1>2. NoObject \notin Objects /\ Referenced \subseteq Objects \cup {NoObject}
  BY <1>1, FreeObjectIsFree
<1>3. CASE TryCached(c)
  <2> DEFINE o == cache[InstanceOf[c]].bucket
  <2>1. o \in Live /\ Drawn(c, o, Refilled(heap[o]), heap'[o])
        /\ \A left : left = heap'[o] => Sound(left)'
    BY <1>3, TryCachedGrows
  <2>2. o \in Objects /\ UNCHANGED <<stored, cache, registered, deleting>>
    BY <1>2, <1>3, <2>1 DEF Live, TryCached
  <2> HIDE DEF o
  <2>3. QED
    BY <2>1, <2>2, TypeDrawn
<1>4. CASE Fetch(c)
  <2>1. UNCHANGED <<stored, cache, registered, deleting>>
    BY <1>4 DEF Fetch
  <2>2. QED
    BY <1>4, <2>1, FetchGrows, TypeDrawn
<1>5. CASE Create(c)
  <2> DEFINE q == [at |-> "save", bucket |-> FreeObject, saving |-> NewBucket, grants |-> TRUE]
  <2>1. /\ FreeObject \in Objects /\ Replaced(c, q)
        /\ heap' \in [Objects -> Buckets \cup {NoBucket}]
        /\ heap'[FreeObject] = NewBucket
        /\ \A p \in Live : p # FreeObject /\ heap'[p] = heap[p]
        /\ \A b : b = NewBucket => Sound(b)'
        /\ UNCHANGED <<stored, cache, registered, deleting>>
    BY <1>5, CreateEffect, CreateGrows DEF Create
  <2>2. q.at = "save" /\ q.bucket = FreeObject /\ q.saving = NewBucket
    OBVIOUS
  <2> HIDE DEF q
  <2>3. RequestsOK'
    BY <1>2, <2>1, <2>2, RequestsStay
  <2>4. Live' \subseteq Live \cup {FreeObject}
    <3>1. \A d \in Callers : request'[d].bucket \in {request[d].bucket, FreeObject}
      BY <1>1, <2>1, <2>2, ReplacedEffect
    <3>2. PICK o : o = FreeObject
      OBVIOUS
    <3>3. QED
      BY <2>1, <3>1, <3>2, LiveStep
  <2>5. BucketsOK'
    <3>1. PICK o : o = FreeObject
      OBVIOUS
    <3>2. QED
      BY <2>1, <2>4, <3>1, BucketsStay
  <2>6. QED
    BY <1>1, <2>1, <2>3, <2>5 DEF TypeInv, InstancesOK
<1>6. CASE TryUncached(c)
  <2>1. PICK q : Replaced(c, q) /\ q.at = "fetch" /\ q.bucket = NoObject
    BY <1>6, RestEffect
  <2>2. RequestsOK'
    BY <2>1, RequestsStay
  <2>3. cache' = Dropped(InstanceOf[c]) /\ UNCHANGED <<stored, heap, registered, deleting>>
    BY <1>6 DEF TryUncached
  <2>4. InstancesOK'
    BY <1>1, <2>3, CacheType DEF InstancesOK
  <2>5. Live' \subseteq Live \cup {NoObject}
    <3>1. \A d \in Callers : request'[d].bucket \in {request[d].bucket, NoObject}
      BY <1>1, <2>1, ReplacedEffect
    <3>2. \A i \in Instances : cache'[i].bucket \in {cache[i].bucket, NoObject}
      <4>1. /\ cache'[InstanceOf[c]].bucket = NoObject
            /\ \A i \in Instances : i # InstanceOf[c] => cache'[i] = cache[i]
        BY <1>1, <2>3, CacheType
      <4>2. QED
        BY <4>1
    <3>3. QED
      BY <3>1, <3>2, LiveStep
  <2>6. BucketsOK'
    <3>1. NoObject \notin Live'
      BY DEF Live
    <3>2. QED
      BY <1>1, <2>3, <2>5, <3>1, BucketsStay
  <2>7. QED
    BY <1>1, <2>2, <2>4, <2>6 DEF TypeInv
<1>7. CASE Save(c)
  <2>1. PICK q : /\ Replaced(c, q) /\ q.at = "cache" /\ q.bucket = request[c].bucket
    BY <1>7, RestEffect
  <2>2. request[c].at = "save" /\ request[c].bucket # NoObject
    BY <1>1, <1>7 DEF Save, RequestsOK, RequestAt, At
  <2>3. RequestsOK'
    BY <2>1, <2>2, RequestsStay
  <2>4. stored' = request[c].saving /\ UNCHANGED <<heap, cache, registered, deleting>>
    BY <1>7 DEF Save
  <2>5. Live' \subseteq Live \cup {NoObject}
    <3>1. \A d \in Callers : request'[d].bucket = request[d].bucket
      BY <1>1, <2>1, ReplacedEffect
    <3>2. QED
      BY <2>4, <3>1, LiveStep
  <2>6. \A b : b = stored' => Sound(b)'
    <3>1. ASSUME NEW b, b = stored' PROVE Sound(b)
      BY <1>1, <2>2, <2>4, <3>1 DEF RequestsOK, RequestAt, At
    <3>2. QED
      BY <3>1, SoundStays
  <2>7. BucketsOK'
    <3>1. NoObject \notin Live'
      BY DEF Live
    <3>2. QED
      BY <1>1, <2>4, <2>5, <2>6, <3>1, BucketsStay
  <2>8. QED
    BY <1>1, <2>3, <2>4, <2>7 DEF TypeInv, InstancesOK
<1>8. CASE CacheBucket(c)
  <2>1. PICK q \in Idles : Replaced(c, q)
    BY <1>8, RestEffect
  <2>2. RequestsOK'
    BY <2>1, IdlesType, RequestsStay
  <2>3. /\ cache' = [cache EXCEPT ![InstanceOf[c]] = EntryOf(request[c].bucket)]
        /\ UNCHANGED <<stored, heap, registered, deleting>>
    BY <1>8 DEF CacheBucket
  <2>4. request[c].bucket \in Objects \cup {NoObject} /\ request[c].bucket \in Referenced
    BY <1>1 DEF RequestsOK, Requests, Referenced
  <2>5. InstancesOK'
    BY <1>1, <2>3, <2>4, CacheType DEF InstancesOK
  <2>6. Live' \subseteq Live \cup {NoObject}
    <3>1. \A d \in Callers : request'[d].bucket \in {request[d].bucket, NoObject}
      BY <1>1, <2>1, IdlesType, ReplacedEffect
    <3>2. \A i \in Instances : cache'[i].bucket \in {cache[i].bucket, request[c].bucket}
      BY <1>1, <2>3, <2>4, CacheType
    <3>3. QED
      BY <2>4, <3>1, <3>2 DEF Live, Referenced
  <2>7. BucketsOK'
    <3>1. NoObject \notin Live'
      BY DEF Live
    <3>2. QED
      BY <1>1, <2>3, <2>6, <3>1, BucketsStay
  <2>8. QED
    BY <1>1, <2>2, <2>5, <2>7 DEF TypeInv
<1>9. QED
  BY <1>3, <1>4, <1>5, <1>6, <1>7, <1>8 DEF TryConsume

LEMMA TypeGetWaitTime ==
    ASSUME TypeInv, HistoryGrows, NEW c \in Callers, GetWaitTimeMs(c)
    PROVE  TypeInv'
<1>1. /\ ClockOK' /\ RequestsOK /\ InstancesOK /\ BucketsOK
      /\ heap \in [Objects -> Buckets \cup {NoBucket}]
      /\ InstanceOf[c] \in Instances
  BY LimiterAssumption DEF TypeInv, HistoryGrows, BucketsOK
<1>2. /\ NoObject \notin Live' /\ FreeObject \in Objects
      /\ UNCHANGED <<stored, registered, deleting>>
  BY <1>1, FreeObjectIsFree
     DEF Live, GetWaitTimeMs, WaitUnregistered, WaitCached, WaitUncached, WaitFetch
<1>3. PICK q \in Requests : /\ Replaced(c, q) /\ q.at \notin {"save", "cache"}
                            /\ q.bucket = NoObject
  <2>1. CASE WaitUncached(c)
    <3>1. PICK q : Replaced(c, q) /\ q.at = "waitFetch" /\ q.bucket = NoObject
      BY <2>1, RestEffect
    <3>2. QED
      BY <3>1 DEF Replaced
  <2>2. CASE WaitUnregistered(c) \/ WaitCached(c) \/ WaitFetch(c)
    <3>1. Replaced(c, Idle)
      BY <2>2, RestEffect
    <3>2. Idle \in Idles
      BY DEF Idles
    <3>3. QED
      BY <3>1, <3>2, IdlesType
  <2>3. QED
    BY <2>1, <2>2 DEF GetWaitTimeMs
<1>4. RequestsOK'
  BY <1>3, RequestsStay
<1>5. \A d \in Callers : request'[d].bucket \in {request[d].bucket, NoObject}
  BY <1>1, <1>3, ReplacedEffect
<1>6. CASE UNCHANGED heap /\ cache' \in {cache, Dropped(InstanceOf[c])}
  <2>1. InstancesOK'
    BY <1>1, <1>2, <1>6, CacheType DEF InstancesOK
  <2>2. \A i \in Instances : cache'[i].bucket \in {cache[i].bucket, NoObject}
    <3>1. /\ Dropped(InstanceOf[c])[InstanceOf[c]].bucket = NoObject
          /\ \A i \in Instances : i # InstanceOf[c] =>
                Dropped(InstanceOf[c])[i] = cache[i]
      BY <1>1, CacheType
    <3>2. QED
      BY <1>6, <3>1
  <2>3. Live' \subseteq Live \cup {NoObject}
    BY <1>5, <2>2, LiveStep
  <2>4. BucketsOK'
    BY <1>1, <1>2, <1>6, <2>3, BucketsStay
  <2>5. QED
    BY <1>1, <1>4, <2>1, <2>4 DEF TypeInv
<1>7. CASE WaitFetch(c) /\ stored # NoBucket
  <2>1. /\ heap' = Allocated(stored)
        /\ cache' = [cache EXCEPT ![InstanceOf[c]] = EntryOf(FreeObject)]
    BY <1>7 DEF WaitFetch
  <2>2. PICK b : b = stored
    OBVIOUS
  <2>3. Sound(b) /\ b \in Buckets
    BY <1>1, <1>7, <2>2 DEF BucketsOK, Sound
  <2>4. PICK o : o = FreeObject
    OBVIOUS
  <2>5. /\ heap' \in [Objects -> Buckets \cup {NoBucket}] /\ heap'[o] = b
        /\ \A p \in Live : p # o /\ heap'[p] = heap[p]
    BY <1>1, <2>1, <2>2, <2>3, <2>4, AllocatedEffect
  <2>6. InstancesOK'
    BY <1>1, <1>2, <2>1, CacheType DEF InstancesOK
  <2>7. \A i \in Instances : cache'[i].bucket \in {cache[i].bucket, o}
    <3>1. /\ cache'[InstanceOf[c]].bucket = o
          /\ \A i \in Instances : i # InstanceOf[c] => cache'[i] = cache[i]
      <4>1. PICK i \in Instances : i = InstanceOf[c]
        BY <1>1, LimiterAssumption
      <4>2. o \in Objects \cup {NoObject} /\ cache' = [cache EXCEPT ![i] = EntryOf(o)]
        BY <1>2, <2>1, <2>4, <4>1
      <4>3. cache'[i].bucket = o /\ \A j \in Instances : j # i => cache'[j] = cache[j]
        BY <4>2, CacheType
      <4>4. QED
        BY <4>1, <4>3
    <3>2. QED
      BY <3>1
  <2>8. Live' \subseteq Live \cup {o}
    BY <1>5, <2>7, LiveStep
  <2>9. \A d : d = heap'[o] => Sound(d)'
    BY <2>3, <2>5, SoundStays
  <2>10. BucketsOK'
    BY <1>2, <2>5, <2>8, <2>9, BucketsStay
  <2>11. QED
    BY <1>1, <1>4, <2>6, <2>10 DEF TypeInv
<1>8. QED
  BY <1>6, <1>7 DEF GetWaitTimeMs, WaitUnregistered, WaitCached, WaitUncached, WaitFetch

\* Registrations, evictions and restarts, and the deletion of the bucket.
LEMMA InstanceStepEffect ==
    ASSUME TypeInv, NEW i \in Instances,
           Register(i) \/ Unregister(i) \/ DeleteBucket(i) \/ Evict(i) \/ Restart(i)
    PROVE  /\ UNCHANGED <<now, heap, granted, served, requests, waitOver>>
           /\ stored' \in {stored, NoBucket}
           /\ InstancesOK'
           /\ \A j \in Instances : \/ cache'[j] = cache[j]
                                   \/ j = i /\ cache'[j].bucket = NoObject
           /\ request' \in [Callers -> Requests]
           /\ \A c \in Callers : \/ request'[c] = request[c]
                                 \/ InstanceOf[c] = i /\ request'[c] = Idle
           /\ Live' \subseteq Live
<1>1. InstancesOK /\ request \in [Callers -> Requests]
  BY DEF TypeInv, RequestsOK
<1>2. Idle \in Requests /\ Idle.bucket = NoObject
  BY IdlesType DEF Idles
<1>3. /\ UNCHANGED <<now, heap, granted, served, requests, waitOver>>
      /\ stored' \in {stored, NoBucket}
      /\ registered' \subseteq Instances /\ deleting' \subseteq Instances
      /\ cache' \in {cache, Dropped(i)}
      /\ request' \in {request, [c \in Callers |-> IF InstanceOf[c] = i THEN Idle ELSE request[c]]}
  BY <1>1 DEF Register, Unregister, DeleteBucket, Evict, Restart, history, InstancesOK
<1>4. InstancesOK'
  BY <1>1, <1>3, CacheType DEF InstancesOK
<1>5. \A j \in Instances : cache'[j] = cache[j] \/ (j = i /\ cache'[j].bucket = NoObject)
  <2>1. /\ Dropped(i)[i].bucket = NoObject
        /\ \A j \in Instances : j # i => Dropped(i)[j] = cache[j]
    BY CacheType
  <2>2. CASE cache' = Dropped(i)
    BY <2>1, <2>2
  <2>3. QED
    BY <1>3, <2>2
<1>6. /\ request' \in [Callers -> Requests]
      /\ \A c \in Callers : \/ request'[c] = request[c]
                            \/ InstanceOf[c] = i /\ request'[c] = Idle
  BY <1>1, <1>2, <1>3
<1>7. Live' \subseteq Live
  BY <1>2, <1>5, <1>6 DEF Live, Referenced
<1>8. QED
  BY <1>3, <1>4, <1>5, <1>6, <1>7

LEMMA TypeInvStep ==
    ASSUME TypeInv, [Next]_vars
    PROVE  TypeInv'
<1>1. HistoryGrows
  BY HistoryStep
<1>2. ASSUME NEW c \in Callers, TryConsume(c) \/ GetWaitTimeMs(c) PROVE TypeInv'
  BY <1>1, <1>2, TypeTryConsume, TypeGetWaitTime
<1>3. ASSUME NEW i \in Instances,
             Register(i) \/ Unregister(i) \/ DeleteBucket(i) \/ Evict(i) \/ Restart(i)
      PROVE  TypeInv'
  <2>1. /\ UNCHANGED heap /\ stored' \in {stored, NoBucket} /\ InstancesOK'
        /\ request' \in [Callers -> Requests]
        /\ \A c \in Callers : request'[c] = request[c] \/ request'[c] = Idle
        /\ Live' \subseteq Live
    BY <1>3, InstanceStepEffect
  <2>2. NoObject \notin Live' /\ heap \in [Objects -> Buckets \cup {NoBucket}]
    BY DEF Live, TypeInv, BucketsOK
  <2>3. BucketsOK'
    BY <1>1, <2>1, <2>2, BucketsStay
  <2>4. ASSUME NEW c \in Callers PROVE RequestAt(c)'
    <3>1. CASE request'[c] = Idle
      BY <3>1 DEF RequestAt, At, Idle
    <3>2. CASE request'[c] = request[c]
      <4>1. RequestAt(c)
        BY DEF TypeInv, RequestsOK
      <4>2. PICK b : b = request[c].saving
        OBVIOUS
      <4>3. Sound(b) => Sound(b)'
        BY <1>1, SoundStays
      <4>4. At(c, {"save"})' => Sound(request[c].saving)'
        BY <3>2, <4>1, <4>2, <4>3 DEF RequestAt, At, Sound, Backed
      <4>5. QED
        BY <3>2, <4>1, <4>4 DEF RequestAt, At
    <3>3. QED
      BY <2>1, <3>1, <3>2
  <2>5. QED
    BY <1>1, <2>1, <2>3, <2>4 DEF TypeInv, RequestsOK, HistoryGrows
<1>4. CASE Tick \/ UNCHANGED vars
  <2>1. UNCHANGED <<stored, heap, cache, registered, request, deleting>>
    BY <1>4 DEF Tick, vars
  <2>2. Live' = Live /\ NoObject \notin Live
    BY <2>1 DEF Live, Referenced
  <2>3. BucketsOK'
    BY <1>1, <2>1, <2>2, BucketsStay DEF TypeInv, BucketsOK
  <2>4. ASSUME NEW c \in Callers PROVE RequestAt(c)'
    <3>1. RequestAt(c)
      BY DEF TypeInv, RequestsOK
    <3>2. PICK b : b = request[c].saving
      OBVIOUS
    <3>3. Sound(b) => Sound(b)'
      BY <1>1, SoundStays
    <3>4. At(c, {"save"})' => Sound(request[c].saving)'
      BY <2>1, <3>1, <3>2, <3>3 DEF RequestAt, At, Sound, Backed
    <3>5. QED
      BY <2>1, <3>1, <3>4 DEF RequestAt, At
  <2>5. QED
    BY <1>1, <2>1, <2>3, <2>4 DEF TypeInv, RequestsOK, InstancesOK, HistoryGrows
<1>5. QED
  BY <1>2, <1>3, <1>4, StepKinds

LEMMA TypeInvInit == Init => TypeInv
<1> SUFFICES ASSUME Init PROVE TypeInv
  OBVIOUS
<1>1. /\ now = 0 /\ granted = [s \in 0 .. MaxTime |-> 0] /\ 0 \in 0 .. MaxTime
      /\ requests = 0 /\ request = [c \in Callers |-> Idle]
  BY BucketsType DEF Init
<1>2. Fetching = {} /\ Cardinality(Fetching) = 0
  <2>1. Fetching = {}
    BY <1>1 DEF Fetching, At, Idle
  <2>2. QED
    BY <2>1, FS_EmptySet
<1>3. ClockOK
  BY <1>1, <1>2, BucketsType DEF ClockOK, Init
<1>4. Live = {}
  <2>1. Idle.bucket = NoObject /\ NoEntry.bucket = NoObject
    BY DEF Idle, NoEntry
  <2>2. QED
    BY <2>1 DEF Init, Live, Referenced
<1>5. BucketsOK
  BY <1>4 DEF Init, BucketsOK
<1>6. InstancesOK
  <2>1. NoEntry \in [bucket : Objects \cup {NoObject}, expiry : 0 .. MaxTime + CacheTTL]
    BY BucketsType DEF NoEntry
  <2>2. QED
    BY <2>1 DEF Init, InstancesOK
<1>7. RequestsOK
  <2>1. Idle \in Requests /\ Idle.bucket = NoObject /\ Idle.at = "idle"
    BY IdlesType DEF Idles, Idle
  <2>2. QED
    BY <1>1, <2>1 DEF RequestsOK, RequestAt, At
<1>8. QED
  BY <1>3, <1>5, <1>6, <1>7 DEF TypeInv

LEMMA TypeInvHolds == Spec => []TypeInv
BY TypeInvInit, TypeInvStep, PTL DEF Spec

LEMMA TypeInvIsEnough == TypeInv => TypeOK
BY DEF TypeInv, TypeOK, ClockOK, BucketsOK, Sound, InstancesOK, RequestsOK, Requests

(***************************************************************************)
(* Every variable keeps its type, and no more is granted than is asked     *)
(* for, whatever calls of tryConsume and getWaitTimeMs, evictions and      *)
(* restarts (rate-limiter.service.ts:37-260) come between. That the        *)
(* buckets are well-formed needs that every copy of them is (Sound).       *)
(***************************************************************************)
THEOREM LimiterTypesCorrect == Spec => []TypeOK
BY TypeInvHolds, TypeInvIsEnough, PTL
-----------------------------------------------------------------------------
(* Denials *)

\* A call is denied by the bucket it has drawn from, cached or read.
LEMMA WhoDenies ==
    ASSUME TypeInv, [Next]_vars, NEW c \in Callers, Denies(c)
    PROVE  \/ TryCached(c) /\ ~HasToken(Refilled(heap[cache[InstanceOf[c]].bucket]))
           \/ Fetch(c) /\ ~HasToken(Refilled(stored))
<1>1. RequestsOK /\ request[c].at # "save" /\ request'[c].at = "save" /\ ~request'[c].grants
  BY DEF Denies, TypeInv
<1>2. ASSUME NEW d \in Callers, NEW q, Replaced(d, q) PROVE d = c /\ request'[c] = q
  BY <1>1, <1>2, ReplacedEffect
<1>3. ASSUME NEW d \in Callers, TryConsume(d) \/ GetWaitTimeMs(d) PROVE d = c
  BY <1>2, <1>3, TryCachedGrows, FetchGrows, CreateEffect, RestEffect
     DEF TryConsume, GetWaitTimeMs, Drawn
<1>4. ~GetWaitTimeMs(c) /\ ~TryUncached(c) /\ ~Save(c) /\ ~CacheBucket(c)
  <2>1. Idle.at # "save"
    BY DEF Idle
  <2>2. QED
    BY <1>1, <1>2, <2>1, RestEffect DEF GetWaitTimeMs
<1>5. ~Create(c)
  <2> SUFFICES ASSUME Create(c) PROVE FALSE
    OBVIOUS
  <2>1. Replaced(c, [at |-> "save", bucket |-> FreeObject, saving |-> NewBucket,
                     grants |-> TRUE])
    BY CreateEffect
  <2>2. QED
    BY <1>1, <1>2, <2>1
<1>6. ASSUME TryCached(c)
      PROVE  ~HasToken(Refilled(heap[cache[InstanceOf[c]].bucket]))
  <2> DEFINE o == cache[InstanceOf[c]].bucket
             full == Refilled(heap[o])
  <2>1. Drawn(c, o, full, heap'[o])
    BY <1>6, TryCachedGrows
  <2> HIDE DEF o, full
  <2>2. request'[c].grants = HasToken(full)
    BY <1>2, <2>1 DEF Drawn
  <2>3. QED
    BY <1>1, <2>2 DEF o, full
<1>7. ASSUME Fetch(c) PROVE ~HasToken(Refilled(stored))
  BY <1>1, <1>2, <1>7, FetchGrows DEF Drawn
<1>8. ASSUME NEW i \in Instances,
             Register(i) \/ Unregister(i) \/ DeleteBucket(i) \/ Evict(i) \/ Restart(i)
      PROVE  FALSE
  BY <1>1, <1>8, InstanceStepEffect DEF Idle
<1>9. ~Tick /\ ~UNCHANGED vars
  BY <1>1 DEF Tick, vars
<1>10. QED
  BY <1>3, <1>4, <1>5, <1>6, <1>7, <1>8, <1>9, StepKinds DEF TryConsume

(***************************************************************************)
(* tryConsume (rate-limiter.service.ts:84-110) denies a request only when  *)
(* maxTokens others were granted during the last refillTimeMs, whatever    *)
(* stale copies of the bucket are cached, saved late, or lost: what is     *)
(* missing from any copy of it was granted to somebody.                    *)
(***************************************************************************)
THEOREM DenialsAreGenuine == Spec => DenialIsGenuine
<1>1. ASSUME TypeInv, [Next]_vars, NEW c \in Callers, Denies(c)
      PROVE  GrantedAfter(now - TimeMS) >= Tokens
  <2>1. PICK full : Sound(full) /\ full.lastRefill = now /\ ~HasToken(full)
    <3>1. CASE TryCached(c) /\ ~HasToken(Refilled(heap[cache[InstanceOf[c]].bucket]))
      <4>1. Sound(heap[cache[InstanceOf[c]].bucket])
        BY <1>1, <3>1, TryCachedGrows DEF TypeInv, BucketsOK
      <4>2. QED
        BY <1>1, <3>1, <4>1, RefilledSound, RefillEffect DEF TypeInv, Sound
    <3>2. CASE Fetch(c) /\ ~HasToken(Refilled(stored))
      BY <1>1, <3>2, FetchGrows, RefilledSound, RefillEffect DEF TypeInv, Sound
    <3>3. QED
      BY <1>1, <3>1, <3>2, WhoDenies
  <2>2. PICK s \in Int : s = now - TimeMS
    BY <1>1, FullType, BucketsType DEF TypeInv, ClockOK
  <2>3. PICK n \in Nat : n = GrantedAfter(s)
    <3>1. s <= now
      BY <1>1, <2>2, FullType, BucketsType DEF TypeInv, ClockOK
    <3>2. QED
      BY <1>1, <3>1, HistoryFacts DEF TypeInv
  <2>4. full.tokens \in Nat /\ full.tokens < TimeMS /\ now \in Nat
    BY <1>1, <2>1, BucketsType, FullType DEF Sound, HasToken, TypeInv, ClockOK
  <2>5. full.tokens + TimeMS * n >= Full
    <3>1. s \in full.lastRefill - TimeMS .. full.lastRefill /\ full.lastRefill - s = TimeMS
      BY <2>1, <2>2, <2>4, FullType
    <3>2. full.tokens + TimeMS * GrantedAfter(s) >= Tokens * TimeMS
      BY <2>1, <3>1 DEF Sound, Backed
    <3>3. QED
      BY <2>3, <3>2 DEF Full
  <2>6. n >= Tokens
    <3> SUFFICES ASSUME n <= Tokens - 1 PROVE FALSE
      BY <2>3, FullType
    <3>1. TimeMS * n <= TimeMS * (Tokens - 1)
      BY <2>3, FullType, Grows
    <3>2. TimeMS * (Tokens - 1) = Full - TimeMS
      <4>1. TimeMS * (Tokens - 1) = TimeMS * Tokens - TimeMS * 1 /\ TimeMS * Tokens = Full
        BY FullType, Split DEF Full
      <4>2. QED
        BY <4>1, FullType
    <3>3. TimeMS * n \in Int
      BY <2>3, FullType
    <3>4. QED
      BY <2>4, <2>5, <3>1, <3>2, <3>3, FullType
  <2>7. QED
    BY <2>2, <2>3, <2>6
<1>2. TypeInv /\ [Next]_vars =>
        [\A c \in Callers : Denies(c) => GrantedAfter(now - TimeMS) >= Tokens]_vars
  BY <1>1
<1>3. QED
  BY <1>2, TypeInvHolds, PTL DEF Spec, DenialIsGenuine
-----------------------------------------------------------------------------
(* Requests that come to one instance one by one *)

(***************************************************************************)
(* OneByOne about the caller c: nobody else is served, and c's instance is *)
(* the only one that caches the bucket, in the object that c has, if it    *)
(* has one.                                                                *)
(***************************************************************************)
Alone(c) ==
    LET k == cache[InstanceOf[c]].bucket
        r == request[c]
    IN  /\ \A d \in Callers : d # c => request[d].at = "idle"
        /\ \A i \in Instances : i # InstanceOf[c] => cache[i].bucket = NoObject
        /\ k = NoObject \/ r.bucket \in {NoObject, k}
        /\ r.at \in {"fetch", "waitFetch"} => k = NoObject
        /\ r.at = "save" => heap[r.bucket] = r.saving
        /\ r.at # "save" => \A o \in {k, r.bucket} \ {NoObject} : stored \in {NoBucket, heap[o]}

LEMMA LiveOfOne ==
    ASSUME RequestsOK, NEW c \in Callers, Alone(c)
    PROVE  Live = {cache[InstanceOf[c]].bucket, request[c].bucket} \ {NoObject}
<1>1. \A d \in Callers : d # c => request[d].bucket = NoObject
  BY DEF RequestsOK, RequestAt, At, Alone
<1>2. InstanceOf[c] \in Instances
  BY LimiterAssumption
<1>3. QED
  BY <1>1, <1>2 DEF Live, Referenced, Alone

LEMMA BecomesAlone ==
    ASSUME RequestsOK, OneByOne, served # Several, NEW c \in Callers,
           \A d \in Callers : d # c => request[d].at = "idle",
           served \in {Nobody, InstanceOf[c]}, Live # {} => served = InstanceOf[c]
    PROVE  Alone(c)
<1> DEFINE k == cache[InstanceOf[c]].bucket
           r == request[c]
<1>1. InstanceOf[c] \in Instances /\ Nobody \notin Instances
  BY LimiterAssumption
<1>2. k # NoObject => k \in Live
  BY <1>1 DEF Live, Referenced
<1>3. r.bucket # NoObject => r.bucket \in Live
  BY DEF Live, Referenced
<1>4. \A i \in Instances : i # InstanceOf[c] => cache[i].bucket = NoObject
  BY <1>1 DEF OneByOne
<1>5. k = NoObject \/ r.bucket \in {NoObject, k}
  BY <1>2, <1>3 DEF OneByOne
<1>6. r.at \in {"fetch", "waitFetch"} => k = NoObject
  BY <1>2 DEF OneByOne, At
<1>7. r.at = "save" => heap[r.bucket] = r.saving
  BY DEF OneByOne, At
<1>8. r.at # "save" => ~Saving
  BY DEF Saving, At
<1>9. r.at # "save" => \A o \in {k, r.bucket} \ {NoObject} : stored \in {NoBucket, heap[o]}
  BY <1>2, <1>3, <1>8 DEF OneByOne
<1>10. QED
  BY <1>4, <1>5, <1>6, <1>7, <1>9 DEF Alone

LEMMA StaysOneByOne ==
    ASSUME RequestsOK', NEW c \in Callers, Alone(c)', served' = InstanceOf[c]
    PROVE  OneByOne'
<1> DEFINE k == cache'[InstanceOf[c]].bucket
           r == request'[c]
<1>1. \A d \in Callers : d # c => request'[d].at = "idle" /\ request'[d].bucket = NoObject
  BY DEF RequestsOK, RequestAt, At, Alone
<1>2. InstanceOf[c] \in Instances
  BY LimiterAssumption
<1>3. Live' \subseteq {k, r.bucket} \ {NoObject}
  BY <1>1, <1>2 DEF Live, Referenced, Alone
<1>4. \A d, e \in InService' : d = e /\ InstanceOf[d] = served'
  BY <1>1 DEF InService
<1>5. \A o, p \in Live' : o = p
  BY <1>3 DEF Alone
<1>6. (\E d \in Callers : At(d, {"fetch", "waitFetch"})') => Live' = {}
  <2> SUFFICES ASSUME NEW d \in Callers, request'[d].at \in {"fetch", "waitFetch"}
               PROVE  Live' = {}
    BY DEF At
  <2>1. d = c
    BY <1>1
  <2>2. k = NoObject /\ r.bucket = NoObject
    BY <2>1 DEF Alone, RequestsOK, RequestAt, At
  <2>3. QED
    BY <1>3, <2>2
<1>7. \A d \in Callers : At(d, {"save"})' => heap'[request'[d].bucket] = request'[d].saving
  BY <1>1 DEF At, Alone
<1>8. ~Saving' => \A o \in Live' : stored' \in {NoBucket, heap'[o]}
  BY <1>3 DEF Saving, At, Alone
<1>9. QED
  BY <1>2, <1>4, <1>5, <1>6, <1>7, <1>8 DEF OneByOne, Alone

\* While requests come one by one, whoever takes a step is alone.
LEMMA CallerAlone ==
    ASSUME TypeInv, OneByOne, NEW c \in Callers, TryConsume(c) \/ GetWaitTimeMs(c),
           served' # Several
    PROVE  served # Several /\ served' = InstanceOf[c] /\ Alone(c)
<1>1. RequestsOK /\ InstanceOf[c] \in Instances
      /\ Nobody \notin Instances /\ Several \notin Instances /\ Nobody # Several
  BY LimiterAssumption DEF TypeInv
<1>2. CASE CountRequest(c)
  <2>1. /\ InService = {} /\ served \in {Nobody, InstanceOf[c]} /\ served' = InstanceOf[c]
        /\ served # Several
    BY <1>1, <1>2 DEF CountRequest
  <2>2. \A d \in Callers : request[d].at = "idle" /\ request[d].bucket = NoObject
    BY <1>1, <2>1 DEF InService, RequestsOK, RequestAt, At
  <2>3. Live # {} => served = InstanceOf[c]
    <3> SUFFICES ASSUME served = Nobody PROVE Live = {}
      BY <2>1
    <3>1. \A i \in Instances : cache[i].bucket = NoObject
      BY <1>1, <2>1 DEF OneByOne
    <3>2. QED
      BY <2>2, <3>1 DEF Live, Referenced
  <2>4. QED
    BY <1>1, <2>1, <2>2, <2>3, BecomesAlone
<1>3. CASE ~CountRequest(c)
  <2>1. served' = served /\ c \in InService
    BY <1>3 DEF TryConsume, TryCached, TryUncached, Fetch, Create, Save, CacheBucket, InService,
                GetWaitTimeMs, WaitUnregistered, WaitCached, WaitUncached, WaitFetch, history
  <2>2. served # Several /\ served = InstanceOf[c]
    BY <2>1 DEF OneByOne
  <2>3. \A d \in Callers : d # c => request[d].at = "idle"
    BY <2>1, <2>2 DEF OneByOne, InService
  <2>4. QED
    BY <1>1, <2>1, <2>2, <2>3, BecomesAlone
<1>4. QED
  BY <1>2, <1>3

LEMMA OneByOneTry ==
    ASSUME TypeInv, TypeInv', NEW c \in Callers, Alone(c), TryConsume(c)
    PROVE  Alone(c)'
<1> DEFINE i == InstanceOf[c]
<1>1. /\ RequestsOK /\ InstancesOK /\ i \in Instances
      /\ NoObject \notin Objects /\ FreeObject \in Objects
      /\ RequestAt(c)
  BY LimiterAssumption, FreeObjectIsFree DEF TypeInv, RequestsOK
<1>2. ASSUME NEW q, Replaced(c, q)
      PROVE  request'[c] = q /\ \A d \in Callers : d # c => request'[d].at = "idle"
  BY <1>1, <1>2, ReplacedEffect DEF Alone
<1>3. CASE TryCached(c)
  <2> DEFINE o == cache[i].bucket
             full == Refilled(heap[o])
  <2>1. Drawn(c, o, full, heap'[o]) /\ cache' = cache
    BY <1>3, TryCachedGrows DEF TryCached
  <2> HIDE DEF o, full
  <2>2. request'[c].at = "save" /\ request'[c].bucket = o /\ request'[c].saving = heap'[o]
    BY <1>2, <2>1 DEF Drawn
  <2>3. \A d \in Callers : d # c => request'[d].at = "idle"
    BY <1>2, <2>1 DEF Drawn
  <2>4. QED
    BY <2>1, <2>2, <2>3 DEF Alone, o
<1>4. CASE Fetch(c) \/ Create(c)
  <2>1. /\ \E q : /\ Replaced(c, q) /\ q.at = "save" /\ q.bucket = FreeObject
                  /\ q.saving = heap'[FreeObject]
        /\ cache' = cache /\ request[c].at = "fetch"
    <3>1. CASE Fetch(c)
      BY <3>1, FetchGrows DEF Fetch, Drawn
    <3>2. CASE Create(c)
      <4> DEFINE q == [at |-> "save", bucket |-> FreeObject, saving |-> NewBucket,
                       grants |-> TRUE]
      <4>1. Replaced(c, q) /\ heap'[FreeObject] = NewBucket
        BY <3>2, CreateEffect
      <4>2. q.at = "save" /\ q.bucket = FreeObject /\ q.saving = NewBucket
        OBVIOUS
      <4> HIDE DEF q
      <4>3. QED
        BY <3>2, <4>1, <4>2 DEF Create
    <3>3. QED
      BY <1>4, <3>1, <3>2
  <2>2. /\ request'[c].at = "save" /\ request'[c].bucket = FreeObject
        /\ request'[c].saving = heap'[FreeObject]
        /\ \A d \in Callers : d # c => request'[d].at = "idle"
    BY <1>2, <2>1
  <2>3. cache'[i].bucket = NoObject
    BY <2>1 DEF Alone
  <2>4. QED
    BY <2>1, <2>2, <2>3 DEF Alone
<1>5. CASE TryUncached(c)
  <2>1. PICK q : Replaced(c, q) /\ q.at = "fetch" /\ q.bucket = NoObject
    BY <1>5, RestEffect
  <2>2. /\ cache' = Dropped(i) /\ cache'[i].bucket = NoObject
        /\ \A j \in Instances : j # i => cache'[j] = cache[j]
    BY <1>1, <1>5, CacheType DEF TryUncached
  <2>3. QED
    BY <1>2, <2>1, <2>2 DEF Alone
<1>6. CASE Save(c)
  <2>1. PICK q : Replaced(c, q) /\ q.at = "cache" /\ q.bucket = request[c].bucket
    BY <1>6, RestEffect
  <2>2. /\ request[c].at = "save" /\ stored' = request[c].saving
        /\ UNCHANGED <<heap, cache>>
    BY <1>6 DEF Save
  <2>3. stored' = heap'[request'[c].bucket] /\ request[c].bucket # NoObject
    BY <1>1, <1>2, <2>1, <2>2 DEF Alone, RequestAt, At
  <2>4. QED
    BY <1>2, <2>1, <2>2, <2>3 DEF Alone
<1>7. CASE CacheBucket(c)
  <2>1. PICK q \in Idles : Replaced(c, q) /\ q.at \in {"idle", "wait"}
    BY <1>7, RestEffect
  <2>2. /\ request'[c].bucket = NoObject /\ request'[c].at \in {"idle", "wait"}
        /\ \A d \in Callers : d # c => request'[d].at = "idle"
    BY <1>2, <2>1, IdlesType
  <2>3. /\ request[c].at = "cache" /\ UNCHANGED <<heap, stored>>
        /\ request[c].bucket \in Objects \cup {NoObject}
        /\ cache' = [cache EXCEPT ![i] = EntryOf(request[c].bucket)]
    BY <1>1, <1>7 DEF CacheBucket, RequestsOK, Requests
  <2>4. /\ cache'[i].bucket = request[c].bucket
        /\ \A j \in Instances : j # i => cache'[j] = cache[j]
    BY <1>1, <2>3, CacheType
  <2>5. QED
    BY <2>2, <2>3, <2>4 DEF Alone
<1>8. QED
  BY <1>3, <1>4, <1>5, <1>6, <1>7 DEF TryConsume

LEMMA OneByOneWait ==
    ASSUME TypeInv, TypeInv', NEW c \in Callers, Alone(c), GetWaitTimeMs(c)
    PROVE  Alone(c)'
<1> DEFINE i == InstanceOf[c]
<1>1. /\ RequestsOK /\ InstancesOK /\ BucketsOK /\ i \in Instances
      /\ NoObject \notin Objects /\ FreeObject \in Objects
      /\ RequestAt(c) /\ stored' = stored
  BY LimiterAssumption, FreeObjectIsFree
     DEF TypeInv, RequestsOK, GetWaitTimeMs, WaitUnregistered, WaitCached, WaitUncached, WaitFetch
<1>2. ASSUME NEW q, Replaced(c, q)
      PROVE  request'[c] = q /\ \A d \in Callers : d # c => request'[d].at = "idle"
  BY <1>1, <1>2, ReplacedEffect DEF Alone
<1>3. Idle.at = "idle" /\ Idle.bucket = NoObject
  BY DEF Idle
<1>4. CASE WaitUnregistered(c) \/ WaitCached(c) \/ (WaitFetch(c) /\ stored = NoBucket)
  <2>1. /\ request[c].at \in {"wait", "waitFetch"} /\ UNCHANGED <<heap, cache>>
        /\ Replaced(c, Idle)
    BY <1>4, RestEffect DEF WaitUnregistered, WaitCached, WaitFetch
  <2>2. QED
    BY <1>1, <1>2, <1>3, <2>1 DEF Alone
<1>5. CASE WaitUncached(c)
  <2>1. PICK q : Replaced(c, q) /\ q.at = "waitFetch" /\ q.bucket = NoObject
    BY <1>5, RestEffect
  <2>2. /\ cache'[i].bucket = NoObject
        /\ \A j \in Instances : j # i => cache'[j] = cache[j]
    BY <1>1, <1>5, CacheType DEF WaitUncached
  <2>3. QED
    BY <1>2, <2>1, <2>2 DEF Alone
<1>6. CASE WaitFetch(c) /\ stored # NoBucket
  <2>1. /\ heap' = Allocated(stored) /\ cache' = [cache EXCEPT ![i] = EntryOf(FreeObject)]
        /\ Replaced(c, Idle)
    BY <1>6, RestEffect DEF WaitFetch
  <2>2. heap'[FreeObject] = stored
    BY <1>1, <1>6, <2>1, AllocatedEffect DEF BucketsOK, Sound
  <2>3. /\ cache'[i].bucket = FreeObject
        /\ \A j \in Instances : j # i => cache'[j] = cache[j]
    <3>1. PICK o \in Objects \cup {NoObject} : o = FreeObject
      BY <1>1
    <3> HIDE DEF i
    <3>2. cache' = [cache EXCEPT ![i] = EntryOf(o)]
      BY <2>1, <3>1 DEF i
    <3>3. QED
      BY <1>1, <3>1, <3>2, CacheType
  <2>4. QED
    BY <1>1, <1>2, <1>3, <2>1, <2>2, <2>3 DEF Alone
<1>7. QED
  BY <1>4, <1>5, <1>6 DEF GetWaitTimeMs, WaitFetch

LEMMA OneByOneStep ==
    ASSUME TypeInv, TypeInv', OneByOne, [Next]_vars
    PROVE  OneByOne'
<1> SUFFICES ASSUME served' # Several PROVE OneByOne'
  BY DEF OneByOne
<1>1. RequestsOK /\ RequestsOK'
  BY DEF TypeInv
<1>2. ASSUME NEW c \in Callers, TryConsume(c) \/ GetWaitTimeMs(c) PROVE OneByOne'
  <2>1. Alone(c) /\ served' = InstanceOf[c]
    BY <1>2, CallerAlone
  <2>2. Alone(c)'
    BY <1>2, <2>1, OneByOneTry, OneByOneWait
  <2>3. QED
    BY <1>1, <2>1, <2>2, StaysOneByOne
<1>3. ASSUME NEW i \in Instances,
             Register(i) \/ Unregister(i) \/ DeleteBucket(i) \/ Evict(i) \/ Restart(i)
      PROVE  OneByOne'
  <2>1. /\ UNCHANGED <<now, heap, granted, served, requests, waitOver>>
        /\ stored' \in {stored, NoBucket}
        /\ \A j \in Instances : cache'[j] = cache[j] \/ cache'[j].bucket = NoObject
        /\ \A c \in Callers : \/ request'[c] = request[c]
                              \/ InstanceOf[c] = i /\ request'[c] = Idle
        /\ Live' \subseteq Live
    BY <1>3, InstanceStepEffect
  <2>2. /\ InService' \subseteq InService
        /\ \A c \in InService' : request'[c] = request[c]
    BY <2>1 DEF InService, Idle
  <2>3. ASSUME NEW c \in Callers, request'[c].at # "idle" PROVE request'[c] = request[c]
    BY <2>2, <2>3 DEF InService
  <2>4. ~Saving' => ~Saving \/ Live' = {}
    <3> SUFFICES ASSUME ~Saving', NEW c \in Callers, request[c].at = "save" PROVE Live' = {}
      BY DEF Saving, At
    <3>1. request'[c] = Idle /\ InstanceOf[c] = i /\ c \in InService
      BY <2>1 DEF Saving, At, InService
    <3>2. served = i
      BY <2>1, <3>1 DEF OneByOne
    <3>3. Restart(i)
      BY <1>3, <3>1 DEF Register, Unregister, DeleteBucket, Evict, Idle, history
    <3>4. \A j \in Instances : cache'[j].bucket = NoObject
      <4>1. cache' = Dropped(i)
        BY <3>3 DEF Restart
      <4>2. QED
        BY <2>1, <3>2, <4>1, CacheType DEF OneByOne
    <3>5. \A d \in Callers : request'[d].bucket = NoObject
      <4>1. \A d \in Callers : d # c => request[d].at = "idle"
        BY <2>1, <3>1 DEF OneByOne, InService
      <4>2. \A d \in Callers : request'[d].at = "idle"
        BY <2>1, <3>1, <4>1 DEF Idle
      <4>3. QED
        BY <1>1, <4>2 DEF RequestsOK, RequestAt, At
    <3>6. QED
      BY <3>4, <3>5 DEF Live, Referenced
  <2>5. ~Saving' => \A o \in Live' : stored' \in {NoBucket, heap'[o]}
    BY <2>1, <2>4 DEF OneByOne
  <2>6. (\E c \in Callers : At(c, {"fetch", "waitFetch"})') => Live' = {}
    BY <2>1, <2>3 DEF OneByOne, At
  <2>7. \A c \in Callers : At(c, {"save"})' => heap'[request'[c].bucket] = request'[c].saving
    BY <2>1, <2>3 DEF OneByOne, At
  <2>8. QED
    BY <2>1, <2>2, <2>5, <2>6, <2>7 DEF OneByOne
<1>4. CASE Tick \/ UNCHANGED vars
  <2>1. UNCHANGED <<stored, heap, cache, request, served>>
    BY <1>4 DEF Tick, vars
  <2>2. /\ Live' = Live /\ InService' = InService /\ Saving' = Saving
        /\ \A c \in Callers : \A S : At(c, S)' = At(c, S)
    BY <2>1 DEF Live, Referenced, InService, Saving, At
  <2>3. QED
    BY <2>1, <2>2 DEF OneByOne
<1>5. QED
  BY <1>2, <1>3, <1>4, StepKinds

LEMMA OneByOneHolds == Spec => []OneByOne
<1>1. Init => OneByOne
  <2> SUFFICES ASSUME Init PROVE OneByOne
    OBVIOUS
  <2>1. /\ \A c \in Callers : request[c].at = "idle" /\ request[c].bucket = NoObject
        /\ \A i \in Instances : cache[i].bucket = NoObject
    BY DEF Init, Idle, NoEntry
  <2>2. Live = {} /\ InService = {}
    BY <2>1 DEF Live, Referenced, InService
  <2>3. QED
    BY <2>1, <2>2 DEF OneByOne, At
<1>2. TypeInv /\ TypeInv' /\ OneByOne /\ [Next]_vars => OneByOne'
  BY OneByOneStep
<1>3. QED
  BY <1>1, <1>2, TypeInvHolds, PTL DEF Spec
-----------------------------------------------------------------------------
(* The budget: sums *)

LEMMA BudgetOf ==
    ASSUME NEW d \in Nat, NEW l \in Nat
    PROVE  /\ TimeMS * (d * (Tokens + 1) + l) \in Nat
           /\ TimeMS * ((1 + d) * (Tokens + 1) + l)
                = TimeMS * (d * (Tokens + 1) + l) + Full + TimeMS
<1>1. PICK m \in Nat : m = d * (Tokens + 1)
  BY FullType
<1>2. (1 + d) * (Tokens + 1) = m + (Tokens + 1)
  <2>1. (Tokens + 1) * (d + 1) = (Tokens + 1) * d + (Tokens + 1) * 1
    BY FullType, Split
  <2>2. QED
    BY <1>1, <2>1, FullType, Split
<1>3. PICK n \in Nat : n = m + l
  BY <1>1
<1>4. TimeMS * (n + (Tokens + 1)) = TimeMS * n + TimeMS * (Tokens + 1)
  BY <1>3, FullType, Split
<1>5. TimeMS * (Tokens + 1) = Full + TimeMS
  <2>1. TimeMS * (Tokens + 1) = TimeMS * Tokens + TimeMS * 1
    BY FullType, Split
  <2>2. QED
    BY <2>1, FullType, Split DEF Full
<1>6. TimeMS * n \in Nat
  BY <1>3, FullType
<1>7. (1 + d) * (Tokens + 1) + l = n + (Tokens + 1)
  BY <1>1, <1>2, <1>3, FullType
<1>8. QED
  BY <1>1, <1>3, <1>4, <1>5, <1>6, <1>7, FullType

LEMMA BudgetGrows ==
    ASSUME NEW x \in Nat, NEW l \in Nat, NEW k \in Nat
    PROVE  /\ l <= k => TimeMS * (x + l) <= TimeMS * (x + k)
           /\ l + 1 <= k => TimeMS * (x + l) + TimeMS <= TimeMS * (x + k)
<1>1. l <= k => TimeMS * (x + l) <= TimeMS * (x + k)
  <2>1. x + l \in Int /\ x + k \in Int /\ (l <= k => x + l <= x + k)
    OBVIOUS
  <2>2. QED
    BY <2>1, FullType, Grows
<1>2. TimeMS * (x + (l + 1)) = TimeMS * (x + l) + TimeMS
  <2>1. PICK n \in Int : n = x + l
    OBVIOUS
  <2>2. TimeMS * (n + 1) = TimeMS * n + TimeMS * 1 /\ x + (l + 1) = n + 1
    BY <2>1, FullType, Split
  <2>3. QED
    BY <2>1, <2>2, FullType
<1>3. l + 1 <= k => TimeMS * (x + (l + 1)) <= TimeMS * (x + k)
  <2>1. x + (l + 1) \in Int /\ x + k \in Int /\ (l + 1 <= k => x + (l + 1) <= x + k)
    OBVIOUS
  <2>2. QED
    BY <2>1, FullType, Grows
<1>4. QED
  BY <1>1, <1>2, <1>3

LEMMA Sums ==
    TypeInv => /\ Spent \in Nat /\ Due \in Nat /\ Gone \in Nat
               /\ Allowed = Gone + Full + TimeMS
<1> SUFFICES ASSUME TypeInv
             PROVE  /\ Spent \in Nat /\ Due \in Nat /\ Gone \in Nat
                    /\ Allowed = Gone + Full + TimeMS
  OBVIOUS
<1>1. granted[now] \in Nat /\ now \in Nat /\ deletes \in Nat /\ lost \in Nat
  BY BucketsType DEF TypeInv, ClockOK
<1>2. Spent \in Nat /\ Due \in Nat
  BY <1>1, FullType DEF Spent, Due
<1>3. QED
  BY <1>1, <1>2, BudgetOf DEF Gone, Allowed

LEMMA SumsAfter ==
    TypeInv' => /\ Spent' \in Nat /\ Due' \in Nat /\ Gone' \in Nat
                /\ Allowed' = Gone' + Full + TimeMS
<1>1. (TypeInv => /\ Spent \in Nat /\ Due \in Nat /\ Gone \in Nat
                  /\ Allowed = Gone + Full + TimeMS)'
  BY Sums, PTL
<1>2. QED
  BY <1>1 DEF Full

LEMMA SumsStep ==
    ASSUME TypeInv, TypeInv'
    PROVE  /\ granted'[now'] = granted[now] => Spent' = Spent
           /\ granted'[now'] = granted[now] + 1 => Spent' = Spent + TimeMS
           /\ now <= now' => Due <= Due'
           /\ deletes' = deletes /\ lost' = lost => Gone' = Gone /\ Allowed' = Allowed
           /\ deletes' = deletes + 1 /\ lost' = lost => Gone' = Allowed
           /\ deletes' = deletes /\ lost <= lost' => Gone <= Gone'
           /\ deletes' = deletes /\ lost + 1 <= lost' => Gone + TimeMS <= Gone'
<1>1. /\ granted[now] \in Nat /\ now \in Nat /\ deletes \in Nat /\ lost \in Nat
      /\ now' \in Nat /\ deletes' \in Nat /\ lost' \in Nat
  BY BucketsType DEF TypeInv, ClockOK
<1>2. granted'[now'] = granted[now] + 1 => Spent' = Spent + TimeMS
  <2>1. TimeMS * (granted[now] + 1) = TimeMS * granted[now] + TimeMS * 1
    BY <1>1, FullType, Split
  <2>2. QED
    BY <1>1, <2>1, FullType DEF Spent
<1>3. now <= now' => Due <= Due'
  <2>1. PICK x \in Nat, y \in Nat : x = now /\ y = now'
    BY <1>1
  <2>2. x <= y => Tokens * x <= Tokens * y
    BY FullType, Grows
  <2>3. QED
    BY <2>1, <2>2 DEF Due
<1>4. deletes' = deletes + 1 /\ lost' = lost => Gone' = Allowed
  BY <1>1 DEF Gone, Allowed
<1>5. PICK x \in Nat : x = deletes * (Tokens + 1)
  BY <1>1, FullType
<1>6. Gone = TimeMS * (x + lost) /\ (deletes' = deletes => Gone' = TimeMS * (x + lost'))
  BY <1>5 DEF Gone
<1>7. /\ deletes' = deletes /\ lost <= lost' => Gone <= Gone'
      /\ deletes' = deletes /\ lost + 1 <= lost' => Gone + TimeMS <= Gone'
  BY <1>1, <1>5, <1>6, BudgetGrows
<1>8. QED
  BY <1>2, <1>3, <1>4, <1>7 DEF Spent, Gone, Allowed

LEMMA BalanceType ==
    ASSUME NEW b \in Buckets
    PROVE  Balance(b) \in Int
BY BucketsType, FullType DEF Balance

\* No bucket owes more than time has refilled.
LEMMA BalanceDue ==
    ASSUME TypeInv, NEW b \in Buckets, b.lastRefill <= now
    PROVE  Balance(b) + Due >= 0
<1>1. /\ b.tokens \in Nat /\ b.lastRefill \in Nat /\ now \in Nat
  BY BucketsType, FullType DEF TypeInv, ClockOK
<1>2. Tokens * b.lastRefill <= Tokens * now
  BY <1>1, FullType, Grows
<1>3. Tokens * b.lastRefill \in Int /\ Tokens * now \in Int
  BY <1>1, FullType
<1>4. QED
  BY <1>1, <1>2, <1>3 DEF Balance, Due

\* A refill never improves the balance, and a token that is taken is paid for.
LEMMA BalanceDrawn ==
    ASSUME TypeInv, NEW b \in Buckets, b.lastRefill <= now,
           NEW left, left = IF HasToken(Refilled(b)) THEN Consumed(Refilled(b)) ELSE Refilled(b)
    PROVE  /\ left \in Buckets
           /\ Balance(left) + (IF HasToken(Refilled(b)) THEN TimeMS ELSE 0) <= Balance(b)
<1>1. PICK full : full = Refilled(b)
  OBVIOUS
<1>2. /\ full \in Buckets /\ full.lastRefill = now
      /\ full.tokens <= b.tokens + Tokens * (now - b.lastRefill)
  BY <1>1, RefillEffect DEF TypeInv
<1>3. /\ b.tokens \in Nat /\ b.lastRefill \in Nat /\ now \in Nat /\ full.tokens \in Nat
  BY <1>2, BucketsType, FullType DEF TypeInv, ClockOK
<1>4. /\ Tokens * (now - b.lastRefill) = Tokens * now - Tokens * b.lastRefill
      /\ Tokens * now \in Int /\ Tokens * b.lastRefill \in Int
  BY <1>3, FullType, Split
<1>5. Balance(full) <= Balance(b)
  BY <1>2, <1>3, <1>4 DEF Balance
<1>6. Balance(full) \in Int /\ Balance(b) \in Int
  BY <1>2, BalanceType
<1>7. CASE HasToken(full)
  <2>1. left = Consumed(full)
    BY <1>1, <1>7
  <2>2. left \in Buckets /\ left.tokens = full.tokens - TimeMS /\ left.lastRefill = now
    BY <1>2, <1>7, <2>1, ConsumedType
  <2>3. Balance(left) + TimeMS = Balance(full)
    BY <1>2, <1>3, <1>4, <2>2, FullType DEF Balance
  <2>4. QED
    BY <1>1, <1>5, <1>7, <2>2, <2>3
<1>8. CASE ~HasToken(full)
  BY <1>1, <1>2, <1>5, <1>6, <1>8
<1>9. QED
  BY <1>7, <1>8
-----------------------------------------------------------------------------
(* The budget: steps *)

LEMMA BucketsInUse ==
    ASSUME TypeInv
    PROVE  /\ \A o \in Live : heap[o] \in Buckets /\ heap[o].lastRefill <= now
           /\ stored # NoBucket => stored \in Buckets /\ stored.lastRefill <= now
BY DEF TypeInv, BucketsOK, Sound

LEMMA MoreIsDue ==
    ASSUME NEW s \in Nat, NEW d \in Nat, NEW g \in Nat, NEW e \in Nat, NEW h \in Nat,
           d <= e, g <= h
    PROVE  /\ s <= g + d => s <= h + e
           /\ s <= g + d + TimeMS => s <= h + e + TimeMS
           /\ s <= g + d + TimeMS /\ g + TimeMS <= h => s <= h + e
BY FullType

LEMMA MoreIsAllowed ==
    ASSUME NEW s \in Nat, NEW x \in Int, NEW g \in Nat, NEW h \in Nat, g <= h
    PROVE  /\ s + x <= g => s + x <= h
           /\ s + x <= g + Full + TimeMS => s + x <= h + Full + TimeMS
           /\ s + x <= g + Full + TimeMS + TimeMS => s + x <= h + Full + TimeMS + TimeMS
           /\ s + x <= g + Full + TimeMS + TimeMS /\ g + TimeMS <= h
                => s + x <= h + Full + TimeMS
BY FullType

\* No bucket changes. A request that is granted goes on, or all is lost with it.
LEMMA BudgetKeeps ==
    ASSUME TypeInv, TypeInv', InBudget, served # Several,
           Live' \subseteq Live, \A o \in Live' : heap'[o] = heap[o], stored' = stored,
           granted'[now'] = granted[now], now <= now', deletes' = deletes, lost <= lost',
           Granting => Granting' \/ (lost + 1 <= lost' /\ Live' = {})
    PROVE  InBudget'
<1>1. PICK s \in Nat, d \in Nat, g \in Nat, e \in Nat, h \in Nat :
          /\ s = Spent /\ d = Due /\ g = Gone /\ g + Full + TimeMS = Allowed
          /\ s = Spent' /\ e = Due' /\ h = Gone' /\ h + Full + TimeMS = Allowed'
  BY Sums, SumsAfter, SumsStep
<1>2. d <= e /\ g <= h /\ (lost + 1 <= lost' => g + TimeMS <= h)
  BY <1>1, SumsStep
<1>3. ASSUME NEW o \in Live'
      PROVE  o \in Live /\ Balance(heap[o])' = Balance(heap[o]) /\ Balance(heap[o]) \in Int
  BY <1>3, BucketsInUse, BalanceType DEF Balance
<1>4. CASE stored = NoBucket /\ NoneCreated
  <2>1. s <= g + d /\ \A o \in Live' : s + Balance(heap[o]) <= g
    BY <1>1, <1>3, <1>4 DEF NoneCreated
  <2>2. s <= h + e /\ \A o \in Live' : s + Balance(heap[o]) <= h
    BY <1>2, <1>3, <2>1, MoreIsDue, MoreIsAllowed
  <2>3. NoneCreated'
    BY <1>1, <1>3, <2>2 DEF NoneCreated
  <2>4. QED
    BY <1>4, <2>3 DEF InBudget
<1>5. CASE stored = NoBucket /\ OneCreated
  <2>1. /\ Granting /\ s <= g + d + TimeMS
        /\ \A o \in Live' : s + Balance(heap[o]) <= g + Full + TimeMS
    BY <1>1, <1>3, <1>5 DEF OneCreated
  <2>2. CASE Granting'
    <3>1. s <= h + e + TimeMS
      BY <1>2, <2>1, MoreIsDue
    <3>2. ASSUME NEW o \in Live' PROVE s + Balance(heap[o]) <= h + Full + TimeMS
      <4>1. PICK x \in Int : x = Balance(heap[o])
        BY <1>3, <3>2
      <4>2. QED
        BY <1>2, <2>1, <3>2, <4>1, MoreIsAllowed
    <3>3. OneCreated'
      BY <1>1, <1>3, <2>2, <3>1, <3>2 DEF OneCreated
    <3>4. QED
      BY <1>5, <3>3 DEF InBudget
  <2>3. CASE ~Granting'
    <3>1. Live' = {} /\ s <= h + e
      BY <1>2, <2>1, <2>3, MoreIsDue
    <3>2. NoneCreated'
      BY <1>1, <3>1 DEF NoneCreated
    <3>3. QED
      BY <1>5, <3>2 DEF InBudget
  <2>4. QED
    BY <2>2, <2>3
<1>6. CASE stored # NoBucket
  <2>1. Stored
    BY <1>6 DEF InBudget
  <2>2. PICK x \in Int : x = Balance(stored) /\ x = Balance(stored)'
    BY <1>6, BucketsInUse, BalanceType DEF Balance
  <2>3. /\ \A o \in Live' : s + Balance(heap[o]) <= g + Full + TimeMS
        /\ ~Granting => s + x <= g + Full + TimeMS
        /\ s + x <= g + Full + TimeMS + TimeMS
    <3>1. s + x <= g + Full + TimeMS + (IF Granting THEN TimeMS ELSE 0)
      BY <1>1, <2>1, <2>2 DEF Stored
    <3>2. \A o \in Live' : s + Balance(heap[o]) <= g + Full + TimeMS
      BY <1>1, <1>3, <2>1 DEF Stored
    <3>3. CASE Granting
      BY <3>1, <3>2, <3>3
    <3>4. CASE ~Granting
      <4>1. s + x <= g + Full + TimeMS
        BY <3>1, <3>4, FullType
      <4>2. QED
        BY <3>2, <3>4, <4>1, FullType
    <3>5. QED
      BY <3>3, <3>4
  <2>4. /\ \A o \in Live' : s + Balance(heap[o]) <= h + Full + TimeMS
        /\ ~Granting' => s + x <= h + Full + TimeMS
        /\ s + x <= h + Full + TimeMS + TimeMS
    <3>1. ASSUME NEW o \in Live' PROVE s + Balance(heap[o]) <= h + Full + TimeMS
      <4>1. PICK y \in Int : y = Balance(heap[o])
        BY <1>3, <3>1
      <4>2. QED
        BY <1>2, <2>3, <3>1, <4>1, MoreIsAllowed
    <3>2. s + x <= h + Full + TimeMS + TimeMS
      BY <1>2, <2>3, MoreIsAllowed
    <3>3. ASSUME ~Granting' PROVE s + x <= h + Full + TimeMS
      <4>1. CASE ~Granting
        BY <1>2, <2>3, <4>1, MoreIsAllowed
      <4>2. CASE lost + 1 <= lost'
        BY <1>2, <2>3, <4>2, MoreIsAllowed
      <4>3. QED
        BY <3>3, <4>1, <4>2
    <3>4. QED
      BY <3>1, <3>2, <3>3
  <2>5. s + x <= h + Full + TimeMS + (IF Granting' THEN TimeMS ELSE 0)
    BY <2>4, FullType
  <2>6. Stored'
    BY <1>1, <1>3, <2>2, <2>4, <2>5 DEF Stored
  <2>7. QED
    BY <1>6, <2>6 DEF InBudget
<1>7. QED
  BY <1>4, <1>5, <1>6 DEF InBudget

\* A bucket is refilled and drawn from: the one that is cached, or the one stored.
LEMMA BudgetDrawn ==
    ASSUME TypeInv, TypeInv', InBudget, served # Several,
           NEW c \in Callers, NEW o, NEW b \in Buckets, b.lastRefill <= now,
           (o \in Live /\ b = heap[o]) \/ b = stored,
           Drawn(c, o, Refilled(b), heap'[o]), ~Granting, Live' \subseteq {o},
           UNCHANGED <<stored, now, deletes, lost>>
    PROVE  InBudget'
<1> DEFINE taken == IF HasToken(Refilled(b)) THEN TimeMS ELSE 0
<1>1. PICK left : left = heap'[o]
  OBVIOUS
<1>2. /\ left = IF HasToken(Refilled(b)) THEN Consumed(Refilled(b)) ELSE Refilled(b)
      /\ left.lastRefill = now
      /\ Replaced(c, [at |-> "save", bucket |-> o, saving |-> left,
                      grants |-> HasToken(Refilled(b))])
      /\ IF HasToken(Refilled(b)) THEN Grant ELSE UNCHANGED <<granted, waitOver>>
  BY <1>1 DEF Drawn
<1>3. left \in Buckets /\ Balance(left) + taken <= Balance(b)
  BY <1>2, BalanceDrawn
<1>4. Balance(left) \in Int /\ Balance(b) \in Int /\ Balance(left) + Due >= 0
  BY <1>2, <1>3, BalanceType, BalanceDue, FullType DEF TypeInv, ClockOK
<1>5. /\ Spent \in Nat /\ Due \in Nat /\ Gone \in Nat /\ Allowed = Gone + Full + TimeMS
      /\ Due' = Due /\ Gone' = Gone /\ Allowed' = Allowed
      /\ Full \in Nat /\ TimeMS \in Nat /\ taken \in Nat /\ taken \in {0, TimeMS}
  BY Sums, SumsStep, FullType DEF Due
<1>6. Spent' = Spent + taken
  <2>1. CASE HasToken(Refilled(b))
    <3>1. granted'[now'] = granted[now] + 1
      BY <1>2, <2>1, BucketsType DEF Grant, TypeInv, ClockOK
    <3>2. QED
      BY <2>1, <3>1, SumsStep
  <2>2. CASE ~HasToken(Refilled(b))
    BY <1>2, <1>5, <2>2, SumsStep
  <2>3. QED
    BY <2>1, <2>2
<1>7. taken # 0 => Granting'
  <2>1. request'[c].at = "save" /\ request'[c].grants = HasToken(Refilled(b))
    BY <1>2, ReplacedEffect DEF TypeInv
  <2>2. QED
    BY <2>1 DEF Granting, At
<1> HIDE DEF taken
<1>8. ASSUME NEW p \in Live' PROVE Balance(heap[p])' = Balance(left)
  BY <1>1, <1>8 DEF Balance
<1>9. CASE stored = NoBucket
  <2>1. NoneCreated /\ o \in Live /\ b = heap[o]
    BY <1>9, BucketsType DEF InBudget, OneCreated
  <2>2. Spent + Balance(b) <= Gone
    BY <2>1 DEF NoneCreated
  <2>3. Spent' + Balance(left) <= Gone
    BY <1>3, <1>4, <1>5, <1>6, <2>2
  <2>4. NoneCreated'
    BY <1>3, <1>4, <1>5, <1>6, <1>8, <2>3 DEF NoneCreated
  <2>5. QED
    BY <1>9, <2>4 DEF InBudget
<1>10. CASE stored # NoBucket
  <2>1. Stored
    BY <1>10 DEF InBudget
  <2>2. Spent + Balance(b) <= Allowed /\ Spent + Balance(stored) <= Allowed
    BY <1>5, <2>1 DEF Stored
  <2>3. Balance(stored) \in Int /\ Balance(stored)' = Balance(stored)
    BY <1>10, BucketsInUse, BalanceType DEF Balance
  <2>4. Spent' + Balance(left) <= Allowed'
    BY <1>3, <1>4, <1>5, <1>6, <2>2
  <2>5. Spent' + Balance(stored) <= Allowed' + (IF Granting' THEN TimeMS ELSE 0)
    BY <1>5, <1>6, <1>7, <2>2, <2>3
  <2>6. Stored'
    BY <1>8, <2>3, <2>4, <2>5 DEF Stored
  <2>7. QED
    BY <1>10, <2>6 DEF InBudget
<1>11. QED
  BY <1>9, <1>10

\* What the budget says of every bucket in use, and of what was granted.
LEMMA BudgetIsEnough ==
    ASSUME TypeInv, InBudget, served # Several
    PROVE  /\ \A o \in Live : Spent + Balance(heap[o]) <= Allowed
           /\ Spent <= Allowed + Due
<1>1. /\ Spent \in Nat /\ Due \in Nat /\ Gone \in Nat /\ Allowed = Gone + Full + TimeMS
      /\ Full \in Nat /\ TimeMS \in Nat
  BY Sums, FullType
<1>2. ASSUME NEW o \in Live
      PROVE  Balance(heap[o]) \in Int /\ Balance(heap[o]) + Due >= 0
  BY <1>2, BucketsInUse, BalanceType, BalanceDue
<1>3. ASSUME NEW o \in Live PROVE Spent + Balance(heap[o]) <= Allowed
  <2>1. PICK x \in Int : x = Balance(heap[o])
    BY <1>2
  <2>2. Spent + x <= Gone \/ Spent + x <= Allowed
    BY <1>3, <2>1 DEF InBudget, NoneCreated, OneCreated, Stored
  <2>3. QED
    BY <1>1, <2>1, <2>2
<1>4. Spent <= Allowed + Due
  <2>1. CASE stored = NoBucket
    <3>1. Spent <= Gone + Due \/ Spent <= Gone + Due + TimeMS
      BY <2>1 DEF InBudget, NoneCreated, OneCreated
    <3>2. QED
      BY <1>1, <3>1
  <2>2. CASE Granting
    <3>1. PICK o : o \in Live
      BY <2>2 DEF Granting, At, TypeInv, RequestsOK, RequestAt, Live, Referenced
    <3>2. PICK x \in Int : x = Balance(heap[o]) /\ x + Due >= 0 /\ Spent + x <= Allowed
      BY <1>2, <1>3, <3>1
    <3>3. QED
      BY <1>1, <3>2
  <2>3. CASE stored # NoBucket /\ ~Granting
    <3>1. stored \in Buckets /\ stored.lastRefill <= now
      BY <2>3, BucketsInUse
    <3>2. PICK x \in Int : x = Balance(stored) /\ x + Due >= 0
      BY <3>1, BalanceType, BalanceDue
    <3>3. Spent + x <= Allowed + 0
      BY <2>3, <3>2 DEF InBudget, Stored
    <3>4. QED
      BY <1>1, <3>2, <3>3
  <2>4. QED
    BY <2>1, <2>2, <2>3
<1>5. QED
  BY <1>3, <1>4

\* The first request of a key makes the bucket and is granted besides.
LEMMA BudgetCreate ==
    ASSUME TypeInv, TypeInv', InBudget, served # Several, NEW c \in Callers, Create(c),
           ~Granting, Live' \subseteq {FreeObject}
    PROVE  InBudget'
<1>1. stored = NoBucket /\ UNCHANGED <<stored, now, deletes, lost>> /\ Grant
  BY DEF Create
<1>2. /\ Spent \in Nat /\ Due \in Nat /\ Gone \in Nat /\ Allowed = Gone + Full + TimeMS
      /\ Due' = Due /\ Gone' = Gone /\ Allowed' = Allowed
      /\ Full \in Nat /\ TimeMS \in Nat
  BY <1>1, Sums, SumsStep, FullType DEF Due
<1>3. Spent' = Spent + TimeMS
  <2>1. granted'[now'] = granted[now] + 1
    BY <1>1, BucketsType DEF Grant, TypeInv, ClockOK
  <2>2. QED
    BY <2>1, SumsStep
<1>4. Spent <= Gone + Due
  BY <1>1 DEF InBudget, NoneCreated, OneCreated
<1>5. heap'[FreeObject] = NewBucket /\ Granting'
  <2>1. /\ heap'[FreeObject] = NewBucket
        /\ Replaced(c, [at |-> "save", bucket |-> FreeObject, saving |-> NewBucket,
                        grants |-> TRUE])
    BY CreateEffect
  <2>2. request'[c].at = "save" /\ request'[c].grants
    BY <2>1, ReplacedEffect DEF TypeInv
  <2>3. QED
    BY <2>1, <2>2 DEF Granting, At
<1>6. ASSUME NEW o \in Live' PROVE Balance(heap[o])' = Full - Due
  <2>1. heap'[o].tokens = Full /\ heap'[o].lastRefill = now
    BY <1>5, <1>6 DEF NewBucket, Full
  <2>2. QED
    BY <2>1 DEF Balance, Due
<1>7. OneCreated'
  <2>1. Spent' <= Gone + Due + TimeMS
    BY <1>2, <1>3, <1>4
  <2>2. Spent' + (Full - Due) <= Allowed
    BY <1>2, <1>3, <1>4
  <2>3. QED
    BY <1>2, <1>5, <1>6, <2>1, <2>2 DEF OneCreated
<1>8. QED
  BY <1>1, <1>7 DEF InBudget

\* A bucket reaches the storage, or is read from it.
LEMMA BudgetSaved ==
    ASSUME TypeInv, TypeInv', InBudget, served # Several, stored' # NoBucket,
           UNCHANGED <<now, granted, deletes, lost>>,
           \A o \in Live' : heap'[o] = stored',
           \/ \E o \in Live : heap[o] = stored'
           \/ ~Granting /\ stored' = stored
    PROVE  InBudget'
<1>1. PICK b \in Buckets : b = stored'
  BY DEF TypeInv, BucketsOK, Sound
<1>2. /\ Spent' = Spent /\ Allowed' = Allowed /\ Spent \in Nat /\ Gone \in Nat
      /\ Allowed = Gone + Full + TimeMS /\ Full \in Nat /\ TimeMS \in Nat
  BY Sums, SumsStep, FullType
<1>3. PICK x \in Int : x = Balance(b)
  BY BalanceType
<1>4. Spent + x <= Allowed
  <2>1. CASE \E o \in Live : heap[o] = stored'
    BY <1>1, <1>3, <2>1, BudgetIsEnough
  <2>2. CASE ~Granting /\ stored' = stored
    <3>1. Spent + x <= Allowed + 0
      BY <1>1, <1>3, <2>2 DEF InBudget, Stored
    <3>2. QED
      BY <1>2, <3>1
  <2>3. QED
    BY <2>1, <2>2
<1>5. /\ Balance(stored)' = x
      /\ \A o \in Live' : Balance(heap[o])' = x
  BY <1>1, <1>3 DEF Balance
<1>6. Spent + x <= Allowed + (IF Granting' THEN TimeMS ELSE 0)
  BY <1>2, <1>4
<1>7. Stored'
  BY <1>2, <1>4, <1>5, <1>6 DEF Stored
<1>8. QED
  BY <1>7 DEF InBudget

LEMMA ClockType ==
    ASSUME TypeInv
    PROVE  now \in Nat /\ lost \in Nat /\ granted \in [0 .. MaxTime -> 0 .. MaxRequests]
BY BucketsType DEF TypeInv, ClockOK

(***************************************************************************)
(* What the step of a call does to the buckets in use and the one stored,  *)
(* while requests come one by one: it draws from a bucket, makes the first *)
(* one, saves one, reads one, or leaves them all.                          *)
(***************************************************************************)
Draws(c) ==
    \E o, b :
        /\ b \in Buckets /\ b.lastRefill <= now
        /\ (o \in Live /\ b = heap[o]) \/ b = stored
        /\ Drawn(c, o, Refilled(b), heap'[o]) /\ Live' \subseteq {o}
        /\ request[c].at # "save" /\ UNCHANGED <<stored, now, deletes, lost>>

Creates(c) == Create(c) /\ request[c].at # "save" /\ Live' \subseteq {FreeObject}

Saves(c) ==
    /\ stored' # NoBucket /\ \A o \in Live' : heap'[o] = stored'
    /\ \E o \in Live : stored' = heap[o]
    /\ UNCHANGED <<now, granted, deletes, lost, waitOver>>

Reads(c) ==
    /\ WaitFetch(c) /\ stored # NoBucket
    /\ request[c].at # "save" /\ \A o \in Live' : heap'[o] = stored'
    /\ UNCHANGED <<stored, now, granted, deletes, lost>>

Leaves(c) ==
    /\ \/ TryUncached(c) \/ CacheBucket(c) \/ WaitUnregistered(c) \/ WaitCached(c)
       \/ WaitUncached(c) \/ (WaitFetch(c) /\ stored = NoBucket)
    /\ request[c].at # "save" /\ Live' \subseteq Live
    /\ UNCHANGED <<now, heap, stored, granted, deletes, lost>>

LEMMA CallerSteps ==
    ASSUME TypeInv, TypeInv', OneByOne, OneByOne', served' # Several,
           NEW c \in Callers, TryConsume(c) \/ GetWaitTimeMs(c)
    PROVE  Draws(c) \/ Creates(c) \/ Saves(c) \/ Reads(c) \/ Leaves(c)
<1>1. served # Several /\ Alone(c) /\ InstanceOf[c] \in Instances /\ RequestsOK /\ RequestsOK'
  BY CallerAlone, LimiterAssumption DEF TypeInv
<1>2. ASSUME NEW o \in Live' PROVE Live' \subseteq {o}
  BY <1>2 DEF OneByOne
<1>3. NoObject \notin Objects
  BY FreeObjectIsFree DEF TypeInv
<1>4. ASSUME NEW o \in Objects, request'[c].bucket = o PROVE Live' \subseteq {o}
  BY <1>2, <1>3, <1>4 DEF Live, Referenced
<1>5. CASE TryCached(c)
  <2> DEFINE o == cache[InstanceOf[c]].bucket
  <2>1. o \in Live /\ Drawn(c, o, Refilled(heap[o]), heap'[o])
    BY <1>5, TryCachedGrows
  <2>2. /\ request[c].at = "idle" /\ UNCHANGED <<stored, now, deletes, lost>>
    BY <1>5 DEF TryCached
  <2> HIDE DEF o
  <2>3. Live' \subseteq {o}
    <3>1. o \in Objects
      BY <1>1, <2>1 DEF TypeInv, InstancesOK, RequestsOK, Requests, Live, Referenced
    <3>2. request'[c].bucket = o
      BY <1>1, <2>1, ReplacedEffect DEF Drawn
    <3>3. QED
      BY <1>4, <3>1, <3>2
  <2>4. PICK b : b = heap[o]
    OBVIOUS
  <2>5. b \in Buckets /\ b.lastRefill <= now
    BY <2>1, <2>4, BucketsInUse
  <2>6. QED
    BY <2>1, <2>2, <2>3, <2>4, <2>5 DEF Draws
<1>6. CASE Fetch(c)
  <2>1. /\ stored \in Buckets /\ stored.lastRefill <= now /\ FreeObject \in Objects
        /\ Drawn(c, FreeObject, Refilled(stored), heap'[FreeObject])
    BY <1>6, FetchGrows DEF Sound
  <2>2. /\ request[c].at = "fetch" /\ UNCHANGED <<stored, now, deletes, lost>>
    BY <1>6 DEF Fetch
  <2>3. PICK o : o = FreeObject
    OBVIOUS
  <2>4. Live' \subseteq {o}
    <3>1. request'[c].bucket = o
      BY <1>1, <2>1, <2>3, ReplacedEffect DEF Drawn
    <3>2. QED
      BY <1>4, <2>1, <2>3, <3>1
  <2>5. PICK b : b = stored
    OBVIOUS
  <2>6. Drawn(c, o, Refilled(b), heap'[o])
    BY <2>1, <2>3, <2>5
  <2>7. QED
    BY <2>1, <2>2, <2>4, <2>5, <2>6 DEF Draws
<1>7. CASE Create(c)
  <2>1. request[c].at = "fetch"
    BY <1>7 DEF Create
  <2>2. FreeObject \in Objects /\ request'[c].bucket = FreeObject
    <3> DEFINE q == [at |-> "save", bucket |-> FreeObject, saving |-> NewBucket, grants |-> TRUE]
    <3>1. Replaced(c, q) /\ q.bucket = FreeObject /\ FreeObject \in Objects
      BY <1>7, CreateEffect
    <3> HIDE DEF q
    <3>2. QED
      BY <1>1, <3>1, ReplacedEffect
  <2>3. Live' \subseteq {FreeObject}
    BY <1>4, <2>2
  <2>4. QED
    BY <1>7, <2>1, <2>3 DEF Creates
<1>8. CASE Save(c)
  <2>1. /\ request[c].at = "save" /\ stored' = request[c].saving
        /\ UNCHANGED <<now, heap, cache, granted, deletes, lost, waitOver>>
    BY <1>8 DEF Save, history
  <2>2. /\ request[c].bucket \in Live /\ heap[request[c].bucket] = stored'
        /\ stored' # NoBucket
    BY <1>1, <2>1, BucketsType DEF Alone, RequestsOK, RequestAt, At, Live, Referenced, Sound
  <2>3. Live' \subseteq Live
    <3>1. PICK q : Replaced(c, q) /\ q.bucket = request[c].bucket
      BY <1>8, RestEffect
    <3>2. \A d \in Callers : request'[d].bucket = request[d].bucket
      BY <1>1, <3>1, ReplacedEffect
    <3>3. QED
      BY <2>1, <3>2 DEF Live, Referenced
  <2>4. \A o \in Live' : heap'[o] = stored'
    BY <1>1, <2>1, <2>2, <2>3 DEF OneByOne
  <2>5. QED
    BY <2>1, <2>2, <2>4 DEF Saves
<1>9. CASE WaitFetch(c) /\ stored # NoBucket
  <2>1. /\ request[c].at = "waitFetch" /\ heap' = Allocated(stored)
        /\ cache' = [cache EXCEPT ![InstanceOf[c]] = EntryOf(FreeObject)]
        /\ UNCHANGED <<stored, now, granted, deletes, lost>>
    BY <1>9 DEF WaitFetch
  <2>2. PICK o \in Objects : o = FreeObject
    BY FreeObjectIsFree DEF TypeInv
  <2>3. heap'[o] = stored
    BY <1>9, <2>1, <2>2, AllocatedEffect DEF TypeInv, BucketsOK, Sound
  <2>4. o \in Live'
    <3>1. PICK i \in Instances : i = InstanceOf[c]
      BY <1>1
    <3>2. cache' = [cache EXCEPT ![i] = EntryOf(o)]
      BY <2>1, <2>2, <3>1
    <3>3. cache'[i].bucket = o
      BY <3>2, CacheType
    <3>4. QED
      BY <1>3, <3>3 DEF Live, Referenced
  <2>5. \A p \in Live' : heap'[p] = stored'
    BY <1>2, <2>1, <2>3, <2>4
  <2>6. QED
    BY <1>9, <2>1, <2>5 DEF Reads
<1>10. CASE \/ TryUncached(c) \/ CacheBucket(c) \/ WaitUnregistered(c) \/ WaitCached(c)
            \/ WaitUncached(c) \/ (WaitFetch(c) /\ stored = NoBucket)
  <2>1. /\ request[c].at # "save" /\ UNCHANGED <<now, heap, stored, granted, deletes, lost>>
    BY <1>10 DEF TryUncached, CacheBucket, WaitUnregistered, WaitCached, WaitUncached, WaitFetch,
                 history
  <2>2. Live' \subseteq Live
    <3>1. \A i \in Instances :
              cache'[i].bucket \in {cache[i].bucket, NoObject, request[c].bucket}
      <4>1. CASE UNCHANGED cache
        BY <4>1
      <4>2. CASE cache' = Dropped(InstanceOf[c])
        <5>1. PICK i \in Instances : i = InstanceOf[c]
          BY <1>1
        <5>2. cache' = Dropped(i)
          BY <4>2, <5>1
        <5>3. \A j \in Instances : j # i => cache'[j] = cache[j]
          BY <5>2, CacheType
        <5>4. cache'[i].bucket = NoObject
          BY <5>2, CacheType
        <5>5. QED
          BY <5>3, <5>4
      <4>3. CASE cache' = [cache EXCEPT ![InstanceOf[c]] = EntryOf(request[c].bucket)]
        <5>1. PICK i \in Instances, o \in Objects \cup {NoObject} :
                  i = InstanceOf[c] /\ o = request[c].bucket
          BY <1>1 DEF RequestsOK, Requests
        <5>2. cache' = [cache EXCEPT ![i] = EntryOf(o)]
          BY <4>3, <5>1
        <5>3. QED
          BY <5>1, <5>2, CacheType
      <4>4. QED
        BY <1>10, <4>1, <4>2, <4>3
           DEF TryUncached, CacheBucket, WaitUnregistered, WaitCached, WaitUncached, WaitFetch
    <3>2. \E q : Replaced(c, q) /\ q.bucket = NoObject
      <4>1. Idle.bucket = NoObject
        BY DEF Idle
      <4>2. QED
        BY <1>10, <4>1, RestEffect, IdlesType
    <3>3. \A d \in Callers : request'[d].bucket \in {request[d].bucket, NoObject}
      BY <1>1, <3>2, ReplacedEffect
    <3>4. \A i \in Instances : cache'[i].bucket \in Referenced \cup {NoObject}
      BY <3>1 DEF Referenced
    <3>5. QED
      BY <3>3, <3>4 DEF Live, Referenced
  <2>3. QED
    BY <1>10, <2>1, <2>2 DEF Leaves
<1>11. QED
  BY <1>5, <1>6, <1>7, <1>8, <1>9, <1>10 DEF TryConsume, GetWaitTimeMs, WaitFetch

LEMMA InBudgetCaller ==
    ASSUME TypeInv, TypeInv', OneByOne, OneByOne', InBudget, served' # Several,
           NEW c \in Callers, TryConsume(c) \/ GetWaitTimeMs(c)
    PROVE  InBudget'
<1>1. served # Several /\ (request[c].at # "save" => ~Granting)
  BY CallerAlone DEF Granting, At, Alone
<1>2. CASE Draws(c)
  BY <1>1, <1>2, BudgetDrawn DEF Draws
<1>3. CASE Creates(c)
  BY <1>1, <1>3, BudgetCreate DEF Creates
<1>4. CASE Saves(c)
  BY <1>1, <1>4, BudgetSaved DEF Saves
<1>5. CASE Reads(c)
  BY <1>1, <1>5, BudgetSaved DEF Reads
<1>6. CASE Leaves(c)
  <2>1. lost \in Nat /\ now \in Nat
    BY ClockType
  <2>2. QED
    BY <1>1, <1>6, <2>1, BudgetKeeps DEF Leaves
<1>7. QED
  BY <1>2, <1>3, <1>4, <1>5, <1>6, CallerSteps

LEMMA InBudgetInstance ==
    ASSUME TypeInv, TypeInv', OneByOne, InBudget, served' # Several, NEW i \in Instances,
           Register(i) \/ Unregister(i) \/ DeleteBucket(i) \/ Evict(i) \/ Restart(i)
    PROVE  InBudget'
<1>1. /\ UNCHANGED <<now, heap, granted, served>>
      /\ \A j \in Instances : cache'[j] = cache[j] \/ (j = i /\ cache'[j].bucket = NoObject)
      /\ \A c \in Callers : request'[c] = request[c] \/ (InstanceOf[c] = i /\ request'[c] = Idle)
      /\ Live' \subseteq Live
  BY InstanceStepEffect
<1>2. served # Several /\ lost \in Nat /\ now \in Nat /\ RequestsOK'
  BY <1>1, BucketsType DEF TypeInv, ClockOK
<1>3. CASE Register(i) \/ Unregister(i) \/ Evict(i) \/ (DeleteBucket(i) /\ stored = NoBucket)
  <2>1. UNCHANGED <<stored, request, deletes, lost>>
    BY <1>3 DEF Register, Unregister, Evict, DeleteBucket, history
  <2>2. Granting' = Granting
    BY <2>1 DEF Granting, At
  <2>3. QED
    BY <1>1, <1>2, <2>1, <2>2, BudgetKeeps
<1>4. CASE DeleteBucket(i) /\ stored # NoBucket
  <2>1. stored' = NoBucket /\ deletes' = deletes + 1 /\ lost' = lost
    BY <1>4 DEF DeleteBucket
  <2>2. /\ Spent' = Spent /\ Gone' = Allowed /\ Due' = Due
    BY <1>1, <2>1, SumsStep DEF Due
  <2>3. \A o \in Live' : o \in Live /\ Balance(heap[o])' = Balance(heap[o])
    BY <1>1 DEF Balance
  <2>4. NoneCreated'
    BY <1>2, <2>2, <2>3, BudgetIsEnough DEF NoneCreated
  <2>5. QED
    BY <2>1, <2>4 DEF InBudget
<1>5. CASE Restart(i)
  <2> DEFINE stopped == {c \in Callers :
                 InstanceOf[c] = i /\ request[c].at = "save" /\ request[c].grants}
  <2>1. /\ UNCHANGED <<stored, deletes>> /\ lost' = lost + Cardinality(stopped)
        /\ cache' = Dropped(i)
    BY <1>5 DEF Restart
  <2>2. IsFiniteSet(stopped) /\ Cardinality(stopped) \in Nat
    <3>1. stopped \subseteq Callers /\ IsFiniteSet(Callers)
      BY LimiterAssumption
    <3>2. QED
      BY <3>1, FS_Subset, FS_CardinalityType
  <2>3. ASSUME NEW c \in stopped PROVE lost + 1 <= lost' /\ Live' = {}
    <3>1. Cardinality(stopped) # 0
      BY <2>2, <2>3, FS_EmptySet
    <3>2. c \in Callers /\ c \in InService /\ InstanceOf[c] = i
      BY <2>3 DEF InService
    <3>3. served = i /\ \A d \in Callers : d # c => request[d].at = "idle"
      BY <1>2, <3>2 DEF OneByOne, InService
    <3>4. \A j \in Instances : cache'[j].bucket = NoObject
      <4>1. \A j \in Instances : j # i => cache[j].bucket = NoObject
        BY <1>2, <3>3 DEF OneByOne
      <4>2. cache'[i].bucket = NoObject
        BY <2>1, CacheType
      <4>3. QED
        BY <1>1, <4>1, <4>2
    <3>5. request' = [d \in Callers |-> IF InstanceOf[d] = i THEN Idle ELSE request[d]]
      BY <1>5 DEF Restart
    <3>6. \A d \in Callers : request'[d].at = "idle"
      BY <3>2, <3>3, <3>5 DEF Idle
    <3>7. Live' = {}
      BY <1>2, <3>4, <3>6 DEF RequestsOK, RequestAt, At, Live, Referenced
    <3> HIDE DEF stopped
    <3>8. lost + 1 <= lost'
      BY <1>2, <2>1, <2>2, <3>1
    <3>9. QED
      BY <3>7, <3>8
  <2>4. Granting => Granting' \/ (lost + 1 <= lost' /\ Live' = {})
    <3> SUFFICES ASSUME NEW c \in Callers, request[c].at = "save", request[c].grants
                 PROVE  Granting' \/ (lost + 1 <= lost' /\ Live' = {})
      BY DEF Granting, At
    <3>1. CASE InstanceOf[c] = i
      <4>1. c \in stopped
        BY <3>1
      <4>2. QED
        BY <2>3, <4>1
    <3>2. CASE InstanceOf[c] # i
      <4>1. request'[c] = request[c]
        BY <1>1, <3>2
      <4>2. QED
        BY <4>1 DEF Granting, At
    <3>3. QED
      BY <3>1, <3>2
  <2> HIDE DEF stopped
  <2>5. lost <= lost' /\ granted'[now'] = granted[now] /\ now <= now'
    BY <1>1, <1>2, <2>1, <2>2
  <2>6. QED
    BY <1>1, <1>2, <2>1, <2>4, <2>5, BudgetKeeps
<1>6. QED
  BY <1>3, <1>4, <1>5

LEMMA InBudgetStep ==
    ASSUME TypeInv, TypeInv', OneByOne, OneByOne', InBudget, [Next]_vars
    PROVE  InBudget'
<1> SUFFICES ASSUME served' # Several PROVE InBudget'
  BY DEF InBudget
<1>1. ASSUME NEW c \in Callers, TryConsume(c) \/ GetWaitTimeMs(c) PROVE InBudget'
  BY <1>1, InBudgetCaller
<1>2. ASSUME NEW i \in Instances,
             Register(i) \/ Unregister(i) \/ DeleteBucket(i) \/ Evict(i) \/ Restart(i)
      PROVE  InBudget'
  BY <1>2, InBudgetInstance
<1>3. CASE Tick \/ UNCHANGED vars
  <2>1. UNCHANGED <<stored, heap, cache, request, served, deletes, lost>>
    BY <1>3 DEF Tick, vars
  <2>2. Live' = Live /\ Granting' = Granting
    BY <2>1 DEF Live, Referenced, Granting, At
  <2>3. now \in Nat /\ lost \in Nat /\ granted \in [0 .. MaxTime -> 0 .. MaxRequests]
    BY ClockType
  <2>4. now <= now' /\ granted'[now'] = granted[now]
    <3>1. CASE Tick
      <4>1. /\ now' = now + 1 /\ now' \in 0 .. MaxTime
            /\ granted' = [granted EXCEPT ![now + 1] = granted[now]]
        BY <2>3, <3>1, BucketsType DEF Tick
      <4>2. QED
        BY <2>3, <4>1
    <3>2. CASE UNCHANGED vars
      BY <2>3, <3>2 DEF vars
    <3>3. QED
      BY <1>3, <3>1, <3>2
  <2>5. QED
    BY <2>1, <2>2, <2>3, <2>4, BudgetKeeps
<1>4. QED
  BY <1>1, <1>2, <1>3, StepKinds

LEMMA InBudgetHolds == Spec => []InBudget
<1>1. Init => InBudget
  <2> SUFFICES ASSUME Init PROVE InBudget
    OBVIOUS
  <2>1. TypeInv /\ stored = NoBucket /\ now = 0 /\ granted[now] = 0
    BY TypeInvInit, BucketsType DEF Init
  <2>2. Spent = 0 /\ Due = 0 /\ Gone \in Nat
    BY <2>1, Sums, FullType DEF Spent, Due
  <2>3. Live = {}
    <3>1. /\ \A c \in Callers : request[c].bucket = NoObject
          /\ \A i \in Instances : cache[i].bucket = NoObject
      BY DEF Init, Idle, NoEntry
    <3>2. QED
      BY <3>1 DEF Live, Referenced
  <2>4. NoneCreated
    BY <2>2, <2>3 DEF NoneCreated
  <2>5. QED
    BY <2>1, <2>4 DEF InBudget
<1>2. TypeInv /\ TypeInv' /\ OneByOne /\ OneByOne' /\ InBudget /\ [Next]_vars => InBudget'
  BY InBudgetStep
<1>3. QED
  BY <1>1, <1>2, TypeInvHolds, OneByOneHolds, PTL DEF Spec

(***************************************************************************)
(* The limit persists (README, Rate Limiting): while requests come to one  *)
(* instance one at a time, no expired or evicted cache entry, no late save *)
(* and no denial (rate-limiter.service.ts:84-110, 226-254) fills the       *)
(* bucket. What is granted in all stays within one bucket, what time       *)
(* refills, and what deletions and restarts allow.                         *)
(***************************************************************************)
THEOREM BudgetIsKept == Spec => []WithinBudget
<1>1. TypeInv /\ InBudget => WithinBudget
  BY BudgetIsEnough DEF WithinBudget, Spent, Allowed, Due
<1>2. QED
  BY <1>1, TypeInvHolds, InBudgetHolds, PTL
-----------------------------------------------------------------------------
(* The wait *)

LEMMA AheadType ==
    TypeInv => /\ Later \in Nat /\ Later >= now /\ Ahead \in Nat
               /\ Due <= Ahead /\ now \in Nat /\ waitOver \in Int
<1> SUFFICES ASSUME TypeInv
             PROVE  /\ Later \in Nat /\ Later >= now /\ Ahead \in Nat
                    /\ Due <= Ahead /\ now \in Nat /\ waitOver \in Int
  OBVIOUS
<1>1. now \in Nat /\ waitOver \in Int
  BY BucketsType DEF TypeInv, ClockOK
<1>2. PICK m \in Nat, n \in Nat : m = now /\ n = Later /\ m <= n
  BY <1>1 DEF Later
<1>3. Tokens * m <= Tokens * n /\ Tokens * n \in Nat
  BY <1>2, FullType, Grows
<1>4. QED
  BY <1>1, <1>2, <1>3 DEF Ahead, Due

\* As time goes on, a bucket promises no less.
LEMMA AheadGrows ==
    ASSUME TypeInv, TypeInv', now <= now', waitOver' = waitOver
    PROVE  Ahead' \in Nat /\ Ahead <= Ahead'
<1>1. now \in Nat /\ now' \in Nat /\ waitOver \in Int
  BY BucketsType DEF TypeInv, ClockOK
<1>2. PICK m \in Nat, n \in Nat : m = Later /\ n = Later' /\ m <= n
  BY <1>1 DEF Later
<1>3. Tokens * m <= Tokens * n /\ Tokens * m \in Nat /\ Tokens * n \in Nat
  <2>1. m \in Nat /\ n \in Nat /\ m <= n
    BY <1>2
  <2>2. QED
    BY <2>1, FullType, Grows
<1>4. QED
  BY <1>2, <1>3 DEF Ahead

\* A refill keeps the promise: what it caps is full.
LEMMA RefillPromises ==
    ASSUME TypeInv, NEW b \in Buckets, b.lastRefill <= now, Promises(b)
    PROVE  Promises(Refilled(b))
<1>1. PICK full : full = Refilled(b)
  OBVIOUS
<1>2. /\ full \in Buckets /\ full.lastRefill = now
      /\ full.tokens = b.tokens + Tokens * (now - b.lastRefill) \/ full.tokens = Full
  BY <1>1, RefillEffect DEF TypeInv
<1>3. b.tokens \in Nat /\ b.lastRefill \in Nat /\ now \in Nat /\ full.tokens \in Nat
  BY <1>2, BucketsType, FullType DEF TypeInv, ClockOK
<1>4. /\ Tokens * (now - b.lastRefill) = Tokens * now - Tokens * b.lastRefill
      /\ Tokens * now \in Int /\ Tokens * b.lastRefill \in Int
  BY <1>3, FullType, Split
<1>5. PICK a \in Nat : a = Ahead /\ Tokens * now <= a
  BY AheadType DEF Due
<1>6. b.tokens - Tokens * b.lastRefill + a >= TimeMS
  BY <1>5 DEF Promises, Balance
<1>7. full.tokens - Tokens * now + a >= TimeMS
  BY <1>2, <1>3, <1>4, <1>5, <1>6, FullType
<1>8. QED
  BY <1>1, <1>2, <1>5, <1>7 DEF Promises, Balance

\* When the wait is over, the promise is a token.
LEMMA PromiseIsKept ==
    ASSUME TypeInv, NEW b \in Buckets, b.lastRefill <= now, Promises(b), now >= waitOver
    PROVE  HasToken(Refilled(b))
<1>1. PICK full : full = Refilled(b)
  OBVIOUS
<1>2. full \in Buckets /\ full.lastRefill = now /\ Promises(full)
  BY <1>1, RefillEffect, RefillPromises DEF TypeInv
<1>3. Ahead = Tokens * now
  BY AheadType DEF Ahead, Later
<1>4. full.tokens \in Nat /\ Tokens * now \in Int
  BY <1>2, AheadType, BucketsType, FullType
<1>5. full.tokens - Tokens * now + Tokens * now >= TimeMS
  BY <1>2, <1>3 DEF Promises, Balance
<1>6. QED
  BY <1>1, <1>4, <1>5, FullType DEF HasToken

\* The wait that is told is enough for the bucket it is computed from.
LEMMA WaitPromises ==
    ASSUME TypeInv, TypeInv', NEW b \in Buckets, b.lastRefill <= now,
           now' = now, waitOver' = now + WaitTime(b)
    PROVE  Balance(b) + Ahead' >= TimeMS
<1>1. PICK w \in Nat : w = WaitTime(b) /\ b.tokens + Tokens * w >= TimeMS
  BY WaitTimeEnough
<1>2. b.tokens \in Nat /\ b.lastRefill \in Nat /\ now \in Nat
  BY BucketsType, FullType DEF TypeInv, ClockOK
<1>3. Later' = now + w
  BY <1>1, <1>2 DEF Later
<1>4. /\ Tokens * (now + w) = Tokens * now + Tokens * w
      /\ Tokens * now \in Int /\ Tokens * w \in Int /\ Tokens * b.lastRefill \in Int
      /\ Tokens * b.lastRefill <= Tokens * now
  BY <1>1, <1>2, FullType, Split, Grows
<1>5. b.tokens - Tokens * b.lastRefill + (Tokens * now + Tokens * w) >= TimeMS
  BY <1>1, <1>2, <1>4, FullType
<1>6. QED
  BY <1>3, <1>4, <1>5 DEF Balance, Ahead

\* The wait told stays, and every bucket in use or stored was there before.
LEMMA PromisedKeeps ==
    ASSUME TypeInv, TypeInv', Promised, served # Several, now <= now', waitOver' = waitOver,
           \A o \in Live' : \/ \E p \in Live : heap'[o] = heap[p]
                            \/ stored # NoBucket /\ heap'[o] = stored,
           stored' \in {stored, NoBucket} \/ \E p \in Live : stored' = heap[p]
    PROVE  Promised'
<1> SUFFICES ASSUME waitOver # -1 PROVE Promised'
  BY DEF Promised
<1>1. PICK a \in Nat, z \in Nat : a = Ahead /\ z = Ahead' /\ a <= z
  BY AheadType, AheadGrows
<1>2. /\ stored # NoBucket => stored \in Buckets /\ Balance(stored) + a >= TimeMS
      /\ \A p \in Live : heap[p] \in Buckets /\ Balance(heap[p]) + a >= TimeMS
  BY <1>1, BucketsInUse DEF Promised, Promises
<1>3. ASSUME NEW b \in Buckets, Balance(b) + a >= TimeMS PROVE Balance(b) + z >= TimeMS
  <2>1. PICK x \in Int : x = Balance(b)
    BY BalanceType
  <2>2. QED
    BY <1>1, <1>3, <2>1, FullType
<1>4. ASSUME NEW o \in Live' PROVE Promises(heap[o])'
  <2>1. PICK b \in Buckets : b = heap'[o] /\ Balance(b) + a >= TimeMS
    BY <1>2, <1>4
  <2>2. Balance(heap[o])' = Balance(b)
    BY <2>1 DEF Balance
  <2>3. QED
    BY <1>1, <1>3, <2>1, <2>2 DEF Promises
<1>5. ASSUME stored' # NoBucket PROVE Promises(stored)'
  <2>1. PICK b \in Buckets : b = stored' /\ Balance(b) + a >= TimeMS
    BY <1>2, <1>5
  <2>2. Balance(stored)' = Balance(b)
    BY <2>1 DEF Balance
  <2>3. QED
    BY <1>1, <1>3, <2>1, <2>2 DEF Promises
<1>6. QED
  BY <1>4, <1>5 DEF Promised

\* Who is denied leaves a refilled bucket; who is granted ends the wait.
LEMMA PromisedDrawn ==
    ASSUME TypeInv, TypeInv', Promised, served # Several,
           NEW c \in Callers, NEW o, NEW b \in Buckets, b.lastRefill <= now,
           (o \in Live /\ b = heap[o]) \/ b = stored,
           Drawn(c, o, Refilled(b), heap'[o]), Live' \subseteq {o},
           UNCHANGED <<stored, now>>
    PROVE  Promised'
<1>1. CASE HasToken(Refilled(b))
  BY <1>1 DEF Drawn, Grant, Promised
<1>2. CASE ~HasToken(Refilled(b)) /\ waitOver # -1
  <2>1. /\ heap'[o] = Refilled(b) /\ waitOver' = waitOver
    BY <1>2 DEF Drawn
  <2>2. Promises(b)
    BY <1>2, BucketsType DEF Promised
  <2>3. PICK full : full = Refilled(b) /\ Promises(full)
    BY <2>2, RefillPromises
  <2>4. Ahead' = Ahead
    BY <2>1 DEF Ahead, Later
  <2>5. ASSUME NEW p \in Live' PROVE Promises(heap[p])'
    <3>1. Balance(heap[p])' = Balance(full)
      BY <2>1, <2>3, <2>5 DEF Balance
    <3>2. QED
      BY <2>3, <2>4, <3>1 DEF Promises
  <2>6. ASSUME stored' # NoBucket PROVE Promises(stored)'
    <3>1. Promises(stored)
      BY <1>2, <2>6 DEF Promised
    <3>2. Balance(stored)' = Balance(stored)
      BY DEF Balance
    <3>3. QED
      BY <2>4, <3>1, <3>2 DEF Promises
  <2>7. QED
    BY <2>5, <2>6 DEF Promised
<1>3. CASE ~HasToken(Refilled(b)) /\ waitOver = -1
  BY <1>3 DEF Drawn, Promised
<1>4. QED
  BY <1>1, <1>2, <1>3

\* The wait is told from the bucket that is cached, or will be.
LEMMA PromisedTold ==
    ASSUME TypeInv, TypeInv', served # Several, now' = now,
           NEW b \in Buckets, b.lastRefill <= now, waitOver' = now + WaitTime(b),
           \A o \in Live' : heap'[o] = b, stored' \in {NoBucket, b}
    PROVE  Promised'
<1>1. Balance(b) + Ahead' >= TimeMS
  BY WaitPromises
<1>2. ASSUME NEW o \in Live' PROVE Promises(heap[o])'
  <2>1. Balance(heap[o])' = Balance(b)
    BY <1>2 DEF Balance
  <2>2. QED
    BY <1>1, <2>1 DEF Promises
<1>3. ASSUME stored' # NoBucket PROVE Promises(stored)'
  <2>1. Balance(stored)' = Balance(b)
    BY <1>3 DEF Balance
  <2>2. QED
    BY <1>1, <2>1 DEF Promises
<1>4. QED
  BY <1>2, <1>3 DEF Promised

LEMMA PromisedCaller ==
    ASSUME TypeInv, TypeInv', OneByOne, OneByOne', Promised, served' # Several,
           NEW c \in Callers, TryConsume(c) \/ GetWaitTimeMs(c)
    PROVE  Promised'
<1>1. served # Several /\ Alone(c) /\ now \in Nat /\ waitOver \in Int
  BY CallerAlone, AheadType
<1>2. CASE Draws(c)
  BY <1>1, <1>2, PromisedDrawn DEF Draws
<1>3. CASE Creates(c)
  BY <1>3 DEF Creates, Create, Grant, Promised
<1>4. CASE Saves(c)
  <2>1. /\ \A o \in Live' : \E p \in Live : heap'[o] = heap[p]
        /\ \E p \in Live : stored' = heap[p]
        /\ waitOver' = waitOver /\ now <= now'
    BY <1>1, <1>4 DEF Saves
  <2>2. QED
    BY <1>1, <2>1, PromisedKeeps
<1>5. CASE Reads(c)
  <2>1. /\ stored # NoBucket /\ stored' = stored /\ now' = now
        /\ \A o \in Live' : heap'[o] = stored
        /\ Tell(WaitTime(stored))
    BY <1>5 DEF Reads, WaitFetch
  <2>2. CASE waitOver = -1
    <3>1. PICK b \in Buckets : b = stored /\ b.lastRefill <= now
      BY <2>1, BucketsInUse
    <3>2. waitOver' = now + WaitTime(b)
      BY <2>1, <2>2, <3>1 DEF Tell
    <3>3. QED
      BY <1>1, <2>1, <3>1, <3>2, PromisedTold
  <2>3. CASE waitOver # -1
    <3>1. waitOver' = waitOver /\ now <= now'
      BY <1>1, <2>1, <2>3 DEF Tell
    <3>2. QED
      BY <1>1, <2>1, <3>1, PromisedKeeps
  <2>4. QED
    BY <2>2, <2>3
<1>6. CASE Leaves(c)
  <2>1. /\ UNCHANGED <<now, heap, stored>> /\ Live' \subseteq Live
        /\ \A o \in Live' : \E p \in Live : heap'[o] = heap[p]
    BY <1>6 DEF Leaves
  <2>2. CASE waitOver' = waitOver
    <3>1. now <= now'
      BY <1>1, <2>1
    <3>2. QED
      BY <1>1, <2>1, <2>2, <3>1, PromisedKeeps
  <2>3. CASE waitOver' # waitOver
    <3>1. waitOver = -1 /\ (WaitCached(c) \/ (WaitFetch(c) /\ stored = NoBucket))
      BY <1>6, <2>3
         DEF Leaves, TryUncached, CacheBucket, WaitUnregistered, WaitCached, WaitUncached,
             WaitFetch, Tell, history
    <3>2. CASE WaitCached(c)
      <4> DEFINE k == cache[InstanceOf[c]].bucket
      <4>1. /\ k # NoObject /\ k \in Live /\ request[c].at = "wait"
            /\ Tell(WaitTime(heap[k]))
        BY <3>2, LimiterAssumption DEF WaitCached, Cached, Live, Referenced
      <4>2. \A o \in Live : o = k
        BY <1>1, <4>1 DEF OneByOne
      <4>3. stored \in {NoBucket, heap[k]}
        BY <1>1, <4>1 DEF Alone
      <4> HIDE DEF k
      <4>4. PICK b \in Buckets : b = heap[k] /\ b.lastRefill <= now
        BY <4>1, BucketsInUse
      <4>5. waitOver' = now + WaitTime(b)
        BY <3>1, <4>1, <4>4 DEF Tell
      <4>6. \A o \in Live' : heap'[o] = b
        BY <2>1, <4>2, <4>4
      <4>7. QED
        BY <1>1, <2>1, <4>3, <4>4, <4>5, <4>6, PromisedTold
    <3>3. CASE WaitFetch(c) /\ stored = NoBucket
      <4>1. At(c, {"fetch", "waitFetch"})
        BY <3>3 DEF WaitFetch, At
      <4>2. Live' = {} /\ stored' = NoBucket
        BY <1>1, <2>1, <3>3, <4>1 DEF OneByOne
      <4>3. QED
        BY <4>2 DEF Promised
    <3>4. QED
      BY <3>1, <3>2, <3>3
  <2>4. QED
    BY <2>2, <2>3
<1>7. QED
  BY <1>2, <1>3, <1>4, <1>5, <1>6, CallerSteps

LEMMA PromisedStep ==
    ASSUME TypeInv, TypeInv', OneByOne, OneByOne', Promised, [Next]_vars
    PROVE  Promised'
<1> SUFFICES ASSUME served' # Several PROVE Promised'
  BY DEF Promised
<1>1. ASSUME NEW c \in Callers, TryConsume(c) \/ GetWaitTimeMs(c) PROVE Promised'
  BY <1>1, PromisedCaller
<1>2. now \in Nat
  BY AheadType
<1>3. ASSUME NEW i \in Instances,
             Register(i) \/ Unregister(i) \/ DeleteBucket(i) \/ Evict(i) \/ Restart(i)
      PROVE  Promised'
  <2>1. /\ UNCHANGED <<now, heap, served, waitOver>> /\ stored' \in {stored, NoBucket}
        /\ Live' \subseteq Live
    BY <1>3, InstanceStepEffect
  <2>2. /\ now <= now' /\ served # Several
        /\ \A o \in Live' : \E p \in Live : heap'[o] = heap[p]
    BY <1>2, <2>1
  <2>3. QED
    BY <2>1, <2>2, PromisedKeeps
<1>4. CASE Tick \/ UNCHANGED vars
  <2>1. UNCHANGED <<stored, heap, cache, request, served, waitOver>> /\ now' \in {now, now + 1}
    BY <1>4 DEF Tick, vars
  <2>2. Live' = Live
    BY <2>1 DEF Live, Referenced
  <2>3. /\ now <= now' /\ served # Several
        /\ \A o \in Live' : \E p \in Live : heap'[o] = heap[p]
    BY <1>2, <2>1, <2>2
  <2>4. QED
    BY <2>1, <2>3, PromisedKeeps
<1>5. QED
  BY <1>1, <1>3, <1>4, StepKinds

LEMMA PromisedHolds == Spec => []Promised
<1>1. Init => Promised
  BY DEF Init, Promised
<1>2. TypeInv /\ TypeInv' /\ OneByOne /\ OneByOne' /\ Promised /\ [Next]_vars => Promised'
  BY PromisedStep
<1>3. QED
  BY <1>1, <1>2, TypeInvHolds, OneByOneHolds, PTL DEF Spec

(***************************************************************************)
(* getWaitTimeMs (rate-limiter.service.ts:113-156): while requests come to *)
(* one instance one at a time, whoever waits as long as it says is         *)
(* granted, unless another request was granted meanwhile: rounding up is   *)
(* enough, and no copy of the bucket that the next call may draw from      *)
(* holds less than the one it was computed from.                           *)
(***************************************************************************)
THEOREM WaitsAreEnough == Spec => WaitSuffices
<1>1. ASSUME TypeInv, Promised, [Next]_vars, served # Several, waitOver # -1, now >= waitOver,
             NEW c \in Callers, Denies(c)
      PROVE  FALSE
  <2>1. PICK b \in Buckets : b.lastRefill <= now /\ Promises(b) /\ ~HasToken(Refilled(b))
    <3>1. CASE TryCached(c) /\ ~HasToken(Refilled(heap[cache[InstanceOf[c]].bucket]))
      <4>1. cache[InstanceOf[c]].bucket \in Live
        BY <1>1, <3>1, TryCachedGrows
      <4>2. QED
        BY <1>1, <3>1, <4>1, BucketsInUse DEF Promised
    <3>2. CASE Fetch(c) /\ ~HasToken(Refilled(stored))
      BY <1>1, <3>2, BucketsInUse DEF Fetch, Promised
    <3>3. QED
      BY <1>1, <3>1, <3>2, WhoDenies
  <2>2. HasToken(Refilled(b))
    BY <1>1, <2>1, PromiseIsKept
  <2>3. QED
    BY <2>1, <2>2
<1>2. TypeInv /\ Promised /\ [Next]_vars =>
        [served # Several /\ waitOver # -1 /\ now >= waitOver =>
            \A c \in Callers : ~Denies(c)]_vars
  BY <1>1
<1>3. QED
  BY <1>2, TypeInvHolds, PromisedHolds, PTL DEF Spec, WaitSuffices
=============================================================================
