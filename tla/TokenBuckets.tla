----------------------------- MODULE TokenBuckets -----------------------------
(***************************************************************************)
(* The limiters: one bucket per key, filled at first use, refilled lazily and  *)
(* in whole ticks when it is next asked, and forgotten when too many keys have *)
(* come after it (routes/rate-limit.ts).  The bucket of a socket's operations   *)
(* (sync/rate-limit.ts) is the same with one key.                            *)
(*                                                                         *)
(* The observer counts what one bucket lets through from a moment of its own   *)
(* choosing, so that what is said of `admitted` is said of every stretch of      *)
(* time in the bucket's life.                                               *)
(***************************************************************************)
EXTENDS Integers, Sequences, SequencesExt

CONSTANTS
  Address,
  BucketCapacity, TickMs, MaxKeys,
  MaxClock      \* bound: how far the clock runs

ASSUME BucketAssumption ==
  /\ BucketCapacity \in Nat \ {0} /\ TickMs \in Nat \ {0}
  /\ MaxKeys \in Nat \ {0} /\ MaxClock \in Nat

VARIABLES
  clock,
  order,      \* keys that have a bucket, the oldest first: the Map's insertion order
  bucket,     \* key -> [tokens, lastRefill]; of a key without one, what it last held
  watching,   \* the key the observer watches
  since,      \* when it began to
  admitted    \* what that key's bucket has let through since

bucketVars == <<clock, order, bucket, watching, since, admitted>>

FullBucket == [tokens |-> BucketCapacity, lastRefill |-> clock]

InitBuckets ==
  /\ clock = 0 /\ order = << >>
  /\ bucket = [k \in Address |-> FullBucket]
  /\ watching \in Address /\ since = 0 /\ admitted = 0

\* Whole ticks since the last refill; what is over counts towards the next one.
Ticks(b) == (clock - b.lastRefill) \div TickMs

Capped(tokens) == IF tokens > BucketCapacity THEN BucketCapacity ELSE tokens

UncappedRefill(b) ==
  [tokens |-> b.tokens + Ticks(b), lastRefill |-> b.lastRefill + Ticks(b) * TickMs]

Refilled(b) ==
  [tokens |-> Capped(b.tokens + Ticks(b)), lastRefill |-> b.lastRefill + Ticks(b) * TickMs]

Live(k) == \E i \in DOMAIN order : order[i] = k

\* A new key's bucket takes its place behind the others, the oldest making way.
Ordered(k) ==
  IF Live(k) THEN order
  ELSE Append(IF Len(order) >= MaxKeys THEN Tail(order) ELSE order, k)

Held(k) == Refilled(IF Live(k) THEN bucket[k] ELSE FullBucket)

\* consume(key, now).  A bucket made anew is watched anew.
Consume(k) ==
  LET b     == Held(k)
      token == IF b.tokens > 0 THEN 1 ELSE 0
      fresh == ~Live(k)
  IN /\ order' = Ordered(k)
     /\ bucket' = [j \in Address |-> IF j = k THEN [tokens |-> b.tokens - token, lastRefill |-> b.lastRefill]
                                 ELSE bucket[j]]
     /\ since' = IF k = watching /\ fresh THEN clock ELSE since
     /\ admitted' = IF k # watching THEN admitted
                    ELSE IF fresh THEN token ELSE admitted + token
     /\ UNCHANGED <<clock, watching>>

\* The observer starts over.
Watch(k) ==
  /\ watching' = k /\ since' = clock /\ admitted' = 0
  /\ UNCHANGED <<clock, order, bucket>>

Pass ==
  /\ clock < MaxClock /\ clock' = clock + 1
  /\ UNCHANGED <<order, bucket, watching, since, admitted>>

NextBuckets == Pass \/ \E k \in Address : Consume(k) \/ Watch(k)

BucketsSpec == InitBuckets /\ [][NextBuckets]_bucketVars

----------------------------------------------------------------------------

\* Whenever one starts counting, a bucket lets through no more than it can hold and one for
\* every tick begun since: the burst and the rate the comments promise, whatever refills were
\* put off, rounded down or carried over.  It bounds from above: nothing is said of a request
\* that is refused.
BurstPlusRate ==
  (admitted - BucketCapacity) * TickMs <= clock - since + (TickMs - 1)
=============================================================================
