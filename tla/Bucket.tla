------------------------------ MODULE Bucket ------------------------------
(***************************************************************************)
(* One rate budget: a sliding window of takes and the hold a 429 sets      *)
(* (crates/prism/src/bucket.rs).                                           *)
(*                                                                         *)
(* An instant is its age in ticks, which saturates at Forever: a state     *)
(* says how long ago a take was and how much of a hold is left, and time   *)
(* needs no bound.  Forever is no shorter than any window.                 *)
(***************************************************************************)
EXTENDS Naturals, Sequences

CONSTANTS Forever, NoHold

ASSUME BucketAssumption == Forever \in Nat /\ NoHold \notin Nat

Tiers == [count : Nat \ {0}, per_secs : 1..Forever]
Ages == Seq(0..Forever)
Buckets == [limit : Tiers, taken : Ages, blocked : Nat \cup {NoHold}]

NewBucket(tier) == [limit |-> tier, taken |-> <<>>, blocked |-> NoHold]

\* How many takes are popped from the front, oldest first: those a whole window old.
Expired(taken, per) ==
  CHOOSE n \in 0..Len(taken) : /\ \A m \in 1..n : taken[m] >= per
                               /\ n < Len(taken) => taken[n + 1] < per

\* The takes still inside the window: "a suffix of taken, because the deque is in
\* Instant order".
Live(taken, per) == SubSeq(taken, Expired(taken, per) + 1, Len(taken))

\* Mutant: an expired hold still holds.
PeekForever(b) ==
  LET live == Live(b.taken, b.limit.per_secs)
      over == Len(live) - b.limit.count
  IN  IF b.blocked # NoHold THEN b.blocked + 1
      ELSE IF Len(live) < b.limit.count THEN 0
      ELSE b.limit.per_secs - live[over + 1]

\* How long to wait for a token; 0 says there is one.
Peek(b) ==
  LET live == Live(b.taken, b.limit.per_secs)
      over == Len(live) - b.limit.count
  IN  IF b.blocked # NoHold THEN b.blocked
      ELSE IF Len(live) < b.limit.count THEN 0
      ELSE b.limit.per_secs - live[over + 1]

\* Mutant: the window is cleared by every take, as a fixed window would.
TakeFixed(b) ==
  [b EXCEPT !.blocked = NoHold,
            !.taken = Append(IF Len(@) >= b.limit.count THEN <<>> ELSE @, 0)]

\* Spend the token Peek found: an expired hold clears the window.
Take(b) ==
  [b EXCEPT !.blocked = NoHold,
            !.taken = Append(IF b.blocked # NoHold THEN <<>>
                             ELSE Live(@, b.limit.per_secs), 0)]

\* Mutant: the window keeps the takes a 429 is meant to replace.
DrainAppends(b, retry_after) ==
  [b EXCEPT !.taken = @ \o [n \in 1..b.limit.count |-> 0],
            !.blocked = IF @ # NoHold /\ @ > retry_after THEN @ ELSE retry_after]

\* Mutant: the last Retry-After wins.
DrainLast(b, retry_after) ==
  [b EXCEPT !.taken = [n \in 1..b.limit.count |-> 0], !.blocked = retry_after]

\* A 429: the window is full of takes and held; the later deadline wins.
Drain(b, retry_after) ==
  [b EXCEPT !.taken = [n \in 1..b.limit.count |-> 0],
            !.blocked = IF @ # NoHold /\ @ > retry_after THEN @ ELSE retry_after]

\* tier allows fewer requests a second than other (RateLimit::tighter_than).
TighterThan(tier, other) ==
  tier.count * other.per_secs < other.count * tier.per_secs

\* Adopt an advertised tier, clamped to at least one; the takes are left alone.
Relimit(b, tier) ==
  [b EXCEPT !.limit = [count |-> IF tier.count = 0 THEN 1 ELSE tier.count,
                       per_secs |-> IF tier.per_secs = 0 THEN 1 ELSE tier.per_secs]]

Older(ages) ==
  [n \in DOMAIN ages |-> IF ages[n] < Forever THEN ages[n] + 1 ELSE Forever]

\* A tick passes.
Age(b) ==
  [b EXCEPT !.taken = Older(@),
            !.blocked = IF @ = NoHold \/ @ = 0 THEN @ ELSE @ - 1]
===========================================================================
