------------------------------ MODULE Pacing ------------------------------
(***************************************************************************)
(* The pacing of one client: a budget per operation, the host ceiling every *)
(* request passes first, and what an answer's rate headers and a 429 do to *)
(* both (crates/prism/src/client/pacing.rs, limits.rs, bucket.rs, and the  *)
(* parts of client/session.rs that call them).                             *)
(*                                                                         *)
(* A slot is one task calling Client::send.  Authentication is another     *)
(* module's (Auth): here a request that has its tokens goes on the wire.   *)
(* A tick is the time unit of the tiers; between two ticks any number of   *)
(* steps happen, which is every rounding of real instants.                 *)
(*                                                                         *)
(* Init, Next, Spec and TypeOK carry the module's name here: ClientProofs  *)
(* extends this module and Negotiate, the other half of the client.        *)
(***************************************************************************)
EXTENDS Bucket, FiniteSetsExt

CONSTANTS
  NoTier,         \* an answer that states no tier
  Slots,          \* tasks calling Client::send concurrently
  Operations,     \* operations the slots call
  Catalog,        \* the tier the catalog declares for each operation
  HOST_START,     \* the host tier before any answer
  HOST_CEILING,   \* the most the host tier may become
  MAX_RETRY_AFTER,\* the longest a far end may hold the client
  Headers,        \* what an answer may advertise
  RetryAfters,    \* the waits a 429 may ask for
  MaxThrottles    \* bound: holds the far end asks for in a behaviour

\* What one answer advertises: a tier, and how much of a longer budget is left.
Advertised ==
  [tier : [count : Nat, per_secs : 0..Forever] \cup {NoTier},
   budget : {"none", "ample", "low", "spent"},
   reset : Nat \cup {NoHold}]

\* The host ceiling and the operations' own budgets.
Host == "host"
Budgets == {Host} \cup Operations

ASSUME PacingAssumption ==
  /\ Operations # {} /\ Host \notin Operations
  /\ Catalog \in [Operations -> Tiers]
  /\ {HOST_START, HOST_CEILING} \subseteq Tiers
  /\ ~TighterThan(HOST_CEILING, HOST_START)
  /\ NoTier \notin [count : Nat, per_secs : 0..Forever]
  /\ IsFiniteSet(Operations) /\ IsFiniteSet(Headers)
  /\ Headers \subseteq Advertised
  /\ RetryAfters \subseteq Nat
  /\ {MAX_RETRY_AFTER, MaxThrottles} \subseteq Nat

VARIABLES
  host,      \* Buckets.host
  per_op,    \* Buckets.per_op
  slot,      \* the request each slot is making
  went,      \* history: how long ago tokens of each budget were spent
  since,     \* history: those of them its window still answers for
  held,      \* history: how much longer the far end asked each budget to hold
  throttles  \* how many holds the far end asked for

pacing_vars == <<host, per_op, slot, went, since, held, throttles>>

BudgetOf(b) == IF b = Host THEN host ELSE per_op[b]

\* A slot waits for tokens ("ready"), sleeps until it asks again ("asleep"), has
\* its request on the wire, sleeps out a Retry-After ("pause"), or has the retry
\* on the wire ("again").
Stages == {"idle", "ready", "asleep", "wire", "pause", "again"}

Idle == [at |-> "idle", op |-> CHOOSE o \in Operations : TRUE, left |-> 0]

\* An operation's bucket is created by its first request; one that has spent
\* nothing is no different.
PacingInit ==
  /\ host = NewBucket(HOST_START)
  /\ per_op = [o \in Operations |-> NewBucket(Catalog[o])]
  /\ slot = [s \in Slots |-> Idle]
  /\ went = [b \in Budgets |-> <<>>]
  /\ since = [b \in Budgets |-> <<>>]
  /\ held = [b \in Budgets |-> 0]
  /\ throttles = 0

Larger(m, n) == IF m > n THEN m ELSE n
Smaller(m, n) == IF m < n THEN m ELSE n

---------------------------------------------------------------------------
(* What an answer advertises. *)

\* Advertised::ceiling.
Ceiling(adv, current) ==
  LET stated == IF adv.tier = NoTier THEN current ELSE adv.tier
      tier == IF TighterThan(HOST_CEILING, stated) THEN HOST_CEILING ELSE stated
  IN  IF adv.budget = "low"
        THEN [count |-> 1, per_secs |-> Larger(tier.per_secs, 1)]
        ELSE tier

\* Advertised::hold, which asks for nothing unless the longer budget is spent.
Hold(adv, current) ==
  IF adv.reset # NoHold THEN Smaller(adv.reset, MAX_RETRY_AFTER)
  ELSE Smaller(Larger(current.per_secs, 1), MAX_RETRY_AFTER)

\* The tier an operation's own answer states may only lower that operation's rate.
Tightens(adv, limit) == adv.tier # NoTier /\ TighterThan(adv.tier, limit)

\* Client::observe_limits, on the host ceiling and on the answered operation.
HostObserves(b, adv) ==
  LET after == Ceiling(adv, b.limit)
      paced == IF after # b.limit THEN Relimit(b, after) ELSE b
  IN  IF adv.budget = "spent" THEN Drain(paced, Hold(adv, after)) ELSE paced

OpObserves(b, adv) == IF Tightens(adv, b.limit) THEN Relimit(b, adv.tier) ELSE b

---------------------------------------------------------------------------
(* One request. *)

Start(s) ==
  /\ slot[s].at = "idle"
  /\ \E o \in Operations : slot' = [slot EXCEPT ![s] = [at |-> "ready", op |-> o, left |-> 0]]
  /\ UNCHANGED <<host, per_op, went, since, held, throttles>>

Waiting(s) == slot[s].at = "ready" \/ (slot[s].at = "asleep" /\ slot[s].left = 0)

Wait(o) == Larger(Peek(host), Peek(per_op[o]))

\* A history with one more token of the host's and of the operation's.
Spent(history, o) == [history EXCEPT ![Host] = Append(@, 0), ![o] = Append(@, 0)]

\* Mutant: the host token is spent before the operation's budget is asked.
AcquireHostFirst(s) ==
  LET o == slot[s].op IN
  /\ Waiting(s)
  /\ Peek(host) = 0
  /\ host' = Take(host)
  /\ IF Peek(per_op[o]) = 0
       THEN /\ per_op' = [per_op EXCEPT ![o] = Take(@)]
            /\ slot' = [slot EXCEPT ![s].at = "wire", ![s].left = 0]
            /\ went' = Spent(went, o)
            /\ since' = Spent(since, o)
       ELSE /\ slot' = [slot EXCEPT ![s].at = "asleep", ![s].left = Peek(per_op[o])]
            /\ went' = [went EXCEPT ![Host] = Append(@, 0)]
            /\ since' = [since EXCEPT ![Host] = Append(@, 0)]
            /\ UNCHANGED per_op
  /\ UNCHANGED <<held, throttles>>

\* One turn of Client::acquire's loop: both budgets are peeked before either is
\* spent, and a caller that is refused sleeps the longer of the two waits.
Acquire(s) ==
  LET o == slot[s].op IN
  /\ Waiting(s)
  /\ \/ /\ Wait(o) = 0
        /\ host' = Take(host)
        /\ per_op' = [per_op EXCEPT ![o] = Take(@)]
        /\ went' = Spent(went, o)
        /\ since' = Spent(since, o)
        /\ slot' = [slot EXCEPT ![s].at = "wire", ![s].left = 0]
     \/ /\ Wait(o) > 0
        /\ slot' = [slot EXCEPT ![s].at = "asleep", ![s].left = Wait(o)]
        /\ UNCHANGED <<host, per_op, went, since>>
  /\ UNCHANGED <<held, throttles>>

\* What an answer's headers ask the host ceiling to hold.
HoldAsked(adv) ==
  IF adv.budget = "spent" THEN Hold(adv, Ceiling(adv, host.limit)) ELSE 0

\* What the windows still answer for after an answer: nothing of before a hold, which
\* clears the window, and of a window that grows longer only what the shorter one held.
Answerable(drained) ==
  since' = [b \in Budgets |->
              LET per == BudgetOf(b).limit.per_secs IN
              IF b \in drained THEN <<>>
              ELSE IF BudgetOf(b)'.limit.per_secs > per THEN Live(since[b], per)
              ELSE since[b]]

\* The history of what each budget was asked to hold.
Asked(wait) == held' = [b \in Budgets |-> Larger(held[b], wait[b])]

Throttled(n) ==
  /\ throttles + n <= MaxThrottles
  /\ throttles' = throttles + n

OnWire(s) == slot[s].at \in {"wire", "again"}

\* An answer that is not a 429: its headers are observed and the request is done.
Answered(s) ==
  /\ OnWire(s)
  /\ \E adv \in Headers :
       /\ host' = HostObserves(host, adv)
       /\ per_op' = [per_op EXCEPT ![slot[s].op] = OpObserves(@, adv)]
       /\ Asked([b \in Budgets |-> IF b = Host THEN HoldAsked(adv) ELSE 0])
       /\ Answerable(IF adv.budget = "spent" THEN {Host} ELSE {})
       /\ Throttled(IF adv.budget = "spent" THEN 1 ELSE 0)
  /\ slot' = [slot EXCEPT ![s] = Idle]
  /\ UNCHANGED went

\* A 429, whose headers are observed before Client::drain_bucket: the first is retried
\* after the wait, which the retry does not ask the budgets for; one that survives the
\* retry holds the budgets for the next caller.
RateLimited(s) ==
  /\ OnWire(s)
  /\ Throttled(1)
  /\ \E adv \in Headers, retry_after \in RetryAfters :
       LET o == slot[s].op
           wait == Smaller(retry_after, MAX_RETRY_AFTER)
       IN  /\ host' = Drain(HostObserves(host, adv), wait)
           /\ per_op' = [per_op EXCEPT ![o] = Drain(OpObserves(@, adv), wait)]
           /\ Asked([b \in Budgets |-> IF b = Host THEN Larger(wait, HoldAsked(adv))
                                     ELSE IF b = o THEN wait ELSE 0])
           /\ Answerable({Host, o})
           /\ slot' = [slot EXCEPT ![s] =
                         IF slot[s].at = "again" THEN Idle
                         ELSE [at |-> "pause", op |-> o, left |-> wait]]
  /\ UNCHANGED went

Retry(s) ==
  /\ slot[s].at = "pause" /\ slot[s].left = 0
  /\ slot' = [slot EXCEPT ![s].at = "again"]
  /\ UNCHANGED <<host, per_op, went, since, held, throttles>>

\* A request that never comes back: nothing is known of its budgets.
Lost(s) ==
  /\ OnWire(s)
  /\ slot' = [slot EXCEPT ![s] = Idle]
  /\ UNCHANGED <<host, per_op, went, since, held, throttles>>

\* Time passes, for the budgets, for every sleeper and in the histories.
Elapse ==
  /\ host' = Age(host)
  /\ per_op' = [o \in Operations |-> Age(per_op[o])]
  /\ slot' = [s \in Slots |-> [slot[s] EXCEPT !.left = IF @ = 0 THEN 0 ELSE @ - 1]]
  /\ went' = [b \in Budgets |-> Live(Older(went[b]), Forever)]
  /\ since' = [b \in Budgets |-> Live(Older(since[b]), Forever)]
  /\ held' = [b \in Budgets |-> IF held[b] = 0 THEN 0 ELSE held[b] - 1]
  /\ UNCHANGED throttles

---------------------------------------------------------------------------

PacingNext ==
  \/ \E s \in Slots : Start(s) \/ Acquire(s) \/ Answered(s) \/ RateLimited(s)
                        \/ Retry(s) \/ Lost(s)
  \/ Elapse

\* Time passes, and a task whose sleep is over runs.
PacingFairness ==
  /\ WF_pacing_vars(Elapse)
  /\ \A s \in Slots : WF_pacing_vars(Acquire(s)) /\ WF_pacing_vars(Retry(s))

PacingSpec == PacingInit /\ [][PacingNext]_pacing_vars /\ PacingFairness

---------------------------------------------------------------------------
(* Properties. *)

\* The most takes a budget can be remembering: what the widest tier of all allows.
Widest ==
  LET tiers == {HOST_START, HOST_CEILING} \cup {h.tier : h \in Headers} \cup
               {Catalog[o] : o \in Operations}
      counts == {t.count : t \in tiers \ {NoTier}} \cup {1}
  IN  CHOOSE n \in counts : \A m \in counts : m <= n

\* A budget remembers its takes oldest first and no more of them than its widest tier
\* allows ("sorted", "at most limit.count entries survive a prune": Bucket.taken).
BucketOK(b) ==
  /\ b \in Buckets
  /\ Len(b.taken) <= Widest
  /\ \A m, n \in DOMAIN b.taken : m < n => b.taken[m] >= b.taken[n]

\* The state's types, the order and the length of what the budgets remember.
PacingTypeOK ==
  /\ \A b \in Budgets : BucketOK(BudgetOf(b))
  /\ slot \in [Slots -> [at : Stages, op : Operations, left : Nat]]
  /\ {went, since} \subseteq [Budgets -> Ages]
  /\ held \in [Budgets -> Nat]
  /\ throttles \in 0..MaxThrottles

\* Since the far end last held a budget, and since its window last grew longer, no more
\* requests go out within the window than its tier allows, whatever tiers were advertised
\* in between: the window slides (Bucket::live, Bucket::take).  It is about requests that
\* ask for a token, not the retry of a 429.
TierKept ==
  [][\A b \in Budgets :
       LET limit == BudgetOf(b).limit IN
       Len(went'[b]) > Len(went[b]) => Len(Live(since'[b], limit.per_secs)) <= limit.count]_pacing_vars

\* "can never exceed the tier over any span" (bucket.rs, the text of the module): no
\* request goes out when its budget has let out a whole tier of them within the window
\* that ends now, whatever was held in between.
TierOverAnySpan ==
  [][\A b \in Budgets :
       LET limit == BudgetOf(b).limit IN
       Len(went'[b]) > Len(went[b]) => Len(Live(went'[b], limit.per_secs)) <= limit.count]_pacing_vars

\* While the far end has asked for a hold, no budget it was asked of lets a request
\* out, however many answers asked and in whatever order (Bucket::drain: "the later
\* deadline wins").
HoldHonoured ==
  [][\A b \in Budgets : Len(went'[b]) > Len(went[b]) => held[b] = 0]_pacing_vars

\* A host token is spent for a request and never for a caller that goes back to sleep
\* on its own operation's tier (Client::acquire peeks both before it spends either).
NoTokenBurnt == Len(went[Host]) = MapThenSumSet(LAMBDA o : Len(went[o]), Operations)

\* Whatever answers advertise, an operation is never paced faster than the catalog
\* declares and the client never faster than the ceiling (Client::observe_limits,
\* Advertised::ceiling).
PacedAtMost ==
  /\ ~TighterThan(HOST_CEILING, host.limit)
  /\ \A o \in Operations : ~TighterThan(Catalog[o], per_op[o].limit)

\* A caller that waits for a token while nothing is on the wire does not wait for ever:
\* some caller gets out, whatever holds and tiers came before (Client::acquire).
NoFreeze ==
  (\E s \in Slots : slot[s].at \in {"ready", "asleep"}) ~> (\E s \in Slots : OnWire(s))
===========================================================================
