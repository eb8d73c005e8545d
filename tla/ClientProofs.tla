--------------------------- MODULE ClientProofs ---------------------------
(***************************************************************************)
(* Theorems about the two halves of crates/prism/src/client: Negotiate,    *)
(* for every set of requesters, kinds and versions, and every interval;    *)
(* and Pacing, for every set of tasks and operations, every tier, and      *)
(* whatever answers advertise.                                             *)
(***************************************************************************)
EXTENDS Negotiate, Pacing, WellFoundedInduction, FiniteSetTheorems, SequenceTheorems,
        TLAPS

---------------------------------------------------------------------------
(* Naturals, finite sets and sums. *)

\* A set of naturals has a least member.
LEMMA Least ==
  ASSUME NEW T \in SUBSET Nat, T # {}
  PROVE  \E x \in T : \A y \in T : ~(y < x)
<1>1. \E x \in T : \A y \in T : ~(<<y, x>> \in OpToRel(<, Nat))
  BY NatLessThanWellFounded, WFMin
<1>2. QED
  BY <1>1 DEF OpToRel

\* A set of naturals with a bound has a greatest member.
LEMMA Largest ==
  ASSUME NEW V \in SUBSET Nat, V # {}, NEW bound \in Nat, \A v \in V : v <= bound
  PROVE  \E v \in V : \A w \in V : w <= v
<1> DEFINE T == {bound - v : v \in V}
<1>1. \A v \in V : v \in Nat /\ bound - v \in Nat
  OBVIOUS
<1>2. T \in SUBSET Nat /\ T # {}
  BY <1>1
<1>3. PICK x \in T : \A y \in T : ~(y < x)
  BY <1>2, Least
<1>4. PICK v \in V : x = bound - v
  OBVIOUS
<1>5. ASSUME NEW w \in V PROVE w <= v
  <2>1. ~(bound - w < bound - v)
    BY <1>3, <1>4
  <2>2. QED
    BY <1>1, <2>1
<1>6. QED
  BY <1>5

\* Sequences over the same indices are of one length.
LEMMA SameLength ==
  ASSUME NEW m \in Nat, NEW n \in Nat, 1..m = 1..n
  PROVE  m = n
<1>1. \A k \in Nat \ {0} : (k \in 1..m <=> k <= m) /\ (k \in 1..n <=> k <= n)
  OBVIOUS
<1>2. ~(m < n)
  BY <1>1
<1>3. ~(n < m)
  BY <1>1
<1>4. QED
  BY <1>2, <1>3

\* Among the subsets of a finite set there is, in any nonempty collection, one that
\* leaves the collection with any of its elements removed.
LEMMA Smallest ==
  ASSUME NEW S, IsFiniteSet(S), NEW Q \in SUBSET (SUBSET S), Q # {}
  PROVE  \E s \in Q : IsFiniteSet(s) /\ \A x \in s : s \ {x} \notin Q
<1>1. \A s \in SUBSET S : IsFiniteSet(s) /\ Cardinality(s) \in Nat
  BY FS_Subset, FS_CardinalityType
<1> DEFINE T == {Cardinality(s) : s \in Q}
<1>2. T \in SUBSET Nat /\ T # {}
  BY <1>1
<1>3. PICK n \in T : \A m \in T : ~(m < n)
  BY <1>2, Least
<1>4. PICK s \in Q : n = Cardinality(s)
  OBVIOUS
<1>5. ASSUME NEW x \in s PROVE s \ {x} \notin Q
  <2>1. Cardinality(s \ {x}) = Cardinality(s) - 1 /\ Cardinality(s) \in Nat
    BY <1>1, FS_RemoveElement
  <2>2. SUFFICES ASSUME s \ {x} \in Q PROVE FALSE
    OBVIOUS
  <2>3. Cardinality(s \ {x}) \in T
    BY <2>2
  <2>4. ~(Cardinality(s \ {x}) < Cardinality(s))
    BY <1>3, <1>4, <2>3
  <2>5. QED
    BY <2>1, <2>4
<1>6. QED
  BY <1>1, <1>5

\* What is counted of finitely many things has a bound.
LEMMA Bounded ==
  ASSUME NEW S, IsFiniteSet(S), NEW f \in [S -> Nat]
  PROVE  \E n \in Nat : \A x \in S : f[x] <= n
<1> DEFINE Bounds(s, n) == \A x \in s : f[x] <= n
           Q == {s \in SUBSET S : ~ \E n \in Nat : Bounds(s, n)}
<1>1. SUFFICES ASSUME S \in Q PROVE FALSE
  OBVIOUS
<1>2. PICK s \in Q : \A x \in s : s \ {x} \notin Q
  <2>1. Q \in SUBSET (SUBSET S) /\ Q # {}
    BY <1>1
  <2> HIDE DEF Q
  <2>2. QED
    BY <2>1, Smallest
<1>3. s # {}
  <2>1. Bounds({}, 0)
    OBVIOUS
  <2>2. QED
    BY <1>2, <2>1
<1>4. PICK x \in s : TRUE
  BY <1>3
<1>5. PICK n \in Nat : Bounds(s \ {x}, n)
  BY <1>2, <1>4
<1>6. Bounds(s, n) \/ Bounds(s, f[x])
  <2>1. \A y \in s : f[y] \in Nat
    OBVIOUS
  <2>2. QED
    BY <1>4, <1>5, <2>1
<1>7. QED
  BY <1>4, <1>6

\* The element a sum takes next, and the sums of a function over the subsets of a set,
\* as MapThenSumSet computes them.
Pick(s) == CHOOSE x \in s : TRUE
IsSum(h, f, S) ==
  h = [s \in SUBSET S |-> IF s = {} THEN 0 ELSE f[Pick(s)] + h[s \ {Pick(s)}]]

\* The same, over the sets of up to n elements.
SumsUpTo(h, f, S, n) ==
  /\ h \in [{s \in SUBSET S : Cardinality(s) <= n} -> Nat]
  /\ \A s \in SUBSET S : Cardinality(s) <= n =>
       h[s] = IF s = {} THEN 0 ELSE f[Pick(s)] + h[s \ {Pick(s)}]

\* There are such sums.
LEMMA SumUpTo ==
  ASSUME NEW S, IsFiniteSet(S), NEW f \in [S -> Nat], NEW n \in Nat
  PROVE  \E h : SumsUpTo(h, f, S, n)
<1> DEFINE UpTo(m) == {s \in SUBSET S : Cardinality(s) <= m}
           Sums(h, m) == /\ h \in [UpTo(m) -> Nat]
                         /\ \A s \in UpTo(m) :
                              h[s] = IF s = {} THEN 0 ELSE f[Pick(s)] + h[s \ {Pick(s)}]
           T == {m \in Nat : ~ \E h : Sums(h, m)}
<1>1. SUFFICES T = {}
  <2>1. PICK h : Sums(h, n)
    BY <1>1
  <2>2. SumsUpTo(h, f, S, n)
    BY <2>1 DEF SumsUpTo
  <2>3. QED
    BY <2>2
<1>2. SUFFICES ASSUME T # {} PROVE FALSE
  OBVIOUS
<1>3. PICK m \in T : \A l \in T : ~(l < m)
  BY <1>2, Least
<1>4. \A s \in SUBSET S : /\ IsFiniteSet(s) /\ Cardinality(s) \in Nat
                          /\ Cardinality(s) = 0 <=> s = {}
  BY FS_Subset, FS_CardinalityType, FS_EmptySet
<1>5. \A s \in SUBSET S : s # {} =>
        /\ Pick(s) \in s
        /\ s \ {Pick(s)} \in SUBSET S
        /\ Cardinality(s \ {Pick(s)}) = Cardinality(s) - 1
  BY <1>4, FS_RemoveElement DEF Pick
<1>6. CASE m = 0
  <2> DEFINE h == [s \in UpTo(0) |-> 0]
  <2>1. Sums(h, 0)
    BY <1>4
  <2>2. QED
    BY <1>3, <1>6, <2>1
<1>7. CASE m # 0
  <2>1. m - 1 \in Nat /\ m - 1 \notin T
    <3>1. m \in Nat
      BY <1>3
    <3>2. m - 1 \in Nat /\ m - 1 < m
      BY <1>7, <3>1
    <3> HIDE DEF T
    <3>3. QED
      BY <1>3, <3>2
  <2>2. PICK h : Sums(h, m - 1)
    BY <2>1
  <2> DEFINE g == [s \in UpTo(m) |-> IF s \in UpTo(m - 1) THEN h[s]
                                     ELSE f[Pick(s)] + h[s \ {Pick(s)}]]
  <2>3. ASSUME NEW s \in UpTo(m), s # {} PROVE s \ {Pick(s)} \in UpTo(m - 1)
    BY <1>3, <1>4, <1>5, <2>3
  <2>4. ASSUME NEW s \in UpTo(m), s \notin UpTo(m - 1) PROVE s # {}
    BY <1>4, <2>1, <2>4
  <2>5. g \in [UpTo(m) -> Nat]
    <3>1. ASSUME NEW s \in UpTo(m), s \notin UpTo(m - 1)
          PROVE  f[Pick(s)] \in Nat /\ h[s \ {Pick(s)}] \in Nat
      BY <1>5, <2>2, <2>3, <2>4, <3>1
    <3>2. QED
      BY <2>2, <3>1
  <2>6. ASSUME NEW s \in UpTo(m)
        PROVE  g[s] = IF s = {} THEN 0 ELSE f[Pick(s)] + g[s \ {Pick(s)}]
    <3>1. CASE s \in UpTo(m - 1)
      <4>1. g[s] = h[s] /\ (s # {} => g[s \ {Pick(s)}] = h[s \ {Pick(s)}])
        <5>1. s # {} => s \ {Pick(s)} \in UpTo(m - 1) /\ s \ {Pick(s)} \in UpTo(m)
          BY <1>3, <1>4, <1>5, <2>3
        <5>2. QED
          BY <3>1, <5>1
      <4>2. QED
        BY <2>2, <3>1, <4>1
    <3>2. CASE s \notin UpTo(m - 1)
      <4>1. s # {} /\ s \ {Pick(s)} \in UpTo(m - 1) /\ s \ {Pick(s)} \in UpTo(m)
        BY <1>3, <1>4, <1>5, <2>3, <2>4, <3>2
      <4>2. g[s] = f[Pick(s)] + h[s \ {Pick(s)}] /\ g[s \ {Pick(s)}] = h[s \ {Pick(s)}]
        BY <3>2, <4>1
      <4>3. QED
        BY <4>1, <4>2
    <3>3. QED
      BY <3>1, <3>2
  <2>7. Sums(g, m)
    BY <2>5, <2>6
  <2>8. QED
    BY <1>3, <2>7
<1>8. QED
  BY <1>6, <1>7

\* And so over all subsets of a finite set.
LEMMA SumExists ==
  ASSUME NEW S, IsFiniteSet(S), NEW f \in [S -> Nat]
  PROVE  \E h : IsSum(h, f, S)
<1> DEFINE n == Cardinality(S)
<1>1. n \in Nat
  BY FS_CardinalityType
<1>2. {s \in SUBSET S : Cardinality(s) <= n} = SUBSET S
  BY FS_Subset
<1>3. PICK h : SumsUpTo(h, f, S, n)
  BY <1>1, SumUpTo
<1>4. h = [s \in SUBSET S |-> IF s = {} THEN 0 ELSE f[Pick(s)] + h[s \ {Pick(s)}]]
  BY <1>2, <1>3 DEF SumsUpTo
<1>5. QED
  BY <1>4 DEF IsSum

\* One more at one element is one more in every sum over a set with that element;
\* where nothing changes, nothing changes (up is 0).
LEMMA SumBump ==
  ASSUME NEW S, IsFiniteSet(S), NEW f \in [S -> Nat], NEW g \in [S -> Nat],
         NEW h, NEW k, IsSum(h, f, S), IsSum(k, g, S),
         NEW o \in S, NEW up \in {0, 1}, g[o] = f[o] + up,
         \A x \in S \ {o} : g[x] = f[x]
  PROVE  h[S] \in Nat /\ k[S] = h[S] + up
<1> DEFINE Right(s) == h[s] \in Nat /\ k[s] = h[s] + (IF o \in s THEN up ELSE 0)
           Q == {s \in SUBSET S : ~Right(s)}
<1>1. SUFFICES Q = {}
  <2>1. S \in SUBSET S
    OBVIOUS
  <2>2. Right(S)
    BY <1>1, <2>1
  <2>3. QED
    BY <2>2
<1>2. SUFFICES ASSUME Q # {} PROVE FALSE
  OBVIOUS
<1>3. PICK s \in Q : \A x \in s : s \ {x} \notin Q
  BY <1>2, Smallest
<1>4. \A t \in SUBSET S :
        /\ h[t] = IF t = {} THEN 0 ELSE f[Pick(t)] + h[t \ {Pick(t)}]
        /\ k[t] = IF t = {} THEN 0 ELSE g[Pick(t)] + k[t \ {Pick(t)}]
  <2>1. /\ h = [t \in SUBSET S |-> IF t = {} THEN 0 ELSE f[Pick(t)] + h[t \ {Pick(t)}]]
        /\ k = [t \in SUBSET S |-> IF t = {} THEN 0 ELSE g[Pick(t)] + k[t \ {Pick(t)}]]
    BY DEF IsSum
  <2>2. TAKE t \in SUBSET S
  <2>3. QED
    BY <2>1
<1>5. s # {}
  <2>1. {} \in SUBSET S /\ o \notin {}
    OBVIOUS
  <2>2. h[{}] = 0 /\ k[{}] = 0
    BY <1>4, <2>1
  <2>3. Right({})
    BY <2>1, <2>2
  <2>4. QED
    BY <1>3, <2>3
<1> DEFINE x == Pick(s)
           r == s \ {x}
<1>6. x \in s /\ x \in S /\ r \in SUBSET S /\ Right(r)
  BY <1>3, <1>5 DEF Pick
<1>7. h[s] = f[x] + h[r] /\ k[s] = g[x] + k[r]
  BY <1>3, <1>4, <1>5
<1>8. f[x] \in Nat /\ g[x] \in Nat
  BY <1>6
<1> HIDE DEF r
<1>9. CASE x = o
  <2>1. o \notin r /\ o \in s
    BY <1>6, <1>9 DEF r
  <2>2. Right(s)
    BY <1>6, <1>7, <1>9, <2>1
  <2>3. QED
    BY <1>3, <2>2
<1>10. CASE x # o
  <2>1. (o \in r <=> o \in s) /\ g[x] = f[x]
    BY <1>6, <1>10 DEF r
  <2>2. Right(s)
    BY <1>6, <1>7, <2>1
  <2>3. QED
    BY <1>3, <2>2
<1>11. QED
  BY <1>9, <1>10

---------------------------------------------------------------------------
(* Negotiate. *)

\* Every requester is at a step.
RequestOK ==
  /\ DOMAIN request = Requesters
  /\ \A r \in Requesters : "at" \in DOMAIN request[r]

\* The clock the code keeps, from the claim of a repair, is the time since one began.
ClaimInv == repaired = gap /\ RequestOK

---------------------------------------------------------------------------
(* The requests change one at a time. *)

\* Only q may have moved, and it is still at a step.
OnlyMoves(q) ==
  /\ DOMAIN request' = Requesters
  /\ "at" \in DOMAIN request'[q]
  /\ \A r \in Requesters \ {q} : request'[r] = request[r]

\* A step of one requester keeps every requester at a step.
LEMMA MovesKeep == ASSUME RequestOK, NEW q \in Requesters, OnlyMoves(q) PROVE RequestOK'
BY DEF RequestOK, OnlyMoves

\* A repair that begins in a step of one requester is that requester's.
LEMMA MovesBegin ==
  ASSUME NEW q \in Requesters, OnlyMoves(q), RepairBegins
  PROVE  request[q].at = "wire" /\ request'[q].at = "probe"
BY DEF OnlyMoves, RepairBegins

\* A new request is at a step, and EXCEPT leaves it at one.
LEMMA NoRequestAt ==
  /\ "at" \in DOMAIN NoRequest /\ NoRequest.at = "idle"
  /\ "at" \in DOMAIN NoTable /\ NoTable.at = "closed"
BY DEF NoRequest, NoTable

\* What is kept of a failed request is at a step, the one that is set.
LEMMA FailedAt ==
  ASSUME RequestOK, NEW q \in Requesters, NEW error
  PROVE  "at" \in DOMAIN Failed(q, error)
BY DEF RequestOK, Failed

\* The end of a failed list moves its requester alone, keeps the clock, and begins a repair
\* only when the last is an interval old (Client::repair_after).
LEMMA FailsStep ==
  ASSUME ClaimInv, NEW q \in Requesters, NEW error, Fails(q, error)
  PROVE  /\ OnlyMoves(q) /\ repaired' = gap'
         /\ request'[q].at = "probe" => gap >= INTERVAL
<1>1. "at" \in DOMAIN Failed(q, error)
  BY FailedAt DEF ClaimInv
<1>2. CASE WorthRepairing(error) /\ adopted /\ repaired >= INTERVAL
  <2>1. /\ request' = [request EXCEPT ![q] =
              [Failed(q, error) EXCEPT !.at = "probe", !.probe = ProbeAt(NEWEST)]]
        /\ repaired' = Claimed /\ gap' = 0
    BY <1>2 DEF Fails
  <2>2. OnlyMoves(q)
    BY <1>1, <2>1 DEF OnlyMoves, ClaimInv, RequestOK
  <2>3. QED
    BY <1>2, <2>1, <2>2 DEF Claimed, ClaimInv
<1>3. CASE ~(WorthRepairing(error) /\ adopted /\ repaired >= INTERVAL)
  <2>1. /\ request' = [request EXCEPT ![q] = [Failed(q, error) EXCEPT !.at = "failed"]]
        /\ UNCHANGED <<repaired, gap>>
    BY <1>3 DEF Fails
  <2>2. OnlyMoves(q) /\ request'[q].at = "failed"
    BY <1>1, <2>1 DEF OnlyMoves, ClaimInv, RequestOK
  <2>3. QED
    BY <2>1, <2>2 DEF ClaimInv
<1>4. QED
  BY <1>2, <1>3

\* One request of the probe moves its requester alone.
LEMMA PassedMoves ==
  ASSUME RequestOK, NEW q \in Requesters, NEW probe, Passed(q, probe)
  PROVE  OnlyMoves(q)
<1>1. CASE probe.rest # <<>>
  BY <1>1 DEF Passed, OnlyMoves, RequestOK
<1>2. CASE probe.rest = <<>> /\ probe.down
  BY <1>2 DEF Passed, Found, Aborted, OnlyMoves, RequestOK
<1>3. CASE probe.rest = <<>> /\ ~probe.down /\ probe.version = 1
  BY <1>3 DEF Passed, Found, Aborted, OnlyMoves, RequestOK
<1>4. CASE probe.rest = <<>> /\ ~probe.down /\ probe.version # 1
  BY <1>4 DEF Passed, OnlyMoves, RequestOK
<1>5. QED
  BY <1>1, <1>2, <1>3, <1>4

\* And so does the whole step (Client::probe_namespace).
LEMMA ProbeMoves ==
  ASSUME RequestOK, NEW q \in Requesters, Probe(q) PROVE OnlyMoves(q)
<1>1. CASE \E p : Passed(q, p)
  BY <1>1, PassedMoves
<1>2. CASE Aborted(q)
  BY <1>2 DEF Aborted, OnlyMoves, RequestOK
<1>3. QED
  BY <1>1, <1>2 DEF Probe, Found

---------------------------------------------------------------------------
(* The repairs. *)

\* No repair has begun.
LEMMA ClaimInit == Init => ClaimInv
BY NoRequestAt DEF Init, ClaimInv, RequestOK

\* The end of a list: a repair begins in no other step.
LEMMA AnswerStep ==
  ASSUME ClaimInv, NEW q \in Requesters, Answer(q)
  PROVE  ClaimInv' /\ (RepairBegins => gap >= INTERVAL)
<1>1. /\ OnlyMoves(q) /\ repaired' = gap'
      /\ request'[q].at = "probe" => gap >= INTERVAL
  <2>1. CASE request' = [request EXCEPT ![q] = NoRequest] /\ UNCHANGED <<repaired, gap>>
    BY <2>1, NoRequestAt DEF OnlyMoves, ClaimInv, RequestOK
  <2>2. CASE \E error : Fails(q, error)
    BY <2>2, FailsStep
  <2>3. QED
    BY <2>1, <2>2 DEF Answer
<1>2. ClaimInv'
  BY <1>1, MovesKeep DEF ClaimInv
<1>3. QED
  BY <1>1, <1>2, MovesBegin

\* A step of one requester that is not on the wire or does not go on to probe, and leaves the
\* clock alone, keeps the clock and begins no repair.
LEMMA QuietStep ==
  ASSUME ClaimInv, NEW q \in Requesters, OnlyMoves(q),
         request[q].at # "wire" \/ request'[q].at # "probe", UNCHANGED <<repaired, gap>>
  PROVE  ClaimInv' /\ ~RepairBegins
BY MovesKeep, MovesBegin DEF ClaimInv

\* A step of no requester begins no repair.
LEMMA IdleStep ==
  ASSUME ClaimInv, UNCHANGED request, repaired' = gap'
  PROVE  ClaimInv' /\ ~RepairBegins
BY DEF ClaimInv, RequestOK, RepairBegins

\* One step per action.
LEMMA ClaimStep ==
  ASSUME ClaimInv, [Next]_vars PROVE ClaimInv' /\ (RepairBegins => gap >= INTERVAL)
<1>1. CASE Tick
  BY <1>1, IdleStep DEF Tick, ClaimInv
<1>2. CASE Starts
  BY <1>2, IdleStep DEF Starts, ClaimInv
<1>3. ASSUME NEW r \in Requesters, Ask(r) \/ Open(r) \/ AskAnyway(r) \/ Refresh(r)
      PROVE  ClaimInv' /\ ~RepairBegins
  <2>1. Asks(r) /\ UNCHANGED <<repaired, gap>> /\ request[r].at # "wire"
    BY <1>3 DEF Ask, Open, AskAnyway, Refresh
  <2>2. OnlyMoves(r)
    BY <2>1, NoRequestAt DEF Asks, OnlyMoves, ClaimInv, RequestOK
  <2>3. QED
    BY <2>1, <2>2, QuietStep
<1>4. ASSUME NEW r \in Requesters, Close(r) PROVE ClaimInv' /\ ~RepairBegins
  <2>1. OnlyMoves(r) /\ request'[r].at = "closed" /\ UNCHANGED <<repaired, gap>>
    BY <1>4, NoRequestAt DEF Close, OnlyMoves, ClaimInv, RequestOK
  <2>2. QED
    BY <2>1, QuietStep
<1>5. ASSUME NEW r \in Requesters, Send(r) PROVE ClaimInv' /\ ~RepairBegins
  <2>1. OnlyMoves(r) /\ request[r].at # "wire"
    BY <1>5 DEF Send, OnlyMoves, ClaimInv, RequestOK
  <2>2. QED
    BY <1>5, <2>1, QuietStep DEF Send
<1>6. ASSUME NEW r \in Requesters, Probe(r) PROVE ClaimInv' /\ ~RepairBegins
  <2>1. OnlyMoves(r)
    BY <1>6, ProbeMoves DEF ClaimInv
  <2>2. request[r].at # "wire" /\ UNCHANGED <<repaired, gap>>
    BY <1>6 DEF Probe
  <2>3. QED
    BY <2>1, <2>2, QuietStep
<1>7. ASSUME NEW r \in Requesters, Report(r) PROVE ClaimInv' /\ ~RepairBegins
  <2>1. OnlyMoves(r) /\ request[r].at # "wire"
    BY <1>7, NoRequestAt DEF Report, OnlyMoves, ClaimInv, RequestOK
  <2>2. UNCHANGED <<repaired, gap>>
    BY <1>7 DEF Report
  <2>3. QED
    BY <2>1, <2>2, QuietStep
<1>8. CASE UNCHANGED vars
  BY <1>8, IdleStep DEF vars, ClaimInv
<1>9. QED
  BY <1>1, <1>2, <1>3, <1>4, <1>5, <1>6, <1>7, <1>8, AnswerStep DEF Next

\* Two repairs of one namespace never begin within one interval, however many lists fail at
\* once, by whomever asked, and however the last repair ended (REPAIR_INTERVAL).
THEOREM NoStorm == Spec => RepairsSpaced
<1>1. ClaimInv /\ [Next]_vars => ClaimInv'
  BY ClaimStep
<1>2. ClaimInv /\ [Next]_vars => [RepairBegins => gap >= INTERVAL]_vars
  BY ClaimStep
<1>3. QED
  BY <1>1, <1>2, ClaimInit, PTL DEF Spec, RepairsSpaced
---------------------------------------------------------------------------
(* Types. *)

\* The fields a request has, and what they hold; the candidates still to be probed are any.
RequestType(q) ==
  /\ DOMAIN q = {"at", "route", "error", "second", "own", "found", "probe"}
  /\ q.at \in Steps /\ q.route \in 0..NEWEST
  /\ q.error \in Errors /\ q.second \in BOOLEAN /\ q.own \in BOOLEAN /\ q.found \in BOOLEAN
  /\ DOMAIN q.probe = {"version", "rest", "down"} /\ q.probe.version \in 0..NEWEST

\* A request's 404, if it is known to be of a version a probe found, is the kind's own; until
\* it is answered, that version is served and has the kind.  A probe asks a version there is.
RequestOwn(r, q, served) ==
  /\ q.at = "wire" /\ q.found => q.second /\ q.route \in served /\ ServedAt(r.kind, q.route)
  /\ q.at \in {"failed", "probe"} /\ q.found => q.own
  /\ (q.second => r.cycle) /\ (q.at = "closed" => r.cycle)
  /\ q.at = "probe" => q.probe.version \in Versions

RowOK ==
  /\ pin \in 0..NEWEST /\ status \in {"none", "served", "down", "not_served"}
  /\ adopted \in BOOLEAN /\ (adopted => status \in {"none", "served"})
  /\ status = "none" => adopted
  /\ status \in {"served", "down"} => pin # 0
  /\ status = "not_served" => pin = 0

FarOK ==
  /\ DOMAIN far = {"versions", "absent", "faults"}
  /\ far.versions \subseteq Versions /\ far.faults \in 0..MaxFaults

\* What a probe found to be served is a version there is.
Grounded == ~adopted /\ status = "served" => pin \in far.versions

KindsOK ==
  /\ repaired \in 0..INTERVAL /\ gap \in 0..INTERVAL
  /\ missing \subseteq Kinds /\ asked \subseteq Kinds
  /\ marked \in [Kinds -> [own : BOOLEAN, found : BOOLEAN]]

OwnInv ==
  /\ RowOK /\ FarOK /\ Grounded /\ KindsOK /\ MissingIsOwn
  /\ DOMAIN request = Requesters
  /\ \A r \in Requesters : RequestType(request[r]) /\ RequestOwn(r, request[r], far.versions)

\* A version is a number from 1, and NEWEST is one.
LEMMA VersionsAre ==
  /\ NEWEST \in Nat /\ NEWEST \in Versions /\ 0 \in 0..NEWEST /\ Versions \subseteq 0..NEWEST
  /\ 0 \notin Versions /\ INTERVAL \in Nat \ {0} /\ MaxFaults \in Nat
  /\ Requesters \subseteq [kind : Kinds, cycle : BOOLEAN] /\ Since \in [Kinds -> Versions]
BY NegotiateAssumption DEF Versions

\* Every set of versions that is not empty has a greatest.
LEMMA Greatest ==
  ASSUME NEW V \in SUBSET Versions, V # {}
  PROVE  \E v \in V : \A w \in V : w <= v
<1>1. V \in SUBSET Nat /\ NEWEST \in Nat /\ \A v \in V : v <= NEWEST
  BY VersionsAre DEF Versions
<1>2. QED
  BY <1>1, Largest

\* What a negotiation finds when nothing fails is a version there is, or none
\* (Client::negotiate).
LEMMA NewestIs ==
  ASSUME FarOK PROVE Newest = 0 \/ (Newest \in far.versions /\ Newest \in Versions)
<1> DEFINE there == {v \in Versions : \E k \in Kinds : Lists(k, v)}
<1>1. CASE there = {}
  BY <1>1 DEF Newest
<1>2. CASE there # {}
  <2>1. \E v \in there : \A w \in there : w <= v
    BY <1>2, Greatest
  <2>2. Newest \in there
    BY <1>2, <2>1 DEF Newest
  <2>3. QED
    BY <2>2 DEF Lists
<1>3. QED
  BY <1>1, <1>2

\* An idle request.
LEMMA NoRequestIs ==
  /\ RequestType(NoRequest) /\ \A r, served : RequestOwn(r, NoRequest, served)
  /\ ~NoRequest.second /\ ~NoRequest.found /\ NoRequest.error = "none"
BY VersionsAre DEF NoRequest, NoProbe, RequestType, RequestOwn, Steps, Errors

\* A closed table's.
LEMMA NoTableIs ==
  RequestType(NoTable) /\ \A r, served : r.cycle => RequestOwn(r, NoTable, served)
BY NoRequestIs DEF NoTable, NoRequest, RequestType, RequestOwn, Steps

\* At first nothing is asked.
LEMMA OwnInit == Init => OwnInv
<1> SUFFICES ASSUME Init PROVE OwnInv
  OBVIOUS
<1>1. /\ far \in [versions : SUBSET Versions, absent : SUBSET Kinds, faults : {0}]
      /\ repaired = INTERVAL /\ gap = INTERVAL /\ missing = {} /\ asked = {}
      /\ request = [r \in Requesters |-> IF r.cycle THEN NoTable ELSE NoRequest]
      /\ marked = [k \in Kinds |-> [own |-> TRUE, found |-> TRUE]]
  BY NegotiateAssumption DEF Init
<1>2. FarOK
  BY <1>1, VersionsAre DEF FarOK
<1>3. RowOK /\ Grounded
  <2>1. CASE Adopted
    BY <2>1, VersionsAre DEF Adopted, RowOK, Grounded
  <2>2. CASE Negotiated
    BY <1>2, <2>2, NewestIs, VersionsAre DEF Negotiated, RowOK, Grounded
  <2>3. QED
    BY <2>1, <2>2 DEF Init
<1>4. KindsOK /\ MissingIsOwn
  BY <1>1, VersionsAre DEF KindsOK, MissingIsOwn
<1>5. QED
  BY <1>1, <1>2, <1>3, <1>4, NoRequestIs, NoTableIs DEF OwnInv

---------------------------------------------------------------------------
(* One request changes, and the rest stay. *)

\* Only q's request may have changed, to one that is in order.
Changes(q) ==
  /\ DOMAIN request' = Requesters
  /\ \A r \in Requesters \ {q} : request'[r] = request[r]
  /\ RequestType(request'[q]) /\ RequestOwn(q, request'[q], far.versions)

\* What is left of OwnInv when the requests are in order.
RestOK == RowOK /\ FarOK /\ Grounded /\ KindsOK /\ MissingIsOwn

\* The requests stay in order when one changes to what is in order, whatever is learnt.
LEMMA ChangesKeep ==
  ASSUME OwnInv, NEW q \in Requesters, Changes(q), far'.versions = far.versions, RestOK'
  PROVE  OwnInv'
BY DEF OwnInv, RestOK, Changes

\* The request of q becomes the one in order that is written.
LEMMA BecomesChanges ==
  ASSUME OwnInv, NEW q \in Requesters, NEW new, request' = [request EXCEPT ![q] = new],
         RequestType(new), RequestOwn(q, new, far.versions)
  PROVE  Changes(q)
BY DEF OwnInv, Changes

\* The end of a failed list: what is known to be the kind's own 404 is (Client::repair_after).
LEMMA FailsChanges ==
  ASSUME OwnInv, NEW q \in Requesters, request[q].at = "wire", NEW error, Fails(q, error),
         error = "missing" => ~Lists(q.kind, request[q].route)
  PROVE  Changes(q) /\ repaired' \in 0..INTERVAL /\ gap' \in 0..INTERVAL
<1>1. PICK old : old = request[q]
  OBVIOUS
<1>2. RequestType(old) /\ RequestOwn(q, old, far.versions) /\ old.at = "wire"
  BY <1>1 DEF OwnInv
<1>3. PICK f : f = Failed(q, error)
  OBVIOUS
<1>4. /\ DOMAIN f = DOMAIN old /\ f.probe = old.probe /\ f.second = old.second
      /\ f.error = (IF Told(q, error) THEN error ELSE "other")
      /\ f.route = (IF q.cycle THEN 0 ELSE old.route)
      /\ f.found = (old.found /\ (old.second /\ error = "missing"))
      /\ f.own = (old.second /\ error = "missing" /\ ~Lists(q.kind, Route(q.kind, Newest)))
  BY <1>1, <1>2, <1>3 DEF Failed, RequestType
<1>5. f.found => f.own
  <2> SUFFICES ASSUME f.found PROVE f.own
    OBVIOUS
  <2>1. old.found /\ error = "missing"
    BY <1>4
  <2>2. old.second /\ old.route \in far.versions /\ ServedAt(q.kind, old.route)
    BY <1>2, <2>1 DEF RequestOwn
  <2>3. q.kind \in far.absent
    BY <1>1, <2>1, <2>2 DEF Lists
  <2>4. QED
    BY <1>4, <2>1, <2>2, <2>3 DEF Lists
<1>6. q.cycle \in BOOLEAN
  BY VersionsAre
<1>7. /\ f.error \in Errors /\ f.found \in BOOLEAN /\ f.own \in BOOLEAN
      /\ f.route \in 0..NEWEST /\ f.second \in BOOLEAN /\ (f.second => q.cycle)
  BY <1>2, <1>4, VersionsAre DEF RequestType, RequestOwn, Told, Errors
<1>8. CASE WorthRepairing(error) /\ adopted /\ repaired >= INTERVAL
  <2>1. PICK new : new = [f EXCEPT !.at = "probe", !.probe = ProbeAt(NEWEST)]
    OBVIOUS
  <2>2. request' = [request EXCEPT ![q] = new] /\ repaired' = 0 /\ gap' = 0
    BY <1>3, <1>8, <2>1 DEF Fails, Claimed
  <2>3. /\ DOMAIN new = DOMAIN old /\ new.at = "probe" /\ new.probe = ProbeAt(NEWEST)
        /\ new.route = f.route /\ new.error = f.error /\ new.second = f.second
        /\ new.own = f.own /\ new.found = f.found
    BY <1>2, <1>4, <2>1 DEF RequestType
  <2>4. DOMAIN new.probe = {"version", "rest", "down"} /\ new.probe.version = NEWEST
    BY <2>3 DEF ProbeAt
  <2>5. RequestType(new) /\ RequestOwn(q, new, far.versions)
    BY <1>2, <1>5, <1>7, <2>3, <2>4, VersionsAre DEF RequestType, RequestOwn, Steps
  <2>6. Changes(q)
    BY <2>2, <2>5, BecomesChanges
  <2>7. QED
    BY <2>2, <2>6, VersionsAre
<1>9. CASE ~(WorthRepairing(error) /\ adopted /\ repaired >= INTERVAL)
  <2>1. PICK new : new = [f EXCEPT !.at = "failed"]
    OBVIOUS
  <2>2. request' = [request EXCEPT ![q] = new] /\ UNCHANGED <<repaired, gap>>
    BY <1>3, <1>9, <2>1 DEF Fails
  <2>3. /\ DOMAIN new = DOMAIN old /\ new.at = "failed" /\ new.probe = f.probe
        /\ new.route = f.route /\ new.error = f.error /\ new.second = f.second
        /\ new.own = f.own /\ new.found = f.found
    BY <1>2, <1>4, <2>1 DEF RequestType
  <2>4. RequestType(new) /\ RequestOwn(q, new, far.versions)
    BY <1>2, <1>4, <1>5, <1>7, <2>3, VersionsAre DEF RequestType, RequestOwn, Steps
  <2>5. QED
    BY <2>2, <2>4, BecomesChanges DEF OwnInv, KindsOK
<1>10. QED
  BY <1>8, <1>9
---------------------------------------------------------------------------
(* The steps. *)

\* Who asks: a request to be sent (Client::list_page_at, Scheduler's cycles, the counters).
LEMMA AskKeeps ==
  ASSUME OwnInv, NEW r \in Requesters, Ask(r) \/ Open(r) \/ AskAnyway(r) \/ Refresh(r)
  PROVE  OwnInv'
<1>1. PICK new : new = [NoRequest EXCEPT !.at = "send"]
  OBVIOUS
<1>2. RequestType(new) /\ RequestOwn(r, new, far.versions)
  BY <1>1, NoRequestIs, VersionsAre DEF RequestType, RequestOwn, Steps
<1>3. /\ request' = [request EXCEPT ![r] = new]
      /\ asked' \subseteq asked \cup {r.kind}
      /\ UNCHANGED <<pin, status, adopted, repaired, missing, far, marked, gap>>
  BY <1>1 DEF Ask, Open, AskAnyway, Refresh, Asks
<1>4. Changes(r)
  BY <1>2, <1>3, BecomesChanges
<1>5. r.kind \in Kinds
  BY VersionsAre
<1>6. RestOK'
  BY <1>3, <1>5 DEF OwnInv, RestOK, RowOK, FarOK, Grounded, KindsOK, MissingIsOwn
<1>7. QED
  BY <1>3, <1>4, <1>6, ChangesKeep

\* A table is closed.
LEMMA CloseKeeps ==
  ASSUME OwnInv, NEW r \in Requesters, Close(r) PROVE OwnInv'
<1>1. /\ r.cycle /\ request' = [request EXCEPT ![r] = NoTable]
      /\ UNCHANGED <<pin, status, adopted, repaired, missing, asked, far, marked, gap>>
  BY DEF Close
<1>2. Changes(r)
  BY <1>1, NoTableIs, BecomesChanges
<1>3. RestOK'
  BY <1>1 DEF OwnInv, RestOK, RowOK, FarOK, Grounded, KindsOK, MissingIsOwn
<1>4. QED
  BY <1>1, <1>2, <1>3, ChangesKeep

\* A second request under a version a probe found goes to that version (pinned_path_for).
LEMMA SendKeeps ==
  ASSUME OwnInv, NEW r \in Requesters, Send(r) PROVE OwnInv'
<1>1. PICK old : old = request[r]
  OBVIOUS
<1>2. RequestType(old) /\ RequestOwn(r, old, far.versions)
  BY <1>1 DEF OwnInv
<1>3. PICK new : new = [old EXCEPT !.at = "wire", !.route = Route(r.kind, pin),
                                   !.found = old.second /\ Probed(r.kind)]
  OBVIOUS
<1>4. request' = [request EXCEPT ![r] = new]
  BY <1>1, <1>3 DEF Send
<1>5. /\ DOMAIN new = DOMAIN old /\ new.at = "wire" /\ new.route = Route(r.kind, pin)
      /\ new.found = (old.second /\ Probed(r.kind)) /\ new.second = old.second
      /\ new.own = old.own /\ new.error = old.error /\ new.probe = old.probe
  BY <1>2, <1>3 DEF RequestType
<1>6. new.route \in 0..NEWEST
  BY <1>5, VersionsAre DEF Route, OwnInv, RowOK
<1>7. new.found => new.route \in far.versions /\ ServedAt(r.kind, new.route)
  <2>1. ASSUME Probed(r.kind)
        PROVE  Route(r.kind, pin) = pin /\ pin \in far.versions /\ ServedAt(r.kind, pin)
    BY <2>1 DEF Probed, Route, OwnInv, RowOK, Grounded
  <2>2. QED
    BY <1>5, <2>1
<1>8. RequestType(new)
  BY <1>2, <1>5, <1>6 DEF RequestType, Steps
<1>9. RequestOwn(r, new, far.versions)
  BY <1>2, <1>5, <1>7 DEF RequestOwn
<1>10. Changes(r)
  BY <1>4, <1>8, <1>9, BecomesChanges
<1>11. UNCHANGED <<pin, status, adopted, repaired, missing, asked, far, marked, gap>>
  BY DEF Send
<1>12. RestOK'
  BY <1>11 DEF OwnInv, RestOK, RowOK, FarOK, Grounded, KindsOK, MissingIsOwn
<1>13. QED
  BY <1>10, <1>11, <1>12, ChangesKeep

\* A list answers (Client::list_page_at).
LEMMA AnswerKeeps ==
  ASSUME OwnInv, NEW r \in Requesters, Answer(r) PROVE OwnInv'
<1>1. Changes(r) /\ repaired' \in 0..INTERVAL /\ gap' \in 0..INTERVAL
  <2>1. CASE request' = [request EXCEPT ![r] = NoRequest] /\ UNCHANGED <<repaired, gap>>
    BY <2>1, NoRequestIs, BecomesChanges DEF OwnInv, KindsOK
  <2>2. CASE ~Lists(r.kind, request[r].route) /\ Fails(r, "missing")
    BY <2>2, FailsChanges DEF Answer
  <2>3. CASE \E error : error # "missing" /\ Fails(r, error)
    BY <2>3, FailsChanges DEF Answer
  <2>4. QED
    BY <2>1, <2>2, <2>3 DEF Answer, Refusals
<1>2. missing' \subseteq missing /\ UNCHANGED <<pin, status, adopted, asked, marked>>
  BY DEF Answer, Completed
<1>3. FarOK' /\ far'.versions = far.versions
  <2>1. CASE UNCHANGED far
    BY <2>1 DEF OwnInv, FarOK
  <2>2. CASE far.faults < MaxFaults /\ far' = [far EXCEPT !.faults = @ + 1]
    <3>1. far.faults + 1 \in 0..MaxFaults
      BY <2>2, VersionsAre DEF OwnInv, FarOK
    <3>2. QED
      BY <2>2, <3>1 DEF OwnInv, FarOK
  <2>3. QED
    BY <2>1, <2>2 DEF Answer
<1>4. RestOK'
  BY <1>1, <1>2, <1>3 DEF OwnInv, RestOK, RowOK, Grounded, KindsOK, MissingIsOwn
<1>5. QED
  BY <1>1, <1>3, <1>4, ChangesKeep

\* What a request becomes that goes on probing, or gives up.
LEMMA StillProbing ==
  ASSUME OwnInv, NEW r \in Requesters, request[r].at = "probe",
         NEW p, DOMAIN p = {"version", "rest", "down"}, p.version \in Versions,
         request' = [request EXCEPT ![r].probe = p]
  PROVE  Changes(r)
<1>1. PICK new : new = [request[r] EXCEPT !.probe = p]
  OBVIOUS
<1>2. request' = [request EXCEPT ![r] = new]
  BY <1>1
<1>3. RequestType(new) /\ RequestOwn(r, new, far.versions)
  BY <1>1, VersionsAre DEF OwnInv, RequestType, RequestOwn
<1>4. QED
  BY <1>2, <1>3, BecomesChanges

\* A probe that is aborted.
LEMMA AbortedChanges ==
  ASSUME OwnInv, NEW r \in Requesters, request[r].at = "probe", Aborted(r)
  PROVE  Changes(r)
<1>1. PICK new : new = [request[r] EXCEPT !.at = "failed", !.probe = NoProbe]
  OBVIOUS
<1>2. request' = [request EXCEPT ![r] = new]
  BY <1>1 DEF Aborted
<1>3. DOMAIN NoProbe = {"version", "rest", "down"} /\ NoProbe.version = 0
  BY DEF NoProbe
<1>4. RequestType(new) /\ RequestOwn(r, new, far.versions)
  BY <1>1, <1>3, VersionsAre DEF OwnInv, RequestType, RequestOwn, Steps
<1>5. QED
  BY <1>2, <1>4, BecomesChanges

\* A version is passed, or is the last (Client::negotiate_namespace).
LEMMA PassedChanges ==
  ASSUME OwnInv, NEW r \in Requesters, request[r].at = "probe",
         NEW p, DOMAIN p = {"version", "rest", "down"}, p.version \in Versions, Passed(r, p)
  PROVE  Changes(r) /\ RowOK' /\ (Grounded' \/ UNCHANGED <<pin, status, adopted>>)
<1>1. CASE p.rest # <<>>
  BY <1>1, StillProbing DEF Passed, OwnInv, RowOK
<1>2. CASE p.rest = <<>> /\ p.down
  BY <1>2, AbortedChanges, VersionsAre DEF Passed, Found, RowOK, Grounded
<1>3. CASE p.rest = <<>> /\ ~p.down /\ p.version = 1
  BY <1>3, AbortedChanges, VersionsAre DEF Passed, Found, RowOK, Grounded
<1>4. CASE p.rest = <<>> /\ ~p.down /\ p.version # 1
  <2>1. PICK n : n = ProbeAt(p.version - 1)
    OBVIOUS
  <2>2. DOMAIN n = {"version", "rest", "down"} /\ n.version = p.version - 1
    BY <2>1 DEF ProbeAt
  <2>3. p.version - 1 \in Versions
    BY <1>4, NegotiateAssumption DEF Versions
  <2>4. request' = [request EXCEPT ![r].probe = n] /\ UNCHANGED <<pin, status, adopted>>
    BY <1>4, <2>1 DEF Passed
  <2>5. QED
    BY <2>2, <2>3, <2>4, StillProbing DEF OwnInv, RowOK
<1>5. QED
  BY <1>1, <1>2, <1>3, <1>4

\* One request of the probe (Client::negotiate_namespace).
LEMMA ProbeKeeps ==
  ASSUME OwnInv, NEW r \in Requesters, Probe(r) PROVE OwnInv'
<1>1. PICK old : old = request[r].probe
  OBVIOUS
<1>2. PICK next : next = [old EXCEPT !.rest = Tail(@)]
  OBVIOUS
<1>3. PICK worse : worse = [next EXCEPT !.down = TRUE]
  OBVIOUS
<1>4. /\ request[r].at = "probe" /\ DOMAIN old = {"version", "rest", "down"}
      /\ old.version \in Versions
  BY <1>1 DEF Probe, OwnInv, RequestType, RequestOwn
<1>5. /\ DOMAIN next = {"version", "rest", "down"} /\ next.version = old.version
      /\ DOMAIN worse = {"version", "rest", "down"} /\ worse.version = old.version
  BY <1>2, <1>3, <1>4
<1>6. /\ UNCHANGED <<repaired, missing, asked, marked, gap>>
      /\ UNCHANGED far \/ (far.faults < MaxFaults /\ far' = [far EXCEPT !.faults = @ + 1])
  BY DEF Probe
<1>7. FarOK' /\ far'.versions = far.versions
  <2>1. CASE UNCHANGED far
    BY <2>1 DEF OwnInv, FarOK
  <2>2. CASE far.faults < MaxFaults /\ far' = [far EXCEPT !.faults = @ + 1]
    <3>1. far.faults + 1 \in 0..MaxFaults
      BY <2>2, VersionsAre DEF OwnInv, FarOK
    <3>2. QED
      BY <2>2, <3>1 DEF OwnInv, FarOK
  <2>3. QED
    BY <1>6, <2>1, <2>2
<1>8. Changes(r) /\ RowOK' /\ (Grounded' \/ UNCHANGED <<pin, status, adopted>>)
  <2>1. CASE Passed(r, old) \/ Passed(r, next) \/ Passed(r, worse)
    BY <1>4, <1>5, <2>1, PassedChanges
  <2>2. CASE /\ Lists(Head(old.rest), old.version) \/ Refusals(old.version) # {}
             /\ Found(r, old.version, "served")
    <3>1. old.version \in far.versions
      BY <2>2 DEF Lists, Refusals
    <3>2. Changes(r)
      BY <1>4, <2>2, AbortedChanges DEF Found
    <3>3. RowOK' /\ Grounded'
      BY <1>4, <1>7, <2>2, <3>1, VersionsAre DEF Found, RowOK, Grounded
    <3>4. QED
      BY <3>2, <3>3
  <2>3. CASE Aborted(r) /\ UNCHANGED <<pin, status, adopted>>
    BY <1>4, <2>3, AbortedChanges DEF OwnInv, RowOK
  <2>4. QED
    BY <1>1, <1>2, <1>3, <2>1, <2>2, <2>3 DEF Probe
<1>9. Grounded'
  BY <1>7, <1>8 DEF OwnInv, Grounded
<1>10. RestOK'
  BY <1>6, <1>7, <1>8, <1>9 DEF OwnInv, RestOK, KindsOK, MissingIsOwn
<1>11. QED
  BY <1>7, <1>8, <1>10, ChangesKeep

\* A second 404 ends the task, and is remembered with what was behind it (cycle.rs).
LEMMA ReportKeeps ==
  ASSUME OwnInv, NEW r \in Requesters, Report(r) PROVE OwnInv'
<1>1. PICK old : old = request[r]
  OBVIOUS
<1>2. /\ RequestType(old) /\ RequestOwn(r, old, far.versions) /\ old.at = "failed"
      /\ r.kind \in Kinds
  BY <1>1, VersionsAre DEF OwnInv, Report
<1>3. UNCHANGED <<pin, status, adopted, repaired, asked, far, gap>>
  BY DEF Report
<1> DEFINE again == NotFound(r) /\ ~old.second
           gone == NotFound(r) /\ old.second
<1>4. PICK new : new = IF again
                         THEN [NoRequest EXCEPT !.at = "send", !.second = TRUE]
                         ELSE [NoRequest EXCEPT
                                 !.at = IF gone \/ Refused(r) THEN "ended" ELSE "idle"]
  OBVIOUS
<1>5. request' = [request EXCEPT ![r] = new]
  BY <1>1, <1>4 DEF Report
<1>6. again => r.cycle
  BY DEF NotFound
<1> HIDE DEF again, gone
<1>7. Changes(r)
  <2>1. RequestType(new) /\ RequestOwn(r, new, far.versions)
    BY <1>4, <1>6, NoRequestIs DEF RequestType, RequestOwn, Steps
  <2>2. QED
    BY <1>5, <2>1, BecomesChanges
<1> USE DEF again, gone
<1>8. KindsOK' /\ MissingIsOwn'
  <2>1. CASE gone
    <3>1. PICK m : m = [own |-> old.own, found |-> old.found]
      OBVIOUS
    <3>2. missing' = missing \cup {r.kind} /\ marked' = [marked EXCEPT ![r.kind] = m]
      BY <1>1, <2>1, <3>1 DEF Report
    <3>3. m \in [own : BOOLEAN, found : BOOLEAN] /\ (m.own \/ ~m.found)
      BY <1>2, <3>1 DEF RequestType, RequestOwn
    <3>4. QED
      BY <1>2, <1>3, <3>2, <3>3 DEF OwnInv, KindsOK, MissingIsOwn
  <2>2. CASE ~gone
    BY <1>1, <1>3, <2>2 DEF Report, OwnInv, KindsOK, MissingIsOwn
  <2>3. QED
    BY <2>1, <2>2
<1>9. RestOK'
  BY <1>3, <1>8 DEF OwnInv, RestOK, RowOK, FarOK, Grounded
<1>10. QED
  BY <1>3, <1>7, <1>9, ChangesKeep
\* Every step keeps it.
LEMMA OwnStep == OwnInv /\ [Next]_vars => OwnInv'
<1> SUFFICES ASSUME OwnInv, [Next]_vars PROVE OwnInv'
  OBVIOUS
<1>1. CASE Tick
  <2>1. \A n \in 0..INTERVAL : Aged(n) \in 0..INTERVAL
    BY VersionsAre DEF Aged
  <2>2. UNCHANGED <<pin, status, adopted, missing, asked, request, far, marked>>
        /\ repaired' \in 0..INTERVAL /\ gap' \in 0..INTERVAL
    BY <1>1, <2>1 DEF Tick, OwnInv, KindsOK
  <2>3. QED
    BY <2>2 DEF OwnInv, RowOK, FarOK, Grounded, KindsOK, MissingIsOwn
<1>2. CASE Starts
  <2>1. PICK k : far' = [far EXCEPT !.absent = @ \ {k}]
    BY <1>2 DEF Starts
  <2>2. FarOK' /\ far'.versions = far.versions
    BY <2>1 DEF OwnInv, FarOK
  <2>3. UNCHANGED <<pin, status, adopted, repaired, missing, asked, request, marked, gap>>
    BY <1>2 DEF Starts
  <2>4. QED
    BY <2>2, <2>3 DEF OwnInv, RowOK, Grounded, KindsOK, MissingIsOwn
<1>3. ASSUME NEW r \in Requesters,
             \/ Ask(r) \/ Open(r) \/ AskAnyway(r) \/ Refresh(r) \/ Close(r)
             \/ Send(r) \/ Answer(r) \/ Probe(r) \/ Report(r)
      PROVE  OwnInv'
  BY <1>3, AskKeeps, CloseKeeps, SendKeeps, AnswerKeeps, ProbeKeeps, ReportKeeps
<1>4. CASE UNCHANGED vars
  BY <1>4 DEF vars, OwnInv, RowOK, FarOK, Grounded, KindsOK, MissingIsOwn
<1>5. QED
  BY <1>1, <1>2, <1>3, <1>4 DEF Next

\* What is pinned, remembered and asked is what it may be: in particular a namespace held to
\* be served or down has a pin, and one that is not served has none (adopt_pins,
\* negotiate_namespace).
THEOREM Types == Spec => []TypeOK
<1>1. OwnInv => TypeOK
  BY DEF OwnInv, RowOK, FarOK, KindsOK, RequestType, RequestOwn, TypeOK
<1>2. QED
  BY <1>1, OwnInit, OwnStep, PTL DEF Spec

\* A kind whose second 404 came from a version a probe had found is missing itself: asked at
\* the version a faultless negotiation would choose, it would not be there either, whatever
\* other requesters, repairs and late starts of its service came between ("only a second 404
\* is the endpoint's own": cycle.rs).
THEOREM MissingByItself == Spec => []MissingIsOwn
<1>1. OwnInv => MissingIsOwn
  BY DEF OwnInv
<1>2. QED
  BY <1>1, OwnInit, OwnStep, PTL DEF Spec

---------------------------------------------------------------------------
(* Pacing: what is left of a window (Bucket::take, Bucket::live). *)

\* The first n takes are those a whole window old.
Popped(taken, per, n) ==
  /\ n \in 0..Len(taken)
  /\ \A m \in 1..n : taken[m] >= per
  /\ n < Len(taken) => taken[n + 1] < per

\* The takes popped are as many as are a whole window old at the front.
LEMMA ExpiredIs ==
  ASSUME NEW taken \in Seq(Nat), NEW per \in Nat
  PROVE  Popped(taken, per, Expired(taken, per))
<1> DEFINE T == {n \in 0..Len(taken) : n < Len(taken) => taken[n + 1] < per}
<1>1. T \in SUBSET Nat /\ Len(taken) \in T
  OBVIOUS
<1>2. PICK n \in T : \A y \in T : ~(y < n)
  BY <1>1, Least
<1>3. ASSUME NEW m \in 1..n PROVE taken[m] >= per
  <2>1. m - 1 \in 0..Len(taken) /\ m - 1 < n /\ m \in 1..Len(taken)
    BY <1>2, <1>3
  <2>2. m - 1 \notin T
    BY <1>2, <2>1
  <2>3. taken[m] \in Nat
    BY <2>1
  <2>4. QED
    BY <2>1, <2>2, <2>3
<1>4. Popped(taken, per, n)
  BY <1>2, <1>3 DEF Popped
<1>5. QED
  BY <1>4 DEF Popped, Expired

\* And no other number of takes is.
LEMMA ExpiredIsOnly ==
  ASSUME NEW taken \in Seq(Nat), NEW per \in Nat, NEW n, Popped(taken, per, n)
  PROVE  Expired(taken, per) = n
<1> DEFINE e == Expired(taken, per)
<1>1. Popped(taken, per, e)
  BY ExpiredIs
<1> HIDE DEF e
<1>2. ~(e < n)
  <2>1. SUFFICES ASSUME e < n PROVE FALSE
    OBVIOUS
  <2>2. e + 1 \in 1..n /\ e + 1 \in 1..Len(taken)
    BY <1>1, <2>1 DEF Popped
  <2>3. taken[e + 1] \in Nat
    BY <2>2
  <2>4. QED
    BY <1>1, <2>1, <2>2, <2>3 DEF Popped
<1>3. ~(n < e)
  <2>1. SUFFICES ASSUME n < e PROVE FALSE
    OBVIOUS
  <2>2. n + 1 \in 1..e /\ n + 1 \in 1..Len(taken)
    BY <1>1, <2>1 DEF Popped
  <2>3. taken[n + 1] \in Nat
    BY <2>2
  <2>4. QED
    BY <1>1, <2>1, <2>2, <2>3 DEF Popped
<1>4. QED
  BY <1>1, <1>2, <1>3 DEF Popped, e

\* What is left are the takes after those popped, in their order.
LEMMA LiveIs ==
  ASSUME NEW taken \in Ages, NEW per \in Nat
  PROVE  /\ taken \in Seq(Nat) /\ Expired(taken, per) \in 0..Len(taken)
         /\ Live(taken, per) \in Ages
         /\ Len(Live(taken, per)) = Len(taken) - Expired(taken, per)
         /\ \A i \in 1..Len(Live(taken, per)) :
              Live(taken, per)[i] = taken[Expired(taken, per) + i]
<1>1. Forever \in Nat
  BY BucketAssumption
<1>2. taken \in Seq(Nat)
  BY <1>1 DEF Ages
<1>3. Expired(taken, per) \in 0..Len(taken)
  BY <1>2, ExpiredIs DEF Popped
<1>4. ASSUME NEW e \in 0..Len(taken)
      PROVE  /\ SubSeq(taken, e + 1, Len(taken)) \in Ages
             /\ Len(SubSeq(taken, e + 1, Len(taken))) = Len(taken) - e
             /\ \A i \in 1..Len(taken) - e : SubSeq(taken, e + 1, Len(taken))[i] = taken[e + i]
  <2>1. /\ e + 1 \in Int /\ Len(taken) \in Int
        /\ \A i \in (e + 1)..Len(taken) : taken[i] \in 0..Forever
    <3>1. taken \in Seq(0..Forever)
      BY DEF Ages
    <3>2. Len(taken) \in Nat /\ taken \in [1..Len(taken) -> 0..Forever]
      BY <3>1, LenProperties
    <3>3. QED
      BY <1>4, <3>2
  <2>2. /\ SubSeq(taken, e + 1, Len(taken)) \in Seq(0..Forever)
        /\ Len(SubSeq(taken, e + 1, Len(taken)))
             = IF e + 1 <= Len(taken) THEN Len(taken) - (e + 1) + 1 ELSE 0
        /\ \A i \in 1..(Len(taken) - (e + 1) + 1) :
             SubSeq(taken, e + 1, Len(taken))[i] = taken[(e + 1) + i - 1]
    BY <2>1, SubSeqProperties
  <2>3. \A i \in Nat : (e + 1) + i - 1 = e + i
    BY <1>4
  <2>4. QED
    BY <1>4, <2>2, <2>3 DEF Ages
<1>5. QED
  BY <1>2, <1>3, <1>4 DEF Live

\* How many takes are left after each of them, by the same count of the ones popped.
LEMMA LiveLen ==
  ASSUME NEW taken \in Ages, NEW per \in Nat, NEW n, Popped(taken, per, n)
  PROVE  Len(Live(taken, per)) = Len(taken) - n
BY LiveIs, ExpiredIsOnly

\* Nothing is inside a window of no length.
LEMMA LiveNone == ASSUME NEW taken \in Ages PROVE Len(Live(taken, 0)) = 0
<1>1. \A m \in 1..Len(taken) : taken[m] >= 0
  BY LiveIs DEF Ages
<1>2. Popped(taken, 0, Len(taken))
  BY <1>1, LiveIs DEF Popped
<1>3. QED
  BY <1>2, LiveLen, LiveIs

\* A wider window holds at least as many takes.
LEMMA LiveWider ==
  ASSUME NEW taken \in Ages, NEW per \in Nat, NEW c \in 0..per
  PROVE  /\ Expired(taken, per) <= Expired(taken, c)
         /\ Len(Live(taken, c)) <= Len(Live(taken, per))
<1> DEFINE e == Expired(taken, per)
           f == Expired(taken, c)
<1>1. taken \in Seq(Nat) /\ Popped(taken, per, e) /\ Popped(taken, c, f)
  BY LiveIs, ExpiredIs
<1>2. /\ Len(Live(taken, per)) = Len(taken) - e
      /\ Len(Live(taken, c)) = Len(taken) - f
  BY LiveIs
<1> HIDE DEF e, f
<1>3. ~(f < e)
  <2>1. SUFFICES ASSUME f < e PROVE FALSE
    OBVIOUS
  <2>2. f + 1 \in 1..e /\ f + 1 \in 1..Len(taken)
    BY <1>1, <2>1 DEF Popped
  <2>3. taken[f + 1] \in Nat
    BY <1>1, <2>2
  <2>4. QED
    BY <1>1, <2>1, <2>2, <2>3 DEF Popped
<1>4. e <= f
  BY <1>1, <1>3 DEF Popped
<1>5. QED
  BY <1>1, <1>2, <1>4 DEF Popped, e, f

\* What a narrower window holds of a window is what it holds of all takes.
LEMMA LiveOfLive ==
  ASSUME NEW taken \in Ages, NEW per \in Nat, NEW c \in 0..per
  PROVE  Len(Live(Live(taken, per), c)) = Len(Live(taken, c))
<1> DEFINE e == Expired(taken, per)
           f == Expired(taken, c)
           live == Live(taken, per)
<1>1. taken \in Seq(Nat) /\ Popped(taken, c, f) /\ Popped(taken, per, e) /\ e <= f
  BY LiveIs, ExpiredIs, LiveWider
<1>2. /\ live \in Ages /\ Len(live) = Len(taken) - e
      /\ \A i \in 1..Len(live) : live[i] = taken[e + i]
      /\ Len(Live(taken, c)) = Len(taken) - f
  BY LiveIs
<1> HIDE DEF e, f, live
<1>3. Popped(live, c, f - e)
  <2>1. f - e \in 0..Len(live)
    BY <1>1, <1>2 DEF Popped
  <2>2. ASSUME NEW m \in 1..f - e PROVE live[m] >= c
    <3>1. m \in 1..Len(live) /\ e + m \in 1..f
      BY <1>1, <2>1 DEF Popped
    <3>2. QED
      BY <1>1, <1>2, <3>1 DEF Popped
  <2>3. ASSUME f - e < Len(live) PROVE live[(f - e) + 1] < c
    <3>1. (f - e) + 1 \in 1..Len(live) /\ e + ((f - e) + 1) = f + 1 /\ f < Len(taken)
      BY <1>1, <1>2, <2>3 DEF Popped
    <3>2. live[(f - e) + 1] = taken[f + 1]
      BY <1>2, <3>1
    <3>3. QED
      BY <1>1, <3>1, <3>2 DEF Popped
  <2>4. QED
    BY <2>1, <2>2, <2>3 DEF Popped
<1>4. Len(Live(live, c)) = Len(live) - (f - e)
  BY <1>2, <1>3, LiveLen
<1>5. QED
  BY <1>1, <1>2, <1>4 DEF Popped, live

\* A take now is inside every window.
LEMMA LiveAppend ==
  ASSUME NEW taken \in Ages, NEW c \in 1..Forever
  PROVE  /\ Append(taken, 0) \in Ages
         /\ Len(Live(Append(taken, 0), c)) = Len(Live(taken, c)) + 1
<1> DEFINE e == Expired(taken, c)
           more == Append(taken, 0)
<1>1. Forever \in Nat
  BY BucketAssumption
<1>2. /\ taken \in Seq(Nat) /\ Popped(taken, c, e)
      /\ Len(Live(taken, c)) = Len(taken) - e
  BY <1>1, LiveIs, ExpiredIs
<1>3. /\ more \in Ages /\ Len(more) = Len(taken) + 1
      /\ \A m \in 1..Len(taken) : more[m] = taken[m]
      /\ more[Len(taken) + 1] = 0
  BY <1>1 DEF Ages
<1> HIDE DEF e, more
<1>4. Popped(more, c, e)
  <2>1. ASSUME NEW m \in 1..e PROVE more[m] >= c
    <3>1. m \in 1..Len(taken) /\ taken[m] >= c
      BY <1>2, <2>1 DEF Popped
    <3>2. QED
      BY <1>3, <3>1
  <2>2. more[e + 1] < c
    BY <1>1, <1>2, <1>3 DEF Popped
  <2>3. QED
    BY <1>2, <1>3, <2>1, <2>2 DEF Popped
<1>5. Len(Live(more, c)) = Len(more) - e
  BY <1>1, <1>3, <1>4, LiveLen
<1>6. QED
  BY <1>2, <1>3, <1>5 DEF Popped, more

\* After a tick a window holds what one a tick shorter held.
LEMMA LiveOlder ==
  ASSUME NEW taken \in Ages, NEW c \in 1..Forever
  PROVE  /\ Older(taken) \in Ages /\ Len(Older(taken)) = Len(taken)
         /\ Len(Live(Older(taken), c)) = Len(Live(taken, c - 1))
<1> DEFINE e == Expired(taken, c - 1)
           old == Older(taken)
<1>1. Forever \in Nat /\ c - 1 \in Nat /\ taken \in Seq(0..Forever)
  BY BucketAssumption DEF Ages
<1>2. /\ taken \in Seq(Nat) /\ Popped(taken, c - 1, e)
      /\ Len(Live(taken, c - 1)) = Len(taken) - e
  BY <1>1, LiveIs, ExpiredIs
<1>3. /\ old \in Ages /\ Len(old) = Len(taken)
      /\ \A m \in 1..Len(taken) :
           /\ taken[m] \in 0..Forever
           /\ old[m] = IF taken[m] < Forever THEN taken[m] + 1 ELSE Forever
  <2>1. DOMAIN taken = 1..Len(taken) /\ Len(taken) \in Nat
    BY <1>1
  <2>2. ASSUME NEW m \in 1..Len(taken)
        PROVE  /\ taken[m] \in 0..Forever
               /\ old[m] = IF taken[m] < Forever THEN taken[m] + 1 ELSE Forever
               /\ old[m] \in 0..Forever
    BY <1>1, <2>1 DEF Older
  <2>3. old \in [1..Len(taken) -> 0..Forever]
    BY <2>1, <2>2 DEF Older
  <2>4. old \in Seq(0..Forever)
    BY <2>1, <2>3, SeqDef
  <2>5. DOMAIN old = 1..Len(old) /\ DOMAIN old = 1..Len(taken) /\ Len(old) \in Nat
    BY <2>3, <2>4, LenProperties
  <2>6. Len(old) = Len(taken)
    BY <2>1, <2>5, SameLength
  <2>7. QED
    BY <2>2, <2>4, <2>6 DEF Ages
<1> HIDE DEF e, old
<1>4. Popped(old, c, e)
  <2>1. \A m \in 1..e : old[m] >= c
    BY <1>1, <1>2, <1>3 DEF Popped
  <2>2. e < Len(old) => old[e + 1] < c
    BY <1>1, <1>2, <1>3 DEF Popped
  <2>3. QED
    BY <1>2, <1>3, <2>1, <2>2 DEF Popped
<1>5. Len(Live(old, c)) = Len(old) - e
  BY <1>1, <1>3, <1>4, LiveLen
<1>6. QED
  BY <1>2, <1>3, <1>5 DEF old

---------------------------------------------------------------------------
(* What the budgets may be. *)

\* Widest is what it says: no tier there is, stated or declared, allows more.
LEMMA WidestIs ==
  /\ Widest \in Nat /\ 1 <= Widest
  /\ HOST_START.count <= Widest /\ HOST_CEILING.count <= Widest
  /\ \A h \in Headers : h.tier # NoTier => h.tier.count <= Widest
  /\ \A o \in Operations : Catalog[o].count <= Widest
<1> DEFINE tiers == {HOST_START, HOST_CEILING} \cup {h.tier : h \in Headers} \cup
                      {Catalog[o] : o \in Operations}
           counts == {t.count : t \in tiers \ {NoTier}} \cup {1}
           stated == [h \in Headers |-> IF h.tier = NoTier THEN 0 ELSE h.tier.count]
           declared == [o \in Operations |-> Catalog[o].count]
<1>1. /\ HOST_START \in tiers \ {NoTier} /\ HOST_CEILING \in tiers \ {NoTier}
      /\ \A o \in Operations : Catalog[o] \in tiers \ {NoTier}
      /\ \A h \in Headers : h.tier # NoTier => h.tier \in tiers \ {NoTier}
      /\ \A t \in tiers \ {NoTier} : t.count \in Nat
  BY PacingAssumption, BucketAssumption DEF Tiers, Advertised
<1>2. stated \in [Headers -> Nat] /\ declared \in [Operations -> Nat]
  BY <1>1
<1>3. PICK m \in Nat : \A h \in Headers : stated[h] <= m
  <2> HIDE DEF stated
  <2>1. QED
    BY <1>2, Bounded, PacingAssumption
<1>4. PICK n \in Nat : \A o \in Operations : declared[o] <= n
  <2> HIDE DEF declared
  <2>1. QED
    BY <1>2, Bounded, PacingAssumption
<1> DEFINE bound == m + n + HOST_START.count + HOST_CEILING.count + 1
<1>5. bound \in Nat /\ HOST_START.count \in Nat /\ HOST_CEILING.count \in Nat
  BY <1>1
<1>6. ASSUME NEW t \in tiers \ {NoTier} PROVE t.count <= bound
  <2>1. CASE t \in {HOST_START, HOST_CEILING}
    BY <1>5, <2>1
  <2>2. CASE t \in {h.tier : h \in Headers}
    <3>1. PICK h \in Headers : t = h.tier
      BY <2>2
    <3>2. stated[h] <= m /\ stated[h] = t.count
      BY <1>3, <3>1
    <3>3. QED
      BY <1>1, <1>5, <3>2
  <2>3. CASE t \in {Catalog[o] : o \in Operations}
    <3>1. PICK o \in Operations : t = Catalog[o]
      BY <2>3
    <3>2. declared[o] <= n /\ declared[o] = t.count
      BY <1>4, <3>1
    <3>3. QED
      BY <1>1, <1>5, <3>2
  <2>4. QED
    BY <2>1, <2>2, <2>3
<1>7. counts \in SUBSET Nat /\ counts # {} /\ \A v \in counts : v <= bound
  BY <1>1, <1>5, <1>6
<1>8. \E v \in counts : \A w \in counts : w <= v
  <2> HIDE DEF counts, bound
  <2>1. QED
    BY <1>5, <1>7, Largest
<1>9. Widest = CHOOSE v \in counts : \A w \in counts : w <= v
  BY DEF Widest
<1>10. Widest \in counts /\ \A w \in counts : w <= Widest
  <2> HIDE DEF counts
  <2>1. QED
    BY <1>8, <1>9
<1>11. /\ 1 \in counts
       /\ \A t \in tiers \ {NoTier} : t.count \in counts
  OBVIOUS
<1>12. QED
  <2> HIDE DEF counts, tiers
  <2>1. QED
    BY <1>1, <1>7, <1>10, <1>11

\* A budget's takes are in order ("sorted", Bucket.taken).
Sorted(taken) == \A m, n \in DOMAIN taken : m < n => taken[m] >= taken[n]

\* What every step of every operation keeps of a budget.
Sound(b) == b \in Buckets /\ Sorted(b.taken)

\* There is a tick.
LEMMA ForeverIs == Forever \in Nat /\ 1 <= Forever /\ NoHold \notin Nat
BY BucketAssumption, PacingAssumption DEF Tiers

\* What is left of the takes is in order and is all inside the window: the suffix is
\* what a filter of the takes would keep (Bucket::live).
LEMMA LiveSorted ==
  ASSUME NEW taken \in Ages, Sorted(taken), NEW per \in Nat
  PROVE  /\ Sorted(Live(taken, per))
         /\ \A i \in 1..Len(Live(taken, per)) : Live(taken, per)[i] < per
<1> DEFINE e == Expired(taken, per)
           live == Live(taken, per)
<1>1. /\ taken \in Seq(Nat) /\ Popped(taken, per, e)
      /\ live \in Ages /\ Len(live) = Len(taken) - e
      /\ \A i \in 1..Len(live) : live[i] = taken[e + i]
  BY LiveIs, ExpiredIs
<1>2. DOMAIN live = 1..Len(live) /\ DOMAIN taken = 1..Len(taken)
  BY <1>1 DEF Ages
<1> HIDE DEF e, live
<1>3. ASSUME NEW i \in 1..Len(live)
      PROVE  e + i \in 1..Len(taken) /\ taken[e + i] \in Nat
  BY <1>1 DEF Popped
<1>4. Sorted(live)
  <2>1. SUFFICES ASSUME NEW m \in 1..Len(live), NEW n \in 1..Len(live), m < n
                 PROVE  live[m] >= live[n]
    BY <1>2 DEF Sorted
  <2>2. e + m < e + n /\ e + m \in DOMAIN taken /\ e + n \in DOMAIN taken
    BY <1>1, <1>2, <1>3, <2>1 DEF Popped
  <2>3. QED
    BY <1>1, <2>2 DEF Sorted
<1>5. ASSUME NEW i \in 1..Len(live) PROVE live[i] < per
  <2>1. e \in Nat /\ e < Len(taken) /\ taken[e + 1] < per
    BY <1>1 DEF Popped
  <2>2. e + 1 \in 1..Len(taken) /\ taken[e + 1] \in Nat
    BY <1>1, <2>1
  <2>3. taken[e + i] <= taken[e + 1]
    <3>1. CASE i = 1
      BY <2>2, <3>1
    <3>2. CASE i # 1
      <4>1. e + 1 < e + i /\ e + i \in DOMAIN taken /\ e + 1 \in DOMAIN taken
        BY <1>2, <1>3, <2>1, <2>2, <3>2
      <4>2. QED
        BY <4>1 DEF Sorted
    <3>3. QED
      BY <3>1, <3>2
  <2>4. QED
    BY <1>1, <1>3, <2>1, <2>2, <2>3
<1>6. QED
  BY <1>4, <1>5 DEF live

---------------------------------------------------------------------------
(* One budget (bucket.rs). *)

\* The fields of a budget.
LEMMA SoundIs ==
  ASSUME NEW b, Sound(b)
  PROVE  /\ b.limit \in Tiers /\ b.limit.count \in Nat \ {0}
         /\ b.limit.per_secs \in 1..Forever /\ b.limit.per_secs \in Nat
         /\ b.taken \in Ages /\ Sorted(b.taken)
         /\ b.blocked \in Nat \cup {NoHold}
         /\ b = [limit |-> b.limit, taken |-> b.taken, blocked |-> b.blocked]
BY ForeverIs DEF Sound, Buckets, Tiers

\* And from its fields.
LEMMA SoundOf ==
  ASSUME NEW limit \in Tiers, NEW taken \in Ages, Sorted(taken),
         NEW blocked \in Nat \cup {NoHold}
  PROVE  Sound([limit |-> limit, taken |-> taken, blocked |-> blocked])
BY DEF Sound, Buckets

\* A wait is a number - the oldest take to fall out is inside the window - and there is
\* none only where the window has room or a hold has run out (Bucket::peek).
LEMMA PeekIs ==
  ASSUME NEW b, Sound(b)
  PROVE  /\ Peek(b) \in Nat
         /\ Peek(b) = 0 =>
              \/ b.blocked = NoHold /\ Len(Live(b.taken, b.limit.per_secs)) < b.limit.count
              \/ b.blocked = 0
<1> DEFINE per == b.limit.per_secs
           live == Live(b.taken, per)
           count == b.limit.count
           over == Len(live) - count
<1>1. /\ count \in Nat \ {0} /\ per \in Nat /\ b.blocked \in Nat \cup {NoHold}
      /\ live \in Ages /\ Len(live) \in Nat
      /\ \A i \in 1..Len(live) : live[i] \in Nat /\ live[i] < per
  <2>1. b.taken \in Ages /\ Sorted(b.taken) /\ per \in Nat
    BY SoundIs
  <2>2. live \in Ages /\ \A i \in 1..Len(live) : live[i] < per
    BY <2>1, LiveIs, LiveSorted
  <2>3. live \in Seq(Nat)
    BY <2>2, LiveIs
  <2>4. QED
    BY <2>2, <2>3, SoundIs
<1>2. Peek(b) = IF b.blocked # NoHold THEN b.blocked
                ELSE IF Len(live) < count THEN 0
                ELSE per - live[over + 1]
  BY DEF Peek
<1> HIDE DEF per, live, count
<1>3. ASSUME ~(Len(live) < count)
      PROVE  per - live[over + 1] \in Nat /\ per - live[over + 1] # 0
  <2>1. over + 1 \in 1..Len(live)
    BY <1>1, <1>3
  <2>2. live[over + 1] \in Nat /\ live[over + 1] < per
    BY <1>1, <2>1
  <2>3. QED
    BY <1>1, <2>2
<1>4. QED
  BY <1>1, <1>2, <1>3, ForeverIs DEF live, per, count

\* A take now comes last.
LEMMA SortedAppend ==
  ASSUME NEW taken \in Ages, Sorted(taken)
  PROVE  Sorted(Append(taken, 0))
<1> DEFINE more == Append(taken, 0)
<1>1. taken \in Seq(Nat)
  BY LiveIs, ForeverIs
<1>2. /\ Len(taken) \in Nat /\ Len(more) = Len(taken) + 1
      /\ DOMAIN more = 1..Len(taken) + 1 /\ DOMAIN taken = 1..Len(taken)
      /\ \A i \in 1..Len(taken) : more[i] = taken[i] /\ taken[i] \in Nat
      /\ more[Len(taken) + 1] = 0
  BY <1>1
<1> HIDE DEF more
<1>3. SUFFICES ASSUME NEW m \in DOMAIN more, NEW n \in DOMAIN more, m < n
               PROVE  more[m] >= more[n]
  BY DEF Sorted, more
<1>4. m \in 1..Len(taken)
  BY <1>2, <1>3
<1>5. CASE n \in 1..Len(taken)
  BY <1>2, <1>3, <1>4, <1>5 DEF Sorted
<1>6. CASE n = Len(taken) + 1
  BY <1>2, <1>4, <1>6
<1>7. QED
  BY <1>2, <1>3, <1>5, <1>6

\* No takes are in order.
LEMMA NoneSorted == <<>> \in Ages /\ Sorted(<<>>) /\ Len(<<>>) = 0
BY DEF Ages, Sorted

\* What a take leaves: the takes inside the window, or none after a hold that ran out,
\* and the new one, which fits (Bucket::take).
LEMMA TakeIs ==
  ASSUME NEW b, Sound(b), Peek(b) = 0
  PROVE  /\ Sound(Take(b)) /\ Take(b).limit = b.limit /\ Take(b).blocked = NoHold
         /\ Take(b).taken = Append(IF b.blocked # NoHold THEN <<>>
                                   ELSE Live(b.taken, b.limit.per_secs), 0)
         /\ Len(Take(b).taken) <= b.limit.count
<1> DEFINE kept == IF b.blocked # NoHold THEN <<>> ELSE Live(b.taken, b.limit.per_secs)
<1>1. kept \in Ages /\ Sorted(kept) /\ Len(kept) \in Nat /\ Len(kept) < b.limit.count
  <2>1. b.taken \in Ages /\ Sorted(b.taken) /\ b.limit.per_secs \in Nat
    BY SoundIs
  <2>2. b.limit.count \in Nat \ {0}
    BY SoundIs
  <2>3. CASE b.blocked # NoHold
    BY <2>2, <2>3, NoneSorted
  <2>4. CASE b.blocked = NoHold
    BY <2>1, <2>4, LiveIs, LiveSorted, PeekIs, ForeverIs
  <2>5. QED
    BY <2>3, <2>4
<1>2. Take(b) = [limit |-> b.limit, taken |-> Append(kept, 0), blocked |-> NoHold]
  <2>1. b = [limit |-> b.limit, taken |-> b.taken, blocked |-> b.blocked]
    BY SoundIs
  <2>2. Take(b) = [b EXCEPT !.blocked = NoHold, !.taken = Append(kept, 0)]
    BY <2>1 DEF Take
  <2> HIDE DEF kept
  <2>3. QED
    BY <2>1, <2>2
<1> HIDE DEF kept
<1>3. Append(kept, 0) \in Ages /\ Len(Append(kept, 0)) = Len(kept) + 1
  BY <1>1, ForeverIs DEF Ages
<1>4. Sorted(Append(kept, 0))
  BY <1>1, SortedAppend
<1>5. Sound(Take(b))
  <2>1. NoHold \in Nat \cup {NoHold} /\ b.limit \in Tiers
    BY SoundIs
  <2>2. Sound([limit |-> b.limit, taken |-> Append(kept, 0), blocked |-> NoHold])
    BY <1>3, <1>4, <2>1, SoundOf
  <2>3. QED
    BY <1>2, <2>2
<1>6. QED
  BY <1>1, <1>2, <1>3, <1>5, SoundIs DEF kept

\* A window full of takes.
LEMMA FullIs ==
  ASSUME NEW count \in Nat
  PROVE  LET full == [n \in 1..count |-> 0]
         IN  full \in Ages /\ Len(full) = count /\ Sorted(full)
<1> DEFINE full == [n \in 1..count |-> 0]
<1>1. full \in [1..count -> 0..Forever]
  BY ForeverIs
<1>2. full \in Seq(0..Forever)
  BY <1>1, SeqDef
<1>3. DOMAIN full = 1..count /\ DOMAIN full = 1..Len(full) /\ Len(full) \in Nat
  BY <1>1, <1>2, LenProperties
<1>4. Len(full) = count
  <2> HIDE DEF full
  <2>1. QED
    BY <1>3, SameLength
<1>5. Sorted(full)
  BY DEF Sorted
<1>6. QED
  BY <1>2, <1>4, <1>5 DEF Ages

\* A 429 fills the window and holds it, for as long as was asked or, if that is later,
\* until the hold there was is over (Bucket::drain).
LEMMA DrainIs ==
  ASSUME NEW b, Sound(b), NEW wait \in Nat
  PROVE  /\ Sound(Drain(b, wait)) /\ Drain(b, wait).limit = b.limit
         /\ Len(Drain(b, wait).taken) = b.limit.count
         /\ Drain(b, wait).blocked \in Nat /\ Drain(b, wait).blocked >= wait
         /\ b.blocked # NoHold => Drain(b, wait).blocked >= b.blocked
<1> DEFINE full == [n \in 1..b.limit.count |-> 0]
           until == IF b.blocked # NoHold /\ b.blocked > wait THEN b.blocked ELSE wait
<1>1. Drain(b, wait) = [limit |-> b.limit, taken |-> full, blocked |-> until]
  <2>1. b = [limit |-> b.limit, taken |-> b.taken, blocked |-> b.blocked]
    BY SoundIs
  <2>2. Drain(b, wait) = [b EXCEPT !.taken = full, !.blocked = until]
    BY <2>1 DEF Drain
  <2> HIDE DEF full, until
  <2>3. QED
    BY <2>1, <2>2
<1>2. until \in Nat /\ until >= wait /\ (b.blocked # NoHold => until >= b.blocked)
  BY SoundIs
<1>3. full \in Ages /\ Len(full) = b.limit.count /\ Sorted(full)
  BY SoundIs, FullIs
<1> HIDE DEF full, until
<1>4. QED
  BY <1>1, <1>2, <1>3, SoundIs, SoundOf

\* An adopted tier is at least one a tick, and leaves the takes and the hold alone
\* (Bucket::relimit).
LEMMA RelimitIs ==
  ASSUME NEW b, Sound(b), NEW tier \in [count : Nat, per_secs : 0..Forever]
  PROVE  /\ Sound(Relimit(b, tier))
         /\ Relimit(b, tier).limit.count = Larger(tier.count, 1)
         /\ Relimit(b, tier).limit.per_secs = Larger(tier.per_secs, 1)
         /\ Relimit(b, tier).taken = b.taken /\ Relimit(b, tier).blocked = b.blocked
<1> DEFINE limit == [count |-> IF tier.count = 0 THEN 1 ELSE tier.count,
                     per_secs |-> IF tier.per_secs = 0 THEN 1 ELSE tier.per_secs]
<1>1. Relimit(b, tier) = [limit |-> limit, taken |-> b.taken, blocked |-> b.blocked]
  BY SoundIs DEF Relimit
<1>2. tier.count \in Nat /\ tier.per_secs \in 0..Forever
  OBVIOUS
<1>3. /\ limit \in Tiers
      /\ limit.count = Larger(tier.count, 1) /\ limit.per_secs = Larger(tier.per_secs, 1)
  BY <1>2, ForeverIs DEF Tiers, Larger
<1> HIDE DEF limit
<1>4. QED
  BY <1>1, <1>3, SoundIs, SoundOf

\* A tick makes every take older and a hold shorter.
LEMMA AgeIs ==
  ASSUME NEW b, Sound(b)
  PROVE  /\ Sound(Age(b)) /\ Age(b).limit = b.limit
         /\ Age(b).taken = Older(b.taken) /\ Len(Age(b).taken) = Len(b.taken)
         /\ Age(b).blocked = IF b.blocked = NoHold \/ b.blocked = 0 THEN b.blocked
                             ELSE b.blocked - 1
<1> DEFINE left == IF b.blocked = NoHold \/ b.blocked = 0 THEN b.blocked ELSE b.blocked - 1
<1>1. Age(b) = [limit |-> b.limit, taken |-> Older(b.taken), blocked |-> left]
  <2>1. b = [limit |-> b.limit, taken |-> b.taken, blocked |-> b.blocked]
    BY SoundIs
  <2>2. Age(b) = [b EXCEPT !.taken = Older(b.taken), !.blocked = left]
    BY <2>1 DEF Age
  <2> HIDE DEF left
  <2>3. QED
    BY <2>1, <2>2
<1>2. left \in Nat \cup {NoHold}
  BY SoundIs
<1>3. Older(b.taken) \in Ages /\ Len(Older(b.taken)) = Len(b.taken)
  BY SoundIs, LiveOlder, ForeverIs
<1>4. Sorted(Older(b.taken))
  <2>1. SUFFICES ASSUME NEW m \in DOMAIN b.taken, NEW n \in DOMAIN b.taken, m < n
                 PROVE  Older(b.taken)[m] >= Older(b.taken)[n]
    BY DEF Sorted, Older
  <2>2. b.taken \in Seq(0..Forever) /\ Sorted(b.taken)
    BY SoundIs DEF Ages
  <2>3. \A i \in DOMAIN b.taken : b.taken[i] \in 0..Forever
    <3>1. \A s \in Seq(0..Forever) : \A i \in DOMAIN s : s[i] \in 0..Forever
      BY LenProperties
    <3>2. QED
      BY <2>2, <3>1
  <2>4. b.taken[m] >= b.taken[n]
    BY <2>1, <2>2 DEF Sorted
  <2>5. QED
    BY <2>3, <2>4, ForeverIs DEF Older
<1> HIDE DEF left
<1>5. QED
  BY <1>1, <1>2, <1>3, <1>4, SoundIs, SoundOf DEF left

\* What the client keeps of every budget besides: its tier, and so its memory, is within
\* the widest there is.
Good(b) == Sound(b) /\ b.limit.count <= Widest /\ Len(b.taken) <= Widest

\* The lengths compared are numbers.
LEMMA GoodIs ==
  ASSUME NEW b, Good(b)
  PROVE  /\ Sound(b) /\ b.limit.count \in Nat /\ Len(b.taken) \in Nat /\ BucketOK(b)
         /\ b.limit.count <= Widest
<1>1. b.taken \in Ages /\ b.limit.count \in Nat
  BY SoundIs DEF Good
<1>2. Len(b.taken) \in Nat
  BY <1>1 DEF Ages
<1>3. QED
  BY <1>1, <1>2 DEF Good, BucketOK, Sound, Sorted

\* A new bucket has no takes and no hold.
LEMMA NewIs ==
  ASSUME NEW tier \in Tiers, tier.count <= Widest
  PROVE  /\ Good(NewBucket(tier)) /\ NewBucket(tier).limit = tier
         /\ NewBucket(tier).blocked = NoHold /\ NewBucket(tier).taken = <<>>
<1>1. Sound(NewBucket(tier))
  BY NoneSorted, SoundOf DEF NewBucket
<1>2. QED
  BY <1>1, NoneSorted, WidestIs DEF NewBucket, Good

\* The token Peek found is taken.
LEMMA GoodTake ==
  ASSUME NEW b, Good(b), Peek(b) = 0
  PROVE  Good(Take(b))
<1>1. Sound(Take(b)) /\ Take(b).limit = b.limit /\ Len(Take(b).taken) <= b.limit.count
  BY TakeIs DEF Good
<1>2. Take(b).taken \in Ages /\ b.limit.count \in Nat
  BY <1>1, SoundIs DEF Good
<1>3. Len(Take(b).taken) \in Nat
  BY <1>2 DEF Ages
<1>4. QED
  BY <1>1, <1>2, <1>3, WidestIs DEF Good

\* A budget that is drained.
LEMMA GoodDrain ==
  ASSUME NEW b, Good(b), NEW wait \in Nat
  PROVE  Good(Drain(b, wait))
BY DrainIs DEF Good

\* A tier within the widest is adopted.
LEMMA GoodRelimit ==
  ASSUME NEW b, Good(b), NEW tier \in [count : Nat, per_secs : 0..Forever], tier.count <= Widest
  PROVE  /\ Good(Relimit(b, tier))
         /\ Relimit(b, tier).taken = b.taken /\ Relimit(b, tier).blocked = b.blocked
<1>1. Larger(tier.count, 1) <= Widest
  BY WidestIs DEF Larger
<1>2. QED
  BY <1>1, RelimitIs DEF Good

\* A tick.
LEMMA GoodAge ==
  ASSUME NEW b, Good(b)
  PROVE  Good(Age(b))
BY AgeIs DEF Good

---------------------------------------------------------------------------
(* What an answer does to the budgets (limits.rs, Client::observe_limits). *)

\* An answer's fields.
LEMMA HeaderIs ==
  ASSUME NEW adv \in Headers
  PROVE  /\ adv.tier # NoTier => /\ adv.tier \in [count : Nat, per_secs : 0..Forever]
                                 /\ adv.tier.count <= Widest
         /\ adv.reset \in Nat \cup {NoHold}
BY PacingAssumption, WidestIs DEF Advertised

\* The host's next tier is within the widest too (Advertised::ceiling).
LEMMA CeilingIs ==
  ASSUME NEW adv \in Headers, NEW current \in Tiers, current.count <= Widest
  PROVE  /\ Ceiling(adv, current) \in [count : Nat, per_secs : 0..Forever]
         /\ Ceiling(adv, current).count <= Widest
<1> DEFINE stated == IF adv.tier = NoTier THEN current ELSE adv.tier
           tier == IF TighterThan(HOST_CEILING, stated) THEN HOST_CEILING ELSE stated
           Wide(t) == t \in [count : Nat, per_secs : 0..Forever] /\ t.count <= Widest
<1>1. Tiers \subseteq [count : Nat, per_secs : 0..Forever]
  BY ForeverIs DEF Tiers
<1>2. Wide(stated)
  BY <1>1, HeaderIs
<1>3. Wide(HOST_CEILING)
  BY <1>1, PacingAssumption, WidestIs
<1>4. Wide(tier)
  BY <1>2, <1>3
<1>5. Ceiling(adv, current) = IF adv.budget = "low"
                                THEN [count |-> 1, per_secs |-> Larger(tier.per_secs, 1)]
                                ELSE tier
  BY DEF Ceiling
<1> HIDE DEF tier
<1>6. Wide([count |-> 1, per_secs |-> Larger(tier.per_secs, 1)])
  BY <1>4, ForeverIs, WidestIs DEF Larger
<1>7. QED
  BY <1>4, <1>5, <1>6

\* The hold an answer asks for is a number (Advertised::hold).
LEMMA HoldIs ==
  ASSUME NEW adv \in Headers, NEW tier \in [count : Nat, per_secs : 0..Forever]
  PROVE  Hold(adv, tier) \in Nat
<1>1. adv.reset \in Nat \cup {NoHold} /\ MAX_RETRY_AFTER \in Nat /\ tier.per_secs \in Nat
  BY HeaderIs, PacingAssumption, ForeverIs
<1>2. QED
  BY <1>1 DEF Hold, Smaller, Larger

\* The host ceiling adopts the next tier and is held where the longer budget is spent;
\* otherwise its takes and its hold are left alone.
LEMMA HostObservesIs ==
  ASSUME NEW b, Good(b), NEW adv \in Headers
  PROVE  LET after == HostObserves(b, adv)
             asks == Hold(adv, Ceiling(adv, b.limit))
         IN  /\ Good(after)
             /\ adv.budget # "spent" => after.taken = b.taken /\ after.blocked = b.blocked
             /\ adv.budget = "spent" =>
                  /\ asks \in Nat /\ after.blocked \in Nat /\ after.blocked >= asks
                  /\ b.blocked # NoHold => after.blocked >= b.blocked
<1> DEFINE next == Ceiling(adv, b.limit)
           paced == IF next # b.limit THEN Relimit(b, next) ELSE b
           asks == Hold(adv, next)
<1>1. b.limit \in Tiers /\ b.limit.count <= Widest
  BY SoundIs DEF Good
<1>2. next \in [count : Nat, per_secs : 0..Forever] /\ next.count <= Widest
  BY <1>1, CeilingIs
<1>3. asks \in Nat
  BY <1>2, HoldIs
<1> HIDE DEF next
<1>4. Good(paced) /\ paced.taken = b.taken /\ paced.blocked = b.blocked
  BY <1>2, GoodRelimit
<1>5. HostObserves(b, adv) = IF adv.budget = "spent" THEN Drain(paced, asks) ELSE paced
  BY DEF HostObserves, next
<1> HIDE DEF paced, asks
<1>6. /\ Good(Drain(paced, asks))
      /\ Drain(paced, asks).blocked \in Nat /\ Drain(paced, asks).blocked >= asks
      /\ b.blocked # NoHold => Drain(paced, asks).blocked >= b.blocked
  BY <1>3, <1>4, GoodDrain, GoodIs, DrainIs
<1>7. QED
  BY <1>3, <1>4, <1>5, <1>6 DEF asks, next

\* An operation adopts a tighter tier and nothing else.
LEMMA OpObservesIs ==
  ASSUME NEW b, Good(b), NEW adv \in Headers
  PROVE  /\ Good(OpObserves(b, adv))
         /\ OpObserves(b, adv).taken = b.taken /\ OpObserves(b, adv).blocked = b.blocked
BY HeaderIs, GoodRelimit DEF OpObserves, Tightens

---------------------------------------------------------------------------
(* The types, and what every budget keeps. *)

\* Every budget is good.
BudgetsOK ==
  /\ Good(host) /\ per_op \in [Operations -> Buckets]
  /\ \A o \in Operations : Good(per_op[o])

\* Requests, and the histories.
SlotsOK == slot \in [Slots -> [at : Stages, op : Operations, left : Nat]]
HistoryOK ==
  /\ went \in [Budgets -> Ages] /\ since \in [Budgets -> Ages] /\ held \in [Budgets -> Nat]
  /\ throttles \in 0..MaxThrottles

PacingInv == BudgetsOK /\ SlotsOK /\ HistoryOK

\* It is more than the type invariant says.
LEMMA InvTypes == PacingInv => PacingTypeOK
<1>1. SUFFICES ASSUME PacingInv PROVE PacingTypeOK
  OBVIOUS
<1>2. ASSUME NEW b \in Budgets PROVE BucketOK(BudgetOf(b))
  BY <1>1, <1>2, GoodIs DEF PacingInv, BudgetsOK, Budgets, BudgetOf
<1>3. QED
  BY <1>1, <1>2 DEF PacingInv, SlotsOK, HistoryOK, PacingTypeOK

\* No request is a request.
LEMMA IdleIs == Idle \in [at : Stages, op : Operations, left : Nat]
BY PacingAssumption DEF Idle, Stages

\* The client begins with budgets nothing was taken from.
LEMMA PacingInvInit == PacingInit => PacingInv
<1>1. SUFFICES ASSUME PacingInit PROVE PacingInv
  OBVIOUS
<1>2. Good(host)
  BY <1>1, NewIs, WidestIs, PacingAssumption DEF PacingInit
<1>3. ASSUME NEW o \in Operations PROVE Good(per_op[o]) /\ per_op[o] \in Buckets
  <2>1. Catalog[o] \in Tiers /\ Catalog[o].count <= Widest
    BY WidestIs, PacingAssumption
  <2>2. Good(NewBucket(Catalog[o]))
    BY <2>1, NewIs
  <2>3. QED
    BY <1>1, <2>2 DEF PacingInit, Good, Sound
<1>4. SlotsOK
  BY <1>1, IdleIs DEF PacingInit, SlotsOK
<1>5. HistoryOK
  BY <1>1, NoneSorted, PacingAssumption DEF PacingInit, HistoryOK
<1>6. per_op \in [Operations -> Buckets]
  BY <1>1, <1>3 DEF PacingInit
<1>7. QED
  BY <1>2, <1>3, <1>4, <1>5, <1>6 DEF PacingInv, BudgetsOK

\* A request that goes out spends a token of the host's and one of its operation's.
LEMMA SpentIs ==
  ASSUME NEW history \in [Budgets -> Ages], NEW o \in Operations
  PROVE  /\ Spent(history, o) \in [Budgets -> Ages]
         /\ \A b \in Budgets :
              Spent(history, o)[b] = IF b \in {Host, o} THEN Append(history[b], 0)
                                     ELSE history[b]
<1>1. Host \in Budgets /\ o \in Budgets /\ Host # o
  BY PacingAssumption DEF Budgets
<1>2. \A b \in Budgets :
        Spent(history, o)[b] = IF b \in {Host, o} THEN Append(history[b], 0) ELSE history[b]
  BY <1>1 DEF Spent
<1>3. \A b \in Budgets : Append(history[b], 0) \in Ages
  BY ForeverIs DEF Ages
<1>4. /\ DOMAIN Spent(history, o) = Budgets
      /\ Spent(history, o) = [b \in Budgets |-> Spent(history, o)[b]]
  BY DEF Spent
<1>5. QED
  BY <1>2, <1>3, <1>4

PeriodOf(b) == BudgetOf(b).limit.per_secs

\* A budget's period is a number.
LEMMA PeriodIs ==
  ASSUME PacingInv, NEW b \in Budgets
  PROVE  PeriodOf(b) \in 1..Forever /\ \A c \in 0..PeriodOf(b) : c \in 0..Forever /\ c \in Nat
<1>1. Good(BudgetOf(b))
  BY PacingAssumption DEF PacingInv, BudgetsOK, BudgetOf, Budgets
<1>2. PeriodOf(b) \in 1..Forever
  BY <1>1, GoodIs, SoundIs DEF PeriodOf, Tiers
<1>3. QED
  BY <1>2, ForeverIs

\* What a window answers for after an answer.
LEMMA AnswerableIs ==
  ASSUME PacingInv, NEW drained, Answerable(drained)
  PROVE  /\ since' \in [Budgets -> Ages]
         /\ \A b \in Budgets :
              since'[b] = IF b \in drained THEN <<>>
                          ELSE IF PeriodOf(b)' > PeriodOf(b) THEN Live(since[b], PeriodOf(b))
                          ELSE since[b]
<1>1. ASSUME NEW b \in Budgets
      PROVE  since[b] \in Ages /\ Live(since[b], PeriodOf(b)) \in Ages /\ <<>> \in Ages
  <2>1. PeriodOf(b) \in Nat /\ since[b] \in Ages
    BY PeriodIs, ForeverIs DEF PacingInv, HistoryOK
  <2>2. QED
    BY <2>1, LiveIs, NoneSorted
<1>2. since' = [b \in Budgets |->
                  IF b \in drained THEN <<>>
                  ELSE IF PeriodOf(b)' > PeriodOf(b) THEN Live(since[b], PeriodOf(b))
                  ELSE since[b]]
  BY DEF Answerable, PeriodOf
<1>3. QED
  BY <1>1, <1>2

\* What is asked of a budget is what was asked or, if that is longer, what is.
LEMMA AskedIs ==
  ASSUME held \in [Budgets -> Nat], NEW wait \in [Budgets -> Nat], Asked(wait)
  PROVE  /\ held' \in [Budgets -> Nat]
         /\ \A b \in Budgets : held'[b] = Larger(held[b], wait[b])
BY DEF Asked, Larger

\* A slot that moves stays a request.
LEMMA SlotMoves ==
  ASSUME SlotsOK, NEW s \in Slots, NEW moved \in [at : Stages, op : Operations, left : Nat],
         slot' = [slot EXCEPT ![s] = moved]
  PROVE  SlotsOK'
BY DEF SlotsOK

\* What is waited for a token is a number, and there is none to wait for only where both
\* budgets have one (Client::acquire).
LEMMA WaitIs ==
  ASSUME PacingInv, NEW o \in Operations
  PROVE  /\ Wait(o) \in Nat
         /\ Wait(o) = 0 => Peek(host) = 0 /\ Peek(per_op[o]) = 0
<1>1. Sound(host) /\ Sound(per_op[o])
  BY GoodIs DEF PacingInv, BudgetsOK
<1>2. Peek(host) \in Nat /\ Peek(per_op[o]) \in Nat
  BY <1>1, PeekIs
<1>3. QED
  BY <1>2 DEF Wait, Larger

\* The request of a slot.
LEMMA SlotIs ==
  ASSUME PacingInv, NEW s \in Slots
  PROVE  /\ slot[s] \in [at : Stages, op : Operations, left : Nat]
         /\ slot[s].at \in Stages /\ slot[s].op \in Operations /\ slot[s].left \in Nat
         /\ slot[s] = [at |-> slot[s].at, op |-> slot[s].op, left |-> slot[s].left]
BY DEF PacingInv, SlotsOK

\* Where a slot's step and the rest of its sleep are set.
LEMMA SlotSet ==
  ASSUME PacingInv, NEW s \in Slots, NEW at, NEW left
  PROVE  /\ [slot EXCEPT ![s].at = at, ![s].left = left]
              = [slot EXCEPT ![s] = [at |-> at, op |-> slot[s].op, left |-> left]]
         /\ [slot EXCEPT ![s].at = at]
              = [slot EXCEPT ![s] = [at |-> at, op |-> slot[s].op, left |-> slot[s].left]]
<1> DEFINE r == slot[s]
           one == [slot EXCEPT ![s].at = at]
           two == [slot EXCEPT ![s].at = at, ![s].left = left]
<1>1. /\ slot = [q \in Slots |-> slot[q]] /\ DOMAIN slot = Slots
      /\ r = [at |-> r.at, op |-> r.op, left |-> r.left]
  BY SlotIs DEF PacingInv, SlotsOK
<1>2. [r EXCEPT !.at = at] = [at |-> at, op |-> r.op, left |-> r.left]
  <2> HIDE DEF r
  <2>1. QED
    BY <1>1
<1>3. one = [slot EXCEPT ![s] = [r EXCEPT !.at = at]]
  BY <1>1
<1>4. one[s] = [at |-> at, op |-> r.op, left |-> r.left] /\ DOMAIN one = Slots
  BY <1>1, <1>2, <1>3
<1>5. two = [one EXCEPT ![s] = [one[s] EXCEPT !.left = left]]
  BY <1>1
<1>6. [one[s] EXCEPT !.left = left] = [at |-> at, op |-> r.op, left |-> left]
  <2> HIDE DEF r, one
  <2>1. QED
    BY <1>4
<1>7. two = [slot EXCEPT ![s] = [at |-> at, op |-> r.op, left |-> left]]
  BY <1>1, <1>3, <1>5, <1>6
<1>8. QED
  BY <1>2, <1>3, <1>7

\* A turn of the loop spends both tokens or neither, and keeps the types.
LEMMA AcquireTyped ==
  ASSUME PacingInv, NEW s \in Slots, Acquire(s)
  PROVE  PacingInv'
<1> DEFINE o == slot[s].op
<1>1. o \in Operations
  BY SlotIs
<1>2. CASE Wait(o) = 0
  <2>1. /\ host' = Take(host) /\ per_op' = [per_op EXCEPT ![o] = Take(per_op[o])]
        /\ went' = Spent(went, o) /\ since' = Spent(since, o) /\ UNCHANGED <<held, throttles>>
        /\ slot' = [slot EXCEPT ![s].at = "wire", ![s].left = 0]
    BY <1>2 DEF Acquire
  <2>2. Peek(host) = 0 /\ Peek(per_op[o]) = 0
    BY <1>1, <1>2, WaitIs
  <2>3. Good(Take(host)) /\ Good(Take(per_op[o]))
    BY <1>1, <2>2, GoodTake DEF PacingInv, BudgetsOK
  <2>4. BudgetsOK'
    BY <1>1, <2>1, <2>3 DEF PacingInv, BudgetsOK, Good, Sound
  <2>5. SlotsOK'
    <3>1. slot' = [slot EXCEPT ![s] = [at |-> "wire", op |-> o, left |-> 0]]
      BY <2>1, SlotSet
    <3>2. [at |-> "wire", op |-> o, left |-> 0] \in [at : Stages, op : Operations, left : Nat]
      BY <1>1 DEF Stages
    <3>3. QED
      BY <3>1, <3>2, SlotMoves DEF PacingInv
  <2>6. HistoryOK'
    BY <1>1, <2>1, SpentIs DEF PacingInv, HistoryOK
  <2>7. QED
    BY <2>4, <2>5, <2>6 DEF PacingInv
<1>3. CASE Wait(o) > 0
  <2>1. /\ UNCHANGED <<host, per_op, went, since, held, throttles>>
        /\ slot' = [slot EXCEPT ![s].at = "asleep", ![s].left = Wait(o)]
    BY <1>1, <1>3, WaitIs DEF Acquire
  <2>2. SlotsOK'
    <3>1. slot' = [slot EXCEPT ![s] = [at |-> "asleep", op |-> o, left |-> Wait(o)]]
      BY <2>1, SlotSet
    <3>2. [at |-> "asleep", op |-> o, left |-> Wait(o)]
            \in [at : Stages, op : Operations, left : Nat]
      BY <1>1, WaitIs DEF Stages
    <3>3. QED
      BY <3>1, <3>2, SlotMoves DEF PacingInv
  <2>3. QED
    BY <2>1, <2>2 DEF PacingInv, BudgetsOK, HistoryOK
<1>4. QED
  BY <1>2, <1>3 DEF Acquire

\* The holds an answer counts stay within the bound.
LEMMA ThrottledTyped ==
  ASSUME throttles \in 0..MaxThrottles, NEW n \in Nat, Throttled(n)
  PROVE  throttles' \in 0..MaxThrottles
BY PacingAssumption DEF Throttled

\* What the host ceiling was asked for is a number.
LEMMA HoldAskedIs ==
  ASSUME PacingInv, NEW adv \in Headers
  PROVE  /\ HoldAsked(adv) \in Nat
         /\ HoldAsked(adv) = IF adv.budget = "spent" THEN Hold(adv, Ceiling(adv, host.limit))
                             ELSE 0
<1>1. Good(host)
  BY DEF PacingInv, BudgetsOK
<1>2. adv.budget = "spent" => Hold(adv, Ceiling(adv, host.limit)) \in Nat
  BY <1>1, HostObservesIs
<1>3. QED
  BY <1>2 DEF HoldAsked

\* An answer.
LEMMA AnsweredTyped ==
  ASSUME PacingInv, NEW s \in Slots, Answered(s)
  PROVE  PacingInv'
<1> DEFINE o == slot[s].op
<1>1. o \in Operations
  BY SlotIs
<1>2. PICK adv \in Headers :
        /\ host' = HostObserves(host, adv)
        /\ per_op' = [per_op EXCEPT ![o] = OpObserves(per_op[o], adv)]
        /\ Asked([b \in Budgets |-> IF b = Host THEN HoldAsked(adv) ELSE 0])
        /\ Answerable(IF adv.budget = "spent" THEN {Host} ELSE {})
        /\ Throttled(IF adv.budget = "spent" THEN 1 ELSE 0)
  BY DEF Answered
<1>3. slot' = [slot EXCEPT ![s] = Idle] /\ UNCHANGED went
  BY DEF Answered
<1>4. Good(HostObserves(host, adv)) /\ Good(OpObserves(per_op[o], adv))
  BY <1>1, HostObservesIs, OpObservesIs DEF PacingInv, BudgetsOK
<1>5. BudgetsOK'
  BY <1>1, <1>2, <1>4 DEF PacingInv, BudgetsOK, Good, Sound
<1>6. SlotsOK'
  BY <1>3, IdleIs, SlotMoves DEF PacingInv
<1>7. HistoryOK'
  <2>1. [b \in Budgets |-> IF b = Host THEN HoldAsked(adv) ELSE 0] \in [Budgets -> Nat]
    BY HoldAskedIs
  <2>2. held' \in [Budgets -> Nat]
    BY <1>2, <2>1, AskedIs DEF PacingInv, HistoryOK
  <2>3. throttles' \in 0..MaxThrottles
    BY <1>2, ThrottledTyped DEF PacingInv, HistoryOK
  <2>4. since' \in [Budgets -> Ages]
    BY <1>2, AnswerableIs
  <2>5. QED
    BY <1>3, <2>2, <2>3, <2>4 DEF PacingInv, HistoryOK
<1>8. QED
  BY <1>5, <1>6, <1>7 DEF PacingInv

\* What a 429 asks each budget to hold.
RateAsked(adv, wait, o) ==
  [b \in Budgets |-> IF b = Host THEN Larger(wait, HoldAsked(adv))
                     ELSE IF b = o THEN wait ELSE 0]

\* A 429, unfolded: what it drains, what it asks for, and where its request goes.
LEMMA RateLimitedIs ==
  ASSUME PacingInv, NEW s \in Slots, RateLimited(s)
  PROVE  \E adv \in Headers, wait \in Nat :
           LET o == slot[s].op IN
           /\ \E r \in RetryAfters : wait = Smaller(r, MAX_RETRY_AFTER)
           /\ host' = Drain(HostObserves(host, adv), wait)
           /\ per_op' = [per_op EXCEPT ![o] = Drain(OpObserves(per_op[o], adv), wait)]
           /\ RateAsked(adv, wait, o) \in [Budgets -> Nat] /\ Asked(RateAsked(adv, wait, o))
           /\ \/ slot' = [slot EXCEPT ![s] = Idle]
              \/ slot' = [slot EXCEPT ![s] = [at |-> "pause", op |-> o, left |-> wait]]
           /\ Answerable({Host, o}) /\ Throttled(1) /\ UNCHANGED went
<1> DEFINE o == slot[s].op
<1>1. PICK adv \in Headers, r \in RetryAfters :
        LET wait == Smaller(r, MAX_RETRY_AFTER) IN
        /\ host' = Drain(HostObserves(host, adv), wait)
        /\ per_op' = [per_op EXCEPT ![o] = Drain(OpObserves(per_op[o], adv), wait)]
        /\ Asked(RateAsked(adv, wait, o))
        /\ Answerable({Host, o})
        /\ slot' = [slot EXCEPT ![s] =
                      IF slot[s].at = "again" THEN Idle
                      ELSE [at |-> "pause", op |-> o, left |-> wait]]
  BY DEF RateLimited, RateAsked
<1> DEFINE wait == Smaller(r, MAX_RETRY_AFTER)
<1>2. wait \in Nat
  BY PacingAssumption DEF Smaller
<1>3. RateAsked(adv, wait, o) \in [Budgets -> Nat]
  BY <1>2, HoldAskedIs DEF RateAsked, Larger
<1>4. Throttled(1) /\ UNCHANGED went
  BY DEF RateLimited
<1>5. \/ slot' = [slot EXCEPT ![s] = Idle]
      \/ slot' = [slot EXCEPT ![s] = [at |-> "pause", op |-> o, left |-> wait]]
  BY <1>1
<1>6. QED
  BY <1>1, <1>2, <1>3, <1>4, <1>5

\* A 429.
LEMMA RateLimitedTyped ==
  ASSUME PacingInv, NEW s \in Slots, RateLimited(s)
  PROVE  PacingInv'
<1> DEFINE o == slot[s].op
<1>1. o \in Operations
  BY SlotIs
<1>2. PICK adv \in Headers, wait \in Nat :
        /\ host' = Drain(HostObserves(host, adv), wait)
        /\ per_op' = [per_op EXCEPT ![o] = Drain(OpObserves(per_op[o], adv), wait)]
        /\ RateAsked(adv, wait, o) \in [Budgets -> Nat] /\ Asked(RateAsked(adv, wait, o))
        /\ \/ slot' = [slot EXCEPT ![s] = Idle]
           \/ slot' = [slot EXCEPT ![s] = [at |-> "pause", op |-> o, left |-> wait]]
        /\ Answerable({Host, o}) /\ Throttled(1) /\ UNCHANGED went
  BY RateLimitedIs
<1>3. /\ Good(Drain(HostObserves(host, adv), wait))
      /\ Good(Drain(OpObserves(per_op[o], adv), wait))
  BY <1>1, HostObservesIs, OpObservesIs, GoodDrain DEF PacingInv, BudgetsOK
<1>4. BudgetsOK'
  BY <1>1, <1>2, <1>3 DEF PacingInv, BudgetsOK, Good, Sound
<1>5. SlotsOK'
  <2>1. [at |-> "pause", op |-> o, left |-> wait] \in [at : Stages, op : Operations, left : Nat]
    BY <1>1 DEF Stages
  <2>2. QED
    BY <1>2, <2>1, IdleIs, SlotMoves DEF PacingInv
<1>6. HistoryOK'
  <2>1. held' \in [Budgets -> Nat]
    BY <1>2, AskedIs DEF PacingInv, HistoryOK
  <2>2. throttles' \in 0..MaxThrottles
    BY <1>2, ThrottledTyped DEF PacingInv, HistoryOK
  <2>3. since' \in [Budgets -> Ages]
    BY <1>2, AnswerableIs
  <2>4. QED
    BY <1>2, <2>1, <2>2, <2>3 DEF PacingInv, HistoryOK
<1>7. QED
  BY <1>4, <1>5, <1>6 DEF PacingInv

\* The steps of a slot that touch no budget.
LEMMA QuietTyped ==
  ASSUME PacingInv, NEW s \in Slots, Start(s) \/ Retry(s) \/ Lost(s)
  PROVE  PacingInv'
<1>1. UNCHANGED <<host, per_op, went, since, held, throttles>>
  BY DEF Start, Retry, Lost
<1>2. \E moved \in [at : Stages, op : Operations, left : Nat] :
        slot' = [slot EXCEPT ![s] = moved]
  <2>1. CASE Start(s)
    <3>1. PICK o \in Operations :
            slot' = [slot EXCEPT ![s] = [at |-> "ready", op |-> o, left |-> 0]]
      BY <2>1 DEF Start
    <3>2. [at |-> "ready", op |-> o, left |-> 0] \in [at : Stages, op : Operations, left : Nat]
      BY DEF Stages
    <3>3. QED
      BY <3>1, <3>2
  <2>2. CASE Retry(s)
    <3>1. slot' = [slot EXCEPT ![s] = [at |-> "again", op |-> slot[s].op, left |-> slot[s].left]]
      BY <2>2, SlotSet DEF Retry
    <3>2. [at |-> "again", op |-> slot[s].op, left |-> slot[s].left]
            \in [at : Stages, op : Operations, left : Nat]
      BY SlotIs DEF Stages
    <3>3. QED
      BY <3>1, <3>2
  <2>3. CASE Lost(s)
    BY <2>3, IdleIs DEF Lost
  <2>4. QED
    BY <2>1, <2>2, <2>3
<1>3. SlotsOK'
  BY <1>2, SlotMoves DEF PacingInv
<1>4. QED
  BY <1>1, <1>3 DEF PacingInv, BudgetsOK, HistoryOK

\* A tick.
LEMMA ElapseTyped ==
  ASSUME PacingInv, Elapse
  PROVE  PacingInv'
<1>1. BudgetsOK'
  <2>1. \A o \in Operations : Good(Age(per_op[o])) /\ Age(per_op[o]) \in Buckets
    BY GoodAge DEF PacingInv, BudgetsOK, Good, Sound
  <2>2. Good(Age(host))
    BY GoodAge DEF PacingInv, BudgetsOK
  <2>3. QED
    BY <2>1, <2>2 DEF Elapse, BudgetsOK
<1>2. SlotsOK'
  <2>1. ASSUME NEW s \in Slots
        PROVE  [slot[s] EXCEPT !.left = IF @ = 0 THEN 0 ELSE @ - 1]
                 \in [at : Stages, op : Operations, left : Nat]
    <3>1. slot[s].left \in Nat /\ (slot[s].left # 0 => slot[s].left - 1 \in Nat)
      <4>1. slot[s].left \in Nat
        BY SlotIs
      <4>2. \A n \in Nat : n # 0 => n - 1 \in Nat
        OBVIOUS
      <4>3. QED
        BY <4>1, <4>2
    <3>2. SUFFICES ASSUME NEW r \in [at : Stages, op : Operations, left : Nat], NEW n \in Nat
                   PROVE  [r EXCEPT !.left = n] \in [at : Stages, op : Operations, left : Nat]
      BY <3>1, SlotIs
    <3>3. QED
      OBVIOUS
  <2>2. QED
    BY <2>1 DEF Elapse, SlotsOK
<1>3. HistoryOK'
  <2>1. ASSUME NEW ages \in Ages PROVE Live(Older(ages), Forever) \in Ages
    <3>1. Forever \in 1..Forever /\ Forever \in Nat
      BY ForeverIs
    <3>2. Older(ages) \in Ages
      BY <3>1, LiveOlder
    <3>3. QED
      BY <3>1, <3>2, LiveIs
  <2>2. \A b \in Budgets : went[b] \in Ages /\ since[b] \in Ages /\ held[b] \in Nat
    BY DEF PacingInv, HistoryOK
  <2>3. \A b \in Budgets : (IF held[b] = 0 THEN 0 ELSE held[b] - 1) \in Nat
    BY <2>2
  <2>4. /\ went' \in [Budgets -> Ages] /\ since' \in [Budgets -> Ages]
        /\ held' \in [Budgets -> Nat] /\ throttles' = throttles
    BY <2>1, <2>2, <2>3 DEF Elapse
  <2>5. QED
    BY <2>4 DEF PacingInv, HistoryOK
<1>4. QED
  BY <1>1, <1>2, <1>3 DEF PacingInv

\* Every step of the client keeps it.
LEMMA PacingInvStep == PacingInv /\ [PacingNext]_pacing_vars => PacingInv'
<1>1. SUFFICES ASSUME PacingInv, [PacingNext]_pacing_vars PROVE PacingInv'
  OBVIOUS
<1>2. ASSUME NEW s \in Slots, Start(s) \/ Retry(s) \/ Lost(s) PROVE PacingInv'
  BY <1>1, <1>2, QuietTyped
<1>3. ASSUME NEW s \in Slots, Acquire(s) PROVE PacingInv'
  BY <1>1, <1>3, AcquireTyped
<1>4. ASSUME NEW s \in Slots, Answered(s) PROVE PacingInv'
  BY <1>1, <1>4, AnsweredTyped
<1>5. ASSUME NEW s \in Slots, RateLimited(s) PROVE PacingInv'
  BY <1>1, <1>5, RateLimitedTyped
<1>6. CASE Elapse
  BY <1>1, <1>6, ElapseTyped
<1>7. CASE UNCHANGED pacing_vars
  BY <1>1, <1>7 DEF pacing_vars, PacingInv, BudgetsOK, SlotsOK, HistoryOK
<1>8. QED
  BY <1>1, <1>2, <1>3, <1>4, <1>5, <1>6, <1>7 DEF PacingNext

\* In every behaviour.
LEMMA PacingInvAlways == PacingSpec => []PacingInv
<1>1. QED
  BY PacingInvInit, PacingInvStep, PTL DEF PacingSpec

\* The budgets remember their takes in order and no more of them than the widest tier of
\* all allows, whatever answers advertise and however they interleave (Bucket.taken:
\* "sorted", "at most limit.count entries survive a prune").
THEOREM PacedTypes == PacingSpec => []PacingTypeOK
<1>1. QED
  BY PacingInvAlways, InvTypes, PTL

---------------------------------------------------------------------------
(* What a step does to one budget. *)

\* Its takes and its hold are as they were, and its histories but for what a window that
\* grows longer no longer answers for; its tier may not be.
LeftAlone(b) ==
  /\ BudgetOf(b)'.taken = BudgetOf(b).taken /\ BudgetOf(b)'.blocked = BudgetOf(b).blocked
  /\ went'[b] = went[b] /\ held'[b] = held[b]
  /\ since'[b] = IF PeriodOf(b)' > PeriodOf(b) THEN Live(since[b], PeriodOf(b)) ELSE since[b]

\* A token of it goes out.
TokenTaken(b) ==
  /\ Peek(BudgetOf(b)) = 0 /\ BudgetOf(b)' = Take(BudgetOf(b))
  /\ went'[b] = Append(went[b], 0) /\ since'[b] = Append(since[b], 0) /\ held'[b] = held[b]

\* The waits a far end asks a budget for now: of a 429, or of an answer on the host ceiling.
AsksFor(b, n) ==
  \/ \E r \in RetryAfters : n = Smaller(r, MAX_RETRY_AFTER)
  \/ /\ b = Host
     /\ \E adv \in Headers : adv.budget = "spent" /\ n = Hold(adv, Ceiling(adv, host.limit))

\* It is asked to hold, and holds that long or longer.
MadeToHold(b, n) ==
  /\ AsksFor(b, n) /\ BudgetOf(b)'.blocked \in Nat /\ BudgetOf(b)'.blocked >= n
  /\ BudgetOf(b).blocked # NoHold => BudgetOf(b)'.blocked >= BudgetOf(b).blocked
  /\ went'[b] = went[b] /\ since'[b] = <<>> /\ held'[b] = Larger(held[b], n)

\* A tick passes.
GrownOlder(b) ==
  /\ BudgetOf(b)' = Age(BudgetOf(b))
  /\ went'[b] = Live(Older(went[b]), Forever) /\ since'[b] = Live(Older(since[b]), Forever)
  /\ held'[b] = IF held[b] = 0 THEN 0 ELSE held[b] - 1

BudgetStep(b) ==
  LeftAlone(b) \/ TokenTaken(b) \/ (\E n \in Nat : MadeToHold(b, n)) \/ GrownOlder(b)

\* Every budget is the host's or an operation's.
LEMMA BudgetIs ==
  ASSUME PacingInv, NEW b \in Budgets
  PROVE  /\ Good(BudgetOf(b)) /\ went[b] \in Ages /\ since[b] \in Ages /\ held[b] \in Nat
         /\ b = Host \/ (b \in Operations /\ b # Host)
BY PacingAssumption DEF PacingInv, BudgetsOK, HistoryOK, BudgetOf, Budgets

\* A budget nothing happens to is left alone.
LEMMA Untouched ==
  ASSUME PacingInv, NEW b \in Budgets, BudgetOf(b)' = BudgetOf(b),
         went'[b] = went[b], since'[b] = since[b], held'[b] = held[b]
  PROVE  LeftAlone(b)
<1>1. PeriodOf(b) \in Nat /\ PeriodOf(b)' = PeriodOf(b)
  BY PeriodIs, ForeverIs DEF PeriodOf
<1>2. QED
  BY <1>1 DEF LeftAlone

\* A turn of the loop takes a token of two budgets, or of none.
LEMMA AcquireSteps ==
  ASSUME PacingInv, NEW s \in Slots, Acquire(s), NEW b \in Budgets
  PROVE  BudgetStep(b)
<1> DEFINE o == slot[s].op
<1>1. o \in Operations /\ o # Host
  BY SlotIs, PacingAssumption
<1>2. CASE Wait(o) = 0
  <2>1. /\ host' = Take(host) /\ per_op' = [per_op EXCEPT ![o] = Take(per_op[o])]
        /\ went' = Spent(went, o) /\ since' = Spent(since, o) /\ UNCHANGED held
    BY <1>2 DEF Acquire
  <2>2. Peek(host) = 0 /\ Peek(per_op[o]) = 0
    BY <1>1, <1>2, WaitIs
  <2>3. /\ went'[b] = IF b \in {Host, o} THEN Append(went[b], 0) ELSE went[b]
        /\ since'[b] = IF b \in {Host, o} THEN Append(since[b], 0) ELSE since[b]
    BY <1>1, <2>1, SpentIs DEF PacingInv, HistoryOK
  <2>4. CASE b = Host
    BY <2>1, <2>2, <2>3, <2>4 DEF BudgetStep, TokenTaken, BudgetOf
  <2>5. CASE b = o
    BY <1>1, <2>1, <2>2, <2>3, <2>5 DEF BudgetStep, TokenTaken, BudgetOf, PacingInv, BudgetsOK
  <2>6. CASE b # Host /\ b # o
    BY <1>1, <2>1, <2>3, <2>6, BudgetIs, Untouched
       DEF BudgetStep, BudgetOf, PacingInv, BudgetsOK
  <2>7. QED
    BY <2>4, <2>5, <2>6
<1>3. CASE Wait(o) > 0
  <2>1. UNCHANGED <<host, per_op, went, since, held>>
    BY <1>1, <1>3, WaitIs DEF Acquire
  <2>2. QED
    BY <2>1, Untouched DEF BudgetStep, BudgetOf
<1>4. QED
  BY <1>2, <1>3 DEF Acquire

\* An answer may make the host's hold, and no other.
LEMMA AnsweredSteps ==
  ASSUME PacingInv, NEW s \in Slots, Answered(s), NEW b \in Budgets
  PROVE  BudgetStep(b)
<1> DEFINE o == slot[s].op
<1>1. o \in Operations /\ o # Host
  BY SlotIs, PacingAssumption
<1>2. PICK adv \in Headers :
        /\ host' = HostObserves(host, adv)
        /\ per_op' = [per_op EXCEPT ![o] = OpObserves(per_op[o], adv)]
        /\ Asked([q \in Budgets |-> IF q = Host THEN HoldAsked(adv) ELSE 0])
        /\ Answerable(IF adv.budget = "spent" THEN {Host} ELSE {})
  BY DEF Answered
<1>3. UNCHANGED went
  BY DEF Answered
<1>4. held'[b] = Larger(held[b], IF b = Host THEN HoldAsked(adv) ELSE 0) /\ held[b] \in Nat
  <2>1. [q \in Budgets |-> IF q = Host THEN HoldAsked(adv) ELSE 0] \in [Budgets -> Nat]
    BY HoldAskedIs
  <2>2. QED
    BY <1>2, <2>1, AskedIs DEF PacingInv, HistoryOK
<1>5. /\ Larger(held[b], 0) = held[b]
      /\ since'[b] = IF b = Host /\ adv.budget = "spent" THEN <<>>
                     ELSE IF PeriodOf(b)' > PeriodOf(b) THEN Live(since[b], PeriodOf(b))
                     ELSE since[b]
  BY <1>2, <1>4, AnswerableIs DEF Larger
<1>6. CASE b = Host /\ adv.budget = "spent"
  <2>1. HoldAsked(adv) \in Nat /\ AsksFor(b, HoldAsked(adv))
    BY <1>6, HoldAskedIs DEF AsksFor
  <2>2. MadeToHold(b, HoldAsked(adv))
    BY <1>2, <1>3, <1>4, <1>5, <1>6, <2>1, HostObservesIs, HoldAskedIs
       DEF MadeToHold, BudgetOf, PacingInv, BudgetsOK
  <2>3. QED
    BY <2>1, <2>2 DEF BudgetStep
<1>7. CASE b = Host /\ adv.budget # "spent"
  BY <1>2, <1>3, <1>4, <1>5, <1>7, HostObservesIs, HoldAskedIs
     DEF BudgetStep, LeftAlone, BudgetOf, PacingInv, BudgetsOK
<1>8. CASE b # Host
  <2>1. b \in Operations /\ BudgetOf(b) = per_op[b] /\ BudgetOf(b)' = per_op'[b]
    BY <1>8, BudgetIs DEF BudgetOf
  <2>2. per_op'[b] = IF b = o THEN OpObserves(per_op[b], adv) ELSE per_op[b]
    BY <1>1, <1>2, <2>1 DEF PacingInv, BudgetsOK
  <2>3. per_op'[b].taken = per_op[b].taken /\ per_op'[b].blocked = per_op[b].blocked
    BY <2>1, <2>2, OpObservesIs DEF PacingInv, BudgetsOK
  <2>4. QED
    BY <1>3, <1>4, <1>5, <1>8, <2>1, <2>3 DEF BudgetStep, LeftAlone
<1>9. QED
  BY <1>6, <1>7, <1>8

\* A 429 makes the host's and its operation's hold.
LEMMA RateLimitedSteps ==
  ASSUME PacingInv, NEW s \in Slots, RateLimited(s), NEW b \in Budgets
  PROVE  BudgetStep(b)
<1> DEFINE o == slot[s].op
<1>1. o \in Operations /\ o # Host
  BY SlotIs, PacingAssumption
<1>2. PICK adv \in Headers, wait \in Nat :
        /\ \E r \in RetryAfters : wait = Smaller(r, MAX_RETRY_AFTER)
        /\ host' = Drain(HostObserves(host, adv), wait)
        /\ per_op' = [per_op EXCEPT ![o] = Drain(OpObserves(per_op[o], adv), wait)]
        /\ RateAsked(adv, wait, o) \in [Budgets -> Nat] /\ Asked(RateAsked(adv, wait, o))
        /\ Answerable({Host, o}) /\ UNCHANGED went
  BY RateLimitedIs
<1>3. /\ held'[b] = Larger(held[b], IF b = Host THEN Larger(wait, HoldAsked(adv))
                                    ELSE IF b = o THEN wait ELSE 0)
      /\ held[b] \in Nat
      /\ since'[b] = IF b \in {Host, o} THEN <<>>
                     ELSE IF PeriodOf(b)' > PeriodOf(b) THEN Live(since[b], PeriodOf(b))
                     ELSE since[b]
  BY <1>2, AskedIs, AnswerableIs DEF PacingInv, HistoryOK, RateAsked
<1>4. AsksFor(b, wait)
  BY <1>2 DEF AsksFor
<1>5. CASE b = Host
  <2> DEFINE seen == HostObserves(host, adv)
             ask == HoldAsked(adv)
  <2>1. /\ Good(host) /\ Good(seen) /\ host.blocked \in Nat \cup {NoHold}
        /\ seen.blocked \in Nat \cup {NoHold} /\ ask \in Nat
    BY HostObservesIs, HoldAskedIs, GoodIs, SoundIs DEF PacingInv, BudgetsOK
  <2>2. /\ Drain(seen, wait).blocked \in Nat /\ Drain(seen, wait).blocked >= wait
        /\ seen.blocked # NoHold => Drain(seen, wait).blocked >= seen.blocked
    BY <2>1, GoodIs, DrainIs
  <2>3. host.blocked # NoHold => seen.blocked \in Nat /\ seen.blocked >= host.blocked
    BY <2>1, HostObservesIs, ForeverIs
  <2>4. ask # 0 => AsksFor(b, ask) /\ seen.blocked \in Nat /\ seen.blocked >= ask
    BY <1>5, <2>1, HostObservesIs, HoldAskedIs DEF AsksFor
  <2>5. BudgetOf(b) = host /\ BudgetOf(b)' = Drain(seen, wait)
    BY <1>2, <1>5 DEF BudgetOf
  <2> HIDE DEF seen, ask
  <2>6. /\ Larger(wait, ask) \in Nat /\ AsksFor(b, Larger(wait, ask))
        /\ Drain(seen, wait).blocked >= Larger(wait, ask)
    BY <1>4, <2>1, <2>2, <2>4, ForeverIs DEF Larger
  <2>7. host.blocked # NoHold => Drain(seen, wait).blocked >= host.blocked
    BY <2>1, <2>2, <2>3, ForeverIs
  <2>8. MadeToHold(b, Larger(wait, ask))
    BY <1>2, <1>3, <1>5, <2>2, <2>5, <2>6, <2>7 DEF MadeToHold, ask
  <2>9. QED
    BY <2>6, <2>8 DEF BudgetStep
<1>6. CASE b = o
  <2>1. Good(OpObserves(per_op[o], adv)) /\ OpObserves(per_op[o], adv).blocked = per_op[o].blocked
    BY <1>1, OpObservesIs DEF PacingInv, BudgetsOK
  <2>2. BudgetOf(b) = per_op[o] /\ BudgetOf(b)' = Drain(OpObserves(per_op[o], adv), wait)
    BY <1>1, <1>2, <1>6 DEF BudgetOf, PacingInv, BudgetsOK
  <2>3. MadeToHold(b, wait)
    BY <1>1, <1>2, <1>3, <1>4, <1>6, <2>1, <2>2, DrainIs, GoodIs DEF MadeToHold
  <2>4. QED
    BY <2>3 DEF BudgetStep
<1>7. CASE b # Host /\ b # o
  <2>1. b \in Operations /\ per_op'[b] = per_op[b]
    BY <1>1, <1>2, <1>7, BudgetIs DEF PacingInv, BudgetsOK
  <2>2. Larger(held[b], 0) = held[b]
    BY <1>3 DEF Larger
  <2>3. QED
    BY <1>2, <1>3, <1>7, <2>1, <2>2 DEF BudgetStep, LeftAlone, BudgetOf
<1>8. QED
  BY <1>5, <1>6, <1>7

\* What every step does to every budget.
LEMMA StepsOfBudgets ==
  ASSUME PacingInv, [PacingNext]_pacing_vars, NEW b \in Budgets
  PROVE  BudgetStep(b)
<1>1. ASSUME NEW s \in Slots, Start(s) \/ Retry(s) \/ Lost(s) PROVE BudgetStep(b)
  <2>1. UNCHANGED <<host, per_op, went, since, held>>
    BY <1>1 DEF Start, Retry, Lost
  <2>2. QED
    BY <2>1, Untouched DEF BudgetStep, BudgetOf
<1>2. CASE Elapse
  BY <1>2, BudgetIs DEF Elapse, BudgetStep, GrownOlder, BudgetOf
<1>3. CASE UNCHANGED pacing_vars
  BY <1>3, Untouched DEF pacing_vars, BudgetStep, BudgetOf
<1>4. QED
  BY <1>1, <1>2, <1>3, AcquireSteps, AnsweredSteps, RateLimitedSteps DEF PacingNext

\* Only a token taken makes the history of a budget longer.
LEMMA GrowsByToken ==
  ASSUME PacingInv, [PacingNext]_pacing_vars, NEW b \in Budgets, Len(went'[b]) > Len(went[b])
  PROVE  TokenTaken(b)
<1>1. went[b] \in Ages
  BY BudgetIs
<1>2. Len(went[b]) \in Nat
  BY <1>1 DEF Ages
<1>3. ASSUME GrownOlder(b) PROVE Len(went'[b]) <= Len(went[b])
  <2>1. Older(went[b]) \in Ages /\ Len(Older(went[b])) = Len(went[b])
    <3>1. 1 \in 1..Forever
      BY ForeverIs
    <3>2. QED
      BY <1>1, <3>1, LiveOlder
  <2>2. Len(Live(Older(went[b]), Forever)) <= Len(Older(went[b]))
    BY <1>2, <2>1, LiveIs, ForeverIs
  <2>3. QED
    BY <1>3, <2>1, <2>2 DEF GrownOlder
<1>4. QED
  BY <1>2, <1>3, StepsOfBudgets DEF BudgetStep, LeftAlone, MadeToHold, GrownOlder

---------------------------------------------------------------------------
(* Holds. *)

\* A budget that was asked to hold is blocked at least as long.
HoldInv ==
  \A b \in Budgets : held[b] > 0 => BudgetOf(b).blocked # NoHold /\ BudgetOf(b).blocked >= held[b]

\* Nothing was asked before the first answer.
LEMMA HoldInvInit == PacingInit => HoldInv
BY DEF PacingInit, HoldInv

\* A token goes out only where no hold is left.
LEMMA HoldOver ==
  ASSUME PacingInv, HoldInv, NEW b \in Budgets, TokenTaken(b)
  PROVE  held[b] = 0
<1>1. Sound(BudgetOf(b)) /\ held[b] \in Nat
  BY BudgetIs, GoodIs
<1>2. BudgetOf(b).blocked = NoHold \/ BudgetOf(b).blocked = 0
  BY <1>1, PeekIs DEF TokenTaken
<1>3. QED
  BY <1>1, <1>2 DEF HoldInv

\* Every step keeps a budget blocked as long as it was asked.
LEMMA HoldInvStep == PacingInv /\ HoldInv /\ [PacingNext]_pacing_vars => HoldInv'
<1>1. SUFFICES ASSUME PacingInv, HoldInv, [PacingNext]_pacing_vars, NEW b \in Budgets, held'[b] > 0
               PROVE  BudgetOf(b)'.blocked # NoHold /\ BudgetOf(b)'.blocked >= held'[b]
  BY DEF HoldInv
<1>2. /\ Sound(BudgetOf(b)) /\ held[b] \in Nat /\ BudgetOf(b).blocked \in Nat \cup {NoHold}
      /\ held[b] > 0 => BudgetOf(b).blocked # NoHold /\ BudgetOf(b).blocked >= held[b]
  BY <1>1, BudgetIs, GoodIs, SoundIs DEF HoldInv
<1>3. CASE LeftAlone(b)
  BY <1>1, <1>2, <1>3 DEF LeftAlone
<1>4. CASE TokenTaken(b)
  BY <1>1, <1>4, HoldOver DEF TokenTaken
<1>5. ASSUME NEW n \in Nat, MadeToHold(b, n)
      PROVE  BudgetOf(b)'.blocked # NoHold /\ BudgetOf(b)'.blocked >= held'[b]
  BY <1>2, <1>5, ForeverIs DEF MadeToHold, Larger
<1>6. CASE GrownOlder(b)
  <2>1. BudgetOf(b)'.blocked = IF BudgetOf(b).blocked = NoHold \/ BudgetOf(b).blocked = 0
                                 THEN BudgetOf(b).blocked ELSE BudgetOf(b).blocked - 1
    BY <1>2, <1>6, AgeIs DEF GrownOlder
  <2>2. held[b] > 0 /\ held'[b] = held[b] - 1
    BY <1>1, <1>2, <1>6 DEF GrownOlder
  <2>3. QED
    BY <1>2, <2>1, <2>2, ForeverIs
<1>7. QED
  BY <1>1, <1>3, <1>4, <1>5, <1>6, StepsOfBudgets DEF BudgetStep

\* While the far end has asked a budget to hold, no request of its goes out, however many
\* answers asked, in whatever order, and whatever tiers they stated (Bucket::drain: "the
\* later deadline wins").
THEOREM HoldsHonoured == PacingSpec => HoldHonoured
<1>1. PacingInit => HoldInv
  BY HoldInvInit
<1>2. PacingInv /\ HoldInv /\ [PacingNext]_pacing_vars =>
        [\A b \in Budgets : Len(went'[b]) > Len(went[b]) => held[b] = 0]_pacing_vars
  BY GrowsByToken, HoldOver
<1>3. QED
  BY <1>1, <1>2, PacingInvAlways, HoldInvStep, PTL DEF PacingSpec, HoldHonoured

---------------------------------------------------------------------------
(* Tokens: what the host let out is what its operations let out. *)

\* How many requests of each operation went out in the last c ticks.
Out(c) == [o \in Operations |-> Len(Live(went[o], c))]

\* NoTokenBurnt, of every span: the sums of Out over the operations, and what the
\* histories hold is younger than Forever.
TokenInv ==
  /\ \A c \in 0..Forever :
       \A h : IsSum(h, Out(c), Operations) => h[Operations] = Len(Live(went[Host], c))
  /\ \A b \in Budgets : Len(Live(went[b], Forever)) = Len(went[b])

\* The histories' lengths are numbers.
LEMMA OutIs ==
  ASSUME PacingInv, NEW c \in Nat
  PROVE  Out(c) \in [Operations -> Nat]
<1>1. ASSUME NEW o \in Operations PROVE Len(Live(went[o], c)) \in Nat
  <2>1. went[o] \in Ages
    BY BudgetIs DEF Budgets
  <2>2. Live(went[o], c) \in Ages
    BY <2>1, LiveIs
  <2>3. QED
    BY <2>2 DEF Ages
<1>2. QED
  BY <1>1 DEF Out

\* The sum NoTokenBurnt computes is one of these.
LEMMA FoldIsSum ==
  ASSUME PacingInv, NEW f \in [Operations -> Nat], \A o \in Operations : f[o] = Len(went[o])
  PROVE  \E h : /\ IsSum(h, f, Operations)
                /\ MapThenSumSet(LAMBDA o : Len(went[o]), Operations) = h[Operations]
<1> DEFINE it == CHOOSE h : h = [s \in SUBSET Operations |->
                   IF s = {} THEN 0 ELSE Len(went[Pick(s)]) + h[s \ {Pick(s)}]]
<1>1. PICK h : IsSum(h, f, Operations)
  BY SumExists, PacingAssumption
<1>2. \A s \in SUBSET Operations : s # {} => Pick(s) \in Operations
  BY DEF Pick
<1>3. ASSUME NEW k
      PROVE  [s \in SUBSET Operations |->
                IF s = {} THEN 0 ELSE Len(went[Pick(s)]) + k[s \ {Pick(s)}]]
             = [s \in SUBSET Operations |-> IF s = {} THEN 0 ELSE f[Pick(s)] + k[s \ {Pick(s)}]]
  BY <1>2
<1>4. h = [s \in SUBSET Operations |->
             IF s = {} THEN 0 ELSE Len(went[Pick(s)]) + h[s \ {Pick(s)}]]
  BY <1>1, <1>3 DEF IsSum
<1>5. it = [s \in SUBSET Operations |->
              IF s = {} THEN 0 ELSE Len(went[Pick(s)]) + it[s \ {Pick(s)}]]
  BY <1>4
<1>6. MapThenSumSet(LAMBDA o : Len(went[o]), Operations) = it[Operations]
  BY DEF MapThenSumSet, MapThenFoldSet, Pick
<1> HIDE DEF it
<1>7. IsSum(it, f, Operations)
  BY <1>3, <1>5 DEF IsSum
<1>8. QED
  BY <1>6, <1>7

\* The whole history is what NoTokenBurnt sums.
LEMMA TokenInvBurnt == PacingInv /\ TokenInv => NoTokenBurnt
<1>1. SUFFICES ASSUME PacingInv, TokenInv PROVE NoTokenBurnt
  OBVIOUS
<1>2. Out(Forever) \in [Operations -> Nat]
  BY <1>1, OutIs, ForeverIs
<1>3. \A o \in Operations : Out(Forever)[o] = Len(went[o])
  BY <1>1 DEF Out, TokenInv, Budgets
<1>4. PICK h : /\ IsSum(h, Out(Forever), Operations)
               /\ MapThenSumSet(LAMBDA o : Len(went[o]), Operations) = h[Operations]
  BY <1>1, <1>2, <1>3, FoldIsSum
<1>5. h[Operations] = Len(went[Host])
  <2>1. Forever \in 0..Forever /\ Host \in Budgets
    BY ForeverIs DEF Budgets
  <2>2. h[Operations] = Len(Live(went[Host], Forever))
    BY <1>1, <1>4, <2>1 DEF TokenInv
  <2>3. QED
    BY <1>1, <2>1, <2>2 DEF TokenInv
<1>6. QED
  BY <1>4, <1>5 DEF NoTokenBurnt

\* A sum of nothing.
LEMMA SumNothing ==
  ASSUME NEW f \in [Operations -> Nat], \A o \in Operations : f[o] = 0,
         NEW h, IsSum(h, f, Operations)
  PROVE  h[Operations] = 0
<1> DEFINE Q == {s \in SUBSET Operations : h[s] # 0}
<1>1. SUFFICES ASSUME Q # {} PROVE FALSE
  OBVIOUS
<1>2. PICK s \in Q : \A x \in s : s \ {x} \notin Q
  <2>1. Q \in SUBSET (SUBSET Operations)
    OBVIOUS
  <2> HIDE DEF Q
  <2>2. QED
    BY <1>1, <2>1, Smallest, PacingAssumption
<1>3. \A t \in SUBSET Operations : h[t] = IF t = {} THEN 0 ELSE f[Pick(t)] + h[t \ {Pick(t)}]
  <2>1. h = [t \in SUBSET Operations |-> IF t = {} THEN 0 ELSE f[Pick(t)] + h[t \ {Pick(t)}]]
    BY DEF IsSum
  <2>2. TAKE t \in SUBSET Operations
  <2>3. QED
    BY <2>1
<1>4. s # {}
  BY <1>2, <1>3
<1>5. Pick(s) \in s /\ h[s \ {Pick(s)}] = 0
  BY <1>2, <1>4 DEF Pick
<1>6. h[s] = 0
  BY <1>2, <1>3, <1>4, <1>5
<1>7. QED
  BY <1>2, <1>6

\* Nothing went out before the first request.
LEMMA TokenInvInit == PacingInit => TokenInv
<1>1. SUFFICES ASSUME PacingInit PROVE TokenInv
  OBVIOUS
<1>2. PacingInv
  BY <1>1, PacingInvInit
<1>3. \A b \in Budgets : went[b] = <<>>
  BY <1>1 DEF PacingInit
<1>4. \A c \in Nat : Len(Live(<<>>, c)) = 0
  BY LiveIs, NoneSorted
<1>5. ASSUME NEW c \in 0..Forever, NEW h, IsSum(h, Out(c), Operations)
      PROVE  h[Operations] = 0
  <2>1. c \in Nat
    BY ForeverIs
  <2>2. Out(c) \in [Operations -> Nat]
    BY <1>2, <2>1, OutIs
  <2>3. \A o \in Operations : Out(c)[o] = 0
    BY <1>3, <1>4, <2>1 DEF Out, Budgets
  <2>4. QED
    BY <1>5, <2>2, <2>3, SumNothing
<1>6. Host \in Budgets /\ \A c \in 0..Forever : c \in Nat
  BY ForeverIs DEF Budgets
<1>7. QED
  BY <1>3, <1>4, <1>5, <1>6, NoneSorted, ForeverIs DEF TokenInv

\* The same requests went out: the sums are the same.
LEMMA SumsAlike ==
  ASSUME PacingInv, NEW f \in [Operations -> Nat], NEW g \in [Operations -> Nat], f = g,
         NEW h, NEW k, IsSum(h, f, Operations), IsSum(k, g, Operations)
  PROVE  k[Operations] = h[Operations]
<1>1. PICK o \in Operations : TRUE
  BY PacingAssumption
<1>2. g[o] = f[o] + 0
  OBVIOUS
<1>3. h[Operations] \in Nat /\ k[Operations] = h[Operations] + 0
  BY <1>2, SumBump, PacingAssumption
<1>4. QED
  BY <1>3

\* What went out a tick later, in a span a tick longer.
LEMMA OutOlder ==
  ASSUME PacingInv, Elapse, NEW b \in Budgets, NEW c \in 0..Forever
  PROVE  Len(Live(went'[b], c)) = IF c = 0 THEN 0 ELSE Len(Live(went[b], c - 1))
<1>1. went'[b] = Live(Older(went[b]), Forever) /\ went[b] \in Ages
  BY BudgetIs DEF Elapse
<1>2. 1 \in 1..Forever
  BY ForeverIs
<1>3. Older(went[b]) \in Ages
  BY <1>1, <1>2, LiveOlder
<1>4. Len(Live(went'[b], c)) = Len(Live(Older(went[b]), c))
  BY <1>1, <1>3, LiveOfLive, ForeverIs
<1>5. CASE c = 0
  BY <1>3, <1>4, <1>5, LiveNone
<1>6. CASE c # 0
  <2>1. c \in 1..Forever
    BY <1>6
  <2>2. QED
    BY <1>1, <1>4, <1>6, <2>1, LiveOlder
<1>7. QED
  BY <1>5, <1>6

\* And nothing that is remembered is as old as Forever.
LEMMA WentYoung ==
  ASSUME PacingInv, TokenInv, [PacingNext]_pacing_vars, NEW b \in Budgets
  PROVE  Len(Live(went'[b], Forever)) = Len(went'[b])
<1>1. went[b] \in Ages /\ Len(Live(went[b], Forever)) = Len(went[b])
  BY BudgetIs DEF TokenInv
<1>2. 1 \in 1..Forever /\ Forever \in 1..Forever /\ Forever \in 0..Forever
  BY ForeverIs
<1>3. CASE went'[b] = went[b]
  BY <1>1, <1>3
<1>4. CASE went'[b] = Append(went[b], 0)
  <2>1. Len(Append(went[b], 0)) = Len(went[b]) + 1
    BY <1>1 DEF Ages
  <2>2. QED
    BY <1>1, <1>2, <1>4, <2>1, LiveAppend
<1>5. CASE went'[b] = Live(Older(went[b]), Forever)
  <2>1. Older(went[b]) \in Ages
    BY <1>1, <1>2, LiveOlder
  <2>2. QED
    BY <1>2, <1>5, <2>1, LiveOfLive, ForeverIs
<1>6. QED
  BY <1>3, <1>4, <1>5, StepsOfBudgets
     DEF BudgetStep, LeftAlone, TokenTaken, MadeToHold, GrownOlder

\* A request that goes out counts once for the host and once for its operation, in every
\* span.
LEMMA OutBumps ==
  ASSUME PacingInv, NEW o \in Operations, went' = Spent(went, o), NEW c \in 0..Forever
  PROVE  LET up == IF c = 0 THEN 0 ELSE 1
         IN  /\ Len(Live(went'[Host], c)) = Len(Live(went[Host], c)) + up
             /\ Out(c)'[o] = Out(c)[o] + up
             /\ \A x \in Operations \ {o} : Out(c)'[x] = Out(c)[x]
<1> DEFINE up == IF c = 0 THEN 0 ELSE 1
<1>1. \A b \in Budgets :
        /\ went[b] \in Ages
        /\ went'[b] = IF b \in {Host, o} THEN Append(went[b], 0) ELSE went[b]
  BY SpentIs, BudgetIs DEF PacingInv, HistoryOK
<1>2. ASSUME NEW b \in {Host, o} PROVE Len(Live(went'[b], c)) = Len(Live(went[b], c)) + up
  <2>1. b \in Budgets
    BY DEF Budgets
  <2>2. went'[b] = Append(went[b], 0) /\ went[b] \in Ages
    BY <1>1, <2>1
  <2>3. CASE c = 0
    <3>1. 1 \in 1..Forever
      BY ForeverIs
    <3>2. Append(went[b], 0) \in Ages
      BY <2>2, <3>1, LiveAppend
    <3>3. QED
      BY <2>2, <2>3, <3>2, LiveNone
  <2>4. CASE c # 0
    <3>1. c \in 1..Forever
      BY <2>4
    <3>2. QED
      BY <2>2, <2>4, <3>1, LiveAppend
  <2>5. QED
    BY <2>3, <2>4
<1>3. ASSUME NEW x \in Operations PROVE Out(c)'[x] = Len(Live(went'[x], c))
  BY DEF Out
<1>4. ASSUME NEW x \in Operations \ {o} PROVE went'[x] = went[x]
  BY <1>1, PacingAssumption DEF Budgets
<1> HIDE DEF up
<1>5. QED
  BY <1>2, <1>3, <1>4 DEF Out, up

\* Every step keeps the count.
LEMMA TokenInvStep == PacingInv /\ TokenInv /\ [PacingNext]_pacing_vars => TokenInv'
<1>1. SUFFICES ASSUME PacingInv, TokenInv, [PacingNext]_pacing_vars PROVE TokenInv'
  OBVIOUS
<1>2. PacingInv'
  BY <1>1, PacingInvStep
<1>3. \A b \in Budgets : Len(Live(went'[b], Forever)) = Len(went'[b])
  BY <1>1, WentYoung
<1>4. SUFFICES ASSUME NEW c \in 0..Forever, NEW k, IsSum(k, Out(c)', Operations)
               PROVE  k[Operations] = Len(Live(went'[Host], c))
  BY <1>3 DEF TokenInv
<1>5. /\ c \in Nat /\ Out(c) \in [Operations -> Nat] /\ Out(c)' \in [Operations -> Nat]
      /\ Host \in Budgets /\ Operations \subseteq Budgets
  <2>1. c \in Nat
    BY ForeverIs
  <2>2. Out(c) \in [Operations -> Nat]
    BY <1>1, <2>1, OutIs
  <2>3. Out(c)' \in [Operations -> Nat]
    <3>1. \A o \in Operations : Len(Live(went'[o], c)) \in Nat
      <4>1. ASSUME NEW o \in Operations PROVE Len(Live(went'[o], c)) \in Nat
        <5>1. went'[o] \in Ages
          BY <1>2 DEF PacingInv, HistoryOK, Budgets
        <5>2. Live(went'[o], c) \in Ages
          BY <2>1, <5>1, LiveIs
        <5>3. QED
          BY <5>2 DEF Ages
      <4>2. QED
        BY <4>1
    <3>2. QED
      BY <3>1 DEF Out
  <2>4. QED
    BY <2>1, <2>2, <2>3 DEF Budgets
<1>6. PICK h : IsSum(h, Out(c), Operations)
  BY <1>5, SumExists, PacingAssumption
<1>7. h[Operations] = Len(Live(went[Host], c))
  BY <1>1, <1>6 DEF TokenInv
<1>8. CASE UNCHANGED went
  <2>1. Out(c)' = Out(c)
    BY <1>8 DEF Out
  <2>2. QED
    BY <1>1, <1>4, <1>5, <1>6, <1>7, <1>8, <2>1, SumsAlike
<1>9. ASSUME NEW o \in Operations, went' = Spent(went, o)
      PROVE  k[Operations] = Len(Live(went'[Host], c))
  <2> DEFINE up == IF c = 0 THEN 0 ELSE 1
             f == Out(c)
             g == Out(c)'
  <2>1. /\ Len(Live(went'[Host], c)) = Len(Live(went[Host], c)) + up
        /\ g[o] = f[o] + up /\ \A x \in Operations \ {o} : g[x] = f[x]
    BY <1>1, <1>9, OutBumps
  <2>2. /\ up \in {0, 1} /\ f \in [Operations -> Nat] /\ g \in [Operations -> Nat]
        /\ IsSum(h, f, Operations) /\ IsSum(k, g, Operations)
        /\ IsFiniteSet(Operations)
    BY <1>4, <1>5, <1>6, PacingAssumption
  <2> HIDE DEF up, f, g
  <2>3. k[Operations] = h[Operations] + up
    <3>1. g[o] = f[o] + up /\ \A x \in Operations \ {o} : g[x] = f[x]
      BY <2>1
    <3>2. QED
      BY <1>9, <2>2, <3>1, SumBump
  <2>4. QED
    BY <1>7, <2>1, <2>3
<1>10. CASE Elapse
  <2>1. CASE c = 0
    <3>1. \A b \in Budgets : Len(Live(went'[b], c)) = 0
      BY <1>1, <1>10, <2>1, OutOlder
    <3>2. \A o \in Operations : Out(c)'[o] = 0
      BY <1>5, <3>1 DEF Out
    <3>3. k[Operations] = 0
      <4> DEFINE g == Out(c)'
      <4>1. g \in [Operations -> Nat] /\ IsSum(k, g, Operations) /\ \A o \in Operations : g[o] = 0
        BY <1>4, <1>5, <3>2
      <4> HIDE DEF g
      <4>2. QED
        BY <4>1, SumNothing
    <3>4. QED
      BY <1>5, <3>1, <3>3
  <2>2. CASE c # 0
    <3>1. c - 1 \in 0..Forever /\ c - 1 \in Nat
      BY <1>5, <2>2, ForeverIs
    <3>2. \A b \in Budgets : Len(Live(went'[b], c)) = Len(Live(went[b], c - 1))
      BY <1>1, <1>10, <2>2, OutOlder
    <3>3. Out(c)' = Out(c - 1) /\ Out(c - 1) \in [Operations -> Nat]
      BY <1>1, <1>5, <3>1, <3>2, OutIs DEF Out
    <3>4. IsSum(k, Out(c - 1), Operations)
      BY <1>4, <3>3
    <3>5. k[Operations] = Len(Live(went[Host], c - 1))
      BY <1>1, <3>1, <3>4 DEF TokenInv
    <3>6. QED
      BY <1>5, <3>2, <3>5
  <2>3. QED
    BY <2>1, <2>2
<1>11. ASSUME NEW s \in Slots, Acquire(s) PROVE k[Operations] = Len(Live(went'[Host], c))
  BY <1>1, <1>8, <1>9, <1>11, SlotIs DEF Acquire
<1>12. ASSUME NEW s \in Slots, Start(s) \/ Answered(s) \/ RateLimited(s) \/ Retry(s) \/ Lost(s)
       PROVE  k[Operations] = Len(Live(went'[Host], c))
  BY <1>8, <1>12 DEF Start, Answered, RateLimited, Retry, Lost
<1>13. CASE UNCHANGED pacing_vars
  BY <1>8, <1>13 DEF pacing_vars
<1>14. QED
  BY <1>1, <1>10, <1>11, <1>12, <1>13 DEF PacingNext

\* A host token is spent for a request that goes out and for nothing else: over any number
\* of tasks and operations, what the host's budget let out is what theirs did
\* (Client::acquire peeks both before it spends either).
THEOREM NoneBurnt == PacingSpec => []NoTokenBurnt
<1>1. QED
  BY PacingInvAlways, TokenInvInit, TokenInvStep, TokenInvBurnt, PTL DEF PacingSpec

---------------------------------------------------------------------------
(* Tiers. *)

\* A budget with no hold remembers, of every span up to the period, at least what its
\* window answers for; one that is held answers for nothing.
Remembers(b) ==
  \A c \in 0..PeriodOf(b) :
    IF BudgetOf(b).blocked = NoHold
      THEN Len(Live(since[b], c)) <= Len(Live(BudgetOf(b).taken, c))
      ELSE Len(since[b]) = 0

WindowInv == \A b \in Budgets : Remembers(b)

\* Nothing went out before the first request.
LEMMA WindowInvInit == PacingInit => WindowInv
<1>1. SUFFICES ASSUME PacingInit, NEW b \in Budgets PROVE Remembers(b)
  BY DEF WindowInv
<1>2. PacingInv
  BY <1>1, PacingInvInit
<1>3. \E tier \in Tiers : BudgetOf(b) = NewBucket(tier)
  BY <1>1, <1>2, BudgetIs, PacingAssumption DEF PacingInit, BudgetOf
<1>4. BudgetOf(b).blocked = NoHold /\ BudgetOf(b).taken = <<>>
  BY <1>3 DEF NewBucket
<1>5. since[b] = <<>>
  BY <1>1 DEF PacingInit
<1>6. \A c \in 0..PeriodOf(b) : Len(Live(<<>>, c)) = 0
  BY <1>2, LiveIs, NoneSorted, PeriodIs
<1>7. QED
  BY <1>4, <1>5, <1>6 DEF Remembers

\* The lengths compared are numbers.
LEMMA LiveNat ==
  ASSUME NEW taken \in Ages, NEW c \in Nat
  PROVE  Len(Live(taken, c)) \in Nat /\ Len(Live(taken, c)) <= Len(taken) /\ Len(taken) \in Nat
<1>1. taken \in Seq(Nat) /\ Expired(taken, c) \in 0..Len(taken)
      /\ Len(Live(taken, c)) = Len(taken) - Expired(taken, c)
  BY LiveIs
<1>2. Len(taken) \in Nat
  BY <1>1
<1>3. QED
  BY <1>1, <1>2

\* What a window lets go of when it grows longer, it does not answer for: of every span
\* of the longer one, the takes it kept are no more than those the bucket kept.
LEMMA WiderRemembered ==
  ASSUME NEW ours \in Ages, NEW taken \in Ages, NEW per \in Nat, NEW c \in Nat,
         \A d \in 0..per : Len(Live(ours, d)) <= Len(Live(taken, d))
  PROVE  Len(Live(Live(ours, per), c)) <= Len(Live(taken, c))
<1>1. CASE c <= per
  <2>1. c \in 0..per
    BY <1>1
  <2>2. QED
    BY <2>1, LiveOfLive
<1>2. CASE c > per
  <2>1. per \in 0..c /\ per \in 0..per
    BY <1>2
  <2>2. Live(ours, per) \in Ages /\ Len(Live(taken, per)) <= Len(Live(taken, c))
    BY <2>1, LiveIs, LiveWider
  <2>3. Len(Live(Live(ours, per), c)) <= Len(Live(ours, per))
    BY <2>2, LiveNat
  <2>4. /\ Len(Live(ours, per)) <= Len(Live(taken, per)) /\ Len(Live(ours, per)) \in Nat
        /\ Len(Live(taken, per)) \in Nat /\ Len(Live(taken, c)) \in Nat
        /\ Len(Live(Live(ours, per), c)) \in Nat
    BY <2>1, <2>2, LiveNat
  <2>5. QED
    BY <2>2, <2>3, <2>4
<1>3. QED
  BY <1>1, <1>2

\* A take is remembered: in every span the window holds one more, as the history does.
LEMMA TakeRemembered ==
  ASSUME PacingInv, NEW b \in Budgets, NEW per, per = PeriodOf(b), Remembers(b),
         TokenTaken(b), NEW c \in 1..per
  PROVE  /\ Len(Live(since'[b], c)) <= Len(Live(BudgetOf(b)'.taken, c))
         /\ Len(Live(since'[b], c)) = Len(Live(since[b], c)) + 1
<1> DEFINE bucket == BudgetOf(b)
           kept == IF bucket.blocked # NoHold THEN <<>> ELSE Live(bucket.taken, per)
<1>1. /\ Sound(bucket) /\ since[b] \in Ages /\ bucket.limit.per_secs = per
      /\ bucket.taken \in Ages
  BY BudgetIs, GoodIs, SoundIs DEF PeriodOf
<1>2. c \in 1..Forever /\ c \in Nat /\ c \in 0..per /\ per \in Nat
  BY PeriodIs, ForeverIs
<1>3. since'[b] = Append(since[b], 0) /\ BudgetOf(b)'.taken = Append(kept, 0)
  BY <1>1, TakeIs DEF TokenTaken
<1>4. kept \in Ages
  BY <1>1, <1>2, NoneSorted, LiveIs
<1>5. Len(Live(since[b], c)) <= Len(Live(kept, c))
  <2>1. CASE bucket.blocked = NoHold
    <3>1. Len(Live(since[b], c)) <= Len(Live(bucket.taken, c))
      BY <1>2, <2>1 DEF Remembers
    <3>2. Len(Live(kept, c)) = Len(Live(bucket.taken, c))
      BY <1>1, <1>2, <2>1, LiveOfLive
    <3>3. QED
      BY <3>1, <3>2
  <2>2. CASE bucket.blocked # NoHold
    <3>1. Len(since[b]) = 0
      BY <1>2, <2>2 DEF Remembers
    <3>2. Len(Live(since[b], c)) <= 0 /\ Len(Live(since[b], c)) \in Nat
      BY <1>1, <1>2, <3>1, LiveNat
    <3>3. QED
      BY <1>2, <1>4, <3>2, LiveNat
  <2>3. QED
    BY <2>1, <2>2
<1>6. /\ Len(Live(Append(since[b], 0), c)) = Len(Live(since[b], c)) + 1
      /\ Len(Live(Append(kept, 0), c)) = Len(Live(kept, c)) + 1
  <2> HIDE DEF kept
  <2>1. QED
    BY <1>1, <1>2, <1>4, LiveAppend
<1>7. Len(Live(since[b], c)) \in Nat /\ Len(Live(kept, c)) \in Nat
  <2> HIDE DEF kept
  <2>1. QED
    BY <1>1, <1>2, <1>4, LiveNat
<1>8. QED
  BY <1>3, <1>5, <1>6, <1>7

\* A tick makes the window and the history older alike.
LEMMA TickRemembered ==
  ASSUME PacingInv, NEW b \in Budgets, NEW per, per = PeriodOf(b), Remembers(b),
         GrownOlder(b), NEW c \in 0..per
  PROVE  IF BudgetOf(b)'.blocked = NoHold
           THEN Len(Live(since'[b], c)) <= Len(Live(BudgetOf(b)'.taken, c))
           ELSE Len(since'[b]) = 0
<1> DEFINE bucket == BudgetOf(b)
<1>1. /\ Sound(bucket) /\ since[b] \in Ages /\ bucket.taken \in Ages
      /\ bucket.blocked \in Nat \cup {NoHold}
  BY BudgetIs, GoodIs, SoundIs
<1>2. /\ BudgetOf(b)'.taken = Older(bucket.taken)
      /\ BudgetOf(b)'.blocked = IF bucket.blocked = NoHold \/ bucket.blocked = 0
                                  THEN bucket.blocked ELSE bucket.blocked - 1
      /\ since'[b] = Live(Older(since[b]), Forever)
  BY <1>1, AgeIs DEF GrownOlder
<1>3. per \in Nat /\ 1 \in 1..Forever /\ c \in Nat /\ c \in 0..Forever
  BY PeriodIs, ForeverIs
<1>4. /\ Older(since[b]) \in Ages /\ Older(bucket.taken) \in Ages
      /\ Len(Older(since[b])) = Len(since[b])
  BY <1>1, <1>3, LiveOlder
<1>5. CASE bucket.blocked = NoHold
  <2>1. BudgetOf(b)'.blocked = NoHold
    BY <1>2, <1>5
  <2>2. Len(Live(since'[b], c)) = Len(Live(Older(since[b]), c))
    BY <1>2, <1>3, <1>4, LiveOfLive, ForeverIs
  <2>3. CASE c = 0
    <3>1. Len(Live(since'[b], c)) = 0
      BY <1>4, <2>2, <2>3, LiveNone
    <3>2. Len(Live(BudgetOf(b)'.taken, c)) \in Nat
      BY <1>2, <1>3, <1>4, LiveNat
    <3>3. QED
      BY <2>1, <3>1, <3>2
  <2>4. CASE c # 0
    <3>1. c \in 1..Forever /\ c - 1 \in 0..per
      BY <1>3, <2>4
    <3>2. /\ Len(Live(since'[b], c)) = Len(Live(since[b], c - 1))
          /\ Len(Live(BudgetOf(b)'.taken, c)) = Len(Live(bucket.taken, c - 1))
      BY <1>1, <1>2, <2>2, <3>1, LiveOlder
    <3>3. QED
      BY <1>5, <2>1, <3>1, <3>2 DEF Remembers
  <2>5. QED
    BY <2>3, <2>4
<1>6. CASE bucket.blocked # NoHold
  <2>1. BudgetOf(b)'.blocked # NoHold
    BY <1>1, <1>2, <1>6, ForeverIs
  <2>2. Len(since[b]) = 0
    <3>1. 0 \in 0..per
      BY <1>3
    <3>2. QED
      BY <1>6, <3>1 DEF Remembers
  <2>3. Len(Older(since[b])) = 0 /\ Forever \in Nat
    BY <1>4, <2>2, ForeverIs
  <2>4. Len(since'[b]) <= 0 /\ Len(since'[b]) \in Nat
    BY <1>2, <1>4, <2>3, LiveNat
  <2>5. QED
    BY <2>1, <2>4
<1>7. QED
  BY <1>5, <1>6

\* An answer with no hold may change the period: a shorter one asks for fewer spans, and
\* a longer one is not answered for.
LEMMA AloneRemembered ==
  ASSUME PacingInv, NEW b \in Budgets, NEW per, per = PeriodOf(b), Remembers(b),
         LeftAlone(b), NEW c \in 0..Forever, c <= PeriodOf(b)', PeriodOf(b)' \in Nat
  PROVE  IF BudgetOf(b)'.blocked = NoHold
           THEN Len(Live(since'[b], c)) <= Len(Live(BudgetOf(b)'.taken, c))
           ELSE Len(since'[b]) = 0
<1> DEFINE bucket == BudgetOf(b)
<1>1. since[b] \in Ages /\ bucket.taken \in Ages /\ per \in Nat /\ c \in Nat
  BY BudgetIs, GoodIs, SoundIs, PeriodIs, ForeverIs
<1>2. /\ BudgetOf(b)'.taken = bucket.taken /\ BudgetOf(b)'.blocked = bucket.blocked
      /\ since'[b] = IF PeriodOf(b)' > per THEN Live(since[b], per) ELSE since[b]
  BY DEF LeftAlone
<1>3. CASE bucket.blocked = NoHold
  <2>1. \A d \in 0..per : Len(Live(since[b], d)) <= Len(Live(bucket.taken, d))
    BY <1>3 DEF Remembers
  <2>2. CASE PeriodOf(b)' > per
    BY <1>1, <1>2, <1>3, <2>1, <2>2, WiderRemembered
  <2>3. CASE ~(PeriodOf(b)' > per)
    <3>1. c \in 0..per
      BY <1>1, <2>3
    <3>2. QED
      BY <1>2, <1>3, <2>1, <2>3, <3>1
  <2>4. QED
    BY <2>2, <2>3
<1>4. CASE bucket.blocked # NoHold
  <2>1. Len(since[b]) = 0
    <3>1. 0 \in 0..per
      BY <1>1
    <3>2. QED
      BY <1>4, <3>1 DEF Remembers
  <2>2. Len(Live(since[b], per)) <= 0 /\ Len(Live(since[b], per)) \in Nat
    BY <1>1, <2>1, LiveNat
  <2>3. QED
    BY <1>2, <1>4, <2>1, <2>2
<1>5. QED
  BY <1>3, <1>4

\* A step that is not an answer leaves the period as it is.
LEMMA SamePeriod ==
  ASSUME PacingInv, NEW b \in Budgets, TokenTaken(b) \/ GrownOlder(b)
  PROVE  PeriodOf(b)' = PeriodOf(b)
<1>1. Sound(BudgetOf(b))
  BY BudgetIs, GoodIs
<1>2. QED
  BY <1>1, TakeIs, AgeIs DEF TokenTaken, GrownOlder, PeriodOf

\* Every step keeps the window as full as what it answers for.
LEMMA WindowStep ==
  ASSUME PacingInv, WindowInv, [PacingNext]_pacing_vars, NEW b \in Budgets
  PROVE  Remembers(b)'
<1>1. PICK per : per = PeriodOf(b)
  OBVIOUS
<1>2. PICK next : next = PeriodOf(b)'
  OBVIOUS
<1>3. /\ Sound(BudgetOf(b)) /\ since[b] \in Ages /\ Remembers(b) /\ per \in Nat /\ 1 <= per
  BY <1>1, BudgetIs, GoodIs, PeriodIs, ForeverIs DEF WindowInv
<1>4. next \in 1..Forever /\ next \in Nat /\ (\A c \in 0..next : c \in 0..Forever)
      /\ BudgetOf(b)'.taken \in Ages
  <2>1. PacingInv'
    BY PacingInvStep
  <2>2. Good(BudgetOf(b)')
    BY <2>1, BudgetIs DEF PacingInv, BudgetsOK, BudgetOf
  <2>3. BudgetOf(b)'.limit.per_secs \in 1..Forever /\ BudgetOf(b)'.taken \in Ages
    BY <2>2, GoodIs, SoundIs
  <2>4. QED
    BY <1>2, <2>3, ForeverIs DEF PeriodOf
<1>5. SUFFICES ASSUME NEW c \in 0..next
               PROVE  IF BudgetOf(b)'.blocked = NoHold
                        THEN Len(Live(since'[b], c)) <= Len(Live(BudgetOf(b)'.taken, c))
                        ELSE Len(since'[b]) = 0
  BY <1>2 DEF Remembers
<1>6. CASE LeftAlone(b)
  <2>1. c \in 0..Forever /\ c <= PeriodOf(b)' /\ PeriodOf(b)' \in Nat
    BY <1>2, <1>4
  <2>2. QED
    BY <1>1, <1>3, <1>6, <2>1, AloneRemembered
<1>7. CASE TokenTaken(b)
  <2>1. BudgetOf(b)'.blocked = NoHold /\ next = per
    BY <1>1, <1>2, <1>3, <1>7, TakeIs, SamePeriod DEF TokenTaken
  <2>2. CASE c = 0
    <3>1. since'[b] = Append(since[b], 0) /\ 1 \in 1..Forever
      BY <1>7, ForeverIs DEF TokenTaken
    <3>2. since'[b] \in Ages
      BY <1>3, <3>1, LiveAppend
    <3>3. QED
      BY <1>4, <2>1, <2>2, <3>2, LiveNone
  <2>3. CASE c # 0
    <3>1. c \in 1..per
      BY <1>5, <2>1, <2>3
    <3>2. QED
      BY <1>1, <1>3, <1>7, <2>1, <3>1, TakeRemembered
  <2>4. QED
    BY <2>2, <2>3
<1>8. ASSUME NEW n \in Nat, MadeToHold(b, n)
      PROVE  BudgetOf(b)'.blocked # NoHold /\ Len(since'[b]) = 0
  BY <1>8, NoneSorted, ForeverIs DEF MadeToHold
<1>9. CASE GrownOlder(b)
  <2>1. c \in 0..per
    BY <1>1, <1>2, <1>5, <1>9, SamePeriod
  <2>2. QED
    BY <1>1, <1>3, <1>9, <2>1, TickRemembered
<1>10. QED
  BY <1>6, <1>7, <1>8, <1>9, StepsOfBudgets DEF BudgetStep

\* What goes out fits the tier.
LEMMA TokenFits ==
  ASSUME WindowInv, PacingInv, [PacingNext]_pacing_vars,
         NEW b \in Budgets, Len(went'[b]) > Len(went[b])
  PROVE  Len(Live(since'[b], BudgetOf(b).limit.per_secs)) <= BudgetOf(b).limit.count
<1> DEFINE bucket == BudgetOf(b)
<1> PICK long : long = bucket.limit.per_secs
  OBVIOUS
<1>1. TokenTaken(b)
  BY GrowsByToken
<1>2. /\ Sound(bucket) /\ PeriodOf(b) = long /\ since[b] \in Ages
      /\ bucket.limit.count \in Nat \ {0} /\ bucket.taken \in Ages
      /\ Remembers(b)
  BY BudgetIs, GoodIs, SoundIs DEF WindowInv, PeriodOf
<1>3. long \in 1..long /\ long \in Nat /\ long \in 0..long
  BY <1>2, PeriodIs, ForeverIs
<1>4. Len(Live(since'[b], long)) = Len(Live(since[b], long)) + 1
  BY <1>1, <1>2, <1>3, TakeRemembered
<1>5. /\ Len(Live(since[b], long)) \in Nat /\ Len(Live(bucket.taken, long)) \in Nat
      /\ Len(Live(since[b], long)) <= Len(since[b])
  BY <1>2, <1>3, LiveNat
<1>6. CASE bucket.blocked = NoHold
  <2>1. Len(Live(bucket.taken, long)) < bucket.limit.count
    BY <1>1, <1>2, <1>6, PeekIs, ForeverIs DEF TokenTaken
  <2>2. Len(Live(since[b], long)) <= Len(Live(bucket.taken, long))
    BY <1>2, <1>3, <1>6 DEF Remembers
  <2>3. QED
    BY <1>2, <1>4, <1>5, <2>1, <2>2
<1>7. CASE bucket.blocked # NoHold
  <2>1. Len(since[b]) = 0
    BY <1>2, <1>3, <1>7 DEF Remembers
  <2>2. Len(Live(since[b], long)) = 0
    BY <1>5, <2>1
  <2>3. QED
    BY <1>2, <1>4, <2>2
<1>8. QED
  BY <1>6, <1>7

\* Whatever tiers answers state and whatever holds they ask for, no budget lets out more
\* than its tier in the period that ends now, counting from when the far end last held it
\* or its window last grew longer (Bucket::live, Bucket::take): nothing is assumed of the
\* tiers, the headers or the waits.
THEOREM TiersKept == PacingSpec => TierKept
<1>1. PacingInit => WindowInv
  BY WindowInvInit
<1>2. PacingInv /\ WindowInv /\ [PacingNext]_pacing_vars => WindowInv'
  BY WindowStep DEF WindowInv
<1>3. PacingInv /\ WindowInv /\ [PacingNext]_pacing_vars =>
        [\A b \in Budgets :
           LET limit == BudgetOf(b).limit IN
           Len(went'[b]) > Len(went[b])
             => Len(Live(since'[b], limit.per_secs)) <= limit.count]_pacing_vars
  BY TokenFits
<1>4. QED
  BY <1>1, <1>2, <1>3, PacingInvAlways, PTL DEF PacingSpec, TierKept
===========================================================================
