----------------------------- MODULE Negotiate ----------------------------
(***************************************************************************)
(* Which API version one namespace is asked at: the pin adopted from the   *)
(* last run, the lazy repair of a list that failed under it, the probe of  *)
(* the versions, and the 404s that are remembered, with the polling tasks  *)
(* and the counters that ask (crates/prism/src/client/negotiate.rs,        *)
(* requests.rs, client.rs, crates/core/src/scheduler/cycle.rs, stats.rs).  *)
(*                                                                         *)
(* A greater version is newer.  What a list answers besides being there,   *)
(* missing or down is another module's (Auth, Pacing).                     *)
(***************************************************************************)
EXTENDS Naturals, Sequences, FiniteSets

CONSTANTS
  Candidates, \* the kinds of the namespace, the shortest list path first
  Since,      \* the version each first appears in
  NEWEST,     \* the catalog's versions are 1..NEWEST, and its paths name the newest
  Serves,     \* the sets of versions a Prism Central may be serving
  Requesters, \* who lists: a kind, and whether it is a polling task or a counter
  INTERVAL,   \* REPAIR_INTERVAL, in ticks
  MaxFaults   \* bound: requests answered with another failure than a 404

Kinds == {Candidates[i] : i \in DOMAIN Candidates}
Versions == 1..NEWEST

ASSUME NegotiateAssumption ==
  /\ NEWEST \in Nat \ {0} /\ Since \in [Kinds -> Versions]
  /\ Serves \subseteq SUBSET Versions
  /\ Requesters \subseteq [kind : Kinds, cycle : BOOLEAN]
  /\ INTERVAL \in Nat \ {0} /\ MaxFaults \in Nat

VARIABLES
  pin,      \* the version requests are routed to, 0 for none
  status,   \* the namespace's row: none, or what was found there
  adopted,  \* the pin, or there being none, comes from the last run
  repaired, \* ticks since a repair began, INTERVAL for long ago
  missing,  \* kinds whose list answered 404
  asked,    \* kinds asked for whatever the pin says
  request,  \* what each requester is at
  far,      \* the versions the Prism Central serves, kinds it does not, faults so far
  marked,   \* history: what was behind each missing kind's 404
  gap       \* history: ticks since the last repair that began

vars == <<pin, status, adopted, repaired, missing, asked, request, far, marked, gap>>

NoProbe == [version |-> 0, rest |-> <<>>, down |-> FALSE]
NoRequest == [at |-> "idle", route |-> 0, error |-> "none", second |-> FALSE,
              own |-> FALSE, found |-> FALSE, probe |-> NoProbe]
NoTable == [NoRequest EXCEPT !.at = "closed"]

\* Kind::served_at.
ServedAt(k, v) == Since[k] <= v

---------------------------------------------------------------------------
(* The Prism Central. *)

Lists(k, v) == v \in far.versions /\ ServedAt(k, v) /\ k \notin far.absent

\* The newest version something is listed at: what a negotiation finds when nothing fails.
Newest ==
  LET there == {v \in Versions : \E k \in Kinds : Lists(k, v)}
  IN  IF there = {} THEN 0 ELSE CHOOSE v \in there : \A w \in there : w <= v

\* pinned_path_for: a kind newer than the pin, and any without one, keep the catalog's path.
Route(k, p) == IF p = 0 \/ ~ServedAt(k, p) THEN NEWEST ELSE p

\* A service that was still starting answers now.
Starts ==
  /\ \E k \in far.absent : far' = [far EXCEPT !.absent = @ \ {k}]
  /\ UNCHANGED <<pin, status, adopted, repaired, missing, asked, request, marked, gap>>

---------------------------------------------------------------------------
(* The start of a session: adopt_pins, or negotiate. *)

Adopted ==
  /\ adopted = TRUE
  /\ pin \in 0..NEWEST /\ status \in {"none"} \cup (IF pin = 0 THEN {} ELSE {"served"})

\* A list answered, or nothing did; or the version that was settled on refused to list,
\* which it has to be served for, or was down.
Negotiated ==
  /\ adopted = FALSE
  /\ \/ pin = Newest /\ status = IF pin = 0 THEN "not_served" ELSE "served"
     \/ /\ pin \in Versions /\ pin >= Newest /\ \E k \in Kinds : ServedAt(k, pin)
        /\ status \in {"down"} \cup (IF pin \in far.versions THEN {"served"} ELSE {})

Init ==
  /\ far \in [versions : Serves, absent : SUBSET Kinds, faults : {0}]
  /\ Adopted \/ Negotiated
  /\ repaired = INTERVAL /\ gap = INTERVAL
  /\ missing = {} /\ asked = {}
  /\ request = [r \in Requesters |-> IF r.cycle THEN NoTable ELSE NoRequest]
  /\ marked = [k \in Kinds |-> [own |-> TRUE, found |-> TRUE]]

---------------------------------------------------------------------------
(* Who asks. *)

\* namespace_availability: no row is unknown under a restore, and unknown is not unavailable.
NamespaceServed ==
  IF status = "none" THEN adopted ELSE status = "served" /\ pin # 0

VersionServed(k) == pin # 0 => ServedAt(k, pin) \/ k \in asked

\* availability, and list_availability.
Available(k) == NamespaceServed /\ VersionServed(k)
ListAvailable(k) == Available(k) /\ k \notin missing

Asks(r) == request' = [request EXCEPT ![r] = [NoRequest EXCEPT !.at = "send"]]

\* An open table's next cycle comes, whatever became of its kind; a counter that was not
\* refused comes round.
Ask(r) ==
  /\ request[r].at = "idle" /\ (r.cycle \/ ListAvailable(r.kind))
  /\ Asks(r)
  /\ UNCHANGED <<pin, status, adopted, repaired, missing, asked, far, marked, gap>>

\* A table is opened by name, where its kind is served.
Open(r) ==
  /\ request[r].at = "closed" /\ Available(r.kind)
  /\ Asks(r)
  /\ UNCHANGED <<pin, status, adopted, repaired, missing, asked, far, marked, gap>>

\* `:try`, where only the version's prediction stands in the way.
AskAnyway(r) ==
  /\ request[r].at = "closed"
  /\ NamespaceServed /\ ~VersionServed(r.kind)
  /\ asked' = asked \cup {r.kind}
  /\ Asks(r)
  /\ UNCHANGED <<pin, status, adopted, repaired, missing, far, marked, gap>>

\* `^r` starts the task of a table again that ended.
Refresh(r) ==
  /\ r.cycle /\ request[r].at = "ended"
  /\ Asks(r)
  /\ UNCHANGED <<pin, status, adopted, repaired, missing, asked, far, marked, gap>>

\* A table is closed, and its task dropped wherever it is: in the middle of a repair, whose
\* claim stays.
Close(r) ==
  /\ r.cycle /\ request[r].at # "closed"
  /\ request' = [request EXCEPT ![r] = NoTable]
  /\ UNCHANGED <<pin, status, adopted, repaired, missing, asked, far, marked, gap>>

---------------------------------------------------------------------------
(* list_page_at. *)

\* History: a probe has found a version of the namespace that has the kind.
Probed(k) == ~adopted /\ status = "served" /\ ServedAt(k, pin)

\* The request is routed once, and on its way.
Send(r) ==
  /\ request[r].at = "send"
  /\ request' = [request EXCEPT ![r].at = "wire", ![r].route = Route(r.kind, pin),
                                ![r].found = request[r].second /\ Probed(r.kind)]
  /\ UNCHANGED <<pin, status, adopted, repaired, missing, asked, far, marked, gap>>

\* worth_repairing.
WorthRepairing(error) == error \in {"down", "missing"}

\* Mutant: the clock starts when the repair ends.
ClaimedLater == repaired

\* The claim is taken before the first probe, under the lock.
Claimed == 0

ProbeAt(v) ==
  LET served(k) == ServedAt(k, v)
  IN  [version |-> v, rest |-> SelectSeq(Candidates, served), down |-> FALSE]

\* A cycle asks again after a 404, and a counter is dropped for a refusal.
Told(r, error) == error = "missing" \/ (error = "refused" /\ ~r.cycle)

\* What is kept of a failed request: the error, where something is made of it, and of a
\* cycle's second 404 what was behind it.
Failed(r, error) ==
  LET gone == request[r].second /\ error = "missing"
  IN  [request[r] EXCEPT !.error = IF Told(r, error) THEN error ELSE "other",
         !.route = IF r.cycle THEN 0 ELSE @, !.found = @ /\ gone,
         !.own = gone /\ ~Lists(r.kind, Route(r.kind, Newest))]

\* The list fails: repair_after, inside the call.
Fails(r, error) ==
  IF WorthRepairing(error) /\ adopted /\ repaired >= INTERVAL
    THEN /\ request' = [request EXCEPT ![r] =
                [Failed(r, error) EXCEPT !.at = "probe", !.probe = ProbeAt(NEWEST)]]
         /\ repaired' = Claimed /\ gap' = 0
    ELSE /\ request' = [request EXCEPT ![r] = [Failed(r, error) EXCEPT !.at = "failed"]]
         /\ UNCHANGED <<repaired, gap>>

\* A 403 or another 4xx proves the version is there (probe_namespace).
Refusals(v) == IF v \in far.versions THEN {"refused"} ELSE {}

\* Mutant: a cycle that completes does not take it back.
CompletedOnly(r) == UNCHANGED missing

\* A cycle that completes takes the remembered 404 back.
Completed(r) == missing' = IF r.cycle THEN missing \ {r.kind} ELSE missing

\* The list answers, is not there, or fails otherwise: the service is down, it refuses, or
\* the network or the body is at fault.
Answer(r) ==
  /\ request[r].at = "wire"
  /\ \/ /\ Lists(r.kind, request[r].route)
        /\ request' = [request EXCEPT ![r] = NoRequest]
        /\ Completed(r)
        /\ UNCHANGED <<repaired, gap, far>>
     \/ /\ ~Lists(r.kind, request[r].route)
        /\ Fails(r, "missing")
        /\ UNCHANGED <<missing, far>>
     \/ /\ far.faults < MaxFaults
        /\ \E error \in {"down", "other"} \cup Refusals(request[r].route) : Fails(r, error)
        /\ far' = [far EXCEPT !.faults = @ + 1]
        /\ UNCHANGED missing
  /\ UNCHANGED <<pin, status, adopted, asked, marked>>

---------------------------------------------------------------------------
(* negotiate_namespace: one request of the probe a step. *)

Aborted(r) == request' = [request EXCEPT ![r].at = "failed", ![r].probe = NoProbe]

\* Mutant: the pin stays the one that did not answer.
FoundUnpinned(r, p, s) ==
  /\ status' = s /\ adopted' = FALSE
  /\ Aborted(r) /\ UNCHANGED pin

\* The namespace's answer replaces its pin and its row, and is not adopted any longer.
Found(r, p, s) ==
  /\ pin' = p /\ status' = s /\ adopted' = FALSE
  /\ Aborted(r)

\* A version whose candidates all answer 404 is stepped past; one that is down is not.
Passed(r, probe) ==
  IF probe.rest # <<>>
    THEN /\ request' = [request EXCEPT ![r].probe = probe]
         /\ UNCHANGED <<pin, status, adopted>>
  ELSE IF probe.down THEN Found(r, probe.version, "down")
  ELSE IF probe.version = 1 THEN Found(r, 0, "not_served")
  ELSE /\ request' = [request EXCEPT ![r].probe = ProbeAt(probe.version - 1)]
       /\ UNCHANGED <<pin, status, adopted>>

Probe(r) ==
  LET probe == request[r].probe
      next == [probe EXCEPT !.rest = Tail(@)]
  IN  /\ request[r].at = "probe"
      /\ \/ /\ probe.rest = <<>>
            /\ Passed(r, probe) /\ UNCHANGED far
         \/ /\ probe.rest # <<>>
            /\ \/ /\ Lists(Head(probe.rest), probe.version)
                  /\ Found(r, probe.version, "served") /\ UNCHANGED far
               \/ /\ ~Lists(Head(probe.rest), probe.version)
                  /\ Passed(r, next) /\ UNCHANGED far
               \/ /\ far.faults < MaxFaults
                  /\ far' = [far EXCEPT !.faults = @ + 1]
                  /\ \/ Passed(r, [next EXCEPT !.down = TRUE])
                     \/ Refusals(probe.version) # {} /\ Found(r, probe.version, "served")
                     \/ Aborted(r) /\ UNCHANGED <<pin, status, adopted>> \* host-wide
      /\ UNCHANGED <<repaired, missing, asked, marked, gap>>

---------------------------------------------------------------------------
(* The cycle: a first 404 is asked again at once, a second ends the task. A counter that is *)
(* refused is not asked again.                                                              *)

\* is_missing_list, and is_refusal.
NotFound(r) == r.cycle /\ request[r].error = "missing"
Refused(r) == ~r.cycle /\ request[r].error \in {"missing", "refused"}

Report(r) ==
  LET again == NotFound(r) /\ ~request[r].second
      gone == NotFound(r) /\ request[r].second
  IN  /\ request[r].at = "failed"
      /\ request' = [request EXCEPT ![r] =
           IF again THEN [NoRequest EXCEPT !.at = "send", !.second = TRUE]
           ELSE [NoRequest EXCEPT !.at = IF gone \/ Refused(r) THEN "ended" ELSE "idle"]]
      /\ missing' = IF gone THEN missing \cup {r.kind} ELSE missing
      /\ marked' = IF gone THEN [marked EXCEPT ![r.kind] =
                                   [own |-> request[r].own, found |-> request[r].found]]
                   ELSE marked
      /\ UNCHANGED <<pin, status, adopted, repaired, asked, far, gap>>

Aged(n) == IF n < INTERVAL THEN n + 1 ELSE n

Tick ==
  /\ repaired < INTERVAL \/ gap < INTERVAL
  /\ repaired' = Aged(repaired) /\ gap' = Aged(gap)
  /\ UNCHANGED <<pin, status, adopted, missing, asked, request, far, marked>>

---------------------------------------------------------------------------

Next ==
  \/ Tick \/ Starts
  \/ \E r \in Requesters :
       Ask(r) \/ Open(r) \/ AskAnyway(r) \/ Refresh(r) \/ Close(r)
         \/ Send(r) \/ Answer(r) \/ Probe(r) \/ Report(r)

\* Requests are answered, and open tables and counters come round; nobody has to open a
\* table, to close one or to press `^r`.
Fairness ==
  /\ WF_vars(Tick)
  /\ \A r \in Requesters :
       /\ WF_vars(Send(r) \/ Answer(r) \/ Probe(r) \/ Report(r))
       /\ WF_vars(Ask(r))

Spec == Init /\ [][Next]_vars /\ Fairness

---------------------------------------------------------------------------
(* Properties. *)

Steps == {"closed", "idle", "send", "wire", "probe", "failed", "ended"}
Errors == {"none", "missing", "refused", "other"}

\* Types; what is found to be served has a pin, and only a probe finds otherwise.
TypeOK ==
  /\ pin \in 0..NEWEST /\ status \in {"none", "served", "down", "not_served"}
  /\ adopted \in BOOLEAN /\ (adopted => status \in {"none", "served"})
  /\ status = "none" => adopted
  /\ status \in {"served", "down"} => pin # 0
  /\ status = "not_served" => pin = 0
  /\ {repaired, gap} \subseteq 0..INTERVAL
  /\ missing \subseteq Kinds /\ asked \subseteq Kinds
  /\ \A r \in Requesters :
       /\ request[r].at \in Steps
       /\ request[r].route \in 0..NEWEST
       /\ request[r].error \in Errors /\ (request[r].second => r.cycle)
       /\ request[r].at = "closed" => r.cycle
       /\ request[r].probe.version \in 0..NEWEST
  /\ far.faults \in 0..MaxFaults

\* A kind is held to be missing by an answer about the kind itself, so long as the version
\* it was asked at came from a probe: the repair between the two 404s has moved the second
\* request ("only a second 404 is the endpoint's own": cycle.rs).
MissingIsOwn == \A k \in missing : marked[k].own \/ ~marked[k].found

\* "only a second 404 is the endpoint's own" (cycle.rs): wherever the version came from.
MissingIsOwnAlways == \A k \in missing : marked[k].own

\* Two repairs do not begin within one interval, however many lists fail at once and
\* however the last one ended ("so a failing service cannot be turned into a
\* re-negotiation storm": REPAIR_INTERVAL).
RepairBegins == \E r \in Requesters : request[r].at = "wire" /\ request'[r].at = "probe"
RepairsSpaced == [][RepairBegins => gap >= INTERVAL]_vars

\* A kind that is held to be missing and whose list answers is not held to be for as long
\* as a table of it is open: the next cycle to complete takes the 404 back, whatever its
\* requests meet before ("which is what makes `^r` a way out and not a formality": cycle.rs).
HeldMissing(r) ==
  /\ request[r].at \notin {"closed", "ended"}
  /\ r.kind \in missing /\ Lists(r.kind, Route(r.kind, pin))
WayBack == \A r \in Requesters : r.cycle => (HeldMissing(r) ~> ~HeldMissing(r))

\* "a false served costs one 404 that the lazy repair corrects" (adopt_pins): a restored pin
\* that a counter's list is not there under does not stay, where it is at another version.
Stale(k) ==
  /\ adopted /\ pin # 0 /\ ListAvailable(k)
  /\ ~Lists(k, Route(k, pin)) /\ Lists(k, Route(k, Newest))
StalePinEnds == \A r \in Requesters : ~r.cycle => (Stale(r.kind) ~> ~Stale(r.kind))

\* "A refusal is the same on every cycle - [...] the path is not there" (is_refusal): a
\* counter is not dropped for a 404 at a version its next request would not be asked at,
\* when it would be answered there.
Dropped(r) == request[r].at = "failed" /\ request[r].error = "missing" /\ request'[r].at = "ended"
DroppedForGood ==
  [][\A r \in Requesters :
       ~r.cycle /\ Dropped(r) => \/ request[r].route = Route(r.kind, pin)
                                 \/ ~Lists(r.kind, Route(r.kind, pin))]_vars
===========================================================================
