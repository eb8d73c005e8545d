------------------------------- MODULE Store ------------------------------
(***************************************************************************)
(* One table and everything that writes it: the polling tasks whose        *)
(* subscriptions share its key, the channel they push into, the receiver   *)
(* that drops what is not live, and the store that applies the rest by     *)
(* generation (crates/core/src/store.rs, scheduler.rs, scheduler/cycle.rs, *)
(* crates/tui/src/app/messages.rs, app/nav.rs).                            *)
(*                                                                         *)
(* The collection has one row per page: a row is the number of its page,   *)
(* and what a table holds for it is the generation of the cycle that read  *)
(* it.  When a task sleeps and what wakes it is another module's           *)
(* (Scheduler): here a task that sleeps may start its next cycle.          *)
(***************************************************************************)
EXTENDS Naturals, Sequences, FiniteSets

CONSTANTS
  Shapes,   \* the subscriptions there may be over this key
  Failing,  \* those whose requests may fail
  Pages,    \* pages of the collection
  CHANNEL,  \* messages the channel holds
  MaxSubs,  \* bound: subscriptions in a behaviour
  MaxCycles \* bound: first attempts of cycles in a behaviour

\* A view's list and its detail, a task watch, the refresh after an action, and the
\* list a reference picker asks for once.
AllShapes == {"list", "detail", "watch", "once", "once_list"}
Lists == {"list", "once_list"}
Onces == {"once", "once_list"}

ASSUME StoreAssumption ==
  /\ Failing \subseteq Shapes /\ Shapes \subseteq AllShapes
  /\ {Pages, CHANNEL} \subseteq Nat \ {0}
  /\ {MaxSubs, MaxCycles} \subseteq Nat

VARIABLES
  table,       \* the store's Table
  channel,     \* the poll channel
  task,        \* the task of each subscription
  live,        \* Scheduler.tasks: subscriptions not yet removed
  generations, \* Scheduler.generations
  cycles,      \* first attempts so far
  walked       \* history: pages of the walk whose rows the table took

vars == <<table, channel, task, live, generations, cycles, walked>>

Subs == 1..MaxSubs
Rows == 1..Pages

\* What a task is about to do: take a generation, say that its walk has begun, fetch,
\* report how the cycle ended, report a second time that a once is over, sleep; or it
\* has returned.
Stages == {"none", "begin", "announce", "fetch", "ended", "done", "sleep", "returned"}
Results == {"ok", "missing", "failed", "refused"}

NoTask == [at |-> "none", shape |-> "none", gen |-> 0, page |-> 0, second |-> FALSE,
           result |-> "ok"]

NoStaging == [gen |-> 0, pages |-> {}]

Fresh ==
  [rows |-> <<>>, generation |-> 0, polled |-> FALSE, error |-> FALSE,
   not_served |-> FALSE, loading |-> TRUE, cycle_started |-> 0, restored |-> FALSE,
   staging |-> NoStaging]

\* Store::restore: rows the cache held are painted, before anything is received.
Restored(t) ==
  [t EXCEPT !.rows = [r \in Rows |-> 0], !.restored = TRUE, !.loading = FALSE]

Init ==
  /\ table \in {Fresh, Restored(Fresh)}
  /\ channel = <<>>
  /\ task = [s \in Subs |-> NoTask]
  /\ live = {}
  /\ generations = 0
  /\ cycles = 0
  /\ walked = 0

---------------------------------------------------------------------------
(* Store::apply, one operator per message. *)

ApplyStarted(t, g) ==
  IF g <= t.generation \/ t.cycle_started >= g THEN t
  ELSE [t EXCEPT !.cycle_started = g]

ApplyPage(t, g, page) ==
  IF g <= t.generation \/ t.staging.gen > g THEN t
  ELSE [t EXCEPT !.staging = [gen |-> g, pages |-> IF @.gen = g THEN @.pages \cup {page}
                                                   ELSE {page}]]

\* The cycle that set the clock ends it, and no other.
StopClock(t, g) == [t EXCEPT !.cycle_started = IF @ = g THEN 0 ELSE @]

\* The staged pages are this cycle's.
Lands(t, g) == t.staging.gen = g

ApplyComplete(t, g) ==
  LET landed == [StopClock(t, g) EXCEPT !.rows = [r \in t.staging.pages |-> t.staging.gen],
                   !.restored = FALSE, !.generation = g, !.staging = NoStaging]
      kept == IF Lands(t, g) THEN landed ELSE StopClock(t, g)
  IN  IF g < t.generation THEN t
      ELSE [kept EXCEPT !.polled = TRUE, !.error = FALSE, !.not_served = FALSE,
                        !.loading = FALSE]

\* Mutant: a single read lands however old it is.
ApplyEntityAny(t, g, row) ==
  [t EXCEPT !.rows = [r \in DOMAIN @ \cup {row} |-> IF r = row THEN g ELSE @[r]],
            !.loading = FALSE]

ApplyEntity(t, g, row) ==
  IF g < t.generation THEN t
  ELSE [t EXCEPT !.rows = [r \in DOMAIN @ \cup {row} |-> IF r = row THEN g ELSE @[r]],
                 !.loading = FALSE]

ApplyError(t, g, missing) ==
  LET stopped == StopClock(t, g)
  IN  IF g < t.generation THEN t
      ELSE [stopped EXCEPT !.not_served = @ \/ missing, !.error = TRUE, !.loading = FALSE,
                           !.staging = IF @.gen <= g THEN NoStaging ELSE @]

Apply(t, m) ==
  CASE m.kind = "started" -> ApplyStarted(t, m.gen)
    [] m.kind = "page" -> ApplyPage(t, m.gen, m.page)
    [] m.kind = "complete" -> ApplyComplete(t, m.gen)
    [] m.kind = "entity" -> ApplyEntity(t, m.gen, m.page)
    [] m.kind = "error" -> ApplyError(t, m.gen, m.missing)

\* Mutant: only the staged pages of an abandoned walk are dropped.
AbandonPages(t) == [t EXCEPT !.staging = NoStaging]

\* Store::abandon: what describes a walk nobody will end is dropped.
Abandon(t) == [t EXCEPT !.cycle_started = 0, !.staging = NoStaging]

---------------------------------------------------------------------------
(* A subscription's task. *)

Message(kind, s, page, missing) ==
  [kind |-> kind, sub |-> s, shape |-> task[s].shape, gen |-> task[s].gen, page |-> page,
   missing |-> missing]

\* Mutant: a sender never waits for the channel.
PushAny(m) == channel' = Append(channel, m)

\* A full channel parks the sender.
Push(m) ==
  /\ Len(channel) < CHANNEL
  /\ channel' = Append(channel, m)

Go(s, at) == task' = [task EXCEPT ![s].at = at]

\* Nothing of a cycle outlives it in its task.
Rest(s, at) == task' = [task EXCEPT ![s] = [NoTask EXCEPT !.at = at, !.shape = task[s].shape]]

HasView == \E s \in live : task[s].shape = "list"

\* A view opens its list or, over that, its detail (one of each over this key); an action's
\* row is refreshed while the view shows it; a picker lists; a task is watched.
Subscribe(s) ==
  /\ task[s] = NoTask
  /\ \A r \in Subs : r < s => task[r] # NoTask
  /\ \E shape \in Shapes :
       /\ shape \in {"detail", "once"} => HasView
       /\ shape \in {"list", "detail"} => \A r \in live : task[r].shape # shape
       /\ task' = [task EXCEPT ![s] = [NoTask EXCEPT !.at = "begin", !.shape = shape]]
  /\ live' = live \cup {s}
  /\ UNCHANGED <<table, channel, generations, cycles, walked>>

\* An attempt takes the next generation; nothing orders its messages by it.
Allocate(s) ==
  /\ task[s].at = "begin"
  /\ task[s].second \/ cycles < MaxCycles
  /\ generations' = generations + 1
  /\ cycles' = IF task[s].second THEN cycles ELSE cycles + 1
  /\ task' = [task EXCEPT ![s].at = IF @ = "begin" /\ task[s].shape \in Lists
                                      THEN "announce" ELSE "fetch",
                          ![s].gen = generations + 1, ![s].page = 0]
  /\ UNCHANGED <<table, channel, live, walked>>

Announce(s) ==
  /\ task[s].at = "announce"
  /\ Push(Message("started", s, 0, FALSE))
  /\ Go(s, "fetch")
  /\ UNCHANGED <<table, live, generations, cycles, walked>>

\* A page arrives and is pushed; the walk ends with the collection, its row budget or a
\* stop by hand, and without a page when the probe says nothing changed.
FetchPage(s) ==
  LET page == task[s].page + 1 IN
  /\ task[s].at = "fetch" /\ task[s].shape \in Lists
  /\ Push(Message("page", s, page, FALSE))
  /\ \E more \in {page < Pages, FALSE} :
       task' = [task EXCEPT ![s].page = page, ![s].result = "ok",
                            ![s].at = IF more THEN "fetch" ELSE "ended"]
  /\ UNCHANGED <<table, live, generations, cycles, walked>>

SkipWalk(s) ==
  /\ task[s].at = "fetch" /\ task[s].shape = "list" /\ task[s].page = 0
  /\ task' = [task EXCEPT ![s].at = "ended", ![s].result = "ok"]
  /\ UNCHANGED <<table, channel, live, generations, cycles, walked>>

\* The row a single subscription reads.
Row == 1

FetchOne(s) ==
  /\ task[s].at = "fetch" /\ task[s].shape \notin Lists
  /\ Push(Message("entity", s, Row, FALSE))
  /\ task' = [task EXCEPT ![s].at = "ended", ![s].result = "ok"]
  /\ UNCHANGED <<table, live, generations, cycles, walked>>

\* A request fails.  A list's first 404 is asked again at once under a new generation.
FetchFails(s) ==
  /\ task[s].at = "fetch" /\ task[s].shape \in Failing
  /\ \E result \in Results \ {"ok"} :
       LET again == result = "missing" /\ task[s].shape \in Lists /\ ~task[s].second IN
       task' = [task EXCEPT ![s].at = IF again THEN "begin" ELSE "ended",
                            ![s].second = @ \/ again, ![s].result = result]
  /\ UNCHANGED <<table, channel, live, generations, cycles, walked>>

NotServed(s) == task[s].result = "missing" /\ task[s].shape \in Lists

Ending(s) ==
  IF task[s].result = "ok" THEN Message("complete", s, task[s].page, FALSE)
  ELSE Message("error", s, 0, NotServed(s))

\* How the cycle ended is reported; the task sleeps, returns, or is over.
End(s) ==
  /\ task[s].at = "ended"
  /\ Push(Ending(s))
  /\ Rest(s, IF task[s].shape \in Onces THEN "done"
             ELSE IF NotServed(s) \/ task[s].result = "refused" THEN "returned" ELSE "sleep")
  /\ UNCHANGED <<table, live, generations, cycles, walked>>

\* Mutant: a once is removed where it ends instead of where it is heard of.
FinishReaps(s) ==
  /\ task[s].at = "done"
  /\ Go(s, "returned")
  /\ live' = live \ {s}
  /\ UNCHANGED <<table, channel, generations, cycles, walked>>

\* Msg::Done, after everything the cycle sent.
Finish(s) ==
  /\ task[s].at = "done"
  /\ Push(Message("done", s, 0, FALSE))
  /\ Go(s, "returned")
  /\ UNCHANGED <<table, live, generations, cycles, walked>>

\* The next cycle of a task that sleeps, or Scheduler::refresh on one that returned.
NextCycle(s) ==
  /\ task[s].at = "sleep" \/ (task[s].at = "returned" /\ task[s].shape \notin Onces)
  /\ s \in live
  /\ Go(s, "begin")
  /\ UNCHANGED <<table, channel, live, generations, cycles, walked>>

---------------------------------------------------------------------------
(* The receiver. *)

\* Mutant: every message of a live subscription reaches the store.
HearsAll(m) == TRUE

\* The detail pane keeps its own failures and completions.
Hears(m) == m.shape = "detail" => m.kind = "entity"

\* App::apply: a dead subscription's messages are dropped, a finished once is reaped.
Receive ==
  /\ channel # <<>>
  /\ channel' = Tail(channel)
  /\ LET m == Head(channel)
         heard == m.kind # "done" /\ m.sub \in live /\ Hears(m)
     IN  /\ table' = IF heard THEN Apply(table, m) ELSE table
         /\ walked' = IF table'.generation # table.generation THEN m.page ELSE walked
         /\ live' = IF m.kind = "done" THEN live \ {m.sub} ELSE live
  /\ UNCHANGED <<task, generations, cycles>>

\* A view is popped, its detail before it: the task is aborted and a list's walk abandoned.
Unsubscribe(s) ==
  /\ s \in live /\ task[s].shape \notin Onces
  /\ task[s].shape = "list" => \A r \in live : task[r].shape # "detail"
  /\ live' = live \ {s}
  /\ Rest(s, "returned")
  /\ table' = IF task[s].shape = "list" THEN Abandon(table) ELSE table
  /\ UNCHANGED <<channel, generations, cycles, walked>>

---------------------------------------------------------------------------

\* What a task does without being asked.
Cycle(s) ==
  \/ Allocate(s) \/ Announce(s) \/ FetchPage(s) \/ SkipWalk(s) \/ FetchOne(s)
  \/ FetchFails(s) \/ End(s) \/ Finish(s)

Next ==
  \/ \E s \in Subs : Subscribe(s) \/ Cycle(s) \/ NextCycle(s) \/ Unsubscribe(s)
  \/ Receive

\* A request is answered or fails, and the receiver goes on draining.
Fairness == WF_vars(Receive) /\ \A s \in Subs : WF_vars(Cycle(s))

Spec == Init /\ [][Next]_vars /\ Fairness

---------------------------------------------------------------------------
(* Properties. *)

Generations == 0..generations

Messages ==
  [kind : {"started", "page", "complete", "entity", "error", "done"}, sub : Subs,
   shape : Shapes, gen : Generations, page : 0..Pages, missing : BOOLEAN]

\* Types, and the bound on the channel; no generation is ahead of the counter.
TypeOK ==
  /\ DOMAIN table.rows \subseteq Rows
  /\ \A r \in DOMAIN table.rows : table.rows[r] \in Generations
  /\ {table.generation, table.cycle_started, table.staging.gen} \subseteq Generations
  /\ table.staging.pages \subseteq Rows
  /\ {table.polled, table.error, table.not_served, table.loading, table.restored} \subseteq BOOLEAN
  /\ Len(channel) <= CHANNEL /\ \A i \in DOMAIN channel : channel[i] \in Messages
  /\ task \in [Subs -> [at : Stages, shape : Shapes \cup {"none"}, gen : Generations,
                        page : 0..Pages, second : BOOLEAN, result : Results]]
  /\ live \subseteq Subs /\ walked \in 0..Pages

T == INSTANCE Table WITH
       rows <- table.rows, walk <- table.generation, not_served <- table.not_served,
       walking <- table.cycle_started

\* The store is a Table: the rows on screen are every page one walk read and none that
\* another walk read, and what is not that walk's was read since by a single GET
\* (Update::Complete replaces the rows by the staged ones; "dropping a Page would silently
\* truncate a generation", scheduler.rs); "not served" and the clock change with it.
Implements == T!Spec

\* Whatever a once sent is still addressed to a live subscription when it is received:
\* none of it is gated out (Msg::Done is sent last and the receiver reaps).
OnceIsHeard ==
  \A i \in DOMAIN channel : channel[i].shape \in Onces => channel[i].sub \in live

\* A standing "not served" is taken back by a cycle that completes and never by a failure
\* or by what a detail over the same key reports (Table.not_served, App::apply's detail arm).
NotServedStands ==
  [][table.not_served /\ ~table'.not_served =>
       Head(channel).kind = "complete" /\ Head(channel).shape # "detail"]_vars

\* A table never says it is listing for ever: a walk that began is ended by its own
\* completion or failure, by a newer one, or by being abandoned (Table.cycle_started).
ClockStops == table.cycle_started # 0 ~> table.cycle_started = 0
===========================================================================
