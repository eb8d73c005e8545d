# Nutsh, specified

Nutsh is a terminal client for Nutanix Prism Central: it polls tables, keeps them in a store,
draws them, and runs actions on what they show. This directory holds TLA+ models of the parts
whose correctness depends on order, concurrency or failure, the TLC configurations that check
them on small instances, and TLAPS proofs of their safety, for every value of the constants.

Paths below are relative to the repository. `PROJECT.json` names, for each definition, the lines
it models.

## 1. The system

| Part | State | Operations | Properties that make it correct |
|---|---|---|---|
| Session, credential, valve (`crates/prism/src/client/session.rs`, `valve.rs`) | the cookie jar with its generation, what was said of the credential, one permit, a latch | `send`, `attempt`, `carry`, `session_alive` | one password out at a time; a refused one refused once, then silence; a live session kept; every call returns |
| Pacing (`client/pacing.rs`, `bucket.rs`, `limits.rs`) | a sliding window per operation and one for the host, each with a hold | `acquire`, `drain_bucket`, `observe_limits` | no tier exceeded between holds, holds honoured, no freeze |
| Store (`crates/core/src/store.rs`) | per table: rows, staged pages, generation, walk clock, error, not served | `apply` of five messages, `restore`, `abandon` | rows are one whole walk; flags and clock are taken back by the right message only |
| Scheduler (`crates/core/src/scheduler.rs`, `scheduler/cycle.rs`, `probe.rs`) | a task per subscription, its wake, armed, stop, idle and interval flags, its probe | `subscribe`, `unsubscribe`, `reap`, `refresh`, `stop`, `set_interval`, `set_idle`, the cycle | what was asked for begins, silence is kept, a skipped walk is one nothing was lost by |
| Poll receiver, view stack (`crates/tui/src/app/messages.rs`, `nav.rs`) | the live subscriptions, the stack of views, the open detail | `apply`, `pop`, `tick`, `woke`, `refresh_row` | messages of dead views dropped, those of a finished one-shot not |
| Requests (`client/requests.rs`) | none of its own | lists, reads, `act`, `update` | no lost update; a listing that moves while it is read |
| Negotiation (`client/negotiate.rs`) | pins, statuses, adopted, missing | `negotiate`, `adopt_pins`, `repair_after` | a stale pin is repaired, and not in a loop; a kind is given up for its own 404, and not for ever |
| Actions and permissions (`tui/src/app/actions.rs`, `core/src/can_i.rs`, `guardrails.rs`) | marks, the form or confirm and the rows it is for, a claimed index | `start`, `submit_form`, `confirm_or_run`, `run_pending`, `claim`, `set`, `invalidate` | what is sent was asked for, where it was listed and where it may go; a refuted permission stays refuted |
| Task watches and journal (`core/src/tasks.rs`, `journal.rs`) | watches, a ring of attempts | `acted`, `watch`, `apply`, `settle` | an attempt is settled by its own outcome, and is settled |
| Connecting, contexts, peers (`tui/src/app/session.rs`, `core/src/session.rs`) | the live session and its generation, the peers, the connects in flight | `connect`, `attach`, `start_join`, `joined`, `keep_peers` | nothing of one session reaches the next; what is polled is what is looked at |
| Cache (`core/src/cache.rs`) | a directory of files | `write`, `read`, discard, sweep | rows read back are one Prism Central's; nothing newer is touched |
| Background pollers, metrics, log, search, presentation, configuration, catalog, mock, binary | counters, screens, files | | see section 9 |

How they interact. Every poller, action and background task calls `Client::send`, which first
spends a token of two shared budgets (pacing), then decides what the request carries (session),
and feeds the answer back into both. Pollers are tokio tasks that push messages, tagged with a
generation from one shared counter, into one channel of 64; the UI thread drains it, drops what
belongs to no live subscription and applies the rest to the store. The UI reaches a task only
through the atomics and the `Notify` of its `Controls`.

What is hard. Requests of many tasks interleave at every await and share the jar, the permit,
the latch and the budgets. Sessions end and passwords change behind the client's back. A 429 may
come to any of them and its retry bypasses the gates. Cycles over one key - a list, its detail, a
refresh after an action, a picker - take generations in one order and send in another. Flags are
read at one moment and the task acts at another. A list's 404 may be the pin's and not its own, and
what is made of it - a task that ends, a counter that is dropped, a kind remembered as missing -
outlives the pin. Rows are chosen, confirmed and sent at three
moments, and the answer comes at a fourth, when peers may have gone and the session may be
another. Processes share the cache directory without a lock. `PROJECT.json` lists each of these
under "hazards" at the line where it bites.

## 2. Modules

| Module | Models | Is used by |
|---|---|---|
| `Auth` | authentication of one client against a Prism Central | `MCAuth`, `AuthProofs` |
| `Bucket` | one budget, as operators | `Pacing` |
| `Pacing` | the budgets of one client, their callers, and time | `MCPacing`, `ClientProofs` |
| `Table` | what a table promises: the abstract specification of `Store` | `Store` |
| `Store` | one table, the tasks that write it, the channel and the receiver | `MCStore`, `StoreProofs` |
| `Scheduler` | one subscription's task, its controls and its probe | `MCScheduler`, `SchedulerProofs` |
| `Peers` | the session, its peers, the views and what is polled for them | `MCPeers`, `PeersProofs` |
| `Actions` | from the key to the requests, and the permissions | `MCActions`, `ActionsProofs` |
| `Watches` | from the requests to the journal's last word | `MCWatches`, `WatchesProofs` |
| `Cache` | one context's directory and the processes at it | `MCCache`, `CacheProofs` |
| `Negotiate` | one namespace's pin, and who asks under it | `MCNegotiate`, `ClientProofs` |
| `AuthProofs`, `StoreProofs`, `SchedulerProofs`, `PeersProofs`, `ActionsProofs`, `WatchesProofs`, `CacheProofs`, `ClientProofs` | the theorems about each (section 6) | |

The modules are cut where the code is. `Pacing` sends a request without asking what it carries,
`Auth` waits for its pacing without asking how long, `Store` lets a sleeping task wake at any time
and `Scheduler` says when, and lands a walk in one step where `Store` shows how. `Negotiate` asks
where a list is sent and nothing else that may become of it. `Actions` ends where a request goes
out and `Watches` begins there, with any action on any context; `Peers` and these two each let the
session and its peers change as they will. Each hides from the others only choices it leaves open,
so a property of one is not bought by another's absence.

**Auth.** A slot is a task in `Client::send`. Its stages are the awaits: `paced` (in `acquire`),
`gate` (waiting for the permit), `wire`, `reply` (an answer decided by the far end and not yet
handled), `pause` (a Retry-After, or the pacing of the liveness check). `Attempt` is `attempt` up
to `carry`'s wait, `Carry` what is behind the permit, `SessionRefused`, `LivenessChecked` and
`Settled` the three ends of `attempt` (`Settled` with the body's arrival, which may fail). `jar` is `Jarred` (one cookie stands for the jar's), `auth`
is `AuthState`, `gate` the permit's holder, `valve` its count and latch. The Prism Central is
external: a password that may stop being accepted, sessions that may end, URLs it denies whatever
they carry, 429s, and three ways with cookies - honoured, set and ignored, never set. `gaveUp` is a
history variable: the jar was unusable at some point. The valve's `WINDOW` of ten minutes is
taken to be longer than a behaviour, so refusals do not age out: more latching, never less.

**Bucket, Pacing.** Real instants become ages: a take is `n` ticks old, a hold has `n` ticks left,
saturating at `Forever`, so time is unbounded and the states are finite. `Expired` is how many takes
the loop of `take` pops from the front and `Live` the suffix that is left, which is what `live`
filters out of a deque in order of time; that it is in order is part of `PacingTypeOK`. `Acquire` is
one turn of the loop; `Answered` and `RateLimited` apply `observe_limits` before anything else, as
the code does. `went`, `since` and `held` are histories: when tokens were spent, which of these the
window still answers for - those since the far end last held the budget and since its window last
grew longer - and how much longer the far end asked each budget to hold. They are what the
properties compare the code's own state with.
`PacingInit`, `PacingNext`, `PacingSpec` and `PacingTypeOK` are the module's `Init`, `Next`, `Spec`
and `TypeOK`, so named because `ClientProofs` extends it beside `Negotiate`.

**Table, Store.** The collection has one row per page; a row holds the generation of the cycle
that read it. `ApplyStarted` ... `ApplyError` are the arms of `Store::apply`. A task takes its
generation (`Allocate`) and sends its messages one by one, parking on a full channel; `Receive` is
`App::apply`, with the live gate, the detail arm and the reaping of a one-shot. `Unsubscribe` pops
a view: abort, and `Store::abandon` for a list. `walked` is a history: how many pages the walk on
screen had. `Table` has no tasks, staging, channel or messages: a newer walk lands whole (`Land`),
a cycle confirms, a single read is laid over, a cycle fails, a walk begins or is abandoned.
`Implements` maps its `rows`, `walk`, `walked`, `not_served` and `walking` to the store's rows,
generation, `walked`, `not_served` and `cycle_started`, and says every step of `Store` is one of
these or leaves all five alone.

**Scheduler.** `controls` are the flags of `Controls` (`permit` is the one stored permit of
`Notify`), `probe` the `ProbeCell`. `Begin` ... `End` are the cycle cut at its requests, `Wait`,
`TimerFires` and `Woken` are `wait_for_cycle`, with the flags it reads at each end of the sleep and
no others. `far` is the collection: its version and the version its newest row shows; a change the
probe cannot see moves the first only.

**Peers.** A scheduler is a number no other ever has, as `NEXT_EPOCH` and `NEXT_SUB` make them; a
subscription is the scheduler that polls it and the view it is for. `live`, `peers`, `stack` are
`Live`'s - `peers` the set of the names joined, each with its scheduler - with `peerSubs` the
`peer_subs` of a view; `pending`, `joining` the app's. `wire` is what is in flight: the connect of a
session and the joins of peers, which nothing cancels. `SwitchTo` is `switch_to` with `attach` and
`reopen`, `Joined` is `joined` with `forget_peer` and `subscribe_peers`. `mail` and `shown` are the
poll channel and whose data reached the store: the tables' messages by subscription, the background
pollers' by generation.

**Actions.** One top-level table. `Shown` is the merged table, `UnderCursor` the row at the cursor's
place in the view's order; marks and pending rows are sets. `FindRow` is where an id is found, a
bare one by falling back to the peer. `Start`, `SubmitForm`, `ConfirmOrRun`, `RunPending` are the
functions of these names, each with its refusals in the order the code asks them. `Poll` may list
any rows next, and `Join` may come whatever has the keys. `can_i` is the `CanICell`, `resolving` the
lookups in flight, `Answer` the 403 that invalidates it. Two histories: `asked`, what the open
confirm names, and `after`, how many 403s had been heard when a lookup began.

**Watches.** `journal` is the ring, with the attempt each entry is about and the one that settled
it (`by`, a history). `work` is the worker of a batch, one request after another; `Answer` reports
through the channel, `Receive` is `App::apply` for `Acted` and for a watched task's row, `Poll`
the watch's subscription. `Join`, `Drop` and `Switch` move the session under them; `left` marks
the attempts whose peer was dropped.

**Cache.** A file is there or not, because it is written by a rename; its rows are known by the
target whose they are. `WriteTable`, `Evict`, `WriteMeta`, `SweepTable` are `write` cut at each
file, `ReadTable` ... `Restored` are `read`, `Discard` the removals entry by entry. A process may
die anywhere and come back as a newer build or with its context pointed at another Prism Central,
or be pointed there without dying (`Repoint`) while an older write is still under way.

**Negotiate.** A requester is a table of a kind or a counter. A table is opened where its kind is
available (`Open`) or by `:try` (`AskAnyway`), its cycles come one after the other and ask whatever
has become of the kind since (`Ask`), a second 404 ends its task until `^r` (`Refresh`), and closing
it drops the task wherever it is, a repair included (`Close`). A counter asks where its kind is
available and not known to be missing (`Ask`), and is not asked again once it is refused. `Send`
routes the request, `Answer` is the end of `list_page_at`, with `repair_after` inside it, `Probe` one
request of `negotiate_namespace`, `Report` what the cycle or the counter makes of the error: the
second attempt and `mark_missing`, or the drop. The Prism Central serves one of the sets of versions
in `Serves`; a service may still be starting. A list or a probe may meet a service that is down, a
refusal (only of a version that is served) or what is host-wide. The session starts with any pin of
the last run or with what a negotiation may have found. `pin`, `status` and `adopted` are behind
three locks taken one after the other, and change in one step here. `gap` and `marked` are
histories: the time since a repair, and what was behind a remembered 404.

## 3. Runs

| Run | Bounds | States | What it asks |
|---|---|---|---|
| `auth` | 2 tasks, 3 calls, 3 URLs (2 denied), 2 throttles, 1 fault; the code's RENEWALS, GIVE_UP_RENEWALS and PRESENTATIONS | 204 k | the gate's safety, and that calls come back |
| `auth_denied` | the same | to the violation | finding 2 |
| `pacing` | 2 tasks, 2 operations, tiers of 1 and 2 per 2 ticks, 5 headers (one of a window of 1 tick), holds of half a window and of more than the maximum, 2 holds in a behaviour | 419 k | tiers, holds, tokens, no freeze |
| `pacing_short_hold` | the same | to the violation | finding 3 |
| `store` | two pages, 3 subscriptions (list, detail, post-action), 2 cycles besides retries, a channel of 2, failures of list and detail | 295 k | `Store` implements `Table`; flags, clock, one-shots, the channel |
| `scheduler` | 3 calls of six kinds, 1 failure, 2 changes, a missing endpoint, MAX_SKIPS of 2 | 362 k | what is asked for begins, the pause is quiet, the table catches up |
| `peers` | 3 contexts (1 without a password), 3 schedulers, 3 views, 1 message in the channel | 1.06 M | sessions, peers and what is polled |
| `watches` | 2 contexts, 2 sessions, 1 join, 2 attempts in one batch or two, 3 entries, a ring and a channel of 2 | 467 k | entries, watches and their ends |
| `actions` | 3 merged rows of 2 contexts (one extId in both), one action that confirms and one with a form, bulks of 2, 1 refusal, 1 change of roles | 447 k | what is sent, and what is known of the account |
| `actions_judged` | the same with a read-only peer and an action without a confirm | to the violation | finding 1 |
| `cache` | 2 processes, 2 tables, 2 targets, 2 formats, 2 writes at once in a process, 3 turns, 1 restart or edit | 1.44 M | what is read back, and what is left alone |
| `negotiate` | 3 versions, 2 kinds (since 1 and 2), a table of the newer and a counter of the older, 1 fault, an interval of one tick, 4 sets of served versions and every pin | 533 k | pins and remembered 404s |

Why the bounds are enough. Two tasks already hold every pair of steps the permit, the jar and the
budgets can see; a third call is what finds a session dropped, replaced, and refused again, and
gives reuse up (two refusals). Two operations are one that shares only the host ceiling with the
other. Windows of two ticks have an age inside, at and past the edge. Three subscriptions over one
key are a view, what covers it and what an action adds; two pages are a walk another can fall
into; a channel of two is full with one message behind another. MAX_SKIPS is 2 where the code has
9: the bound is reached, and a skip follows a skip. Three schedulers are a session, its peer and
either's successor under the same name; three views are a page, a table over it and what is opened
next. A ring of two entries with three ids drops one; two attempts are a batch of two rows or one
that answers after the other. Three rows under two contexts have an extId both hold, and two marks
that a poll can move apart. Two jobs of one process and one of another are every pair of writers,
and three turns a write, a read and what comes between. Three versions are one to fall from, one
to step past and one to land on; none served, the oldest, the middle one without its neighbours
and the newest two are every place a pin may stand to what is served. Two denied URLs are what it
takes for the check of one to be made on the other. A hold of half a
window ends inside it. `MaxCalls`, `MaxThrottles`, `MaxFaults`, `MaxSubs`, `MaxCycles`,
`MaxFails`, `MaxChanges`, `MaxSchedulers`, `MaxViews`, `MaxMail`, `MaxSessions`, `MaxEntries`,
`MaxAttempts`, `MaxJoins`, `MaxFlight`, `MaxRefused`, `MaxMoves`, `MaxJobs` and `MaxTurns` bound a
behaviour and nothing else. Everything may stop when nobody asks for more, so the configurations
do not check for deadlock, but for those of `pacing`, where time always passes.

The properties, in short (each is stated in full above its definition):

- `OnePresenter`, `RefusedOnce`, `StopsOnceLatched`, `AuthMeansRefused`, `LiveSessionKept`,
  `CallsComeBack` - the account cannot be locked out, and is not said to be.
- `TierKept`, `HoldHonoured`, `NoTokenBurnt`, `NoFreeze` - pacing.
- `Implements`, `OnceIsHeard`, `NotServedStands`, `ClockStops` - a table says what was read.
- `AskedIsServed`, `IdleIsQuiet`, `CatchesUp` - the polling task.
- `SubsMatchViews`, `OwnData`, and the join of a peer in flight once at a time, in `TypeOK` -
  sessions and peers.
- `SentWasAsked`, `RefutedForgotten`, `LookupEnds` - from the key to the request.
- `OwnStory`, `WatchedAtHome`, `StoryEnds` - from the request to the journal.
- `OwnRows`, `WriteLands`, `NewerLeftAlone` - the cache.
- `MissingIsOwn`, `RepairsSpaced`, `WayBack` - the pins.

`store` has every failure and every pop under which the code is a `Table`. A refresh, a watch or a
picker that fails, and a picker over a view's key, are where it is not (section 4). Walks that
overlap and are all heard are pickers', which this run has none of: `StoreIsATable` (section 6)
proves it for any number of them, of any number of pages.

Three of these are what is left of a stronger sentence of the code's own that a run refutes.
`LiveSessionKept` names the two ways a live session is lost (finding 2, and `StaleDropsNothing`
below) and says there is no third; three calls do not reach the second of them. `TierKept` counts
from the last hold and from the last answer that made the window longer, where `TierOverAnySpan`
(finding 3) counts always. `MissingIsOwn` is about versions a probe found, where
`MissingIsOwnAlways` (below) is about all.

## 4. Findings

Three disagreements between the code and what is said of it are runs that TLC must find violated:

1. `actions_judged`: the refusal looks at the context of the row under the cursor
   (`actions.rs:141`) and the verdict at the session's own name (`actions.rs:347`); the rows go
   each to their own (`actions.rs:429`). With the cursor on a row of the session's own, a marked
   row of a read-only peer is acted on; a guardrail that denies or confirms by a peer's name is
   passed by in the same way, against `app.rs:392`.
2. `auth_denied`: an answer of 429 that outlived its retry is remembered as an answer
   (`session.rs:730`) and says nothing of the session. On a URL that denies the account it is then
   what a 401 of another such URL is checked on, and a live session is dropped, against
   `CONTRIBUTING.md:146`: "A 401 on a session is proven an expiry before a password goes out".
3. `pacing_short_hold`: the end of a hold clears the window (`bucket.rs:96`) and a hold is as long
   as a `Retry-After`, which may be shorter than the window (`client.rs:255`): the tier is exceeded
   over a span, against `bucket.rs:15`: "can never exceed the tier over any span".

The others were found on the way. Each has a definition in its module, and TLC refutes it with the
constants given here; no run lists them with these (`Implements` is listed where it holds).

| Definition | What the code does | What is said | Refuted by |
|---|---|---|---|
| `Implements` | a single read that fails in mid-walk discards the list's staged pages (`store.rs:513`): the walk's last pages and its `Complete` land a truncated table. A picker's walk loses its pages to `Store::abandon` in the same way when a view of its key is popped | `store.rs:266`: "The cycle failed; the rows stay, and any staging in progress for it is discarded" | `Store.cfg`, lists and post-action refreshes, of which the refreshes fail |
| `StaleDropsNothing` | `set_cookies` replaces a cookie within its generation (`session.rs:408`), and `expire` compares generations alone (`session.rs:180`): the 401 of a request that carried the old session drops the new one | `session.rs:174`: "The session behind `generation` was refused: drop it" | `Auth.cfg`, 6 calls, one URL and none denied, no throttle, no fault |
| `PacedAtMost` | a stated tier of zero is compared before it is clamped to one (`bucket.rs:151`), and an operation of two a minute is paced at one a second | `pacing.rs:171`: "a header may lower it, never raise it" | `Pacing.cfg`, `Headers <- MCZeroHeaders` |
| `MissingIsOwnAlways` | within a minute of a repair, or with a probe that was aborted, the second 404 is of the same stale version and the kind is held missing until a cycle completes | `cycle.rs:40`: "only a second 404 is the endpoint's own" | `Negotiate.cfg` |
| `StalePinEnds` | the repair a counter's 404 began is aborted, or is not due; the counter is dropped for that 404 (`stats.rs:277`) and a stale pin that no table asks under stays | `negotiate.rs:54`: "a false "served" costs one 404 that the lazy repair corrects" | `Negotiate.cfg` |
| `DroppedForGood` | a 404 whose repair succeeded drops the counter too, though its next request would be answered | `stats.rs:296`: "A refusal is the same on every cycle" | `Negotiate.cfg` |
| `CounterNeverReachesTwo` | once reuse is given up, `carry` (`session.rs:546`) presents without the gate: two requests in flight are both refused | `valve.rs:17`: "this counter should never reach two" | `Auth.cfg`, 4 calls, no throttle, one URL |
| `StopHolds` | the end of a sleep looks at the idle flag and not at the stop (`cycle.rs:141`): one more cycle | `scheduler.rs:520`: "pause until `Scheduler::refresh`" | `Scheduler.cfg` |
| `SkipsUnchanged` | a change between the calibrating walk and its probe is taken for the baseline (`cycle.rs:315`): up to nine walks that would show it are spared | `probe.rs:1`: "whether a table changed since the last walk" | `Scheduler.cfg` |
| `OwnStoryAlways` | `Acted` names an id and no session (`messages.rs:21`), and ids start again with each session: an answer that crosses a switch settles another attempt's entry | `journal.rs:131`: "one row tells the whole story" | `Watches.cfg` |
| `RunningArePolled` | the watches of a dropped peer stay in the index, and expire, which would end them, has no caller | `tasks.rs:285`: "the watches still being polled" | `Watches.cfg` |
| `PeersInView` | a table that is covered when a peer joins is not listed from it when a pop uncovers it | `app.rs:201`: "every top-level table view lists it too" | `Peers.cfg` |
| `PrimaryIsNoPeer` | a join in flight when its context becomes the session is still answered: the session is joined beside itself | `app/session.rs:393`: "{name} is the session" | `Peers.cfg` |
| `FormAccepts` | `submit_form` looks for its rows under bare ids in the session's own table (`form_screen.rs:158`): a form for a peer's rows can never be submitted | `form_screen.rs:151`: "the first of the pending rows still in the store" | `Actions.cfg` |
| `NewerLeftAloneAlways` | the format is read before the first file is written and not again: an older build's write can fall into a newer one's | `cache.rs:21`: "an older nutsh cannot clobber a newer one's directory" | `Cache.cfg` |

Smaller things a reader of the models will meet. A 5xx met by a repair's probe leaves the
namespace "down" and no longer adopted: it is never probed again in that session. Cancelling the
login box keeps `pending_peers`, which the next session then joins. A bare id whose row the session
loses is found at the peer that holds the same extId, and acted on there. A lookup that answers
"no" while a confirm is open does not stop it. `keep_peers` leaves the cursor past the end of a
table that became shorter. Two overlapping writes of one process may leave a meta that names a file
the other swept, and an eviction removes a file the old meta still names: both are read as a file
that is gone. A task that was respawned by a refresh keeps its armed wake, and taking its schedule
away rings it once more; `IdleIsQuiet` leaves that cycle out. The comments at `app.rs:264` (a
replicated row "shows once": rows are keyed by context too) and `app/session.rs:143` (subscription
ids "restart with the new scheduler": they are global) are older than the code.

## 5. Fairness

- `Auth`: weak fairness for each task's own steps, and for the answer or the failure of its
  request. A tokio task that is ready runs; the permit is a fair semaphore's, and weak fairness
  per task is enough because a holder gives it back in its own step; `reqwest` has a timeout of
  its own (`client.rs:273`), so a request ends. The far end owes nothing: sessions and passwords
  may end for ever.
- `Pacing`: time passes, and a task whose sleep is over runs. Answers are not fair: `NoFreeze`
  ends at the wire.
- `Store`: the receiver goes on draining, and a task that can go on does. Nobody is obliged to
  subscribe, pop or refresh.
- `Scheduler`: weak fairness for the task as a whole. `select!` picks among what is ready at
  random, so between a sleep and a wake that stay ready the wake is not passed over for ever:
  strong fairness for `Woken`. Calls, changes and failures owe nothing, and failures are finite.
- `Actions`: a lookup is read and its answer delivered, whatever it says; nobody has to press a
  key or answer a confirm.
- `Watches`: requests are answered (they have a timeout), the receiver drains, tasks end, and each
  watch that may be polled again and again is polled: strong fairness, because its guard comes and
  goes with the room in the channel. Peers that are dropped owe nothing: `StoryEnds` leaves them
  out.
- `Negotiate`: time passes, a request that is out is answered or fails, and an open table's next
  cycle and a counter's round come: both run on a timer, of which `Scheduler` shows that a schedule
  that is neither off nor paused fires. Nobody has to open a table, to close one or to press `^r`:
  `WayBack` is about a table that is open and whose task has not ended.
- `Peers` and `Cache` state no liveness: a person or a process may stop anywhere.

## 6. Proofs

Each theorem is about `Spec` (`PacingSpec` for pacing), for every value of the constants that the
named assumption of its module admits: the sets may be of any size, and the bounds that keep TLC's
states finite any naturals. All but the action properties and `Implements` have the form
`Spec => []P`. The assumptions say that bounds are naturals (those the code has as capacities,
positive), that a stand-in for "none" is not in the set it completes, and the shape of constants
that are functions or records. Of pacing they say besides that there are operations and finitely
many, none of them called as the host is, and that what answers may advertise is a finite set - its
counts are 32 bits in the code; without it there is no widest tier. The code's own constants
satisfy each.

| Module | Theorem | Property |
|---|---|---|
| `AuthProofs` | `TypeCorrect` | `TypeOK` |
| | `SingleFlight` | `OnePresenter` |
| | `PresentedOnce` | `RefusedOnce` |
| | `HonestRefusal` | `AuthMeansRefused` |
| | `TerminalRefusal` | `StopsOnceLatched`, an action property |
| | `LiveSessionsStay` | `LiveSessionKept`, an action property, where `PROBE_URLS` is more than 1 |
| `StoreProofs` | `Types` | `TypeOK` |
| | `OnlyACycleTakesItBack` | `NotServedStands`, an action property |
| | `NoOnceGatedOut` | `OnceIsHeard` |
| | `StoreIsATable` | `Implements`, the refinement of `Table`, under `Undisturbed` |
| `SchedulerProofs` | `Types` | `TypeOK` |
| | `PausedIsQuiet` | `IdleIsQuiet`, an action property |
| `PeersProofs` | `TypesAndJoins` | `TypeOK` |
| | `WhatIsPolled` | `SubsMatchViews` |
| | `OnlyOwnData` | `OwnData` |
| `ActionsProofs` | `Types` | `TypeOK` |
| | `NoRefutedPermission` | `RefutedForgotten` |
| | `SentAsConfirmed` | `SentWasAsked`, an action property |
| `WatchesProofs` | `Types` | `TypeOK` |
| | `OneRowOneStory` | `OwnStory` |
| | `WatchedWhereItRuns` | `WatchedAtHome` |
| `CacheProofs` | `Types` | `TypeOK` |
| | `RowsOfItsOwn` | `OwnRows` |
| | `WritesLand` | `WriteLands` |
| | `NewerIsSpared` | `NewerLeftAlone`, an action property |
| `ClientProofs` | `Types` | `Negotiate`'s `TypeOK` |
| | `MissingByItself` | `MissingIsOwn` |
| | `NoStorm` | `RepairsSpaced`, an action property; from no assumption |
| | `PacedTypes` | `PacingTypeOK` |
| | `HoldsHonoured` | `HoldHonoured`, an action property |
| | `NoneBurnt` | `NoTokenBurnt` |
| | `TiersKept` | `TierKept`, an action property; from no assumption but the module's |

Few of these properties are inductive. What each needs besides, and why:

**Auth.** `TypeOK` is inductive with the lemmas on sequences of distinct URLs. The rest follows
from `GateInv`. It adds `~gaveUp => Usable(jar)`: while reuse was never given up, `carry` does not
take the ungated arm; `Verdict`: the count, the latch and `Rejected` agree, so a permit that is
free after a refusal lets nobody through (without it `RefusedOnce` is lost where a request parked
at the gate wakes); and `Carried`: a slot on the last pass that is past the gate presents, so a
session that ends never ends a last pass, and `"auth"` is only ever said after a refusal.
`LiveSessionKept` needs `KeptInv`: the sessions in the jar and in flight have been issued, so a new
one is none of them; what a request is told of the session it carried stays true, because a session
that ended does not come back, so a 401 where this account is not denied says that it ended; and
while the jar holds a session it remembers two URLs, or one that does not deny the account
(`Elsewhere`). So the check of a denied URL's 401 always has another URL to go to, and what is
answered there says that the session ended or that this URL is denied as well. With one URL
remembered a 429 on a denied one may push the only other one out: the hypothesis is that there are
more (the code keeps four).

**Store.** `Core` is the types, `Counted` (no generation is ahead of the counter, what is staged is
ahead of what landed) and what a task and its messages have in common. `OnceOK` adds that a
one-shot is live until its `Done` has been received and that nothing of its follows it: the channel
may be full at any of its sends and the receiver may lag, and still it is not reaped early. The
refinement rests on `Steady`, of four parts. `Ordered`: a generation is one cycle's, and its pages
and its end are in the channel in the order they were sent, though other cycles' lie between.
`OneList`: a view has one list over a key. `Unmixed`: no single read has the generation of what is
staged, so its completion lands nothing. `WalkOK`: before each page of a live walk its earlier
pages are staged, or in the channel ahead of it, or the walk is already past landing. With them a
`Complete` that lands lands every page of one walk, which is `Table`'s `Land`; every other step is
another of `Table`'s or leaves its variables alone. The hypothesis `Undisturbed` says that only a
list and its detail may fail, and that no picker walks the key of a view's list. `store` satisfies
it. A refresh that fails is outside its first half and there `Implements` is false (section 4), and
a popped list takes a picker's pages with it in the same way.

**Scheduler.** `Inv` bounds what is remembered by what there is: the probe's baseline, the answer
in hand and the version walked are never ahead of the collection, and a task has returned only
where the endpoint may be absent. `PausedIsQuiet` adds `Rung`: a stored permit of `Notify` that is
not a refresh's comes with a call that asked for a cycle.

**Peers.** `SubsMatchViews` needs `StackOK` - a view's subscriptions bear its own number, those to
peers are of schedulers that are joined, and no two views have one number - and `CoreOK`: the
schedulers of peers are distinct and younger than the session's (what `attach` leaves behind can be
told from what it creates), the screen agrees with what is in flight, and joins in flight and
awaited agree. `OwnData` adds `MailOK`: a message of the current generation was sent by the live
scheduler or a younger one, so what the gate lets through is this session's.

**Actions.** `RefutedForgotten` says nothing of the lookups in flight; `LookupInv` adds that the
cell's generation is the number of 403s heard, that no lookup is of a later one, and that one of the
current generation began after the last 403, so what `CanICell::set` lets through is not refuted.
`SentWasAsked` needs `Named`: an open confirm still names the rows that are pending. That nothing
pending is more than a bulk rests on the ids being finitely many.

**Watches.** `Story` says of every entry that the attempt it is about was sent, that what settled it
is that attempt or another session's, and that an entry bearing the id of one of this session's
attempts is that attempt's own and of its context; `Recent` that those ids are below the next one.
So an id that this session sent is found on its own entry or, dropped from the ring, on none.
`Carried` adds that a watch bears the id of its attempt.

**Cache.** `NonceOK` is about every place a nonce is found - processes, their writes, files, the
meta and what a read holds of them: a nonce is one process start's, and of one target until that
process is pointed elsewhere. `WriteLands` and `NewerLeftAlone` need `ItsOwn`: while somebody has
the directory to itself nobody else is at it (`Solo`), the files it has named are its own and what
its sweep has not reached is still to do (`LandOK`), and the meta is no newer than its build.

**Negotiate.** `ClaimInv` says that the instant the code keeps is that of the last repair's
beginning, because it is claimed before the first probe; with it the guard of `repair_after` is
about the time between two beginnings, whoever's they are and however long the repair takes.
`MissingIsOwn` needs `Grounded`: what a probe found served is a version there is; `RequestOwn`: a
second attempt under a version a probe found was routed to one that is served and has the kind, so
its 404 is the kind's own; and the lemma `Greatest`, that among the versions served there is a
newest, from the library's well-founded minimum.

**Pacing.** `PacingInv` is inductive: the types, and of each budget (`Good`) that its takes are in
order, no more of them than the widest tier, and its own tier no wider. The last is what makes the
type invariant hold: an answer may narrow a tier below what is remembered, so `Len(taken)` is not
bounded by the budget's own `limit.count`, and only takes that find room add to it. Every action
does to every budget one of four things (`BudgetStep`: leave its takes alone, take a token, make it
hold, make it older); the other proofs are by these and not by the actions.
`HoldsHonoured` adds that a budget that was asked to hold is blocked at least as long.
`NoneBurnt` is about a sum over the operations, which `Pacing` writes with a fold. `FoldIsSum` says
that the fold is the value of a function on the sets of operations that obeys the sum's equation,
`SumExists` that there is one, and `SumBump` that adding one at an operation adds one to it. What
would be an induction over finite sets is done by taking a smallest set that fails. The length of
the histories is not enough, because a tick drops takes from both sides: `TokenInv` says it of every
span, and one tick makes of the span `c` the span `c - 1`.
`TiersKept` needs `WindowInv`: with no hold a budget remembers, of every span up to its period, at
least what its window answers for (`Remembers`); one that is held answers for nothing, so clearing
the window when the hold ends forgets nothing it answers for. An answer that makes a window longer
leaves it with what the shorter one had not popped, which is what the history is cut to
(`WiderRemembered`). Of the tiers, the headers and the waits nothing is assumed: what they may break
is finding 3, and no more than that.

Only model-checked:

- liveness - `CallsComeBack`, `NoFreeze`, `ClockStops`, `AskedIsServed`, `CatchesUp`, `StoryEnds`,
  `LookupEnds`, `WayBack`: fairness and ENABLED are out of TLAPS's reach.

Every other property of a passing run is a theorem. No module has a RECURSIVE operator.

## 7. Plan

Done: the models of the parts marked so in `PROJECT.json`, the refinement of `Table`, and proofs
of the safety of each. What could be added:

1. `Requests`: `update` and `act` with If-Match against a far end others write to, and `list_all`
   over a collection that moves.
2. `Budget`, an abstract specification that never lets more than a tier out in a window, with
   `Bucket` as its implementation: `TiersKept` has its invariant, between holds.

## 8. How a module is laid out

Constants and their assumption, variables, the operations in the order of the code, `Next`,
fairness, and the properties at the end. An operator whose comment begins with "Mutant" is a
plausible bug of the definition after it; each property is known to fail when its mutant takes
that definition's place. Histories are variables no action reads.

## 9. Not modelled, and why

Bodies, headers, statuses and wording wherever the code does not decide on them. Durations and
the back-off of a failing task: it may wake at any time, which covers every schedule. Redirects and
cookie origins: one Prism Central, one origin. Cookies on a 429, which the jar would bank, and cookies
an answer deletes: a jar holds one cookie here, and it comes with an answer that is not a 429. The
error of a watch's poll, which changes neither the entry nor the watch (the next poll is the retry),
and a watch whose poller ends because its credential was refused: `StoryEnds` is of a session whose
credential holds. What a list refuses besides being there or not: a page asked again without its
`$select` after a 400, and a counter whose filter or scope the kind does not take. The panes of a page: lists of their own keys. The
name cache, totals and samples of the store. The action picker's search and the fields of a form.
Writing with an ETag and listing a moving collection: planned. The domain manager's identity: the
code takes a missing one on either side for the same Prism Central, and `Cache` lets a restore be
adopted or rejected either way. Metrics, the log, search ranking and presentation keep state
nothing here decides on. Configuration and secrets are I/O; the catalog is generated; the mock
Prism Central is a test double, and the far end of the models does more than it. `PROJECT.json`
lists each part with its reason.

## 10. Running

    tlc -workers 2 -config Auth.cfg MCAuth      # and the other pairs of section 3
    tlapm AuthProofs.tla                        # and the other modules of theorems of section 2
