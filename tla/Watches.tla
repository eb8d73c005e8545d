------------------------------ MODULE Watches -----------------------------
(***************************************************************************)
(* What became of an action: the worker that sends it, the journal entry   *)
(* it was recorded under, the watch on the task it started, and the        *)
(* receiver that settles one by the other (crates/core/src/journal.rs,     *)
(* tasks.rs, crates/tui/src/app/messages.rs, app/actions.rs, app.rs,       *)
(* app/session.rs).                                                        *)
(*                                                                         *)
(* The far end decides what an action does and how its task ends.  Which   *)
(* rows an action is sent to is another module's (Actions).                *)
(***************************************************************************)
EXTENDS Naturals, Sequences, FiniteSets

CONSTANTS
  Contexts,    \* the contexts there are
  Home,        \* the context of the first session
  None,        \* no context; in a result, the session's own
  CAPACITY,    \* entries a journal holds
  CHANNEL,     \* messages the channel holds
  MaxSessions, \* bound: sessions of a behaviour
  MaxEntries,  \* bound: entries of a session's journal
  MaxAttempts, \* bound: requests of a behaviour
  MaxJoins     \* bound: peers joined in a behaviour

ASSUME WatchesAssumption ==
  /\ None \notin Contexts /\ Home \in Contexts
  /\ {CAPACITY, CHANNEL, MaxSessions} \subseteq Nat \ {0}
  /\ {MaxEntries, MaxAttempts, MaxJoins} \subseteq Nat

VARIABLES
  session, \* the session's number and its context
  peers,   \* the contexts joined beside it
  journal, \* the ring's entries, oldest first
  next,    \* Journal.next
  attempts,\* what was sent: the id it was recorded under, and where, in which session
  work,    \* what each worker has still to send, in order
  task,    \* the far end's tasks, by the attempt that started them
  watched, \* TaskIndex.watched
  channel, \* the poll channel
  joins    \* peers joined so far

vars == <<session, peers, journal, next, attempts, work, task, watched, channel, joins>>

Attempts == 1..MaxAttempts
Terminal == {"succeeded", "failed", "cancelled"}
Outcomes == Terminal \cup {"started", "denied"}
Results == {"started", "done", "failed"} \* Outcome::Returned settles as Done does

Init ==
  /\ session = [serial |-> 1, primary |-> Home]
  /\ peers = {}
  /\ journal = <<>> /\ next = 1
  /\ attempts = <<>> /\ work = {}
  /\ task = [a \in Attempts |-> "none"]
  /\ watched = {}
  /\ channel = <<>>
  /\ joins = 0

---------------------------------------------------------------------------
(* The journal. *)

\* Mutant: the ring never makes room.
RecordAll(entries, new) == Append(entries, new)

\* Mutant: an id is the entry's place in the ring.
RecordByPlace(entries, new) ==
  [i \in 1..(IF Len(entries) = CAPACITY THEN CAPACITY ELSE Len(entries) + 1) |->
     [Append(IF Len(entries) = CAPACITY THEN Tail(entries) ELSE entries, new)[i]
        EXCEPT !.id = i]]

\* Journal::record: the oldest entry makes room.
Record(entries, new) ==
  Append(IF Len(entries) = CAPACITY THEN Tail(entries) ELSE entries, new)

\* Journal::settle: an id that has been dropped matches no entry.
Settle(id, outcome, by, ofTask) ==
  journal' = [i \in DOMAIN journal |->
                IF journal[i].id # id THEN journal[i]
                ELSE [journal[i] EXCEPT !.outcome = outcome, !.by = by,
                                        !.task = IF ofTask # 0 THEN ofTask ELSE @]]

\* Mutant: what is not found is taken for the session's own.
SiteFirst(id) == IF journal = <<>> THEN None ELSE journal[1].context

\* Journal::context_of, None for the session's own and for an id it does not hold.
Site(id) ==
  LET held == {i \in DOMAIN journal : journal[i].id = id /\ journal[i].context # session.primary}
  IN  IF held = {} THEN None ELSE journal[CHOOSE i \in held : TRUE].context

Recorded(id) == \E i \in DOMAIN journal : journal[i].id = id

---------------------------------------------------------------------------
(* Sending. *)

Entry(id, context, attempt, outcome) ==
  [id |-> id, context |-> context, attempt |-> attempt, outcome |-> outcome, by |-> attempt,
   task |-> 0]

\* run_pending: every row is recorded before the first is sent.
Run(contexts) ==
  LET a == Len(attempts)
      new(i) == Entry(next + i - 1, contexts[i], a + i, "started")
      first == Record(journal, new(1))
  IN  /\ \A i \in DOMAIN contexts : contexts[i] \in {session.primary} \cup peers
      /\ a + Len(contexts) <= MaxAttempts /\ next + Len(contexts) <= MaxEntries + 1
      /\ journal' = IF Len(contexts) = 1 THEN first ELSE Record(first, new(2))
      /\ next' = next + Len(contexts)
      /\ attempts' = attempts \o [i \in DOMAIN contexts |->
           [id |-> next + i - 1, site |-> contexts[i], session |-> session.serial,
            left |-> FALSE]]
      /\ work' = work \cup {[i \in DOMAIN contexts |-> a + i]}
      /\ UNCHANGED <<session, peers, task, watched, channel, joins>>

\* journal_refusal: every row the action was refused for.
Refuse(rows) ==
  LET new(i) == Entry(next + i - 1, session.primary, 0, "denied")
      first == Record(journal, new(1))
  IN  /\ next + rows <= MaxEntries + 1
      /\ journal' = IF rows = 1 THEN first ELSE Record(first, new(2))
      /\ next' = next + rows
      /\ UNCHANGED <<session, peers, attempts, work, task, watched, channel, joins>>

Send(m) == Len(channel) < CHANNEL /\ channel' = Append(channel, m)

\* The worker hears of its request, reports it, and goes on to its next.
Answer(w, result) ==
  /\ Send([kind |-> "acted", attempt |-> Head(w), result |-> result])
  /\ work' = (work \ {w}) \cup ({Tail(w)} \ {<<>>})
  /\ task' = IF result = "started" THEN [task EXCEPT ![Head(w)] = "running"] ELSE task
  /\ UNCHANGED <<session, peers, journal, next, attempts, watched, joins>>

TaskEnds(a) ==
  /\ task[a] = "running"
  /\ \E status \in Terminal : task' = [task EXCEPT ![a] = status]
  /\ UNCHANGED <<session, peers, journal, next, attempts, work, watched, channel, joins>>

\* The watch's own subscription reads the task, as often as it likes but for what it has
\* still to be heard of.
Poll(w) ==
  /\ w \in watched /\ w.polled
  /\ \A i \in DOMAIN channel : channel[i].kind = "entity" => channel[i].attempt # w.attempt
  /\ Send([kind |-> "entity", attempt |-> w.attempt, result |-> task[w.attempt]])
  /\ UNCHANGED <<session, peers, journal, next, attempts, work, task, watched, joins>>

---------------------------------------------------------------------------
(* The receiver. *)

\* App::acted: a task is watched where the entry says the request went, unless that peer
\* is gone; anything else settles the entry at once.  The refresh of the row, asked of the
\* same context, is a once of Store.
Acted(a, result) ==
  LET id == attempts[a].id
      site == Site(id)
      outcome == CASE result = "started" -> "started"
                   [] result = "done" -> "succeeded"
                   [] result = "failed" -> "failed"
  IN  /\ Settle(id, outcome, a, IF result = "started" THEN a ELSE 0)
      /\ watched' = IF result = "started" /\ site \in {None} \cup peers
                      THEN watched \cup {[attempt |-> a, id |-> id, site |-> site,
                                          found |-> Recorded(id), polled |-> TRUE]}
                      ELSE watched

\* Mutant: a task that was cancelled is waited for.
IsSettled(status) == status \in {"succeeded", "failed"}

\* TaskStatus::is_terminal.
IsTerminal(status) == status \in Terminal

\* TaskIndex::apply: only a watched task is followed, and a watch ends with its task.
Followed(w, status) ==
  /\ watched' = watched \ {w}
  /\ Settle(w.id, status, w.attempt, w.attempt)

\* App::apply.
Receive ==
  /\ channel # <<>>
  /\ channel' = Tail(channel)
  /\ LET m == Head(channel)
         heard == {w \in watched : w.attempt = m.attempt /\ w.polled}
     IN  \/ m.kind = "acted" /\ Acted(m.attempt, m.result)
         \/ /\ m.kind = "entity" /\ IsTerminal(m.result)
            /\ \E w \in heard : Followed(w, m.result)
         \/ /\ m.kind = "entity" /\ (heard = {} \/ ~IsTerminal(m.result))
            /\ UNCHANGED <<watched, journal>>
  /\ UNCHANGED <<session, peers, next, attempts, work, task, joins>>

---------------------------------------------------------------------------
(* The session moves under them. *)

Join(c) ==
  /\ joins < MaxJoins /\ c \notin peers \cup {session.primary}
  /\ joins' = joins + 1
  /\ peers' = peers \cup {c}
  /\ UNCHANGED <<session, journal, next, attempts, work, task, watched, channel>>

\* forget_peer: its watches stay, and nobody polls them.
Drop(c) ==
  /\ c \in peers
  /\ peers' = peers \ {c}
  /\ watched' = {[w EXCEPT !.polled = @ /\ w.site # c] : w \in watched}
  /\ attempts' = [a \in DOMAIN attempts |->
                    [attempts[a] EXCEPT !.left = @ \/ attempts[a].site = c]]
  /\ UNCHANGED <<session, journal, next, work, task, channel, joins>>

\* App::attach: a journal and a task index of the new session's own.
Switch(c) ==
  /\ session.serial < MaxSessions /\ c # session.primary
  /\ session' = [serial |-> session.serial + 1, primary |-> c]
  /\ peers' = {} /\ journal' = <<>> /\ next' = 1 /\ watched' = {}
  /\ UNCHANGED <<attempts, work, task, channel, joins>>

---------------------------------------------------------------------------

\* One row, or two that were marked.
Batches == {<<c>> : c \in Contexts} \cup (Contexts \X Contexts)

AnswerAny == \E w \in work, result \in Results : Answer(w, result)

PollOf(a) == \E w \in watched : w.attempt = a /\ Poll(w)

Next ==
  \/ \E contexts \in Batches : Run(contexts)
  \/ \E rows \in 1..2 : Refuse(rows)
  \/ AnswerAny
  \/ \E a \in Attempts : TaskEnds(a) \/ PollOf(a)
  \/ Receive
  \/ \E c \in Contexts : Join(c) \/ Drop(c) \/ Switch(c)

\* A request is answered or times out, a task ends, a watch is polled, and the event loop
\* goes on draining.
Fairness ==
  /\ WF_vars(AnswerAny) /\ WF_vars(Receive)
  /\ \A a \in Attempts : WF_vars(TaskEnds(a)) /\ SF_vars(PollOf(a))

Spec == Init /\ [][Next]_vars /\ Fairness

---------------------------------------------------------------------------
(* Properties. *)

TypeOK ==
  /\ session.primary \in Contexts /\ session.serial \in 1..MaxSessions
  /\ peers \subseteq Contexts \ {session.primary}
  /\ Len(journal) <= CAPACITY
  /\ \A i \in DOMAIN journal :
       /\ journal[i].id < next /\ journal[i].context \in Contexts
       /\ journal[i].outcome \in Outcomes
       /\ {journal[i].attempt, journal[i].by, journal[i].task} \subseteq 0..Len(attempts)
       /\ \A k \in DOMAIN journal : k < i => journal[k].id < journal[i].id
  /\ task \in [Attempts -> Terminal \cup {"none", "running"}]
  /\ \A w \in watched : w.attempt \in DOMAIN attempts /\ w.site \in Contexts \cup {None}
  /\ Len(channel) <= CHANNEL

\* An entry tells the story of its own attempt: whatever of this session settles it, it is
\* that attempt, however full the ring and whatever was sent beside it ("so one row tells
\* the whole story"; "settling an id that has been dropped is a no-op": journal.rs).
OwnStory ==
  \A i \in DOMAIN journal :
    journal[i].by = journal[i].attempt \/ attempts[journal[i].by].session < session.serial

\* The same, whoever settles it: the result of another session's attempt settles nothing.
OwnStoryAlways == \A i \in DOMAIN journal : journal[i].by = journal[i].attempt

At(site) == IF site = None THEN session.primary ELSE site

\* A task is followed at the Prism Central it runs on ("the journal recorded which context
\* the request went to; the
\* watch and the refresh go to the same one": App::acted), so long
\* as its entry had not made room for others.
WatchedAtHome ==
  \A w \in watched :
    w.found /\ attempts[w.attempt].session = session.serial =>
      At(w.site) = attempts[w.attempt].site

\* A watch in the index is a watch that is polled ("the watches still being polled":
\* TaskIndex::running).
RunningArePolled == \A w \in watched : w.polled

\* An action whose peer stays is settled while its entry is on the ring: the answer comes,
\* and the task it may have started is followed to its end.
Unsettled(a) ==
  /\ a \in DOMAIN attempts /\ ~attempts[a].left
  /\ \E i \in DOMAIN journal : journal[i].attempt = a /\ journal[i].outcome = "started"

StoryEnds == \A a \in Attempts : Unsettled(a) ~> ~Unsettled(a)
===========================================================================
