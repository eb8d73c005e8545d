---------------------------- MODULE StoreProofs ---------------------------
(***************************************************************************)
(* What Store guarantees for any subscriptions, pages, channel and cycles. *)
(***************************************************************************)
EXTENDS Store, TLAPS

---------------------------------------------------------------------------
(* Types. *)

RowMaps == UNION {[D -> Nat] : D \in SUBSET Rows}
Staging == [gen : Nat, pages : SUBSET Rows]
Tables ==
  [rows : RowMaps, generation : Nat, polled : BOOLEAN, error : BOOLEAN, not_served : BOOLEAN,
   loading : BOOLEAN, cycle_started : Nat, restored : BOOLEAN, staging : Staging]
Kinds == {"started", "page", "complete", "entity", "error", "done"}
Msgs ==
  [kind : Kinds, sub : Subs, shape : Shapes, gen : Nat, page : 0..Pages, missing : BOOLEAN]
Tasks ==
  [at : Stages, shape : Shapes \cup {"none"}, gen : Nat, page : 0..Pages, second : BOOLEAN,
   result : Results]

Typed ==
  /\ table \in Tables /\ channel \in Seq(Msgs) /\ Len(channel) <= CHANNEL
  /\ task \in [Subs -> Tasks] /\ live \subseteq Subs /\ generations \in Nat /\ cycles \in Nat
  /\ walked \in 0..Pages

\* No generation is ahead of the counter, and what is staged is ahead of what has landed.
Counted ==
  /\ table.generation <= generations /\ table.cycle_started <= generations
  /\ table.staging.gen <= generations
  /\ \A r \in DOMAIN table.rows : table.rows[r] <= generations
  /\ table.staging.gen = 0 \/ table.staging.gen > table.generation
  /\ \A i \in DOMAIN channel : channel[i].gen <= generations
  /\ \A s \in Subs : task[s].gen <= generations

---------------------------------------------------------------------------
(* Tasks and their messages. *)

\* A cycle is under way: it has its generation and has not reported its end.
Active(s) == task[s].at \in {"announce", "fetch", "ended"}

\* A task that is not unused has a shape; while it fetches there is a page to come.
TaskOK(t) ==
  /\ t.at = "none" <=> t.shape = "none"
  /\ t.at = "none" => t = NoTask
  /\ t.at = "announce" => t.shape \in Lists
  /\ t.at \in {"announce", "fetch"} => t.page < Pages
  /\ t.at \in {"announce", "fetch", "ended"} => t.gen > 0
  /\ t.at = "done" => t.shape \in Onces /\ t.gen = 0
  /\ t.result # "ok" => t.shape \in Failing

TasksOK == \A s \in Subs : TaskOK(task[s]) /\ (task[s].at = "none" => s \notin live)

\* A message is of a task, with its shape.
MessagesOK ==
  \A i \in DOMAIN channel :
    /\ task[channel[i].sub].at # "none" /\ channel[i].shape = task[channel[i].sub].shape
    /\ channel[i].kind = "done" <=> channel[i].gen = 0
    /\ channel[i].kind = "entity" => channel[i].page = Row
    /\ channel[i].kind \in {"page", "started"} => channel[i].shape \in Lists
    /\ channel[i].kind = "page" => channel[i].page > 0
    /\ channel[i].kind = "error" => channel[i].shape \in Failing

\* A once is live until its last message is received.
OnceOK ==
  /\ \A s \in Subs : task[s].shape \in Onces /\ task[s].at # "returned" => s \in live
  /\ \A i \in DOMAIN channel : channel[i].shape \in Onces => channel[i].sub \in live
  /\ \A i \in DOMAIN channel : channel[i].kind = "done" =>
       /\ task[channel[i].sub].at = "returned" /\ channel[i].shape \in Onces
       /\ \A j \in DOMAIN channel : j > i => channel[j].sub # channel[i].sub

Ends(m) == m.kind \in {"complete", "error"}

\* A generation is one cycle's; a cycle's pages come in their order, and its end last.
Owned(m, n) == m.kind # "done" /\ m.gen = n.gen => m.sub = n.sub
Before(m, n) ==
  n.kind # "done" =>
    /\ m.sub = n.sub => m.gen <= n.gen
    /\ m.sub = n.sub /\ Ends(m) => m.gen < n.gen
    /\ m.gen = n.gen /\ m.kind = "page" =>
         /\ n.kind = "page" => m.page < n.page
         /\ n.kind = "complete" => m.page <= n.page

\* And so are those its task has still to send.
Sent(m, s, t) ==
  /\ m.gen = t.gen => m.sub = s
  /\ m.sub = s => m.gen <= t.gen
  /\ m.sub = s /\ Ends(m) => m.gen < t.gen
  /\ m.gen = t.gen /\ m.kind = "page" => m.page <= t.page

Ordered ==
  /\ \A i, j \in DOMAIN channel : Owned(channel[i], channel[j])
  /\ \A i, j \in DOMAIN channel : i < j => Before(channel[i], channel[j])
  /\ \A s \in Subs, i \in DOMAIN channel : Active(s) => Sent(channel[i], s, task[s])
  /\ \A r, s \in Subs : Active(r) /\ Active(s) /\ task[r].gen = task[s].gen => r = s

---------------------------------------------------------------------------
(* Walks. *)

Walker(s) == s \in live /\ task[s].shape \in Lists

\* A view has one list over a key.
OneList ==
  \A r, s \in live : task[r].shape = "list" /\ task[s].shape = "list" => r = s

\* A walk that can no longer land.
Past(g) == table.staging.gen > g \/ table.generation >= g

\* The pages a walk has staged: the first n.
Staged(g, n) ==
  IF n = 0 THEN table.staging.gen < g ELSE table.staging.gen = g /\ table.staging.pages = 1..n

PageAt(i, g) == channel[i].kind = "page" /\ channel[i].gen = g

\* When the messages before the i-th have been received, the first n pages of the walk are
\* staged, or it can no longer land.
Prior(g, n, i) ==
  \/ Past(g)
  \/ \E j \in DOMAIN channel : j < i /\ PageAt(j, g) /\ channel[j].page = n
  \/ Staged(g, n) /\ \A j \in DOMAIN channel : j < i => ~PageAt(j, g)

WalkOK ==
  /\ \A i \in DOMAIN channel : Walker(channel[i].sub) =>
       /\ channel[i].kind = "page" => Prior(channel[i].gen, channel[i].page - 1, i)
       /\ channel[i].kind = "complete" => Prior(channel[i].gen, channel[i].page, i)
  /\ \A s \in Subs : Walker(s) /\ Active(s) => Prior(task[s].gen, task[s].page, Len(channel) + 1)

\* What is staged is a walk's, and a single read has no part in it.
Unmixed ==
  /\ \A i \in DOMAIN channel :
       channel[i].kind # "done" /\ channel[i].shape \notin Lists =>
         channel[i].gen # table.staging.gen
  /\ \A s \in Subs : Active(s) /\ task[s].shape \notin Lists => task[s].gen # table.staging.gen

\* Nobody but a view's list and its detail fails, and no picker walks the key of a view's
\* list: what another task's failure or a popped view would throw away is nobody's walk.
Undisturbed == Failing \subseteq {"list", "detail"} /\ ~({"list", "once_list"} \subseteq Shapes)
---------------------------------------------------------------------------
(* What Store::apply does to a table. *)

\* The rows of a walk, and those a single read has been merged into.
WalkRows(pages, g) == [r \in pages |-> g]
ReadRow(rows, row, g) == [r \in DOMAIN rows \cup {row} |-> IF r = row THEN g ELSE rows[r]]

\* A map of rows to generations.
LEMMA RowMap ==
  ASSUME NEW f, NEW D \in SUBSET Rows, f \in [D -> Nat]
  PROVE  f \in RowMaps
BY DEF RowMaps

\* A walk's start sets the clock, if it could still land and is newer than what set it.
StartedDoes(t, u, g) ==
  /\ u.rows = t.rows /\ u.generation = t.generation /\ u.not_served = t.not_served
  /\ u.staging = t.staging
  /\ \/ u.cycle_started = t.cycle_started
     \/ u.cycle_started = g /\ g > t.generation /\ g > t.cycle_started
LEMMA ApplyStartedIs ==
  ASSUME NEW t \in Tables, NEW g \in Nat, NEW u, u = ApplyStarted(t, g)
  PROVE  u \in Tables /\ StartedDoes(t, u, g)
<1>1. CASE g <= t.generation \/ t.cycle_started >= g
  BY <1>1 DEF ApplyStarted, StartedDoes
<1>2. CASE ~(g <= t.generation \/ t.cycle_started >= g)
  <2>1. u = [t EXCEPT !.cycle_started = g]
    BY <1>2 DEF ApplyStarted
  <2>2. t.generation \in Nat /\ t.cycle_started \in Nat
    BY DEF Tables
  <2>3. /\ u \in Tables /\ u.cycle_started = g
        /\ u.rows = t.rows /\ u.generation = t.generation /\ u.not_served = t.not_served
        /\ u.staging = t.staging
    BY <2>1 DEF Tables
  <2> QED
    BY <1>2, <2>2, <2>3 DEF StartedDoes
<1> QED
  BY <1>1, <1>2

\* A page is staged, on top of its own cycle's or instead of an older one's.
PageDoes(t, u, g, page) ==
  /\ u.rows = t.rows /\ u.generation = t.generation /\ u.not_served = t.not_served
  /\ u.cycle_started = t.cycle_started
  /\ \/ (g <= t.generation \/ t.staging.gen > g) /\ u.staging = t.staging
     \/ /\ g > t.generation /\ t.staging.gen <= g /\ u.staging.gen = g
        /\ u.staging.pages = IF t.staging.gen = g THEN t.staging.pages \cup {page}
                             ELSE {page}
LEMMA ApplyPageIs ==
  ASSUME NEW t \in Tables, NEW g \in Nat, NEW page \in Rows, NEW u, u = ApplyPage(t, g, page)
  PROVE  u \in Tables /\ PageDoes(t, u, g, page)
<1>0. t.generation \in Nat /\ t.staging.gen \in Nat /\ t.staging.pages \in SUBSET Rows
  BY DEF Tables, Staging
<1>1. CASE g <= t.generation \/ t.staging.gen > g
  BY <1>1 DEF ApplyPage, PageDoes
<1>2. CASE ~(g <= t.generation \/ t.staging.gen > g)
  <2>1. PICK z : z = [gen |-> g, pages |-> IF t.staging.gen = g THEN t.staging.pages \cup {page}
                                           ELSE {page}]
    OBVIOUS
  <2>2. u = [t EXCEPT !.staging = z]
    BY <1>2, <2>1 DEF ApplyPage
  <2>3. z \in Staging
    BY <1>0, <2>1 DEF Staging
  <2>4. z.gen = g /\ z.pages = IF t.staging.gen = g THEN t.staging.pages \cup {page} ELSE {page}
    BY <2>1
  <2>5. u \in Tables /\ u.staging = z
    BY <2>2, <2>3 DEF Tables
  <2>6. /\ u.rows = t.rows /\ u.generation = t.generation /\ u.not_served = t.not_served
        /\ u.cycle_started = t.cycle_started
    BY <2>2 DEF Tables
  <2> QED
    BY <1>0, <1>2, <2>4, <2>5, <2>6 DEF PageDoes
<1> QED
  BY <1>1, <1>2

\* A walk's end replaces the rows by the staged ones, if they are its own, and stops its clock.
CompleteDoes(t, u, g) ==
     \/ g < t.generation /\ u = t
     \/ /\ g >= t.generation /\ u.not_served = FALSE
        /\ u.cycle_started \in {t.cycle_started, 0}
        /\ \/ /\ t.staging.gen = g /\ u.generation = g /\ u.staging = NoStaging
              /\ u.rows = WalkRows(t.staging.pages, g)
           \/ /\ t.staging.gen # g /\ u.generation = t.generation
              /\ u.staging = t.staging /\ u.rows = t.rows
LEMMA ApplyCompleteIs ==
  ASSUME NEW t \in Tables, NEW g \in Nat, NEW u, u = ApplyComplete(t, g)
  PROVE  u \in Tables /\ CompleteDoes(t, u, g)
<1>0. t.generation \in Nat /\ t.staging.pages \in SUBSET Rows /\ t.cycle_started \in Nat
  BY DEF Tables, Staging
<1>1. CASE g < t.generation
  BY <1>1 DEF ApplyComplete, CompleteDoes
<1>2. CASE ~(g < t.generation)
  <2>1. PICK c : c = IF t.cycle_started = g THEN 0 ELSE t.cycle_started
    OBVIOUS
  <2>2. StopClock(t, g) = [t EXCEPT !.cycle_started = c] /\ c \in Nat
    BY <1>0, <2>1 DEF StopClock
  <2>3. CASE Lands(t, g)
    <3>1. PICK f : f = [r \in t.staging.pages |-> t.staging.gen]
      OBVIOUS
    <3>2. t.staging.gen = g
      BY <2>3 DEF Lands
    <3>3. f \in RowMaps /\ f = WalkRows(t.staging.pages, g)
      BY <1>0, <3>1, <3>2, RowMap DEF WalkRows
    <3>4. NoStaging \in Staging
      BY DEF NoStaging, Staging
    <3>5. u = [[[t EXCEPT !.cycle_started = c] EXCEPT !.rows = f, !.restored = FALSE,
                   !.generation = g, !.staging = NoStaging]
                 EXCEPT !.polled = TRUE, !.error = FALSE, !.not_served = FALSE, !.loading = FALSE]
      BY <1>2, <2>2, <2>3, <3>1 DEF ApplyComplete
    <3>6. u \in Tables
      BY <2>2, <3>3, <3>4, <3>5 DEF Tables
    <3>7. /\ u.not_served = FALSE /\ u.cycle_started = c /\ u.generation = g
          /\ u.staging = NoStaging /\ u.rows = f
      BY <3>5 DEF Tables
    <3> QED
      BY <1>0, <1>2, <2>1, <3>2, <3>3, <3>6, <3>7 DEF CompleteDoes
  <2>4. CASE ~Lands(t, g)
    <3>1. u = [[t EXCEPT !.cycle_started = c]
                 EXCEPT !.polled = TRUE, !.error = FALSE, !.not_served = FALSE, !.loading = FALSE]
      BY <1>2, <2>2, <2>4 DEF ApplyComplete
    <3>2. u \in Tables
      BY <2>2, <3>1 DEF Tables
    <3>3. /\ u.not_served = FALSE /\ u.cycle_started = c /\ u.generation = t.generation
          /\ u.staging = t.staging /\ u.rows = t.rows
      BY <3>1 DEF Tables
    <3> QED
      BY <1>0, <1>2, <2>1, <2>4, <3>2, <3>3 DEF Lands, CompleteDoes
  <2> QED
    BY <2>3, <2>4
<1> QED
  BY <1>1, <1>2

\* A single read takes its row's place, if it is not older than the walk.
EntityDoes(t, u, g, row) ==
  /\ u.generation = t.generation /\ u.not_served = t.not_served
  /\ u.cycle_started = t.cycle_started /\ u.staging = t.staging
  /\ \/ u.rows = t.rows
     \/ /\ g >= t.generation
        /\ u.rows = ReadRow(t.rows, row, g)
LEMMA ApplyEntityIs ==
  ASSUME NEW t \in Tables, NEW g \in Nat, NEW row \in Rows, NEW u, u = ApplyEntity(t, g, row)
  PROVE  u \in Tables /\ EntityDoes(t, u, g, row)
<1>0. t.generation \in Nat /\ t.rows \in RowMaps
  BY DEF Tables
<1>1. CASE g < t.generation
  BY <1>1 DEF ApplyEntity, EntityDoes
<1>2. CASE ~(g < t.generation)
  <2>1. PICK f : f = [r \in DOMAIN t.rows \cup {row} |-> IF r = row THEN g ELSE t.rows[r]]
    OBVIOUS
  <2>2. PICK D \in SUBSET Rows : t.rows \in [D -> Nat]
    BY <1>0 DEF RowMaps
  <2>3. f \in [D \cup {row} -> Nat] /\ D \cup {row} \in SUBSET Rows
    BY <2>1, <2>2
  <2>4. f \in RowMaps
    BY <2>3, RowMap
  <2>5. u = [t EXCEPT !.rows = f, !.loading = FALSE]
    BY <1>2, <2>1 DEF ApplyEntity
  <2>6. u \in Tables
    BY <2>4, <2>5 DEF Tables
  <2>7. /\ u.generation = t.generation /\ u.not_served = t.not_served /\ u.rows = f
        /\ u.cycle_started = t.cycle_started /\ u.staging = t.staging
    BY <2>5 DEF Tables
  <2> QED
    BY <1>0, <1>2, <2>1, <2>6, <2>7 DEF ReadRow, EntityDoes
<1> QED
  BY <1>1, <1>2

\* A failure keeps the rows, and throws away what it or an older cycle staged.
LEMMA ApplyErrorIs ==
  ASSUME NEW t \in Tables, NEW g \in Nat, NEW missing \in BOOLEAN, NEW u,
         u = ApplyError(t, g, missing)
  PROVE  /\ u \in Tables
         /\ u.rows = t.rows /\ u.generation = t.generation
         /\ t.not_served => u.not_served
         /\ u.cycle_started \in {t.cycle_started, 0}
         /\ u.staging = t.staging \/ (u.staging = NoStaging /\ t.staging.gen <= g)
<1>0. t.generation \in Nat /\ t.cycle_started \in Nat /\ t.not_served \in BOOLEAN
  BY DEF Tables
<1>1. CASE g < t.generation
  BY <1>1 DEF ApplyError
<1>2. CASE ~(g < t.generation)
  <2>1. PICK c : c = IF t.cycle_started = g THEN 0 ELSE t.cycle_started
    OBVIOUS
  <2>2. StopClock(t, g) = [t EXCEPT !.cycle_started = c] /\ c \in Nat
    BY <1>0, <2>1 DEF StopClock
  <2>3. PICK z : z = IF t.staging.gen <= g THEN NoStaging ELSE t.staging
    OBVIOUS
  <2>4. z \in Staging
    BY <2>3 DEF Tables, NoStaging, Staging
  <2>5. PICK b : b = (t.not_served \/ missing)
    OBVIOUS
  <2>6. b \in BOOLEAN
    BY <2>5
  <2>7. u = [[t EXCEPT !.cycle_started = c]
               EXCEPT !.not_served = b, !.error = TRUE, !.loading = FALSE, !.staging = z]
    <3>1. [t EXCEPT !.cycle_started = c].not_served = t.not_served
      BY DEF Tables
    <3>2. [t EXCEPT !.cycle_started = c].staging = t.staging
      BY DEF Tables
    <3> QED
      BY <1>2, <2>2, <2>3, <2>5, <3>1, <3>2 DEF ApplyError
  <2>8. u \in Tables
    BY <2>2, <2>4, <2>6, <2>7 DEF Tables
  <2>9. /\ u.rows = t.rows /\ u.generation = t.generation /\ u.not_served = b
        /\ u.cycle_started = c /\ u.staging = z
    BY <2>7 DEF Tables
  <2> QED
    BY <2>1, <2>3, <2>5, <2>8, <2>9
<1> QED
  BY <1>1, <1>2

\* An abandoned table has nothing staged and its clock stopped.
LEMMA AbandonIs ==
  ASSUME NEW t \in Tables, NEW u, u = Abandon(t)
  PROVE  /\ u \in Tables
         /\ u.rows = t.rows /\ u.generation = t.generation /\ u.not_served = t.not_served
         /\ u.cycle_started = 0 /\ u.staging = NoStaging
<1>1. NoStaging \in Staging
  BY DEF NoStaging, Staging
<1> QED
  BY <1>1 DEF Abandon, Tables
---------------------------------------------------------------------------
(* The steps of a task. *)

\* The task of a subscription is replaced, and no other.
TaskBecomes(s, t) ==
  /\ t \in Tasks /\ task' \in [Subs -> Tasks] /\ task'[s] = t
  /\ \A r \in Subs : r # s => task'[r] = task[r]

\* Replacing a task.
LEMMA SetTask ==
  ASSUME Typed, NEW s \in Subs, NEW t \in Tasks, task' = [task EXCEPT ![s] = t]
  PROVE  TaskBecomes(s, t)
BY DEF Typed, TaskBecomes

\* A step that sends a message: what the message is of, and what the task is about next.
SendStep(s, t, m) ==
  /\ TaskBecomes(s, t) /\ TaskOK(t) /\ m \in Msgs
  /\ m.sub = s /\ m.shape = task[s].shape /\ t.shape = task[s].shape /\ t.at # "none"
  /\ channel' = Append(channel, m) /\ Len(channel) < CHANNEL
  /\ UNCHANGED <<table, live, generations, cycles, walked>>
  /\ \/ /\ m.kind = "done" /\ task[s].at = "done" /\ t.at = "returned" /\ m.gen = task[s].gen
        /\ t.gen = task[s].gen
     \/ /\ Active(s) /\ m.gen = task[s].gen /\ t.gen = m.gen /\ t.at \in {"fetch", "ended"}
        /\ \/ m.kind = "started" /\ t.page = task[s].page /\ m.shape \in Lists
           \/ m.kind = "page" /\ m.page = task[s].page + 1 /\ t.page = m.page /\ m.shape \in Lists
           \/ m.kind = "entity" /\ m.page = Row /\ t.page = task[s].page
     \/ /\ Active(s) /\ m.gen = task[s].gen /\ t.gen = 0 /\ t.at \in {"done", "sleep", "returned"}
        /\ t.at # "done" => t.shape \notin Onces
        /\ \/ m.kind = "complete" /\ m.page = task[s].page
           \/ m.kind = "error" /\ m.shape \in Failing

\* A step that says nothing: a walk is skipped, a request fails, or the next cycle begins.
QuietStep(s, t) ==
  /\ TaskBecomes(s, t) /\ TaskOK(t) /\ task[s].at # "none" /\ t.shape = task[s].shape
  /\ t.at \in {"begin", "ended"} /\ t.gen = task[s].gen /\ t.page = task[s].page
  /\ t.at = "ended" => Active(s)
  /\ task[s].at = "returned" => t.shape \notin Onces
  /\ UNCHANGED <<table, channel, live, generations, cycles, walked>>

\* A step that opens a subscription, allocates a generation, or closes a subscription.
NewStep(s, t) ==
  /\ TaskBecomes(s, t) /\ TaskOK(t) /\ t.at = "begin" /\ t.gen = 0
  /\ task[s].at = "none" /\ t.shape # "none"
  /\ t.shape = "list" => \A r \in live : task[r].shape # "list"
  /\ live' = live \cup {s}
  /\ UNCHANGED <<table, channel, generations, cycles, walked>>
AllocStep(s, t) ==
  /\ TaskBecomes(s, t) /\ TaskOK(t) /\ task[s].at = "begin"
  /\ t.at \in {"announce", "fetch"} /\ t.shape = task[s].shape
  /\ t.gen = generations + 1 /\ t.page = 0
  /\ generations' = generations + 1 /\ cycles' \in Nat
  /\ UNCHANGED <<table, channel, live, walked>>
GoneStep(s, t) ==
  /\ TaskBecomes(s, t) /\ TaskOK(t) /\ t.at = "returned" /\ t.gen = 0
  /\ t.shape = task[s].shape /\ t.shape \notin Onces /\ task[s].at # "none"
  /\ s \in live /\ live' = live \ {s}
  /\ UNCHANGED table \/ (t.shape = "list" /\ table' = Abandon(table))
  /\ UNCHANGED <<channel, generations, cycles, walked>>

\* Every task is as it should be.
LEMMA TaskIs ==
  ASSUME Typed, TasksOK, NEW s \in Subs
  PROVE  /\ task[s] \in Tasks /\ TaskOK(task[s])
         /\ task[s].gen \in Nat /\ task[s].page \in Nat /\ Pages \in Nat \ {0}
         /\ task[s].at # "none" => task[s].shape \in Shapes
<1>1. task[s] \in Tasks /\ TaskOK(task[s])
  BY DEF Typed, TasksOK
<1>2. task[s].gen \in Nat /\ task[s].page \in Nat /\ task[s].shape \in Shapes \cup {"none"}
  BY <1>1, StoreAssumption DEF Tasks
<1> QED
  BY <1>1, <1>2, StoreAssumption DEF TaskOK

\* What its messages carry of it.
LEMMA SenderIs ==
  ASSUME Typed, TasksOK, NEW s \in Subs, task[s].at # "none"
  PROVE  task[s].shape \in Shapes /\ task[s].gen \in Nat /\ 0 \in 0..Pages /\ FALSE \in BOOLEAN
BY TaskIs

\* run_list says that its walk began.
LEMMA AnnounceStep ==
  ASSUME Typed, TasksOK, NEW s \in Subs, Announce(s)
  PROVE  \E t, m : SendStep(s, t, m)
<1>1. PICK t : t = [task[s] EXCEPT !.at = "fetch"]
  OBVIOUS
<1>2. PICK m : m = Message("started", s, 0, FALSE)
  OBVIOUS
<1>3. /\ task[s].at = "announce" /\ Len(channel) < CHANNEL /\ channel' = Append(channel, m)
      /\ task' = [task EXCEPT ![s].at = "fetch"]
      /\ UNCHANGED <<table, live, generations, cycles, walked>>
  BY <1>2 DEF Announce, Push, Go
<1>4. task[s] \in Tasks /\ TaskOK(task[s]) /\ Pages \in Nat \ {0}
  BY TaskIs
<1>5. /\ t \in Tasks /\ t.at = "fetch" /\ t.gen = task[s].gen /\ t.page = task[s].page
      /\ t.shape = task[s].shape /\ t.result = task[s].result
  BY <1>1, <1>4 DEF Tasks, Stages
<1>6. TaskOK(t)
  BY <1>3, <1>4, <1>5 DEF TaskOK
<1>7. TaskBecomes(s, t)
  BY <1>1, <1>3, <1>5, SetTask DEF Typed
<1>8. m \in Msgs /\ m.kind = "started" /\ m.sub = s /\ m.shape = task[s].shape /\ m.gen = task[s].gen
  BY <1>2, <1>3, <1>4, SenderIs DEF Message, Msgs, Kinds
<1> QED
  BY <1>3, <1>4, <1>5, <1>6, <1>7, <1>8 DEF SendStep, Active, TaskOK

\* A page is pushed where its walk has come to.
LEMMA FetchPageStep ==
  ASSUME Typed, TasksOK, NEW s \in Subs, FetchPage(s)
  PROVE  \E t, m : SendStep(s, t, m)
<1>1. PICK page : page = task[s].page + 1
  OBVIOUS
<1>2. PICK m : m = Message("page", s, page, FALSE)
  OBVIOUS
<1>3. PICK more \in {page < Pages, FALSE} :
        task' = [task EXCEPT ![s].page = page, ![s].result = "ok",
                             ![s].at = IF more THEN "fetch" ELSE "ended"]
  BY <1>1 DEF FetchPage
<1>4. PICK at : at = IF more THEN "fetch" ELSE "ended"
  OBVIOUS
<1>5. PICK t : t = [task[s] EXCEPT !.page = page, !.result = "ok", !.at = at]
  OBVIOUS
<1>6. /\ task[s].at = "fetch" /\ task[s].shape \in Lists
      /\ Len(channel) < CHANNEL /\ channel' = Append(channel, m)
      /\ UNCHANGED <<table, live, generations, cycles, walked>>
  BY <1>1, <1>2 DEF FetchPage, Push
<1>7. /\ task[s] \in Tasks /\ TaskOK(task[s]) /\ task[s].page \in Nat /\ Pages \in Nat \ {0}
      /\ task[s].page < Pages
  BY <1>6, TaskIs DEF TaskOK
<1>8. page \in 0..Pages /\ at \in {"fetch", "ended"} /\ (at = "fetch" => page < Pages)
  <2>1. page \in 0..Pages
    BY <1>1, <1>7
  <2>2. more => page < Pages
    BY <1>3
  <2> QED
    BY <1>4, <2>1, <2>2
<1>9. /\ t \in Tasks /\ t.at = at /\ t.gen = task[s].gen /\ t.page = page
      /\ t.shape = task[s].shape /\ t.result = "ok"
  BY <1>5, <1>7, <1>8 DEF Tasks, Stages, Results
<1>10. TaskOK(t)
  BY <1>6, <1>7, <1>8, <1>9 DEF TaskOK
<1>11. task' = [task EXCEPT ![s] = t]
  BY <1>3, <1>4, <1>5 DEF Typed
<1>12. TaskBecomes(s, t)
  BY <1>9, <1>11, SetTask
<1>13. /\ m \in Msgs /\ m.kind = "page" /\ m.sub = s /\ m.shape = task[s].shape
       /\ m.gen = task[s].gen /\ m.page = page
  BY <1>2, <1>6, <1>8, SenderIs DEF Message, Msgs, Kinds
<1> QED
  BY <1>1, <1>6, <1>8, <1>9, <1>10, <1>12, <1>13 DEF SendStep, Active

\* A single subscription pushes its row.
LEMMA FetchOneStep ==
  ASSUME Typed, TasksOK, NEW s \in Subs, FetchOne(s)
  PROVE  \E t, m : SendStep(s, t, m)
<1>1. PICK m : m = Message("entity", s, Row, FALSE)
  OBVIOUS
<1>2. PICK t : t = [task[s] EXCEPT !.at = "ended", !.result = "ok"]
  OBVIOUS
<1>3. /\ task[s].at = "fetch" /\ Len(channel) < CHANNEL /\ channel' = Append(channel, m)
      /\ task' = [task EXCEPT ![s].at = "ended", ![s].result = "ok"]
      /\ UNCHANGED <<table, live, generations, cycles, walked>>
  BY <1>1 DEF FetchOne, Push
<1>4. task[s] \in Tasks /\ TaskOK(task[s]) /\ Pages \in Nat \ {0}
  BY TaskIs
<1>5. /\ t \in Tasks /\ t.at = "ended" /\ t.gen = task[s].gen /\ t.page = task[s].page
      /\ t.shape = task[s].shape /\ t.result = "ok"
  BY <1>2, <1>4 DEF Tasks, Stages, Results
<1>6. TaskOK(t)
  BY <1>3, <1>4, <1>5 DEF TaskOK
<1>7. TaskBecomes(s, t)
  BY <1>2, <1>3, <1>5, SetTask DEF Typed
<1>8. Row \in 0..Pages
  BY <1>4 DEF Row
<1>9. /\ m \in Msgs /\ m.kind = "entity" /\ m.sub = s /\ m.shape = task[s].shape
      /\ m.gen = task[s].gen /\ m.page = Row
  BY <1>1, <1>3, <1>8, SenderIs DEF Message, Msgs, Kinds
<1> QED
  BY <1>3, <1>5, <1>6, <1>7, <1>9 DEF SendStep, Active

\* What is left of a task whose cycle is over.
LEMMA RestIs ==
  ASSUME Typed, TasksOK, NEW s \in Subs, NEW at \in {"done", "sleep", "returned"}, Rest(s, at),
         task[s].at # "none", at = "done" => task[s].shape \in Onces
  PROVE  \E t : /\ TaskBecomes(s, t) /\ TaskOK(t) /\ t.at = at /\ t.gen = 0 /\ t.page = 0
               /\ t.shape = task[s].shape
<1>1. PICK t : t = [NoTask EXCEPT !.at = at, !.shape = task[s].shape]
  OBVIOUS
<1>2. task[s].shape \in Shapes /\ task[s].shape # "none" /\ Pages \in Nat \ {0}
  BY TaskIs DEF TaskOK
<1>3. /\ t \in Tasks /\ t.at = at /\ t.gen = 0 /\ t.page = 0 /\ t.shape = task[s].shape
      /\ t.result = "ok"
  <2>1. t = [at |-> at, shape |-> task[s].shape, gen |-> 0, page |-> 0, second |-> FALSE,
             result |-> "ok"]
    BY <1>1 DEF NoTask
  <2> QED
    BY <1>2, <2>1 DEF Tasks, Stages, Results
<1>4. TaskOK(t)
  BY <1>2, <1>3 DEF TaskOK
<1>5. TaskBecomes(s, t)
  BY <1>1, <1>3, SetTask DEF Rest
<1> QED
  BY <1>3, <1>4, <1>5

\* How a cycle ended is reported.
LEMMA EndStep ==
  ASSUME Typed, TasksOK, NEW s \in Subs, End(s)
  PROVE  \E t, m : SendStep(s, t, m)
<1>1. PICK at : at = IF task[s].shape \in Onces THEN "done"
                     ELSE IF NotServed(s) \/ task[s].result = "refused" THEN "returned"
                     ELSE "sleep"
  OBVIOUS
<1>2. PICK m : m = Ending(s)
  OBVIOUS
<1>3. /\ task[s].at = "ended" /\ Len(channel) < CHANNEL /\ channel' = Append(channel, m)
      /\ Rest(s, at) /\ UNCHANGED <<table, live, generations, cycles, walked>>
  BY <1>1, <1>2 DEF End, Push
<1>4. at \in {"done", "sleep", "returned"} /\ (at = "done" <=> task[s].shape \in Onces)
  BY <1>1
<1>5. PICK t : /\ TaskBecomes(s, t) /\ TaskOK(t) /\ t.at = at /\ t.gen = 0 /\ t.page = 0
               /\ t.shape = task[s].shape
  BY <1>3, <1>4, RestIs
<1>6. /\ m \in Msgs /\ m.sub = s /\ m.shape = task[s].shape /\ m.gen = task[s].gen
      /\ \/ m.kind = "complete" /\ m.page = task[s].page
         \/ m.kind = "error" /\ m.shape \in Failing
  <2>1. task[s].page \in 0..Pages /\ 0 \in 0..Pages /\ NotServed(s) \in BOOLEAN
    BY TaskIs DEF Tasks, NotServed
  <2>2. CASE task[s].result = "ok"
    BY <1>2, <1>3, <2>1, <2>2, SenderIs DEF Ending, Message, Msgs, Kinds
  <2>3. CASE task[s].result # "ok"
    <3>1. task[s].shape \in Failing
      BY <2>3, TaskIs DEF TaskOK
    <3> QED
      BY <1>2, <1>3, <2>1, <2>3, <3>1, SenderIs DEF Ending, Message, Msgs, Kinds
  <2> QED
    BY <2>2, <2>3
<1> QED
  BY <1>3, <1>4, <1>5, <1>6 DEF SendStep, Active

\* A once says that it is over, last.
LEMMA FinishStep ==
  ASSUME Typed, TasksOK, NEW s \in Subs, Finish(s)
  PROVE  \E t, m : SendStep(s, t, m)
<1>1. PICK m : m = Message("done", s, 0, FALSE)
  OBVIOUS
<1>2. PICK t : t = [task[s] EXCEPT !.at = "returned"]
  OBVIOUS
<1>3. /\ task[s].at = "done" /\ Len(channel) < CHANNEL /\ channel' = Append(channel, m)
      /\ task' = [task EXCEPT ![s].at = "returned"]
      /\ UNCHANGED <<table, live, generations, cycles, walked>>
  BY <1>1 DEF Finish, Push, Go
<1>4. task[s] \in Tasks /\ TaskOK(task[s]) /\ Pages \in Nat \ {0}
  BY TaskIs
<1>5. /\ t \in Tasks /\ t.at = "returned" /\ t.gen = task[s].gen /\ t.shape = task[s].shape
      /\ t.result = task[s].result
  BY <1>2, <1>4 DEF Tasks, Stages
<1>6. TaskOK(t)
  BY <1>3, <1>4, <1>5 DEF TaskOK
<1>7. TaskBecomes(s, t)
  BY <1>2, <1>3, <1>5, SetTask DEF Typed
<1>8. m \in Msgs /\ m.kind = "done" /\ m.sub = s /\ m.shape = task[s].shape /\ m.gen = task[s].gen
  BY <1>1, <1>3, <1>4, SenderIs DEF Message, Msgs, Kinds
<1> QED
  BY <1>3, <1>5, <1>6, <1>7, <1>8 DEF SendStep

\* A walk that is skipped, a request that fails, a cycle that is to begin.
LEMMA QuietSteps ==
  ASSUME Typed, TasksOK, NEW s \in Subs, SkipWalk(s) \/ FetchFails(s) \/ NextCycle(s)
  PROVE  \E t : QuietStep(s, t)
<1>1. /\ task[s] \in Tasks /\ TaskOK(task[s]) /\ Pages \in Nat \ {0}
      /\ UNCHANGED <<table, channel, live, generations, cycles, walked>>
  BY TaskIs DEF SkipWalk, FetchFails, NextCycle, Go
<1>2. CASE SkipWalk(s)
  <2>1. PICK t : t = [task[s] EXCEPT !.at = "ended", !.result = "ok"]
    OBVIOUS
  <2>2. /\ t \in Tasks /\ t.at = "ended" /\ t.gen = task[s].gen /\ t.page = task[s].page
        /\ t.shape = task[s].shape /\ t.result = "ok" /\ task[s].at = "fetch"
    BY <1>1, <1>2, <2>1 DEF SkipWalk, Tasks, Stages, Results
  <2>3. TaskOK(t)
    BY <1>1, <2>2 DEF TaskOK
  <2>4. TaskBecomes(s, t)
    BY <1>2, <2>1, <2>2, SetTask DEF Typed, SkipWalk
  <2> QED
    BY <1>1, <2>2, <2>3, <2>4 DEF QuietStep, Active
<1>3. CASE FetchFails(s)
  <2>1. PICK result \in Results \ {"ok"} :
          LET again == result = "missing" /\ task[s].shape \in Lists /\ ~task[s].second IN
          task' = [task EXCEPT ![s].at = IF again THEN "begin" ELSE "ended",
                               ![s].second = @ \/ again, ![s].result = result]
    BY <1>3 DEF FetchFails
  <2>2. PICK again : again = (result = "missing" /\ task[s].shape \in Lists /\ ~task[s].second)
    OBVIOUS
  <2>3. PICK second : second = (task[s].second \/ again)
    OBVIOUS
  <2>4. PICK at : at = IF again THEN "begin" ELSE "ended"
    OBVIOUS
  <2>5. PICK t : t = [task[s] EXCEPT !.at = at, !.second = second, !.result = result]
    OBVIOUS
  <2>6. second \in BOOLEAN /\ at \in {"begin", "ended"}
    BY <2>3, <2>4
  <2>7. task[s].at = "fetch" /\ task[s].shape \in Failing
    BY <1>3 DEF FetchFails
  <2>8. /\ t \in Tasks /\ t.at = at /\ t.gen = task[s].gen /\ t.page = task[s].page
        /\ t.shape = task[s].shape
    BY <1>1, <2>5, <2>6 DEF Tasks, Stages
  <2>9. TaskOK(t)
    BY <1>1, <2>6, <2>7, <2>8 DEF TaskOK
  <2>10. task' = [task EXCEPT ![s] = t]
    BY <2>1, <2>2, <2>3, <2>4, <2>5 DEF Typed
  <2>11. TaskBecomes(s, t)
    BY <2>8, <2>10, SetTask
  <2> QED
    BY <1>1, <2>6, <2>7, <2>8, <2>9, <2>11 DEF QuietStep, Active
<1>4. CASE NextCycle(s)
  <2>1. PICK t : t = [task[s] EXCEPT !.at = "begin"]
    OBVIOUS
  <2>2. /\ task[s].at = "sleep" \/ (task[s].at = "returned" /\ task[s].shape \notin Onces)
        /\ task' = [task EXCEPT ![s].at = "begin"]
    BY <1>4 DEF NextCycle, Go
  <2>3. /\ t \in Tasks /\ t.at = "begin" /\ t.gen = task[s].gen /\ t.page = task[s].page
        /\ t.shape = task[s].shape /\ t.result = task[s].result
    BY <1>1, <2>1 DEF Tasks, Stages
  <2>4. TaskOK(t)
    BY <1>1, <2>2, <2>3 DEF TaskOK
  <2>5. TaskBecomes(s, t)
    BY <2>1, <2>2, <2>3, SetTask DEF Typed
  <2> QED
    BY <1>1, <2>2, <2>3, <2>4, <2>5 DEF QuietStep
<1> QED
  BY <1>2, <1>3, <1>4
\* A subscription is made of what is unused.
LEMMA SubscribeStep ==
  ASSUME Typed, TasksOK, NEW s \in Subs, Subscribe(s)
  PROVE  \E t : NewStep(s, t)
<1>1. PICK shape \in Shapes :
        /\ shape \in {"list", "detail"} => \A r \in live : task[r].shape # shape
        /\ task' = [task EXCEPT ![s] = [NoTask EXCEPT !.at = "begin", !.shape = shape]]
  BY DEF Subscribe
<1>2. PICK t : t = [NoTask EXCEPT !.at = "begin", !.shape = shape]
  OBVIOUS
<1>3. shape # "none"
  BY StoreAssumption DEF AllShapes
<1>4. t = [at |-> "begin", shape |-> shape, gen |-> 0, page |-> 0, second |-> FALSE, result |-> "ok"]
  BY <1>2 DEF NoTask
<1>5. /\ t \in Tasks /\ t.at = "begin" /\ t.shape = shape /\ t.gen = 0 /\ t.result = "ok"
  BY <1>4, StoreAssumption DEF Tasks, Stages, Results
<1>6. TaskOK(t)
  BY <1>3, <1>5 DEF TaskOK
<1>7. TaskBecomes(s, t)
  BY <1>1, <1>2, <1>5, SetTask
<1>8. task[s].at = "none" /\ live' = live \cup {s}
      /\ UNCHANGED <<table, channel, generations, cycles, walked>>
  BY DEF Subscribe, NoTask
<1> QED
  BY <1>1, <1>3, <1>5, <1>6, <1>7, <1>8 DEF NewStep

\* An attempt takes the next generation, at its first page.
LEMMA AllocateStep ==
  ASSUME Typed, TasksOK, NEW s \in Subs, Allocate(s)
  PROVE  \E t : AllocStep(s, t)
<1>1. PICK at : at = IF task[s].shape \in Lists THEN "announce" ELSE "fetch"
  OBVIOUS
<1>2. PICK t : t = [task[s] EXCEPT !.at = at, !.gen = generations + 1, !.page = 0]
  OBVIOUS
<1>3. /\ task[s].at = "begin" /\ generations' = generations + 1
      /\ cycles' = IF task[s].second THEN cycles ELSE cycles + 1
      /\ task' = [task EXCEPT ![s].at = IF @ = "begin" /\ task[s].shape \in Lists
                                          THEN "announce" ELSE "fetch",
                              ![s].gen = generations + 1, ![s].page = 0]
      /\ UNCHANGED <<table, channel, live, walked>>
  BY DEF Allocate
<1>4. task[s] \in Tasks /\ TaskOK(task[s]) /\ Pages \in Nat \ {0} /\ generations \in Nat
      /\ cycles \in Nat
  BY TaskIs DEF Typed
<1>5. at \in {"announce", "fetch"} /\ (at = "announce" => task[s].shape \in Lists)
  BY <1>1
<1>6. /\ t \in Tasks /\ t.at = at /\ t.gen = generations + 1 /\ t.page = 0
      /\ t.shape = task[s].shape /\ t.result = task[s].result
  <2>1. PICK g \in Nat : g = generations + 1
    BY <1>4
  <2>2. 0 \in 0..Pages /\ at \in Stages
    BY <1>4, <1>5 DEF Stages
  <2>3. t = [task[s] EXCEPT !.at = at, !.gen = g, !.page = 0]
    BY <1>2, <2>1
  <2>4. t.gen = g
    BY <1>4, <2>3 DEF Tasks
  <2> QED
    BY <1>4, <2>1, <2>2, <2>3, <2>4 DEF Tasks
<1>7. TaskOK(t)
  BY <1>3, <1>4, <1>5, <1>6 DEF TaskOK
<1>8. task' = [task EXCEPT ![s] = t]
  BY <1>1, <1>2, <1>3 DEF Typed
<1>9. TaskBecomes(s, t)
  BY <1>6, <1>8, SetTask
<1> QED
  BY <1>3, <1>4, <1>5, <1>6, <1>7, <1>9 DEF AllocStep

\* A task is aborted, and the walk of a list abandoned.
LEMMA UnsubscribeStep ==
  ASSUME Typed, TasksOK, NEW s \in Subs, Unsubscribe(s)
  PROVE  \E t : GoneStep(s, t)
<1>1. /\ s \in live /\ task[s].shape \notin Onces /\ live' = live \ {s} /\ Rest(s, "returned")
      /\ table' = IF task[s].shape = "list" THEN Abandon(table) ELSE table
      /\ UNCHANGED <<channel, generations, cycles, walked>>
  BY DEF Unsubscribe
<1>2. task[s].at # "none"
  BY <1>1 DEF TasksOK
<1>3. PICK t : /\ TaskBecomes(s, t) /\ TaskOK(t) /\ t.at = "returned" /\ t.gen = 0 /\ t.page = 0
               /\ t.shape = task[s].shape
  BY <1>1, <1>2, RestIs
<1> QED
  BY <1>1, <1>2, <1>3 DEF GoneStep

---------------------------------------------------------------------------
(* The channel. *)

\* A message is pushed.
LEMMA AppendIs ==
  ASSUME Typed, NEW m \in Msgs, channel' = Append(channel, m)
  PROVE  /\ channel' \in Seq(Msgs) /\ Len(channel) \in Nat /\ Len(channel') = Len(channel) + 1
         /\ DOMAIN channel = 1..Len(channel) /\ DOMAIN channel' = 1..(Len(channel) + 1)
         /\ \A i \in DOMAIN channel : channel'[i] = channel[i]
         /\ channel'[Len(channel) + 1] = m
BY DEF Typed

\* A message is received.
LEMMA TailIs ==
  ASSUME Typed, channel # <<>>, channel' = Tail(channel)
  PROVE  /\ channel' \in Seq(Msgs) /\ Len(channel) \in Nat \ {0}
         /\ Len(channel') = Len(channel) - 1
         /\ DOMAIN channel = 1..Len(channel) /\ DOMAIN channel' = 1..(Len(channel) - 1)
         /\ \A i \in DOMAIN channel' : channel'[i] = channel[i + 1]
         /\ Head(channel) = channel[1] /\ channel[1] \in Msgs
BY DEF Typed

\* What receiving a message does to the table.
Took(m) ==
  \/ UNCHANGED table
  \/ /\ m.sub \in live /\ Hears(m)
     /\ \/ m.kind = "started" /\ table' = ApplyStarted(table, m.gen)
        \/ m.kind = "page" /\ table' = ApplyPage(table, m.gen, m.page)
        \/ m.kind = "complete" /\ table' = ApplyComplete(table, m.gen)
        \/ m.kind = "entity" /\ table' = ApplyEntity(table, m.gen, m.page)
        \/ m.kind = "error" /\ table' = ApplyError(table, m.gen, m.missing)

\* The head of the channel is received, by whom it concerns.
RecvStep(m) ==
  /\ m \in Msgs /\ m = channel[1] /\ channel # <<>> /\ channel' = Tail(channel)
  /\ Took(m)
  /\ m.sub \in live /\ Hears(m) /\ m.kind = "page" => table' = ApplyPage(table, m.gen, m.page)
  /\ walked' = IF table'.generation # table.generation THEN m.page ELSE walked
  /\ live' = IF m.kind = "done" THEN live \ {m.sub} ELSE live
  /\ UNCHANGED <<task, generations, cycles>>
LEMMA ReceiveStep ==
  ASSUME Typed, Receive
  PROVE  \E m : RecvStep(m)
<1>1. channel # <<>> /\ channel' = Tail(channel) /\ UNCHANGED <<task, generations, cycles>>
  BY DEF Receive
<1>2. PICK m \in Msgs : m = channel[1] /\ m = Head(channel)
  BY <1>1, TailIs
<1>3. PICK heard : heard = (m.kind # "done" /\ m.sub \in live /\ Hears(m))
  OBVIOUS
<1>4. /\ table' = IF heard THEN Apply(table, m) ELSE table
      /\ walked' = IF table'.generation # table.generation THEN m.page ELSE walked
      /\ live' = IF m.kind = "done" THEN live \ {m.sub} ELSE live
  BY <1>2, <1>3 DEF Receive
<1>5. m.kind \in Kinds
  BY DEF Msgs
<1>6. heard => Took(m)
  BY <1>3, <1>4, <1>5 DEF Took, Apply, Kinds
<1>7. m.sub \in live /\ Hears(m) /\ m.kind = "page" => table' = ApplyPage(table, m.gen, m.page)
  BY <1>3, <1>4 DEF Apply
<1> QED
  BY <1>1, <1>2, <1>4, <1>6, <1>7 DEF Took, RecvStep

\* What receiving it does, field by field.
StartedTakes(m) ==
  /\ m.kind = "started"
  /\ table'.rows = table.rows /\ table'.generation = table.generation
  /\ table'.not_served = table.not_served /\ table'.staging = table.staging
  /\ \/ table'.cycle_started = table.cycle_started
     \/ /\ table'.cycle_started = m.gen
        /\ m.gen > table.generation /\ m.gen > table.cycle_started
PageTakes(m) ==
  /\ m.kind = "page" /\ m.sub \in live /\ m.page \in Rows
  /\ table'.rows = table.rows /\ table'.generation = table.generation
  /\ table'.not_served = table.not_served /\ table'.cycle_started = table.cycle_started
  /\ \/ /\ m.gen <= table.generation \/ table.staging.gen > m.gen
        /\ table'.staging = table.staging
     \/ /\ m.gen > table.generation /\ table.staging.gen <= m.gen /\ table'.staging.gen = m.gen
        /\ table'.staging.pages = IF table.staging.gen = m.gen
                                  THEN table.staging.pages \cup {m.page} ELSE {m.page}
CompleteTakes(m) ==
  /\ m.kind = "complete" /\ m.sub \in live /\ m.shape # "detail"
  /\ m.gen >= table.generation /\ table'.not_served = FALSE
  /\ table'.cycle_started \in {table.cycle_started, 0}
  /\ \/ /\ table.staging.gen = m.gen /\ table'.generation = m.gen /\ table'.staging = NoStaging
        /\ table'.rows = WalkRows(table.staging.pages, m.gen)
     \/ /\ table.staging.gen # m.gen /\ table'.generation = table.generation
        /\ table'.staging = table.staging /\ table'.rows = table.rows
EntityTakes(m) ==
  /\ m.kind = "entity" /\ m.page \in Rows
  /\ table'.generation = table.generation /\ table'.not_served = table.not_served
  /\ table'.cycle_started = table.cycle_started /\ table'.staging = table.staging
  /\ \/ table'.rows = table.rows
     \/ /\ m.gen >= table.generation
        /\ table'.rows = ReadRow(table.rows, m.page, m.gen)
ErrorTakes(m) ==
  /\ m.kind = "error" /\ m.sub \in live /\ m.shape # "detail"
  /\ table'.rows = table.rows /\ table'.generation = table.generation
  /\ table.not_served => table'.not_served
  /\ table'.cycle_started \in {table.cycle_started, 0}
  /\ \/ table'.staging = table.staging
     \/ table'.staging = NoStaging /\ table.staging.gen <= m.gen

\* A message of a well-typed channel does one of these.
LEMMA TookIs ==
  ASSUME Typed, MessagesOK, channel # <<>>, NEW m \in Msgs, m = channel[1], Took(m)
  PROVE  /\ table' \in Tables
         /\ \/ UNCHANGED table
            \/ StartedTakes(m) \/ PageTakes(m) \/ CompleteTakes(m) \/ EntityTakes(m)
            \/ ErrorTakes(m)
<1>1. /\ table \in Tables /\ m.gen \in Nat /\ m.page \in 0..Pages /\ m.missing \in BOOLEAN
      /\ Pages \in Nat \ {0}
  BY StoreAssumption DEF Typed, Msgs
<1>2. 1 \in DOMAIN channel
  BY DEF Typed
<1>3. /\ m.kind = "entity" => m.page \in Rows
      /\ m.kind = "page" => m.page \in Rows
  BY <1>1, <1>2 DEF MessagesOK, Rows, Row
<1>4. PICK t \in Tables : t = table
  BY <1>1
<1>5. PICK g \in Nat : g = m.gen
  BY <1>1
<1>6. PICK u : u = table'
  OBVIOUS
<1>7. CASE UNCHANGED table
  BY <1>1, <1>7
<1>8. CASE m.kind = "started" /\ table' = ApplyStarted(table, m.gen)
  <2>1. u = ApplyStarted(t, g)
    BY <1>4, <1>5, <1>6, <1>8
  <2>2. u \in Tables /\ StartedDoes(t, u, g)
    BY <2>1, ApplyStartedIs
  <2> QED
    BY <1>4, <1>5, <1>6, <1>8, <2>2 DEF StartedTakes, StartedDoes
<1>9. CASE m.sub \in live /\ m.kind = "page" /\ table' = ApplyPage(table, m.gen, m.page)
  <2>1. PICK page \in Rows : page = m.page
    BY <1>3, <1>9
  <2>2. u = ApplyPage(t, g, page)
    BY <1>4, <1>5, <1>6, <1>9, <2>1
  <2>3. u \in Tables /\ PageDoes(t, u, g, page)
    BY <2>2, ApplyPageIs
  <2> QED
    BY <1>4, <1>5, <1>6, <1>9, <2>1, <2>3 DEF PageTakes, PageDoes
<1>10. CASE m.sub \in live /\ Hears(m) /\ m.kind = "complete" /\ table' = ApplyComplete(table, m.gen)
  <2>1. m.shape # "detail"
    BY <1>10 DEF Hears
  <2>2. u = ApplyComplete(t, g)
    BY <1>4, <1>5, <1>6, <1>10
  <2>3. u \in Tables /\ CompleteDoes(t, u, g)
    BY <2>2, ApplyCompleteIs
  <2> QED
    BY <1>4, <1>5, <1>6, <1>10, <2>1, <2>3 DEF CompleteTakes, CompleteDoes
<1>11. CASE m.kind = "entity" /\ table' = ApplyEntity(table, m.gen, m.page)
  <2>1. PICK page \in Rows : page = m.page
    BY <1>3, <1>11
  <2>2. u = ApplyEntity(t, g, page)
    BY <1>4, <1>5, <1>6, <1>11, <2>1
  <2>3. u \in Tables /\ EntityDoes(t, u, g, page)
    BY <2>2, ApplyEntityIs
  <2> QED
    BY <1>4, <1>5, <1>6, <1>11, <2>1, <2>3 DEF EntityTakes, EntityDoes
<1>12. CASE m.sub \in live /\ Hears(m) /\ m.kind = "error"
            /\ table' = ApplyError(table, m.gen, m.missing)
  <2>1. m.shape # "detail"
    BY <1>12 DEF Hears
  <2>2. PICK missing \in BOOLEAN : missing = m.missing
    BY <1>1
  <2>3. u = ApplyError(t, g, missing)
    BY <1>4, <1>5, <1>6, <1>12, <2>2
  <2>4. u \in Tables /\ ErrorTakes(m)
    BY <1>4, <1>5, <1>6, <1>12, <2>1, <2>3, ApplyErrorIs DEF ErrorTakes
  <2> QED
    BY <1>6, <2>4
<1> QED
  BY <1>7, <1>8, <1>9, <1>10, <1>11, <1>12 DEF Took
\* Every step is one of these.
LEMMA Steps ==
  ASSUME Typed, TasksOK, Next
  PROVE  \/ \E s \in Subs : \E t : \/ NewStep(s, t) \/ AllocStep(s, t) \/ GoneStep(s, t)
                                   \/ QuietStep(s, t) \/ \E m : SendStep(s, t, m)
         \/ \E m : RecvStep(m)
<1>1. CASE Receive
  BY <1>1, ReceiveStep
<1>2. ASSUME NEW s \in Subs, Cycle(s)
      PROVE  \E t : AllocStep(s, t) \/ QuietStep(s, t) \/ \E m : SendStep(s, t, m)
  BY <1>2, AllocateStep, AnnounceStep, FetchPageStep, FetchOneStep, EndStep, FinishStep,
     QuietSteps DEF Cycle
<1>3. ASSUME NEW s \in Subs, Subscribe(s) \/ NextCycle(s) \/ Unsubscribe(s)
      PROVE  \E t : NewStep(s, t) \/ QuietStep(s, t) \/ GoneStep(s, t)
  BY <1>3, SubscribeStep, UnsubscribeStep, QuietSteps
<1> QED
  BY <1>1, <1>2, <1>3 DEF Next

---------------------------------------------------------------------------
(* Every step keeps the types and the counters. *)

\* A task's step does.
LEMMA TaskTyped ==
  ASSUME Typed, Counted, TasksOK, NEW s \in Subs, NEW t,
         \/ NewStep(s, t) \/ AllocStep(s, t) \/ GoneStep(s, t) \/ QuietStep(s, t)
         \/ \E m : SendStep(s, t, m)
  PROVE  Typed'
<1>1. /\ TaskBecomes(s, t)
      /\ live' \in {live, live \cup {s}, live \ {s}}
      /\ table' = table \/ table' = Abandon(table)
      /\ generations' \in Nat /\ cycles' \in Nat /\ UNCHANGED walked
  BY DEF NewStep, AllocStep, GoneStep, QuietStep, SendStep, Typed
<1>2. table' \in Tables
  BY <1>1, AbandonIs DEF Typed
<1>3. channel' \in Seq(Msgs) /\ Len(channel') <= CHANNEL
  <2>1. CHANNEL \in Nat
    BY StoreAssumption
  <2>2. CASE UNCHANGED channel
    BY <2>2 DEF Typed
  <2>3. CASE \E m : SendStep(s, t, m)
    BY <2>1, <2>3, AppendIs DEF SendStep
  <2> QED
    BY <2>2, <2>3 DEF NewStep, AllocStep, GoneStep, QuietStep
<1> QED
  BY <1>1, <1>2, <1>3 DEF Typed, TaskBecomes

\* So does receiving.
LEMMA ReceiveTyped ==
  ASSUME Typed, MessagesOK, NEW m, RecvStep(m)
  PROVE  Typed'
<1>1. table' \in Tables
  BY TookIs DEF RecvStep
<1>2. channel' \in Seq(Msgs) /\ Len(channel') <= CHANNEL
  <2>1. CHANNEL \in Nat
    BY StoreAssumption
  <2> QED
    BY <2>1, TailIs DEF RecvStep, Typed
<1>3. walked' \in 0..Pages
  BY DEF RecvStep, Msgs, Typed
<1> QED
  BY <1>1, <1>2, <1>3 DEF Typed, RecvStep
\* A task's generation is one that was allocated, and so is what it sends of it.
LEMMA TaskCounted ==
  ASSUME Typed, Counted, TasksOK, NEW s \in Subs, NEW t,
         \/ NewStep(s, t) \/ AllocStep(s, t) \/ GoneStep(s, t) \/ QuietStep(s, t)
         \/ \E m : SendStep(s, t, m)
  PROVE  Counted'
<1>1. generations \in Nat /\ generations' \in Nat /\ generations <= generations'
      /\ (\A r \in Subs : task[r].gen \in Nat) /\ (\A i \in DOMAIN channel : channel[i].gen \in Nat)
  <2>1. generations \in Nat /\ generations' \in {generations, generations + 1}
    BY DEF NewStep, AllocStep, GoneStep, QuietStep, SendStep, Typed
  <2>2. \A i \in DOMAIN channel : channel[i] \in Msgs
    BY DEF Typed
  <2> QED
    BY <2>1, <2>2, TaskIs DEF Msgs
<1>2. t.gen \in Nat /\ t.gen <= generations'
  <2>1. t.gen \in {0, task[s].gen, generations'}
    BY DEF NewStep, AllocStep, GoneStep, QuietStep, SendStep
  <2>2. task[s].gen <= generations
    BY DEF Counted
  <2> QED
    BY <1>1, <2>1, <2>2
<1>3. \A r \in Subs : task'[r].gen <= generations'
  <2>1. TaskBecomes(s, t) /\ \A r \in Subs : task[r].gen <= generations
    BY DEF NewStep, AllocStep, GoneStep, QuietStep, SendStep, Counted
  <2> QED
    BY <1>1, <1>2, <2>1 DEF TaskBecomes
<1>4. \A i \in DOMAIN channel' : channel'[i].gen <= generations'
  <2>1. CASE UNCHANGED channel
    BY <1>1, <2>1 DEF Counted
  <2>2. ASSUME NEW m, SendStep(s, t, m) PROVE \A i \in DOMAIN channel' : channel'[i].gen <= generations'
    <3>1. m.gen = task[s].gen /\ generations' = generations
      BY <2>2 DEF SendStep
    <3>2. m.gen <= generations'
      BY <3>1 DEF Counted
    <3>3. \A i \in DOMAIN channel : channel[i].gen <= generations'
      BY <3>1 DEF Counted
    <3>4. \A i \in DOMAIN channel' : i \in DOMAIN channel \/ i = Len(channel) + 1
      BY <2>2, AppendIs DEF SendStep
    <3> QED
      BY <2>2, <3>2, <3>3, <3>4, AppendIs DEF SendStep
  <2> QED
    BY <2>1, <2>2 DEF NewStep, AllocStep, GoneStep, QuietStep
<1>5. /\ table'.generation <= generations' /\ table'.cycle_started <= generations'
      /\ table'.staging.gen <= generations'
      /\ \A r \in DOMAIN table'.rows : table'.rows[r] <= generations'
      /\ table'.staging.gen = 0 \/ table'.staging.gen > table'.generation
  <2>1. /\ table.generation \in Nat /\ table.cycle_started \in Nat /\ table.staging.gen \in Nat
        /\ \A r \in DOMAIN table.rows : table.rows[r] \in Nat
    BY DEF Typed, Tables, Staging, RowMaps
  <2>2. CASE UNCHANGED table
    BY <1>1, <2>1, <2>2 DEF Counted
  <2>3. CASE table' = Abandon(table)
    <3>1. /\ table'.rows = table.rows /\ table'.generation = table.generation
          /\ table'.cycle_started = 0 /\ table'.staging.gen = 0
      BY <2>3, AbandonIs DEF Typed, NoStaging
    <3> QED
      BY <1>1, <2>1, <3>1 DEF Counted
  <2> QED
    BY <2>2, <2>3 DEF NewStep, AllocStep, GoneStep, QuietStep, SendStep
<1> QED
  BY <1>3, <1>4, <1>5 DEF Counted

\* What is received was allocated; what lands is no longer ahead.
LEMMA ReceiveCounted ==
  ASSUME Typed, Counted, MessagesOK, NEW m, RecvStep(m)
  PROVE  Counted'
<1>1. /\ generations \in Nat /\ UNCHANGED <<generations, task>> /\ m.gen \in Nat
      /\ m.gen <= generations
      /\ table.generation \in Nat /\ table.cycle_started \in Nat /\ table.staging.gen \in Nat
      /\ \A r \in DOMAIN table.rows : table.rows[r] \in Nat
  <2>1. 1 \in DOMAIN channel /\ m = channel[1] /\ m \in Msgs /\ UNCHANGED <<generations, task>>
    BY TailIs DEF RecvStep
  <2> QED
    BY <2>1 DEF Typed, Tables, Staging, RowMaps, Counted, Msgs
<1>2. \A i \in DOMAIN channel' : channel'[i].gen <= generations'
  <2>1. \A i \in DOMAIN channel' : i + 1 \in DOMAIN channel /\ channel'[i] = channel[i + 1]
    BY TailIs DEF RecvStep
  <2> QED
    BY <1>1, <2>1 DEF Counted
<1>3. /\ table'.generation <= generations /\ table'.cycle_started <= generations
      /\ table'.staging.gen <= generations
      /\ \A r \in DOMAIN table'.rows : table'.rows[r] <= generations
      /\ table'.staging.gen = 0 \/ table'.staging.gen > table'.generation
  <2>0. /\ table.generation <= generations /\ table.cycle_started <= generations
        /\ table.staging.gen <= generations
        /\ \A r \in DOMAIN table.rows : table.rows[r] <= generations
        /\ table.staging.gen = 0 \/ table.staging.gen > table.generation
        /\ NoStaging.gen = 0
    BY DEF Counted, NoStaging
  <2>1. CASE UNCHANGED table
    BY <2>0, <2>1
  <2>2. CASE StartedTakes(m)
    BY <1>1, <2>0, <2>2 DEF StartedTakes
  <2>3. CASE PageTakes(m)
    BY <1>1, <2>0, <2>3 DEF PageTakes
  <2>4. CASE CompleteTakes(m)
    <3>1. \A r \in DOMAIN WalkRows(table.staging.pages, m.gen) :
            WalkRows(table.staging.pages, m.gen)[r] <= generations
      BY <1>1 DEF WalkRows
    <3>2. \A r \in DOMAIN table'.rows : table'.rows[r] <= generations
      BY <2>0, <2>4, <3>1 DEF CompleteTakes
    <3> QED
      BY <1>1, <2>0, <2>4, <3>2 DEF CompleteTakes
  <2>5. CASE EntityTakes(m)
    <3>1. \A r \in DOMAIN ReadRow(table.rows, m.page, m.gen) :
            ReadRow(table.rows, m.page, m.gen)[r] <= generations
      BY <1>1, <2>0 DEF ReadRow
    <3>2. \A r \in DOMAIN table'.rows : table'.rows[r] <= generations
      BY <2>0, <2>5, <3>1 DEF EntityTakes
    <3> QED
      BY <1>1, <2>0, <2>5, <3>2 DEF EntityTakes
  <2>6. CASE ErrorTakes(m)
    BY <1>1, <2>0, <2>6 DEF ErrorTakes
  <2> QED
    BY <2>1, <2>2, <2>3, <2>4, <2>5, <2>6, TookIs DEF RecvStep
<1>4. \A s \in Subs : task'[s].gen <= generations'
  BY <1>1 DEF Counted
<1> QED
  BY <1>1, <1>2, <1>3, <1>4 DEF Counted
---------------------------------------------------------------------------
(* Every step keeps the tasks and what their messages are of. *)

\* Every task's step keeps the tasks.
LEMMA TasksNext ==
  ASSUME Typed, TasksOK, Next
  PROVE  TasksOK'
<1>1. ASSUME NEW s \in Subs, NEW t, TaskBecomes(s, t), TaskOK(t), t.at # "none",
             live' \subseteq live \cup {s}
      PROVE  TasksOK'
  <2> SUFFICES ASSUME NEW r \in Subs
               PROVE  TaskOK(task'[r]) /\ (task'[r].at = "none" => r \notin live')
    BY DEF TasksOK
  <2>1. CASE r = s
    BY <1>1, <2>1 DEF TaskBecomes
  <2>2. CASE r # s
    BY <1>1, <2>2 DEF TaskBecomes, TasksOK
  <2> QED
    BY <2>1, <2>2
<1>2. ASSUME NEW m, RecvStep(m) PROVE TasksOK'
  BY <1>2 DEF RecvStep, TasksOK
<1>3. ASSUME NEW s \in Subs, NEW t,
             \/ NewStep(s, t) \/ AllocStep(s, t) \/ GoneStep(s, t) \/ QuietStep(s, t)
             \/ \E m : SendStep(s, t, m)
      PROVE  TaskBecomes(s, t) /\ TaskOK(t) /\ t.at # "none" /\ live' \subseteq live \cup {s}
  BY <1>3 DEF NewStep, AllocStep, GoneStep, QuietStep, SendStep
<1> QED
  BY <1>1, <1>2, <1>3, Steps

\* What is to be said of one message.
MessageOK(m) ==
  /\ m.kind = "done" <=> m.gen = 0
  /\ m.kind = "entity" => m.page = Row
  /\ m.kind \in {"page", "started"} => m.shape \in Lists
  /\ m.kind = "page" => m.page > 0
  /\ m.kind = "error" => m.shape \in Failing

\* What is sent is of its task.
LEMMA SentOK ==
  ASSUME Typed, TasksOK, NEW s \in Subs, NEW t, NEW m, SendStep(s, t, m)
  PROVE  MessageOK(m) /\ m.shape = t.shape /\ m.sub = s
<1>1. (Active(s) => task[s].gen > 0) /\ (task[s].at = "done" => task[s].gen = 0)
  BY TaskIs DEF TaskOK, Active
<1>2. task[s].page \in Nat /\ task[s].gen \in Nat
  BY TaskIs
<1> QED
  BY <1>1, <1>2 DEF SendStep, MessageOK, Row

\* Every step keeps the messages.
LEMMA MessagesNext ==
  ASSUME Typed, TasksOK, MessagesOK, Next
  PROVE  MessagesOK'
<1>0. /\ \A i \in DOMAIN channel : channel[i] \in Msgs /\ channel[i].sub \in Subs
      /\ \A i \in DOMAIN channel : /\ MessageOK(channel[i])
                                   /\ task[channel[i].sub].at # "none"
                                   /\ channel[i].shape = task[channel[i].sub].shape
  <2>1. \A i \in DOMAIN channel : channel[i] \in Msgs
    BY DEF Typed
  <2>2. \A i \in DOMAIN channel : channel[i].sub \in Subs
    BY <2>1 DEF Msgs
  <2>3. \A i \in DOMAIN channel : /\ MessageOK(channel[i])
                                   /\ task[channel[i].sub].at # "none"
                                   /\ channel[i].shape = task[channel[i].sub].shape
    BY DEF MessagesOK, MessageOK
  <2> QED
    BY <2>1, <2>2, <2>3
<1>1. ASSUME NEW s \in Subs, NEW t, TaskBecomes(s, t), t.at # "none",
             task[s].at = "none" \/ t.shape = task[s].shape
      PROVE  \A i \in DOMAIN channel : /\ task'[channel[i].sub].at # "none"
                                      /\ channel[i].shape = task'[channel[i].sub].shape
  <2> SUFFICES ASSUME NEW i \in DOMAIN channel
               PROVE  /\ task'[channel[i].sub].at # "none"
                      /\ channel[i].shape = task'[channel[i].sub].shape
    OBVIOUS
  <2>1. CASE channel[i].sub = s
    BY <1>0, <1>1, <2>1 DEF TaskBecomes
  <2>2. CASE channel[i].sub # s
    BY <1>0, <1>1, <2>2 DEF TaskBecomes
  <2> QED
    BY <2>1, <2>2
<1>2. ASSUME NEW s \in Subs, NEW t, TaskBecomes(s, t), t.at # "none",
             task[s].at = "none" \/ t.shape = task[s].shape, UNCHANGED channel
      PROVE  MessagesOK'
  BY <1>0, <1>1, <1>2 DEF MessagesOK, MessageOK
<1>3. ASSUME NEW s \in Subs, NEW t, NEW m, SendStep(s, t, m)
      PROVE  MessagesOK'
  <2>1. /\ TaskBecomes(s, t) /\ t.at # "none" /\ t.shape = task[s].shape
        /\ m \in Msgs /\ channel' = Append(channel, m)
    BY <1>3 DEF SendStep
  <2>2. \A i \in DOMAIN channel' :
          /\ MessageOK(channel'[i])
          /\ task'[channel'[i].sub].at # "none"
          /\ channel'[i].shape = task'[channel'[i].sub].shape
    <3> SUFFICES ASSUME NEW i \in DOMAIN channel'
                 PROVE  /\ MessageOK(channel'[i])
                        /\ task'[channel'[i].sub].at # "none"
                        /\ channel'[i].shape = task'[channel'[i].sub].shape
      OBVIOUS
    <3>1. CASE i \in DOMAIN channel
      <4>1. channel'[i] = channel[i]
        BY <2>1, <3>1, AppendIs
      <4> QED
        BY <1>0, <1>1, <2>1, <3>1, <4>1
    <3>2. CASE i = Len(channel) + 1
      <4>1. channel'[i] = m
        BY <2>1, <3>2, AppendIs
      <4>2. MessageOK(m) /\ m.shape = t.shape /\ m.sub = s /\ task'[s] = t
        BY <1>3, <2>1, SentOK DEF TaskBecomes
      <4> QED
        BY <2>1, <4>1, <4>2
    <3> QED
      BY <2>1, <3>1, <3>2, AppendIs
  <2> QED
    BY <2>2 DEF MessagesOK, MessageOK
<1>4. ASSUME NEW m, RecvStep(m) PROVE MessagesOK'
  <2>1. /\ UNCHANGED task
        /\ \A i \in DOMAIN channel' : i + 1 \in DOMAIN channel /\ channel'[i] = channel[i + 1]
    BY <1>4, TailIs DEF RecvStep
  <2> QED
    BY <1>0, <2>1 DEF MessagesOK, MessageOK
<1>5. ASSUME NEW s \in Subs, NEW t,
             NewStep(s, t) \/ AllocStep(s, t) \/ GoneStep(s, t) \/ QuietStep(s, t)
      PROVE  MessagesOK'
  BY <1>2, <1>5 DEF NewStep, AllocStep, GoneStep, QuietStep
<1> QED
  BY <1>3, <1>4, <1>5, Steps

Core == Typed /\ Counted /\ TasksOK /\ MessagesOK

\* Nothing is polled at the start, and the table is empty or what the cache held.
LEMMA InitCore == Init => Core
<1> SUFFICES ASSUME Init PROVE Core
  OBVIOUS
<1>1. {Pages, CHANNEL} \subseteq Nat \ {0}
  BY StoreAssumption
<1>2. Fresh \in Tables
  <2>1. <<>> \in RowMaps
    <3>1. <<>> \in [{} -> Nat] /\ {} \in SUBSET Rows
      OBVIOUS
    <3> QED
      BY <3>1, RowMap
  <2>2. NoStaging \in Staging
    BY DEF NoStaging, Staging
  <2> QED
    BY <2>1, <2>2 DEF Fresh, Tables
<1>3. table \in Tables /\ table.generation = 0 /\ table.cycle_started = 0 /\ table.staging.gen = 0
      /\ \A r \in DOMAIN table.rows : table.rows[r] = 0
  <2>1. CASE table = Fresh
    BY <1>2, <2>1 DEF Fresh, NoStaging
  <2>2. CASE table = Restored(Fresh)
    <3>1. PICK f : f = [r \in Rows |-> 0]
      OBVIOUS
    <3>2. f \in RowMaps
      <4>1. f \in [Rows -> Nat] /\ Rows \in SUBSET Rows
        BY <3>1
      <4> QED
        BY <4>1, RowMap
    <3>3. table = [Fresh EXCEPT !.rows = f, !.restored = TRUE, !.loading = FALSE]
      BY <2>2, <3>1 DEF Restored
    <3>4. table \in Tables
      BY <1>2, <3>2, <3>3 DEF Tables
    <3> QED
      BY <1>2, <3>1, <3>3, <3>4 DEF Fresh, NoStaging, Tables
  <2> QED
    BY <2>1, <2>2 DEF Init
<1>4. NoTask \in Tasks /\ TaskOK(NoTask) /\ NoTask.at = "none" /\ NoTask.gen = 0
  BY <1>1 DEF NoTask, Tasks, TaskOK, Stages, Results
<1>5. /\ channel = <<>> /\ task = [s \in Subs |-> NoTask] /\ live = {} /\ generations = 0
      /\ cycles = 0 /\ walked = 0
  BY DEF Init
<1>6. Typed
  BY <1>1, <1>3, <1>4, <1>5 DEF Typed
<1>7. Counted
  BY <1>3, <1>4, <1>5 DEF Counted
<1>8. TasksOK
  BY <1>4, <1>5 DEF TasksOK
<1>9. MessagesOK
  BY <1>5 DEF MessagesOK
<1> QED
  BY <1>6, <1>7, <1>8, <1>9 DEF Core

\* And every step keeps all of it.
LEMMA CoreNext == Core /\ [Next]_vars => Core'
<1> SUFFICES ASSUME Core, [Next]_vars PROVE Core'
  OBVIOUS
<1>1. CASE UNCHANGED vars
  <2>1. Typed' /\ Counted'
    BY <1>1 DEF Core, Typed, Counted, vars
  <2>2. TasksOK' /\ MessagesOK'
    BY <1>1 DEF Core, TasksOK, MessagesOK, vars
  <2> QED
    BY <2>1, <2>2 DEF Core
<1>2. CASE Next
  <2>1. Typed' /\ Counted'
    BY <1>2, Steps, TaskTyped, TaskCounted, ReceiveTyped, ReceiveCounted DEF Core
  <2> QED
    BY <1>2, <2>1, TasksNext, MessagesNext DEF Core
<1> QED
  BY <1>1, <1>2

\* So it holds in every reachable state.
LEMMA AlwaysCore == Spec => []Core
BY InitCore, CoreNext, PTL DEF Spec
\* Every value the store, its tasks and the channel hold is what it should be, no generation
\* is ahead of the counter, and the channel never holds more than it may (Store::apply, the
\* bounded poll channel).
THEOREM Types == Spec => []TypeOK
<1>1. Core => TypeOK
  <2> SUFFICES ASSUME Core PROVE TypeOK
    OBVIOUS
  <2>0. generations \in Nat /\ table \in Tables
    BY DEF Core, Typed
  <2>1. DOMAIN table.rows \subseteq Rows /\ \A r \in DOMAIN table.rows : table.rows[r] \in Nat
    BY <2>0 DEF Tables, RowMaps
  <2>2. \A r \in DOMAIN table.rows : table.rows[r] \in Generations
    BY <2>0, <2>1 DEF Core, Counted, Generations
  <2>3. /\ table.generation \in Nat /\ table.cycle_started \in Nat /\ table.staging.gen \in Nat
        /\ table.staging.pages \subseteq Rows
        /\ table.polled \in BOOLEAN /\ table.error \in BOOLEAN /\ table.not_served \in BOOLEAN
        /\ table.loading \in BOOLEAN /\ table.restored \in BOOLEAN
    BY <2>0 DEF Tables, Staging
  <2>4. {table.generation, table.cycle_started, table.staging.gen} \subseteq Generations
    BY <2>0, <2>3 DEF Core, Counted, Generations
  <2>5. \A i \in DOMAIN channel : channel[i] \in Messages
    <3> SUFFICES ASSUME NEW i \in DOMAIN channel PROVE channel[i] \in Messages
      OBVIOUS
    <3>1. channel[i] \in Msgs
      BY DEF Core, Typed
    <3>2. channel[i].gen \in Generations
      BY <2>0, <3>1 DEF Core, Counted, Msgs, Generations
    <3> QED
      BY <3>1, <3>2 DEF Msgs, Messages, Kinds
  <2>6. task \in [Subs -> [at : Stages, shape : Shapes \cup {"none"}, gen : Generations,
                           page : 0..Pages, second : BOOLEAN, result : Results]]
    <3>1. task \in [Subs -> Tasks]
      BY DEF Core, Typed
    <3>2. ASSUME NEW s \in Subs
          PROVE  task[s] \in [at : Stages, shape : Shapes \cup {"none"}, gen : Generations,
                              page : 0..Pages, second : BOOLEAN, result : Results]
      <4>1. task[s].gen \in Generations
        BY <2>0, <3>1 DEF Core, Counted, Tasks, Generations
      <4> QED
        BY <3>1, <4>1 DEF Tasks
    <3> QED
      BY <3>1, <3>2
  <2>7. Len(channel) <= CHANNEL /\ live \subseteq Subs /\ walked \in 0..Pages
    BY DEF Core, Typed
  <2> QED
    BY <2>1, <2>2, <2>3, <2>4, <2>5, <2>6, <2>7 DEF TypeOK
<1> QED
  BY <1>1, AlwaysCore, PTL

---------------------------------------------------------------------------
(* "Not served" is taken back by a cycle that completes. *)

\* A standing "not served" is taken back by a cycle that completes and never by a failure,
\* a page, an abandoned walk, or by what a detail reports (Store::apply, App::apply).
THEOREM OnlyACycleTakesItBack == Spec => NotServedStands
<1>1. Core /\ [Next]_vars =>
        [table.not_served /\ ~table'.not_served =>
           Head(channel).kind = "complete" /\ Head(channel).shape # "detail"]_vars
  <2> SUFFICES ASSUME Core, Next, table.not_served, ~table'.not_served
               PROVE  Head(channel).kind = "complete" /\ Head(channel).shape # "detail"
    OBVIOUS
  <2>1. ASSUME NEW s \in Subs, NEW t,
               \/ NewStep(s, t) \/ AllocStep(s, t) \/ GoneStep(s, t) \/ QuietStep(s, t)
               \/ \E m : SendStep(s, t, m)
        PROVE  FALSE
    <3>1. table' = table \/ table' = Abandon(table)
      BY <2>1 DEF NewStep, AllocStep, GoneStep, QuietStep, SendStep
    <3> QED
      BY <3>1, AbandonIs DEF Core, Typed
  <2>2. ASSUME NEW m, RecvStep(m)
        PROVE  Head(channel).kind = "complete" /\ Head(channel).shape # "detail"
    <3>1. m = Head(channel)
      BY <2>2, TailIs DEF RecvStep, Core
    <3>2. \/ UNCHANGED table
          \/ StartedTakes(m) \/ PageTakes(m) \/ CompleteTakes(m) \/ EntityTakes(m)
          \/ ErrorTakes(m)
      BY <2>2, TookIs DEF RecvStep, Core
    <3>3. CompleteTakes(m)
      BY <3>2 DEF StartedTakes, PageTakes, EntityTakes, ErrorTakes
    <3> QED
      BY <3>1, <3>3 DEF CompleteTakes
  <2> QED
    BY <2>1, <2>2, Steps DEF Core
<1> QED
  BY <1>1, AlwaysCore, PTL DEF Spec, NotServedStands

---------------------------------------------------------------------------
(* A once is heard to its end. *)

\* A task's step leaves its messages addressed to whom they were.
LEMMA OnceTask ==
  ASSUME Core, OnceOK, NEW s \in Subs, NEW t,
         \/ NewStep(s, t) \/ AllocStep(s, t) \/ GoneStep(s, t) \/ QuietStep(s, t)
  PROVE  OnceOK'
<1>1. /\ TaskBecomes(s, t) /\ UNCHANGED channel
      /\ t.shape \in Onces /\ t.at # "returned" => s \in live'
      /\ \A r \in Subs : r # s => (r \in live' <=> r \in live)
      /\ \A i \in DOMAIN channel : channel[i].sub \in Subs
  <2>0. \A i \in DOMAIN channel : channel[i] \in Msgs
    BY DEF Core, Typed
  <2>1. \A i \in DOMAIN channel : channel[i].sub \in Subs
    BY <2>0 DEF Msgs
  <2>2. ASSUME QuietStep(s, t) \/ AllocStep(s, t), t.shape \in Onces PROVE s \in live
    BY <2>2 DEF QuietStep, AllocStep, OnceOK
  <2> QED
    BY <2>1, <2>2 DEF NewStep, AllocStep, GoneStep, QuietStep, TaskBecomes
<1>2. \A r \in Subs : task'[r].shape \in Onces /\ task'[r].at # "returned" => r \in live'
  <2> SUFFICES ASSUME NEW r \in Subs, task'[r].shape \in Onces, task'[r].at # "returned"
               PROVE  r \in live'
    OBVIOUS
  <2>1. CASE r = s
    BY <1>1, <2>1 DEF TaskBecomes
  <2>2. CASE r # s
    BY <1>1, <2>2 DEF TaskBecomes, OnceOK
  <2> QED
    BY <2>1, <2>2
<1>3. ASSUME NEW i \in DOMAIN channel, channel[i].sub = s
      PROVE  /\ task[s].at # "none" /\ task[s].shape = channel[i].shape
             /\ t.shape = channel[i].shape
  BY <1>3 DEF Core, MessagesOK, NewStep, AllocStep, GoneStep, QuietStep
<1>4. ASSUME NEW i \in DOMAIN channel, channel[i].shape \in Onces
      PROVE  channel[i].sub \in live'
  <2>1. channel[i].sub \in live
    BY <1>4 DEF OnceOK
  <2>2. CASE channel[i].sub = s
    <3>1. t.shape \in Onces
      BY <1>3, <1>4, <2>2
    <3> QED
      BY <2>1, <2>2, <3>1 DEF NewStep, AllocStep, GoneStep, QuietStep
  <2>3. CASE channel[i].sub # s
    BY <1>1, <2>1, <2>3
  <2> QED
    BY <2>2, <2>3
<1>5. ASSUME NEW i \in DOMAIN channel, channel[i].kind = "done"
      PROVE  /\ task'[channel[i].sub].at = "returned" /\ channel[i].shape \in Onces
             /\ \A j \in DOMAIN channel : j > i => channel[j].sub # channel[i].sub
  <2>1. /\ task[channel[i].sub].at = "returned" /\ channel[i].shape \in Onces
        /\ \A j \in DOMAIN channel : j > i => channel[j].sub # channel[i].sub
    BY <1>5 DEF OnceOK
  <2>2. channel[i].sub # s
    <3> SUFFICES ASSUME channel[i].sub = s PROVE FALSE
      OBVIOUS
    <3>1. task[s].at = "returned" /\ t.shape \in Onces
      BY <1>3, <2>1
    <3> QED
      BY <3>1 DEF NewStep, AllocStep, GoneStep, QuietStep
  <2> QED
    BY <1>1, <2>1, <2>2 DEF TaskBecomes
<1> QED
  BY <1>1, <1>2, <1>4, <1>5 DEF OnceOK
\* So does a message it sends: what is over is sent last.
LEMMA OnceSend ==
  ASSUME Core, OnceOK, NEW s \in Subs, NEW t, NEW m, SendStep(s, t, m)
  PROVE  OnceOK'
<1>1. /\ TaskBecomes(s, t) /\ UNCHANGED live /\ m.sub = s /\ m.shape = task[s].shape
      /\ t.shape = task[s].shape /\ channel' = Append(channel, m) /\ m \in Msgs
      /\ task[s].at \in {"announce", "fetch", "ended", "done"}
      /\ t.at = "returned" /\ t.shape \in Onces => m.kind = "done"
      /\ m.kind = "done" => t.at = "returned" /\ task[s].at = "done"
      /\ \A i \in DOMAIN channel : channel[i] \in Msgs
  BY DEF SendStep, Active, Core, Typed
<1>2. m.kind = "done" => m.shape \in Onces
  BY <1>1, TaskIs DEF Core, TaskOK
<1>3. \A r \in Subs : task'[r].shape \in Onces /\ task'[r].at # "returned" => r \in live'
  <2> SUFFICES ASSUME NEW r \in Subs, task'[r].shape \in Onces, task'[r].at # "returned"
               PROVE  r \in live'
    OBVIOUS
  <2>1. CASE r = s
    <3>1. task[s].shape \in Onces /\ task[s].at # "returned"
      BY <1>1, <2>1 DEF TaskBecomes
    <3> QED
      BY <1>1, <2>1, <3>1 DEF OnceOK
  <2>2. CASE r # s
    BY <1>1, <2>2 DEF TaskBecomes, OnceOK
  <2> QED
    BY <2>1, <2>2
<1>4. m.shape \in Onces => s \in live
  BY <1>1 DEF OnceOK
<1>5. ASSUME NEW i \in DOMAIN channel', channel'[i].shape \in Onces
      PROVE  channel'[i].sub \in live'
  <2>1. CASE i \in DOMAIN channel
    <3>1. channel'[i] = channel[i]
      BY <1>1, <2>1, AppendIs DEF Core
    <3> QED
      BY <1>1, <1>5, <2>1, <3>1 DEF OnceOK
  <2>2. CASE i = Len(channel) + 1
    <3>1. channel'[i] = m
      BY <1>1, <2>2, AppendIs DEF Core
    <3> QED
      BY <1>1, <1>4, <1>5, <3>1
  <2> QED
    BY <1>1, <2>1, <2>2, AppendIs DEF Core
<1>6. ASSUME NEW i \in DOMAIN channel', channel'[i].kind = "done"
      PROVE  /\ task'[channel'[i].sub].at = "returned" /\ channel'[i].shape \in Onces
             /\ \A j \in DOMAIN channel' : j > i => channel'[j].sub # channel'[i].sub
  <2>0. /\ DOMAIN channel = 1..Len(channel) /\ DOMAIN channel' = 1..(Len(channel) + 1)
        /\ Len(channel) \in Nat /\ channel'[Len(channel) + 1] = m
        /\ \A j \in DOMAIN channel : channel'[j] = channel[j]
    BY <1>1, AppendIs DEF Core
  <2>1. CASE i \in DOMAIN channel
    <3>1. channel'[i] = channel[i]
      BY <2>0, <2>1
    <3>2. /\ task[channel[i].sub].at = "returned" /\ channel[i].shape \in Onces
          /\ \A j \in DOMAIN channel : j > i => channel[j].sub # channel[i].sub
      BY <1>6, <2>1, <3>1 DEF OnceOK
    <3>3. channel[i].sub # s
      BY <1>1, <3>2
    <3>4. channel[i].sub \in Subs
      BY <1>1, <2>1 DEF Msgs
    <3>5. \A j \in DOMAIN channel' : j > i => channel'[j].sub # channel'[i].sub
      <4> SUFFICES ASSUME NEW j \in DOMAIN channel', j > i PROVE channel'[j].sub # channel[i].sub
        BY <3>1
      <4>1. CASE j \in DOMAIN channel
        BY <2>0, <3>2, <4>1
      <4>2. CASE j = Len(channel) + 1
        BY <1>1, <2>0, <3>3, <4>2
      <4> QED
        BY <2>0, <4>1, <4>2
    <3> QED
      BY <1>1, <3>1, <3>2, <3>3, <3>4, <3>5 DEF TaskBecomes
  <2>2. CASE i = Len(channel) + 1
    <3>1. channel'[i] = m
      BY <2>0, <2>2
    <3>2. \A j \in DOMAIN channel' : ~(j > i)
      BY <2>0, <2>2
    <3> QED
      BY <1>1, <1>2, <1>6, <3>1, <3>2 DEF TaskBecomes
  <2> QED
    BY <2>0, <2>1, <2>2
<1> QED
  BY <1>3, <1>5, <1>6 DEF OnceOK

\* And the receiver: it reaps a once at its last message.
LEMMA OnceReceive ==
  ASSUME Core, OnceOK, NEW m, RecvStep(m)
  PROVE  OnceOK'
<1>1. /\ UNCHANGED task /\ live' = IF m.kind = "done" THEN live \ {m.sub} ELSE live
      /\ 1 \in DOMAIN channel /\ m = channel[1] /\ Len(channel) \in Nat \ {0}
      /\ DOMAIN channel = 1..Len(channel) /\ DOMAIN channel' = 1..(Len(channel) - 1)
      /\ \A i \in DOMAIN channel' : i + 1 \in DOMAIN channel /\ i + 1 > 1 /\ channel'[i] = channel[i + 1]
  BY TailIs DEF RecvStep, Core
<1>2. m.kind = "done" =>
        task[m.sub].at = "returned" /\ \A j \in DOMAIN channel : j > 1 => channel[j].sub # m.sub
  BY <1>1 DEF OnceOK
<1>3. ASSUME NEW r \in Subs, task'[r].shape \in Onces, task'[r].at # "returned"
      PROVE  r \in live'
  <2>1. r \in live
    BY <1>1, <1>3 DEF OnceOK
  <2> QED
    BY <1>1, <1>2, <1>3, <2>1
<1>4. ASSUME NEW i \in DOMAIN channel', channel'[i].shape \in Onces
      PROVE  channel'[i].sub \in live'
  <2>1. channel[i + 1].sub \in live
    BY <1>1, <1>4 DEF OnceOK
  <2> QED
    BY <1>1, <1>2, <2>1
<1>5. ASSUME NEW i \in DOMAIN channel', channel'[i].kind = "done"
      PROVE  /\ task'[channel'[i].sub].at = "returned" /\ channel'[i].shape \in Onces
             /\ \A j \in DOMAIN channel' : j > i => channel'[j].sub # channel'[i].sub
  <2>1. PICK k \in DOMAIN channel : k = i + 1 /\ channel'[i] = channel[k]
    BY <1>1
  <2>2. /\ task[channel[k].sub].at = "returned" /\ channel[k].shape \in Onces
        /\ \A j \in DOMAIN channel : j > k => channel[j].sub # channel[k].sub
    BY <1>5, <2>1 DEF OnceOK
  <2>3. ASSUME NEW j \in DOMAIN channel', j > i PROVE channel'[j].sub # channel'[i].sub
    <3>1. j + 1 \in DOMAIN channel /\ j + 1 > k /\ channel'[j] = channel[j + 1]
      BY <1>1, <2>1, <2>3
    <3> QED
      BY <2>1, <2>2, <3>1
  <2> QED
    BY <1>1, <2>1, <2>2, <2>3
<1> QED
  BY <1>3, <1>4, <1>5 DEF OnceOK

\* Whatever a once sent is still addressed to a live subscription when it is received: what
\* it reads is never gated out (Msg::Done is sent last, and the receiver reaps).
THEOREM NoOnceGatedOut == Spec => []OnceIsHeard
<1>1. Init => OnceOK
  BY DEF Init, OnceOK, NoTask, Onces
<1>2. Core /\ OnceOK /\ [Next]_vars => OnceOK'
  <2>1. CASE UNCHANGED vars
    BY <2>1 DEF OnceOK, vars
  <2> QED
    BY <2>1, Steps, OnceTask, OnceSend, OnceReceive DEF Core
<1>3. OnceOK => OnceIsHeard
  BY DEF OnceOK, OnceIsHeard
<1> QED
  BY <1>1, <1>2, <1>3, AlwaysCore, PTL DEF Spec
---------------------------------------------------------------------------
(* Messages come in order. *)

\* A task's step: what it is about next is what it was about, or a cycle nobody heard of.
LEMMA OrderedTask ==
  ASSUME Core, Ordered, NEW s \in Subs, NEW t,
         \/ NewStep(s, t) \/ AllocStep(s, t) \/ GoneStep(s, t) \/ QuietStep(s, t)
  PROVE  Ordered'
<1>0. /\ TaskBecomes(s, t) /\ UNCHANGED channel /\ generations \in Nat
      /\ \A i \in DOMAIN channel : channel[i].gen \in Nat /\ channel[i].gen <= generations
      /\ \A r \in Subs : task[r].gen \in Nat /\ task[r].gen <= generations
  <2>1. \A i \in DOMAIN channel : channel[i] \in Msgs
    BY DEF Core, Typed
  <2>2. \A i \in DOMAIN channel : channel[i].gen \in Nat /\ channel[i].gen <= generations
    BY <2>1 DEF Core, Counted, Msgs
  <2>3. \A r \in Subs : task[r].gen \in Nat /\ task[r].gen <= generations
    BY TaskIs DEF Core, Counted
  <2> QED
    BY <2>2, <2>3 DEF NewStep, AllocStep, GoneStep, QuietStep, Core, Typed
<1>1. \/ t.at \notin {"announce", "fetch", "ended"}
      \/ Active(s) /\ t.gen = task[s].gen /\ t.page = task[s].page
      \/ t.gen = generations + 1
  BY DEF NewStep, AllocStep, GoneStep, QuietStep
<1>2. \A r \in Subs : r # s => (Active(r)' <=> Active(r)) /\ task'[r] = task[r]
  BY <1>0 DEF TaskBecomes, Active
<1>3. task'[s] = t /\ (Active(s)' <=> t.at \in {"announce", "fetch", "ended"})
  BY <1>0 DEF TaskBecomes, Active
<1>4. ASSUME NEW r \in Subs, NEW i \in DOMAIN channel, Active(r)'
      PROVE  Sent(channel[i], r, task'[r])
  <2>1. CASE r # s
    BY <1>2, <1>4, <2>1 DEF Ordered
  <2>2. CASE r = s /\ Active(s) /\ t.gen = task[s].gen /\ t.page = task[s].page
    <3>1. Sent(channel[i], s, task[s])
      BY <2>2 DEF Ordered
    <3> QED
      BY <1>3, <2>2, <3>1 DEF Sent
  <2>3. CASE r = s /\ t.gen = generations + 1
    <3>1. channel[i].gen < t.gen
      BY <1>0, <2>3
    <3> QED
      BY <1>0, <1>3, <2>3, <3>1 DEF Sent
  <2> QED
    BY <1>1, <1>3, <1>4, <2>1, <2>2, <2>3
<1>5. ASSUME NEW q \in Subs, NEW r \in Subs, Active(q)', Active(r)', task'[q].gen = task'[r].gen
      PROVE  q = r
  <2>1. CASE q # s /\ r # s
    BY <1>2, <1>5, <2>1 DEF Ordered
  <2>2. CASE Active(s) /\ t.gen = task[s].gen
    <3>1. /\ Active(q) /\ task'[q].gen = task[q].gen
          /\ Active(r) /\ task'[r].gen = task[r].gen
      BY <1>2, <1>3, <1>5, <2>2
    <3> QED
      BY <1>5, <3>1 DEF Ordered
  <2>3. CASE t.gen = generations + 1
    <3>1. \A p \in Subs : p # s => task'[p].gen < t.gen
      BY <1>0, <1>2, <2>3
    <3>2. t.gen \in Nat
      BY <1>0, <2>3
    <3>3. ~(q = s /\ r # s) /\ ~(q # s /\ r = s)
      BY <1>3, <1>5, <3>1, <3>2
    <3> QED
      BY <2>1, <3>3
  <2> QED
    BY <1>1, <1>3, <1>5, <2>1, <2>2, <2>3
<1> QED
  BY <1>0, <1>4, <1>5 DEF Ordered

\* A message is of its task's cycle, and comes after what that cycle sent before.
LEMMA OrderedSend ==
  ASSUME Core, Ordered, NEW s \in Subs, NEW t, NEW m, SendStep(s, t, m)
  PROVE  Ordered'
<1>0. /\ TaskBecomes(s, t) /\ channel' = Append(channel, m) /\ m \in Msgs /\ m.sub = s
      /\ DOMAIN channel = 1..Len(channel) /\ DOMAIN channel' = 1..(Len(channel) + 1)
      /\ Len(channel) \in Nat /\ channel'[Len(channel) + 1] = m
      /\ \A i \in DOMAIN channel : channel'[i] = channel[i] /\ channel[i] \in Msgs
  BY AppendIs DEF SendStep, Core, Typed
<1>1. /\ task[s].gen \in Nat /\ task[s].page \in Nat /\ m.gen \in Nat /\ m.page \in Nat
      /\ m.gen = task[s].gen
      /\ \A i \in DOMAIN channel : channel[i].gen \in Nat /\ channel[i].page \in Nat
      /\ Active(s) => task[s].gen > 0
  <2>1. \A i \in DOMAIN channel : channel[i].gen \in Nat /\ channel[i].page \in Nat
    BY <1>0, StoreAssumption DEF Msgs
  <2>2. m.page \in Nat /\ m.gen \in Nat
    BY <1>0, StoreAssumption DEF Msgs
  <2> QED
    BY <2>1, <2>2, TaskIs DEF Core, SendStep, TaskOK, Active
<1>2. m.kind # "done" => Active(s) /\ \A i \in DOMAIN channel : Sent(channel[i], s, task[s])
  BY DEF SendStep, Ordered
<1>3. \A i \in DOMAIN channel : channel[i].kind = "done" <=> channel[i].gen = 0
  BY DEF Core, MessagesOK
<1>4. m.kind = "done" <=> m.gen = 0
  BY SentOK DEF Core, MessageOK
<1>5. \A r \in Subs : r # s => (Active(r)' <=> Active(r)) /\ task'[r] = task[r]
  BY <1>0 DEF TaskBecomes, Active
<1>6. task'[s] = t /\ (Active(s)' <=> t.at \in {"announce", "fetch", "ended"})
  BY <1>0 DEF TaskBecomes, Active
<1>7. Active(s)' => /\ Active(s) /\ t.gen = task[s].gen /\ ~Ends(m)
                    /\ t.page \in Nat /\ task[s].page <= t.page
                    /\ m.kind = "page" => m.page <= t.page
  BY <1>1, <1>6 DEF SendStep, Ends
<1>8. ASSUME NEW i \in DOMAIN channel
      PROVE  /\ Owned(channel[i], m) /\ Owned(m, channel[i])
             /\ Before(channel[i], m)
  <2>1. CASE m.kind = "done"
    BY <1>3, <1>4, <2>1 DEF Owned, Before
  <2>2. CASE m.kind # "done"
    <3>1. Sent(channel[i], s, task[s])
      BY <1>2, <2>2
    <3>2. Owned(channel[i], m) /\ Owned(m, channel[i])
      BY <1>0, <1>1, <3>1 DEF Owned, Sent
    <3>3. /\ m.kind = "page" => m.page = task[s].page + 1
          /\ m.kind = "complete" => m.page = task[s].page
      BY DEF SendStep
    <3>4. Before(channel[i], m)
      BY <1>0, <1>1, <3>1, <3>3 DEF Before, Sent
    <3> QED
      BY <3>2, <3>4
  <2> QED
    BY <2>1, <2>2
<1>9. ASSUME NEW i \in DOMAIN channel', NEW j \in DOMAIN channel'
      PROVE  Owned(channel'[i], channel'[j]) /\ (i < j => Before(channel'[i], channel'[j]))
  <2>1. CASE i \in DOMAIN channel /\ j \in DOMAIN channel
    BY <1>0, <2>1 DEF Ordered
  <2>2. CASE i \in DOMAIN channel /\ j = Len(channel) + 1
    BY <1>0, <1>8, <2>2
  <2>3. CASE i = Len(channel) + 1 /\ j \in DOMAIN channel
    BY <1>0, <1>8, <2>3
  <2>4. CASE i = Len(channel) + 1 /\ j = Len(channel) + 1
    BY <1>0, <2>4 DEF Owned
  <2> QED
    BY <1>0, <2>1, <2>2, <2>3, <2>4
<1>10. ASSUME NEW r \in Subs, NEW i \in DOMAIN channel', Active(r)'
       PROVE  Sent(channel'[i], r, task'[r])
  <2>1. CASE r # s /\ i \in DOMAIN channel
    BY <1>0, <1>5, <1>10, <2>1 DEF Ordered
  <2>2. CASE r # s /\ i = Len(channel) + 1
    <3>1. Active(r) /\ task[r].gen > 0 /\ task'[r] = task[r]
      BY <1>5, <1>10, <2>2, TaskIs DEF Core, TaskOK, Active
    <3>2. m.gen # task[r].gen
      <4>1. CASE m.kind = "done"
        BY <1>4, <3>1, <4>1
      <4>2. CASE m.kind # "done"
        BY <1>1, <1>2, <2>2, <3>1, <4>2 DEF Ordered
      <4> QED
        BY <4>1, <4>2
    <3> QED
      BY <1>0, <2>2, <3>1, <3>2 DEF Sent
  <2>3. CASE r = s /\ i \in DOMAIN channel
    <3>1. Active(s) /\ Sent(channel[i], s, task[s])
      BY <1>7, <1>10, <2>3 DEF Ordered
    <3>2. channel[i].page <= task[s].page => channel[i].page <= t.page
      BY <1>1, <1>7, <1>10, <2>3
    <3>3. t.gen = task[s].gen
      BY <1>7, <1>10, <2>3
    <3>4. Sent(channel[i], s, t)
      BY <3>1, <3>2, <3>3 DEF Sent
    <3> QED
      BY <1>0, <1>6, <2>3, <3>4
  <2>4. CASE r = s /\ i = Len(channel) + 1
    BY <1>0, <1>1, <1>6, <1>7, <1>10, <2>4 DEF Sent
  <2> QED
    BY <1>0, <2>1, <2>2, <2>3, <2>4
<1>11. ASSUME NEW q \in Subs, NEW r \in Subs, Active(q)', Active(r)', task'[q].gen = task'[r].gen
       PROVE  q = r
  <2>1. /\ Active(q) /\ task'[q].gen = task[q].gen
        /\ Active(r) /\ task'[r].gen = task[r].gen
    BY <1>5, <1>6, <1>7, <1>11
  <2> QED
    BY <1>11, <2>1 DEF Ordered
<1> QED
  BY <1>9, <1>10, <1>11 DEF Ordered

\* Receiving takes the first of them.
LEMMA OrderedReceive ==
  ASSUME Core, Ordered, NEW m, RecvStep(m)
  PROVE  Ordered'
<1>1. /\ UNCHANGED task
      /\ \A i \in DOMAIN channel' : i + 1 \in DOMAIN channel /\ channel'[i] = channel[i + 1]
      /\ \A i, j \in DOMAIN channel' : i < j => i + 1 < j + 1
  BY TailIs DEF RecvStep, Core
<1>2. \A i, j \in DOMAIN channel' :
        Owned(channel'[i], channel'[j]) /\ (i < j => Before(channel'[i], channel'[j]))
  BY <1>1 DEF Ordered
<1>3. \A s \in Subs, i \in DOMAIN channel' : Active(s)' => Sent(channel'[i], s, task'[s])
  BY <1>1 DEF Ordered, Active
<1>4. \A r, s \in Subs : Active(r)' /\ Active(s)' /\ task'[r].gen = task'[s].gen => r = s
  BY <1>1 DEF Ordered, Active
<1> QED
  BY <1>2, <1>3, <1>4 DEF Ordered

\* A view has one list over a key: another is not opened while it is live.
LEMMA OneListNext ==
  ASSUME Core, OneList, Next
  PROVE  OneList'
<1>0. live \subseteq Subs
  BY DEF Core, Typed
<1>1. ASSUME NEW s \in Subs, NEW t, TaskBecomes(s, t), live' \subseteq live, t.shape = task[s].shape
      PROVE  OneList'
  <2>1. \A r \in live' : r \in live /\ task'[r].shape = task[r].shape
    BY <1>0, <1>1 DEF TaskBecomes
  <2> QED
    BY <2>1 DEF OneList
<1>2. ASSUME NEW s \in Subs, NEW t, NewStep(s, t) PROVE OneList'
  <2>1. /\ TaskBecomes(s, t) /\ live' = live \cup {s} /\ s \notin live
        /\ t.shape = "list" => \A r \in live : task[r].shape # "list"
    BY <1>2 DEF NewStep, Core, TasksOK
  <2>2. \A r \in live : task'[r] = task[r]
    BY <1>0, <2>1 DEF TaskBecomes
  <2> QED
    BY <2>1, <2>2 DEF OneList, TaskBecomes
<1>3. ASSUME NEW m, RecvStep(m) PROVE OneList'
  BY <1>3 DEF RecvStep, OneList
<1>4. ASSUME NEW s \in Subs, NEW t,
             AllocStep(s, t) \/ GoneStep(s, t) \/ QuietStep(s, t) \/ \E m : SendStep(s, t, m)
      PROVE  OneList'
  BY <1>1, <1>4 DEF AllocStep, GoneStep, QuietStep, SendStep
<1> QED
  BY <1>2, <1>3, <1>4, Steps DEF Core
---------------------------------------------------------------------------
(* Walks land whole. *)

\* What is sent before it is received is numbered by its task.
LEMMA Counters ==
  ASSUME Core
  PROVE  /\ \A i \in DOMAIN channel :
              /\ channel[i] \in Msgs /\ channel[i].sub \in Subs /\ channel[i].gen \in Nat
              /\ channel[i].page \in Nat /\ channel[i].gen <= generations
         /\ \A s \in Subs : /\ task[s].gen \in Nat /\ task[s].page \in Nat
                            /\ task[s].gen <= generations
                            /\ Active(s) => task[s].gen > 0
         /\ table \in Tables /\ table.staging.gen \in Nat /\ table.generation \in Nat
         /\ table.staging.gen <= generations /\ generations \in Nat
         /\ DOMAIN channel = 1..Len(channel) /\ Len(channel) \in Nat
         /\ live \subseteq Subs
<1>1. \A i \in DOMAIN channel : channel[i] \in Msgs
  BY DEF Core, Typed
<1>2. \A i \in DOMAIN channel :
        /\ channel[i] \in Msgs /\ channel[i].sub \in Subs /\ channel[i].gen \in Nat
        /\ channel[i].page \in Nat /\ channel[i].gen <= generations
  BY <1>1, StoreAssumption DEF Core, Counted, Msgs
<1>3. \A s \in Subs : /\ task[s].gen \in Nat /\ task[s].page \in Nat
                      /\ task[s].gen <= generations
                      /\ Active(s) => task[s].gen > 0
  BY TaskIs DEF Core, Counted, TaskOK, Active
<1>4. table \in Tables /\ table.staging.gen \in Nat /\ table.generation \in Nat
      /\ table.staging.gen <= generations /\ generations \in Nat
  BY DEF Core, Typed, Counted, Tables, Staging
<1> QED
  BY <1>2, <1>3, <1>4 DEF Core, Typed

\* A task's step stages nothing, and a new generation is nobody's.
LEMMA UnmixedTask ==
  ASSUME Core, Unmixed, NEW s \in Subs, NEW t,
         \/ NewStep(s, t) \/ AllocStep(s, t) \/ GoneStep(s, t) \/ QuietStep(s, t)
  PROVE  Unmixed'
<1>0. TaskBecomes(s, t) /\ UNCHANGED channel
  BY DEF NewStep, AllocStep, GoneStep, QuietStep
<1>1. table'.staging.gen = table.staging.gen \/ table'.staging.gen = 0
  <2>1. CASE UNCHANGED table
    BY <2>1
  <2>2. CASE table' = Abandon(table)
    BY <2>2, AbandonIs DEF Core, Typed, NoStaging
  <2> QED
    BY <2>1, <2>2 DEF NewStep, AllocStep, GoneStep, QuietStep
<1>2. ASSUME NEW i \in DOMAIN channel, channel[i].kind # "done", channel[i].shape \notin Lists
      PROVE  channel[i].gen # table'.staging.gen
  <2>1. channel[i].gen # 0
    BY <1>2 DEF Core, MessagesOK
  <2> QED
    BY <1>1, <1>2, <2>1 DEF Unmixed
<1>3. ASSUME NEW r \in Subs, Active(r)', task'[r].shape \notin Lists
      PROVE  task'[r].gen # table'.staging.gen
  <2>1. CASE r # s
    <3>1. Active(r) /\ task'[r] = task[r]
      BY <1>0, <1>3, <2>1 DEF TaskBecomes, Active
    <3>2. task[r].gen # 0
      BY <3>1, Counters
    <3> QED
      BY <1>1, <1>3, <3>1, <3>2 DEF Unmixed
  <2>2. CASE r = s /\ AllocStep(s, t)
    <3>1. t.gen = generations + 1 /\ table'.staging.gen = table.staging.gen
      BY <2>2 DEF AllocStep
    <3>2. t.gen # table'.staging.gen
      BY <3>1, Counters
    <3> QED
      BY <1>0, <2>2, <3>2 DEF TaskBecomes
  <2>3. CASE r = s /\ ~AllocStep(s, t)
    <3>1. /\ Active(s) /\ t.gen = task[s].gen /\ t.shape = task[s].shape /\ UNCHANGED table
          /\ task'[r] = t
      BY <1>0, <1>3, <2>3 DEF TaskBecomes, Active, NewStep, GoneStep, QuietStep
    <3> QED
      BY <1>3, <3>1 DEF Unmixed
  <2> QED
    BY <2>1, <2>2, <2>3
<1> QED
  BY <1>0, <1>2, <1>3 DEF Unmixed

\* Neither does what it sends.
LEMMA UnmixedSend ==
  ASSUME Core, Unmixed, NEW s \in Subs, NEW t, NEW m, SendStep(s, t, m)
  PROVE  Unmixed'
<1>0. /\ TaskBecomes(s, t) /\ channel' = Append(channel, m) /\ m \in Msgs /\ UNCHANGED table
      /\ m.shape = task[s].shape /\ t.shape = task[s].shape
      /\ m.kind # "done" => Active(s) /\ m.gen = task[s].gen
      /\ t.at \in {"announce", "fetch", "ended"} => Active(s) /\ t.gen = task[s].gen
  BY DEF SendStep
<1>1. ASSUME NEW i \in DOMAIN channel', channel'[i].kind # "done", channel'[i].shape \notin Lists
      PROVE  channel'[i].gen # table'.staging.gen
  <2>1. CASE i \in DOMAIN channel
    <3>1. channel'[i] = channel[i]
      BY <1>0, <2>1, AppendIs DEF Core
    <3> QED
      BY <1>0, <1>1, <2>1, <3>1 DEF Unmixed
  <2>2. CASE i = Len(channel) + 1
    <3>1. channel'[i] = m
      BY <1>0, <2>2, AppendIs DEF Core
    <3> QED
      BY <1>0, <1>1, <3>1 DEF Unmixed
  <2> QED
    BY <1>0, <2>1, <2>2, AppendIs DEF Core
<1>2. ASSUME NEW r \in Subs, Active(r)', task'[r].shape \notin Lists
      PROVE  task'[r].gen # table'.staging.gen
  <2>1. CASE r # s
    BY <1>0, <1>2, <2>1 DEF TaskBecomes, Active, Unmixed
  <2>2. CASE r = s
    BY <1>0, <1>2, <2>2 DEF TaskBecomes, Active, Unmixed
  <2> QED
    BY <2>1, <2>2
<1> QED
  BY <1>1, <1>2 DEF Unmixed

\* A page that is received is a list's, and so is everything of its generation.
LEMMA UnmixedReceive ==
  ASSUME Core, Ordered, Unmixed, NEW m, RecvStep(m)
  PROVE  Unmixed'
<1>0. /\ UNCHANGED task /\ 1 \in DOMAIN channel /\ m = channel[1] /\ m \in Msgs
      /\ \A i \in DOMAIN channel' : i + 1 \in DOMAIN channel /\ channel'[i] = channel[i + 1]
      /\ m.shape = task[m.sub].shape /\ (m.kind = "page" => m.shape \in Lists)
  BY TailIs DEF RecvStep, Core, MessagesOK
<1>1. \/ table'.staging.gen = table.staging.gen \/ table'.staging.gen = 0
      \/ table'.staging.gen = m.gen /\ m.kind = "page"
  <2>1. \/ UNCHANGED table
        \/ StartedTakes(m) \/ PageTakes(m) \/ CompleteTakes(m) \/ EntityTakes(m) \/ ErrorTakes(m)
    BY TookIs DEF RecvStep, Core
  <2> QED
    BY <2>1 DEF StartedTakes, PageTakes, CompleteTakes, EntityTakes, ErrorTakes, NoStaging
<1>2. ASSUME NEW i \in DOMAIN channel', channel'[i].kind # "done", channel'[i].shape \notin Lists
      PROVE  channel'[i].gen # table'.staging.gen
  <2>1. PICK k \in DOMAIN channel : channel'[i] = channel[k]
    BY <1>0
  <2>2. channel[k].gen # table.staging.gen /\ channel[k].gen # 0
    BY <1>2, <2>1 DEF Unmixed, Core, MessagesOK
  <2>3. m.kind = "page" => channel[k].gen # m.gen
    <3> SUFFICES ASSUME m.kind = "page", channel[k].gen = m.gen PROVE FALSE
      OBVIOUS
    <3>1. m.sub = channel[k].sub
      BY <1>0 DEF Ordered, Owned
    <3>2. channel[k].shape = task[channel[k].sub].shape
      BY DEF Core, MessagesOK
    <3> QED
      BY <1>0, <1>2, <2>1, <3>1, <3>2
  <2> QED
    BY <1>1, <2>1, <2>2, <2>3
<1>3. ASSUME NEW r \in Subs, Active(r)', task'[r].shape \notin Lists
      PROVE  task'[r].gen # table'.staging.gen
  <2>1. Active(r) /\ task'[r] = task[r]
    BY <1>0, <1>3 DEF Active
  <2>2. task[r].gen # table.staging.gen /\ task[r].gen # 0
    BY <1>3, <2>1, Counters DEF Unmixed
  <2>3. m.kind = "page" => task[r].gen # m.gen
    BY <1>0, <1>3, <2>1 DEF Ordered, Sent
  <2> QED
    BY <1>1, <2>1, <2>2, <2>3
<1> QED
  BY <1>2, <1>3 DEF Unmixed
\* A list's walk is not disturbed by what is received before its i-th message: its pages are
\* staged in their order, and an older walk neither takes the staging over nor throws it away.
LEMMA WalkGoesOn ==
  ASSUME Core, Ordered, OneList, WalkOK, Undisturbed, NEW m, RecvStep(m),
         NEW w \in Subs, Walker(w), NEW g \in Nat \ {0}, NEW n \in Nat, NEW i \in Nat, i > 1,
         Prior(g, n, i),
         m.gen = g => m.sub = w,
         m.sub = w /\ Ends(m) => m.gen < g,
         \A j \in DOMAIN channel : j < i /\ PageAt(j, g) => channel[j].page <= n
  PROVE  Prior(g, n, i - 1)'
<1>0. /\ 1 \in DOMAIN channel /\ m = channel[1] /\ m \in Msgs
      /\ m.gen \in Nat /\ m.page \in Nat /\ m.sub \in Subs
      /\ m.shape = task[m.sub].shape /\ UNCHANGED task
      /\ table.staging.gen \in Nat /\ table.generation \in Nat
      /\ DOMAIN channel = 1..Len(channel) /\ Len(channel) \in Nat
      /\ DOMAIN channel' = 1..(Len(channel) - 1)
      /\ \A j \in DOMAIN channel' : j + 1 \in DOMAIN channel /\ channel'[j] = channel[j + 1]
  BY TailIs, Counters DEF RecvStep, Core, MessagesOK
<1>1. \A j \in DOMAIN channel : j > 1 /\ j < i =>
        j - 1 \in DOMAIN channel' /\ j - 1 < i - 1 /\ channel'[j - 1] = channel[j]
  <2> SUFFICES ASSUME NEW j \in DOMAIN channel, j > 1, j < i
               PROVE  j - 1 \in DOMAIN channel' /\ j - 1 < i - 1 /\ channel'[j - 1] = channel[j]
    OBVIOUS
  <2>1. PICK k \in Nat : k = j - 1
    BY <1>0
  <2>2. k \in DOMAIN channel' /\ k + 1 = j /\ k < i - 1
    BY <1>0, <2>1
  <2> QED
    BY <1>0, <2>1, <2>2
<1>2. \A j \in DOMAIN channel' : j < i - 1 =>
        j + 1 \in DOMAIN channel /\ j + 1 > 1 /\ j + 1 < i /\ channel'[j] = channel[j + 1]
  BY <1>0
<1>3. \/ UNCHANGED table
      \/ StartedTakes(m) \/ PageTakes(m) \/ CompleteTakes(m) \/ EntityTakes(m) \/ ErrorTakes(m)
  BY TookIs DEF RecvStep, Core
<1>4. ErrorTakes(m) => m.sub = w
  <2> SUFFICES ASSUME ErrorTakes(m) PROVE m.sub = w
    OBVIOUS
  <2>1. m.shape \in Failing /\ m.sub \in live /\ m.shape # "detail"
    BY <1>0 DEF ErrorTakes, Core, MessagesOK
  <2>2. m.shape = "list" /\ m.shape \in Shapes
    BY <2>1, StoreAssumption DEF Undisturbed
  <2>3. task[w].shape \in Shapes
    <3>1. task[w].at # "none"
      BY DEF Walker, Core, TasksOK
    <3> QED
      BY <3>1, TaskIs DEF Core
  <2>4. task[w].shape = "list"
    BY <2>2, <2>3 DEF Walker, Lists, Undisturbed
  <2> QED
    BY <1>0, <2>1, <2>2, <2>4 DEF Walker, OneList
<1>5. m.kind \in {"complete", "error"} => Ends(m)
  BY DEF Ends
<1>6. Past(g) => Past(g)'
  <2> SUFFICES ASSUME Past(g) PROVE Past(g)'
    OBVIOUS
  <2>1. CASE UNCHANGED table \/ StartedTakes(m) \/ EntityTakes(m)
    BY <2>1 DEF Past, StartedTakes, EntityTakes
  <2>2. CASE PageTakes(m)
    BY <1>0, <2>2 DEF Past, PageTakes
  <2>3. CASE CompleteTakes(m)
    BY <1>0, <2>3 DEF Past, CompleteTakes
  <2>4. CASE ErrorTakes(m)
    <3>1. m.gen < g
      BY <1>4, <1>5, <2>4 DEF ErrorTakes
    <3> QED
      BY <1>0, <2>4, <3>1 DEF Past, ErrorTakes
  <2> QED
    BY <1>3, <2>1, <2>2, <2>3, <2>4
<1>7. CASE Past(g)
  BY <1>6, <1>7 DEF Prior
<1>8. CASE ~Past(g) /\ \E j \in DOMAIN channel : j < i /\ PageAt(j, g) /\ channel[j].page = n
  <2>1. PICK j \in DOMAIN channel : j < i /\ PageAt(j, g) /\ channel[j].page = n
    BY <1>8
  <2>2. CASE j > 1
    <3>1. PICK k \in DOMAIN channel' : k < i - 1 /\ channel'[k] = channel[j]
      BY <1>1, <2>1, <2>2
    <3>2. PageAt(k, g)'
      BY <2>1, <3>1 DEF PageAt
    <3> QED
      BY <2>1, <3>1, <3>2 DEF Prior
  <2>3. CASE j = 1
    <3>1. m.kind = "page" /\ m.gen = g /\ m.page = n /\ m.sub = w
      BY <1>0, <2>1, <2>3 DEF PageAt
    <3>2. n > 0 /\ m.sub \in live /\ m.shape # "detail"
      BY <1>0, <3>1 DEF Core, MessagesOK, Walker, Lists
    <3>3. table' = ApplyPage(table, m.gen, m.page) /\ m.page \in Rows
      BY <1>0, <3>1, <3>2 DEF RecvStep, Hears, Msgs, Rows
    <3>4. PageDoes(table, table', m.gen, m.page)
      BY <1>0, <3>3, Counters, ApplyPageIs
    <3>5. Prior(g, n - 1, 1)
      BY <1>0, <3>1 DEF WalkOK
    <3>6. ~\E p \in DOMAIN channel : p < 1
      BY <1>0
    <3>7. Staged(g, n - 1)
      BY <1>8, <3>5, <3>6 DEF Prior
    <3>8. Staged(g, n)'
      <4>1. table.generation < g /\ table.staging.gen <= g
        BY <1>0, <1>8 DEF Past
      <4>2. table'.staging.gen = g
        BY <1>0, <3>1, <3>4, <4>1 DEF PageDoes
      <4>3. table'.staging.pages = IF table.staging.gen = g THEN table.staging.pages \cup {n} ELSE {n}
        BY <1>0, <3>1, <3>4, <4>1 DEF PageDoes
      <4>4. table'.staging.pages = 1..n
        <5>1. CASE n = 1
          <6>1. table.staging.gen < g
            BY <3>7, <5>1 DEF Staged
          <6>2. table'.staging.pages = {1}
            BY <1>0, <4>3, <5>1, <6>1
          <6> QED
            BY <5>1, <6>2
        <5>2. CASE n # 1
          <6>1. n - 1 # 0 /\ n \in Nat \ {0, 1}
            BY <3>2, <5>2
          <6>2. table.staging.gen = g /\ table.staging.pages = 1..(n - 1)
            BY <3>7, <6>1 DEF Staged
          <6>3. table'.staging.pages = (1..(n - 1)) \cup {n}
            BY <4>3, <6>2
          <6> QED
            BY <6>1, <6>3
        <5> QED
          BY <5>1, <5>2
      <4> QED
        BY <3>2, <4>2, <4>4 DEF Staged
    <3>9. \A k \in DOMAIN channel' : k < i - 1 => ~PageAt(k, g)'
      <4> SUFFICES ASSUME NEW k \in DOMAIN channel', k < i - 1, PageAt(k, g)' PROVE FALSE
        OBVIOUS
      <4>1. PICK p \in DOMAIN channel : p > 1 /\ p < i /\ channel'[k] = channel[p]
        BY <1>2
      <4>2. channel[p].kind = "page" /\ channel[p].gen = g
        BY <4>1 DEF PageAt
      <4>3. channel[p].page <= n
        BY <4>1, <4>2 DEF PageAt
      <4>4. m.page < channel[p].page
        <5>1. Before(channel[1], channel[p])
          BY <1>0, <4>1 DEF Ordered
        <5> QED
          BY <1>0, <3>1, <4>2, <5>1 DEF Before
      <4>5. channel[p].page \in Nat
        BY Counters
      <4> QED
        BY <3>1, <4>3, <4>4, <4>5
    <3> QED
      BY <3>8, <3>9 DEF Prior
  <2> QED
    BY <1>0, <2>1, <2>2, <2>3
<1>9. CASE ~Past(g) /\ Staged(g, n) /\ \A j \in DOMAIN channel : j < i => ~PageAt(j, g)
  <2>1. \A k \in DOMAIN channel' : k < i - 1 => ~PageAt(k, g)'
    <3> SUFFICES ASSUME NEW k \in DOMAIN channel', k < i - 1 PROVE ~PageAt(k, g)'
      OBVIOUS
    <3>1. PICK p \in DOMAIN channel : p > 1 /\ p < i /\ channel'[k] = channel[p]
      BY <1>2
    <3>2. ~PageAt(p, g)
      BY <1>9, <3>1
    <3> QED
      BY <3>1, <3>2 DEF PageAt
  <2>2. ~(m.kind = "page" /\ m.gen = g)
    BY <1>0, <1>9 DEF PageAt
  <2>3. Past(g)' \/ Staged(g, n)'
    <3>1. CASE UNCHANGED table \/ StartedTakes(m) \/ EntityTakes(m)
      BY <1>9, <3>1 DEF Staged, StartedTakes, EntityTakes
    <3>2. CASE PageTakes(m)
      <4>1. m.gen # g
        BY <2>2, <3>2 DEF PageTakes
      <4> QED
        BY <1>0, <1>9, <3>2, <4>1 DEF Past, Staged, PageTakes
    <3>3. CASE CompleteTakes(m)
      <4>1. m.gen # g
        BY <1>0, <1>5, <3>3 DEF CompleteTakes
      <4> QED
        BY <1>0, <1>9, <3>3, <4>1 DEF Past, Staged, CompleteTakes, NoStaging
    <3>4. CASE ErrorTakes(m)
      <4>1. m.gen < g
        BY <1>4, <1>5, <3>4 DEF ErrorTakes
      <4> QED
        BY <1>0, <1>9, <3>4, <4>1 DEF Past, Staged, ErrorTakes, NoStaging
    <3> QED
      BY <1>3, <3>1, <3>2, <3>3, <3>4
  <2> QED
    BY <2>1, <2>3 DEF Prior
<1> QED
  BY <1>7, <1>8, <1>9 DEF Prior
\* So every walk of the list goes on when a message is received.
LEMMA WalkReceive ==
  ASSUME Core, Ordered, OneList, WalkOK, Undisturbed, NEW m, RecvStep(m)
  PROVE  WalkOK'
<1>0. /\ 1 \in DOMAIN channel /\ m = channel[1] /\ UNCHANGED task
      /\ live' \subseteq live
      /\ DOMAIN channel = 1..Len(channel) /\ Len(channel) \in Nat
      /\ DOMAIN channel' = 1..(Len(channel) - 1) /\ Len(channel') = Len(channel) - 1
      /\ \A i \in DOMAIN channel' : i + 1 \in DOMAIN channel /\ channel'[i] = channel[i + 1]
  BY TailIs DEF RecvStep, Core
<1>1. m.gen # 0 => m.kind # "done"
  BY <1>0 DEF Core, MessagesOK
<1>2. ASSUME NEW i \in DOMAIN channel', Walker(channel[i].sub)',
             NEW n \in Nat, NEW c \in Msgs, c = channel'[i],
             (c.kind = "page" /\ c.page = n + 1) \/ (c.kind = "complete" /\ c.page = n),
             \A k \in DOMAIN channel : channel[k] = c /\ k = i + 1 => Prior(c.gen, n, k)
      PROVE  Prior(c.gen, n, i)'
  <2>1. PICK k \in DOMAIN channel : k = i + 1 /\ channel[k] = c
    BY <1>0, <1>2
  <2>2. PICK w \in Subs : w = c.sub
    BY <1>2 DEF Msgs
  <2>3. PICK g \in Nat : g = c.gen
    BY <1>2 DEF Msgs
  <2>4. g \in Nat \ {0}
    BY <1>2, <2>1, <2>3 DEF Core, MessagesOK
  <2>5. Walker(w)
    BY <1>0, <1>2, <2>2 DEF Walker
  <2>6. k \in Nat /\ k > 1 /\ i = k - 1
    BY <1>0, <2>1
  <2>7. Prior(g, n, k)
    BY <1>2, <2>1, <2>3
  <2>8. m.gen = g => m.sub = w
    BY <1>0, <1>1, <2>1, <2>2, <2>3, <2>4 DEF Ordered, Owned
  <2>9. m.sub = w /\ Ends(m) => m.gen < g
    <3>1. Before(channel[1], channel[k])
      BY <1>0, <2>6 DEF Ordered
    <3> QED
      BY <1>0, <1>2, <2>1, <2>2, <2>3, <3>1 DEF Before
  <2>10. \A j \in DOMAIN channel : j < k /\ PageAt(j, g) => channel[j].page <= n
    <3> SUFFICES ASSUME NEW j \in DOMAIN channel, j < k, PageAt(j, g)
                 PROVE  channel[j].page <= n
      OBVIOUS
    <3>1. Before(channel[j], channel[k])
      BY DEF Ordered
    <3>2. channel[j].page \in Nat
      BY Counters
    <3> QED
      BY <1>2, <2>1, <2>3, <3>1, <3>2 DEF Before, PageAt
  <2>11. Prior(g, n, k - 1)'
    BY <2>4, <2>5, <2>6, <2>7, <2>8, <2>9, <2>10, WalkGoesOn
  <2> QED
    BY <2>3, <2>6, <2>11
<1>3. ASSUME NEW i \in DOMAIN channel', Walker(channel[i].sub)'
      PROVE  /\ channel'[i].kind = "page" => Prior(channel[i].gen, channel[i].page - 1, i)'
             /\ channel'[i].kind = "complete" => Prior(channel[i].gen, channel[i].page, i)'
  <2>1. PICK c \in Msgs : c = channel'[i]
    BY <1>0, Counters
  <2>2. PICK k \in DOMAIN channel : k = i + 1 /\ channel[k] = c
    BY <1>0, <2>1
  <2>3. Walker(channel[k].sub)
    BY <1>0, <1>3, <2>1, <2>2 DEF Walker
  <2>4. CASE c.kind = "page"
    <3>1. c.page \in Nat \ {0}
      BY <2>2, <2>4, Counters DEF Core, MessagesOK
    <3>2. PICK n \in Nat : n = c.page - 1 /\ c.page = n + 1
      BY <3>1
    <3>3. \A j \in DOMAIN channel : channel[j] = c /\ j = i + 1 => Prior(c.gen, n, j)
      BY <2>2, <2>3, <2>4, <3>2 DEF WalkOK
    <3>4. (c.kind = "page" /\ c.page = n + 1) \/ (c.kind = "complete" /\ c.page = n)
      BY <2>4, <3>2
    <3>5. Prior(c.gen, n, i)'
      BY <1>2, <1>3, <2>1, <3>3, <3>4
    <3> QED
      BY <2>1, <2>4, <3>2, <3>5
  <2>5. CASE c.kind = "complete"
    <3>1. PICK n \in Nat : n = c.page
      BY <2>2, Counters
    <3>2. \A j \in DOMAIN channel : channel[j] = c /\ j = i + 1 => Prior(c.gen, n, j)
      BY <2>2, <2>3, <2>5, <3>1 DEF WalkOK
    <3>3. Prior(c.gen, n, i)'
      BY <1>2, <1>3, <2>1, <2>5, <3>1, <3>2
    <3> QED
      BY <2>1, <2>5, <3>1, <3>3
  <2> QED
    BY <2>1, <2>4, <2>5
<1>4. ASSUME NEW s \in Subs, Walker(s)', Active(s)'
      PROVE  Prior(task[s].gen, task[s].page, Len(channel) + 1)'
  <2>1. Walker(s) /\ Active(s)
    BY <1>0, <1>4 DEF Walker, Active
  <2>2. PICK g \in Nat \ {0} : g = task[s].gen
    BY <2>1, Counters
  <2>3. PICK n \in Nat : n = task[s].page
    BY Counters
  <2>4. PICK i \in Nat : i = Len(channel) + 1 /\ i > 1 /\ Len(channel') + 1 = i - 1
    BY <1>0
  <2>5. Prior(g, n, i)
    BY <2>1, <2>2, <2>3, <2>4 DEF WalkOK
  <2>6. Sent(m, s, task[s])
    BY <1>0, <2>1 DEF Ordered
  <2>7. (m.gen = g => m.sub = s) /\ (m.sub = s /\ Ends(m) => m.gen < g)
    BY <2>2, <2>6 DEF Sent
  <2>8. \A j \in DOMAIN channel : j < i /\ PageAt(j, g) => channel[j].page <= n
    BY <2>1, <2>2, <2>3 DEF Ordered, Sent, PageAt
  <2>9. Prior(g, n, i - 1)'
    BY <2>1, <2>4, <2>5, <2>7, <2>8, WalkGoesOn
  <2> QED
    BY <1>0, <2>2, <2>3, <2>4, <2>9
<1> QED
  BY <1>3, <1>4 DEF WalkOK

\* What a walk sends next is what comes after what it sent.
LEMMA WalkSend ==
  ASSUME Core, Ordered, WalkOK, NEW s \in Subs, NEW t, NEW m, SendStep(s, t, m)
  PROVE  WalkOK'
<1>0. /\ TaskBecomes(s, t) /\ channel' = Append(channel, m) /\ m \in Msgs /\ m.sub = s
      /\ UNCHANGED <<table, live>> /\ t.shape = task[s].shape
      /\ DOMAIN channel = 1..Len(channel) /\ DOMAIN channel' = 1..(Len(channel) + 1)
      /\ Len(channel') = Len(channel) + 1
      /\ Len(channel) \in Nat /\ channel'[Len(channel) + 1] = m
      /\ \A i \in DOMAIN channel : channel'[i] = channel[i]
  BY AppendIs DEF SendStep, Core
<1>1. \A r \in Subs : /\ task'[r].shape = task[r].shape /\ (Walker(r)' <=> Walker(r))
                      /\ Active(r)' => Active(r) /\ task'[r].gen = task[r].gen
  <2> SUFFICES ASSUME NEW r \in Subs
               PROVE  /\ task'[r].shape = task[r].shape /\ (Walker(r)' <=> Walker(r))
                      /\ Active(r)' => Active(r) /\ task'[r].gen = task[r].gen
    OBVIOUS
  <2>1. CASE r # s
    BY <1>0, <2>1 DEF TaskBecomes, Walker, Active
  <2>2. CASE r = s
    BY <1>0, <2>2 DEF TaskBecomes, Walker, Active, SendStep
  <2> QED
    BY <2>1, <2>2
<1>2. ASSUME NEW g, NEW n, NEW i \in DOMAIN channel', Prior(g, n, i)
      PROVE  Prior(g, n, i)'
  <2>1. \A j \in DOMAIN channel : j < i => j \in DOMAIN channel' /\ channel'[j] = channel[j]
    BY <1>0
  <2>2. \A j \in DOMAIN channel' : j < i => j \in DOMAIN channel /\ channel'[j] = channel[j]
    BY <1>0
  <2> QED
    BY <1>0, <1>2, <2>1, <2>2 DEF Prior, Past, Staged, PageAt
<1>3. PICK e \in DOMAIN channel' : e = Len(channel) + 1
  BY <1>0
<1>4. ASSUME NEW i \in DOMAIN channel', Walker(channel[i].sub)'
      PROVE  /\ channel'[i].kind = "page" => Prior(channel[i].gen, channel[i].page - 1, i)'
             /\ channel'[i].kind = "complete" => Prior(channel[i].gen, channel[i].page, i)'
  <2>1. PICK c : c = channel'[i]
    OBVIOUS
  <2>2. PICK p : p = c.page - 1
    OBVIOUS
  <2>3. PICK g, q : g = c.gen /\ q = c.page
    OBVIOUS
  <2>4. CASE i \in DOMAIN channel
    <3>1. channel[i] = c /\ c.sub \in Subs
      BY <1>0, <2>1, <2>4, Counters
    <3>2. Walker(channel[i].sub)
      BY <1>1, <1>4, <2>1, <3>1
    <3>3. (c.kind = "page" => Prior(g, p, i)) /\ (c.kind = "complete" => Prior(g, q, i))
      BY <2>2, <2>3, <2>4, <3>1, <3>2 DEF WalkOK
    <3>4. (c.kind = "page" => Prior(g, p, i)') /\ (c.kind = "complete" => Prior(g, q, i)')
      BY <1>2, <3>3
    <3> QED
      BY <2>1, <2>2, <2>3, <3>4
  <2>5. CASE i = e
    <3>1. c = m /\ Walker(s)
      BY <1>0, <1>1, <1>3, <1>4, <2>1, <2>5
    <3>2. CASE c.kind = "page"
      <4>1. Active(s) /\ g = task[s].gen /\ p = task[s].page
        <5>1. Active(s) /\ m.gen = task[s].gen /\ m.page = task[s].page + 1
          BY <3>1, <3>2 DEF SendStep
        <5> QED
          BY <2>2, <2>3, <3>1, <5>1, Counters
      <4>2. Prior(g, p, i)
        BY <1>3, <2>5, <3>1, <4>1 DEF WalkOK
      <4>3. Prior(g, p, i)'
        BY <1>2, <4>2
      <4> QED
        BY <2>1, <2>2, <2>3, <3>2, <4>3
    <3>3. CASE c.kind = "complete"
      <4>1. Active(s) /\ g = task[s].gen /\ q = task[s].page
        BY <2>3, <3>1, <3>3 DEF SendStep
      <4>2. Prior(g, q, i)
        BY <1>3, <2>5, <3>1, <4>1 DEF WalkOK
      <4>3. Prior(g, q, i)'
        BY <1>2, <4>2
      <4> QED
        BY <2>1, <2>2, <2>3, <3>3, <4>3
    <3> QED
      BY <2>1, <3>2, <3>3
  <2> QED
    BY <1>0, <1>3, <2>4, <2>5
<1>5. ASSUME NEW r \in Subs, Walker(r)', Active(r)'
      PROVE  Prior(task[r].gen, task[r].page, Len(channel) + 1)'
  <2>1. Walker(r) /\ Active(r) /\ task'[r].gen = task[r].gen
    BY <1>1, <1>5
  <2>2. PICK g \in Nat : g = task[r].gen
    BY Counters
  <2>3. PICK n \in Nat : n = task[r].page
    BY Counters
  <2>4. Prior(g, n, e)
    BY <1>3, <2>1, <2>2, <2>3 DEF WalkOK
  <2>5. PICK z : z = Len(channel') + 1
    OBVIOUS
  <2>6. /\ e < z
        /\ \A j \in DOMAIN channel : j < z /\ j < e /\ j \in DOMAIN channel' /\ channel'[j] = channel[j]
        /\ \A j \in DOMAIN channel' : j \in DOMAIN channel \/ j = e
    BY <1>0, <1>3, <2>5
  <2>7. CASE r = s /\ m.kind = "page"
    <3>1. m.gen = g /\ t.page = m.page
      BY <2>2, <2>7 DEF SendStep
    <3>2. PageAt(e, g)' /\ channel'[e].page = task'[r].page
      BY <1>0, <1>3, <2>7, <3>1 DEF PageAt, TaskBecomes
    <3>3. PICK q : q = task'[r].page
      OBVIOUS
    <3>4. Prior(g, q, z)'
      BY <1>3, <2>6, <3>2, <3>3 DEF Prior
    <3> QED
      BY <2>1, <2>2, <2>5, <3>3, <3>4
  <2>8. CASE r # s \/ m.kind # "page"
    <3>1. task'[r].page = n
      <4>1. CASE r # s
        BY <1>0, <2>3, <4>1 DEF TaskBecomes
      <4>2. CASE r = s
        <5>1. t.at \in {"announce", "fetch", "ended"} /\ m.kind # "page"
          BY <1>0, <1>5, <2>8, <4>2 DEF Active, TaskBecomes
        <5>2. t.page = task[s].page
          BY <5>1 DEF SendStep
        <5> QED
          BY <1>0, <2>3, <4>2, <5>2 DEF TaskBecomes
      <4> QED
        BY <4>1, <4>2
    <3>2. ~(m.kind = "page" /\ m.gen = g)
      <4> SUFFICES ASSUME m.kind = "page", m.gen = g PROVE FALSE
        OBVIOUS
      <4>1. Active(s) /\ task[s].gen = g
        BY DEF SendStep
      <4> QED
        BY <2>1, <2>2, <2>8, <4>1 DEF Ordered
    <3>3. ~PageAt(e, g)'
      BY <1>0, <1>3, <3>2 DEF PageAt
    <3>4. Prior(g, n, z)'
      <4>1. CASE Past(g)
        BY <1>0, <4>1 DEF Prior, Past
      <4>2. CASE \E j \in DOMAIN channel : j < e /\ PageAt(j, g) /\ channel[j].page = n
        <5>1. PICK j \in DOMAIN channel : j < e /\ PageAt(j, g) /\ channel[j].page = n
          BY <4>2
        <5>2. j \in DOMAIN channel' /\ j < z /\ PageAt(j, g)' /\ channel'[j].page = n
          BY <2>6, <5>1 DEF PageAt
        <5> QED
          BY <5>2 DEF Prior
      <4>3. CASE Staged(g, n) /\ \A j \in DOMAIN channel : j < e => ~PageAt(j, g)
        <5>1. Staged(g, n)'
          BY <1>0, <4>3 DEF Staged
        <5>2. \A j \in DOMAIN channel' : j < z => ~PageAt(j, g)'
          <6> SUFFICES ASSUME NEW j \in DOMAIN channel' PROVE ~PageAt(j, g)'
            OBVIOUS
          <6>1. CASE j = e
            BY <3>3, <6>1
          <6>2. CASE j \in DOMAIN channel
            BY <2>6, <4>3, <6>2 DEF PageAt
          <6> QED
            BY <2>6, <6>1, <6>2
        <5> QED
          BY <5>1, <5>2 DEF Prior
      <4> QED
        BY <2>4, <4>1, <4>2, <4>3 DEF Prior
    <3> QED
      BY <2>1, <2>2, <2>5, <3>1, <3>4
  <2> QED
    BY <2>7, <2>8
<1> QED
  BY <1>4, <1>5 DEF WalkOK
\* A task's step begins a walk of nothing, and a list's walk is abandoned by who walked it.
LEMMA WalkTask ==
  ASSUME Core, OneList, WalkOK, Undisturbed, NEW s \in Subs, NEW t,
         \/ NewStep(s, t) \/ AllocStep(s, t) \/ GoneStep(s, t) \/ QuietStep(s, t)
  PROVE  WalkOK'
<1>0. TaskBecomes(s, t) /\ UNCHANGED channel
  BY DEF NewStep, AllocStep, GoneStep, QuietStep
<1>1. ASSUME NEW r \in Subs, Walker(r)'
      PROVE  \/ Walker(r) /\ task'[r].shape = task[r].shape /\ UNCHANGED table
             \/ r = s /\ NewStep(s, t)
  <2>1. CASE NewStep(s, t)
    BY <1>0, <1>1, <2>1 DEF NewStep, Walker, TaskBecomes
  <2>2. CASE AllocStep(s, t) \/ QuietStep(s, t)
    BY <1>0, <1>1, <2>2 DEF AllocStep, QuietStep, Walker, TaskBecomes
  <2>3. CASE GoneStep(s, t)
    <3>1. /\ s \in live /\ r \in live /\ r # s /\ task'[r] = task[r] /\ task[r].shape \in Lists
          /\ UNCHANGED table \/ task[s].shape = "list"
      BY <1>0, <1>1, <2>3 DEF GoneStep, Walker, TaskBecomes
    <3>2. task[s].shape # "list"
      <4> SUFFICES ASSUME task[s].shape = "list" PROVE FALSE
        OBVIOUS
      <4>1. task[r].shape = "once_list"
        BY <3>1 DEF OneList, Lists
      <4>2. task[s].shape \in Shapes /\ task[r].shape \in Shapes
        BY <3>1, TaskIs DEF Core, TasksOK
      <4> QED
        BY <4>1, <4>2 DEF Undisturbed
    <3> QED
      BY <3>1, <3>2 DEF Walker
  <2> QED
    BY <2>1, <2>2, <2>3
<1>2. ASSUME UNCHANGED table, NEW g, NEW n, NEW i, Prior(g, n, i)
      PROVE  Prior(g, n, i)'
  BY <1>0, <1>2 DEF Prior, Past, Staged, PageAt
<1>3. ASSUME NEW i \in DOMAIN channel, Walker(channel[i].sub)'
      PROVE  /\ channel[i].kind = "page" => Prior(channel[i].gen, channel[i].page - 1, i)'
             /\ channel[i].kind = "complete" => Prior(channel[i].gen, channel[i].page, i)'
  <2>1. PICK g, p, q : g = channel[i].gen /\ p = channel[i].page - 1 /\ q = channel[i].page
    OBVIOUS
  <2>2. PICK r \in Subs : r = channel[i].sub
    BY Counters
  <2>3. Walker(r)'
    BY <1>0, <1>3, <2>2 DEF Walker
  <2>4. ~(r = s /\ NewStep(s, t))
    BY <2>2 DEF NewStep, Core, MessagesOK
  <2>5. Walker(r) /\ UNCHANGED table
    BY <1>1, <2>3, <2>4
  <2>6. /\ channel[i].kind = "page" => Prior(g, p, i)
        /\ channel[i].kind = "complete" => Prior(g, q, i)
    BY <2>1, <2>2, <2>5 DEF WalkOK
  <2>7. /\ channel[i].kind = "page" => Prior(g, p, i)'
        /\ channel[i].kind = "complete" => Prior(g, q, i)'
    BY <1>2, <2>5, <2>6
  <2> QED
    BY <1>0, <2>1, <2>7
<1>4. ASSUME NEW r \in Subs, Walker(r)', Active(r)'
      PROVE  Prior(task[r].gen, task[r].page, Len(channel) + 1)'
  <2>1. PICK g, n, z : g = task'[r].gen /\ n = task'[r].page /\ z = Len(channel) + 1
    OBVIOUS
  <2>2. ~(r = s /\ NewStep(s, t))
    BY <1>4 DEF NewStep, TaskBecomes, Active
  <2>3. Walker(r) /\ UNCHANGED table
    BY <1>1, <1>4, <2>2
  <2>4. CASE r = s /\ AllocStep(s, t)
    <3>1. g = generations + 1 /\ n = 0
      BY <1>0, <2>1, <2>4 DEF AllocStep, TaskBecomes
    <3>2. Staged(g, n)
      BY <3>1, Counters DEF Staged
    <3>3. \A j \in DOMAIN channel : j < z => ~PageAt(j, g)
      BY <3>1, Counters DEF PageAt
    <3>4. Prior(g, n, z)
      BY <3>2, <3>3 DEF Prior
    <3>5. Prior(g, n, z)'
      BY <1>2, <2>3, <3>4
    <3> QED
      BY <1>0, <2>1, <3>5
  <2>5. CASE ~(r = s /\ AllocStep(s, t))
    <3>1. Active(r) /\ g = task[r].gen /\ n = task[r].page
      <4>1. CASE r # s
        BY <1>0, <1>4, <2>1, <4>1 DEF TaskBecomes, Active
      <4>2. CASE r = s
        BY <1>0, <1>4, <2>1, <2>2, <2>5, <4>2 DEF TaskBecomes, Active, GoneStep, QuietStep
      <4> QED
        BY <4>1, <4>2
    <3>2. Prior(g, n, z)
      BY <2>1, <2>3, <3>1 DEF WalkOK
    <3>3. Prior(g, n, z)'
      BY <1>2, <2>3, <3>2
    <3> QED
      BY <1>0, <2>1, <3>3
  <2> QED
    BY <2>4, <2>5
<1> QED
  BY <1>0, <1>3, <1>4 DEF WalkOK

---------------------------------------------------------------------------
(* The store is a table. *)

Steady == Core /\ Ordered /\ OneList /\ Unmixed /\ WalkOK

\* Nothing is sent or walked at the start.
LEMMA InitSteady == ASSUME Init PROVE Steady
<1>1. channel = <<>> /\ live = {} /\ \A s \in Subs : task[s].at = "none"
  BY DEF Init, NoTask
<1>2. \A s \in Subs : ~Active(s)
  BY <1>1 DEF Active
<1>3. Ordered /\ OneList /\ Unmixed /\ WalkOK
  BY <1>1, <1>2 DEF Ordered, OneList, Unmixed, WalkOK
<1> QED
  BY <1>3, InitCore DEF Steady

\* Every step keeps the walks whole.
LEMMA SteadyNext == ASSUME Undisturbed, Steady, [Next]_vars PROVE Steady'
<1>1. CASE UNCHANGED vars
  <2>1. Core'
    BY CoreNext DEF Steady
  <2>2. Ordered' /\ OneList' /\ Unmixed'
    BY <1>1 DEF vars, Steady, Ordered, OneList, Unmixed, Active
  <2>3. WalkOK'
    BY <1>1 DEF vars, Steady, WalkOK, Walker, Prior, Past, Staged, PageAt, Active
  <2> QED
    BY <2>1, <2>2, <2>3 DEF Steady
<1>2. CASE Next
  <2>1. Core' /\ OneList'
    BY <1>2, CoreNext, OneListNext DEF Steady
  <2>2. ASSUME NEW s \in Subs, NEW t,
               \/ NewStep(s, t) \/ AllocStep(s, t) \/ GoneStep(s, t) \/ QuietStep(s, t)
        PROVE  Ordered' /\ Unmixed' /\ WalkOK'
    BY <2>2, OrderedTask, UnmixedTask, WalkTask DEF Steady
  <2>3. ASSUME NEW s \in Subs, NEW t, NEW m, SendStep(s, t, m)
        PROVE  Ordered' /\ Unmixed' /\ WalkOK'
    BY <2>3, OrderedSend, UnmixedSend, WalkSend DEF Steady
  <2>4. ASSUME NEW m, RecvStep(m) PROVE Ordered' /\ Unmixed' /\ WalkOK'
    BY <2>4, OrderedReceive, UnmixedReceive, WalkReceive DEF Steady
  <2> QED
    BY <1>2, <2>1, <2>2, <2>3, <2>4, Steps DEF Steady, Core
<1> QED
  BY <1>1, <1>2

\* What completes with its own pages staged has all of them staged, and is newer than what
\* has landed.
LEMMA WholeWalk ==
  ASSUME Steady, NEW m, RecvStep(m), CompleteTakes(m), table.staging.gen = m.gen
  PROVE  m.gen > table.generation /\ table.staging.pages = 1..m.page
<1>0. /\ 1 \in DOMAIN channel /\ m = channel[1] /\ m.gen \in Nat /\ m.page \in Nat
      /\ table.staging.gen \in Nat /\ table.generation \in Nat
  BY TailIs, Counters DEF RecvStep, Steady, Core
<1>1. m.gen > 0 /\ m.shape = task[m.sub].shape
  BY <1>0 DEF CompleteTakes, Steady, Core, MessagesOK
<1>2. m.gen > table.generation
  BY <1>0, <1>1 DEF Steady, Core, Counted
<1>3. Walker(m.sub)
  BY <1>0, <1>1 DEF CompleteTakes, Walker, Steady, Unmixed
<1>4. Prior(m.gen, m.page, 1)
  BY <1>0, <1>3 DEF CompleteTakes, Steady, WalkOK
<1>5. ~Past(m.gen)
  BY <1>0, <1>2 DEF Past
<1>6. Staged(m.gen, m.page)
  <2>1. ~\E j \in DOMAIN channel : j < 1
    BY <1>0, Counters DEF Steady
  <2> QED
    BY <1>4, <1>5, <2>1 DEF Prior
<1>7. table.staging.pages = 1..m.page
  BY <1>0, <1>6 DEF Staged
<1> QED
  BY <1>2, <1>7

\* What is received is a table's step: a walk begins, lands whole, is confirmed, fails, or
\* a single read is merged.
LEMMA ReceiveIsTables ==
  ASSUME Steady, NEW m, RecvStep(m)
  PROVE  [T!Next]_(T!vars)
<1>0. /\ m.gen \in Nat /\ m.page \in Nat /\ m.page <= Pages /\ Pages \in Nat
      /\ table.generation \in Nat
      /\ walked' = IF table'.generation # table.generation THEN m.page ELSE walked
      /\ table' \in Tables /\ table \in Tables
      /\ table.not_served \in BOOLEAN /\ table'.not_served \in BOOLEAN
  <2>1. m \in Msgs /\ table' \in Tables
    BY TookIs DEF RecvStep, Steady, Core
  <2>2. m.gen \in Nat /\ m.page \in 0..Pages
    BY <2>1 DEF Msgs
  <2>3. table.not_served \in BOOLEAN /\ table'.not_served \in BOOLEAN
    BY <2>1, Counters DEF Tables, Steady
  <2> QED
    BY <2>1, <2>2, <2>3, Counters, StoreAssumption DEF RecvStep, Steady
<1>1. \/ UNCHANGED table
      \/ StartedTakes(m) \/ PageTakes(m) \/ CompleteTakes(m) \/ EntityTakes(m) \/ ErrorTakes(m)
  BY TookIs DEF RecvStep, Steady, Core
<1>2. CASE UNCHANGED table \/ PageTakes(m)
  BY <1>0, <1>2 DEF PageTakes, T!vars
<1>3. CASE StartedTakes(m)
  <2>1. CASE table'.cycle_started = table.cycle_started
    BY <1>0, <1>3, <2>1 DEF StartedTakes, T!vars
  <2>2. CASE table'.cycle_started # table.cycle_started
    <3>1. T!Begin
      BY <1>0, <1>3, <2>2 DEF StartedTakes, T!Begin
    <3> QED
      BY <3>1 DEF T!Next
  <2> QED
    BY <2>1, <2>2
<1>4. CASE CompleteTakes(m) /\ table.staging.gen = m.gen
  <2>1. m.gen > table.generation /\ table.staging.pages = 1..m.page
    BY <1>4, WholeWalk
  <2>2. table'.generation = m.gen /\ table'.rows = WalkRows(1..m.page, m.gen)
    BY <1>4, <2>1 DEF CompleteTakes
  <2>3. walked' = m.page
    BY <1>0, <2>1, <2>2
  <2>4. {n \in Rows : n <= walked'} = 1..m.page
    BY <1>0, <2>3 DEF Rows
  <2>5. table'.rows = [r \in {n \in Rows : n <= walked'} |-> table'.generation]
    BY <2>2, <2>4 DEF WalkRows
  <2>6. T!Land
    BY <1>0, <1>4, <2>1, <2>2, <2>5 DEF CompleteTakes, T!Land, T!MayStop
  <2> QED
    BY <2>6 DEF T!Next
<1>5. CASE CompleteTakes(m) /\ table.staging.gen # m.gen
  <2>1. T!Confirm
    BY <1>0, <1>5 DEF CompleteTakes, T!Confirm, T!MayStop
  <2> QED
    BY <2>1 DEF T!Next
<1>6. CASE EntityTakes(m)
  <2>1. CASE table'.rows = table.rows
    BY <1>0, <1>6, <2>1 DEF EntityTakes, T!vars
  <2>2. CASE table'.rows # table.rows
    <3>1. table'.rows = ReadRow(table.rows, m.page, m.gen) /\ m.gen >= table.generation
          /\ m.page \in Rows
      BY <1>6, <2>2 DEF EntityTakes
    <3>2. m.page \in DOMAIN table'.rows /\ table'.rows[m.page] = m.gen
      BY <3>1 DEF ReadRow
    <3>3. table'.rows = [r \in DOMAIN table.rows \cup {m.page} |->
                           IF r = m.page THEN table'.rows[r] ELSE table.rows[r]]
      BY <3>1, <3>2 DEF ReadRow
    <3>4. T!Read
      BY <1>0, <1>6, <3>1, <3>2, <3>3 DEF EntityTakes, T!Read
    <3> QED
      BY <3>4 DEF T!Next
  <2> QED
    BY <2>1, <2>2
<1>7. CASE ErrorTakes(m)
  <2>1. table'.not_served \in {table.not_served, TRUE}
    BY <1>0, <1>7 DEF ErrorTakes
  <2>2. T!Fail
    BY <1>0, <1>7, <2>1 DEF ErrorTakes, T!Fail, T!MayStop
  <2> QED
    BY <2>2 DEF T!Next
<1> QED
  BY <1>1, <1>2, <1>3, <1>4, <1>5, <1>6, <1>7

\* So is every other step, or nothing a table shows.
LEMMA StepIsTables ==
  ASSUME Steady, [Next]_vars
  PROVE  [T!Next]_(T!vars)
<1>1. CASE UNCHANGED vars
  BY <1>1 DEF vars, T!vars
<1>2. ASSUME NEW s \in Subs, NEW t,
             \/ NewStep(s, t) \/ AllocStep(s, t) \/ GoneStep(s, t) \/ QuietStep(s, t)
             \/ \E m : SendStep(s, t, m)
      PROVE  [T!Next]_(T!vars)
  <2>1. UNCHANGED walked /\ (table' = table \/ table' = Abandon(table))
    BY <1>2 DEF NewStep, AllocStep, GoneStep, QuietStep, SendStep
  <2>2. CASE table' = table
    BY <2>1, <2>2 DEF T!vars
  <2>3. CASE table' = Abandon(table)
    <3>1. T!Abandon
      BY <2>1, <2>3, AbandonIs, Counters DEF Steady, T!Abandon
    <3> QED
      BY <3>1 DEF T!Next
  <2> QED
    BY <2>1, <2>2, <2>3
<1>3. CASE Next
  BY <1>2, <1>3, ReceiveIsTables, Steps DEF Steady, Core
<1> QED
  BY <1>1, <1>3

\* The store is a Table whatever its tasks send and in whatever order it comes, as long as
\* nobody's failure or popped view throws another's walk away: the rows on screen are every
\* page one walk read, none that another read, and what single reads brought since
\* (Store::apply's staging by generation, the gate on live subscriptions, Store::abandon).
THEOREM StoreIsATable == ASSUME Undisturbed PROVE Spec => Implements
<1>1. Init => Steady
  BY InitSteady
<1>2. Steady /\ [Next]_vars => Steady'
  BY SteadyNext
<1>3. Init => T!Init
  <2> SUFFICES ASSUME Init PROVE T!Init
    OBVIOUS
  <2>1. PICK f : f = [r \in Rows |-> 0]
    OBVIOUS
  <2>2. /\ Fresh.rows = <<>> /\ Fresh.generation = 0 /\ Fresh.not_served = FALSE
        /\ Fresh.cycle_started = 0
    BY DEF Fresh
  <2>3. Restored(Fresh) = [Fresh EXCEPT !.rows = f, !.restored = TRUE, !.loading = FALSE]
    BY <2>1 DEF Restored
  <2>4. /\ Restored(Fresh).rows = f /\ Restored(Fresh).generation = 0
        /\ Restored(Fresh).not_served = FALSE /\ Restored(Fresh).cycle_started = 0
    BY <2>3 DEF Fresh
  <2>5. /\ table.rows \in {<<>>, f} /\ table.generation = 0 /\ table.not_served = FALSE
        /\ table.cycle_started = 0 /\ walked = 0
    BY <2>2, <2>4 DEF Init
  <2> QED
    BY <2>1, <2>5 DEF T!Init
<1>4. Steady /\ [Next]_vars => [T!Next]_(T!vars)
  BY StepIsTables
<1> QED
  BY <1>1, <1>2, <1>3, <1>4, PTL DEF Spec, Implements, T!Spec
===========================================================================
