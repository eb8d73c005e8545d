--------------------------- MODULE WatchesProofs --------------------------
(***************************************************************************)
(* What Watches guarantees for any contexts, ring, channel, sessions and   *)
(* requests.                                                               *)
(***************************************************************************)
EXTENDS Watches, TLAPS

---------------------------------------------------------------------------
(* Types. *)

Entries ==
  [id : Nat, context : Contexts, attempt : Nat, outcome : Outcomes, by : Nat, task : Nat]
Requests == [id : Nat, site : Contexts, session : Nat, left : BOOLEAN]
Statuses == Terminal \cup {"none", "running"}
Msgs == [kind : {"acted", "entity"}, attempt : Nat, result : Results \cup Statuses]
Watched ==
  [attempt : Nat, id : Nat, site : Contexts \cup {None}, found : BOOLEAN, polled : BOOLEAN]

\* A ring whose ids are increasing, and below the next.
RingOK(entries, n) ==
  /\ entries \in Seq(Entries) /\ Len(entries) <= CAPACITY
  /\ \A i \in DOMAIN entries :
       entries[i].id < n /\ \A k \in DOMAIN entries : k < i => entries[k].id < entries[i].id

Typed ==
  /\ session \in [serial : 1..MaxSessions, primary : Contexts]
  /\ peers \subseteq Contexts \ {session.primary}
  /\ next \in Nat /\ RingOK(journal, next)
  /\ attempts \in Seq(Requests) /\ Len(attempts) <= MaxAttempts
  /\ work \subseteq Seq(Nat) \ {<<>>}
  /\ task \in [Attempts -> Statuses]
  /\ watched \subseteq Watched
  /\ channel \in Seq(Msgs) /\ Len(channel) <= CHANNEL
  /\ \A i \in DOMAIN channel : channel[i].kind = "acted" => channel[i].result \in Results

\* An entry is about an attempt that was sent; only another session's settles it in that
\* one's place; and with the id of one of this session's attempts, it is that attempt's.
Told(e, sent, serial) ==
  /\ e.attempt \in 0..Len(sent) /\ e.by \in 0..Len(sent) /\ e.task \in 0..Len(sent)
  /\ e.by = e.attempt \/ (e.by \in 1..Len(sent) /\ sent[e.by].session < serial)
  /\ \A a \in 1..Len(sent) :
       sent[a].session = serial /\ sent[a].id = e.id =>
         e.attempt = a /\ e.context = sent[a].site

Story(entries, sent, serial) == \A i \in DOMAIN entries : Told(entries[i], sent, serial)

\* What names an attempt names one that was sent.
Named ==
  /\ \A w \in work : \A i \in DOMAIN w : w[i] \in 1..Len(attempts)
  /\ \A i \in DOMAIN channel : channel[i].attempt \in 1..Len(attempts)
  /\ \A w \in watched : w.attempt \in 1..Len(attempts)

\* An attempt is of a session there has been; one of this session was recorded.
Recent ==
  \A a \in 1..Len(attempts) :
    /\ attempts[a].session <= session.serial
    /\ attempts[a].session = session.serial => attempts[a].id < next

\* A watch carries the id its attempt was recorded under.
Carried == \A w \in watched : w.id = attempts[w.attempt].id

Inv ==
  /\ Typed /\ Story(journal, attempts, session.serial)
  /\ Named /\ Recent /\ Carried /\ WatchedAtHome

\* The bounds are numbers, and the first context is one.
LEMMA Bounds ==
  /\ CAPACITY \in Nat \ {0} /\ CHANNEL \in Nat \ {0} /\ MaxSessions \in Nat \ {0}
  /\ MaxEntries \in Nat /\ MaxAttempts \in Nat /\ MaxJoins \in Nat
  /\ Home \in Contexts /\ None \notin Contexts
BY WatchesAssumption

---------------------------------------------------------------------------
(* The ring and the channel. *)

\* An element of a ring after one is recorded is that one or was there before
\* (Journal::record).
Grown(old, new, entries) ==
  \A i \in DOMAIN entries : entries[i] = new \/ \E k \in DOMAIN old : entries[i] = old[k]

\* Recording keeps the ring within its capacity and its ids increasing (Journal::record).
LEMMA RecordIs ==
  ASSUME NEW n \in Nat, NEW old, RingOK(old, n), NEW new \in Entries, new.id = n,
         NEW entries, entries = Record(old, new)
  PROVE  RingOK(entries, n + 1) /\ Grown(old, new, entries)
<1>0. /\ old \in Seq(Entries) /\ Len(old) \in Nat /\ Len(old) <= CAPACITY
      /\ DOMAIN old = 1..Len(old) /\ \A i \in DOMAIN old : old[i] \in Entries
      /\ \A i \in DOMAIN old : old[i].id \in Nat /\ old[i].id < n
      /\ \A i, k \in DOMAIN old : k < i => old[k].id < old[i].id
  <2>1. /\ old \in Seq(Entries) /\ Len(old) \in Nat /\ Len(old) <= CAPACITY
        /\ DOMAIN old = 1..Len(old) /\ \A i \in DOMAIN old : old[i] \in Entries
    BY DEF RingOK
  <2> QED
    BY <2>1 DEF RingOK, Entries
<1>1. PICK kept : kept = IF Len(old) = CAPACITY THEN Tail(old) ELSE old
  OBVIOUS
<1>2. PICK d \in {0, 1} : d = IF Len(old) = CAPACITY THEN 1 ELSE 0
  OBVIOUS
<1>3. /\ kept \in Seq(Entries) /\ Len(kept) = Len(old) - d /\ Len(kept) \in Nat
      /\ Len(kept) < CAPACITY /\ DOMAIN kept = 1..Len(kept)
      /\ \A i \in DOMAIN kept : i + d \in DOMAIN old /\ kept[i] = old[i + d]
  <2>1. CASE Len(old) = CAPACITY
    <3>1. old # <<>> /\ kept = Tail(old) /\ d = 1
      BY <1>0, <1>1, <1>2, <2>1, Bounds
    <3>2. /\ kept \in Seq(Entries) /\ Len(kept) = Len(old) - 1 /\ DOMAIN kept = 1..Len(kept)
          /\ \A i \in 1..Len(kept) : kept[i] = old[i + 1]
      BY <1>0, <3>1
    <3> QED
      BY <1>0, <2>1, <3>1, <3>2, Bounds
  <2>2. CASE Len(old) # CAPACITY
    <3>1. kept = old /\ d = 0
      BY <1>1, <1>2, <2>2
    <3>2. \A i \in DOMAIN old : i \in Nat /\ i + 0 = i
      BY <1>0
    <3>3. Len(old) - 0 = Len(old) /\ Len(old) < CAPACITY
      <4>1. Len(old) \in Nat /\ Len(old) <= CAPACITY /\ CAPACITY \in Nat
        BY <1>0, Bounds
      <4> QED
        BY <4>1, <2>2
    <3> QED
      BY <1>0, <3>1, <3>2, <3>3
  <2> QED
    BY <2>1, <2>2
<1>4. /\ entries \in Seq(Entries) /\ Len(entries) = Len(kept) + 1
      /\ DOMAIN entries = 1..(Len(kept) + 1)
      /\ \A i \in DOMAIN kept : entries[i] = kept[i]
      /\ entries[Len(kept) + 1] = new
  BY <1>1, <1>3 DEF Record
<1>5. Len(entries) <= CAPACITY
  BY <1>3, <1>4, Bounds
<1>6. \A i \in DOMAIN entries :
        \/ i = Len(kept) + 1 /\ entries[i] = new
        \/ i \in DOMAIN kept /\ i + d \in DOMAIN old /\ entries[i] = old[i + d]
  BY <1>3, <1>4
<1>7. \A i \in DOMAIN entries : entries[i].id < n + 1
  BY <1>0, <1>6
<1>8. ASSUME NEW i \in DOMAIN entries, NEW k \in DOMAIN entries, k < i
      PROVE  entries[k].id < entries[i].id
  <2>1. k \in DOMAIN kept /\ k + d \in DOMAIN old /\ entries[k] = old[k + d]
    BY <1>3, <1>4, <1>6, <1>8
  <2>2. CASE i = Len(kept) + 1 /\ entries[i] = new
    BY <1>0, <2>1, <2>2
  <2>3. CASE i \in DOMAIN kept /\ i + d \in DOMAIN old /\ entries[i] = old[i + d]
    <3>1. k + d < i + d
      BY <1>2, <1>3, <1>8, <2>1, <2>3
    <3> QED
      BY <1>0, <2>1, <2>3, <3>1
  <2> QED
    BY <1>6, <2>2, <2>3
<1>9. Grown(old, new, entries)
  BY <1>6 DEF Grown
<1> QED
  BY <1>4, <1>5, <1>7, <1>8, <1>9 DEF RingOK

\* A message is sent.
LEMMA SendIs ==
  ASSUME Typed, NEW m \in Msgs, Send(m)
  PROVE  /\ channel' \in Seq(Msgs) /\ Len(channel') <= CHANNEL
         /\ \A i \in DOMAIN channel' : channel'[i] = m \/ (i \in DOMAIN channel /\ channel'[i] = channel[i])
<1>1. /\ channel \in Seq(Msgs) /\ Len(channel) < CHANNEL /\ channel' = Append(channel, m)
      /\ CHANNEL \in Nat
  BY Bounds DEF Typed, Send
<1> QED
  BY <1>1

\* A message is received.
LEMMA TailIs ==
  ASSUME Typed, channel # <<>>, channel' = Tail(channel)
  PROVE  /\ channel' \in Seq(Msgs) /\ Len(channel') <= CHANNEL
         /\ \A i \in DOMAIN channel' : i + 1 \in DOMAIN channel /\ channel'[i] = channel[i + 1]
         /\ 1 \in DOMAIN channel /\ Head(channel) = channel[1] /\ channel[1] \in Msgs
<1>1. channel \in Seq(Msgs) /\ Len(channel) <= CHANNEL /\ CHANNEL \in Nat
  BY Bounds DEF Typed
<1> QED
  BY <1>1
---------------------------------------------------------------------------
(* The story of an entry. *)

\* Recording an entry that tells its own story leaves the others' (Journal::record).
LEMMA RecordTells ==
  ASSUME NEW sent, NEW serial, NEW old, Story(old, sent, serial),
         NEW new, Told(new, sent, serial), NEW entries, Grown(old, new, entries)
  PROVE  Story(entries, sent, serial)
BY DEF Story, Grown

\* Requests whose ids no entry has yet leave every entry's story (run_pending).
LEMMA SentTells ==
  ASSUME NEW sent \in Seq(Requests), NEW more \in Seq(Requests), NEW serial, NEW n \in Nat,
         NEW old, RingOK(old, n), Story(old, sent, serial),
         \A i \in 1..Len(more) : more[i].id >= n
  PROVE  Story(old, sent \o more, serial)
<1> DEFINE all == sent \o more
<1>1. /\ Len(sent) \in Nat /\ Len(more) \in Nat /\ Len(all) = Len(sent) + Len(more)
      /\ \A a \in 1..Len(sent) : all[a] = sent[a]
      /\ \A a \in 1..Len(all) : a \in 1..Len(sent) \/ (a - Len(sent) \in 1..Len(more) /\ all[a] = more[a - Len(sent)])
  OBVIOUS
<1> SUFFICES ASSUME NEW i \in DOMAIN old
             PROVE  Told(old[i], all, serial)
  BY DEF Story
<1> HIDE DEF all
<1>2. Told(old[i], sent, serial)
  BY DEF Story
<1>3. old[i].id \in Nat /\ old[i].id < n
  <2>1. old[i] \in Entries /\ old[i].id < n
    BY DEF RingOK
  <2> QED
    BY <2>1 DEF Entries
<1>4. \A a \in 1..Len(all) : all[a].id = old[i].id => a \in 1..Len(sent)
  <2> SUFFICES ASSUME NEW a \in 1..Len(all), all[a].id = old[i].id, a \notin 1..Len(sent)
               PROVE  FALSE
    OBVIOUS
  <2>1. a - Len(sent) \in 1..Len(more) /\ all[a] = more[a - Len(sent)]
    BY <1>1
  <2>2. more[a - Len(sent)] \in Requests /\ more[a - Len(sent)].id >= n
    BY <2>1
  <2>3. all[a].id \in Nat /\ all[a].id >= n
    BY <2>1, <2>2 DEF Requests
  <2> QED
    BY <1>3, <2>3
<1>5. /\ old[i].attempt \in 0..Len(all) /\ old[i].by \in 0..Len(all) /\ old[i].task \in 0..Len(all)
      /\ 1..Len(sent) \subseteq 1..Len(all)
  BY <1>1, <1>2 DEF Told
<1>6. old[i].by = old[i].attempt \/ (old[i].by \in 1..Len(all) /\ all[old[i].by].session < serial)
  BY <1>1, <1>2, <1>5 DEF Told
<1>7. ASSUME NEW a \in 1..Len(all), all[a].session = serial /\ all[a].id = old[i].id
      PROVE  old[i].attempt = a /\ old[i].context = all[a].site
  BY <1>1, <1>2, <1>4, <1>7 DEF Told
<1> QED
  BY <1>5, <1>6, <1>7 DEF Told

\* What settles the entry an attempt was recorded under is that attempt, in the session the
\* entry is of (Journal::settle).
LEMMA SettleTells ==
  ASSUME Inv, NEW a \in 1..Len(attempts), NEW outcome \in Outcomes, NEW ofTask \in {0, a},
         Settle(attempts[a].id, outcome, a, ofTask)
  PROVE  RingOK(journal', next) /\ Story(journal', attempts, session.serial)
<1>0. /\ RingOK(journal, next) /\ Story(journal, attempts, session.serial)
      /\ attempts \in Seq(Requests) /\ Len(attempts) \in Nat /\ session.serial \in Nat
      /\ attempts[a].session \in Nat /\ attempts[a].session <= session.serial /\ a \in Nat
      /\ a \in 0..Len(attempts) /\ 0 \in 0..Len(attempts)
  <2>1. /\ RingOK(journal, next) /\ Story(journal, attempts, session.serial)
        /\ attempts \in Seq(Requests) /\ session.serial \in 1..MaxSessions
        /\ attempts[a].session <= session.serial
    BY DEF Inv, Typed, Recent
  <2>2. attempts[a] \in Requests /\ Len(attempts) \in Nat /\ session.serial \in Nat
    BY <2>1, Bounds
  <2> QED
    BY <2>1, <2>2 DEF Requests
<1>1. /\ journal \in Seq(Entries) /\ Len(journal) \in Nat /\ DOMAIN journal = 1..Len(journal)
      /\ Len(journal) <= CAPACITY /\ \A i \in DOMAIN journal : journal[i] \in Entries
  BY <1>0 DEF RingOK
<1> DEFINE done(e) == [e EXCEPT !.outcome = outcome, !.by = a,
                                 !.task = IF ofTask # 0 THEN ofTask ELSE @]
<1>2. \A e \in Entries :
        /\ done(e).id = e.id /\ done(e).context = e.context /\ done(e).attempt = e.attempt
        /\ done(e).by = a /\ done(e).task \in {e.task, a}
  BY DEF Entries
<1>3. \A e \in Entries : done(e) \in Entries
  BY <1>0 DEF Entries
<1>4. journal' = [i \in DOMAIN journal |->
                    IF journal[i].id # attempts[a].id THEN journal[i] ELSE done(journal[i])]
  BY DEF Settle
<1> HIDE DEF done
<1>5. \A i \in DOMAIN journal :
        \/ journal'[i] = journal[i] /\ journal[i].id # attempts[a].id
        \/ journal'[i] = done(journal[i]) /\ journal[i].id = attempts[a].id
  BY <1>4
<1>6. DOMAIN journal' = DOMAIN journal /\ \A i \in DOMAIN journal : journal'[i] \in Entries
  BY <1>1, <1>3, <1>4, <1>5
<1>7. journal' \in Seq(Entries) /\ Len(journal') = Len(journal)
  BY <1>1, <1>4, <1>6
<1>8. \A i \in DOMAIN journal : journal'[i].id = journal[i].id
  BY <1>1, <1>2, <1>5
<1>9. RingOK(journal', next)
  BY <1>0, <1>1, <1>6, <1>7, <1>8 DEF RingOK
<1>10. ASSUME NEW i \in DOMAIN journal PROVE Told(journal'[i], attempts, session.serial)
  <2>1. Told(journal[i], attempts, session.serial) /\ journal[i] \in Entries
    BY <1>0, <1>1 DEF Story
  <2>2. CASE journal'[i] = journal[i]
    BY <2>1, <2>2
  <2>3. CASE journal'[i] = done(journal[i]) /\ journal[i].id = attempts[a].id
    <3>1. PICK e : e = done(journal[i])
      OBVIOUS
    <3>2. /\ e.id = journal[i].id /\ e.context = journal[i].context
          /\ e.attempt = journal[i].attempt /\ e.by = a /\ e.task \in {journal[i].task, a}
      BY <1>2, <2>1, <3>1
    <3>3. e.attempt = a \/ attempts[a].session < session.serial
      BY <1>0, <2>1, <2>3, <3>2 DEF Told
    <3>4. Told(e, attempts, session.serial)
      BY <1>0, <2>1, <3>2, <3>3 DEF Told
    <3> QED
      BY <2>3, <3>1, <3>4
  <2> QED
    BY <1>5, <2>2, <2>3
<1> QED
  BY <1>6, <1>9, <1>10 DEF Story
---------------------------------------------------------------------------
(* The steps. *)

\* A request of a run_pending, the i-th of those it sends.
Sent(contexts) ==
  [i \in DOMAIN contexts |->
     [id |-> next + i - 1, site |-> contexts[i], session |-> session.serial, left |-> FALSE]]

\* What a batch is (run_pending).
LEMMA BatchIs ==
  ASSUME Inv, NEW contexts \in Batches
  PROVE  /\ Len(contexts) \in {1, 2} /\ DOMAIN contexts = 1..Len(contexts)
         /\ \A i \in 1..Len(contexts) : contexts[i] \in Contexts
         /\ Sent(contexts) \in Seq(Requests) /\ Len(Sent(contexts)) = Len(contexts)
         /\ \A i \in 1..Len(contexts) :
              /\ Sent(contexts)[i].id = next + i - 1 /\ Sent(contexts)[i].site = contexts[i]
              /\ Sent(contexts)[i].session = session.serial
<1>1. /\ Len(contexts) \in {1, 2} /\ DOMAIN contexts = 1..Len(contexts)
      /\ \A i \in 1..Len(contexts) : contexts[i] \in Contexts
  <2>1. CASE \E c \in Contexts : contexts = <<c>>
    <3>1. PICK c \in Contexts : contexts = <<c>>
      BY <2>1
    <3>2. Len(contexts) = 1 /\ DOMAIN contexts = 1..1 /\ contexts[1] = c
      BY <3>1
    <3> QED
      BY <3>2
  <2>2. CASE contexts \in Contexts \X Contexts
    <3>1. PICK c \in Contexts, e \in Contexts : contexts = <<c, e>>
      BY <2>2
    <3>2. Len(contexts) = 2 /\ DOMAIN contexts = 1..2 /\ contexts[1] = c /\ contexts[2] = e
      BY <3>1
    <3> QED
      BY <3>2
  <2> QED
    BY <2>1, <2>2 DEF Batches
<1>2. next \in Nat /\ session.serial \in Nat
  BY Bounds DEF Inv, Typed
<1>3. \A i \in 1..Len(contexts) : next + i - 1 \in Nat
  BY <1>1, <1>2
<1>4. \A i \in DOMAIN contexts : Sent(contexts)[i] \in Requests
  BY <1>1, <1>2, <1>3 DEF Sent, Requests
<1>5. Sent(contexts) \in [1..Len(contexts) -> Requests]
  BY <1>1, <1>4 DEF Sent
<1>6. Len(contexts) \in Nat
  BY <1>1
<1>7. Sent(contexts) \in Seq(Requests) /\ Len(Sent(contexts)) = Len(contexts)
  BY <1>5, <1>6
<1>8. \A i \in 1..Len(contexts) :
        /\ Sent(contexts)[i].id = next + i - 1 /\ Sent(contexts)[i].site = contexts[i]
        /\ Sent(contexts)[i].session = session.serial
  BY <1>1 DEF Sent
<1> QED
  BY <1>1, <1>7, <1>8

\* Every row is recorded before the first is sent, under ids that are new (run_pending).
LEMMA RunKeeps ==
  ASSUME Inv, NEW contexts \in Batches, Run(contexts)
  PROVE  Inv'
<1>1. PICK n \in {1, 2} : n = Len(contexts)
  BY BatchIs
<1>2. PICK more \in Seq(Requests) : more = Sent(contexts)
  BY BatchIs
<1>3. PICK a \in Nat : a = Len(attempts)
  <2>1. attempts \in Seq(Requests)
    BY DEF Inv, Typed
  <2> QED
    BY <2>1
<1>4. /\ Len(more) = n
      /\ \A i \in 1..n : /\ contexts[i] \in Contexts /\ more[i].id = next + i - 1
                         /\ more[i].site = contexts[i] /\ more[i].session = session.serial
      /\ DOMAIN contexts = 1..n
  BY <1>1, <1>2, BatchIs
<1>5. /\ session.serial \in Nat /\ next \in Nat /\ attempts \in Seq(Requests)
      /\ RingOK(journal, next) /\ Story(journal, attempts, session.serial)
  BY Bounds DEF Inv, Typed
<1>6. /\ attempts' = attempts \o more /\ next' = next + n /\ a + n <= MaxAttempts
      /\ work' = work \cup {[i \in DOMAIN contexts |-> a + i]}
      /\ UNCHANGED <<session, peers, task, watched, channel, joins>>
  BY <1>1, <1>2, <1>3 DEF Run, Sent
<1>7. /\ attempts' \in Seq(Requests) /\ Len(attempts') = a + n
      /\ \A k \in 1..a : attempts'[k] = attempts[k]
      /\ \A k \in 1..(a + n) :
           k \in 1..a \/ (k - a \in 1..n /\ attempts'[k] = more[k - a])
  BY <1>3, <1>4, <1>5, <1>6
<1>8. \A i \in 1..n : more[i].id >= next
  BY <1>4, <1>5
<1>9. Story(journal, attempts', session.serial)
  BY <1>4, <1>5, <1>6, <1>8, SentTells
<1>10. 1..a \subseteq 1..(a + n) /\ 1..n \subseteq Nat /\ a + n \in Nat
  BY <1>1
<1>11. \A k \in 1..(a + n) :
         \/ k \in 1..a /\ attempts'[k].session <= session.serial
            /\ (attempts'[k].session = session.serial => attempts'[k].id < next)
         \/ /\ k - a \in 1..n /\ attempts'[k].session = session.serial
            /\ attempts'[k].id = next + (k - a) - 1 /\ attempts'[k].site = contexts[k - a]
  BY <1>3, <1>4, <1>7 DEF Inv, Recent
<1>12. ASSUME NEW i \in 1..n
       PROVE  /\ Entry(next + i - 1, contexts[i], a + i, "started") \in Entries
              /\ Entry(next + i - 1, contexts[i], a + i, "started").id = next + i - 1
              /\ Told(Entry(next + i - 1, contexts[i], a + i, "started"), attempts',
                      session.serial)
  <2>1. PICK e : e = Entry(next + i - 1, contexts[i], a + i, "started")
    OBVIOUS
  <2>2. /\ e.id = next + i - 1 /\ e.context = contexts[i] /\ e.attempt = a + i
        /\ e.by = a + i /\ e.task = 0
    BY <2>1 DEF Entry
  <2>3. i \in Nat /\ next + i - 1 \in Nat /\ a + i \in 0..(a + n) /\ a + i \in Nat /\ 0 \in 0..(a + n)
    BY <1>1, <1>5
  <2>4. e \in Entries
    BY <1>4, <2>1, <2>3 DEF Entry, Entries, Outcomes
  <2>5. ASSUME NEW k \in 1..(a + n), attempts'[k].session = session.serial,
               attempts'[k].id = e.id
        PROVE  e.attempt = k /\ e.context = attempts'[k].site
    <3>1. CASE k \in 1..a /\ attempts'[k].session <= session.serial
               /\ (attempts'[k].session = session.serial => attempts'[k].id < next)
      <4>1. next + i - 1 < next
        BY <2>2, <2>5, <3>1
      <4> QED
        BY <1>1, <1>5, <4>1
    <3>2. CASE /\ k - a \in 1..n /\ attempts'[k].session = session.serial
               /\ attempts'[k].id = next + (k - a) - 1 /\ attempts'[k].site = contexts[k - a]
      <4>1. next + (k - a) - 1 = next + i - 1
        BY <2>2, <2>5, <3>2
      <4>2. k - a = i /\ a + i = k
        BY <1>1, <1>5, <4>1
      <4> QED
        BY <2>2, <3>2, <4>2
    <3> QED
      BY <1>11, <3>1, <3>2
  <2>6. Told(e, attempts', session.serial)
    BY <1>7, <2>2, <2>3, <2>5 DEF Told
  <2> QED
    BY <2>1, <2>2, <2>4, <2>6
<1>13. PICK new1 : new1 = Entry(next + 1 - 1, contexts[1], a + 1, "started")
  OBVIOUS
<1>14. new1 \in Entries /\ new1.id = next /\ Told(new1, attempts', session.serial)
  BY <1>1, <1>5, <1>12, <1>13
<1>15. PICK first : first = Record(journal, new1)
  OBVIOUS
<1>16. RingOK(first, next + 1) /\ Grown(journal, new1, first)
  BY <1>5, <1>14, <1>15, RecordIs
<1>17. Story(first, attempts', session.serial)
  BY <1>9, <1>14, <1>16, RecordTells
<1>18. RingOK(journal', next') /\ Story(journal', attempts', session.serial)
  <2>1. CASE n = 1
    <3>1. journal' = first
      BY <1>1, <1>3, <1>13, <1>15, <2>1 DEF Run
    <3> QED
      BY <1>6, <1>16, <1>17, <2>1, <3>1
  <2>2. CASE n = 2
    <3>1. PICK new2 : new2 = Entry(next + 2 - 1, contexts[2], a + 2, "started")
      OBVIOUS
    <3>2. next + 1 \in Nat /\ next + 2 - 1 = next + 1 /\ (next + 1) + 1 = next + 2
      BY <1>5
    <3>3. new2 \in Entries /\ new2.id = next + 1 /\ Told(new2, attempts', session.serial)
      BY <1>12, <2>2, <3>1, <3>2
    <3>4. journal' = Record(first, new2)
      BY <1>1, <1>3, <1>13, <1>15, <2>2, <3>1 DEF Run
    <3>5. RingOK(journal', (next + 1) + 1) /\ Grown(first, new2, journal')
      BY <1>16, <3>2, <3>3, <3>4, RecordIs
    <3>6. Story(journal', attempts', session.serial)
      BY <1>17, <3>3, <3>5, RecordTells
    <3> QED
      BY <1>6, <2>2, <3>2, <3>5, <3>6
  <2> QED
    BY <2>1, <2>2
<1>19. PICK w : w = [i \in DOMAIN contexts |-> a + i]
  OBVIOUS
<1>20. w \in Seq(Nat) /\ w # <<>> /\ DOMAIN w = 1..n /\ \A i \in 1..n : w[i] \in 1..(a + n)
  <2>1. w = [i \in 1..n |-> a + i] /\ n \in Nat
    BY <1>1, <1>4, <1>19
  <2>2. \A i \in 1..n : a + i \in Nat /\ a + i \in 1..(a + n)
    BY <1>1
  <2>3. w \in [1..n -> Nat]
    BY <2>1, <2>2
  <2>4. w \in Seq(Nat) /\ Len(w) = n
    BY <2>1, <2>3
  <2> QED
    BY <1>1, <2>1, <2>2, <2>4
<1>21. Typed'
  <2>1. a + n <= MaxAttempts /\ next + n \in Nat
    BY <1>1, <1>5, <1>6
  <2> QED
    BY <1>6, <1>7, <1>18, <1>19, <1>20, <2>1 DEF Inv, Typed
<1>22. Named'
  <2>1. \A x \in work' : \A i \in DOMAIN x : x[i] \in 1..(a + n)
    BY <1>3, <1>6, <1>10, <1>19, <1>20 DEF Inv, Named
  <2>2. \A i \in DOMAIN channel : channel[i].attempt \in 1..(a + n)
    BY <1>3, <1>10 DEF Inv, Named
  <2>3. \A x \in watched : x.attempt \in 1..(a + n)
    BY <1>3, <1>10 DEF Inv, Named
  <2> QED
    BY <1>6, <1>7, <2>1, <2>2, <2>3 DEF Named
<1>23. Recent'
  <2>1. ASSUME NEW k \in 1..(a + n)
        PROVE  /\ attempts'[k].session <= session.serial
               /\ attempts'[k].session = session.serial => attempts'[k].id < next + n
    <3>1. attempts'[k] \in Requests
      BY <1>7, <2>1
    <3>2. attempts'[k].id \in Nat
      BY <3>1 DEF Requests
    <3>3. CASE k \in 1..a /\ attempts'[k].session <= session.serial
               /\ (attempts'[k].session = session.serial => attempts'[k].id < next)
      BY <1>1, <1>5, <3>2, <3>3
    <3>4. CASE /\ k - a \in 1..n /\ attempts'[k].session = session.serial
               /\ attempts'[k].id = next + (k - a) - 1 /\ attempts'[k].site = contexts[k - a]
      <4>1. k - a \in Nat /\ k - a <= n
        BY <1>1, <3>4
      <4>2. next + (k - a) - 1 < next + n /\ session.serial <= session.serial
        BY <1>1, <1>5, <4>1
      <4> QED
        BY <3>4, <4>2
    <3> QED
      BY <1>11, <3>3, <3>4
  <2> QED
    BY <1>6, <1>7, <2>1 DEF Recent
<1>24. Carried' /\ WatchedAtHome'
  <2>1. \A x \in watched : x.attempt \in 1..a /\ attempts'[x.attempt] = attempts[x.attempt]
    BY <1>3, <1>7 DEF Inv, Named
  <2>2. Carried'
    BY <1>6, <2>1 DEF Inv, Carried
  <2>3. WatchedAtHome'
    BY <1>6, <2>1 DEF Inv, WatchedAtHome, At
  <2> QED
    BY <2>2, <2>3
<1> QED
  BY <1>6, <1>18, <1>21, <1>22, <1>23, <1>24 DEF Inv
\* What a refusal is recorded under is no request's (journal_refusal).
LEMMA RefuseKeeps ==
  ASSUME Inv, NEW rows \in 1..2, Refuse(rows)
  PROVE  Inv'
<1>1. /\ session.serial \in Nat /\ session.primary \in Contexts /\ next \in Nat
      /\ attempts \in Seq(Requests) /\ Len(attempts) \in Nat
      /\ RingOK(journal, next) /\ Story(journal, attempts, session.serial)
      /\ rows \in {1, 2}
  <2>1. attempts \in Seq(Requests)
    BY DEF Inv, Typed
  <2>2. rows \in {1, 2} /\ Len(attempts) \in Nat
    BY <2>1
  <2> QED
    BY <2>1, <2>2, Bounds DEF Inv, Typed
<1>2. next' = next + rows /\ UNCHANGED <<session, peers, attempts, work, task, watched, channel, joins>>
  BY DEF Refuse
<1>3. ASSUME NEW i \in {1, 2}
      PROVE  /\ Entry(next + i - 1, session.primary, 0, "denied") \in Entries
             /\ Entry(next + i - 1, session.primary, 0, "denied").id = next + i - 1
             /\ Told(Entry(next + i - 1, session.primary, 0, "denied"), attempts, session.serial)
  <2>1. PICK e : e = Entry(next + i - 1, session.primary, 0, "denied")
    OBVIOUS
  <2>2. /\ e.id = next + i - 1 /\ e.context = session.primary /\ e.attempt = 0
        /\ e.by = 0 /\ e.task = 0
    BY <2>1 DEF Entry
  <2>3. next + i - 1 \in Nat /\ next + i - 1 >= next /\ 0 \in 0..Len(attempts)
    BY <1>1
  <2>4. e \in Entries
    BY <1>1, <2>1, <2>3 DEF Entry, Entries, Outcomes
  <2>5. ASSUME NEW k \in 1..Len(attempts), attempts[k].session = session.serial,
               attempts[k].id = e.id
        PROVE  FALSE
    <3>1. attempts[k].id < next
      BY <2>5 DEF Inv, Recent
    <3> QED
      BY <1>1, <2>2, <2>3, <2>5, <3>1
  <2>6. Told(e, attempts, session.serial)
    BY <2>2, <2>3, <2>5 DEF Told
  <2> QED
    BY <2>1, <2>2, <2>4, <2>6
<1>4. PICK new1 : new1 = Entry(next + 1 - 1, session.primary, 0, "denied")
  OBVIOUS
<1>5. next + 1 - 1 = next /\ next + 2 - 1 = next + 1 /\ next + 1 \in Nat /\ (next + 1) + 1 = next + 2
      /\ next + rows \in Nat
  BY <1>1
<1>6. new1 \in Entries /\ new1.id = next /\ Told(new1, attempts, session.serial)
  BY <1>3, <1>4, <1>5
<1>7. PICK first : first = Record(journal, new1)
  OBVIOUS
<1>8. RingOK(first, next + 1) /\ Grown(journal, new1, first)
  BY <1>1, <1>6, <1>7, RecordIs
<1>9. Story(first, attempts, session.serial)
  BY <1>1, <1>6, <1>8, RecordTells
<1>10. RingOK(journal', next') /\ Story(journal', attempts, session.serial)
  <2>1. CASE rows = 1
    <3>1. journal' = first
      BY <1>4, <1>7, <2>1 DEF Refuse
    <3> QED
      BY <1>2, <1>8, <1>9, <2>1, <3>1
  <2>2. CASE rows = 2
    <3>1. PICK new2 : new2 = Entry(next + 2 - 1, session.primary, 0, "denied")
      OBVIOUS
    <3>2. new2 \in Entries /\ new2.id = next + 1 /\ Told(new2, attempts, session.serial)
      BY <1>3, <1>5, <3>1
    <3>3. journal' = Record(first, new2)
      BY <1>4, <1>7, <2>2, <3>1 DEF Refuse
    <3>4. RingOK(journal', (next + 1) + 1) /\ Grown(first, new2, journal')
      BY <1>5, <1>8, <3>2, <3>3, RecordIs
    <3>5. Story(journal', attempts, session.serial)
      BY <1>9, <3>2, <3>4, RecordTells
    <3> QED
      BY <1>2, <1>5, <2>2, <3>4, <3>5
  <2> QED
    BY <1>1, <2>1, <2>2
<1>11. Typed'
  BY <1>2, <1>5, <1>10 DEF Inv, Typed
<1>12. Named' /\ Carried' /\ WatchedAtHome'
  BY <1>2 DEF Inv, Named, Carried, WatchedAtHome, At
<1>13. Recent'
  <2>1. ASSUME NEW k \in 1..Len(attempts)
        PROVE  /\ attempts[k].session <= session.serial
               /\ attempts[k].session = session.serial => attempts[k].id < next + rows
    <3>1. attempts[k].id \in Nat
      <4>1. attempts[k] \in Requests
        BY <1>1
      <4> QED
        BY <4>1 DEF Requests
    <3>2. attempts[k].id < next => attempts[k].id < next + rows
      BY <1>1, <3>1
    <3> QED
      BY <3>2 DEF Inv, Recent
  <2> QED
    BY <1>2, <2>1 DEF Recent
<1> QED
  BY <1>2, <1>10, <1>11, <1>12, <1>13 DEF Inv

\* A worker reports the request it sent, and goes on to its next.
LEMMA AnswerKeeps ==
  ASSUME Inv, NEW w \in work, NEW result \in Results, Answer(w, result)
  PROVE  Inv'
<1>1. /\ w \in Seq(Nat) /\ w # <<>> /\ \A i \in DOMAIN w : w[i] \in 1..Len(attempts)
      /\ work \subseteq Seq(Nat) \ {<<>>} /\ task \in [Attempts -> Statuses]
  BY DEF Inv, Typed, Named
<1>2. /\ Head(w) \in Nat /\ Head(w) \in 1..Len(attempts) /\ Tail(w) \in Seq(Nat)
      /\ \A i \in DOMAIN Tail(w) : Tail(w)[i] \in 1..Len(attempts)
  <2>1. 1 \in DOMAIN w /\ Head(w) = w[1] /\ Tail(w) \in Seq(Nat)
        /\ \A i \in DOMAIN Tail(w) : i + 1 \in DOMAIN w /\ Tail(w)[i] = w[i + 1]
    BY <1>1
  <2> QED
    BY <1>1, <2>1
<1>3. PICK m : m = [kind |-> "acted", attempt |-> Head(w), result |-> result]
  OBVIOUS
<1>4. m \in Msgs /\ m.kind = "acted" /\ m.attempt = Head(w) /\ m.result = result
  BY <1>2, <1>3 DEF Msgs
<1>5. /\ channel' \in Seq(Msgs) /\ Len(channel') <= CHANNEL
      /\ \A i \in DOMAIN channel' : channel'[i] = m \/ (i \in DOMAIN channel /\ channel'[i] = channel[i])
  <2>1. Typed /\ Send(m)
    BY <1>3 DEF Inv, Answer
  <2> QED
    BY <1>4, <2>1, SendIs
<1>6. /\ work' = (work \ {w}) \cup ({Tail(w)} \ {<<>>})
      /\ task' = IF result = "started" THEN [task EXCEPT ![Head(w)] = "running"] ELSE task
      /\ UNCHANGED <<session, peers, journal, next, attempts, watched, joins>>
  BY DEF Answer
<1>7. task' \in [Attempts -> Statuses]
  BY <1>1, <1>6 DEF Statuses
<1>8. Typed'
  <2>1. work' \subseteq Seq(Nat) \ {<<>>}
    BY <1>1, <1>2, <1>6
  <2>2. \A i \in DOMAIN channel' : channel'[i].kind = "acted" => channel'[i].result \in Results
    BY <1>4, <1>5 DEF Inv, Typed
  <2> QED
    BY <1>5, <1>6, <1>7, <2>1, <2>2 DEF Inv, Typed
<1>9. Named'
  <2>1. \A x \in work' : \A i \in DOMAIN x : x[i] \in 1..Len(attempts)
    BY <1>2, <1>6 DEF Inv, Named
  <2>2. \A i \in DOMAIN channel' : channel'[i].attempt \in 1..Len(attempts)
    BY <1>2, <1>4, <1>5 DEF Inv, Named
  <2> QED
    BY <1>6, <2>1, <2>2 DEF Inv, Named
<1>10. Story(journal', attempts', session'.serial) /\ Recent' /\ Carried' /\ WatchedAtHome'
  BY <1>6 DEF Inv, Recent, Carried, WatchedAtHome, At
<1> QED
  BY <1>8, <1>9, <1>10 DEF Inv

\* A task ends at the far end.
LEMMA TaskEndsKeeps ==
  ASSUME Inv, NEW a \in Attempts, TaskEnds(a)
  PROVE  Inv'
<1>1. task' \in [Attempts -> Statuses]
  BY DEF Inv, Typed, TaskEnds, Statuses
<1>2. UNCHANGED <<session, peers, journal, next, attempts, work, watched, channel, joins>>
  BY DEF TaskEnds
<1> QED
  BY <1>1, <1>2 DEF Inv, Typed, Named, Recent, Carried, WatchedAtHome, At

\* A watch reads its own task.
LEMMA PollKeeps ==
  ASSUME Inv, NEW w \in watched, Poll(w)
  PROVE  Inv'
<1>1. /\ w.attempt \in 1..Len(attempts) /\ attempts \in Seq(Requests)
      /\ Len(attempts) <= MaxAttempts /\ task \in [Attempts -> Statuses]
  BY DEF Inv, Typed, Named
<1>2. w.attempt \in Nat /\ w.attempt \in Attempts
  BY <1>1, Bounds DEF Attempts
<1>3. PICK m : m = [kind |-> "entity", attempt |-> w.attempt, result |-> task[w.attempt]]
  OBVIOUS
<1>4. m \in Msgs /\ m.kind = "entity" /\ m.attempt = w.attempt
  BY <1>1, <1>2, <1>3 DEF Msgs
<1>5. /\ channel' \in Seq(Msgs) /\ Len(channel') <= CHANNEL
      /\ \A i \in DOMAIN channel' : channel'[i] = m \/ (i \in DOMAIN channel /\ channel'[i] = channel[i])
  <2>1. Typed /\ Send(m)
    BY <1>3 DEF Inv, Poll
  <2> QED
    BY <1>4, <2>1, SendIs
<1>6. UNCHANGED <<session, peers, journal, next, attempts, work, task, watched, joins>>
  BY DEF Poll
<1>7. \A i \in DOMAIN channel' : /\ channel'[i].kind = "acted" => channel'[i].result \in Results
                                 /\ channel'[i].attempt \in 1..Len(attempts)
  BY <1>1, <1>4, <1>5 DEF Inv, Typed, Named
<1> QED
  BY <1>5, <1>6, <1>7 DEF Inv, Typed, Named, Recent, Carried, WatchedAtHome, At
\* An id of this session's attempt, while the ring holds it, says where the request went
\* (Journal::context_of).
LEMMA SiteIs ==
  ASSUME Inv, NEW a \in 1..Len(attempts)
  PROVE  /\ Site(attempts[a].id) \in Contexts \cup {None}
         /\ attempts[a].session = session.serial /\ Recorded(attempts[a].id) =>
              At(Site(attempts[a].id)) = attempts[a].site
<1> DEFINE held == {i \in DOMAIN journal :
                      journal[i].id = attempts[a].id /\ journal[i].context # session.primary}
<1>1. \A i \in DOMAIN journal : journal[i].context \in Contexts
  <2>1. journal \in Seq(Entries)
    BY DEF Inv, Typed, RingOK
  <2>2. \A i \in DOMAIN journal : journal[i] \in Entries
    BY <2>1
  <2> QED
    BY <2>2 DEF Entries
<1>2. ASSUME attempts[a].session = session.serial
      PROVE  \A i \in DOMAIN journal :
               journal[i].id = attempts[a].id => journal[i].context = attempts[a].site
  BY <1>2 DEF Inv, Story, Told
<1>3. CASE held = {}
  <2>1. Site(attempts[a].id) = None
    BY <1>3 DEF Site
  <2>2. ASSUME attempts[a].session = session.serial, Recorded(attempts[a].id)
        PROVE  session.primary = attempts[a].site
    <3>1. PICK i \in DOMAIN journal : journal[i].id = attempts[a].id
      BY <2>2 DEF Recorded
    <3> QED
      BY <1>2, <1>3, <2>2, <3>1
  <2> QED
    BY <2>1, <2>2 DEF At
<1>4. CASE held # {}
  <2>1. PICK j : j = CHOOSE i \in held : TRUE
    OBVIOUS
  <2>2. j \in held
    BY <1>4, <2>1
  <2>3. Site(attempts[a].id) = journal[j].context
    BY <1>4, <2>1 DEF Site
  <2>4. journal[j].context \in Contexts /\ journal[j].context # None
    BY <1>1, <2>2, Bounds
  <2> QED
    BY <1>2, <2>2, <2>3, <2>4 DEF At
<1> QED
  BY <1>3, <1>4

\* A result settles its own entry, and its task is watched where the entry says the request
\* went (App::acted).
LEMMA ActedKeeps ==
  ASSUME Inv, NEW a \in 1..Len(attempts), NEW result \in Results, Acted(a, result),
         UNCHANGED <<session, attempts, next>>
  PROVE  /\ RingOK(journal', next) /\ Story(journal', attempts, session.serial)
         /\ watched' \subseteq Watched
         /\ \A w \in watched' : w.attempt \in 1..Len(attempts)
         /\ Carried' /\ WatchedAtHome'
<1>1. PICK outcome : outcome = CASE result = "started" -> "started"
                                 [] result = "done" -> "succeeded"
                                 [] result = "failed" -> "failed"
  OBVIOUS
<1>2. outcome \in Outcomes
  BY <1>1 DEF Results, Outcomes, Terminal
<1>3. PICK ofTask \in {0, a} : ofTask = IF result = "started" THEN a ELSE 0
  OBVIOUS
<1>4. Settle(attempts[a].id, outcome, a, ofTask)
  BY <1>1, <1>3 DEF Acted
<1>5. RingOK(journal', next) /\ Story(journal', attempts, session.serial)
  BY <1>2, <1>4, SettleTells
<1>6. PICK new : new = [attempt |-> a, id |-> attempts[a].id, site |-> Site(attempts[a].id),
                        found |-> Recorded(attempts[a].id), polled |-> TRUE]
  OBVIOUS
<1>7. watched' \subseteq watched \cup {new}
  BY <1>6 DEF Acted
<1>8. /\ new.attempt = a /\ new.id = attempts[a].id /\ new.site = Site(attempts[a].id)
      /\ new.found = Recorded(attempts[a].id)
  BY <1>6
<1>9. new \in Watched
  <2>1. attempts \in Seq(Requests) /\ a \in Nat
    BY DEF Inv, Typed
  <2>2. attempts[a] \in Requests
    BY <2>1
  <2>3. attempts[a].id \in Nat /\ Site(attempts[a].id) \in Contexts \cup {None}
    BY <2>2, SiteIs DEF Requests
  <2>4. Recorded(attempts[a].id) \in BOOLEAN
    BY DEF Recorded
  <2>5. \A f \in BOOLEAN :
          [attempt |-> a, id |-> attempts[a].id, site |-> Site(attempts[a].id),
           found |-> f, polled |-> TRUE] \in Watched
    BY <2>1, <2>3 DEF Watched
  <2> QED
    BY <1>6, <2>4, <2>5
<1>10. new.found /\ attempts[a].session = session.serial => At(new.site) = attempts[a].site
  BY <1>8, SiteIs
<1>11. watched' \subseteq Watched /\ \A w \in watched' : w.attempt \in 1..Len(attempts)
  BY <1>7, <1>8, <1>9 DEF Inv, Typed, Named
<1>12. Carried'
  BY <1>7, <1>8 DEF Inv, Carried
<1>13. WatchedAtHome'
  <2>1. ASSUME NEW w \in watched', w.found, attempts[w.attempt].session = session.serial
        PROVE  (IF w.site = None THEN session.primary ELSE w.site) = attempts[w.attempt].site
    <3>1. CASE w \in watched
      BY <2>1, <3>1 DEF Inv, WatchedAtHome, At
    <3>2. CASE w = new
      BY <1>8, <1>10, <2>1, <3>2 DEF At
    <3> QED
      BY <1>7, <3>1, <3>2
  <2> QED
    BY <2>1 DEF WatchedAtHome, At
<1> QED
  BY <1>5, <1>11, <1>12, <1>13

\* A task's end settles the entry of the attempt that started it (TaskIndex::apply).
LEMMA FollowedKeeps ==
  ASSUME Inv, NEW w \in watched, NEW status \in Terminal, Followed(w, status),
         UNCHANGED <<session, attempts, next>>
  PROVE  /\ RingOK(journal', next) /\ Story(journal', attempts, session.serial)
         /\ watched' \subseteq Watched
         /\ \A x \in watched' : x.attempt \in 1..Len(attempts)
         /\ Carried' /\ WatchedAtHome'
<1>1. PICK a \in 1..Len(attempts) : a = w.attempt
  BY DEF Inv, Named
<1>2. w.id = attempts[a].id
  BY <1>1 DEF Inv, Carried
<1>3. status \in Outcomes
  BY DEF Outcomes
<1>4. Settle(attempts[a].id, status, a, a)
  BY <1>1, <1>2 DEF Followed
<1>5. RingOK(journal', next) /\ Story(journal', attempts, session.serial)
  BY <1>3, <1>4, SettleTells
<1>6. watched' \subseteq watched
  BY DEF Followed
<1> QED
  BY <1>5, <1>6 DEF Inv, Typed, Named, Carried, WatchedAtHome, At

\* The receiver (App::apply).
LEMMA ReceiveKeeps ==
  ASSUME Inv, Receive
  PROVE  Inv'
<1>1. /\ channel # <<>> /\ channel' = Tail(channel)
      /\ UNCHANGED <<session, peers, next, attempts, work, task, joins>>
  BY DEF Receive
<1>2. /\ channel' \in Seq(Msgs) /\ Len(channel') <= CHANNEL
      /\ \A i \in DOMAIN channel' : i + 1 \in DOMAIN channel /\ channel'[i] = channel[i + 1]
      /\ 1 \in DOMAIN channel /\ Head(channel) = channel[1] /\ channel[1] \in Msgs
  BY <1>1, TailIs DEF Inv
<1>3. PICK m \in Msgs : m = Head(channel)
  BY <1>2
<1>4. m.attempt \in 1..Len(attempts) /\ (m.kind = "acted" => m.result \in Results)
  BY <1>2, <1>3 DEF Inv, Typed, Named
<1>5. /\ RingOK(journal', next) /\ Story(journal', attempts, session.serial)
      /\ watched' \subseteq Watched
      /\ \A w \in watched' : w.attempt \in 1..Len(attempts)
      /\ Carried' /\ WatchedAtHome'
  <2>1. CASE m.kind = "acted" /\ Acted(m.attempt, m.result)
    BY <1>1, <1>4, <2>1, ActedKeeps
  <2>2. CASE IsTerminal(m.result) /\ \E w \in watched : Followed(w, m.result)
    BY <1>1, <2>2, FollowedKeeps DEF IsTerminal
  <2>3. CASE UNCHANGED <<watched, journal>>
    BY <1>1, <2>3 DEF Inv, Typed, Named, Carried, WatchedAtHome, At
  <2> QED
    BY <1>3, <2>1, <2>2, <2>3 DEF Receive
<1>6. \A i \in DOMAIN channel' : /\ channel'[i].kind = "acted" => channel'[i].result \in Results
                                 /\ channel'[i].attempt \in 1..Len(attempts)
  BY <1>2 DEF Inv, Typed, Named
<1>7. Typed'
  BY <1>1, <1>2, <1>5, <1>6 DEF Inv, Typed
<1>8. Named' /\ Recent'
  BY <1>1, <1>5, <1>6 DEF Inv, Named, Recent
<1> QED
  BY <1>1, <1>5, <1>7, <1>8 DEF Inv

\* A peer joins.
LEMMA JoinKeeps ==
  ASSUME Inv, NEW c \in Contexts, Join(c)
  PROVE  Inv'
<1>1. /\ peers' = peers \cup {c} /\ c # session.primary
      /\ UNCHANGED <<session, journal, next, attempts, work, task, watched, channel>>
  BY DEF Join
<1> QED
  BY <1>1 DEF Inv, Typed, Named, Recent, Carried, WatchedAtHome, At

\* A peer leaves: its watches are no longer polled, and say what they said (forget_peer).
LEMMA DropKeeps ==
  ASSUME Inv, NEW c \in Contexts, Drop(c)
  PROVE  Inv'
<1>1. /\ peers' = peers \ {c}
      /\ watched' = {[w EXCEPT !.polled = @ /\ w.site # c] : w \in watched}
      /\ attempts' = [a \in DOMAIN attempts |->
                        [attempts[a] EXCEPT !.left = @ \/ attempts[a].site = c]]
      /\ UNCHANGED <<session, journal, next, work, task, channel, joins>>
  BY DEF Drop
<1>2. attempts \in Seq(Requests) /\ Len(attempts) \in Nat /\ Len(attempts) <= MaxAttempts
      /\ DOMAIN attempts = 1..Len(attempts)
  <2>1. attempts \in Seq(Requests) /\ Len(attempts) <= MaxAttempts
    BY DEF Inv, Typed
  <2> QED
    BY <2>1
<1>3. \A a \in 1..Len(attempts) :
        /\ attempts'[a].id = attempts[a].id /\ attempts'[a].site = attempts[a].site
        /\ attempts'[a].session = attempts[a].session /\ attempts'[a] \in Requests
  <2> TAKE a \in 1..Len(attempts)
  <2>1. attempts[a] \in Requests
    BY <1>2
  <2>2. PICK l \in BOOLEAN : l = (attempts[a].left \/ attempts[a].site = c)
    OBVIOUS
  <2>3. attempts'[a] = [attempts[a] EXCEPT !.left = l]
    BY <1>1, <1>2, <2>2
  <2> QED
    BY <2>1, <2>3 DEF Requests
<1>4. attempts' \in Seq(Requests) /\ Len(attempts') = Len(attempts)
  <2>1. attempts' \in [1..Len(attempts) -> Requests]
    BY <1>1, <1>2, <1>3
  <2> QED
    BY <1>2, <2>1
<1>5. \A x \in watched' : x \in Watched /\ \E w \in watched :
        x.attempt = w.attempt /\ x.id = w.id /\ x.site = w.site /\ x.found = w.found
  <2> TAKE x \in watched'
  <2>1. PICK w \in watched : x = [w EXCEPT !.polled = @ /\ w.site # c]
    BY <1>1
  <2>2. w \in Watched
    BY DEF Inv, Typed
  <2>3. PICK p \in BOOLEAN : p = (w.polled /\ w.site # c)
    OBVIOUS
  <2>4. x = [w EXCEPT !.polled = p]
    BY <2>1, <2>3
  <2> QED
    BY <2>2, <2>4 DEF Watched
<1>6. Typed'
  BY <1>1, <1>2, <1>4, <1>5 DEF Inv, Typed
<1>7. Story(journal', attempts', session'.serial)
  <2> SUFFICES ASSUME NEW i \in DOMAIN journal
               PROVE  Told(journal[i], attempts', session.serial)
    BY <1>1 DEF Story
  <2>1. Told(journal[i], attempts, session.serial)
    BY DEF Inv, Story
  <2> QED
    BY <1>3, <1>4, <2>1 DEF Told
<1>8. Named'
  BY <1>1, <1>4, <1>5 DEF Inv, Named
<1>9. Recent'
  BY <1>1, <1>3, <1>4 DEF Inv, Recent
<1>10. \A w \in watched : w.attempt \in 1..Len(attempts)
  BY DEF Inv, Named
<1>11. Carried'
  BY <1>3, <1>5, <1>10 DEF Inv, Carried
<1>12. WatchedAtHome'
  <2>1. ASSUME NEW x \in watched', x.found, attempts'[x.attempt].session = session.serial
        PROVE  (IF x.site = None THEN session.primary ELSE x.site) = attempts'[x.attempt].site
    <3>1. PICK w \in watched :
            x.attempt = w.attempt /\ x.id = w.id /\ x.site = w.site /\ x.found = w.found
      BY <1>5, <2>1
    <3>2. w.found
      BY <2>1, <3>1
    <3>3. /\ attempts'[w.attempt].site = attempts[w.attempt].site
          /\ attempts'[w.attempt].session = attempts[w.attempt].session
      BY <1>3, <1>10
    <3>4. At(w.site) = attempts[w.attempt].site
      BY <2>1, <3>1, <3>2, <3>3 DEF Inv, WatchedAtHome
    <3> QED
      BY <3>1, <3>3, <3>4 DEF At
  <2> QED
    BY <1>1, <2>1 DEF WatchedAtHome, At
<1> QED
  BY <1>6, <1>7, <1>8, <1>9, <1>11, <1>12 DEF Inv

\* The session is switched: what was sent before is another session's (App::attach).
LEMMA SwitchKeeps ==
  ASSUME Inv, NEW c \in Contexts, Switch(c)
  PROVE  Inv'
<1>1. /\ session' = [serial |-> session.serial + 1, primary |-> c]
      /\ session.serial < MaxSessions /\ session.serial \in 1..MaxSessions
      /\ peers' = {} /\ journal' = <<>> /\ next' = 1 /\ watched' = {}
      /\ UNCHANGED <<attempts, work, task, channel, joins>>
  BY DEF Inv, Typed, Switch
<1>2. /\ session' \in [serial : 1..MaxSessions, primary : Contexts]
      /\ session'.serial = session.serial + 1 /\ session.serial \in Nat
  BY <1>1, Bounds
<1>3. RingOK(journal', next') /\ Story(journal', attempts', session'.serial)
  <2>1. <<>> \in Seq(Entries) /\ Len(<<>>) = 0 /\ \A i \in DOMAIN <<>> : FALSE
    OBVIOUS
  <2> QED
    BY <1>1, <2>1, Bounds DEF RingOK, Story
<1>4. Typed'
  BY <1>1, <1>2, <1>3 DEF Inv, Typed
<1>5. Recent'
  <2>1. ASSUME NEW a \in 1..Len(attempts)
        PROVE  attempts[a].session <= session.serial + 1 /\ attempts[a].session # session.serial + 1
    <3>1. attempts[a].session <= session.serial /\ attempts \in Seq(Requests)
      BY DEF Inv, Recent, Typed
    <3>2. attempts[a] \in Requests
      BY <3>1
    <3>3. attempts[a].session \in Nat
      BY <3>2 DEF Requests
    <3> QED
      BY <1>2, <3>1, <3>3
  <2> QED
    BY <1>1, <1>2, <2>1 DEF Recent
<1>6. Named' /\ Carried' /\ WatchedAtHome'
  BY <1>1 DEF Inv, Named, Carried, WatchedAtHome
<1> QED
  BY <1>3, <1>4, <1>5, <1>6 DEF Inv

---------------------------------------------------------------------------
(* The theorems. *)

\* At first nothing was sent.
LEMMA InitHolds == Init => Inv
<1> SUFFICES ASSUME Init PROVE Inv
  OBVIOUS
<1>1. /\ <<>> \in Seq(Entries) /\ <<>> \in Seq(Requests) /\ <<>> \in Seq(Msgs)
      /\ Len(<<>>) = 0 /\ DOMAIN <<>> = {} /\ 1..0 = {}
  OBVIOUS
<1>2. session \in [serial : 1..MaxSessions, primary : Contexts]
  BY Bounds DEF Init
<1>3. RingOK(journal, next)
  BY <1>1, Bounds DEF Init, RingOK
<1>4. Typed
  BY <1>1, <1>2, <1>3, Bounds DEF Init, Typed, Statuses
<1> QED
  BY <1>1, <1>4 DEF Init, Inv, Story, Named, Recent, Carried, WatchedAtHome

\* Every step keeps it.
LEMMA NextHolds == Inv /\ [Next]_vars => Inv'
<1> SUFFICES ASSUME Inv, [Next]_vars PROVE Inv'
  OBVIOUS
<1>1. ASSUME NEW contexts \in Batches, Run(contexts) PROVE Inv'
  BY <1>1, RunKeeps
<1>2. ASSUME NEW rows \in 1..2, Refuse(rows) PROVE Inv'
  BY <1>2, RefuseKeeps
<1>3. CASE AnswerAny
  BY <1>3, AnswerKeeps DEF AnswerAny
<1>4. ASSUME NEW a \in Attempts, TaskEnds(a) PROVE Inv'
  BY <1>4, TaskEndsKeeps
<1>5. ASSUME NEW a \in Attempts, PollOf(a) PROVE Inv'
  BY <1>5, PollKeeps DEF PollOf
<1>6. CASE Receive
  BY <1>6, ReceiveKeeps
<1>7. ASSUME NEW c \in Contexts, Join(c) PROVE Inv'
  BY <1>7, JoinKeeps
<1>8. ASSUME NEW c \in Contexts, Drop(c) PROVE Inv'
  BY <1>8, DropKeeps
<1>9. ASSUME NEW c \in Contexts, Switch(c) PROVE Inv'
  BY <1>9, SwitchKeeps
<1>10. CASE UNCHANGED vars
  BY <1>10 DEF vars, Inv, Typed, Named, Recent, Carried, WatchedAtHome, At
<1> QED
  BY <1>1, <1>2, <1>3, <1>4, <1>5, <1>6, <1>7, <1>8, <1>9, <1>10 DEF Next

\* The invariant is one.
LEMMA Invariance == Spec => []Inv
BY InitHolds, NextHolds, PTL DEF Spec

\* The journal is a ring of its capacity with increasing ids, and everything that names an
\* attempt names one that was sent (Journal::record, Journal::settle, TaskIndex).
THEOREM Types == Spec => []TypeOK
<1>1. Inv => TypeOK
  <2> SUFFICES ASSUME Inv PROVE TypeOK
    OBVIOUS
  <2>1. /\ session \in [serial : 1..MaxSessions, primary : Contexts]
        /\ peers \subseteq Contexts \ {session.primary} /\ RingOK(journal, next)
        /\ task \in [Attempts -> Statuses] /\ watched \subseteq Watched
        /\ Len(channel) <= CHANNEL /\ attempts \in Seq(Requests)
        /\ Story(journal, attempts, session.serial) /\ Named
    BY DEF Inv, Typed
  <2>2. /\ journal \in Seq(Entries) /\ Len(journal) <= CAPACITY
        /\ \A i \in DOMAIN journal :
             journal[i].id < next /\ \A k \in DOMAIN journal : k < i => journal[k].id < journal[i].id
    BY <2>1 DEF RingOK
  <2>3. \A i \in DOMAIN journal : journal[i].context \in Contexts /\ journal[i].outcome \in Outcomes
    <3>1. \A i \in DOMAIN journal : journal[i] \in Entries
      BY <2>2
    <3> QED
      BY <3>1 DEF Entries
  <2>4. \A i \in DOMAIN journal :
          {journal[i].attempt, journal[i].by, journal[i].task} \subseteq 0..Len(attempts)
    BY <2>1 DEF Story, Told
  <2>5. \A w \in watched : w.attempt \in DOMAIN attempts /\ w.site \in Contexts \cup {None}
    BY <2>1 DEF Named, Watched
  <2>6. task \in [Attempts -> Terminal \cup {"none", "running"}]
    BY <2>1 DEF Statuses
  <2> QED
    BY <2>1, <2>2, <2>3, <2>4, <2>5, <2>6 DEF TypeOK
<1> QED
  BY <1>1, Invariance, PTL

\* Within a session an entry is settled by its own attempt and by no other, however full the
\* ring and whatever was sent beside it ("so one row tells the whole story": journal.rs).
THEOREM OneRowOneStory == Spec => []OwnStory
<1>1. Inv => OwnStory
  BY DEF Inv, Story, Told, OwnStory
<1> QED
  BY <1>1, Invariance, PTL

\* A task whose entry is still on the ring is watched at the context its request went to
\* (App::acted).
THEOREM WatchedWhereItRuns == Spec => []WatchedAtHome
<1>1. Inv => WatchedAtHome
  BY DEF Inv
<1> QED
  BY <1>1, Invariance, PTL
===========================================================================
