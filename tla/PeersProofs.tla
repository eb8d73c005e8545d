---------------------------- MODULE PeersProofs ---------------------------
(***************************************************************************)
(* What Peers guarantees for any number of contexts, sessions, peers and   *)
(* views, and for a poll channel of any length.                            *)
(***************************************************************************)
EXTENDS Peers, SequenceTheorems, TLAPS

---------------------------------------------------------------------------
(* The inductive invariant, in three parts. *)

Screened ==
  /\ screen \in Screens /\ prompt \in Contexts \cup {None}
  /\ screen = "connecting" <=> wire.session # None
  /\ screen = "login" => prompt # None
  /\ screen = "body" => stack # <<>>
  /\ stack # <<>> => Connected

Wired ==
  /\ wire \in [session : Contexts \cup {None}, joins : [Contexts -> 0..1]]
  /\ pending \subseteq Contexts
  /\ OneJoinInFlight

Numbered ==
  /\ schedulers \in 0..MaxSchedulers /\ views \in 0..MaxViews
  /\ live \in [primary : Contexts \cup {None}, scheduler : 0..schedulers,
               generation : 0..schedulers]
  /\ Connected => live.scheduler > 0
  /\ peers \subseteq Peer
  /\ \A p \in peers : live.scheduler < p.scheduler /\ p.scheduler <= schedulers
  /\ \A p, q \in peers : p.name = q.name \/ p.scheduler = q.scheduler => p = q

\* Who is connected, what the screen shows and which connects are in flight.
CoreOK == Screened /\ Wired /\ Numbered

StackedView ==
  [kind : {"top", "page", "child"}, peerSubs : SUBSET [name : Contexts, sub : Sub],
   serial : 1..MaxViews, sub : Sub \cup {NoSub}]

\* A view's own subscription is on its serial, and a top-level table's is the session's; what
\* it is listed with from a peer is on its serial too, and that peer is joined.
ViewOK(v) ==
  /\ v.serial <= views
  /\ v.sub # NoSub => v.sub.view = v.serial
  /\ v.kind = "top" => v.sub = [scheduler |-> live.scheduler, view |-> v.serial]
  /\ \A t \in v.peerSubs :
       t.sub.view = v.serial /\ [name |-> t.name, scheduler |-> t.sub.scheduler] \in peers

\* The views of the stack are well formed, each with a serial of its own.
StackOK ==
  /\ stack \in Seq(StackedView)
  /\ \A i \in DOMAIN stack : ViewOK(stack[i])
  /\ \A i, j \in DOMAIN stack : stack[i].serial = stack[j].serial => i = j

\* What is polled is polled by the session's scheduler or a peer's.
PolledOK == polled \subseteq Sub /\ \A s \in polled : s.scheduler \in Pollers

\* A message of this generation was sent by this session or a peer of it.
MailOK ==
  /\ shown \subseteq Schedulers
  /\ \A m \in mail :
       /\ m \in [by : Schedulers, sub : Sub \cup {NoSub}, generation : Nat]
       /\ m.generation <= live.generation
       /\ m.sub # NoSub => m.by = m.sub.scheduler /\ m.generation = 0
       /\ m.sub = NoSub /\ m.generation = live.generation => m.by >= live.scheduler
  /\ mail # {} => Connected

PeersInv == CoreOK /\ StackOK /\ PolledOK /\ SubsMatchViews

---------------------------------------------------------------------------
(* The connects in flight. *)

\* start_join leaves what the app waits for and what is in flight in step, and no connect of
\* the session's in flight.
LEMMA StartJoinsWired ==
  ASSUME Wired, NEW names \in SUBSET Contexts, NEW primary, NEW ps,
         StartJoins(names, primary, ps)
  PROVE  /\ wire' \in [session : Contexts \cup {None}, joins : [Contexts -> 0..1]]
         /\ wire'.session = None
         /\ joining' = {c \in Contexts : wire'.joins[c] = 1}
<1> DEFINE started == {c \in names : Joinable(c, primary, ps)}
<1>1. /\ joining' = joining \cup started
      /\ wire' = [session |-> None,
                  joins |-> [c \in Contexts |-> wire.joins[c] + IF c \in started THEN 1 ELSE 0]]
  BY DEF StartJoins
<1>2. \A c \in started : c \in Contexts /\ c \notin joining
  BY DEF Joinable
<1> HIDE DEF started
<1>3. \A c \in Contexts : wire.joins[c] \in 0..1 /\ (c \in joining <=> wire.joins[c] = 1)
  BY DEF Wired, OneJoinInFlight
<1>4. \A c \in Contexts : c \in started => wire.joins[c] = 0
  BY <1>2, <1>3
<1>5. \A c \in Contexts : /\ wire'.joins[c] \in 0..1
                          /\ wire'.joins[c] = 1 <=> c \in joining \/ c \in started
  BY <1>1, <1>3, <1>4
<1>6. joining \subseteq Contexts /\ started \subseteq Contexts
  BY <1>2 DEF Wired, OneJoinInFlight
<1> QED
  BY <1>1, <1>5, <1>6

\* The answer to a join takes one from what is in flight and from what is waited for.
LEMMA AnsweredWired ==
  ASSUME Wired, NEW context \in Contexts, Answered(context)
  PROVE  /\ wire' \in [session : Contexts \cup {None}, joins : [Contexts -> 0..1]]
         /\ wire'.session = wire.session
         /\ joining' = {c \in Contexts : wire'.joins[c] = 1}
<1>1. /\ wire' = [wire EXCEPT !.joins[context] = @ - 1]
      /\ joining' = joining \ {context} /\ wire.joins[context] > 0
  BY DEF Answered
<1>2. wire.joins \in [Contexts -> 0..1] /\ wire.session \in Contexts \cup {None}
  BY DEF Wired
<1>3. wire' = [session |-> wire.session,
               joins |-> [c \in Contexts |-> IF c = context THEN wire.joins[c] - 1
                                             ELSE wire.joins[c]]]
  BY <1>1, <1>2 DEF Wired
<1>4. joining = {c \in Contexts : wire.joins[c] = 1}
  BY DEF Wired, OneJoinInFlight
<1>5. \A c \in Contexts : /\ wire'.joins[c] \in 0..1
                          /\ wire'.joins[c] = 1 <=> c \in joining /\ c # context
  <2>1. \A c \in Contexts : wire.joins[c] \in 0..1
    BY <1>2
  <2> QED
    BY <2>1, <1>1, <1>3, <1>4
<1> QED
  BY <1>1, <1>2, <1>3, <1>4, <1>5

\* Every step keeps them so (start_join, switch_to, joined, join_failed).
LEMMA WiredNext == ASSUME CoreOK, [Next]_vars PROVE Wired'
<1> USE DEF CoreOK
<1>1. ASSUME NEW context \in Contexts, Connect(context), UNCHANGED joining, pending' \subseteq Contexts
      PROVE  Wired'
  BY <1>1 DEF Connect, Wired, OneJoinInFlight
<1>2. ASSUME NEW context \in Contexts, ConnectOrAsk(context), UNCHANGED joining, pending' \subseteq Contexts
      PROVE  Wired'
  BY <1>1, <1>2 DEF ConnectOrAsk, Wired, OneJoinInFlight
<1>3. ASSUME NEW names \in SUBSET Contexts, CtxSame(names) PROVE Wired'
  BY <1>3, StartJoinsWired DEF CtxSame, Wired, OneJoinInFlight
<1>4. ASSUME NEW context \in Contexts, NEW names \in SUBSET Contexts, CtxOther(context, names)
      PROVE  Wired'
  BY <1>4, <1>2 DEF CtxOther
<1>5. ASSUME NEW context \in Contexts, Choose(context) PROVE Wired'
  BY <1>5, <1>2 DEF Choose, Wired
<1>6. ASSUME NEW context \in Contexts, Toggle(context) PROVE Wired'
  BY <1>6, StartJoinsWired DEF Toggle, Wired, OneJoinInFlight
<1>7. ASSUME NEW context \in Contexts, Joined(context) PROVE Wired'
  BY <1>7, AnsweredWired DEF Joined, Wired, OneJoinInFlight
<1>8. ASSUME NEW context \in Contexts, JoinFails(context) PROVE Wired'
  BY <1>8, AnsweredWired DEF JoinFails, Wired, OneJoinInFlight
<1>9. CASE Login
  BY <1>9, <1>1 DEF Login, Screened, Wired
<1>10. CASE SwitchTo
  BY <1>10, StartJoinsWired DEF SwitchTo, Wired, OneJoinInFlight
<1>11. CASE ConnectFails
  BY <1>11 DEF ConnectFails, Wired, OneJoinInFlight
<1>12. CASE \/ CloseLogin \/ OpenContexts \/ CloseContexts \/ Pop \/ Report \/ CtxUnknown
            \/ (\E kind : Open(kind)) \/ (\E kind, s : Push(kind, s))
            \/ (\E m : Receive(m)) \/ UNCHANGED vars
  BY <1>12 DEF CloseLogin, OpenContexts, CloseContexts, Pop, Report, CtxUnknown, Open, Push,
               Receive, vars, Wired, OneJoinInFlight
<1> QED
  BY <1>3, <1>4, <1>5, <1>6, <1>7, <1>8, <1>9, <1>10, <1>11, <1>12 DEF Next

---------------------------------------------------------------------------
(* The views, and what is done to them. *)

\* A view forgets what it is listed with from some peers, and nothing else (forget_peer).
LEMMA ForgetView ==
  ASSUME NEW v \in StackedView, NEW names
  PROVE  /\ Forget(v, names) \in StackedView
         /\ Forget(v, names).kind = v.kind /\ Forget(v, names).serial = v.serial
         /\ Forget(v, names).sub = v.sub
         /\ Forget(v, names).peerSubs = {s \in v.peerSubs : s.name \notin names}
BY DEF Forget, StackedView

Forgotten(names) == [i \in DOMAIN stack |-> Forget(stack[i], names)]

\* So does every view of the stack.
LEMMA ForgottenStack ==
  ASSUME stack \in Seq(StackedView), NEW names
  PROVE  /\ Forgotten(names) \in Seq(StackedView)
         /\ Len(Forgotten(names)) = Len(stack) /\ DOMAIN Forgotten(names) = DOMAIN stack
         /\ \A i \in DOMAIN stack : stack[i] \in StackedView
                                    /\ Forgotten(names)[i] = Forget(stack[i], names)
         /\ Forgotten(names) = <<>> <=> stack = <<>>
<1>1. \A i \in DOMAIN stack : stack[i] \in StackedView
  BY ElementOfSeq, LenProperties
<1>2. \A i \in DOMAIN stack : Forget(stack[i], names) \in StackedView
  BY <1>1, ForgetView
<1>3. DOMAIN stack = 1..Len(stack) /\ Len(stack) \in Nat
  BY LenProperties
<1>4. Forgotten(names) \in Seq(StackedView) /\ Len(Forgotten(names)) = Len(stack)
  BY <1>2, <1>3 DEF Forgotten
<1> QED
  BY <1>1, <1>3, <1>4, EmptySeq DEF Forgotten

\* What a top-level table gains from the peers it is not listed with yet.
Gained(v, ps) == {[name |-> p.name, sub |-> [scheduler |-> p.scheduler, view |-> v.serial]] :
                    p \in {q \in ps : ~\E s \in v.peerSubs : s.name = q.name}}

\* subscribe_peers lists a top-level table from each peer it is not listed with, and leaves
\* any other view alone.
LEMMA SubscribedView ==
  ASSUME NEW v \in StackedView, NEW ps \in SUBSET Peer
  PROVE  /\ Subscribed(v, ps) \in StackedView
         /\ Subscribed(v, ps).kind = v.kind /\ Subscribed(v, ps).serial = v.serial
         /\ Subscribed(v, ps).sub = v.sub
         /\ Subscribed(v, ps).peerSubs =
              v.peerSubs \cup (IF v.kind = "top" THEN Gained(v, ps) ELSE {})
<1>1. Gained(v, ps) \subseteq [name : Contexts, sub : Sub]
  BY DEF Gained, Peer, Sub, StackedView
<1>2. CASE v.kind # "top"
  BY <1>2 DEF Subscribed, StackedView
<1>3. CASE v.kind = "top"
  <2>1. Subscribed(v, ps) = [v EXCEPT !.peerSubs = v.peerSubs \cup Gained(v, ps)]
    BY <1>3 DEF Subscribed, Gained
  <2> QED
    BY <1>1, <1>3, <2>1 DEF StackedView
<1> QED
  BY <1>2, <1>3

\* On a stack, it is the top view that is listed.
LEMMA SubscribedTop ==
  ASSUME NEW st \in Seq(StackedView), NEW ps \in SUBSET Peer
  PROVE  /\ SubscribedStack(st, ps) \in Seq(StackedView)
         /\ Len(SubscribedStack(st, ps)) = Len(st)
         /\ DOMAIN SubscribedStack(st, ps) = DOMAIN st
         /\ \A i \in DOMAIN st : /\ st[i] \in StackedView
                                 /\ SubscribedStack(st, ps)[i] =
                                      IF i = Len(st) THEN Subscribed(st[i], ps) ELSE st[i]
<1>1. \A i \in DOMAIN st : st[i] \in StackedView
  BY ElementOfSeq, LenProperties
<1>2. DOMAIN st = 1..Len(st) /\ Len(st) \in Nat
  BY LenProperties
<1>3. CASE st = <<>>
  BY <1>3, <1>1, <1>2 DEF SubscribedStack
<1>4. CASE st # <<>>
  <2>1. Len(st) \in DOMAIN st
    BY <1>2, <1>4, EmptySeq
  <2>2. SubscribedStack(st, ps) = [st EXCEPT ![Len(st)] = Subscribed(st[Len(st)], ps)]
    BY <1>4, <2>1 DEF SubscribedStack
  <2>3. Subscribed(st[Len(st)], ps) \in StackedView
    BY <1>1, <2>1, SubscribedView
  <2> QED
    BY <1>1, <1>2, <2>1, <2>2, <2>3, ExceptSeq
<1> QED
  BY <1>3, <1>4

\* What a top-level table is listed with from the start.
Listed(serial, ps) ==
  {[name |-> p.name, sub |-> [scheduler |-> p.scheduler, view |-> serial]] : p \in ps}

\* A view that opens (open_root, open_page, push_view).
LEMMA NewView ==
  ASSUME views \in Nat, views < MaxViews, NEW kind \in {"top", "page", "child"},
         NEW scheduler \in Schedulers, NEW ps \in SUBSET Peer
  PROVE  LET v == View(kind, scheduler, ps)
         IN  /\ v \in StackedView /\ v.kind = kind /\ v.serial = views + 1
             /\ v.sub = IF kind = "page" THEN NoSub
                        ELSE [scheduler |-> scheduler, view |-> views + 1]
             /\ v.peerSubs = IF kind = "top" THEN Listed(views + 1, ps) ELSE {}
<1> DEFINE bare == [kind |-> kind, peerSubs |-> {}, serial |-> views + 1,
                    sub |-> IF kind = "page" THEN NoSub
                            ELSE [scheduler |-> scheduler, view |-> views + 1]]
<1>1. views + 1 \in 1..MaxViews
  BY PeersAssumption
<1>2. bare.sub \in Sub \cup {NoSub}
  BY <1>1 DEF Sub
<1>3. bare \in StackedView /\ bare.kind = kind /\ bare.serial = views + 1 /\ bare.peerSubs = {}
  BY <1>1, <1>2 DEF StackedView
<1>4. View(kind, scheduler, ps) = Subscribed(bare, ps)
  BY DEF View
<1>5. Gained(bare, ps) = Listed(views + 1, ps)
  BY <1>3 DEF Gained, Listed
<1> HIDE DEF bare
<1>6. /\ Subscribed(bare, ps) \in StackedView
      /\ Subscribed(bare, ps).kind = kind /\ Subscribed(bare, ps).serial = views + 1
      /\ Subscribed(bare, ps).sub = bare.sub
      /\ Subscribed(bare, ps).peerSubs = {} \cup (IF kind = "top" THEN Gained(bare, ps) ELSE {})
  BY <1>3, SubscribedView
<1> QED
  BY <1>4, <1>5, <1>6 DEF bare

---------------------------------------------------------------------------
(* The stack. *)

\* A step that leaves the session, its peers and the views alone keeps the stack as it was.
LEMMA StackKept ==
  ASSUME StackOK, UNCHANGED <<live, peers, stack, views>> PROVE StackOK'
BY DEF StackOK, ViewOK

\* Every view is well formed.
LEMMA StackElements ==
  ASSUME StackOK
  PROVE  /\ DOMAIN stack = 1..Len(stack) /\ Len(stack) \in Nat
         /\ \A i \in DOMAIN stack : stack[i] \in StackedView /\ ViewOK(stack[i])
<1>1. DOMAIN stack = 1..Len(stack) /\ Len(stack) \in Nat
  BY LenProperties DEF StackOK
<1>2. \A i \in 1..Len(stack) : stack[i] \in StackedView
  BY ElementOfSeq DEF StackOK
<1> QED
  BY <1>1, <1>2 DEF StackOK

\* keep_peers: what is forgotten with a peer is what was listed from it.
LEMMA KeepPeersStack ==
  ASSUME CoreOK, StackOK, NEW keep, KeepPeers(keep), UNCHANGED <<live, views>>
  PROVE  StackOK'
<1> DEFINE names == PeerNames(peers) \ keep
<1>1. stack' = Forgotten(names) /\ peers' = {p \in peers : p.name \in keep}
  BY DEF KeepPeers, Forgotten
<1>2. /\ stack' \in Seq(StackedView) /\ DOMAIN stack' = DOMAIN stack
      /\ \A i \in DOMAIN stack : /\ stack[i] \in StackedView
                                 /\ stack'[i] = Forget(stack[i], names)
  BY <1>1, ForgottenStack DEF StackOK
<1> HIDE DEF names
<1>3. \A i \in DOMAIN stack :
        /\ stack'[i].kind = stack[i].kind /\ stack'[i].serial = stack[i].serial
        /\ stack'[i].sub = stack[i].sub
        /\ stack'[i].peerSubs = {s \in stack[i].peerSubs : s.name \notin names}
  BY <1>2, ForgetView
<1>4. ASSUME NEW i \in DOMAIN stack PROVE ViewOK(stack[i])'
  <2>1. ViewOK(stack[i])
    BY DEF StackOK
  <2>2. ASSUME NEW t \in stack'[i].peerSubs
        PROVE  /\ t.sub.view = stack[i].serial
               /\ [name |-> t.name, scheduler |-> t.sub.scheduler] \in peers'
    <3>1. t \in stack[i].peerSubs /\ t.name \notin names
      BY <1>3, <2>2
    <3>2. t.sub.view = stack[i].serial /\ [name |-> t.name, scheduler |-> t.sub.scheduler] \in peers
      BY <2>1, <3>1 DEF ViewOK
    <3>3. t.name \in keep
      BY <3>1, <3>2 DEF names, PeerNames
    <3> QED
      BY <1>1, <3>2, <3>3
  <2> QED
    BY <1>3, <2>1, <2>2 DEF ViewOK
<1>5. \A i, j \in DOMAIN stack : stack'[i].serial = stack'[j].serial => i = j
  BY <1>3 DEF StackOK
<1> QED
  BY <1>2, <1>4, <1>5 DEF StackOK

\* What a stack whose top view is listed from the peers holds, view by view.
LEMMA JoinedViews ==
  ASSUME CoreOK, StackOK, NEW context \in Contexts, Joined(context)
  PROVE  LET top(i) == i = Len(stack) /\ stack[i].kind = "top"
             rest(i) == {s \in stack[i].peerSubs : s.name # context}
         IN  /\ peers' = {p \in peers : p.name # context}
                           \cup {[name |-> context, scheduler |-> schedulers + 1]}
             /\ peers' \subseteq Peer
             /\ stack' \in Seq(StackedView) /\ DOMAIN stack' = DOMAIN stack
             /\ \A i \in DOMAIN stack :
                  /\ stack'[i].kind = stack[i].kind /\ stack'[i].serial = stack[i].serial
                  /\ stack'[i].sub = stack[i].sub
                  /\ stack'[i].peerSubs =
                       rest(i) \cup
                         (IF top(i)
                          THEN {[name |-> p.name,
                                 sub |-> [scheduler |-> p.scheduler, view |-> stack[i].serial]] :
                                  p \in {q \in peers' : ~\E s \in rest(i) : s.name = q.name}}
                          ELSE {})
<1> DEFINE forgotten == Forgotten({context})
<1>1. /\ peers' = {p \in peers : p.name # context}
                    \cup {[name |-> context, scheduler |-> schedulers + 1]}
      /\ stack' = SubscribedStack(forgotten, peers')
      /\ schedulers < MaxSchedulers
  BY DEF Joined, Forgotten
<1>2. peers' \subseteq Peer
  BY <1>1, PeersAssumption DEF Peer, Schedulers, CoreOK, Numbered
<1>3. /\ forgotten \in Seq(StackedView) /\ DOMAIN forgotten = DOMAIN stack
      /\ Len(forgotten) = Len(stack)
      /\ \A i \in DOMAIN stack : /\ stack[i] \in StackedView
                                 /\ forgotten[i] = Forget(stack[i], {context})
  BY ForgottenStack DEF StackOK
<1> HIDE DEF forgotten
<1>4. /\ stack' \in Seq(StackedView) /\ DOMAIN stack' = DOMAIN stack
      /\ \A i \in DOMAIN stack :
           /\ forgotten[i] \in StackedView
           /\ stack'[i] = IF i = Len(stack) THEN Subscribed(forgotten[i], peers')
                          ELSE forgotten[i]
  BY <1>1, <1>2, <1>3, SubscribedTop
<1>5. ASSUME NEW i \in DOMAIN stack
      PROVE  /\ forgotten[i].kind = stack[i].kind /\ forgotten[i].serial = stack[i].serial
             /\ forgotten[i].sub = stack[i].sub
             /\ forgotten[i].peerSubs = {s \in stack[i].peerSubs : s.name # context}
  BY <1>3, ForgetView
<1>6. ASSUME NEW i \in DOMAIN stack, i # Len(stack) PROVE stack'[i] = forgotten[i]
  BY <1>4, <1>6
<1>7. ASSUME NEW i \in DOMAIN stack, i = Len(stack)
      PROVE  /\ stack'[i].kind = forgotten[i].kind /\ stack'[i].serial = forgotten[i].serial
             /\ stack'[i].sub = forgotten[i].sub
             /\ stack'[i].peerSubs = forgotten[i].peerSubs \cup
                  (IF forgotten[i].kind = "top" THEN Gained(forgotten[i], peers') ELSE {})
  BY <1>2, <1>4, <1>7, SubscribedView
<1> QED
  BY <1>1, <1>2, <1>4, <1>5, <1>6, <1>7 DEF Gained

\* App::joined keeps the stack well formed.
LEMMA JoinedStack ==
  ASSUME CoreOK, StackOK, NEW context \in Contexts, Joined(context)
  PROVE  StackOK'
<1>1. UNCHANGED <<live, views>>
  BY DEF Joined
<1>2. ASSUME NEW i \in DOMAIN stack PROVE ViewOK(stack[i])'
  <2> DEFINE old == {s \in stack[i].peerSubs : s.name # context}
             new == {[name |-> p.name,
                      sub |-> [scheduler |-> p.scheduler, view |-> stack[i].serial]] : p \in peers'}
  <2>1. /\ stack'[i].kind = stack[i].kind /\ stack'[i].serial = stack[i].serial
        /\ stack'[i].sub = stack[i].sub
        /\ stack'[i].peerSubs \subseteq old \cup new
    BY JoinedViews
  <2>2. ViewOK(stack[i])
    BY DEF StackOK
  <2>3. ASSUME NEW t \in old
        PROVE  /\ t.sub.view = stack[i].serial
               /\ [name |-> t.name, scheduler |-> t.sub.scheduler] \in peers'
    <3>1. /\ t.sub.view = stack[i].serial /\ t.name # context
          /\ [name |-> t.name, scheduler |-> t.sub.scheduler] \in peers
      BY <2>2 DEF ViewOK
    <3>2. {p \in peers : p.name # context} \subseteq peers'
      BY JoinedViews
    <3> QED
      BY <3>1, <3>2
  <2>4. ASSUME NEW t \in new
        PROVE  /\ t.sub.view = stack[i].serial
               /\ [name |-> t.name, scheduler |-> t.sub.scheduler] \in peers'
    <3>1. PICK p \in peers' :
            t = [name |-> p.name, sub |-> [scheduler |-> p.scheduler, view |-> stack[i].serial]]
      OBVIOUS
    <3>2. p = [name |-> p.name, scheduler |-> p.scheduler]
      BY JoinedViews DEF Peer
    <3> QED
      BY <3>1, <3>2
  <2> HIDE DEF old, new
  <2> QED
    BY <1>1, <2>1, <2>2, <2>3, <2>4 DEF ViewOK
<1>3. /\ stack' \in Seq(StackedView) /\ DOMAIN stack' = DOMAIN stack
      /\ \A i \in DOMAIN stack : stack'[i].serial = stack[i].serial
  BY JoinedViews
<1>4. \A i, j \in DOMAIN stack : stack'[i].serial = stack'[j].serial => i = j
  BY <1>3 DEF StackOK
<1> QED
  BY <1>2, <1>3, <1>4 DEF StackOK

\* A view that opens in this session is well formed (open_root, open_page, push_view).
LEMMA OpenedView ==
  ASSUME CoreOK, Connected, views < MaxViews, NEW kind \in {"top", "page", "child"},
         NEW scheduler \in Schedulers, kind = "top" => scheduler = live.scheduler,
         UNCHANGED <<live, peers>>, views' = views + 1
  PROVE  LET v == View(kind, scheduler, peers)
         IN  /\ v \in StackedView /\ v.serial = views + 1
             /\ v.serial <= views'
             /\ v.sub # NoSub => v.sub.view = v.serial
             /\ v.kind = "top" => v.sub = [scheduler |-> live'.scheduler, view |-> v.serial]
             /\ \A t \in v.peerSubs :
                  t.sub.view = v.serial /\ [name |-> t.name, scheduler |-> t.sub.scheduler] \in peers'
<1> DEFINE v == View(kind, scheduler, peers)
<1>1. /\ v \in StackedView /\ v.kind = kind /\ v.serial = views + 1
      /\ v.sub = IF kind = "page" THEN NoSub ELSE [scheduler |-> scheduler, view |-> views + 1]
      /\ v.peerSubs = IF kind = "top" THEN Listed(views + 1, peers) ELSE {}
  <2>1. views \in Nat /\ peers \in SUBSET Peer
    BY DEF CoreOK, Numbered
  <2> QED
    BY <2>1, NewView
<1> HIDE DEF v
<1>2. \A t \in v.peerSubs : /\ t.sub.view = v.serial
                            /\ [name |-> t.name, scheduler |-> t.sub.scheduler] \in peers
  <2> SUFFICES ASSUME NEW t \in v.peerSubs
               PROVE  /\ t.sub.view = v.serial
                      /\ [name |-> t.name, scheduler |-> t.sub.scheduler] \in peers
    OBVIOUS
  <2>1. PICK p \in peers :
          t = [name |-> p.name, sub |-> [scheduler |-> p.scheduler, view |-> views + 1]]
    BY <1>1 DEF Listed
  <2>2. p = [name |-> p.name, scheduler |-> p.scheduler]
    BY DEF CoreOK, Numbered, Peer
  <2> QED
    BY <1>1, <2>1, <2>2
<1>3. v.sub # NoSub => v.sub.view = v.serial
  BY <1>1
<1>4. v.kind = "top" => v.sub = [scheduler |-> live'.scheduler, view |-> v.serial]
  BY <1>1
<1>5. v.serial <= views'
  BY <1>1 DEF CoreOK, Numbered
<1> QED
  BY <1>1, <1>2, <1>3, <1>4, <1>5 DEF v

\* Opening a view over nothing, or over the views that are there.
LEMMA OpenStack == ASSUME CoreOK, NEW kind \in {"top", "page"}, Open(kind) PROVE StackOK'
<1>1. Connected /\ live.scheduler \in Schedulers
  BY PeersAssumption DEF Open, CoreOK, Screened, Numbered, Connected, Schedulers
<1> PICK v : v = View(kind, live.scheduler, peers)
  OBVIOUS
<1>2. stack' = <<v>> /\ views' = views + 1 /\ UNCHANGED <<live, peers>>
  BY DEF Open
<1>3. v \in StackedView /\ ViewOK(v)'
  <2>1. views < MaxViews
    BY DEF Open
  <2> QED
    BY <1>1, <1>2, <2>1, OpenedView DEF ViewOK
<1>4. stack' \in Seq(StackedView) /\ DOMAIN stack' = {1} /\ stack'[1] = v
  BY <1>2, <1>3
<1> QED
  BY <1>3, <1>4 DEF StackOK, ViewOK

\* Drilling down.
LEMMA PushStack ==
  ASSUME CoreOK, StackOK, NEW kind \in {"top", "child"}, NEW scheduler \in Schedulers,
         Push(kind, scheduler)
  PROVE  StackOK'
<1>1. Connected /\ views < MaxViews /\ (kind = "top" => scheduler = live.scheduler)
  BY DEF Push, CoreOK, Screened
<1> PICK v : v = View(kind, scheduler, peers)
  OBVIOUS
<1>2. stack' = Append(stack, v) /\ views' = views + 1 /\ UNCHANGED <<live, peers>>
  BY DEF Push
<1>3. v \in StackedView /\ ViewOK(v)' /\ v.serial = views + 1
  BY <1>1, <1>2, OpenedView DEF ViewOK
<1>4. /\ stack' \in Seq(StackedView) /\ DOMAIN stack' = 1..(Len(stack) + 1)
      /\ stack'[Len(stack) + 1] = v
      /\ \A i \in DOMAIN stack : stack'[i] = stack[i]
  BY <1>2, <1>3, StackElements DEF StackOK
<1>5. \A i \in DOMAIN stack : ViewOK(stack[i]) /\ stack[i].serial < v.serial
  <2>1. \A i \in DOMAIN stack : ViewOK(stack[i]) /\ stack[i].serial \in Nat
    BY StackElements DEF StackedView
  <2> QED
    BY <1>3, <2>1 DEF ViewOK, CoreOK, Numbered
<1>6. \A i \in DOMAIN stack : ViewOK(stack[i])'
  <2> SUFFICES ASSUME NEW i \in DOMAIN stack PROVE ViewOK(stack[i])'
    OBVIOUS
  <2>1. stack[i].serial \in Nat /\ views \in Nat
    BY StackElements DEF StackedView, CoreOK, Numbered
  <2> QED
    BY <1>2, <1>4, <1>5, <2>1 DEF ViewOK
<1>7. DOMAIN stack = 1..Len(stack) /\ Len(stack) \in Nat
  BY StackElements
<1>8. \A i \in DOMAIN stack' : i \in DOMAIN stack \/ i = Len(stack) + 1
  BY <1>4, <1>7
<1>9. \A i \in DOMAIN stack' : ViewOK(stack[i])'
  BY <1>3, <1>4, <1>6, <1>8 DEF ViewOK
<1>10. \A i, j \in DOMAIN stack' : stack'[i].serial = stack'[j].serial => i = j
  <2>1. \A i \in DOMAIN stack : stack'[i].serial = stack[i].serial /\ stack'[i].serial # v.serial
    <3>1. \A i \in DOMAIN stack : stack[i].serial \in Nat
      BY StackElements DEF StackedView
    <3>2. v.serial \in Nat
      BY <1>3 DEF StackedView
    <3> QED
      BY <1>4, <1>5, <3>1, <3>2
  <2> QED
    BY <1>4, <1>8, <2>1 DEF StackOK
<1> QED
  BY <1>4, <1>9, <1>10 DEF StackOK

\* Going back.
LEMMA PopStack ==
  ASSUME StackOK, Pop
  PROVE  /\ StackOK' /\ stack' # <<>>
         /\ DOMAIN stack' = DOMAIN stack \ {Len(stack)}
         /\ \A i \in DOMAIN stack' : stack'[i] = stack[i]
<1>1. /\ DOMAIN stack = 1..Len(stack) /\ Len(stack) \in Nat /\ Len(stack) > 1
      /\ stack' = SubSeq(stack, 1, Len(stack) - 1) /\ UNCHANGED <<live, peers, views>>
  BY StackElements DEF Pop
<1>2. /\ stack' \in Seq(StackedView) /\ DOMAIN stack' = 1..(Len(stack) - 1)
      /\ \A i \in 1..(Len(stack) - 1) : stack'[i] = stack[i]
  BY <1>1 DEF StackOK
<1>3. DOMAIN stack' = DOMAIN stack \ {Len(stack)} /\ 1 \in DOMAIN stack'
  BY <1>1, <1>2
<1>4. stack' # <<>>
  <2>1. Len(stack') = Len(stack) - 1
    BY <1>1 DEF StackOK
  <2>2. stack' = <<>> => Len(stack') = 0
    OBVIOUS
  <2> QED
    BY <1>1, <2>1, <2>2
<1>5. \A i \in DOMAIN stack' : i \in DOMAIN stack /\ stack'[i] = stack[i]
  BY <1>2, <1>3
<1>6. \A i \in DOMAIN stack' : ViewOK(stack[i])'
  BY <1>1, <1>5 DEF StackOK, ViewOK
<1> QED
  BY <1>2, <1>3, <1>4, <1>5, <1>6 DEF StackOK

\* A session of its own: one view, or none.
LEMMA SwitchStack == ASSUME CoreOK, SwitchTo PROVE StackOK'
<1>1. /\ live' = Attached(wire.session) /\ peers' = {} /\ views' = views + Len(stack')
      /\ schedulers + 1 \in Schedulers /\ views < MaxViews /\ views \in Nat
      /\ wire.session \in Contexts
  BY PeersAssumption DEF SwitchTo, CoreOK, Numbered, Wired, Schedulers
<1>n. PICK n \in Schedulers : n = schedulers + 1
  BY <1>1
<1>2. ASSUME NEW kind \in {"top", "page", "child"}, NEW opened, opened = View(kind, n, {}), stack' = <<opened>>
      PROVE  StackOK'
  <2>1. /\ opened \in StackedView /\ opened.kind = kind /\ opened.serial = views + 1
        /\ opened.sub = IF kind = "page" THEN NoSub ELSE [scheduler |-> n, view |-> views + 1]
        /\ opened.peerSubs = IF kind = "top" THEN Listed(views + 1, {}) ELSE {}
    <3>0. PICK none \in SUBSET Peer : none = {}
      OBVIOUS
    <3> DEFINE w == View(kind, n, none)
    <3>1. /\ w \in StackedView /\ w.kind = kind /\ w.serial = views + 1
          /\ w.sub = IF kind = "page" THEN NoSub ELSE [scheduler |-> n, view |-> views + 1]
          /\ w.peerSubs = IF kind = "top" THEN Listed(views + 1, none) ELSE {}
      <4>1. views \in Nat /\ views < MaxViews
        BY <1>1
      <4> QED
        BY <4>1, NewView
    <3>2. opened = w
      BY <1>2, <3>0
    <3> QED
      BY <3>0, <3>1, <3>2
  <2>2. opened.peerSubs = {}
    BY <2>1 DEF Listed
  <2>3. live'.scheduler = n /\ views' = views + 1
    BY <1>1, <1>2, <1>n DEF Attached
  <2>4. ViewOK(opened)'
    BY <1>1, <2>1, <2>2, <2>3 DEF ViewOK
  <2>5. stack' \in Seq(StackedView) /\ DOMAIN stack' = {1} /\ stack'[1] = opened
    BY <1>2, <2>1
  <2> QED
    BY <2>4, <2>5 DEF StackOK, ViewOK
<1>3. CASE stack' = <<>>
  BY <1>3, EmptySeq DEF StackOK
<1> QED
  BY <1>2, <1>3, <1>n DEF SwitchTo

\* Every step keeps the stack well formed.
LEMMA StackNext == ASSUME CoreOK, StackOK, [Next]_vars PROVE StackOK'
<1>1. ASSUME NEW names \in SUBSET Contexts, CtxSame(names) PROVE StackOK'
  BY <1>1, KeepPeersStack DEF CtxSame
<1>2. ASSUME NEW context \in Contexts, Toggle(context) PROVE StackOK'
  BY <1>2, KeepPeersStack, StackKept DEF Toggle
<1>3. ASSUME NEW context \in Contexts, JoinFails(context) \/ Choose(context) PROVE StackOK'
  BY <1>3, StackKept DEF JoinFails, Choose
<1>4. CASE \/ (\E names, c : CtxOther(c, names)) \/ CtxUnknown \/ Login \/ CloseLogin
           \/ OpenContexts \/ CloseContexts \/ ConnectFails \/ Report \/ (\E m : Receive(m))
           \/ UNCHANGED vars
  BY <1>4, StackKept DEF CtxOther, CtxUnknown, Login, CloseLogin, OpenContexts, CloseContexts,
                         ConnectFails, Report, Receive, vars
<1> QED
  BY <1>1, <1>2, <1>3, <1>4, JoinedStack, SwitchStack, OpenStack, PushStack, PopStack DEF Next

---------------------------------------------------------------------------
(* The numbers and the screen. *)

\* A session is built with a scheduler of its own (App::attach), and its views are counted.
LEMMA SwitchNumbered == ASSUME CoreOK, SwitchTo PROVE Numbered'
<1>1. /\ live' = [primary |-> wire.session, scheduler |-> schedulers + 1,
                  generation |-> live.generation + 1]
      /\ schedulers' = schedulers + 1 /\ schedulers < MaxSchedulers
      /\ peers' = {} /\ views' = views + Len(stack') /\ views < MaxViews
      /\ wire.session \in Contexts
  BY DEF SwitchTo, Attached, CoreOK, Wired
<1>2. Len(stack') \in 0..1
  <2>1. stack' = <<>> => Len(stack') = 0
    OBVIOUS
  <2>2. \A v : stack' = <<v>> => Len(stack') = 1
    OBVIOUS
  <2> QED
    BY <2>1, <2>2 DEF SwitchTo
<1>3. /\ schedulers \in 0..MaxSchedulers /\ views \in 0..MaxViews
      /\ live.generation \in 0..schedulers
  BY DEF CoreOK, Numbered
<1>4. MaxSchedulers \in Nat /\ MaxViews \in Nat
  BY PeersAssumption
<1>5. schedulers' \in 0..MaxSchedulers /\ views' \in 0..MaxViews
  <2>1. schedulers' \in 0..MaxSchedulers
    BY <1>1, <1>3, <1>4
  <2>2. PICK n \in 0..1 : views' = views + n
    BY <1>1, <1>2
  <2>3. views' \in 0..MaxViews
    BY <1>1, <1>3, <1>4, <2>2
  <2> QED
    BY <2>1, <2>3
<1>6. live'.scheduler \in 1..schedulers' /\ live'.generation \in 0..schedulers'
  BY <1>1, <1>3, <1>4
<1> QED
  BY <1>1, <1>5, <1>6 DEF Numbered, Connected

\* A peer that joins has a scheduler newer than every other, and its name alone.
LEMMA JoinedNumbered ==
  ASSUME CoreOK, NEW context \in Contexts, Joined(context) PROVE Numbered'
<1>1. /\ peers' = {p \in peers : p.name # context}
                    \cup {[name |-> context, scheduler |-> schedulers + 1]}
      /\ schedulers' = schedulers + 1 /\ schedulers < MaxSchedulers
      /\ UNCHANGED <<live, views>>
  BY DEF Joined
<1>2. /\ schedulers \in 0..MaxSchedulers /\ views \in 0..MaxViews /\ peers \subseteq Peer
      /\ live \in [primary : Contexts \cup {None}, scheduler : 0..schedulers,
                   generation : 0..schedulers]
      /\ Connected => live.scheduler > 0
      /\ \A p \in peers : live.scheduler < p.scheduler /\ p.scheduler <= schedulers
      /\ \A p, q \in peers : p.name = q.name \/ p.scheduler = q.scheduler => p = q
  BY DEF CoreOK, Numbered
<1>3. MaxSchedulers \in Nat
  BY PeersAssumption
<1> DEFINE new == [name |-> context, scheduler |-> schedulers + 1]
<1>4. /\ new \in Peer /\ new.name = context /\ live.scheduler < new.scheduler
      /\ new.scheduler <= schedulers' /\ \A p \in peers : p.scheduler # new.scheduler
  BY <1>1, <1>2, <1>3 DEF Peer, Schedulers
<1>5. \A p \in peers' : p = new \/ (p \in peers /\ p.name # context)
  BY <1>1
<1>6. \A p \in peers : p.scheduler <= schedulers'
  BY <1>1, <1>2 DEF Peer, Schedulers
<1> HIDE DEF new
<1>7. /\ peers' \subseteq Peer
      /\ \A p \in peers' : live'.scheduler < p.scheduler /\ p.scheduler <= schedulers'
      /\ \A p, q \in peers' : p.name = q.name \/ p.scheduler = q.scheduler => p = q
  BY <1>1, <1>2, <1>4, <1>5, <1>6
<1>8. schedulers' \in 0..MaxSchedulers /\ 0..schedulers \subseteq 0..schedulers'
  BY <1>1, <1>2, <1>3
<1>9. live' \in [primary : Contexts \cup {None}, scheduler : 0..schedulers',
                 generation : 0..schedulers']
  BY <1>1, <1>2, <1>8
<1> QED
  BY <1>1, <1>2, <1>7, <1>8, <1>9 DEF Numbered, Connected

\* Every step keeps the numbers (NEXT_EPOCH, NEXT_SUB, Live.generation).
LEMMA NumberedNext == ASSUME CoreOK, [Next]_vars PROVE Numbered'
<1> USE DEF CoreOK
<1>1. ASSUME NEW keep, KeepPeers(keep), UNCHANGED <<live, schedulers, views>> PROVE Numbered'
  BY <1>1 DEF KeepPeers, Numbered, Connected
<1>2. ASSUME NEW names, CtxSame(names) PROVE Numbered'
  BY <1>1, <1>2 DEF CtxSame
<1>3. ASSUME NEW context, Toggle(context) PROVE Numbered'
  BY <1>1, <1>3 DEF Toggle, Numbered, Connected
<1>4. ASSUME NEW kind, NEW scheduler, Open(kind) \/ Push(kind, scheduler) PROVE Numbered'
  <2>1. views' \in 0..MaxViews /\ UNCHANGED <<live, peers, schedulers>>
    BY <1>4, PeersAssumption DEF Open, Push, Numbered
  <2> QED
    BY <2>1 DEF Numbered, Connected
<1>5. CASE \/ (\E names, c : CtxOther(c, names)) \/ CtxUnknown \/ Login \/ CloseLogin
           \/ OpenContexts \/ CloseContexts \/ ConnectFails \/ Pop \/ Report
           \/ (\E c : JoinFails(c) \/ Choose(c)) \/ (\E m : Receive(m)) \/ UNCHANGED vars
  BY <1>5 DEF CtxOther, CtxUnknown, Login, CloseLogin, OpenContexts, CloseContexts,
              ConnectFails, Pop, Report, JoinFails, Choose, Receive, vars, Numbered, Connected
<1> QED
  BY <1>2, <1>3, <1>4, <1>5, JoinedNumbered, SwitchNumbered DEF Next

\* Every step keeps the screen in step with the connect, the prompt and the stack.
LEMMA ScreenedNext == ASSUME CoreOK, StackOK, [Next]_vars PROVE Screened'
<1> USE DEF CoreOK
<1>1. ASSUME NEW context \in Contexts, ConnectOrAsk(context), screen \in {"body", "contexts"},
             UNCHANGED <<live, stack>>
      PROVE  Screened'
  BY <1>1, PeersAssumption DEF ConnectOrAsk, Connect, Screened, Wired, Screens, Connected
<1>2. ASSUME NEW names \in SUBSET Contexts, NEW ps, StartJoins(names, live.primary, ps)
      PROVE  wire'.session = None
  BY <1>2, StartJoinsWired
<1>3. ASSUME NEW keep, KeepPeers(keep) PROVE stack' = <<>> <=> stack = <<>>
  BY <1>3, ForgottenStack DEF KeepPeers, Forgotten, StackOK
<1>4. ASSUME NEW names \in SUBSET Contexts, CtxSame(names) PROVE Screened'
  BY <1>2, <1>3, <1>4 DEF CtxSame, Commanding, Screened, Connected
<1>5. ASSUME NEW context \in Contexts, Toggle(context) PROVE Screened'
  BY <1>2, <1>3, <1>5 DEF Toggle, Screened, Connected
<1>6. ASSUME NEW context \in Contexts, Joined(context) PROVE Screened'
  <2>1. stack' = <<>> <=> stack = <<>>
    <3>1. stack' \in Seq(StackedView) /\ DOMAIN stack' = DOMAIN stack
      BY <1>6, JoinedViews
    <3>2. stack' = <<>> <=> DOMAIN stack' = {}
      BY <3>1
    <3>3. stack = <<>> <=> DOMAIN stack = {}
      BY DEF StackOK
    <3> QED
      BY <3>1, <3>2, <3>3
  <2>2. wire'.session = wire.session
    BY <1>6, AnsweredWired DEF Joined
  <2> QED
    BY <1>6, <2>1, <2>2 DEF Joined, Screened, Connected
<1>7. ASSUME NEW context \in Contexts, JoinFails(context) PROVE Screened'
  BY <1>7, AnsweredWired DEF JoinFails, Screened, Connected
<1>8. CASE SwitchTo
  <2>1. wire'.session = None
    BY <1>8, StartJoinsWired DEF SwitchTo, Wired
  <2>2. Connected'
    BY <1>8 DEF SwitchTo, Attached, Connected, Numbered
  <2> QED
    BY <1>8, <2>1, <2>2 DEF SwitchTo, Screened, Screens
<1>9. CASE Pop
  BY <1>9, PopStack DEF Pop, Screened, Connected
<1>10. ASSUME NEW kind, Open(kind) PROVE Screened'
  BY <1>10 DEF Open, Screened, Connected
<1>11. ASSUME NEW kind \in {"top", "child"}, NEW scheduler \in Schedulers, Push(kind, scheduler)
       PROVE  Screened'
  <2>1. stack' # <<>>
    BY <1>11 DEF Push, StackOK
  <2> QED
    BY <1>11, <2>1 DEF Push, Screened, Connected
<1>12. CASE Login
  BY <1>12 DEF Login, Connect, Screened, Wired, Screens, Connected
<1>13. CASE ConnectFails
  BY <1>13 DEF ConnectFails, Screened, Wired, Screens, Connected
<1>14. CASE \/ CtxUnknown \/ CloseLogin \/ OpenContexts \/ CloseContexts \/ Report
            \/ (\E m : Receive(m)) \/ UNCHANGED vars
  BY <1>14 DEF CtxUnknown, CloseLogin, OpenContexts, CloseContexts, Report, Receive, vars,
               Screened, Screens, Connected, Commanding
<1>15. ASSUME NEW context \in Contexts, NEW names, CtxOther(context, names) PROVE Screened'
  BY <1>1, <1>15 DEF CtxOther, Commanding
<1>16. ASSUME NEW context \in Contexts, Choose(context) PROVE Screened'
  BY <1>1, <1>16 DEF Choose
<1> QED
  BY <1>4, <1>5, <1>6, <1>7, <1>8, <1>9, <1>10, <1>11, <1>12, <1>13, <1>14, <1>15, <1>16 DEF Next

---------------------------------------------------------------------------
(* What is polled. *)

\* A subscription of a view is on the view's serial.
LEMMA SubOfView ==
  ASSUME StackOK, NEW i \in DOMAIN stack, NEW s \in ViewSubs(stack[i]), s # NoSub
  PROVE  s.view = stack[i].serial
<1>1. ViewOK(stack[i])
  BY DEF StackOK
<1>2. s = stack[i].sub \/ \E t \in stack[i].peerSubs : s = t.sub
  BY DEF ViewSubs, PeerSubs
<1>3. stack[i].sub # NoSub => stack[i].sub.view = stack[i].serial
  BY <1>1 DEF ViewOK
<1>4. \A t \in stack[i].peerSubs : t.sub.view = stack[i].serial
  BY <1>1 DEF ViewOK
<1> QED
  BY <1>2, <1>3, <1>4

\* What a view is listed with from a peer is that peer's, by name and by scheduler.
LEMMA SubOfPeer ==
  ASSUME CoreOK, StackOK, NEW i \in DOMAIN stack, NEW t \in stack[i].peerSubs
  PROVE  /\ [name |-> t.name, scheduler |-> t.sub.scheduler] \in peers
         /\ t.name \in PeerNames(peers) /\ t.sub.scheduler \in Holders(peers)
         /\ t.sub \in Sub /\ t.sub # NoSub
         /\ t.sub.scheduler > live.scheduler
         /\ \A p \in peers : p.name = t.name <=> p.scheduler = t.sub.scheduler
<1>1. ViewOK(stack[i]) /\ stack[i] \in StackedView
  BY StackElements
<1>2. [name |-> t.name, scheduler |-> t.sub.scheduler] \in peers
  BY <1>1 DEF ViewOK
<1>3. t.name \in PeerNames(peers) /\ t.sub.scheduler \in Holders(peers)
  BY <1>2 DEF PeerNames, Holders
<1>4. t.sub \in Sub
  BY <1>1 DEF StackedView
<1>5. t.sub.scheduler > live.scheduler
  BY <1>2 DEF CoreOK, Numbered, Peer, Schedulers
<1>6. t.sub.scheduler # 0
  BY <1>4, PeersAssumption DEF Sub, Schedulers
<1>7. t.sub # NoSub
  BY <1>6 DEF NoSub
<1>8. \A p \in peers : p.name = t.name <=> p.scheduler = t.sub.scheduler
  BY <1>2 DEF CoreOK, Numbered
<1> QED
  BY <1>2, <1>3, <1>4, <1>5, <1>7, <1>8

\* A view that goes releases every subscription it has: no peer it is listed from is gone.
LEMMA ReleasesAll ==
  ASSUME CoreOK, StackOK, NEW i \in DOMAIN stack
  PROVE  Releases(stack[i]) = ViewSubs(stack[i])
<1>1. \A t \in stack[i].peerSubs : t.name \in PeerNames(peers)
  BY SubOfPeer
<1> QED
  BY <1>1 DEF Releases, ViewSubs, PeerSubs

\* keep_peers: the lists of a peer end with it, in the schedulers and in the views.
LEMMA KeepPeersPolled ==
  ASSUME PeersInv, NEW keep, KeepPeers(keep), UNCHANGED live
  PROVE  PolledOK' /\ SubsMatchViews'
<1> USE DEF PeersInv
<1> DEFINE names == PeerNames(peers) \ keep
<1>1. /\ stack' = Forgotten(names) /\ peers' = {p \in peers : p.name \in keep}
      /\ polled' = {s \in polled : s.scheduler \in {live.scheduler} \cup Holders(peers')}
  BY DEF KeepPeers, Forgotten
<1>2. PolledOK'
  BY <1>1 DEF PolledOK, Pollers
<1>3. /\ DOMAIN stack' = DOMAIN stack
      /\ \A i \in DOMAIN stack : /\ stack[i] \in StackedView
                                 /\ stack'[i] = Forget(stack[i], names)
  BY <1>1, ForgottenStack DEF StackOK
<1> HIDE DEF names
<1>4. \A i \in DOMAIN stack :
        /\ stack'[i].sub = stack[i].sub
        /\ stack'[i].peerSubs = {t \in stack[i].peerSubs : t.name \notin names}
  BY <1>3, ForgetView
<1>5. ASSUME NEW i \in DOMAIN stack, NEW t \in stack[i].peerSubs
      PROVE  /\ t.sub \in polled
             /\ t.name \notin names <=> t.sub.scheduler \in {live.scheduler} \cup Holders(peers')
  <2>1. t.sub \in polled
    BY DEF SubsMatchViews, PeerSubsArePolled, PeerSubs
  <2>2. /\ [name |-> t.name, scheduler |-> t.sub.scheduler] \in peers
        /\ t.name \in PeerNames(peers) /\ t.sub.scheduler # live.scheduler
        /\ \A p \in peers : p.name = t.name <=> p.scheduler = t.sub.scheduler
    <3>1. t.sub.scheduler > live.scheduler /\ t.sub.scheduler \in Nat /\ live.scheduler \in Nat
      <4>1. t.sub.scheduler > live.scheduler /\ t.sub \in Sub
        BY SubOfPeer
      <4>2. t.sub.scheduler \in Nat
        BY <4>1 DEF Sub, Schedulers
      <4>3. live.scheduler \in Nat
        BY DEF CoreOK, Numbered
      <4> QED
        BY <4>1, <4>2, <4>3
    <3>2. t.sub.scheduler # live.scheduler
      BY <3>1
    <3> QED
      BY <3>2, SubOfPeer
  <2>3. t.name \notin names <=> t.name \in keep
    BY <2>2 DEF names
  <2>4. t.sub.scheduler \in Holders(peers') <=> t.name \in keep
    BY <1>1, <2>2 DEF Holders
  <2> QED
    BY <2>1, <2>2, <2>3, <2>4
<1>6. PolledForAView'
  <2> SUFFICES ASSUME NEW s \in polled' PROVE \E i \in DOMAIN stack' : s \in ViewSubs(stack'[i])
    BY DEF PolledForAView, StackSubs
  <2>1. s \in polled /\ s.scheduler \in {live.scheduler} \cup Holders(peers')
    BY <1>1
  <2>2. PICK i \in DOMAIN stack : s \in ViewSubs(stack[i])
    BY <2>1 DEF SubsMatchViews, PolledForAView, StackSubs
  <2>3. s = stack[i].sub \/ \E t \in stack[i].peerSubs : t.sub = s
    BY <2>2 DEF ViewSubs, PeerSubs
  <2>4. s \in ViewSubs(stack'[i])
    BY <1>4, <1>5, <2>1, <2>3 DEF ViewSubs, PeerSubs
  <2> QED
    BY <1>3, <2>4
<1>7. PeerSubsArePolled'
  BY <1>1, <1>3, <1>4, <1>5 DEF PeerSubsArePolled, PeerSubs
<1> QED
  BY <1>2, <1>6, <1>7 DEF SubsMatchViews

\* Drilling down polls the new view's subscriptions.
LEMMA PushPolled ==
  ASSUME PeersInv, NEW kind \in {"top", "child"}, NEW scheduler \in Schedulers,
         Push(kind, scheduler)
  PROVE  PolledOK' /\ SubsMatchViews'
<1> USE DEF PeersInv
<1>1. PICK v : v = View(kind, scheduler, peers)
  OBVIOUS
<1>2. /\ stack' = Append(stack, v) /\ polled' = polled \cup ViewSubs(v)
      /\ views < MaxViews /\ scheduler \in Pollers /\ UNCHANGED <<live, peers>>
  BY <1>1 DEF Push, Pollers
<1>3. /\ v \in StackedView /\ v.sub = [scheduler |-> scheduler, view |-> views + 1]
      /\ v.peerSubs = IF kind = "top" THEN Listed(views + 1, peers) ELSE {}
  <2>0. PICK k \in {"top", "page", "child"} : k = kind
    OBVIOUS
  <2> DEFINE w == View(k, scheduler, peers)
  <2>1. views \in Nat /\ peers \in SUBSET Peer /\ views < MaxViews
    BY <1>2 DEF CoreOK, Numbered
  <2>2. /\ w \in StackedView /\ w.kind = k
        /\ w.sub = IF k = "page" THEN NoSub ELSE [scheduler |-> scheduler, view |-> views + 1]
        /\ w.peerSubs = IF k = "top" THEN Listed(views + 1, peers) ELSE {}
    BY <2>1, NewView
  <2>3. v = w /\ k # "page" /\ k = kind
    BY <1>1, <2>0
  <2> QED
    BY <2>2, <2>3
<1>4. /\ DOMAIN stack' = 1..(Len(stack) + 1) /\ stack'[Len(stack) + 1] = v
      /\ \A i \in DOMAIN stack : stack'[i] = stack[i]
      /\ DOMAIN stack = 1..Len(stack) /\ Len(stack) \in Nat
  BY <1>2, <1>3, StackElements DEF StackOK
<1>5. \A s \in ViewSubs(v) : s \in Sub /\ s.scheduler \in Pollers
  <2>1. v.sub \in Sub /\ v.sub.scheduler \in Pollers
    <3>1. views + 1 \in 1..MaxViews
      BY <1>2, PeersAssumption DEF CoreOK, Numbered
    <3> QED
      BY <1>2, <1>3, <3>1 DEF Sub
  <2>2. \A t \in v.peerSubs : t.sub \in Sub /\ t.sub.scheduler \in Pollers
    <3>1. \A t \in v.peerSubs : t.sub \in Sub
      BY <1>3 DEF StackedView
    <3>2. \A t \in Listed(views + 1, peers) : t.sub.scheduler \in Holders(peers)
      BY DEF Listed, Holders
    <3> QED
      BY <1>3, <3>1, <3>2 DEF Pollers
  <2> QED
    BY <2>1, <2>2 DEF ViewSubs, PeerSubs
<1>6. PolledOK'
  BY <1>2, <1>5 DEF PolledOK, Pollers
<1>7. PolledForAView'
  <2> SUFFICES ASSUME NEW s \in polled' PROVE \E i \in DOMAIN stack' : s \in ViewSubs(stack'[i])
    BY DEF PolledForAView, StackSubs
  <2>1. CASE s \in polled
    <3>1. PICK i \in DOMAIN stack : s \in ViewSubs(stack[i])
      BY <2>1 DEF SubsMatchViews, PolledForAView, StackSubs
    <3> QED
      BY <1>4, <3>1
  <2>2. CASE s \in ViewSubs(v)
    BY <1>4, <2>2
  <2> QED
    BY <1>2, <2>1, <2>2
<1>8. PeerSubsArePolled'
  <2> SUFFICES ASSUME NEW i \in DOMAIN stack' PROVE PeerSubs(stack'[i]) \subseteq polled'
    BY DEF PeerSubsArePolled
  <2>1. CASE i \in DOMAIN stack
    BY <1>2, <1>4, <2>1 DEF SubsMatchViews, PeerSubsArePolled
  <2>2. CASE i = Len(stack) + 1
    BY <1>2, <1>4, <2>2 DEF ViewSubs
  <2> QED
    BY <1>4, <2>1, <2>2
<1> QED
  BY <1>6, <1>7, <1>8 DEF SubsMatchViews

\* A stack of one view, of which all is polled.
LEMMA SoloPolled ==
  ASSUME NEW v, stack' = <<v>>, polled' = ViewSubs(v) \ {NoSub},
         \A s \in ViewSubs(v) \ {NoSub} : s \in Sub /\ (s.scheduler \in Pollers'),
         \A t \in v.peerSubs : t.sub # NoSub
  PROVE  PolledOK' /\ SubsMatchViews'
<1>1. DOMAIN stack' = {1} /\ stack'[1] = v
  OBVIOUS
<1>2. PolledOK'
  BY DEF PolledOK
<1>3. PolledForAView'
  BY <1>1 DEF PolledForAView, StackSubs
<1>4. PeerSubsArePolled'
  BY <1>1 DEF PeerSubsArePolled, PeerSubs, ViewSubs
<1> QED
  BY <1>2, <1>3, <1>4 DEF SubsMatchViews

\* Opening a view over nothing: what the views that go were listed with is released.
LEMMA OpenPolled ==
  ASSUME PeersInv, NEW kind \in {"top", "page"}, Open(kind) PROVE PolledOK' /\ SubsMatchViews'
<1> USE DEF PeersInv
<1>1. PICK v : v = View(kind, live.scheduler, peers)
  OBVIOUS
<1>2. /\ stack' = <<v>> /\ views < MaxViews /\ UNCHANGED <<live, peers>>
      /\ polled' = (polled \ UNION {Releases(stack[i]) : i \in DOMAIN stack})
                     \cup (ViewSubs(v) \ {NoSub})
  BY <1>1 DEF Open
<1>3. polled \subseteq UNION {Releases(stack[i]) : i \in DOMAIN stack}
  BY ReleasesAll DEF SubsMatchViews, PolledForAView, StackSubs
<1>4. live.scheduler \in Schedulers
  BY PeersAssumption DEF Open, CoreOK, Screened, Numbered, Connected, Schedulers
<1>5. /\ v \in StackedView
      /\ v.sub = IF kind = "page" THEN NoSub
                 ELSE [scheduler |-> live.scheduler, view |-> views + 1]
      /\ v.peerSubs = IF kind = "top" THEN Listed(views + 1, peers) ELSE {}
  <2>0. PICK k \in {"top", "page", "child"} : k = kind
    OBVIOUS
  <2> DEFINE w == View(k, live.scheduler, peers)
  <2>1. views \in Nat /\ peers \in SUBSET Peer /\ views < MaxViews
    BY <1>2 DEF CoreOK, Numbered
  <2>2. /\ w \in StackedView
        /\ w.sub = IF k = "page" THEN NoSub
                   ELSE [scheduler |-> live.scheduler, view |-> views + 1]
        /\ w.peerSubs = IF k = "top" THEN Listed(views + 1, peers) ELSE {}
    BY <1>4, <2>1, NewView
  <2>3. v = w /\ k = kind
    BY <1>1, <2>0
  <2> QED
    BY <2>2, <2>3
<1>6. \A s \in ViewSubs(v) \ {NoSub} : s \in Sub /\ (s.scheduler \in Pollers')
  <2>1. v.sub # NoSub => v.sub \in Sub /\ v.sub.scheduler = live.scheduler
    BY <1>5 DEF StackedView
  <2>2. \A t \in v.peerSubs : t.sub \in Sub
    BY <1>5 DEF StackedView
  <2>3. \A t \in Listed(views + 1, peers) : t.sub.scheduler \in Holders(peers)
    BY DEF Listed, Holders
  <2>4. \A t \in v.peerSubs : t.sub.scheduler \in Holders(peers)
    BY <1>5, <2>3
  <2> QED
    BY <1>2, <2>1, <2>2, <2>4 DEF ViewSubs, PeerSubs, Pollers
<1>7. polled' = ViewSubs(v) \ {NoSub}
  BY <1>2, <1>3
<1>8. \A t \in v.peerSubs : t.sub # NoSub
  <2>1. NoSub \notin Sub
    BY DEF NoSub, Sub, Schedulers
  <2> QED
    BY <1>5, <2>1 DEF StackedView
<1> QED
  BY <1>2, <1>6, <1>7, <1>8, SoloPolled

\* A session of its own polls for the view it opens with, and nothing else.
LEMMA SwitchPolled == ASSUME CoreOK, SwitchTo PROVE PolledOK' /\ SubsMatchViews'
<1>1. PICK n \in Schedulers : n = schedulers + 1
  BY PeersAssumption DEF SwitchTo, CoreOK, Numbered, Schedulers
<1>2. PICK none \in SUBSET Peer : none = {}
  OBVIOUS
<1>3. n \in Pollers'
  BY <1>1 DEF SwitchTo, Attached, Pollers
<1>4. ASSUME NEW kind \in {"top", "page", "child"}, NEW v, v = View(kind, n, none),
             stack' = <<v>>, polled' = ViewSubs(v) \ {NoSub}
      PROVE  PolledOK' /\ SubsMatchViews'
  <2> DEFINE w == View(kind, n, none)
  <2>1. views \in Nat /\ views < MaxViews
    BY DEF SwitchTo, CoreOK, Numbered
  <2>2. /\ w \in StackedView
        /\ w.sub = IF kind = "page" THEN NoSub ELSE [scheduler |-> n, view |-> views + 1]
        /\ w.peerSubs = IF kind = "top" THEN Listed(views + 1, none) ELSE {}
    BY <2>1, NewView
  <2>3. Listed(views + 1, none) = {}
    BY <1>2 DEF Listed
  <2>4. v = w
    BY <1>4
  <2> HIDE DEF w
  <2>5. ViewSubs(v) = {v.sub}
    BY <2>2, <2>3, <2>4 DEF ViewSubs, PeerSubs
  <2>6. v.sub # NoSub => v.sub \in Sub /\ v.sub.scheduler = n
    BY <2>2, <2>4 DEF StackedView
  <2>7. v.peerSubs = {}
    BY <2>2, <2>3, <2>4
  <2> QED
    BY <1>3, <1>4, <2>5, <2>6, <2>7, SoloPolled
<1>5. CASE stack' = <<>> /\ polled' = {}
  BY <1>5 DEF PolledOK, SubsMatchViews, PolledForAView, PeerSubsArePolled
<1> QED
  BY <1>1, <1>2, <1>4, <1>5 DEF SwitchTo

\* Going back ends the lists of the view that goes, and no other's.
LEMMA PopPolled == ASSUME PeersInv, Pop PROVE PolledOK' /\ SubsMatchViews'
<1> USE DEF PeersInv
<1> DEFINE top == Len(stack)
<1>1. /\ DOMAIN stack' = DOMAIN stack \ {top} /\ \A i \in DOMAIN stack' : stack'[i] = stack[i]
  BY PopStack
<1>2. top \in DOMAIN stack
  BY StackElements DEF Pop
<1>3. polled' = polled \ ViewSubs(stack[top]) /\ UNCHANGED <<live, peers>>
  BY <1>2, ReleasesAll DEF Pop
<1>4. PolledOK'
  BY <1>3 DEF PolledOK, Pollers
<1> HIDE DEF top
<1>5. PolledForAView'
  <2> SUFFICES ASSUME NEW s \in polled' PROVE \E i \in DOMAIN stack' : s \in ViewSubs(stack'[i])
    BY DEF PolledForAView, StackSubs
  <2>1. PICK i \in DOMAIN stack : s \in ViewSubs(stack[i])
    BY <1>3 DEF SubsMatchViews, PolledForAView, StackSubs
  <2> QED
    BY <1>1, <1>3, <2>1
<1>6. ASSUME NEW i \in DOMAIN stack', NEW t \in stack'[i].peerSubs PROVE t.sub \in polled'
  <2>1. i \in DOMAIN stack /\ i # top /\ stack'[i] = stack[i]
    BY <1>1, <1>6
  <2>2. t.sub \in polled /\ t.sub # NoSub /\ t.sub \in ViewSubs(stack[i])
    <3>1. t.sub \in PeerSubs(stack[i])
      BY <1>6, <2>1 DEF PeerSubs
    <3> QED
      BY <1>6, <2>1, <3>1, SubOfPeer DEF SubsMatchViews, PeerSubsArePolled, ViewSubs
  <2>3. t.sub.view = stack[i].serial
    BY <2>1, <2>2, SubOfView
  <2>4. t.sub \in ViewSubs(stack[top]) => t.sub.view = stack[top].serial
    BY <1>2, <2>2, SubOfView
  <2>5. stack[i].serial # stack[top].serial
    BY <1>2, <2>1 DEF StackOK
  <2> QED
    BY <1>3, <2>2, <2>3, <2>4, <2>5
<1>7. PeerSubsArePolled'
  BY <1>6 DEF PeerSubsArePolled, PeerSubs
<1> QED
  BY <1>4, <1>5, <1>7 DEF SubsMatchViews

\* A peer that joins is listed from by the top view if it is a table, and the list of a peer
\* it replaces ends.
LEMMA JoinedPolled ==
  ASSUME PeersInv, NEW context \in Contexts, Joined(context)
  PROVE  PolledOK' /\ SubsMatchViews'
<1> USE DEF PeersInv
<1> DEFINE rest(i) == {s \in stack[i].peerSubs : s.name # context}
           gained(i) == IF i = Len(stack) /\ stack[i].kind = "top"
                        THEN {[name |-> p.name,
                               sub |-> [scheduler |-> p.scheduler, view |-> stack[i].serial]] :
                                p \in {q \in peers' : ~\E s \in rest(i) : s.name = q.name}}
                        ELSE {}
<1>1. /\ peers' = {p \in peers : p.name # context}
                    \cup {[name |-> context, scheduler |-> schedulers + 1]}
      /\ peers' \subseteq Peer
      /\ stack' \in Seq(StackedView) /\ DOMAIN stack' = DOMAIN stack
      /\ \A i \in DOMAIN stack : /\ stack'[i].sub = stack[i].sub
                                 /\ stack'[i].peerSubs = rest(i) \cup gained(i)
  BY JoinedViews
<1>2. /\ polled' = {s \in polled : s.scheduler \in {live.scheduler} \cup Holders(peers')}
                     \cup (StackSubs(stack') \ StackSubs(stack))
      /\ UNCHANGED live
  BY DEF Joined
<1>3. ASSUME NEW i \in DOMAIN stack, NEW t \in rest(i)
      PROVE  t.sub \in polled /\ t.sub.scheduler \in Holders(peers')
  <2>1. t.sub \in polled
    BY DEF SubsMatchViews, PeerSubsArePolled, PeerSubs
  <2>2. [name |-> t.name, scheduler |-> t.sub.scheduler] \in peers'
    BY <1>1, SubOfPeer
  <2> QED
    BY <2>1, <2>2 DEF Holders
<1>4. \A p \in peers', q \in peers : p.scheduler = q.scheduler => p = q /\ p.name # context
  <2>1. \A q \in peers : q.scheduler \in Nat /\ q.scheduler <= schedulers
    BY DEF CoreOK, Numbered, Peer, Schedulers
  <2>2. schedulers \in Nat
    BY DEF CoreOK, Numbered
  <2>3. \A q \in peers : q.scheduler # schedulers + 1
    BY <2>1, <2>2
  <2> QED
    BY <1>1, <2>3 DEF CoreOK, Numbered
<1>5. \A p \in peers' : p.scheduler # live.scheduler
  <2>1. \A p \in peers' : live.scheduler < p.scheduler /\ p.scheduler \in Nat
    BY <1>1, <1>2, JoinedNumbered DEF Numbered, Peer, Schedulers
  <2>2. live.scheduler \in Nat
    BY DEF CoreOK, Numbered
  <2> QED
    BY <2>1, <2>2
<1>6. ASSUME NEW i \in DOMAIN stack, NEW t \in gained(i)
      PROVE  /\ t.sub \in Sub /\ t.sub.scheduler \in Holders(peers')
             /\ t.sub \notin StackSubs(stack)
  <2>1. i = Len(stack) /\ stack[i].kind = "top" /\ stack[i] \in StackedView /\ ViewOK(stack[i])
    BY <1>6, StackElements
  <2>2. PICK p \in peers' :
          /\ t = [name |-> p.name,
                  sub |-> [scheduler |-> p.scheduler, view |-> stack[i].serial]]
          /\ ~\E s \in rest(i) : s.name = p.name
    BY <1>6, <2>1
  <2>3. t.sub.scheduler = p.scheduler /\ t.sub.view = stack[i].serial
    BY <2>2
  <2>4. t.sub \in Sub
    BY <1>1, <2>1, <2>2 DEF Peer, Sub, StackedView
  <2>5. t.sub # NoSub
    BY <2>4 DEF Sub, Schedulers, NoSub
  <2>6. ASSUME t.sub \in StackSubs(stack) PROVE FALSE
    <3>1. PICK j \in DOMAIN stack : t.sub \in ViewSubs(stack[j])
      BY <2>6 DEF StackSubs
    <3>2. j = i
      <4>1. stack[j].serial = stack[i].serial
        BY <2>3, <2>5, <3>1, SubOfView
      <4> QED
        BY <4>1 DEF StackOK
    <3>3. stack[i].sub # t.sub
      <4>1. stack[i].sub.scheduler = live.scheduler
        BY <2>1 DEF ViewOK
      <4> QED
        BY <1>5, <2>3, <4>1
    <3>4. PICK u \in stack[i].peerSubs : u.sub = t.sub
      BY <3>1, <3>2, <3>3 DEF ViewSubs, PeerSubs
    <3>5. [name |-> u.name, scheduler |-> p.scheduler] \in peers
      BY <2>3, <3>4, SubOfPeer
    <3>6. u.name = p.name /\ u.name # context
      BY <1>4, <3>5
    <3> QED
      BY <2>2, <3>4, <3>6
  <2> QED
    BY <2>3, <2>4, <2>6 DEF Holders
<1> HIDE DEF gained
<1>7. ASSUME NEW i \in DOMAIN stack, NEW s \in ViewSubs(stack'[i])
      PROVE  s \in ViewSubs(stack[i]) \/ \E t \in gained(i) : s = t.sub
  BY <1>1, <1>7 DEF ViewSubs, PeerSubs
<1>8. PolledOK'
  <2> SUFFICES ASSUME NEW s \in polled' PROVE s \in Sub /\ (s.scheduler \in Pollers')
    BY DEF PolledOK
  <2>1. CASE s \in StackSubs(stack') \ StackSubs(stack)
    <3>1. PICK i \in DOMAIN stack : s \in ViewSubs(stack'[i]) /\ s \notin ViewSubs(stack[i])
      BY <1>1, <2>1 DEF StackSubs
    <3>2. PICK t \in gained(i) : s = t.sub
      BY <1>7, <3>1
    <3> QED
      BY <1>6, <3>2 DEF Pollers
  <2> QED
    BY <1>2, <2>1 DEF PolledOK, Pollers
<1>9. PolledForAView'
  <2> SUFFICES ASSUME NEW s \in polled' PROVE s \in StackSubs(stack')
    BY DEF PolledForAView
  <2>1. ASSUME s \in polled, s.scheduler \in {live.scheduler} \cup Holders(peers')
        PROVE  s \in StackSubs(stack')
    <3>1. PICK i \in DOMAIN stack : s \in ViewSubs(stack[i])
      BY <2>1 DEF SubsMatchViews, PolledForAView, StackSubs
    <3>2. ASSUME NEW t \in stack[i].peerSubs, s = t.sub PROVE t \in rest(i)
      <4>1. [name |-> t.name, scheduler |-> s.scheduler] \in peers
        BY <3>2, SubOfPeer
      <4>2. s.scheduler # live.scheduler
        <5>1. s.scheduler > live.scheduler
          BY <3>2, SubOfPeer
        <5>2. s.scheduler \in Nat /\ live.scheduler \in Nat
          BY <2>1 DEF PolledOK, Sub, Schedulers, CoreOK, Numbered
        <5> QED
          BY <5>1, <5>2
      <4>3. PICK p \in peers' : p.scheduler = s.scheduler
        BY <2>1, <4>2 DEF Holders
      <4>4. t.name # context
        BY <1>4, <4>1, <4>3
      <4> QED
        BY <3>2, <4>4
    <3>3. s \in ViewSubs(stack'[i])
      BY <1>1, <3>1, <3>2 DEF ViewSubs, PeerSubs
    <3> QED
      BY <1>1, <3>3 DEF StackSubs
  <2> QED
    BY <1>2, <2>1
<1>10. PeerSubsArePolled'
  <2> SUFFICES ASSUME NEW i \in DOMAIN stack, NEW t \in stack'[i].peerSubs PROVE t.sub \in polled'
    BY <1>1 DEF PeerSubsArePolled, PeerSubs
  <2>1. CASE t \in rest(i)
    BY <1>2, <1>3, <2>1
  <2>2. CASE t \in gained(i)
    <3>1. t.sub \in StackSubs(stack')
      BY <1>1 DEF StackSubs, ViewSubs, PeerSubs
    <3> QED
      BY <1>2, <1>6, <2>2, <3>1
  <2> QED
    BY <1>1, <2>1, <2>2
<1> QED
  BY <1>8, <1>9, <1>10 DEF SubsMatchViews

\* Every step keeps what is polled in step with the views.
LEMMA PolledNext == ASSUME PeersInv, [Next]_vars PROVE PolledOK' /\ SubsMatchViews'
<1>1. ASSUME UNCHANGED <<live, peers, stack, polled>> PROVE PolledOK' /\ SubsMatchViews'
  BY <1>1 DEF PeersInv, PolledOK, Pollers, SubsMatchViews, PolledForAView, PeerSubsArePolled
<1>2. ASSUME NEW names \in SUBSET Contexts, CtxSame(names) PROVE PolledOK' /\ SubsMatchViews'
  BY <1>2, KeepPeersPolled DEF CtxSame
<1>3. ASSUME NEW context \in Contexts, Toggle(context) PROVE PolledOK' /\ SubsMatchViews'
  BY <1>1, <1>3, KeepPeersPolled DEF Toggle
<1>4. CASE \/ (\E names, c : CtxOther(c, names)) \/ CtxUnknown \/ Login \/ CloseLogin
           \/ OpenContexts \/ CloseContexts \/ ConnectFails \/ Report
           \/ (\E c : JoinFails(c) \/ Choose(c)) \/ (\E m : Receive(m)) \/ UNCHANGED vars
  BY <1>1, <1>4 DEF CtxOther, CtxUnknown, Login, CloseLogin, OpenContexts, CloseContexts,
                    ConnectFails, Report, JoinFails, Choose, Receive, vars
<1>5. CASE SwitchTo
  BY <1>5, SwitchPolled DEF PeersInv
<1> QED
  BY <1>2, <1>3, <1>4, <1>5, JoinedPolled, OpenPolled, PushPolled, PopPolled DEF Next

\* At the start nothing is connected, shown or polled.
LEMMA InitPeersInv == Init => PeersInv
<1> SUFFICES ASSUME Init PROVE PeersInv
  OBVIOUS
<1>1. Screened
  BY DEF Init, Screened, Screens
<1>2. Wired
  BY DEF Init, Wired, OneJoinInFlight
<1>3. Numbered
  BY PeersAssumption DEF Init, Numbered, NoSession, Connected
<1>4. StackOK
  BY EmptySeq DEF Init, StackOK
<1>5. PolledOK /\ SubsMatchViews
  BY DEF Init, PolledOK, SubsMatchViews, PolledForAView, PeerSubsArePolled
<1> QED
  BY <1>1, <1>2, <1>3, <1>4, <1>5 DEF PeersInv, CoreOK

\* And every step keeps all of it.
LEMMA PeersInvNext == PeersInv /\ [Next]_vars => PeersInv'
BY WiredNext, NumberedNext, ScreenedNext, StackNext, PolledNext DEF PeersInv, CoreOK

\* The invariant holds in every reachable state.
LEMMA Invariant == Spec => []PeersInv
BY InitPeersInv, PeersInvNext, PTL DEF Spec

\* Nothing is polled that no view lists, and a view never counts on the list of a peer that is
\* gone: through joins, drops, switches and every way a view comes and goes (subscribe_peers,
\* forget_peer, release_peer_subs, drain_stack).
THEOREM WhatIsPolled == Spec => []SubsMatchViews
<1>1. PeersInv => SubsMatchViews
  BY DEF PeersInv
<1> QED
  BY <1>1, Invariant, PTL

---------------------------------------------------------------------------
(* The poll channel. *)

\* A poller of this session has a number, no smaller than the session's own.
LEMMA PollersOfSession ==
  ASSUME CoreOK, NEW p \in Pollers, Connected
  PROVE  p \in Schedulers /\ p >= live.scheduler /\ p \in Nat
<1>1. /\ live.scheduler \in 1..schedulers /\ schedulers \in 0..MaxSchedulers
      /\ \A q \in peers : q.scheduler \in Schedulers /\ live.scheduler < q.scheduler
  BY DEF CoreOK, Numbered, Peer
<1>2. MaxSchedulers \in Nat
  BY PeersAssumption
<1>3. live.scheduler \in Schedulers /\ live.scheduler >= live.scheduler
  BY <1>1, <1>2 DEF Schedulers
<1>4. \A q \in peers : q.scheduler >= live.scheduler
  BY <1>1 DEF Schedulers
<1> QED
  BY <1>1, <1>3, <1>4 DEF Pollers, Holders, Schedulers

\* What is sent is marked by who sent it (App::apply's any_live and session_generation).
LEMMA ReportMail == ASSUME PeersInv, MailOK, Report PROVE MailOK'
<1>1. Connected /\ UNCHANGED <<live, shown>>
  BY DEF Report
<1>2. live.generation \in Nat /\ live.generation > 0
  BY <1>1 DEF PeersInv, CoreOK, Numbered, Connected
<1>3. ASSUME NEW s \in polled, NEW m, m = [by |-> s.scheduler, sub |-> s, generation |-> 0]
      PROVE  /\ m \in [by : Schedulers, sub : Sub \cup {NoSub}, generation : Nat]
             /\ m.generation <= live.generation
             /\ m.sub # NoSub /\ m.by = m.sub.scheduler /\ m.generation = 0
  <2>1. s \in Sub
    BY DEF PeersInv, PolledOK
  <2>2. s.scheduler \in Schedulers /\ s # NoSub
    BY <2>1 DEF Sub, Schedulers, NoSub
  <2> QED
    BY <1>2, <1>3, <2>1, <2>2
<1>4. ASSUME NEW p \in Pollers, NEW m,
             m = [by |-> p, sub |-> NoSub, generation |-> live.generation]
      PROVE  /\ m \in [by : Schedulers, sub : Sub \cup {NoSub}, generation : Nat]
             /\ m.generation <= live.generation /\ m.sub = NoSub
             /\ m.by >= live.scheduler
  BY <1>1, <1>2, <1>4, PollersOfSession DEF PeersInv
<1>5. PICK m : /\ mail' = mail \cup {m}
               /\ \/ \E s \in polled : m = [by |-> s.scheduler, sub |-> s, generation |-> 0]
                  \/ \E p \in Pollers :
                       m = [by |-> p, sub |-> NoSub, generation |-> live.generation]
  BY DEF Report
<1>6. /\ m \in [by : Schedulers, sub : Sub \cup {NoSub}, generation : Nat]
      /\ m.generation <= live.generation
      /\ m.sub # NoSub => m.by = m.sub.scheduler /\ m.generation = 0
      /\ m.sub = NoSub /\ m.generation = live.generation => m.by >= live.scheduler
  BY <1>3, <1>4, <1>5
<1> QED
  BY <1>1, <1>5, <1>6 DEF MailOK, Connected

\* What is heard was sent by this session or a peer of it.
LEMMA ReceiveOwn ==
  ASSUME PeersInv, MailOK, OwnData, NEW m \in mail, Receive(m)
  PROVE  MailOK' /\ OwnData'
<1>1. Connected /\ m.by \in Schedulers
  BY DEF MailOK
<1>2. ASSUME m.sub \in polled PROVE m.by >= live.scheduler
  <2>1. m.sub \in Sub /\ m.sub.scheduler \in Pollers
    BY <1>2 DEF PeersInv, PolledOK
  <2>2. m.sub # NoSub
    BY <2>1 DEF Sub, Schedulers, NoSub
  <2>3. m.by = m.sub.scheduler
    BY <2>2 DEF MailOK
  <2> QED
    BY <1>1, <2>1, <2>3, PollersOfSession DEF PeersInv
<1>3. ASSUME m.generation = live.generation PROVE m.by >= live.scheduler
  <2>1. live.generation # 0
    BY <1>1 DEF Connected
  <2> QED
    BY <1>3, <2>1 DEF MailOK
<1>4. \A s \in shown' : s \in shown \/ (s = m.by /\ m.by >= live.scheduler)
  BY <1>2, <1>3 DEF Receive
<1>5. OwnData'
  BY <1>4 DEF Receive, OwnData
<1>6. MailOK'
  BY <1>1, <1>4 DEF Receive, MailOK, Connected
<1> QED
  BY <1>5, <1>6

\* The messages of the sessions before stay in the channel, of generations that are gone.
LEMMA SwitchOwn == ASSUME PeersInv, MailOK, SwitchTo PROVE MailOK' /\ OwnData'
<1>1. /\ live'.generation = live.generation + 1 /\ shown' = {} /\ UNCHANGED mail
  BY DEF SwitchTo, Attached
<1>2. live.generation \in Nat
  BY DEF PeersInv, CoreOK, Numbered
<1>3. Connected'
  BY <1>1, <1>2 DEF Connected
<1>4. \A m \in mail : m.generation <= live'.generation /\ m.generation # live'.generation
  <2> SUFFICES ASSUME NEW m \in mail
               PROVE  m.generation <= live'.generation /\ m.generation # live'.generation
    OBVIOUS
  <2>1. m.generation \in Nat /\ m.generation <= live.generation
    BY DEF MailOK
  <2> QED
    BY <1>1, <1>2, <2>1
<1> QED
  BY <1>1, <1>3, <1>4 DEF MailOK, OwnData

\* Every step keeps the channel and what is shown this session's.
LEMMA OwnNext ==
  ASSUME PeersInv, MailOK, OwnData, [Next]_vars PROVE MailOK' /\ OwnData'
<1>1. ASSUME UNCHANGED <<live, mail, shown>> PROVE MailOK' /\ OwnData'
  BY <1>1 DEF MailOK, OwnData, Connected
<1>2. CASE \/ (\E names : CtxSame(names)) \/ (\E names, c : CtxOther(c, names)) \/ CtxUnknown
           \/ Login \/ CloseLogin \/ OpenContexts \/ CloseContexts \/ ConnectFails \/ Pop
           \/ (\E c : JoinFails(c) \/ Choose(c) \/ Toggle(c) \/ Joined(c))
           \/ (\E kind : Open(kind)) \/ (\E kind, s : Push(kind, s)) \/ UNCHANGED vars
  BY <1>1, <1>2 DEF CtxSame, CtxOther, CtxUnknown, Login, CloseLogin, OpenContexts,
                    CloseContexts, ConnectFails, Pop, JoinFails, Choose, Toggle, Joined, Open,
                    Push, vars
<1>3. CASE Report
  BY <1>3, ReportMail DEF Report, OwnData
<1> QED
  BY <1>2, <1>3, ReceiveOwn, SwitchOwn DEF Next

\* Nothing another session read reaches this one's store, though its messages are still in the
\* channel when the next session starts (session_generation, any_live).
THEOREM OnlyOwnData == Spec => []OwnData
<1>1. Init => MailOK /\ OwnData
  BY DEF Init, MailOK, OwnData, NoSession
<1>2. PeersInv /\ (MailOK /\ OwnData) /\ [Next]_vars => (MailOK /\ OwnData)'
  BY OwnNext
<1> QED
  BY <1>1, <1>2, Invariant, PTL DEF Spec

---------------------------------------------------------------------------
(* Types. *)

\* The invariant's parts give the model's type invariant.
LEMMA TypesFollow == PeersInv /\ MailOK => TypeOK
<1> SUFFICES ASSUME PeersInv, MailOK PROVE TypeOK
  OBVIOUS
<1> USE DEF PeersInv, CoreOK
<1>1. /\ live \in [primary : Contexts \cup {None}, scheduler : 0..schedulers,
                   generation : 0..schedulers]
      /\ \A p \in peers : p \in Peer /\ p.scheduler <= schedulers
      /\ schedulers \in 0..MaxSchedulers /\ views \in 0..MaxViews
  BY DEF Numbered
<1>2. ASSUME NEW i \in DOMAIN stack
      PROVE  /\ stack[i].kind \in {"top", "page", "child"} /\ stack[i].serial \in 1..views
             /\ stack[i].sub \in Sub \cup {NoSub}
             /\ \A s \in stack[i].peerSubs : s.name \in Contexts /\ s.sub \in Sub
  <2>1. stack[i] \in StackedView /\ stack[i].serial <= views
    BY StackElements DEF ViewOK
  <2>2. /\ stack[i].kind \in {"top", "page", "child"} /\ stack[i].serial \in 1..MaxViews
        /\ stack[i].sub \in Sub \cup {NoSub}
        /\ stack[i].peerSubs \subseteq [name : Contexts, sub : Sub]
    BY <2>1 DEF StackedView
  <2> QED
    BY <1>1, <2>1, <2>2
<1>3. polled \subseteq Sub /\ shown \subseteq Schedulers
  BY DEF PolledOK, MailOK
<1>4. /\ screen \in Screens /\ prompt \in Contexts \cup {None}
      /\ screen = "connecting" <=> wire.session # None
  BY DEF Screened
<1>5. /\ pending \subseteq Contexts /\ joining \subseteq Contexts
      /\ wire.session \in Contexts \cup {None} /\ wire.joins \in [Contexts -> 0..1]
      /\ OneJoinInFlight
  BY DEF Wired, OneJoinInFlight
<1>6. \A m \in mail : m.by \in Schedulers /\ m.sub \in Sub \cup {NoSub}
  BY DEF MailOK
<1> QED
  BY <1>1, <1>2, <1>3, <1>4, <1>5, <1>6 DEF TypeOK

\* The state is well typed, and a peer's credential is on the wire once at a time, whatever is
\* asked and however often the session changes meanwhile (start_join, App::joined).
THEOREM TypesAndJoins == Spec => []TypeOK
<1>1. Init => MailOK /\ OwnData
  BY DEF Init, MailOK, OwnData, NoSession
<1>2. PeersInv /\ (MailOK /\ OwnData) /\ [Next]_vars => (MailOK /\ OwnData)'
  BY OwnNext
<1>3. PeersInv /\ (MailOK /\ OwnData) => TypeOK
  BY TypesFollow
<1> QED
  BY <1>1, <1>2, <1>3, Invariant, PTL DEF Spec
===========================================================================
