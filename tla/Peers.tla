------------------------------- MODULE Peers ------------------------------
(***************************************************************************)
(* The session and the contexts joined beside it: the connects in flight,  *)
(* the Contexts screen that starts them, the stack of views, the list each *)
(* scheduler polls for them, and the poll channel all of it is heard on    *)
(* (crates/tui/src/app/session.rs, app/messages.rs, app/nav.rs, app.rs,    *)
(* contexts.rs).                                                           *)
(*                                                                         *)
(* A scheduler is a number no other ever has (NEXT_EPOCH, NEXT_SUB); a     *)
(* subscription is the scheduler that polls it and the view it is for.     *)
(* What is in a table is the schedulers that listed it.                    *)
(***************************************************************************)
EXTENDS Naturals, Sequences, FiniteSets

CONSTANTS
  Contexts,      \* the contexts of the config file
  Stored,        \* those whose password is stored
  None,          \* no context
  MaxSchedulers, \* bound: sessions and peers connected in a behaviour
  MaxViews,      \* bound: views opened in a behaviour
  MaxMail        \* bound: messages of the poll channel, 0 where it is not asked about

ASSUME PeersAssumption ==
  /\ Stored \subseteq Contexts /\ None \notin Contexts
  /\ {MaxSchedulers, MaxViews, MaxMail} \subseteq Nat

VARIABLES
  live,       \* Live: the primary context, its scheduler and the session's generation
  peers,      \* Live.peers; their order is the screen's
  stack,      \* Live.stack, bottom first
  polled,     \* the subscriptions the schedulers hold
  screen,     \* what has the keys: the body, the Contexts screen, its login box, a connect
  prompt,     \* the context the login box is for
  pending,    \* App.pending_peers
  joining,    \* App.joining
  wire,       \* the connects in flight: the session's, and how many of each peer's
  mail,       \* the poll channel: by whom, for which subscription or generation
  shown,      \* the schedulers whose data the store holds
  schedulers, \* schedulers so far
  views       \* views so far

vars == <<live, peers, stack, polled, screen, prompt, pending, joining, wire, mail, shown,
          schedulers, views>>

Screens == {"body", "contexts", "login", "connecting"}
Schedulers == 1..MaxSchedulers
Peer == [name : Contexts, scheduler : Schedulers]
Sub == [scheduler : Schedulers, view : 1..MaxViews]

NoSub == [scheduler |-> 0, view |-> 0]
NoSession == [primary |-> None, scheduler |-> 0, generation |-> 0]
Connected == live.generation > 0

Init ==
  /\ live = NoSession
  /\ peers = {} /\ stack = <<>>
  /\ polled = {} /\ mail = {} /\ shown = {}
  /\ screen = "contexts" /\ prompt = None
  /\ pending = {} /\ joining = {}
  /\ wire = [session |-> None, joins |-> [c \in Contexts |-> 0]]
  /\ schedulers = 0 /\ views = 0

---------------------------------------------------------------------------

PeerNames(ps) == {p.name : p \in ps}
Holders(ps) == {p.scheduler : p \in ps}

\* Mutant: a second join is started while the first is in flight.
JoinableAgain(c, primary, ps) == c # primary /\ c \notin PeerNames(ps) /\ c \in Stored

\* start_join's refusals, in a session with these peers.
Joinable(c, primary, ps) ==
  c # primary /\ c \notin PeerNames(ps) /\ c \notin joining /\ c \in Stored

StartJoins(names, primary, ps) ==
  LET started == {c \in names : Joinable(c, primary, ps)}
  IN  /\ joining' = joining \cup started
      /\ wire' = [session |-> None,
                  joins |-> [c \in Contexts |-> wire.joins[c] + IF c \in started THEN 1 ELSE 0]]

\* Live::subscribe_peers on a stack whose top view is v: only a top-level table is listed
\* from the peers, once from each.
Subscribed(v, ps) ==
  IF v.kind # "top" THEN v
  ELSE [v EXCEPT !.peerSubs = @ \cup
          {[name |-> p.name, sub |-> [scheduler |-> p.scheduler, view |-> v.serial]] :
             p \in {q \in ps : ~\E s \in v.peerSubs : s.name = q.name}}]

SubscribedStack(st, ps) ==
  IF st = <<>> THEN st ELSE [st EXCEPT ![Len(st)] = Subscribed(@, ps)]

PeerSubs(v) == {s.sub : s \in v.peerSubs}
ViewSubs(v) == PeerSubs(v) \cup {v.sub}
StackSubs(st) == UNION {ViewSubs(st[i]) : i \in DOMAIN st}

\* Mutant: a view keeps the subscriptions of a peer that is dropped.
ForgetNothing(v, names) == v

\* Live::forget_peer, in a view: what the peer listed for it is forgotten.
Forget(v, names) == [v EXCEPT !.peerSubs = {s \in @ : s.name \notin names}]

\* What a view that goes unsubscribes: unsubscribe_any and release_peer_subs.
Releases(v) == {v.sub} \cup {s.sub : s \in {t \in v.peerSubs : t.name \in PeerNames(peers)}}

---------------------------------------------------------------------------
(* Connecting. *)

\* start_connect.
Connect(context) ==
  /\ wire' = [wire EXCEPT !.session = context]
  /\ screen' = "connecting"

\* The login box asks for a password nobody stored.
ConnectOrAsk(context) ==
  \/ context \in Stored /\ Connect(context) /\ UNCHANGED prompt
  \/ context \notin Stored /\ screen' = "login" /\ prompt' = context /\ UNCHANGED wire

\* A command is typed over the body or over the Contexts screen.
Commanding == Connected /\ screen \in {"body", "contexts"}

\* keep_peers: the others are dropped, their schedulers with what they poll.
KeepPeers(keep) ==
  /\ peers' = {p \in peers : p.name \in keep}
  /\ stack' = [i \in DOMAIN stack |-> Forget(stack[i], PeerNames(peers) \ keep)]
  /\ polled' = {s \in polled : s.scheduler \in {live.scheduler} \cup Holders(peers')}

\* `:ctx a b` names the session's own context first: only the peers move.
CtxSame(names) ==
  /\ Commanding
  /\ KeepPeers(names)
  /\ StartJoins(names, live.primary, peers)
  /\ UNCHANGED <<live, screen, prompt, pending, mail, shown, schedulers, views>>

\* It names another: the peers wait for the session.
CtxOther(context, names) ==
  /\ Commanding /\ context # live.primary
  /\ pending' = names
  /\ ConnectOrAsk(context)
  /\ UNCHANGED <<live, peers, stack, polled, joining, mail, shown, schedulers, views>>

\* It names what is not in the config file.
CtxUnknown ==
  /\ Commanding
  /\ pending' = {}
  /\ UNCHANGED <<live, peers, stack, polled, screen, prompt, joining, wire, mail, shown,
                 schedulers, views>>

\* Enter on a row of the Contexts screen.
Choose(context) ==
  /\ screen = "contexts"
  /\ ConnectOrAsk(context)
  /\ UNCHANGED <<live, peers, stack, polled, pending, joining, mail, shown, schedulers, views>>

\* Enter or esc in the login box.
Login ==
  /\ screen = "login"
  /\ Connect(prompt)
  /\ UNCHANGED <<live, peers, stack, polled, prompt, pending, joining, mail, shown, schedulers,
                 views>>

CloseLogin ==
  /\ screen = "login"
  /\ screen' = "contexts" /\ prompt' = None
  /\ UNCHANGED <<live, peers, stack, polled, pending, joining, wire, mail, shown, schedulers,
                 views>>

\* Space on a row: a joined context is dropped, another is joined.
Toggle(context) ==
  /\ screen = "contexts" /\ Connected
  /\ \/ /\ context \in PeerNames(peers)
        /\ KeepPeers(PeerNames(peers) \ {context})
        /\ UNCHANGED <<joining, wire>>
     \/ /\ context \notin PeerNames(peers)
        /\ StartJoins({context}, live.primary, peers)
        /\ UNCHANGED <<peers, stack, polled>>
  /\ UNCHANGED <<live, screen, prompt, pending, mail, shown, schedulers, views>>

OpenContexts ==
  /\ screen = "body"
  /\ screen' = "contexts"
  /\ UNCHANGED <<live, peers, stack, polled, prompt, pending, joining, wire, mail, shown,
                 schedulers, views>>

CloseContexts ==
  /\ screen = "contexts" /\ stack # <<>>
  /\ screen' = "body"
  /\ UNCHANGED <<live, peers, stack, polled, prompt, pending, joining, wire, mail, shown,
                 schedulers, views>>

\* A view of the scheduler's, listed from the peers too if it is a top-level table.
View(kind, scheduler, ps) ==
  Subscribed([kind |-> kind, peerSubs |-> {}, serial |-> views + 1,
              sub |-> IF kind = "page" THEN NoSub
                      ELSE [scheduler |-> scheduler, view |-> views + 1]], ps)

\* Mutant: the generation is not moved on.
AttachedSame(context) == [primary |-> context, scheduler |-> schedulers + 1, generation |-> 1]

\* App::attach: a session of its own, with a scheduler and a generation of its own.
Attached(context) ==
  [primary |-> context, scheduler |-> schedulers + 1, generation |-> live.generation + 1]

\* switch_to: the old session goes with its peers and its stack, what was open is opened
\* again, unless this Prism Central serves none of it, and the peers that waited join.
SwitchTo ==
  /\ wire.session # None
  /\ schedulers < MaxSchedulers /\ views < MaxViews
  /\ live' = Attached(wire.session)
  /\ schedulers' = schedulers + 1
  /\ peers' = {} /\ shown' = {}
  /\ \/ \E kind \in {"top", "page"} :
          LET v == View(kind, schedulers + 1, {})
          IN  stack' = <<v>> /\ polled' = ViewSubs(v) \ {NoSub}
     \/ stack' = <<>> /\ polled' = {}
  /\ views' = views + Len(stack')
  /\ screen' = IF stack' = <<>> THEN "contexts" ELSE "body"
  /\ prompt' = None
  /\ StartJoins(pending, wire.session, {})
  /\ pending' = {}
  /\ UNCHANGED mail

\* connect_failed goes back to the box that asked.
ConnectFails ==
  /\ wire.session # None
  /\ wire' = [wire EXCEPT !.session = None]
  /\ pending' = {}
  /\ screen' = IF prompt # None THEN "login" ELSE "contexts"
  /\ UNCHANGED <<live, peers, stack, polled, prompt, joining, mail, shown, schedulers, views>>

\* App::joined.
Answered(context) ==
  /\ wire.joins[context] > 0
  /\ wire' = [wire EXCEPT !.joins[context] = @ - 1]
  /\ joining' = joining \ {context}

Joined(context) ==
  LET added == {p \in peers : p.name # context}
                 \cup {[name |-> context, scheduler |-> schedulers + 1]}
      forgotten == [i \in DOMAIN stack |-> Forget(stack[i], {context})]
  IN  /\ Answered(context)
      /\ schedulers < MaxSchedulers
      /\ schedulers' = schedulers + 1
      /\ peers' = added
      /\ stack' = SubscribedStack(forgotten, added)
      /\ polled' = {s \in polled : s.scheduler \in {live.scheduler} \cup Holders(added)}
                     \cup (StackSubs(stack') \ StackSubs(stack))
      /\ UNCHANGED <<live, screen, prompt, pending, mail, shown, views>>

JoinFails(context) ==
  /\ Answered(context)
  /\ UNCHANGED <<live, peers, stack, polled, screen, prompt, pending, mail, shown, schedulers,
                 views>>

---------------------------------------------------------------------------
(* The stack. *)

\* open_root and open_page: drain_stack, and a view of its own.
Open(kind) ==
  /\ screen = "body" /\ views < MaxViews
  /\ LET v == View(kind, live.scheduler, peers)
     IN  /\ stack' = <<v>>
         /\ polled' = (polled \ UNION {Releases(stack[i]) : i \in DOMAIN stack})
                        \cup (ViewSubs(v) \ {NoSub})
  /\ views' = views + 1
  /\ UNCHANGED <<live, peers, screen, prompt, pending, joining, wire, mail, shown, schedulers>>

\* push_view: a pane's kind as a table over its page, or the children of a row over its
\* table, listed from the context the row came from.
Push(kind, scheduler) ==
  /\ screen = "body" /\ stack # <<>> /\ views < MaxViews
  /\ (kind = "top") <=> (stack[Len(stack)].kind = "page")
  /\ scheduler \in {live.scheduler} \cup (IF kind = "top" THEN {} ELSE Holders(peers))
  /\ LET v == View(kind, scheduler, peers)
     IN  stack' = Append(stack, v) /\ polled' = polled \cup ViewSubs(v)
  /\ views' = views + 1
  /\ UNCHANGED <<live, peers, screen, prompt, pending, joining, wire, mail, shown, schedulers>>

\* App::pop; what it uncovers is polled as it was.
Pop ==
  /\ screen = "body" /\ Len(stack) > 1
  /\ stack' = SubSeq(stack, 1, Len(stack) - 1)
  /\ polled' = polled \ Releases(stack[Len(stack)])
  /\ UNCHANGED <<live, peers, screen, prompt, pending, joining, wire, mail, shown, schedulers,
                 views>>

---------------------------------------------------------------------------
(* The poll channel. *)

Pollers == {live.scheduler} \cup Holders(peers)

\* A subscription's task reports, or a stats or names poller, by the generation it was
\* started in.
Report ==
  /\ Connected /\ Cardinality(mail) < MaxMail
  /\ \/ \E s \in polled : mail' = mail \cup {[by |-> s.scheduler, sub |-> s, generation |-> 0]}
     \/ \E p \in Pollers :
          mail' = mail \cup {[by |-> p, sub |-> NoSub, generation |-> live.generation]}
  /\ UNCHANGED <<live, peers, stack, polled, screen, prompt, pending, joining, wire, shown,
                 schedulers, views>>

\* App::apply: a message of a dead subscription, or of another generation, is dropped.
Receive(m) ==
  /\ m \in mail
  /\ mail' = mail \ {m}
  /\ shown' = IF m.sub \in polled \/ m.generation = live.generation THEN shown \cup {m.by}
              ELSE shown
  /\ UNCHANGED <<live, peers, stack, polled, screen, prompt, pending, joining, wire, schedulers,
                 views>>

---------------------------------------------------------------------------

Next ==
  \/ \E names \in SUBSET Contexts :
       \/ CtxSame(names \ {live.primary})
       \/ \E c \in Contexts : CtxOther(c, names \ {c})
  \/ CtxUnknown
  \/ \E c \in Contexts : Choose(c) \/ Toggle(c) \/ Joined(c) \/ JoinFails(c)
  \/ Login \/ CloseLogin \/ OpenContexts \/ CloseContexts \/ SwitchTo \/ ConnectFails
  \/ \E kind \in {"top", "page"} : Open(kind)
  \/ \E kind \in {"top", "child"}, s \in Schedulers : Push(kind, s)
  \/ Pop \/ Report
  \/ \E m \in mail : Receive(m)

Spec == Init /\ [][Next]_vars

---------------------------------------------------------------------------
(* Properties. *)

\* What the app waits for is what is in flight ("a second ask while the first is in flight
\* would put the password on the wire twice": start_join).
OneJoinInFlight == joining = {c \in Contexts : wire.joins[c] = 1}

\* Types; and a peer's credential is on the wire once at a time, whatever is asked and
\* however often the session changes meanwhile.
TypeOK ==
  /\ live \in [primary : Contexts \cup {None}, scheduler : 0..schedulers,
               generation : 0..schedulers]
  /\ \A p \in peers : p \in Peer /\ p.scheduler <= schedulers
  /\ \A i \in DOMAIN stack :
       /\ stack[i].kind \in {"top", "page", "child"} /\ stack[i].serial \in 1..views
       /\ stack[i].sub \in Sub \cup {NoSub}
       /\ \A s \in stack[i].peerSubs : s.name \in Contexts /\ s.sub \in Sub
  /\ polled \subseteq Sub /\ shown \subseteq Schedulers
  /\ screen \in Screens /\ prompt \in Contexts \cup {None}
  /\ pending \subseteq Contexts /\ joining \subseteq Contexts
  /\ wire.session \in Contexts \cup {None} /\ wire.joins \in [Contexts -> 0..1]
  /\ \A m \in mail : m.by \in Schedulers /\ m.sub \in Sub \cup {NoSub}
  /\ schedulers \in 0..MaxSchedulers /\ views \in 0..MaxViews
  /\ screen = "connecting" <=> wire.session # None
  /\ OneJoinInFlight

\* Nothing is polled that no view lists: no list outlives its view, its peer or its session
\* (drain_stack, pop, release_peer_subs).
PolledForAView == polled \subseteq StackSubs(stack)

\* A list a view counts on is polled: a view never holds on to the subscription of a peer
\* that is gone, which would keep a peer of that name from being listed again (forget_peer).
PeerSubsArePolled == \A i \in DOMAIN stack : PeerSubs(stack[i]) \subseteq polled

\* What is polled for the peers and what the views believe is polled agree, through joins,
\* drops, switches and every way a view comes and goes.
SubsMatchViews == PolledForAView /\ PeerSubsArePolled

\* Nothing another session read reaches this one's store, though its messages may still be
\* in the channel (session_generation, any_live, and numbers that are never used again).
OwnData == \A s \in shown : s >= live.scheduler

\* "every top-level table view lists it too" (Peer).  A view that is covered when the peer
\* joins, and uncovered by a pop, does not: no run lists this.
PeersInView ==
  screen = "body" /\ stack # <<>> /\ stack[Len(stack)].kind = "top" =>
    PeerNames(peers) \subseteq {s.name : s \in stack[Len(stack)].peerSubs}

\* The session's own context is not joined beside it ("{name} is the session", start_join).
\* A join that was in flight when its context became the session is: no run lists this.
PrimaryIsNoPeer == live.primary \notin PeerNames(peers)
===========================================================================
