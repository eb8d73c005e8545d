------------------------------ MODULE Actions -----------------------------
(***************************************************************************)
(* From the key that names an action to the requests it becomes: the rows  *)
(* it is gathered for, the refusals, the form and the confirm it waits     *)
(* under while the tables move, and the account's permissions that are     *)
(* resolved meanwhile (crates/tui/src/app/actions.rs, app/form_screen.rs,  *)
(* app.rs, crates/core/src/actions.rs, guardrails.rs, can_i.rs).           *)
(*                                                                         *)
(* One top-level table of a session, listed from one peer too while that   *)
(* is joined.  An id of the merged table is a peer's context and a row, or *)
(* a bare row.  What becomes of a request is another module's (Watches).   *)
(***************************************************************************)
EXTENDS Naturals, Sequences, FiniteSets

CONSTANTS
  Primary, Peer, \* the contexts of the session and of its peer
  None,          \* no context: a bare id's
  Held,          \* the rows each of the two may list
  Order,         \* the merged ids in the order the view sorts them
  Acts,          \* actions
  Forms,         \* those that ask for a body
  Asking,        \* those the catalog wants confirmed
  ReadOnly,      \* contexts whose session is read-only
  Denying,       \* contexts a guardrail denies the actions in
  Confirming,    \* contexts a guardrail wants a confirm in
  MAX_BULK,      \* rows one action may touch
  MaxFlight,     \* bound: requests in flight when an action is chosen
  MaxRefused,    \* bound: requests answered 403 in a behaviour
  MaxChanges     \* bound: changes of the account's roles in a behaviour

Sites == {Primary, Peer}

ASSUME ActionsAssumption ==
  /\ None \notin Sites /\ Primary # Peer
  /\ DOMAIN Held = Sites
  /\ Order \in Seq([site : {None, Peer}, row : UNION {Held[s] : s \in Sites}])
  /\ Forms \subseteq Acts /\ Asking \subseteq Acts
  /\ ReadOnly \cup Denying \cup Confirming \subseteq Sites
  /\ MAX_BULK \in Nat \ {0} /\ {MaxFlight, MaxRefused, MaxChanges} \subseteq Nat

VARIABLES
  table,     \* the rows the store holds of each context
  joined,    \* whether the peer is joined
  view,      \* the cursor's place and the marks
  mode,      \* what has the keys: the table, the form or the confirm
  pending,   \* the action chosen and not yet sent, and its rows
  flight,    \* requests sent and not yet answered
  can_i,     \* CanICell
  resolving, \* the resolutions in flight
  far,       \* whether the account holds the role, how often that changed, 403s heard
  asked      \* history: the rows the open confirm names

vars == <<table, joined, view, mode, pending, flight, can_i, resolving, far, asked>>

Ids == {Order[i] : i \in DOMAIN Order}
NoPending == [act |-> None, rows |-> {}]
NoAnswer == [answer |-> "none", after |-> 0]

Init ==
  /\ table = [s \in Sites |-> {}]
  /\ joined = FALSE
  /\ view = [selected |-> 0, marks |-> {}]
  /\ mode = "table" /\ pending = NoPending /\ asked = {}
  /\ flight = {}
  /\ \E answer \in {"none", "yes", "no"} : \* CanICell::restore
       can_i = [index |-> [NoAnswer EXCEPT !.answer = answer], claimed |-> FALSE,
                generation |-> 0]
  /\ resolving = {}
  /\ \E granted \in BOOLEAN : far = [granted |-> granted, changes |-> 0, heard |-> 0]

---------------------------------------------------------------------------
(* The merged table. *)

SiteOf(id) == IF id.site = None THEN Primary ELSE id.site

\* Live::merged.
Shown == {id \in Ids : id.row \in table[SiteOf(id)] /\ (id.site # None => joined)}

\* The rows shown above the n-th place of the order (table::order).
Above(n) == {i \in 1..(n - 1) : Order[i] \in Shown}

\* The row under the cursor, if there is one.
UnderCursor ==
  {Order[i] : i \in {n \in DOMAIN Order : Order[n] \in Shown
                                         /\ Cardinality(Above(n)) = view.selected}}

\* Live::find_row: an id of a peer's names its place; a bare one is the session's own or,
\* failing that, the peer's.
FindRow(id) ==
  IF id.site # None THEN {s \in {id.site} : joined /\ id.row \in table[s]}
  ELSE IF id.row \in table[Primary] THEN {Primary}
  ELSE {s \in {Peer} : joined /\ id.row \in table[s]}

\* App::subjects: the marked rows that are shown, or the row under the cursor.
Subjects == IF view.marks # {} THEN Shown \cap view.marks ELSE UnderCursor

\* The context of the row under the cursor, the session's own where there is no row.
CursorSite == IF \E id \in UnderCursor : id.site = Peer THEN Peer ELSE Primary

---------------------------------------------------------------------------
(* What may stand in the way. *)

\* Mutant: the bulk is not counted.
DeniedUncounted(context, answer, count) == context \in Denying \/ answer = "no"

\* Guardrails::verdict, as far as a rule denies, the roles are missing or the bulk is too
\* big; the account's own answer judges the session's own rows.
Denied(context, answer, count) == context \in Denying \/ answer = "no" \/ count > MAX_BULK

\* App::refusal_for, on the row under the cursor.
Refused(count) ==
  \/ CursorSite \in ReadOnly
  \/ Denied(CursorSite, IF CursorSite = Primary THEN can_i.index.answer ELSE "unknown", count)

\* App::start_can_i: the first to ask starts the resolution.
Claims ==
  IF can_i.claimed THEN UNCHANGED <<can_i, resolving>>
  ELSE /\ can_i' = [can_i EXCEPT !.claimed = TRUE]
       /\ resolving' = resolving \cup
            {[generation |-> can_i.generation, read |-> "none", after |-> far.heard]}

---------------------------------------------------------------------------
(* From the key to the wire. *)

GiveUp == mode' = "table" /\ pending' = NoPending /\ asked' = {}

Max(n, m) == IF n > m THEN n ELSE m

\* run_pending: every row that is still listed goes to the context it is found in, and the
\* marks are spent unless there was none.
RunPending(p) ==
  LET sent == {[row |-> id, site |-> CHOOSE s \in FindRow(id) : TRUE] :
                 id \in {i \in p.rows : FindRow(i) # {}}}
  IN  /\ flight' = flight \cup sent
      /\ view' = IF sent = {} THEN view ELSE [view EXCEPT !.marks = {}]
      /\ GiveUp

\* The refusal, asked again; and the verdict on the session's own name and roles, which
\* drops the action without a word.
Dropped(p) ==
  \/ Refused(Max(Cardinality(p.rows), 1))
  \/ Denied(Primary, can_i.index.answer, Cardinality(p.rows))

NeedsConfirm(p) == p.act \in Asking \/ Primary \in Confirming

\* App::confirm_or_run.
ConfirmOrRun(p) ==
  \/ Dropped(p) /\ GiveUp /\ UNCHANGED <<view, flight>>
  \/ /\ ~Dropped(p) /\ NeedsConfirm(p)
     /\ mode' = "confirm" /\ pending' = p /\ asked' = p.rows
     /\ UNCHANGED <<view, flight>>
  \/ /\ ~Dropped(p) /\ ~NeedsConfirm(p)
     /\ RunPending(p)

\* App::start; a refusal and an empty selection end it, said and journalled.
Start(act) ==
  LET p == [act |-> act, rows |-> Subjects]
      ends == Refused(Max(Cardinality(Subjects), 1)) \/ Subjects = {}
  IN  /\ mode = "table" /\ Cardinality(flight) <= MaxFlight
      /\ Claims
      /\ \/ ends /\ UNCHANGED <<mode, pending, asked, view, flight>>
         \/ /\ ~ends /\ act \in Forms
            /\ mode' = "form" /\ pending' = p
            /\ UNCHANGED <<asked, view, flight>>
         \/ ~ends /\ act \notin Forms /\ ConfirmOrRun(p)
      /\ UNCHANGED <<table, joined, far>>

\* The row a form's body is checked against: the first pending one the session's own
\* table holds under that very id.
FormRows == {id \in pending.rows : id.site = None /\ id.row \in table[Primary]}

\* App::submit_form; without such a row the form stays, and says that it is gone.
SubmitForm ==
  /\ mode = "form" /\ FormRows # {}
  /\ ConfirmOrRun(pending)
  /\ UNCHANGED <<table, joined, can_i, resolving, far>>

\* Mutant: the rows are gathered again when the confirm is answered.
Gathered == [pending EXCEPT !.rows = Subjects]

\* What the confirm sends is what was pending.
Answered == pending

\* handle_confirm.
Confirm ==
  /\ mode = "confirm"
  /\ RunPending(Answered)
  /\ UNCHANGED <<table, joined, can_i, resolving, far>>

Cancel ==
  /\ mode \in {"form", "confirm"}
  /\ GiveUp
  /\ UNCHANGED <<table, joined, view, flight, can_i, resolving, far>>

---------------------------------------------------------------------------
(* The table moves. *)

Clamped(v, rows) ==
  [v EXCEPT !.selected = IF @ < Cardinality(rows) THEN @ ELSE Max(Cardinality(rows), 1) - 1]

\* A page lands or a row is read: any rows of the context may be listed next.
Poll(site) ==
  /\ site = Peer => joined
  /\ \E rows \in SUBSET Held[site] : table' = [table EXCEPT ![site] = rows]
  /\ UNCHANGED <<joined, mode, pending, flight, can_i, resolving, far, asked>>
  /\ view' = Clamped(view, Shown')

\* A join that was under way is answered, whatever has the keys; a peer is dropped from
\* the table or the Contexts screen.  Neither moves the cursor.
Join ==
  /\ ~joined /\ joined' = TRUE
  /\ UNCHANGED <<table, view, mode, pending, flight, can_i, resolving, far, asked>>

Drop ==
  /\ joined /\ mode = "table" /\ joined' = FALSE
  /\ UNCHANGED <<table, view, mode, pending, flight, can_i, resolving, far, asked>>

Move ==
  /\ mode = "table"
  /\ \E i \in 0..(Cardinality(Shown) - 1) : view' = [view EXCEPT !.selected = i]
  /\ UNCHANGED <<table, joined, mode, pending, flight, can_i, resolving, far, asked>>

\* toggle_mark, which moves one row down.
Mark ==
  /\ mode = "table"
  /\ \E id \in UnderCursor :
       view' = Clamped([selected |-> view.selected + 1,
                        marks |-> IF id \in view.marks THEN view.marks \ {id}
                                  ELSE view.marks \cup {id}], Shown)
  /\ UNCHANGED <<table, joined, mode, pending, flight, can_i, resolving, far, asked>>

ClearMarks ==
  /\ mode = "table" /\ view.marks # {}
  /\ view' = [view EXCEPT !.marks = {}]
  /\ UNCHANGED <<table, joined, mode, pending, flight, can_i, resolving, far, asked>>

---------------------------------------------------------------------------
(* The account. *)

\* The menu and the picker start the resolution; `:can-i` too.
OpenMenu ==
  /\ mode = "table"
  /\ Claims
  /\ UNCHANGED <<table, joined, view, mode, pending, flight, far, asked>>

\* The lists are read; one that cannot be is an answer too.
Read(r) ==
  /\ r \in resolving /\ r.read = "none"
  /\ \E answer \in {IF far.granted THEN "yes" ELSE "no", "unknown"} :
       resolving' = (resolving \ {r}) \cup {[r EXCEPT !.read = answer]}
  /\ UNCHANGED <<table, joined, view, mode, pending, flight, can_i, far, asked>>

\* Mutant: whatever is resolved is stored.
IsCurrent(r) == TRUE

\* CanICell::set drops what was claimed under another generation.
IsClaimed(r) == r.generation = can_i.generation

Resolved(r) ==
  /\ r \in resolving /\ r.read # "none"
  /\ resolving' = resolving \ {r}
  /\ can_i' = IF IsClaimed(r)
                THEN [can_i EXCEPT !.index = [answer |-> r.read, after |-> r.after]] ELSE can_i
  /\ UNCHANGED <<table, joined, view, mode, pending, flight, far, asked>>

RolesChange ==
  /\ far.changes < MaxChanges
  /\ far' = [far EXCEPT !.granted = ~@, !.changes = @ + 1]
  /\ UNCHANGED <<table, joined, view, mode, pending, flight, can_i, resolving, asked>>

\* Mutant: a new generation goes on as claimed.
InvalidatedClaimed ==
  [can_i EXCEPT !.index = [NoAnswer EXCEPT !.after = far.heard + 1], !.generation = @ + 1]

\* CanICell::invalidate.
Invalidated ==
  [index |-> [NoAnswer EXCEPT !.after = far.heard + 1], claimed |-> FALSE,
   generation |-> can_i.generation + 1]

\* A request is answered; one that is forbidden disproves what the account was thought to
\* hold.
Answer(f) ==
  /\ f \in flight
  /\ flight' = flight \ {f}
  /\ \/ UNCHANGED <<can_i, far>>
     \/ /\ far.heard < MaxRefused /\ (f.site = Primary => ~far.granted)
        /\ can_i' = Invalidated
        /\ far' = [far EXCEPT !.heard = @ + 1]
  /\ UNCHANGED <<table, joined, view, mode, pending, resolving, asked>>

---------------------------------------------------------------------------

Next ==
  \/ \E act \in Acts : Start(act)
  \/ SubmitForm \/ Confirm \/ Cancel
  \/ \E s \in Sites : Poll(s)
  \/ Join \/ Drop \/ Move \/ Mark \/ ClearMarks
  \/ OpenMenu \/ RolesChange
  \/ \E r \in resolving : Read(r) \/ Resolved(r)
  \/ \E f \in flight : Answer(f)

\* The lookups are answered, whatever by.
Fairness == WF_vars(\E r \in resolving : Read(r)) /\ WF_vars(\E r \in resolving : Resolved(r))

Spec == Init /\ [][Next]_vars /\ Fairness

---------------------------------------------------------------------------
(* Properties. *)

Requests == [row : Ids, site : Sites]
Answers == {"none", "yes", "no", "unknown"}

TypeOK ==
  /\ \A s \in Sites : table[s] \subseteq Held[s]
  /\ joined \in BOOLEAN
  /\ view.selected \in Nat /\ view.marks \subseteq Ids
  /\ mode \in {"table", "form", "confirm"}
  /\ pending.act \in Acts \cup {None} /\ pending.rows \subseteq Ids
  /\ Cardinality(pending.rows) <= MAX_BULK
  /\ (mode = "table") = (pending = NoPending)
  /\ flight \subseteq Requests /\ asked \subseteq Ids
  /\ can_i.index.answer \in Answers /\ can_i.index.after \in 0..MaxRefused
  /\ can_i.claimed \in BOOLEAN /\ can_i.generation \in 0..MaxRefused
  /\ \A r \in resolving : r.generation <= can_i.generation /\ r.read \in Answers
  /\ far.granted \in BOOLEAN /\ far.heard = can_i.generation

Sent == flight' \ flight

\* What is sent when a confirm is answered is what its question named, whatever the polls,
\* a join or the cursor did to the table behind it; and a row that was listed from a peer is
\* acted on there or nowhere, even when the session comes to hold a row of the same extId
\* ("What `:delete` or `d` resolved to, kept until the confirm answers": PendingAction; "the
\* row that acts on it has to say which": Live::merged).
SentWasAsked ==
  [][\A f \in Sent : /\ mode = "confirm" => f.row \in asked
                     /\ f.row.site # None => f.site = f.row.site]_vars

\* The permissions in use were asked for after the last 403: a lookup that was under way
\* when one came does not bring back what it disproved (CanICell::invalidate).
RefutedForgotten == can_i.index.answer # "none" => can_i.index.after = far.heard

\* Permissions that are being looked up are known in the end, or given up for another
\* lookup: nobody is left waiting on one that was dropped (CanICell::claim).
LookupEnds ==
  can_i.claimed /\ can_i.index.answer = "none" ~>
    ~can_i.claimed \/ can_i.index.answer # "none"

\* Every row an action is sent for goes to a context that does not refuse it, and does not
\* want a confirm that was never given.  The code judges the row under the cursor and the
\* session's name alone.
JudgedByOwnContext ==
  [][\A f \in Sent : /\ f.site \notin ReadOnly \cup Denying
                     /\ f.site \in Confirming => mode = "confirm"]_vars

\* A form can be submitted so long as one of the rows it is for is still listed.  The code
\* looks for them in the session's own table alone.
FormAccepts ==
  mode = "form" /\ (\E id \in pending.rows : FindRow(id) # {}) => FormRows # {}
===========================================================================
