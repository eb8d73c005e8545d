---------------------------- MODULE ActionsProofs --------------------------
(***************************************************************************)
(* Theorems about Actions, for every set of rows, contexts and actions,    *)
(* and any number of lookups and refusals.                                 *)
(***************************************************************************)
EXTENDS Actions, FiniteSetTheorems, TLAPS

Index == [answer : Answers, after : Nat]

\* The records the permissions are kept in.
CellOK ==
  /\ can_i \in [index : Index, claimed : BOOLEAN, generation : Nat]
  /\ resolving \subseteq [generation : Nat, read : Answers, after : Nat]
  /\ "heard" \in DOMAIN far /\ far.heard \in Nat

\* A generation is a 403, and what belongs to the current one was asked for since.
LookupInv ==
  /\ CellOK
  /\ can_i.generation = far.heard
  /\ can_i.index.after = far.heard
  /\ \A r \in resolving : /\ r.generation <= can_i.generation
                          /\ r.generation = can_i.generation => r.after = far.heard

\* Nothing is being looked up at first, and no 403 has come.
LEMMA LookupInit == Init => LookupInv
<1> SUFFICES ASSUME Init PROVE LookupInv
  OBVIOUS
<1>1. resolving = {} /\ "heard" \in DOMAIN far /\ far.heard = 0
  BY DEF Init
<1>2. PICK answer \in {"none", "yes", "no"} :
        can_i = [index |-> [NoAnswer EXCEPT !.answer = answer], claimed |-> FALSE,
                 generation |-> 0]
  BY DEF Init
<1>3. [NoAnswer EXCEPT !.answer = answer] = [answer |-> answer, after |-> 0]
  BY DEF NoAnswer
<1>4. QED
  BY <1>1, <1>2, <1>3 DEF LookupInv, CellOK, Index, Answers

\* The first to ask starts a lookup of the current generation (App::start_can_i).
LEMMA ClaimsKeep ==
  ASSUME LookupInv, Claims, UNCHANGED far PROVE LookupInv'
<1>1. CASE can_i.claimed
  BY <1>1 DEF Claims, LookupInv, CellOK
<1>2. CASE ~can_i.claimed
  <2> DEFINE new == [generation |-> can_i.generation, read |-> "none", after |-> far.heard]
  <2>1. can_i' = [can_i EXCEPT !.claimed = TRUE] /\ resolving' = resolving \cup {new}
    BY <1>2 DEF Claims
  <2>2. /\ can_i' \in [index : Index, claimed : BOOLEAN, generation : Nat]
        /\ can_i'.index = can_i.index /\ can_i'.generation = can_i.generation
    BY <2>1 DEF LookupInv, CellOK
  <2>3. new \in [generation : Nat, read : Answers, after : Nat]
    BY DEF LookupInv, CellOK, Answers
  <2>4. /\ new.generation <= can_i.generation
        /\ new.generation = can_i.generation => new.after = far.heard
    BY DEF LookupInv, CellOK
  <2> HIDE DEF new
  <2>5. QED
    BY <2>1, <2>2, <2>3, <2>4 DEF LookupInv, CellOK
<1>3. QED
  BY <1>1, <1>2

\* The lists are read, and the lookup keeps its generation.
LEMMA ReadKeep ==
  ASSUME LookupInv, NEW r \in resolving, Read(r) PROVE LookupInv'
<1>1. PICK answer \in Answers :
        resolving' = (resolving \ {r}) \cup {[r EXCEPT !.read = answer]}
  BY DEF Read, Answers
<1>2. /\ [r EXCEPT !.read = answer] \in [generation : Nat, read : Answers, after : Nat]
      /\ [r EXCEPT !.read = answer].generation = r.generation
      /\ [r EXCEPT !.read = answer].after = r.after
  BY DEF LookupInv, CellOK
<1>3. UNCHANGED <<can_i, far>>
  BY DEF Read
<1>4. QED
  BY <1>1, <1>2, <1>3 DEF LookupInv, CellOK

\* What is resolved is stored if its generation is the current one (CanICell::set).
LEMMA ResolvedKeep ==
  ASSUME LookupInv, NEW r \in resolving, Resolved(r) PROVE LookupInv'
<1>1. r \in [generation : Nat, read : Answers, after : Nat]
  BY DEF LookupInv, CellOK
<1>2. resolving' = resolving \ {r} /\ UNCHANGED far
  BY DEF Resolved
<1>3. CASE IsClaimed(r)
  <2>1. can_i' = [can_i EXCEPT !.index = [answer |-> r.read, after |-> r.after]]
    BY <1>3 DEF Resolved
  <2>2. r.after = far.heard
    BY <1>3 DEF IsClaimed, LookupInv
  <2>3. QED
    BY <1>1, <1>2, <2>1, <2>2 DEF LookupInv, CellOK, Index
<1>4. CASE ~IsClaimed(r)
  <2>1. UNCHANGED can_i
    BY <1>4 DEF Resolved
  <2>2. QED
    BY <1>2, <2>1 DEF LookupInv, CellOK
<1>5. QED
  BY <1>3, <1>4

\* A 403 takes what is known away and begins a generation nobody has claimed
\* (CanICell::invalidate).
LEMMA AnswerKeep ==
  ASSUME LookupInv, NEW f \in flight, Answer(f) PROVE LookupInv'
<1>1. UNCHANGED resolving
  BY DEF Answer
<1>2. CASE UNCHANGED <<can_i, far>>
  BY <1>1, <1>2 DEF LookupInv, CellOK
<1>3. CASE can_i' = Invalidated /\ far' = [far EXCEPT !.heard = @ + 1]
  <2>1. [NoAnswer EXCEPT !.after = far.heard + 1] = [answer |-> "none", after |-> far.heard + 1]
    BY DEF NoAnswer
  <2>2. /\ can_i'.generation = can_i.generation + 1
        /\ can_i'.index.after = far.heard + 1 /\ far'.heard = far.heard + 1
    BY <1>3, <2>1 DEF Invalidated, LookupInv, CellOK
  <2>3. CellOK'
    BY <1>1, <1>3, <2>1 DEF Invalidated, LookupInv, CellOK, Index, Answers
  <2>4. QED
    BY <1>1, <2>2, <2>3 DEF LookupInv, CellOK
<1>4. QED
  BY <1>2, <1>3 DEF Answer

\* One step per action; those that leave the permissions alone together.
LEMMA LookupStep == LookupInv /\ [Next]_vars => LookupInv'
<1> SUFFICES ASSUME LookupInv, [Next]_vars PROVE LookupInv'
  OBVIOUS
<1>1. ASSUME NEW act \in Acts, Start(act) PROVE LookupInv'
  BY <1>1, ClaimsKeep DEF Start
<1>2. CASE OpenMenu
  BY <1>2, ClaimsKeep DEF OpenMenu
<1>3. ASSUME NEW r \in resolving, Read(r) \/ Resolved(r) PROVE LookupInv'
  BY <1>3, ReadKeep, ResolvedKeep
<1>4. ASSUME NEW f \in flight, Answer(f) PROVE LookupInv'
  BY <1>4, AnswerKeep
<1>5. CASE RolesChange
  <2>1. DOMAIN far' = DOMAIN far /\ far'.heard = far.heard
    BY <1>5 DEF RolesChange, LookupInv, CellOK
  <2>2. QED
    BY <1>5, <2>1 DEF RolesChange, LookupInv, CellOK
<1>6. CASE UNCHANGED <<can_i, resolving, far>>
  BY <1>6 DEF LookupInv, CellOK
<1>7. CASE SubmitForm \/ Confirm \/ Cancel \/ Join \/ Drop \/ Move \/ Mark \/ ClearMarks
  BY <1>6, <1>7 DEF SubmitForm, Confirm, Cancel, Join, Drop, Move, Mark, ClearMarks
<1>8. ASSUME NEW s \in Sites, Poll(s) PROVE LookupInv'
  BY <1>6, <1>8 DEF Poll
<1>9. CASE UNCHANGED vars
  BY <1>6, <1>9 DEF vars
<1>10. QED
  BY <1>1, <1>2, <1>3, <1>4, <1>5, <1>7, <1>8, <1>9 DEF Next

\* The permissions in use were asked for after the last 403, however many lookups were under
\* way when it came and in whatever order they end (CanICell::set, CanICell::invalidate).
THEOREM NoRefutedPermission == Spec => []RefutedForgotten
<1>1. LookupInv => RefutedForgotten
  BY DEF LookupInv, RefutedForgotten
<1>2. QED
  BY <1>1, LookupInit, LookupStep, PTL DEF Spec
---------------------------------------------------------------------------
(* What is sent. *)

\* An open confirm names the rows that are pending.
Named == mode = "confirm" => asked = pending.rows

\* A request is of a row the confirm names, and goes where the row's id says.
AsAsked(f) ==
  /\ mode = "confirm" => f.row \in asked
  /\ f.row.site # None => f.site = f.row.site

\* An id that names a context is found there or nowhere (Live::find_row).
LEMMA FoundThere ==
  ASSUME NEW id, id.site # None, NEW s \in FindRow(id) PROVE s = id.site
BY DEF FindRow

\* What is sent is of the pending rows, and where they are found (run_pending).
LEMMA PendingSent ==
  ASSUME NEW p, RunPending(p), NEW f \in Sent
  PROVE  /\ f.row \in p.rows
         /\ f.row.site # None => f.site = f.row.site
<1>1. f \in {[row |-> id, site |-> CHOOSE s \in FindRow(id) : TRUE] :
               id \in {i \in p.rows : FindRow(i) # {}}}
  BY DEF RunPending, Sent
<1>2. PICK id \in p.rows :
        FindRow(id) # {} /\ f = [row |-> id, site |-> CHOOSE s \in FindRow(id) : TRUE]
  BY <1>1
<1>3. PICK t : t = CHOOSE s \in FindRow(id) : TRUE
  OBVIOUS
<1>4. t \in FindRow(id)
  BY <1>2, <1>3
<1>5. f.row = id /\ f.site = t
  BY <1>2, <1>3
<1>6. QED
  BY <1>4, <1>5, FoundThere

\* A run leaves the table with the keys.
LEMMA RunKeeps == ASSUME NEW p, RunPending(p) PROVE Named'
BY DEF RunPending, GiveUp, Named

\* Confirming or running what was chosen: what it asks about is what is pending, and what it
\* sends at once needed no confirm (App::confirm_or_run).
LEMMA ChosenKeeps ==
  ASSUME NEW p, ConfirmOrRun(p), mode # "confirm"
  PROVE  Named' /\ \A f \in Sent : AsAsked(f)
<1>1. CASE GiveUp /\ UNCHANGED flight
  BY <1>1 DEF GiveUp, Named, Sent
<1>2. CASE pending' = p /\ asked' = p.rows /\ UNCHANGED flight
  BY <1>2 DEF Named, Sent
<1>3. CASE RunPending(p)
  BY <1>3, PendingSent, RunKeeps DEF AsAsked
<1>4. QED
  BY <1>1, <1>2, <1>3 DEF ConfirmOrRun

\* A confirm that is answered sends what it asked about (handle_confirm).
LEMMA ConfirmSends ==
  ASSUME Named, Confirm PROVE Named' /\ \A f \in Sent : AsAsked(f)
<1>1. RunPending(pending) /\ mode = "confirm"
  BY DEF Confirm, Answered
<1>2. asked = pending.rows
  BY <1>1 DEF Named
<1>3. QED
  BY <1>1, <1>2, PendingSent, RunKeeps DEF AsAsked

\* What sends nothing, and leaves the confirm as it is or closes it.
LEMMA NothingSent ==
  ASSUME Named, flight' \subseteq flight,
         UNCHANGED <<mode, pending, asked>> \/ mode' # "confirm"
  PROVE  Named' /\ \A f \in Sent : AsAsked(f)
BY DEF Named, Sent

\* One step per action.
LEMMA SentStep ==
  ASSUME Named, [Next]_vars PROVE Named' /\ \A f \in Sent : AsAsked(f)
<1>1. ASSUME NEW act \in Acts, Start(act)
      PROVE  Named' /\ \A f \in Sent : AsAsked(f)
  <2>1. mode = "table"
    BY <1>1 DEF Start
  <2>2. CASE UNCHANGED <<mode, pending, asked, flight>>
    BY <2>2, NothingSent
  <2>3. CASE mode' = "form" /\ UNCHANGED flight
    BY <2>3, NothingSent
  <2>4. CASE \E p : ConfirmOrRun(p)
    BY <2>1, <2>4, ChosenKeeps
  <2>5. QED
    BY <1>1, <2>2, <2>3, <2>4 DEF Start
<1>2. CASE SubmitForm
  BY <1>2, ChosenKeeps DEF SubmitForm
<1>3. CASE Confirm
  BY <1>3, ConfirmSends
<1>4. CASE Cancel
  BY <1>4, NothingSent DEF Cancel, GiveUp
<1>5. ASSUME NEW s \in Sites, Poll(s)
      PROVE  Named' /\ \A f \in Sent : AsAsked(f)
  BY <1>5, NothingSent DEF Poll
<1>6. CASE Join \/ Drop \/ Move \/ Mark \/ ClearMarks \/ OpenMenu \/ RolesChange
  <2>1. UNCHANGED <<mode, pending, asked, flight>>
    BY <1>6 DEF Join, Drop, Move, Mark, ClearMarks, OpenMenu, RolesChange
  <2>2. QED
    BY <2>1, NothingSent
<1>7. ASSUME NEW r \in resolving, Read(r) \/ Resolved(r)
      PROVE  Named' /\ \A f \in Sent : AsAsked(f)
  BY <1>7, NothingSent DEF Read, Resolved
<1>8. ASSUME NEW q \in flight, Answer(q)
      PROVE  Named' /\ \A f \in Sent : AsAsked(f)
  <2>1. flight' = flight \ {q} /\ UNCHANGED <<mode, pending, asked>>
    BY <1>8 DEF Answer
  <2>2. QED
    BY <2>1, NothingSent
<1>9. CASE UNCHANGED vars
  BY <1>9, NothingSent DEF vars
<1>10. QED
  BY <1>1, <1>2, <1>3, <1>4, <1>5, <1>6, <1>7, <1>8, <1>9 DEF Next

\* What an answered confirm sends is what its question named, whatever became of the table,
\* the cursor and the marks behind it; and what was listed from a peer is acted on there or
\* nowhere (PendingAction, Live::find_row).
THEOREM SentAsConfirmed == Spec => SentWasAsked
<1>1. Init => Named
  BY DEF Init, Named
<1>2. Named /\ [Next]_vars => Named'
  BY SentStep
<1>3. Named /\ [Next]_vars =>
        [\A f \in Sent : /\ mode = "confirm" => f.row \in asked
                         /\ f.row.site # None => f.site = f.row.site]_vars
  BY SentStep DEF AsAsked
<1>4. QED
  BY <1>1, <1>2, <1>3, PTL DEF Spec, SentWasAsked
---------------------------------------------------------------------------
(* Types. *)

Pendings == [act : Acts \cup {None}, rows : SUBSET Ids]

\* What is listed, and where the cursor and the marks are.
ListedOK ==
  /\ DOMAIN table = Sites /\ (\A s \in Sites : table[s] \subseteq Held[s])
  /\ joined \in BOOLEAN /\ view \in [selected : Nat, marks : SUBSET Ids]

\* What is chosen, asked about and sent.
ChosenOK ==
  /\ mode \in {"table", "form", "confirm"}
  /\ pending \in Pendings /\ Cardinality(pending.rows) <= MAX_BULK
  /\ mode = "table" <=> pending = NoPending
  /\ flight \subseteq Requests /\ asked \subseteq Ids

\* What is known of the account, and looked up; a generation is a 403 heard.
AccountOK ==
  /\ far \in [granted : BOOLEAN, changes : Nat, heard : 0..MaxRefused]
  /\ can_i \in [index : [answer : Answers, after : 0..MaxRefused], claimed : BOOLEAN,
                generation : {far.heard}]
  /\ resolving \subseteq [generation : 0..far.heard, read : Answers, after : 0..far.heard]

Typed == ListedOK /\ ChosenOK /\ AccountOK

\* What is in a sequence is of its set.
LEMMA Elements == ASSUME NEW S, NEW s \in Seq(S) PROVE \A i \in DOMAIN s : s[i] \in S
OBVIOUS

\* The ids are finitely many, and their places are the two contexts or none.
LEMMA IdsAre ==
  /\ IsFiniteSet(Ids) /\ \A id \in Ids : id.site \in {None, Peer}
  /\ MAX_BULK \in Nat \ {0} /\ MaxRefused \in Nat /\ Primary # Peer
<1>1. /\ Order \in Seq([site : {None, Peer}, row : UNION {Held[s] : s \in Sites}])
      /\ MAX_BULK \in Nat \ {0} /\ MaxRefused \in Nat /\ Primary # Peer
  BY ActionsAssumption
<1>2. DOMAIN Order = 1..Len(Order) /\ Len(Order) \in Nat
  BY <1>1
<1>3. IsFiniteSet(DOMAIN Order)
  BY <1>2, FS_Interval
<1>4. Order \in [DOMAIN Order -> Ids]
  BY <1>1 DEF Ids
<1>5. Order \in Surjection(DOMAIN Order, Ids)
  BY <1>4 DEF Surjection, Ids
<1>6. IsFiniteSet(Ids)
  BY <1>3, <1>5, FS_Surjection
<1>7. \A id \in Ids : id.site \in {None, Peer}
  <2> DEFINE Id == [site : {None, Peer}, row : UNION {Held[s] : s \in Sites}]
  <2>1. \A i \in DOMAIN Order : Order[i] \in Id
    BY <1>1, Elements
  <2>2. Ids \subseteq Id
    BY <2>1 DEF Ids
  <2> QED
    BY <2>2
<1> QED
  BY <1>1, <1>6, <1>7

\* Any set of ids has a number.
LEMMA Counted == ASSUME NEW S \in SUBSET Ids PROVE Cardinality(S) \in Nat
BY IdsAre, FS_Subset, FS_CardinalityType

\* What is shown and what is chosen are ids (Live::merged, App::subjects).
LEMMA SubjectsAre == Shown \subseteq Ids /\ UnderCursor \subseteq Ids /\ Subjects \subseteq Ids
BY DEF Shown, UnderCursor, Subjects, Ids

\* A row is found at a context, if at all (Live::find_row).
LEMMA FoundAt == ASSUME NEW id \in Ids PROVE FindRow(id) \subseteq Sites
BY IdsAre DEF FindRow, Sites

\* The cursor stays in a table that became shorter (Live::clamp_selection).
LEMMA ClampedIs ==
  ASSUME NEW v \in [selected : Nat, marks : SUBSET Ids], NEW rows \in SUBSET Ids
  PROVE  Clamped(v, rows) \in [selected : Nat, marks : SUBSET Ids]
<1>1. Cardinality(rows) \in Nat
  BY Counted
<1>2. Max(Cardinality(rows), 1) - 1 \in Nat
  BY <1>1 DEF Max
<1> QED
  BY <1>1, <1>2 DEF Clamped

\* Nothing is listed, chosen or sent at first.
LEMMA TypesInit == Init => Typed
<1> SUFFICES ASSUME Init PROVE Typed
  OBVIOUS
<1>1. ListedOK
  BY DEF Init, ListedOK
<1>2. ChosenOK
  <2>1. pending = NoPending /\ NoPending \in Pendings /\ Cardinality({}) = 0
    BY FS_EmptySet DEF Init, NoPending, Pendings
  <2> QED
    BY <2>1, IdsAre DEF Init, ChosenOK, NoPending
<1>3. AccountOK
  <2>1. PICK answer \in {"none", "yes", "no"} :
          can_i = [index |-> [NoAnswer EXCEPT !.answer = answer], claimed |-> FALSE,
                   generation |-> 0]
    BY DEF Init
  <2>2. [NoAnswer EXCEPT !.answer = answer] = [answer |-> answer, after |-> 0]
    BY DEF NoAnswer
  <2>3. far \in [granted : BOOLEAN, changes : {0}, heard : {0}] /\ resolving = {}
    BY DEF Init
  <2> QED
    BY <2>1, <2>2, <2>3, IdsAre DEF AccountOK, Answers
<1> QED
  BY <1>1, <1>2, <1>3 DEF Typed

\* What is sent is of ids and goes to a context (App::run_pending).
LEMMA RunTypes ==
  ASSUME ListedOK, ChosenOK, NEW p \in Pendings, RunPending(p), UNCHANGED <<table, joined>>
  PROVE  ListedOK' /\ ChosenOK'
<1> DEFINE sent == {[row |-> id, site |-> CHOOSE s \in FindRow(id) : TRUE] :
                      id \in {i \in p.rows : FindRow(i) # {}}}
<1>1. /\ flight' = flight \cup sent
      /\ view' = IF sent = {} THEN view ELSE [view EXCEPT !.marks = {}]
      /\ mode' = "table" /\ pending' = NoPending /\ asked' = {}
  BY DEF RunPending, GiveUp
<1>2. sent \subseteq Requests
  <2> SUFFICES ASSUME NEW id \in p.rows, FindRow(id) # {}
               PROVE  [row |-> id, site |-> CHOOSE s \in FindRow(id) : TRUE] \in Requests
    OBVIOUS
  <2>1. id \in Ids
    BY DEF Pendings
  <2>2. (CHOOSE s \in FindRow(id) : TRUE) \in Sites
    BY <2>1, FoundAt
  <2> QED
    BY <2>1, <2>2 DEF Requests
<1> HIDE DEF sent
<1>3. ListedOK'
  BY <1>1 DEF ListedOK
<1>4. NoPending \in Pendings /\ Cardinality(NoPending.rows) = 0
  BY FS_EmptySet DEF NoPending, Pendings
<1>5. ChosenOK'
  BY <1>1, <1>2, <1>4, IdsAre DEF ChosenOK
<1> QED
  BY <1>3, <1>5

\* Giving up leaves nothing pending.
LEMMA GivenUp == ASSUME ChosenOK, GiveUp, UNCHANGED flight PROVE ChosenOK'
<1>1. NoPending \in Pendings /\ Cardinality(NoPending.rows) = 0
  BY FS_EmptySet DEF NoPending, Pendings
<1> QED
  BY <1>1, IdsAre DEF ChosenOK, GiveUp

\* An action that is not refused is for no more rows than a bulk (Guardrails::verdict).
LEMMA NotTooMany ==
  ASSUME NEW p \in Pendings, ~Refused(Max(Cardinality(p.rows), 1))
  PROVE  Cardinality(p.rows) <= MAX_BULK
<1>1. Cardinality(p.rows) \in Nat
  BY Counted DEF Pendings
<1>2. ~(Max(Cardinality(p.rows), 1) > MAX_BULK)
  BY DEF Refused, Denied
<1> QED
  BY <1>1, <1>2, IdsAre DEF Max

\* What is confirmed or run is judged first (App::confirm_or_run).
LEMMA ChosenTypes ==
  ASSUME ListedOK, ChosenOK, NEW p \in Pendings, p.rows # {}, ConfirmOrRun(p),
         UNCHANGED <<table, joined>>
  PROVE  ListedOK' /\ ChosenOK'
<1>1. CASE GiveUp /\ UNCHANGED <<view, flight>>
  BY <1>1, GivenUp DEF ListedOK
<1>2. CASE /\ ~Dropped(p) /\ mode' = "confirm" /\ pending' = p /\ asked' = p.rows
           /\ UNCHANGED <<view, flight>>
  <2>1. Cardinality(p.rows) <= MAX_BULK
    BY <1>2, NotTooMany DEF Dropped
  <2>2. p # NoPending /\ p.rows \subseteq Ids
    BY DEF NoPending, Pendings
  <2> QED
    BY <1>2, <2>1, <2>2 DEF ListedOK, ChosenOK
<1>3. CASE RunPending(p)
  BY <1>3, RunTypes
<1> QED
  BY <1>1, <1>2, <1>3 DEF ConfirmOrRun

\* The first to ask is in step with what is known (App::start_can_i).
LEMMA ClaimsTypes == ASSUME AccountOK, Claims, UNCHANGED far PROVE AccountOK'
<1>1. CASE can_i.claimed
  BY <1>1 DEF Claims, AccountOK
<1>2. CASE ~can_i.claimed
  <2> DEFINE new == [generation |-> can_i.generation, read |-> "none", after |-> far.heard]
  <2>1. can_i' = [can_i EXCEPT !.claimed = TRUE] /\ resolving' = resolving \cup {new}
    BY <1>2 DEF Claims
  <2>2. far.heard \in Nat /\ far.heard \in 0..far.heard
    BY IdsAre DEF AccountOK
  <2>3. new \in [generation : 0..far.heard, read : Answers, after : 0..far.heard]
    BY <2>2 DEF AccountOK, Answers
  <2> HIDE DEF new
  <2> QED
    BY <2>1, <2>3 DEF AccountOK
<1> QED
  BY <1>1, <1>2

\* From the key: the action is dropped, waits for its form or its confirm, or runs.
LEMMA StartTypes == ASSUME Typed, NEW act \in Acts, Start(act) PROVE Typed'
<1> DEFINE p == [act |-> act, rows |-> Subjects]
<1>1. AccountOK'
  BY ClaimsTypes DEF Start, Typed
<1>2. p \in Pendings /\ p.rows = Subjects
  BY SubjectsAre DEF Pendings
<1>3. CASE UNCHANGED <<mode, pending, asked, view, flight, table, joined>>
  BY <1>1, <1>3 DEF Typed, ListedOK, ChosenOK
<1>4. CASE /\ ~Refused(Max(Cardinality(Subjects), 1)) /\ Subjects # {}
           /\ mode' = "form" /\ pending' = p /\ UNCHANGED <<asked, view, flight, table, joined>>
  <2>1. Cardinality(p.rows) <= MAX_BULK /\ p # NoPending
    BY <1>2, <1>4, NotTooMany DEF NoPending
  <2> QED
    BY <1>1, <1>2, <1>4, <2>1 DEF Typed, ListedOK, ChosenOK
<1>5. CASE Subjects # {} /\ ConfirmOrRun(p) /\ UNCHANGED <<table, joined>>
  BY <1>1, <1>2, <1>5, ChosenTypes DEF Typed
<1> QED
  BY <1>3, <1>4, <1>5 DEF Start

\* The table moves behind whatever has the keys (App::apply, Live::clamp_selection).
LEMMA MovesTypes ==
  ASSUME ListedOK, \/ \E s \in Sites : Poll(s)
                   \/ Join \/ Drop \/ Move \/ Mark \/ ClearMarks
  PROVE  ListedOK'
<1>1. view \in [selected : Nat, marks : SUBSET Ids]
  BY DEF ListedOK
<1>2. ASSUME NEW s \in Sites, Poll(s) PROVE ListedOK'
  <2>1. PICK rows \in SUBSET Held[s] : table' = [table EXCEPT ![s] = rows]
    BY <1>2 DEF Poll
  <2>2. DOMAIN table' = Sites /\ \A t \in Sites : table'[t] \subseteq Held[t]
    BY <2>1 DEF ListedOK
  <2>3. view' = Clamped(view, Shown') /\ UNCHANGED joined
    BY <1>2 DEF Poll
  <2>4. Shown' \subseteq Ids
    BY DEF Shown, Ids
  <2> QED
    BY <1>1, <2>2, <2>3, <2>4, ClampedIs DEF ListedOK
<1>3. CASE Join \/ Drop
  BY <1>3 DEF Join, Drop, ListedOK
<1>4. CASE Move
  <2>1. PICK i \in 0..(Cardinality(Shown) - 1) : view' = [view EXCEPT !.selected = i]
    BY <1>4 DEF Move
  <2>2. i \in Nat
    BY SubjectsAre, Counted
  <2> QED
    BY <1>1, <1>4, <2>1, <2>2 DEF Move, ListedOK
<1>5. CASE Mark
  <2>1. PICK id \in UnderCursor :
          view' = Clamped([selected |-> view.selected + 1,
                           marks |-> IF id \in view.marks THEN view.marks \ {id}
                                     ELSE view.marks \cup {id}], Shown)
    BY <1>5 DEF Mark
  <2>2. [selected |-> view.selected + 1,
         marks |-> IF id \in view.marks THEN view.marks \ {id} ELSE view.marks \cup {id}]
          \in [selected : Nat, marks : SUBSET Ids]
    BY <1>1, SubjectsAre
  <2>3. view' \in [selected : Nat, marks : SUBSET Ids]
    BY <2>1, <2>2, SubjectsAre, ClampedIs
  <2> QED
    BY <1>5, <2>3 DEF Mark, ListedOK
<1>6. CASE ClearMarks
  BY <1>1, <1>6 DEF ClearMarks, ListedOK
<1> QED
  BY <1>2, <1>3, <1>4, <1>5, <1>6

\* What is known and looked up stays in step with the 403s heard (CanICell::set,
\* CanICell::invalidate).
LEMMA AccountTypes ==
  ASSUME AccountOK, \/ RolesChange
                    \/ \E r \in resolving : Read(r) \/ Resolved(r)
                    \/ \E f \in flight : Answer(f)
  PROVE  AccountOK'
<1>0. far.heard \in Nat /\ far.heard <= MaxRefused /\ MaxRefused \in Nat
  BY IdsAre DEF AccountOK
<1>1. CASE RolesChange
  <2> DEFINE g == ~far.granted
  <2>1. far' = [far EXCEPT !.granted = g, !.changes = @ + 1] /\ UNCHANGED <<can_i, resolving>>
    BY <1>1 DEF RolesChange
  <2>2. g \in BOOLEAN
    OBVIOUS
  <2> HIDE DEF g
  <2>3. far.changes + 1 \in Nat /\ far.heard \in 0..MaxRefused
    BY DEF AccountOK
  <2>4. far' = [granted |-> g, changes |-> far.changes + 1, heard |-> far.heard]
    BY <2>1 DEF AccountOK
  <2>5. /\ far' \in [granted : BOOLEAN, changes : Nat, heard : 0..MaxRefused]
        /\ far'.heard = far.heard
    BY <2>2, <2>3, <2>4
  <2> QED
    BY <2>1, <2>5 DEF AccountOK
<1>2. ASSUME NEW r \in resolving, Read(r) PROVE AccountOK'
  <2>1. PICK answer \in Answers :
          resolving' = (resolving \ {r}) \cup {[r EXCEPT !.read = answer]}
    BY <1>2 DEF Read, Answers
  <2>2. [r EXCEPT !.read = answer]
          \in [generation : 0..far.heard, read : Answers, after : 0..far.heard]
    BY DEF AccountOK
  <2> QED
    BY <1>2, <2>1, <2>2 DEF Read, AccountOK
<1>3. ASSUME NEW r \in resolving, Resolved(r) PROVE AccountOK'
  <2>1. r \in [generation : 0..far.heard, read : Answers, after : 0..far.heard]
    BY DEF AccountOK
  <2>2. r.after \in 0..MaxRefused
    BY <1>0, <2>1
  <2>3. \/ can_i' = [can_i EXCEPT !.index = [answer |-> r.read, after |-> r.after]]
        \/ UNCHANGED can_i
    BY <1>3 DEF Resolved
  <2>4. [answer |-> r.read, after |-> r.after] \in [answer : Answers, after : 0..MaxRefused]
    BY <2>1, <2>2
  <2>5. can_i' \in [index : [answer : Answers, after : 0..MaxRefused], claimed : BOOLEAN,
                    generation : {far.heard}]
    BY <2>3, <2>4 DEF AccountOK
  <2>6. resolving' \subseteq resolving /\ UNCHANGED far
    BY <1>3 DEF Resolved
  <2> QED
    BY <2>5, <2>6 DEF AccountOK
<1>4. ASSUME NEW f \in flight, Answer(f) PROVE AccountOK'
  <2>1. CASE UNCHANGED <<can_i, far>>
    BY <1>4, <2>1 DEF Answer, AccountOK
  <2>2. CASE /\ far.heard < MaxRefused /\ can_i' = Invalidated
             /\ far' = [far EXCEPT !.heard = @ + 1]
    <3>1. [NoAnswer EXCEPT !.after = far.heard + 1] = [answer |-> "none", after |-> far.heard + 1]
      BY DEF NoAnswer
    <3>2. far'.heard = far.heard + 1 /\ far.heard + 1 \in 0..MaxRefused
      BY <1>0, <2>2 DEF AccountOK
    <3>3. can_i.generation = far.heard
      BY DEF AccountOK
    <3>4. can_i' \in [index : [answer : Answers, after : 0..MaxRefused], claimed : BOOLEAN,
                      generation : {far.heard + 1}]
      BY <2>2, <3>1, <3>2, <3>3 DEF Invalidated, Answers
    <3>5. far' \in [granted : BOOLEAN, changes : Nat, heard : 0..MaxRefused]
      BY <2>2, <3>2 DEF AccountOK
    <3>6. 0..far.heard \subseteq 0..far'.heard
      BY <1>0, <3>2
    <3>7. UNCHANGED resolving
      BY <1>4 DEF Answer
    <3> QED
      BY <3>2, <3>4, <3>5, <3>6, <3>7 DEF AccountOK
  <2> QED
    BY <1>4, <2>1, <2>2 DEF Answer
<1> QED
  BY <1>1, <1>2, <1>3, <1>4

\* One step per action; those that touch one part together.
LEMMA TypesStep == Typed /\ [Next]_vars => Typed'
<1> SUFFICES ASSUME Typed, [Next]_vars PROVE Typed'
  OBVIOUS
<1>1. ASSUME NEW act \in Acts, Start(act) PROVE Typed'
  BY <1>1, StartTypes
<1>2. CASE SubmitForm
  <2>1. pending \in Pendings /\ pending.rows # {} /\ ConfirmOrRun(pending)
    BY <1>2 DEF SubmitForm, FormRows, Typed, ChosenOK
  <2>2. UNCHANGED <<table, joined, can_i, resolving, far>>
    BY <1>2 DEF SubmitForm
  <2> QED
    BY <2>1, <2>2, ChosenTypes DEF Typed, AccountOK
<1>3. CASE Confirm
  <2>1. pending \in Pendings /\ RunPending(pending)
    BY <1>3 DEF Confirm, Answered, Typed, ChosenOK
  <2>2. UNCHANGED <<table, joined, can_i, resolving, far>>
    BY <1>3 DEF Confirm
  <2> QED
    BY <2>1, <2>2, RunTypes DEF Typed, AccountOK
<1>4. CASE Cancel
  BY <1>4, GivenUp DEF Cancel, Typed, ListedOK, AccountOK
<1>5. CASE \/ \E s \in Sites : Poll(s)
           \/ Join \/ Drop \/ Move \/ Mark \/ ClearMarks
  <2>1. UNCHANGED <<mode, pending, flight, can_i, resolving, far, asked>>
    BY <1>5 DEF Poll, Join, Drop, Move, Mark, ClearMarks
  <2> QED
    BY <1>5, <2>1, MovesTypes DEF Typed, ChosenOK, AccountOK
<1>6. CASE OpenMenu
  BY <1>6, ClaimsTypes DEF OpenMenu, Typed, ListedOK, ChosenOK
<1>7. CASE \/ RolesChange
           \/ \E r \in resolving : Read(r) \/ Resolved(r)
           \/ \E f \in flight : Answer(f)
  <2>1. /\ UNCHANGED <<table, joined, view, mode, pending, asked>>
        /\ flight' \subseteq flight
    BY <1>7 DEF RolesChange, Read, Resolved, Answer
  <2> QED
    BY <1>7, <2>1, AccountTypes DEF Typed, ListedOK, ChosenOK
<1>8. CASE UNCHANGED vars
  BY <1>8 DEF vars, Typed, ListedOK, ChosenOK, AccountOK
<1> QED
  BY <1>1, <1>2, <1>3, <1>4, <1>5, <1>6, <1>7, <1>8 DEF Next

\* The keys are the table's exactly while nothing is pending, what is pending is no more than
\* a bulk, and the permissions' generation is the number of 403s heard (PendingAction,
\* Guardrails::verdict, CanICell).
THEOREM Types == Spec => []TypeOK
<1>1. Typed => TypeOK
  <2> SUFFICES ASSUME Typed PROVE TypeOK
    OBVIOUS
  <2>1. /\ \A s \in Sites : table[s] \subseteq Held[s]
        /\ joined \in BOOLEAN /\ view.selected \in Nat /\ view.marks \subseteq Ids
    BY DEF Typed, ListedOK
  <2>2. /\ mode \in {"table", "form", "confirm"}
        /\ pending.act \in Acts \cup {None} /\ pending.rows \subseteq Ids
        /\ Cardinality(pending.rows) <= MAX_BULK
        /\ (mode = "table") = (pending = NoPending)
        /\ flight \subseteq Requests /\ asked \subseteq Ids
    BY DEF Typed, ChosenOK, Pendings
  <2>3. /\ can_i.index.answer \in Answers /\ can_i.index.after \in 0..MaxRefused
        /\ can_i.claimed \in BOOLEAN /\ can_i.generation = far.heard
        /\ far.granted \in BOOLEAN /\ far.heard \in 0..MaxRefused
    BY DEF Typed, AccountOK
  <2>4. \A r \in resolving : r.generation <= far.heard /\ r.read \in Answers
    <3>1. \A n \in 0..far.heard : n <= far.heard
      BY <2>3, IdsAre
    <3> QED
      BY <3>1 DEF Typed, AccountOK
  <2> QED
    BY <2>1, <2>2, <2>3, <2>4 DEF TypeOK
<1> QED
  BY <1>1, TypesInit, TypesStep, PTL DEF Spec
===========================================================================
