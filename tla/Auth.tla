------------------------------- MODULE Auth -------------------------------
(***************************************************************************)
(* The authentication of one Prism Central client: what a request carries, *)
(* who may present the password, what a 401 means, and when the client     *)
(* stops (crates/prism/src/client/session.rs, crates/prism/src/valve.rs).  *)
(*                                                                         *)
(* A slot is one task calling Client::send; it makes one call after the    *)
(* other.  Steps are cut at the awaits of the code: the pacing, the gate,  *)
(* the request on the wire and the Retry-After sleep.  What the code does  *)
(* between two awaits is one action.                                       *)
(*                                                                         *)
(* The far end is a Prism Central with a password that may stop being      *)
(* accepted, sessions it may end at any time, URLs it denies to this       *)
(* account whatever the request carries, and rate limiting.  Bodies,       *)
(* headers and statuses other than 401 and 429 are abstracted: the code    *)
(* here does not tell them apart.                                          *)
(***************************************************************************)
EXTENDS Naturals, Sequences

CONSTANTS
  Nobody,           \* no slot: the permit is free
  NoUrl,            \* no URL
  Slots,            \* tasks calling Client::send concurrently
  Urls,             \* the URLs requests go to
  DeniedUrls,       \* those that answer 401 whatever the request carries
  Modes,            \* what cookies the Prism Central may turn out to set
  RENEWALS,         \* renewals one request may wait through
  GIVE_UP_RENEWALS, \* sessions that came to nothing before reuse is given up
  PROBE_URLS,       \* answered URLs remembered for the liveness check
  PRESENTATIONS,    \* refusals that latch the valve
  MaxCalls,         \* bound: calls in a behaviour
  MaxThrottles,     \* bound: 429 answers in a behaviour
  MaxFaults         \* bound: transport failures in a behaviour, an answer's body included

ASSUME AuthAssumption ==
  /\ Nobody \notin Slots /\ NoUrl \notin Urls
  /\ DeniedUrls \subseteq Urls
  /\ Modes \subseteq {"works", "ignored", "none"}
  /\ RENEWALS \in Nat \ {0}
  /\ GIVE_UP_RENEWALS \in Nat \ {0}
  /\ PROBE_URLS \in Nat \ {0}
  /\ PRESENTATIONS \in Nat /\ MaxCalls \in Nat
  /\ MaxThrottles \in Nat /\ MaxFaults \in Nat

VARIABLES
  jar,    \* SessionJar.inner
  auth,   \* Auth.state
  gate,   \* the slot holding Auth.gate's only permit, or Nobody
  valve,  \* Valve.inner
  slot,   \* the call each slot is making
  pc,     \* the Prism Central
  spent,  \* how much of each bound is used up
  gaveUp  \* history: session reuse was given up at some point

vars == <<jar, auth, gate, valve, slot, pc, spent, gaveUp>>

NoSession == 0

\* The credential, or the cookie of a session and the generation it was read with.
Credential == [session |-> NoSession, generation |-> 0]
Carries == [session : Nat, generation : Nat]

\* A slot waits for its turn ("paced"), for the permit ("gate"), for an answer
\* ("wire"), has one to handle ("reply"), or sleeps before it sends again ("pause").
Stages == {"idle", "paced", "gate", "wire", "reply", "pause"}
Outcomes == {"none", "answered", "denied", "auth", "transport"}
Replies == [status : {"ok", "401", "429"}, cookie : Nat]
NoReply == [status |-> "ok", cookie |-> NoSession]

Idle(outcome) ==
  [at |-> "idle", url |-> NoUrl, pass |-> 0, carry |-> Credential, retried |-> FALSE,
   probe |-> NoUrl, reply |-> NoReply, outcome |-> outcome]

Init ==
  /\ jar = [cookie |-> NoSession, generation |-> 0, ever_answered |-> FALSE,
            ok_urls |-> <<>>, renewals |-> 0]
  /\ auth = "Unauthenticated"
  /\ gate = Nobody
  /\ valve = [refusals |-> 0, latched |-> FALSE]
  /\ slot = [s \in Slots |-> Idle("none")]
  /\ \E mode \in Modes, good \in BOOLEAN :
       pc = [mode |-> mode, password |-> good, live |-> {}, issued |-> 0]
  /\ spent = [calls |-> 0, throttles |-> 0, faults |-> 0]
  /\ gaveUp = FALSE

---------------------------------------------------------------------------
(* The session jar. *)

\* Session reuse has not been given up.
Usable(j) == j.ever_answered \/ j.renewals < GIVE_UP_RENEWALS

\* There is a session to ride.
Rides(j) == j.cookie # NoSession /\ Usable(j)

Ride(j) == [session |-> j.cookie, generation |-> j.generation]

\* A sequence of URLs, each there at most once, less one of them.
Without(urls, url) ==
  LET at == {i \in DOMAIN urls : urls[i] = url}
  IN  IF at = {} THEN urls
      ELSE LET i == CHOOSE i \in at : TRUE
           IN  SubSeq(urls, 1, i - 1) \o SubSeq(urls, i + 1, Len(urls))

\* Mutant: a URL answered twice is remembered twice.
RememberOkTwice(j, url) == [j EXCEPT !.ok_urls = Append(@, url)]

\* A URL this account was answered on becomes the newest of the last PROBE_URLS.
RememberOk(j, url) ==
  LET others == Without(j.ok_urls, url)
      kept == IF Len(others) >= PROBE_URLS THEN Tail(others) ELSE others
  IN  [j EXCEPT !.ok_urls = Append(kept, url)]

Answered(j, url) == RememberOk([j EXCEPT !.ever_answered = TRUE], url)

\* The newest answered URL other than url, or NoUrl.
ProbeUrl(j, url) ==
  LET others == Without(j.ok_urls, url)
  IN  IF others = <<>> THEN NoUrl ELSE others[Len(others)]

\* An answer's Set-Cookie, ignored once reuse is given up.
SetCookies(j, cookie) ==
  IF cookie # NoSession /\ Usable(j) THEN [j EXCEPT !.cookie = cookie] ELSE j

\* A presentation was answered: one that opened no session counts as a renewal.
Presented(j) ==
  IF j.cookie = NoSession THEN [j EXCEPT !.renewals = @ + 1] ELSE j

\* Mutant: a stale 401 drops the session that replaced its own.
ExpireAny(j, generation) ==
  [j EXCEPT !.renewals = @ + 1, !.cookie = NoSession, !.generation = @ + 1]

\* The session behind a generation was refused.
Expire(j, generation) ==
  LET refused == [j EXCEPT !.renewals = @ + 1]
  IN  IF j.generation # generation THEN refused
      ELSE [refused EXCEPT !.cookie = NoSession, !.generation = @ + 1]

NoteGivingUp == gaveUp' = (gaveUp \/ ~Usable(jar'))

---------------------------------------------------------------------------
(* The credential's state and the valve. *)

Settle(state, presented, status) ==
  IF state = "Rejected" THEN "Rejected"
  ELSE IF status # "401" THEN "Established"
  ELSE IF presented THEN "Rejected"
  ELSE state

\* Valve::refused, then Valve::latch: the refusals of a run all fall in one WINDOW.
Refuse(v) ==
  LET n == v.refusals + 1
  IN  [refusals |-> n, latched |-> IF n >= PRESENTATIONS THEN TRUE ELSE v.latched]

Latch(v) == [v EXCEPT !.latched = TRUE]

\* Mutant: the valve is not asked.
NeverLatched(v) == TRUE

Open(v) == ~v.latched

---------------------------------------------------------------------------
(* One call. *)

IsPresenting(s) == slot[s].carry = Credential

\* Mutants: the permit is never given back; any attempt that ends gives it back.
ReleaseNever(s) == UNCHANGED gate
ReleaseAlways(s) == gate' = Nobody

\* The permit is dropped with the attempt that held it.
Release(s) == gate' = IF gate = s THEN Nobody ELSE gate

Finish(s, outcome) == slot' = [slot EXCEPT ![s] = Idle(outcome)]

Send(s, carry) ==
  slot' = [slot EXCEPT ![s].at = "wire", ![s].carry = carry]

\* A caller asks for a URL; Client::send waits for the pacing of its first pass.
Start(s) ==
  /\ slot[s].at = "idle"
  /\ spent.calls < MaxCalls
  /\ \E url \in Urls :
       slot' = [slot EXCEPT ![s] = [Idle("none") EXCEPT !.at = "paced", !.url = url]]
  /\ spent' = [spent EXCEPT !.calls = @ + 1]
  /\ UNCHANGED <<jar, auth, gate, valve, pc, gaveUp>>

\* The common path: an established credential, a first pass and a session to ride.
SkipsGate(pass) == auth = "Established" /\ pass = 0 /\ Rides(jar)

\* Client::attempt up to its first await: the valve, then carry up to the gate.
Attempt(s) ==
  /\ slot[s].at = "paced"
  /\ \/ /\ ~Open(valve)
        /\ Finish(s, "auth")
     \/ /\ Open(valve) /\ ~Usable(jar)
        /\ Send(s, Credential)
     \/ /\ Open(valve) /\ Usable(jar)
        /\ auth = "Rejected"
        /\ Finish(s, "auth")
     \/ /\ Open(valve)
        /\ SkipsGate(slot[s].pass)
        /\ Send(s, Ride(jar))
     \/ /\ Open(valve) /\ Usable(jar)
        /\ auth # "Rejected" /\ ~SkipsGate(slot[s].pass)
        /\ slot' = [slot EXCEPT ![s].at = "gate"]
  /\ UNCHANGED <<jar, auth, gate, valve, pc, spent, gaveUp>>

\* The last pass authenticates whatever the jar holds.
MayRide(pass) == pass < RENEWALS /\ Rides(jar)

\* Mutant: the gate lets everybody in.
NoGate == TRUE

PermitFree == gate = Nobody

\* The rest of carry, behind the permit: the state and the jar are read again.
Carry(s) ==
  /\ slot[s].at = "gate"
  /\ PermitFree
  /\ \/ /\ auth = "Rejected"
        /\ Finish(s, "auth")
        /\ UNCHANGED gate
     \/ /\ auth # "Rejected" /\ MayRide(slot[s].pass)
        /\ Send(s, Ride(jar))
        /\ UNCHANGED gate
     \/ /\ auth # "Rejected" /\ ~MayRide(slot[s].pass)
        /\ Send(s, Credential)
        /\ gate' = s
  /\ UNCHANGED <<jar, auth, valve, pc, spent, gaveUp>>

\* Pipe failures return from attempt; during a liveness check they count as alive.
TransportFailure(s) ==
  /\ slot[s].at = "wire"
  /\ spent.faults < MaxFaults
  /\ spent' = [spent EXCEPT !.faults = @ + 1]
  /\ Finish(s, IF slot[s].probe = NoUrl THEN "transport" ELSE "denied")
  /\ Release(s)
  /\ UNCHANGED <<jar, auth, valve, pc, gaveUp>>

\* The first 429 is retried once, after the wait, with what it already carries.
RateLimited(s) ==
  /\ slot[s].at = "reply" /\ slot[s].probe = NoUrl
  /\ slot[s].reply.status = "429" /\ ~slot[s].retried
  /\ slot' = [slot EXCEPT ![s].at = "pause", ![s].retried = TRUE]
  /\ UNCHANGED <<jar, auth, gate, valve, pc, spent, gaveUp>>

\* The wait is over: the retry after a 429, or the liveness check after its pacing.
Resume(s) ==
  /\ slot[s].at = "pause"
  /\ Send(s, slot[s].carry)
  /\ UNCHANGED <<jar, auth, gate, valve, pc, spent, gaveUp>>

\* Mutant: the range of the passes excludes its end.
PassesExclusive(pass) == pass + 1 < RENEWALS

\* send's passes go up to RENEWALS, the one that authenticates.
PassesLeft(pass) == pass < RENEWALS

\* Attempt::SessionEnded: the session is dropped and send comes round again.
SessionEnded(s) ==
  /\ jar' = Expire(jar, slot[s].carry.generation)
  /\ NoteGivingUp
  /\ IF PassesLeft(slot[s].pass)
       THEN slot' = [slot EXCEPT ![s] = [Idle("none") EXCEPT !.at = "paced",
                       !.url = slot[s].url, !.pass = slot[s].pass + 1]]
       ELSE Finish(s, "auth")

\* A 401 on a session: checked on another URL it was answered on, if there is one.
SessionRefused(s) ==
  /\ slot[s].at = "reply" /\ slot[s].probe = NoUrl
  /\ slot[s].reply.status = "401" /\ ~IsPresenting(s)
  /\ LET url == ProbeUrl(jar, slot[s].url) IN
       \/ /\ url = NoUrl
          /\ SessionEnded(s)
       \/ /\ url # NoUrl
          /\ slot' = [slot EXCEPT ![s].at = "pause", ![s].probe = url]
          /\ UNCHANGED <<jar, gaveUp>>
  /\ UNCHANGED <<auth, gate, valve, pc, spent>>

\* Client::session_alive has its answer.
LivenessChecked(s) ==
  /\ slot[s].at = "reply" /\ slot[s].probe # NoUrl
  /\ \/ /\ slot[s].reply.status = "401"
        /\ SessionEnded(s)
     \/ /\ slot[s].reply.status # "401"
        /\ Finish(s, "denied")
        /\ UNCHANGED <<jar, gaveUp>>
  /\ UNCHANGED <<auth, gate, valve, pc, spent>>

\* Every other answer: what it says of the jar, the valve and the credential, whether or
\* not its body can then be read.
Settled(s) ==
  LET status == slot[s].reply.status
      presented == IsPresenting(s)
      refused == presented /\ status = "401"
      banked == SetCookies(jar, slot[s].reply.cookie)
  IN  /\ slot[s].at = "reply" /\ slot[s].probe = NoUrl
      /\ status = "429" => slot[s].retried
      /\ status = "401" => presented
      /\ jar' = IF ~presented THEN Answered(banked, slot[s].url)
                ELSE IF refused THEN banked
                ELSE Presented(RememberOk(banked, slot[s].url))
      /\ valve' = IF refused THEN Latch(Refuse(valve)) ELSE valve
      /\ auth' = Settle(auth, presented, status)
      /\ \/ /\ Finish(s, IF refused THEN "auth" ELSE "answered")
            /\ UNCHANGED spent
         \/ /\ spent.faults < MaxFaults
            /\ spent' = [spent EXCEPT !.faults = @ + 1]
            /\ Finish(s, "transport")
      /\ Release(s)
      /\ NoteGivingUp
      /\ UNCHANGED pc

---------------------------------------------------------------------------
(* The Prism Central. *)

Target(s) == IF slot[s].probe = NoUrl THEN slot[s].url ELSE slot[s].probe

Authenticates(s) ==
  /\ Target(s) \notin DeniedUrls
  /\ IF IsPresenting(s) THEN pc.password ELSE slot[s].carry.session \in pc.live

Reply(s, status, cookie) ==
  slot' = [slot EXCEPT ![s].at = "reply",
                       ![s].reply = [status |-> status, cookie |-> cookie]]

\* It decides an answer; the client handles it later.  An accepted credential opens
\* a session unless this Prism Central sets no cookie; one whose cookies are
\* "ignored" sets them and honours none.
Answer(s) ==
  /\ slot[s].at = "wire"
  /\ \/ /\ spent.throttles < MaxThrottles
        /\ spent' = [spent EXCEPT !.throttles = @ + 1]
        /\ Reply(s, "429", NoSession)
        /\ UNCHANGED pc
     \/ /\ ~Authenticates(s)
        /\ Reply(s, "401", NoSession)
        /\ UNCHANGED <<pc, spent>>
     \/ /\ Authenticates(s)
        /\ ~IsPresenting(s) \/ pc.mode = "none"
        /\ Reply(s, "ok", NoSession)
        /\ UNCHANGED <<pc, spent>>
     \/ /\ Authenticates(s)
        /\ IsPresenting(s) /\ pc.mode # "none"
        /\ LET id == pc.issued + 1 IN
             /\ Reply(s, "ok", id)
             /\ pc' = [pc EXCEPT !.issued = id,
                         !.live = IF pc.mode = "works" THEN @ \cup {id} ELSE @]
        /\ UNCHANGED spent
  /\ UNCHANGED <<jar, auth, gate, valve, gaveUp>>

\* A session ends on the far end.
EndSession ==
  \E id \in pc.live : pc' = [pc EXCEPT !.live = @ \ {id}]

\* The password is changed behind the client's back.
ChangePassword ==
  /\ pc.password
  /\ pc' = [pc EXCEPT !.password = FALSE]

FarEnd ==
  /\ EndSession \/ ChangePassword
  /\ UNCHANGED <<jar, auth, gate, valve, slot, spent, gaveUp>>

---------------------------------------------------------------------------

\* What a call does by itself once it is started.
Proceed(s) ==
  \/ Attempt(s) \/ Carry(s) \/ Resume(s)
  \/ RateLimited(s) \/ SessionRefused(s) \/ LivenessChecked(s) \/ Settled(s)

Next ==
  \/ \E s \in Slots : Start(s) \/ Proceed(s) \/ Answer(s) \/ TransportFailure(s)
  \/ FarEnd

\* A task that can go on does, and a request is answered or fails: reqwest's own
\* timeout (60 s) ends one that is not.
Fairness == 
  \A s \in Slots : WF_vars(Proceed(s)) /\ WF_vars(Answer(s) \/ TransportFailure(s))

Spec == Init /\ [][Next]_vars /\ Fairness
---------------------------------------------------------------------------
(* Properties. *)

Calls ==
  {c \in [at : Stages, url : Urls \cup {NoUrl}, pass : 0..RENEWALS, carry : Carries,
          retried : BOOLEAN, probe : Urls \cup {NoUrl}, reply : Replies,
          outcome : Outcomes] : c.at # "idle" => c.url \in Urls}

JarOK ==
  /\ jar \in [cookie : Nat, generation : Nat, ever_answered : BOOLEAN,
              ok_urls : Seq(Urls), renewals : Nat]
  /\ \A i, k \in DOMAIN jar.ok_urls : jar.ok_urls[i] = jar.ok_urls[k] => i = k
  /\ jar.generation <= jar.renewals

\* The jar remembers no URL twice and no more sessions are dropped than refusals counted
\* (SessionJar::remember_ok, SessionJar::expire).
TypeOK ==
  /\ JarOK
  /\ auth \in {"Unauthenticated", "Established", "Rejected"}
  /\ gate \in Slots \cup {Nobody}
  /\ valve \in [refusals : Nat, latched : BOOLEAN]
  /\ slot \in [Slots -> Calls]
  /\ pc \in [mode : Modes, password : BOOLEAN, live : SUBSET Nat, issued : Nat]
  /\ spent \in [calls : Nat, throttles : Nat, faults : Nat]
  /\ gaveUp \in BOOLEAN

\* The slots whose password is with the Prism Central, or will be again after a 429.
Presenters == {s \in Slots : slot[s].at \in {"wire", "reply", "pause"} /\ IsPresenting(s)}

\* The gate is single-flight: its permit is held only by a slot that presents, and
\* until session reuse is given up nobody else does (Auth.gate, Client::carry).
OnePresenter ==
  /\ gate # Nobody => gate \in Presenters
  /\ ~gaveUp => Presenters \subseteq {gate}

\* Unless session reuse was given up, a password the Prism Central refuses is refused
\* once, however many requests were waiting behind it.
RefusedOnce == ~gaveUp => valve.refusals <= 1

\* After a refusal no request that had not been sent yet goes out, whether it waits
\* for its pacing or for the permit: attempt asks the valve, carry the state.
StopsOnceLatched ==
  [][valve.latched => \A s \in Slots :
       slot[s].at \in {"paced", "gate"} => slot'[s].at # "wire"]_vars

\* A live session is dropped only by a request whose 401 was checked on a URL that denies
\* this account too, and that only a 429 had made known; or that carried a cookie another one
\* has replaced within its generation.  The 401s of a session that ended drop nothing of the
\* one it was renewed by (SessionJar::expire, Client::session_alive).
LiveSessionKept ==
  [][jar.cookie \in pc.live /\ jar'.cookie = NoSession =>
       \E s \in Slots :
         /\ slot[s].at = "reply" /\ slot'[s].at # "reply"
         /\ \/ slot[s].probe \in DeniedUrls
            \/ /\ slot[s].carry.generation = jar.generation
               /\ slot[s].carry.session # jar.cookie]_vars

\* CONTRIBUTING.md:146 says "A 401 on a session is proven an expiry before a password goes
\* out": the session in the jar is dropped only when the Prism Central has ended it.
SessionEndProven ==
  [][jar.cookie \in pc.live => jar'.cookie # NoSession]_vars

\* session.rs (SessionJar::expire) says "The session behind `generation` was refused: drop
\* it": a session is dropped only by the 401 of a request that rode it.
StaleDropsNothing ==
  [][jar.cookie # NoSession /\ jar'.cookie = NoSession =>
       \E s \in Slots : /\ slot[s].at = "reply" /\ slot'[s].at # "reply"
                       /\ slot[s].carry.session = jar.cookie]_vars

\* A caller is told its credential is refused only if a password was: a request whose
\* session kept ending authenticates on its last pass.
AuthMeansRefused ==
  (\E s \in Slots : slot[s].outcome = "auth") => valve.refusals > 0

\* Every call comes back: the permit is always passed on and renewals are bounded.
CallsComeBack == \A s \in Slots : slot[s].at # "idle" ~> slot[s].at = "idle"

\* valve.rs:17 says "the state machine stops at the first refusal, so this counter should
\* never reach two".
CounterNeverReachesTwo == valve.refusals < 2
===========================================================================
