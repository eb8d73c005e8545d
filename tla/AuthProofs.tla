---------------------------- MODULE AuthProofs ----------------------------
(***************************************************************************)
(* What Auth guarantees for any number of slots, URLs and calls.           *)
(***************************************************************************)
EXTENDS Auth, SequenceTheorems, TLAPS

---------------------------------------------------------------------------
(* Types. *)

Distinct(urls) == \A i, k \in DOMAIN urls : urls[i] = urls[k] => i = k

\* Taking a URL out of the remembered ones leaves the others, each once.
LEMMA WithoutType ==
  ASSUME NEW q \in Seq(Urls), Distinct(q), NEW url
  PROVE  /\ Without(q, url) \in Seq(Urls)
         /\ Distinct(Without(q, url))
         /\ \A i \in DOMAIN Without(q, url) : Without(q, url)[i] # url
<1> DEFINE at == {i \in DOMAIN q : q[i] = url}
<1>1. CASE at = {}
  <2>1. Without(q, url) = q
    BY <1>1 DEF Without
  <2> QED
    BY <2>1, <1>1
<1>2. CASE at # {}
  <2> DEFINE i == CHOOSE i \in at : TRUE
             front == SubSeq(q, 1, i - 1)
             back == SubSeq(q, i + 1, Len(q))
  <2>1. Without(q, url) = front \o back
    BY <1>2 DEF Without
  <2>2. i \in 1..Len(q) /\ q[i] = url
    BY <1>2
  <2> HIDE DEF i
  <2>3. /\ front \in Seq(Urls) /\ Len(front) = i - 1
        /\ \A n \in 1..(i - 1) : front[n] = q[n]
    BY <2>2, SMT
  <2>4. /\ back \in Seq(Urls) /\ Len(back) = Len(q) - i
        /\ \A n \in 1..(Len(q) - i) : back[n] = q[n + i]
    BY <2>2, SMT
  <2> DEFINE W == front \o back
  <2> HIDE DEF front, back
  <2>5. W \in Seq(Urls) /\ Len(W) = Len(q) - 1
    <3>1. W \in Seq(Urls) /\ Len(W) = Len(front) + Len(back)
      BY <2>3, <2>4, ConcatProperties
    <3>2. Len(q) \in Nat
      BY LenProperties
    <3> QED
      BY <3>1, <3>2, <2>2, <2>3, <2>4, SMT
  <2>6. \A n \in 1..Len(W) : W[n] = IF n < i THEN q[n] ELSE q[n + 1]
    <3> SUFFICES ASSUME NEW n \in 1..Len(W)
                 PROVE  W[n] = IF n < i THEN q[n] ELSE q[n + 1]
      OBVIOUS
    <3>1. CASE n < i
      BY <3>1, <2>2, <2>3, <2>4, <2>5, ConcatProperties, SMT
    <3>2. CASE ~(n < i)
      <4>1. W[n] = back[n - (i - 1)]
        BY <3>2, <2>2, <2>3, <2>4, <2>5, ConcatProperties, SMT
      <4>2. n - (i - 1) \in 1..(Len(q) - i) /\ (n - (i - 1)) + i = n + 1
        BY <3>2, <2>2, <2>5, SMT
      <4> QED
        BY <4>1, <4>2, <2>4, <3>2
    <3> QED
      BY <3>1, <3>2
  <2>7. DOMAIN W = 1..Len(W) /\ DOMAIN q = 1..Len(q) /\ Len(q) \in Nat
    BY <2>5, LenProperties
  <2> HIDE DEF W
  <2>8. \A n \in 1..Len(q) : n # i => q[n] # url
    BY <2>2, <2>7 DEF Distinct
  <2>9. \A n \in DOMAIN W : W[n] # url
    BY <2>2, <2>5, <2>6, <2>7, <2>8, SMT
  <2>10. Distinct(W)
    <3> SUFFICES ASSUME NEW n \in 1..Len(W), NEW m \in 1..Len(W), W[n] = W[m]
                 PROVE  n = m
      BY <2>7 DEF Distinct
    <3> DEFINE from(k) == IF k < i THEN k ELSE k + 1
    <3>1. W[n] = q[from(n)] /\ W[m] = q[from(m)]
      BY <2>6
    <3>2. from(n) \in DOMAIN q /\ from(m) \in DOMAIN q
      BY <2>2, <2>5, <2>7, SMT
    <3>3. from(n) = from(m)
      BY <3>1, <3>2 DEF Distinct
    <3> QED
      BY <3>3, <2>2, <2>5, SMT
  <2> QED
    BY <2>1, <2>5, <2>9, <2>10 DEF W
<1> QED
  BY <1>1, <1>2

\* The jar keeps its shape under what the client does to it.
JarType ==
  {j \in [cookie : Nat, generation : Nat, ever_answered : BOOLEAN,
          ok_urls : Seq(Urls), renewals : Nat] :
     Distinct(j.ok_urls) /\ j.generation <= j.renewals}

\* Remembering a URL keeps the jar well-formed, each URL there once.
LEMMA RememberOkType ==
  ASSUME NEW j \in JarType, NEW url \in Urls
  PROVE  RememberOk(j, url) \in JarType
<1> DEFINE others == Without(j.ok_urls, url)
           kept == IF Len(others) >= PROBE_URLS THEN Tail(others) ELSE others
<1>1. /\ others \in Seq(Urls) /\ Distinct(others)
      /\ \A i \in DOMAIN others : others[i] # url
  BY WithoutType DEF JarType
<1>2. RememberOk(j, url) = [j EXCEPT !.ok_urls = Append(kept, url)]
  BY DEF RememberOk
<1> HIDE DEF others
<1>3. /\ kept \in Seq(Urls) /\ Distinct(kept)
      /\ \A i \in DOMAIN kept : kept[i] # url
  <2>1. CASE Len(others) >= PROBE_URLS
    <3>1. others # <<>>
      BY <2>1, AuthAssumption, SMT
    <3> DEFINE T == Tail(others)
    <3>2. /\ T \in Seq(Urls) /\ Len(T) = Len(others) - 1
          /\ \A i \in 1..Len(T) : T[i] = others[i + 1]
      BY <1>1, <3>1, HeadTailProperties
    <3>3. DOMAIN T = 1..Len(T) /\ DOMAIN others = 1..Len(others) /\ Len(others) \in Nat
      BY <1>1, <3>2, LenProperties
    <3>4. kept = T
      BY <2>1
    <3> HIDE DEF T, kept
    <3>5. \A i \in DOMAIN T : i + 1 \in DOMAIN others /\ T[i] = others[i + 1]
      BY <3>2, <3>3, SMT
    <3>6. Distinct(T)
      <4> SUFFICES ASSUME NEW i \in DOMAIN T, NEW k \in DOMAIN T, T[i] = T[k]
                   PROVE  i = k
        BY DEF Distinct
      <4>1. i + 1 = k + 1
        BY <1>1, <3>5 DEF Distinct
      <4> QED
        BY <4>1, <3>3, SMT
    <3> QED
      BY <1>1, <3>2, <3>4, <3>5, <3>6
  <2>2. CASE ~(Len(others) >= PROBE_URLS)
    BY <1>1, <2>2
  <2> QED
    BY <2>1, <2>2
<1> HIDE DEF kept
<1>4. /\ Append(kept, url) \in Seq(Urls)
      /\ DOMAIN Append(kept, url) = 1..(Len(kept) + 1)
      /\ DOMAIN kept = 1..Len(kept) /\ Len(kept) \in Nat
      /\ \A i \in 1..Len(kept) : Append(kept, url)[i] = kept[i]
      /\ Append(kept, url)[Len(kept) + 1] = url
  BY <1>3, AppendProperties, LenProperties
<1>5. Distinct(Append(kept, url))
  BY <1>3, <1>4, SMT DEF Distinct
<1> QED
  BY <1>2, <1>4, <1>5 DEF JarType

\* An answer to a session-riding request keeps the jar well-formed.
LEMMA AnsweredType ==
  ASSUME NEW j \in JarType, NEW url \in Urls
  PROVE  Answered(j, url) \in JarType
<1>1. [j EXCEPT !.ever_answered = TRUE] \in JarType
  BY DEF JarType
<1> QED
  BY <1>1, RememberOkType DEF Answered

\* So does everything else that is done to the jar.
LEMMA JarStepTypes ==
  ASSUME NEW j \in JarType, NEW c \in Nat, NEW g \in Nat
  PROVE  /\ SetCookies(j, c) \in JarType
         /\ Presented(j) \in JarType
         /\ Expire(j, g) \in JarType
<1>1. SetCookies(j, c) \in JarType
  BY DEF JarType, SetCookies
<1>2. Presented(j) \in JarType
  BY SMT DEF JarType, Presented
<1>3. Expire(j, g) \in JarType
  <2>1. [j EXCEPT !.renewals = @ + 1] \in JarType
    BY SMT DEF JarType
  <2>2. CASE j.generation # g
    BY <2>1, <2>2 DEF Expire
  <2>3. [cookie |-> NoSession, generation |-> j.generation + 1,
         ever_answered |-> j.ever_answered, ok_urls |-> j.ok_urls,
         renewals |-> j.renewals + 1] \in JarType
    BY SMT DEF JarType, NoSession
  <2>4. ASSUME j.generation = g
        PROVE  Expire(j, g)
                 = [cookie |-> NoSession, generation |-> j.generation + 1,
                    ever_answered |-> j.ever_answered, ok_urls |-> j.ok_urls,
                    renewals |-> j.renewals + 1]
    BY <2>4 DEF Expire, JarType
  <2> QED
    BY <2>2, <2>3, <2>4
<1> QED
  BY <1>1, <1>2, <1>3

\* JarOK says that the jar is a member of JarType.
LEMMA JarOKType == JarOK <=> jar \in JarType
BY DEF JarOK, JarType, Distinct

\* And in the next state.
LEMMA JarOKTypeNext == JarOK' <=> jar' \in JarType
BY DEF JarOK, JarType, Distinct

\* A slot that makes no call is well-formed.
LEMMA IdleType ==
  ASSUME NEW outcome \in Outcomes
  PROVE  Idle(outcome) \in Calls
BY AuthAssumption DEF Idle, Calls, Stages, Outcomes, Carries, Credential, Replies,
   NoReply, NoSession

\* The initial states are well-formed.
LEMMA TypeInit == Init => TypeOK
<1> SUFFICES ASSUME Init PROVE TypeOK
  OBVIOUS
<1>1. JarOK
  BY EmptySeq DEF Init, JarOK, NoSession
<1>2. slot \in [Slots -> Calls]
  BY IdleType DEF Init, Outcomes
<1>3. \A s \in Slots : slot[s].at = "idle"
  BY DEF Init, Idle
<1>4. pc \in [mode : Modes, password : BOOLEAN, live : SUBSET Nat, issued : Nat]
  BY DEF Init
<1>5. /\ auth \in {"Unauthenticated", "Established", "Rejected"}
      /\ gate \in Slots \cup {Nobody}
      /\ valve \in [refusals : Nat, latched : BOOLEAN]
      /\ spent \in [calls : Nat, throttles : Nat, faults : Nat]
      /\ gaveUp \in BOOLEAN
  BY DEF Init
<1> QED
  BY <1>1, <1>2, <1>3, <1>4, <1>5 DEF TypeOK

\* A refusal is counted and latches the valve.
LEMMA RefuseLatches ==
  ASSUME NEW v \in [refusals : Nat, latched : BOOLEAN]
  PROVE  /\ Latch(Refuse(v)) \in [refusals : Nat, latched : BOOLEAN]
         /\ Latch(Refuse(v)).refusals = v.refusals + 1
         /\ Latch(Refuse(v)).latched
<1> DEFINE T == [refusals : Nat, latched : BOOLEAN]
           n == v.refusals + 1
<1>1. Refuse(v) \in T /\ Refuse(v).refusals = n
  <2>1. CASE n >= PRESENTATIONS
    <3>1. Refuse(v) = [refusals |-> n, latched |-> TRUE]
      BY <2>1 DEF Refuse
    <3> QED
      BY <3>1
  <2>2. CASE ~(n >= PRESENTATIONS)
    <3>1. Refuse(v) = [refusals |-> n, latched |-> v.latched]
      BY <2>2 DEF Refuse
    <3> QED
      BY <3>1
  <2> QED
    BY <2>1, <2>2
<1>2. \A r \in T : Latch(r) \in T /\ Latch(r).refusals = r.refusals /\ Latch(r).latched
  BY DEF Latch
<1> QED
  BY <1>1, <1>2

\* A call stays well-formed when it is answered or put to a liveness check.
LEMMA CallUpdates ==
  ASSUME NEW c \in Calls, c.at # "idle"
  PROVE  /\ \A url \in Urls \cup {NoUrl} : [c EXCEPT !.at = "pause", !.probe = url] \in Calls
         /\ \A r \in Replies : [c EXCEPT !.at = "reply", !.reply = r] \in Calls
<1>1. ASSUME NEW url \in Urls \cup {NoUrl}
      PROVE  [c EXCEPT !.at = "pause", !.probe = url] \in Calls
  BY <1>1 DEF Calls, Stages
<1>2. ASSUME NEW r \in Replies
      PROVE  [c EXCEPT !.at = "reply", !.reply = r] \in Calls
  BY <1>2 DEF Calls, Stages
<1> QED
  BY <1>1, <1>2

\* The slots stay well-formed under the updates the actions make.
LEMMA SlotUpdates ==
  ASSUME slot \in [Slots -> Calls], NEW s \in Slots
  PROVE  /\ \A outcome \in Outcomes : Finish(s, outcome) => slot' \in [Slots -> Calls]
         /\ \A carry \in Carries :
              slot[s].at # "idle" /\ Send(s, carry) => slot' \in [Slots -> Calls]
         /\ \A at \in Stages :
              slot[s].at # "idle" /\ slot' = [slot EXCEPT ![s].at = at]
                => slot' \in [Slots -> Calls]
<1>1. ASSUME NEW outcome \in Outcomes, Finish(s, outcome) PROVE slot' \in [Slots -> Calls]
  BY <1>1, IdleType DEF Finish
<1>2. ASSUME NEW carry \in Carries, slot[s].at # "idle", Send(s, carry)
      PROVE  slot' \in [Slots -> Calls]
  <2>1. [slot[s] EXCEPT !.at = "wire", !.carry = carry] \in Calls
    BY <1>2 DEF Calls, Stages
  <2>2. slot' = [slot EXCEPT ![s] = [slot[s] EXCEPT !.at = "wire", !.carry = carry]]
    BY <1>2 DEF Send
  <2> QED
    BY <2>1, <2>2
<1>3. ASSUME NEW at \in Stages, slot[s].at # "idle", slot' = [slot EXCEPT ![s].at = at]
      PROVE  slot' \in [Slots -> Calls]
  <2>1. [slot[s] EXCEPT !.at = at] \in Calls
    BY <1>3 DEF Calls
  <2>2. slot' = [slot EXCEPT ![s] = [slot[s] EXCEPT !.at = at]]
    BY <1>3
  <2> QED
    BY <2>1, <2>2
<1> QED
  BY <1>1, <1>2, <1>3

\* Every step keeps the state well-formed.
LEMMA TypeStep == TypeOK /\ [Next]_vars => TypeOK'
<1> SUFFICES ASSUME TypeOK, [Next]_vars PROVE TypeOK'
  OBVIOUS
<1> USE DEF TypeOK
<1>0. jar \in JarType
  BY JarOKType
<1> Credential \in Carries
  BY DEF Credential, Carries, NoSession
<1> Rides(jar) => Ride(jar) \in Carries
  BY <1>0 DEF Carries, Ride, JarType
<1>1. ASSUME NEW s \in Slots, Start(s) PROVE TypeOK'
  <2>1. \A url \in Urls : [Idle("none") EXCEPT !.at = "paced", !.url = url] \in Calls
    BY IdleType DEF Outcomes, Calls, Stages
  <2>2. slot' \in [Slots -> Calls]
    <3>1. PICK url \in Urls :
            slot' = [slot EXCEPT ![s] = [Idle("none") EXCEPT !.at = "paced", !.url = url]]
      BY <1>1 DEF Start
    <3> QED
      BY <2>1, <3>1
  <2>3. spent' \in [calls : Nat, throttles : Nat, faults : Nat]
    BY <1>1 DEF Start
  <2> QED
    BY <1>0, <1>1, <2>2, <2>3, JarOKTypeNext DEF Start
<1>2. ASSUME NEW s \in Slots, Attempt(s) PROVE TypeOK'
  <2>1. slot' \in [Slots -> Calls]
    BY <1>2, SlotUpdates DEF Attempt, SkipsGate, Stages, Outcomes
  <2> QED
    BY <1>0, <1>2, <2>1, JarOKTypeNext DEF Attempt
<1>3. ASSUME NEW s \in Slots, Carry(s) PROVE TypeOK'
  <2>1. slot' \in [Slots -> Calls]
    BY <1>3, SlotUpdates DEF Carry, MayRide, Outcomes
  <2> QED
    BY <1>0, <1>3, <2>1, JarOKTypeNext DEF Carry
<1>4. ASSUME NEW s \in Slots, Resume(s) PROVE TypeOK'
  <2>1. slot' \in [Slots -> Calls]
    BY <1>4, SlotUpdates DEF Resume, Calls
  <2> QED
    BY <1>0, <1>4, <2>1, JarOKTypeNext DEF Resume
<1>5. ASSUME NEW s \in Slots, RateLimited(s) PROVE TypeOK'
  <2>1. [slot[s] EXCEPT !.at = "pause", !.retried = TRUE] \in Calls
    BY <1>5 DEF RateLimited, Calls, Stages
  <2>2. slot' = [slot EXCEPT ![s] = [slot[s] EXCEPT !.at = "pause", !.retried = TRUE]]
    BY <1>5 DEF RateLimited
  <2>3. slot' \in [Slots -> Calls]
    BY <2>1, <2>2
  <2> QED
    BY <1>0, <1>5, <2>3, JarOKTypeNext DEF RateLimited
<1>6. ASSUME NEW s \in Slots, SessionEnded(s), slot[s].at # "idle"
      PROVE  JarOK' /\ slot' \in [Slots -> Calls] /\ gaveUp' \in BOOLEAN
  <2>1. jar' \in JarType
    BY <1>0, <1>6, JarStepTypes DEF SessionEnded, Calls, Carries
  <2>2. ASSUME slot[s].pass < RENEWALS
        PROVE  [Idle("none") EXCEPT !.at = "paced", !.url = slot[s].url,
                                    !.pass = slot[s].pass + 1] \in Calls
    <3>1. slot[s].pass + 1 \in 0..RENEWALS /\ slot[s].url \in Urls
      BY <1>6, <2>2, AuthAssumption DEF Calls
    <3>2. Idle("none") \in Calls
      BY IdleType DEF Outcomes
    <3> QED
      BY <3>1, <3>2 DEF Calls, Stages
  <2>3. slot' \in [Slots -> Calls]
    BY <1>6, <2>2, SlotUpdates DEF SessionEnded, PassesLeft, Outcomes
  <2> QED
    BY <1>6, <2>1, <2>3, JarOKTypeNext DEF SessionEnded, NoteGivingUp
<1>7. ASSUME NEW s \in Slots, SessionRefused(s) PROVE TypeOK'
  <2>1. CASE SessionEnded(s)
    <3>1. JarOK' /\ slot' \in [Slots -> Calls] /\ gaveUp' \in BOOLEAN
      BY <1>6, <1>7, <2>1 DEF SessionRefused
    <3> QED
      BY <1>7, <3>1 DEF SessionRefused
  <2>2. CASE ~SessionEnded(s)
    <3> DEFINE others == Without(jar.ok_urls, slot[s].url)
               url == ProbeUrl(jar, slot[s].url)
    <3>1. url \in Urls \cup {NoUrl}
      <4>1. others \in Seq(Urls)
        BY <1>0, WithoutType DEF JarType
      <4>2. others # <<>> => others[Len(others)] \in Urls
        BY <4>1
      <4> QED
        BY <4>2 DEF ProbeUrl
    <3> HIDE DEF url
    <3>2. slot' = [slot EXCEPT ![s] = [slot[s] EXCEPT !.at = "pause", !.probe = url]]
      BY <1>7, <2>2 DEF SessionRefused, url
    <3>3. [slot[s] EXCEPT !.at = "pause", !.probe = url] \in Calls
      <4>1. slot[s] \in Calls /\ slot[s].at # "idle"
        BY <1>7 DEF SessionRefused
      <4> QED
        BY <4>1, <3>1, CallUpdates
    <3>4. slot' \in [Slots -> Calls]
      BY <3>2, <3>3
    <3> QED
      BY <1>0, <1>7, <2>2, <3>4, JarOKTypeNext DEF SessionRefused
  <2> QED
    BY <2>1, <2>2
<1>8. ASSUME NEW s \in Slots, LivenessChecked(s) PROVE TypeOK'
  <2>1. CASE SessionEnded(s)
    <3>1. JarOK' /\ slot' \in [Slots -> Calls] /\ gaveUp' \in BOOLEAN
      BY <1>6, <1>8, <2>1 DEF LivenessChecked
    <3> QED
      BY <1>8, <3>1 DEF LivenessChecked
  <2>2. CASE ~SessionEnded(s)
    <3>1. slot' \in [Slots -> Calls]
      BY <1>8, <2>2, SlotUpdates DEF LivenessChecked, Outcomes
    <3> QED
      BY <1>0, <1>8, <2>2, <3>1, JarOKTypeNext DEF LivenessChecked
  <2> QED
    BY <2>1, <2>2
<1>9. ASSUME NEW s \in Slots, Settled(s) PROVE TypeOK'
  <2>1. slot[s].reply \in Replies /\ slot[s].url \in Urls
    BY <1>9 DEF Settled, Calls
  <2>2. SetCookies(jar, slot[s].reply.cookie) \in JarType
    BY <1>0, <2>1, JarStepTypes DEF Replies
  <2>3. jar' \in JarType
    <3> DEFINE banked == SetCookies(jar, slot[s].reply.cookie)
    <3>1. /\ Answered(banked, slot[s].url) \in JarType
          /\ RememberOk(banked, slot[s].url) \in JarType
      BY <2>1, <2>2, AnsweredType, RememberOkType
    <3>2. Presented(RememberOk(banked, slot[s].url)) \in JarType
      BY <3>1, JarStepTypes
    <3> QED
      BY <1>9, <2>2, <3>1, <3>2 DEF Settled
  <2>4. valve' \in [refusals : Nat, latched : BOOLEAN]
    <3>1. Latch(Refuse(valve)) \in [refusals : Nat, latched : BOOLEAN]
      BY RefuseLatches
    <3>2. valve' \in {valve, Latch(Refuse(valve))}
      BY <1>9 DEF Settled
    <3> QED
      BY <3>1, <3>2
  <2>5. auth' \in {"Unauthenticated", "Established", "Rejected"}
    BY <1>9 DEF Settled, Settle
  <2>6. slot' \in [Slots -> Calls]
    BY <1>9, SlotUpdates DEF Settled, Outcomes
  <2> QED
    BY <1>9, <2>3, <2>4, <2>5, <2>6, JarOKTypeNext DEF Settled, Release, NoteGivingUp
<1>10. ASSUME NEW s \in Slots, Answer(s) PROVE TypeOK'
  <2>1. \A status \in {"ok", "401", "429"}, cookie \in Nat :
          Reply(s, status, cookie) => slot' \in [Slots -> Calls]
    <3> SUFFICES ASSUME NEW status \in {"ok", "401", "429"}, NEW cookie \in Nat,
                        Reply(s, status, cookie)
                 PROVE  slot' \in [Slots -> Calls]
      OBVIOUS
    <3> DEFINE reply == [status |-> status, cookie |-> cookie]
    <3>1. reply \in Replies
      BY DEF Replies
    <3>2. slot' = [slot EXCEPT ![s] = [slot[s] EXCEPT !.at = "reply", !.reply = reply]]
      BY DEF Reply
    <3>3. [slot[s] EXCEPT !.at = "reply", !.reply = reply] \in Calls
      <4>1. slot[s] \in Calls /\ slot[s].at # "idle"
        BY <1>10 DEF Answer
      <4> QED
        BY <4>1, <3>1, CallUpdates
    <3> QED
      BY <3>2, <3>3
  <2>2. slot' \in [Slots -> Calls]
    BY <1>10, <2>1 DEF Answer, NoSession
  <2>3. pc' \in [mode : Modes, password : BOOLEAN, live : SUBSET Nat, issued : Nat]
    <3> DEFINE id == pc.issued + 1
    <3>1. id \in Nat /\ pc.live \cup {id} \in SUBSET Nat
      OBVIOUS
    <3>2. \/ pc' = pc
          \/ pc' = [pc EXCEPT !.issued = id, !.live = IF pc.mode = "works" THEN @ \cup {id} ELSE @]
      BY <1>10 DEF Answer
    <3> QED
      BY <3>1, <3>2
  <2>4. spent' \in [calls : Nat, throttles : Nat, faults : Nat]
    <3>1. spent' = spent \/ spent' = [spent EXCEPT !.throttles = @ + 1]
      BY <1>10 DEF Answer
    <3> QED
      BY <3>1
  <2> QED
    BY <1>0, <1>10, <2>2, <2>3, <2>4, JarOKTypeNext DEF Answer
<1>11. ASSUME NEW s \in Slots, TransportFailure(s) PROVE TypeOK'
  <2>1. slot' \in [Slots -> Calls]
    BY <1>11, SlotUpdates DEF TransportFailure, Outcomes
  <2>2. spent' \in [calls : Nat, throttles : Nat, faults : Nat]
    BY <1>11 DEF TransportFailure
  <2> QED
    BY <1>0, <1>11, <2>1, <2>2, JarOKTypeNext DEF TransportFailure, Release
<1>12. CASE FarEnd
  BY <1>0, <1>12, JarOKTypeNext DEF FarEnd, EndSession, ChangePassword
<1>13. CASE UNCHANGED vars
  BY <1>0, <1>13, JarOKTypeNext DEF vars
<1> QED
  BY <1>1, <1>2, <1>3, <1>4, <1>5, <1>7, <1>8, <1>9, <1>10, <1>11, <1>12, <1>13
  DEF Next, Proceed

\* Every state the client reaches is well-formed.
THEOREM TypeCorrect == Spec => []TypeOK
BY TypeInit, TypeStep, PTL DEF Spec

---------------------------------------------------------------------------
(* The gate, the valve and the verdict. *)

\* A verdict shuts everything: while reuse has not been given up, the one slot that was
\* refused was the only one presenting.
Verdict ==
  /\ valve.latched <=> auth = "Rejected"
  /\ valve.latched <=> valve.refusals > 0
  /\ valve.latched /\ ~gaveUp => Presenters = {}

\* Only a session is checked for liveness, and the last pass presents.
Carried ==
  \A s \in Slots :
    /\ slot[s].probe # NoUrl =>
         slot[s].at \in {"wire", "reply", "pause"} /\ ~IsPresenting(s)
    /\ slot[s].at \in {"wire", "reply", "pause"} /\ slot[s].pass = RENEWALS => IsPresenting(s)

\* What OnePresenter, RefusedOnce and AuthMeansRefused need to be inductive: the gate
\* guards presentations only while the jar is usable, hence the history.
GateInv ==
  /\ TypeOK
  /\ ~gaveUp => Usable(jar)
  /\ OnePresenter
  /\ Verdict
  /\ RefusedOnce
  /\ Carried
  /\ AuthMeansRefused

\* A permit holder that comes to nothing is nobody; others keep what they carry.
LEMMA OthersCarry ==
  ASSUME NEW s \in Slots, NEW c, slot \in [Slots -> Calls], slot' = [slot EXCEPT ![s] = c]
  PROVE  /\ slot'[s] = c
         /\ \A t \in Slots \ {s} :
              slot'[t] = slot[t] /\ (t \in Presenters' <=> t \in Presenters)
BY DEF Presenters, IsPresenting

\* No slot presents in an initial state.
LEMMA GateInit == Init => GateInv
<1> SUFFICES ASSUME Init PROVE GateInv
  OBVIOUS
<1>1. TypeOK
  BY TypeInit
<1>2. Usable(jar)
  BY AuthAssumption DEF Init, Usable
<1>3. \A s \in Slots : slot[s] = Idle("none")
  BY DEF Init
<1>4. Presenters = {}
  BY <1>3 DEF Presenters, Idle
<1>5. Carried /\ AuthMeansRefused
  BY <1>3 DEF Carried, AuthMeansRefused, Idle
<1>6. OnePresenter /\ Verdict /\ RefusedOnce
  BY <1>4 DEF Init, OnePresenter, Verdict, RefusedOnce
<1> QED
  BY <1>1, <1>2, <1>5, <1>6 DEF GateInv

\* What a step of slot s owes Carried and AuthMeansRefused.
LEMMA SlotEffect ==
  ASSUME Carried, AuthMeansRefused, slot \in [Slots -> Calls],
         valve' = valve \/ valve'.refusals > 0,
         NEW s \in Slots, NEW c, slot' = [slot EXCEPT ![s] = c],
         c.probe # NoUrl => c.at \in {"wire", "reply", "pause"} /\ c.carry # Credential,
         c.at \in {"wire", "reply", "pause"} /\ c.pass = RENEWALS => c.carry = Credential,
         c.outcome = "auth" => slot[s].outcome = "auth" \/ valve'.refusals > 0
  PROVE  Carried' /\ AuthMeansRefused'
<1>1. slot'[s] = c /\ \A t \in Slots \ {s} : slot'[t] = slot[t]
  OBVIOUS
<1>2. Carried'
  BY <1>1 DEF Carried, IsPresenting
<1>3. AuthMeansRefused'
  BY <1>1 DEF AuthMeansRefused
<1> QED
  BY <1>2, <1>3

\* A step that starts and ends no presentation leaves the gate and the verdict alone.
LEMMA Quiet ==
  ASSUME OnePresenter, Verdict, RefusedOnce, Presenters' = Presenters,
         gate' = gate, valve' = valve, auth' = auth, gaveUp => gaveUp'
  PROVE  OnePresenter' /\ Verdict' /\ RefusedOnce'
BY DEF OnePresenter, Verdict, RefusedOnce

\* A slot in flight keeps what it carries, or was never presenting.
LEMMA SamePresenters ==
  ASSUME slot \in [Slots -> Calls], NEW s \in Slots, NEW c, slot' = [slot EXCEPT ![s] = c],
         c.at \in {"wire", "reply", "pause"} /\ c.carry = Credential <=> s \in Presenters
  PROVE  Presenters' = Presenters
<1>1. slot'[s] = c /\ \A t \in Slots \ {s} : slot'[t] = slot[t]
  OBVIOUS
<1> QED
  BY <1>1 DEF Presenters, IsPresenting

\* Every step keeps the inductive invariant.
LEMMA GateStep == GateInv /\ [Next]_vars => GateInv'
<1> SUFFICES ASSUME GateInv, [Next]_vars PROVE GateInv'
  OBVIOUS
<1>0. TypeOK /\ TypeOK'
  BY TypeStep DEF GateInv
<1> slot \in [Slots -> Calls] /\ valve.refusals \in Nat /\ gaveUp \in BOOLEAN
  BY <1>0 DEF TypeOK
<1> valve'.refusals \in Nat /\ gaveUp' \in BOOLEAN
  BY <1>0 DEF TypeOK
<1> USE DEF GateInv
<1> \A outcome : /\ Idle(outcome).at = "idle" /\ Idle(outcome).probe = NoUrl
                 /\ Idle(outcome).outcome = outcome /\ Idle(outcome).carry = Credential
  BY DEF Idle
<1>1. ASSUME NEW s \in Slots, Start(s) PROVE GateInv'
  <2>1. PICK url \in Urls :
          slot' = [slot EXCEPT ![s] = [Idle("none") EXCEPT !.at = "paced", !.url = url]]
    BY <1>1 DEF Start
  <2> DEFINE c == [Idle("none") EXCEPT !.at = "paced", !.url = url]
  <2>2. c.at = "paced" /\ c.probe = NoUrl /\ c.outcome = "none"
    BY DEF Idle
  <2>3. slot' = [slot EXCEPT ![s] = c]
    BY <2>1
  <2> HIDE DEF c
  <2>4. s \notin Presenters /\ UNCHANGED <<jar, auth, gate, valve, gaveUp>>
    BY <1>1 DEF Start, Presenters
  <2>5. Presenters' = Presenters
    BY <2>2, <2>3, <2>4, SamePresenters
  <2>6. Carried' /\ AuthMeansRefused'
    BY <2>2, <2>3, <2>4, SlotEffect
  <2> QED
    BY <1>0, <2>4, <2>5, <2>6, Quiet DEF Usable
<1>2. ASSUME NEW s \in Slots, Attempt(s) PROVE GateInv'
  <2>1. /\ slot[s].at = "paced" /\ s \notin Presenters
        /\ UNCHANGED <<jar, auth, gate, valve, gaveUp>>
    BY <1>2 DEF Attempt, Presenters
  <2>2. \/ Finish(s, "auth") /\ (~Open(valve) \/ auth = "Rejected")
        \/ Send(s, Credential) /\ Open(valve) /\ ~Usable(jar)
        \/ Send(s, Ride(jar)) /\ SkipsGate(slot[s].pass)
        \/ slot' = [slot EXCEPT ![s].at = "gate"]
    BY <1>2 DEF Attempt
  <2>3. CASE Finish(s, "auth") /\ (~Open(valve) \/ auth = "Rejected")
    <3>1. slot' = [slot EXCEPT ![s] = Idle("auth")]
      BY <2>3 DEF Finish
    <3>2. valve.refusals > 0
      BY <2>3 DEF Open, Verdict
    <3>3. Presenters' = Presenters
      BY <2>1, <3>1, SamePresenters
    <3>4. Carried' /\ AuthMeansRefused'
      BY <2>1, <3>1, <3>2, SlotEffect
    <3> QED
      BY <1>0, <2>1, <3>3, <3>4, Quiet DEF Usable
  <2>4. CASE Send(s, Credential) /\ Open(valve) /\ ~Usable(jar)
    <3> DEFINE c == [slot[s] EXCEPT !.at = "wire", !.carry = Credential]
    <3>1. slot' = [slot EXCEPT ![s] = c]
      BY <2>4 DEF Send
    <3>2. /\ c.at = "wire" /\ c.carry = Credential /\ c.probe = NoUrl
          /\ c.outcome = slot[s].outcome
      BY <1>0, <2>1 DEF TypeOK, Calls, Carried
    <3> HIDE DEF c
    <3>3. gaveUp /\ gaveUp'
      BY <2>1, <2>4
    <3>4. Carried' /\ AuthMeansRefused'
      BY <2>1, <3>1, <3>2, SlotEffect
    <3>5. gate # Nobody => gate \in Presenters'
      <4>1. gate # Nobody => gate \in Slots \ {s} /\ gate \in Presenters
        BY <2>1 DEF OnePresenter, Presenters
      <4> QED
        BY <4>1, <3>1, OthersCarry
    <3> QED
      BY <1>0, <2>1, <3>3, <3>4, <3>5 DEF OnePresenter, Verdict, RefusedOnce
  <2>5. CASE Send(s, Ride(jar)) /\ SkipsGate(slot[s].pass)
    <3> DEFINE c == [slot[s] EXCEPT !.at = "wire", !.carry = Ride(jar)]
    <3>1. slot' = [slot EXCEPT ![s] = c]
      BY <2>5 DEF Send
    <3>2. /\ c.at = "wire" /\ c.carry # Credential /\ c.pass # RENEWALS
          /\ c.outcome = slot[s].outcome
      BY <1>0, <2>5, AuthAssumption
      DEF TypeOK, Calls, SkipsGate, Rides, Ride, Credential
    <3> HIDE DEF c
    <3>3. Carried' /\ AuthMeansRefused'
      BY <2>1, <3>1, <3>2, SlotEffect
    <3>4. Presenters' = Presenters
      BY <2>1, <3>1, <3>2, SamePresenters
    <3> QED
      BY <1>0, <2>1, <3>3, <3>4, Quiet DEF Usable
  <2>6. CASE slot' = [slot EXCEPT ![s].at = "gate"]
    <3> DEFINE c == [slot[s] EXCEPT !.at = "gate"]
    <3>1. slot' = [slot EXCEPT ![s] = c]
      BY <2>6
    <3>2. c.at = "gate" /\ c.probe = NoUrl /\ c.outcome = slot[s].outcome
      BY <1>0, <2>1 DEF TypeOK, Calls, Carried
    <3> HIDE DEF c
    <3>3. Carried' /\ AuthMeansRefused'
      BY <2>1, <3>1, <3>2, SlotEffect
    <3>4. Presenters' = Presenters
      BY <2>1, <3>1, <3>2, SamePresenters
    <3> QED
      BY <1>0, <2>1, <3>3, <3>4, Quiet DEF Usable
  <2> QED
    BY <2>2, <2>3, <2>4, <2>5, <2>6
<1>3. ASSUME NEW s \in Slots, Carry(s) PROVE GateInv'
  <2>1. /\ slot[s].at = "gate" /\ s \notin Presenters /\ gate = Nobody
        /\ UNCHANGED <<jar, auth, valve, gaveUp>>
    BY <1>3 DEF Carry, Presenters, PermitFree
  <2>2. \/ Finish(s, "auth") /\ auth = "Rejected" /\ UNCHANGED gate
        \/ Send(s, Ride(jar)) /\ MayRide(slot[s].pass) /\ UNCHANGED gate
        \/ Send(s, Credential) /\ auth # "Rejected" /\ gate' = s
    BY <1>3 DEF Carry
  <2>3. CASE Finish(s, "auth") /\ auth = "Rejected" /\ UNCHANGED gate
    <3>1. slot' = [slot EXCEPT ![s] = Idle("auth")]
      BY <2>3 DEF Finish
    <3>2. valve.refusals > 0
      BY <2>3 DEF Verdict
    <3>3. Presenters' = Presenters
      BY <2>1, <3>1, SamePresenters
    <3>4. Carried' /\ AuthMeansRefused'
      BY <2>1, <3>1, <3>2, SlotEffect
    <3> QED
      BY <1>0, <2>1, <2>3, <3>3, <3>4, Quiet DEF Usable
  <2>4. CASE Send(s, Ride(jar)) /\ MayRide(slot[s].pass) /\ UNCHANGED gate
    <3> DEFINE c == [slot[s] EXCEPT !.at = "wire", !.carry = Ride(jar)]
    <3>1. slot' = [slot EXCEPT ![s] = c]
      BY <2>4 DEF Send
    <3>2. /\ c.at = "wire" /\ c.carry # Credential /\ c.pass # RENEWALS
          /\ c.outcome = slot[s].outcome
      BY <1>0, <2>4, AuthAssumption
      DEF TypeOK, Calls, MayRide, Rides, Ride, Credential
    <3> HIDE DEF c
    <3>3. Carried' /\ AuthMeansRefused'
      BY <2>1, <3>1, <3>2, SlotEffect
    <3>4. Presenters' = Presenters
      BY <2>1, <3>1, <3>2, SamePresenters
    <3> QED
      BY <1>0, <2>1, <2>4, <3>3, <3>4, Quiet DEF Usable
  <2>5. CASE Send(s, Credential) /\ auth # "Rejected" /\ gate' = s
    <3> DEFINE c == [slot[s] EXCEPT !.at = "wire", !.carry = Credential]
    <3>1. slot' = [slot EXCEPT ![s] = c]
      BY <2>5 DEF Send
    <3>2. /\ c.at = "wire" /\ c.carry = Credential /\ c.probe = NoUrl
          /\ c.outcome = slot[s].outcome
      BY <1>0, <2>1 DEF TypeOK, Calls, Carried
    <3> HIDE DEF c
    <3>3. Carried' /\ AuthMeansRefused'
      BY <2>1, <3>1, <3>2, SlotEffect
    <3>4. s \in Presenters' /\ \A t \in Slots \ {s} : t \in Presenters' <=> t \in Presenters
      BY <3>1, <3>2, OthersCarry DEF Presenters, IsPresenting
    <3>5. ~gaveUp => Presenters = {}
      BY <1>0, <2>1, AuthAssumption DEF OnePresenter, Presenters
    <3>6. ~gaveUp => Presenters' = {s}
      BY <3>4, <3>5 DEF Presenters
    <3>7. ~valve.latched
      BY <2>5 DEF Verdict
    <3> QED
      BY <1>0, <2>1, <2>5, <3>3, <3>4, <3>6, <3>7
      DEF OnePresenter, Verdict, RefusedOnce, Usable
  <2> QED
    BY <2>2, <2>3, <2>4, <2>5
<1>4. ASSUME NEW s \in Slots, Resume(s) PROVE GateInv'
  <2> DEFINE c == [slot[s] EXCEPT !.at = "wire", !.carry = slot[s].carry]
  <2>1. /\ slot[s].at = "pause" /\ UNCHANGED <<jar, auth, gate, valve, gaveUp>>
        /\ slot' = [slot EXCEPT ![s] = c]
    BY <1>4 DEF Resume, Send
  <2>2. /\ c.at = "wire" /\ c.carry = slot[s].carry /\ c.probe = slot[s].probe
        /\ c.pass = slot[s].pass /\ c.outcome = slot[s].outcome
    BY <1>0 DEF TypeOK, Calls
  <2> HIDE DEF c
  <2>3. Carried' /\ AuthMeansRefused'
    BY <2>1, <2>2, SlotEffect DEF Carried, IsPresenting
  <2>4. Presenters' = Presenters
    BY <2>1, <2>2, SamePresenters DEF Presenters, IsPresenting
  <2> QED
    BY <1>0, <2>1, <2>3, <2>4, Quiet DEF Usable
<1>5. ASSUME NEW s \in Slots, RateLimited(s) PROVE GateInv'
  <2> DEFINE c == [slot[s] EXCEPT !.at = "pause", !.retried = TRUE]
  <2>1. /\ slot[s].at = "reply" /\ UNCHANGED <<jar, auth, gate, valve, gaveUp>>
        /\ slot' = [slot EXCEPT ![s] = c]
    BY <1>0, <1>5 DEF RateLimited, TypeOK, Calls
  <2>2. /\ c.at = "pause" /\ c.carry = slot[s].carry /\ c.probe = slot[s].probe
        /\ c.pass = slot[s].pass /\ c.outcome = slot[s].outcome
    BY <1>0 DEF TypeOK, Calls
  <2> HIDE DEF c
  <2>3. Carried' /\ AuthMeansRefused'
    BY <2>1, <2>2, SlotEffect DEF Carried, IsPresenting
  <2>4. Presenters' = Presenters
    BY <2>1, <2>2, SamePresenters DEF Presenters, IsPresenting
  <2> QED
    BY <1>0, <2>1, <2>3, <2>4, Quiet DEF Usable
<1>6. ASSUME NEW s \in Slots, slot[s].at = "reply", ~IsPresenting(s), SessionEnded(s),
             UNCHANGED <<auth, gate, valve>>
      PROVE  GateInv'
  <2>1. slot[s].pass < RENEWALS
    <3>1. slot[s].pass \in 0..RENEWALS
      BY <1>0 DEF TypeOK, Calls
    <3>2. slot[s].pass # RENEWALS
      BY <1>6 DEF Carried
    <3> QED
      BY <3>1, <3>2, AuthAssumption
  <2> DEFINE c == [Idle("none") EXCEPT !.at = "paced", !.url = slot[s].url,
                                       !.pass = slot[s].pass + 1]
  <2>2. slot' = [slot EXCEPT ![s] = c]
    BY <1>6, <2>1 DEF SessionEnded, PassesLeft
  <2>3. c.at = "paced" /\ c.probe = NoUrl /\ c.outcome = "none"
    BY DEF Idle
  <2> HIDE DEF c
  <2>4. s \notin Presenters /\ (gaveUp => gaveUp') /\ (~gaveUp' => Usable(jar)')
    BY <1>6 DEF SessionEnded, NoteGivingUp, Presenters, Usable
  <2>5. Presenters' = Presenters
    BY <2>2, <2>3, <2>4, SamePresenters
  <2>6. Carried' /\ AuthMeansRefused'
    BY <1>6, <2>2, <2>3, SlotEffect
  <2> QED
    BY <1>0, <1>6, <2>4, <2>5, <2>6, Quiet
<1>7. ASSUME NEW s \in Slots, SessionRefused(s) PROVE GateInv'
  <2>1. CASE SessionEnded(s)
    BY <1>6, <1>7, <2>1 DEF SessionRefused
  <2>2. CASE ~SessionEnded(s)
    <3> DEFINE url == ProbeUrl(jar, slot[s].url)
               c == [slot[s] EXCEPT !.at = "pause", !.probe = url]
    <3>1. /\ slot[s].at = "reply" /\ ~IsPresenting(s)
          /\ UNCHANGED <<jar, auth, gate, valve, gaveUp>>
          /\ slot' = [slot EXCEPT ![s] = c]
      BY <1>0, <1>7, <2>2 DEF SessionRefused, TypeOK, Calls
    <3>2. /\ c.at = "pause" /\ c.carry = slot[s].carry
          /\ c.pass = slot[s].pass /\ c.outcome = slot[s].outcome
      BY <1>0 DEF TypeOK, Calls
    <3> HIDE DEF url, c
    <3>3. Carried' /\ AuthMeansRefused'
      BY <3>1, <3>2, SlotEffect DEF Carried, IsPresenting
    <3>4. Presenters' = Presenters
      BY <3>1, <3>2, SamePresenters DEF Presenters, IsPresenting
    <3> QED
      BY <1>0, <3>1, <3>3, <3>4, Quiet DEF Usable
  <2> QED
    BY <2>1, <2>2
<1>8. ASSUME NEW s \in Slots, LivenessChecked(s) PROVE GateInv'
  <2>1. /\ slot[s].at = "reply" /\ ~IsPresenting(s) /\ UNCHANGED <<auth, gate, valve>>
    BY <1>8 DEF LivenessChecked, Carried
  <2>2. CASE SessionEnded(s)
    BY <1>6, <2>1, <2>2
  <2>3. CASE ~SessionEnded(s)
    <3>1. UNCHANGED <<jar, gaveUp>> /\ slot' = [slot EXCEPT ![s] = Idle("denied")]
      BY <1>8, <2>3 DEF LivenessChecked, Finish
    <3>2. Presenters' = Presenters
      <4>1. s \notin Presenters
        BY <2>1 DEF Presenters
      <4> QED
        BY <3>1, <4>1, SamePresenters
    <3>3. Carried' /\ AuthMeansRefused'
      <4> DEFINE c == Idle("denied")
      <4>1. /\ slot' = [slot EXCEPT ![s] = c] /\ valve' = valve
            /\ c.at = "idle" /\ c.probe = NoUrl /\ c.outcome = "denied"
        BY <2>1, <3>1
      <4> HIDE DEF c
      <4> QED
        BY <4>1, SlotEffect
    <3> QED
      BY <1>0, <2>1, <3>1, <3>2, <3>3, Quiet DEF Usable
  <2> QED
    BY <2>2, <2>3
<1>10. ASSUME NEW s \in Slots, Answer(s) PROVE GateInv'
  <2>1. slot[s].at = "wire" /\ UNCHANGED <<jar, auth, gate, valve, gaveUp>>
    BY <1>10 DEF Answer
  <2>2. PICK r : slot' = [slot EXCEPT ![s].at = "reply", ![s].reply = r]
    BY <1>10 DEF Answer, Reply
  <2> DEFINE c == [slot[s] EXCEPT !.at = "reply", !.reply = r]
  <2>3. slot' = [slot EXCEPT ![s] = c]
    BY <2>2
  <2>4. /\ c.at = "reply" /\ c.carry = slot[s].carry /\ c.probe = slot[s].probe
        /\ c.pass = slot[s].pass /\ c.outcome = slot[s].outcome
    BY <1>0 DEF TypeOK, Calls
  <2> HIDE DEF c
  <2>5. Carried' /\ AuthMeansRefused'
    BY <2>1, <2>3, <2>4, SlotEffect DEF Carried, IsPresenting
  <2>6. Presenters' = Presenters
    BY <2>1, <2>3, <2>4, SamePresenters DEF Presenters, IsPresenting
  <2> QED
    BY <1>0, <2>1, <2>5, <2>6, Quiet DEF Usable
<1>9. ASSUME NEW s \in Slots, Settled(s) PROVE GateInv'
  <2> DEFINE status == slot[s].reply.status
             refused == IsPresenting(s) /\ status = "401"
  <2>0. PICK outcome \in {"auth", "answered", "transport"} :
          /\ slot' = [slot EXCEPT ![s] = Idle(outcome)]
          /\ outcome = "auth" => refused
    BY <1>9 DEF Settled, Finish
  <2>1. /\ slot[s].at = "reply"
        /\ valve' = IF refused THEN Latch(Refuse(valve)) ELSE valve
        /\ auth' = Settle(auth, IsPresenting(s), status)
        /\ gate' = IF gate = s THEN Nobody ELSE gate
        /\ gaveUp' = (gaveUp \/ ~Usable(jar'))
        /\ status = "401" => IsPresenting(s)
    BY <1>9 DEF Settled, Release, NoteGivingUp
  <2>2. /\ s \in Presenters <=> IsPresenting(s)
        /\ s \notin Presenters'
        /\ \A t \in Slots \ {s} : t \in Presenters' <=> t \in Presenters
    BY <2>0, <2>1, OthersCarry DEF Presenters, Idle
  <2>3. OnePresenter'
    <3>1. gate' # Nobody => gate' \in Presenters'
      BY <2>1, <2>2 DEF OnePresenter, Presenters
    <3>2. ~gaveUp' => Presenters' \subseteq {gate'}
      BY <2>1, <2>2 DEF OnePresenter, Presenters
    <3> QED
      BY <3>1, <3>2 DEF OnePresenter
  <2>4. CASE refused
    <3>1. valve'.latched /\ valve'.refusals = valve.refusals + 1
      BY <1>0, <2>1, <2>4, RefuseLatches DEF TypeOK
    <3>2. auth' = "Rejected"
      BY <2>1, <2>4 DEF Settle
    <3>3. ~gaveUp' => Presenters' = {} /\ valve.refusals = 0
      BY <2>1, <2>2, <2>4 DEF OnePresenter, Verdict, Presenters
    <3>4. valve'.refusals > 0
      BY <3>1
    <3>5. Carried' /\ AuthMeansRefused'
      BY <2>0, <3>4, SlotEffect
    <3>6. Verdict' /\ RefusedOnce'
      <4>1. ~gaveUp' => valve'.refusals = 1
        BY <3>1, <3>3
      <4> QED
        BY <3>1, <3>2, <3>3, <3>4, <4>1 DEF Verdict, RefusedOnce
    <3> QED
      BY <1>0, <2>1, <2>3, <3>5, <3>6 DEF Usable
  <2>5. CASE ~refused
    <3>1. valve' = valve /\ (auth' = "Rejected" <=> auth = "Rejected")
      BY <2>1, <2>5 DEF Settle
    <3>2. Presenters' \subseteq Presenters
      BY <2>2 DEF Presenters
    <3>3. Carried' /\ AuthMeansRefused'
      <4> DEFINE c == Idle(outcome)
      <4>1. /\ slot' = [slot EXCEPT ![s] = c]
            /\ c.at = "idle" /\ c.probe = NoUrl /\ c.outcome # "auth"
        BY <2>0, <2>5
      <4> HIDE DEF c
      <4> QED
        BY <3>1, <4>1, SlotEffect
    <3> QED
      BY <1>0, <2>1, <2>3, <3>1, <3>2, <3>3 DEF Verdict, RefusedOnce, Usable
  <2> QED
    BY <2>4, <2>5
<1>11. ASSUME NEW s \in Slots, TransportFailure(s) PROVE GateInv'
  <2>1. PICK outcome \in {"transport", "denied"} : slot' = [slot EXCEPT ![s] = Idle(outcome)]
    BY <1>11 DEF TransportFailure, Finish
  <2>2. /\ gate' = IF gate = s THEN Nobody ELSE gate
        /\ UNCHANGED <<jar, auth, valve, gaveUp>>
    BY <1>11 DEF TransportFailure, Release
  <2>3. s \notin Presenters' /\ \A t \in Slots \ {s} : t \in Presenters' <=> t \in Presenters
    BY <2>1, OthersCarry DEF Presenters, Idle
  <2>4. OnePresenter'
    <3>1. gate' # Nobody => gate' \in Presenters'
      BY <2>2, <2>3 DEF OnePresenter, Presenters
    <3>2. ~gaveUp' => Presenters' \subseteq {gate'}
      BY <2>2, <2>3 DEF OnePresenter, Presenters
    <3> QED
      BY <3>1, <3>2 DEF OnePresenter
  <2>5. Presenters' \subseteq Presenters
    BY <2>3 DEF Presenters
  <2>6. Carried' /\ AuthMeansRefused'
    BY <2>1, <2>2, SlotEffect
  <2> QED
    BY <1>0, <2>2, <2>4, <2>5, <2>6 DEF Verdict, RefusedOnce, Usable
<1>12. CASE FarEnd
  <2>1. UNCHANGED <<jar, auth, gate, valve, slot, gaveUp>>
    BY <1>12 DEF FarEnd
  <2> QED
    BY <1>0, <2>1 DEF OnePresenter, Verdict, RefusedOnce, Carried, AuthMeansRefused,
       Presenters, IsPresenting, Usable
<1>13. CASE UNCHANGED vars
  BY <1>0, <1>13 DEF vars, OnePresenter, Verdict, RefusedOnce, Carried, AuthMeansRefused,
     Presenters, IsPresenting, Usable
<1> QED
  BY <1>1, <1>2, <1>3, <1>4, <1>5, <1>7, <1>8, <1>9, <1>10, <1>11, <1>12, <1>13
  DEF Next, Proceed

\* The inductive invariant holds in every behaviour.
LEMMA GateInvariant == Spec => []GateInv
BY GateInit, GateStep, PTL DEF Spec

\* The gate is single-flight: only its holder presents the password.
THEOREM SingleFlight == Spec => []OnePresenter
<1>1. GateInv => OnePresenter
  BY DEF GateInv
<1> QED
  BY <1>1, GateInvariant, PTL

\* A refused password is refused once, whatever waits behind it.
THEOREM PresentedOnce == Spec => []RefusedOnce
<1>1. GateInv => RefusedOnce
  BY DEF GateInv
<1> QED
  BY <1>1, GateInvariant, PTL

\* Nobody is told of a refusal that did not happen.
THEOREM HonestRefusal == Spec => []AuthMeansRefused
<1>1. GateInv => AuthMeansRefused
  BY DEF GateInv
<1> QED
  BY <1>1, GateInvariant, PTL

\* After a refusal nothing that was still waiting goes out.
THEOREM TerminalRefusal == Spec => StopsOnceLatched
<1> DEFINE Stops == valve.latched => \A s \in Slots :
                      slot[s].at \in {"paced", "gate"} => slot'[s].at # "wire"
<1>1. GateInv /\ [Next]_vars => [Stops]_vars
  <2> SUFFICES ASSUME GateInv, Next, valve.latched, NEW t \in Slots,
                      slot[t].at \in {"paced", "gate"}
               PROVE  slot'[t].at # "wire"
    OBVIOUS
  <2>0. slot \in [Slots -> Calls] /\ auth = "Rejected"
    BY DEF GateInv, TypeOK, Verdict
  <2>2. ASSUME Attempt(t) PROVE slot'[t].at # "wire"
    BY <2>0, <2>2 DEF Attempt, Open, Finish, Idle
  <2>3. ASSUME Carry(t) PROVE slot'[t].at # "wire"
    BY <2>0, <2>3 DEF Carry, Finish, Idle
  <2>4. ~(Start(t) \/ Resume(t) \/ RateLimited(t) \/ SessionRefused(t) \/ LivenessChecked(t)
          \/ Settled(t) \/ Answer(t) \/ TransportFailure(t))
    BY DEF Start, Resume, RateLimited, SessionRefused, LivenessChecked, Settled, Answer,
       TransportFailure
  <2>5. ASSUME NEW s \in Slots, s # t, Start(s) \/ Proceed(s) \/ Answer(s) \/ TransportFailure(s)
        PROVE  slot'[t] = slot[t]
    <3>1. CASE Start(s)
      BY <2>0, <2>5, <3>1 DEF Start
    <3>2. CASE Attempt(s)
      BY <2>0, <2>5, <3>2 DEF Attempt, Finish, Send
    <3>3. CASE Carry(s)
      BY <2>0, <2>5, <3>3 DEF Carry, Finish, Send
    <3>4. CASE Resume(s) \/ RateLimited(s)
      BY <2>0, <2>5, <3>4 DEF Resume, RateLimited, Send
    <3>5. CASE SessionRefused(s)
      BY <2>0, <2>5, <3>5 DEF SessionRefused, SessionEnded, Finish
    <3>6. CASE LivenessChecked(s)
      BY <2>0, <2>5, <3>6 DEF LivenessChecked, SessionEnded, Finish
    <3>7. CASE Settled(s)
      BY <2>0, <2>5, <3>7 DEF Settled, Finish
    <3>8. CASE Answer(s)
      BY <2>0, <2>5, <3>8 DEF Answer, Reply
    <3>9. CASE TransportFailure(s)
      BY <2>0, <2>5, <3>9 DEF TransportFailure, Finish
    <3> QED
      BY <2>5, <3>1, <3>2, <3>3, <3>4, <3>5, <3>6, <3>7, <3>8, <3>9 DEF Proceed
  <2>6. CASE FarEnd
    BY <2>6 DEF FarEnd
  <2> QED
    BY <2>2, <2>3, <2>4, <2>5, <2>6 DEF Next, Proceed
<1> QED
  BY <1>1, GateInvariant, PTL DEF Spec, StopsOnceLatched

---------------------------------------------------------------------------
(* A live session stays. *)

\* There is another URL to check a denied one's 401 on.
Elsewhere(urls) ==
  Len(urls) > 1 \/ \E i \in DOMAIN urls : urls[i] \notin DeniedUrls

\* Taking out one URL leaves another, if there was one.
LEMMA WithoutLeaves ==
  ASSUME NEW q \in Seq(Urls), NEW url,
         Len(q) > 1 \/ \E i \in DOMAIN q : q[i] # url
  PROVE  Without(q, url) # <<>>
<1> DEFINE at == {i \in DOMAIN q : q[i] = url}
<1>1. Len(q) \in Nat /\ DOMAIN q = 1..Len(q)
  BY LenProperties
<1>2. CASE at = {}
  <2>1. Without(q, url) = q
    BY <1>2 DEF Without
  <2>2. Len(q) > 0
    BY <1>1, SMT
  <2> QED
    BY <2>1, <2>2, SMT
<1>3. CASE at # {}
  <2> DEFINE i == CHOOSE i \in at : TRUE
             front == SubSeq(q, 1, i - 1)
             back == SubSeq(q, i + 1, Len(q))
  <2>1. Without(q, url) = front \o back
    BY <1>3 DEF Without
  <2>2. i \in 1..Len(q) /\ q[i] = url
    BY <1>1, <1>3
  <2> HIDE DEF i
  <2>3. front \in Seq(Urls) /\ Len(front) = i - 1
    BY <2>2, SMT
  <2>4. back \in Seq(Urls) /\ Len(back) = Len(q) - i
    BY <2>2, SMT
  <2>5. Len(q) > 1
    BY <1>1, <2>2, SMT
  <2> HIDE DEF front, back
  <2>6. Len(front \o back) = Len(front) + Len(back)
    BY <2>3, <2>4, ConcatProperties
  <2> QED
    BY <1>1, <2>1, <2>2, <2>3, <2>4, <2>5, <2>6, SMT
<1> QED
  BY <1>2, <1>3

\* What was answered on is remembered, and there stays another URL to check on.
LEMMA RememberElsewhere ==
  ASSUME PROBE_URLS > 1, NEW j \in JarType, NEW url \in Urls,
         url \notin DeniedUrls \/ Elsewhere(j.ok_urls)
  PROVE  Elsewhere(RememberOk(j, url).ok_urls)
<1> DEFINE others == Without(j.ok_urls, url)
           kept == IF Len(others) >= PROBE_URLS THEN Tail(others) ELSE others
<1>1. RememberOk(j, url).ok_urls = Append(kept, url) /\ j.ok_urls \in Seq(Urls)
  BY DEF RememberOk, JarType
<1>2. others \in Seq(Urls)
  BY <1>1, WithoutType DEF JarType
<1>3. others # <<>> => kept # <<>>
  <2> HIDE DEF others
  <2> QED
    BY <1>2, AuthAssumption, SMT
<1>4. kept \in Seq(Urls)
  <2> HIDE DEF others
  <2>1. Len(others) >= PROBE_URLS => others # <<>>
    BY AuthAssumption, SMT
  <2> QED
    BY <1>2, <2>1, HeadTailProperties
<1>5. CASE url \notin DeniedUrls
  <2> HIDE DEF kept
  <2>1. /\ Len(kept) + 1 \in DOMAIN Append(kept, url)
        /\ Append(kept, url)[Len(kept) + 1] = url
    BY <1>4, AppendProperties, LenProperties, SMT
  <2> QED
    BY <1>1, <1>5, <2>1 DEF Elsewhere
<1>6. CASE url \in DeniedUrls
  <2>1. others # <<>>
    BY <1>1, <1>6, WithoutLeaves DEF Elsewhere
  <2> HIDE DEF kept
  <2>2. Len(kept) > 0 /\ Len(Append(kept, url)) = Len(kept) + 1
    BY <1>3, <1>4, <2>1, SMT
  <2> QED
    BY <1>1, <1>4, <2>2, SMT DEF Elsewhere
<1> QED
  BY <1>5, <1>6

\* A call knows no session the Prism Central has not issued; a cookie comes with an accepted
\* password; and a session refused where this account is not denied has ended.
CallKept(c) ==
  /\ c.carry.session <= pc.issued
  /\ c.at = "reply" =>
       /\ c.reply.cookie <= pc.issued
       /\ c.reply.cookie # NoSession =>
            c.reply.status = "ok" /\ c.carry = Credential /\ c.url \notin DeniedUrls
       /\ /\ c.reply.status = "401" /\ c.carry # Credential
          /\ (IF c.probe = NoUrl THEN c.url ELSE c.probe) \notin DeniedUrls
          => c.carry.session \notin pc.live

\* What LiveSessionKept needs: a session in the jar has a URL besides a denied one.
KeptInv ==
  /\ \A id \in pc.live : id # NoSession /\ id <= pc.issued
  /\ jar.cookie <= pc.issued
  /\ jar.cookie # NoSession => Elsewhere(jar.ok_urls)
  /\ \A s \in Slots : CallKept(slot[s])

\* The far end issues new sessions only, and never takes one up again.
FarGrows ==
  /\ pc'.issued >= pc.issued
  /\ \A id \in pc'.live : id \in pc.live \/ id > pc.issued

\* What a step of slot s owes the calls.
LEMMA CallsKept ==
  ASSUME TypeOK, TypeOK', KeptInv, FarGrows, NEW s \in Slots, NEW c,
         slot' = [slot EXCEPT ![s] = c], CallKept(c)'
  PROVE  (\A t \in Slots : CallKept(slot[t]))'
<1> SUFFICES ASSUME NEW t \in Slots PROVE CallKept(slot[t])'
  OBVIOUS
<1>1. CASE t = s
  BY <1>1 DEF TypeOK
<1>2. CASE t # s
  <2>1. slot'[t] = slot[t] /\ CallKept(slot[t]) /\ slot[t] \in Calls
    BY <1>2 DEF TypeOK, KeptInv
  <2>2. /\ slot[t].carry.session \in Nat /\ slot[t].reply.cookie \in Nat
        /\ pc.issued \in Nat /\ pc'.issued \in Nat
    BY <2>1 DEF TypeOK, Calls, Carries, Replies
  <2> QED
    BY <2>1, <2>2 DEF CallKept, FarGrows
<1> QED
  BY <1>1, <1>2

\* In an initial state nothing was issued.
LEMMA KeptInit == Init => KeptInv
<1> SUFFICES ASSUME Init PROVE KeptInv
  OBVIOUS
<1>1. \A s \in Slots : CallKept(slot[s])
  BY DEF Init, CallKept, Idle, Credential, NoSession
<1> QED
  BY <1>1 DEF Init, KeptInv, NoSession

\* A call whose session ended carries nothing yet.
LEMMA EndedCall ==
  ASSUME NEW s \in Slots, SessionEnded(s)
  PROVE  \E c : /\ slot' = [slot EXCEPT ![s] = c]
                /\ c.at \in {"idle", "paced"} /\ c.carry = Credential
<1> DEFINE again == [Idle("none") EXCEPT !.at = "paced", !.url = slot[s].url,
                                         !.pass = slot[s].pass + 1]
           over == Idle("auth")
<1>1. again.at = "paced" /\ again.carry = Credential /\ over.at = "idle" /\ over.carry = Credential
  BY DEF Idle
<1>2. slot' = [slot EXCEPT ![s] = again] \/ slot' = [slot EXCEPT ![s] = over]
  BY DEF SessionEnded, Finish
<1> HIDE DEF again, over
<1> QED
  BY <1>1, <1>2

\* A session that is dropped while it lives was carried by the request whose 401 drops it,
\* and that 401 came from a URL that is denied.
LEMMA DropOfLive ==
  ASSUME PROBE_URLS > 1, TypeOK, KeptInv, NEW s \in Slots, SessionEnded(s),
         slot[s].at = "reply", slot[s].reply.status = "401", slot[s].carry # Credential,
         slot[s].probe = NoUrl => ProbeUrl(jar, slot[s].url) = NoUrl,
         jar.cookie \in pc.live, jar.cookie # NoSession, jar'.cookie = NoSession
  PROVE  /\ slot'[s].at # "reply"
         /\ \/ slot[s].probe \in DeniedUrls
            \/ slot[s].carry.generation = jar.generation /\ slot[s].carry.session # jar.cookie
<1>1. slot[s] \in Calls /\ slot \in [Slots -> Calls] /\ jar \in JarType
  BY JarOKType DEF TypeOK
<1>2. slot'[s].at # "reply"
  BY <1>1, EndedCall
<1>3. slot[s].carry.generation = jar.generation
  BY <1>1 DEF SessionEnded, Expire, JarType
<1>4. ASSUME slot[s].carry.session = jar.cookie PROVE slot[s].probe \in DeniedUrls
  <2>1. (IF slot[s].probe = NoUrl THEN slot[s].url ELSE slot[s].probe) \in DeniedUrls
    BY <1>4 DEF KeptInv, CallKept
  <2>2. CASE slot[s].probe = NoUrl
    <3> DEFINE q == jar.ok_urls
               others == Without(q, slot[s].url)
    <3>1. slot[s].url \in DeniedUrls /\ q \in Seq(Urls) /\ Distinct(q) /\ Elsewhere(q)
      BY <1>1, <2>1, <2>2 DEF KeptInv, JarType
    <3>2. others # <<>> /\ others \in Seq(Urls)
      BY <3>1, WithoutLeaves, WithoutType DEF Elsewhere
    <3>3. ProbeUrl(jar, slot[s].url) \in Urls
      <4>1. ProbeUrl(jar, slot[s].url) = others[Len(others)]
        BY <3>2 DEF ProbeUrl
      <4> HIDE DEF others
      <4>2. others[Len(others)] \in Urls
        BY <3>2
      <4> QED
        BY <4>1, <4>2
    <3> QED
      BY <2>2, <3>3, AuthAssumption
  <2> QED
    BY <2>1, <2>2
<1> QED
  BY <1>2, <1>3, <1>4

\* Every step keeps KeptInv, and does with a live session what LiveSessionKept allows.
LEMMA KeptStep ==
  ASSUME PROBE_URLS > 1, GateInv, KeptInv, [Next]_vars
  PROVE  /\ KeptInv'
         /\ jar.cookie \in pc.live /\ jar'.cookie = NoSession /\ jar.cookie # NoSession =>
              \E s \in Slots :
                /\ slot[s].at = "reply" /\ slot'[s].at # "reply"
                /\ \/ slot[s].probe \in DeniedUrls
                   \/ /\ slot[s].carry.generation = jar.generation
                      /\ slot[s].carry.session # jar.cookie
<1> DEFINE Kept == jar.cookie \in pc.live /\ jar'.cookie = NoSession /\ jar.cookie # NoSession =>
              \E s \in Slots :
                /\ slot[s].at = "reply" /\ slot'[s].at # "reply"
                /\ \/ slot[s].probe \in DeniedUrls
                   \/ /\ slot[s].carry.generation = jar.generation
                      /\ slot[s].carry.session # jar.cookie
<1> SUFFICES KeptInv' /\ Kept
  OBVIOUS
<1> HIDE DEF Kept
<1>0. TypeOK /\ TypeOK' /\ Carried
  BY TypeStep DEF GateInv
<1>a. /\ jar \in JarType /\ jar' \in JarType /\ slot \in [Slots -> Calls]
      /\ pc.issued \in Nat /\ pc'.issued \in Nat /\ pc.live \subseteq Nat
  BY <1>0, JarOKType, JarOKTypeNext DEF TypeOK
<1>b. jar' = jar => Kept
  BY DEF Kept
<1>c. ASSUME NEW outcome PROVE CallKept(Idle(outcome))'
  BY <1>a DEF CallKept, Idle, Credential, NoSession
\* A step of one call that leaves the jar and the Prism Central alone.
<1>d. ASSUME NEW s \in Slots, NEW c, slot' = [slot EXCEPT ![s] = c], UNCHANGED <<jar, pc>>,
             c.carry.session <= pc.issued, c.at # "reply"
      PROVE  KeptInv' /\ Kept
  <2>1. FarGrows /\ CallKept(c)'
    BY <1>a, <1>d DEF FarGrows, CallKept
  <2>2. (\A t \in Slots : CallKept(slot[t]))'
    BY <1>0, <1>d, <2>1, CallsKept
  <2> QED
    BY <1>b, <1>d, <2>2 DEF KeptInv
<1>e. Credential.session <= pc.issued /\ Ride(jar).session <= pc.issued
  BY <1>a DEF Credential, Ride, NoSession, KeptInv
<1>f. ASSUME NEW s \in Slots PROVE slot[s].carry.session <= pc.issued
  BY DEF KeptInv, CallKept
<1>g. ASSUME NEW outcome
      PROVE  /\ Idle(outcome).carry.session <= pc.issued /\ Idle(outcome).at # "reply"
  BY <1>e DEF Idle
<1>1. ASSUME NEW s \in Slots, Start(s) PROVE KeptInv' /\ Kept
  <2>1. PICK url \in Urls :
          slot' = [slot EXCEPT ![s] = [Idle("none") EXCEPT !.at = "paced", !.url = url]]
    BY <1>1 DEF Start
  <2>2. PICK c : c = [Idle("none") EXCEPT !.at = "paced", !.url = url]
    OBVIOUS
  <2>3. c.at # "reply" /\ c.carry.session <= pc.issued
    BY <1>e, <2>2 DEF Idle
  <2>4. slot' = [slot EXCEPT ![s] = c] /\ UNCHANGED <<jar, pc>>
    BY <1>1, <2>1, <2>2 DEF Start
  <2> QED
    BY <1>d, <2>3, <2>4
<1>2. ASSUME NEW s \in Slots, NEW carry, Send(s, carry), carry.session <= pc.issued,
             UNCHANGED <<jar, pc>>
      PROVE  KeptInv' /\ Kept
  <2>1. PICK c : c = [slot[s] EXCEPT !.at = "wire", !.carry = carry]
    OBVIOUS
  <2>2. c.at # "reply" /\ c.carry = carry /\ slot' = [slot EXCEPT ![s] = c]
    BY <1>a, <1>2, <2>1 DEF Send, Calls
  <2> QED
    BY <1>d, <1>2, <2>2
<1>3. ASSUME NEW s \in Slots, NEW outcome, Finish(s, outcome), UNCHANGED <<jar, pc>>
      PROVE  KeptInv' /\ Kept
  <2>1. PICK c : c = Idle(outcome)
    OBVIOUS
  <2> QED
    BY <1>d, <1>g, <1>3, <2>1 DEF Finish
<1>4. ASSUME NEW s \in Slots, NEW c, slot' = [slot EXCEPT ![s] = c], c.carry = slot[s].carry,
             c.at # "reply", UNCHANGED <<jar, pc>>
      PROVE  KeptInv' /\ Kept
  BY <1>d, <1>f, <1>4
<1>5. ASSUME NEW s \in Slots, Attempt(s) PROVE KeptInv' /\ Kept
  <2>1. UNCHANGED <<jar, pc>>
    BY <1>5 DEF Attempt
  <2>2. CASE slot' = [slot EXCEPT ![s].at = "gate"]
    <3>1. PICK c : c = [slot[s] EXCEPT !.at = "gate"]
      OBVIOUS
    <3>2. c.at = "gate" /\ c.carry = slot[s].carry /\ slot' = [slot EXCEPT ![s] = c]
      BY <1>a, <2>2, <3>1 DEF Calls
    <3> QED
      BY <1>4, <2>1, <3>2
  <2>3. CASE Finish(s, "auth")
    BY <1>3, <2>1, <2>3
  <2>4. CASE \E carry \in {Credential, Ride(jar)} : Send(s, carry)
    BY <1>2, <1>e, <2>1, <2>4
  <2> QED
    BY <1>5, <2>2, <2>3, <2>4 DEF Attempt
<1>6. ASSUME NEW s \in Slots, Carry(s) PROVE KeptInv' /\ Kept
  <2>1. UNCHANGED <<jar, pc>>
    BY <1>6 DEF Carry
  <2>2. CASE Finish(s, "auth")
    BY <1>3, <2>1, <2>2
  <2>3. CASE \E carry \in {Credential, Ride(jar)} : Send(s, carry)
    BY <1>2, <1>e, <2>1, <2>3
  <2> QED
    BY <1>6, <2>2, <2>3 DEF Carry
<1>7. ASSUME NEW s \in Slots, Resume(s) PROVE KeptInv' /\ Kept
  <2>1. PICK carry : carry = slot[s].carry
    OBVIOUS
  <2> QED
    BY <1>2, <1>7, <1>f, <2>1 DEF Resume
<1>8. ASSUME NEW s \in Slots, RateLimited(s) PROVE KeptInv' /\ Kept
  <2>1. PICK c : c = [slot[s] EXCEPT !.at = "pause", !.retried = TRUE]
    OBVIOUS
  <2>2. c.at = "pause" /\ c.carry = slot[s].carry /\ slot' = [slot EXCEPT ![s] = c]
    BY <1>a, <1>8, <2>1 DEF Calls, RateLimited
  <2> QED
    BY <1>4, <1>8, <2>2 DEF RateLimited
<1>9. ASSUME NEW s \in Slots, SessionEnded(s), slot[s].at = "reply",
             slot[s].reply.status = "401", slot[s].carry # Credential,
             slot[s].probe = NoUrl => ProbeUrl(jar, slot[s].url) = NoUrl, UNCHANGED pc
      PROVE  KeptInv' /\ Kept
  <2>1. PICK c : slot' = [slot EXCEPT ![s] = c] /\ c.at # "reply" /\ c.carry = Credential
    BY <1>9, EndedCall
  <2>2. FarGrows /\ CallKept(c)'
    BY <1>9, <1>a, <2>1 DEF FarGrows, CallKept, Credential, NoSession
  <2>3. (\A t \in Slots : CallKept(slot[t]))'
    BY <1>0, <2>1, <2>2, CallsKept
  <2>4. /\ jar'.cookie \in {jar.cookie, NoSession}
        /\ jar'.ok_urls = jar.ok_urls
    BY <1>9, <1>a DEF SessionEnded, Expire, JarType
  <2>5. Kept
    BY <1>0, <1>9, DropOfLive DEF Kept
  <2> QED
    BY <1>9, <1>a, <2>3, <2>4, <2>5 DEF KeptInv, NoSession
<1>10. ASSUME NEW s \in Slots, SessionRefused(s) PROVE KeptInv' /\ Kept
  <2>1. CASE SessionEnded(s) /\ ProbeUrl(jar, slot[s].url) = NoUrl
    BY <1>9, <1>10, <2>1 DEF SessionRefused, IsPresenting
  <2>2. CASE ~(SessionEnded(s) /\ ProbeUrl(jar, slot[s].url) = NoUrl)
    <3>1. PICK url : slot' = [slot EXCEPT ![s].at = "pause", ![s].probe = url]
      BY <1>10, <2>2 DEF SessionRefused
    <3>2. PICK c : c = [slot[s] EXCEPT !.at = "pause", !.probe = url]
      OBVIOUS
    <3>3. c.at = "pause" /\ c.carry = slot[s].carry /\ slot' = [slot EXCEPT ![s] = c]
      BY <1>a, <3>1, <3>2 DEF Calls
    <3>4. UNCHANGED <<jar, pc>>
      BY <1>10, <2>2 DEF SessionRefused
    <3> QED
      BY <1>4, <3>3, <3>4
  <2> QED
    BY <2>1, <2>2
<1>11. ASSUME NEW s \in Slots, LivenessChecked(s) PROVE KeptInv' /\ Kept
  <2>1. CASE SessionEnded(s) /\ slot[s].reply.status = "401"
    <3>1. slot[s].carry # Credential
      BY <1>0, <1>11 DEF LivenessChecked, Carried, IsPresenting
    <3> QED
      BY <1>9, <1>11, <2>1, <3>1 DEF LivenessChecked
  <2>2. CASE ~(SessionEnded(s) /\ slot[s].reply.status = "401")
    BY <1>3, <1>11, <2>2 DEF LivenessChecked
  <2> QED
    BY <2>1, <2>2
<1>12. ASSUME NEW s \in Slots, Settled(s) PROVE KeptInv' /\ Kept
  <2> DEFINE banked == SetCookies(jar, slot[s].reply.cookie)
  <2>1. PICK outcome : slot' = [slot EXCEPT ![s] = Idle(outcome)]
    BY <1>12 DEF Settled, Finish
  <2>2. FarGrows /\ UNCHANGED pc
    BY <1>12, <1>a DEF FarGrows, Settled
  <2>3. (\A t \in Slots : CallKept(slot[t]))'
    <3>1. PICK c : c = Idle(outcome)
      OBVIOUS
    <3>2. CallKept(c)'
      BY <1>a, <3>1 DEF CallKept, Idle, Credential, NoSession
    <3> QED
      BY <1>0, <2>1, <2>2, <3>1, <3>2, CallsKept
  <2>4. slot[s].reply \in Replies /\ slot[s].url \in Urls /\ CallKept(slot[s])
    BY <1>0, <1>12 DEF Settled, TypeOK, Calls, KeptInv
  <2>5. /\ banked \in JarType /\ banked.ok_urls = jar.ok_urls
        /\ banked.cookie \in {jar.cookie, slot[s].reply.cookie}
        /\ slot[s].reply.cookie = NoSession => banked.cookie = jar.cookie
        /\ slot[s].reply.cookie # NoSession => banked.cookie # NoSession \/ jar.cookie = NoSession
    BY <1>a, <2>4, JarStepTypes DEF SetCookies, JarType, Replies
  <2> HIDE DEF banked
  <2>6. /\ jar'.cookie = banked.cookie
        /\ \/ jar'.ok_urls = RememberOk(banked, slot[s].url).ok_urls
           \/ jar'.ok_urls = RememberOk([banked EXCEPT !.ever_answered = TRUE], slot[s].url).ok_urls
           \/ jar'.ok_urls = jar.ok_urls /\ slot[s].reply.status = "401"
    <3>1. ASSUME NEW j \in JarType, NEW url
          PROVE  /\ RememberOk(j, url).cookie = j.cookie
                 /\ Presented(j).cookie = j.cookie /\ Presented(j).ok_urls = j.ok_urls
      BY DEF RememberOk, Presented, JarType
    <3>2. [banked EXCEPT !.ever_answered = TRUE] \in JarType
      BY <2>5 DEF JarType
    <3>3. [banked EXCEPT !.ever_answered = TRUE].cookie = banked.cookie
      BY <2>5 DEF JarType
    <3>4. RememberOk(banked, slot[s].url) \in JarType
      BY <2>4, <2>5, RememberOkType
    <3> QED
      <4>1. CASE ~IsPresenting(s)
        <5>1. jar' = RememberOk([banked EXCEPT !.ever_answered = TRUE], slot[s].url)
          BY <1>12, <4>1 DEF Settled, Answered, banked
        <5> QED
          BY <3>1, <3>2, <3>3, <5>1
      <4>2. CASE IsPresenting(s) /\ slot[s].reply.status = "401"
        <5>1. jar' = banked
          BY <1>12, <4>2 DEF Settled, banked
        <5> QED
          BY <2>5, <4>2, <5>1
      <4>3. CASE IsPresenting(s) /\ slot[s].reply.status # "401"
        <5>1. jar' = Presented(RememberOk(banked, slot[s].url))
          BY <1>12, <4>3 DEF Settled, banked
        <5> QED
          BY <2>5, <3>1, <3>4, <5>1
      <4> QED
        BY <4>1, <4>2, <4>3
  <2>7. jar'.cookie # NoSession => Elsewhere(jar'.ok_urls)
    <3> SUFFICES ASSUME jar'.cookie # NoSession PROVE Elsewhere(jar'.ok_urls)
      OBVIOUS
    <3>1. slot[s].reply.cookie # NoSession =>
            slot[s].url \notin DeniedUrls /\ slot[s].reply.status = "ok"
      BY <1>12, <2>4 DEF CallKept, Settled
    <3>2. slot[s].url \notin DeniedUrls \/ Elsewhere(banked.ok_urls)
      BY <2>5, <2>6, <3>1 DEF KeptInv
    <3>3. /\ [banked EXCEPT !.ever_answered = TRUE] \in JarType
          /\ [banked EXCEPT !.ever_answered = TRUE].ok_urls = banked.ok_urls
      BY <2>5 DEF JarType
    <3>4. CASE slot[s].reply.status = "401"
      <4>1. Elsewhere(jar.ok_urls)
        BY <2>5, <2>6, <3>1, <3>4 DEF KeptInv
      <4>2. Elsewhere(RememberOk(banked, slot[s].url).ok_urls)
            /\ Elsewhere(RememberOk([banked EXCEPT !.ever_answered = TRUE], slot[s].url).ok_urls)
        BY <2>4, <2>5, <3>2, <3>3, RememberElsewhere
      <4> QED
        BY <2>6, <4>1, <4>2
    <3>5. CASE slot[s].reply.status # "401"
      <4>1. Elsewhere(RememberOk(banked, slot[s].url).ok_urls)
            /\ Elsewhere(RememberOk([banked EXCEPT !.ever_answered = TRUE], slot[s].url).ok_urls)
        BY <2>4, <2>5, <3>2, <3>3, RememberElsewhere
      <4> QED
        BY <2>6, <3>5, <4>1
    <3> QED
      BY <3>4, <3>5
  <2>8. jar'.cookie <= pc'.issued
    BY <1>12, <2>2, <2>4, <2>5, <2>6 DEF KeptInv, CallKept, Settled
  <2>9. Kept
    BY <2>5, <2>6 DEF Kept
  <2> QED
    BY <2>2, <2>3, <2>7, <2>8, <2>9 DEF KeptInv
<1>13. ASSUME NEW s \in Slots, Answer(s) PROVE KeptInv' /\ Kept
  <2>1. /\ slot[s].at = "wire" /\ jar' = jar
        /\ slot[s] \in Calls /\ CallKept(slot[s])
    BY <1>13, <1>a DEF Answer, KeptInv
  <2>0. \/ pc' = pc
        \/ pc'.issued = pc.issued + 1 /\ pc'.live \subseteq pc.live \cup {pc.issued + 1}
    <3>1. \/ pc' = pc
          \/ pc' = [pc EXCEPT !.issued = pc.issued + 1,
                       !.live = IF pc.mode = "works" THEN @ \cup {pc.issued + 1} ELSE @]
      BY <1>13 DEF Answer
    <3> QED
      BY <1>0, <3>1 DEF TypeOK
  <2>2. FarGrows
    BY <1>a, <2>0 DEF FarGrows
  <2>3. PICK r \in Replies :
          /\ slot' = [slot EXCEPT ![s].at = "reply", ![s].reply = r]
          /\ r.cookie <= pc'.issued
          /\ r.cookie # NoSession => r.status = "ok" /\ IsPresenting(s) /\ Authenticates(s)
          /\ r.status = "401" => ~Authenticates(s) /\ pc' = pc
    <3>1. ASSUME NEW status \in {"ok", "401", "429"}, NEW cookie \in Nat,
                 Reply(s, status, cookie), cookie <= pc'.issued,
                 cookie # NoSession => status = "ok" /\ IsPresenting(s) /\ Authenticates(s),
                 status = "401" => ~Authenticates(s) /\ pc' = pc
          PROVE  \E r \in Replies :
                   /\ slot' = [slot EXCEPT ![s].at = "reply", ![s].reply = r]
                   /\ r.cookie <= pc'.issued
                   /\ r.cookie # NoSession =>
                        r.status = "ok" /\ IsPresenting(s) /\ Authenticates(s)
                   /\ r.status = "401" => ~Authenticates(s) /\ pc' = pc
      <4>1. PICK r : r = [status |-> status, cookie |-> cookie]
        OBVIOUS
      <4>2. r \in Replies /\ r.status = status /\ r.cookie = cookie
        BY <4>1 DEF Replies
      <4>3. slot' = [slot EXCEPT ![s].at = "reply", ![s].reply = r]
        BY <3>1, <4>1 DEF Reply
      <4> QED
        BY <3>1, <4>2, <4>3
    <3>2. NoSession \in Nat /\ NoSession <= pc'.issued
      BY <1>a DEF NoSession
    <3>3. CASE Reply(s, "429", NoSession)
      BY <3>1, <3>2, <3>3
    <3>4. CASE Reply(s, "401", NoSession) /\ ~Authenticates(s) /\ pc' = pc
      BY <3>1, <3>2, <3>4
    <3>5. CASE Reply(s, "ok", NoSession)
      BY <3>1, <3>2, <3>5
    <3>6. CASE /\ Reply(s, "ok", pc.issued + 1) /\ IsPresenting(s) /\ Authenticates(s)
               /\ pc' = [pc EXCEPT !.issued = pc.issued + 1,
                           !.live = IF pc.mode = "works" THEN @ \cup {pc.issued + 1} ELSE @]
      <4>1. pc'.issued = pc.issued + 1
        BY <1>0, <3>6 DEF TypeOK
      <4>2. pc.issued + 1 \in Nat /\ pc.issued + 1 <= pc'.issued
        BY <1>a, <4>1
      <4> QED
        BY <3>1, <3>6, <4>2
    <3> QED
      BY <1>13, <3>3, <3>4, <3>5, <3>6 DEF Answer
  <2>4. PICK c : c = [slot[s] EXCEPT !.at = "reply", !.reply = r]
    OBVIOUS
  <2>5. /\ slot' = [slot EXCEPT ![s] = c] /\ c.reply = r /\ c.carry = slot[s].carry
        /\ c.url = slot[s].url /\ c.probe = slot[s].probe
    BY <2>1, <2>3, <2>4 DEF Calls
  <2>6. CallKept(c)'
    <3>1. c.carry.session <= pc'.issued
      BY <1>a, <2>1, <2>2, <2>5 DEF CallKept, FarGrows, Calls, Carries
    <3>2. r.cookie # NoSession =>
            r.status = "ok" /\ c.carry = Credential /\ c.url \notin DeniedUrls
      BY <1>0, <2>3, <2>5 DEF IsPresenting, Authenticates, Target, Carried
    <3>3. r.status = "401" /\ c.carry # Credential
          /\ (IF c.probe = NoUrl THEN c.url ELSE c.probe) \notin DeniedUrls
            => c.carry.session \notin pc'.live
      BY <2>3, <2>5 DEF IsPresenting, Authenticates, Target
    <3> QED
      BY <2>3, <2>5, <3>1, <3>2, <3>3 DEF CallKept
  <2>7. (\A t \in Slots : CallKept(slot[t]))'
    BY <1>0, <2>2, <2>5, <2>6, CallsKept
  <2>8. /\ \A id \in pc'.live : id # NoSession /\ id <= pc'.issued
        /\ jar'.cookie <= pc'.issued
    <3>1. jar.cookie \in Nat
      BY <1>a DEF JarType
    <3> QED
      BY <1>a, <2>0, <2>1, <3>1 DEF KeptInv, NoSession
  <2> QED
    BY <1>b, <2>1, <2>7, <2>8 DEF KeptInv
<1>14. ASSUME NEW s \in Slots, TransportFailure(s) PROVE KeptInv' /\ Kept
  BY <1>3, <1>14 DEF TransportFailure
<1>15. CASE FarEnd
  <2>1. UNCHANGED <<jar, slot>> /\ pc'.issued = pc.issued /\ pc'.live \subseteq pc.live
    BY <1>0, <1>15 DEF FarEnd, EndSession, ChangePassword, TypeOK
  <2> QED
    BY <1>b, <2>1 DEF KeptInv, CallKept
<1>16. CASE UNCHANGED vars
  BY <1>b, <1>16 DEF vars, KeptInv, CallKept
<1> QED
  BY <1>1, <1>5, <1>6, <1>7, <1>8, <1>10, <1>11, <1>12, <1>13, <1>14, <1>15, <1>16
  DEF Next, Proceed

\* A live session is dropped only after a second 401, from another URL that is denied, or for
\* a cookie that was replaced.  With one URL remembered there may be none to check on.
THEOREM LiveSessionsStay ==
  ASSUME PROBE_URLS > 1
  PROVE  Spec => LiveSessionKept
<1>1. Spec => [](GateInv /\ KeptInv)
  <2>1. GateInv /\ KeptInv /\ [Next]_vars => (GateInv /\ KeptInv)'
    BY GateStep, KeptStep
  <2> QED
    BY GateInit, KeptInit, <2>1, PTL DEF Spec
<1>2. ASSUME GateInv, KeptInv, Next, jar.cookie \in pc.live, jar'.cookie = NoSession
      PROVE  \E s \in Slots :
               /\ slot[s].at = "reply" /\ slot'[s].at # "reply"
               /\ \/ slot[s].probe \in DeniedUrls
                  \/ /\ slot[s].carry.generation = jar.generation
                     /\ slot[s].carry.session # jar.cookie
  BY <1>2, KeptStep DEF KeptInv
<1> QED
  BY <1>1, <1>2, PTL DEF Spec, LiveSessionKept

===========================================================================
