-------------------------- MODULE NexusInterfaceProofs --------------------------
(***************************************************************************)
(* The queue of requests and the login for any number of requests, active  *)
(* requests, redirects, attempts and accounts: no request is lost or sent  *)
(* twice, no link is left waiting without a login that could come, and a   *)
(* queue is only left standing behind a link that was given up.            *)
(***************************************************************************)
EXTENDS NexusInterface, FiniteSetTheorems, TLAPS

-----------------------------------------------------------------------------
(* The inductive invariant *)

RequestTypes(q, a, o) ==
  q \in Seq(Request) /\ a \subseteq Request /\ o \in Seq(Outcomes)

\* Where the requests are, when their queue, the active ones, the outcomes and
\* the ids whose answers are being handled are q, a, o and H. Ids tell requests
\* apart; whoever waits in the queue is not settled yet, and neither is an active
\* one until its answer is handled; and nobody waits elsewhere.
Places(q, a, o, H) ==
  /\ \A i, j \in DOMAIN q : q[i].id = q[j].id => i = j
  /\ \A r, s \in a : r.id = s.id => r = s
  /\ \A i \in DOMAIN q : \A r \in a : q[i].id # r.id
  /\ \A i \in DOMAIN q : q[i].id \in DOMAIN o /\ o[q[i].id] = "waiting"
  /\ \A r \in a : r.id \in DOMAIN o /\ (r.id \in H \/ o[r.id] = "waiting")
  /\ \A id \in H : id \in DOMAIN o /\ o[id] # "waiting" /\ \E r \in a : r.id = id
  /\ \A id \in DOMAIN o :
       o[id] = "waiting" => \/ \E i \in DOMAIN q : q[i].id = id
                            \/ \E r \in a : r.id = id

SlotsDiffer == \A i, j \in DOMAIN slots : slots[i].id = slots[j].id => i = j

LoginTypes ==
  /\ state \in {"NotChecked", "Valid", "Invalid"}
  /\ attempts \in Seq(Results) /\ Len(attempts) \in {0, Attempts}
  /\ \A i, j \in DOMAIN attempts :
        i < j => attempts[i] = "soft" \/ attempts[j] = "none"
  /\ logins \in 0..MaxLogins

\* A validation runs only for a stored key that was not checked yet.
RunningChecks == Running => state = "NotChecked" /\ stored

\* What OrganizerCore is about fits the state of the validation.
CoreFollows ==
  /\ core \in {"question", "failed"} => state = "Invalid"
  /\ core = "succeeded" => state = "Valid"

\* Until the settings are visited, links wait only for a stored key.
LinksHaveKey == pending > 0 /\ visits = 0 => stored

OtherTypes ==
  /\ slots \in Seq([id : 1..MaxRequests, left : AllLeft \union {"kept"}])
  /\ user \in Account /\ stored \in BOOLEAN /\ offline \in BOOLEAN
  /\ pending \in Nat /\ tasks \in 0..MaxTasks
  /\ core \in {"idle", "question", "succeeded", "failed"}
  /\ visits \in 0..MaxAccounts

IInv ==
  /\ RequestTypes(queue, active, outcome) /\ Len(outcome) + pending <= MaxRequests
  /\ LoginTypes /\ OtherTypes
  /\ Places(queue, active, outcome, Handled) /\ SlotsDiffer
  /\ RunningChecks /\ CoreFollows /\ LinksHaveKey
  /\ LinksWaitOnlyForLogin /\ QueueMoves

-----------------------------------------------------------------------------
(* Sequences *)

LEMMA TailIs ==
  ASSUME NEW S, NEW q \in Seq(S), q # <<>>
  PROVE  /\ Head(q) \in S /\ Head(q) = q[1] /\ 1 \in DOMAIN q
         /\ Tail(q) \in Seq(S)
         /\ \A i \in DOMAIN Tail(q) : i + 1 \in DOMAIN q /\ Tail(q)[i] = q[i + 1] /\ i \in Nat
         /\ \A i \in DOMAIN q : i = 1 \/ (i - 1 \in DOMAIN Tail(q) /\ Tail(q)[i - 1] = q[i])
  OBVIOUS

LEMMA AppendIs ==
  ASSUME NEW S, NEW q \in Seq(S), NEW e \in S
  PROVE  /\ Append(q, e) \in Seq(S) /\ Len(Append(q, e)) = Len(q) + 1
         /\ Len(q) + 1 \notin DOMAIN q /\ Len(q) \in Nat
         /\ DOMAIN Append(q, e) = DOMAIN q \union {Len(q) + 1}
         /\ DOMAIN q = 1..Len(q)
         /\ \A i \in DOMAIN q : Append(q, e)[i] = q[i]
         /\ Append(q, e)[Len(q) + 1] = e
  OBVIOUS

LEMMA FrontIs ==
  ASSUME NEW S, NEW q \in Seq(S), q # <<>>
  PROVE  /\ Front(q) \in Seq(S) /\ Last(q) \in S
         /\ Len(q) \in DOMAIN q /\ Last(q) = q[Len(q)]
         /\ DOMAIN q = DOMAIN Front(q) \union {Len(q)}
         /\ Len(q) \notin DOMAIN Front(q)
         /\ \A i \in DOMAIN Front(q) : Front(q)[i] = q[i]
<1>1. Len(q) \in Nat /\ Len(q) >= 1 /\ DOMAIN q = 1..Len(q)
  OBVIOUS
<1>2. /\ Front(q) \in Seq(S) /\ Len(Front(q)) = Len(q) - 1
      /\ \A i \in 1..(Len(q) - 1) : Front(q)[i] = q[i]
  BY <1>1 DEF Front
<1>3. DOMAIN Front(q) = 1..(Len(q) - 1)
  BY <1>2
<1>4. Last(q) = q[Len(q)] /\ Last(q) \in S
  BY <1>1 DEF Last
<1> QED
  BY <1>1, <1>2, <1>3, <1>4

LEMMA SettleIs ==
  ASSUME NEW o \in Seq(Outcomes), NEW ids, NEW what \in Outcomes
  PROVE  /\ Settle(o, ids, what) \in Seq(Outcomes)
         /\ DOMAIN Settle(o, ids, what) = DOMAIN o
         /\ Len(Settle(o, ids, what)) = Len(o)
         /\ \A i \in DOMAIN o : Settle(o, ids, what)[i] = IF i \in ids THEN what ELSE o[i]
  BY DEF Settle

-----------------------------------------------------------------------------
(* The queue *)

\* Whatever nextRequest() does leaves each request in one place.
LEMMA ServeKeeps ==
  ASSUME NEW q, NEW a, NEW o, NEW u, NEW H, q # <<>>,
         RequestTypes(q, a, o), Places(q, a, o, H), Serve(q, a, o, u)
  PROVE  /\ RequestTypes(queue', active', outcome') /\ Len(outcome') = Len(o)
         /\ Places(queue', active', outcome', H)
<1>0. q \in Seq(Request) /\ a \subseteq Request /\ o \in Seq(Outcomes)
  BY DEF RequestTypes
<1>1. /\ Head(q) \in Request /\ Head(q) = q[1] /\ 1 \in DOMAIN q
      /\ Tail(q) \in Seq(Request)
      /\ \A i \in DOMAIN Tail(q) : i + 1 \in DOMAIN q /\ Tail(q)[i] = q[i + 1] /\ i \in Nat
      /\ \A i \in DOMAIN q : i = 1 \/ (i - 1 \in DOMAIN Tail(q) /\ Tail(q)[i - 1] = q[i])
  BY <1>0, TailIs
<1>2. "cleared" \in Outcomes /\ "aborted" \in Outcomes
  BY DEF Outcomes
<1>3. CASE Exhausted(u)
  <2> DEFINE ids == {r.id : r \in ToSet(q)}
             S == Settle(o, ids, "cleared")
  <2>1. queue' = <<>> /\ active' = a /\ outcome' = S
    BY <1>3 DEF Serve, Put
  <2>2. /\ S \in Seq(Outcomes) /\ DOMAIN S = DOMAIN o /\ Len(S) = Len(o)
        /\ \A i \in DOMAIN o : S[i] = IF i \in ids THEN "cleared" ELSE o[i]
    BY <1>0, <1>2, SettleIs
  <2>3. \A id : id \in ids <=> \E i \in DOMAIN q : q[i].id = id
    BY DEF ToSet
  <2>4. RequestTypes(queue', active', outcome') /\ Len(outcome') = Len(o)
    BY <1>0, <2>1, <2>2 DEF RequestTypes
  <2>5. \A r \in a : r.id \notin ids
    <3> HIDE DEF ids
    <3> QED
      BY <2>3 DEF Places
  <2>6. Places(<<>>, a, S, H)
    <3> HIDE DEF S, ids
    <3> QED
      BY <2>2, <2>3, <2>5 DEF Places
  <2> QED
    BY <2>1, <2>4, <2>6
<1>4. CASE ~Exhausted(u) /\ LinkAllowed(Head(q), u)
  <2>1. queue' = Tail(q) /\ active' = a \union {Head(q)} /\ outcome' = o
    BY <1>4 DEF Serve, Put
  <2>2. RequestTypes(queue', active', outcome')
    BY <1>0, <1>1, <2>1 DEF RequestTypes
  <2>3. Places(Tail(q), a \union {Head(q)}, o, H)
    <3>1. \A i, j \in DOMAIN Tail(q) : Tail(q)[i].id = Tail(q)[j].id => i = j
      BY <1>1 DEF Places
    <3>2. \A i \in DOMAIN Tail(q) : Tail(q)[i].id # Head(q).id
      BY <1>1 DEF Places
    <3>3. \A r \in a : r.id # Head(q).id
      BY <1>1 DEF Places
    <3>4. \A id \in DOMAIN o : o[id] = "waiting" =>
            \/ \E i \in DOMAIN Tail(q) : Tail(q)[i].id = id
            \/ \E r \in a \union {Head(q)} : r.id = id
      BY <1>1 DEF Places
    <3> QED
      BY <1>1, <3>1, <3>2, <3>3, <3>4 DEF Places
  <2> QED
    BY <2>1, <2>2, <2>3
<1>5. CASE ~Exhausted(u) /\ ~LinkAllowed(Head(q), u)
  <2> DEFINE S == Settle(o, {Head(q).id}, "aborted")
  <2>1. queue' = Tail(q) /\ active' = a /\ outcome' = S
    BY <1>5 DEF Serve, Put
  <2>2. /\ S \in Seq(Outcomes) /\ DOMAIN S = DOMAIN o /\ Len(S) = Len(o)
        /\ \A i \in DOMAIN o : S[i] = IF i \in {Head(q).id} THEN "aborted" ELSE o[i]
    BY <1>0, <1>2, SettleIs
  <2>3. RequestTypes(queue', active', outcome') /\ Len(outcome') = Len(o)
    BY <1>0, <1>1, <2>1, <2>2 DEF RequestTypes
  <2>4. Places(Tail(q), a, S, H)
    <3> HIDE DEF S
    <3>1. \A i, j \in DOMAIN Tail(q) : Tail(q)[i].id = Tail(q)[j].id => i = j
      BY <1>1 DEF Places
    <3>2. \A i \in DOMAIN Tail(q) : Tail(q)[i].id # Head(q).id
      BY <1>1 DEF Places
    <3>3. \A r \in a : r.id # Head(q).id
      BY <1>1 DEF Places
    <3>4. \A id \in DOMAIN S : S[id] = "waiting" =>
            \/ \E i \in DOMAIN Tail(q) : Tail(q)[i].id = id
            \/ \E r \in a : r.id = id
      <4> SUFFICES ASSUME NEW id \in DOMAIN S, S[id] = "waiting"
                   PROVE  \/ \E i \in DOMAIN Tail(q) : Tail(q)[i].id = id
                          \/ \E r \in a : r.id = id
        OBVIOUS
      <4>1. id \in DOMAIN o /\ o[id] = "waiting" /\ id # Head(q).id
        BY <2>2
      <4>2. \A i \in DOMAIN q : q[i].id = id => i # 1
        BY <4>1, <1>1
      <4>3. (\E i \in DOMAIN q : q[i].id = id) \/ (\E r \in a : r.id = id)
        BY <4>1 DEF Places
      <4> QED
        BY <4>2, <4>3, <1>1
    <3> QED
      BY <1>1, <2>2, <3>1, <3>2, <3>3, <3>4 DEF Places
  <2> QED
    BY <2>1, <2>3, <2>4
<1> QED
  BY <1>3, <1>4, <1>5

LEMMA NextRequestKeeps ==
  ASSUME NEW q, NEW a, NEW o, NEW u, NEW st, NEW H,
         RequestTypes(q, a, o), Places(q, a, o, H), NextRequest(q, a, o, u, st)
  PROVE  /\ RequestTypes(queue', active', outcome') /\ Len(outcome') = Len(o)
         /\ Places(queue', active', outcome', H)
<1>1. CASE Serve(q, a, o, u) /\ q # <<>>
  BY <1>1, ServeKeeps
<1>2. CASE Put(q, a, o)
  BY <1>2 DEF Put
<1> QED
  BY <1>1, <1>2 DEF NextRequest

\* The queue and the outcomes with a new request.
Asked(kind) == Append(queue, [id |-> Len(outcome) + 1, kind |-> kind, hops |-> 0])
Recorded    == Append(outcome, "waiting")

LEMMA NewRequestPlaces ==
  ASSUME NEW kind \in AllKinds, NEW H,
         RequestTypes(queue, active, outcome), Places(queue, active, outcome, H),
         Len(outcome) < MaxRequests
  PROVE  /\ RequestTypes(Asked(kind), active, Recorded)
         /\ Len(Recorded) = Len(outcome) + 1
         /\ Places(Asked(kind), active, Recorded, H)
         /\ GivenUp => \E id \in DOMAIN Recorded : Recorded[id] = "aborted"
<1> DEFINE n == Len(outcome) + 1
           r == [id |-> n, kind |-> kind, hops |-> 0]
           q == Asked(kind)
           o == Recorded
<1>0. queue \in Seq(Request) /\ active \subseteq Request /\ outcome \in Seq(Outcomes)
  BY DEF RequestTypes
<1>1. r \in Request /\ r.id = n
  BY <1>0, NexusAssumption DEF Request
<1>2. /\ q \in Seq(Request) /\ DOMAIN q = DOMAIN queue \union {Len(queue) + 1}
      /\ Len(queue) + 1 \notin DOMAIN queue
      /\ \A i \in DOMAIN queue : q[i] = queue[i]
      /\ q[Len(queue) + 1] = r
  <2>1. q = Append(queue, r)
    BY DEF Asked
  <2> HIDE DEF r, q
  <2> QED
    BY <1>0, <1>1, <2>1, AppendIs
<1>3. /\ o \in Seq(Outcomes) /\ DOMAIN o = DOMAIN outcome \union {n} /\ Len(o) = n
      /\ n \notin DOMAIN outcome
      /\ \A i \in DOMAIN outcome : o[i] = outcome[i]
      /\ o[n] = "waiting"
  <2>1. "waiting" \in Outcomes
    BY DEF Outcomes
  <2> QED
    BY <1>0, <2>1, AppendIs DEF Recorded
<1> HIDE DEF q, o, r, n
<1>5. RequestTypes(q, active, o)
  BY <1>0, <1>2, <1>3 DEF RequestTypes
<1>6. Places(q, active, o, H)
  <2>1. \A i \in DOMAIN queue : queue[i].id # n
    BY <1>3 DEF Places
  <2>2. \A s \in active : s.id # n
    BY <1>3 DEF Places
  <2>3. \A i, j \in DOMAIN q : q[i].id = q[j].id => i = j
    BY <1>1, <1>2, <2>1 DEF Places
  <2>4. \A i \in DOMAIN q : \A s \in active : q[i].id # s.id
    BY <1>1, <1>2, <2>2 DEF Places
  <2>5. \A i \in DOMAIN q : q[i].id \in DOMAIN o /\ o[q[i].id] = "waiting"
    BY <1>1, <1>2, <1>3 DEF Places
  <2>6. \A id \in DOMAIN o : o[id] = "waiting" =>
          \/ \E i \in DOMAIN q : q[i].id = id
          \/ \E s \in active : s.id = id
    <3>1. Len(queue) + 1 \in DOMAIN q /\ q[Len(queue) + 1].id = n
      BY <1>1, <1>2
    <3>2. \A id \in DOMAIN outcome : outcome[id] = "waiting" =>
            \/ \E i \in DOMAIN queue : queue[i].id = id
            \/ \E s \in active : s.id = id
      BY DEF Places
    <3>3. \A id : (\E i \in DOMAIN queue : queue[i].id = id)
                   => \E i \in DOMAIN q : q[i].id = id
      BY <1>2
    <3> QED
      BY <1>3, <3>1, <3>2, <3>3
  <2> QED
    BY <1>3, <2>3, <2>4, <2>5, <2>6 DEF Places
<1>7. GivenUp => \E id \in DOMAIN o : o[id] = "aborted"
  BY <1>3 DEF GivenUp
<1> QED
  BY <1>3, <1>5, <1>6, <1>7 DEF n, q, o

\* A redirected request goes from the active ones to the end of the queue.
Requeued(r) == Append(queue, [r EXCEPT !.hops = @ + 1])

LEMMA RedirectedPlaces ==
  ASSUME RequestTypes(queue, active, outcome), Places(queue, active, outcome, Handled),
         NEW r \in active, r.id \notin Handled, r.hops < MaxRedirects
  PROVE  /\ RequestTypes(Requeued(r), active \ {r}, outcome)
         /\ Places(Requeued(r), active \ {r}, outcome, Handled)
<1> DEFINE s == [r EXCEPT !.hops = @ + 1]
           q == Requeued(r)
           a == active \ {r}
<1>0. queue \in Seq(Request) /\ active \subseteq Request /\ outcome \in Seq(Outcomes)
  BY DEF RequestTypes
<1>1. s \in Request /\ s.id = r.id
  <2>1. /\ r.id \in 1..MaxRequests /\ r.kind \in AllKinds /\ r.hops \in 0..MaxRedirects
        /\ r = [id |-> r.id, kind |-> r.kind, hops |-> r.hops]
    BY <1>0 DEF Request
  <2>2. r.hops + 1 \in 0..MaxRedirects
    BY <2>1, NexusAssumption
  <2>3. s = [id |-> r.id, kind |-> r.kind, hops |-> r.hops + 1]
    BY <2>1
  <2> QED
    BY <2>1, <2>2, <2>3 DEF Request
<1>2. q = Append(queue, s)
  BY DEF Requeued
<1> HIDE DEF s, q
<1>3. /\ q \in Seq(Request) /\ DOMAIN q = DOMAIN queue \union {Len(queue) + 1}
      /\ Len(queue) + 1 \notin DOMAIN queue
      /\ \A i \in DOMAIN queue : q[i] = queue[i]
      /\ q[Len(queue) + 1] = s
  BY <1>0, <1>1, <1>2, AppendIs
<1>4. RequestTypes(q, a, outcome)
  BY <1>0, <1>3 DEF RequestTypes
<1>5. Places(q, a, outcome, Handled)
  <2>1. \A x \in a : x.id # r.id
    BY DEF Places
  <2>2. \A i \in DOMAIN queue : queue[i].id # r.id
    BY DEF Places
  <2>3. \A i, j \in DOMAIN q : q[i].id = q[j].id => i = j
    BY <1>1, <1>3, <2>2 DEF Places
  <2>4. \A i \in DOMAIN q : \A x \in a : q[i].id # x.id
    BY <1>1, <1>3, <2>1 DEF Places
  <2>5. \A i \in DOMAIN q : q[i].id \in DOMAIN outcome /\ outcome[q[i].id] = "waiting"
    BY <1>1, <1>3 DEF Places
  <2>6. \A id \in DOMAIN outcome : outcome[id] = "waiting" =>
          \/ \E i \in DOMAIN q : q[i].id = id
          \/ \E x \in a : x.id = id
    BY <1>1, <1>3 DEF Places
  <2>7. \A id \in Handled : \E x \in a : x.id = id
    BY DEF Places
  <2> HIDE DEF a
  <2>8. \A x, y \in a : x.id = y.id => x = y
    BY DEF Places, a
  <2>9. \A x \in a : x.id \in DOMAIN outcome /\ (x.id \in Handled \/ outcome[x.id] = "waiting")
    BY DEF Places, a
  <2> QED
    BY <2>3, <2>4, <2>5, <2>6, <2>7, <2>8, <2>9 DEF Places
<1> QED
  BY <1>4, <1>5 DEF q

\* An answer settles an active request, which stays active while it is handled.
LEMMA SignalKeeps ==
  ASSUME RequestTypes(queue, active, outcome), Places(queue, active, outcome, Handled),
         SlotsDiffer, slots \in Seq([id : 1..MaxRequests, left : AllLeft \union {"kept"}]),
         NEW r \in active, r.id \notin Handled, NEW what \in Outcomes \ {"waiting"},
         NEW now, NEW later \in AllLeft \union {"kept"}, Signal(r, what, now, later)
  PROVE  /\ RequestTypes(queue', active', outcome') /\ Len(outcome') = Len(outcome)
         /\ Places(queue', active', outcome', Handled') /\ SlotsDiffer'
         /\ slots' \in Seq([id : 1..MaxRequests, left : AllLeft \union {"kept"}])
<1> DEFINE S == Settle(outcome, {r.id}, what)
           e == [id |-> r.id, left |-> later]
<1>0. queue \in Seq(Request) /\ active \subseteq Request /\ outcome \in Seq(Outcomes)
  BY DEF RequestTypes
<1>1. queue' = queue /\ active' = active /\ outcome' = S /\ slots' = Append(slots, e)
  BY DEF Signal
<1>2. /\ S \in Seq(Outcomes) /\ DOMAIN S = DOMAIN outcome /\ Len(S) = Len(outcome)
      /\ \A i \in DOMAIN outcome : S[i] = IF i \in {r.id} THEN what ELSE outcome[i]
  BY <1>0, SettleIs
<1>3. e \in [id : 1..MaxRequests, left : AllLeft \union {"kept"}] /\ e.id = r.id
  BY <1>0 DEF Request
<1> HIDE DEF S, e
<1>4. /\ slots' \in Seq([id : 1..MaxRequests, left : AllLeft \union {"kept"}])
      /\ DOMAIN slots' = DOMAIN slots \union {Len(slots) + 1}
      /\ Len(slots) + 1 \notin DOMAIN slots
      /\ \A i \in DOMAIN slots : slots'[i] = slots[i]
      /\ slots'[Len(slots) + 1] = e
  BY <1>1, <1>3, AppendIs
<1>5. Handled' = Handled \union {r.id}
  BY <1>3, <1>4 DEF Handled
<1>6. SlotsDiffer'
  <2>1. \A i \in DOMAIN slots : slots[i].id # r.id
    BY DEF Handled
  <2> QED
    BY <1>3, <1>4, <2>1 DEF SlotsDiffer
<1>7. Places(queue, active, S, Handled \union {r.id})
  <2>1. r.id \in DOMAIN outcome /\ outcome[r.id] = "waiting"
    BY DEF Places
  <2>2. \A i \in DOMAIN queue : queue[i].id # r.id
    BY DEF Places
  <2> HIDE DEF Handled
  <2>3. \A i \in DOMAIN queue : queue[i].id \in DOMAIN S /\ S[queue[i].id] = "waiting"
    BY <1>2, <2>2 DEF Places
  <2>4. \A x \in active : /\ x.id \in DOMAIN S
                          /\ x.id \in Handled \union {r.id} \/ S[x.id] = "waiting"
    BY <1>2 DEF Places
  <2>5. \A id \in Handled \union {r.id} :
          id \in DOMAIN S /\ S[id] # "waiting" /\ \E x \in active : x.id = id
    BY <1>2, <2>1 DEF Places
  <2>6. \A id \in DOMAIN S : S[id] = "waiting" =>
          \/ \E i \in DOMAIN queue : queue[i].id = id
          \/ \E x \in active : x.id = id
    BY <1>2 DEF Places
  <2> QED
    BY <2>3, <2>4, <2>5, <2>6 DEF Places
<1> QED
  BY <1>0, <1>1, <1>2, <1>4, <1>5, <1>6, <1>7 DEF RequestTypes

\* The slot that returns erases its own request.
Remaining == {r \in active : r.id # Last(slots).id}

LEMMA SlotEndsPlaces ==
  ASSUME RequestTypes(queue, active, outcome), Places(queue, active, outcome, Handled),
         SlotsDiffer, slots \in Seq([id : 1..MaxRequests, left : AllLeft \union {"kept"}]),
         slots # <<>>, slots' = Front(slots)
  PROVE  /\ RequestTypes(queue, Remaining, outcome)
         /\ Places(queue, Remaining, outcome, Handled') /\ SlotsDiffer'
         /\ slots' \in Seq([id : 1..MaxRequests, left : AllLeft \union {"kept"}])
         /\ Last(slots).left \in AllLeft \union {"kept"}
<1> DEFINE last == Last(slots)
           a == Remaining
<1>0. a = {r \in active : r.id # last.id}
  BY DEF Remaining
<1>1. /\ slots' \in Seq([id : 1..MaxRequests, left : AllLeft \union {"kept"}])
      /\ last \in [id : 1..MaxRequests, left : AllLeft \union {"kept"}]
      /\ Len(slots) \in DOMAIN slots /\ last = slots[Len(slots)]
      /\ DOMAIN slots = DOMAIN slots' \union {Len(slots)}
      /\ Len(slots) \notin DOMAIN slots'
      /\ \A i \in DOMAIN slots' : slots'[i] = slots[i]
  BY FrontIs
<1> HIDE DEF last, a
<1>2. Handled' = Handled \ {last.id}
  <2>1. \A id : id \in Handled' <=> \E i \in DOMAIN slots' : slots[i].id = id
    BY <1>1 DEF Handled
  <2>2. \A id : id \in Handled <=> \E i \in DOMAIN slots : slots[i].id = id
    BY DEF Handled
  <2>3. \A i \in DOMAIN slots' : slots[i].id # last.id
    BY <1>1 DEF SlotsDiffer
  <2> HIDE DEF Handled
  <2>4. \A id : id \in Handled' <=> id \in Handled /\ id # last.id
    BY <1>1, <2>1, <2>2, <2>3
  <2> QED
    BY <2>4
<1>3. last.id \in Handled
  BY <1>1 DEF Handled
<1>4. SlotsDiffer'
  <2>1. \A i \in DOMAIN slots' : i \in DOMAIN slots /\ slots'[i] = slots[i]
    BY <1>1
  <2> QED
    BY <2>1 DEF SlotsDiffer
<1>5. Places(queue, a, outcome, Handled')
  <2> HIDE DEF Handled
  <2>1. outcome[last.id] # "waiting"
    BY <1>3 DEF Places
  <2>2. \A r \in a : r \in active /\ r.id # last.id
    BY <1>0
  <2>3. \A r \in active : r.id # last.id => r \in a
    BY <1>0
  <2>4. \A r \in a : r.id \in DOMAIN outcome /\ (r.id \in Handled' \/ outcome[r.id] = "waiting")
    BY <1>2, <2>2 DEF Places
  <2>5. \A id \in Handled' :
          id \in DOMAIN outcome /\ outcome[id] # "waiting" /\ \E r \in a : r.id = id
    BY <1>2, <2>3 DEF Places
  <2>6. \A id \in DOMAIN outcome : outcome[id] = "waiting" =>
          \/ \E i \in DOMAIN queue : queue[i].id = id
          \/ \E r \in a : r.id = id
    BY <2>1, <2>3 DEF Places
  <2> QED
    BY <2>2, <2>4, <2>5, <2>6 DEF Places
<1>6. RequestTypes(queue, a, outcome)
  BY <1>0 DEF RequestTypes
<1>7. last.left \in AllLeft \union {"kept"}
  BY <1>1
<1> QED
  BY <1>1, <1>4, <1>5, <1>6, <1>7 DEF last, a

\* Requests in their places are conserved.
LEMMA PlacesConserve ==
  ASSUME Places(queue, active, outcome, Handled)
  PROVE  RequestsConserved
<1> HIDE DEF Handled
<1>1. ASSUME NEW id \in DOMAIN outcome
      PROVE  Cardinality({i \in DOMAIN queue : queue[i].id = id})
               + Cardinality({r \in active : r.id = id})
             = IF outcome[id] = "waiting" \/ id \in Handled THEN 1 ELSE 0
  <2> DEFINE Q == {i \in DOMAIN queue : queue[i].id = id}
             A == {r \in active : r.id = id}
  <2>1. CASE \E i \in DOMAIN queue : queue[i].id = id
    <3>1. PICK i \in DOMAIN queue : queue[i].id = id
      BY <2>1
    <3>2. Q = {i} /\ A = {}
      BY <3>1 DEF Places
    <3>3. outcome[id] = "waiting"
      BY <3>1 DEF Places
    <3>4. Cardinality(Q) = 1 /\ Cardinality(A) = 0
      BY <3>2, FS_Singleton, FS_EmptySet
    <3> QED
      BY <3>3, <3>4
  <2>2. CASE \E r \in active : r.id = id
    <3>1. PICK r \in active : r.id = id
      BY <2>2
    <3>2. Q = {} /\ A = {r}
      BY <3>1 DEF Places
    <3>3. outcome[id] = "waiting" \/ id \in Handled
      BY <3>1 DEF Places
    <3>4. Cardinality(Q) = 0 /\ Cardinality(A) = 1
      BY <3>2, FS_Singleton, FS_EmptySet
    <3> QED
      BY <3>3, <3>4
  <2>3. CASE /\ \A i \in DOMAIN queue : queue[i].id # id
             /\ \A r \in active : r.id # id
    <3>1. Q = {} /\ A = {}
      BY <2>3
    <3>2. ~(outcome[id] = "waiting" \/ id \in Handled)
      BY <2>3 DEF Places
    <3> QED
      BY <3>1, <3>2, FS_EmptySet
  <2> QED
    BY <2>1, <2>2, <2>3
<1>2. \A id \in Handled : outcome[id] # "waiting" /\ \E r \in active : r.id = id
  BY DEF Places
<1> QED
  BY <1>1, <1>2 DEF RequestsConserved

-----------------------------------------------------------------------------
(* The login *)

LEMMA ValidationStarts ==
  ASSUME LoginTypes, StartValidation
  PROVE  LoginTypes'
<1>1. /\ attempts' = [i \in 1..Attempts |-> IF i = 1 THEN "running" ELSE "none"]
      /\ state' = "NotChecked" /\ logins' = logins + 1 /\ logins < MaxLogins
  BY DEF StartValidation
<1>2. attempts' \in Seq(Results) /\ Len(attempts') = Attempts /\ DOMAIN attempts' = 1..Attempts
  BY <1>1, NexusAssumption DEF Results
<1>3. \A i, j \in DOMAIN attempts' :
        i < j => attempts'[i] = "soft" \/ attempts'[j] = "none"
  BY <1>1, <1>2, NexusAssumption
<1>4. logins' \in 0..MaxLogins
  BY <1>1, NexusAssumption DEF LoginTypes
<1> QED
  BY <1>1, <1>2, <1>3, <1>4 DEF LoginTypes

\* A check of the stored key.
LEMMA ApiCheckKeeps ==
  ASSUME LoginTypes, RunningChecks, stored, stored' = stored, ApiCheck
  PROVE  /\ LoginTypes' /\ RunningChecks'
         /\ state' = "NotChecked" \/ (IsActive /\ UNCHANGED login)
<1>1. CASE IsActive
  BY <1>1 DEF ApiCheck, login, LoginTypes, RunningChecks, Running
<1>2. CASE ~IsActive /\ offline
  <2>1. state' = "NotChecked" /\ attempts' = attempts /\ logins' = logins
    BY <1>2 DEF ApiCheck
  <2> QED
    BY <2>1 DEF LoginTypes, RunningChecks
<1>3. CASE ~IsActive /\ ~offline
  <2>1. StartValidation
    BY <1>3 DEF ApiCheck
  <2>2. LoginTypes'
    BY <2>1, ValidationStarts
  <2> QED
    BY <2>1, <2>2 DEF StartValidation, RunningChecks
<1> QED
  BY <1>1, <1>2, <1>3

\* What nextRequest() does to the login.
LEMMA NextRequestLogin ==
  ASSUME NEW q, NEW a, NEW o, NEW u, NEW st \in {"NotChecked", "Valid", "Invalid"},
         st = state \/ (st = "Invalid" /\ ~Running),
         LoginTypes, RunningChecks, stored \in BOOLEAN, stored' = stored,
         NextRequest(q, a, o, u, st)
  PROVE  /\ LoginTypes' /\ RunningChecks'
         /\ \/ state' = st /\ UNCHANGED attempts
            \/ st = "NotChecked" /\ ~stored /\ state' = "Invalid"
            \/ st = "NotChecked" /\ state' = "NotChecked"
<1>1. CASE state' = st /\ UNCHANGED <<attempts, logins>>
  BY <1>1 DEF LoginTypes, RunningChecks, Running
<1>2. CASE st = "NotChecked" /\ stored /\ ApiCheck
  BY <1>2, ApiCheckKeeps DEF login
<1>3. CASE st = "NotChecked" /\ ~stored /\ Refuse
  BY <1>3 DEF Refuse, LoginTypes, RunningChecks, Running
<1> QED
  BY <1>1, <1>2, <1>3 DEF NextRequest

-----------------------------------------------------------------------------
(* What becomes of the queue and of the login together *)

\* nextRequest() keeps the requests that were given up, and leaves requests in
\* the queue with nothing sent only behind one that it gives up.
LEMMA NextRequestMoves ==
  ASSUME NEW q, NEW a, NEW o, NEW u, NEW st, NEW H,
         RequestTypes(q, a, o), Places(q, a, o, H), NextRequest(q, a, o, u, st),
         state' = "Valid" => st = "Valid"
  PROVE  /\ (\E id \in DOMAIN o : o[id] = "aborted") => GivenUp'
         /\ state' = "Valid" /\ queue' # <<>> /\ active' = {} => GivenUp'
<1>0. q \in Seq(Request) /\ o \in Seq(Outcomes)
  BY DEF RequestTypes
<1>1. CASE q # <<>> /\ Serve(q, a, o, u)
  <2>1. CASE Exhausted(u)
    <3> DEFINE ids == {r.id : r \in ToSet(q)}
    <3>1. queue' = <<>> /\ outcome' = Settle(o, ids, "cleared")
      BY <1>1, <2>1 DEF Serve, Put
    <3>2. \A id \in ids : o[id] = "waiting"
      BY DEF ToSet, Places
    <3> HIDE DEF ids
    <3>3. /\ DOMAIN outcome' = DOMAIN o
          /\ \A i \in DOMAIN o : outcome'[i] = IF i \in ids THEN "cleared" ELSE o[i]
      BY <1>0, <3>1, SettleIs DEF Outcomes
    <3> QED
      BY <3>1, <3>2, <3>3 DEF GivenUp
  <2>2. CASE ~Exhausted(u) /\ LinkAllowed(Head(q), u)
    <3>1. active' = a \union {Head(q)} /\ outcome' = o
      BY <1>1, <2>2 DEF Serve, Put
    <3> QED
      BY <3>1 DEF GivenUp
  <2>3. CASE ~Exhausted(u) /\ ~LinkAllowed(Head(q), u)
    <3>1. outcome' = Settle(o, {Head(q).id}, "aborted")
      BY <1>1, <2>3 DEF Serve, Put
    <3>2. Head(q).id \in DOMAIN o /\ o[Head(q).id] = "waiting"
      BY <1>0, <1>1, TailIs DEF Places
    <3>3. /\ DOMAIN outcome' = DOMAIN o
          /\ \A i \in DOMAIN o :
                outcome'[i] = IF i \in {Head(q).id} THEN "aborted" ELSE o[i]
      BY <1>0, <3>1, SettleIs DEF Outcomes
    <3> QED
      BY <3>2, <3>3 DEF GivenUp
  <2> QED
    BY <2>1, <2>2, <2>3
<1>2. CASE /\ Put(q, a, o)
           /\ \/ Cardinality(a) >= MaxActive \/ q = <<>>
              \/ st # "Valid"
  <2>1. a = {} => ~(Cardinality(a) >= MaxActive)
    BY FS_EmptySet, NexusAssumption
  <2> QED
    BY <1>2, <2>1 DEF Put, GivenUp
<1> QED
  BY <1>1, <1>2 DEF NextRequest

\* A step that runs nextRequest(), from what it made of the queue before.
LEMMA QueueStep ==
  ASSUME IInv, NEW q, NEW a, NEW o, NEW u, NEW H,
         NEW st \in {"NotChecked", "Valid", "Invalid"},
         st = state \/ (st = "Invalid" /\ state = "NotChecked" /\ ~stored),
         RequestTypes(q, a, o), Places(q, a, o, H), stored' = stored,
         GivenUp => \E id \in DOMAIN o : o[id] = "aborted",
         NextRequest(q, a, o, u, st)
  PROVE  /\ RequestTypes(queue', active', outcome') /\ Len(outcome') = Len(o)
         /\ Places(queue', active', outcome', H)
         /\ LoginTypes' /\ RunningChecks' /\ QueueMoves'
         /\ \/ state' = state /\ UNCHANGED attempts
            \/ state = "NotChecked" /\ ~stored /\ state' = "Invalid"
            \/ state = "NotChecked" /\ state' = "NotChecked"
<1>1. /\ RequestTypes(queue', active', outcome') /\ Len(outcome') = Len(o)
      /\ Places(queue', active', outcome', H)
  BY NextRequestKeeps
<1>2. /\ LoginTypes' /\ RunningChecks'
      /\ \/ state' = st /\ UNCHANGED attempts
         \/ st = "NotChecked" /\ ~stored /\ state' = "Invalid"
         \/ st = "NotChecked" /\ state' = "NotChecked"
  <2>1. LoginTypes /\ RunningChecks /\ stored \in BOOLEAN
    BY DEF IInv, OtherTypes
  <2>2. st = state \/ (st = "Invalid" /\ ~Running)
    BY <2>1 DEF RunningChecks
  <2> QED
    BY <2>1, <2>2, NextRequestLogin
<1>3. QueueMoves'
  <2>1. state' = "Valid" => st = "Valid"
    BY <1>2
  <2>2. state' = "Valid" /\ queue' # <<>> /\ active' = {} => GivenUp'
    BY <2>1, NextRequestMoves
  <2> QED
    BY <2>2 DEF QueueMoves
<1> QED
  BY <1>1, <1>2, <1>3

\* Links that wait and the slot of the login, when the queue has moved.
LEMMA WaitingStep ==
  ASSUME IInv, stored' = stored, visits' = visits,
         \/ core' = core /\ pending' = pending
         \/ core' = "idle" /\ pending' = 0
         \/ core' = core /\ core # "idle" /\ pending' \in 0..pending,
         \/ state' = state /\ UNCHANGED attempts
         \/ state = "NotChecked" /\ ~stored /\ state' = "Invalid"
         \/ state = "NotChecked" /\ state' = "NotChecked"
  PROVE  CoreFollows' /\ LinksHaveKey' /\ LinksWaitOnlyForLogin'
<1>1. CoreFollows'
  BY DEF IInv, CoreFollows, OtherTypes
<1>2. LinksHaveKey'
  BY DEF IInv, LinksHaveKey, OtherTypes
<1>3. LinksWaitOnlyForLogin'
  <2>1. CASE state' = state /\ UNCHANGED attempts
    BY <2>1 DEF IInv, LinksWaitOnlyForLogin, Stuck, IsActive, Running
  <2>2. CASE state = "NotChecked" /\ ~stored /\ state' = "Invalid"
    BY <2>2 DEF IInv, LinksWaitOnlyForLogin, LinksHaveKey, OtherTypes
  <2>3. CASE state' = "NotChecked"
    BY <2>3 DEF LinksWaitOnlyForLogin
  <2> QED
    BY <2>1, <2>2, <2>3
<1> QED
  BY <1>1, <1>2, <1>3

-----------------------------------------------------------------------------
(* The steps *)

LEMMA LimitedIs ==
  ASSUME user \in Account, NEW left \in AllLeft \union {"kept"}
  PROVE  Limited(left) \in Account
BY DEF Limited, Account

\* Steps that put a request for a new id into the queue, which Ask, a link and
\* the links of a login have in common.
LEMMA NewRequestStep ==
  ASSUME IInv, NEW kind \in AllKinds, NEW st \in {"NotChecked", "Valid", "Invalid"},
         st = state \/ (st = "Invalid" /\ state = "NotChecked" /\ ~stored),
         Len(outcome) < MaxRequests, stored' = stored, slots' = slots,
         NewRequest(kind, st)
  PROVE  /\ RequestTypes(queue', active', outcome') /\ Len(outcome') = Len(outcome) + 1
         /\ Places(queue', active', outcome', Handled') /\ SlotsDiffer'
         /\ LoginTypes' /\ RunningChecks' /\ QueueMoves'
         /\ \/ state' = state /\ UNCHANGED attempts
            \/ state = "NotChecked" /\ ~stored /\ state' = "Invalid"
            \/ state = "NotChecked" /\ state' = "NotChecked"
<1>0. /\ RequestTypes(queue, active, outcome) /\ Places(queue, active, outcome, Handled)
      /\ SlotsDiffer
  BY DEF IInv
<1>1. Handled' = Handled /\ SlotsDiffer'
  BY <1>0 DEF Handled, SlotsDiffer
<1> HIDE DEF Handled
<1>2. /\ RequestTypes(Asked(kind), active, Recorded)
      /\ Len(Recorded) = Len(outcome) + 1
      /\ Places(Asked(kind), active, Recorded, Handled)
      /\ GivenUp => \E id \in DOMAIN Recorded : Recorded[id] = "aborted"
  BY <1>0, NewRequestPlaces
<1>3. NextRequest(Asked(kind), active, Recorded, user, st)
  BY DEF NewRequest, Asked, Recorded
<1> QED
  BY <1>1, <1>2, <1>3, QueueStep

\* Steps that leave the requests alone.
LEMMA RequestsStay ==
  ASSUME IInv, UNCHANGED <<requests, slots>>, pending' <= pending, pending' \in Nat
  PROVE  /\ RequestTypes(queue', active', outcome') /\ Len(outcome') + pending' <= MaxRequests
         /\ Places(queue', active', outcome', Handled') /\ SlotsDiffer'
         /\ slots' \in Seq([id : 1..MaxRequests, left : AllLeft \union {"kept"}])
         /\ GivenUp' = GivenUp
<1>1. queue' = queue /\ active' = active /\ outcome' = outcome /\ slots' = slots
  BY DEF requests
<1>2. Handled' = Handled /\ SlotsDiffer'
  BY <1>1 DEF Handled, SlotsDiffer, IInv
<1>3. Len(outcome') + pending' <= MaxRequests
  BY <1>1, NexusAssumption DEF IInv, OtherTypes, RequestTypes
<1> HIDE DEF Handled
<1>4. GivenUp' = GivenUp
  BY <1>1 DEF GivenUp
<1> QED
  BY <1>1, <1>2, <1>3, <1>4 DEF IInv, OtherTypes

LEMMA AskStep ==
  ASSUME IInv, NEW kind \in Kinds, Ask(kind)
  PROVE  IInv'
<1>1. /\ kind \in AllKinds /\ Len(outcome) < MaxRequests
      /\ Len(outcome) \in Nat /\ pending \in Nat
      /\ state \in {"NotChecked", "Valid", "Invalid"}
  BY NexusAssumption DEF Ask, Room, IInv, OtherTypes, LoginTypes, RequestTypes
<1>2. /\ NewRequest(kind, state) /\ slots' = slots /\ pending' = pending
      /\ tasks' = tasks /\ core' = core /\ user' = user /\ stored' = stored
      /\ offline' = offline /\ visits' = visits
  BY DEF Ask, waiting, config
<1>3. /\ RequestTypes(queue', active', outcome') /\ Len(outcome') = Len(outcome) + 1
      /\ Places(queue', active', outcome', Handled') /\ SlotsDiffer'
      /\ LoginTypes' /\ RunningChecks' /\ QueueMoves'
      /\ \/ state' = state /\ UNCHANGED attempts
         \/ state = "NotChecked" /\ ~stored /\ state' = "Invalid"
         \/ state = "NotChecked" /\ state' = "NotChecked"
  BY <1>1, <1>2, NewRequestStep
<1>4. CoreFollows' /\ LinksHaveKey' /\ LinksWaitOnlyForLogin'
  BY <1>2, <1>3, WaitingStep
<1>5. OtherTypes'
  BY <1>2 DEF IInv, OtherTypes
<1>6. Len(outcome') + pending' <= MaxRequests
  BY <1>1, <1>2, <1>3, NexusAssumption DEF Ask, Room
<1> QED
  BY <1>3, <1>4, <1>5, <1>6 DEF IInv

LEMMA FinishStep ==
  ASSUME IInv, NEW r \in active, RequestFinished(r)
  PROVE  IInv'
<1>0. /\ r.id \notin Handled
      /\ RequestTypes(queue, active, outcome) /\ Places(queue, active, outcome, Handled)
      /\ SlotsDiffer /\ slots \in Seq([id : 1..MaxRequests, left : AllLeft \union {"kept"}])
      /\ Len(outcome) + pending <= MaxRequests /\ user \in Account
      /\ state \in {"NotChecked", "Valid", "Invalid"}
  BY DEF IInv, OtherTypes, RequestFinished, LoginTypes
<1>1. CASE Redirected(r)
  <2>1. /\ NextRequest(Requeued(r), active \ {r}, outcome, user, state)
        /\ slots' = slots /\ pending' = pending /\ r.hops < MaxRedirects
        /\ tasks' = tasks /\ core' = core /\ user' = user /\ stored' = stored
        /\ offline' = offline /\ visits' = visits
    BY <1>1 DEF Redirected, Requeued, waiting, config
  <2>2. Handled' = Handled /\ SlotsDiffer'
    BY <1>0, <2>1 DEF Handled, SlotsDiffer
  <2> HIDE DEF Handled
  <2>3. /\ RequestTypes(Requeued(r), active \ {r}, outcome)
        /\ Places(Requeued(r), active \ {r}, outcome, Handled)
    BY <1>0, <2>1, RedirectedPlaces
  <2>4. GivenUp => \E id \in DOMAIN outcome : outcome[id] = "aborted"
    BY DEF GivenUp
  <2>5. /\ RequestTypes(queue', active', outcome') /\ Len(outcome') = Len(outcome)
        /\ Places(queue', active', outcome', Handled')
        /\ LoginTypes' /\ RunningChecks' /\ QueueMoves'
        /\ \/ state' = state /\ UNCHANGED attempts
           \/ state = "NotChecked" /\ ~stored /\ state' = "Invalid"
           \/ state = "NotChecked" /\ state' = "NotChecked"
    BY <1>0, <2>1, <2>2, <2>3, <2>4, QueueStep
  <2>6. CoreFollows' /\ LinksHaveKey' /\ LinksWaitOnlyForLogin'
    BY <2>1, <2>5, WaitingStep
  <2>7. OtherTypes' /\ Len(outcome') + pending' <= MaxRequests
    BY <1>0, <2>1, <2>5 DEF IInv, OtherTypes
  <2> QED
    BY <2>2, <2>5, <2>6, <2>7 DEF IInv
<1>2. CASE Answered(r) \/ Unknown(r) \/ Failed(r)
  <2>1. PICK what \in Outcomes \ {"waiting"}, now \in AllLeft \union {"kept"},
             later \in AllLeft \union {"kept"} : Signal(r, what, now, later)
    <3>1. Left \subseteq AllLeft /\ {"signalled", "silent"} \subseteq Outcomes \ {"waiting"}
      BY NexusAssumption DEF Outcomes
    <3>2. CASE Answered(r)
      BY <3>1, <3>2 DEF Answered
    <3>3. CASE Unknown(r)
      BY <3>1, <3>3 DEF Unknown
    <3>4. CASE Failed(r)
      BY <3>1, <3>4 DEF Failed, Limits
    <3> QED
      BY <1>2, <3>2, <3>3, <3>4
  <2>2. /\ RequestTypes(queue', active', outcome') /\ Len(outcome') = Len(outcome)
        /\ Places(queue', active', outcome', Handled') /\ SlotsDiffer'
        /\ slots' \in Seq([id : 1..MaxRequests, left : AllLeft \union {"kept"}])
    BY <1>0, <2>1, SignalKeeps
  <2>3. /\ user' = Limited(now) /\ active' = active
        /\ state' = state /\ attempts' = attempts /\ logins' = logins
        /\ pending' = pending /\ tasks' = tasks /\ core' = core /\ stored' = stored
        /\ offline' = offline /\ visits' = visits
    BY <2>1 DEF Signal, login, waiting
  <2>4. OtherTypes' /\ Len(outcome') + pending' <= MaxRequests
    BY <1>0, <2>2, <2>3, LimitedIs DEF IInv, OtherTypes
  <2>5. LoginTypes' /\ RunningChecks'
    BY <2>3 DEF IInv, LoginTypes, RunningChecks, Running
  <2>6. CoreFollows' /\ LinksHaveKey' /\ LinksWaitOnlyForLogin'
    BY <2>3, WaitingStep
  <2>7. QueueMoves'
    BY <2>3 DEF QueueMoves
  <2> QED
    BY <2>2, <2>4, <2>5, <2>6, <2>7 DEF IInv
<1> QED
  BY <1>1, <1>2 DEF RequestFinished

LEMMA SlotEndsStep ==
  ASSUME IInv, SlotEnds
  PROVE  IInv'
<1>0. /\ RequestTypes(queue, active, outcome) /\ Places(queue, active, outcome, Handled)
      /\ SlotsDiffer /\ slots \in Seq([id : 1..MaxRequests, left : AllLeft \union {"kept"}])
      /\ Len(outcome) + pending <= MaxRequests /\ user \in Account
      /\ state \in {"NotChecked", "Valid", "Invalid"}
  BY DEF IInv, OtherTypes, LoginTypes
<1>1. /\ slots # <<>> /\ slots' = Front(slots)
      /\ user' = Limited(Last(slots).left)
      /\ NextRequest(queue, Remaining, outcome, user', state)
      /\ pending' = pending /\ tasks' = tasks /\ core' = core /\ stored' = stored
      /\ offline' = offline /\ visits' = visits
  BY DEF SlotEnds, Remaining, waiting
<1> HIDE DEF Handled
<1>2. /\ RequestTypes(queue, Remaining, outcome)
      /\ Places(queue, Remaining, outcome, Handled') /\ SlotsDiffer'
      /\ slots' \in Seq([id : 1..MaxRequests, left : AllLeft \union {"kept"}])
      /\ Last(slots).left \in AllLeft \union {"kept"}
  BY <1>0, <1>1, SlotEndsPlaces
<1>3. GivenUp => \E id \in DOMAIN outcome : outcome[id] = "aborted"
  BY DEF GivenUp
<1>4. /\ RequestTypes(queue', active', outcome') /\ Len(outcome') = Len(outcome)
      /\ Places(queue', active', outcome', Handled')
      /\ LoginTypes' /\ RunningChecks' /\ QueueMoves'
      /\ \/ state' = state /\ UNCHANGED attempts
         \/ state = "NotChecked" /\ ~stored /\ state' = "Invalid"
         \/ state = "NotChecked" /\ state' = "NotChecked"
  BY <1>0, <1>1, <1>2, <1>3, QueueStep
<1>5. CoreFollows' /\ LinksHaveKey' /\ LinksWaitOnlyForLogin'
  BY <1>1, <1>4, WaitingStep
<1>6. OtherTypes' /\ Len(outcome') + pending' <= MaxRequests
  BY <1>0, <1>1, <1>2, <1>4, LimitedIs DEF IInv, OtherTypes
<1> QED
  BY <1>2, <1>4, <1>5, <1>6 DEF IInv

\* At most one attempt runs; when it does not any more, the login is at rest.
LEMMA AttemptEndsStep ==
  ASSUME IInv, NEW i \in DOMAIN attempts, AttemptEnds(i)
  PROVE  IInv'
<1>0. /\ attempts \in Seq(Results) /\ Len(attempts) = Attempts /\ i \in 1..Attempts
      /\ DOMAIN attempts = 1..Attempts /\ attempts[i] = "running"
      /\ \A j, k \in DOMAIN attempts :
           j < k => attempts[j] = "soft" \/ attempts[k] = "none"
  <2>1. attempts \in Seq(Results) /\ Len(attempts) \in {0, Attempts}
    BY DEF IInv, LoginTypes
  <2>2. Len(attempts) # 0 /\ DOMAIN attempts = 1..Len(attempts)
    BY <2>1
  <2> QED
    BY <2>1, <2>2 DEF AttemptEnds, IInv, LoginTypes
<1>1. state = "NotChecked" /\ stored /\ core = "idle"
  <2>1. Running
    BY <1>0 DEF Running
  <2> QED
    BY <2>1 DEF IInv, RunningChecks, CoreFollows, OtherTypes
<1>2. /\ UNCHANGED <<requests, slots>> /\ logins' = logins /\ pending' = pending
      /\ tasks' = tasks /\ stored' = stored /\ offline' = offline /\ visits' = visits
  BY DEF AttemptEnds
<1>3. /\ RequestTypes(queue', active', outcome') /\ Len(outcome') + pending' <= MaxRequests
      /\ Places(queue', active', outcome', Handled') /\ SlotsDiffer'
      /\ slots' \in Seq([id : 1..MaxRequests, left : AllLeft \union {"kept"}])
  <2>1. pending' <= pending /\ pending' \in Nat
    BY <1>2 DEF IInv, OtherTypes
  <2> QED
    BY <1>2, <2>1, RequestsStay
<1>4. ASSUME NEW result \in Results \ {"none", "running"}, result = "soft" => i = Attempts,
             attempts' = [attempts EXCEPT ![i] = result]
      PROVE  /\ attempts' \in Seq(Results) /\ Len(attempts') = Attempts
             /\ \A j, k \in DOMAIN attempts' :
                  j < k => attempts'[j] = "soft" \/ attempts'[k] = "none"
             /\ ~Running'
  <2>1. attempts' \in Seq(Results) /\ Len(attempts') = Attempts /\ DOMAIN attempts' = 1..Attempts
    BY <1>0, <1>4
  <2>2. \A j \in 1..Attempts : attempts'[j] = IF j = i THEN result ELSE attempts[j]
    BY <1>0, <1>4
  <2>3. \A j, k \in DOMAIN attempts' :
          j < k => attempts'[j] = "soft" \/ attempts'[k] = "none"
    BY <1>0, <2>1, <2>2
  <2>4. ASSUME NEW j \in 1..Attempts PROVE attempts'[j] # "running"
    <3>1. CASE j < i
      BY <1>0, <2>2, <3>1
    <3>2. CASE j > i
      BY <1>0, <2>2, <3>2
    <3>3. CASE j = i
      BY <2>2, <3>3, <1>4
    <3> QED
      BY <3>1, <3>2, <3>3, <1>0
  <2> QED
    BY <2>1, <2>3, <2>4 DEF Running
<1>5. CASE i < Attempts /\ NextTry(i)
  <2>1. /\ attempts' = [attempts EXCEPT ![i] = "soft", ![i + 1] = "running"]
        /\ state' = state /\ core' = core /\ user' = user
    BY <1>5 DEF NextTry
  <2>2. /\ attempts' \in Seq(Results) /\ Len(attempts') = Attempts /\ DOMAIN attempts' = 1..Attempts
        /\ \A j \in 1..Attempts : attempts'[j] =
             IF j = i THEN "soft" ELSE IF j = i + 1 THEN "running" ELSE attempts[j]
    BY <1>0, <1>5, <2>1 DEF Results
  <2>3. \A j, k \in DOMAIN attempts' :
          j < k => attempts'[j] = "soft" \/ attempts'[k] = "none"
    BY <1>0, <2>2
  <2>4. LoginTypes' /\ RunningChecks'
    BY <1>1, <1>2, <2>1, <2>2, <2>3 DEF IInv, LoginTypes, RunningChecks
  <2>5. CoreFollows' /\ LinksHaveKey' /\ LinksWaitOnlyForLogin' /\ QueueMoves'
    BY <1>1, <1>2, <2>1 DEF IInv, CoreFollows, LinksHaveKey, LinksWaitOnlyForLogin, QueueMoves
  <2>6. OtherTypes'
    BY <1>2, <1>3, <2>1 DEF IInv, OtherTypes
  <2> QED
    BY <1>3, <2>4, <2>5, <2>6 DEF IInv
<1>6. CASE ValidateFailed(i, "hard") \/ (i = Attempts /\ ValidateFailed(i, "soft"))
  <2>1. PICK result \in {"hard", "soft"} :
          (result = "soft" => i = Attempts) /\ attempts' = [attempts EXCEPT ![i] = result]
    BY <1>6 DEF ValidateFailed
  <2>2. state' = "Invalid" /\ core' = "question" /\ user' = user
    BY <1>6 DEF ValidateFailed
  <2>3. /\ attempts' \in Seq(Results) /\ Len(attempts') = Attempts
        /\ \A j, k \in DOMAIN attempts' :
             j < k => attempts'[j] = "soft" \/ attempts'[k] = "none"
        /\ ~Running'
    BY <1>4, <2>1 DEF Results
  <2>4. LoginTypes' /\ RunningChecks'
    BY <1>2, <2>2, <2>3 DEF IInv, LoginTypes, RunningChecks
  <2>5. CoreFollows' /\ LinksHaveKey' /\ LinksWaitOnlyForLogin' /\ QueueMoves'
    BY <1>1, <1>2, <2>2 DEF IInv, CoreFollows, LinksHaveKey, LinksWaitOnlyForLogin, QueueMoves
  <2>6. OtherTypes'
    BY <1>2, <1>3, <2>2 DEF IInv, OtherTypes
  <2> QED
    BY <1>3, <2>4, <2>5, <2>6 DEF IInv
<1>7. CASE ValidateSuccessful(i)
  <2>1. attempts' = [attempts EXCEPT ![i] = "success"] /\ state' = "Valid" /\ core' = "succeeded"
    BY <1>7 DEF ValidateSuccessful
  <2>2. user' \in Account
    BY <1>7, NexusAssumption DEF ValidateSuccessful, Account
  <2>3. /\ attempts' \in Seq(Results) /\ Len(attempts') = Attempts
        /\ \A j, k \in DOMAIN attempts' :
             j < k => attempts'[j] = "soft" \/ attempts'[k] = "none"
        /\ ~Running'
    BY <1>4, <2>1 DEF Results
  <2>4. LoginTypes' /\ RunningChecks'
    BY <1>2, <2>1, <2>3 DEF IInv, LoginTypes, RunningChecks
  <2>5. CoreFollows' /\ LinksHaveKey' /\ LinksWaitOnlyForLogin' /\ QueueMoves'
    BY <1>1, <1>2, <2>1 DEF IInv, CoreFollows, LinksHaveKey, LinksWaitOnlyForLogin, QueueMoves
  <2>6. OtherTypes'
    BY <1>2, <1>3, <2>1, <2>2 DEF IInv, OtherTypes
  <2> QED
    BY <1>3, <2>4, <2>5, <2>6 DEF IInv
<1> QED
  BY <1>0, <1>5, <1>6, <1>7 DEF AttemptEnds

\* NexusKeyValidator::cancel leaves no attempt running.
LEMMA CancelStops ==
  ASSUME IInv, Cancel, logins' = logins
  PROVE  /\ LoginTypes' /\ ~Running'
         /\ state' = state \/ state' = "NotChecked"
<1>1. /\ attempts \in Seq(Results) /\ Len(attempts) \in {0, Attempts}
      /\ state \in {"NotChecked", "Valid", "Invalid"}
  BY DEF IInv, LoginTypes
<1>2. attempts' = Cancelled /\ state' = (IF Running THEN "NotChecked" ELSE state)
  BY DEF Cancel
<1>3. /\ attempts' \in Seq(Results) /\ Len(attempts') = Len(attempts)
      /\ DOMAIN attempts' = DOMAIN attempts
      /\ \A i \in DOMAIN attempts : attempts'[i] =
           IF attempts[i] = "running" THEN "cancelled" ELSE attempts[i]
  BY <1>1, <1>2 DEF Cancelled, Results
<1>4. \A i, j \in DOMAIN attempts' :
        i < j => attempts'[i] = "soft" \/ attempts'[j] = "none"
  BY <1>3 DEF IInv, LoginTypes
<1>5. ~Running'
  BY <1>3 DEF Running
<1> QED
  BY <1>1, <1>2, <1>3, <1>4, <1>5 DEF IInv, LoginTypes

LEMMA UserCancelsStep ==
  ASSUME IInv, UserCancels
  PROVE  IInv'
<1>1. /\ Running /\ Cancel /\ UNCHANGED <<requests, slots>> /\ logins' = logins
      /\ pending' = pending /\ tasks' = tasks /\ core' = core /\ user' = user
      /\ stored' = stored /\ offline' = offline /\ visits' = visits
  BY DEF UserCancels, waiting, config
<1>2. state' = "NotChecked" /\ core = "idle"
  BY <1>1 DEF Cancel, IInv, RunningChecks, CoreFollows, OtherTypes
<1>3. LoginTypes' /\ ~Running'
  BY <1>1, CancelStops
<1>4. /\ RequestTypes(queue', active', outcome') /\ Len(outcome') + pending' <= MaxRequests
      /\ Places(queue', active', outcome', Handled') /\ SlotsDiffer'
      /\ slots' \in Seq([id : 1..MaxRequests, left : AllLeft \union {"kept"}])
  <2>1. pending' <= pending /\ pending' \in Nat
    BY <1>1 DEF IInv, OtherTypes
  <2> QED
    BY <1>1, <2>1, RequestsStay
<1>5. RunningChecks' /\ CoreFollows' /\ LinksHaveKey' /\ LinksWaitOnlyForLogin' /\ QueueMoves'
  BY <1>1, <1>2, <1>3
     DEF IInv, RunningChecks, CoreFollows, LinksHaveKey, LinksWaitOnlyForLogin, QueueMoves
<1>6. OtherTypes'
  BY <1>1, <1>4 DEF IInv, OtherTypes
<1> QED
  BY <1>3, <1>4, <1>5, <1>6 DEF IInv

LEMMA LinkStep ==
  ASSUME IInv, DownloadRequestedNXM
  PROVE  IInv'
<1>0. /\ Len(outcome) + pending < MaxRequests /\ Len(outcome) \in Nat /\ pending \in Nat
      /\ state \in {"NotChecked", "Valid", "Invalid"}
  BY DEF DownloadRequestedNXM, Room, IInv, OtherTypes, LoginTypes, RequestTypes
<1>1. /\ slots' = slots /\ tasks' = tasks /\ core' = core /\ user' = user
      /\ stored' = stored /\ offline' = offline /\ visits' = visits
  BY DEF DownloadRequestedNXM, config
<1>2. CASE /\ state = "NotChecked" /\ stored /\ ApiCheck
           /\ pending' = pending + 1 /\ UNCHANGED requests
  <2>1. /\ LoginTypes' /\ RunningChecks' /\ state' = "NotChecked"
    BY <1>1, <1>2, ApiCheckKeeps DEF IInv, login
  <2>2. queue' = queue /\ active' = active /\ outcome' = outcome
    BY <1>2 DEF requests
  <2>3. Handled' = Handled /\ SlotsDiffer'
    BY <1>1 DEF Handled, SlotsDiffer, IInv
  <2> HIDE DEF Handled
  <2>4. /\ RequestTypes(queue', active', outcome') /\ Len(outcome') + pending' <= MaxRequests
        /\ Places(queue', active', outcome', Handled')
    BY <1>0, <1>2, <2>2, <2>3, NexusAssumption DEF IInv
  <2>5. CoreFollows' /\ LinksHaveKey' /\ LinksWaitOnlyForLogin' /\ QueueMoves'
    BY <1>1, <1>2, <2>1 DEF IInv, CoreFollows, LinksHaveKey, LinksWaitOnlyForLogin, QueueMoves
  <2>6. OtherTypes'
    BY <1>0, <1>1, <1>2 DEF IInv, OtherTypes
  <2> QED
    BY <2>1, <2>3, <2>4, <2>5, <2>6 DEF IInv
<1>3. CASE \E st \in {"NotChecked", "Valid", "Invalid"} :
             /\ st = state \/ (st = "Invalid" /\ state = "NotChecked" /\ ~stored)
             /\ NewRequest("info", st) /\ pending' = pending
  <2>1. "info" \in AllKinds /\ Len(outcome) < MaxRequests
    BY <1>0, NexusAssumption DEF AllKinds
  <2>2. /\ RequestTypes(queue', active', outcome') /\ Len(outcome') = Len(outcome) + 1
        /\ Places(queue', active', outcome', Handled') /\ SlotsDiffer'
        /\ LoginTypes' /\ RunningChecks' /\ QueueMoves'
        /\ \/ state' = state /\ UNCHANGED attempts
           \/ state = "NotChecked" /\ ~stored /\ state' = "Invalid"
           \/ state = "NotChecked" /\ state' = "NotChecked"
    BY <1>1, <1>3, <2>1, NewRequestStep
  <2>3. CoreFollows' /\ LinksHaveKey' /\ LinksWaitOnlyForLogin'
    BY <1>1, <1>3, <2>2, WaitingStep
  <2>4. OtherTypes'
    BY <1>1, <1>3 DEF IInv, OtherTypes
  <2>5. Len(outcome') + pending' <= MaxRequests
    BY <1>0, <1>3, <2>2, NexusAssumption
  <2> QED
    BY <2>2, <2>3, <2>4, <2>5 DEF IInv
<1> QED
  BY <1>0, <1>2, <1>3 DEF DownloadRequestedNXM

LEMMA LoggedInActionStep ==
  ASSUME IInv, LoggedInAction
  PROVE  IInv'
<1>1. /\ core = "idle" /\ tasks < MaxTasks /\ state # "Valid" /\ stored
      /\ tasks' = tasks + 1 /\ ApiCheck /\ UNCHANGED <<requests, slots>>
      /\ pending' = pending /\ core' = core /\ user' = user
      /\ stored' = stored /\ offline' = offline /\ visits' = visits
  BY DEF LoggedInAction, config
<1>2. /\ LoginTypes' /\ RunningChecks'
      /\ state' = "NotChecked" \/ (state' = state /\ attempts' = attempts)
  BY <1>1, ApiCheckKeeps DEF IInv, login
<1>3. /\ RequestTypes(queue', active', outcome') /\ Len(outcome') + pending' <= MaxRequests
      /\ Places(queue', active', outcome', Handled') /\ SlotsDiffer'
      /\ slots' \in Seq([id : 1..MaxRequests, left : AllLeft \union {"kept"}])
  <2>1. pending' <= pending /\ pending' \in Nat
    BY <1>1 DEF IInv, OtherTypes
  <2> QED
    BY <1>1, <2>1, RequestsStay
<1>4. CoreFollows' /\ LinksHaveKey' /\ QueueMoves'
  BY <1>1, <1>2 DEF IInv, CoreFollows, LinksHaveKey, QueueMoves
<1>5. LinksWaitOnlyForLogin'
  BY <1>1, <1>2 DEF IInv, LinksWaitOnlyForLogin, Stuck, IsActive, Running
<1>6. OtherTypes'
  BY <1>1, <1>3, NexusAssumption DEF IInv, OtherTypes
<1> QED
  BY <1>2, <1>3, <1>4, <1>5, <1>6 DEF IInv

\* The question is asked after a failure, when no attempt runs: a check then
\* starts a new validation, or finds the validator stuck.
LEMMA TryAgainStep ==
  ASSUME IInv, TryAgain
  PROVE  IInv'
<1>1. /\ core = "question" /\ stored /\ ApiCheck /\ core' = "idle"
      /\ UNCHANGED <<requests, slots>> /\ pending' = pending /\ tasks' = tasks
      /\ user' = user /\ stored' = stored /\ offline' = offline /\ visits' = visits
  BY DEF TryAgain, config
<1>2. state = "Invalid" /\ ~Running
  BY <1>1 DEF IInv, CoreFollows, RunningChecks
<1>3. /\ LoginTypes' /\ RunningChecks'
      /\ state' = "NotChecked" \/ (IsActive /\ state' = state /\ attempts' = attempts)
  BY <1>1, ApiCheckKeeps DEF IInv, login
<1>4. /\ RequestTypes(queue', active', outcome') /\ Len(outcome') + pending' <= MaxRequests
      /\ Places(queue', active', outcome', Handled') /\ SlotsDiffer'
      /\ slots' \in Seq([id : 1..MaxRequests, left : AllLeft \union {"kept"}])
  <2>1. pending' <= pending /\ pending' \in Nat
    BY <1>1 DEF IInv, OtherTypes
  <2> QED
    BY <1>1, <2>1, RequestsStay
<1>5. CoreFollows' /\ LinksHaveKey' /\ QueueMoves'
  BY <1>1, <1>2, <1>3 DEF IInv, CoreFollows, LinksHaveKey, QueueMoves
<1>6. LinksWaitOnlyForLogin'
  BY <1>2, <1>3 DEF LinksWaitOnlyForLogin, Stuck, IsActive, Running
<1>7. OtherTypes'
  BY <1>1, <1>4 DEF IInv, OtherTypes
<1> QED
  BY <1>3, <1>4, <1>5, <1>6, <1>7 DEF IInv

\* The queue goes on as it is, and the slot of the login returns.
LEMMA GoesOnStep ==
  ASSUME IInv, pending = 0, pending' = 0, core \in {"question", "succeeded", "failed"},
         core' = "idle", tasks' \in {0, tasks}, slots' = slots, user' = user,
         stored' = stored, offline' = offline, visits' = visits,
         NextRequest(queue, active, outcome, user, state)
  PROVE  IInv'
<1>0. /\ RequestTypes(queue, active, outcome) /\ Places(queue, active, outcome, Handled)
      /\ state \in {"NotChecked", "Valid", "Invalid"}
      /\ GivenUp => \E id \in DOMAIN outcome : outcome[id] = "aborted"
  BY DEF IInv, LoginTypes, GivenUp
<1>1. Handled' = Handled /\ SlotsDiffer'
  BY DEF Handled, SlotsDiffer, IInv
<1> HIDE DEF Handled
<1>2. /\ RequestTypes(queue', active', outcome') /\ Len(outcome') = Len(outcome)
      /\ Places(queue', active', outcome', Handled')
      /\ LoginTypes' /\ RunningChecks' /\ QueueMoves'
      /\ \/ state' = state /\ UNCHANGED attempts
         \/ state = "NotChecked" /\ ~stored /\ state' = "Invalid"
         \/ state = "NotChecked" /\ state' = "NotChecked"
  BY <1>0, <1>1, QueueStep
<1>3. CoreFollows' /\ LinksHaveKey' /\ LinksWaitOnlyForLogin'
  BY <1>2, WaitingStep
<1>4. OtherTypes' /\ Len(outcome') + pending' <= MaxRequests
  BY <1>2, NexusAssumption DEF IInv, OtherTypes
<1> QED
  BY <1>1, <1>2, <1>3, <1>4 DEF IInv

LEMMA GiveUpStep ==
  ASSUME IInv, GiveUp
  PROVE  IInv'
<1>0. core = "question" /\ state = "Invalid" /\ pending \in Nat
  BY DEF GiveUp, IInv, CoreFollows, OtherTypes
<1>1. CASE pending > 0
  <2>1. /\ core' = "failed" /\ UNCHANGED requests /\ state' = state /\ attempts' = attempts
        /\ logins' = logins /\ tasks' = tasks /\ slots' = slots /\ pending' = pending
        /\ user' = user /\ stored' = stored /\ offline' = offline /\ visits' = visits
    BY <1>1 DEF GiveUp, login, config
  <2>2. /\ RequestTypes(queue', active', outcome') /\ Len(outcome') + pending' <= MaxRequests
        /\ Places(queue', active', outcome', Handled') /\ SlotsDiffer'
        /\ slots' \in Seq([id : 1..MaxRequests, left : AllLeft \union {"kept"}])
    <3>1. pending' <= pending /\ pending' \in Nat
      BY <1>0, <2>1
    <3> QED
      BY <2>1, <3>1, RequestsStay
  <2>3. LoginTypes' /\ RunningChecks'
    BY <2>1 DEF IInv, LoginTypes, RunningChecks, Running
  <2>4. CoreFollows' /\ LinksHaveKey' /\ LinksWaitOnlyForLogin' /\ QueueMoves'
    BY <1>0, <2>1 DEF IInv, CoreFollows, LinksHaveKey, LinksWaitOnlyForLogin, QueueMoves
  <2>5. OtherTypes'
    BY <2>1, <2>2 DEF IInv, OtherTypes
  <2> QED
    BY <2>2, <2>3, <2>4, <2>5 DEF IInv
<1>2. CASE ~(pending > 0)
  <2>1. /\ pending = 0 /\ pending' = 0 /\ core' = "idle" /\ tasks' = 0 /\ slots' = slots
        /\ user' = user /\ stored' = stored /\ offline' = offline /\ visits' = visits
        /\ NextRequest(queue, active, outcome, user, state)
    BY <1>0, <1>2 DEF GiveUp, config
  <2> QED
    BY <1>0, <2>1, GoesOnStep
<1> QED
  BY <1>1, <1>2

LEMMA LoginCompletedStep ==
  ASSUME IInv, LoginCompleted
  PROVE  IInv'
<1>1. /\ core \in {"succeeded", "failed"} /\ pending = 0 /\ pending' = 0 /\ core' = "idle"
      /\ tasks' \in {0, tasks} /\ slots' = slots /\ user' = user /\ stored' = stored
      /\ offline' = offline /\ visits' = visits
      /\ NextRequest(queue, active, outcome, user, state)
  BY DEF LoginCompleted, config
<1> QED
  BY <1>1, GoesOnStep

LEMMA HandLinkStep ==
  ASSUME IInv, HandLink
  PROVE  IInv'
<1>0. /\ core \in {"succeeded", "failed"} /\ pending > 0 /\ pending \in Nat
      /\ pending' = pending - 1 /\ NewRequest("info", state)
      /\ Len(outcome) + pending <= MaxRequests /\ Len(outcome) \in Nat
      /\ state \in {"NotChecked", "Valid", "Invalid"}
  BY DEF HandLink, IInv, OtherTypes, LoginTypes, RequestTypes
<1>1. /\ slots' = slots /\ tasks' = tasks /\ core' = core /\ user' = user
      /\ stored' = stored /\ offline' = offline /\ visits' = visits
  BY DEF HandLink, config
<1>2. "info" \in AllKinds /\ Len(outcome) < MaxRequests /\ pending' \in 0..pending
  BY <1>0, NexusAssumption DEF AllKinds
<1>3. /\ RequestTypes(queue', active', outcome') /\ Len(outcome') = Len(outcome) + 1
      /\ Places(queue', active', outcome', Handled') /\ SlotsDiffer'
      /\ LoginTypes' /\ RunningChecks' /\ QueueMoves'
      /\ \/ state' = state /\ UNCHANGED attempts
         \/ state = "NotChecked" /\ ~stored /\ state' = "Invalid"
         \/ state = "NotChecked" /\ state' = "NotChecked"
  BY <1>0, <1>1, <1>2, NewRequestStep
<1>4. CoreFollows' /\ LinksHaveKey' /\ LinksWaitOnlyForLogin'
  BY <1>0, <1>1, <1>2, <1>3, WaitingStep
<1>5. OtherTypes'
  BY <1>0, <1>1, <1>2 DEF IInv, OtherTypes
<1>6. Len(outcome') + pending' <= MaxRequests
  BY <1>0, <1>3, NexusAssumption
<1> QED
  BY <1>3, <1>4, <1>5, <1>6 DEF IInv

\* Visits to the settings dialog, which is not opened while the login asks.
LEMMA SettingsStep ==
  ASSUME IInv, ConnectAccount \/ ClearKey \/ SetOffline
  PROVE  IInv'
<1>1. /\ core = "idle" /\ visits' = visits + 1 /\ visits < MaxAccounts
      /\ UNCHANGED <<requests, slots>> /\ logins' = logins
      /\ pending' = pending /\ tasks' = tasks /\ core' = core
  BY DEF ConnectAccount, ClearKey, SetOffline, Visit, login, waiting
<1>2. /\ LoginTypes' /\ RunningChecks'
      /\ state' = state \/ state' = "NotChecked"
  <2>1. CASE ClearKey
    BY <2>1, CancelStops DEF ClearKey, RunningChecks
  <2>2. CASE ConnectAccount \/ SetOffline
    <3>1. state' = state /\ attempts' = attempts /\ (stored => stored')
      BY <2>2 DEF ConnectAccount, SetOffline, login
    <3> QED
      BY <1>1, <3>1 DEF IInv, LoginTypes, RunningChecks, Running
  <2> QED
    BY <2>1, <2>2
<1>3. /\ RequestTypes(queue', active', outcome') /\ Len(outcome') + pending' <= MaxRequests
      /\ Places(queue', active', outcome', Handled') /\ SlotsDiffer'
      /\ slots' \in Seq([id : 1..MaxRequests, left : AllLeft \union {"kept"}])
  <2>1. pending' <= pending /\ pending' \in Nat
    BY <1>1 DEF IInv, OtherTypes
  <2> QED
    BY <1>1, <2>1, RequestsStay
<1>4. GivenUp' = GivenUp /\ queue' = queue /\ active' = active
  BY <1>1 DEF GivenUp, requests
<1>5. visits' \in 0..MaxAccounts /\ visits' # 0
  BY <1>1, NexusAssumption DEF IInv, OtherTypes
<1>6. user' \in Account /\ stored' \in BOOLEAN /\ offline' \in BOOLEAN
  <2>1. user \in Account /\ stored \in BOOLEAN /\ offline \in BOOLEAN
    BY DEF IInv, OtherTypes
  <2>2. CASE ConnectAccount
    <3>1. PICK premium \in Premium, left \in Left :
            user' = [key |-> TRUE, premium |-> premium, left |-> left]
      BY <2>2 DEF ConnectAccount
    <3>2. premium \in BOOLEAN /\ left \in AllLeft
      BY NexusAssumption
    <3>3. stored' = TRUE /\ offline' = offline
      BY <2>2 DEF ConnectAccount
    <3> QED
      BY <2>1, <3>1, <3>2, <3>3 DEF Account
  <2>3. CASE ClearKey
    BY <2>1, <2>3 DEF ClearKey, Account, NoAccount, AllLeft
  <2>4. CASE SetOffline
    BY <2>1, <2>4 DEF SetOffline
  <2> QED
    BY <2>2, <2>3, <2>4
<1>7. CoreFollows' /\ LinksHaveKey' /\ LinksWaitOnlyForLogin' /\ QueueMoves'
  BY <1>1, <1>2, <1>4, <1>5
     DEF IInv, CoreFollows, LinksHaveKey, LinksWaitOnlyForLogin, QueueMoves
<1>8. OtherTypes'
  BY <1>1, <1>3, <1>5, <1>6 DEF IInv, OtherTypes
<1> QED
  BY <1>2, <1>3, <1>7, <1>8 DEF IInv

-----------------------------------------------------------------------------
(* The theorems *)

LEMMA InitIInv ==
  ASSUME Init
  PROVE  IInv
<1>1. /\ queue = <<>> /\ active = {} /\ outcome = <<>> /\ slots = <<>>
      /\ user = [NoAccount EXCEPT !.left = "plenty"]
      /\ stored \in BOOLEAN /\ offline = FALSE /\ state = "NotChecked"
      /\ pending = 0 /\ tasks = 0 /\ core = "idle" /\ visits = 0
  BY DEF Init
<1>2. RequestTypes(queue, active, outcome) /\ Len(outcome) + pending <= MaxRequests
  BY <1>1, NexusAssumption DEF RequestTypes
<1>3. LoginTypes /\ RunningChecks
  <2>1. CASE stored
    <3>1. attempts = [i \in 1..Attempts |-> IF i = 1 THEN "running" ELSE "none"] /\ logins = 1
      BY <2>1 DEF Init
    <3>2. attempts \in Seq(Results) /\ Len(attempts) = Attempts /\ DOMAIN attempts = 1..Attempts
      BY <3>1, NexusAssumption DEF Results
    <3>3. \A i, j \in DOMAIN attempts : i < j => attempts[i] = "soft" \/ attempts[j] = "none"
      BY <3>1, <3>2, NexusAssumption
    <3> QED
      BY <1>1, <2>1, <3>1, <3>2, <3>3, NexusAssumption DEF LoginTypes, RunningChecks
  <2>2. CASE ~stored
    <3>1. attempts = <<>> /\ logins = 0
      BY <2>2 DEF Init
    <3> QED
      BY <1>1, <3>1, NexusAssumption DEF LoginTypes, RunningChecks, Running
  <2> QED
    BY <2>1, <2>2
<1>4. OtherTypes
  <2>1. user = [key |-> FALSE, premium |-> FALSE, left |-> "plenty"]
    BY <1>1 DEF NoAccount
  <2>2. user \in Account
    BY <2>1 DEF Account, AllLeft
  <2>3. slots \in Seq([id : 1..MaxRequests, left : AllLeft \union {"kept"}])
    BY <1>1
  <2>4. stored \in BOOLEAN /\ offline \in BOOLEAN /\ core = "idle"
    BY <1>1, Zenon
  <2>5. tasks = 0 /\ visits = 0 /\ pending = 0
    BY <1>1, Zenon
  <2>6. pending \in Nat /\ tasks \in 0..MaxTasks /\ visits \in 0..MaxAccounts
    BY <2>5, NexusAssumption
  <2> QED
    BY <2>2, <2>3, <2>4, <2>6 DEF OtherTypes
<1>5. Places(queue, active, outcome, Handled) /\ SlotsDiffer
  BY <1>1 DEF Places, Handled, SlotsDiffer
<1>6. CoreFollows /\ LinksHaveKey /\ LinksWaitOnlyForLogin /\ QueueMoves
  BY <1>1 DEF CoreFollows, LinksHaveKey, LinksWaitOnlyForLogin, QueueMoves
<1> QED
  BY <1>2, <1>3, <1>4, <1>5, <1>6 DEF IInv

LEMMA StutterKeeps ==
  ASSUME IInv, UNCHANGED vars
  PROVE  IInv'
<1>1. /\ UNCHANGED <<requests, slots>> /\ state' = state /\ attempts' = attempts
      /\ logins' = logins /\ pending' = pending /\ tasks' = tasks /\ core' = core
      /\ user' = user /\ stored' = stored /\ offline' = offline /\ visits' = visits
  BY DEF vars, login, waiting, config
<1>2. /\ RequestTypes(queue', active', outcome') /\ Len(outcome') + pending' <= MaxRequests
      /\ Places(queue', active', outcome', Handled') /\ SlotsDiffer'
      /\ slots' \in Seq([id : 1..MaxRequests, left : AllLeft \union {"kept"}])
  <2>1. pending' <= pending /\ pending' \in Nat
    BY <1>1 DEF IInv, OtherTypes
  <2> QED
    BY <1>1, <2>1, RequestsStay
<1>3. queue' = queue /\ active' = active /\ GivenUp' = GivenUp
  BY <1>1 DEF requests, GivenUp
<1>4. LoginTypes' /\ RunningChecks' /\ OtherTypes'
  BY <1>1, <1>2 DEF IInv, LoginTypes, RunningChecks, Running, OtherTypes
<1>5. CoreFollows' /\ LinksHaveKey' /\ LinksWaitOnlyForLogin'
  BY <1>1, WaitingStep
<1>6. QueueMoves'
  BY <1>1, <1>3 DEF IInv, QueueMoves
<1> QED
  BY <1>2, <1>4, <1>5, <1>6 DEF IInv

LEMMA NextKeepsIInv ==
  ASSUME IInv, [Next]_vars
  PROVE  IInv'
<1>1. ASSUME NEW kind \in Kinds, Ask(kind) PROVE IInv'
  BY <1>1, AskStep
<1>2. CASE Finish
  BY <1>2, FinishStep DEF Finish
<1>3. CASE SlotEnds
  BY <1>3, SlotEndsStep
<1>4. CASE AttemptStep
  BY <1>4, AttemptEndsStep DEF AttemptStep
<1>5. CASE UserCancels
  BY <1>5, UserCancelsStep
<1>6. CASE DownloadRequestedNXM
  BY <1>6, LinkStep
<1>7. CASE LoggedInAction
  BY <1>7, LoggedInActionStep
<1>8. CASE Answer
  BY <1>8, TryAgainStep, GiveUpStep DEF Answer
<1>9. CASE HandLink
  BY <1>9, HandLinkStep
<1>10. CASE LoginCompleted
  BY <1>10, LoginCompletedStep
<1>11. CASE ConnectAccount \/ ClearKey \/ SetOffline
  BY <1>11, SettingsStep
<1>12. CASE UNCHANGED vars
  BY <1>12, StutterKeeps
<1> QED
  BY <1>1, <1>2, <1>3, <1>4, <1>5, <1>6, <1>7, <1>8, <1>9, <1>10, <1>11, <1>12 DEF Next

\* The invariant that the theorems below rest on.
THEOREM Invariance == Spec => []IInv
<1>1. Init => IInv
  BY InitIInv
<1>2. IInv /\ [Next]_vars => IInv'
  BY NextKeepsIInv
<1> QED
  BY <1>1, <1>2, PTL DEF Spec

\* The queue, the login and OrganizerCore keep values of their types, and at most
\* one attempt of a validation runs, for any number of attempts.
THEOREM TypesHold == Spec => []TypeOK
<1>1. IInv => TypeOK
  <2> SUFFICES ASSUME IInv PROVE TypeOK
    OBVIOUS
  <2>1. Len(outcome) <= MaxRequests
    BY NexusAssumption DEF IInv, RequestTypes, OtherTypes
  <2> QED
    BY <2>1 DEF IInv, RequestTypes, LoginTypes, OtherTypes, TypeOK
<1> QED
  BY <1>1, Invariance, PTL

\* No request is lost, and none is in two places, however answers nest, redirect
\* or clear the queue, and whatever the login does meanwhile.
THEOREM RequestsAreConserved == Spec => []RequestsConserved
<1>1. IInv => RequestsConserved
  BY PlacesConserve DEF IInv
<1> QED
  BY <1>1, Invariance, PTL

\* No link is left waiting beside a valid account, or beside a failed login with
\* a validator that could still start an attempt.
THEOREM LinksWait == Spec => []LinksWaitOnlyForLogin
<1>1. IInv => LinksWaitOnlyForLogin
  BY DEF IInv
<1> QED
  BY <1>1, Invariance, PTL

\* A valid account leaves requests in the queue with nothing sent only behind a
\* link that was given up, for any limit of active requests.
THEOREM QueueGoesOn == Spec => []QueueMoves
<1>1. IInv => QueueMoves
  BY DEF IInv
<1> QED
  BY <1>1, Invariance, PTL

=============================================================================
