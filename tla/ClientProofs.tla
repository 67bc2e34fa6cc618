---------------------------- MODULE ClientProofs ----------------------------
(***************************************************************************)
(* For any number of calls, adapters, sockets and faults: the ids of a     *)
(* client's messages are unique, so no call gets the answer of another     *)
(* one, and no call is left without a timer or an opening socket.  A       *)
(* socket that crossed no older one of its adapter is the adapter's while  *)
(* it lives, and every failure of a call is explained by the sockets that  *)
(* close or cross.  And the transports are alike, for any calls, jobs and  *)
(* states.                                                                 *)
(***************************************************************************)
EXTENDS ClientProperties, FiniteSetTheorems, TLAPS

Pcs == {"new", "discovering", "opening", "waiting", "settled"}
Calls == [pc : Pcs, adapter : Adapters \cup {None}, socket : Sockets \cup {None},
          outcome : Outcomes \cup {None}, answer : Requests \cup {None}]
Messages == [adapter : Adapters, id : Nat, req : Requests, socket : Sockets \cup {None}]
SocketStates == {"unused", "creating", "connecting", "open", "lost", "ended", "aborting", "closing",
                 "failed", "closed"}

(* The types of the variables that the invariants speak about.             *)
ClientTypes ==
    /\ req \in [Requests -> Calls]
    /\ counter \in [Adapters -> Nat]
    /\ pending \subseteq [adapter : Adapters, id : Nat, req : Requests]
    /\ wire \subseteq Messages /\ answers \subseteq Messages
    /\ adapter \in Adapters \cup {None}
    /\ socket \in [Adapters -> Sockets \cup {None}]
    /\ opening \in [Adapters -> Sockets \cup {None}]
    /\ sockets \in [Sockets -> [adapter : Adapters \cup {None}, state : SocketStates]]
    /\ \A s \in Sockets : sockets[s].state # "unused" => sockets[s].adapter \in Adapters
    /\ \A r \in Requests : req[r].pc = "opening" => req[r].socket \in Sockets

-----------------------------------------------------------------------------
(* Places among the calls that are sent together.                          *)

LEMMA Places ==
  ASSUME NEW R \in SUBSET Requests
  PROVE  /\ Cardinality(R) \in Nat
         /\ \A r \in R : Place(R, r) \in 1..Cardinality(R)
         /\ \A q, r \in R : Place(R, q) = Place(R, r) => q = r
<1> DEFINE upTo(r) == {q \in R : q <= r}
<1>1. IsFiniteSet(R) /\ Cardinality(R) \in Nat /\ R \subseteq Nat
  BY RequestsAssumption, FS_Subset, FS_CardinalityType
<1>2. ASSUME NEW r \in R
      PROVE  /\ IsFiniteSet(upTo(r)) /\ Cardinality(upTo(r)) \in Nat
             /\ 1 <= Cardinality(upTo(r)) /\ Cardinality(upTo(r)) <= Cardinality(R)
  <2>1. upTo(r) \in SUBSET R /\ r \in upTo(r)
    BY <1>1
  <2> HIDE DEF upTo
  <2>2. /\ IsFiniteSet(upTo(r)) /\ Cardinality(upTo(r)) <= Cardinality(R)
        /\ Cardinality(upTo(r)) \in Nat
    BY <1>1, <2>1, FS_Subset, FS_CardinalityType
  <2>3. Cardinality(upTo(r)) # 0
    BY <2>1, <2>2, FS_EmptySet, Zenon
  <2> QED BY <2>2, <2>3
<1>3. ASSUME NEW q \in R, NEW r \in R, q < r
      PROVE  Cardinality(upTo(q)) # Cardinality(upTo(r))
  <2>1. upTo(q) \in SUBSET upTo(r) /\ r \in upTo(r) /\ r \notin upTo(q)
    <3>1. \A x \in R : x <= q => x <= r
      BY <1>1, <1>3
    <3>2. r <= r /\ ~(r <= q)
      BY <1>1, <1>3
    <3> QED BY <3>1, <3>2
  <2>2. IsFiniteSet(upTo(r))
    BY <1>2
  <2> HIDE DEF upTo
  <2> QED BY <2>1, <2>2, FS_Subset, Zenon
<1>4. \A r \in R : Place(R, r) = Cardinality(upTo(r))
  BY DEF Place
<1>5. \A q, r \in R : q = r \/ q < r \/ r < q
  BY <1>1
<1>6. ASSUME NEW q \in R, NEW r \in R, Place(R, q) = Place(R, r) PROVE q = r
  BY <1>3, <1>4, <1>5, <1>6
<1>7. ASSUME NEW r \in R PROVE Place(R, r) \in 1..Cardinality(R)
  <2> HIDE DEF upTo
  <2>1. Place(R, r) \in Nat /\ 1 <= Place(R, r) /\ Place(R, r) <= Cardinality(R)
    BY <1>2, <1>4
  <2> QED BY <1>1, <2>1
<1> QED BY <1>1, <1>6, <1>7

-----------------------------------------------------------------------------
(* Types.                                                                  *)

LEMMA SettledFacts ==
  ASSUME ClientTypes, NEW R \in SUBSET Requests, NEW why \in Outcomes, req' = Settled(R, why)
  PROVE  /\ req' \in [Requests -> Calls]
         /\ \A r \in Requests : \/ req'[r] = req[r]
                                \/ req'[r].pc = "settled" /\ req'[r].outcome = why
         /\ \A r \in Requests \ R : req'[r] = req[r]
         /\ \A r \in R : req'[r].pc = "settled"
<1>1. ASSUME NEW r \in Requests
      PROVE  /\ req[r] \in Calls
             /\ [req[r] EXCEPT !.pc = "settled", !.outcome = why] \in Calls
  <2>1. req[r] \in Calls
    BY DEF ClientTypes
  <2> QED BY <2>1 DEF Calls, Pcs
<1>2. req' = [r \in Requests |->
          IF r \in R /\ req[r].pc # "settled"
          THEN [req[r] EXCEPT !.pc = "settled", !.outcome = why] ELSE req[r]]
  BY DEF Settled
<1>3. req' \in [Requests -> Calls]
  BY <1>1, <1>2
<1>4. ASSUME NEW r \in R
      PROVE  req'[r].pc = "settled" /\ (req'[r] = req[r] \/ req'[r].outcome = why)
  <2>1. CASE req[r].pc = "settled"
    BY <1>2, <2>1
  <2>2. CASE req[r].pc # "settled"
    <3>1. req[r] \in Calls
      BY <1>1
    <3>2. req'[r] = [req[r] EXCEPT !.pc = "settled", !.outcome = why]
      BY <1>2, <2>2
    <3> QED BY <3>1, <3>2 DEF Calls
  <2> QED BY <2>1, <2>2
<1>5. \A r \in Requests \ R : req'[r] = req[r]
  BY <1>2
<1> QED BY <1>3, <1>4, <1>5

LEMMA AtFacts ==
  ASSUME ClientTypes, NEW R \in SUBSET Requests, NEW pc \in Pcs, NEW a \in Adapters \cup {None},
         NEW s \in Sockets \cup {None}, req' = At(R, pc, a, s)
  PROVE  /\ req' \in [Requests -> Calls]
         /\ \A r \in Requests : req'[r].outcome = req[r].outcome /\ req'[r].answer = req[r].answer
         /\ \A r \in Requests \ R : req'[r] = req[r]
         /\ \A r \in R : req'[r].pc = pc /\ req'[r].socket = s
<1>1. ASSUME NEW r \in Requests
      PROVE  /\ req[r] \in Calls
             /\ [req[r] EXCEPT !.pc = pc, !.adapter = a, !.socket = s] \in Calls
  <2>1. req[r] \in Calls
    BY DEF ClientTypes
  <2> QED BY <2>1 DEF Calls
<1>2. req' = [r \in Requests |->
          IF r \in R THEN [req[r] EXCEPT !.pc = pc, !.adapter = a, !.socket = s] ELSE req[r]]
  BY DEF At
<1> QED BY <1>1, <1>2 DEF Calls

LEMMA AnsweredFacts ==
  ASSUME ClientTypes, NEW R \in SUBSET Requests, NEW m \in Messages, req' = Answered(R, m)
  PROVE  /\ req' \in [Requests -> Calls]
         /\ \A r \in Requests \ R : req'[r] = req[r]
         /\ \A r \in R : /\ req'[r].pc = "settled"
                         /\ req'[r] = req[r] \/ req'[r].answer = m.req
<1>1. ASSUME NEW r \in Requests
      PROVE  /\ req[r] \in Calls
             /\ [req[r] EXCEPT !.pc = "settled", !.outcome = "answered", !.answer = m.req] \in Calls
  <2>1. req[r] \in Calls /\ m.req \in Requests
    BY DEF ClientTypes, Messages
  <2> QED BY <2>1 DEF Calls, Pcs, Outcomes
<1>2. req' = [r \in Requests |->
          IF r \in R /\ req[r].pc # "settled"
          THEN [req[r] EXCEPT !.pc = "settled", !.outcome = "answered", !.answer = m.req]
          ELSE req[r]]
  BY DEF Answered
<1>3. req' \in [Requests -> Calls]
  BY <1>1, <1>2
<1>4. ASSUME NEW r \in R
      PROVE  req'[r].pc = "settled" /\ (req'[r] = req[r] \/ req'[r].answer = m.req)
  <2>1. CASE req[r].pc = "settled"
    BY <1>2, <2>1
  <2>2. CASE req[r].pc # "settled"
    <3>1. req[r] \in Calls
      BY <1>1
    <3>2. req'[r] = [req[r] EXCEPT !.pc = "settled", !.outcome = "answered", !.answer = m.req]
      BY <1>2, <2>2
    <3> QED BY <3>1, <3>2 DEF Calls
  <2> QED BY <2>1, <2>2
<1>5. \A r \in Requests \ R : req'[r] = req[r]
  BY <1>2
<1> QED BY <1>3, <1>4, <1>5

\* The same for a single call.
LEMMA AtOne ==
  ASSUME ClientTypes, NEW r \in Requests, NEW pc \in Pcs, NEW a \in Adapters \cup {None},
         NEW s \in Sockets \cup {None}, req' = At({r}, pc, a, s)
  PROVE  /\ req' \in [Requests -> Calls]
         /\ \A q \in Requests : req'[q].outcome = req[q].outcome /\ req'[q].answer = req[q].answer
         /\ \A q \in Requests \ {r} : req'[q] = req[q]
         /\ req'[r].pc = pc /\ req'[r].socket = s
<1>1. ASSUME NEW q \in Requests
      PROVE  /\ req[q] \in Calls
             /\ [req[q] EXCEPT !.pc = pc, !.adapter = a, !.socket = s] \in Calls
  <2>1. req[q] \in Calls
    BY DEF ClientTypes
  <2> QED BY <2>1 DEF Calls
<1>2. req' = [q \in Requests |->
          IF q = r THEN [req[q] EXCEPT !.pc = pc, !.adapter = a, !.socket = s] ELSE req[q]]
  BY DEF At
<1> QED BY <1>1, <1>2 DEF Calls


-----------------------------------------------------------------------------
(* The invariant.                                                          *)

\* No id is used twice, and what carries the id of an entry is for its call.
Ids ==
    /\ \A e \in pending : e.id <= counter[e.adapter]
    /\ \A m \in wire \cup answers : m.socket # None => m.id <= counter[m.adapter]
    /\ \A e, f \in pending : e.adapter = f.adapter /\ e.id = f.id => e = f
    /\ \A e \in pending, m \in wire \cup answers :
         m.socket # None /\ e.adapter = m.adapter /\ e.id = m.id => e.req = m.req

SocketsSound ==
    \A a \in Adapters :
        /\ socket[a] # None => /\ sockets[socket[a]].adapter = a
                               /\ sockets[socket[a]].state # "unused"
        /\ opening[a] # None => /\ sockets[opening[a]].adapter = a
                                /\ sockets[opening[a]].state \in {"creating", "connecting"}

ClientInv == ClientTypes /\ Ids /\ AnswersMatch /\ SocketsSound /\ WaitersAreHeld

LEMMA ClientInit == Init => ClientInv
<1> SUFFICES ASSUME Init PROVE ClientInv
  OBVIOUS
<1>1. ClientTypes
  <2>1. NewRequest \in Calls
    BY DEF NewRequest, Calls, Pcs
  <2> QED BY <2>1 DEF Init, ClientTypes, SocketStates, NewRequest
<1>2. Ids /\ SocketsSound
  BY DEF Init, Ids, SocketsSound
<1>3. AnswersMatch /\ WaitersAreHeld
  BY OutcomesAssumption DEF Init, AnswersMatch, WaitersAreHeld, NewRequest, Outcomes
<1> QED BY <1>1, <1>2, <1>3 DEF ClientInv

-----------------------------------------------------------------------------
(* What each part of the invariant depends on.                             *)

LEMMA IdsKept ==
  ASSUME Ids, UNCHANGED counter, pending' \subseteq pending,
         \A m \in wire' \cup answers' : m \in wire \cup answers \/ m.socket = None
  PROVE  Ids'
  BY DEF Ids

LEMMA AnswersKept ==
  ASSUME AnswersMatch,
         \A r \in Requests : \/ req'[r].outcome = req[r].outcome /\ req'[r].answer = req[r].answer
                             \/ req'[r].outcome # "answered"
                             \/ req'[r].answer = r
  PROVE  AnswersMatch'
  BY DEF AnswersMatch

LEMMA WaitersKept ==
  ASSUME WaitersAreHeld, UNCHANGED transport,
         \A r \in Requests :
            \/ req'[r].pc \notin {"waiting", "opening"}
            \/ /\ req'[r] = req[r]
               /\ \A e \in pending : e.req = r => e \in pending'
               /\ req[r].pc = "opening" =>
                    sockets'[req[r].socket].state \in {"creating", "connecting", "aborting"}
            \/ req'[r].pc = "waiting" /\ (transport # "ws" \/ \E e \in pending' : e.req = r)
            \/ /\ req'[r].pc = "opening"
               /\ sockets'[req'[r].socket].state \in {"creating", "connecting", "aborting"}
  PROVE  WaitersAreHeld'
  BY DEF WaitersAreHeld

-----------------------------------------------------------------------------
(* Sending.                                                                *)

LEMMA SendKeeps ==
  ASSUME ClientTypes, Ids, AnswersMatch, UNCHANGED answers,
         NEW a \in Adapters, NEW R \in SUBSET Requests, NEW s \in Sockets \cup {None}, NEW state,
         SendOn(a, R, s, state)
  PROVE  /\ req' \in [Requests -> Calls]
         /\ counter' \in [Adapters -> Nat]
         /\ pending' \subseteq [adapter : Adapters, id : Nat, req : Requests]
         /\ wire' \subseteq Messages
         /\ Ids' /\ AnswersMatch'
         /\ pending \subseteq pending'
         /\ \A r \in Requests \ R : req'[r] = req[r]
         /\ \A r \in R : \/ req'[r].pc = "settled"
                         \/ req'[r].pc = "waiting" /\ \E e \in pending' : e.req = r
<1>1. CASE s = None
  <2>1. req' = Settled(R, "not connected") /\ UNCHANGED <<counter, pending, wire>>
    BY <1>1 DEF SendOn
  <2>2. "not connected" \in Outcomes /\ "not connected" # "answered"
    BY DEF Outcomes
  <2>3. Ids'
    BY <2>1, IdsKept
  <2>4. AnswersMatch'
    BY <2>1, <2>2, SettledFacts, AnswersKept
  <2>5. /\ req' \in [Requests -> Calls]
        /\ \A r \in Requests \ R : req'[r] = req[r]
        /\ \A r \in R : req'[r].pc = "settled"
    BY <2>1, <2>2, SettledFacts
  <2>6. /\ counter' \in [Adapters -> Nat] /\ pending \subseteq pending'
        /\ pending' \subseteq [adapter : Adapters, id : Nat, req : Requests]
        /\ wire' \subseteq Messages
    BY <2>1 DEF ClientTypes
  <2> QED BY <2>3, <2>4, <2>5, <2>6
<1>2. CASE s # None
  <2> DEFINE n == counter[a]
             new == {Entry(a, R, r) : r \in R}
  <2>1. /\ counter' = [counter EXCEPT ![a] = n + Cardinality(R)]
        /\ pending' = pending \cup new
        /\ wire' \subseteq wire \cup {Message(a, R, r, s) : r \in R}
        /\ req' = Settled(R, "raw") \/ req' = At(R, "waiting", a, s)
    BY <1>2 DEF SendOn
  <2>2. /\ Cardinality(R) \in Nat /\ n \in Nat
        /\ \A r \in R : Place(R, r) \in 1..Cardinality(R)
        /\ \A q, r \in R : Place(R, q) = Place(R, r) => q = r
    BY Places DEF ClientTypes
  <2>3. /\ counter' \in [Adapters -> Nat] /\ counter'[a] = n + Cardinality(R)
        /\ \A b \in Adapters : counter[b] <= counter'[b]
    BY <2>1, <2>2 DEF ClientTypes
  <2>4. \A e \in pending' : e \in pending
            \/ \E r \in R : e = [adapter |-> a, id |-> n + Place(R, r), req |-> r]
    BY <2>1 DEF Entry
  <2>5. \A m \in wire' : m \in wire
            \/ \E r \in R : m = [adapter |-> a, id |-> n + Place(R, r), req |-> r, socket |-> s]
    BY <2>1 DEF Message
  <2>6. pending' \subseteq [adapter : Adapters, id : Nat, req : Requests]
    BY <2>2, <2>4 DEF ClientTypes
  <2>7. wire' \subseteq Messages
    BY <2>2, <2>5 DEF ClientTypes, Messages
  <2>8. Ids'
    <3>1. ASSUME NEW e \in pending' PROVE e.id <= counter'[e.adapter]
      BY <2>2, <2>3, <2>4 DEF Ids, ClientTypes
    <3>2. ASSUME NEW m \in wire' \cup answers', m.socket # None PROVE m.id <= counter'[m.adapter]
      BY <2>2, <2>3, <2>5, <3>2 DEF Ids, ClientTypes, Messages
    <3>3. \A e \in pending, r \in R : e.adapter = a => e.id # n + Place(R, r)
      BY <2>2 DEF Ids, ClientTypes
    <3>4. \A m \in wire \cup answers, r \in R :
            m.socket # None /\ m.adapter = a => m.id # n + Place(R, r)
      BY <2>2 DEF Ids, ClientTypes, Messages
    <3>5. \A q, r \in R : n + Place(R, q) = n + Place(R, r) => q = r
      BY <2>2
    <3>6. ASSUME NEW e \in pending', NEW f \in pending', e.adapter = f.adapter, e.id = f.id
          PROVE  e = f
      BY <2>4, <3>3, <3>5, <3>6 DEF Ids
    <3>7. ASSUME NEW e \in pending', NEW m \in wire' \cup answers', m.socket # None,
                 e.adapter = m.adapter, e.id = m.id
          PROVE  e.req = m.req
      BY <2>4, <2>5, <3>3, <3>4, <3>5, <3>7 DEF Ids
    <3> QED BY <3>1, <3>2, <3>6, <3>7 DEF Ids
  <2>9. ASSUME NEW r \in R PROVE \E e \in pending' : e.req = r
    <3>1. Entry(a, R, r) \in pending' /\ Entry(a, R, r).req = r
      BY <2>1 DEF Entry
    <3> QED BY <3>1
  <2>10. CASE req' = Settled(R, "raw")
    <3>1. "raw" \in Outcomes /\ "raw" # "answered"
      BY DEF Outcomes
    <3>2. AnswersMatch'
      BY <2>10, <3>1, SettledFacts, AnswersKept
    <3> QED BY <2>1, <2>3, <2>6, <2>7, <2>8, <2>10, <3>1, <3>2, SettledFacts
  <2>11. CASE req' = At(R, "waiting", a, s)
    <3>1. /\ req' \in [Requests -> Calls]
          /\ \A r \in Requests : req'[r].outcome = req[r].outcome /\ req'[r].answer = req[r].answer
          /\ \A r \in Requests \ R : req'[r] = req[r]
          /\ \A r \in R : req'[r].pc = "waiting"
      <4>1. "waiting" \in Pcs /\ a \in Adapters \cup {None}
        BY DEF Pcs
      <4> QED BY <2>11, <4>1, AtFacts
    <3>2. AnswersMatch'
      BY <3>1, AnswersKept
    <3>3. pending \subseteq pending'
      BY <2>1
    <3>4. \A r \in R : req'[r].pc = "waiting" /\ \E e \in pending' : e.req = r
      BY <2>9, <3>1
    <3> QED BY <2>3, <2>6, <2>7, <2>8, <3>1, <3>2, <3>3, <3>4
  <2> QED BY <2>1, <2>10, <2>11
<1> QED BY <1>1, <1>2

-----------------------------------------------------------------------------
(* The steps.                                                              *)

\* A call is sent, waits for a socket that is opening, or opens one.
LEMMA StartKeeps ==
  ASSUME ClientInv, NEW r \in Requests, NEW a \in Adapters, Start(r, a),
         adapter' \in Adapters, UNCHANGED <<transport, answers>>
  PROVE  ClientInv'
<1> USE DEF ClientInv
<1>0. /\ {r} \in SUBSET Requests /\ "opening" \in Pcs /\ "waiting" \in Pcs
      /\ a \in Adapters \cup {None} /\ None \in Sockets \cup {None}
  BY DEF Pcs
<1>1. CASE transport # "ws"
  <2>1. /\ req' = At({r}, "waiting", a, None)
        /\ wire' = wire \cup {[adapter |-> a, id |-> 0, req |-> r, socket |-> None]}
        /\ UNCHANGED <<socket, opening, counter, sockets, pending>>
    BY <1>1 DEF Start, RequestOverHttp
  <2>2. /\ req' \in [Requests -> Calls]
        /\ \A q \in Requests : req'[q].outcome = req[q].outcome /\ req'[q].answer = req[q].answer
        /\ \A q \in Requests \ {r} : req'[q] = req[q]
        /\ req'[r].pc = "waiting"
    BY <1>0, <2>1, AtOne
  <2>3. ClientTypes'
    <3>1. wire' \subseteq Messages
      BY <2>1 DEF ClientTypes, Messages
    <3>2. \A q \in Requests : req'[q].pc = "opening" => req'[q].socket \in Sockets
      BY <2>2 DEF ClientTypes
    <3> QED BY <2>1, <2>2, <3>1, <3>2 DEF ClientTypes
  <2>4. Ids'
    BY <2>1, IdsKept
  <2>5. AnswersMatch'
    BY <2>2, AnswersKept
  <2>6. SocketsSound'
    BY <2>1 DEF SocketsSound
  <2>7. WaitersAreHeld'
    BY <1>1, <2>1, <2>2 DEF WaitersAreHeld
  <2> QED BY <2>3, <2>4, <2>5, <2>6, <2>7
<1>2. CASE transport = "ws" /\ isOpen(a)
  <2>1. SendOn(a, {r}, socket[a], sockets[socket[a]].state) /\ UNCHANGED <<socket, opening, sockets>>
    BY <1>2 DEF Start, RequestOnSocket, isOpen
  <2>2. socket[a] \in Sockets \cup {None}
    BY DEF ClientTypes
  <2>3. /\ req' \in [Requests -> Calls] /\ counter' \in [Adapters -> Nat]
        /\ pending' \subseteq [adapter : Adapters, id : Nat, req : Requests]
        /\ wire' \subseteq Messages
    BY <1>0, <2>1, <2>2, SendKeeps
  <2>4. Ids' /\ AnswersMatch'
    BY <1>0, <2>1, <2>2, SendKeeps
  <2>5. SocketsSound'
    BY <2>1 DEF SocketsSound
  <2>6. /\ \A q \in Requests \ {r} : req'[q] = req[q]
        /\ req'[r].pc = "settled" \/ (req'[r].pc = "waiting" /\ \E e \in pending' : e.req = r)
        /\ pending \subseteq pending'
    BY <1>0, <2>1, <2>2, SendKeeps
  <2>7. WaitersAreHeld'
    BY <2>1, <2>6 DEF WaitersAreHeld
  <2>8. ClientTypes'
    <3>1. \A q \in Requests : req'[q].pc = "opening" => req'[q].socket \in Sockets
      BY <2>6 DEF ClientTypes
    <3> QED BY <2>1, <2>3, <3>1 DEF ClientTypes
  <2> QED BY <2>4, <2>5, <2>7, <2>8
<1>3. ASSUME NEW s \in Sockets, req' = At({r}, "opening", a, s),
             UNCHANGED <<counter, pending, wire>>,
             /\ socket' \in [Adapters -> Sockets \cup {None}]
             /\ opening' \in [Adapters -> Sockets \cup {None}]
             /\ sockets' \in [Sockets -> [adapter : Adapters \cup {None}, state : SocketStates]],
             \A t \in Sockets : sockets'[t].state # "unused" => sockets'[t].adapter \in Adapters,
             SocketsSound', sockets'[s].state \in {"creating", "connecting"},
             \A t \in Sockets :
                sockets[t].state \in {"creating", "connecting", "aborting"} => sockets'[t] = sockets[t]
      PROVE  ClientInv'
  <2>0. s \in Sockets \cup {None} /\ req' = At({r}, "opening", a, s)
    BY <1>3
  <2>1. /\ req' \in [Requests -> Calls]
        /\ \A q \in Requests : req'[q].outcome = req[q].outcome /\ req'[q].answer = req[q].answer
        /\ \A q \in Requests \ {r} : req'[q] = req[q]
        /\ req'[r].pc = "opening" /\ req'[r].socket = s
    BY <1>0, <2>0, AtOne
  <2>2. ClientTypes'
    BY <1>3, <2>1 DEF ClientTypes
  <2>3. Ids'
    BY <1>3, IdsKept
  <2>4. AnswersMatch'
    BY <2>1, AnswersKept
  <2>5. \A q \in Requests : req[q].pc = "opening" => req[q].socket \in Sockets
    BY DEF ClientTypes
  <2>6. WaitersAreHeld'
    <3>1. \A q \in Requests \ {r} :
            req[q].pc = "opening" => sockets'[req[q].socket].state \in {"creating", "connecting", "aborting"}
      BY <1>3, <2>5 DEF WaitersAreHeld
    <3> QED BY <1>3, <2>1, <3>1, WaitersKept
  <2> QED BY <1>3, <2>2, <2>3, <2>4, <2>6
<1>4. CASE transport = "ws" /\ ~isOpen(a) /\ opening[a] # None
  <2>1. req' = At({r}, "opening", a, opening[a])
        /\ UNCHANGED <<socket, opening, counter, sockets, pending, wire>>
    BY <1>4 DEF Start, RequestOnSocket
  <2>2. opening[a] \in Sockets /\ sockets[opening[a]].state \in {"creating", "connecting"}
    BY <1>4 DEF ClientTypes, SocketsSound
  <2> QED BY <1>3, <2>1, <2>2 DEF ClientTypes, SocketsSound
<1>5. CASE transport = "ws" /\ ~isOpen(a) /\ opening[a] = None
  <2>1. PICK s \in Sockets : Open(a, s) /\ req' = At({r}, "opening", a, s)
                             /\ UNCHANGED <<socket, counter, pending, wire>>
    BY <1>5 DEF Start, RequestOnSocket
  <2>2. /\ sockets[s].state = "unused"
        /\ sockets' = [sockets EXCEPT ![s] = [adapter |-> a, state |-> "creating"]]
        /\ UNCHANGED socket /\ opening' = [opening EXCEPT ![a] = s]
    BY <2>1 DEF Open, isNext, unused
  <2>3. /\ socket' \in [Adapters -> Sockets \cup {None}]
        /\ opening' \in [Adapters -> Sockets \cup {None}]
        /\ sockets' \in [Sockets -> [adapter : Adapters \cup {None}, state : SocketStates]]
        /\ sockets'[s].state = "creating" /\ sockets'[s].adapter = a
        /\ \A t \in Sockets \ {s} : sockets'[t] = sockets[t]
    BY <2>2 DEF ClientTypes, SocketStates
  <2>4. SocketsSound'
    BY <2>2, <2>3 DEF SocketsSound, ClientTypes
  <2> QED BY <1>3, <2>1, <2>2, <2>3, <2>4 DEF ClientTypes
<1> QED BY <1>1, <1>2, <1>4, <1>5

\* Steps that only settle calls and drop entries, or none.
LEMMA SettlingKeeps ==
  ASSUME ClientInv, UNCHANGED <<transport, counter>>, ClientTypes', SocketsSound', Ids',
         AnswersMatch',
         \A r \in Requests :
            \/ req'[r].pc = "settled"
            \/ req'[r] = req[r] /\ \A e \in pending : e.req = r => e \in pending',
         \A s \in Sockets : sockets[s].state \in {"creating", "connecting", "aborting"} =>
            \/ sockets'[s].state \in {"creating", "connecting", "aborting"}
            \/ \A r \in Requests : req'[r].socket = s => req'[r].pc # "opening"
  PROVE  ClientInv'
<1>1. \A r \in Requests : req[r].pc = "opening" => /\ req[r].socket \in Sockets
                            /\ sockets[req[r].socket].state \in {"creating", "connecting", "aborting"}
  BY DEF ClientInv, ClientTypes, WaitersAreHeld
<1>2. WaitersAreHeld'
  BY <1>1 DEF ClientInv, WaitersAreHeld
<1> QED BY <1>2 DEF ClientInv

LEMMA SettledIsSettled ==
  ASSUME ClientTypes, AnswersMatch, NEW R \in SUBSET Requests, NEW why \in Outcomes \ {"answered"},
         req' = Settled(R, why)
  PROVE  /\ req' \in [Requests -> Calls] /\ AnswersMatch'
         /\ \A r \in Requests : req'[r] = req[r] \/ req'[r].pc = "settled"
         /\ \A r \in R : req'[r].pc = "settled"
         /\ \A r \in Requests : req'[r].pc = "opening" => req'[r].socket \in Sockets
<1>1. /\ req' \in [Requests -> Calls]
      /\ \A r \in Requests : \/ req'[r] = req[r]
                             \/ req'[r].pc = "settled" /\ req'[r].outcome = why
      /\ \A r \in R : req'[r].pc = "settled"
  BY SettledFacts
<1>2. AnswersMatch'
  BY <1>1, AnswersKept
<1>3. \A r \in Requests : req'[r].pc = "opening" => req'[r].socket \in Sockets
  BY <1>1 DEF ClientTypes
<1> QED BY <1>1, <1>2, <1>3

LEMMA SettlesAndDrops ==
  ASSUME ClientInv, NEW R \in SUBSET Requests, NEW why \in Outcomes \ {"answered"},
         req' = Settled(R, why), UNCHANGED <<transport, adapter, counter, wire>>,
         pending' \subseteq pending, \A e \in pending : e \in pending' \/ e.req \in R,
         answers' \subseteq answers, SocketsSound',
         socket' \in [Adapters -> Sockets \cup {None}],
         opening' \in [Adapters -> Sockets \cup {None}],
         sockets' \in [Sockets -> [adapter : Adapters \cup {None}, state : SocketStates]],
         \A s \in Sockets : sockets'[s].state # "unused" => sockets'[s].adapter \in Adapters,
         \A s \in Sockets : sockets[s].state \in {"creating", "connecting", "aborting"} =>
            sockets'[s].state \in {"creating", "connecting", "aborting"} \/ awaiting(s) \subseteq R
  PROVE  ClientInv'
<1>1. ClientTypes /\ Ids /\ AnswersMatch
  BY DEF ClientInv
<1>2. /\ req' \in [Requests -> Calls] /\ AnswersMatch'
      /\ \A r \in Requests : req'[r] = req[r] \/ req'[r].pc = "settled"
      /\ \A r \in R : req'[r].pc = "settled"
      /\ \A r \in Requests : req'[r].pc = "opening" => req'[r].socket \in Sockets
  BY <1>1, SettledIsSettled
<1>3. ClientTypes'
  BY <1>1, <1>2 DEF ClientTypes
<1>4. Ids'
  BY <1>1, IdsKept
<1>5. ASSUME NEW r \in Requests
      PROVE  \/ req'[r].pc = "settled"
             \/ req'[r] = req[r] /\ \A e \in pending : e.req = r => e \in pending'
  BY <1>2
<1>6. ASSUME NEW s \in Sockets, sockets[s].state \in {"creating", "connecting", "aborting"}
      PROVE  \/ sockets'[s].state \in {"creating", "connecting", "aborting"}
             \/ \A r \in Requests : req'[r].socket = s => req'[r].pc # "opening"
  BY <1>2, <1>6 DEF awaiting
<1> QED BY <1>2, <1>3, <1>4, <1>5, <1>6, SettlingKeeps

\* Steps that change neither the calls nor their entries.
LEMMA CallsUntouched ==
  ASSUME ClientInv, UNCHANGED <<transport, counter, pending, req>>,
         \A m \in wire' \cup answers' : m \in wire \cup answers, SocketsSound',
         adapter' \in Adapters \cup {None},
         socket' \in [Adapters -> Sockets \cup {None}],
         opening' \in [Adapters -> Sockets \cup {None}],
         sockets' \in [Sockets -> [adapter : Adapters \cup {None}, state : SocketStates]],
         \A s \in Sockets : sockets'[s].state # "unused" => sockets'[s].adapter \in Adapters,
         \A s \in Sockets : sockets[s].state \in {"creating", "connecting", "aborting"} =>
            sockets'[s].state \in {"creating", "connecting", "aborting"}
  PROVE  ClientInv'
<1>1. ClientTypes /\ Ids /\ AnswersMatch
  BY DEF ClientInv
<1>2. ClientTypes'
  BY <1>1 DEF ClientTypes
<1>3. Ids'
  BY <1>1, IdsKept
<1>4. AnswersMatch'
  BY <1>1, AnswersKept
<1> QED BY <1>2, <1>3, <1>4, SettlingKeeps

LEMMA OpenedKeeps ==
  ASSUME ClientInv, NEW s \in Sockets, Opened(s)
  PROVE  ClientInv'
<1> DEFINE a == sockets[s].adapter
           R == awaiting(s)
<1>1. ClientTypes /\ Ids /\ AnswersMatch /\ SocketsSound /\ WaitersAreHeld
  BY DEF ClientInv
<1>2. PICK state : SendOn(a, R, socket[a], state)
  BY DEF Opened
<1>3. /\ sockets[s].state = "connecting" /\ a \in Adapters
      /\ UNCHANGED <<transport, adapter, socket, answers>>
      /\ sockets' = [sockets EXCEPT ![s].state = "open"]
      /\ opening' = [opening EXCEPT ![a] = None]
  BY <1>1 DEF Opened, Becomes, ClientTypes
<1>4. socket[a] \in Sockets \cup {None} /\ R \in SUBSET Requests
  BY <1>1, <1>3 DEF ClientTypes, awaiting
<1>5. /\ req' \in [Requests -> Calls] /\ counter' \in [Adapters -> Nat]
      /\ pending' \subseteq [adapter : Adapters, id : Nat, req : Requests]
      /\ wire' \subseteq Messages /\ Ids' /\ AnswersMatch'
      /\ pending \subseteq pending'
      /\ \A r \in Requests \ R : req'[r] = req[r]
      /\ \A r \in R : \/ req'[r].pc = "settled"
                      \/ req'[r].pc = "waiting" /\ \E e \in pending' : e.req = r
  <2> HIDE DEF a, R
  <2> QED BY <1>1, <1>2, <1>3, <1>4, SendKeeps
<1>6. /\ sockets' \in [Sockets -> [adapter : Adapters \cup {None}, state : SocketStates]]
      /\ \A t \in Sockets : sockets'[t].adapter = sockets[t].adapter
      /\ sockets'[s].state = "open" /\ \A t \in Sockets \ {s} : sockets'[t] = sockets[t]
  BY <1>1, <1>3 DEF ClientTypes, SocketStates
<1>7. ClientTypes'
  <2>1. \A r \in Requests : req'[r].pc = "opening" => req'[r].socket \in Sockets
    BY <1>1, <1>5 DEF ClientTypes
  <2> HIDE DEF a, R
  <2> QED BY <1>1, <1>3, <1>5, <1>6, <2>1 DEF ClientTypes
<1>8. SocketsSound'
  BY <1>1, <1>3, <1>6 DEF SocketsSound, ClientTypes
<1>9. WaitersAreHeld'
  <2>1. ASSUME NEW r \in Requests \ R, req[r].pc = "opening"
        PROVE  sockets'[req[r].socket].state \in {"creating", "connecting", "aborting"}
    BY <1>1, <1>6, <2>1 DEF awaiting, WaitersAreHeld, ClientTypes
  <2> HIDE DEF a, R
  <2> QED BY <1>1, <1>3, <1>4, <1>5, <2>1, WaitersKept
<1> QED BY <1>5, <1>7, <1>8, <1>9 DEF ClientInv

LEMMA ReconnectKeeps ==
  ASSUME ClientInv, NEW s \in Sockets, reconnect(s)
  PROVE  ClientInv'
<1>1. ClientTypes /\ SocketsSound
  BY DEF ClientInv
<1>2. /\ adapter \in Adapters /\ sockets[s].state = "unused"
      /\ UNCHANGED <<transport, counter, pending, req, adapter, wire, answers>>
      /\ socket' = [socket EXCEPT ![adapter] = None] /\ opening' = [opening EXCEPT ![adapter] = s]
  BY <1>1 DEF reconnect, isNext, unused, counterKept, ClientTypes
<1>3. /\ sockets'[s] = [adapter |-> adapter, state |-> "creating"]
      /\ \A t \in Sockets \ {s} :
           /\ t # socket[adapter] => sockets'[t] = sockets[t]
           /\ sockets'[t] \in [adapter : Adapters \cup {None}, state : SocketStates]
           /\ sockets'[t].adapter = sockets[t].adapter
           /\ sockets'[t].state = "unused" <=> sockets[t].state = "unused"
           /\ sockets[t].state \in {"creating", "connecting", "aborting"} =>
                sockets'[t].state \in {"creating", "connecting", "aborting"}
  BY <1>1 DEF reconnect, closeOf, ClientTypes, SocketStates
<1>4. /\ sockets' \in [Sockets -> [adapter : Adapters \cup {None}, state : SocketStates]]
      /\ socket' \in [Adapters -> Sockets \cup {None}]
      /\ opening' \in [Adapters -> Sockets \cup {None}]
  <2>1. sockets' = [t \in Sockets |-> sockets'[t]]
    BY DEF reconnect
  <2> QED BY <1>1, <1>2, <1>3, <2>1 DEF ClientTypes, SocketStates
<1>5. \A t \in Sockets : sockets'[t].state # "unused" => sockets'[t].adapter \in Adapters
  BY <1>1, <1>2, <1>3 DEF ClientTypes
<1>6. SocketsSound'
  <2>1. ASSUME NEW b \in Adapters, socket'[b] # None
        PROVE  sockets'[socket'[b]].adapter = b /\ sockets'[socket'[b]].state # "unused"
    BY <1>1, <1>2, <1>3, <2>1 DEF SocketsSound, ClientTypes
  <2>2. ASSUME NEW b \in Adapters, opening'[b] # None
        PROVE  sockets'[opening'[b]].adapter = b /\ sockets'[opening'[b]].state \in {"creating", "connecting"}
    <3>1. CASE b = adapter
      BY <1>1, <1>2, <1>3, <3>1 DEF ClientTypes
    <3>2. CASE b # adapter
      <4>1. /\ opening'[b] = opening[b] /\ opening[b] \in Sockets
            /\ sockets[opening[b]].adapter = b /\ sockets[opening[b]].state \in {"creating", "connecting"}
        BY <1>1, <1>2, <2>2, <3>2 DEF SocketsSound, ClientTypes
      <4>2. opening[b] # s
        BY <1>2, <4>1
      <4>3. socket[adapter] # None => sockets[socket[adapter]].adapter = adapter
        BY <1>1, <1>2 DEF SocketsSound
      <4>4. opening[b] # socket[adapter]
        BY <2>2, <3>2, <4>1, <4>3
      <4> QED BY <1>3, <4>1, <4>2, <4>4
    <3> QED BY <3>1, <3>2
  <2> QED BY <2>1, <2>2 DEF SocketsSound
<1> QED BY <1>2, <1>3, <1>4, <1>5, <1>6, CallsUntouched

\* An answer ends the call that its entry, or HTTP, says it is for.
LEMMA AnswerKeeps ==
  ASSUME ClientInv, NEW R \in SUBSET Requests, NEW m \in answers, req' = Answered(R, m),
         \A r \in R : r = m.req,
         UNCHANGED <<transport, adapterVars, sockets, wire>>,
         pending' \subseteq pending, \A e \in pending : e \in pending' \/ e.req \in R,
         answers' \subseteq answers
  PROVE  ClientInv'
<1>1. ClientTypes /\ Ids /\ AnswersMatch /\ SocketsSound /\ m \in Messages
  BY DEF ClientInv, ClientTypes
<1>2. /\ req' \in [Requests -> Calls]
      /\ \A r \in Requests \ R : req'[r] = req[r]
      /\ \A r \in R : req'[r].pc = "settled" /\ (req'[r] = req[r] \/ req'[r].answer = m.req)
  BY <1>1, AnsweredFacts
<1>3. AnswersMatch'
  BY <1>1, <1>2, AnswersKept
<1>4. ClientTypes'
  <2>1. \A r \in Requests : req'[r].pc = "opening" => req'[r].socket \in Sockets
    BY <1>1, <1>2 DEF ClientTypes
  <2> QED BY <1>1, <1>2, <2>1 DEF ClientTypes, adapterVars
<1>5. Ids'
  BY <1>1, IdsKept DEF adapterVars
<1>6. SocketsSound'
  BY <1>1 DEF SocketsSound, adapterVars
<1> QED BY <1>2, <1>3, <1>4, <1>5, <1>6, SettlingKeeps DEF adapterVars

LEMMA ClientNext == ClientInv /\ [Next]_vars => ClientInv'
<1> SUFFICES ASSUME ClientInv, [Next]_vars PROVE ClientInv'
  OBVIOUS
<1> USE DEF serverVars, adapterVars
<1>t. ClientTypes /\ Ids /\ AnswersMatch /\ SocketsSound /\ WaitersAreHeld
  BY DEF ClientInv
<1>w. \A why \in {"discovery", "connection", "closed", "timeout", "raw"} :
        why \in Outcomes \ {"answered"}
  BY DEF Outcomes
<1>s. UNCHANGED <<adapter, socket, opening, sockets>> =>
        /\ SocketsSound' /\ adapter' \in Adapters \cup {None}
        /\ socket' \in [Adapters -> Sockets \cup {None}]
        /\ opening' \in [Adapters -> Sockets \cup {None}]
        /\ sockets' \in [Sockets -> [adapter : Adapters \cup {None}, state : SocketStates]]
        /\ \A s \in Sockets : sockets'[s].state # "unused" => sockets'[s].adapter \in Adapters
  BY <1>t DEF ClientTypes, SocketsSound
<1>1. ASSUME NEW r \in Requests, Call(r) PROVE ClientInv'
  <2>1. CASE adapter # None
    BY <1>1, <1>t, <2>1, StartKeeps DEF Call, ClientTypes
  <2>2. CASE adapter = None
    <3>1. /\ req' = At({r}, "discovering", None, None)
          /\ UNCHANGED <<transport, adapterVars, sockets, pending, wire, answers>>
      BY <1>1, <2>2 DEF Call
    <3>2. "discovering" \in Pcs /\ None \in Adapters \cup {None} /\ None \in Sockets \cup {None}
      BY DEF Pcs
    <3>3. /\ req' \in [Requests -> Calls]
          /\ \A q \in Requests : req'[q].outcome = req[q].outcome /\ req'[q].answer = req[q].answer
          /\ \A q \in Requests \ {r} : req'[q] = req[q]
          /\ req'[r].pc = "discovering"
      BY <1>t, <3>1, <3>2, AtOne
    <3>4. ClientTypes'
      <4>1. \A q \in Requests : req'[q].pc = "opening" => req'[q].socket \in Sockets
        BY <1>t, <3>3 DEF ClientTypes
      <4> QED BY <1>t, <3>1, <3>3, <4>1 DEF ClientTypes
    <3>5. Ids' /\ AnswersMatch'
      BY <1>t, <3>1, <3>3, IdsKept, AnswersKept
    <3>6. WaitersAreHeld'
      <4>1. \A q \in Requests \ {r} : req[q].pc = "opening" =>
              sockets'[req[q].socket].state \in {"creating", "connecting", "aborting"}
        BY <1>t, <3>1 DEF WaitersAreHeld
      <4> QED BY <1>t, <3>1, <3>3, <4>1, WaitersKept
    <3> QED BY <1>s, <3>1, <3>4, <3>5, <3>6 DEF ClientInv
  <2> QED BY <2>1, <2>2
<1>2. ASSUME NEW r \in Requests, NEW a \in Adapters, Discovered(r, a) PROVE ClientInv'
  BY <1>2, StartKeeps DEF Discovered
<1>3. ASSUME NEW r \in Requests, DiscoveryFails(r) PROVE ClientInv'
  <2>1. /\ req' = Settled({r}, "discovery") /\ {r} \in SUBSET Requests
        /\ UNCHANGED <<transport, adapterVars, sockets, pending, wire, answers>>
    BY <1>3 DEF DiscoveryFails
  <2> QED BY <1>w, <1>s, <2>1, SettlesAndDrops
<1>4. ASSUME NEW r \in Requests, HttpFails(r) PROVE ClientInv'
  <2>1. PICK why \in {"connection", "raw"} : req' = Settled({r}, why)
    BY <1>4 DEF HttpFails
  <2>2. /\ {r} \in SUBSET Requests /\ answers' \subseteq answers
        /\ UNCHANGED <<transport, adapterVars, sockets, pending, wire>>
    BY <1>4 DEF HttpFails
  <2> QED BY <1>w, <1>s, <2>1, <2>2, SettlesAndDrops
<1>5. ASSUME NEW a \in Adapters, reconnectHttp(a) PROVE ClientInv'
  <2>1. /\ adapter' \in Adapters \cup {None}
        /\ UNCHANGED <<transport, socket, opening, counter, sockets, pending, req, wire, answers>>
    BY <1>5, <1>t DEF reconnectHttp, ClientTypes
  <2>2. SocketsSound'
    BY <1>t, <2>1 DEF SocketsSound
  <2> QED BY <1>t, <2>1, <2>2, CallsUntouched DEF ClientTypes
<1>6. ASSUME NEW s \in Sockets, Opened(s) PROVE ClientInv'
  BY <1>6, OpenedKeeps
<1>7. ASSUME NEW s \in Sockets, OpenFails(s) PROVE ClientInv'
  <2> DEFINE a == sockets[s].adapter
  <2>1. /\ req' = Settled(awaiting(s), "connection") /\ awaiting(s) \in SUBSET Requests
        /\ UNCHANGED <<transport, adapter, socket, counter, pending, wire, answers>>
        /\ sockets' = [sockets EXCEPT ![s].state = "failed"]
        /\ opening' = [opening EXCEPT ![a] = None]
        /\ sockets[s].state # "unused" /\ a \in Adapters
    BY <1>7, <1>t DEF OpenFails, failsToOpen, Becomes, awaiting, ClientTypes
  <2>2. /\ sockets' \in [Sockets -> [adapter : Adapters \cup {None}, state : SocketStates]]
        /\ \A t \in Sockets : sockets'[t].adapter = sockets[t].adapter
        /\ sockets'[s].state = "failed" /\ \A t \in Sockets \ {s} : sockets'[t] = sockets[t]
    BY <1>t, <2>1 DEF ClientTypes, SocketStates
  <2>3. SocketsSound'
    BY <1>t, <2>1, <2>2 DEF SocketsSound, ClientTypes
  <2>4. \A t \in Sockets : sockets'[t].state # "unused" => sockets'[t].adapter \in Adapters
    BY <1>t, <2>1, <2>2 DEF ClientTypes
  <2>5. /\ socket' \in [Adapters -> Sockets \cup {None}]
        /\ opening' \in [Adapters -> Sockets \cup {None}]
    BY <1>t, <2>1 DEF ClientTypes
  <2> HIDE DEF a
  <2> QED BY <1>w, <2>1, <2>2, <2>3, <2>4, <2>5, SettlesAndDrops
<1>8. ASSUME NEW s \in Sockets, Closed(s) PROVE ClientInv'
  <2> DEFINE a == sockets[s].adapter
             R == {e.req : e \in {f \in pending : f.adapter = a}}
  <2>1. /\ req' = Settled(R, "closed") /\ R \in SUBSET Requests
        /\ UNCHANGED <<transport, adapter, counter, wire>> /\ answers' \subseteq answers
        /\ pending' \subseteq pending /\ \A e \in pending : e \in pending' \/ e.req \in R
    BY <1>8, <1>t DEF Closed, ClientTypes
  <2>2. /\ sockets' = [sockets EXCEPT ![s].state = "closed"]
        /\ socket' = [socket EXCEPT ![a] = None] /\ opening' = [opening EXCEPT ![a] = None]
        /\ sockets[s].state \in {"closing", "failed", "ended"} /\ a \in Adapters
    BY <1>8, <1>t DEF Closed, Becomes, ClientTypes
  <2>3. /\ sockets' \in [Sockets -> [adapter : Adapters \cup {None}, state : SocketStates]]
        /\ \A t \in Sockets : sockets'[t].adapter = sockets[t].adapter
        /\ sockets'[s].state = "closed" /\ \A t \in Sockets \ {s} : sockets'[t] = sockets[t]
    BY <1>t, <2>2 DEF ClientTypes, SocketStates
  <2>4. SocketsSound'
    BY <1>t, <2>2, <2>3 DEF SocketsSound, ClientTypes
  <2>5. \A t \in Sockets : sockets'[t].state # "unused" => sockets'[t].adapter \in Adapters
    BY <1>t, <2>2, <2>3 DEF ClientTypes
  <2>6. /\ socket' \in [Adapters -> Sockets \cup {None}]
        /\ opening' \in [Adapters -> Sockets \cup {None}]
    BY <1>t, <2>2 DEF ClientTypes
  <2>7. \A t \in Sockets : sockets[t].state \in {"creating", "connecting", "aborting"} =>
            sockets'[t].state \in {"creating", "connecting", "aborting"}
    BY <2>2, <2>3
  <2> HIDE DEF a, R
  <2> QED BY <1>w, <2>1, <2>3, <2>4, <2>5, <2>6, <2>7, SettlesAndDrops
<1>9. ASSUME NEW s \in Sockets, Breaks(s) \/ Ends(s) PROVE ClientInv'
  <2>1. /\ UNCHANGED <<transport, adapterVars, pending, req, wire, answers>>
        /\ sockets[s].state \in {"open", "lost"}
    BY <1>9 DEF Breaks, Ends
  <2>0. PICK state \in {"lost", "ended"} : sockets' = [sockets EXCEPT ![s].state = state]
    BY <1>9 DEF Breaks, Ends, Becomes
  <2>2. /\ sockets' \in [Sockets -> [adapter : Adapters \cup {None}, state : SocketStates]]
        /\ \A t \in Sockets : sockets'[t].adapter = sockets[t].adapter
        /\ sockets'[s].state = state /\ \A t \in Sockets \ {s} : sockets'[t] = sockets[t]
    BY <1>t, <2>0, <2>1 DEF ClientTypes, SocketStates
  <2>3. SocketsSound'
    BY <1>t, <2>1, <2>2 DEF SocketsSound, ClientTypes
  <2>4. \A t \in Sockets : sockets'[t].state # "unused" => sockets'[t].adapter \in Adapters
    BY <1>t, <2>1, <2>2 DEF ClientTypes
  <2>5. \A t \in Sockets : sockets[t].state \in {"creating", "connecting", "aborting"} =>
            sockets'[t].state \in {"creating", "connecting", "aborting"}
    BY <2>1, <2>2
  <2>6. /\ adapter' \in Adapters \cup {None} /\ socket' \in [Adapters -> Sockets \cup {None}]
        /\ opening' \in [Adapters -> Sockets \cup {None}]
    BY <1>t, <2>1 DEF ClientTypes
  <2> QED BY <2>1, <2>2, <2>3, <2>4, <2>5, <2>6, CallsUntouched
<1>10. ASSUME NEW s \in Sockets, Created(s) PROVE ClientInv'
  <2> DEFINE a == sockets[s].adapter
  <2>1. /\ UNCHANGED <<transport, adapter, opening, counter, pending, req, wire, answers>>
        /\ sockets' = [sockets EXCEPT ![s].state = "connecting"] /\ sockets[s].state = "creating"
        /\ socket' = [socket EXCEPT ![a] = s] /\ a \in Adapters
    BY <1>10, <1>t DEF Created, Becomes, ClientTypes
  <2>2. /\ sockets' \in [Sockets -> [adapter : Adapters \cup {None}, state : SocketStates]]
        /\ \A t \in Sockets : sockets'[t].adapter = sockets[t].adapter
        /\ sockets'[s].state = "connecting" /\ \A t \in Sockets \ {s} : sockets'[t] = sockets[t]
    BY <1>t, <2>1 DEF ClientTypes, SocketStates
  <2>3. SocketsSound'
    BY <1>t, <2>1, <2>2 DEF SocketsSound, ClientTypes
  <2>4. \A t \in Sockets : sockets'[t].state # "unused" => sockets'[t].adapter \in Adapters
    BY <1>t, <2>1, <2>2 DEF ClientTypes
  <2>5. \A t \in Sockets : sockets[t].state \in {"creating", "connecting", "aborting"} =>
            sockets'[t].state \in {"creating", "connecting", "aborting"}
    BY <2>1, <2>2
  <2>6. /\ adapter' \in Adapters \cup {None} /\ socket' \in [Adapters -> Sockets \cup {None}]
        /\ opening' \in [Adapters -> Sockets \cup {None}]
    BY <1>t, <2>1 DEF ClientTypes
  <2> HIDE DEF a
  <2> QED BY <2>1, <2>2, <2>3, <2>4, <2>5, <2>6, CallsUntouched
<1>11. ASSUME NEW s \in Sockets, reconnect(s) PROVE ClientInv'
  BY <1>11, ReconnectKeeps
<1>12. ASSUME NEW m \in wire, Serve(m) PROVE ClientInv'
  <2>1. UNCHANGED <<transport, adapterVars, sockets, pending, req>>
        /\ \A q \in wire' \cup answers' : q \in wire \cup answers
    BY <1>12 DEF Serve
  <2> QED BY <1>s, <2>1, CallsUntouched
<1>13. ASSUME NEW m \in answers, handleMessage(m) PROVE ClientInv'
  <2> DEFINE R == {e.req : e \in entriesFor(m)}
  <2>1. /\ req' = Answered(R, m) /\ pending' = pending \ entriesFor(m)
        /\ UNCHANGED <<transport, adapterVars, sockets, wire>>
        /\ answers' \subseteq answers /\ m.socket # None
    BY <1>13 DEF handleMessage
  <2>2. R \in SUBSET Requests /\ \A r \in R : r = m.req
    BY <1>t, <2>1 DEF entriesFor, Ids, ClientTypes
  <2>3. pending' \subseteq pending /\ \A e \in pending : e \in pending' \/ e.req \in R
    BY <2>1
  <2> HIDE DEF R
  <2> QED BY <2>1, <2>2, <2>3, AnswerKeeps
<1>14. ASSUME NEW m \in answers, HttpAnswered(m) PROVE ClientInv'
  <2>1. /\ req' = Answered({m.req}, m) /\ UNCHANGED <<transport, adapterVars, sockets, wire, pending>>
        /\ answers' \subseteq answers /\ {m.req} \in SUBSET Requests
    BY <1>14, <1>t DEF HttpAnswered, ClientTypes, Messages
  <2> QED BY <2>1, AnswerKeeps
<1>15. ASSUME NEW e \in pending, TimesOut(e) PROVE ClientInv'
  <2>1. /\ req' = Settled({e.req}, "timeout") /\ {e.req} \in SUBSET Requests
        /\ UNCHANGED <<transport, adapterVars, sockets, wire, answers>>
        /\ pending' \subseteq pending /\ \A f \in pending : f \in pending' \/ f.req \in {e.req}
    BY <1>15, <1>t DEF TimesOut, ClientTypes
  <2> QED BY <1>w, <1>s, <2>1, SettlesAndDrops
<1>16. CASE LeaderDies \/ Takeover
  <2>1. UNCHANGED <<transport, adapterVars, sockets, pending, req, wire, answers>>
    BY <1>16 DEF LeaderDies, Takeover
  <2> QED BY <1>s, <2>1, CallsUntouched
<1>17. CASE UNCHANGED vars
  <2>1. UNCHANGED <<transport, adapterVars, sockets, pending, req, wire, answers>>
    BY <1>17 DEF vars
  <2> QED BY <1>s, <2>1, CallsUntouched
<1> QED
  BY <1>1, <1>2, <1>3, <1>4, <1>5, <1>6, <1>7, <1>8, <1>9, <1>10, <1>11, <1>12, <1>13, <1>14, <1>15,
     <1>16, <1>17
     DEF Next

LEMMA ClientInductive == Spec => []ClientInv
  BY ClientInit, ClientNext, PTL DEF Spec

-----------------------------------------------------------------------------
(* The theorems.                                                           *)

(* Type correctness, with unique ids and every adapter's socket its own.   *)
THEOREM ClientTypeCorrect == Spec => []TypeOK
<1>1. ClientInv => TypeOK
  BY DEF ClientInv, ClientTypes, Calls, Pcs, Ids, SocketsSound, TypeOK
<1> QED BY <1>1, ClientInductive, PTL

(* No call gets the answer of another one (ws.ts, handleMessage), whatever *)
(* sockets are replaced and however late an answer comes.                  *)
THEOREM AnswersAreOwn == Spec => []AnswersMatch
<1>1. ClientInv => AnswersMatch
  BY DEF ClientInv
<1> QED BY <1>1, ClientInductive, PTL

(* No call is forgotten: it has its entry and timer, or the socket it      *)
(* waits for is still opening (ws.ts, ensureSocket and request).           *)
THEOREM NoCallForgotten == Spec => []WaitersAreHeld
<1>1. ClientInv => WaitersAreHeld
  BY DEF ClientInv
<1> QED BY <1>1, ClientInductive, PTL

-----------------------------------------------------------------------------
(* Sockets, their adapters and the calls on them.                          *)
Live == {"creating", "connecting", "open", "lost"}
inUse(s) == sockets[s].state \notin {"unused", "closed"}

\* Two sockets of an adapter at the same time: one crossed the other.
OneOrCrossed ==
    \A s, t \in Sockets :
        s # t /\ inUse(s) /\ inUse(t) /\ sockets[s].adapter = sockets[t].adapter =>
            {s, t} \cap crossed # {}

\* A socket that is not crossed is alone until it ends or is closed, and its
\* adapter's meanwhile.
Alone ==
    \A s \in Sockets \ crossed : sockets[s].state \in Live =>
        \A t \in Sockets \ {s} : inUse(t) => sockets[t].adapter # sockets[s].adapter

Held ==
    \A s \in Sockets \ crossed :
        /\ sockets[s].state \in {"creating", "connecting"} => opening[sockets[s].adapter] = s
        /\ sockets[s].state \in {"connecting", "open", "lost"} => socket[sockets[s].adapter] = s

\* No adapter keeps a socket that is closed.
NoneClosed == \A a \in Adapters : socket[a] # None => sockets[socket[a]].state # "closed"

Connected == OneOrCrossed /\ Alone /\ Held /\ NoneClosed

\* A call with an entry waits on a socket of the entry's adapter.
OnSocket(e, r, s) ==
    /\ req[r].pc = "waiting" /\ req[r].socket = s
    /\ inUse(s) /\ sockets[s].adapter = e.adapter
EntriesOnSockets ==
    \A e \in pending : req[e.req].pc # "settled" => \E s \in Sockets : OnSocket(e, e.req, s)

Connections == transport \in TransportKinds /\ Connected /\ EntriesOnSockets

LEMMA EntriesStay ==
  ASSUME ClientTypes, EntriesOnSockets, pending' \subseteq pending,
         \A r \in Requests : req'[r] = req[r] \/ req'[r].pc = "settled",
         \A s \in Sockets : inUse(s) /\ (\E e \in pending' : e.adapter = sockets[s].adapter) =>
            inUse(s)' /\ sockets'[s].adapter = sockets[s].adapter
  PROVE  EntriesOnSockets'
<1> SUFFICES ASSUME NEW e \in pending', req'[e.req].pc # "settled"
             PROVE  \E s \in Sockets : OnSocket(e, e.req, s)'
  BY DEF EntriesOnSockets
<1>1. e.req \in Requests /\ e \in pending
  BY DEF ClientTypes
<1>2. req'[e.req] = req[e.req]
  BY <1>1
<1>3. PICK s \in Sockets : OnSocket(e, e.req, s)
  BY <1>1, <1>2 DEF EntriesOnSockets
<1>4. OnSocket(e, e.req, s)'
  BY <1>2, <1>3 DEF OnSocket
<1> QED BY <1>4

\* What happens to the calls when they are answered.
LEMMA AnsweredOutcome ==
  ASSUME ClientTypes, NEW R, NEW m, req' = Answered(R, m)
  PROVE  \A r \in Requests : /\ req'[r] = req[r] \/ req'[r].pc = "settled"
                             /\ req'[r].outcome \in {req[r].outcome, "answered"}
<1> TAKE r \in Requests
<1>1. req[r] \in Calls
  BY DEF ClientTypes
<1>2. req'[r] = IF r \in R /\ req[r].pc # "settled"
                THEN [req[r] EXCEPT !.pc = "settled", !.outcome = "answered", !.answer = m.req]
                ELSE req[r]
  BY DEF Answered
<1> QED BY <1>1, <1>2 DEF Calls

\* The calls that fail keep the socket they had.
LEMMA SettledSocket ==
  ASSUME ClientTypes, NEW R \in SUBSET Requests, NEW why \in Outcomes, req' = Settled(R, why)
  PROVE  \A r \in Requests : \/ req'[r] = req[r]
                             \/ /\ r \in R /\ req[r].pc # "settled" /\ req'[r].pc = "settled"
                                /\ req'[r].outcome = why /\ req'[r].socket = req[r].socket
<1> TAKE r \in Requests
<1>1. req[r] \in Calls
  BY DEF ClientTypes
<1>2. req'[r] = IF r \in R /\ req[r].pc # "settled"
                THEN [req[r] EXCEPT !.pc = "settled", !.outcome = why] ELSE req[r]
  BY DEF Settled
<1> QED BY <1>1, <1>2 DEF Calls

\* Steps that settle calls, or leave them, and touch no socket.
Settling(R, why) == req' = Settled(R, why)
Aside ==
    /\ UNCHANGED <<transport, socket, opening, sockets, crossed>>
    /\ pending' \subseteq pending

LEMMA AsideSteps ==
  ASSUME ClientInv, Connections, Aside,
         \/ req' = req
         \/ \E m : \E R : req' = Answered(R, m)
         \/ \E R \in SUBSET Requests : \E why \in {"discovery", "connection", "timeout", "raw"} :
              Settling(R, why) /\ (why = "raw" => transport = "rest")
  PROVE  Connections' /\ \A r \in Requests : FailureExplained(r)
<1>1. ClientTypes
  BY DEF ClientInv
<1>2. /\ \A r \in Requests : req'[r] = req[r] \/ req'[r].pc = "settled"
      /\ \A r \in Requests : FailureExplained(r)
  <2>1. CASE req' = req
    BY <2>1 DEF FailureExplained
  <2>2. CASE \E m : \E R : req' = Answered(R, m)
    BY <1>1, <2>2, AnsweredOutcome DEF FailureExplained
  <2>3. ASSUME NEW R \in SUBSET Requests, NEW why \in {"discovery", "connection", "timeout", "raw"},
               Settling(R, why), why = "raw" => transport = "rest"
        PROVE  /\ \A r \in Requests : req'[r] = req[r] \/ req'[r].pc = "settled"
               /\ \A r \in Requests : FailureExplained(r)
    <3>1. why \in Outcomes
      BY DEF Outcomes
    <3>2. \A r \in Requests : \/ req'[r] = req[r]
                              \/ req'[r].pc = "settled" /\ req'[r].outcome = why
      BY <1>1, <2>3, <3>1, SettledFacts DEF Settling
    <3> QED BY <2>3, <3>2 DEF FailureExplained
  <2> QED BY <2>1, <2>2, <2>3
<1>3. Connected'
  BY DEF Connections, Connected, OneOrCrossed, Alone, Held, NoneClosed, inUse, Aside
<1>4. EntriesOnSockets'
  <2>1. \A s \in Sockets : inUse(s) => inUse(s)' /\ sockets'[s].adapter = sockets[s].adapter
    BY DEF inUse, Aside
  <2> QED BY <1>1, <1>2, <2>1, EntriesStay DEF Connections, Aside
<1> QED BY <1>2, <1>3, <1>4 DEF Connections, Aside

LEMMA NewEntries ==
  ASSUME NEW a, NEW R
  PROVE  \A e \in {Entry(a, R, r) : r \in R} : e.adapter = a /\ e.req \in R
  BY DEF Entry

\* Calls that had no entry take one, on a socket of its adapter.
LEMMA EntriesGrow ==
  ASSUME ClientTypes, EntriesOnSockets, NEW a \in Adapters, NEW s \in Sockets,
         NEW R \in SUBSET Requests, \A r \in R : req[r].pc \notin {"waiting", "settled"},
         pending' = pending \cup {Entry(a, R, r) : r \in R},
         \A r \in Requests \ R : req'[r] = req[r],
         \A r \in R : req'[r].pc = "waiting" /\ req'[r].socket = s,
         inUse(s)', sockets'[s].adapter = a,
         \A t \in Sockets : inUse(t) => inUse(t)' /\ sockets'[t].adapter = sockets[t].adapter
  PROVE  EntriesOnSockets'
<1> DEFINE new == {Entry(a, R, r) : r \in R}
<1>1. \A e \in new : e.adapter = a /\ e.req \in R
  BY NewEntries
<1>2. pending' = pending \cup new
  OBVIOUS
<1> HIDE DEF new
<1>3. \A e \in pending : e.req \in Requests
  BY DEF ClientTypes
<1> SUFFICES ASSUME NEW e \in pending', req'[e.req].pc # "settled"
             PROVE  \E t \in Sockets : OnSocket(e, e.req, t)'
  BY DEF EntriesOnSockets
<1>4. CASE e \in new
  <2>1. OnSocket(e, e.req, s)'
    BY <1>1, <1>4 DEF OnSocket
  <2> QED BY <2>1
<1>5. CASE e \in pending
  <2>1. req[e.req].pc # "settled"
    BY <1>3, <1>5
  <2>2. PICK t \in Sockets : OnSocket(e, e.req, t)
    BY <1>5, <2>1 DEF EntriesOnSockets
  <2>3. e.req \in Requests \ R
    BY <1>3, <1>5, <2>2 DEF OnSocket
  <2>4. OnSocket(e, e.req, t)'
    BY <2>2, <2>3 DEF OnSocket
  <2> QED BY <2>4
<1> QED BY <1>2, <1>4, <1>5

\* A socket in use changes its state, and its adapter may take or lose it.
Moves(s, a, state) ==
    /\ inUse(s) /\ a = sockets[s].adapter /\ UNCHANGED crossed
    /\ sockets' = [sockets EXCEPT ![s].state = state]
    /\ state \in Live => sockets[s].state \in Live
    /\ \A b \in Adapters \ {a} : socket'[b] = socket[b] /\ opening'[b] = opening[b]
    /\ s \notin crossed =>
         /\ state = "connecting" => opening'[a] = s
         /\ state \in {"connecting", "open", "lost"} => socket'[a] = s
    /\ socket'[a] \in {None, s, socket[a]} /\ (socket'[a] = s => state # "closed")

LEMMA SocketMoves ==
  ASSUME ClientTypes, SocketsSound, Connected, NEW s \in Sockets, NEW a \in Adapters,
         NEW state \in SocketStates \ {"unused", "creating"}, Moves(s, a, state)
  PROVE  Connected'
<1> USE DEF Moves
<1>1. /\ \A t \in Sockets : sockets'[t].adapter = sockets[t].adapter
      /\ sockets'[s].state = state /\ \A t \in Sockets \ {s} : sockets'[t] = sockets[t]
      /\ \A t \in Sockets : inUse(t)' => inUse(t)
  BY DEF ClientTypes, inUse
<1>2. \A b \in Adapters \ {a} : socket'[b] = socket[b] /\ opening'[b] = opening[b]
  OBVIOUS
<1>3. OneOrCrossed'
  BY <1>1 DEF Connected, OneOrCrossed
<1>4. Alone'
  BY <1>1 DEF Connected, Alone
<1>5. Held'
  <2> SUFFICES ASSUME NEW t \in Sockets \ crossed, sockets'[t].state \in Live
               PROVE  /\ sockets'[t].state \in {"creating", "connecting"} =>
                            opening'[sockets'[t].adapter] = t
                      /\ sockets'[t].state \in {"connecting", "open", "lost"} =>
                            socket'[sockets'[t].adapter] = t
    BY DEF Held, Live
  <2>1. CASE t = s
    <3>1. sockets'[s].state = state /\ sockets'[s].adapter = a /\ s \notin crossed
      BY <1>1, <2>1
    <3>2. state # "creating"
      OBVIOUS
    <3>3. /\ state = "connecting" => opening'[a] = s
          /\ state \in {"connecting", "open", "lost"} => socket'[a] = s
      BY <3>1
    <3> QED BY <2>1, <3>1, <3>2, <3>3
  <2>2. CASE t # s
    <3>1. sockets[t].state \in Live /\ sockets[t].state # "unused"
      BY <1>1, <2>2 DEF Live
    <3>2. sockets[t].adapter \in Adapters \ {a}
      BY <2>2, <3>1 DEF Connected, Alone, ClientTypes
    <3> QED BY <1>1, <1>2, <2>2, <3>2 DEF Connected, Held
  <2> QED BY <2>1, <2>2
<1>6. NoneClosed'
  <2>1. ASSUME NEW b \in Adapters \ {a}, socket[b] # None
        PROVE  socket[b] # s /\ socket[b] \in Sockets /\ sockets[socket[b]].state # "closed"
    BY <2>1 DEF SocketsSound, ClientTypes, Connected, NoneClosed
  <2>2. socket[a] # None => socket[a] \in Sockets /\ sockets[socket[a]].state # "closed"
    BY DEF ClientTypes, Connected, NoneClosed
  <2>3. ASSUME NEW b \in Adapters, socket'[b] # None PROVE sockets'[socket'[b]].state # "closed"
    <3>1. CASE b # a
      BY <1>1, <1>2, <2>1, <2>3, <3>1
    <3>2. CASE b = a /\ socket'[a] = s
      BY <1>1, <3>2
    <3>3. CASE b = a /\ socket'[a] # s
      BY <1>1, <2>2, <2>3, <3>3
    <3> QED BY <3>1, <3>2, <3>3
  <2> QED BY <2>3 DEF NoneClosed
<1> QED BY <1>3, <1>4, <1>5, <1>6 DEF Connected

\* A new socket begins in an adapter whose other sockets are crossed or end.
Begins(s, a) ==
    /\ sockets[s].state = "unused" /\ sockets'[s] = [adapter |-> a, state |-> "creating"]
    /\ crossed \subseteq crossed' /\ (s \in crossed' \/ notClosed(a) = {})
    /\ opening' = [opening EXCEPT ![a] = s]
    /\ socket'[a] \in {None, socket[a]} /\ \A b \in Adapters \ {a} : socket'[b] = socket[b]
    /\ \A t \in Sockets \ {s} :
         /\ sockets'[t].adapter = sockets[t].adapter /\ (inUse(t)' <=> inUse(t))
         /\ sockets[t].adapter # a => sockets'[t] = sockets[t]
         /\ sockets[t].adapter = a /\ t \notin crossed' => sockets'[t].state \notin Live

LEMMA SocketBegins ==
  ASSUME ClientTypes, SocketsSound, Connected, NEW s \in Sockets, NEW a \in Adapters, Begins(s, a)
  PROVE  Connected'
<1> USE DEF Begins
<1>1. \A b \in Adapters \ {a} : socket'[b] = socket[b] /\ opening'[b] = opening[b]
  BY DEF ClientTypes
<1>2. \A t \in Sockets \ {s} : s \notin crossed' /\ inUse(t) => sockets[t].adapter # a
  BY DEF notClosed, inUse
<1>3. OneOrCrossed'
  <2> SUFFICES ASSUME NEW t \in Sockets, NEW u \in Sockets, t # u, inUse(t)', inUse(u)',
                      sockets'[t].adapter = sockets'[u].adapter
               PROVE  {t, u} \cap crossed' # {}
    BY DEF OneOrCrossed
  <2>1. CASE t = s \/ u = s
    BY <1>2, <2>1
  <2>2. CASE t # s /\ u # s
    BY <2>2 DEF Connected, OneOrCrossed
  <2> QED BY <2>1, <2>2
<1>4. Alone'
  <2> SUFFICES ASSUME NEW t \in Sockets \ crossed', sockets'[t].state \in Live,
                      NEW u \in Sockets \ {t}, inUse(u)'
               PROVE  sockets'[u].adapter # sockets'[t].adapter
    BY DEF Alone
  <2>1. CASE t = s
    BY <1>2, <2>1
  <2>2. CASE t # s
    <3>1. sockets[t].adapter # a /\ sockets'[t] = sockets[t]
      BY <2>2
    <3>2. CASE u = s
      BY <3>1, <3>2
    <3>3. CASE u # s
      BY <2>2, <3>1, <3>3 DEF Connected, Alone
    <3> QED BY <3>2, <3>3
  <2> QED BY <2>1, <2>2
<1>5. Held'
  <2> SUFFICES ASSUME NEW t \in Sockets \ crossed', sockets'[t].state \in Live
               PROVE  /\ sockets'[t].state \in {"creating", "connecting"} =>
                            opening'[sockets'[t].adapter] = t
                      /\ sockets'[t].state \in {"connecting", "open", "lost"} =>
                            socket'[sockets'[t].adapter] = t
    BY DEF Held, Live
  <2>1. CASE t = s
    BY <2>1 DEF ClientTypes
  <2>2. CASE t # s
    <3>1. sockets[t].adapter # a /\ sockets'[t] = sockets[t] /\ sockets[t].state # "unused"
      BY <2>2 DEF Live
    <3>2. sockets[t].adapter \in Adapters \ {a}
      BY <3>1 DEF ClientTypes
    <3> QED BY <1>1, <3>1, <3>2 DEF Connected, Held
  <2> QED BY <2>1, <2>2
<1>6. NoneClosed'
  <2> SUFFICES ASSUME NEW b \in Adapters, socket'[b] # None
               PROVE  sockets'[socket'[b]].state # "closed"
    BY DEF NoneClosed
  <2>1. socket'[b] = socket[b] /\ socket[b] \in Sockets \ {s}
    BY <1>1 DEF SocketsSound, ClientTypes
  <2>2. inUse(socket[b])
    BY <2>1 DEF SocketsSound, Connected, NoneClosed, inUse
  <2>3. \A t \in Sockets \ {s} : inUse(t) => sockets'[t].state # "closed"
    BY DEF inUse
  <2> QED BY <2>1, <2>2, <2>3
<1> QED BY <1>3, <1>4, <1>5, <1>6 DEF Connected

\* A socket is sent on, waited for or opened.
LEMMA StartConnections ==
  ASSUME ClientInv, Connections, NEW r \in Requests, NEW a \in Adapters, Start(r, a),
         req[r].pc \in {"new", "discovering"}, UNCHANGED transport
  PROVE  Connections' /\ \A q \in Requests : FailureExplained(q)
<1>0. /\ ClientTypes /\ SocketsSound /\ {r} \in SUBSET Requests
      /\ "opening" \in Pcs /\ "waiting" \in Pcs
      /\ a \in Adapters \cup {None} /\ None \in Sockets \cup {None}
      /\ Connected /\ EntriesOnSockets
  BY DEF Pcs, ClientInv, Connections
<1>1. ASSUME NEW pc \in {"opening", "waiting"}, NEW s \in Sockets \cup {None},
             req' = At({r}, pc, a, s)
      PROVE  /\ \A q \in Requests : FailureExplained(q)
             /\ \A q \in Requests \ {r} : req'[q] = req[q]
             /\ req'[r].pc = pc /\ req'[r].socket = s
  BY <1>0, <1>1, AtOne DEF FailureExplained
<1>2. \A e \in pending : e.req # r /\ e.req \in Requests
  BY <1>0 DEF EntriesOnSockets, OnSocket, ClientTypes
<1>3. ASSUME UNCHANGED pending, \A q \in Requests \ {r} : req'[q] = req[q],
             \A s \in Sockets : inUse(s) => inUse(s)' /\ sockets'[s].adapter = sockets[s].adapter
      PROVE  EntriesOnSockets'
  <2> SUFFICES ASSUME NEW e \in pending, req[e.req].pc # "settled"
               PROVE  \E s \in Sockets : OnSocket(e, e.req, s)'
    BY <1>2, <1>3 DEF EntriesOnSockets
  <2>1. PICK s \in Sockets : OnSocket(e, e.req, s)
    BY <1>0 DEF EntriesOnSockets
  <2>2. OnSocket(e, e.req, s)'
    BY <1>2, <1>3, <2>1 DEF OnSocket
  <2> QED BY <2>2
<1>4. UNCHANGED <<socket, opening, sockets, crossed>> =>
        /\ Connected'
        /\ \A s \in Sockets : inUse(s) => inUse(s)' /\ sockets'[s].adapter = sockets[s].adapter
  BY <1>0 DEF Connected, OneOrCrossed, Alone, Held, NoneClosed, inUse
<1>5. CASE transport # "ws"
  <2>1. /\ req' = At({r}, "waiting", a, None)
        /\ UNCHANGED <<socket, opening, sockets, pending, crossed>>
    BY <1>5 DEF Start, RequestOverHttp
  <2> QED BY <1>0, <1>1, <1>3, <1>4, <2>1 DEF Connections
<1>6. CASE transport = "ws" /\ isOpen(a)
  <2>1. /\ SendOn(a, {r}, socket[a], sockets[socket[a]].state)
        /\ UNCHANGED <<socket, opening, sockets, crossed>>
        /\ socket[a] # None /\ sockets[socket[a]].state \in {"open", "lost"}
        /\ socket[a] \in Sockets /\ sockets[socket[a]].adapter = a
    BY <1>0, <1>6 DEF Start, RequestOnSocket, isOpen, ClientTypes, SocketsSound
  <2>2. /\ req' = At({r}, "waiting", a, socket[a])
        /\ pending' = pending \cup {Entry(a, {r}, q) : q \in {r}}
    BY <2>1 DEF SendOn
  <2>3. /\ \A q \in Requests : FailureExplained(q)
        /\ \A q \in Requests \ {r} : req'[q] = req[q]
        /\ req'[r].pc = "waiting" /\ req'[r].socket = socket[a]
    BY <1>1, <2>1, <2>2
  <2>4. EntriesOnSockets'
    <3>0. PICK s \in Sockets : s = socket[a]
      BY <2>1
    <3> DEFINE R == {r}
    <3>1. /\ s \in Sockets /\ R \in SUBSET Requests
          /\ \A q \in R : req[q].pc \notin {"waiting", "settled"}
          /\ pending' = pending \cup {Entry(a, R, q) : q \in R}
          /\ \A q \in Requests \ R : req'[q] = req[q]
          /\ \A q \in R : req'[q].pc = "waiting" /\ req'[q].socket = s
      BY <2>2, <2>3, <3>0
    <3>2. /\ \A t \in Sockets : inUse(t) => inUse(t)' /\ sockets'[t].adapter = sockets[t].adapter
          /\ sockets[s].state \notin {"unused", "closed"} /\ sockets'[s] = sockets[s]
          /\ sockets'[s].adapter = a
      BY <1>4, <2>1, <3>0
    <3> HIDE DEF R
    <3>3. inUse(s)'
      BY <3>1, <3>2 DEF inUse
    <3> QED BY <1>0, <3>1, <3>2, <3>3, EntriesGrow
  <2> QED BY <1>0, <1>4, <2>1, <2>3, <2>4 DEF Connections
<1>7. CASE transport = "ws" /\ ~isOpen(a) /\ opening[a] # None
  <2>1. /\ req' = At({r}, "opening", a, opening[a])
        /\ UNCHANGED <<socket, opening, sockets, pending, crossed>>
        /\ opening[a] \in Sockets \cup {None}
    BY <1>0, <1>7 DEF Start, RequestOnSocket, ClientTypes
  <2> QED BY <1>0, <1>1, <1>3, <1>4, <2>1 DEF Connections
<1>8. CASE transport = "ws" /\ ~isOpen(a) /\ opening[a] = None
  <2>1. PICK s \in Sockets : /\ Open(a, s) /\ req' = At({r}, "opening", a, s)
                             /\ UNCHANGED <<socket, pending>>
    BY <1>8 DEF Start, RequestOnSocket
  <2>2. /\ sockets[s].state = "unused"
        /\ sockets' = [sockets EXCEPT ![s] = [adapter |-> a, state |-> "creating"]]
        /\ opening' = [opening EXCEPT ![a] = s]
        /\ crossed' = crossed \cup ifCrossing(a, s)
    BY <2>1 DEF Open, isNext, unused
  <2>3. /\ sockets'[s] = [adapter |-> a, state |-> "creating"]
        /\ \A t \in Sockets \ {s} : sockets'[t] = sockets[t]
        /\ s \in crossed' \/ notClosed(a) = {}
        /\ crossed \subseteq crossed'
    BY <1>0, <2>2 DEF ClientTypes, ifCrossing
  <2>4. ASSUME NEW t \in Sockets \ crossed, sockets[t].adapter = a PROVE sockets[t].state \notin Live
    <3>1. /\ sockets[t].state \in {"creating", "connecting"} => opening[a] = t
          /\ sockets[t].state \in {"open", "lost"} => socket[a] = t
      BY <1>0, <2>4 DEF Connected, Held
    <3>2. t # None
      BY SocketsAssumption
    <3> QED BY <1>8, <3>1, <3>2 DEF Live, isOpen
  <2>5. Connected'
    <3>1. \A t \in Sockets \ {s} :
            /\ sockets'[t].adapter = sockets[t].adapter
            /\ inUse(t)' <=> inUse(t)
            /\ sockets[t].adapter # a => sockets'[t] = sockets[t]
            /\ sockets[t].adapter = a /\ t \notin crossed' => sockets'[t].state \notin Live
      BY <2>3, <2>4 DEF inUse
    <3>2. Begins(s, a)
      <4>1. socket'[a] \in {None, socket[a]} /\ \A b \in Adapters \ {a} : socket'[b] = socket[b]
        BY <2>1
      <4>2. sockets[s].state = "unused" /\ opening' = [opening EXCEPT ![a] = s]
        BY <2>2
      <4>3. /\ sockets'[s] = [adapter |-> a, state |-> "creating"] /\ crossed \subseteq crossed'
            /\ s \in crossed' \/ notClosed(a) = {}
        BY <2>3
      <4> QED BY <3>1, <4>1, <4>2, <4>3 DEF Begins
    <3> QED BY <1>0, <3>2, SocketBegins
  <2>6. EntriesOnSockets'
    <3>1. \A t \in Sockets : inUse(t) => inUse(t)' /\ sockets'[t].adapter = sockets[t].adapter
      BY <2>2, <2>3 DEF inUse
    <3> QED BY <1>1, <1>3, <2>1, <3>1
  <2> QED BY <1>0, <1>1, <2>1, <2>5, <2>6 DEF Connections
<1> QED BY <1>5, <1>6, <1>7, <1>8

\* A socket moves, and the calls keep their entries or settle.
LEMMA MovesAndSettles ==
  ASSUME ClientInv, Connections, NEW s \in Sockets, NEW a \in Adapters,
         NEW state \in SocketStates \ {"unused", "creating"}, Moves(s, a, state),
         UNCHANGED transport, pending' \subseteq pending,
         state = "closed" => \A e \in pending' : e.adapter # a,
         \A r \in Requests : req'[r] = req[r] \/ req'[r].pc = "settled"
  PROVE  Connections'
<1>1. ClientTypes /\ SocketsSound /\ Connected /\ EntriesOnSockets
  BY DEF ClientInv, Connections
<1>2. Connected'
  BY <1>1, SocketMoves
<1>3. /\ \A t \in Sockets : sockets'[t].adapter = sockets[t].adapter
      /\ sockets'[s].state = state /\ \A t \in Sockets \ {s} : sockets'[t] = sockets[t]
  BY <1>1 DEF Moves, ClientTypes
<1>4. ASSUME NEW t \in Sockets, inUse(t), NEW e \in pending', e.adapter = sockets[t].adapter
      PROVE  inUse(t)' /\ sockets'[t].adapter = sockets[t].adapter
  <2>1. t = s => state # "closed"
    BY <1>4 DEF Moves
  <2> QED BY <1>3, <1>4, <2>1 DEF inUse
<1>5. EntriesOnSockets'
  BY <1>1, <1>4, EntriesStay
<1> QED BY <1>2, <1>5 DEF Connections

LEMMA OpenedConnections ==
  ASSUME ClientInv, Connections, NEW s \in Sockets, Opened(s)
  PROVE  Connections' /\ \A q \in Requests : FailureExplained(q)
<1> DEFINE R == awaiting(s)
<1>0. ClientTypes /\ SocketsSound /\ Connected /\ EntriesOnSockets
  BY DEF ClientInv, Connections
<1>a. PICK a \in Adapters : a = sockets[s].adapter
  BY <1>0 DEF Opened, ClientTypes
<1>n. PICK now \in Sockets \cup {None} : now = socket[a]
  BY <1>0 DEF ClientTypes
<1>1. /\ sockets[s].state = "connecting"
      /\ UNCHANGED <<transport, socket, crossed>>
      /\ sockets' = [sockets EXCEPT ![s].state = "open"]
      /\ opening' = [opening EXCEPT ![a] = None]
      /\ SendOn(a, R, now, IF now = s THEN "open" ELSE IF now = None THEN None
                           ELSE sockets[now].state)
  BY <1>a, <1>n DEF Opened, Becomes
<1>2. s \notin crossed => now = s
  BY <1>0, <1>1, <1>a, <1>n DEF Connected, Held
<1>3. Connected'
  <2>1. Moves(s, a, "open")
    BY <1>0, <1>1, <1>2, <1>a, <1>n DEF Moves, inUse, Live, ClientTypes
  <2>2. "open" \in SocketStates \ {"unused", "creating"}
    BY DEF SocketStates
  <2> QED BY <1>0, <2>1, <2>2, SocketMoves
<1>4. /\ R \in SUBSET Requests
      /\ \A r \in R : req[r].pc = "opening" /\ req[r].socket = s
  BY DEF awaiting
<1>5. /\ \A t \in Sockets : sockets'[t].adapter = sockets[t].adapter
      /\ \A t \in Sockets : inUse(t) => inUse(t)'
  BY <1>0, <1>1 DEF ClientTypes, inUse
<1> HIDE DEF R
<1>6. ASSUME NEW why \in {"not connected", "raw"}, req' = Settled(R, why),
             now # s, pending \subseteq pending', \A e \in pending' : e \in pending \/ e.req \in R
      PROVE  EntriesOnSockets' /\ \A q \in Requests : FailureExplained(q)
  <2>1. why \in Outcomes
    BY DEF Outcomes
  <2>2. \A r \in Requests :
           \/ req'[r] = req[r]
           \/ /\ r \in R /\ req'[r].pc = "settled" /\ req'[r].outcome = why
              /\ req'[r].socket = s
    <3>1. \A r \in Requests :
             \/ req'[r] = req[r]
             \/ /\ r \in R /\ req[r].pc # "settled" /\ req'[r].pc = "settled"
                /\ req'[r].outcome = why /\ req'[r].socket = req[r].socket
      BY <1>0, <1>4, <1>6, <2>1, SettledSocket
    <3> QED BY <1>4, <3>1
  <2>3. \A q \in Requests : FailureExplained(q)
    BY <1>1, <1>2, <1>6, <2>2 DEF FailureExplained
  <2>4. \A r \in R : req'[r].pc = "settled"
    BY <1>0, <1>4, <1>6, <2>1, SettledFacts
  <2>5. EntriesOnSockets'
    <3> SUFFICES ASSUME NEW e \in pending', req'[e.req].pc # "settled"
                 PROVE  \E t \in Sockets : OnSocket(e, e.req, t)'
      BY DEF EntriesOnSockets
    <3>1. e \in pending /\ e.req \in Requests /\ req'[e.req] = req[e.req]
      BY <1>0, <1>6, <2>2, <2>4 DEF ClientTypes
    <3>2. PICK t \in Sockets : OnSocket(e, e.req, t)
      BY <1>0, <3>1 DEF EntriesOnSockets
    <3>3. OnSocket(e, e.req, t)'
      BY <1>5, <3>1, <3>2 DEF OnSocket
    <3> QED BY <3>3
  <2> QED BY <2>3, <2>5
<1>7. CASE now = None
  <2>1. req' = Settled(R, "not connected") /\ UNCHANGED pending
    BY <1>1, <1>7 DEF SendOn
  <2>2. now # s
    BY <1>7, SocketsAssumption
  <2> QED BY <1>1, <1>3, <1>6, <2>1, <2>2 DEF Connections
<1>8. CASE now # None
  <2> DEFINE new == {Entry(a, R, r) : r \in R}
             state == IF now = s THEN "open" ELSE sockets[now].state
  <2>1. /\ pending' = pending \cup new
        /\ req' = IF state = "connecting" THEN Settled(R, "raw") ELSE At(R, "waiting", a, now)
    BY <1>1, <1>8 DEF SendOn
  <2>2. \A e \in new : e.req \in R
    BY NewEntries
  <2>3. CASE state = "connecting"
    <3> HIDE DEF new
    <3> QED BY <1>1, <1>3, <1>6, <2>1, <2>2, <2>3 DEF Connections
  <2>4. CASE state # "connecting"
    <3>1. /\ \A r \in Requests : req'[r].outcome = req[r].outcome
          /\ \A r \in Requests \ R : req'[r] = req[r]
          /\ \A r \in R : req'[r].pc = "waiting" /\ req'[r].socket = now
      <4>1. "waiting" \in Pcs /\ a \in Adapters \cup {None}
        BY DEF Pcs
      <4> QED BY <1>0, <1>4, <2>1, <2>4, <4>1, AtFacts
    <3>2. now \in Sockets /\ sockets[now].adapter = a /\ inUse(now)
      BY <1>0, <1>8, <1>n DEF SocketsSound, Connected, NoneClosed, inUse
    <3>3. inUse(now)' /\ sockets'[now].adapter = a
      BY <1>5, <3>2
    <3>4. EntriesOnSockets'
      BY <1>0, <1>4, <1>5, <2>1, <3>1, <3>2, <3>3, EntriesGrow
    <3> QED BY <1>1, <1>3, <3>1, <3>4 DEF Connections, FailureExplained
  <2> QED BY <2>3, <2>4
<1> QED BY <1>7, <1>8

LEMMA OpenFailsConnections ==
  ASSUME ClientInv, Connections, NEW s \in Sockets, OpenFails(s)
  PROVE  Connections' /\ \A q \in Requests : FailureExplained(q)
<1>0. ClientTypes
  BY DEF ClientInv
<1>a. PICK a \in Adapters : a = sockets[s].adapter
  BY <1>0 DEF OpenFails, failsToOpen, ClientTypes
<1>1. /\ sockets[s].state \in {"connecting", "aborting"}
      /\ UNCHANGED <<transport, socket, crossed, pending>>
      /\ sockets' = [sockets EXCEPT ![s].state = "failed"]
      /\ opening' = [opening EXCEPT ![a] = None]
      /\ req' = Settled(awaiting(s), "connection") /\ awaiting(s) \in SUBSET Requests
  BY <1>a DEF OpenFails, failsToOpen, Becomes, awaiting
<1>2. \A r \in Requests : \/ req'[r] = req[r]
                          \/ req'[r].pc = "settled" /\ req'[r].outcome = "connection"
  BY <1>0, <1>1, SettledFacts DEF Outcomes
<1>3. Moves(s, a, "failed")
  BY <1>0, <1>1, <1>a DEF Moves, inUse, Live, ClientTypes
<1>4. "failed" \in SocketStates \ {"unused", "creating"}
  BY DEF SocketStates
<1>5. Connections'
  BY <1>1, <1>2, <1>3, <1>4, MovesAndSettles
<1> QED BY <1>2, <1>5 DEF FailureExplained

LEMMA ClosedConnections ==
  ASSUME ClientInv, Connections, NEW s \in Sockets, Closed(s)
  PROVE  Connections' /\ \A q \in Requests : FailureExplained(q)
<1>0. ClientTypes /\ Connected /\ EntriesOnSockets
  BY DEF ClientInv, Connections
<1>a. PICK a \in Adapters : a = sockets[s].adapter
  BY <1>0 DEF Closed, ClientTypes
<1> DEFINE R == {e.req : e \in {f \in pending : f.adapter = a}}
<1>1. /\ sockets[s].state \in {"closing", "failed", "ended"}
      /\ UNCHANGED <<transport, crossed>>
      /\ sockets' = [sockets EXCEPT ![s].state = "closed"]
      /\ socket' = [socket EXCEPT ![a] = None] /\ opening' = [opening EXCEPT ![a] = None]
      /\ req' = Settled(R, "closed") /\ pending' = {e \in pending : e.adapter # a}
  BY <1>a DEF Closed, Becomes
<1>2. R \in SUBSET Requests /\ "closed" \in Outcomes
  BY <1>0 DEF ClientTypes, Outcomes
<1>3. \A r \in Requests :
         \/ req'[r] = req[r]
         \/ /\ r \in R /\ req[r].pc # "settled" /\ req'[r].pc = "settled"
            /\ req'[r].outcome = "closed" /\ req'[r].socket = req[r].socket
  <2> HIDE DEF R
  <2> QED BY <1>0, <1>1, <1>2, SettledSocket
<1>4. Connections'
  <2>1. Moves(s, a, "closed")
    BY <1>0, <1>1, <1>a, SocketsAssumption DEF Moves, inUse, Live, ClientTypes
  <2>2. "closed" \in SocketStates \ {"unused", "creating"}
    BY DEF SocketStates
  <2> HIDE DEF R
  <2> QED BY <1>1, <1>3, <2>1, <2>2, MovesAndSettles
<1>5. ASSUME NEW r \in Requests PROVE FailureExplained(r)
  <2>1. CASE req'[r] = req[r]
    BY <2>1 DEF FailureExplained
  <2>2. CASE /\ r \in R /\ req[r].pc # "settled"
             /\ req'[r].outcome = "closed" /\ req'[r].socket = req[r].socket
    <3>1. PICK t \in Sockets : req[r].socket = t /\ inUse(t) /\ sockets[t].adapter = a
      BY <1>0, <2>2 DEF EntriesOnSockets, OnSocket
    <3>2. sockets[s].state # "closed" /\ sockets'[s].state = "closed" /\ inUse(s)
      BY <1>0, <1>1 DEF ClientTypes, inUse
    <3>3. s = t \/ {t, s} \cap crossed # {}
      BY <1>0, <1>a, <3>1, <3>2 DEF Connected, OneOrCrossed
    <3> QED BY <1>a, <2>2, <3>1, <3>2, <3>3 DEF FailureExplained
  <2> HIDE DEF R
  <2> QED BY <1>3, <2>1, <2>2
<1> QED BY <1>4, <1>5

\* The steps of a socket in which no call takes part.
LEMMA MovingConnections ==
  ASSUME ClientInv, Connections, NEW s \in Sockets, Created(s) \/ Breaks(s) \/ Ends(s)
  PROVE  Connections' /\ \A q \in Requests : FailureExplained(q)
<1>0. ClientTypes /\ SocketsSound /\ Connected
  BY DEF ClientInv, Connections
<1>a. PICK a \in Adapters : a = sockets[s].adapter
  BY <1>0 DEF Created, Breaks, Ends, ClientTypes
<1>1. UNCHANGED <<transport, crossed, opening, pending, req>>
  BY DEF Created, Breaks, Ends, adapterVars
<1>2. \E state \in {"connecting", "lost", "ended"} : Moves(s, a, state)
  <2>1. CASE Created(s)
    <3>1. /\ sockets[s].state = "creating"
          /\ sockets' = [sockets EXCEPT ![s].state = "connecting"]
          /\ socket' = [socket EXCEPT ![a] = s]
      BY <1>a, <2>1 DEF Created, Becomes
    <3>2. s \notin crossed => opening[a] = s
      BY <1>0, <1>a, <3>1 DEF Connected, Held
    <3>3. Moves(s, a, "connecting")
      BY <1>0, <1>1, <1>a, <3>1, <3>2 DEF Moves, inUse, Live, ClientTypes
    <3> QED BY <3>3
  <2>2. CASE Breaks(s) \/ Ends(s)
    <3>1. /\ sockets[s].state \in {"open", "lost"} /\ UNCHANGED socket
          /\ \E state \in {"lost", "ended"} : sockets' = [sockets EXCEPT ![s].state = state]
      BY <2>2 DEF Breaks, Ends, Becomes, adapterVars
    <3>2. s \notin crossed => socket[a] = s
      BY <1>0, <1>a, <3>1 DEF Connected, Held
    <3> QED BY <1>1, <1>a, <3>1, <3>2 DEF Moves, inUse, Live
  <2> QED BY <2>1, <2>2
<1>3. {"connecting", "lost", "ended"} \subseteq SocketStates \ {"unused", "creating"}
  BY DEF SocketStates
<1>4. Connections'
  BY <1>1, <1>2, <1>3, MovesAndSettles
<1> QED BY <1>1, <1>4 DEF FailureExplained

LEMMA ReconnectConnections ==
  ASSUME ClientInv, Connections, NEW s \in Sockets, reconnect(s)
  PROVE  Connections' /\ \A q \in Requests : FailureExplained(q)
<1>0. ClientTypes /\ SocketsSound /\ Connected /\ EntriesOnSockets
  BY DEF ClientInv, Connections
<1>a. PICK a \in Adapters : a = adapter
  BY <1>0 DEF reconnect, ClientTypes
<1>1. /\ sockets[s].state = "unused" /\ UNCHANGED <<transport, pending, req>>
      /\ socket' = [socket EXCEPT ![a] = None] /\ opening' = [opening EXCEPT ![a] = s]
      /\ crossed' = crossed \cup ifCrossing(a, s)
                      \cup {t \in notClosed(a) : sockets[t].state = "creating"}
      /\ sockets'[s] = [adapter |-> a, state |-> "creating"]
  BY <1>a DEF reconnect, isNext, unused
<1>2. \A t \in Sockets \ {s} :
         sockets'[t] = IF t = socket[a] THEN [sockets[t] EXCEPT !.state = closeOf(@)]
                       ELSE sockets[t]
  BY <1>a DEF reconnect
<1>3. ASSUME NEW t \in Sockets \ {s}
      PROVE  /\ sockets'[t].adapter = sockets[t].adapter
             /\ inUse(t)' <=> inUse(t)
             /\ sockets[t].adapter # a => sockets'[t] = sockets[t]
             /\ t = socket[a] => sockets'[t].state \notin {"connecting", "open", "lost"}
             /\ sockets'[t].state \in Live => sockets'[t].state = sockets[t].state
  <2>1. CASE t = socket[a]
    <3>1. sockets[t].adapter = a /\ sockets[t] \in [adapter : Adapters \cup {None}, state : SocketStates]
      BY <1>0, <2>1, SocketsAssumption DEF SocketsSound, ClientTypes
    <3>2. sockets'[t] = [sockets[t] EXCEPT !.state = closeOf(sockets[t].state)]
      BY <1>2, <2>1
    <3> QED BY <3>1, <3>2 DEF closeOf, inUse, SocketStates, Live
  <2>2. CASE t # socket[a]
    BY <1>2, <2>2 DEF inUse
  <2> QED BY <2>1, <2>2
<1>4. ASSUME NEW t \in Sockets \ {s}, sockets[t].adapter = a, t \notin crossed'
      PROVE  sockets'[t].state \notin Live
  <2>1. SUFFICES ASSUME sockets'[t].state \in Live PROVE FALSE
    OBVIOUS
  <2>2. sockets[t].state \in Live /\ sockets'[t].state = sockets[t].state
    BY <1>3, <2>1
  <2>3. CASE sockets[t].state = "creating"
    BY <1>1, <1>4, <2>3 DEF notClosed
  <2>4. CASE sockets[t].state \in {"connecting", "open", "lost"}
    <3>1. socket[a] = t
      BY <1>0, <1>1, <1>4, <2>4 DEF Connected, Held
    <3> QED BY <1>3, <2>2, <2>4, <3>1
  <2> QED BY <2>2, <2>3, <2>4 DEF Live
<1>5. Begins(s, a)
  <2>1. crossed \subseteq crossed' /\ (s \in crossed' \/ notClosed(a) = {})
    BY <1>1 DEF ifCrossing
  <2>2. socket'[a] \in {None, socket[a]} /\ \A b \in Adapters \ {a} : socket'[b] = socket[b]
    BY <1>0, <1>1 DEF ClientTypes
  <2> QED BY <1>1, <1>3, <1>4, <2>1, <2>2 DEF Begins
<1>6. Connected'
  BY <1>0, <1>5, SocketBegins
<1>7. EntriesOnSockets'
  <2>1. \A t \in Sockets : inUse(t) => inUse(t)' /\ sockets'[t].adapter = sockets[t].adapter
    BY <1>1, <1>3 DEF inUse
  <2> QED BY <1>0, <1>1, <2>1, EntriesStay
<1> QED BY <1>1, <1>6, <1>7 DEF Connections, FailureExplained

LEMMA ConnectionsNext ==
  ASSUME ClientInv, Connections, [Next]_vars
  PROVE  Connections' /\ \A q \in Requests : FailureExplained(q)
<1> DEFINE Goal == Connections' /\ \A q \in Requests : FailureExplained(q)
<1> USE DEF serverVars, adapterVars
<1>1. ASSUME NEW r \in Requests, Call(r) PROVE Goal
  <2>1. CASE adapter # None
    <3>1. adapter \in Adapters /\ Start(r, adapter) /\ req[r].pc = "new" /\ UNCHANGED transport
      BY <1>1, <2>1 DEF Call, ClientInv, ClientTypes
    <3> QED BY <3>1, StartConnections
  <2>2. CASE adapter = None
    <3>1. /\ req' = At({r}, "discovering", None, None) /\ req[r].pc = "new"
          /\ UNCHANGED <<transport, socket, opening, sockets, pending, crossed>>
      BY <1>1, <2>2 DEF Call
    <3>2. "discovering" \in Pcs /\ None \in Adapters \cup {None} /\ None \in Sockets \cup {None}
      BY DEF Pcs
    <3>3. /\ \A q \in Requests : req'[q].outcome = req[q].outcome
          /\ \A q \in Requests \ {r} : req'[q] = req[q]
      BY <3>1, <3>2, AtOne DEF ClientInv
    <3>4. EntriesOnSockets'
      <4> SUFFICES ASSUME NEW e \in pending, req'[e.req].pc # "settled"
                   PROVE  \E s \in Sockets : OnSocket(e, e.req, s)'
        BY <3>1 DEF EntriesOnSockets
      <4>1. e.req \in Requests
        BY DEF ClientInv, ClientTypes
      <4>2. req[e.req].pc # "settled"
        BY <3>1, <3>3, <4>1
      <4>3. PICK s \in Sockets : OnSocket(e, e.req, s)
        BY <4>2 DEF Connections, EntriesOnSockets
      <4>4. OnSocket(e, e.req, s)'
        BY <3>1, <3>3, <4>1, <4>3 DEF OnSocket, inUse
      <4> QED BY <4>4
    <3>5. Connected'
      BY <3>1 DEF Connections, Connected, OneOrCrossed, Alone, Held, NoneClosed, inUse
    <3> QED BY <3>1, <3>3, <3>4, <3>5 DEF Connections, FailureExplained
  <2> QED BY <2>1, <2>2
<1>2. ASSUME NEW r \in Requests, NEW a \in Adapters, Discovered(r, a) PROVE Goal
  BY <1>2, StartConnections DEF Discovered
<1>3. ASSUME NEW r \in Requests, DiscoveryFails(r) \/ HttpFails(r) PROVE Goal
  <2>1. Aside
    BY <1>3 DEF DiscoveryFails, HttpFails, Aside
  <2>2. \E why \in {"discovery", "connection", "raw"} :
           Settling({r}, why) /\ (why = "raw" => transport = "rest")
    BY <1>3 DEF DiscoveryFails, HttpFails, Settling, Connections, TransportKinds
  <2>3. {r} \in SUBSET Requests
    OBVIOUS
  <2> QED BY <2>1, <2>2, <2>3, AsideSteps
<1>4. ASSUME NEW m \in answers, handleMessage(m) \/ HttpAnswered(m) PROVE Goal
  <2>1. Aside /\ \E R : req' = Answered(R, m)
    BY <1>4 DEF handleMessage, HttpAnswered, Aside
  <2> QED BY <2>1, AsideSteps
<1>5. ASSUME NEW e \in pending, TimesOut(e) PROVE Goal
  <2>1. Aside /\ Settling({e.req}, "timeout") /\ {e.req} \in SUBSET Requests
    BY <1>5 DEF TimesOut, Aside, Settling, ClientInv, ClientTypes
  <2> QED BY <2>1, AsideSteps
<1>6. ASSUME \/ LeaderDies \/ Takeover \/ UNCHANGED vars
             \/ \E m \in wire : Serve(m)
             \/ \E a \in Adapters : reconnectHttp(a)
      PROVE  Goal
  <2>1. Aside /\ req' = req
    BY <1>6 DEF LeaderDies, Takeover, vars, Serve, reconnectHttp, Aside
  <2> QED BY <2>1, AsideSteps
<1>7. ASSUME NEW s \in Sockets, \/ Created(s) \/ Opened(s) \/ OpenFails(s) \/ Breaks(s)
                                \/ Ends(s) \/ Closed(s) \/ reconnect(s)
      PROVE  Goal
  BY <1>7, OpenedConnections, OpenFailsConnections, ClosedConnections, MovingConnections,
     ReconnectConnections
<1> HIDE DEF Goal
<1>8. Goal
  BY <1>1, <1>2, <1>3, <1>4, <1>5, <1>6, <1>7 DEF Next
<1> QED BY <1>8 DEF Goal

LEMMA AlwaysConnected == Spec => [](ClientInv /\ Connections)
<1>1. Init => Connections
  BY TransportsAssumption DEF Init, Connections, Connected, OneOrCrossed, Alone, Held, NoneClosed,
     EntriesOnSockets, Live, inUse
<1>2. (ClientInv /\ Connections) /\ [Next]_vars => (ClientInv /\ Connections)'
  BY ClientNext, ConnectionsNext
<1> QED BY <1>1, <1>2, ClientInit, PTL DEF Spec

(* Calls that find no open socket share one opening (ws.ts, ensureSocket): *)
(* a socket whose adapter had no other in use when its opening began stays *)
(* the adapter's while it connects and is open.  The theorem says nothing  *)
(* of a socket that crossed an older one, as after a reconnect() or while  *)
(* a connection is ending: that one the client does forget.                *)
THEOREM OpenSocketsAreOwned == Spec => []SocketsOwned
<1>1. Connections => SocketsOwned
  BY DEF Connections, Connected, Held, SocketsOwned
<1> QED BY <1>1, AlwaysConnected, PTL

(* Every failure of a call has its reason (ws.ts, the close event, send    *)
(* and ensureSocket; rest.ts, request): a call is rejected as closed when  *)
(* its own socket closes, or one of its adapter that crossed with it; only *)
(* what fetch throws is untagged, or the send of a call whose socket       *)
(* crossed an older one.                                                   *)
THEOREM FailuresAreExplained == Spec => FailuresExplained
<1>1. ClientInv /\ Connections /\ [Next]_vars => [\A r \in Requests : FailureExplained(r)]_vars
  BY ConnectionsNext
<1> QED BY <1>1, AlwaysConnected, PTL DEF Spec, FailuresExplained

-----------------------------------------------------------------------------
(* The transports.                                                         *)

LEMMA FieldOfJson ==
  ASSUME NEW r, NEW f, f \in DOMAIN r
  PROVE  field(JsonObject(r), f) = r[f]
  BY DEF field, JsonObject

LEMMA SubmitArrives ==
  ASSUME NEW kind \in TransportKinds, NEW type, NEW payload, NEW maxAttempts,
         type # Null, maxAttempts # Null, payload # Empty
  PROVE  LET c == submitCall(type, payload, maxAttempts)
         IN IF kind = "connect" /\ payload = None THEN asked(kind, c) = Refused
            ELSE asked(kind, c) = meant(c)
<1> DEFINE c == submitCall(type, payload, maxAttempts)
           body == [payload |-> payload, type |-> type, maxAttempts |-> maxAttempts]
           params == [f \in DOMAIN c \ {"op"} |-> c[f]]
<1>1. /\ c.op = "submitJob" /\ c.type = type /\ c.payload = payload /\ c.maxAttempts = maxAttempts
      /\ DOMAIN c = {"op", "type", "payload", "maxAttempts"}
  BY DEF submitCall
<1>2. /\ DOMAIN body = {"payload", "type", "maxAttempts"}
      /\ body["payload"] = payload /\ body["type"] = type /\ body["maxAttempts"] = maxAttempts
  OBVIOUS
<1>3. /\ DOMAIN params = {"payload", "type", "maxAttempts"}
      /\ params["payload"] = payload /\ params["type"] = type /\ params["maxAttempts"] = maxAttempts
  BY <1>1
<1>4. restBody(c) = JsonObject(body) /\ wsParams(c) = JsonObject(params)
  BY <1>1 DEF restBody, wsParams
<1> HIDE DEF c, body, params
<1>5. /\ field(JsonObject(body), "payload") = payload /\ field(JsonObject(body), "type") = type
      /\ field(JsonObject(body), "maxAttempts") = maxAttempts
  BY <1>2, FieldOfJson
<1>6. /\ field(JsonObject(params), "payload") = payload /\ field(JsonObject(params), "type") = type
      /\ field(JsonObject(params), "maxAttempts") = maxAttempts
  BY <1>3, FieldOfJson
<1>7. /\ overRest(c) = submitJobOperation(payload, type, maxAttempts)
      /\ dispatchWs(c) = submitJobOperation(payload, ifGiven(type), ifGiven(maxAttempts))
  BY <1>1, <1>4, <1>5, <1>6 DEF overRest, dispatchWs
<1>8. IF payload = None THEN overConnect(c) = Refused
      ELSE overConnect(c) = submitJobOperation(payload, orIfFalsy(type, None), orElse(maxAttempts, None))
  BY <1>1, ValuesAssumption DEF overConnect, encodePayload, parses
<1>9. \A t, m : orIfFalsy(t, None) = (IF type = Empty THEN None ELSE type) /\ orElse(m, None) = maxAttempts =>
        submitJobOperation(payload, t, m) = meant(c)
  BY <1>1 DEF submitJobOperation, meant
<1>10. /\ orIfFalsy(type, None) = (IF type = Empty THEN None ELSE type)
       /\ orIfFalsy(ifGiven(type), None) = orIfFalsy(type, None)
       /\ orIfFalsy(orIfFalsy(type, None), None) = orIfFalsy(type, None)
       /\ orElse(maxAttempts, None) = maxAttempts
       /\ orElse(ifGiven(maxAttempts), None) = maxAttempts
  BY ValuesAssumption DEF orIfFalsy, orElse, ifGiven
<1>11. /\ submitJobOperation(payload, type, maxAttempts) = meant(c)
       /\ submitJobOperation(payload, ifGiven(type), ifGiven(maxAttempts)) = meant(c)
       /\ submitJobOperation(payload, orIfFalsy(type, None), orElse(maxAttempts, None)) = meant(c)
  BY <1>9, <1>10
<1>12. IF kind = "connect" /\ payload = None THEN asked(kind, c) = Refused
       ELSE asked(kind, c) = meant(c)
  BY <1>7, <1>8, <1>11 DEF asked, TransportKinds
<1> QED BY <1>12 DEF c

LEMMA ClaimArrives ==
  ASSUME NEW kind \in TransportKinds, NEW workerId, NEW types, types # Null, workerId \notin {None, Null}
  PROVE  asked(kind, claimCall(workerId, types)) = meant(claimCall(workerId, types))
<1> DEFINE c == claimCall(workerId, types)
           body == [workerId |-> workerId, types |-> types]
           params == [f \in DOMAIN c \ {"op"} |-> c[f]]
<1>1. c.op = "claimJob" /\ c.workerId = workerId /\ c.types = types /\ DOMAIN c = {"op", "workerId", "types"}
  BY DEF claimCall
<1>2. DOMAIN body = {"workerId", "types"} /\ body["workerId"] = workerId /\ body["types"] = types
  OBVIOUS
<1>3. DOMAIN params = {"workerId", "types"} /\ params["workerId"] = workerId /\ params["types"] = types
  BY <1>1
<1>4. restBody(c) = JsonObject(body) /\ wsParams(c) = JsonObject(params)
  BY <1>1 DEF restBody, wsParams
<1> HIDE DEF c, body, params
<1>5. /\ field(JsonObject(body), "workerId") = workerId /\ field(JsonObject(body), "types") = types
      /\ field(JsonObject(params), "workerId") = workerId /\ field(JsonObject(params), "types") = types
  BY <1>2, <1>3, FieldOfJson
<1>6. asString(workerId) = workerId /\ ifGiven(types) = types
  BY DEF asString, ifGiven, orElse
<1>7. /\ overRest(c) = claimJobOperation(workerId, types) /\ dispatchWs(c) = claimJobOperation(workerId, types)
      /\ overConnect(c) = claimJobOperation(workerId, IF types \in {None, {}} THEN {} ELSE types)
  BY <1>1, <1>4, <1>5, <1>6 DEF overRest, dispatchWs, overConnect
<1>8. /\ claimJobOperation(workerId, types) = meant(c)
      /\ claimJobOperation(workerId, IF types \in {None, {}} THEN {} ELSE types) = meant(c)
  BY <1>1 DEF claimJobOperation, meant
<1> QED BY <1>7, <1>8 DEF asked, TransportKinds, c

LEMMA ReportArrives ==
  ASSUME NEW kind \in TransportKinds, NEW op \in {"heartbeat", "completeJob"}, NEW jobId, NEW workerId,
         jobId \notin {None, Null}, workerId \notin {None, Null}
  PROVE  asked(kind, reportCall(op, jobId, workerId)) = meant(reportCall(op, jobId, workerId))
<1> DEFINE c == reportCall(op, jobId, workerId)
           body == [workerId |-> workerId]
           params == [f \in DOMAIN c \ {"op"} |-> c[f]]
<1>1. c.op = op /\ c.workerId = workerId /\ c.jobId = jobId /\ DOMAIN c = {"op", "jobId", "workerId"}
  BY DEF reportCall
<1>2. DOMAIN body = {"workerId"} /\ body["workerId"] = workerId
  OBVIOUS
<1>3. DOMAIN params = {"jobId", "workerId"} /\ params["workerId"] = workerId /\ params["jobId"] = jobId
  BY <1>1
<1>4. restBody(c) = JsonObject(body) /\ wsParams(c) = JsonObject(params)
  BY <1>1 DEF restBody, wsParams
<1> HIDE DEF c, body, params
<1>5. /\ field(JsonObject(body), "workerId") = workerId
      /\ field(JsonObject(params), "workerId") = workerId /\ field(JsonObject(params), "jobId") = jobId
  BY <1>2, <1>3, FieldOfJson
<1>6. asString(workerId) = workerId /\ asString(jobId) = jobId
  BY DEF asString, orElse
<1>7. \A over \in {overRest(c), dispatchWs(c), overConnect(c)} :
        over = IF op = "heartbeat" THEN heartbeatOperation(jobId, workerId)
               ELSE completeJobOperation(jobId, workerId)
  BY <1>1, <1>4, <1>5, <1>6 DEF overRest, dispatchWs, overConnect
<1>8. meant(c) = IF op = "heartbeat" THEN heartbeatOperation(jobId, workerId)
                 ELSE completeJobOperation(jobId, workerId)
  BY <1>1 DEF heartbeatOperation, completeJobOperation, meant
<1> QED BY <1>7, <1>8 DEF asked, TransportKinds, c

(* A call asks the queue for the same on every transport (rest.ts, ws.ts,  *)
(* connect.ts and the handlers of server.ts and service.ts), whatever its  *)
(* arguments; but Connect refuses a job without a payload.                 *)
THEOREM CallsArrive == Spec => []RequestsArrive
<1>1. transport \in TransportKinds => RequestsArrive
  <2> SUFFICES ASSUME transport \in TransportKinds, NEW c \in ApiCalls
               PROVE  IF transport = "connect" /\ c.op = "submitJob" /\ c.payload = None
                      THEN asked(transport, c) = Refused
                      ELSE asked(transport, c) = meant(c)
    BY DEF RequestsArrive
  <2>1. CASE c.op = "submitJob"
    BY <2>1, CallsAssumption, SubmitArrives
  <2>2. CASE c.op = "claimJob"
    BY <2>2, CallsAssumption, ClaimArrives
  <2>3. CASE c.op \in {"heartbeat", "completeJob"}
    BY <2>3, CallsAssumption, ReportArrives
  <2> QED BY <2>1, <2>2, <2>3, CallsAssumption
<1>2. ClientInv /\ Connections => RequestsArrive
  BY <1>1 DEF Connections
<1> QED BY <1>2, AlwaysConnected, PTL

(* A claim is answered with the job, or with null.                         *)
LEMMA ClaimsAreTold ==
  ASSUME NEW kind \in TransportKinds
  PROVE  /\ claimed(kind, None) = None
         /\ \A job : job # None /\ job.id \notin {None, Null, Empty} =>
              claimed(kind, job) =
                [jobId |-> job.id, type |-> orElse(job.type, Empty), payload |-> orElse(job.payload, Null)]
<1> DEFINE Told(a) == IF kind = "connect" THEN fromConnect(claimResponse(a)) ELSE fromJson(JsonObject(a))
<1>1. ASSUME NEW a, a = [jobId |-> a.jobId, payload |-> a.payload, type |-> a.type]
      PROVE  fromJson(JsonObject(a)) =
                [jobId |-> a.jobId, type |-> orElse(a.type, Empty), payload |-> orElse(a.payload, Null)]
  <2>1. DOMAIN a = {"jobId", "payload", "type"}
    BY <1>1
  <2>2. /\ field(JsonObject(a), "jobId") = a.jobId /\ field(JsonObject(a), "type") = a.type
        /\ field(JsonObject(a), "payload") = a.payload
    BY <2>1, FieldOfJson
  <2> QED BY <2>2 DEF fromJson
<1>2. ASSUME NEW a, a.jobId # None
      PROVE  fromConnect(claimResponse(a)) =
                [jobId |-> a.jobId, type |-> orElse(a.type, Empty), payload |-> orElse(a.payload, Null)]
  <2>1. orElse(a.payload, Null) # None
    BY ValuesAssumption DEF orElse
  <2> QED BY <1>2, <2>1 DEF fromConnect, claimResponse, encodePayload
<1>3. fromJson(JsonObject(NoAnswer)).jobId = None /\ fromConnect(claimResponse(NoAnswer)).jobId = None
  <2>1. fromJson(JsonObject(NoAnswer)).jobId = None
    BY <1>1 DEF NoAnswer
  <2>2. fromConnect(claimResponse(NoAnswer)).jobId = None
    BY DEF NoAnswer, fromConnect, claimResponse
  <2> QED BY <2>1, <2>2
<1>4. claimed(kind, None) = None
  BY <1>3 DEF claimed, claimAnswer, claimJobResult, orIfFalsy
<1>5. ASSUME NEW job, job # None, job.id \notin {None, Null, Empty}
      PROVE  claimed(kind, job) =
                [jobId |-> job.id, type |-> orElse(job.type, Empty), payload |-> orElse(job.payload, Null)]
  <2> DEFINE a == claimAnswer(job)
  <2>1. /\ a = [jobId |-> a.jobId, payload |-> a.payload, type |-> a.type]
        /\ a.jobId = job.id /\ a.payload = job.payload /\ a.type = job.type
    BY <1>5 DEF claimAnswer
  <2> HIDE DEF a
  <2>2. Told(a) = [jobId |-> job.id, type |-> orElse(job.type, Empty), payload |-> orElse(job.payload, Null)]
    BY <1>1, <1>2, <1>5, <2>1
  <2>3. claimed(kind, job) = claimJobResult(Told(a))
    BY DEF claimed, a
  <2> HIDE DEF Told
  <2> QED BY <1>5, <2>2, <2>3 DEF claimJobResult, orIfFalsy
<1> QED BY <1>4, <1>5

LEMMA JobsAreTold ==
  ASSUME NEW kind \in TransportKinds, NEW job, job.id # None, job.status # None, job.attempts # None
  PROVE  jobInfo(kind, job) =
            [id |-> job.id, status |-> job.status, attempts |-> job.attempts,
             workerId |-> orElse(job.workerId, Empty), type |-> orElse(job.type, Empty),
             payload |-> encodePayload(job.payload),
             maxAttempts |-> orElse(job.maxAttempts, 0), heartbeat |-> orElse(job.heartbeat, 0)]
<1> DEFINE s == snapshotOf(job)
           m == JsonObject(s)
<1>1. /\ s.id = job.id /\ s.status = job.status /\ s.payload = job.payload /\ s.type = job.type
      /\ s.workerId = job.workerId /\ s.attempts = job.attempts
      /\ s.maxAttempts = orElse(job.maxAttempts, 0) /\ s.heartbeat = orElse(job.heartbeat, 0)
      /\ DOMAIN s = {"id", "status", "payload", "type", "workerId", "attempts", "maxAttempts", "heartbeat"}
  BY DEF snapshotOf
<1>2. orElse(job.maxAttempts, 0) # None /\ orElse(job.heartbeat, 0) # None
  BY StatesAssumption DEF orElse
<1>3. infoFromService(s) =
            [id |-> job.id, status |-> job.status, attempts |-> job.attempts,
             workerId |-> orElse(job.workerId, Empty), type |-> orElse(job.type, Empty),
             payload |-> encodePayload(job.payload),
             maxAttempts |-> orElse(job.maxAttempts, 0), heartbeat |-> orElse(job.heartbeat, 0)]
  <2>1. infoFromService(s) = [s EXCEPT !.payload = encodePayload(s.payload),
                                       !.type = orElse(s.type, Empty),
                                       !.workerId = orElse(s.workerId, Empty)]
    BY DEF infoFromService, snapshotOf
  <2>2. s = [id |-> job.id, status |-> job.status, payload |-> job.payload, type |-> job.type,
             workerId |-> job.workerId, attempts |-> job.attempts,
             maxAttempts |-> orElse(job.maxAttempts, 0), heartbeat |-> orElse(job.heartbeat, 0)]
    BY DEF snapshotOf
  <2> HIDE DEF s
  <2> QED BY <2>1, <2>2
<1> HIDE DEF s
<1>4. /\ m.id = s.id /\ m.status = s.status /\ m.attempts = s.attempts
      /\ m.maxAttempts = s.maxAttempts /\ m.heartbeat = s.heartbeat
  BY <1>1, <1>2 DEF JsonObject
<1>5. /\ field(m, "payload") = s.payload /\ field(m, "type") = s.type /\ field(m, "workerId") = s.workerId
  BY <1>1, FieldOfJson
<1> HIDE DEF m
<1>6. infoFromJson(m) =
            [id |-> job.id, status |-> job.status, attempts |-> job.attempts,
             workerId |-> orElse(job.workerId, Empty), type |-> orElse(job.type, Empty),
             payload |-> encodePayload(job.payload),
             maxAttempts |-> orElse(job.maxAttempts, 0), heartbeat |-> orElse(job.heartbeat, 0)]
  BY <1>1, <1>4, <1>5 DEF infoFromJson
<1> QED BY <1>3, <1>6 DEF jobInfo, s, m

LEMMA CountsAddUp ==
  ASSUME NEW state, NEW S, state.jobs \in Seq(S),
         \A i \in DOMAIN state.jobs : state.jobs[i].status \in {"unclaimed", "in_progress"}
  PROVE  Len(state.jobs) = countOf(state, "unclaimed") + countOf(state, "in_progress")
<1> DEFINE D == DOMAIN state.jobs
           U == {i \in D : state.jobs[i].status = "unclaimed"}
           P == {i \in D : state.jobs[i].status = "in_progress"}
<1>1. D = 1..Len(state.jobs) /\ Len(state.jobs) \in Nat
  OBVIOUS
<1>2. IsFiniteSet(D) /\ Cardinality(D) = Len(state.jobs)
  BY <1>1, FS_Interval
<1>3. U \subseteq D /\ P \subseteq D /\ U \cup P = D /\ U \cap P = {}
  OBVIOUS
<1>4. IsFiniteSet(U) /\ IsFiniteSet(P)
  BY <1>2, <1>3, FS_Subset
<1>5. Cardinality(D) = Cardinality(U) + Cardinality(P) - Cardinality({})
  BY <1>3, <1>4, FS_Union
<1>6. Cardinality({}) = 0 /\ Cardinality(U) \in Nat /\ Cardinality(P) \in Nat
  BY <1>4, FS_EmptySet, FS_CardinalityType
<1> QED BY <1>2, <1>5, <1>6 DEF countOf

(* What the broker holds is what a client of any transport is told         *)
(* (claimResponse and listJobs of the broker, their decoding at the        *)
(* client): the granted job or null, each job of the list, and counts that *)
(* add up to its length.                                                   *)
THEOREM AnswersAreFaithful == Spec => []AnswersAreTold
<1>1. transport \in TransportKinds => AnswersAreTold
  <2> SUFFICES ASSUME transport \in TransportKinds PROVE AnswersAreTold
    OBVIOUS
  <2>1. ASSUME NEW job \in ApiJobs
        PROVE  claimed(transport, job) =
                 [jobId |-> job.id, type |-> orElse(job.type, Empty), payload |-> orElse(job.payload, Null)]
    BY ClaimsAreTold, JobsAssumption
  <2>2. claimed(transport, None) = None
    BY ClaimsAreTold
  <2>3. ASSUME NEW state \in ApiStates
        PROVE  /\ getQueueStats(state).total = getQueueStats(state).unclaimed + getQueueStats(state).inProgress
               /\ listJobs(transport, state).stats = getQueueStats(state)
    <3>1. Len(state.jobs) = countOf(state, "unclaimed") + countOf(state, "in_progress")
      BY StatesAssumption, CountsAddUp
    <3> QED BY <3>1 DEF getQueueStats, listJobs
  <2>4. ASSUME NEW state \in ApiStates, NEW i \in DOMAIN state.jobs
        PROVE  listJobs(transport, state).jobs[i] = jobInfo(transport, state.jobs[i])
    BY DEF listJobs
  <2>5. ASSUME NEW state \in ApiStates, NEW i \in DOMAIN state.jobs
        PROVE  /\ state.jobs[i].id # None /\ state.jobs[i].status # None /\ state.jobs[i].attempts # None
    BY StatesAssumption
  <2> QED BY <2>1, <2>2, <2>3, <2>4, <2>5, JobsAreTold DEF AnswersAreTold
<1>2. ClientInv /\ Connections => AnswersAreTold
  BY <1>1 DEF Connections
<1> QED BY <1>2, AlwaysConnected, PTL
=============================================================================
