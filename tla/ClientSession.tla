---------------------------- MODULE ClientSession ----------------------------
(***************************************************************************)
(* A client of the brokers (packages/client/src/client.ts) and its         *)
(* transports (transports/ws.ts, rest.ts, connect.ts): the calls an        *)
(* application makes at the same time, the discovery of the broker, the     *)
(* sockets of the websocket transport, their replacement and their events, *)
(* and a failover of the brokers meanwhile.                                *)
(*                                                                         *)
(* A step is what the client's event loop runs from one event to the next. *)
(***************************************************************************)
EXTENDS QueueApi

CONSTANTS Transports,    \* subset of TransportKinds
          Brokers,       \* in the order in which they lead
          Requests,      \* calls of the application, 1..n, made in this order
          Adapters,      \* adapters the client may create: 1..n
          Sockets,       \* websockets it may open: 1..n, in this order
          MaxReconnects,
          MaxFaults      \* bound on failovers and lost connections

ASSUME TransportsAssumption == Transports \subseteq TransportKinds
ASSUME RequestsAssumption == Requests \subseteq Nat /\ IsFiniteSet(Requests)
ASSUME SocketsAssumption == Sockets \subseteq Nat /\ None \notin Sockets
ASSUME FaultsAssumption == MaxFaults \in Nat /\ MaxReconnects \in Nat /\ Brokers \subseteq Nat

VARIABLES
    transport,   \* how the client talks to its broker
    leader,      \* the broker registered in storage
    serving,     \* the broker that is alive
    faults,
    reconnects,
    adapter,     \* this.adapter of the client
    url,         \* the broker each adapter was created for
    socket,      \* the variables `socket`, `openPromise` (by its socket) and
    opening,     \* `requestCounter` of each websocket adapter
    counter,
    sockets,     \* every websocket: its adapter and its state
    pending,     \* the maps `pending`, whose entries have a timer each
    req,         \* the calls
    wire,        \* requests on their way to a broker
    answers,     \* answers on their way back
    crossed      \* history: the sockets whose opening began before the adapter's
                 \* older ones had closed, or that were given up unbegun

serverVars == <<leader, serving, faults, reconnects>>
adapterVars == <<adapter, url, socket, opening, counter>>
vars == <<transport, serverVars, adapterVars, sockets, pending, req, wire, answers, crossed>>

\* How a call ends: with its answer, or with an error: the tagged ones, and
\* ("raw") what fetch and WebSocket.send throw.
Outcomes == {"answered", "discovery", "connection", "not connected", "closed", "timeout", "raw"}
ASSUME OutcomesAssumption == None \notin Outcomes

NewRequest == [pc |-> "new", adapter |-> None, socket |-> None, outcome |-> None, answer |-> None]

Init ==
    /\ transport \in Transports
    /\ leader = 1 /\ serving = 1 /\ faults = 0 /\ reconnects = 0
    /\ adapter = None
    /\ url = [a \in Adapters |-> None]
    /\ socket = [a \in Adapters |-> None]
    /\ opening = [a \in Adapters |-> None]
    /\ counter = [a \in Adapters |-> 0]
    /\ sockets = [s \in Sockets |-> [adapter |-> None, state |-> "unused"]]
    /\ pending = {} /\ wire = {} /\ answers = {}
    /\ req = [r \in Requests |-> NewRequest]
    /\ crossed = {}

-----------------------------------------------------------------------------
(* Settling calls.                                                         *)

Settled(R, why) ==
    [r \in Requests |-> IF r \in R /\ req[r].pc # "settled"
                        THEN [req[r] EXCEPT !.pc = "settled", !.outcome = why] ELSE req[r]]
At(R, pc, a, s) ==
    [r \in Requests |-> IF r \in R THEN [req[r] EXCEPT !.pc = pc, !.adapter = a, !.socket = s]
                        ELSE req[r]]

-----------------------------------------------------------------------------
(* Sending.  With a socket, each call gets an id, a timer and an entry in  *)
(* `pending` before its message is sent; to send on a socket that is not    *)
(* open yet throws, and on one that is closing does nothing.               *)

Place(R, r) == Cardinality({q \in R : q <= r})
Entry(a, R, r) == [adapter |-> a, id |-> counter[a] + Place(R, r), req |-> r]
Message(a, R, r, s) == [adapter |-> a, id |-> counter[a] + Place(R, r), req |-> r, socket |-> s]

SendOn(a, R, s, state) ==
    IF s = None
    THEN /\ req' = Settled(R, "not connected")
         /\ UNCHANGED <<counter, pending, wire>>
    ELSE /\ counter' = [counter EXCEPT ![a] = @ + Cardinality(R)]
         /\ pending' = pending \cup {Entry(a, R, r) : r \in R}
         /\ req' = IF state = "connecting" THEN Settled(R, "raw") ELSE At(R, "waiting", a, s)
         /\ wire' = IF state = "open" THEN wire \cup {Message(a, R, r, s) : r \in R} ELSE wire

unused == {s \in Sockets : sockets[s].state = "unused"}
isNext(s) == s \in unused /\ \A t \in unused : s <= t

notClosed(a) == {t \in Sockets : sockets[t].adapter = a /\ sockets[t].state # "closed"}
ifCrossing(a, s) == IF notClosed(a) = {} THEN {} ELSE {s}

\* The promise is set first; the constructor, which may be imported, is awaited.
Open(a, s) ==
    /\ isNext(s)
    /\ sockets' = [sockets EXCEPT ![s] = [adapter |-> a, state |-> "creating"]]
    /\ opening' = [opening EXCEPT ![a] = s]
    /\ crossed' = crossed \cup ifCrossing(a, s)

\* A connection that broke looks open until that is noticed; one that is
\* ending does not, although its close event is still to come.
isOpen(a) == socket[a] # None /\ sockets[socket[a]].state \in {"open", "lost"}

\* Mutant: every call that finds no open socket opens one.
OpenForEach(r, a) ==
    \/ /\ isOpen(a)
       /\ SendOn(a, {r}, socket[a], sockets[socket[a]].state)
       /\ UNCHANGED <<socket, opening, sockets, crossed>>
    \/ \E s \in Sockets :
         /\ ~isOpen(a)
         /\ Open(a, s)
         /\ req' = At({r}, "opening", a, s)
         /\ UNCHANGED <<socket, counter, pending, wire>>

\* ensureSocket(): go on with an open socket, wait for one that is being
\* opened, or open one.
RequestOnSocket(r, a) ==
    \/ /\ isOpen(a)
       /\ SendOn(a, {r}, socket[a], sockets[socket[a]].state)
       /\ UNCHANGED <<socket, opening, sockets, crossed>>
    \/ /\ ~isOpen(a) /\ opening[a] # None
       /\ req' = At({r}, "opening", a, opening[a])
       /\ UNCHANGED <<socket, opening, counter, sockets, pending, wire, crossed>>
    \/ \E s \in Sockets :
         /\ ~isOpen(a) /\ opening[a] = None
         /\ Open(a, s)
         /\ req' = At({r}, "opening", a, s)
         /\ UNCHANGED <<socket, counter, pending, wire>>

\* A call of REST or Connect is a request of its own.
RequestOverHttp(r, a) ==
    /\ req' = At({r}, "waiting", a, None)
    /\ wire' = wire \cup {[adapter |-> a, id |-> 0, req |-> r, socket |-> None]}
    /\ UNCHANGED <<socket, opening, counter, sockets, pending, crossed>>

Start(r, a) == IF transport = "ws" THEN RequestOnSocket(r, a) ELSE RequestOverHttp(r, a)

-----------------------------------------------------------------------------
(* The client: the first call reads the broker's address from storage.     *)

Call(r) ==
    /\ req[r].pc = "new"
    /\ \A q \in Requests : q < r => req[q].pc # "new"
    /\ IF adapter = None
       THEN /\ req' = At({r}, "discovering", None, None)
            /\ UNCHANGED <<socket, opening, counter, sockets, pending, wire, crossed>>
       ELSE Start(r, adapter)
    /\ UNCHANGED <<transport, serverVars, adapter, url, answers>>

isFresh(a) == url[a] = None /\ \A b \in Adapters : b < a => url[b] # None

\* Each call that was discovering makes an adapter; the last one is kept.
Discovered(r, a) ==
    /\ req[r].pc = "discovering"
    /\ isFresh(a)
    /\ adapter' = a
    /\ url' = [url EXCEPT ![a] = leader]
    /\ Start(r, a)
    /\ UNCHANGED <<transport, serverVars, answers>>

DiscoveryFails(r) ==
    /\ req[r].pc = "discovering" /\ faults < MaxFaults
    /\ faults' = faults + 1
    /\ req' = Settled({r}, "discovery")
    /\ UNCHANGED <<transport, leader, serving, reconnects, adapterVars, sockets, pending, wire, answers, crossed>>

-----------------------------------------------------------------------------
(* Events of the sockets.                                                  *)

alive(a) == url[a] # None /\ url[a] = serving
awaiting(s) == {r \in Requests : req[r].pc = "opening" /\ req[r].socket = s}
Becomes(s, state) == sockets' = [sockets EXCEPT ![s].state = state]

\* The constructor is there: the socket takes the place of the one before.
Created(s) ==
    LET a == sockets[s].adapter
    IN /\ sockets[s].state = "creating"
       /\ \A t \in notClosed(a) : sockets[t].state = "creating" => s <= t
       /\ Becomes(s, "connecting")
       /\ socket' = [socket EXCEPT ![a] = s]
       /\ UNCHANGED <<transport, serverVars, adapter, url, opening, counter, pending, req, wire,
                      answers, crossed>>

\* Open: whoever waited goes on, with the socket the adapter has by now.
Opened(s) ==
    LET a == sockets[s].adapter
        now == socket[a]
    IN /\ sockets[s].state = "connecting" /\ alive(a)
       /\ Becomes(s, "open")
       /\ opening' = [opening EXCEPT ![a] = None]
       /\ SendOn(a, awaiting(s), now,
                 IF now = s THEN "open" ELSE IF now = None THEN None ELSE sockets[now].state)
       /\ UNCHANGED <<transport, serverVars, adapter, url, socket, answers, crossed>>

\* What goes wrong on the way to a broker that is alive is a fault.
mayFail(a) ==
    /\ alive(a) => faults < MaxFaults
    /\ faults' = IF alive(a) THEN faults + 1 ELSE faults
failsToOpen(s) ==
    \/ sockets[s].state = "connecting" /\ mayFail(sockets[s].adapter)
    \/ sockets[s].state = "aborting" /\ UNCHANGED faults

\* Mutant: nobody listens for the error of an opening socket.
ErrorUnheard(s) ==
    /\ failsToOpen(s)
    /\ Becomes(s, "failed")
    /\ UNCHANGED <<transport, leader, serving, reconnects, adapterVars, pending, req, wire,
                   answers, crossed>>

\* Error: the broker was not reached, or the socket was closed before it was
\* open.
OpenFails(s) ==
    /\ failsToOpen(s)
    /\ Becomes(s, "failed")
    /\ opening' = [opening EXCEPT ![sockets[s].adapter] = None]
    /\ req' = Settled(awaiting(s), "connection")
    /\ UNCHANGED <<transport, leader, serving, reconnects, adapter, url, socket, counter,
                   pending, wire, answers, crossed>>

\* Mutant: the entries are dropped without a word.
CloseForgets(s) ==
    LET a == sockets[s].adapter
    IN /\ sockets[s].state \in {"closing", "failed", "ended"}
       /\ Becomes(s, "closed")
       /\ pending' = {e \in pending : e.adapter # a}
       /\ socket' = [socket EXCEPT ![a] = None]
       /\ opening' = [opening EXCEPT ![a] = None]
       /\ answers' = {m \in answers : m.socket # s}
       /\ UNCHANGED <<transport, serverVars, adapter, url, counter, wire, req, crossed>>

\* Mutant: the adapters share one map of pending calls.
CloseRejectsAll(s) ==
    LET a == sockets[s].adapter
    IN /\ sockets[s].state \in {"closing", "failed", "ended"}
       /\ Becomes(s, "closed")
       /\ req' = Settled({e.req : e \in pending}, "closed")
       /\ pending' = {}
       /\ socket' = [socket EXCEPT ![a] = None]
       /\ opening' = [opening EXCEPT ![a] = None]
       /\ answers' = {m \in answers : m.socket # s}
       /\ UNCHANGED <<transport, serverVars, adapter, url, counter, wire, crossed>>

\* Close: every pending call of the adapter is rejected, and the adapter
\* forgets its socket, whichever socket it was that closed.
Closed(s) ==
    LET a == sockets[s].adapter
    IN /\ sockets[s].state \in {"closing", "failed", "ended"}
       /\ Becomes(s, "closed")
       /\ req' = Settled({e.req : e \in {f \in pending : f.adapter = a}}, "closed")
       /\ pending' = {e \in pending : e.adapter # a}
       /\ socket' = [socket EXCEPT ![a] = None]
       /\ opening' = [opening EXCEPT ![a] = None]
       /\ answers' = {m \in answers : m.socket # s}
       /\ UNCHANGED <<transport, serverVars, adapter, url, counter, wire, crossed>>

\* The connection breaks, or the broker that held it died; nobody notices.
Breaks(s) ==
    /\ sockets[s].state = "open" /\ mayFail(sockets[s].adapter)
    /\ Becomes(s, "lost")
    /\ UNCHANGED <<transport, leader, serving, reconnects, adapterVars, pending, req, wire, answers, crossed>>

\* The other side closes the connection, as a broker does that stops, or that
\* it is broken is noticed: the close event is to come.
Ends(s) ==
    /\ \/ sockets[s].state = "open" /\ mayFail(sockets[s].adapter)
       \/ sockets[s].state = "lost" /\ UNCHANGED faults
    /\ Becomes(s, "ended")
    /\ UNCHANGED <<transport, leader, serving, reconnects, adapterVars, pending, req, wire, answers, crossed>>

-----------------------------------------------------------------------------
(* Answers and time-outs.                                                  *)

\* Mutant: messages are numbered anew with each socket.
CounterRestarts(a) == [counter EXCEPT ![a] = 0]
counterKept(a) == counter

\* close() of a socket, by its state.
closeOf(state) ==
    CASE state = "connecting" -> "aborting"
      [] state = "open"       -> "closing"
      [] state = "lost"       -> "ended"
      [] OTHER                -> state

\* client.reconnect() with the websocket transport: the socket is closed and
\* another one opened, without waiting for the close event; an opening that
\* has no socket yet is forgotten and goes on.
reconnect(s) ==
    /\ transport = "ws" /\ adapter # None
    /\ reconnects < MaxReconnects /\ isNext(s)
    /\ reconnects' = reconnects + 1
    /\ sockets' = [t \in Sockets |->
          IF t = s THEN [adapter |-> adapter, state |-> "creating"]
          ELSE IF t = socket[adapter] THEN [sockets[t] EXCEPT !.state = closeOf(@)]
               ELSE sockets[t]]
    /\ socket' = [socket EXCEPT ![adapter] = None]
    /\ opening' = [opening EXCEPT ![adapter] = s]
    /\ counter' = counterKept(adapter)
    /\ crossed' = crossed \cup ifCrossing(adapter, s)
                    \cup {t \in notClosed(adapter) : sockets[t].state = "creating"}
    /\ UNCHANGED <<transport, leader, serving, faults, adapter, url, pending, req, wire, answers>>

\* Without sockets: REST makes a new adapter for the same broker, whoever
\* leads by now; Connect only forgets its HTTP client.
reconnectHttp(a) ==
    /\ transport # "ws" /\ adapter # None
    /\ reconnects < MaxReconnects /\ isFresh(a)
    /\ reconnects' = reconnects + 1
    /\ IF transport = "rest"
       THEN adapter' = a /\ url' = [url EXCEPT ![a] = url[adapter]]
       ELSE UNCHANGED <<adapter, url>>
    /\ UNCHANGED <<transport, leader, serving, faults, socket, opening, counter, sockets,
                   pending, req, wire, answers, crossed>>

\* The broker dispatches a request and answers it when it is committed.
Serve(m) ==
    /\ m \in wire /\ alive(m.adapter)
    /\ wire' = wire \ {m}
    /\ answers' = answers \cup {m}
    /\ UNCHANGED <<transport, serverVars, adapterVars, sockets, pending, req, crossed>>

entriesFor(m) == {e \in pending : e.adapter = m.adapter /\ e.id = m.id}

Answered(R, m) ==
    [r \in Requests |-> IF r \in R /\ req[r].pc # "settled"
                        THEN [req[r] EXCEPT !.pc = "settled", !.outcome = "answered", !.answer = m.req]
                        ELSE req[r]]

\* Mutant: messages are matched in the order of the calls.
OldestFirst(m) ==
    /\ m \in answers /\ m.socket # None /\ sockets[m.socket].state \in {"open", "closing"}
    /\ \E e \in pending :
         /\ e.adapter = m.adapter /\ \A f \in pending : f.adapter = m.adapter => e.id <= f.id
         /\ pending' = pending \ {e}
         /\ req' = Answered({e.req}, m)
    /\ answers' = answers \ {m}
    /\ UNCHANGED <<transport, serverVars, adapterVars, sockets, wire, crossed>>

\* handleMessage(): an answer without an entry is dropped.
handleMessage(m) ==
    /\ m \in answers /\ m.socket # None /\ sockets[m.socket].state \in {"open", "closing"}
    /\ pending' = pending \ entriesFor(m)
    /\ req' = Answered({e.req : e \in entriesFor(m)}, m)
    /\ answers' = answers \ {m}
    /\ UNCHANGED <<transport, serverVars, adapterVars, sockets, wire, crossed>>

TimesOut(e) ==
    /\ e \in pending
    /\ pending' = pending \ {e}
    /\ req' = Settled({e.req}, "timeout")
    /\ UNCHANGED <<transport, serverVars, adapterVars, sockets, wire, answers, crossed>>

HttpAnswered(m) ==
    /\ m \in answers /\ m.socket = None
    /\ req' = Answered({m.req}, m)
    /\ answers' = answers \ {m}
    /\ UNCHANGED <<transport, serverVars, adapterVars, sockets, pending, wire, crossed>>

\* An HTTP request fails: Connect wraps what was thrown, REST does not.
HttpFails(r) ==
    /\ req[r].pc = "waiting" /\ transport # "ws"
    /\ alive(req[r].adapter) => faults < MaxFaults
    /\ faults' = IF alive(req[r].adapter) THEN faults + 1 ELSE faults
    /\ req' = Settled({r}, IF transport = "connect" THEN "connection" ELSE "raw")
    /\ answers' = {m \in answers : m.req # r}
    /\ UNCHANGED <<transport, leader, serving, reconnects, adapterVars, sockets, pending, wire, crossed>>

\* The leader dies; later another broker is elected.
LeaderDies ==
    /\ faults < MaxFaults /\ serving # None
    /\ serving' = None
    /\ faults' = faults + 1
    /\ UNCHANGED <<transport, leader, reconnects, adapterVars, sockets, pending, req, wire,
                   answers, crossed>>

Takeover ==
    /\ serving = None /\ leader + 1 \in Brokers
    /\ leader' = leader + 1
    /\ serving' = leader + 1
    /\ UNCHANGED <<transport, faults, reconnects, adapterVars, sockets, pending, req, wire,
                   answers, crossed>>

Next ==
    \/ LeaderDies \/ Takeover
    \/ \E r \in Requests : \/ Call(r) \/ DiscoveryFails(r) \/ HttpFails(r)
                           \/ \E a \in Adapters : Discovered(r, a)
    \/ \E a \in Adapters : reconnectHttp(a)
    \/ \E s \in Sockets : \/ Created(s) \/ Opened(s) \/ OpenFails(s) \/ Breaks(s)
                          \/ Ends(s) \/ Closed(s) \/ reconnect(s)
    \/ \E m \in wire : Serve(m)
    \/ \E m \in answers : handleMessage(m) \/ HttpAnswered(m)
    \/ \E e \in pending : TimesOut(e)

\* Storage answers, sockets open or fail and close, timers fire, and HTTP
\* requests are answered or broken off.
Fairness ==
    /\ \A r \in Requests : /\ WF_vars(\E a \in Adapters : Discovered(r, a))
                           /\ WF_vars(HttpFails(r) \/ \E m \in answers : m.req = r /\ HttpAnswered(m))
                           /\ WF_vars(\E e \in pending : e.req = r /\ TimesOut(e))
    /\ \A s \in Sockets : /\ WF_vars(Created(s)) /\ WF_vars(Closed(s))
                          /\ WF_vars(Opened(s) \/ OpenFails(s))
    /\ WF_vars(\E m \in wire : m.socket = None /\ Serve(m))

Spec == Init /\ [][Next]_vars
FairSpec == Spec /\ Fairness
=============================================================================
