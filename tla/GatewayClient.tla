---------------------------- MODULE GatewayClient ----------------------------
(***************************************************************************)
(* The client of the OpenClaw gateway (services/gateway/                    *)
(* gateway-ws-client.ts): a WebSocket with a handshake, RPC requests that   *)
(* are matched to their responses, a watchdog on silence and reconnection   *)
(* with a backoff.                                                          *)
(*                                                                         *)
(* The client has one record of everything and every socket it ever opened *)
(* shares it: their handlers do not ask which socket an event comes from.  *)
(* Network and gateway are external; each step below is one event of the    *)
(* JavaScript event loop.                                                   *)
(***************************************************************************)
EXTENDS Naturals, FiniteSets

CONSTANTS
  Sockets,     \* WebSockets the client may open
  Rpcs,        \* RPC requests of the rest of the backend
  NoSocket,
  MaxDrops,    \* bound on connections that fail, drop or fall silent
  MaxRefusals  \* bound on handshakes the gateway refuses

\* The bounds are numbers, and no socket is the null of the code.
GatewayParameters ==
  /\ NoSocket \notin Sockets
  /\ MaxDrops \in Nat /\ MaxRefusals \in Nat
ASSUME GatewayAssumption == GatewayParameters

VARIABLES
  sockets,     \* readyState of each socket, "unused" before it is made
  challenges,  \* sockets whose connect.challenge is on its way
  asked,       \* connect requests the gateway has not answered
  accepted,    \* sockets the gateway has accepted
  ws,          \* the client's current socket
  connected, closed,
  connectId,   \* connectRequestId, 0 when it is null
  ids,         \* connect requests sent so far
  reconnectTimer, tickTimer,
  requests,    \* each request: where it stands, and the socket it went out on
  drops, refusals

network == <<sockets, challenges, asked, accepted>>
client == <<ws, connected, closed, connectId, ids, reconnectTimer, tickTimer, requests>>
gatewayVars == <<network, client, drops, refusals>>
untouched == <<ws, connected, closed, connectId, ids, reconnectTimer, drops, refusals>>

SocketState == {"unused", "opening", "open", "closing", "closed"}
Rpc ==
  [state : {"none"}, on : {NoSocket}]
    \cup [state : {"pending", "resolved", "rejected"}, on : Sockets]
Live(s) == sockets[s] \in {"opening", "open", "closing"}
Hears(s) == sockets[s] \in {"open", "closing"}
WsOpen == ws # NoSocket /\ sockets[ws] = "open"
Pending(r) == requests[r].state = "pending"

GatewayInit ==
  /\ sockets = [s \in Sockets |-> "unused"]
  /\ challenges = {} /\ asked = {} /\ accepted = {}
  /\ ws = NoSocket
  /\ connected = FALSE /\ closed = FALSE
  /\ connectId = 0 /\ ids = 0
  /\ reconnectTimer = FALSE /\ tickTimer = FALSE
  /\ requests = [r \in Rpcs |-> [state |-> "none", on |-> NoSocket]]
  /\ drops = 0 /\ refusals = 0

-----------------------------------------------------------------------------
(* Connecting                                                                *)

connect(s) ==
  /\ ~closed
  /\ sockets[s] = "unused"
  /\ sockets' = [sockets EXCEPT ![s] = "opening"]
  /\ ws' = s
  /\ UNCHANGED <<challenges, asked, accepted, connected, closed, connectId, ids,
                 tickTimer, requests, drops, refusals>>

start(s) ==
  /\ \A t \in Sockets : sockets[t] = "unused"
  /\ connect(s)
  /\ UNCHANGED reconnectTimer

\* The timer of scheduleReconnect.
Reconnect(s) ==
  /\ reconnectTimer
  /\ reconnectTimer' = FALSE
  /\ connect(s)

\* The gateway greets a new connection with a challenge.
Opened(s) ==
  /\ sockets[s] = "opening"
  /\ sockets' = [sockets EXCEPT ![s] = "open"]
  /\ challenges' = challenges \cup {s}
  /\ UNCHANGED <<asked, accepted, client, drops, refusals>>

-----------------------------------------------------------------------------
(* handleMessage                                                             *)

\* Every message restarts the watchdog, if the client is connected.
resetTickTimer(isConnected) == tickTimer' = (isConnected /\ ~closed)

\* sendConnectRequest answers on the current socket, wherever it was asked.
Challenge(s) ==
  /\ s \in challenges /\ Hears(s)
  /\ challenges' = challenges \ {s}
  /\ resetTickTimer(connected)
  /\ IF WsOpen
     THEN /\ ids' = ids + 1
          /\ connectId' = ids + 1
          /\ asked' = asked \cup {[on |-> ws, id |-> ids + 1]}
     ELSE UNCHANGED <<ids, connectId, asked>>
  /\ UNCHANGED <<sockets, accepted, ws, connected, closed, reconnectTimer, requests,
                 drops, refusals>>

scheduleReconnect == reconnectTimer' = (reconnectTimer \/ ~closed)

Answered(a) ==
  /\ Hears(a.on)
  /\ asked' = asked \ {a}
  /\ connectId' = IF a.id = connectId THEN 0 ELSE connectId

Hello(a) ==
  /\ a \in asked
  /\ Answered(a)
  /\ accepted' = accepted \cup {a.on}
  /\ connected' = (connected \/ a.id = connectId)
  /\ resetTickTimer(connected')
  /\ UNCHANGED <<sockets, challenges, ws, closed, ids, reconnectTimer, requests,
                 drops, refusals>>

\* The socket stays open and the client reconnects all the same.
Refused(a) ==
  /\ a \in asked
  /\ Answered(a)
  /\ refusals < MaxRefusals
  /\ refusals' = refusals + 1
  /\ resetTickTimer(connected)
  /\ IF a.id = connectId THEN scheduleReconnect ELSE UNCHANGED reconnectTimer
  /\ UNCHANGED <<sockets, challenges, accepted, ws, connected, closed, ids, requests, drops>>

\* A tick or any other event.
Traffic(s) ==
  /\ s \in accepted /\ Hears(s)
  /\ resetTickTimer(connected)
  /\ UNCHANGED <<network, untouched, requests>>

-----------------------------------------------------------------------------
(* RPC requests                                                              *)

request(r) ==
  /\ requests[r].state = "none"
  /\ connected /\ WsOpen
  /\ requests' = [requests EXCEPT ![r] = [state |-> "pending", on |-> ws]]
  /\ UNCHANGED <<network, untouched, tickTimer>>

Settle(r, states) ==
  /\ Pending(r)
  /\ \E state \in states : requests' = [requests EXCEPT ![r].state = state]

Response(r) ==
  /\ Settle(r, {"resolved", "rejected"})
  /\ requests[r].on \in accepted /\ Hears(requests[r].on)
  /\ resetTickTimer(connected)
  /\ UNCHANGED <<network, untouched>>

\* Its timer, or the socket could not send it.
RequestTimeout(r) ==
  /\ Settle(r, {"rejected"})
  /\ UNCHANGED <<network, untouched, tickTimer>>

rejectAllPending ==
  requests' = [r \in Rpcs |->
                 IF Pending(r) THEN [requests[r] EXCEPT !.state = "rejected"] ELSE requests[r]]

-----------------------------------------------------------------------------
(* The end of a connection                                                   *)

Gone(s) ==
  /\ sockets' = [sockets EXCEPT ![s] = "closed"]
  /\ challenges' = challenges \ {s}
  /\ asked' = {a \in asked : a.on # s}
  /\ UNCHANGED accepted

\* Any socket may fail or drop; one that is closing closes.
Lost(s) ==
  /\ Live(s)
  /\ IF sockets[s] = "closing" THEN UNCHANGED drops
     ELSE drops < MaxDrops /\ drops' = drops + 1
  /\ Gone(s)

\* Mutant: the requests in flight are left to their timers.
handleDisconnect_KeepsPending(s) ==
  /\ Lost(s)
  /\ connected' = FALSE
  /\ tickTimer' = FALSE
  /\ scheduleReconnect
  /\ UNCHANGED <<ws, closed, connectId, ids, requests, refusals>>

\* Mutant: it reconnects only if it was connected.
handleDisconnect_OnlyIfConnected(s) ==
  /\ Lost(s)
  /\ connected' = FALSE
  /\ tickTimer' = FALSE
  /\ rejectAllPending
  /\ IF connected THEN scheduleReconnect ELSE UNCHANGED reconnectTimer
  /\ UNCHANGED <<ws, closed, connectId, ids, refusals>>

\* The 'close' event, whichever socket it comes from.
handleDisconnect(s) ==
  /\ Lost(s)
  /\ connected' = FALSE
  /\ tickTimer' = FALSE
  /\ rejectAllPending
  /\ scheduleReconnect
  /\ UNCHANGED <<ws, closed, connectId, ids, refusals>>

\* ws.close(), which also gives up a socket that is still opening.
closeWs ==
  sockets' = IF ws # NoSocket /\ Live(ws) THEN [sockets EXCEPT ![ws] = "closing"] ELSE sockets

\* Nothing was heard for two ticks.
TickTimeout ==
  /\ tickTimer
  /\ drops < MaxDrops
  /\ drops' = drops + 1
  /\ tickTimer' = FALSE
  /\ closeWs
  /\ UNCHANGED <<challenges, asked, accepted, ws, connected, closed, connectId, ids,
                 reconnectTimer, requests, refusals>>

stop ==
  /\ ~closed
  /\ closed' = TRUE
  /\ reconnectTimer' = FALSE /\ tickTimer' = FALSE
  /\ rejectAllPending
  /\ closeWs
  /\ ws' = NoSocket
  /\ connected' = FALSE
  /\ UNCHANGED <<challenges, asked, accepted, connectId, ids, drops, refusals>>

-----------------------------------------------------------------------------
SocketStep(s) ==
  \/ start(s) \/ Reconnect(s) \/ Opened(s) \/ Challenge(s) \/ Traffic(s)
  \/ handleDisconnect(s)

RpcStep(r) == request(r) \/ Response(r) \/ RequestTimeout(r)

GatewayNext ==
  \/ \E s \in Sockets : SocketStep(s)
  \/ \E a \in asked : Hello(a) \/ Refused(a)
  \/ \E r \in Rpcs : RpcStep(r)
  \/ TickTimeout
  \/ stop

GatewaySpec == GatewayInit /\ [][GatewayNext]_gatewayVars

\* Timers fire, an attempt to connect ends, the gateway challenges and answers,
\* and a closing handshake is over after 30 s at the latest.
GatewayFairness ==
  /\ WF_gatewayVars(\E s \in Sockets : start(s))
  /\ WF_gatewayVars(\E s \in Sockets : Reconnect(s))
  /\ \A s \in Sockets :
       /\ WF_gatewayVars(Opened(s) \/ (sockets[s] = "opening" /\ handleDisconnect(s)))
       /\ WF_gatewayVars(Challenge(s))
       /\ WF_gatewayVars(sockets[s] = "closing" /\ handleDisconnect(s))
       /\ WF_gatewayVars(\E a \in asked : a.on = s /\ (Hello(a) \/ Refused(a)))
  /\ \A r \in Rpcs : WF_gatewayVars(RequestTimeout(r))

GatewayFairSpec == GatewaySpec /\ GatewayFairness

-----------------------------------------------------------------------------
(* Properties                                                                *)

GatewayTypeOK ==
  /\ sockets \in [Sockets -> SocketState]
  /\ challenges \subseteq Sockets
  /\ asked \subseteq [on : Sockets, id : 1..ids]
  /\ accepted \subseteq Sockets
  /\ ws \in Sockets \cup {NoSocket}
  /\ connected \in BOOLEAN /\ closed \in BOOLEAN
  /\ reconnectTimer \in BOOLEAN /\ tickTimer \in BOOLEAN
  /\ connectId \in 0..ids /\ ids \in Nat
  /\ requests \in [Rpcs -> Rpc]
  /\ drops \in 0..MaxDrops /\ refusals \in 0..MaxRefusals

\* No request waits for a connection that is gone
\* (gateway-ws-client.ts:516-520, 588-594).
PendingCanBeAnswered ==
  \A r \in Rpcs : Pending(r) => Live(requests[r].on)

\* As long as the gateway refuses no handshake, requests go out and wait on the
\* current socket only, and only after its handshake (gateway-ws-client.ts:114).
RequestsAfterHandshake ==
  refusals = 0 =>
    \A r \in Rpcs : Pending(r) => requests[r].on = ws /\ ws \in accepted

LiveSockets == {s \in Sockets : Live(s)}

\* Each refused handshake leaves at most one connection behind: apart from them
\* the client has one (gateway-ws-client.ts:441-452).
FewConnections == Cardinality(LiveSockets) <= 1 + refusals

\* A stopped client is quiet: no timer is left that could bring it back, and no
\* request to wait for (gateway-ws-client.ts:89-107).
StoppedIsQuiet ==
  closed => ~reconnectTimer /\ ~tickTimer /\ \A r \in Rpcs : ~Pending(r)

\* The client and the connections hold values of their types, whatever waits for
\* an answer waits where one can come from, connections do not pile up and a
\* stopped client stays stopped (gateway-ws-client.ts:89-140, 441-554).
ConnectionSound ==
  GatewayTypeOK /\ PendingCanBeAnswered /\ RequestsAfterHandshake /\ FewConnections /\ StoppedIsQuiet

-----------------------------------------------------------------------------
(* What makes ConnectionSound inductive                                      *)

\* The connection that the timer is going to open counts as one already.
Claims == Cardinality(LiveSockets) + (IF reconnectTimer THEN 1 ELSE 0)
ConnectionsCounted == IsFiniteSet(LiveSockets) /\ Claims <= 1 + refusals

\* Before the first socket nothing is under way.
QuietBeforeStart ==
  (\A s \in Sockets : sockets[s] = "unused") => ~reconnectTimer /\ ~connected

\* Connect requests wait on live sockets, and a stopped client has no socket.
AskedIsLive == \A a \in asked : Live(a.on)
StoppedHasNoSocket == closed => ws = NoSocket

\* While the gateway refuses no handshake the live socket is the current one,
\* it is not replaced while the client counts as connected, and the client
\* counts as connected only on a socket the gateway accepted.
OnlyCurrentSocket ==
  refusals = 0 =>
    /\ ~closed => \A s \in Sockets : Live(s) => s = ws
    /\ connected => ~reconnectTimer /\ (ws # NoSocket => ws \in accepted)

GatewayIInv ==
  /\ ConnectionSound
  /\ ConnectionsCounted /\ QuietBeforeStart /\ AskedIsLive /\ StoppedHasNoSocket
  /\ OnlyCurrentSocket

-----------------------------------------------------------------------------
(* What the client must get done at last                                     *)

\* The client gets through to a socket the gateway has accepted again and
\* again, however connections failed before.
Recovers ==
  []<>(closed \/ (connected /\ WsOpen /\ ws \in accepted))

\* Every request is answered or rejected.
RequestsSettle == \A r \in Rpcs : Pending(r) ~> ~Pending(r)

\* The client comes back from whatever failed, and whoever asked hears of it
\* (gateway-ws-client.ts:121-140, 514-554).
ComesBack == Recovers /\ RequestsSettle
==============================================================================
