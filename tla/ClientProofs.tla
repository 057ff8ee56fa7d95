---------------------------- MODULE ClientProofs -----------------------------
(***************************************************************************)
(* What the backend may believe of two systems that answer late or never,   *)
(* and what the rooms it takes over from one of them are: the safety        *)
(* properties of GatewayClient, for any number of sockets, requests,        *)
(* failures and refused handshakes; of MotopressSync, for any number of     *)
(* bookings and pushes; and of RoomImport, for any catalogs, any number of  *)
(* types and rooms, and whatever the staff do in between.                   *)
(*                                                                         *)
(* FewConnections is not inductive: a new socket is opened without a look   *)
(* at the others.  What carries it is that the reconnect timer is set only  *)
(* after a socket is gone or a handshake was refused, so that a timer       *)
(* stands for a connection there may be (ConnectionsCounted).  From this    *)
(* follows that without refusals the live socket is the current one, and    *)
(* from this that requests wait there.                                      *)
(*                                                                         *)
(* An import is a fold over a catalog.  Each item keeps the tables sound    *)
(* (MidSound), so the keys hold after all of them; a room that is done      *)
(* stays done (RoomStaysDone), so all are at the end.  That a third import  *)
(* changes nothing needs both followed side by side.  The second leaves the *)
(* links and the rows of the rooms (SteadyTypes, SecondIs); only rooms      *)
(* without a type may move, when a published type has the title of theirs   *)
(* (UnassignedStays).  The third finds for each type the row the second     *)
(* found, and the names in its way are the same, since a row the second     *)
(* gave to a later type had the title of a later type before (SameTypeRow,  *)
(* SameNames); then the rooms have the first names free to them already, or *)
(* the type they stay with (RoomSettled).                                   *)
(***************************************************************************)
EXTENDS GatewayClient, MotopressSync, RoomImport, FiniteSetTheorems, TLAPS

-----------------------------------------------------------------------------
(* Counting live sockets                                                     *)

\* A socket that is opened is one more.
LEMMA LiveGrows ==
  ASSUME GatewayTypeOK, IsFiniteSet(LiveSockets), NEW s \in Sockets, sockets[s] = "unused",
         sockets' = [sockets EXCEPT ![s] = "opening"]
  PROVE  IsFiniteSet(LiveSockets)' /\ Cardinality(LiveSockets)' = Cardinality(LiveSockets) + 1
<1>1. LiveSockets' = LiveSockets \cup {s} /\ s \notin LiveSockets
  BY DEF LiveSockets, Live, GatewayTypeOK
<1> QED BY <1>1, FS_AddElement

\* A socket that is gone is one less.
LEMMA LiveShrinks ==
  ASSUME GatewayTypeOK, IsFiniteSet(LiveSockets), NEW s \in Sockets, Live(s),
         sockets' = [sockets EXCEPT ![s] = "closed"]
  PROVE  IsFiniteSet(LiveSockets)' /\ Cardinality(LiveSockets)' = Cardinality(LiveSockets) - 1
<1>1. LiveSockets' = LiveSockets \ {s} /\ s \in LiveSockets
  BY DEF LiveSockets, Live, GatewayTypeOK
<1> QED BY <1>1, FS_RemoveElement

\* Any other step leaves the same sockets live.
SameLive == \A s \in Sockets : Live(s)' = Live(s)

LEMMA LiveStays == ASSUME SameLive PROVE LiveSockets' = LiveSockets
  BY DEF SameLive, LiveSockets

\* When the client is about to open a socket and nothing was refused, none is live.
LEMMA NoneLive ==
  ASSUME GatewayIInv, refusals = 0, reconnectTimer PROVE \A s \in Sockets : ~Live(s)
<1>1. Cardinality(LiveSockets) \in Nat
  BY FS_CardinalityType DEF GatewayIInv, ConnectionsCounted
<1>2. Cardinality(LiveSockets) = 0
  BY <1>1 DEF GatewayIInv, ConnectionsCounted, Claims
<1>3. LiveSockets = {}
  BY <1>2, FS_EmptySet DEF GatewayIInv, ConnectionsCounted
<1> QED BY <1>3 DEF LiveSockets

\* ws.close() takes no socket from the live ones.
LEMMA CloseWsKeepsLive == ASSUME GatewayTypeOK, closeWs PROVE SameLive
  BY DEF closeWs, SameLive, Live, GatewayTypeOK

-----------------------------------------------------------------------------
(* Every step keeps the inductive invariant                                  *)

\* The inductive invariant holds before the client starts.
LEMMA InitIInv == ASSUME GatewayParameters, GatewayInit PROVE GatewayIInv
<1> USE GatewayParameters DEF GatewayInit
<1>1. GatewayTypeOK
  <2>1. requests \in [Rpcs -> Rpc]
    BY DEF Rpc
  <2>2. drops \in 0..MaxDrops /\ refusals \in 0..MaxRefusals
    BY DEF GatewayParameters
  <2>3. sockets \in [Sockets -> SocketState]
    BY DEF SocketState
  <2>4. asked \subseteq [on : Sockets, id : 1..ids] /\ connectId \in 0..ids /\ ids \in Nat
    OBVIOUS
  <2> QED BY <2>1, <2>2, <2>3, <2>4 DEF GatewayTypeOK
<1>2. LiveSockets = {}
  BY DEF LiveSockets, Live
<1>3. IsFiniteSet(LiveSockets) /\ Cardinality(LiveSockets) = 0
  BY <1>2, FS_EmptySet
<1>4. ConnectionsCounted /\ FewConnections
  BY <1>3 DEF ConnectionsCounted, Claims, FewConnections
<1>5. /\ PendingCanBeAnswered /\ RequestsAfterHandshake /\ StoppedIsQuiet
      /\ QuietBeforeStart /\ AskedIsLive /\ StoppedHasNoSocket /\ OnlyCurrentSocket
  BY DEF PendingCanBeAnswered, RequestsAfterHandshake, StoppedIsQuiet, QuietBeforeStart,
     AskedIsLive, StoppedHasNoSocket, OnlyCurrentSocket, Pending, Live
<1> QED BY <1>1, <1>4, <1>5 DEF GatewayIInv, ConnectionSound

\* The counted connections bound the live ones, after a step as before it.
LEMMA CountedAreFew ==
  ASSUME ConnectionsCounted', (refusals \in Nat)' PROVE FewConnections'
<1>1. (Cardinality(LiveSockets) \in Nat)'
  BY FS_CardinalityType DEF ConnectionsCounted
<1> QED BY <1>1 DEF ConnectionsCounted, Claims, FewConnections

\* A new socket takes the place that was counted for it: of the timer, or of
\* the first one.
LEMMA ConnectIInv ==
  ASSUME GatewayParameters, GatewayIInv, NEW s \in Sockets, start(s) \/ Reconnect(s) PROVE GatewayIInv'
<1> USE DEF GatewayIInv, ConnectionSound
<1>0. /\ ~closed /\ closed' = closed /\ sockets[s] = "unused" /\ ws' = s
      /\ sockets' = [sockets EXCEPT ![s] = "opening"]
      /\ UNCHANGED <<challenges, asked, accepted, connected, connectId, ids, tickTimer,
                     requests, drops, refusals>>
      /\ reconnectTimer' = FALSE
  BY DEF start, Reconnect, connect, QuietBeforeStart
<1>1. GatewayTypeOK'
  BY <1>0 DEF GatewayTypeOK, SocketState
<1>2. \A t \in Sockets : Live(t)' <=> Live(t) \/ t = s
  BY <1>0 DEF Live, GatewayTypeOK
<1>3. refusals = 0 => ~connected /\ \A t \in Sockets : ~Live(t)
  <2>1. CASE start(s)
    BY <2>1 DEF start, Live, QuietBeforeStart
  <2>2. CASE Reconnect(s)
    BY <2>2, NoneLive DEF Reconnect, OnlyCurrentSocket
  <2> QED BY <2>1, <2>2
<1>4. ConnectionsCounted'
  <2>1. IsFiniteSet(LiveSockets)' /\ Cardinality(LiveSockets)' = Cardinality(LiveSockets) + 1
    BY <1>0, LiveGrows DEF ConnectionsCounted
  <2>2. Cardinality(LiveSockets) \in Nat /\ refusals \in Nat
    BY FS_CardinalityType DEF ConnectionsCounted, GatewayTypeOK
  <2>3. CASE reconnectTimer
    BY <1>0, <2>1, <2>2, <2>3 DEF ConnectionsCounted, Claims
  <2>4. CASE ~reconnectTimer
    <3>1. LiveSockets = {}
      BY <2>4 DEF start, Reconnect, LiveSockets, Live
    <3>2. Cardinality(LiveSockets) = 0
      BY <3>1, FS_EmptySet
    <3> QED BY <1>0, <2>1, <2>2, <3>2 DEF ConnectionsCounted, Claims
  <2> QED BY <2>3, <2>4
<1>5. FewConnections'
  <2>1. refusals' \in Nat
    BY <1>0 DEF GatewayTypeOK
  <2> QED BY <1>4, <2>1, CountedAreFew
<1>6. PendingCanBeAnswered'
  BY <1>0, <1>2 DEF PendingCanBeAnswered, Pending, GatewayTypeOK, Rpc
<1>7. RequestsAfterHandshake'
  BY <1>0, <1>3 DEF RequestsAfterHandshake, PendingCanBeAnswered, Pending, GatewayTypeOK, Rpc
<1>8. StoppedIsQuiet' /\ StoppedHasNoSocket' /\ QuietBeforeStart'
  BY <1>0 DEF StoppedIsQuiet, StoppedHasNoSocket, QuietBeforeStart, GatewayTypeOK
<1>9. AskedIsLive'
  BY <1>0, <1>2 DEF AskedIsLive, GatewayTypeOK
<1>10. OnlyCurrentSocket'
  BY <1>0, <1>2, <1>3 DEF OnlyCurrentSocket
<1> QED BY <1>1, <1>4, <1>5, <1>6, <1>7, <1>8, <1>9, <1>10

\* A step that neither opens nor ends a socket nor sets the timer keeps the count.
LEMMA CountStays ==
  ASSUME GatewayIInv, SameLive, refusals' = refusals, reconnectTimer' => reconnectTimer,
         (reconnectTimer \in BOOLEAN)'
  PROVE  ConnectionsCounted' /\ FewConnections'
<1> USE DEF GatewayIInv, ConnectionSound
<1>1. LiveSockets' = LiveSockets
  BY LiveStays
<1>2. Cardinality(LiveSockets) \in Nat /\ refusals \in Nat
  BY FS_CardinalityType DEF ConnectionsCounted, GatewayTypeOK
<1>3. ConnectionsCounted'
  BY <1>1, <1>2 DEF ConnectionsCounted, Claims, GatewayTypeOK
<1> QED BY <1>2, <1>3, CountedAreFew

\* Steps that leave sockets, the client's socket and its requests alone.
LEMMA OpenedIInv ==
  ASSUME GatewayParameters, GatewayIInv, NEW s \in Sockets, Opened(s) PROVE GatewayIInv'
<1> USE DEF GatewayIInv, ConnectionSound, Opened, client
<1>1. GatewayTypeOK'
  BY DEF GatewayTypeOK, SocketState
<1>2. SameLive
  BY DEF SameLive, Live, GatewayTypeOK
<1>3. ConnectionsCounted' /\ FewConnections'
  BY <1>1, <1>2, CountStays DEF GatewayTypeOK
<1>4. PendingCanBeAnswered' /\ RequestsAfterHandshake' /\ StoppedIsQuiet'
  BY <1>2 DEF PendingCanBeAnswered, RequestsAfterHandshake, StoppedIsQuiet, SameLive, Pending,
     GatewayTypeOK, Rpc
<1>5. QuietBeforeStart' /\ AskedIsLive' /\ StoppedHasNoSocket' /\ OnlyCurrentSocket'
  BY <1>2 DEF QuietBeforeStart, AskedIsLive, StoppedHasNoSocket, OnlyCurrentSocket, SameLive,
     GatewayTypeOK
<1> QED BY <1>1, <1>3, <1>4, <1>5

\* A connect request goes out on the current socket if that is open.
LEMMA ChallengeIInv ==
  ASSUME GatewayParameters, GatewayIInv, NEW s \in Sockets, Challenge(s) PROVE GatewayIInv'
<1> USE DEF GatewayIInv, ConnectionSound, Challenge, resetTickTimer
<1>1. GatewayTypeOK'
  <2>1. CASE WsOpen
    <3>1. ws \in Sockets /\ ids' \in Nat /\ ids' > ids
      BY <2>1 DEF WsOpen, GatewayTypeOK
    <3>2. asked' \subseteq [on : Sockets, id : 1..ids'] /\ connectId' \in 0..ids'
      BY <2>1, <3>1 DEF GatewayTypeOK
    <3> QED BY <3>1, <3>2 DEF GatewayTypeOK
  <2>2. CASE ~WsOpen
    BY <2>2 DEF GatewayTypeOK
  <2> QED BY <2>1, <2>2
<1>2. SameLive
  BY DEF SameLive, Live
<1>3. ConnectionsCounted' /\ FewConnections'
  BY <1>1, <1>2, CountStays DEF GatewayTypeOK
<1>4. PendingCanBeAnswered' /\ RequestsAfterHandshake' /\ StoppedIsQuiet'
  BY DEF PendingCanBeAnswered, RequestsAfterHandshake, StoppedIsQuiet, Pending, Live, GatewayTypeOK
<1>5. AskedIsLive'
  BY DEF AskedIsLive, WsOpen, Live
<1>6. QuietBeforeStart' /\ StoppedHasNoSocket' /\ OnlyCurrentSocket'
  BY <1>2 DEF QuietBeforeStart, StoppedHasNoSocket, OnlyCurrentSocket, SameLive
<1> QED BY <1>1, <1>3, <1>4, <1>5, <1>6

\* The handshake succeeds: without refusals on the current socket.
LEMMA HelloIInv ==
  ASSUME GatewayParameters, GatewayIInv, NEW a \in asked, Hello(a) PROVE GatewayIInv'
<1> USE DEF GatewayIInv, ConnectionSound, Hello, Answered, resetTickTimer
<1>0. a.on \in Sockets /\ Live(a.on)
  BY DEF GatewayTypeOK, AskedIsLive
<1>1. GatewayTypeOK'
  BY <1>0 DEF GatewayTypeOK
<1>2. SameLive
  BY DEF SameLive, Live
<1>3. ConnectionsCounted' /\ FewConnections'
  BY <1>1, <1>2, CountStays DEF GatewayTypeOK
<1>4. PendingCanBeAnswered' /\ StoppedIsQuiet'
  BY <1>2 DEF PendingCanBeAnswered, StoppedIsQuiet, Pending, SameLive, Live, GatewayTypeOK
<1>5. RequestsAfterHandshake'
  BY DEF RequestsAfterHandshake, Pending
<1>6. QuietBeforeStart' /\ AskedIsLive' /\ StoppedHasNoSocket'
  BY <1>0 DEF QuietBeforeStart, AskedIsLive, StoppedHasNoSocket, Live
<1>7. OnlyCurrentSocket'
  <2>1. refusals = 0 => ~reconnectTimer
    BY <1>0, NoneLive
  <2>2. refusals = 0 /\ ~closed => a.on = ws
    BY <1>0 DEF OnlyCurrentSocket
  <2> QED BY <2>1, <2>2 DEF OnlyCurrentSocket, StoppedHasNoSocket, Live
<1> QED BY <1>1, <1>3, <1>4, <1>5, <1>6, <1>7

\* A refusal may set the timer: it pays for the connection that opens.
LEMMA RefusedIInv ==
  ASSUME GatewayParameters, GatewayIInv, NEW a \in asked, Refused(a) PROVE GatewayIInv'
<1> USE DEF GatewayIInv, ConnectionSound, Refused, Answered, resetTickTimer, scheduleReconnect
<1>0. a.on \in Sockets /\ Live(a.on) /\ refusals \in Nat /\ refusals' = refusals + 1
  BY DEF GatewayTypeOK, AskedIsLive
<1>1. GatewayTypeOK'
  <2>1. refusals' \in 0..MaxRefusals
    BY <1>0 DEF GatewayParameters
  <2>2. reconnectTimer' \in BOOLEAN /\ tickTimer' \in BOOLEAN
    BY DEF GatewayTypeOK
  <2>3. connectId' \in 0..ids'
    BY DEF GatewayTypeOK
  <2> QED BY <2>1, <2>2, <2>3 DEF GatewayTypeOK
<1>2. LiveSockets' = LiveSockets
  BY DEF LiveSockets, Live
<1>3. ConnectionsCounted' /\ FewConnections'
  <2>1. Cardinality(LiveSockets) \in Nat
    BY FS_CardinalityType DEF ConnectionsCounted
  <2>2. ConnectionsCounted'
    BY <1>0, <1>1, <1>2, <2>1 DEF ConnectionsCounted, Claims, GatewayTypeOK
  <2>3. (refusals \in Nat)'
    BY <1>0
  <2> QED BY <2>2, <2>3, CountedAreFew
<1>4. PendingCanBeAnswered' /\ StoppedIsQuiet'
  BY DEF PendingCanBeAnswered, StoppedIsQuiet, Pending, Live, GatewayTypeOK
<1>5. RequestsAfterHandshake' /\ OnlyCurrentSocket'
  BY <1>0 DEF RequestsAfterHandshake, OnlyCurrentSocket
<1>6. QuietBeforeStart' /\ AskedIsLive' /\ StoppedHasNoSocket'
  BY <1>0 DEF QuietBeforeStart, AskedIsLive, StoppedHasNoSocket, Live
<1> QED BY <1>1, <1>3, <1>4, <1>5, <1>6

\* A message only restarts the watchdog.
LEMMA TrafficIInv ==
  ASSUME GatewayParameters, GatewayIInv, NEW s \in Sockets, Traffic(s) PROVE GatewayIInv'
<1> USE DEF GatewayIInv, ConnectionSound, Traffic, resetTickTimer, network, untouched
<1>1. GatewayTypeOK'
  BY DEF GatewayTypeOK
<1>2. SameLive
  BY DEF SameLive, Live
<1>3. ConnectionsCounted' /\ FewConnections'
  BY <1>1, <1>2, CountStays DEF GatewayTypeOK
<1>4. PendingCanBeAnswered' /\ RequestsAfterHandshake' /\ StoppedIsQuiet'
  BY DEF PendingCanBeAnswered, RequestsAfterHandshake, StoppedIsQuiet, Pending, Live, GatewayTypeOK
<1>5. QuietBeforeStart' /\ AskedIsLive' /\ StoppedHasNoSocket' /\ OnlyCurrentSocket'
  BY <1>2 DEF QuietBeforeStart, AskedIsLive, StoppedHasNoSocket, OnlyCurrentSocket, SameLive,
     Live
<1> QED BY <1>1, <1>3, <1>4, <1>5

\* A request goes out on the current, open socket of a connected client.
LEMMA RequestIInv ==
  ASSUME GatewayParameters, GatewayIInv, NEW r \in Rpcs, request(r) PROVE GatewayIInv'
<1> USE DEF GatewayIInv, ConnectionSound, request, network, untouched
<1>0. ws \in Sockets /\ ws # NoSocket /\ Live(ws) /\ ~closed
  BY DEF WsOpen, Live, GatewayTypeOK, StoppedHasNoSocket
<1>1. GatewayTypeOK'
  BY <1>0 DEF GatewayTypeOK, Rpc
<1>2. SameLive
  BY DEF SameLive, Live
<1>3. ConnectionsCounted' /\ FewConnections'
  BY <1>1, <1>2, CountStays DEF GatewayTypeOK
<1>4. PendingCanBeAnswered' /\ StoppedIsQuiet'
  BY <1>0 DEF PendingCanBeAnswered, StoppedIsQuiet, Pending, Live, GatewayTypeOK
<1>5. RequestsAfterHandshake'
  BY <1>0 DEF RequestsAfterHandshake, OnlyCurrentSocket, Pending, GatewayTypeOK
<1>6. QuietBeforeStart' /\ AskedIsLive' /\ StoppedHasNoSocket' /\ OnlyCurrentSocket'
  BY <1>2 DEF QuietBeforeStart, AskedIsLive, StoppedHasNoSocket, OnlyCurrentSocket, SameLive,
     Live
<1> QED BY <1>1, <1>3, <1>4, <1>5, <1>6

\* An answer or a timeout only ends the wait of its request.
LEMMA SettledIInv ==
  ASSUME GatewayParameters, GatewayIInv, NEW r \in Rpcs, Response(r) \/ RequestTimeout(r)
  PROVE  GatewayIInv'
<1> USE DEF GatewayIInv, ConnectionSound, Response, RequestTimeout, resetTickTimer, network, untouched
<1>0. PICK state \in {"resolved", "rejected"} :
         Pending(r) /\ requests' = [requests EXCEPT ![r].state = state]
  BY DEF Settle
<1>1. GatewayTypeOK'
  <2>1. requests[r].on \in Sockets
    BY <1>0 DEF GatewayTypeOK, Rpc, Pending
  <2>2. requests' \in [Rpcs -> Rpc]
    BY <1>0, <2>1 DEF GatewayTypeOK, Rpc
  <2> QED BY <2>2 DEF GatewayTypeOK
<1>2. \A q \in Rpcs : Pending(q)' => Pending(q) /\ requests'[q] = requests[q]
  BY <1>0 DEF Pending, GatewayTypeOK
<1>3. SameLive
  BY DEF SameLive, Live
<1>4. ConnectionsCounted' /\ FewConnections'
  BY <1>1, <1>3, CountStays DEF GatewayTypeOK
<1>5. PendingCanBeAnswered' /\ RequestsAfterHandshake' /\ StoppedIsQuiet'
  <2>1. UNCHANGED <<sockets, accepted, ws, closed, refusals, reconnectTimer>>
    OBVIOUS
  <2>2. PendingCanBeAnswered' /\ RequestsAfterHandshake'
    BY <1>2, <2>1 DEF PendingCanBeAnswered, RequestsAfterHandshake, Live
  <2>3. StoppedIsQuiet'
    BY <1>2, <2>1 DEF StoppedIsQuiet
  <2> QED BY <2>2, <2>3
<1>6. QuietBeforeStart' /\ AskedIsLive' /\ StoppedHasNoSocket' /\ OnlyCurrentSocket'
  BY <1>3 DEF QuietBeforeStart, AskedIsLive, StoppedHasNoSocket, OnlyCurrentSocket, SameLive,
     Live
<1> QED BY <1>1, <1>4, <1>5, <1>6

\* Nobody waits after rejectAllPending.
LEMMA RejectAllLeavesNone ==
  ASSUME GatewayTypeOK, rejectAllPending
  PROVE  (requests \in [Rpcs -> Rpc])' /\ \A r \in Rpcs : ~Pending(r)'
  BY DEF rejectAllPending, GatewayTypeOK, Rpc, Pending

\* A socket that is gone gives its place to the timer.
LEMMA DisconnectIInv ==
  ASSUME GatewayParameters, GatewayIInv, NEW s \in Sockets, handleDisconnect(s) PROVE GatewayIInv'
<1> USE DEF GatewayIInv, ConnectionSound, handleDisconnect, Lost, Gone, scheduleReconnect
<1>1. (requests \in [Rpcs -> Rpc])' /\ \A r \in Rpcs : ~Pending(r)'
  BY RejectAllLeavesNone
<1>2. GatewayTypeOK'
  <2>1. sockets' \in [Sockets -> SocketState] /\ drops' \in 0..MaxDrops
    BY DEF GatewayTypeOK, SocketState, GatewayParameters
  <2> QED BY <1>1, <2>1 DEF GatewayTypeOK
<1>3. \A t \in Sockets : Live(t)' <=> Live(t) /\ t # s
  BY DEF Live, GatewayTypeOK
<1>4. ConnectionsCounted' /\ FewConnections'
  <2>1. IsFiniteSet(LiveSockets)' /\ Cardinality(LiveSockets)' = Cardinality(LiveSockets) - 1
    BY LiveShrinks DEF ConnectionsCounted
  <2>2. Cardinality(LiveSockets) \in Nat /\ refusals \in Nat
    BY FS_CardinalityType DEF ConnectionsCounted, GatewayTypeOK
  <2>3. ConnectionsCounted'
    BY <2>1, <2>2 DEF ConnectionsCounted, Claims, GatewayTypeOK
  <2> QED BY <2>2, <2>3, CountedAreFew
<1>5. PendingCanBeAnswered' /\ RequestsAfterHandshake' /\ StoppedIsQuiet'
  BY <1>1 DEF PendingCanBeAnswered, RequestsAfterHandshake, StoppedIsQuiet
<1>6. QuietBeforeStart'
  BY DEF QuietBeforeStart, GatewayTypeOK
<1>7. AskedIsLive' /\ StoppedHasNoSocket'
  BY <1>3 DEF AskedIsLive, StoppedHasNoSocket, GatewayTypeOK
<1>8. OnlyCurrentSocket'
  BY <1>3 DEF OnlyCurrentSocket
<1> QED BY <1>2, <1>4, <1>5, <1>6, <1>7, <1>8

\* A socket given up for silence is live until it has closed.
LEMMA TickTimeoutIInv ==
  ASSUME GatewayParameters, GatewayIInv, TickTimeout PROVE GatewayIInv'
<1> USE DEF GatewayIInv, ConnectionSound, TickTimeout
<1>1. GatewayTypeOK'
  <2>1. sockets' \in [Sockets -> SocketState] /\ drops' \in 0..MaxDrops
    BY DEF GatewayTypeOK, closeWs, SocketState, GatewayParameters
  <2> QED BY <2>1 DEF GatewayTypeOK
<1>2. SameLive
  BY CloseWsKeepsLive
<1>3. ConnectionsCounted' /\ FewConnections'
  BY <1>1, <1>2, CountStays DEF GatewayTypeOK
<1>4. PendingCanBeAnswered' /\ RequestsAfterHandshake' /\ StoppedIsQuiet'
  BY <1>2 DEF PendingCanBeAnswered, RequestsAfterHandshake, StoppedIsQuiet, SameLive, Pending,
     GatewayTypeOK, Rpc
<1>5. QuietBeforeStart'
  BY DEF QuietBeforeStart, closeWs, GatewayTypeOK
<1>6. AskedIsLive' /\ StoppedHasNoSocket' /\ OnlyCurrentSocket'
  BY <1>2 DEF AskedIsLive, StoppedHasNoSocket, OnlyCurrentSocket, SameLive, GatewayTypeOK
<1> QED BY <1>1, <1>3, <1>4, <1>5, <1>6

\* A client that stops rejects what waits and forgets its socket.
LEMMA StopIInv ==
  ASSUME GatewayParameters, GatewayIInv, stop PROVE GatewayIInv'
<1> USE DEF GatewayIInv, ConnectionSound, stop
<1>1. (requests \in [Rpcs -> Rpc])' /\ \A r \in Rpcs : ~Pending(r)'
  BY RejectAllLeavesNone
<1>2. GatewayTypeOK'
  <2>1. sockets' \in [Sockets -> SocketState]
    BY DEF GatewayTypeOK, closeWs, SocketState
  <2> QED BY <1>1, <2>1 DEF GatewayTypeOK
<1>3. SameLive
  BY CloseWsKeepsLive
<1>4. ConnectionsCounted' /\ FewConnections'
  BY <1>2, <1>3, CountStays DEF GatewayTypeOK
<1>5. PendingCanBeAnswered' /\ RequestsAfterHandshake' /\ StoppedIsQuiet'
  BY <1>1 DEF PendingCanBeAnswered, RequestsAfterHandshake, StoppedIsQuiet
<1>6. QuietBeforeStart' /\ AskedIsLive' /\ StoppedHasNoSocket' /\ OnlyCurrentSocket'
  BY <1>3 DEF QuietBeforeStart, AskedIsLive, StoppedHasNoSocket, OnlyCurrentSocket, SameLive,
     GatewayTypeOK
<1> QED BY <1>2, <1>4, <1>5, <1>6

\* A step that changes nothing.
LEMMA StutterIInv == ASSUME GatewayIInv, UNCHANGED gatewayVars PROVE GatewayIInv'
<1> USE DEF gatewayVars, network, client
<1>1. LiveSockets' = LiveSockets
  BY DEF LiveSockets, Live
<1>2. ConnectionsCounted' /\ FewConnections'
  BY <1>1 DEF GatewayIInv, ConnectionSound, ConnectionsCounted, Claims, FewConnections
<1> QED BY <1>2 DEF GatewayIInv, ConnectionSound, GatewayTypeOK, PendingCanBeAnswered, RequestsAfterHandshake,
     StoppedIsQuiet, QuietBeforeStart, AskedIsLive, StoppedHasNoSocket, OnlyCurrentSocket,
     Pending, Live

\* Every step of the client keeps the inductive invariant.
LEMMA NextIInv == ASSUME GatewayParameters, GatewayIInv, [GatewayNext]_gatewayVars PROVE GatewayIInv'
<1>1. CASE UNCHANGED gatewayVars
  BY <1>1, StutterIInv
<1>2. ASSUME NEW s \in Sockets, SocketStep(s) PROVE GatewayIInv'
  BY <1>2, ConnectIInv, OpenedIInv, ChallengeIInv, TrafficIInv, DisconnectIInv DEF SocketStep
<1>3. ASSUME NEW a \in asked, Hello(a) \/ Refused(a) PROVE GatewayIInv'
  BY <1>3, HelloIInv, RefusedIInv
<1>4. ASSUME NEW r \in Rpcs, RpcStep(r) PROVE GatewayIInv'
  BY <1>4, RequestIInv, SettledIInv DEF RpcStep
<1>5. CASE TickTimeout \/ stop
  BY <1>5, TickTimeoutIInv, StopIInv
<1> QED BY <1>1, <1>2, <1>3, <1>4, <1>5 DEF GatewayNext

-----------------------------------------------------------------------------
(* The theorems                                                              *)

\* The inductive invariant holds in every state of the client, whatever the
\* network and the gateway do (gateway-ws-client.ts:89-600).
THEOREM ConnectionInvariant == GatewaySpec => []GatewayIInv
<1>1. GatewayInit => GatewayIInv
  BY InitIInv, GatewayAssumption
<1>2. GatewayIInv /\ [GatewayNext]_gatewayVars => GatewayIInv'
  BY NextIInv, GatewayAssumption
<1> QED BY <1>1, <1>2, PTL DEF GatewaySpec

\* No request waits on a connection that is gone or that the gateway has not
\* accepted, connections do not pile up, and a stopped client stays stopped
\* (gateway-ws-client.ts:89-140, 441-594).
THEOREM ConnectionIsSound == GatewaySpec => []ConnectionSound
<1>1. GatewayIInv => ConnectionSound
  BY DEF GatewayIInv
<1> QED BY <1>1, ConnectionInvariant, PTL

-----------------------------------------------------------------------------
(* The push of bookings to MotoPress                                         *)
(*                                                                         *)
(* Every step concerns one booking.  It leaves what the others' state is    *)
(* read from as it was (Same, OneConcerned), and either the booking keeps   *)
(* to one push that nothing else outdates (Alone) and that accounts for     *)
(* what MotoPress holds (Followed), or it goes astray and no more is said   *)
(* of it than that its ids are true (IdsAreTrue).                           *)

LEMMA PushFields ==
  ASSUME PushTypeOK, NEW p \in Pushes, pushes[p] # NoPush
  PROVE  /\ pushes[p] \in Push
         /\ pushes[p].step \in {"sent", "threw", "answered"}
         /\ pushes[p].request \in PushRequest
         /\ pushes[p].step = "answered" => pushes[p].id \in Nat \ {0}
<1>1. pushes[p] \in Push BY DEF PushTypeOK
<1> QED BY <1>1 DEF Push

LEMMA SentFields ==
  ASSUME NEW r \in PushRequest
  PROVE  r.booking \in Bookings /\ r.id \in Nat /\ r.body \in Body
BY DEF PushRequest

LEMMA PushesTyped ==
  /\ \A r \in PushRequest : \A s \in {"sent", "threw"} : [step |-> s, request |-> r] \in Push
  /\ \A r \in PushRequest : \A i \in Nat \ {0} :
       [step |-> "answered", request |-> r, id |-> i] \in Push
BY DEF Push

\* MotoPress does what it was asked: a new remote booking, or new content of one.
LEMMA DoneChanges ==
  ASSUME PushTypeOK, NEW r \in PushRequest, r.id \in {0} \cup RemoteOf(r.booking), Done(r),
         NEW i, i = IF r.id = 0 THEN Len(remote) + 1 ELSE r.id
  PROVE  /\ remote' \in Seq([booking : Bookings, body : Body])
         /\ \A b : RemoteOf(b) \subseteq RemoteOf(b)'
         /\ \A b : b # r.booking => /\ RemoteOf(b)' = RemoteOf(b)
                                    /\ \A k \in RemoteOf(b) : remote'[k] = remote[k]
         /\ i \in Nat \ {0} /\ remote'[i].body = r.body
         /\ RemoteOf(r.booking)' = RemoteOf(r.booking) \cup {i}
<1> DEFINE Kept == [booking : Bookings, body : Body]
           now == [booking |-> r.booking, body |-> r.body]
<1>1. now \in Kept /\ now.booking = r.booking /\ now.body = r.body BY SentFields
<1>2. remote \in Seq(Kept) BY DEF PushTypeOK
<1>3. remote' = IF r.id = 0 THEN Append(remote, now) ELSE [remote EXCEPT ![r.id] = now]
  BY DEF Done
<1> HIDE DEF Kept, now
<1>4. CASE r.id = 0
  <2>1. remote' = Append(remote, now) /\ i = Len(remote) + 1 BY <1>3, <1>4
  <2>2. /\ remote' \in Seq(Kept) /\ i \in Nat \ {0}
        /\ DOMAIN remote' = DOMAIN remote \cup {i} /\ i \notin DOMAIN remote
        /\ remote'[i] = now /\ \A k \in DOMAIN remote : remote'[k] = remote[k]
    BY <1>1, <1>2, <2>1
  <2> QED BY <1>1, <2>2 DEF RemoteOf, Kept
<1>5. CASE r.id # 0
  <2>1. r.id \in RemoteOf(r.booking) /\ i = r.id BY <1>5
  <2>2. r.id \in DOMAIN remote /\ remote[r.id].booking = r.booking BY <2>1 DEF RemoteOf
  <2>3. remote' = [remote EXCEPT ![r.id] = now] BY <1>3, <1>5
  <2>4. /\ remote' \in Seq(Kept) /\ i \in Nat \ {0}
        /\ DOMAIN remote' = DOMAIN remote
        /\ remote'[i] = now /\ \A k \in DOMAIN remote : k # i => remote'[k] = remote[k]
    BY <1>1, <1>2, <2>1, <2>2, <2>3
  <2> QED BY <1>1, <2>1, <2>2, <2>4 DEF RemoteOf, Kept
<1> QED BY <1>4, <1>5

LEMMA BookingFields ==
  ASSUME PushTypeOK, NEW b \in Bookings
  PROVE  /\ bookings[b] \in Booking
         /\ bookings[b].version \in 1..MaxVersion /\ bookings[b].external \in Nat
BY DEF PushTypeOK, Booking

LEMMA PushTypesKept ==
  ASSUME PushParameters, PushTypeOK, IdsAreTrue, [PushNext]_pushVars
  PROVE  PushTypeOK'
<1>1. ASSUME NEW b \in Bookings, Edit(b) PROVE PushTypeOK'
  <2>1. /\ bookings[b] \in Booking
        /\ bookings[b].version \in 1..MaxVersion /\ bookings[b].version < MaxVersion
    BY <1>1, BookingFields DEF Edit
  <2>2. bookings[b].version + 1 \in 1..MaxVersion BY <2>1 DEF PushParameters
  <2>3. [bookings[b] EXCEPT !.version = @ + 1] \in Booking BY <2>1, <2>2 DEF Booking
  <2>4. bookings' = [bookings EXCEPT ![b] = [bookings[b] EXCEPT !.version = @ + 1]]
    BY <1>1 DEF Edit
  <2>5. bookings' \in [Bookings -> Booking] BY <2>3, <2>4 DEF PushTypeOK
  <2> QED BY <1>1, <2>5 DEF Edit, PushTypeOK
<1>2. ASSUME NEW b \in Bookings, Cancel(b) PROVE PushTypeOK'
  BY <1>2, BookingFields DEF Cancel, PushTypeOK, Booking
<1>3. ASSUME NEW a \in Accommodations \cup {Unmapped}, Map(a) PROVE PushTypeOK'
  BY <1>3 DEF Map, PushTypeOK
<1>4. ASSUME NEW p \in Pushes, NEW b \in Bookings, BeginPush(p, b) PROVE PushTypeOK'
  <2> DEFINE body == [version |-> bookings[b].version, accommodation |-> mapping]
             r == [booking |-> b, id |-> bookings[b].external, body |-> body]
  <2>1. pushes' = [pushes EXCEPT ![p] = [step |-> "sent", request |-> r]]
    BY <1>4 DEF BeginPush
  <2>2. body \in Body BY <1>4, BookingFields DEF BeginPush, PushTypeOK, Body
  <2> HIDE DEF body
  <2>3. r \in PushRequest BY <2>2, BookingFields DEF PushRequest
  <2> HIDE DEF r
  <2>4. [step |-> "sent", request |-> r] \in Push BY <2>3, PushesTyped
  <2>5. pushes' \in [Pushes -> Push \cup {NoPush}] BY <2>1, <2>4 DEF PushTypeOK
  <2>6. pushesBegun' \in 0..MaxPushes /\ astray' \subseteq Bookings
    BY <1>4 DEF BeginPush, PushTypeOK, PushParameters
  <2> QED BY <1>4, <2>5, <2>6 DEF BeginPush, PushTypeOK
<1>5. ASSUME NEW p \in Pushes, PushAnswered(p) PROVE PushTypeOK'
  <2> DEFINE r == pushes[p].request
             i == IF r.id = 0 THEN Len(remote) + 1 ELSE r.id
  <2>1. r \in PushRequest /\ r.id \in {0} \cup RemoteOf(r.booking) /\ Done(r)
    BY <1>5, PushFields DEF PushAnswered, PushAt, IdsAreTrue
  <2>2. pushes' = [pushes EXCEPT ![p] = [step |-> "answered", request |-> r, id |-> i]]
    BY <1>5 DEF PushAnswered
  <2> HIDE DEF r, i
  <2>3. remote' \in Seq([booking : Bookings, body : Body]) /\ i \in Nat \ {0}
    BY <2>1, DoneChanges DEF i
  <2>4. [step |-> "answered", request |-> r, id |-> i] \in Push BY <2>1, <2>3, PushesTyped
  <2>5. pushes' \in [Pushes -> Push \cup {NoPush}] BY <2>2, <2>4 DEF PushTypeOK
  <2> QED BY <1>5, <2>3, <2>5 DEF PushAnswered, PushTypeOK
<1>6. ASSUME NEW p \in Pushes, PushRefused(p) \/ PushTimedOut(p) PROVE PushTypeOK'
  <2>1. pushes[p].step = "sent" /\ pushes[p] # NoPush BY <1>6 DEF PushRefused, PushTimedOut, PushAt
  <2>2. pushes[p] \in Push /\ pushes[p].request \in PushRequest BY <2>1, PushFields
  <2>3. [pushes[p] EXCEPT !.step = "threw"] \in Push BY <2>1, <2>2 DEF Push
  <2>4. pushes' = [pushes EXCEPT ![p] = [pushes[p] EXCEPT !.step = "threw"]]
    BY <1>6 DEF PushRefused, PushTimedOut
  <2>5. pushes' \in [Pushes -> Push \cup {NoPush}] BY <2>3, <2>4 DEF PushTypeOK
  <2>6. late' \subseteq PushRequest /\ astray' \subseteq Bookings
    BY <1>6, <2>2, SentFields DEF PushRefused, PushTimedOut, PushTypeOK
  <2> QED BY <1>6, <2>5, <2>6 DEF PushRefused, PushTimedOut, PushTypeOK
<1>7. ASSUME NEW p \in Pushes, CommitPush(p) PROVE PushTypeOK'
  <2> DEFINE b == pushes[p].request.booking
  <2>1. /\ pushes[p].request \in PushRequest /\ pushes[p].id \in Nat \ {0}
        /\ b \in Bookings /\ pushes[p].request.body \in Body
    BY <1>7, PushFields, SentFields DEF CommitPush, PushAt
  <2>2. Synced(bookings[b], pushes[p]) \in Booking
    BY <2>1, BookingFields DEF Synced, Booking
  <2>3. bookings' = [bookings EXCEPT ![b] = Synced(bookings[b], pushes[p])]
    BY <1>7 DEF CommitPush
  <2>4. bookings' \in [Bookings -> Booking] BY <2>2, <2>3 DEF PushTypeOK
  <2> QED BY <1>7, <2>4 DEF CommitPush, PushTypeOK
<1>8. ASSUME NEW p \in Pushes, CommitPushFails(p) PROVE PushTypeOK'
  <2>1. pushes[p].request \in PushRequest /\ pushes[p].request.booking \in Bookings
    BY <1>8, PushFields, SentFields DEF CommitPushFails, PushAt
  <2>2. [step |-> "threw", request |-> pushes[p].request] \in Push BY <2>1, PushesTyped
  <2> QED BY <1>8, <2>1, <2>2 DEF CommitPushFails, PushTypeOK
<1>9. ASSUME NEW p \in Pushes, FailPush(p) PROVE PushTypeOK'
  BY <1>9, PushFields, SentFields, BookingFields DEF FailPush, PushAt, PushTypeOK, Booking
<1>10. ASSUME NEW p \in Pushes, AbandonPush(p) PROVE PushTypeOK'
  <2>1. pushes[p].request \in PushRequest /\ pushes[p].request.booking \in Bookings
    BY <1>10, PushFields, SentFields DEF AbandonPush
  <2> QED BY <1>10, <2>1 DEF AbandonPush, PushTypeOK
<1>11. ASSUME NEW r \in late, Late(r) PROVE PushTypeOK'
  <2>1. r \in PushRequest /\ r.id \in {0} \cup RemoteOf(r.booking) /\ Done(r)
    BY <1>11 DEF Late, PushTypeOK, IdsAreTrue
  <2>2. remote' \in Seq([booking : Bookings, body : Body]) BY <2>1, DoneChanges
  <2> QED BY <1>11, <2>2 DEF Late, PushTypeOK
<1>12. CASE UNCHANGED pushVars BY <1>12 DEF pushVars, PushTypeOK
<1> QED BY <1>1, <1>2, <1>3, <1>4, <1>5, <1>6, <1>7, <1>8, <1>9, <1>10, <1>11, <1>12 DEF PushNext

-----------------------------------------------------------------------------
(* Steps that concern one booking                                            *)

\* What a booking's own state is read from.
SameRow(b) ==
  /\ bookings[b].external = bookings'[b].external
  /\ bookings[b].sync = bookings'[b].sync
  /\ bookings[b].read = bookings'[b].read

SameRemote(b) ==
  RemoteOf(b)' = RemoteOf(b) /\ \A i \in RemoteOf(b) : remote'[i] = remote[i]

Same(b) ==
  /\ SameRow(b) /\ SameRemote(b)
  /\ \A p \in InFlight(b) \cup InFlight(b)' : pushes'[p] = pushes[p]
  /\ \A r \in late' : r \in late \/ r.booking # b

LEMMA SameStays ==
  ASSUME IdsAreTrue, NEW b \in Bookings, Alone(b), Followed(b), Same(b)
  PROVE  Alone(b)' /\ Followed(b)'
<1>1. InFlight(b)' = InFlight(b)
  <2>1. \A p \in Pushes : p \in InFlight(b) => p \in InFlight(b)'
    BY DEF Same, InFlight
  <2>2. \A p \in Pushes : p \in InFlight(b)' => p \in InFlight(b)
    BY DEF Same, InFlight
  <2> QED BY <2>1, <2>2 DEF InFlight
<1>2. \A p \in InFlight(b) : pushes'[p] = pushes[p] BY DEF Same
<1>3. Alone(b)' BY <1>1, <1>2 DEF Alone, Same, SameRow
<1>4. InHand(b)' = InHand(b) BY <1>1, <1>2 DEF InHand, PushAt
<1>5. \A p \in InHand(b) : pushes[p].id \in RemoteOf(b) /\ pushes'[p] = pushes[p]
  BY <1>2 DEF InHand, InFlight, IdsAreTrue
<1>6. bookings[b].external # 0 => bookings[b].external \in RemoteOf(b) BY DEF IdsAreTrue
<1>7. /\ RemoteOf(b)' = RemoteOf(b)
      /\ \A i \in RemoteOf(b) : remote'[i] = remote[i]
      /\ bookings[b].external = bookings'[b].external
      /\ bookings[b].sync = bookings'[b].sync
      /\ bookings[b].read = bookings'[b].read
  BY DEF Same, SameRow, SameRemote
<1>8. /\ \A i, k \in RemoteOf(b)' : i = k
      /\ bookings'[b].external = 0 /\ RemoteOf(b)' # {} => InHand(b)' # {}
  BY <1>4, <1>7 DEF Followed
<1>9. \A p \in InHand(b)' : pushes'[p].request.body = remote'[pushes'[p].id].body
  BY <1>4, <1>5, <1>7 DEF Followed
<1>10. bookings'[b].sync = "synced" =>
         /\ bookings'[b].external # 0
         /\ InHand(b)' = {} => bookings'[b].read = {remote'[bookings'[b].external].body}
  BY <1>4, <1>6, <1>7 DEF Followed
<1> QED BY <1>3, <1>8, <1>9, <1>10 DEF Followed

\* A step about c leaves the others as they are; c is either in order or went astray.
LEMMA OneConcerned ==
  ASSUME PushParameters, PushIInv, PushTypeOK', IdsAreTrue', NEW c,
         astray \subseteq astray', astray' \subseteq astray \cup {c},
         \A b \in Bookings : b # c => Same(b),
         c \notin astray' => Alone(c)' /\ Followed(c)'
  PROVE  PushIInv'
<1>1. ASSUME NEW b \in Bookings, b \notin astray' PROVE Alone(b)' /\ Followed(b)'
  <2>1. CASE b = c BY <1>1, <2>1
  <2>2. CASE b # c
    <3>1. Alone(b) /\ Followed(b) /\ IdsAreTrue BY <1>1 DEF PushIInv
    <3> QED BY <2>2, <3>1, SameStays
  <2> QED BY <2>1, <2>2
<1> QED BY <1>1 DEF PushIInv

\* Ids that were those of remote bookings stay so; those that a step adds must be.
RemoteIn(rem, b) == {i \in DOMAIN rem : rem[i].booking = b}

IdsIn(rows, l, ps, rem) ==
  /\ \A b \in Bookings : rows[b].external \in {0} \cup RemoteIn(rem, b)
  /\ \A r \in l : r.id \in {0} \cup RemoteIn(rem, r.booking)
  /\ \A p \in Pushes : ps[p] # NoPush =>
       /\ ps[p].request.id \in {0} \cup RemoteIn(rem, ps[p].request.booking)
       /\ ps[p].step = "answered" => ps[p].id \in RemoteIn(rem, ps[p].request.booking)

LEMMA IdsRead ==
  /\ IdsAreTrue <=> IdsIn(bookings, late, pushes, remote)
  /\ IdsAreTrue' <=> IdsIn(bookings', late', pushes', remote')
  /\ \A b : RemoteOf(b) = RemoteIn(remote, b) /\ RemoteOf(b)' = RemoteIn(remote', b)
BY DEF IdsAreTrue, IdsIn, RemoteOf, RemoteIn, PushAt

LEMMA IdsStay ==
  ASSUME IdsAreTrue, \A b : RemoteOf(b) \subseteq RemoteOf(b)',
         \A b \in Bookings :
           bookings'[b].external = bookings[b].external
             \/ bookings'[b].external \in RemoteOf(b)',
         \A r \in late' : r \in late
           \/ \E b : r.booking = b /\ r.id \in {0} \cup RemoteOf(b)',
         \A p \in Pushes :
           pushes'[p] = pushes[p] \/ pushes'[p] = NoPush
             \/ \E b : /\ pushes'[p].request.booking = b
                       /\ pushes'[p].request.id \in {0} \cup RemoteOf(b)'
                       /\ pushes'[p].step = "answered" => pushes'[p].id \in RemoteOf(b)'
  PROVE  IdsAreTrue'
<1>1. \A b : RemoteIn(remote, b) \subseteq RemoteIn(remote', b) BY IdsRead
<1>2. IdsIn(bookings, late, pushes, remote) BY IdsRead
<1>3. \A b \in Bookings : bookings'[b].external \in {0} \cup RemoteIn(remote', b)
  BY <1>1, <1>2, IdsRead DEF IdsIn
<1>4. \A r \in late' : r.id \in {0} \cup RemoteIn(remote', r.booking)
  <2> SUFFICES ASSUME NEW r \in late', r \notin late
               PROVE  r.id \in {0} \cup RemoteIn(remote', r.booking)
    BY <1>1, <1>2 DEF IdsIn
  <2>1. PICK b : r.booking = b /\ r.id \in {0} \cup RemoteOf(b)' OBVIOUS
  <2>2. RemoteOf(b)' = RemoteIn(remote', b) BY IdsRead
  <2> QED BY <2>1, <2>2
<1>5. ASSUME NEW p \in Pushes, pushes'[p] # NoPush
      PROVE  /\ pushes'[p].request.id \in {0} \cup RemoteIn(remote', pushes'[p].request.booking)
             /\ pushes'[p].step = "answered" =>
                  pushes'[p].id \in RemoteIn(remote', pushes'[p].request.booking)
  <2>1. CASE pushes'[p] = pushes[p]
    BY <1>1, <1>2, <1>5, <2>1 DEF IdsIn
  <2>2. CASE pushes'[p] # pushes[p]
    <3>1. PICK b : /\ pushes'[p].request.booking = b
                   /\ pushes'[p].request.id \in {0} \cup RemoteOf(b)'
                   /\ pushes'[p].step = "answered" => pushes'[p].id \in RemoteOf(b)'
      BY <1>5, <2>2
    <3>2. RemoteOf(b)' = RemoteIn(remote', b) BY IdsRead
    <3> QED BY <3>1, <3>2
  <2> QED BY <2>1, <2>2
<1> QED BY <1>3, <1>4, <1>5, IdsRead DEF IdsIn

\* What a push in flight asks for.
LEMMA Asks ==
  ASSUME PushTypeOK, IdsAreTrue, NEW p \in Pushes, pushes[p] # NoPush
  PROVE  /\ pushes[p].request \in PushRequest
         /\ pushes[p].request.booking \in Bookings
         /\ pushes[p].request.id \in {0} \cup RemoteOf(pushes[p].request.booking)
         /\ p \in InFlight(pushes[p].request.booking)
         /\ \A b : p \in InFlight(b) => b = pushes[p].request.booking
BY PushFields, SentFields DEF IdsAreTrue, InFlight

-----------------------------------------------------------------------------
(* The tables                                                                *)

LEMMA EditKeeps ==
  ASSUME PushParameters, PushIInv, PushTypeOK', NEW b \in Bookings, Edit(b) \/ Cancel(b)
  PROVE  PushIInv'
<1>1. /\ \A c \in Bookings :
           /\ bookings'[c].external = bookings[c].external
           /\ bookings'[c].sync = bookings[c].sync /\ bookings'[c].read = bookings[c].read
      /\ UNCHANGED <<mapping, remote, pushes, late, pushesBegun, astray>>
  <2>1. \A c \in Bookings : bookings[c] \in Booking BY BookingFields DEF PushIInv
  <2>2. bookings'[b] = [bookings[b] EXCEPT !.version = @ + 1]
          \/ bookings'[b] = [bookings[b] EXCEPT !.gone = TRUE]
    BY DEF Edit, Cancel, PushIInv, PushTypeOK
  <2>3. /\ bookings'[b].external = bookings[b].external
        /\ bookings'[b].sync = bookings[b].sync /\ bookings'[b].read = bookings[b].read
    BY <2>1, <2>2 DEF Booking
  <2>4. \A c \in Bookings : c # b => bookings'[c] = bookings[c]
    BY DEF Edit, Cancel, PushIInv, PushTypeOK
  <2> QED BY <2>3, <2>4 DEF Edit, Cancel
<1>2. \A c : RemoteOf(c)' = RemoteOf(c) BY <1>1 DEF RemoteOf
<1>3. IdsAreTrue' BY <1>1, <1>2, IdsStay DEF PushIInv
<1>4. \A c \in Bookings : Same(c)
  BY <1>1, <1>2 DEF Same, SameRow, SameRemote
<1>5. b \notin astray' => Alone(b)' /\ Followed(b)'
  <2>1. b \notin astray => Alone(b) /\ Followed(b) /\ IdsAreTrue BY DEF PushIInv
  <2> QED BY <1>1, <1>4, <2>1, SameStays
<1> QED BY <1>1, <1>3, <1>4, <1>5, OneConcerned

LEMMA UntouchedKeeps ==
  ASSUME PushParameters, PushIInv, PushTypeOK',
         UNCHANGED <<bookings, remote, pushes, late, astray>>
  PROVE  PushIInv'
<1>1. \A c : RemoteOf(c)' = RemoteOf(c) BY DEF RemoteOf
<1>2. IdsAreTrue' BY <1>1, IdsStay DEF PushIInv
<1>3. \A c \in Bookings : Same(c) BY <1>1 DEF Same, SameRow, SameRemote
<1>4. ASSUME NEW b \in Bookings, b \notin astray' PROVE Alone(b)' /\ Followed(b)'
  <2>1. Alone(b) /\ Followed(b) /\ IdsAreTrue BY <1>4 DEF PushIInv
  <2> QED BY <1>3, <2>1, SameStays
<1> QED BY <1>2, <1>4 DEF PushIInv

-----------------------------------------------------------------------------
(* The pushes                                                                *)

LEMMA BeginKeeps ==
  ASSUME PushParameters, PushIInv, PushTypeOK',
         NEW p \in Pushes, NEW b \in Bookings, BeginPush(p, b)
  PROVE  PushIInv'
<1> USE DEF PushIInv
<1>1. /\ pushes[p] = NoPush
      /\ UNCHANGED <<bookings, remote, late>>
      /\ astray' = IF InFlight(b) # {} THEN astray \cup {b} ELSE astray
  BY DEF BeginPush
<1>2. PICK body :
        pushes' = [pushes EXCEPT ![p] =
          [step |-> "sent",
           request |-> [booking |-> b, id |-> bookings[b].external, body |-> body]]]
  BY DEF BeginPush
<1>3. /\ pushes'[p].step = "sent" /\ pushes'[p].request.booking = b
      /\ pushes'[p].request.id = bookings[b].external
      /\ \A q \in Pushes : q # p => pushes'[q] = pushes[q]
  BY <1>2 DEF PushTypeOK
<1>4. \A c : RemoteOf(c)' = RemoteOf(c) BY <1>1 DEF RemoteOf
<1>5. IdsAreTrue'
  <2>1. bookings[b].external \in {0} \cup RemoteOf(b)' BY <1>4 DEF IdsAreTrue
  <2>2. \E c : /\ pushes'[p].request.booking = c
               /\ pushes'[p].request.id \in {0} \cup RemoteOf(c)'
               /\ pushes'[p].step = "answered" => pushes'[p].id \in RemoteOf(c)'
    BY <1>3, <2>1
  <2> QED BY <1>1, <1>3, <1>4, <2>2, IdsStay
<1>6. ASSUME NEW c \in Bookings, c # b PROVE Same(c)
  <2>1. p \notin InFlight(c) /\ p \notin InFlight(c)' BY <1>1, <1>3, <1>6 DEF InFlight
  <2>2. \A q \in InFlight(c) \cup InFlight(c)' : pushes'[q] = pushes[q]
    BY <1>3, <2>1 DEF InFlight
  <2> QED BY <1>1, <1>4, <2>2 DEF Same, SameRow, SameRemote
<1>7. b \notin astray' => Alone(b)' /\ Followed(b)'
  <2> SUFFICES ASSUME b \notin astray' PROVE Alone(b)' /\ Followed(b)'
    OBVIOUS
  <2>1. b \notin astray /\ InFlight(b) = {} BY <1>1
  <2>2. InFlight(b)' \subseteq {p} BY <1>3, <2>1 DEF InFlight
  <2>3. Alone(b) /\ Followed(b) BY <2>1
  <2>4. Alone(b)' BY <1>1, <1>3, <2>2, <2>3 DEF Alone
  <2>5. InHand(b)' = {} BY <1>3, <2>2 DEF InHand, PushAt
  <2>6. InHand(b) = {} BY <2>1 DEF InHand
  <2> QED BY <1>1, <1>4, <2>3, <2>4, <2>5, <2>6 DEF Followed
<1>8. astray \subseteq astray' /\ astray' \subseteq astray \cup {b} BY <1>1
<1> QED BY <1>5, <1>6, <1>7, <1>8, OneConcerned

\* MotoPress does what a request of c asked for; the push of c that sent it, if any,
\* gets its answer.
LEMMA AnsweredKeeps ==
  ASSUME PushParameters, PushIInv, PushTypeOK', NEW p \in Pushes, PushAnswered(p)
  PROVE  PushIInv'
<1> USE DEF PushIInv
<1>0. PICK r, b, i : /\ r = pushes[p].request /\ b = r.booking
                     /\ i = IF r.id = 0 THEN Len(remote) + 1 ELSE r.id
  OBVIOUS
<1>1. /\ pushes[p] # NoPush /\ pushes[p].step = "sent" /\ Done(r)
      /\ pushes' = [pushes EXCEPT ![p] = [step |-> "answered", request |-> r, id |-> i]]
      /\ UNCHANGED <<bookings, late, astray>>
  BY <1>0 DEF PushAnswered, PushAt
<1>2. /\ r \in PushRequest /\ b \in Bookings /\ r.id \in {0} \cup RemoteOf(b)
      /\ p \in InFlight(b)
      /\ \A c : p \in InFlight(c) => c = b
  BY <1>0, <1>1, Asks
<1>4. /\ pushes'[p].step = "answered" /\ pushes'[p].request = r /\ pushes'[p].id = i
      /\ \A q \in Pushes : q # p => pushes'[q] = pushes[q]
  BY <1>1 DEF PushTypeOK
<1>5. /\ \A c : RemoteOf(c) \subseteq RemoteOf(c)'
      /\ \A c : c # b => /\ RemoteOf(c)' = RemoteOf(c)
                         /\ \A k \in RemoteOf(c) : remote'[k] = remote[k]
      /\ i \in Nat \ {0} /\ remote'[i].body = r.body
      /\ RemoteOf(b)' = RemoteOf(b) \cup {i}
  <2>1. /\ PushTypeOK /\ r \in PushRequest /\ r.id \in {0} \cup RemoteOf(r.booking) /\ Done(r)
        /\ i = IF r.id = 0 THEN Len(remote) + 1 ELSE r.id
    BY <1>0, <1>1, <1>2
  <2>2. r.booking = b BY <1>0
  <2> HIDE DEF PushIInv
  <2> QED BY <2>1, <2>2, DoneChanges
<1>6. IdsAreTrue'
  <2>1. r.id \in {0} \cup RemoteOf(b)' /\ i \in RemoteOf(b)' BY <1>2, <1>5
  <2>2. \E c : /\ pushes'[p].request.booking = c
               /\ pushes'[p].request.id \in {0} \cup RemoteOf(c)'
               /\ pushes'[p].step = "answered" => pushes'[p].id \in RemoteOf(c)'
    BY <1>0, <1>4, <2>1
  <2> QED BY <1>1, <1>4, <1>5, <2>2, IdsStay
<1>7. ASSUME NEW c \in Bookings, c # b PROVE Same(c)
  <2>1. p \notin InFlight(c) /\ p \notin InFlight(c)'
    BY <1>0, <1>2, <1>4, <1>7 DEF InFlight
  <2>2. \A q \in InFlight(c) \cup InFlight(c)' : pushes'[q] = pushes[q]
    BY <1>4, <2>1 DEF InFlight
  <2> QED BY <1>1, <1>5, <1>7, <2>2 DEF Same, SameRow, SameRemote
<1>8. b \notin astray' => Alone(b)' /\ Followed(b)'
  <2> SUFFICES ASSUME b \notin astray' PROVE Alone(b)' /\ Followed(b)'
    OBVIOUS
  <2>1. Alone(b) /\ Followed(b) BY <1>1, <1>2
  <2>2. InFlight(b) = {p} BY <1>2, <2>1 DEF Alone
  <2>3. \A q \in Pushes : q \in InFlight(b)' <=> q = p
    <3>1. \A q \in Pushes : q # p => (q \in InFlight(b)' <=> q \in InFlight(b))
      BY <1>4 DEF InFlight
    <3>2. p \in InFlight(b)'
      <4>1. pushes'[p] # NoPush
        <5>1. pushes'[p] \in Push
          <6>1. [step |-> "answered", request |-> r, id |-> i] \in Push
            BY <1>2, <1>5, PushesTyped
          <6> QED BY <1>1, <6>1 DEF PushTypeOK
        <5> QED BY <5>1 DEF PushParameters
      <4> QED BY <1>0, <1>4, <4>1 DEF InFlight
    <3> QED BY <2>2, <3>1, <3>2
  <2>4. InFlight(b)' = {p} BY <2>3 DEF InFlight
  <2>5. InHand(b)' = {p} /\ InHand(b) = {}
    BY <1>1, <1>4, <2>2, <2>4, <2>3 DEF InHand, PushAt, InFlight
  <2>6. r.id = bookings[b].external BY <1>0, <2>1, <2>2 DEF Alone
  <2>7. Alone(b)' BY <1>1, <1>4, <2>1, <2>4, <2>6 DEF Alone
  <2>8. RemoteOf(b)' = {i} /\ (r.id # 0 => r.id = i)
    <3>1. CASE r.id = 0
      <4>1. RemoteOf(b) = {} BY <2>1, <2>5, <2>6, <3>1 DEF Followed
      <4> QED BY <1>5, <3>1, <4>1
    <3>2. CASE r.id # 0
      <4>1. i = r.id /\ i \in RemoteOf(b) BY <1>2, <1>0, <3>2
      <4>2. RemoteOf(b) = {i} BY <2>1, <4>1 DEF Followed
      <4> QED BY <1>5, <4>1, <4>2
    <3> QED BY <3>1, <3>2
  <2> QED BY <1>1, <1>4, <1>5, <2>1, <2>5, <2>7, <2>8 DEF Followed
<1> QED BY <1>1, <1>6, <1>7, <1>8, OneConcerned

\* The backend loses sight of a push.
LEMMA LostKeeps ==
  ASSUME PushParameters, PushIInv, PushTypeOK', NEW p \in Pushes,
         PushTimedOut(p) \/ CommitPushFails(p) \/ AbandonPush(p)
  PROVE  PushIInv'
<1> USE DEF PushIInv
<1>0. PICK r, b : r = pushes[p].request /\ b = r.booking OBVIOUS
<1>1. /\ pushes[p] # NoPush /\ UNCHANGED <<bookings, remote>> /\ astray' = astray \cup {b}
      /\ \A q \in late' : q \in late \/ q = r
      /\ \A q \in Pushes : q # p => pushes'[q] = pushes[q]
  BY <1>0 DEF PushTimedOut, CommitPushFails, AbandonPush, PushAt, PushTypeOK
<1>2. r \in PushRequest /\ b \in Bookings /\ r.id \in {0} \cup RemoteOf(b)
      /\ \A c : p \in InFlight(c) => c = b
  BY <1>0, <1>1, Asks
<1>3. pushes'[p] = NoPush \/ (pushes'[p].step = "threw" /\ pushes'[p].request = r)
  <2>1. pushes[p] \in Push BY <1>1, PushFields
  <2>2. PushTimedOut(p) => pushes'[p].step = "threw" /\ pushes'[p].request = r
    BY <1>0, <1>1, <2>1 DEF PushTimedOut, PushTypeOK, Push
  <2>3. CommitPushFails(p) => pushes'[p].step = "threw" /\ pushes'[p].request = r
    BY <1>0 DEF CommitPushFails, PushTypeOK
  <2>4. AbandonPush(p) => pushes'[p] = NoPush BY DEF AbandonPush, PushTypeOK
  <2> QED BY <2>2, <2>3, <2>4
<1>4. \A c : RemoteOf(c)' = RemoteOf(c) BY <1>1 DEF RemoteOf
<1>5. IdsAreTrue'
  <2>1. \A q \in late' : q \in late \/ \E c : q.booking = c /\ q.id \in {0} \cup RemoteOf(c)'
    BY <1>0, <1>1, <1>2, <1>4
  <2>2. pushes'[p] = NoPush \/ \E c : /\ pushes'[p].request.booking = c
                                    /\ pushes'[p].request.id \in {0} \cup RemoteOf(c)'
                                    /\ pushes'[p].step # "answered"
    BY <1>0, <1>2, <1>3, <1>4
  <2> QED BY <1>1, <1>4, <2>1, <2>2, IdsStay
<1>6. ASSUME NEW c \in Bookings, c # b PROVE Same(c)
  <2>1. p \notin InFlight(c) /\ p \notin InFlight(c)'
    BY <1>0, <1>2, <1>3, <1>6 DEF InFlight
  <2>2. \A q \in InFlight(c) \cup InFlight(c)' : pushes'[q] = pushes[q]
    BY <1>1, <2>1 DEF InFlight
  <2> QED BY <1>0, <1>1, <1>4, <1>6, <2>2 DEF Same, SameRow, SameRemote
<1> QED BY <1>1, <1>5, <1>6, OneConcerned

LEMMA RefusedKeeps ==
  ASSUME PushParameters, PushIInv, PushTypeOK', NEW p \in Pushes, PushRefused(p)
  PROVE  PushIInv'
<1> USE DEF PushIInv
<1>0. PICK r, b : r = pushes[p].request /\ b = r.booking OBVIOUS
<1>1. /\ pushes[p] # NoPush /\ pushes[p].step = "sent"
      /\ UNCHANGED <<bookings, remote, late, astray>>
      /\ \A q \in Pushes : q # p => pushes'[q] = pushes[q]
  BY DEF PushRefused, PushAt, PushTypeOK
<1>2. b \in Bookings /\ r.id \in {0} \cup RemoteOf(b) /\ p \in InFlight(b)
     
      /\ \A c : p \in InFlight(c) => c = b
  BY <1>0, <1>1, Asks
<1>3. pushes'[p].step = "threw" /\ pushes'[p].request = r
  <2>1. pushes[p] \in Push BY <1>1, PushFields
  <2> QED BY <1>0, <1>1, <2>1 DEF PushRefused, PushTypeOK, Push
<1>4. \A c : RemoteOf(c)' = RemoteOf(c) BY <1>1 DEF RemoteOf
<1>5. IdsAreTrue'
  <2>1. \E c : /\ pushes'[p].request.booking = c
               /\ pushes'[p].request.id \in {0} \cup RemoteOf(c)'
               /\ pushes'[p].step # "answered"
    BY <1>0, <1>2, <1>3, <1>4
  <2> QED BY <1>1, <1>4, <2>1, IdsStay
<1>6. ASSUME NEW c \in Bookings, c # b PROVE Same(c)
  <2>1. p \notin InFlight(c) /\ p \notin InFlight(c)'
    BY <1>0, <1>2, <1>3, <1>6 DEF InFlight
  <2>2. \A q \in InFlight(c) \cup InFlight(c)' : pushes'[q] = pushes[q]
    BY <1>1, <2>1 DEF InFlight
  <2> QED BY <1>1, <1>4, <2>2 DEF Same, SameRow, SameRemote
<1>7. b \notin astray' => Alone(b)' /\ Followed(b)'
  <2> SUFFICES ASSUME b \notin astray' PROVE Alone(b)' /\ Followed(b)'
    OBVIOUS
  <2>1. Alone(b) /\ Followed(b) BY <1>1, <1>2
  <2>2. InFlight(b)' \subseteq InFlight(b) BY <1>1, <1>2 DEF InFlight
  <2>3. InFlight(b) = {p} /\ r.id = bookings[b].external
    BY <1>0, <1>2, <2>1 DEF Alone
  <2>4. Alone(b)'
    <3>1. \A q \in InFlight(b)' : q = p BY <2>2, <2>3
    <3>2. \A q \in late : q.booking # b BY <2>1 DEF Alone
    <3> QED BY <1>1, <1>3, <2>3, <3>1, <3>2 DEF Alone
  <2>5. InHand(b)' = {} /\ InHand(b) = {}
    BY <1>1, <1>3, <2>2, <2>3 DEF InHand, PushAt
  <2> QED BY <1>1, <1>4, <2>1, <2>4, <2>5 DEF Followed
<1> QED BY <1>1, <1>5, <1>6, <1>7, OneConcerned

\* The push ends: the id and the content are stored, or that it failed.
LEMMA EndKeeps ==
  ASSUME PushParameters, PushIInv, PushTypeOK', NEW p \in Pushes, CommitPush(p) \/ FailPush(p)
  PROVE  PushIInv'
<1> USE DEF PushIInv
<1>0. PICK r, b : r = pushes[p].request /\ b = r.booking OBVIOUS
<1>1. /\ pushes[p] # NoPush /\ UNCHANGED <<remote, late, astray>>
      /\ pushes'[p] = NoPush
      /\ \A q \in Pushes : q # p => pushes'[q] = pushes[q]
      /\ \A c \in Bookings : c # b => bookings'[c] = bookings[c]
  BY <1>0 DEF CommitPush, FailPush, PushAt, PushTypeOK
<1>2. r \in PushRequest /\ b \in Bookings /\ p \in InFlight(b)
      /\ \A c : p \in InFlight(c) => c = b
  BY <1>0, <1>1, Asks
<1>3. \/ /\ pushes[p].step = "answered" /\ bookings'[b].external = pushes[p].id
         /\ bookings'[b].sync = "synced" /\ bookings'[b].read = {r.body}
      \/ /\ pushes[p].step = "threw" /\ bookings'[b].external = bookings[b].external
         /\ bookings'[b].sync = "failed"
  <2>1. bookings[b] \in Booking BY <1>2, BookingFields
  <2>2. CASE CommitPush(p)
    <3>1. bookings'[b] = Synced(bookings[b], pushes[p])
      BY <1>0, <1>2, <2>2 DEF CommitPush, PushTypeOK
    <3>2. /\ Synced(bookings[b], pushes[p]).external = pushes[p].id
          /\ Synced(bookings[b], pushes[p]).sync = "synced"
          /\ Synced(bookings[b], pushes[p]).read = {r.body}
      BY <1>0, <2>1 DEF Synced, Booking
    <3> QED BY <2>2, <3>1, <3>2 DEF CommitPush, PushAt
  <2>3. CASE FailPush(p)
    <3>1. bookings'[b] = [bookings[b] EXCEPT !.sync = "failed"]
      BY <1>0, <1>2, <2>3 DEF FailPush, PushTypeOK
    <3> QED BY <2>1, <2>3, <3>1 DEF FailPush, PushAt, Booking
  <2> QED BY <2>2, <2>3
<1>4. \A c : RemoteOf(c)' = RemoteOf(c) BY <1>1 DEF RemoteOf
<1>5. pushes[p].step = "answered" => pushes[p].id \in RemoteOf(b)
  BY <1>0, <1>1 DEF IdsAreTrue, PushAt
<1>6. IdsAreTrue'
  <2>1. bookings'[b].external = bookings[b].external \/ bookings'[b].external \in RemoteOf(b)'
    BY <1>3, <1>4, <1>5
  <2> QED BY <1>1, <1>4, <2>1, IdsStay
<1>7. ASSUME NEW c \in Bookings, c # b PROVE Same(c)
  <2>1. p \notin InFlight(c) /\ p \notin InFlight(c)' BY <1>1, <1>2, <1>7 DEF InFlight
  <2>2. \A q \in InFlight(c) \cup InFlight(c)' : pushes'[q] = pushes[q]
    BY <1>1, <2>1 DEF InFlight
  <2> QED BY <1>1, <1>4, <1>7, <2>2 DEF Same, SameRow, SameRemote
<1>8. b \notin astray' => Alone(b)' /\ Followed(b)'
  <2> SUFFICES ASSUME b \notin astray' PROVE Alone(b)' /\ Followed(b)'
    OBVIOUS
  <2>1. Alone(b) /\ Followed(b) BY <1>1, <1>2
  <2>2. InFlight(b) = {p} BY <1>2, <2>1 DEF Alone
  <2>3. InFlight(b)' = {}
    <3>1. \A q \in Pushes : q \in InFlight(b)' => q \in InFlight(b) /\ q # p
      BY <1>1 DEF InFlight
    <3> QED BY <2>2, <3>1 DEF InFlight
  <2>4. Alone(b)' BY <1>1, <2>1, <2>3 DEF Alone
  <2>5. InHand(b)' = {} BY <2>3 DEF InHand
  <2>6. /\ \A i, k \in RemoteOf(b)' : i = k
        /\ bookings'[b].external # 0 \/ RemoteOf(b)' = {}
        /\ bookings'[b].sync = "synced" =>
             /\ bookings'[b].external # 0
             /\ bookings'[b].read = {remote'[bookings'[b].external].body}
    <3>1. \A i, k \in RemoteOf(b)' : i = k BY <1>4, <2>1 DEF Followed
    <3>2. CASE pushes[p].step = "answered"
      <4>1. p \in InHand(b) /\ pushes[p].id # 0
        BY <1>1, <1>2, <3>2, PushFields DEF InHand, PushAt
      <4>2. r.body = remote[pushes[p].id].body BY <1>0, <2>1, <4>1 DEF Followed
      <4> QED BY <1>1, <1>3, <3>1, <3>2, <4>1, <4>2
    <3>3. CASE pushes[p].step = "threw"
      <4>1. InHand(b) = {} BY <2>2, <3>3 DEF InHand, PushAt
      <4> QED BY <1>3, <1>4, <2>1, <3>1, <3>3, <4>1 DEF Followed
    <3> QED BY <1>3, <3>2, <3>3
  <2> QED BY <2>4, <2>5, <2>6 DEF Followed
<1> QED BY <1>1, <1>6, <1>7, <1>8, OneConcerned

\* MotoPress does late what nobody waits for: that booking went astray before.
LEMMA LateKeeps ==
  ASSUME PushParameters, PushIInv, PushTypeOK', NEW r \in late, Late(r)
  PROVE  PushIInv'
<1> USE DEF PushIInv
<1>0. PICK b, i : b = r.booking /\ i = IF r.id = 0 THEN Len(remote) + 1 ELSE r.id
  OBVIOUS
<1>1. Done(r) /\ late' \subseteq late /\ UNCHANGED <<bookings, pushes, astray>>
  BY DEF Late
<1>2. r \in PushRequest /\ b \in Bookings /\ r.id \in {0} \cup RemoteOf(b)
  BY <1>0, SentFields DEF PushTypeOK, IdsAreTrue
<1>3. /\ \A c : RemoteOf(c) \subseteq RemoteOf(c)'
      /\ \A c : c # b => /\ RemoteOf(c)' = RemoteOf(c)
                         /\ \A k \in RemoteOf(c) : remote'[k] = remote[k]
  BY <1>0, <1>1, <1>2, DoneChanges
<1>4. IdsAreTrue' BY <1>1, <1>3, IdsStay
<1>5. \A c \in Bookings : c # b => Same(c)
  BY <1>1, <1>3 DEF Same, SameRow, SameRemote
<1>6. b \in astray' BY <1>0, <1>1, <1>2 DEF Alone
<1> QED BY <1>1, <1>4, <1>5, <1>6, OneConcerned

-----------------------------------------------------------------------------
(* The invariant and what it shows                                           *)

LEMMA PushInitHolds == PushParameters /\ PushInit => PushIInv
<1> SUFFICES ASSUME PushParameters, PushInit PROVE PushIInv
  OBVIOUS
<1> USE DEF PushInit, PushParameters
<1>1. PushTypeOK
  <2>1. bookings \in [Bookings -> Booking] BY DEF Booking
  <2> QED BY <2>1 DEF PushTypeOK
<1>2. IdsAreTrue BY DEF IdsAreTrue, PushAt
<1>3. \A b \in Bookings : Alone(b) BY DEF Alone, InFlight
<1>4. \A b \in Bookings : Followed(b) BY DEF Followed, RemoteOf, InHand, InFlight
<1> QED BY <1>1, <1>2, <1>3, <1>4 DEF PushIInv

LEMMA PushStep == PushParameters /\ PushIInv /\ [PushNext]_pushVars => PushIInv'
<1> SUFFICES ASSUME PushParameters, PushIInv, [PushNext]_pushVars PROVE PushIInv'
  OBVIOUS
<1>1. PushTypeOK' BY PushTypesKept DEF PushIInv
<1>2. ASSUME NEW b \in Bookings, Edit(b) \/ Cancel(b) PROVE PushIInv' BY <1>1, <1>2, EditKeeps
<1>3. ASSUME NEW a \in Accommodations \cup {Unmapped}, Map(a) PROVE PushIInv'
  BY <1>1, <1>3, UntouchedKeeps DEF Map
<1>4. ASSUME NEW p \in Pushes, NEW b \in Bookings, BeginPush(p, b) PROVE PushIInv'
  BY <1>1, <1>4, BeginKeeps
<1>5. ASSUME NEW p \in Pushes,
             \/ PushAnswered(p) \/ PushRefused(p) \/ PushTimedOut(p)
             \/ CommitPush(p) \/ CommitPushFails(p) \/ FailPush(p) \/ AbandonPush(p)
      PROVE  PushIInv'
  BY <1>1, <1>5, AnsweredKeeps, RefusedKeeps, LostKeeps, EndKeeps
<1>6. ASSUME NEW r \in late, Late(r) PROVE PushIInv' BY <1>1, <1>6, LateKeeps
<1>7. CASE UNCHANGED pushVars BY <1>1, <1>7, UntouchedKeeps DEF pushVars
<1> QED BY <1>2, <1>3, <1>4, <1>5, <1>6, <1>7 DEF PushNext

LEMMA PushMeans == PushParameters /\ PushIInv => PushSound
<1> SUFFICES ASSUME PushIInv PROVE PushSound
  OBVIOUS
<1> USE DEF PushIInv
<1>1. OneRemoteBooking BY DEF OneRemoteBooking, IdsAreTrue, Followed
<1>2. SyncedIsShown
  <2> SUFFICES ASSUME NEW b \in Bookings, b \notin astray,
                      bookings[b].sync = "synced", InFlight(b) = {}
               PROVE  /\ bookings[b].external # 0
                      /\ bookings[b].read = {remote[bookings[b].external].body}
    BY DEF SyncedIsShown
  <2>1. InHand(b) = {} BY DEF InHand
  <2> QED BY <2>1 DEF Followed
<1> QED BY <1>1, <1>2 DEF PushSound

\* However pushes meet edits, errors, timeouts and late answers, a booking that
\* none of these led astray has one remote booking, with the content that was
\* pushed last (booking-sync.service.ts:23-165).
THEOREM PushIsSound == PushSpec => []PushSound
<1>1. PushSpec => []PushIInv BY PushInitHolds, PushStep, PushAssumption, PTL DEF PushSpec
<1>2. PushIInv => PushSound BY PushMeans, PushAssumption
<1> QED BY <1>1, <1>2, PTL

-----------------------------------------------------------------------------
(* Induction over the items of a catalog                                     *)

\* Strict inclusion is well-founded on the finite initial segments of Nat.
LEMMA LeastNumber ==
  ASSUME NEW T \in SUBSET Nat, T # {}
  PROVE  \E x \in T : \A y \in T : x <= y
<1> DEFINE F == {0..x : x \in T}
<1>1. F \subseteq FiniteSubsetsOf(Nat) /\ F # {}
  <2>1. \A x \in T : 0..x \in SUBSET Nat /\ IsFiniteSet(0..x)
    BY FS_Interval
  <2> QED BY <2>1 DEF FiniteSubsetsOf
<1> HIDE DEF F
<1>2. PICK S \in F : \A U \in F : <<U, S>> \notin StrictSubsetOrdering(Nat)
  BY <1>1, FS_StrictSubsetOrderingWellFounded, WFMin
<1>3. PICK x \in T : S = 0..x BY DEF F
<1>4. ASSUME NEW y \in T, y < x PROVE FALSE
  <2>1. 0..y \in F BY DEF F
  <2>2. 0..y \subseteq 0..x /\ 0..y # 0..x BY <1>4
  <2>3. 0..y \in SUBSET Nat /\ 0..x \in SUBSET Nat OBVIOUS
  <2>4. <<0..y, 0..x>> \in (SUBSET Nat) \X (SUBSET Nat) BY <2>3
  <2>5. <<0..y, 0..x>> \in StrictSubsetOrdering(Nat)
    BY <2>2, <2>4 DEF StrictSubsetOrdering
  <2> QED BY <1>2, <1>3, <2>1, <2>5
<1> QED BY <1>4

\* The least of a set of numbers is in it.
LEMMA LeastIsIn ==
  ASSUME NEW T \in SUBSET Nat, T # {}
  PROVE  Min(T) \in T /\ \A x \in T : Min(T) <= x
BY LeastNumber DEF Min

\* Whatever a set of numbers holds of all, it holds of by induction.
LEMMA NumbersInduct ==
  ASSUME NEW n \in Nat, NEW T, 0 \in T, \A i \in 1..n : i - 1 \in T => i \in T
  PROVE  \A i \in 0..n : i \in T
<1> DEFINE U == {i \in 0..n : i \notin T}
<1>1. SUFFICES ASSUME U # {} PROVE FALSE OBVIOUS
<1>2. PICK x \in U : \A y \in U : x <= y
  <2>1. U \in SUBSET Nat OBVIOUS
  <2> HIDE DEF U
  <2> QED BY <1>1, <2>1, LeastNumber
<1>3. x \in 1..n /\ x - 1 \in 0..n OBVIOUS
<1>4. x - 1 \notin U BY <1>2, <1>3
<1> QED BY <1>3, <1>4

\* The items can be gone through: a table of the results exists.
LEMMA ProgressExists ==
  ASSUME NEW d, NEW cat, NEW link, NEW n \in Nat
  PROVE  \E f : f = [i \in 0..n |-> IF i = 0 THEN Started(d, link) ELSE ImportItem(f[i - 1], cat, i)]
<1> DEFINE IsTable(f, k) ==
             f = [i \in 0..k |-> IF i = 0 THEN Started(d, link) ELSE ImportItem(f[i - 1], cat, i)]
           T == {k \in 0..n : \E f : IsTable(f, k)}
<1>1. 0 \in T
  <2> DEFINE f == [i \in 0..0 |-> Started(d, link)]
  <2>1. IsTable(f, 0) OBVIOUS
  <2> HIDE DEF IsTable, f
  <2>2. \E h : IsTable(h, 0) BY <2>1
  <2> QED BY <2>2
<1>2. ASSUME NEW k \in 1..n, k - 1 \in T PROVE k \in T
  <2>1. PICK f : IsTable(f, k - 1) BY <1>2
  <2> DEFINE g == [i \in 0..k |-> IF i = k THEN ImportItem(f[k - 1], cat, k) ELSE f[i]]
  <2>2. ASSUME NEW i \in 0..k
        PROVE  g[i] = IF i = 0 THEN Started(d, link) ELSE ImportItem(g[i - 1], cat, i)
    <3>1. CASE i = k
      <4>1. i # 0 /\ k - 1 \in 0..k /\ k - 1 # k BY <3>1
      <4>2. g[k - 1] = f[k - 1] BY <4>1
      <4> QED BY <3>1, <4>1, <4>2
    <3>2. CASE i # k
      <4>1. i \in 0..(k - 1) /\ g[i] = f[i] BY <3>2
      <4>2. f[i] = IF i = 0 THEN Started(d, link) ELSE ImportItem(f[i - 1], cat, i) BY <2>1, <4>1
      <4>3. i # 0 => g[i - 1] = f[i - 1] BY <3>2
      <4> QED BY <4>1, <4>2, <4>3
    <3> QED BY <3>1, <3>2
  <2>3. IsTable(g, k)
    <3> DEFINE h == [i \in 0..k |-> IF i = 0 THEN Started(d, link) ELSE ImportItem(g[i - 1], cat, i)]
    <3>1. \A i \in 0..k : g[i] = h[i] BY <2>2
    <3>2. g = h BY <3>1
    <3> QED BY <3>2
  <2> HIDE DEF IsTable, g
  <2>4. \E h : IsTable(h, k) BY <2>3
  <2> QED BY <2>4
<1>3. n \in 0..n /\ \A i \in 0..n : i \in T
  <2> HIDE DEF T
  <2> QED BY <1>1, <1>2, NumbersInduct
<1> QED BY <1>3

\* Each item is imported on what the ones before it left.
LEMMA ProgressSteps ==
  ASSUME NEW d, NEW cat, NEW link, Items(cat) \in Nat
  PROVE  /\ Progress(d, cat, link)[0] = Started(d, link)
         /\ \A i \in 1..Items(cat) :
              Progress(d, cat, link)[i] = ImportItem(Progress(d, cat, link)[i - 1], cat, i)
<1> DEFINE p == Progress(d, cat, link)
<1>1. p = [i \in 0..Items(cat) |-> IF i = 0 THEN Started(d, link) ELSE ImportItem(p[i - 1], cat, i)]
  BY ProgressExists DEF Progress
<1> HIDE DEF p
<1>2. p[0] = Started(d, link) BY <1>1
<1>3. ASSUME NEW i \in 1..Items(cat) PROVE p[i] = ImportItem(p[i - 1], cat, i)
  <2>1. i \in 0..Items(cat) /\ i # 0 OBVIOUS
  <2> QED BY <1>1, <2>1
<1> QED BY <1>2, <1>3 DEF p

-----------------------------------------------------------------------------
(* Names                                                                     *)

\* The title, alone or with one of its suffixes.
IsNamed(name, title, by) == \E n \in 0..Tries : name = Numbered(title, by, n)

\* A name that was found is a name, and no other row has it.
LEMMA FoundNameIsFree ==
  ASSUME NEW table, NEW title \in Titles, NEW by \in Nat, NEW self,
         FreeNumbers(table, title, by, self) # {}
  PROVE  /\ resolveUniqueName(table, title, by, self) \in Name
         /\ resolveUniqueName(table, title, by, self).title = title
         /\ IsNamed(resolveUniqueName(table, title, by, self), title, by)
         /\ Named(table, resolveUniqueName(table, title, by, self)) \subseteq {self}
<1> DEFINE free == FreeNumbers(table, title, by, self)
<1>1. Tries \in Nat BY ImportAssumption DEF ImportParameters
<1>2. free \in SUBSET Nat BY <1>1 DEF FreeNumbers
<1>3. Min(free) \in free BY <1>2, LeastIsIn
<1>4. Min(free) \in 0..Tries /\ Named(table, Numbered(title, by, Min(free))) \subseteq {self}
  BY <1>3 DEF FreeNumbers
<1> DEFINE n == Min(free)
<1>5. /\ Numbered(title, by, n) \in Name /\ Numbered(title, by, n).title = title
      /\ IsNamed(Numbered(title, by, n), title, by)
  <2> HIDE DEF n
  <2> QED BY <1>4 DEF n, Numbered, Name, IsNamed
<1> QED BY <1>4, <1>5 DEF resolveUniqueName

\* Names stay unique when a row gets one that no other has.
LEMMA NamesStayUnique ==
  ASSUME NEW I, NEW R, None \notin R, NEW table \in [I -> R \cup {None}], UniqueNames(table),
         NEW i \in I, NEW row \in R, Named(table, row.name) \subseteq {i}
  PROVE  UniqueNames([table EXCEPT ![i] = row])
<1> DEFINE new == [table EXCEPT ![i] = row]
<1>1. SUFFICES ASSUME NEW j \in Used(new), NEW k \in Used(new), new[j].name = new[k].name
               PROVE  j = k
  BY DEF UniqueNames
<1>2. j \in I /\ k \in I BY DEF Used
<1>3. CASE j = i /\ k # i
  <2>1. table[k].name = row.name /\ k \in Used(table) BY <1>1, <1>2, <1>3 DEF Used
  <2> QED BY <1>3, <2>1 DEF Named
<1>4. CASE k = i /\ j # i
  <2>1. table[j].name = row.name /\ j \in Used(table) BY <1>1, <1>2, <1>4 DEF Used
  <2> QED BY <1>4, <2>1 DEF Named
<1>5. CASE j # i /\ k # i
  <2>1. j \in Used(table) /\ k \in Used(table) /\ table[j].name = table[k].name
    BY <1>1, <1>2, <1>5 DEF Used
  <2> QED BY <2>1 DEF UniqueNames
<1> QED BY <1>3, <1>4, <1>5

\* The id of a new row is that of none yet.
LEMMA FreshIsUnused ==
  ASSUME NEW table, Fresh(table) # None
  PROVE  Fresh(table) \in DOMAIN table /\ table[Fresh(table)] = None
<1>1. Used(table) # DOMAIN table BY DEF Fresh
<1>2. \E i \in DOMAIN table : table[i] = None BY <1>1 DEF Used
<1> QED BY <1>1, <1>2 DEF Fresh

-----------------------------------------------------------------------------
(* One item                                                                  *)

\* The tables in the middle of an import, with links for the ids in L.
MidState(L) ==
  [types : [TypeIds -> TypeRow \cup {None}], rooms : [RoomIds -> RoomRow \cup {None}],
   mappings : SUBSET Mapping, link : [L -> TypeIds \cup {None}], ok : BOOLEAN]

LinksUsed(s) == \A y \in DOMAIN s.link : s.link[y] # None => s.types[s.link[y]] # None

MidSound(s, L) == s \in MidState(L) /\ Keys(s) /\ LinksUsed(s)

\* A type's row is one it is linked to, the one with its title, or a new one.
LEMMA LocalTypeFound ==
  ASSUME NEW L, NEW s \in MidState(L), LinksUsed(s), NEW x \in TypeItem, x.id \in L,
         LocalType(s, x) # None
  PROVE  /\ LocalType(s, x) \in TypeIds
         /\ s.link[x.id] # None =>
              LocalType(s, x) = s.link[x.id] /\ LocalType(s, x) \in Used(s.types)
         /\ s.link[x.id] = None =>
              \/ LocalType(s, x) \in Named(s.types, Plain(x.title))
              \/ Named(s.types, Plain(x.title)) = {} /\ s.types[LocalType(s, x)] = None
<1>1. s.types \in [TypeIds -> TypeRow \cup {None}] /\ s.link \in [L -> TypeIds \cup {None}]
  BY DEF MidState
<1>2. CASE s.link[x.id] # None
  <2>1. LocalType(s, x) = s.link[x.id] BY <1>2 DEF LocalType
  <2> QED BY <1>1, <1>2, <2>1 DEF LinksUsed, Used
<1>3. CASE s.link[x.id] = None /\ Named(s.types, Plain(x.title)) # {}
  <2>1. LocalType(s, x) \in Named(s.types, Plain(x.title)) BY <1>3 DEF LocalType
  <2> QED BY <1>1, <1>3, <2>1 DEF Named, Used
<1>4. CASE s.link[x.id] = None /\ Named(s.types, Plain(x.title)) = {}
  <2>1. LocalType(s, x) = Fresh(s.types) BY <1>4 DEF LocalType
  <2> QED BY <1>1, <1>4, <2>1, FreshIsUnused
<1> QED BY <1>2, <1>3, <1>4

\* Two fields of a record replaced.
LEMMA TwoFields ==
  ASSUME NEW L, NEW s \in MidState(L), NEW A, NEW B
  PROVE  [s EXCEPT !.types = A, !.link = B]
           = [types |-> A, rooms |-> s.rooms, mappings |-> s.mappings, link |-> B, ok |-> s.ok]
<1> DEFINE S == [types : [TypeIds -> TypeRow \cup {None}] \cup {A},
                 rooms : [RoomIds -> RoomRow \cup {None}], mappings : SUBSET Mapping,
                 link : [L -> TypeIds \cup {None}] \cup {B}, ok : BOOLEAN]
           new == [s EXCEPT !.types = A, !.link = B]
<1>1. s \in S BY DEF MidState
<1>2. /\ new \in S /\ new.types = A /\ new.link = B
      /\ new.rooms = s.rooms /\ new.mappings = s.mappings /\ new.ok = s.ok
  BY <1>1
<1>3. new = [types |-> new.types, rooms |-> new.rooms, mappings |-> new.mappings,
             link |-> new.link, ok |-> new.ok]
  <2> HIDE DEF new
  <2> QED BY <1>2
<1> QED BY <1>2, <1>3

\* What importing a type does, if it can be done.
TypeDone(s, x) ==
  [types |-> [s.types EXCEPT ![LocalType(s, x)] =
                [name |-> resolveUniqueName(s.types, x.title, x.id, LocalType(s, x)),
                 info |-> x.info]],
   rooms |-> s.rooms, mappings |-> s.mappings,
   link |-> [s.link EXCEPT ![x.id] = LocalType(s, x)], ok |-> s.ok]

\* A type is undone, or its row gets its name and its link.
LEMMA TypeEffect ==
  ASSUME NEW L, NEW s \in MidState(L), NEW x
  PROVE  \/ ImportType(s, x) = [s EXCEPT !.ok = FALSE]
         \/ /\ LocalType(s, x) # None
            /\ FreeNumbers(s.types, x.title, x.id, LocalType(s, x)) # {}
            /\ ImportType(s, x) = TypeDone(s, x)
<1> DEFINE t == LocalType(s, x)
           row == [name |-> resolveUniqueName(s.types, x.title, x.id, t), info |-> x.info]
<1>1. CASE t = None \/ FreeNumbers(s.types, x.title, x.id, t) = {}
  BY <1>1 DEF ImportType
<1>2. CASE ~(t = None \/ FreeNumbers(s.types, x.title, x.id, t) = {})
  <2>1. ImportType(s, x) = [s EXCEPT !.types = [@ EXCEPT ![t] = row], !.link = [@ EXCEPT ![x.id] = t]]
    BY <1>2 DEF ImportType
  <2> HIDE DEF t, row
  <2>2. [s EXCEPT !.types = [@ EXCEPT ![t] = row], !.link = [@ EXCEPT ![x.id] = t]]
          = [types |-> [s.types EXCEPT ![t] = row], rooms |-> s.rooms, mappings |-> s.mappings,
             link |-> [s.link EXCEPT ![x.id] = t], ok |-> s.ok]
    BY TwoFields
  <2> QED BY <1>2, <2>1, <2>2 DEF t, row, TypeDone
<1> QED BY <1>1, <1>2

\* A type that is imported keeps the keys and the links.
LEMMA TypeKeepsSound ==
  ASSUME NEW L, NEW s, MidSound(s, L), NEW x \in TypeItem, x.id \in L
  PROVE  MidSound(ImportType(s, x), L) /\ (ImportType(s, x).ok => s.ok)
<1> DEFINE t == LocalType(s, x)
           name == resolveUniqueName(s.types, x.title, x.id, t)
           row == [name |-> name, info |-> x.info]
           new == ImportType(s, x)
<1> USE DEF MidSound
<1>1. CASE new = [s EXCEPT !.ok = FALSE]
  <2>1. new \in MidState(L) /\ ~new.ok BY <1>1 DEF MidState
  <2>2. /\ new.types = s.types /\ new.rooms = s.rooms /\ new.mappings = s.mappings
        /\ new.link = s.link
    BY <1>1 DEF MidState
  <2> HIDE DEF new
  <2>3. MidSound(new, L) BY <2>1, <2>2 DEF Keys, LinksUsed
  <2> QED BY <2>1, <2>3 DEF new
<1>2. CASE t # None /\ FreeNumbers(s.types, x.title, x.id, t) # {} /\ new = TypeDone(s, x)
  <2>1. s.types \in [TypeIds -> TypeRow \cup {None}] /\ s.rooms \in [RoomIds -> RoomRow \cup {None}]
        /\ s.link \in [L -> TypeIds \cup {None}] /\ s.mappings \subseteq Mapping
    BY DEF MidState
  <2>2. x.title \in Titles /\ x.id \in Nat /\ x.info \in Titles BY DEF TypeItem
  <2>3. t \in TypeIds BY <1>2, LocalTypeFound
  <2>4. name \in Name /\ Named(s.types, name) \subseteq {t} BY <1>2, <2>2, FoundNameIsFree
  <2>5. row \in TypeRow /\ row.name = name BY <2>2, <2>4 DEF TypeRow
  <2>6. None \notin TypeRow BY ImportAssumption DEF ImportParameters
  <2>7. new = [types |-> [s.types EXCEPT ![t] = row], rooms |-> s.rooms, mappings |-> s.mappings,
               link |-> [s.link EXCEPT ![x.id] = t], ok |-> s.ok]
    BY <1>2 DEF TypeDone
  <2> HIDE DEF t, name, row, new
  <2>8. new \in MidState(L) /\ new.ok = s.ok BY <2>1, <2>3, <2>5, <2>7 DEF MidState
  <2>9. UniqueNames(new.types) /\ UniqueNames(new.rooms)
    <3>1. UniqueNames(s.types) BY DEF Keys
    <3>2. UniqueNames([s.types EXCEPT ![t] = row])
      BY <3>1, <2>1, <2>3, <2>4, <2>5, <2>6, NamesStayUnique
    <3> QED BY <3>2, <2>7 DEF Keys
  <2>10. \A u \in TypeIds : s.types[u] # None => new.types[u] # None
    BY <2>1, <2>5, <2>6, <2>7
  <2>11. Keys(new)
    <3>1. \A r \in Used(s.rooms) : s.rooms[r].type \in TypeIds
      BY <2>1 DEF Used, RoomRow
    <3> QED BY <2>7, <2>9, <2>10, <3>1 DEF Keys
  <2>12. LinksUsed(new)
    <3>1. new.types[t] # None BY <2>1, <2>3, <2>5, <2>6, <2>7
    <3> QED BY <2>1, <2>7, <2>10, <3>1 DEF LinksUsed
  <2> QED BY <2>8, <2>11, <2>12 DEF new
<1> QED BY <1>1, <1>2, TypeEffect

\* The same for three fields at once.
LEMMA ThreeFields ==
  ASSUME NEW L, NEW s \in MidState(L), NEW A, NEW B, NEW C
  PROVE  [s EXCEPT !.types = A, !.rooms = B, !.mappings = C]
           = [types |-> A, rooms |-> B, mappings |-> C, link |-> s.link, ok |-> s.ok]
<1> DEFINE S == [types : [TypeIds -> TypeRow \cup {None}] \cup {A},
                 rooms : [RoomIds -> RoomRow \cup {None}] \cup {B},
                 mappings : (SUBSET Mapping) \cup {C},
                 link : [L -> TypeIds \cup {None}], ok : BOOLEAN]
           new == [s EXCEPT !.types = A, !.rooms = B, !.mappings = C]
<1>1. s \in S BY DEF MidState
<1>2. /\ new \in S /\ new.types = A /\ new.rooms = B /\ new.mappings = C
      /\ new.link = s.link /\ new.ok = s.ok
  BY <1>1
<1>3. new = [types |-> new.types, rooms |-> new.rooms, mappings |-> new.mappings,
             link |-> new.link, ok |-> new.ok]
  <2> HIDE DEF new
  <2> QED BY <1>2
<1> QED BY <1>2, <1>3

\* The type of a room is one it is linked to, the one for such rooms, or a new one.
LEMMA TypeOfRoomFound ==
  ASSUME NEW L, NEW s \in MidState(L), LinksUsed(s), NEW x \in RoomItem, TypeOfRoom(s, x) # None
  PROVE  /\ TypeOfRoom(s, x) \in TypeIds
         /\ x.type \in L => TypeOfRoom(s, x) = s.link[x.type] /\ TypeOfRoom(s, x) \in Used(s.types)
         /\ x.type \notin L =>
              \/ TypeOfRoom(s, x) \in Named(s.types, Plain(Unassigned))
              \/ Named(s.types, Plain(Unassigned)) = {} /\ s.types[TypeOfRoom(s, x)] = None
<1>1. s.types \in [TypeIds -> TypeRow \cup {None}] /\ s.link \in [L -> TypeIds \cup {None}]
  BY DEF MidState
<1>2. CASE x.type \in L
  <2>1. TypeOfRoom(s, x) = s.link[x.type] BY <1>1, <1>2 DEF TypeOfRoom
  <2> QED BY <1>1, <1>2, <2>1 DEF LinksUsed, Used
<1>3. CASE x.type \notin L /\ Named(s.types, Plain(Unassigned)) # {}
  <2>1. TypeOfRoom(s, x) \in Named(s.types, Plain(Unassigned)) BY <1>1, <1>3 DEF TypeOfRoom
  <2> QED BY <1>1, <1>3, <2>1 DEF Named, Used
<1>4. CASE x.type \notin L /\ Named(s.types, Plain(Unassigned)) = {}
  <2>1. TypeOfRoom(s, x) = Fresh(s.types) BY <1>1, <1>4 DEF TypeOfRoom
  <2> QED BY <1>1, <1>4, <2>1, FreshIsUnused
<1> QED BY <1>2, <1>3, <1>4

\* A room's row is the one it is mapped to, or a new one.
LEMMA LocalRoomFound ==
  ASSUME NEW L, NEW s \in MidState(L), Keys(s), NEW x \in RoomItem, LocalRoom(s, x) # None
  PROVE  /\ LocalRoom(s, x) \in RoomIds
         /\ \A m \in MappingsOf(s, x) : LocalRoom(s, x) = m.room
         /\ MappingsOf(s, x) = {} => s.rooms[LocalRoom(s, x)] = None
<1>1. s.rooms \in [RoomIds -> RoomRow \cup {None}] /\ s.mappings \subseteq Mapping
  BY DEF MidState
<1>2. \A m, k \in MappingsOf(s, x) : m = k BY DEF MappingsOf, Keys
<1>3. CASE MappingsOf(s, x) # {}
  <2>1. PICK m \in MappingsOf(s, x) : LocalRoom(s, x) = m.room
    BY <1>3 DEF LocalRoom
  <2>2. m.room \in RoomIds BY <1>1 DEF MappingsOf, Mapping
  <2> QED BY <1>2, <1>3, <2>1, <2>2
<1>4. CASE MappingsOf(s, x) = {}
  <2>1. LocalRoom(s, x) = Fresh(s.rooms) BY <1>4 DEF LocalRoom
  <2> QED BY <1>1, <1>4, <2>1, FreshIsUnused
<1> QED BY <1>3, <1>4

\* What importing a room does, if it can be done.
RoomDone(s, x) ==
  [types |-> IF s.types[TypeOfRoom(s, x)] # None THEN s.types
             ELSE [s.types EXCEPT ![TypeOfRoom(s, x)] = [name |-> Plain(Unassigned), info |-> None]],
   rooms |-> [s.rooms EXCEPT ![LocalRoom(s, x)] =
                [name |-> resolveUniqueName(s.rooms, x.title, x.id, LocalRoom(s, x)),
                 type |-> TypeOfRoom(s, x)]],
   mappings |-> (s.mappings \ MappingsOf(s, x))
                  \cup {[room |-> LocalRoom(s, x), accommodation |-> x.id, type |-> x.type]},
   link |-> s.link, ok |-> s.ok]

\* A room is undone, or its row, its type's row and its mapping are written.
LEMMA RoomEffect ==
  ASSUME NEW L, NEW s \in MidState(L), NEW x
  PROVE  \/ ImportRoom(s, x) = [s EXCEPT !.ok = FALSE]
         \/ /\ TypeOfRoom(s, x) # None /\ LocalRoom(s, x) # None
            /\ FreeNumbers(s.rooms, x.title, x.id, LocalRoom(s, x)) # {}
            /\ ImportRoom(s, x) = RoomDone(s, x)
<1> DEFINE t == TypeOfRoom(s, x)
           r == LocalRoom(s, x)
           undone == None \in {r, t} \/ FreeNumbers(s.rooms, x.title, x.id, r) = {}
<1>1. CASE undone BY <1>1 DEF ImportRoom
<1>2. CASE ~undone
  <2> DEFINE A == IF s.types[t] # None THEN s.types
                  ELSE [s.types EXCEPT ![t] = [name |-> Plain(Unassigned), info |-> None]]
             B == [s.rooms EXCEPT ![r] = [name |-> resolveUniqueName(s.rooms, x.title, x.id, r),
                                          type |-> t]]
             C == (s.mappings \ MappingsOf(s, x))
                    \cup {[room |-> r, accommodation |-> x.id, type |-> x.type]}
  <2>1. ImportRoom(s, x) = [s EXCEPT !.types = A, !.rooms = B, !.mappings = C]
    BY <1>2 DEF ImportRoom
  <2>2. [s EXCEPT !.types = A, !.rooms = B, !.mappings = C]
          = [types |-> A, rooms |-> B, mappings |-> C, link |-> s.link, ok |-> s.ok]
    <3> HIDE DEF A, B, C
    <3> QED BY ThreeFields
  <2> QED BY <1>2, <2>1, <2>2 DEF RoomDone
<1> QED BY <1>1, <1>2

\* A room that is imported keeps the keys and the links.
LEMMA RoomKeepsSound ==
  ASSUME NEW L, NEW s, MidSound(s, L), NEW x \in RoomItem
  PROVE  MidSound(ImportRoom(s, x), L) /\ (ImportRoom(s, x).ok => s.ok)
<1> DEFINE t == TypeOfRoom(s, x)
           r == LocalRoom(s, x)
           name == resolveUniqueName(s.rooms, x.title, x.id, r)
           row == [name |-> name, type |-> t]
           other == [name |-> Plain(Unassigned), info |-> None]
           map == [room |-> r, accommodation |-> x.id, type |-> x.type]
           new == ImportRoom(s, x)
<1> USE DEF MidSound
<1>1. CASE new = [s EXCEPT !.ok = FALSE]
  <2>1. new \in MidState(L) /\ ~new.ok BY <1>1 DEF MidState
  <2>2. /\ new.types = s.types /\ new.rooms = s.rooms /\ new.mappings = s.mappings
        /\ new.link = s.link
    BY <1>1 DEF MidState
  <2> HIDE DEF new
  <2>3. MidSound(new, L) BY <2>1, <2>2 DEF Keys, LinksUsed
  <2> QED BY <2>1, <2>3 DEF new
<1>2. CASE /\ t # None /\ r # None /\ FreeNumbers(s.rooms, x.title, x.id, r) # {}
           /\ new = RoomDone(s, x)
  <2>1. s.types \in [TypeIds -> TypeRow \cup {None}] /\ s.rooms \in [RoomIds -> RoomRow \cup {None}]
        /\ s.link \in [L -> TypeIds \cup {None}] /\ s.mappings \subseteq Mapping
    BY DEF MidState
  <2>2. x.title \in Titles /\ x.id \in Nat /\ x.type \in Nat \cup {None} BY DEF RoomItem
  <2>3. t \in TypeIds /\ r \in RoomIds BY <1>2, TypeOfRoomFound, LocalRoomFound
  <2>4. name \in Name /\ Named(s.rooms, name) \subseteq {r} BY <1>2, <2>2, FoundNameIsFree
  <2>5. row \in RoomRow /\ row.name = name /\ row.type = t BY <2>3, <2>4 DEF RoomRow
  <2>6. other \in TypeRow /\ other.name = Plain(Unassigned)
    <3>1. Plain(Unassigned) \in Name
      BY ImportAssumption DEF Plain, Numbered, Name, ImportParameters
    <3> QED BY <3>1 DEF TypeRow
  <2>7. map \in Mapping /\ map.room = r /\ map.accommodation = x.id BY <2>2, <2>3 DEF Mapping
  <2>8. None \notin TypeRow /\ None \notin RoomRow BY ImportAssumption DEF ImportParameters
  <2>9. s.types[t] = None => Named(s.types, Plain(Unassigned)) = {}
    BY <1>2, TypeOfRoomFound DEF Named, Used
  <2>10. \A m \in MappingsOf(s, x) : m.room = r BY <1>2, LocalRoomFound
  <2>11. MappingsOf(s, x) = {} => s.rooms[r] = None BY <1>2, LocalRoomFound
  <2>12. new = [types |-> IF s.types[t] # None THEN s.types ELSE [s.types EXCEPT ![t] = other],
                rooms |-> [s.rooms EXCEPT ![r] = row],
                mappings |-> (s.mappings \ MappingsOf(s, x)) \cup {map},
                link |-> s.link, ok |-> s.ok]
    BY <1>2 DEF RoomDone
  <2> HIDE DEF t, r, name, row, other, map, new
  <2>13. new \in MidState(L) /\ new.ok = s.ok
    <3>1. new.types \in [TypeIds -> TypeRow \cup {None}] BY <2>1, <2>6, <2>12
    <3>2. new.rooms \in [RoomIds -> RoomRow \cup {None}] BY <2>1, <2>5, <2>12
    <3>3. new.mappings \in SUBSET Mapping BY <2>1, <2>7, <2>12
    <3>4. s.ok \in BOOLEAN BY DEF MidState
    <3> QED BY <2>1, <2>12, <3>1, <3>2, <3>3, <3>4 DEF MidState
  <2>14. UniqueNames(new.types)
    <3>1. UniqueNames(s.types) BY DEF Keys
    <3>2. CASE s.types[t] # None BY <2>12, <3>1, <3>2
    <3>3. CASE s.types[t] = None
      <4>1. Named(s.types, other.name) \subseteq {t} BY <2>6, <2>9, <3>3
      <4>2. UniqueNames([s.types EXCEPT ![t] = other])
        BY <2>1, <2>3, <2>6, <2>8, <3>1, <4>1, NamesStayUnique
      <4> QED BY <2>12, <3>3, <4>2
    <3> QED BY <3>2, <3>3
  <2>15. UniqueNames(new.rooms)
    <3>1. UniqueNames([s.rooms EXCEPT ![r] = row])
      BY <2>1, <2>3, <2>4, <2>5, <2>8, NamesStayUnique DEF Keys
    <3> QED BY <2>12, <3>1
  <2>16. new.types[t] # None /\ \A u \in TypeIds : s.types[u] # None => new.types[u] # None
    BY <2>1, <2>3, <2>6, <2>8, <2>12
  <2>17. new.rooms[r] = row /\ new.rooms[r] # None
         /\ \A q \in RoomIds : q # r => new.rooms[q] = s.rooms[q]
    BY <2>1, <2>3, <2>5, <2>8, <2>12
  <2>18. \A q \in Used(new.rooms) : new.types[new.rooms[q].type] # None
    <3>1. SUFFICES ASSUME NEW q \in Used(new.rooms) PROVE new.types[new.rooms[q].type] # None
      OBVIOUS
    <3>2. q \in RoomIds /\ new.rooms[q] # None BY <2>13 DEF Used, MidState
    <3>3. CASE q = r BY <2>5, <2>16, <2>17, <3>3
    <3>4. CASE q # r
      <4>1. q \in Used(s.rooms) /\ s.rooms[q].type \in TypeIds
        BY <2>1, <2>17, <3>2, <3>4 DEF Used, RoomRow
      <4> QED BY <2>16, <2>17, <3>2, <3>4, <4>1 DEF Keys
    <3> QED BY <3>3, <3>4
  <2>19. \A m \in s.mappings : m.room = r => m \in MappingsOf(s, x)
    <3>1. CASE MappingsOf(s, x) # {}
      <4>1. PICK k \in MappingsOf(s, x) : TRUE BY <3>1
      <4>2. k.room = r /\ k \in s.mappings BY <2>10, <4>1 DEF MappingsOf
      <4> QED BY <4>1, <4>2 DEF Keys
    <3>2. CASE MappingsOf(s, x) = {}
      BY <2>11, <3>2 DEF Keys
    <3> QED BY <3>1, <3>2
  <2>20. \A m, k \in new.mappings : m.room = k.room \/ m.accommodation = k.accommodation => m = k
    <3>1. \A m \in s.mappings \ MappingsOf(s, x) : m.room # map.room /\ m.accommodation # map.accommodation
      BY <2>7, <2>19 DEF MappingsOf
    <3>2. new.mappings = (s.mappings \ MappingsOf(s, x)) \cup {map} BY <2>12
    <3>3. \A m, k \in s.mappings : m.room = k.room \/ m.accommodation = k.accommodation => m = k
      BY DEF Keys
    <3> QED BY <3>1, <3>2, <3>3
  <2>21. \A m \in new.mappings : new.rooms[m.room] # None
    <3>1. \A m \in s.mappings : m.room \in RoomIds /\ s.rooms[m.room] # None BY <2>1 DEF Keys, Mapping
    <3>2. \A m \in new.mappings : m = map \/ m \in s.mappings BY <2>12
    <3> QED BY <2>7, <2>17, <3>1, <3>2
  <2>22. LinksUsed(new)
    <3>1. new.link = s.link BY <2>12
    <3> QED BY <2>1, <2>16, <3>1 DEF LinksUsed
  <2>23. Keys(new) BY <2>14, <2>15, <2>18, <2>20, <2>21 DEF Keys
  <2> QED BY <2>13, <2>22, <2>23 DEF new
<1> QED BY <1>1, <1>2, RoomEffect

-----------------------------------------------------------------------------
(* A whole import                                                            *)

\* What the catalogs are made of.
LEMMA CatalogItems ==
  ASSUME NEW cat \in Catalogs
  PROVE  /\ Len(cat.types) \in Nat /\ Len(cat.rooms) \in Nat /\ Items(cat) \in Nat
         /\ DOMAIN cat.types = 1..Len(cat.types) /\ DOMAIN cat.rooms = 1..Len(cat.rooms)
         /\ \A i \in 1..Len(cat.types) : cat.types[i] \in TypeItem
         /\ \A i \in 1..Len(cat.rooms) : cat.rooms[i] \in RoomItem
<1>1. cat.types \in Seq(TypeItem) /\ cat.rooms \in Seq(RoomItem)
  BY ImportAssumption DEF ImportParameters, CatalogsAreTyped
<1>2. Len(cat.types) \in Nat /\ Len(cat.rooms) \in Nat BY <1>1
<1>3. DOMAIN cat.types = 1..Len(cat.types) /\ DOMAIN cat.rooms = 1..Len(cat.rooms) BY <1>1
<1>4. Items(cat) \in Nat
  <2> DEFINE a == Len(cat.types)
             b == Len(cat.rooms)
  <2>1. a \in Nat /\ b \in Nat BY <1>2
  <2> HIDE DEF a, b
  <2>2. a + b \in Nat BY <2>1
  <2> QED BY <2>2 DEF a, b, Items
<1>5. \A i \in 1..Len(cat.types) : cat.types[i] \in TypeItem BY <1>1
<1>6. \A i \in 1..Len(cat.rooms) : cat.rooms[i] \in RoomItem BY <1>1
<1> QED BY <1>2, <1>3, <1>4, <1>5, <1>6

\* Where the types and the rooms are among the items.
LEMMA ItemPlaces ==
  ASSUME NEW cat \in Catalogs
  PROVE  LET n == Len(cat.types)
             k == Len(cat.rooms)
         IN  /\ n \in 0..Items(cat)
             /\ \A i \in 1..n : i \in 1..Items(cat)
             /\ \A i \in 1..Items(cat) : i <= n => i \in 1..n
             /\ \A i \in 1..Items(cat) : ~(i <= n) => i - n \in 1..k
             /\ \A j \in 1..k : n + j \in 1..Items(cat) /\ ~(n + j <= n) /\ (n + j) - n = j
<1> DEFINE n == Len(cat.types)
           k == Len(cat.rooms)
           total == Items(cat)
<1>1. n \in Nat /\ k \in Nat BY CatalogItems
<1>2. total = n + k BY DEF Items
<1> HIDE DEF n, k, total
<1>3. /\ n \in 0..total
      /\ \A i \in 1..n : i \in 1..total
      /\ \A i \in 1..total : i <= n => i \in 1..n
      /\ \A i \in 1..total : ~(i <= n) => i - n \in 1..k
      /\ \A j \in 1..k : n + j \in 1..total /\ ~(n + j <= n) /\ (n + j) - n = j
  BY <1>1, <1>2
<1> QED BY <1>3 DEF n, k, total

\* An import starts from tables as they are and links to rows there are.
LEMMA StartIsSound ==
  ASSUME NEW d, Tables(d), Keys(d), NEW cat \in Catalogs, NEW link \in Links(d, cat)
  PROVE  MidSound(Started(d, link), KnownIds(d, cat)) /\ link \in [KnownIds(d, cat) -> TypeIds \cup {None}]
<1> DEFINE s == Started(d, link)
           L == KnownIds(d, cat)
<1>1. link \in [L -> TypeIds \cup {None}] BY DEF Links
<1>2. s.types = d.types /\ s.rooms = d.rooms /\ s.mappings = d.mappings /\ s.link = link
  BY DEF Started
<1>3. s \in MidState(L)
  <2>1. d.mappings \in SUBSET Mapping BY DEF Tables
  <2> QED BY <1>1, <2>1 DEF Started, MidState, Tables
<1>4. Keys(s) BY <1>2 DEF Keys
<1>5. LinksUsed(s)
  <2>1. SUFFICES ASSUME NEW y \in L, link[y] # None PROVE d.types[link[y]] # None
    BY <1>1, <1>2 DEF LinksUsed
  <2>2. link[y] \in LocalTypes(d, y) BY <2>1 DEF Links
  <2>3. PICK m \in d.mappings : link[y] = d.rooms[m.room].type BY <2>2 DEF LocalTypes
  <2>4. m.room \in Used(d.rooms) BY DEF Keys, Tables, Mapping, Used
  <2> QED BY <2>3, <2>4 DEF Keys
<1> QED BY <1>1, <1>3, <1>4, <1>5 DEF MidSound

\* No unique index is hit and no reference left dangling, item after item.
LEMMA ProgressSound ==
  ASSUME NEW d, Tables(d), Keys(d), NEW cat \in Catalogs, NEW link \in Links(d, cat)
  PROVE  /\ \A i \in 0..Items(cat) : MidSound(Progress(d, cat, link)[i], KnownIds(d, cat))
         /\ \A i \in 1..Items(cat) :
              Progress(d, cat, link)[i].ok => Progress(d, cat, link)[i - 1].ok
<1> DEFINE p == Progress(d, cat, link)
           L == KnownIds(d, cat)
           T == {i \in 0..Items(cat) : MidSound(p[i], L)}
<1>1. /\ Items(cat) \in Nat
      /\ \A i \in 1..Len(cat.types) : cat.types[i] \in TypeItem
      /\ \A i \in 1..Len(cat.rooms) : cat.rooms[i] \in RoomItem
  BY CatalogItems
<1>2. p[0] = Started(d, link) /\ \A i \in 1..Items(cat) : p[i] = ImportItem(p[i - 1], cat, i)
  BY <1>1, ProgressSteps
<1>3. \A i \in 1..Len(cat.types) : cat.types[i].id \in L
  BY CatalogItems DEF KnownIds
<1> HIDE DEF p, L
<1>4. ASSUME NEW i \in 1..Items(cat), MidSound(p[i - 1], L)
      PROVE  MidSound(p[i], L) /\ (p[i].ok => p[i - 1].ok)
  <2>1. p[i] = ImportItem(p[i - 1], cat, i) BY <1>2
  <2>2. CASE i <= Len(cat.types)
    <3>1. i \in 1..Len(cat.types) /\ p[i] = ImportType(p[i - 1], cat.types[i])
      BY <2>1, <2>2, ItemPlaces DEF ImportItem
    <3> QED BY <1>1, <1>3, <1>4, <3>1, TypeKeepsSound
  <2>3. CASE ~(i <= Len(cat.types))
    <3>1. i - Len(cat.types) \in 1..Len(cat.rooms) BY <2>3, ItemPlaces
    <3>2. p[i] = ImportRoom(p[i - 1], cat.rooms[i - Len(cat.types)])
      BY <2>1, <2>3 DEF ImportItem
    <3> QED BY <1>1, <1>4, <3>1, <3>2, RoomKeepsSound
  <2> QED BY <2>2, <2>3
<1>5. 0 \in T
  <2>1. 0 \in 0..Items(cat) BY <1>1
  <2>2. MidSound(p[0], L) BY <1>2, StartIsSound DEF L
  <2> QED BY <2>1, <2>2
<1>6. \A i \in 0..Items(cat) : i \in T
  <2>1. \A i \in 1..Items(cat) : i - 1 \in T => i \in T
    <3>1. \A i \in 1..Items(cat) : i \in 0..Items(cat) BY <1>1
    <3> QED BY <1>4, <3>1
  <2> HIDE DEF T
  <2> QED BY <1>1, <1>5, <2>1, NumbersInduct
<1>7. \A i \in 1..Items(cat) : i - 1 \in 0..Items(cat) BY <1>1
<1> QED BY <1>4, <1>6, <1>7 DEF p, L

\* The fields of a room's import.
LEMMA RoomFields ==
  ASSUME NEW L, NEW s, MidSound(s, L), NEW x \in RoomItem, ImportRoom(s, x).ok
  PROVE  /\ TypeOfRoom(s, x) \in TypeIds /\ LocalRoom(s, x) \in RoomIds
         /\ FreeNumbers(s.rooms, x.title, x.id, LocalRoom(s, x)) # {}
         /\ ImportRoom(s, x) = RoomDone(s, x)
         /\ \A m \in s.mappings : m.room = LocalRoom(s, x) <=> m \in MappingsOf(s, x)
<1> USE DEF MidSound
<1> DEFINE r == LocalRoom(s, x)
<1>1. ImportRoom(s, x) # [s EXCEPT !.ok = FALSE]
  <2>1. ~[s EXCEPT !.ok = FALSE].ok BY DEF MidState
  <2> QED BY <2>1
<1>2. /\ TypeOfRoom(s, x) # None /\ r # None
      /\ FreeNumbers(s.rooms, x.title, x.id, r) # {}
      /\ ImportRoom(s, x) = RoomDone(s, x)
  BY <1>1, RoomEffect
<1>3. TypeOfRoom(s, x) \in TypeIds /\ r \in RoomIds BY <1>2, TypeOfRoomFound, LocalRoomFound
<1>4. \A m \in MappingsOf(s, x) : r = m.room BY <1>2, LocalRoomFound
<1>5. MappingsOf(s, x) = {} => s.rooms[r] = None BY <1>2, LocalRoomFound
<1> HIDE DEF r
<1>6. ASSUME NEW m \in s.mappings, m.room = r PROVE m \in MappingsOf(s, x)
  <2>1. CASE MappingsOf(s, x) # {}
    <3>1. PICK k \in MappingsOf(s, x) : TRUE BY <2>1
    <3>2. k.room = r /\ k \in s.mappings BY <1>4, <3>1 DEF MappingsOf
    <3> QED BY <1>6, <3>1, <3>2 DEF Keys
  <2>2. CASE MappingsOf(s, x) = {}
    BY <1>5, <1>6, <2>2 DEF Keys
  <2> QED BY <2>1, <2>2
<1> QED BY <1>2, <1>3, <1>4, <1>6 DEF r, MappingsOf

\* A room that was imported is mapped to a room of its title and its type.
RoomIs(s, L, x) ==
  \E m \in s.mappings :
    /\ m.accommodation = x.id /\ m.type = x.type
    /\ IsNamed(s.rooms[m.room].name, x.title, x.id)
    /\ IF x.type \in L THEN s.rooms[m.room].type = s.link[x.type]
       ELSE s.rooms[m.room].type \in Named(s.types, Plain(Unassigned))

\* Types are left alone by rooms, but for the one of those without a type.
LEMMA RoomKeepsTypes ==
  ASSUME NEW L, NEW s, MidSound(s, L), NEW x \in RoomItem, ImportRoom(s, x).ok
  PROVE  LET new == ImportRoom(s, x)
             t == TypeOfRoom(s, x)
         IN  /\ new.link = s.link /\ new.ok = s.ok
             /\ \A u \in TypeIds : s.types[u] # None => new.types[u] = s.types[u]
             /\ s.types[t] # None => new.types = s.types
             /\ x.type \in L => t = s.link[x.type] /\ new.types = s.types
             /\ x.type \notin L => t \in Named(new.types, Plain(Unassigned))
             /\ Named(s.types, Plain(Unassigned)) \subseteq Named(new.types, Plain(Unassigned))
<1> DEFINE new == ImportRoom(s, x)
           t == TypeOfRoom(s, x)
           other == [name |-> Plain(Unassigned), info |-> None]
<1> USE DEF MidSound
<1>1. t \in TypeIds /\ new = RoomDone(s, x) BY RoomFields
<1>2. s.types \in [TypeIds -> TypeRow \cup {None}] BY DEF MidState
<1>3. None \notin TypeIds /\ None \notin TypeRow BY ImportAssumption DEF ImportParameters
<1>4. t # None BY <1>1, <1>3
<1>5. /\ x.type \in L => t = s.link[x.type] /\ t \in Used(s.types)
      /\ x.type \notin L =>
           \/ t \in Named(s.types, Plain(Unassigned))
           \/ Named(s.types, Plain(Unassigned)) = {} /\ s.types[t] = None
  BY <1>4, TypeOfRoomFound
<1>6. /\ new.types = IF s.types[t] # None THEN s.types ELSE [s.types EXCEPT ![t] = other]
      /\ new.link = s.link /\ new.ok = s.ok
  <2> DEFINE done == RoomDone(s, x)
  <2>1. done.types = IF s.types[t] # None THEN s.types ELSE [s.types EXCEPT ![t] = other]
    BY Zenon DEF RoomDone
  <2>2. done.link = s.link BY DEF RoomDone
  <2>3. done.ok = s.ok BY DEF RoomDone
  <2> HIDE DEF done, new
  <2>4. new = done BY <1>1 DEF done
  <2> QED BY <2>1, <2>2, <2>3, <2>4
<1>7. other # None /\ other.name = Plain(Unassigned)
  <2>1. other \in TypeRow
    <3>1. Plain(Unassigned) \in Name
      BY ImportAssumption DEF Plain, Numbered, Name, ImportParameters
    <3> QED BY <3>1 DEF TypeRow
  <2> QED BY <1>3, <2>1
<1> HIDE DEF new, t, other
<1>8. \A u \in TypeIds : s.types[u] # None => new.types[u] = s.types[u] BY <1>2, <1>6
<1>9. \A u \in Named(s.types, Plain(Unassigned)) : u \in Named(new.types, Plain(Unassigned))
  BY <1>2, <1>6, <1>8 DEF Named, Used
<1>10. x.type \notin L => t \in Named(new.types, Plain(Unassigned))
  <2>1. CASE s.types[t] = None /\ x.type \notin L
    BY <1>1, <1>2, <1>6, <1>7, <2>1 DEF Named, Used
  <2>2. CASE s.types[t] # None BY <1>5, <1>9, <2>2
  <2> QED BY <2>1, <2>2
<1> QED BY <1>5, <1>6, <1>8, <1>9, <1>10 DEF new, t, Used

\* A room that was imported is as MotoPress publishes it.
LEMMA RoomIsDone ==
  ASSUME NEW L, NEW s, MidSound(s, L), NEW x \in RoomItem, ImportRoom(s, x).ok
  PROVE  RoomIs(ImportRoom(s, x), L, x)
<1> DEFINE new == ImportRoom(s, x)
           t == TypeOfRoom(s, x)
           r == LocalRoom(s, x)
           name == resolveUniqueName(s.rooms, x.title, x.id, r)
           m == [room |-> r, accommodation |-> x.id, type |-> x.type]
<1>1. r \in RoomIds /\ FreeNumbers(s.rooms, x.title, x.id, r) # {} /\ new = RoomDone(s, x)
  BY RoomFields
<1>2. x.title \in Titles /\ x.id \in Nat BY DEF RoomItem
<1>3. IsNamed(name, x.title, x.id) BY <1>1, <1>2, FoundNameIsFree
<1>4. s.rooms \in [RoomIds -> RoomRow \cup {None}] BY DEF MidSound, MidState
<1>5. m \in new.mappings /\ new.rooms = [s.rooms EXCEPT ![r] = [name |-> name, type |-> t]]
  BY <1>1 DEF RoomDone
<1>6. /\ new.link = s.link
      /\ x.type \in L => t = s.link[x.type]
      /\ x.type \notin L => t \in Named(new.types, Plain(Unassigned))
  BY RoomKeepsTypes
<1>7. m.room = r /\ m.accommodation = x.id /\ m.type = x.type OBVIOUS
<1> HIDE DEF new, t, r, name, m
<1>8. new.rooms[r].name = name /\ new.rooms[r].type = t BY <1>1, <1>4, <1>5
<1>9. RoomIs(new, L, x) BY <1>3, <1>5, <1>6, <1>7, <1>8 DEF RoomIs
<1> QED BY <1>9 DEF new

\* It stays so when another room is imported.
LEMMA RoomStaysDone ==
  ASSUME NEW L, NEW s, MidSound(s, L), NEW x \in RoomItem, ImportRoom(s, x).ok,
         NEW y \in RoomItem, y.id # x.id, RoomIs(s, L, y)
  PROVE  RoomIs(ImportRoom(s, x), L, y)
<1> DEFINE new == ImportRoom(s, x)
           r == LocalRoom(s, x)
<1>1. PICK m \in s.mappings :
        /\ m.accommodation = y.id /\ m.type = y.type
        /\ IsNamed(s.rooms[m.room].name, y.title, y.id)
        /\ IF y.type \in L THEN s.rooms[m.room].type = s.link[y.type]
           ELSE s.rooms[m.room].type \in Named(s.types, Plain(Unassigned))
  BY DEF RoomIs
<1>2. /\ r \in RoomIds /\ new = RoomDone(s, x)
      /\ \A k \in s.mappings : k.room = r <=> k \in MappingsOf(s, x)
  BY RoomFields
<1>3. m \notin MappingsOf(s, x) /\ m.room # r BY <1>1, <1>2 DEF MappingsOf
<1>4. s.rooms \in [RoomIds -> RoomRow \cup {None}] /\ m.room \in RoomIds
  BY <1>1 DEF MidSound, MidState, Mapping
<1>5. m \in new.mappings BY <1>1, <1>2, <1>3 DEF RoomDone
<1>6. new.rooms[m.room] = s.rooms[m.room] BY <1>2, <1>3, <1>4 DEF RoomDone
<1>7. new.link = s.link /\ Named(s.types, Plain(Unassigned)) \subseteq Named(new.types, Plain(Unassigned))
  BY RoomKeepsTypes
<1> HIDE DEF new, r
<1>8. RoomIs(new, L, y)
  <2>1. IF y.type \in L THEN new.rooms[m.room].type = new.link[y.type]
        ELSE new.rooms[m.room].type \in Named(new.types, Plain(Unassigned))
    BY <1>1, <1>6, <1>7
  <2> QED BY <1>1, <1>5, <1>6, <2>1 DEF RoomIs
<1> QED BY <1>8 DEF new

\* So are, after an item that went through, the rooms listed up to there.
LEMMA ProgressImports ==
  ASSUME NEW d, Tables(d), Keys(d), NEW cat \in Catalogs, NEW link \in Links(d, cat)
  PROVE  \A i \in 0..Items(cat) :
           Progress(d, cat, link)[i].ok =>
             \A j \in 1..Len(cat.rooms) : Len(cat.types) + j <= i =>
               RoomIs(Progress(d, cat, link)[i], KnownIds(d, cat), cat.rooms[j])
<1> DEFINE p == Progress(d, cat, link)
           L == KnownIds(d, cat)
           n == Len(cat.types)
           Brought(i) == p[i].ok =>
                        \A j \in 1..Len(cat.rooms) : n + j <= i => RoomIs(p[i], L, cat.rooms[j])
           T == {i \in 0..Items(cat) : Brought(i)}
<1>1. /\ Items(cat) \in Nat /\ n \in Nat /\ Len(cat.rooms) \in Nat
      /\ DOMAIN cat.rooms = 1..Len(cat.rooms)
      /\ \A i \in 1..Len(cat.rooms) : cat.rooms[i] \in RoomItem
  BY CatalogItems
<1>2. \A i \in 1..Items(cat) : p[i] = ImportItem(p[i - 1], cat, i) BY <1>1, ProgressSteps
<1>3. /\ \A i \in 0..Items(cat) : MidSound(p[i], L)
      /\ \A i \in 1..Items(cat) : p[i].ok => p[i - 1].ok
  BY ProgressSound
<1>4. \A i, j \in 1..Len(cat.rooms) : cat.rooms[i].id = cat.rooms[j].id => i = j
  BY <1>1, ImportAssumption DEF ImportParameters, CatalogsAreTyped
<1>5. \A i \in 1..Items(cat) : ~(i <= n) => i - n \in 1..Len(cat.rooms) BY ItemPlaces
<1>6. \A i \in 1..Items(cat) : ~(i <= n) => p[i] = ImportRoom(p[i - 1], cat.rooms[i - n])
  BY <1>2 DEF ImportItem
<1> HIDE DEF p, L, n
<1>7. ASSUME NEW i \in 1..Items(cat), Brought(i - 1) PROVE Brought(i)
  <2>1. SUFFICES ASSUME p[i].ok, NEW j \in 1..Len(cat.rooms), n + j <= i
                 PROVE  RoomIs(p[i], L, cat.rooms[j])
    OBVIOUS
  <2>2. ~(i <= n) BY <1>1, <2>1
  <2> DEFINE x == cat.rooms[i - n]
  <2>3. i - n \in 1..Len(cat.rooms) /\ x \in RoomItem /\ p[i] = ImportRoom(p[i - 1], x)
    BY <1>1, <1>5, <1>6, <2>2
  <2>4. i - 1 \in 0..Items(cat) BY <1>1
  <2>5. MidSound(p[i - 1], L) /\ p[i - 1].ok BY <1>3, <2>1, <2>4
  <2>6. CASE j = i - n BY <2>1, <2>3, <2>5, <2>6, RoomIsDone
  <2>7. CASE j # i - n
    <3>1. n + j <= i - 1 BY <1>1, <2>1, <2>7
    <3>2. RoomIs(p[i - 1], L, cat.rooms[j]) BY <1>7, <2>1, <2>5, <3>1
    <3>3. cat.rooms[j].id # x.id BY <1>4, <2>3, <2>7
    <3>4. cat.rooms[j] \in RoomItem BY <1>1
    <3> HIDE DEF x
    <3> QED BY <2>1, <2>3, <2>5, <3>2, <3>3, <3>4, RoomStaysDone
  <2> QED BY <2>6, <2>7
<1>8. 0 \in T BY <1>1
<1>9. \A i \in 1..Items(cat) : i - 1 \in T => i \in T
  <2>1. \A i \in 1..Items(cat) : i \in 0..Items(cat) BY <1>1
  <2> HIDE DEF Done
  <2> QED BY <1>7, <2>1
<1>10. \A i \in 0..Items(cat) : i \in T
  <2> HIDE DEF T
  <2> QED BY <1>1, <1>8, <1>9, NumbersInduct
<1> QED BY <1>10 DEF p, L, n

\* An import that goes through keeps every key and brings in the catalog.
LEMMA ImportedSound ==
  ASSUME NEW d, Tables(d), Keys(d), NEW cat \in Catalogs, NEW new \in AllImported(d, cat)
  PROVE  Tables(new) /\ Keys(new) /\ CatalogImported(new, cat)
<1> DEFINE L == KnownIds(d, cat)
<1>1. PICK link \in Links(d, cat) :
        /\ Imported(d, cat, link).ok
        /\ new = [types |-> Imported(d, cat, link).types, rooms |-> Imported(d, cat, link).rooms,
                  mappings |-> Imported(d, cat, link).mappings]
  BY DEF AllImported
<1> DEFINE s == Imported(d, cat, link)
<1>2. /\ Items(cat) \in Nat /\ Items(cat) \in 0..Items(cat)
      /\ DOMAIN cat.rooms = 1..Len(cat.rooms)
      /\ \A j \in 1..Len(cat.rooms) : cat.rooms[j] \in RoomItem
  BY CatalogItems
<1>3. MidSound(s, L) BY <1>2, ProgressSound DEF Imported
<1>4. \A j \in 1..Len(cat.rooms) : RoomIs(s, L, cat.rooms[j])
  <2>1. \A j \in 1..Len(cat.rooms) : Len(cat.types) + j <= Items(cat)
    <3>1. \A j \in 1..Len(cat.rooms) : Len(cat.types) + j \in 1..Items(cat) BY ItemPlaces
    <3> QED BY <1>2, <3>1
  <2> QED BY <1>1, <1>2, <2>1, ProgressImports DEF Imported
<1>5. new.types = s.types /\ new.rooms = s.rooms /\ new.mappings = s.mappings BY <1>1
<1> HIDE DEF s, L
<1>6. Tables(new) BY <1>3, <1>5 DEF MidSound, MidState, Tables
<1>7. Keys(new) BY <1>3, <1>5 DEF MidSound, Keys
<1>8. CatalogImported(new, cat)
  <2>1. SUFFICES ASSUME NEW i \in 1..Len(cat.rooms)
                 PROVE  \E m \in new.mappings :
                   /\ m.accommodation = cat.rooms[i].id /\ m.type = cat.rooms[i].type
                   /\ new.rooms[m.room].name.title = cat.rooms[i].title
                   /\ \A k \in new.mappings :
                        k.type = m.type /\ (\E j \in DOMAIN cat.rooms : cat.rooms[j].id = k.accommodation) =>
                          new.rooms[k.room].type = new.rooms[m.room].type
    BY <1>2 DEF CatalogImported
  <2>2. PICK m \in s.mappings :
          /\ m.accommodation = cat.rooms[i].id /\ m.type = cat.rooms[i].type
          /\ s.rooms[m.room].name.title = cat.rooms[i].title
          /\ IF cat.rooms[i].type \in L THEN s.rooms[m.room].type = s.link[cat.rooms[i].type]
             ELSE s.rooms[m.room].type \in Named(s.types, Plain(Unassigned))
      <3>1. \A name : IsNamed(name, cat.rooms[i].title, cat.rooms[i].id) => name.title = cat.rooms[i].title
      BY DEF IsNamed, Numbered
    <3> QED BY <1>4, <3>1 DEF RoomIs
  <2>3. ASSUME NEW k \in s.mappings, k.type = m.type,
               NEW j \in 1..Len(cat.rooms), cat.rooms[j].id = k.accommodation
        PROVE  s.rooms[k.room].type = s.rooms[m.room].type
    <3>1. PICK h \in s.mappings :
            /\ h.accommodation = cat.rooms[j].id /\ h.type = cat.rooms[j].type
            /\ IF cat.rooms[j].type \in L THEN s.rooms[h.room].type = s.link[cat.rooms[j].type]
               ELSE s.rooms[h.room].type \in Named(s.types, Plain(Unassigned))
      BY <1>4 DEF RoomIs
    <3>2. h = k BY <1>3, <2>3, <3>1 DEF MidSound, Keys
    <3>3. CASE m.type \in L BY <2>2, <2>3, <3>1, <3>2, <3>3
    <3>4. CASE m.type \notin L
      <4>1. /\ s.rooms[k.room].type \in Named(s.types, Plain(Unassigned))
            /\ s.rooms[m.room].type \in Named(s.types, Plain(Unassigned))
        BY <2>2, <2>3, <3>1, <3>2, <3>4
      <4> QED BY <1>3, <4>1 DEF MidSound, Keys, UniqueNames, Named
    <3> QED BY <3>3, <3>4
  <2> QED BY <1>2, <1>5, <2>2, <2>3
<1> QED BY <1>6, <1>7, <1>8

-----------------------------------------------------------------------------
(* The tables at any time                                                    *)

RoomInv == ImportTypeOK /\ Keys(db)

\* A row that gives up its name for one nobody has.
LEMMA PlainIsName ==
  ASSUME NEW title \in Titles \cup {Unassigned}
  PROVE  Plain(title) \in Name
BY ImportAssumption DEF Plain, Numbered, Name, ImportParameters

\* Empty tables are sound.
LEMMA RoomsStart == ImportInit => RoomInv
<1> SUFFICES ASSUME ImportInit PROVE RoomInv OBVIOUS
<1>1. Used(roomTypes) = {} /\ Used(roomRows) = {} BY DEF ImportInit, Used
<1>2. Tables(db)
  BY DEF ImportInit, Tables, db
<1>3. Keys(db) BY <1>1 DEF ImportInit, Keys, UniqueNames, db
<1> QED BY <1>2, <1>3, ImportAssumption DEF RoomInv, ImportTypeOK, ImportInit, ImportParameters

\* The same of the variables, one by one.
RowsSound ==
  /\ roomTypes \in [TypeIds -> TypeRow \cup {None}]
  /\ roomRows \in [RoomIds -> RoomRow \cup {None}]
  /\ mappings \subseteq Mapping /\ catalog \in Catalogs
  /\ UniqueNames(roomTypes) /\ UniqueNames(roomRows)
  /\ \A r \in Used(roomRows) : roomTypes[roomRows[r].type] # None
  /\ \A m, k \in mappings : m.room = k.room \/ m.accommodation = k.accommodation => m = k
  /\ \A m \in mappings : roomRows[m.room] # None

\* What the staff do keeps the keys.
LEMMA StaffKeepsRooms == RoomInv /\ Staff => RoomInv'
<1> SUFFICES ASSUME RoomInv, Staff PROVE RoomInv' OBVIOUS
<1>1. /\ roomTypes \in [TypeIds -> TypeRow \cup {None}]
      /\ roomRows \in [RoomIds -> RoomRow \cup {None}]
      /\ mappings \subseteq Mapping
      /\ catalog \in Catalogs /\ imports \in 0..MaxImports /\ edits \in 0..MaxEdits
  BY DEF RoomInv, ImportTypeOK, Tables, db
<1>2. /\ UniqueNames(roomTypes) /\ UniqueNames(roomRows)
      /\ \A r \in Used(roomRows) : roomTypes[roomRows[r].type] # None
      /\ \A m, k \in mappings : m.room = k.room \/ m.accommodation = k.accommodation => m = k
      /\ \A m \in mappings : roomRows[m.room] # None
  BY DEF RoomInv, Keys, db
<1>3. /\ None \notin TypeRow /\ None \notin RoomRow /\ None \notin TypeIds /\ None \notin RoomIds
      /\ MaxEdits \in Nat /\ MaxImports \in Nat
  BY ImportAssumption DEF ImportParameters
<1>4. imports' \in 0..MaxImports /\ edits' \in 0..MaxEdits
  BY <1>1, <1>3 DEF Staff, StaffEdits, Publish, updateRoomType, deleteRoomType, createRoom,
       updateRoom, deleteRoom, deleteRoomExternalMapping, createRoomExternalMapping
<1>5. SUFFICES RowsSound'
  <2> DEFINE new == [types |-> roomTypes', rooms |-> roomRows', mappings |-> mappings']
  <2>1. db' = new BY DEF db
  <2>2. new.types = roomTypes' /\ new.rooms = roomRows' /\ new.mappings = mappings' OBVIOUS
  <2> HIDE DEF new
  <2>3. ASSUME RowsSound' PROVE Tables(new) /\ Keys(new) /\ catalog' \in Catalogs
    BY <2>2, <2>3 DEF Tables, Keys, RowsSound
  <2> QED BY <1>4, <2>1, <2>3 DEF RoomInv, ImportTypeOK
<1>6. \A r \in Used(roomRows) : r \in RoomIds /\ roomRows[r] \in RoomRow /\ roomRows[r].type \in TypeIds
  BY <1>1 DEF Used, RoomRow
<1>7. CASE \E cat \in Catalogs : Publish(cat)
  BY <1>1, <1>2, <1>7 DEF Publish, RowsSound
<1>8. ASSUME NEW t \in TypeIds, NEW title \in Titles, updateRoomType(t, title) PROVE RowsSound'
  <2> DEFINE row == [name |-> Plain(title), info |-> roomTypes[t].info]
  <2>1. roomTypes[t] # None /\ Named(roomTypes, Plain(title)) = {} BY <1>8 DEF updateRoomType
  <2>2. roomTypes' = [roomTypes EXCEPT ![t] = row]
    <3>1. roomTypes[t] \in TypeRow BY <1>1, <2>1
    <3>2. [roomTypes[t] EXCEPT !.name = Plain(title)] = row BY <3>1 DEF TypeRow
    <3> QED BY <1>8, <3>2 DEF updateRoomType
  <2>3. row \in TypeRow /\ row.name = Plain(title) BY <1>1, <2>1, PlainIsName DEF TypeRow
  <2> HIDE DEF row
  <2>4. UniqueNames(roomTypes')
    BY <1>1, <1>2, <1>3, <2>1, <2>2, <2>3, NamesStayUnique
  <2>5. \A u \in TypeIds : roomTypes[u] # None => roomTypes'[u] # None
    BY <1>1, <1>3, <2>2, <2>3
  <2>6. roomTypes' \in [TypeIds -> TypeRow \cup {None}] BY <1>1, <2>2, <2>3
  <2> QED BY <1>1, <1>2, <1>6, <1>8, <2>4, <2>5, <2>6 DEF updateRoomType, RowsSound
<1>9. ASSUME NEW t \in TypeIds, deleteRoomType(t) PROVE RowsSound'
  <2>1. /\ roomTypes' = [roomTypes EXCEPT ![t] = None]
        /\ \A r \in Used(roomRows) : roomRows[r].type # t
        /\ UNCHANGED <<roomRows, mappings, catalog>>
    BY <1>9 DEF deleteRoomType
  <2>2. UniqueNames(roomTypes')
    <3>1. \A u \in Used(roomTypes') : u \in Used(roomTypes) /\ roomTypes'[u] = roomTypes[u]
      BY <1>1, <2>1 DEF Used
    <3> QED BY <1>2, <3>1 DEF UniqueNames
  <2>3. \A r \in Used(roomRows) : roomTypes'[roomRows[r].type] # None BY <1>1, <1>2, <1>6, <2>1
  <2>4. roomTypes' \in [TypeIds -> TypeRow \cup {None}] BY <1>1, <2>1
  <2> QED BY <1>1, <1>2, <2>1, <2>2, <2>3, <2>4 DEF RowsSound
<1>10. ASSUME NEW t \in TypeIds, NEW title \in Titles, createRoom(t, title) PROVE RowsSound'
  <2> DEFINE row == [name |-> Plain(title), type |-> t]
             r == Fresh(roomRows)
  <2>1. /\ roomTypes[t] # None /\ Named(roomRows, Plain(title)) = {} /\ Used(roomRows) # RoomIds
        /\ roomRows' = [roomRows EXCEPT ![r] = row]
        /\ UNCHANGED <<roomTypes, mappings, catalog>>
    BY <1>10 DEF createRoom
  <2>2. r \in RoomIds /\ roomRows[r] = None
    <3>1. \E i \in RoomIds : roomRows[i] = None BY <1>1, <2>1 DEF Used
    <3> QED BY <1>1, <2>1, <3>1 DEF Fresh
  <2>3. row \in RoomRow /\ row.name = Plain(title) /\ row.type = t BY PlainIsName DEF RoomRow
  <2> HIDE DEF row, r
  <2>4. roomRows' \in [RoomIds -> RoomRow \cup {None}] BY <1>1, <2>1, <2>3
  <2>5. UniqueNames(roomRows')
    BY <1>1, <1>2, <1>3, <2>1, <2>2, <2>3, NamesStayUnique
  <2>6. \A q \in RoomIds : q # r => roomRows'[q] = roomRows[q] BY <1>1, <2>1
  <2>7. roomRows'[r] = row BY <1>1, <2>1, <2>2
  <2>8. \A q \in Used(roomRows') : roomTypes'[roomRows'[q].type] # None
    <3>1. SUFFICES ASSUME NEW q \in Used(roomRows') PROVE roomTypes'[roomRows'[q].type] # None
      OBVIOUS
    <3>2. CASE q = r BY <2>1, <2>3, <2>7, <3>2
    <3>3. CASE q # r
      <4>1. q \in Used(roomRows) /\ roomRows'[q] = roomRows[q]
        BY <1>1, <2>1, <2>4, <2>6, <3>3 DEF Used
      <4> QED BY <1>2, <2>1, <4>1
    <3> QED BY <3>2, <3>3
  <2>9. \A m \in mappings' : roomRows'[m.room] # None
    <3>1. \A m \in mappings : m.room \in RoomIds /\ m.room # r BY <1>1, <1>2, <2>2 DEF Mapping
    <3> QED BY <1>2, <2>1, <2>6, <3>1
  <2> QED BY <1>1, <1>2, <2>1, <2>4, <2>5, <2>8, <2>9 DEF RowsSound
<1>11. ASSUME NEW r \in RoomIds, NEW t \in TypeIds, updateRoom(r, t) PROVE RowsSound'
  <2> DEFINE row == [name |-> roomRows[r].name, type |-> t]
  <2>1. roomRows[r] # None /\ roomTypes[t] # None /\ UNCHANGED <<roomTypes, mappings, catalog>>
    BY <1>11 DEF updateRoom
  <2>2. roomRows[r] \in RoomRow BY <1>1, <2>1
  <2>3. roomRows' = [roomRows EXCEPT ![r] = row]
    <3>1. [roomRows[r] EXCEPT !.type = t] = row BY <2>2 DEF RoomRow
    <3> QED BY <1>11, <3>1 DEF updateRoom
  <2>4. row \in RoomRow /\ row.name = roomRows[r].name /\ row.type = t BY <2>2 DEF RoomRow
  <2> HIDE DEF row
  <2>5. Named(roomRows, row.name) \subseteq {r}
    BY <1>1, <1>2, <2>1, <2>4 DEF Named, UniqueNames, Used
  <2>6. UniqueNames(roomRows')
    BY <1>1, <1>2, <1>3, <2>3, <2>4, <2>5, NamesStayUnique
  <2>7. roomRows' \in [RoomIds -> RoomRow \cup {None}] BY <1>1, <2>3, <2>4
  <2>8. roomRows'[r] = row /\ \A q \in RoomIds : q # r => roomRows'[q] = roomRows[q]
    BY <1>1, <2>3
  <2>9. \A q \in Used(roomRows') : roomTypes'[roomRows'[q].type] # None
    <3>1. SUFFICES ASSUME NEW q \in Used(roomRows') PROVE roomTypes'[roomRows'[q].type] # None
      OBVIOUS
    <3>2. CASE q = r BY <2>1, <2>4, <2>8, <3>2
    <3>3. CASE q # r
      <4>1. q \in Used(roomRows) /\ roomRows'[q] = roomRows[q]
        BY <1>1, <2>3, <2>8, <3>3 DEF Used
      <4> QED BY <1>2, <2>1, <4>1
    <3> QED BY <3>2, <3>3
  <2>10. \A m \in mappings' : roomRows'[m.room] # None
    <3>1. \A m \in mappings : m.room \in RoomIds /\ roomRows[m.room] # None BY <1>1, <1>2 DEF Mapping
    <3>2. row # None BY <1>3, <2>4
    <3> QED BY <2>1, <2>8, <3>1, <3>2
  <2> QED BY <1>1, <1>2, <2>1, <2>6, <2>7, <2>9, <2>10 DEF RowsSound
<1>12. ASSUME NEW r \in RoomIds, deleteRoom(r) PROVE RowsSound'
  <2>1. /\ roomRows' = [roomRows EXCEPT ![r] = None]
        /\ mappings' = {m \in mappings : m.room # r} /\ UNCHANGED <<roomTypes, catalog>>
    BY <1>12 DEF deleteRoom
  <2>2. \A q \in Used(roomRows') : q \in Used(roomRows) /\ roomRows'[q] = roomRows[q]
    BY <1>1, <2>1 DEF Used
  <2>3. UniqueNames(roomRows') BY <1>2, <2>2 DEF UniqueNames
  <2>4. \A m \in mappings' : roomRows'[m.room] # None
    <3>1. \A m \in mappings : m.room \in RoomIds BY <1>1 DEF Mapping
    <3> QED BY <1>1, <1>2, <2>1, <3>1
  <2> QED BY <1>1, <1>2, <2>1, <2>2, <2>3, <2>4 DEF RowsSound
<1>13. ASSUME NEW m \in mappings, deleteRoomExternalMapping(m) PROVE RowsSound'
  BY <1>1, <1>2, <1>13 DEF deleteRoomExternalMapping, RowsSound
<1>14. ASSUME NEW r \in RoomIds, NEW i \in DOMAIN catalog.rooms,
              createRoomExternalMapping(r, catalog.rooms[i])
       PROVE  RowsSound'
  <2> DEFINE x == catalog.rooms[i]
             map == [room |-> r, accommodation |-> x.id, type |-> x.type]
  <2>1. x \in RoomItem BY <1>1, CatalogItems
  <2>2. map \in Mapping /\ map.room = r /\ map.accommodation = x.id
    BY <2>1 DEF Mapping, RoomItem
  <2>3. /\ roomRows[r] # None /\ \A m \in mappings : m.room # r /\ m.accommodation # x.id
        /\ mappings' = mappings \cup {map} /\ UNCHANGED <<roomTypes, roomRows, catalog>>
    BY <1>14 DEF createRoomExternalMapping
  <2> HIDE DEF x, map
  <2> QED BY <1>1, <1>2, <2>2, <2>3 DEF RowsSound
<1> QED BY <1>7, <1>8, <1>9, <1>10, <1>11, <1>12, <1>13, <1>14 DEF Staff

\* An import keeps the keys.
LEMMA ImportKeepsRooms == RoomInv /\ Import => RoomInv'
<1> SUFFICES ASSUME RoomInv, Import PROVE RoomInv' OBVIOUS
<1>1. PICK d \in AllImported(db, catalog) :
        roomTypes' = d.types /\ roomRows' = d.rooms /\ mappings' = d.mappings
  BY DEF Import
<1>2. imports' \in 0..MaxImports /\ catalog' \in Catalogs /\ edits' \in 0..MaxEdits
  BY ImportAssumption DEF Import, RoomInv, ImportTypeOK, ImportParameters
<1>3. Tables(d) /\ Keys(d) BY ImportedSound DEF RoomInv, ImportTypeOK
<1> DEFINE new == [types |-> roomTypes', rooms |-> roomRows', mappings |-> mappings']
<1>4. db' = new /\ new.types = d.types /\ new.rooms = d.rooms /\ new.mappings = d.mappings
  BY <1>1 DEF db
<1> HIDE DEF new
<1>5. Tables(new) BY <1>3, <1>4 DEF Tables
<1>6. Keys(new) BY <1>3, <1>4 DEF Keys
<1> QED BY <1>2, <1>4, <1>5, <1>6 DEF RoomInv, ImportTypeOK

\* The tables of rooms, types and mappings keep their keys and references
\* (schema.prisma:166-264), whatever is published and imported.
THEOREM RoomInvariant == ImportSpec => []RoomInv
<1>1. RoomInv /\ [ImportNext]_importVars => RoomInv'
  <2> SUFFICES ASSUME RoomInv, [ImportNext]_importVars PROVE RoomInv' OBVIOUS
  <2>1. CASE ImportNext BY <2>1, StaffKeepsRooms, ImportKeepsRooms DEF ImportNext
  <2>2. CASE UNCHANGED importVars
    BY <2>2 DEF RoomInv, ImportTypeOK, Tables, Keys, db, importVars
  <2> QED BY <2>1, <2>2
<1> QED BY RoomsStart, <1>1, PTL DEF ImportSpec

\* A type that is imported takes one row, which gets a name of its title.
LEMMA TypeFields ==
  ASSUME NEW L, NEW s, MidSound(s, L), NEW x \in TypeItem, x.id \in L,
         NEW new, new = ImportType(s, x), new.ok, NEW t, t = LocalType(s, x)
  PROVE  /\ t \in TypeIds /\ t # None
         /\ FreeNumbers(s.types, x.title, x.id, t) # {}
         /\ new.types = [s.types EXCEPT ![t] =
              [name |-> resolveUniqueName(s.types, x.title, x.id, t), info |-> x.info]]
         /\ new.types[t].name.title = x.title /\ new.types[t] # None
         /\ \A u \in TypeIds : u # t => new.types[u] = s.types[u]
         /\ new.link = [s.link EXCEPT ![x.id] = t]
         /\ new.rooms = s.rooms /\ new.mappings = s.mappings
<1> DEFINE name == resolveUniqueName(s.types, x.title, x.id, t)
           row == [name |-> name, info |-> x.info]
<1> USE DEF MidSound
<1>1. new # [s EXCEPT !.ok = FALSE]
  <2>1. ~[s EXCEPT !.ok = FALSE].ok BY DEF MidState
  <2> QED BY <2>1
<1>2. t # None /\ FreeNumbers(s.types, x.title, x.id, t) # {} /\ new = TypeDone(s, x)
  BY <1>1, TypeEffect
<1>3. t \in TypeIds BY <1>2, LocalTypeFound
<1>4. x.title \in Titles /\ x.id \in Nat /\ x.info \in Titles BY DEF TypeItem
<1>5. name \in Name /\ name.title = x.title
  <2>1. FreeNumbers(s.types, x.title, x.id, t) # {} BY <1>2
  <2> QED BY ONLY <1>4, <2>1, FoundNameIsFree
<1>6. row \in TypeRow /\ row.name = name BY <1>4, <1>5 DEF TypeRow
<1>7. s.types \in [TypeIds -> TypeRow \cup {None}] BY DEF MidState
<1>8. None \notin TypeRow BY ImportAssumption DEF ImportParameters
<1>9. /\ new.types = [s.types EXCEPT ![t] = row] /\ new.link = [s.link EXCEPT ![x.id] = t]
      /\ new.rooms = s.rooms /\ new.mappings = s.mappings
  BY <1>2 DEF TypeDone
<1> HIDE DEF name, row
<1>10. new.types[t] = row /\ \A u \in TypeIds : u # t => new.types[u] = s.types[u]
  BY <1>3, <1>7, <1>9
<1>11. new.types[t].name.title = x.title /\ new.types[t] # None
  BY <1>5, <1>6, <1>8, <1>10
<1> QED BY <1>2, <1>3, <1>9, <1>10, <1>11 DEF name, row

\* The tables of an import that goes through, after each item.
Pass(p, d, cat, link) ==
  LET n == Len(cat.types) IN
  /\ p[0] = Started(d, link)
  /\ \A i \in 0..Items(cat) : MidSound(p[i], KnownIds(d, cat)) /\ p[i].ok
  /\ \A i \in 1..n : p[i] = ImportType(p[i - 1], cat.types[i])
  /\ \A j \in 1..Len(cat.rooms) : p[n + j] = ImportRoom(p[n + (j - 1)], cat.rooms[j])

\* The tables of an import that goes through are such.
LEMMA PassIs ==
  ASSUME NEW d, Tables(d), Keys(d), NEW cat \in Catalogs, NEW link \in Links(d, cat),
         Imported(d, cat, link).ok
  PROVE  Pass(Progress(d, cat, link), d, cat, link)
<1> DEFINE p == Progress(d, cat, link)
           L == KnownIds(d, cat)
           n == Len(cat.types)
           k == Len(cat.rooms)
           total == Items(cat)
           T == {a \in 0..total : p[total - a].ok}
<1>1. n \in Nat /\ k \in Nat /\ total \in Nat /\ total = n + k BY CatalogItems DEF Items
<1>2. p[0] = Started(d, link) /\ \A i \in 1..total : p[i] = ImportItem(p[i - 1], cat, i)
  BY <1>1, ProgressSteps
<1>3. /\ \A i \in 0..total : MidSound(p[i], L)
      /\ \A i \in 1..total : p[i].ok => p[i - 1].ok
  BY ProgressSound
<1>4. p[total].ok BY DEF Imported
<1>5. \A i \in 1..total : i <= n => p[i] = ImportType(p[i - 1], cat.types[i])
  BY <1>2 DEF ImportItem
<1>6. \A i \in 1..total : ~(i <= n) => p[i] = ImportRoom(p[i - 1], cat.rooms[i - n])
  BY <1>2 DEF ImportItem
<1> HIDE DEF p, L, n, k, total
<1>7. \A i \in 0..total : p[i].ok
  <2>1. 0 \in T BY <1>1, <1>4
  <2>2. ASSUME NEW a \in 1..total, a - 1 \in T PROVE a \in T
    <3>1. total - (a - 1) \in 1..total /\ (total - (a - 1)) - 1 = total - a /\ a \in 0..total
      BY <1>1
    <3>2. p[total - (a - 1)].ok BY <2>2
    <3> QED BY <1>3, <3>1, <3>2
  <2>3. \A a \in 0..total : a \in T
    <3> HIDE DEF T
    <3> QED BY <1>1, <2>1, <2>2, NumbersInduct
  <2>4. \A i \in 0..total : total - i \in 0..total /\ total - (total - i) = i BY <1>1
  <2> QED BY <2>3, <2>4
<1>8. \A i \in 1..n : p[i] = ImportType(p[i - 1], cat.types[i])
  <2>1. \A i \in 1..n : i \in 1..total /\ i <= n BY <1>1
  <2> QED BY <1>5, <2>1
<1>9. \A j \in 1..k : p[n + j] = ImportRoom(p[n + (j - 1)], cat.rooms[j])
  <2>1. \A j \in 1..k : n + j \in 1..total /\ ~(n + j <= n) /\ (n + j) - 1 = n + (j - 1)
                        /\ (n + j) - n = j
    BY <1>1
  <2> QED BY <1>6, <2>1
<1> QED BY <1>2, <1>3, <1>7, <1>8, <1>9 DEF Pass, p, L, n, k, total

\* The row a type takes.
TypeAt(p, cat, j) == LocalType(p[j - 1], cat.types[j])

\* What the import of type x does to the tables s, when it takes row t.
TypeTaken(s, new, x, t) ==
  /\ t \in TypeIds /\ t # None
  /\ FreeNumbers(s.types, x.title, x.id, t) # {}
  /\ new.types = [s.types EXCEPT ![t] =
       [name |-> resolveUniqueName(s.types, x.title, x.id, t), info |-> x.info]]
  /\ new.types[t].name.title = x.title /\ new.types[t] # None
  /\ \A u \in TypeIds : u # t => new.types[u] = s.types[u]
  /\ new.link = [s.link EXCEPT ![x.id] = t]
  /\ new.rooms = s.rooms /\ new.mappings = s.mappings

\* What is known of the import of its j-th type.
LEMMA PassTypes ==
  ASSUME NEW d, NEW cat \in Catalogs, NEW link, NEW p, Pass(p, d, cat, link),
         NEW j \in 1..Len(cat.types)
  PROVE  /\ cat.types[j] \in TypeItem /\ cat.types[j].id \in KnownIds(d, cat)
         /\ MidSound(p[j - 1], KnownIds(d, cat)) /\ MidSound(p[j], KnownIds(d, cat))
         /\ TypeTaken(p[j - 1], p[j], cat.types[j], TypeAt(p, cat, j))
<1> DEFINE x == cat.types[j]
           s == p[j - 1]
           L == KnownIds(d, cat)
<1>1. j \in 1..Items(cat) /\ Items(cat) \in Nat BY CatalogItems, ItemPlaces
<1>2. j \in 0..Items(cat) /\ j - 1 \in 0..Items(cat) BY <1>1
<1>3. x \in TypeItem BY CatalogItems
<1>4. x.id \in L BY CatalogItems DEF KnownIds
<1>5. MidSound(s, L) /\ MidSound(p[j], L) /\ p[j].ok /\ p[j] = ImportType(s, x)
  BY <1>2 DEF Pass
<1> DEFINE t == TypeAt(p, cat, j)
<1>6. t = LocalType(s, x) BY DEF TypeAt, s, x
<1> HIDE DEF t, x, s, L
<1>7. TypeTaken(s, p[j], x, t) BY <1>3, <1>4, <1>5, <1>6, TypeFields DEF TypeTaken
<1> QED BY <1>3, <1>4, <1>5, <1>7 DEF t, x, s, L

\* The links when i types are imported; rooms and mappings wait.
LinkedAt(p, d, cat, first, i) ==
  /\ \A j \in 1..Len(cat.types) :
       p[i].link[cat.types[j].id] = IF j <= i THEN TypeAt(p, cat, j) ELSE first[cat.types[j].id]
  /\ \A y \in KnownIds(d, cat) :
       (\A j \in 1..Len(cat.types) : cat.types[j].id # y) => p[i].link[y] = first[y]
  /\ p[i].rooms = d.rooms /\ p[i].mappings = d.mappings

\* Each link is the row its type took, or the one it started with.
LEMMA LinksAt ==
  ASSUME NEW d, NEW cat \in Catalogs, NEW links, NEW p, Pass(p, d, cat, links),
         NEW i \in 0..Len(cat.types)
  PROVE  LinkedAt(p, d, cat, links, i)
<1> DEFINE n == Len(cat.types)
           L == KnownIds(d, cat)
           id(j) == cat.types[j].id
           T(j) == TypeAt(p, cat, j)
           Good(h) == /\ \A j \in 1..n : p[h].link[id(j)] = IF j <= h THEN T(j) ELSE links[id(j)]
                      /\ \A y \in L : (\A j \in 1..n : id(j) # y) => p[h].link[y] = links[y]
                      /\ p[h].rooms = d.rooms /\ p[h].mappings = d.mappings
           S == {h \in 0..n : Good(h)}
<1>1. n \in Nat BY CatalogItems
<1>2. \A j \in 1..n : id(j) \in L BY CatalogItems DEF KnownIds
<1>3. \A j, k \in 1..n : id(j) = id(k) => j = k
  BY CatalogItems, ImportAssumption DEF ImportParameters, CatalogsAreTyped
<1>4. \A j \in 1..n :
        /\ p[j].link = [p[j - 1].link EXCEPT ![id(j)] = T(j)]
        /\ p[j].rooms = p[j - 1].rooms /\ p[j].mappings = p[j - 1].mappings
        /\ p[j - 1].link \in [L -> TypeIds \cup {None}]
  <2>1. ASSUME NEW j \in 1..n
        PROVE  /\ p[j].link = [p[j - 1].link EXCEPT ![id(j)] = T(j)]
               /\ p[j].rooms = p[j - 1].rooms /\ p[j].mappings = p[j - 1].mappings
               /\ MidSound(p[j - 1], L)
    <3>1. MidSound(p[j - 1], L) /\ TypeTaken(p[j - 1], p[j], cat.types[j], TypeAt(p, cat, j))
      BY PassTypes
    <3> QED BY <3>1 DEF TypeTaken
  <2>2. \A s : MidSound(s, L) => s.link \in [L -> TypeIds \cup {None}] BY DEF MidSound, MidState
  <2> HIDE DEF n, L, id, T
  <2> QED BY <2>1, <2>2
<1>5. p[0].link = links /\ p[0].rooms = d.rooms /\ p[0].mappings = d.mappings
  BY DEF Pass, Started
<1> HIDE DEF n, L, id, T
<1>6. 0 \in S
  <2>1. \A j \in 1..n : ~(j <= 0) OBVIOUS
  <2> QED BY <1>1, <1>5, <2>1
<1>7. ASSUME NEW h \in 1..n, h - 1 \in S PROVE h \in S
  <2>1. Good(h - 1) BY <1>7
  <2>2. ASSUME NEW j \in 1..n PROVE p[h].link[id(j)] = IF j <= h THEN T(j) ELSE links[id(j)]
    <3>1. CASE j = h
      <4>1. p[h].link[id(h)] = T(h) BY <1>2, <1>4
      <4> QED BY <1>1, <3>1, <4>1
    <3>2. CASE j # h
      <4>1. id(j) # id(h) BY <1>3, <3>2
      <4>2. p[h].link[id(j)] = p[h - 1].link[id(j)] BY <1>2, <1>4, <4>1
      <4>3. j <= h - 1 <=> j <= h BY <1>1, <3>2
      <4> QED BY <2>1, <4>2, <4>3
    <3> QED BY <3>1, <3>2
  <2>3. ASSUME NEW y \in L, \A j \in 1..n : id(j) # y PROVE p[h].link[y] = links[y]
    <3>1. p[h].link[y] = p[h - 1].link[y] BY <1>4, <2>3
    <3> QED BY <2>1, <2>3, <3>1
  <2>4. h \in 0..n BY <1>1
  <2> QED BY <1>4, <2>1, <2>2, <2>3, <2>4
<1>8. \A h \in 0..n : h \in S
  <2> HIDE DEF S
  <2> QED BY <1>1, <1>6, <1>7, NumbersInduct
<1>9. i \in 0..n BY DEF n
<1>10. Good(i) BY <1>8, <1>9
<1> QED BY <1>10 DEF n, L, id, T, LinkedAt

\* A row is as it was, or as the type that took it last left it.
TookLast(p, cat, i, u, k) ==
  /\ TypeAt(p, cat, k) = u /\ \A j \in 1..i : j > k => TypeAt(p, cat, j) # u
  /\ p[i].types[u] = p[k].types[u]
  /\ p[i].types[u] # None /\ p[i].types[u].name.title = cat.types[k].title

RowAt(p, d, cat, i, u) ==
  \/ (\A j \in 1..i : TypeAt(p, cat, j) # u) /\ p[i].types[u] = d.types[u]
  \/ \E k \in 1..i : TookLast(p, cat, i, u, k)

\* Each row is such after every type.
LEMMA RowsAt ==
  ASSUME NEW d, NEW cat \in Catalogs, NEW links, NEW p, Pass(p, d, cat, links),
         NEW i \in 0..Len(cat.types), NEW u \in TypeIds
  PROVE  RowAt(p, d, cat, i, u)
<1> DEFINE n == Len(cat.types)
           T(j) == TypeAt(p, cat, j)
           title(j) == cat.types[j].title
           Good(h) == \/ (\A j \in 1..h : T(j) # u) /\ p[h].types[u] = d.types[u]
                      \/ \E k \in 1..h :
                           /\ T(k) = u /\ \A j \in 1..h : j > k => T(j) # u
                           /\ p[h].types[u] = p[k].types[u]
                           /\ p[h].types[u] # None /\ p[h].types[u].name.title = title(k)
           S == {h \in 0..n : Good(h)}
<1>1. n \in Nat BY CatalogItems
<1>2. ASSUME NEW j \in 1..n
      PROVE  /\ T(j) # u => p[j].types[u] = p[j - 1].types[u]
             /\ T(j) = u => p[j].types[u] # None /\ p[j].types[u].name.title = title(j)
  <2>1. TypeTaken(p[j - 1], p[j], cat.types[j], TypeAt(p, cat, j)) BY PassTypes
  <2> QED BY <2>1 DEF TypeTaken
<1>3. p[0].types = d.types BY DEF Pass, Started
<1> HIDE DEF n, T, title
<1>4. 0 \in S BY <1>1, <1>3
<1>5. ASSUME NEW h \in 1..n, h - 1 \in S PROVE h \in S
  <2>1. Good(h - 1) /\ h \in 0..n BY <1>1, <1>5
  <2>2. \A j \in 1..h : j = h \/ j \in 1..(h - 1) BY <1>1
  <2>3. \A j \in 1..(h - 1) : j \in 1..h /\ j # h BY <1>1
  <2>4. h \in 1..h /\ \A j \in 1..h : ~(j > h) BY <1>1
  <2>5. CASE T(h) = u
    <3>1. Good(h) BY <1>2, <2>4, <2>5
    <3> QED BY <2>1, <3>1
  <2>6. CASE T(h) # u
    <3>1. p[h].types[u] = p[h - 1].types[u] BY <1>2, <2>6
    <3>2. CASE (\A j \in 1..(h - 1) : T(j) # u) /\ p[h - 1].types[u] = d.types[u]
      <4>1. Good(h) BY <2>2, <2>6, <3>1, <3>2
      <4> QED BY <2>1, <4>1
    <3>3. ASSUME NEW k \in 1..(h - 1), T(k) = u, \A j \in 1..(h - 1) : j > k => T(j) # u,
                 p[h - 1].types[u] = p[k].types[u], p[h - 1].types[u] # None,
                 p[h - 1].types[u].name.title = title(k)
          PROVE  Good(h)
      <4>1. k \in 1..h /\ \A j \in 1..h : j > k => T(j) # u BY <2>2, <2>3, <2>6, <3>3
      <4> QED BY <3>1, <3>3, <4>1
    <3> QED BY <2>1, <3>2, <3>3
  <2> QED BY <2>5, <2>6
<1>6. \A h \in 0..n : h \in S
  <2> HIDE DEF S
  <2> QED BY <1>1, <1>4, <1>5, NumbersInduct
<1>7. i \in 0..n BY DEF n
<1>8. Good(i) BY <1>6, <1>7
<1> QED BY <1>8 DEF n, T, title, RowAt, TookLast

\* The import of the rooms leaves the links and the rows of types alone.
TypesLeft(new, s) ==
  /\ new.link = s.link
  /\ \A u \in TypeIds : s.types[u] # None => new.types[u] = s.types[u]

\* So it is after each room.
LEMMA RoomsLeaveTypes ==
  ASSUME NEW d, NEW cat \in Catalogs, NEW links, NEW p, Pass(p, d, cat, links),
         NEW j \in 0..Len(cat.rooms)
  PROVE  TypesLeft(p[Len(cat.types) + j], p[Len(cat.types)])
<1> DEFINE n == Len(cat.types)
           k == Len(cat.rooms)
           L == KnownIds(d, cat)
           q == [h \in 0..k |-> p[n + h]]
           Good(i) == TypesLeft(q[i], p[n])
           S == {i \in 0..k : Good(i)}
<1>1. n \in Nat /\ k \in Nat BY CatalogItems
<1>2. \A h \in 1..k : h \in 0..k /\ h - 1 \in 0..k BY <1>1
<1>3. ASSUME NEW i \in 1..k
      PROVE  /\ q[i].link = q[i - 1].link
             /\ \A u \in TypeIds : q[i - 1].types[u] # None => q[i].types[u] = q[i - 1].types[u]
  <2>1. n + i \in 1..Items(cat) /\ n + (i - 1) \in 0..Items(cat)
    <3>1. Items(cat) = n + k BY DEF Items
    <3> HIDE DEF n, k
    <3> QED BY <1>1, <3>1
  <2>2. Items(cat) \in Nat BY CatalogItems
  <2>3. n + i \in 0..Items(cat) BY <2>1, <2>2
  <2>4. /\ MidSound(p[n + (i - 1)], L) /\ p[n + i].ok
        /\ p[n + i] = ImportRoom(p[n + (i - 1)], cat.rooms[i])
    BY <2>1, <2>3 DEF Pass
  <2>5. cat.rooms[i] \in RoomItem BY CatalogItems
  <2>6. q[i] = p[n + i] /\ q[i - 1] = p[n + (i - 1)] BY <1>2
  <2> HIDE DEF n, k, L, q
  <2>7. ImportRoom(q[i - 1], cat.rooms[i]).ok /\ MidSound(q[i - 1], L)
        /\ q[i] = ImportRoom(q[i - 1], cat.rooms[i])
    BY <2>4, <2>6
  <2> QED BY <2>5, <2>7, RoomKeepsTypes
<1>4. q[0] = p[n] BY <1>1
<1> HIDE DEF n, k, q
<1>5. 0 \in S BY <1>1, <1>4 DEF TypesLeft
<1>6. \A i \in 1..k : i - 1 \in S => i \in S
  <2>1. ASSUME NEW i \in 1..k, Good(i - 1) PROVE Good(i) BY <1>3, <2>1 DEF TypesLeft
  <2> HIDE DEF Good
  <2> QED BY <1>2, <2>1
<1>7. \A i \in 0..k : i \in S
  <2> HIDE DEF S
  <2> QED BY <1>1, <1>5, <1>6, NumbersInduct
<1>8. \A i \in 0..k : q[i] = p[n + i] BY DEF q
<1>9. j \in 0..k BY DEF k
<1>10. TypesLeft(p[n + j], p[n]) BY <1>7, <1>8, <1>9
<1> QED BY <1>10 DEF n

\* What the types leave: each is linked to its row, which has the title of the
\* last that took it.
TypeLeft(p, cat, n, j) ==
  LET t == TypeAt(p, cat, j) IN
  /\ t \in TypeIds /\ p[n].link[cat.types[j].id] = t /\ p[n].types[t] # None
  /\ \E c \in 1..n : c >= j /\ p[n].types[t].name.title = cat.types[c].title

\* So each type is left by the import of all types.
LEMMA TypesEnd ==
  ASSUME NEW d, NEW cat \in Catalogs, NEW links, NEW p, Pass(p, d, cat, links),
         NEW j \in 1..Len(cat.types)
  PROVE  TypeLeft(p, cat, Len(cat.types), j)
<1> DEFINE n == Len(cat.types)
           u == TypeAt(p, cat, j)
<1>1. n \in 0..n /\ n \in Nat /\ j \in 1..n /\ j <= n BY CatalogItems
<1>2. u \in TypeIds BY PassTypes DEF TypeTaken
<1>3. p[n].link[cat.types[j].id] = u
  <2>1. LinkedAt(p, d, cat, links, n) BY <1>1, LinksAt
  <2> QED BY <1>1, <2>1 DEF LinkedAt
<1>4. TypeAt(p, cat, j) = u OBVIOUS
<1>5. n = Len(cat.types) OBVIOUS
<1> HIDE DEF u, n
<1>6. RowAt(p, d, cat, n, u) BY <1>1, <1>2, <1>5, RowsAt
<1>7. PICK k \in 1..n : TookLast(p, cat, n, u, k) BY <1>1, <1>4, <1>6 DEF RowAt
<1>8. k >= j BY <1>1, <1>4, <1>7 DEF TookLast
<1>9. TypeLeft(p, cat, n, j) BY <1>2, <1>3, <1>4, <1>7, <1>8 DEF TypeLeft, TookLast
<1> QED BY <1>9 DEF n

\* So it is at the end of the import.
LEMMA RoomsEnd ==
  ASSUME NEW d, NEW cat \in Catalogs, NEW links, NEW p, Pass(p, d, cat, links)
  PROVE  TypesLeft(p[Items(cat)], p[Len(cat.types)])
<1>1. Len(cat.rooms) \in 0..Len(cat.rooms) BY CatalogItems
<1> QED BY <1>1, RoomsLeaveTypes DEF Items

-----------------------------------------------------------------------------
(* Importing again                                                           *)

\* What an import leaves: each published room is mapped, with a name of its
\* title and the type of its links, or there is a type for rooms without one,
\* and a row that rooms link to has the title of a type that took it, of that
\* of the link or one listed after it.
RoomSteady(d, link, x) ==
  \E m \in d.mappings :
    /\ m.accommodation = x.id /\ m.type = x.type
    /\ IsNamed(d.rooms[m.room].name, x.title, x.id)
    /\ IF x.type = None THEN Named(d.types, Plain(Unassigned)) # {}
       ELSE d.rooms[m.room].type = link[x.type]

TypeSteady(d, cat, link, j) ==
  link[cat.types[j].id] # None =>
    /\ d.types[link[cat.types[j].id]] # None
    /\ \E k \in 1..Len(cat.types) :
         k >= j /\ d.types[link[cat.types[j].id]].name.title = cat.types[k].title

\* Types that room rows of one title are linked to are linked to one row.
TypesAgree(d, cat, link) ==
  \A j, k \in 1..Len(cat.types) :
    /\ link[cat.types[j].id] # None /\ link[cat.types[k].id] # None
    /\ d.types[link[cat.types[j].id]].name.title = cat.types[k].title
    => link[cat.types[k].id] = link[cat.types[j].id]

Steady(d, cat, link) ==
  /\ Tables(d) /\ Keys(d) /\ Regular(d, cat) /\ link \in Links(d, cat)
  /\ \A j \in 1..Len(cat.rooms) : RoomSteady(d, link, cat.rooms[j])
  /\ \A j \in 1..Len(cat.types) : TypeSteady(d, cat, link, j)
  /\ TypesAgree(d, cat, link)

\* A title is that of one published type.
LEMMA TitlesDiffer ==
  ASSUME NEW d, NEW cat \in Catalogs, Regular(d, cat),
         NEW i \in 1..Len(cat.types), NEW j \in 1..Len(cat.types),
         cat.types[i].title = cat.types[j].title
  PROVE  i = j
BY CatalogItems DEF Regular

\* Ids of MotoPress are numbers.
LEMMA KnownAreNumbers ==
  ASSUME NEW d, Tables(d), NEW cat \in Catalogs
  PROVE  /\ KnownIds(d, cat) \subseteq Nat /\ None \notin KnownIds(d, cat)
         /\ \A m \in d.mappings : m.type # None => m.type \in KnownIds(d, cat)
<1>1. \A i \in DOMAIN cat.types : cat.types[i].id \in Nat BY CatalogItems DEF TypeItem
<1>2. \A m \in d.mappings : m.type \in Nat \cup {None} BY DEF Tables, Mapping
<1>3. None \notin Nat BY ImportAssumption DEF ImportParameters
<1> QED BY <1>1, <1>2, <1>3 DEF KnownIds

\* An import leaves them so, for every choice of links the next can start with.
LEMMA SteadyAfter ==
  ASSUME NEW d, Tables(d), Keys(d), NEW cat \in Catalogs, NEW first \in Links(d, cat),
         Imported(d, cat, first).ok, NEW new, Tables(new), Keys(new), CatalogImported(new, cat),
         new.types = Imported(d, cat, first).types, new.rooms = Imported(d, cat, first).rooms,
         new.mappings = Imported(d, cat, first).mappings,
         Regular(new, cat), NEW links \in Links(new, cat)
  PROVE  Steady(new, cat, links)
<1> DEFINE p == Progress(d, cat, first)
           n == Len(cat.types)
           k == Len(cat.rooms)
           L == KnownIds(d, cat)
           last == p[Items(cat)]
<1>1. /\ n \in Nat /\ k \in Nat /\ Items(cat) = n + k /\ Items(cat) \in Nat
      /\ DOMAIN cat.types = 1..n /\ DOMAIN cat.rooms = 1..k
  BY CatalogItems DEF Items
<1>2. Pass(p, d, cat, first) BY PassIs
<1>3. new.types = last.types /\ new.rooms = last.rooms /\ new.mappings = last.mappings
  BY <1>1 DEF Imported
<1>4. \A j \in 1..k : RoomIs(last, L, cat.rooms[j])
  <2>1. \A j \in 1..k : n + j <= Items(cat)
    <3>1. \A j \in 1..k : n + j \in 1..Items(cat) BY ItemPlaces
    <3> QED BY <1>1, <3>1
  <2>2. Items(cat) \in 0..Items(cat)
    <3> DEFINE e == Items(cat)
    <3>1. e \in Nat BY <1>1
    <3> HIDE DEF e
    <3>2. e \in 0..e BY <3>1
    <3> QED BY <3>2 DEF e
  <2>3. p[Items(cat)].ok BY DEF Imported
  <2> QED BY <1>1, <2>1, <2>2, <2>3, ProgressImports
<1>5. None \notin L /\ KnownIds(new, cat) \subseteq Nat
      /\ \A m \in new.mappings : m.type # None => m.type \in KnownIds(new, cat)
  BY KnownAreNumbers
<1>6. \A m, h \in new.mappings : m.accommodation = h.accommodation => m = h BY DEF Keys
<1>7. \A m \in new.mappings : \E i \in 1..k : cat.rooms[i].id = m.accommodation
  BY <1>1 DEF Regular
<1>8. \A y \in KnownIds(new, cat) :
        IF LocalTypes(new, y) = {} THEN links[y] = None ELSE links[y] \in LocalTypes(new, y)
  BY DEF Links
<1>9. /\ last.link = p[n].link
      /\ \A u \in TypeIds : p[n].types[u] # None => last.types[u] = p[n].types[u]
  <2>1. TypesLeft(p[Items(cat)], p[Len(cat.types)])
    <3> HIDE DEF p
    <3> QED BY <1>2, RoomsEnd
  <2> QED BY <2>1 DEF TypesLeft
<1> HIDE DEF p, n, k, L, last
<1>10. ASSUME NEW j \in 1..k PROVE RoomSteady(new, links, cat.rooms[j])
  <2> DEFINE x == cat.rooms[j]
  <2>1. PICK m \in new.mappings :
          /\ m.accommodation = x.id /\ m.type = x.type
          /\ IsNamed(new.rooms[m.room].name, x.title, x.id)
          /\ IF x.type \in L THEN new.rooms[m.room].type = last.link[x.type]
             ELSE new.rooms[m.room].type \in Named(new.types, Plain(Unassigned))
    BY <1>3, <1>4 DEF RoomIs
  <2>2. ASSUME x.type # None PROVE new.rooms[m.room].type = links[x.type]
    <3>1. m.type \in KnownIds(new, cat) BY <1>5, <2>1, <2>2
    <3>2. new.rooms[m.room].type \in LocalTypes(new, x.type) BY <2>1 DEF LocalTypes
    <3>3. links[x.type] \in LocalTypes(new, x.type) BY <1>8, <2>1, <3>1, <3>2
    <3>4. PICK h \in new.mappings : h.type = x.type /\ links[x.type] = new.rooms[h.room].type
      BY <3>3 DEF LocalTypes
    <3>5. PICK g \in new.mappings :
            /\ g.accommodation = x.id /\ g.type = x.type
            /\ \A f \in new.mappings :
                 f.type = g.type /\ (\E i \in DOMAIN cat.rooms : cat.rooms[i].id = f.accommodation) =>
                   new.rooms[f.room].type = new.rooms[g.room].type
      BY <1>1 DEF CatalogImported
    <3>6. g = m BY <1>6, <2>1, <3>5
    <3>7. \E i \in DOMAIN cat.rooms : cat.rooms[i].id = h.accommodation BY <1>1, <1>7
    <3> QED BY <2>1, <3>4, <3>5, <3>6, <3>7
  <2>3. ASSUME x.type = None PROVE new.rooms[m.room].type \in Named(new.types, Plain(Unassigned))
    BY <1>5, <2>1, <2>3
  <2> HIDE DEF x
  <2>4. RoomSteady(new, links, x) BY <2>1, <2>2, <2>3 DEF RoomSteady
  <2> QED BY <2>4 DEF x
<1>11. ASSUME NEW j \in 1..n, links[cat.types[j].id] # None
       PROVE  /\ links[cat.types[j].id] = TypeAt(p, cat, j)
              /\ TypeAt(p, cat, j) \in TypeIds
              /\ new.types[TypeAt(p, cat, j)] = p[n].types[TypeAt(p, cat, j)]
              /\ p[n].types[TypeAt(p, cat, j)] # None
              /\ \E i \in 1..n : i >= j /\ p[n].types[TypeAt(p, cat, j)].name.title = cat.types[i].title
  <2> DEFINE y == cat.types[j].id
             u == TypeAt(p, cat, j)
  <2>1. links[y] # None BY <1>11
  <2>2. y \in KnownIds(new, cat) /\ y \in L /\ y # None
    <3>1. y \in KnownIds(new, cat) /\ y \in L BY <1>1 DEF KnownIds, L
    <3> QED BY <1>5, <3>1
  <2>3. PICK h \in new.mappings : h.type = y /\ links[y] = new.rooms[h.room].type
    <3>1. links[y] \in LocalTypes(new, y) BY <1>8, <2>1, <2>2
    <3> QED BY <3>1 DEF LocalTypes
  <2>4. PICK i \in 1..k : cat.rooms[i].id = h.accommodation BY <1>7
  <2>5. PICK m \in new.mappings :
          /\ m.accommodation = cat.rooms[i].id /\ m.type = cat.rooms[i].type
          /\ IF cat.rooms[i].type \in L THEN new.rooms[m.room].type = last.link[cat.rooms[i].type]
             ELSE new.rooms[m.room].type \in Named(new.types, Plain(Unassigned))
    BY <1>3, <1>4 DEF RoomIs
  <2>6. m = h BY <1>6, <2>4, <2>5
  <2>7. links[y] = last.link[y] BY <2>2, <2>3, <2>5, <2>6
  <2>8. /\ u \in TypeIds /\ p[n].link[y] = u /\ p[n].types[u] # None
        /\ \E b \in 1..n : b >= j /\ p[n].types[u].name.title = cat.types[b].title
    <3>1. TypeLeft(p, cat, Len(cat.types), j) BY <1>2, TypesEnd DEF n
    <3> QED BY <3>1 DEF TypeLeft, n
  <2>9. links[y] = u BY <1>9, <2>7, <2>8
  <2>10. new.types[u] = p[n].types[u] BY <1>3, <1>9, <2>8
  <2> HIDE DEF u, y
  <2>11. /\ links[y] = u /\ u \in TypeIds /\ new.types[u] = p[n].types[u] /\ p[n].types[u] # None
         /\ \E b \in 1..n : b >= j /\ p[n].types[u].name.title = cat.types[b].title
    BY <2>8, <2>9, <2>10
  <2> QED BY <2>11 DEF u, y
<1>12. ASSUME NEW j \in 1..n PROVE TypeSteady(new, cat, links, j)
  <2> DEFINE y == cat.types[j].id
  <2>1. links[y] # None =>
          /\ new.types[links[y]] # None
          /\ \E i \in 1..n : i >= j /\ new.types[links[y]].name.title = cat.types[i].title
    BY <1>11
  <2> QED BY <2>1 DEF TypeSteady, n
<1>13. TypesAgree(new, cat, links)
  <2>1. SUFFICES ASSUME NEW j \in 1..n, NEW i \in 1..n,
                        links[cat.types[j].id] # None, links[cat.types[i].id] # None,
                        new.types[links[cat.types[j].id]].name.title = cat.types[i].title
                 PROVE  links[cat.types[i].id] = links[cat.types[j].id]
    BY DEF TypesAgree, n
  <2> DEFINE u == TypeAt(p, cat, j)
  <2>2. /\ links[cat.types[j].id] = u /\ links[cat.types[i].id] = TypeAt(p, cat, i)
        /\ u \in TypeIds /\ p[n].types[u].name.title = cat.types[i].title
    BY <1>11, <2>1
  <2>3. RowAt(p, d, cat, n, u)
    <3>1. n \in 0..Len(cat.types) BY <1>1 DEF n
    <3> HIDE DEF u, n
    <3> QED BY <1>2, <2>2, <3>1, RowsAt
  <2>4. PICK h \in 1..n : TookLast(p, cat, n, u, h) BY <2>3 DEF RowAt
  <2>5. cat.types[h].title = cat.types[i].title /\ TypeAt(p, cat, h) = u BY <2>2, <2>4 DEF TookLast
  <2>6. h = i BY <2>5, TitlesDiffer DEF n
  <2> QED BY <2>2, <2>5, <2>6
<1> QED BY <1>10, <1>12, <1>13 DEF Steady, n, k

\* A type takes a row.
LEMMA TypeAtIs ==
  ASSUME NEW d, NEW cat \in Catalogs, NEW links, NEW p, Pass(p, d, cat, links),
         NEW j \in 1..Len(cat.types)
  PROVE  TypeAt(p, cat, j) \in TypeIds /\ TypeAt(p, cat, j) # None
<1>1. TypeAt(p, cat, j) \in TypeIds BY PassTypes DEF TypeTaken
<1> QED BY <1>1, ImportAssumption DEF ImportParameters

\* How a type finds its row when it is its turn.
FoundBy(p, cat, first, j) ==
  LET x == cat.types[j]
      s == p[j - 1]
      t == TypeAt(p, cat, j)
  IN  IF first[x.id] # None THEN t = first[x.id] /\ s.types[t] # None
      ELSE \/ t \in Named(s.types, Plain(x.title))
           \/ Named(s.types, Plain(x.title)) = {} /\ s.types[t] = None

\* By its link, else by its title, else it is a new one.
LEMMA FoundAt ==
  ASSUME NEW d, NEW cat \in Catalogs, NEW links, NEW p, Pass(p, d, cat, links),
         NEW j \in 1..Len(cat.types)
  PROVE  FoundBy(p, cat, links, j)
<1> DEFINE x == cat.types[j]
           s == p[j - 1]
           t == TypeAt(p, cat, j)
           L == KnownIds(d, cat)
<1>1. x \in TypeItem /\ x.id \in L /\ MidSound(s, L) /\ t # None BY PassTypes, TypeAtIs
<1>2. t = LocalType(s, x) BY DEF TypeAt
<1>3. s.link[x.id] = links[x.id]
  <2>1. Len(cat.types) \in Nat BY CatalogItems
  <2>2. j - 1 \in 0..Len(cat.types) /\ ~(j <= j - 1) BY <2>1
  <2>3. LinkedAt(p, d, cat, links, j - 1) BY <2>2, LinksAt
  <2> QED BY <2>2, <2>3 DEF LinkedAt
<1> HIDE DEF x, s, t, L
<1>4. /\ s.link[x.id] # None => t = s.link[x.id] /\ t \in Used(s.types)
      /\ s.link[x.id] = None =>
              \/ t \in Named(s.types, Plain(x.title))
              \/ Named(s.types, Plain(x.title)) = {} /\ s.types[t] = None
  BY <1>1, <1>2, LocalTypeFound DEF MidSound
<1>5. t \in Used(s.types) => s.types[t] # None BY DEF Used
<1> QED BY <1>3, <1>4, <1>5 DEF FoundBy, x, s, t

\* The row of a type no room links to is taken once.
LEMMA OwnRow ==
  ASSUME NEW d, NEW cat \in Catalogs, NEW links, Steady(d, cat, links),
         NEW p, Pass(p, d, cat, links),
         NEW a \in 1..Len(cat.types), links[cat.types[a].id] = None,
         NEW b \in 1..Len(cat.types), b # a
  PROVE  TypeAt(p, cat, b) # TypeAt(p, cat, a)
<1> DEFINE n == Len(cat.types)
           u == TypeAt(p, cat, a)
           title(i) == cat.types[i].title
<1>1. n \in Nat BY CatalogItems
<1>2. SUFFICES ASSUME TypeAt(p, cat, b) = u PROVE FALSE OBVIOUS
<1>3. u \in TypeIds BY TypeAtIs
<1>4. \A i, j \in 1..n : title(i) = title(j) => i = j
  <2>1. Regular(d, cat) BY DEF Steady
  <2> QED BY <2>1, TitlesDiffer
<1>5. \/ p[a - 1].types[u] # None /\ p[a - 1].types[u].name = Plain(title(a))
      \/ p[a - 1].types[u] = None
  <2>1. FoundBy(p, cat, links, a) BY FoundAt
  <2> QED BY <2>1 DEF FoundBy, Named, Used
<1>6. links[cat.types[b].id] # None => links[cat.types[b].id] = u
  <2>1. FoundBy(p, cat, links, b) BY FoundAt
  <2> QED BY <1>2, <2>1 DEF FoundBy
<1>7. links[cat.types[b].id] = None =>
        \/ p[b - 1].types[u] # None /\ p[b - 1].types[u].name = Plain(title(b))
        \/ p[b - 1].types[u] = None
  <2>1. FoundBy(p, cat, links, b) BY FoundAt
  <2> QED BY <1>2, <2>1 DEF FoundBy, Named, Used
<1>8. \A i \in 0..n : RowAt(p, d, cat, i, u) BY <1>3, RowsAt
<1>9. TypeSteady(d, cat, links, b) BY DEF Steady
<1>10. \A i : Plain(title(i)).title = title(i) BY DEF Plain, Numbered
<1>11. a - 1 \in 0..n /\ b - 1 \in 0..n /\ a \in 1..n /\ b \in 1..n BY <1>1
<1>12. TypeAt(p, cat, a) = u OBVIOUS
<1> HIDE DEF n, u, title
<1>13. (\A j \in 1..(a - 1) : TypeAt(p, cat, j) # u) /\ p[a - 1].types[u] = d.types[u]
  <2>1. ASSUME NEW i \in 1..(a - 1), TookLast(p, cat, a - 1, u, i) PROVE FALSE
    <3>1. p[a - 1].types[u] # None /\ p[a - 1].types[u].name.title = title(i)
      BY <2>1 DEF TookLast, title
    <3>2. title(i) = title(a) BY <1>5, <1>10, <3>1
    <3>3. i \in 1..n /\ i # a BY <1>1, <1>11
    <3> QED BY <1>4, <1>11, <3>2, <3>3
  <2> QED BY <1>8, <1>11, <2>1 DEF RowAt
<1>14. b > a /\ a \in 1..(b - 1) BY <1>1, <1>2, <1>11, <1>13
<1>15. PICK i \in 1..(b - 1) : TookLast(p, cat, b - 1, u, i)
  BY <1>8, <1>11, <1>12, <1>14 DEF RowAt
<1>16. links[cat.types[b].id] = u
  <2>1. p[b - 1].types[u] # None /\ p[b - 1].types[u].name.title = title(i)
    BY <1>15 DEF TookLast, title
  <2>2. i \in 1..n /\ i # b BY <1>1, <1>11
  <2>3. title(i) # title(b) BY <1>4, <1>11, <2>2
  <2> QED BY <1>6, <1>7, <1>10, <2>1, <2>3
<1>17. u # None BY <1>3, ImportAssumption DEF ImportParameters
<1>18. PICK k \in 1..n : k >= b /\ d.types[u].name.title = title(k) /\ d.types[u] # None
  BY <1>9, <1>16, <1>17 DEF TypeSteady, n, title
<1>19. title(k) = title(a) BY <1>5, <1>10, <1>13, <1>18
<1>20. k # a BY <1>1, <1>11, <1>14, <1>18
<1> QED BY <1>4, <1>11, <1>19, <1>20

\* A row that a type takes has, before the import, none of the titles listed
\* before that type.
TitledFrom(d, cat, u, j) ==
  \/ d.types[u] = None
  \/ \E k \in 1..Len(cat.types) : k >= j /\ d.types[u].name.title = cat.types[k].title

\* The row a type takes had none, or the title of it or of a later type.
LEMMA RowBefore ==
  ASSUME NEW d, NEW cat \in Catalogs, NEW links, Steady(d, cat, links),
         NEW p, Pass(p, d, cat, links), NEW j \in 1..Len(cat.types)
  PROVE  TitledFrom(d, cat, TypeAt(p, cat, j), j)
<1> DEFINE n == Len(cat.types)
           u == TypeAt(p, cat, j)
<1>1. n \in Nat BY CatalogItems
<1>2. u \in TypeIds /\ u # None BY TypeAtIs
<1>3. CASE links[cat.types[j].id] # None
  <2>1. TypeSteady(d, cat, links, j) BY DEF Steady
  <2>2. FoundBy(p, cat, links, j) BY FoundAt
  <2> QED BY <1>3, <2>1, <2>2 DEF TypeSteady, FoundBy, TitledFrom
<1>4. CASE links[cat.types[j].id] = None
  <2>1. \A i \in 1..(j - 1) : TypeAt(p, cat, i) # u
    <3>1. \A i \in 1..(j - 1) : i \in 1..Len(cat.types) /\ i # j BY <1>1
    <3> QED BY <1>4, <3>1, OwnRow
  <2>2. RowAt(p, d, cat, j - 1, u)
    <3>1. j - 1 \in 0..Len(cat.types) BY <1>1
    <3> QED BY <1>2, <3>1, RowsAt
  <2>3. p[j - 1].types[u] = d.types[u] BY <2>1, <2>2 DEF RowAt, TookLast
  <2>4. FoundBy(p, cat, links, j) BY FoundAt
  <2>5. d.types[u] = None \/ d.types[u].name = Plain(cat.types[j].title)
    BY <1>4, <2>3, <2>4 DEF FoundBy, Named
  <2>6. Plain(cat.types[j].title).title = cat.types[j].title BY DEF Plain, Numbered
  <2>7. j >= j BY <1>1
  <2> QED BY <2>5, <2>6, <2>7 DEF TitledFrom
<1> QED BY <1>3, <1>4

\* No other row has the title of a type.
OnlyTitled(p, cat, j) ==
  Named(p[j - 1].types, Plain(cat.types[j].title)) \subseteq {TypeAt(p, cat, j)}

\* Then its name is its title.
LEMMA TitleAlone ==
  ASSUME NEW d, NEW cat \in Catalogs, NEW links, NEW p, Pass(p, d, cat, links),
         NEW j \in 1..Len(cat.types), OnlyTitled(p, cat, j)
  PROVE  p[j].types[TypeAt(p, cat, j)] = [name |-> Plain(cat.types[j].title), info |-> cat.types[j].info]
<1> DEFINE x == cat.types[j]
           s == p[j - 1]
           t == TypeAt(p, cat, j)
           free == FreeNumbers(s.types, x.title, x.id, t)
<1>1. MidSound(s, KnownIds(d, cat)) /\ TypeTaken(s, p[j], x, t) BY PassTypes
<1>2. Tries \in Nat BY ImportAssumption DEF ImportParameters
<1>3. Numbered(x.title, x.id, 0) = Plain(x.title) BY DEF Numbered, Plain
<1>4. Named(s.types, Plain(x.title)) \subseteq {t} BY DEF OnlyTitled
<1> HIDE DEF x, s, t
<1>5. 0 \in free BY <1>2, <1>3, <1>4 DEF FreeNumbers
<1>6. free \in SUBSET Nat BY <1>2 DEF FreeNumbers
<1>7. Min(free) = 0
  <2> HIDE DEF free
  <2>1. Min(free) \in free /\ Min(free) <= 0 BY <1>5, <1>6, LeastIsIn
  <2>2. Min(free) \in Nat BY <1>6, <2>1
  <2> DEFINE h == Min(free)
  <2>3. h \in Nat /\ h <= 0 BY <2>1, <2>2
  <2> HIDE DEF h
  <2>4. h = 0 BY <2>3
  <2> QED BY <2>4 DEF h
<1>8. resolveUniqueName(s.types, x.title, x.id, t) = Plain(x.title)
  BY <1>3, <1>7 DEF resolveUniqueName
<1>9. s.types \in [TypeIds -> TypeRow \cup {None}] BY <1>1 DEF MidSound, MidState
<1>10. p[j].types[t] = [name |-> Plain(x.title), info |-> x.info]
  BY <1>1, <1>8, <1>9 DEF TypeTaken
<1> QED BY <1>10 DEF x, t

\* So is a type no room links to.
LEMMA OwnName ==
  ASSUME NEW d, NEW cat \in Catalogs, NEW links, NEW p, Pass(p, d, cat, links),
         NEW j \in 1..Len(cat.types), links[cat.types[j].id] = None
  PROVE  p[j].types[TypeAt(p, cat, j)] = [name |-> Plain(cat.types[j].title), info |-> cat.types[j].info]
<1> DEFINE x == cat.types[j]
           s == p[j - 1]
           t == TypeAt(p, cat, j)
<1>1. MidSound(s, KnownIds(d, cat)) BY PassTypes
<1>2. FoundBy(p, cat, links, j) BY FoundAt
<1>3. \/ t \in Named(s.types, Plain(x.title)) \/ Named(s.types, Plain(x.title)) = {}
  BY <1>2 DEF FoundBy
<1> HIDE DEF x, s, t
<1>4. Named(s.types, Plain(x.title)) \subseteq {t}
  BY <1>1, <1>3 DEF MidSound, Keys, UniqueNames, Named
<1>5. OnlyTitled(p, cat, j) BY <1>4 DEF OnlyTitled, x, s, t
<1> QED BY <1>5, TitleAlone DEF x, t

\* Once there is a type of the rooms without a type, there is one after the
\* types are imported again, even if one that is published has its title.
LEMMA UnassignedStays ==
  ASSUME NEW d, NEW cat \in Catalogs, NEW links, Steady(d, cat, links),
         NEW p, Pass(p, d, cat, links), NEW n, n = Len(cat.types),
         NEW u \in Named(d.types, Plain(Unassigned))
  PROVE  Named(p[n].types, Plain(Unassigned)) # {}
<1> DEFINE title(i) == cat.types[i].title
           id(i) == cat.types[i].id
           T(i) == TypeAt(p, cat, i)
<1>1. n \in Nat /\ n \in 0..n /\ \A i \in 1..n : i - 1 \in 0..n /\ i \in 0..n
  BY CatalogItems
<1>2. Tables(d) /\ Keys(d) /\ Regular(d, cat) /\ TypesAgree(d, cat, links) BY DEF Steady
<1>3. /\ u \in TypeIds /\ d.types[u] # None /\ d.types[u].name = Plain(Unassigned)
      /\ \A v \in TypeIds : d.types[v] # None /\ d.types[v].name = Plain(Unassigned) => v = u
  BY <1>2 DEF Named, Used, Tables, Keys, UniqueNames
<1>4. \A i : Plain(i).title = i BY DEF Plain, Numbered
<1>5. \A i, j \in 1..n : title(i) = title(j) => i = j BY <1>2, TitlesDiffer
<1>6. \A i \in 0..n, v \in TypeIds : RowAt(p, d, cat, i, v) BY RowsAt
<1>7. \A i \in 1..n : T(i) \in TypeIds /\ T(i) # None BY TypeAtIs
<1>8. p[n].types \in [TypeIds -> TypeRow \cup {None}]
  <2>1. n \in 0..Items(cat) BY ItemPlaces
  <2>2. MidSound(p[n], KnownIds(d, cat)) BY <2>1 DEF Pass
  <2> QED BY <2>2 DEF MidSound, MidState
<1>9. ASSUME NEW v \in TypeIds, p[n].types[v] # None, p[n].types[v].name = Plain(Unassigned)
      PROVE  Named(p[n].types, Plain(Unassigned)) # {}
  BY <1>8, <1>9 DEF Named, Used
<1>10. ASSUME NEW i \in 1..n, title(i) = Unassigned, TookLast(p, cat, n, T(i), i),
              p[i].types[T(i)].name = Plain(title(i))
       PROVE  Named(p[n].types, Plain(Unassigned)) # {}
  <2>1. p[n].types[T(i)] # None /\ p[n].types[T(i)].name = Plain(Unassigned)
    BY <1>10 DEF TookLast
  <2> QED BY <1>7, <1>9, <2>1
<1>11. ASSUME NEW i \in 1..n, links[id(i)] = None
       PROVE  TookLast(p, cat, n, T(i), i)
  <2>1. RowAt(p, d, cat, n, T(i)) BY <1>1, <1>6, <1>7
  <2>2. PICK k \in 1..n : TookLast(p, cat, n, T(i), k) BY <2>1 DEF RowAt
  <2>3. T(k) = T(i) BY <2>2 DEF TookLast
  <2>4. k = i BY <1>11, <2>3, OwnRow
  <2> QED BY <2>2, <2>4
<1>12. CASE \A i \in 1..n : T(i) # u
  <2>1. RowAt(p, d, cat, n, u) BY <1>1, <1>3, <1>6
  <2>2. p[n].types[u] = d.types[u] BY <1>12, <2>1 DEF RowAt, TookLast
  <2> QED BY <1>3, <1>9, <2>2
<1>13. CASE \E i \in 1..n : T(i) = u
  <2>1. PICK j \in 1..n : TookLast(p, cat, n, u, j)
    <3>1. RowAt(p, d, cat, n, u) BY <1>1, <1>3, <1>6
    <3> QED BY <1>13, <3>1 DEF RowAt
  <2>2. T(j) = u /\ \A i \in 1..n : i > j => T(i) # u BY <2>1 DEF TookLast
  <2>3. PICK k \in 1..n : k >= j /\ title(k) = Unassigned
    <3>1. TitledFrom(d, cat, T(j), j) BY RowBefore
    <3> QED BY <1>3, <1>4, <2>2, <3>1 DEF TitledFrom
  <2>4. CASE links[id(k)] = None
    <3>1. p[k].types[T(k)].name = Plain(title(k))
      <4>1. p[k].types[T(k)] = [name |-> Plain(title(k)), info |-> cat.types[k].info]
        BY <2>4, OwnName
      <4> QED BY <4>1
    <3> QED BY <1>10, <1>11, <2>3, <2>4, <3>1
  <2>5. CASE links[id(k)] # None
    <3>1. links[id(j)] # None
      <4>1. SUFFICES ASSUME links[id(j)] = None PROVE FALSE OBVIOUS
      <4>2. \A i \in 1..(j - 1) : T(i) # u
        <5>1. \A i \in 1..(j - 1) : i \in 1..n /\ i # j BY <1>1
        <5> QED BY <2>2, <4>1, <5>1, OwnRow
      <4>3. p[j - 1].types[u] = d.types[u]
        <5>1. RowAt(p, d, cat, j - 1, u) BY <1>1, <1>3, <1>6
        <5> QED BY <4>2, <5>1 DEF RowAt, TookLast
      <4>4. d.types[u].name = Plain(title(j))
        <5>1. FoundBy(p, cat, links, j) BY FoundAt
        <5> QED BY <1>3, <2>2, <4>1, <4>3, <5>1 DEF FoundBy, Named
      <4>5. title(j) = title(k) BY <1>3, <1>4, <2>3, <4>4
      <4>6. k = j BY <1>5, <4>5
      <4> QED BY <2>5, <4>1, <4>6
    <3>2. T(k) = links[id(k)] /\ T(j) = links[id(j)]
      <4>1. FoundBy(p, cat, links, k) /\ FoundBy(p, cat, links, j) BY FoundAt
      <4> QED BY <2>5, <3>1, <4>1 DEF FoundBy
    <3>3. T(k) = u
      <4>1. d.types[links[id(j)]].name.title = title(k) BY <1>3, <1>4, <2>2, <2>3, <3>2
      <4>2. links[id(k)] = links[id(j)] BY <1>2, <2>5, <3>1, <4>1 DEF TypesAgree
      <4> QED BY <2>2, <3>2, <4>2
    <3>4. k = j BY <1>1, <2>2, <2>3, <3>3
    <3>5. OnlyTitled(p, cat, k)
      <4>1. ASSUME NEW v \in TypeIds, p[k - 1].types[v] # None,
                   p[k - 1].types[v].name = Plain(Unassigned)
            PROVE  v = u
        <5>1. RowAt(p, d, cat, k - 1, v) BY <1>1, <1>6
        <5>2. ASSUME NEW i \in 1..(k - 1), TookLast(p, cat, k - 1, v, i) PROVE FALSE
          <6>1. title(i) = Unassigned BY <1>4, <4>1, <5>2 DEF TookLast
          <6>2. i \in 1..n /\ i # k BY <1>1
          <6> QED BY <1>5, <2>3, <6>1, <6>2
        <5>3. p[k - 1].types[v] = d.types[v] BY <5>1, <5>2 DEF RowAt
        <5> QED BY <1>3, <4>1, <5>3
      <4>2. DOMAIN p[k - 1].types = TypeIds
        <5>1. MidSound(p[k - 1], KnownIds(d, cat)) BY PassTypes
        <5> QED BY <5>1 DEF MidSound, MidState
      <4> QED BY <2>3, <3>3, <4>1, <4>2 DEF OnlyTitled, Named, Used
    <3>6. p[k].types[T(k)].name = Plain(title(k))
      <4>1. p[k].types[T(k)] = [name |-> Plain(title(k)), info |-> cat.types[k].info]
        BY <3>5, TitleAlone
      <4> QED BY <4>1
    <3> QED BY <1>10, <2>1, <2>3, <3>3, <3>4, <3>6
  <2> QED BY <2>4, <2>5
<1> QED BY <1>12, <1>13

\* Its types imported again, a catalog finds its rooms as an import leaves them.
LEMMA SteadyTypes ==
  ASSUME NEW d, NEW cat \in Catalogs, NEW links, Steady(d, cat, links),
         NEW p, Pass(p, d, cat, links), NEW n, n = Len(cat.types), NEW i \in 1..Len(cat.rooms)
  PROVE  RoomSteady(p[n], p[n].link, cat.rooms[i])
<1> DEFINE x == cat.rooms[i]
           L == KnownIds(d, cat)
<1>1. n \in Nat /\ n \in 0..n BY CatalogItems
<1>2. Tables(d) /\ Keys(d) /\ Regular(d, cat) /\ RoomSteady(d, links, x) BY DEF Steady
<1>3. LinkedAt(p, d, cat, links, n) BY <1>1, LinksAt
<1>4. p[n].rooms = d.rooms /\ p[n].mappings = d.mappings BY <1>3 DEF LinkedAt
<1> HIDE DEF x
<1>6. PICK m \in d.mappings :
        /\ m.accommodation = x.id /\ m.type = x.type
        /\ IsNamed(d.rooms[m.room].name, x.title, x.id)
        /\ IF x.type = None THEN Named(d.types, Plain(Unassigned)) # {}
           ELSE d.rooms[m.room].type = links[x.type]
  BY <1>2 DEF RoomSteady
<1> DEFINE u == d.rooms[m.room].type
<1>7. u \in TypeIds /\ u # None
  <2>1. m.room \in RoomIds /\ d.rooms[m.room] # None BY <1>2 DEF Keys, Tables, Mapping
  <2>2. d.rooms[m.room] \in RoomRow BY <1>2, <2>1 DEF Tables
  <2> QED BY <2>2, ImportAssumption DEF RoomRow, ImportParameters
<1>8. ASSUME x.type = None PROVE Named(p[n].types, Plain(Unassigned)) # {}
  <2>1. PICK v \in Named(d.types, Plain(Unassigned)) : TRUE BY <1>6, <1>8
  <2> QED BY <2>1, UnassignedStays
<1>9. ASSUME x.type # None PROVE u = p[n].link[x.type]
  <2>1. u = links[x.type] /\ x.type \in L BY <1>2, <1>6, <1>9, KnownAreNumbers
  <2> HIDE DEF u
  <2>2. CASE \E j \in 1..n : cat.types[j].id = x.type
    <3>1. PICK j \in 1..n : cat.types[j].id = x.type BY <2>2
    <3>2. p[n].link[x.type] = TypeAt(p, cat, j)
      <4>1. j <= n BY <1>1
      <4> QED BY <1>3, <3>1, <4>1 DEF LinkedAt
    <3>3. FoundBy(p, cat, links, j) BY FoundAt
    <3> QED BY <1>7, <2>1, <3>1, <3>2, <3>3 DEF FoundBy
  <2>3. CASE ~\E j \in 1..n : cat.types[j].id = x.type
    BY <1>3, <2>1, <2>3 DEF LinkedAt, L
  <2> QED BY <2>2, <2>3
<1>10. RoomSteady(p[n], p[n].link, x)
  BY <1>4, <1>6, <1>8, <1>9 DEF RoomSteady
<1> QED BY <1>10 DEF x

-----------------------------------------------------------------------------
(* A third import beside a second                                            *)

\* What the second has taken is as the second has it, the rest as it ends.
SameTypes(p, g, cat, i) ==
  /\ g[i].link = p[i].link
  /\ \A u \in TypeIds :
       g[i].types[u] = IF \E j \in 1..i : TypeAt(p, cat, j) = u THEN p[i].types[u]
                       ELSE p[Len(cat.types)].types[u]

\* The third import finds for each type the row the second found.
LEMMA SameTypeRow ==
  ASSUME NEW d, NEW cat \in Catalogs, NEW links, Steady(d, cat, links),
         NEW p, Pass(p, d, cat, links), NEW e, NEW g, Pass(g, e, cat, links),
         NEW j \in 1..Len(cat.types), SameTypes(p, g, cat, j - 1)
  PROVE  TypeAt(g, cat, j) = TypeAt(p, cat, j)
<1> DEFINE n == Len(cat.types)
           u == TypeAt(p, cat, j)
           x == cat.types[j]
           z == g[j - 1]
<1>1. n \in Nat /\ j \in 1..n BY CatalogItems
<1>2. u \in TypeIds /\ u # None BY TypeAtIs
<1>3. FoundBy(p, cat, links, j) /\ FoundBy(g, cat, links, j) BY FoundAt
<1>4. CASE links[x.id] # None BY <1>3, <1>4 DEF FoundBy
<1>5. CASE links[x.id] = None
  <2>1. \A i \in 1..n : i # j => TypeAt(p, cat, i) # u BY <1>5, OwnRow
  <2>2. z.types[u] = p[n].types[u]
    <3>1. \A i \in 1..(j - 1) : TypeAt(p, cat, i) # u
      <4>1. \A i \in 1..(j - 1) : i \in 1..n /\ i # j BY <1>1
      <4> QED BY <2>1, <4>1
    <3> QED BY <1>2, <3>1 DEF SameTypes
  <2>3. p[n].types[u] = p[j].types[u]
    <3>1. n \in 0..n BY <1>1
    <3>2. RowAt(p, d, cat, n, u) BY <1>2, <3>1, RowsAt
    <3>3. PICK k \in 1..n : TookLast(p, cat, n, u, k) BY <1>1, <3>2 DEF RowAt
    <3>4. k = j BY <2>1, <3>3 DEF TookLast
    <3> QED BY <3>3, <3>4 DEF TookLast
  <2>4. p[j].types[u] = [name |-> Plain(x.title), info |-> x.info] BY <1>5, OwnName
  <2>5. z.types[u].name = Plain(x.title) /\ z.types[u] # None
    <3>1. TypeTaken(p[j - 1], p[j], x, u) BY PassTypes
    <3> HIDE DEF x, u
    <3>2. p[j].types[u] # None BY <3>1 DEF TypeTaken
    <3> QED BY <2>2, <2>3, <2>4, <3>2
  <2>6. MidSound(z, KnownIds(e, cat)) BY PassTypes
  <2>7. u \in Named(z.types, Plain(x.title))
    BY <1>2, <2>5, <2>6 DEF MidSound, MidState, Named, Used
  <2>8. TypeAt(g, cat, j) \in Named(z.types, Plain(x.title))
    <3> HIDE DEF u
    <3> QED BY <1>3, <1>5, <2>7 DEF FoundBy
  <2> HIDE DEF u, z, x
  <2>9. TypeAt(g, cat, j) = u BY <2>6, <2>7, <2>8 DEF MidSound, Keys, UniqueNames, Named
  <2> QED BY <2>9 DEF u
<1> QED BY <1>4, <1>5

\* Names of the title of type j are those of the same rows.
LEMMA SameNames ==
  ASSUME NEW d, NEW cat \in Catalogs, NEW links, Steady(d, cat, links),
         NEW p, Pass(p, d, cat, links), NEW g,
         NEW j \in 1..Len(cat.types), SameTypes(p, g, cat, j - 1),
         NEW v \in TypeIds, v # TypeAt(p, cat, j)
  PROVE  \/ g[j - 1].types[v] = p[j - 1].types[v]
         \/ /\ g[j - 1].types[v] = None \/ g[j - 1].types[v].name.title # cat.types[j].title
            /\ p[j - 1].types[v] = None \/ p[j - 1].types[v].name.title # cat.types[j].title
<1> DEFINE n == Len(cat.types)
           title(i) == cat.types[i].title
<1>1. n \in Nat /\ j \in 1..n /\ n \in 0..n /\ j - 1 \in 0..n BY CatalogItems
<1>2. \A i, k \in 1..n : title(i) = title(k) => i = k
  <2>1. Regular(d, cat) BY DEF Steady
  <2> QED BY <2>1, TitlesDiffer
<1>3. CASE \E i \in 1..(j - 1) : TypeAt(p, cat, i) = v BY <1>3 DEF SameTypes
<1>4. CASE ~\E i \in 1..(j - 1) : TypeAt(p, cat, i) = v
  <2>1. g[j - 1].types[v] = p[n].types[v] BY <1>4 DEF SameTypes
  <2>2. RowAt(p, d, cat, j - 1, v) /\ RowAt(p, d, cat, n, v) BY <1>1, RowsAt
  <2>3. p[j - 1].types[v] = d.types[v] BY <1>4, <2>2 DEF RowAt, TookLast
  <2>4. CASE p[n].types[v] = d.types[v] BY <2>1, <2>3, <2>4
  <2>5. ASSUME NEW k \in 1..n, TookLast(p, cat, n, v, k)
        PROVE  /\ g[j - 1].types[v] = None \/ g[j - 1].types[v].name.title # title(j)
               /\ p[j - 1].types[v] = None \/ p[j - 1].types[v].name.title # title(j)
    <3>1. TypeAt(p, cat, k) = v BY <2>5 DEF TookLast
    <3>2. k > j
      <4>1. k # j BY <3>1
      <4>2. k \notin 1..(j - 1) BY <1>4, <3>1
      <4> QED BY <1>1, <4>1, <4>2
    <3>3. g[j - 1].types[v].name.title # title(j)
      <4>1. title(k) # title(j) BY <1>1, <1>2, <3>2
      <4> QED BY <2>1, <2>5, <4>1 DEF TookLast
    <3>4. d.types[v] = None \/ \E c \in 1..n : c >= k /\ d.types[v].name.title = title(c)
      <4>1. TitledFrom(d, cat, TypeAt(p, cat, k), k) BY RowBefore
      <4> QED BY <3>1, <4>1 DEF TitledFrom
    <3>5. \A c \in 1..n : c >= k => title(c) # title(j)
      <4>1. \A c \in 1..n : c >= k => c # j BY <1>1, <3>2
      <4> QED BY <1>1, <1>2, <4>1
    <3> QED BY <2>3, <3>3, <3>4, <3>5
  <2> QED BY <2>2, <2>4, <2>5 DEF RowAt
<1> QED BY <1>3, <1>4

\* Rows that agree on the names of a title leave the same numbers free.
LEMMA SameFree ==
  ASSUME NEW A, NEW B, DOMAIN A = TypeIds, DOMAIN B = TypeIds, NEW title, NEW by, NEW u,
         \A v \in TypeIds : v # u =>
           \/ A[v] = B[v]
           \/ /\ A[v] = None \/ A[v].name.title # title
              /\ B[v] = None \/ B[v].name.title # title
  PROVE  FreeNumbers(A, title, by, u) = FreeNumbers(B, title, by, u)
<1>1. ASSUME NEW i PROVE Numbered(title, by, i).title = title BY DEF Numbered
<1>2. ASSUME NEW i
      PROVE  Named(A, Numbered(title, by, i)) \subseteq {u}
               <=> Named(B, Numbered(title, by, i)) \subseteq {u}
  <2> DEFINE name == Numbered(title, by, i)
  <2>1. name.title = title BY <1>1
  <2> HIDE DEF name
  <2>2. \A v \in TypeIds : v # u => (v \in Named(A, name) <=> v \in Named(B, name))
    BY <2>1 DEF Named, Used
  <2>3. Named(A, name) \subseteq TypeIds /\ Named(B, name) \subseteq TypeIds BY DEF Named, Used
  <2>4. Named(A, name) \subseteq {u} <=> Named(B, name) \subseteq {u} BY <2>2, <2>3
  <2> QED BY <2>4 DEF name
<1> QED BY <1>2 DEF FreeNumbers

\* So it is after each type.
LEMMA SameTypesStep ==
  ASSUME NEW d, NEW cat \in Catalogs, NEW links, Steady(d, cat, links),
         NEW p, Pass(p, d, cat, links), NEW e, NEW g, Pass(g, e, cat, links),
         NEW j \in 1..Len(cat.types), SameTypes(p, g, cat, j - 1)
  PROVE  SameTypes(p, g, cat, j)
<1> DEFINE n == Len(cat.types)
           u == TypeAt(p, cat, j)
           x == cat.types[j]
           s == p[j - 1]
           z == g[j - 1]
           Taken(i) == {v \in TypeIds : \E h \in 1..i : TypeAt(p, cat, h) = v}
<1>1. n \in Nat /\ j \in 1..n BY CatalogItems
<1>2. u \in TypeIds BY TypeAtIs
<1>3. TypeTaken(s, p[j], x, u) /\ MidSound(s, KnownIds(d, cat)) BY PassTypes
<1>4. TypeTaken(z, g[j], x, u) /\ MidSound(z, KnownIds(e, cat))
  <2>1. TypeTaken(z, g[j], x, TypeAt(g, cat, j)) /\ MidSound(z, KnownIds(e, cat)) BY PassTypes
  <2>2. TypeAt(g, cat, j) = u BY SameTypeRow
  <2> QED BY <2>1, <2>2
<1>5. /\ s.types \in [TypeIds -> TypeRow \cup {None}] /\ z.types \in [TypeIds -> TypeRow \cup {None}]
  BY <1>3, <1>4 DEF MidSound, MidState
<1>6. FreeNumbers(z.types, x.title, x.id, u) = FreeNumbers(s.types, x.title, x.id, u)
  <2>1. \A v \in TypeIds : v # u =>
           \/ z.types[v] = s.types[v]
           \/ /\ z.types[v] = None \/ z.types[v].name.title # x.title
              /\ s.types[v] = None \/ s.types[v].name.title # x.title
    BY SameNames
  <2>2. DOMAIN s.types = TypeIds /\ DOMAIN z.types = TypeIds BY <1>5
  <2> HIDE DEF s, z, x, u
  <2> QED BY <2>1, <2>2, SameFree
<1>7. z.link = s.link BY DEF SameTypes
<1>8. Taken(j) = Taken(j - 1) \cup {u}
  <2>1. \A h \in 1..j : h = j \/ h \in 1..(j - 1) BY <1>1
  <2>2. j \in 1..j /\ \A h \in 1..(j - 1) : h \in 1..j BY <1>1
  <2>3. TypeAt(p, cat, j) = u OBVIOUS
  <2> HIDE DEF u
  <2> QED BY <1>2, <2>1, <2>2, <2>3
<1>9. \A v \in TypeIds : z.types[v] = IF v \in Taken(j - 1) THEN s.types[v] ELSE p[n].types[v]
  BY DEF SameTypes
<1> HIDE DEF u, x, s, z, Taken
<1>10. g[j].link = p[j].link BY <1>3, <1>4, <1>7 DEF TypeTaken
<1>11. g[j].types[u] = p[j].types[u]
  <2>1. resolveUniqueName(z.types, x.title, x.id, u) = resolveUniqueName(s.types, x.title, x.id, u)
    BY <1>6 DEF resolveUniqueName
  <2>2. p[j].types[u] = [name |-> resolveUniqueName(s.types, x.title, x.id, u), info |-> x.info]
    BY <1>2, <1>3, <1>5 DEF TypeTaken
  <2>3. g[j].types[u] = [name |-> resolveUniqueName(z.types, x.title, x.id, u), info |-> x.info]
    BY <1>2, <1>4, <1>5 DEF TypeTaken
  <2> QED BY <2>1, <2>2, <2>3
<1>12. ASSUME NEW v \in TypeIds
       PROVE  g[j].types[v] = IF v \in Taken(j) THEN p[j].types[v] ELSE p[n].types[v]
  <2>1. CASE v = u BY <1>8, <1>11, <2>1
  <2>2. CASE v # u
    <3>1. g[j].types[v] = z.types[v] /\ p[j].types[v] = s.types[v] BY <1>3, <1>4, <2>2 DEF TypeTaken
    <3>2. v \in Taken(j) <=> v \in Taken(j - 1) BY <1>8, <2>2
    <3> QED BY <1>9, <3>1, <3>2
  <2> QED BY <2>1, <2>2
<1> QED BY <1>10, <1>12 DEF SameTypes, Taken

\* A third import leaves the types as a second does.
LEMMA SameTypesEnd ==
  ASSUME NEW d, NEW cat \in Catalogs, NEW links, Steady(d, cat, links),
         NEW p, Pass(p, d, cat, links), NEW e, NEW g, Pass(g, e, cat, links),
         NEW n, n = Len(cat.types), e.types = p[n].types
  PROVE  g[n].types = p[n].types /\ g[n].link = p[n].link
<1> DEFINE S == {i \in 0..n : SameTypes(p, g, cat, i)}
<1>1. n \in Nat /\ n \in 0..n BY CatalogItems
<1>2. \A i \in 0..n : /\ p[i].types \in [TypeIds -> TypeRow \cup {None}]
                      /\ g[i].types \in [TypeIds -> TypeRow \cup {None}]
  <2>1. \A i \in 0..n : i \in 0..Items(cat)
    <3>1. n \in 0..Items(cat) /\ Items(cat) \in Nat BY CatalogItems, ItemPlaces
    <3> DEFINE b == Items(cat)
    <3>2. n \in 0..b /\ b \in Nat BY <3>1
    <3> HIDE DEF b
    <3>3. \A i \in 0..n : i \in 0..b BY <1>1, <3>2
    <3> QED BY <3>3 DEF b
  <2>2. \A i \in 0..Items(cat) : MidSound(p[i], KnownIds(d, cat)) /\ MidSound(g[i], KnownIds(e, cat))
    BY DEF Pass
  <2> QED BY <2>1, <2>2 DEF MidSound, MidState
<1>3. 0 \in S
  <2>1. p[0].link = links /\ g[0].link = links /\ g[0].types = e.types BY DEF Pass, Started
  <2>2. 0 \in 0..n /\ 1..0 = {} BY <1>1
  <2>3. SameTypes(p, g, cat, 0) BY <2>1, <2>2 DEF SameTypes
  <2> QED BY <2>2, <2>3
<1>4. \A i \in 1..n : i - 1 \in S => i \in S
  <2>1. ASSUME NEW i \in 1..n, SameTypes(p, g, cat, i - 1) PROVE SameTypes(p, g, cat, i)
    BY <2>1, SameTypesStep
  <2>2. \A i \in 1..n : i \in 0..n BY <1>1
  <2> QED BY <2>1, <2>2
<1>5. n \in S
  <2> HIDE DEF S
  <2>1. \A i \in 0..n : i \in S BY <1>1, <1>3, <1>4, NumbersInduct
  <2> QED BY <1>1, <2>1
<1>6. SameTypes(p, g, cat, n) BY <1>5
<1>7. \A u \in TypeIds : g[n].types[u] = p[n].types[u] BY <1>6 DEF SameTypes
<1> QED BY <1>1, <1>2, <1>6, <1>7 DEF SameTypes

-----------------------------------------------------------------------------
(* The names of rooms                                                        *)

\* A name is the first that is free.
Settled(table, x, r) == table[r].name = resolveUniqueName(table, x.title, x.id, r)

\* It is the first when the row has just got it.
LEMMA SettledAfter ==
  ASSUME NEW table, NEW r \in DOMAIN table, NEW row, NEW x,
         row.name = resolveUniqueName(table, x.title, x.id, r)
  PROVE  Settled([table EXCEPT ![r] = row], x, r)
<1> DEFINE new == [table EXCEPT ![r] = row]
<1>1. DOMAIN new = DOMAIN table /\ new[r] = row /\ \A i \in DOMAIN table : i # r => new[i] = table[i]
  OBVIOUS
<1> HIDE DEF new
<1>2. ASSUME NEW name PROVE Named(new, name) \subseteq {r} <=> Named(table, name) \subseteq {r}
  BY <1>1 DEF Named, Used
<1>3. FreeNumbers(new, x.title, x.id, r) = FreeNumbers(table, x.title, x.id, r)
  BY <1>2 DEF FreeNumbers
<1>4. Settled(new, x, r) BY <1>1, <1>3 DEF Settled, resolveUniqueName
<1> QED BY <1>4 DEF new

\* The first of numbers is the one in them that none is below.
LEMMA LeastIs ==
  ASSUME NEW T \in SUBSET Nat, NEW i \in T, \A y \in T : i <= y
  PROVE  Min(T) = i
<1>1. Min(T) \in T /\ Min(T) <= i BY LeastIsIn
<1> DEFINE h == Min(T)
<1>2. h \in Nat /\ i \in Nat /\ h <= i /\ i <= h BY <1>1
<1> HIDE DEF h
<1>3. h = i BY <1>2
<1> QED BY <1>3 DEF h

\* It stays the first when another room gets the first that is free to it.
LEMMA SettledStays ==
  ASSUME NEW I, NEW R, None \notin R, NEW table \in [I -> R \cup {None}], UniqueNames(table),
         NEW x, NEW r \in I, table[r] # None, Settled(table, x, r), IsNamed(table[r].name, x.title, x.id),
         NEW y, NEW q \in I, q # r, table[q] # None, IsNamed(table[q].name, y.title, y.id),
         x.id # y.id, NEW row, row # None, row.name = resolveUniqueName(table, y.title, y.id, q),
         UniqueNames([table EXCEPT ![q] = row]),
         FreeNumbers(table, x.title, x.id, r) # {}
  PROVE  Settled([table EXCEPT ![q] = row], x, r)
<1> DEFINE new == [table EXCEPT ![q] = row]
           old == FreeNumbers(table, x.title, x.id, r)
           free == FreeNumbers(new, x.title, x.id, r)
           name(i) == Numbered(x.title, x.id, i)
           h == Min(old)
<1>1. DOMAIN new = I /\ new[q] = row /\ \A i \in I : i # q => new[i] = table[i] OBVIOUS
<1>2. Tries \in Nat BY ImportAssumption DEF ImportParameters
<1>3. old \in SUBSET Nat /\ free \in SUBSET Nat /\ old # {} BY <1>2 DEF FreeNumbers
<1>4. h \in old /\ \A i \in old : h <= i
  <2> HIDE DEF old
  <2> QED BY <1>3, LeastIsIn
<1>5. table[r].name = name(h) BY DEF Settled, resolveUniqueName
<1>6. h \in 0..Tries BY <1>4 DEF FreeNumbers
<1>7. new[r].name = name(h) /\ new[r] # None BY <1>1, <1>5
<1> HIDE DEF new
<1>8. h \in free
  <2>1. Named(new, name(h)) \subseteq {r}
    <3> HIDE DEF h, name
    <3> QED BY <1>1, <1>7 DEF Named, Used, UniqueNames, new
  <2> QED BY <1>6, <2>1 DEF FreeNumbers
<1>9. ASSUME NEW i \in free PROVE h <= i
  <2>1. i \in 0..Tries /\ Named(new, name(i)) \subseteq {r} BY DEF FreeNumbers
  <2>2. i \in old
    <3>1. Named(table, name(i)) \subseteq {r}
      <4>1. SUFFICES ASSUME NEW v \in I, v # r, table[v] # None, table[v].name = name(i) PROVE FALSE
        BY DEF Named, Used
      <4>2. CASE v # q BY <1>1, <2>1, <4>1, <4>2 DEF Named, Used
      <4>3. CASE v = q
        <5>1. PICK k \in 0..Tries : name(i) = Numbered(y.title, y.id, k) BY <4>1, <4>3 DEF IsNamed
        <5>2. i = 0 /\ x.title = y.title
          <6>1. x.title = y.title /\ i = k BY <5>1 DEF Numbered
          <6>2. i # 0 => x.id = y.id BY <5>1, <6>1 DEF Numbered
          <6> QED BY <6>1, <6>2
        <5>3. name(i) = Numbered(y.title, y.id, 0) BY <5>2 DEF Numbered
        <5>4. Named(table, Numbered(y.title, y.id, 0)) \subseteq {q}
          BY <4>1, <4>3, <5>3 DEF Named, Used, UniqueNames
        <5>5. 0 \in FreeNumbers(table, y.title, y.id, q) BY <1>2, <5>4 DEF FreeNumbers
        <5>6. FreeNumbers(table, y.title, y.id, q) \in SUBSET Nat BY <1>2 DEF FreeNumbers
        <5>7. Min(FreeNumbers(table, y.title, y.id, q)) = 0
          <6> DEFINE F == FreeNumbers(table, y.title, y.id, q)
          <6>1. F \in SUBSET Nat /\ 0 \in F BY <5>5, <5>6
          <6> HIDE DEF F
          <6>2. \A w \in F : 0 <= w BY <6>1
          <6>3. Min(F) = 0 BY <6>1, <6>2, LeastIs
          <6> QED BY <6>3 DEF F
        <5>8. row.name = name(i) BY <5>3, <5>7 DEF resolveUniqueName
        <5> HIDE DEF name
        <5>9. q \in Named(new, name(i)) BY <1>1, <5>8 DEF Named, Used
        <5> QED BY <2>1, <5>9
      <4> QED BY <4>2, <4>3
    <3> QED BY <2>1, <3>1 DEF FreeNumbers
  <2> QED BY <1>4, <2>2
<1>10. Min(free) = h
  <2> HIDE DEF free, h
  <2> QED BY <1>3, <1>8, <1>9, LeastIs
<1>11. Settled(new, x, r) BY <1>7, <1>10 DEF Settled, resolveUniqueName
<1> QED BY <1>11 DEF new

-----------------------------------------------------------------------------
(* The rooms, imported again                                                 *)

\* Only the name of its room changes, and if it has no type that of the room.
NameOnly(s, new, x, m, t) ==
  /\ new.types = s.types /\ new.link = s.link /\ new.mappings = s.mappings
  /\ FreeNumbers(s.rooms, x.title, x.id, m.room) # {}
  /\ new.rooms = [s.rooms EXCEPT ![m.room] =
       [name |-> resolveUniqueName(s.rooms, x.title, x.id, m.room), type |-> t]]
  /\ IF x.type = None THEN t \in Named(s.types, Plain(Unassigned)) ELSE t = s.rooms[m.room].type

\* A room that is imported again keeps its row, its type and its mapping.
LEMMA SteadyRoom ==
  ASSUME NEW L, NEW s, MidSound(s, L), NEW x \in RoomItem, NEW new, new = ImportRoom(s, x), new.ok,
         None \notin L, NEW m \in s.mappings, m.accommodation = x.id, m.type = x.type,
         IF x.type = None THEN Named(s.types, Plain(Unassigned)) # {}
         ELSE s.rooms[m.room].type = s.link[x.type] /\ x.type \in L
  PROVE  \E t \in TypeIds : NameOnly(s, new, x, m, t)
<1> DEFINE t == TypeOfRoom(s, x)
           r == LocalRoom(s, x)
<1>1. /\ t \in TypeIds /\ r \in RoomIds /\ FreeNumbers(s.rooms, x.title, x.id, r) # {}
      /\ new = RoomDone(s, x)
  BY RoomFields
<1>2. None \notin TypeIds /\ None \notin RoomIds BY ImportAssumption DEF ImportParameters
<1>3. m \in MappingsOf(s, x) BY DEF MappingsOf
<1>4. r = m.room
  <2>1. r # None BY <1>1, <1>2
  <2> QED BY <1>3, <2>1, LocalRoomFound DEF MidSound
<1>5. \A k \in MappingsOf(s, x) : k = m BY DEF MappingsOf, MidSound, Keys
<1>6. m = [room |-> r, accommodation |-> x.id, type |-> x.type]
  <2>1. m \in Mapping BY DEF MidSound, MidState
  <2> QED BY <1>4, <2>1 DEF Mapping
<1>7. /\ x.type \in L => t = s.link[x.type] /\ t \in Used(s.types)
      /\ x.type \notin L =>
           \/ t \in Named(s.types, Plain(Unassigned))
           \/ Named(s.types, Plain(Unassigned)) = {} /\ s.types[t] = None
  <2>1. t # None BY <1>1, <1>2
  <2> QED BY <2>1, TypeOfRoomFound DEF MidSound
<1> HIDE DEF t, r
<1>8. /\ IF x.type = None THEN t \in Named(s.types, Plain(Unassigned)) ELSE t = s.rooms[m.room].type
      /\ s.types[t] # None
  <2>1. CASE x.type = None
    <3>1. t \in Named(s.types, Plain(Unassigned)) BY <1>7, <2>1
    <3> QED BY <2>1, <3>1 DEF Named, Used
  <2>2. CASE x.type # None BY <1>7, <2>2 DEF Used
  <2> QED BY <2>1, <2>2
<1> DEFINE done == RoomDone(s, x)
<1>9. /\ done.types = IF s.types[t] # None THEN s.types
                      ELSE [s.types EXCEPT ![t] = [name |-> Plain(Unassigned), info |-> None]]
      /\ done.rooms = [s.rooms EXCEPT ![r] = [name |-> resolveUniqueName(s.rooms, x.title, x.id, r),
                                              type |-> t]]
      /\ done.link = s.link
      /\ done.mappings = (s.mappings \ MappingsOf(s, x))
                            \cup {[room |-> r, accommodation |-> x.id, type |-> x.type]}
  BY DEF RoomDone, t, r
<1>10. new = done BY <1>1
<1> HIDE DEF done
<1>11. done.mappings = s.mappings BY <1>3, <1>5, <1>6, <1>9
<1>12. done.types = s.types BY <1>8, <1>9
<1> QED BY <1>1, <1>4, <1>8, <1>9, <1>10, <1>11, <1>12 DEF NameOnly

\* What the rooms are after each: as an import leaves them, those done with the
\* first name free to each, and with the type of rooms without a type.
RoomReady(s, L, x) ==
  RoomSteady(s, s.link, x) /\ (x.type # None => x.type \in L)

RoomSettled(s, x) ==
  \A m \in s.mappings : m.accommodation = x.id =>
    /\ Settled(s.rooms, x, m.room)
    /\ x.type = None => s.rooms[m.room].type \in Named(s.types, Plain(Unassigned))

\* The rooms of a type of MotoPress keep theirs.
TypesKept(s, new) ==
  \A m \in s.mappings : m.type # None => new.rooms[m.room].type = s.rooms[m.room].type

\* One step, for the room that is imported and for another.
LEMMA RoomStep ==
  ASSUME NEW L, NEW s, MidSound(s, L), NEW x \in RoomItem, NEW new, new = ImportRoom(s, x), new.ok,
         None \notin L, RoomReady(s, L, x), MidSound(new, L)
  PROVE  /\ new.types = s.types /\ new.link = s.link /\ new.mappings = s.mappings
         /\ TypesKept(s, new)
         /\ RoomReady(new, L, x) /\ RoomSettled(new, x)
         /\ RoomSettled(s, x) => new.rooms = s.rooms
         /\ \A y \in RoomItem : RoomReady(s, L, y) /\ y.id # x.id =>
              RoomReady(new, L, y) /\ (RoomSettled(s, y) => RoomSettled(new, y))
<1>1. PICK m \in s.mappings :
        /\ m.accommodation = x.id /\ m.type = x.type
        /\ IsNamed(s.rooms[m.room].name, x.title, x.id)
        /\ IF x.type = None THEN Named(s.types, Plain(Unassigned)) # {}
           ELSE s.rooms[m.room].type = s.link[x.type]
  BY DEF RoomReady, RoomSteady
<1>2. PICK t \in TypeIds : NameOnly(s, new, x, m, t) BY <1>1, SteadyRoom DEF RoomReady
<1> DEFINE q == m.room
           name == resolveUniqueName(s.rooms, x.title, x.id, q)
           row == [name |-> name, type |-> t]
<1>3. /\ s.rooms \in [RoomIds -> RoomRow \cup {None}] /\ s.mappings \subseteq Mapping
      /\ new.rooms \in [RoomIds -> RoomRow \cup {None}]
      /\ UniqueNames(s.rooms) /\ UniqueNames(new.rooms)
      /\ \A k, h \in s.mappings : k.room = h.room \/ k.accommodation = h.accommodation => k = h
      /\ \A k \in s.mappings : k.room \in RoomIds /\ s.rooms[k.room] # None
  <2>1. s.mappings \subseteq Mapping BY DEF MidSound, MidState
  <2>2. \A k \in s.mappings : k.room \in RoomIds /\ s.rooms[k.room] # None
    BY <2>1 DEF MidSound, Keys, Mapping
  <2> QED BY <2>1, <2>2 DEF MidSound, MidState, Keys
<1>4. q \in RoomIds /\ s.rooms[q] # None /\ s.rooms[q] \in RoomRow BY <1>1, <1>3
<1>5. /\ new.types = s.types /\ new.link = s.link /\ new.mappings = s.mappings
      /\ FreeNumbers(s.rooms, x.title, x.id, q) # {}
      /\ new.rooms = [s.rooms EXCEPT ![q] = row]
      /\ IF x.type = None THEN t \in Named(s.types, Plain(Unassigned)) ELSE t = s.rooms[q].type
  BY <1>2 DEF NameOnly
<1>6. IsNamed(name, x.title, x.id) /\ name \in Name
  BY <1>5, FoundNameIsFree DEF RoomItem
<1>7. row.name = name /\ row.type = t /\ row \in RoomRow
  BY <1>4, <1>6 DEF RoomRow
<1>8. None \notin RoomRow /\ row # None BY <1>7, ImportAssumption DEF ImportParameters
<1>9. q = m.room /\ name = resolveUniqueName(s.rooms, x.title, x.id, q) OBVIOUS
<1> HIDE DEF q, name, row
<1>10. new.rooms[q] = row /\ \A r \in RoomIds : r # q => new.rooms[r] = s.rooms[r]
  BY <1>3, <1>4, <1>5
<1>11. TypesKept(s, new)
  <2>1. ASSUME NEW k \in s.mappings, k.type # None
        PROVE  new.rooms[k.room].type = s.rooms[k.room].type
    <3>1. CASE k.room = q
      <4>1. k = m BY <1>1, <1>3, <1>9, <3>1
      <4> QED BY <1>1, <1>5, <1>7, <1>10, <2>1, <3>1, <4>1
    <3>2. CASE k.room # q BY <1>3, <1>10, <3>2
    <3> QED BY <3>1, <3>2
  <2> QED BY <2>1 DEF TypesKept
<1>12. RoomReady(new, L, x)
  BY <1>1, <1>5, <1>6, <1>7, <1>9, <1>10 DEF RoomReady, RoomSteady
<1>13. RoomSettled(new, x)
  <2>1. Settled(new.rooms, x, q) BY <1>3, <1>4, <1>5, <1>7, <1>9, SettledAfter
  <2>2. \A k \in new.mappings : k.accommodation = x.id => k.room = q BY <1>1, <1>3, <1>5, <1>9
  <2>3. x.type = None => new.rooms[q].type \in Named(new.types, Plain(Unassigned))
    BY <1>5, <1>7, <1>10
  <2> QED BY <2>1, <2>2, <2>3 DEF RoomSettled
<1>14. ASSUME RoomSettled(s, x) PROVE new.rooms = s.rooms
  <2>1. s.rooms[q].name = name BY <1>1, <1>9, <1>14 DEF RoomSettled, Settled
  <2>2. row = s.rooms[q]
    <3>1. t = s.rooms[q].type
      <4>1. CASE x.type = None
        <5>1. s.rooms[q].type \in Named(s.types, Plain(Unassigned))
          BY <1>1, <1>9, <1>14, <4>1 DEF RoomSettled
        <5> QED BY <1>5, <4>1, <5>1 DEF MidSound, Keys, UniqueNames, Named
      <4>2. CASE x.type # None BY <1>5, <4>2
      <4> QED BY <4>1, <4>2
    <3>2. row = [name |-> name, type |-> s.rooms[q].type] BY <3>1 DEF row
    <3> QED BY <1>4, <2>1, <3>2 DEF RoomRow
  <2> QED BY <1>3, <1>4, <1>5, <2>2
<1>15. ASSUME NEW y \in RoomItem, RoomReady(s, L, y), y.id # x.id
       PROVE  RoomReady(new, L, y) /\ (RoomSettled(s, y) => RoomSettled(new, y))
  <2>1. PICK k \in s.mappings :
          /\ k.accommodation = y.id /\ k.type = y.type
          /\ IsNamed(s.rooms[k.room].name, y.title, y.id)
          /\ IF y.type = None THEN Named(s.types, Plain(Unassigned)) # {}
             ELSE s.rooms[k.room].type = s.link[y.type]
    BY <1>15 DEF RoomReady, RoomSteady
  <2>2. k.room # q /\ k.room \in RoomIds /\ s.rooms[k.room] # None
    BY <1>1, <1>3, <1>9, <1>15, <2>1
  <2>3. new.rooms[k.room] = s.rooms[k.room] BY <1>10, <2>2
  <2>4. RoomReady(new, L, y) BY <1>5, <1>15, <2>1, <2>3 DEF RoomReady, RoomSteady
  <2>5. ASSUME RoomSettled(s, y) PROVE RoomSettled(new, y)
    <3>1. Settled(s.rooms, y, k.room) BY <2>1, <2>5 DEF RoomSettled
    <3>2. FreeNumbers(s.rooms, y.title, y.id, k.room) # {}
      <4>1. PICK i \in 0..Tries : s.rooms[k.room].name = Numbered(y.title, y.id, i)
        BY <2>1 DEF IsNamed
      <4>2. Named(s.rooms, Numbered(y.title, y.id, i)) \subseteq {k.room}
        BY <1>3, <2>2, <4>1 DEF Named, Used, UniqueNames
      <4> QED BY <4>2 DEF FreeNumbers
    <3>3. UniqueNames([s.rooms EXCEPT ![q] = row]) BY <1>3, <1>5
    <3> DEFINE h == k.room
    <3>4. h \in RoomIds /\ h # q /\ s.rooms[h] # None /\ Settled(s.rooms, y, h)
          /\ IsNamed(s.rooms[h].name, y.title, y.id)
          /\ FreeNumbers(s.rooms, y.title, y.id, h) # {}
      BY <2>1, <2>2, <3>1, <3>2
    <3>5. IsNamed(s.rooms[q].name, x.title, x.id) /\ x.id # y.id BY <1>1, <1>9, <1>15
    <3> HIDE DEF h
    <3>6. Settled([s.rooms EXCEPT ![q] = row], y, h)
      BY <1>3, <1>4, <1>7, <1>8, <1>9, <3>3, <3>4, <3>5, SettledStays
    <3>7. Settled(new.rooms, y, k.room) BY <1>5, <3>6 DEF h
    <3>8. \A f \in new.mappings : f.accommodation = y.id => f.room = k.room BY <1>3, <1>5, <2>1
    <3>9. y.type = None => new.rooms[k.room].type \in Named(new.types, Plain(Unassigned))
      BY <1>5, <2>1, <2>3, <2>5 DEF RoomSettled
    <3> QED BY <3>7, <3>8, <3>9 DEF RoomSettled
  <2> QED BY <2>4, <2>5
<1> QED BY <1>5, <1>11, <1>12, <1>13, <1>14, <1>15

\* From the tables s to new, the first j rooms of the catalog imported again.
RoomPhase(s, new, L, cat, j) ==
  /\ new.types = s.types /\ new.link = s.link /\ new.mappings = s.mappings
  /\ TypesKept(s, new)
  /\ \A i \in 1..Len(cat.rooms) :
       RoomReady(new, L, cat.rooms[i]) /\ (i <= j => RoomSettled(new, cat.rooms[i]))
  /\ (\A i \in 1..Len(cat.rooms) : RoomSettled(s, cat.rooms[i])) => new.rooms = s.rooms

\* One room more.
LEMMA RoomPhaseStep ==
  ASSUME NEW L, None \notin L, NEW cat \in Catalogs, NEW s, NEW a, MidSound(a, L),
         NEW j \in 1..Len(cat.rooms), NEW new, new = ImportRoom(a, cat.rooms[j]), new.ok,
         MidSound(new, L), RoomPhase(s, a, L, cat, j - 1)
  PROVE  RoomPhase(s, new, L, cat, j)
<1> DEFINE x == cat.rooms[j]
           k == Len(cat.rooms)
           c(i) == cat.rooms[i]
<1>1. k \in Nat /\ j \in 1..k /\ \A i \in 1..k : c(i) \in RoomItem BY CatalogItems
<1>2. \A i \in 1..k : c(i).id = x.id => i = j
  BY CatalogItems, ImportAssumption DEF ImportParameters, CatalogsAreTyped
<1>3. x \in RoomItem /\ RoomReady(a, L, x) BY <1>1 DEF RoomPhase
<1>4. x = c(j) OBVIOUS
<1>5. /\ a.types = s.types /\ a.link = s.link /\ a.mappings = s.mappings
      /\ TypesKept(s, a)
      /\ \A i \in 1..k : RoomReady(a, L, c(i)) /\ (i <= j - 1 => RoomSettled(a, c(i)))
      /\ (\A i \in 1..k : RoomSettled(s, c(i))) => a.rooms = s.rooms
  BY DEF RoomPhase
<1> HIDE DEF x
<1>6. /\ new.types = a.types /\ new.link = a.link /\ new.mappings = a.mappings
      /\ TypesKept(a, new)
      /\ RoomReady(new, L, x) /\ RoomSettled(new, x)
      /\ RoomSettled(a, x) => new.rooms = a.rooms
      /\ \A y \in RoomItem : RoomReady(a, L, y) /\ y.id # x.id =>
           RoomReady(new, L, y) /\ (RoomSettled(a, y) => RoomSettled(new, y))
  BY <1>3, RoomStep DEF x
<1> HIDE DEF k, c
<1>7. ASSUME NEW i \in 1..k
      PROVE  RoomReady(new, L, c(i)) /\ (i <= j => RoomSettled(new, c(i)))
  <2>1. CASE i = j BY <1>4, <1>6, <2>1
  <2>2. CASE i # j
    <3>1. c(i).id # x.id BY <1>2, <2>2
    <3>2. i <= j => i <= j - 1 BY <1>1, <2>2
    <3> QED BY <1>1, <1>5, <1>6, <3>1, <3>2
  <2> QED BY <2>1, <2>2
<1>8. ASSUME \A i \in 1..k : RoomSettled(s, c(i)) PROVE new.rooms = s.rooms
  <2>1. a.rooms = s.rooms /\ a.mappings = s.mappings BY <1>5, <1>8
  <2>2. RoomSettled(s, x) BY <1>1, <1>4, <1>8
  <2>3. RoomSettled(a, x) BY <1>5, <2>1, <2>2 DEF RoomSettled
  <2> QED BY <1>6, <2>1, <2>3
<1>9. TypesKept(s, new) BY <1>5, <1>6 DEF TypesKept
<1>10. new.types = s.types /\ new.link = s.link /\ new.mappings = s.mappings BY <1>5, <1>6
<1> QED BY <1>7, <1>8, <1>9, <1>10 DEF RoomPhase, k, c

\* All rooms imported again.
LEMMA RoomPhaseEnd ==
  ASSUME NEW d, NEW cat \in Catalogs, NEW links, NEW p, Pass(p, d, cat, links),
         NEW L, L = KnownIds(d, cat), None \notin L, NEW n, n = Len(cat.types),
         \A i \in 1..Len(cat.rooms) : RoomReady(p[n], L, cat.rooms[i])
  PROVE  RoomPhase(p[n], p[Items(cat)], L, cat, Len(cat.rooms))
<1> DEFINE k == Len(cat.rooms)
           q == [j \in 0..k |-> p[n + j]]
           Good(i) == RoomPhase(p[n], q[i], L, cat, i)
           S == {i \in 0..k : Good(i)}
<1>1. n \in Nat /\ k \in Nat BY CatalogItems
<1>2. \A j \in 1..k : j \in 0..k /\ j - 1 \in 0..k BY <1>1
<1>3. ASSUME NEW i \in 1..k, Good(i - 1) PROVE Good(i)
  <2>1. n + i \in 1..Items(cat) /\ n + (i - 1) \in 0..Items(cat)
    <3>1. Items(cat) = n + k BY DEF Items
    <3> HIDE DEF k
    <3> QED BY <1>1, <3>1
  <2>2. Items(cat) \in Nat BY CatalogItems
  <2>3. n + i \in 0..Items(cat) BY <2>1, <2>2
  <2>4. /\ MidSound(p[n + (i - 1)], L) /\ MidSound(p[n + i], L) /\ p[n + i].ok
        /\ p[n + i] = ImportRoom(p[n + (i - 1)], cat.rooms[i])
    BY <2>1, <2>3 DEF Pass
  <2>5. q[i] = p[n + i] /\ q[i - 1] = p[n + (i - 1)] BY <1>2
  <2>6. i \in 1..Len(cat.rooms) OBVIOUS
  <2> DEFINE s == p[n]
             a == q[i - 1]
             new == q[i]
  <2>7. /\ MidSound(a, L) /\ MidSound(new, L) /\ new.ok
        /\ new = ImportRoom(a, cat.rooms[i]) /\ RoomPhase(s, a, L, cat, i - 1)
    BY <1>3, <2>4, <2>5
  <2> HIDE DEF s, a, new, k
  <2>8. RoomPhase(s, new, L, cat, i) BY <2>6, <2>7, RoomPhaseStep
  <2> QED BY <2>8 DEF s, new
<1>4. q[0] = p[n] BY <1>1
<1>5. \A i \in 1..k : ~(i <= 0) OBVIOUS
<1>6. 0 \in S
  <2>1. RoomPhase(p[n], p[n], L, cat, 0) BY <1>5 DEF RoomPhase, TypesKept
  <2> QED BY <1>1, <1>4, <2>1
<1>7. n + k = Items(cat) BY DEF Items
<1> HIDE DEF k, q
<1>8. \A i \in 1..k : i - 1 \in S => i \in S
  <2> HIDE DEF Good
  <2> QED BY <1>2, <1>3
<1>9. \A i \in 0..k : i \in S
  <2> HIDE DEF S
  <2> QED BY <1>1, <1>6, <1>8, NumbersInduct
<1>10. k \in 0..k BY <1>1
<1>11. q[k] = p[Items(cat)] BY <1>7, <1>10 DEF q
<1>12. RoomPhase(p[n], p[Items(cat)], L, cat, k) BY <1>9, <1>10, <1>11
<1> QED BY <1>12 DEF k

\* The same links, for no room of a type has changed its type.
LEMMA LinksStay ==
  ASSUME NEW d, NEW cat \in Catalogs, NEW links, Steady(d, cat, links), NEW second,
         second.mappings = d.mappings, TypesKept(d, second),
         NEW f \in Links(second, cat)
  PROVE  f = links /\ KnownIds(second, cat) = KnownIds(d, cat)
<1> DEFINE L == KnownIds(d, cat)
           k == Len(cat.rooms)
<1>1. KnownIds(second, cat) = L BY DEF KnownIds
<1>2. /\ Tables(d) /\ Keys(d) /\ Regular(d, cat) /\ links \in Links(d, cat)
      /\ \A j \in 1..k : RoomSteady(d, links, cat.rooms[j])
  BY DEF Steady
<1>3. None \notin L BY <1>2, KnownAreNumbers
<1>5. ASSUME NEW y \in L PROVE LocalTypes(second, y) = LocalTypes(d, y)
  BY <1>3 DEF LocalTypes, TypesKept
<1>6. ASSUME NEW y \in L, NEW t \in LocalTypes(d, y) PROVE t = links[y]
  <2>1. PICK m \in d.mappings : m.type = y /\ t = d.rooms[m.room].type BY <1>6 DEF LocalTypes
  <2>2. PICK i \in 1..k : cat.rooms[i].id = m.accommodation BY <1>2, CatalogItems DEF Regular
  <2> DEFINE x == cat.rooms[i]
  <2>3. RoomSteady(d, links, x) BY <1>2
  <2>4. x.id = m.accommodation BY <2>2
  <2> HIDE DEF x
  <2>5. PICK h \in d.mappings :
          /\ h.accommodation = x.id /\ h.type = x.type
          /\ x.type # None => d.rooms[h.room].type = links[x.type]
    BY <2>3 DEF RoomSteady
  <2>6. h = m BY <1>2, <2>4, <2>5 DEF Keys
  <2> QED BY <1>3, <2>1, <2>5, <2>6
<1>7. /\ f \in [L -> TypeIds \cup {None}] /\ links \in [L -> TypeIds \cup {None}]
      /\ \A y \in L : IF LocalTypes(d, y) = {} THEN f[y] = None ELSE f[y] \in LocalTypes(d, y)
      /\ \A y \in L : IF LocalTypes(d, y) = {} THEN links[y] = None ELSE links[y] \in LocalTypes(d, y)
  BY <1>1, <1>2, <1>5 DEF Links
<1> HIDE DEF L
<1>8. \A y \in L : f[y] = links[y] BY <1>6, <1>7
<1>9. f = links BY <1>7, <1>8
<1> QED BY <1>1, <1>9 DEF L

\* A second import, from tables that one has left.
SecondIs(d, s, cat, p) ==
  /\ s.types = p[Len(cat.types)].types /\ s.link = p[Len(cat.types)].link
  /\ s.mappings = d.mappings /\ TypesKept(d, s)
  /\ \A i \in 1..Len(cat.rooms) :
       RoomReady(s, KnownIds(d, cat), cat.rooms[i]) /\ RoomSettled(s, cat.rooms[i])

\* So is every second import.
LEMMA RoomsReady ==
  ASSUME NEW d, NEW cat \in Catalogs, NEW links, Steady(d, cat, links),
         NEW p, Pass(p, d, cat, links)
  PROVE  SecondIs(d, p[Items(cat)], cat, p)
<1> DEFINE n == Len(cat.types)
           k == Len(cat.rooms)
           L == KnownIds(d, cat)
           c(i) == cat.rooms[i]
           s == p[Items(cat)]
<1>1. n \in Nat /\ n \in 0..n /\ k \in Nat BY CatalogItems
<1>2. Tables(d) /\ Keys(d) /\ \A i \in 1..k : RoomSteady(d, links, c(i)) BY DEF Steady
<1>3. p[n].rooms = d.rooms /\ p[n].mappings = d.mappings
  <2>1. LinkedAt(p, d, cat, links, n) BY <1>1, LinksAt
  <2> QED BY <2>1 DEF LinkedAt
<1>4. None \notin L /\ \A m \in d.mappings : m.type # None => m.type \in L
  BY <1>2, KnownAreNumbers
<1>5. ASSUME NEW i \in 1..k PROVE RoomReady(p[n], L, c(i))
  <2>1. RoomSteady(p[n], p[n].link, c(i)) BY SteadyTypes
  <2>2. c(i).type # None => c(i).type \in L BY <1>2, <1>4 DEF RoomSteady
  <2> QED BY <2>1, <2>2 DEF RoomReady
<1>6. RoomPhase(p[n], s, L, cat, k) BY <1>4, <1>5, RoomPhaseEnd
<1>7. \A i \in 1..k : i <= k BY <1>1
<1> HIDE DEF s, L
<1>8. \A i \in 1..k : RoomReady(s, L, c(i)) /\ RoomSettled(s, c(i)) BY <1>6, <1>7 DEF RoomPhase
<1>9. /\ s.types = p[n].types /\ s.link = p[n].link /\ s.mappings = p[n].mappings
      /\ TypesKept(p[n], s)
  BY <1>6 DEF RoomPhase
<1>10. TypesKept(d, s) BY <1>3, <1>9 DEF TypesKept
<1>11. SecondIs(d, s, cat, p) BY <1>3, <1>8, <1>9, <1>10 DEF SecondIs, L
<1> QED BY <1>11 DEF s

\* A third import changes nothing.
LEMMA ThirdIsSecond ==
  ASSUME NEW d, NEW cat \in Catalogs, NEW links, Steady(d, cat, links),
         NEW p, Pass(p, d, cat, links), NEW e, KnownIds(e, cat) = KnownIds(d, cat),
         e.types = p[Items(cat)].types, e.rooms = p[Items(cat)].rooms,
         e.mappings = p[Items(cat)].mappings, NEW g, Pass(g, e, cat, links)
  PROVE  /\ g[Items(cat)].types = e.types /\ g[Items(cat)].rooms = e.rooms
         /\ g[Items(cat)].mappings = e.mappings
<1> DEFINE n == Len(cat.types)
           k == Len(cat.rooms)
           L == KnownIds(d, cat)
           c(i) == cat.rooms[i]
           s == p[Items(cat)]
           z == g[n]
           end == g[Items(cat)]
<1>1. n \in Nat /\ n \in 0..n /\ k \in Nat BY CatalogItems
<1>2. SecondIs(d, s, cat, p) BY RoomsReady
<1>3. /\ s.types = p[n].types /\ s.link = p[n].link
      /\ \A i \in 1..k : RoomReady(s, L, c(i)) /\ RoomSettled(s, c(i))
  BY <1>2 DEF SecondIs
<1>4. z.types = s.types /\ z.link = s.link
  <2>1. e.types = p[n].types BY <1>3
  <2> HIDE DEF n, s, z
  <2>2. n = Len(cat.types) BY DEF n
  <2>3. g[n].types = p[n].types /\ g[n].link = p[n].link BY <2>1, <2>2, SameTypesEnd
  <2> QED BY <1>3, <2>3 DEF z
<1>5. z.rooms = s.rooms /\ z.mappings = s.mappings
  <2>1. LinkedAt(g, e, cat, links, n) BY <1>1, LinksAt
  <2> QED BY <2>1 DEF LinkedAt
<1>6. None \notin L
  <2>1. Tables(d) BY DEF Steady
  <2> QED BY <2>1, KnownAreNumbers
<1> HIDE DEF s, z
<1>7. \A i \in 1..k : RoomReady(z, L, c(i)) /\ RoomSettled(z, c(i))
  BY <1>3, <1>4, <1>5 DEF RoomReady, RoomSteady, RoomSettled
<1>8. RoomPhase(z, end, L, cat, k)
  <2>1. \A i \in 1..Len(cat.rooms) : RoomReady(g[n], L, cat.rooms[i]) BY <1>7 DEF z
  <2>2. L = KnownIds(e, cat) OBVIOUS
  <2> HIDE DEF L, n
  <2>3. n = Len(cat.types) BY DEF n
  <2>4. RoomPhase(g[n], g[Items(cat)], L, cat, Len(cat.rooms))
    BY <1>6, <2>1, <2>2, <2>3, RoomPhaseEnd
  <2> QED BY <2>4 DEF z
<1> HIDE DEF end
<1>9. end.types = z.types /\ end.mappings = z.mappings /\ end.rooms = z.rooms
  BY <1>7, <1>8 DEF RoomPhase
<1>10. end.types = e.types /\ end.rooms = e.rooms /\ end.mappings = e.mappings
  BY <1>4, <1>5, <1>9 DEF s
<1> QED BY <1>10 DEF end

\* The tables an import that goes through leaves, with the links it was given.
LEMMA ImportedIs ==
  ASSUME NEW d, NEW cat, NEW new \in AllImported(d, cat)
  PROVE  \E links \in Links(d, cat) :
           /\ Imported(d, cat, links).ok
           /\ new = [types |-> Imported(d, cat, links).types, rooms |-> Imported(d, cat, links).rooms,
                     mappings |-> Imported(d, cat, links).mappings]
BY DEF AllImported

\* From tables that an import has left, another import, then one more.
LEMMA SteadySettles ==
  ASSUME NEW d, NEW cat \in Catalogs, \A links \in Links(d, cat) : Steady(d, cat, links),
         NEW second \in AllImported(d, cat), NEW third \in AllImported(second, cat)
  PROVE  third = second
<1>1. PICK links \in Links(d, cat) :
        /\ Imported(d, cat, links).ok
        /\ second = [types |-> Imported(d, cat, links).types, rooms |-> Imported(d, cat, links).rooms,
                     mappings |-> Imported(d, cat, links).mappings]
  BY ImportedIs
<1>2. PICK f \in Links(second, cat) :
        /\ Imported(second, cat, f).ok
        /\ third = [types |-> Imported(second, cat, f).types, rooms |-> Imported(second, cat, f).rooms,
                    mappings |-> Imported(second, cat, f).mappings]
  BY ImportedIs
<1> DEFINE p == Progress(d, cat, links)
           g == Progress(second, cat, f)
           L == KnownIds(d, cat)
<1>3. Steady(d, cat, links) /\ Tables(d) /\ Keys(d) BY DEF Steady
<1>4. Tables(second) /\ Keys(second) BY <1>3, ImportedSound
<1>5. Pass(p, d, cat, links) BY <1>1, <1>3, PassIs
<1>6. Pass(g, second, cat, f) BY <1>2, <1>4, PassIs
<1>7. /\ second.types = p[Items(cat)].types /\ second.rooms = p[Items(cat)].rooms
      /\ second.mappings = p[Items(cat)].mappings
  BY <1>1 DEF Imported
<1>8. third = [types |-> g[Items(cat)].types, rooms |-> g[Items(cat)].rooms,
               mappings |-> g[Items(cat)].mappings]
  BY <1>2 DEF Imported
<1> HIDE DEF p, g, L
<1>9. SecondIs(d, p[Items(cat)], cat, p) BY <1>3, <1>5, RoomsReady
<1>10. second.mappings = d.mappings /\ TypesKept(d, second)
  BY <1>7, <1>9 DEF SecondIs, TypesKept
<1>11. f = links /\ KnownIds(second, cat) = KnownIds(d, cat) BY <1>3, <1>10, LinksStay
<1>12. Pass(g, second, cat, links) BY <1>6, <1>11
<1>13. /\ g[Items(cat)].types = second.types /\ g[Items(cat)].rooms = second.rooms
       /\ g[Items(cat)].mappings = second.mappings
  BY <1>3, <1>5, <1>7, <1>11, <1>12, ThirdIsSecond
<1>14. second = [types |-> second.types, rooms |-> second.rooms, mappings |-> second.mappings]
  BY <1>1
<1> QED BY <1>8, <1>13, <1>14

\* Whatever sound tables an import starts from, what it leaves settles.
LEMMA ImportSettles ==
  ASSUME NEW d, Tables(d), Keys(d), NEW cat \in Catalogs, NEW new \in AllImported(d, cat)
  PROVE  Settles(new, cat)
<1>1. SUFFICES ASSUME Regular(new, cat), NEW second \in AllImported(new, cat),
                      NEW third \in AllImported(second, cat)
               PROVE  third = second
  BY DEF Settles
<1>2. PICK first \in Links(d, cat) :
        /\ Imported(d, cat, first).ok
        /\ new = [types |-> Imported(d, cat, first).types, rooms |-> Imported(d, cat, first).rooms,
                  mappings |-> Imported(d, cat, first).mappings]
  BY ImportedIs
<1>3. Tables(new) /\ Keys(new) /\ CatalogImported(new, cat) BY ImportedSound
<1>4. /\ new.types = Imported(d, cat, first).types /\ new.rooms = Imported(d, cat, first).rooms
      /\ new.mappings = Imported(d, cat, first).mappings
  BY <1>2
<1>5. ASSUME NEW links \in Links(new, cat) PROVE Steady(new, cat, links)
  BY <1>1, <1>2, <1>3, <1>4, SteadyAfter
<1> QED BY <1>1, <1>5, SteadySettles

\* In every state: the keys and references of the tables hold, and what an
\* import would leave is what MotoPress publishes and settles
\* (motopress-import.service.ts:39-279, schema.prisma:166-264).
THEOREM RoomImportIsSound == ImportSpec => []ImportSound
<1>1. ASSUME RoomInv PROVE ImportSound
  <2>1. ImportTypeOK /\ Keys(db) /\ Tables(db) /\ catalog \in Catalogs
    BY <1>1 DEF RoomInv, ImportTypeOK
  <2>2. ASSUME NEW d \in AllImported(db, catalog) PROVE CatalogImported(d, catalog) /\ Settles(d, catalog)
    <3> DEFINE now == db
               cat == catalog
    <3>1. Tables(now) /\ Keys(now) /\ cat \in Catalogs /\ d \in AllImported(now, cat) BY <2>1
    <3> HIDE DEF now, cat
    <3>2. CatalogImported(d, cat) BY <3>1, ImportedSound
    <3>3. Settles(d, cat) BY <3>1, ImportSettles
    <3> QED BY <3>2, <3>3 DEF cat
  <2> QED BY <2>1, <2>2 DEF ImportSound
<1>2. ImportSpec => []RoomInv BY RoomInvariant
<1> QED BY <1>1, <1>2, PTL
=============================================================================
