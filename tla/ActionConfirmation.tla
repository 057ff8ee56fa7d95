-------------------------- MODULE ActionConfirmation --------------------------
(***************************************************************************)
(* The two-step confirmation of the assistant's plugin for OpenClaw: a tool *)
(* prepares a write and keeps it in memory (lib/confirmation.ts), hooks     *)
(* watch the chat and the tool calls (index.ts, lib/confirmation-guard.ts), *)
(* and confirm_action sends it to the API (tools/actions.ts).               *)
(*                                                                         *)
(* The host is external: it runs the hook after a tool before the model    *)
(* sees what the tool returned, so an action is confirmed only once its     *)
(* preparation is noted; whether it reports a call that was blocked is not *)
(* known. Several calls may be under way, each step of one is one event.    *)
(***************************************************************************)
EXTENDS Naturals, Sequences

CONSTANTS
  Actions,     \* ids of prepared actions
  Sessions,    \* chats with the assistant
  Calls,       \* calls of confirm_action and cancel_action under way
  None,
  MaxMessages  \* bound on the messages of a session

ASSUME ConfirmationAssumption ==
  None \notin Actions \cup Sessions \cup [session : Sessions, at : Nat]

VARIABLES
  pending,   \* keys of pendingActions
  aged,      \* actions created more than an hour ago
  noting,    \* actions whose after_tool_call is still to run
  meta,      \* actionMetaById: session and user sequence, or None
  metaAged,  \* actions whose meta is older than an hour
  sequence,  \* userSequenceBySession
  lastOk,    \* whether the session's last user text is an explicit confirmation
  calls,     \* each call: what it does, its action and session, where it stands
  requests,  \* the API request of each action
  written,   \* times the API applied an action
  told,      \* what the user was told of an action
  said,      \* history: messages of a session, TRUE for a confirmation
  prepared,  \* history: session of an action and the messages said before it
  reported   \* history: actions with a blocked call that the host reported

memory == <<pending, aged, noting, meta, metaAged, sequence, lastOk>>
history == <<said, prepared, reported>>
vars == <<memory, calls, requests, written, told, history>>

Meta == [session : Sessions, at : Nat]
Idle == [does |-> None, action |-> None, session |-> None, at |-> "idle"]
Outcomes == {"nothing", "done", "failed", "cancelled"}

Init ==
  /\ pending = {} /\ aged = {} /\ noting = {} /\ metaAged = {}
  /\ meta = [a \in Actions |-> None]
  /\ sequence = [s \in Sessions |-> 0]
  /\ lastOk = [s \in Sessions |-> FALSE]
  /\ calls = [c \in Calls |-> Idle]
  /\ requests = [a \in Actions |-> "none"]
  /\ written = [a \in Actions |-> 0]
  /\ told = [a \in Actions |-> "nothing"]
  /\ said = [s \in Sessions |-> <<>>]
  /\ prepared = [a \in Actions |-> None]
  /\ reported = {}

-----------------------------------------------------------------------------
(* Time and memory                                                           *)

\* ConfirmationGuard forgets what it noted more than an hour ago, and `gone`.
cleanupExpired(gone) ==
  /\ meta' = [a \in Actions |-> IF a \in metaAged \cup gone THEN None ELSE meta[a]]
  /\ metaAged' = {}

Fresh == pending \ aged

ActionAges(a) ==
  /\ a \in pending \ aged
  /\ aged' = aged \cup {a}
  /\ UNCHANGED <<pending, noting, meta, metaAged, sequence, lastOk, calls, requests,
                 written, told, history>>

\* Mutant: the guard forgets sooner than the actions expire.
MetaAges_Sooner(a) ==
  /\ meta[a] # None /\ a \notin metaAged
  /\ metaAged' = metaAged \cup {a}
  /\ UNCHANGED <<pending, aged, noting, meta, sequence, lastOk, calls, requests, written,
                 told, history>>

\* It was noted after the action was created, and lives as long.
MetaAges(a) ==
  /\ meta[a] # None /\ a \notin metaAged
  /\ a \in pending => a \in aged
  /\ metaAged' = metaAged \cup {a}
  /\ UNCHANGED <<pending, aged, noting, meta, sequence, lastOk, calls, requests, written,
                 told, history>>

\* The gateway restarts: the plugin's maps and its calls are gone, a request
\* that was sent is not.
Restart ==
  /\ pending' = {} /\ aged' = {} /\ noting' = {} /\ metaAged' = {}
  /\ meta' = [a \in Actions |-> None]
  /\ sequence' = [s \in Sessions |-> 0]
  /\ lastOk' = [s \in Sessions |-> FALSE]
  /\ calls' = [c \in Calls |-> Idle]
  /\ UNCHANGED <<requests, written, told, history>>

-----------------------------------------------------------------------------
(* before_message_write and the prepare tools                                *)

UserMessage(s, ok) ==
  /\ Len(said[s]) < MaxMessages
  /\ cleanupExpired({})
  /\ sequence' = [sequence EXCEPT ![s] = @ + 1]
  /\ lastOk' = [lastOk EXCEPT ![s] = ok]
  /\ said' = [said EXCEPT ![s] = Append(@, ok)]
  /\ UNCHANGED <<pending, aged, noting, calls, requests, written, told, prepared, reported>>

\* A tool stores an action; its id is new.
Prepare(a, s) ==
  /\ prepared[a] = None
  /\ pending' = pending \cup {a}
  /\ noting' = noting \cup {a}
  /\ prepared' = [prepared EXCEPT ![a] = [session |-> s, at |-> Len(said[s])]]
  /\ UNCHANGED <<aged, meta, metaAged, sequence, lastOk, calls, requests, written, told,
                 said, reported>>

noteToolResult(a) ==
  /\ a \in noting
  /\ noting' = noting \ {a}
  /\ LET s == prepared[a].session IN
     meta' = [b \in Actions |->
                IF b = a THEN [session |-> s, at |-> sequence[s]]
                ELSE IF b \in metaAged THEN None
                ELSE meta[b]]
  /\ metaAged' = {}
  /\ UNCHANGED <<pending, aged, sequence, lastOk, calls, requests, written, told, history>>

-----------------------------------------------------------------------------
(* confirm_action                                                            *)

\* Mutant: any message that confirms will do, also one before the preparation.
canConfirm_NoSequence(a, s) ==
  (meta[a] # None /\ a \notin metaAged) => meta[a].session = s /\ lastOk[s]

\* An action the guard knows nothing of passes.
canConfirm(a, s) ==
  (meta[a] # None /\ a \notin metaAged) =>
    /\ meta[a].session = s
    /\ sequence[s] > meta[a].at
    /\ lastOk[s]

Known(a) == prepared[a] # None /\ a \notin noting

BeforeConfirm(c, a, s) ==
  /\ calls[c] = Idle /\ Known(a)
  /\ calls' = [calls EXCEPT ![c] =
                 [does |-> "confirm", action |-> a, session |-> s,
                  at |-> IF canConfirm(a, s) THEN "gated" ELSE "blocked"]]
  /\ cleanupExpired({})
  /\ UNCHANGED <<pending, aged, noting, sequence, lastOk, requests, written, told, history>>

\* The action is taken out before its request is sent.
Execute(c) ==
  LET a == calls[c].action IN
  /\ calls[c].at = "gated"
  /\ pending' = Fresh \ {a}
  /\ aged' = {}
  /\ IF a \in Fresh
     THEN /\ requests' = [requests EXCEPT ![a] = "sent"]
          /\ calls' = [calls EXCEPT ![c].at = "waiting"]
     ELSE /\ calls' = [calls EXCEPT ![c].at = "over"]
          /\ UNCHANGED requests
  /\ UNCHANGED <<noting, meta, metaAged, sequence, lastOk, written, told, history>>

ApiHandles(a) ==
  /\ requests[a] = "sent"
  /\ \/ /\ requests' = [requests EXCEPT ![a] = "applied"]
        /\ written' = [written EXCEPT ![a] = @ + 1]
     \/ /\ requests' = [requests EXCEPT ![a] = "refused"]
        /\ UNCHANGED written
  /\ UNCHANGED <<memory, calls, told, history>>

\* The answer, or an error instead of it while the request may still be handled.
Answer(c) ==
  LET a == calls[c].action IN
  /\ calls[c].at = "waiting"
  /\ \/ requests[a] = "applied" /\ told' = [told EXCEPT ![a] = "done"]
     \/ told' = [told EXCEPT ![a] = "failed"]
  /\ calls' = [calls EXCEPT ![c].at = "over"]
  /\ UNCHANGED <<memory, requests, written, history>>

\* after_tool_call of confirm_action and cancel_action.
consumeAction(c) ==
  /\ calls[c].at = "over"
  /\ cleanupExpired({calls[c].action})
  /\ calls' = [calls EXCEPT ![c] = Idle]
  /\ UNCHANGED <<pending, aged, noting, sequence, lastOk, requests, written, told, history>>

\* A blocked call ends; a report of it to after_tool_call consumes the meta too.
BlockedEnds(c) ==
  LET a == calls[c].action IN
  /\ calls[c].at = "blocked"
  /\ \/ UNCHANGED <<meta, metaAged, reported>>
     \/ cleanupExpired({a}) /\ reported' = reported \cup {a}
  /\ calls' = [calls EXCEPT ![c] = Idle]
  /\ UNCHANGED <<pending, aged, noting, sequence, lastOk, requests, written, told, said,
                 prepared>>

-----------------------------------------------------------------------------
(* cancel_action, from whatever session                                      *)

\* Mutant: it answers that the action is cancelled without looking for it.
Cancel_Always(c, a, s) ==
  /\ calls[c] = Idle /\ Known(a)
  /\ pending' = Fresh \ {a}
  /\ aged' = {}
  /\ told' = [told EXCEPT ![a] = "cancelled"]
  /\ calls' = [calls EXCEPT ![c] =
                 [does |-> "cancel", action |-> a, session |-> s, at |-> "over"]]
  /\ UNCHANGED <<noting, meta, metaAged, sequence, lastOk, requests, written, history>>

Cancel(c, a, s) ==
  /\ calls[c] = Idle /\ Known(a)
  /\ pending' = Fresh \ {a}
  /\ aged' = {}
  /\ told' = IF a \in Fresh THEN [told EXCEPT ![a] = "cancelled"] ELSE told
  /\ calls' = [calls EXCEPT ![c] =
                 [does |-> "cancel", action |-> a, session |-> s, at |-> "over"]]
  /\ UNCHANGED <<noting, meta, metaAged, sequence, lastOk, requests, written, history>>

-----------------------------------------------------------------------------
ActionStep(a) ==
  \/ ActionAges(a) \/ MetaAges(a) \/ noteToolResult(a) \/ ApiHandles(a)
  \/ \E s \in Sessions : Prepare(a, s)

CallStep(c) ==
  \/ \E a \in Actions, s \in Sessions : BeforeConfirm(c, a, s) \/ Cancel(c, a, s)
  \/ Execute(c) \/ Answer(c) \/ consumeAction(c) \/ BlockedEnds(c)

Next ==
  \/ \E s \in Sessions, ok \in BOOLEAN : UserMessage(s, ok)
  \/ \E a \in Actions : ActionStep(a)
  \/ \E c \in Calls : CallStep(c)
  \/ Restart

Spec == Init /\ [][Next]_vars

-----------------------------------------------------------------------------
(* Properties                                                                *)

Call ==
  {Idle} \cup
  [does : {"confirm"}, action : Actions, session : Sessions,
   at : {"gated", "blocked", "waiting", "over"}]
  \cup [does : {"cancel"}, action : Actions, session : Sessions, at : {"over"}]

TypeOK ==
  /\ pending \subseteq Actions /\ aged \subseteq pending
  /\ noting \subseteq Actions /\ metaAged \subseteq Actions
  /\ meta \in [Actions -> Meta \cup {None}]
  /\ sequence \in [Sessions -> Nat]
  /\ lastOk \in [Sessions -> BOOLEAN]
  /\ calls \in [Calls -> Call]
  /\ requests \in [Actions -> {"none", "sent", "applied", "refused"}]
  /\ written \in [Actions -> Nat]
  /\ told \in [Actions -> Outcomes]
  /\ said \in [Sessions -> Seq(BOOLEAN)]
  /\ prepared \in [Actions -> Meta \cup {None}]
  /\ reported \subseteq Actions

\* The session that prepared an action has confirmed it since.
Confirmed(a) ==
  /\ prepared[a] # None
  /\ \E i \in DOMAIN said[prepared[a].session] :
       i > prepared[a].at /\ said[prepared[a].session][i]

\* Confirmed, or the host reported a blocked call of it.
Cleared(a) == Confirmed(a) \/ a \in reported

\* What is written was confirmed after it was prepared and in the session that
\* prepared it, and is written once, whatever calls overlap
\* (index.ts:53-67, actions.ts:324-338).
WrittenAsConfirmed ==
  \A a \in Actions : written[a] > 0 => written[a] = 1 /\ Cleared(a)

\* An action the user was told is cancelled is never written, and one he was
\* told is done was (actions.ts:671-681). One that "failed" may be either.
ToldTheTruth ==
  \A a \in Actions :
    /\ told[a] = "cancelled" => requests[a] = "none" /\ a \notin pending
    /\ told[a] = "done" => written[a] = 1

-----------------------------------------------------------------------------
(* The inductive invariant                                                   *)

\* The guard knows every action that can still be executed, as it was
\* prepared: that it lets unknown actions pass opens no gap
\* (confirmation-guard.ts:122-124).
GuardCovers ==
  \A a \in Fresh \ (noting \cup reported) :
    /\ meta[a] # None /\ a \notin metaAged
    /\ meta[a].session = prepared[a].session

SequenceSound ==
  \A s \in Sessions :
    /\ sequence[s] <= Len(said[s])
    /\ sequence[s] > 0 => lastOk[s] = said[s][Len(said[s])]

PreparedSound ==
  \A a \in Actions :
    IF prepared[a] = None
    THEN a \notin pending \cup noting \cup reported /\ requests[a] = "none"
    ELSE prepared[a].at <= Len(said[prepared[a].session])

\* A user sequence counts from the last restart, `said` from the beginning.
MetaSound ==
  \A a \in Actions : meta[a] # None =>
    LET s == meta[a].session IN
    /\ prepared[a] # None /\ s = prepared[a].session
    /\ prepared[a].at + sequence[s] <= Len(said[s]) + meta[a].at

CallsSound ==
  \A c \in Calls : calls[c] # Idle =>
    LET a == calls[c].action IN
    /\ Known(a)
    /\ calls[c].at \in {"waiting", "over"} => a \notin pending
    /\ calls[c].at = "gated" /\ a \in Fresh => Cleared(a)
    /\ calls[c].at = "waiting" => requests[a] # "none"

RequestsSound ==
  \A a \in Actions :
    /\ requests[a] # "none" => Cleared(a) /\ a \notin pending
    /\ written[a] = IF requests[a] = "applied" THEN 1 ELSE 0
    /\ told[a] = "cancelled" => requests[a] = "none" /\ a \notin pending
    /\ told[a] = "cancelled" => prepared[a] # None
    /\ told[a] = "done" => requests[a] = "applied"

\* Whatever can still be executed is guarded, and what was sent was cleared.
IInv ==
  /\ TypeOK /\ GuardCovers /\ SequenceSound /\ PreparedSound /\ MetaSound
  /\ CallsSound /\ RequestsSound
===============================================================================
