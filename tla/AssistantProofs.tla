-------------------------- MODULE AssistantProofs --------------------------
(***************************************************************************)
(* What holds of the two-step confirmation for any number of actions,       *)
(* sessions, messages and overlapping calls; of an agent run for any number *)
(* of tokens, drops and reconnections; and of the chat for any number of    *)
(* sessions, tokens, chunks and plugin calls.                               *)
(***************************************************************************)
EXTENDS ConfirmationRefinement, AgentRun, AssistantChat, TLAPS

-----------------------------------------------------------------------------
(* The confirmation: what the guard's answer is worth                        *)

LEMMA StaysCleared ==
  ASSUME TypeOK, NEW s \in Sessions, NEW ok \in BOOLEAN, UserMessage(s, ok),
         NEW a \in Actions, Cleared(a)
  PROVE  Cleared(a)'
<1>1. CASE Confirmed(a)
  <2>1. PICK i \in DOMAIN said[prepared[a].session] :
          i > prepared[a].at /\ said[prepared[a].session][i]
    BY <1>1 DEF Confirmed
  <2>2. prepared[a].session \in Sessions
    BY <1>1 DEF TypeOK, Confirmed, Meta
  <2>. DEFINE heard == said[prepared[a].session]
  <2>3. /\ heard \in Seq(BOOLEAN)
        /\ said'[prepared[a].session] \in {heard, Append(heard, ok)}
    BY <2>2 DEF UserMessage, TypeOK
  <2>4. i \in DOMAIN heard /\ i > prepared[a].at /\ heard[i]
    BY <2>1
  <2>5. \A h \in {heard, Append(heard, ok)} : i \in DOMAIN h /\ h[i]
    <3>. SUFFICES ASSUME NEW h \in Seq(BOOLEAN), i \in DOMAIN h, h[i]
                  PROVE  i \in DOMAIN Append(h, ok) /\ Append(h, ok)[i]
      BY <2>3, <2>4
    <3>1. i \in 1..Len(h) /\ Len(h) \in Nat /\ Len(Append(h, ok)) = Len(h) + 1
      OBVIOUS
    <3>2. Append(h, ok)[i] = h[i] /\ DOMAIN Append(h, ok) = 1..(Len(h) + 1)
      BY <3>1
    <3>. QED
      BY <3>1, <3>2
  <2>. QED
    BY <1>1, <2>3, <2>4, <2>5 DEF UserMessage, Cleared, Confirmed
<1>2. CASE a \in reported
  BY <1>2 DEF UserMessage, Cleared
<1>. QED
  BY <1>1, <1>2 DEF Cleared

\* An action that can be executed and that the guard lets pass was confirmed
\* since it was prepared: the user sequence has gone on, and its last message
\* is a confirmation.
LEMMA GatedIsCleared ==
  ASSUME IInv, NEW a \in Actions, NEW s \in Sessions,
         Known(a), a \in Fresh, canConfirm(a, s)
  PROVE  Cleared(a)
<1>1. CASE a \in reported
  BY <1>1 DEF Cleared
<1>2. CASE a \notin reported
  <2>1. meta[a] # None /\ a \notin metaAged
    BY <1>2 DEF IInv, GuardCovers, Known
  <2>2. meta[a].session = s /\ sequence[s] > meta[a].at /\ lastOk[s]
    BY <2>1 DEF canConfirm
  <2>3. prepared[a] # None /\ prepared[a].session = s
        /\ prepared[a].at + sequence[s] <= Len(said[s]) + meta[a].at
    BY <2>1, <2>2 DEF IInv, MetaSound
  <2>4. /\ prepared[a].at \in Nat /\ meta[a].at \in Nat
        /\ sequence[s] \in Nat /\ said[s] \in Seq(BOOLEAN)
    BY <2>1, <2>3 DEF IInv, TypeOK, Meta
  <2>5. Len(said[s]) > prepared[a].at /\ sequence[s] > 0
    BY <2>2, <2>3, <2>4
  <2>6. said[s][Len(said[s])]
    BY <2>2, <2>5 DEF IInv, SequenceSound
  <2>. QED
    BY <2>3, <2>4, <2>5, <2>6 DEF Cleared, Confirmed
<1>. QED
  BY <1>1, <1>2

-----------------------------------------------------------------------------
(* The confirmation: calls                                                   *)

LEMMA ConfirmCall ==
  ASSUME TypeOK, NEW c \in Calls, calls[c].at \in {"gated", "waiting"}
  PROVE  /\ calls[c].action \in Actions
         /\ calls[c] # Idle
         /\ \A at \in {"gated", "blocked", "waiting", "over"} :
              LET call == [calls[c] EXCEPT !.at = at] IN
              /\ call \in Call /\ call # Idle
              /\ call.at = at /\ call.action = calls[c].action
<1>1. calls[c] \in Call
  BY DEF TypeOK
<1>2. calls[c] # Idle
  BY DEF Idle
<1>3. calls[c] \in [does : {"confirm"}, action : Actions, session : Sessions,
                    at : {"gated", "blocked", "waiting", "over"}]
  BY <1>1, <1>2 DEF Call
<1>. QED
  BY <1>2, <1>3 DEF Call, Idle

-----------------------------------------------------------------------------
(* The confirmation: every step keeps the invariant                          *)

LEMMA AgesKeepsIInv == ASSUME IInv, NEW a \in Actions, ActionAges(a) PROVE IInv'
<1>1. TypeOK'
  BY ConfirmationAssumption
  DEF IInv, ActionAges, TypeOK, Meta, Call, Idle, Outcomes, memory, history
<1>2. GuardCovers'
  BY ConfirmationAssumption
  DEF IInv, ActionAges, TypeOK, GuardCovers, Fresh, MetaSound, memory, history
<1>3. SequenceSound'
  BY ConfirmationAssumption DEF IInv, ActionAges, TypeOK, SequenceSound, memory, history
<1>4. PreparedSound'
  BY ConfirmationAssumption
  DEF IInv, ActionAges, TypeOK, PreparedSound, Meta, memory, history
<1>5. MetaSound'
  BY ConfirmationAssumption
  DEF IInv, ActionAges, TypeOK, MetaSound, Meta, SequenceSound, PreparedSound, memory,
      history
<1>6. CallsSound'
  BY ConfirmationAssumption
  DEF IInv, ActionAges, TypeOK, CallsSound, Call, Known, Cleared, Confirmed, Fresh,
      Idle, Meta, memory, history
<1>7. RequestsSound'
  BY ConfirmationAssumption
  DEF IInv, ActionAges, TypeOK, RequestsSound, Cleared, Confirmed, Fresh, PreparedSound,
      Meta, memory, history
<1>. QED
  BY <1>1, <1>2, <1>3, <1>4, <1>5, <1>6, <1>7 DEF IInv

LEMMA MetaAgesKeepsIInv == ASSUME IInv, NEW a \in Actions, MetaAges(a) PROVE IInv'
<1>1. TypeOK'
  BY ConfirmationAssumption
  DEF IInv, MetaAges, TypeOK, Meta, Call, Idle, Outcomes, memory, history
<1>2. GuardCovers'
  BY ConfirmationAssumption
  DEF IInv, MetaAges, TypeOK, GuardCovers, Fresh, MetaSound, memory, history
<1>3. SequenceSound'
  BY ConfirmationAssumption DEF IInv, MetaAges, TypeOK, SequenceSound, memory, history
<1>4. PreparedSound'
  BY ConfirmationAssumption
  DEF IInv, MetaAges, TypeOK, PreparedSound, Meta, memory, history
<1>5. MetaSound'
  BY ConfirmationAssumption
  DEF IInv, MetaAges, TypeOK, MetaSound, Meta, SequenceSound, PreparedSound, memory,
      history
<1>6. CallsSound'
  BY ConfirmationAssumption
  DEF IInv, MetaAges, TypeOK, CallsSound, Call, Known, Cleared, Confirmed, Fresh, Idle,
      Meta, memory, history
<1>7. RequestsSound'
  BY ConfirmationAssumption
  DEF IInv, MetaAges, TypeOK, RequestsSound, Cleared, Confirmed, Fresh, PreparedSound,
      Meta, memory, history
<1>. QED
  BY <1>1, <1>2, <1>3, <1>4, <1>5, <1>6, <1>7 DEF IInv

LEMMA RestartKeepsIInv == ASSUME IInv, Restart PROVE IInv'
<1>1. TypeOK'
  BY ConfirmationAssumption
  DEF IInv, Restart, TypeOK, Meta, Call, Idle, Outcomes, memory, history
<1>2. GuardCovers'
  BY ConfirmationAssumption
  DEF IInv, Restart, TypeOK, GuardCovers, Fresh, MetaSound, memory, history
<1>3. SequenceSound'
  BY ConfirmationAssumption DEF IInv, Restart, TypeOK, SequenceSound, memory, history
<1>4. PreparedSound'
  BY ConfirmationAssumption
  DEF IInv, Restart, TypeOK, PreparedSound, Meta, memory, history
<1>5. MetaSound'
  BY ConfirmationAssumption
  DEF IInv, Restart, TypeOK, MetaSound, Meta, SequenceSound, PreparedSound, memory,
      history
<1>6. CallsSound'
  BY ConfirmationAssumption
  DEF IInv, Restart, TypeOK, CallsSound, Call, Known, Cleared, Confirmed, Fresh, Idle,
      Meta, memory, history
<1>7. RequestsSound'
  BY ConfirmationAssumption
  DEF IInv, Restart, TypeOK, RequestsSound, Cleared, Confirmed, Fresh, PreparedSound,
      Meta, memory, history
<1>. QED
  BY <1>1, <1>2, <1>3, <1>4, <1>5, <1>6, <1>7 DEF IInv

LEMMA UserMessageKeepsIInv ==
  ASSUME IInv, NEW s \in Sessions, NEW ok \in BOOLEAN, UserMessage(s, ok)
  PROVE  IInv'
<1>1. TypeOK'
  BY ConfirmationAssumption
  DEF IInv, UserMessage, cleanupExpired, TypeOK, Meta, Call, Idle, Outcomes, memory,
      history
<1>2. GuardCovers'
  BY ConfirmationAssumption
  DEF IInv, UserMessage, cleanupExpired, TypeOK, GuardCovers, Fresh, MetaSound, memory,
      history
<1>3. SequenceSound'
  BY ConfirmationAssumption
  DEF IInv, UserMessage, cleanupExpired, TypeOK, SequenceSound, memory, history
<1>4. PreparedSound'
  BY ConfirmationAssumption
  DEF IInv, UserMessage, cleanupExpired, TypeOK, PreparedSound, Meta, memory, history
<1>5. MetaSound'
  BY ConfirmationAssumption
  DEF IInv, UserMessage, cleanupExpired, TypeOK, MetaSound, Meta, SequenceSound,
      PreparedSound, memory, history
<1>6. CallsSound'
  <2>1. \A a \in Actions : Cleared(a) => Cleared(a)'
    BY StaysCleared DEF UserMessage, IInv
  <2>. QED
    BY <2>1 DEF IInv, UserMessage, CallsSound, TypeOK, Call, Known, Fresh, Idle
<1>7. RequestsSound'
  <2>1. \A a \in Actions : Cleared(a) => Cleared(a)'
    BY StaysCleared DEF UserMessage, IInv
  <2>. QED
    BY <2>1 DEF IInv, UserMessage, RequestsSound, TypeOK, Call, Known, Fresh, Idle
<1>. QED
  BY <1>1, <1>2, <1>3, <1>4, <1>5, <1>6, <1>7 DEF IInv

LEMMA PrepareKeepsIInv ==
  ASSUME IInv, NEW a \in Actions, NEW s \in Sessions, Prepare(a, s)
  PROVE  IInv'
<1>1. TypeOK'
  BY ConfirmationAssumption
  DEF IInv, Prepare, TypeOK, Meta, Call, Idle, Outcomes, memory, history
<1>2. GuardCovers'
  BY ConfirmationAssumption
  DEF IInv, Prepare, TypeOK, GuardCovers, Fresh, MetaSound, memory, history
<1>3. SequenceSound'
  BY ConfirmationAssumption DEF IInv, Prepare, TypeOK, SequenceSound, memory, history
<1>4. PreparedSound'
  <2>1. prepared'[a] = [session |-> s, at |-> Len(said[s])] /\ Len(said[s]) \in Nat
    BY DEF IInv, Prepare, TypeOK
  <2>2. prepared'[a] # None
    BY <2>1, ConfirmationAssumption
  <2>. QED
    BY <2>1, <2>2 DEF IInv, Prepare, PreparedSound, TypeOK
<1>5. MetaSound'
  BY ConfirmationAssumption
  DEF IInv, Prepare, TypeOK, MetaSound, Meta, SequenceSound, PreparedSound, memory,
      history
<1>6. CallsSound'
  BY ConfirmationAssumption
  DEF IInv, Prepare, TypeOK, CallsSound, Call, Known, Cleared, Confirmed, Fresh, Idle,
      Meta, memory, history
<1>7. RequestsSound'
  BY ConfirmationAssumption
  DEF IInv, Prepare, TypeOK, RequestsSound, Cleared, Confirmed, Fresh, PreparedSound,
      Meta, memory, history
<1>. QED
  BY <1>1, <1>2, <1>3, <1>4, <1>5, <1>6, <1>7 DEF IInv

LEMMA NotedKeepsIInv == ASSUME IInv, NEW a \in Actions, noteToolResult(a) PROVE IInv'
<1>1. TypeOK'
  <2>1. a \in Actions /\ prepared[a] \in Meta
    BY ConfirmationAssumption DEF IInv, noteToolResult, PreparedSound, TypeOK
  <2>2. \A b \in Actions : meta[b] \in Meta \cup {None}
    BY DEF IInv, TypeOK
  <2>3. [session |-> prepared[a].session, at |-> sequence[prepared[a].session]] \in Meta
    BY <2>1 DEF IInv, TypeOK, Meta
  <2>4. meta' \in [Actions -> Meta \cup {None}]
    BY <2>2, <2>3 DEF noteToolResult
  <2>. QED
    BY <2>4 DEF IInv, noteToolResult, TypeOK, history
<1>2. GuardCovers'
  <2>1. prepared[a] \in Meta
    BY ConfirmationAssumption DEF IInv, noteToolResult, PreparedSound, TypeOK
  <2>2. meta'[a] = [session |-> prepared[a].session, at |-> sequence[prepared[a].session]]
    BY DEF noteToolResult
  <2>3. meta'[a] # None
    BY <2>1, <2>2, ConfirmationAssumption DEF IInv, TypeOK, Meta, Idle
  <2>4. \A b \in Actions : b # a /\ b \notin metaAged => meta'[b] = meta[b]
    BY DEF noteToolResult
  <2>. QED
    BY <2>2, <2>3, <2>4 DEF IInv, TypeOK, noteToolResult, GuardCovers, Fresh, history
<1>3. SequenceSound'
  BY ConfirmationAssumption
  DEF IInv, noteToolResult, TypeOK, SequenceSound, memory, history
<1>4. PreparedSound'
  BY ConfirmationAssumption
  DEF IInv, noteToolResult, TypeOK, PreparedSound, Meta, memory, history
<1>5. MetaSound'
  BY ConfirmationAssumption
  DEF IInv, noteToolResult, TypeOK, MetaSound, Meta, SequenceSound, PreparedSound,
      memory, history
<1>6. CallsSound'
  BY ConfirmationAssumption
  DEF IInv, noteToolResult, TypeOK, CallsSound, Call, Known, Cleared, Confirmed, Fresh,
      Idle, Meta, memory, history
<1>7. RequestsSound'
  BY ConfirmationAssumption
  DEF IInv, noteToolResult, TypeOK, RequestsSound, Cleared, Confirmed, Fresh,
      PreparedSound, Meta, memory, history
<1>. QED
  BY <1>1, <1>2, <1>3, <1>4, <1>5, <1>6, <1>7 DEF IInv

LEMMA BeforeConfirmKeepsIInv ==
  ASSUME IInv, NEW c \in Calls, NEW a \in Actions, NEW s \in Sessions,
         BeforeConfirm(c, a, s)
  PROVE  IInv'
<1>1. TypeOK'
  BY ConfirmationAssumption
  DEF IInv, BeforeConfirm, cleanupExpired, canConfirm, TypeOK, Meta, Call, Idle,
      Outcomes, memory, history
<1>2. GuardCovers'
  BY ConfirmationAssumption
  DEF IInv, BeforeConfirm, cleanupExpired, canConfirm, TypeOK, GuardCovers, Fresh,
      MetaSound, memory, history
<1>3. SequenceSound'
  BY ConfirmationAssumption
  DEF IInv, BeforeConfirm, cleanupExpired, canConfirm, TypeOK, SequenceSound, memory,
      history
<1>4. PreparedSound'
  BY ConfirmationAssumption
  DEF IInv, BeforeConfirm, cleanupExpired, canConfirm, TypeOK, PreparedSound, Meta,
      memory, history
<1>5. MetaSound'
  BY ConfirmationAssumption
  DEF IInv, BeforeConfirm, cleanupExpired, canConfirm, TypeOK, MetaSound, Meta,
      SequenceSound, PreparedSound, memory, history
<1>6. CallsSound'
  <2>1. \A b \in Actions : Cleared(b)' <=> Cleared(b)
    BY DEF BeforeConfirm, Cleared, Confirmed, history
  <2>2. a \in Fresh /\ canConfirm(a, s) => Cleared(a)
    BY GatedIsCleared DEF BeforeConfirm
  <2>. QED
    BY <2>1, <2>2
    DEF IInv, BeforeConfirm, TypeOK, CallsSound, Call, Known, Fresh, Idle, history
<1>7. RequestsSound'
  BY ConfirmationAssumption
  DEF IInv, BeforeConfirm, cleanupExpired, canConfirm, TypeOK, RequestsSound, Cleared,
      Confirmed, Fresh, PreparedSound, Meta, memory, history
<1>. QED
  BY <1>1, <1>2, <1>3, <1>4, <1>5, <1>6, <1>7 DEF IInv

LEMMA ExecuteKeepsIInv == ASSUME IInv, NEW c \in Calls, Execute(c) PROVE IInv'
<1>1. TypeOK'
  <2>1. calls[c] \in Call
    BY DEF IInv, TypeOK
  <2>2. /\ [calls[c] EXCEPT !.at = "over"] \in Call
        /\ [calls[c] EXCEPT !.at = "waiting"] \in Call
    BY ConfirmCall DEF IInv, Execute
  <2>3. calls' \in [Calls -> Call]
    BY <2>1, <2>2 DEF IInv, Execute, TypeOK
  <2>4. requests' \in [Actions -> {"none", "sent", "applied", "refused"}]
    BY DEF IInv, Execute, TypeOK
  <2>. QED
    BY <2>3, <2>4 DEF IInv, Execute, TypeOK, Fresh, memory, history
<1>2. GuardCovers'
  BY ConfirmationAssumption
  DEF IInv, Execute, TypeOK, GuardCovers, Fresh, MetaSound, memory, history
<1>3. SequenceSound'
  BY ConfirmationAssumption DEF IInv, Execute, TypeOK, SequenceSound, memory, history
<1>4. PreparedSound'
  BY DEF IInv, Execute, TypeOK, PreparedSound, Fresh, history
<1>5. MetaSound'
  BY ConfirmationAssumption
  DEF IInv, Execute, TypeOK, MetaSound, Meta, SequenceSound, PreparedSound, memory,
      history
<1>6. CallsSound'
  <2>1. calls[c] # Idle
    BY DEF Execute, Idle
  <2>2. Known(calls[c].action) /\ calls[c].action \in Actions
    BY <2>1 DEF IInv, CallsSound, TypeOK, Call
  <2>3. \A a \in Actions : Cleared(a)' <=> Cleared(a)
    BY DEF Execute, Cleared, Confirmed, history
  <2>4. pending' \subseteq Fresh /\ Fresh' \subseteq Fresh /\ Fresh \subseteq pending
        /\ calls[c].action \notin pending'
    BY DEF Execute, Fresh
  <2>5. /\ calls'[c].action = calls[c].action
        /\ calls'[c].at \in {"waiting", "over"}
        /\ calls'[c].at = "waiting" => requests'[calls[c].action] = "sent"
    <3>1. CASE calls[c].action \in Fresh
      <4>1. /\ calls' = [calls EXCEPT ![c] = [calls[c] EXCEPT !.at = "waiting"]]
            /\ requests' = [requests EXCEPT ![calls[c].action] = "sent"]
        BY <3>1 DEF Execute
      <4>. QED
        BY <2>2, <4>1, ConfirmCall DEF Execute, IInv, TypeOK
    <3>2. CASE calls[c].action \notin Fresh
      <4>1. calls' = [calls EXCEPT ![c] = [calls[c] EXCEPT !.at = "over"]]
        BY <3>2 DEF Execute
      <4>. QED
        BY <2>2, <4>1, ConfirmCall DEF Execute, IInv, TypeOK
    <3>. QED
      BY <3>1, <3>2
  <2>6. \A d \in Calls : d # c => calls'[d] = calls[d]
    BY DEF Execute, IInv, TypeOK
  <2>7. \A a \in Actions : /\ requests[a] # "none" => requests'[a] # "none"
                           /\ Known(a)' <=> Known(a)
    BY DEF Execute, IInv, TypeOK, Known, history
  <2>8. \A d \in Calls : calls[d] # Idle => calls[d].action \in Actions
    BY DEF IInv, TypeOK, Call
  <2>9. SUFFICES ASSUME NEW d \in Calls, calls'[d] # Idle,
                        NEW a \in Actions, a = calls'[d].action
                 PROVE  /\ Known(a)'
                        /\ calls'[d].at \in {"waiting", "over"} => a \notin pending'
                        /\ calls'[d].at = "gated" /\ a \in Fresh' => Cleared(a)'
                        /\ calls'[d].at = "waiting" => requests'[a] # "none"
    <3>1. \A d \in Calls : calls'[d] # Idle => calls'[d].action \in Actions
      BY <2>2, <2>5, <2>6, <2>8
    <3>. QED
      BY <3>1 DEF CallsSound, Idle
  <2>10. CASE d = c
    BY <2>2, <2>4, <2>5, <2>7, <2>9, <2>10
  <2>11. CASE d # c
    <3>1. calls'[d] = calls[d] /\ calls[d] # Idle /\ calls[d].action = a
      BY <2>6, <2>9, <2>11
    <3>2. /\ Known(a)
          /\ calls[d].at \in {"waiting", "over"} => a \notin pending
          /\ calls[d].at = "gated" /\ a \in Fresh => Cleared(a)
          /\ calls[d].at = "waiting" => requests[a] # "none"
      BY <3>1 DEF IInv, CallsSound
    <3>. QED
      BY <2>3, <2>4, <2>7, <3>1, <3>2
  <2>. QED
    BY <2>10, <2>11
<1>7. RequestsSound'
  <2>1. calls[c] # Idle
    BY DEF Execute, Idle
  <2>2. calls[c].action \in Fresh => Cleared(calls[c].action)
    BY <2>1 DEF IInv, CallsSound, Execute
  <2>3. \A a \in Actions : Cleared(a)' <=> Cleared(a)
    BY DEF Execute, Cleared, Confirmed, history
  <2>4. calls[c].action \in Fresh => prepared[calls[c].action] # None
    BY <2>1 DEF IInv, CallsSound, Known
  <2>5. /\ \A a \in Actions : a # calls[c].action => requests'[a] = requests[a]
        /\ calls[c].action \notin Fresh => requests' = requests
        /\ calls[c].action \in Actions /\ calls[c].action \in Fresh
             => requests'[calls[c].action] = "sent"
    BY DEF Execute, IInv, TypeOK
  <2>6. pending' = Fresh \ {calls[c].action} /\ Fresh \subseteq pending
    BY DEF Execute, Fresh
  <2>. QED
    BY <2>2, <2>3, <2>4, <2>5, <2>6 DEF IInv, Execute, RequestsSound, history
<1>. QED
  BY <1>1, <1>2, <1>3, <1>4, <1>5, <1>6, <1>7 DEF IInv

LEMMA ApiHandlesKeepsIInv == ASSUME IInv, NEW a \in Actions, ApiHandles(a) PROVE IInv'
<1>1. TypeOK'
  <2>1. requests' \in [Actions -> {"none", "sent", "applied", "refused"}]
    BY DEF IInv, ApiHandles, TypeOK
  <2>2. written' \in [Actions -> Nat]
    <3>1. written \in [Actions -> Nat]
      BY DEF IInv, TypeOK
    <3>2. written' = written \/ written' = [written EXCEPT ![a] = @ + 1]
      BY DEF ApiHandles
    <3>. QED
      BY <3>1, <3>2
  <2>. QED
    BY <2>1, <2>2 DEF IInv, ApiHandles, TypeOK, memory, history
<1>2. GuardCovers'
  BY ConfirmationAssumption
  DEF IInv, ApiHandles, TypeOK, GuardCovers, Fresh, MetaSound, memory, history
<1>3. SequenceSound'
  BY ConfirmationAssumption DEF IInv, ApiHandles, TypeOK, SequenceSound, memory, history
<1>4. PreparedSound'
  BY ConfirmationAssumption
  DEF IInv, ApiHandles, TypeOK, PreparedSound, Meta, memory, history
<1>5. MetaSound'
  BY ConfirmationAssumption
  DEF IInv, ApiHandles, TypeOK, MetaSound, Meta, SequenceSound, PreparedSound, memory,
      history
<1>6. CallsSound'
  BY ConfirmationAssumption
  DEF IInv, ApiHandles, TypeOK, CallsSound, Call, Known, Cleared, Confirmed, Fresh,
      Idle, Meta, memory, history
<1>7. RequestsSound'
  BY ConfirmationAssumption
  DEF IInv, ApiHandles, TypeOK, RequestsSound, Cleared, Confirmed, Fresh, PreparedSound,
      Meta, memory, history
<1>. QED
  BY <1>1, <1>2, <1>3, <1>4, <1>5, <1>6, <1>7 DEF IInv

LEMMA AnswerKeepsIInv == ASSUME IInv, NEW c \in Calls, Answer(c) PROVE IInv'
<1>1. TypeOK'
  <2>1. calls[c] \in Call
    BY DEF IInv, TypeOK
  <2>2. /\ [calls[c] EXCEPT !.at = "over"] \in Call
        /\ [calls[c] EXCEPT !.at = "waiting"] \in Call
    BY ConfirmCall DEF IInv, Answer
  <2>3. calls' \in [Calls -> Call]
    BY <2>1, <2>2 DEF IInv, Answer, TypeOK
  <2>4. told' \in [Actions -> Outcomes]
    BY DEF IInv, Answer, TypeOK, Outcomes
  <2>. QED
    BY <2>3, <2>4 DEF IInv, Answer, TypeOK, memory, history
<1>2. GuardCovers'
  BY ConfirmationAssumption
  DEF IInv, Answer, TypeOK, GuardCovers, Fresh, MetaSound, memory, history
<1>3. SequenceSound'
  BY ConfirmationAssumption DEF IInv, Answer, TypeOK, SequenceSound, memory, history
<1>4. PreparedSound'
  BY ConfirmationAssumption DEF IInv, Answer, TypeOK, PreparedSound, Meta, memory, history
<1>5. MetaSound'
  BY ConfirmationAssumption
  DEF IInv, Answer, TypeOK, MetaSound, Meta, SequenceSound, PreparedSound, memory,
      history
<1>6. CallsSound'
  BY ConfirmationAssumption
  DEF IInv, Answer, TypeOK, CallsSound, Call, Known, Cleared, Confirmed, Fresh, Idle,
      Meta, memory, history
<1>7. RequestsSound'
  BY ConfirmationAssumption
  DEF IInv, Answer, TypeOK, RequestsSound, Cleared, Confirmed, Fresh, PreparedSound,
      Meta, memory, history
<1>. QED
  BY <1>1, <1>2, <1>3, <1>4, <1>5, <1>6, <1>7 DEF IInv

LEMMA ConsumeKeepsIInv == ASSUME IInv, NEW c \in Calls, consumeAction(c) PROVE IInv'
<1>1. TypeOK'
  BY ConfirmationAssumption
  DEF IInv, consumeAction, cleanupExpired, TypeOK, Meta, Call, Idle, Outcomes, memory,
      history
<1>2. GuardCovers'
  <2>1. calls[c] # Idle
    BY DEF consumeAction, Idle
  <2>2. calls[c].action \notin pending
    BY <2>1 DEF IInv, CallsSound, consumeAction
  <2>. QED
    BY <2>2 DEF IInv, consumeAction, cleanupExpired, TypeOK, GuardCovers, Fresh, history
<1>3. SequenceSound'
  BY ConfirmationAssumption
  DEF IInv, consumeAction, cleanupExpired, TypeOK, SequenceSound, memory, history
<1>4. PreparedSound'
  BY ConfirmationAssumption
  DEF IInv, consumeAction, cleanupExpired, TypeOK, PreparedSound, Meta, memory, history
<1>5. MetaSound'
  BY ConfirmationAssumption
  DEF IInv, consumeAction, cleanupExpired, TypeOK, MetaSound, Meta, SequenceSound,
      PreparedSound, memory, history
<1>6. CallsSound'
  BY ConfirmationAssumption
  DEF IInv, consumeAction, cleanupExpired, TypeOK, CallsSound, Call, Known, Cleared,
      Confirmed, Fresh, Idle, Meta, memory, history
<1>7. RequestsSound'
  BY ConfirmationAssumption
  DEF IInv, consumeAction, cleanupExpired, TypeOK, RequestsSound, Cleared, Confirmed,
      Fresh, PreparedSound, Meta, memory, history
<1>. QED
  BY <1>1, <1>2, <1>3, <1>4, <1>5, <1>6, <1>7 DEF IInv

LEMMA BlockedEndsKeepsIInv == ASSUME IInv, NEW c \in Calls, BlockedEnds(c) PROVE IInv'
<1>1. TypeOK'
  <2>1. calls' \in [Calls -> Call]
    BY DEF IInv, BlockedEnds, TypeOK, Call
  <2>2. meta' \in [Actions -> Meta \cup {None}] /\ metaAged' \subseteq Actions
    BY DEF IInv, BlockedEnds, cleanupExpired, TypeOK
  <2>3. calls[c].action \in Actions
    BY DEF IInv, BlockedEnds, TypeOK, Call, Idle
  <2>. QED
    BY <2>1, <2>2, <2>3 DEF IInv, BlockedEnds, TypeOK
<1>2. GuardCovers'
  BY ConfirmationAssumption
  DEF IInv, BlockedEnds, cleanupExpired, TypeOK, GuardCovers, Fresh, MetaSound, memory,
      history
<1>3. SequenceSound'
  BY ConfirmationAssumption
  DEF IInv, BlockedEnds, cleanupExpired, TypeOK, SequenceSound, memory, history
<1>4. PreparedSound'
  <2>1. calls[c] # Idle
    BY DEF BlockedEnds, Idle
  <2>2. prepared[calls[c].action] # None
    BY <2>1 DEF IInv, CallsSound, Known
  <2>. QED
    BY <2>2 DEF IInv, BlockedEnds, PreparedSound
<1>5. MetaSound'
  <2>1. \A b \in Actions : meta'[b] # None => meta'[b] = meta[b]
    BY DEF BlockedEnds, cleanupExpired
  <2>. QED
    BY <2>1 DEF IInv, BlockedEnds, MetaSound
<1>6. CallsSound'
  BY ConfirmationAssumption
  DEF IInv, BlockedEnds, cleanupExpired, TypeOK, CallsSound, Call, Known, Cleared,
      Confirmed, Fresh, Idle, Meta, memory, history
<1>7. RequestsSound'
  BY ConfirmationAssumption
  DEF IInv, BlockedEnds, cleanupExpired, TypeOK, RequestsSound, Cleared, Confirmed,
      Fresh, PreparedSound, Meta, memory, history
<1>. QED
  BY <1>1, <1>2, <1>3, <1>4, <1>5, <1>6, <1>7 DEF IInv

LEMMA CancelKeepsIInv ==
  ASSUME IInv, NEW c \in Calls, NEW a \in Actions, NEW s \in Sessions,
         Cancel(c, a, s)
  PROVE  IInv'
<1>1. TypeOK'
  <2>1. calls' \in [Calls -> Call]
    BY DEF IInv, Cancel, TypeOK, Call
  <2>2. told' \in [Actions -> Outcomes]
    BY DEF IInv, Cancel, TypeOK, Outcomes
  <2>. QED
    BY <2>1, <2>2 DEF IInv, Cancel, TypeOK, Fresh, memory, history
<1>2. GuardCovers'
  BY ConfirmationAssumption
  DEF IInv, Cancel, TypeOK, GuardCovers, Fresh, MetaSound, memory, history
<1>3. SequenceSound'
  BY ConfirmationAssumption DEF IInv, Cancel, TypeOK, SequenceSound, memory, history
<1>4. PreparedSound'
  BY ConfirmationAssumption DEF IInv, Cancel, TypeOK, PreparedSound, Meta, Fresh, history
<1>5. MetaSound'
  BY ConfirmationAssumption
  DEF IInv, Cancel, TypeOK, MetaSound, Meta, SequenceSound, PreparedSound, memory,
      history
<1>6. CallsSound'
  BY ConfirmationAssumption
  DEF IInv, Cancel, TypeOK, CallsSound, Call, Known, Cleared, Confirmed, Fresh, Idle,
      Meta, memory, history
<1>7. RequestsSound'
  BY ConfirmationAssumption
  DEF IInv, Cancel, TypeOK, RequestsSound, Cleared, Confirmed, Fresh, PreparedSound,
      Meta, memory, history
<1>. QED
  BY <1>1, <1>2, <1>3, <1>4, <1>5, <1>6, <1>7 DEF IInv

LEMMA InitIInv == Init => IInv
BY ConfirmationAssumption
DEF Init, IInv, TypeOK, GuardCovers, SequenceSound, PreparedSound, MetaSound, CallsSound,
    RequestsSound, Fresh, Call, Idle, Outcomes

LEMMA NextKeepsIInv == IInv /\ [Next]_vars => IInv'
<1>. SUFFICES ASSUME IInv, [Next]_vars PROVE IInv'
  OBVIOUS
<1>1. CASE \E s \in Sessions, ok \in BOOLEAN : UserMessage(s, ok)
  BY <1>1, UserMessageKeepsIInv
<1>2. CASE \E a \in Actions : ActionStep(a)
  BY <1>2, AgesKeepsIInv, MetaAgesKeepsIInv, NotedKeepsIInv, ApiHandlesKeepsIInv,
     PrepareKeepsIInv DEF ActionStep
<1>3. CASE \E c \in Calls : CallStep(c)
  BY <1>3, BeforeConfirmKeepsIInv, CancelKeepsIInv, ExecuteKeepsIInv, AnswerKeepsIInv,
     ConsumeKeepsIInv, BlockedEndsKeepsIInv DEF CallStep
<1>4. CASE Restart
  BY <1>4, RestartKeepsIInv
<1>5. CASE UNCHANGED vars
  <2>1. TypeOK' /\ GuardCovers' /\ SequenceSound' /\ PreparedSound' /\ MetaSound'
    BY <1>5 DEF vars, memory, history, IInv, TypeOK, GuardCovers, SequenceSound,
                PreparedSound, MetaSound, Fresh
  <2>2. CallsSound' /\ RequestsSound'
    BY <1>5 DEF vars, memory, history, IInv, CallsSound, RequestsSound, Fresh, Known,
                Cleared, Confirmed
  <2>. QED
    BY <2>1, <2>2 DEF IInv
<1>. QED
  BY <1>1, <1>2, <1>3, <1>4, <1>5 DEF Next

-----------------------------------------------------------------------------
(* The confirmation: the theorems                                            *)

\* The inductive invariant holds in every reachable state: the guard knows every
\* action that can still be executed (confirmation-guard.ts:122-124).
THEOREM IInvHolds == Spec => []IInv
BY InitIInv, NextKeepsIInv, PTL DEF Spec

\* Whatever calls, hooks, restarts and hours fall between, what is written was
\* confirmed since it was prepared, and is written once (actions.ts:324-338).
THEOREM WrittenOnlyAsConfirmed == Spec => []WrittenAsConfirmed
<1>1. IInv => WrittenAsConfirmed
  BY DEF IInv, RequestsSound, WrittenAsConfirmed
<1>. QED
  BY <1>1, IInvHolds, PTL

\* "Cancelled" and "done" are true when the user reads them and ever after
\* (actions.ts:671-681).
THEOREM TruthTold == Spec => []ToldTheTruth
<1>1. IInv => ToldTheTruth
  BY DEF IInv, RequestsSound, ToldTheTruth
<1>. QED
  BY <1>1, IInvHolds, PTL

-----------------------------------------------------------------------------
(* The confirmation: the refinement                                          *)

\* Where an action goes in a step: it stays prepared, what is over stays over,
\* what was cleared or written stays so, and only a request that is on its way
\* writes.
Onward(a) ==
  /\ prepared[a] # None =>
       /\ prepared'[a] # None
       /\ StillPossible(a)' => StillPossible(a)
       /\ Cleared(a) => Cleared(a)'
  /\ prepared[a] = None /\ prepared'[a] # None =>
       StillPossible(a)' /\ ~Cleared(a)' /\ written'[a] = 0
  /\ written[a] > 0 => written'[a] > 0
  /\ written'[a] > 0 => written[a] > 0 \/ requests[a] = "sent"

LEMMA AgesOnward ==
  ASSUME IInv, NEW b \in Actions, ActionAges(b), NEW a \in Actions
  PROVE  Onward(a)
BY ConfirmationAssumption
DEF ActionAges, Onward, StillPossible, Cleared, Confirmed, Fresh, memory, history, IInv,
    TypeOK

LEMMA MetaAgesOnward ==
  ASSUME IInv, NEW b \in Actions, MetaAges(b), NEW a \in Actions
  PROVE  Onward(a)
BY ConfirmationAssumption
DEF MetaAges, Onward, StillPossible, Cleared, Confirmed, Fresh, memory, history, IInv,
    TypeOK

LEMMA RestartOnward ==
  ASSUME IInv, Restart, NEW a \in Actions
  PROVE  Onward(a)
BY ConfirmationAssumption
DEF Restart, Onward, StillPossible, Cleared, Confirmed, Fresh, memory, history, IInv,
    TypeOK

LEMMA UserMessageOnward ==
  ASSUME IInv, NEW s \in Sessions, NEW ok \in BOOLEAN, UserMessage(s, ok), NEW a \in Actions
  PROVE  Onward(a)
<1>1. Cleared(a) => Cleared(a)'
  BY StaysCleared DEF IInv
<1>. QED
  BY <1>1 DEF UserMessage, Onward, StillPossible, IInv, TypeOK

LEMMA PrepareOnward ==
  ASSUME IInv, NEW b \in Actions, NEW s \in Sessions, Prepare(b, s), NEW a \in Actions
  PROVE  Onward(a)
BY ConfirmationAssumption
DEF Prepare, PreparedSound, RequestsSound, Meta, Onward, StillPossible, Cleared,
    Confirmed, Fresh, memory, history, IInv, TypeOK

LEMMA NotedOnward ==
  ASSUME IInv, NEW b \in Actions, noteToolResult(b), NEW a \in Actions
  PROVE  Onward(a)
BY ConfirmationAssumption
DEF noteToolResult, Onward, StillPossible, Cleared, Confirmed, Fresh, memory, history,
    IInv, TypeOK

LEMMA BeforeConfirmOnward ==
  ASSUME IInv, NEW c \in Calls, NEW b \in Actions, NEW s \in Sessions,
         BeforeConfirm(c, b, s), NEW a \in Actions
  PROVE  Onward(a)
BY ConfirmationAssumption
DEF BeforeConfirm, Onward, StillPossible, Cleared, Confirmed, Fresh, memory, history,
    IInv, TypeOK

LEMMA ExecuteOnward ==
  ASSUME IInv, NEW c \in Calls, Execute(c), NEW a \in Actions
  PROVE  Onward(a)
BY ConfirmationAssumption
DEF Execute, Onward, StillPossible, Cleared, Confirmed, Fresh, memory, history, IInv,
    TypeOK

LEMMA ApiHandlesOnward ==
  ASSUME IInv, NEW b \in Actions, ApiHandles(b), NEW a \in Actions
  PROVE  Onward(a)
BY ConfirmationAssumption
DEF ApiHandles, Onward, StillPossible, Cleared, Confirmed, Fresh, memory, history, IInv,
    TypeOK

LEMMA AnswerOnward ==
  ASSUME IInv, NEW c \in Calls, Answer(c), NEW a \in Actions
  PROVE  Onward(a)
BY ConfirmationAssumption
DEF Answer, Onward, StillPossible, Cleared, Confirmed, Fresh, memory, history, IInv,
    TypeOK

LEMMA ConsumeOnward ==
  ASSUME IInv, NEW c \in Calls, consumeAction(c), NEW a \in Actions
  PROVE  Onward(a)
BY ConfirmationAssumption
DEF consumeAction, Onward, StillPossible, Cleared, Confirmed, Fresh, memory, history,
    IInv, TypeOK

LEMMA BlockedEndsOnward ==
  ASSUME IInv, NEW c \in Calls, BlockedEnds(c), NEW a \in Actions
  PROVE  Onward(a)
BY ConfirmationAssumption
DEF BlockedEnds, Onward, StillPossible, Cleared, Confirmed, Fresh, memory, history,
    IInv, TypeOK

LEMMA CancelOnward ==
  ASSUME IInv, NEW c \in Calls, NEW b \in Actions, NEW s \in Sessions,
         Cancel(c, b, s), NEW a \in Actions
  PROVE  Onward(a)
BY ConfirmationAssumption
DEF Cancel, Onward, StillPossible, Cleared, Confirmed, Fresh, memory, history, IInv,
    TypeOK

LEMMA NextOnward ==
  ASSUME IInv, [Next]_vars, NEW a \in Actions
  PROVE  Onward(a)
<1>1. CASE \E s \in Sessions, ok \in BOOLEAN : UserMessage(s, ok)
  BY <1>1, UserMessageOnward
<1>2. CASE \E b \in Actions : ActionStep(b)
  BY <1>2, AgesOnward, MetaAgesOnward, NotedOnward, ApiHandlesOnward, PrepareOnward
  DEF ActionStep
<1>3. CASE \E c \in Calls : CallStep(c)
  BY <1>3, BeforeConfirmOnward, CancelOnward, ExecuteOnward, AnswerOnward, ConsumeOnward,
     BlockedEndsOnward DEF CallStep
<1>4. CASE Restart
  BY <1>4, RestartOnward
<1>5. CASE UNCHANGED vars
  BY <1>5 DEF vars, memory, history, Onward, StillPossible, Cleared, Confirmed
<1>. QED
  BY <1>1, <1>2, <1>3, <1>4, <1>5 DEF Next

LEMMA OnwardMoves ==
  ASSUME IInv, NEW a \in Actions, Onward(a)
  PROVE  StateOf(a)' = StateOf(a) \/ <<StateOf(a), StateOf(a)'>> \in Abstract!Moves
<1>1. /\ prepared[a] = None => written[a] = 0
      /\ requests[a] = "sent" => prepared[a] # None /\ Cleared(a)
      /\ written[a] \in Nat
  BY DEF IInv, TypeOK, PreparedSound, RequestsSound
<1>. QED
  BY <1>1 DEF Onward, StateOf, StillPossible, Abstract!Moves

\* The plugin implements the abstract write: proposed, cleared, then written once
\* or given up for good (confirmation.ts:4-8).
THEOREM ImplementsWrite == Spec => ImplementsConfirmedWrite
<1>1. Init => Abstract!Init
  BY DEF Init, Abstract!Init, StateOf
<1>2. IInv /\ [Next]_vars => [Abstract!Next]_([a \in Actions |-> StateOf(a)])
  <2>. SUFFICES ASSUME IInv, [Next]_vars
                PROVE  Abstract!Next
    OBVIOUS
  <2>1. \A a \in Actions :
          StateOf(a)' = StateOf(a) \/ <<StateOf(a), StateOf(a)'>> \in Abstract!Moves
    BY NextOnward, OnwardMoves
  <2>2. \A a \in Actions : StateOf(a)' \in Abstract!States
    BY DEF StateOf, Abstract!States
  <2>. QED
    BY <2>1, <2>2 DEF Abstract!Next
<1>. QED
  BY <1>1, <1>2, IInvHolds, PTL DEF Spec, ImplementsConfirmedWrite, Abstract!Spec

-----------------------------------------------------------------------------
(* The agent run: texts and sequences                                        *)

LEMMA TextIs ==
  ASSUME NEW n \in Nat
  PROVE  /\ Text(n) \in Seq(Nat) /\ Len(Text(n)) = n /\ DOMAIN Text(n) = 1..n
         /\ \A i \in 1..n : Text(n)[i] = i
         /\ Append(Text(n), n + 1) = Text(n + 1)
<1>1. Text(n) \in Seq(Nat) /\ Len(Text(n)) = n /\ DOMAIN Text(n) = 1..n
      /\ \A i \in 1..n : Text(n)[i] = i
  BY DEF Text
<1>2. Append(Text(n), n + 1) = Text(n + 1)
  <2>1. Text(n + 1) \in Seq(Nat) /\ Len(Text(n + 1)) = n + 1
        /\ \A i \in 1..(n + 1) : Text(n + 1)[i] = i
    BY DEF Text
  <2> QED BY <1>1, <2>1
<1> QED BY <1>1, <1>2

LEMMA NoText == Text(0) = <<>>
BY TextIs

LEMMA TailIs ==
  ASSUME NEW S, NEW s \in Seq(S), s # <<>>
  PROVE  /\ Tail(s) \in Seq(S) /\ Head(s) = s[1] /\ 1 \in DOMAIN s
         /\ DOMAIN Tail(s) = 1..(Len(s) - 1) /\ DOMAIN s = 1..Len(s) /\ Len(s) \in Nat \ {0}
         /\ \A i \in DOMAIN Tail(s) : Tail(s)[i] = s[i + 1] /\ i + 1 \in DOMAIN s
         /\ \A i \in DOMAIN s : i # 1 => i - 1 \in DOMAIN Tail(s) /\ Tail(s)[i - 1] = s[i]
  OBVIOUS

LEMMA EventFields ==
  ASSUME NEW w \in Seq(EventType)
  PROVE  \A i \in DOMAIN w :
           /\ w[i] \in EventType /\ w[i].token \in Nat /\ w[i].scoped \in BOOLEAN
           /\ w[i].type \in {"agent", "chat"}
           /\ w[i].stream \in {"assistant", "final", "aborted", "error"}
<1>1. \A i \in DOMAIN w : w[i] \in EventType OBVIOUS
<1>2. \A e \in EventType : e.token \in Nat BY AgentAssumption DEF EventType
<1> QED BY <1>1, <1>2 DEF EventType

\* What the gateway sends goes to the end of the wire, one agent event of it.
LEMMA SendsAppends ==
  ASSUME AgentTypeOK, linked, tokens' \in 0..MaxTokens,
         NEW kind \in {"assistant", "final", "aborted", "error"}, Sends(kind)
  PROVE  \E new \in Seq(EventType) :
           /\ wire' = wire \o new
           /\ \A i \in DOMAIN new :
                /\ new[i].stream = kind /\ new[i].token = tokens'
                /\ new[i].type = "agent" => (new[i].scoped <=> keys # "unscoped")
                /\ new[i].type = "chat" => keys = "both" /\ ~new[i].scoped
           /\ \A i, j \in DOMAIN new : new[i].type = "agent" /\ new[j].type = "agent" => i = j
           /\ \E i \in DOMAIN new : new[i].type = "agent"
<1>1. PICK new \in Events(kind) : wire' = wire \o new BY DEF Sends
<1>2. Agent(kind, TRUE) \in EventType /\ Agent(kind, FALSE) \in EventType
      /\ Chat(kind) \in EventType
  BY DEF Agent, Chat, EventType
<1>3. \A x, y \in EventType :
        /\ <<x>> \in Seq(EventType) /\ DOMAIN <<x>> = {1} /\ <<x>>[1] = x
        /\ <<x, y>> \in Seq(EventType) /\ DOMAIN <<x, y>> = {1, 2}
        /\ <<x, y>>[1] = x /\ <<x, y>>[2] = y
  OBVIOUS
<1>4. \A scoped \in BOOLEAN :
        /\ Agent(kind, scoped).type = "agent" /\ Agent(kind, scoped).scoped = scoped
        /\ Agent(kind, scoped).stream = kind /\ Agent(kind, scoped).token = tokens'
        /\ Chat(kind).type = "chat" /\ Chat(kind).scoped = FALSE
        /\ Chat(kind).stream = kind /\ Chat(kind).token = tokens'
  BY DEF Agent, Chat
<1> HIDE DEF Agent, Chat
<1>5. PICK isScoped \in BOOLEAN :
        /\ isScoped <=> keys # "unscoped"
        /\ \/ new = <<Agent(kind, isScoped)>>
           \/ keys = "both" /\ new = <<Agent(kind, isScoped), Chat(kind)>>
           \/ keys = "both" /\ new = <<Chat(kind), Agent(kind, isScoped)>>
  BY <1>1 DEF Events, AgentTypeOK
<1>6. PICK x, y : x = Agent(kind, isScoped) /\ y = Chat(kind) OBVIOUS
<1>7. /\ x \in EventType /\ x.type = "agent" /\ x.scoped = isScoped
      /\ x.stream = kind /\ x.token = tokens'
      /\ y \in EventType /\ y.type = "chat" /\ y.scoped = FALSE
      /\ y.stream = kind /\ y.token = tokens'
  BY <1>2, <1>4, <1>6
<1>8. /\ new \in Seq(EventType)
      /\ \A i \in DOMAIN new : new[i] = x \/ (new[i] = y /\ keys = "both")
      /\ \A i, j \in DOMAIN new : new[i] = x /\ new[j] = x => i = j
      /\ \E i \in DOMAIN new : new[i] = x
  <2>0. x # y BY <1>7
  <2>1. CASE new = <<x>> BY <1>3, <1>7, <2>1
  <2>2. CASE keys = "both" /\ new = <<x, y>>
    <3>1. new \in Seq(EventType) /\ DOMAIN new = {1, 2} /\ new[1] = x /\ new[2] = y
      BY <1>3, <1>7, <2>2
    <3> QED BY <2>0, <2>2, <3>1
  <2>3. CASE keys = "both" /\ new = <<y, x>>
    <3>1. new \in Seq(EventType) /\ DOMAIN new = {1, 2} /\ new[1] = y /\ new[2] = x
      BY <1>3, <1>7, <2>3
    <3> QED BY <2>0, <2>3, <3>1
  <2> QED BY <1>5, <1>6, <2>1, <2>2, <2>3
<1>9. \A i \in DOMAIN new : new[i].type = "agent" => new[i] = x BY <1>7, <1>8
<1> QED BY <1>1, <1>5, <1>7, <1>8, <1>9

LEMMA RunTextTyped ==
  ASSUME AgentTypeOK
  PROVE  RunText \in Seq(Nat)
BY DEF AgentTypeOK, RunText

-----------------------------------------------------------------------------
(* The agent run: the gateway                                                *)

LEMMA SendsKeeps ==
  ASSUME AgentInv, run = "active", tokens' \in 0..MaxTokens,
         NEW kind \in {"assistant", "final", "aborted", "error"}, Sends(kind),
         tokens' = IF kind = "assistant" THEN tokens + 1 ELSE tokens,
         run' = IF kind = "assistant" THEN "active" ELSE "over",
         UNCHANGED <<style, keys, linked, drops, rpc, runText, collector>>
  PROVE  AgentInv'
<1> USE DEF AgentInv
<1>1. /\ UNCHANGED <<style, keys, linked, drops, rpc, runText, content, sawScoped, outcome>>
      /\ tokens \in Nat /\ tokens' \in Nat /\ tokens <= tokens'
  BY AgentAssumption DEF collector, AgentTypeOK
<1>2. PICK new \in Seq(EventType) :
        /\ wire' = IF linked THEN wire \o new ELSE wire
        /\ linked =>
           /\ \A i \in DOMAIN new :
                /\ new[i].stream = kind /\ new[i].token = tokens'
                /\ new[i].type = "agent" => (new[i].scoped <=> keys # "unscoped")
                /\ new[i].type = "chat" => keys = "both" /\ ~new[i].scoped
           /\ \A i, j \in DOMAIN new : new[i].type = "agent" /\ new[j].type = "agent" => i = j
           /\ \E i \in DOMAIN new : new[i].type = "agent"
  <2>1. CASE linked
    <3>1. PICK new \in Seq(EventType) :
           /\ wire' = wire \o new
           /\ \A i \in DOMAIN new :
                /\ new[i].stream = kind /\ new[i].token = tokens'
                /\ new[i].type = "agent" => (new[i].scoped <=> keys # "unscoped")
                /\ new[i].type = "chat" => keys = "both" /\ ~new[i].scoped
           /\ \A i, j \in DOMAIN new : new[i].type = "agent" /\ new[j].type = "agent" => i = j
           /\ \E i \in DOMAIN new : new[i].type = "agent"
      BY <2>1, SendsAppends
    <3>2. wire' = IF linked THEN wire \o new ELSE wire BY <2>1, <3>1
    <3> QED BY <3>1, <3>2
  <2>2. CASE ~linked
    <3>1. <<>> \in Seq(EventType) OBVIOUS
    <3> QED BY <2>2, <3>1 DEF Sends
  <2> QED BY <2>1, <2>2
<1>3. wire \in Seq(EventType) /\ RunText' = RunText BY <1>1 DEF AgentTypeOK, RunText
<1>4. RunText \in Seq(Nat) /\ content \in Seq(Nat) BY RunTextTyped DEF AgentTypeOK
<1>5. \A i \in DOMAIN wire : wire[i].token \in Nat /\ wire[i].token <= tokens
  BY <1>3, EventFields DEF InOrder
<1>6. WholeWhenResolved' BY <1>1 DEF WholeWhenResolved
<1>7. CASE ~linked
  <2>1. UNCHANGED wire BY <1>2, <1>7
  <2>2. AgentTypeOK' BY <1>1, <2>1 DEF AgentTypeOK
  <2>3. KeysSound' BY <1>1, <2>1 DEF KeysSound
  <2>4. InOrder' BY <1>1, <1>3, <1>4, <1>5, <2>1 DEF InOrder
  <2>5. QuietBefore' BY <1>1, <1>3, <2>1 DEF QuietBefore
  <2>6. WholeUnderWay' BY <1>1, <1>7 DEF WholeUnderWay
  <2> QED BY <1>6, <2>2, <2>3, <2>4, <2>5, <2>6
<1>8. CASE linked
  <2> DEFINE L == Len(wire)
  <2>1. /\ wire' \in Seq(EventType) /\ DOMAIN wire = 1..L /\ L \in Nat
        /\ \A i \in DOMAIN wire : i \in DOMAIN wire' /\ wire'[i] = wire[i]
        /\ \A i \in DOMAIN wire' : i \notin DOMAIN wire =>
             i - L \in DOMAIN new /\ wire'[i] = new[i - L] /\ i > L
        /\ \A i \in DOMAIN new : i + L \in DOMAIN wire' /\ wire'[i + L] = new[i]
        /\ DOMAIN wire' \subseteq Nat
    BY <1>2, <1>3, <1>8
  <2>2. \A i \in DOMAIN wire' : i \notin DOMAIN wire =>
           /\ wire'[i].stream = kind /\ wire'[i].token = tokens'
           /\ wire'[i].type = "agent" => (wire'[i].scoped <=> keys # "unscoped")
           /\ wire'[i].type = "chat" => keys = "both" /\ ~wire'[i].scoped
    BY <1>2, <1>8, <2>1
  <2>3. kind = "assistant" => \E i \in DOMAIN wire' : IsText(wire'[i]) /\ wire'[i].token = tokens'
    <3>1. PICK i \in DOMAIN new : new[i].type = "agent" BY <1>2, <1>8
    <3>2. new[i].stream = kind /\ new[i].token = tokens' BY <1>2, <1>8
    <3>3. i + L \in DOMAIN wire' /\ wire'[i + L] = new[i] BY <2>1
    <3> QED BY <3>1, <3>2, <3>3 DEF IsText
  <2>4. \A i, j \in DOMAIN wire' :
          i \notin DOMAIN wire /\ j \notin DOMAIN wire /\ i < j =>
            ~(IsText(wire'[i]) /\ IsText(wire'[j]))
    <3> SUFFICES ASSUME NEW i \in DOMAIN wire', NEW j \in DOMAIN wire',
                        i \notin DOMAIN wire, j \notin DOMAIN wire, i < j,
                        wire'[i].type = "agent", wire'[j].type = "agent"
                 PROVE  FALSE
      BY DEF IsText
    <3>1. i - L = j - L BY <1>2, <1>8, <2>1
    <3> QED BY <2>1, <3>1
  <2>5. \A i \in DOMAIN wire' : i \notin DOMAIN wire /\ IsText(wire'[i]) =>
          kind = "assistant" /\ tokens' = tokens + 1
    BY <2>2 DEF IsText
  <2>6. \A i \in DOMAIN wire, j \in DOMAIN wire' : j <= i => j \in DOMAIN wire
    BY <2>1
  <2> HIDE DEF L
  <2>7. AgentTypeOK' BY <1>1, <2>1 DEF AgentTypeOK
  <2>8. KeysSound' BY <1>1, <2>1, <2>2 DEF KeysSound
  <2>9. InOrder'
    <3>1. \A i, j \in DOMAIN wire' :
            i < j /\ IsText(wire'[i]) /\ IsText(wire'[j]) => wire'[i].token < wire'[j].token
      <4> SUFFICES ASSUME NEW i \in DOMAIN wire', NEW j \in DOMAIN wire', i < j,
                          IsText(wire'[i]), IsText(wire'[j])
                   PROVE  wire'[i].token < wire'[j].token
        OBVIOUS
      <4>1. i \in DOMAIN wire BY <2>1, <2>4
      <4>2. CASE j \in DOMAIN wire BY <2>1, <4>1, <4>2 DEF InOrder
      <4>3. CASE j \notin DOMAIN wire BY <1>1, <1>5, <2>1, <2>2, <2>5, <4>1, <4>3
      <4> QED BY <4>2, <4>3
    <3>2. \A i \in DOMAIN wire' : wire'[i].token <= tokens'
      BY <1>1, <1>5, <2>1, <2>2
    <3>3. ASSUME keys # "both", NEW text \in {RunText, content}
          PROVE  /\ Increasing(text)
                 /\ \A i \in DOMAIN text :
                      /\ text[i] <= tokens'
                      /\ \A j \in DOMAIN wire' : IsText(wire'[j]) => text[i] < wire'[j].token
      <4>1. /\ Increasing(text) /\ text \in Seq(Nat)
            /\ \A i \in DOMAIN text :
                 /\ text[i] <= tokens
                 /\ \A j \in DOMAIN wire : IsText(wire[j]) => text[i] < wire[j].token
        BY <1>4, <3>3 DEF InOrder
      <4>2. ASSUME NEW i \in DOMAIN text PROVE text[i] \in Nat /\ text[i] <= tokens'
        BY <1>1, <4>1
      <4>3. ASSUME NEW i \in DOMAIN text, NEW j \in DOMAIN wire', IsText(wire'[j])
            PROVE  text[i] < wire'[j].token
        <5>1. CASE j \in DOMAIN wire BY <2>1, <4>1, <4>3, <5>1
        <5>2. CASE j \notin DOMAIN wire BY <1>1, <2>2, <2>5, <4>1, <4>2, <4>3, <5>2
        <5> QED BY <5>1, <5>2
      <4> QED BY <4>1, <4>2, <4>3
    <3> QED BY <1>1, <1>3, <3>1, <3>2, <3>3 DEF InOrder
  <2>10. QuietBefore'
    <3>1. tokens' = 0 => tokens = 0 /\ kind # "assistant" BY <1>1
    <3>2. tokens' = 0 => \A i \in DOMAIN wire' : wire'[i].stream # "assistant"
      BY <2>1, <2>2, <3>1 DEF QuietBefore
    <3>3. outcome # "none" BY DEF QuietBefore
    <3>4. run' # "none" OBVIOUS
    <3> QED BY <1>1, <1>3, <3>1, <3>2, <3>3, <3>4 DEF QuietBefore
  <2>11. WholeUnderWay'
    <3> SUFFICES ASSUME outcome = "waiting", drops = 0
                 PROVE  /\ linked' /\ run' # "none"
                        /\ RunText' = Text(Len(RunText')) /\ Len(RunText') <= tokens'
                        /\ \A n \in (Len(RunText') + 1)..tokens' :
                             \E i \in DOMAIN wire' : IsText(wire'[i]) /\ wire'[i].token = n
                        /\ \A i \in DOMAIN wire' : IsText(wire'[i]) => wire'[i].token > Len(RunText')
                        /\ \A i \in DOMAIN wire' : wire'[i].stream # "assistant" =>
                             run' = "over" /\ \A j \in DOMAIN wire' : j > i => ~IsText(wire'[j])
                        /\ keys' = "both" /\ RunText' # <<>> => sawScoped'
      BY <1>1 DEF WholeUnderWay
    <3>1. PICK n : n = Len(RunText) /\ n \in Nat BY RunTextTyped
    <3>2. /\ linked /\ RunText = Text(n) /\ n <= tokens
          /\ \A m \in (n + 1)..tokens :
               \E i \in DOMAIN wire : IsText(wire[i]) /\ wire[i].token = m
          /\ \A i \in DOMAIN wire : IsText(wire[i]) => wire[i].token > n
          /\ \A i \in DOMAIN wire : wire[i].stream = "assistant"
          /\ keys = "both" /\ RunText # <<>> => sawScoped
      BY <3>1 DEF WholeUnderWay
    <3>3. \A m \in (n + 1)..tokens' :
            \E i \in DOMAIN wire' : IsText(wire'[i]) /\ wire'[i].token = m
      <4> TAKE m \in (n + 1)..tokens'
      <4>1. CASE m = tokens' /\ kind = "assistant" BY <2>3, <4>1
      <4>2. CASE m # tokens' \/ kind # "assistant"
        <5>1. m \in (n + 1)..tokens BY <1>1, <3>1, <4>2
        <5>2. PICK i \in DOMAIN wire : IsText(wire[i]) /\ wire[i].token = m BY <3>2, <5>1
        <5> QED BY <2>1, <5>2
      <4> QED BY <4>1, <4>2
    <3>4. \A i \in DOMAIN wire' : IsText(wire'[i]) => wire'[i].token > n
      <4> SUFFICES ASSUME NEW i \in DOMAIN wire', IsText(wire'[i]) PROVE wire'[i].token > n
        OBVIOUS
      <4>1. CASE i \in DOMAIN wire BY <2>1, <3>2, <4>1
      <4>2. CASE i \notin DOMAIN wire BY <1>1, <2>2, <2>5, <3>1, <3>2, <4>2
      <4> QED BY <4>1, <4>2
    <3>5. ASSUME NEW i \in DOMAIN wire', wire'[i].stream # "assistant"
          PROVE  run' = "over" /\ \A j \in DOMAIN wire' : j > i => ~IsText(wire'[j])
      <4>1. i \notin DOMAIN wire /\ kind # "assistant" BY <2>1, <2>2, <3>2, <3>5
      <4>2. \A j \in DOMAIN wire' : j > i => j \notin DOMAIN wire BY <2>1, <4>1
      <4> QED BY <2>5, <4>1, <4>2
    <3>6. n <= tokens' BY <1>1, <3>1, <3>2
    <3> QED BY <1>1, <1>3, <3>1, <3>2, <3>3, <3>4, <3>5, <3>6
  <2> QED BY <1>6, <2>7, <2>8, <2>9, <2>10, <2>11
<1> QED BY <1>7, <1>8 DEF AgentTypeOK

LEMMA SaysKeeps ==
  ASSUME AgentInv, Says
  PROVE  AgentInv'
<1>1. /\ run = "active" /\ run' = run /\ tokens' = tokens + 1 /\ Sends("assistant")
      /\ UNCHANGED <<style, keys, linked, drops, rpc, runText, collector>>
  BY DEF Says
<1>2. tokens' \in 0..MaxTokens BY AgentAssumption DEF Says, AgentInv, AgentTypeOK
<1> QED BY <1>1, <1>2, SendsKeeps

LEMMA EndsKeeps ==
  ASSUME AgentInv, NEW kind \in {"final", "aborted", "error"}, Ends(kind)
  PROVE  AgentInv'
<1>1. /\ run = "active" /\ run' = "over" /\ tokens' = tokens /\ Sends(kind)
      /\ UNCHANGED <<style, keys, linked, drops, rpc, runText, collector>>
  BY DEF Ends
<1>2. tokens' \in 0..MaxTokens BY <1>1 DEF AgentInv, AgentTypeOK
<1> QED BY <1>1, <1>2, SendsKeeps

-----------------------------------------------------------------------------
(* The agent run: the collector and the connection                           *)

LEMMA AskKeeps ==
  ASSUME AgentInv, Ask
  PROVE  AgentInv'
<1> USE DEF AgentInv
<1>1. /\ outcome = "none" /\ run = "none" /\ wire = <<>> /\ RunText = <<>>
      /\ content = <<>> /\ tokens = 0 /\ ~sawScoped
      /\ UNCHANGED <<style, keys, tokens, linked, drops, wire, runText, content, sawScoped>>
      /\ IF linked THEN run' = "active" /\ rpc' = "pending" /\ outcome' = "waiting"
         ELSE outcome' = "rejected" /\ UNCHANGED <<run, rpc>>
  BY DEF Ask, QuietBefore, RunText
<1>2. RunText' = RunText BY <1>1 DEF RunText
<1>3. AgentTypeOK' BY <1>1 DEF AgentTypeOK
<1>4. KeysSound' BY <1>1 DEF KeysSound
<1>5. InOrder' BY <1>1, <1>2 DEF InOrder
<1>6. QuietBefore' BY <1>1, <1>2 DEF QuietBefore
<1>7. WholeUnderWay'
  <2> SUFFICES ASSUME outcome' = "waiting" PROVE WholeUnderWay' BY DEF WholeUnderWay
  <2>1. linked' /\ run' # "none" /\ wire' = <<>> /\ tokens' = 0 BY <1>1
  <2>2. RunText' = <<>> /\ Text(0) = <<>> /\ Len(<<>>) = 0 BY <1>1, <1>2, NoText
  <2>3. \A n \in (0 + 1)..0 : FALSE OBVIOUS
  <2> QED BY <2>1, <2>2, <2>3 DEF WholeUnderWay
<1>8. WholeWhenResolved' BY <1>1 DEF WholeWhenResolved
<1> QED BY <1>3, <1>4, <1>5, <1>6, <1>7, <1>8

\* What leaves the texts alone keeps the invariant, if nobody begins to wait
\* for them and nobody is content with them.
LEMMA TextsUntouched ==
  ASSUME AgentInv, AgentTypeOK',
         UNCHANGED <<style, keys, tokens, run, wire, runText, content, sawScoped>>,
         outcome' \in {outcome, "rejected"}, outcome = "none" => outcome' = "none",
         drops' = drops, linked => linked'
  PROVE  AgentInv'
<1> USE DEF AgentInv
<1>1. RunText' = RunText BY DEF RunText
<1>2. KeysSound' BY DEF KeysSound
<1>3. InOrder' BY <1>1 DEF InOrder
<1>4. QuietBefore' BY <1>1 DEF QuietBefore
<1>5. WholeUnderWay' BY <1>1 DEF WholeUnderWay
<1>6. WholeWhenResolved' BY DEF WholeWhenResolved
<1> QED BY <1>2, <1>3, <1>4, <1>5, <1>6

LEMMA AnsweredKeeps ==
  ASSUME AgentInv, NEW ok \in BOOLEAN, Answered(ok)
  PROVE  AgentInv'
<1>1. /\ UNCHANGED <<style, keys, tokens, run, wire, runText, content, sawScoped, linked, drops>>
      /\ rpc' = "answered" /\ (outcome' = outcome \/ (outcome = "waiting" /\ outcome' = "rejected"))
  BY DEF Answered, gateway, Settles
<1>2. AgentTypeOK' BY <1>1 DEF AgentInv, AgentTypeOK
<1> QED BY <1>1, <1>2, TextsUntouched

LEMMA TimeoutKeeps ==
  ASSUME AgentInv, Timeout
  PROVE  AgentInv'
<1>1. /\ UNCHANGED <<style, keys, tokens, run, wire, runText, content, sawScoped, linked, drops, rpc>>
      /\ outcome = "waiting" /\ outcome' = "rejected"
  BY DEF Timeout, gateway
<1>2. AgentTypeOK' BY <1>1 DEF AgentInv, AgentTypeOK
<1> QED BY <1>1, <1>2, TextsUntouched

LEMMA ReconnectKeeps ==
  ASSUME AgentInv, Reconnect
  PROVE  AgentInv'
<1>1. /\ UNCHANGED <<style, keys, tokens, run, wire, runText, content, sawScoped, drops, rpc, outcome>>
      /\ linked'
  BY DEF Reconnect, gateway, collector
<1>2. AgentTypeOK' BY <1>1 DEF AgentInv, AgentTypeOK, Reconnect
<1> QED BY <1>1, <1>2, TextsUntouched

LEMMA DropKeeps ==
  ASSUME AgentInv, Drop
  PROVE  AgentInv'
<1> USE DEF AgentInv
<1>1. /\ UNCHANGED <<style, keys, tokens, run, content, sawScoped>>
      /\ wire' = <<>> /\ runText' = NoRun /\ linked' = FALSE /\ drops' = drops + 1
      /\ rpc' \in {rpc, "answered"}
      /\ outcome' = outcome \/ (outcome = "waiting" /\ outcome' = "rejected")
  BY DEF Drop, gateway, Settles
<1>2. RunText' = <<>> BY <1>1 DEF RunText
<1>3. AgentTypeOK'
  <2>1. <<>> \in Seq(EventType) OBVIOUS
  <2>2. drops' \in Nat BY <1>1 DEF AgentTypeOK
  <2>3. rpc' \in {"none", "pending", "answered"} BY <1>1 DEF AgentTypeOK
  <2>4. outcome' \in {"none", "waiting", "resolved", "rejected"} BY <1>1 DEF AgentTypeOK
  <2> QED BY <1>1, <2>1, <2>2, <2>3, <2>4 DEF AgentTypeOK
<1>4. KeysSound' BY <1>1 DEF KeysSound
<1>5. InOrder'
  <2>1. Increasing(<<>>) BY DEF Increasing
  <2>2. keys # "both" => Increasing(content) /\ \A i \in DOMAIN content : content[i] <= tokens
    BY DEF InOrder
  <2> QED BY <1>1, <1>2, <2>1, <2>2 DEF InOrder
<1>6. QuietBefore' BY <1>1, <1>2 DEF QuietBefore
<1>7. drops' # 0 BY <1>1 DEF AgentTypeOK
<1> QED BY <1>3, <1>4, <1>5, <1>6, <1>7 DEF WholeUnderWay, WholeWhenResolved

-----------------------------------------------------------------------------
(* The agent run: events that arrive                                         *)

LEMMA AppendIncreases ==
  ASSUME NEW text \in Seq(Nat), Increasing(text), NEW n \in Nat,
         \A i \in DOMAIN text : text[i] < n
  PROVE  /\ Append(text, n) \in Seq(Nat) /\ Append(text, n) = text \o <<n>>
         /\ Increasing(Append(text, n))
         /\ \A i \in DOMAIN Append(text, n) : Append(text, n)[i] <= n
<1> DEFINE new == Append(text, n)
           L == Len(text)
<1>1. /\ new \in Seq(Nat) /\ new = text \o <<n>> /\ L \in Nat
      /\ DOMAIN text = 1..L /\ DOMAIN new = 1..(L + 1)
      /\ \A i \in 1..L : new[i] = text[i] /\ text[i] \in Nat
      /\ new[L + 1] = n
  OBVIOUS
<1> HIDE DEF new, L
<1>2. Increasing(new) BY <1>1 DEF Increasing
<1>3. \A i \in DOMAIN new : new[i] <= n BY <1>1
<1> QED BY <1>1, <1>2, <1>3 DEF new

LEMMA TextIncreases ==
  ASSUME NEW n \in Nat
  PROVE  Increasing(Text(n)) /\ \A i \in DOMAIN Text(n) : Text(n)[i] <= n
<1>1. DOMAIN Text(n) = 1..n /\ \A i \in 1..n : Text(n)[i] = i BY TextIs
<1> QED BY <1>1 DEF Increasing

\* One event less is under way.
LEMMA WireMoves ==
  ASSUME AgentInv, wire # <<>>, wire' = Tail(wire),
         UNCHANGED <<style, keys, run, tokens, linked, drops, rpc>>
  PROVE  /\ wire' \in Seq(EventType) /\ 1 \in DOMAIN wire /\ Head(wire) = wire[1]
         /\ DOMAIN wire \subseteq Nat /\ DOMAIN wire' \subseteq Nat
         /\ \A i \in DOMAIN wire' : wire'[i] = wire[i + 1] /\ i + 1 \in DOMAIN wire
         /\ \A i \in DOMAIN wire : i # 1 =>
              i - 1 \in DOMAIN wire' /\ wire'[i - 1] = wire[i] /\ i > 1
         /\ \A i \in DOMAIN wire' : wire'[i].token \in Nat /\ wire'[i].token <= tokens'
         /\ \A i \in DOMAIN wire' : IsText(wire[1]) /\ IsText(wire'[i]) =>
              wire[1].token < wire'[i].token
         /\ \A i, j \in DOMAIN wire' :
              i < j /\ IsText(wire'[i]) /\ IsText(wire'[j]) => wire'[i].token < wire'[j].token
         /\ \A i \in DOMAIN wire' :
              /\ wire'[i].type = "agent" => (wire'[i].scoped <=> keys' # "unscoped")
              /\ wire'[i].type = "chat" => keys' = "both" /\ ~wire'[i].scoped
         /\ wire[1].token \in 0..MaxTokens /\ wire[1].token \in Nat /\ wire[1].token <= tokens
         /\ tokens \in Nat
<1> USE DEF AgentInv
<1>1. wire \in Seq(EventType) /\ tokens \in Nat BY AgentAssumption DEF AgentTypeOK
<1>2. /\ wire' \in Seq(EventType) /\ Head(wire) = wire[1] /\ 1 \in DOMAIN wire
      /\ DOMAIN wire' = 1..(Len(wire) - 1) /\ DOMAIN wire = 1..Len(wire) /\ Len(wire) \in Nat \ {0}
      /\ \A i \in DOMAIN wire' : wire'[i] = wire[i + 1] /\ i + 1 \in DOMAIN wire
      /\ \A i \in DOMAIN wire : i # 1 => i - 1 \in DOMAIN wire' /\ wire'[i - 1] = wire[i]
  BY <1>1, TailIs
<1>3. \A i \in DOMAIN wire : wire[i].token \in Nat /\ wire[i].token <= tokens
  BY <1>1, EventFields DEF InOrder
<1>4. /\ \A i \in DOMAIN wire' : i \in Nat /\ i + 1 > 1
      /\ \A i \in DOMAIN wire : i \in Nat /\ (i # 1 => i > 1)
  BY <1>2
<1>5. \A i, j \in DOMAIN wire :
        i < j /\ IsText(wire[i]) /\ IsText(wire[j]) => wire[i].token < wire[j].token
  BY DEF InOrder
<1>6. \A i \in DOMAIN wire' : IsText(wire[1]) /\ IsText(wire'[i]) =>
        wire[1].token < wire'[i].token
  BY <1>2, <1>4, <1>5
<1>7. \A i, j \in DOMAIN wire' :
        i < j /\ IsText(wire'[i]) /\ IsText(wire'[j]) => wire'[i].token < wire'[j].token
  <2> TAKE i, j \in DOMAIN wire'
  <2>1. i < j => i + 1 < j + 1 BY <1>4
  <2> QED BY <1>2, <1>5, <2>1
<1>8. \A i \in DOMAIN wire' :
        /\ wire'[i].type = "agent" => (wire'[i].scoped <=> keys' # "unscoped")
        /\ wire'[i].type = "chat" => keys' = "both" /\ ~wire'[i].scoped
  BY <1>2 DEF KeysSound
<1>9. wire[1].token \in 0..MaxTokens /\ wire[1].token \in Nat /\ wire[1].token <= tokens
  <2>1. wire[1] \in EventType BY <1>1, <1>2, EventFields
  <2> QED BY <1>2, <1>3, <2>1 DEF EventType
<1>10. \A i \in DOMAIN wire' : wire'[i].token \in Nat /\ wire'[i].token <= tokens'
  BY <1>2, <1>3
<1> QED BY <1>1, <1>2, <1>4, <1>6, <1>7, <1>8, <1>9, <1>10

\* The last event under way: the client has heard all of the text.
LEMMA HeardAll ==
  ASSUME AgentInv, wire # <<>>, outcome = "waiting", drops = 0, wire[1].stream # "assistant"
  PROVE  run = "over" /\ RunText = Text(tokens) /\ (RunText = <<>> => content = Text(tokens))
<1> USE DEF AgentInv
<1>1. PICK n : n = Len(RunText) /\ n \in Nat BY RunTextTyped
<1>2. /\ wire \in Seq(EventType) /\ 1 \in DOMAIN wire /\ tokens \in Nat
      /\ \A i \in DOMAIN wire : i = 1 \/ i > 1
  BY AgentAssumption DEF AgentTypeOK
<1>3. /\ RunText = Text(n) /\ n <= tokens
      /\ \A m \in (n + 1)..tokens :
           \E i \in DOMAIN wire : IsText(wire[i]) /\ wire[i].token = m
      /\ run = "over" /\ \A i \in DOMAIN wire : i > 1 => ~IsText(wire[i])
  BY <1>1, <1>2 DEF WholeUnderWay
<1>4. \A i \in DOMAIN wire : ~IsText(wire[i]) BY <1>2, <1>3 DEF IsText
<1>5. n = tokens
  <2>1. CASE n < tokens
    <3>1. tokens \in (n + 1)..tokens BY <1>1, <1>2, <2>1
    <3> QED BY <1>3, <1>4, <3>1
  <2> QED BY <1>1, <1>2, <1>3, <2>1
<1>6. RunText = <<>> => tokens = 0 BY <1>1, <1>5
<1>7. tokens = 0 => content = Text(tokens) BY NoText DEF QuietBefore
<1> QED BY <1>3, <1>5, <1>6, <1>7

\* The next text under way is the one after those the client has.
LEMMA NextToken ==
  ASSUME AgentInv, wire # <<>>, wire' = Tail(wire),
         UNCHANGED <<style, keys, run, tokens, linked, drops, rpc>>,
         outcome = "waiting", drops = 0, IsText(wire[1])
  PROVE  wire[1].token = Len(RunText) + 1
<1> USE DEF AgentInv
<1> DEFINE e == wire[1]
<1>1. PICK n : n = Len(RunText) /\ n \in Nat BY RunTextTyped
<1>2. /\ \A m \in (n + 1)..tokens :
           \E i \in DOMAIN wire : IsText(wire[i]) /\ wire[i].token = m
      /\ \A i \in DOMAIN wire : IsText(wire[i]) => wire[i].token > n
  BY <1>1 DEF WholeUnderWay
<1>3. /\ 1 \in DOMAIN wire
      /\ \A i \in DOMAIN wire : i # 1 => i - 1 \in DOMAIN wire' /\ wire'[i - 1] = wire[i]
      /\ \A i \in DOMAIN wire' : IsText(wire'[i]) => e.token < wire'[i].token
      /\ e.token \in Nat /\ e.token <= tokens /\ tokens \in Nat
  BY WireMoves
<1> HIDE DEF e
<1>4. e.token > n BY <1>2, <1>3 DEF e
<1>5. n + 1 \in (n + 1)..tokens BY <1>1, <1>3, <1>4
<1>6. PICK i \in DOMAIN wire : IsText(wire[i]) /\ wire[i].token = n + 1 BY <1>2, <1>5
<1>7. CASE i = 1 BY <1>1, <1>6, <1>7
<1>8. CASE i # 1
  <2>1. i - 1 \in DOMAIN wire' /\ wire'[i - 1] = wire[i] BY <1>3, <1>8
  <2>2. e.token < n + 1 BY <1>3, <1>6, <2>1
  <2> QED BY <1>1, <1>3, <1>4, <2>2
<1> QED BY <1>7, <1>8

\* Who waits goes on to wait for the texts that are left.
LEMMA UnderWayMoves ==
  ASSUME AgentInv, wire # <<>>, wire' = Tail(wire),
         UNCHANGED <<style, keys, run, tokens, linked, drops, rpc>>,
         outcome = "waiting", drops = 0,
         RunText' = RunText \/ (IsText(wire[1]) /\ RunText' = Text(wire[1].token)),
         RunText' = RunText => ~IsText(wire[1]),
         keys = "both" /\ RunText' # <<>> => sawScoped'
  PROVE  WholeUnderWay'
<1> USE DEF AgentInv
<1> DEFINE e == wire[1]
<1>1. PICK n : n = Len(RunText) /\ n \in Nat BY RunTextTyped
<1>2. /\ linked /\ run # "none" /\ RunText = Text(n) /\ n <= tokens
      /\ \A m \in (n + 1)..tokens :
           \E i \in DOMAIN wire : IsText(wire[i]) /\ wire[i].token = m
      /\ \A i \in DOMAIN wire : IsText(wire[i]) => wire[i].token > n
      /\ \A i \in DOMAIN wire : wire[i].stream # "assistant" =>
           run = "over" /\ \A j \in DOMAIN wire : j > i => ~IsText(wire[j])
  BY <1>1 DEF WholeUnderWay
<1>3. /\ 1 \in DOMAIN wire /\ DOMAIN wire \subseteq Nat /\ DOMAIN wire' \subseteq Nat
      /\ \A i \in DOMAIN wire' : wire'[i] = wire[i + 1] /\ i + 1 \in DOMAIN wire
      /\ \A i \in DOMAIN wire : i # 1 =>
           i - 1 \in DOMAIN wire' /\ wire'[i - 1] = wire[i] /\ i > 1
      /\ \A i \in DOMAIN wire' : IsText(e) /\ IsText(wire'[i]) => e.token < wire'[i].token
      /\ e.token \in Nat /\ e.token <= tokens /\ tokens \in Nat
      /\ \A i \in DOMAIN wire' : wire'[i].token \in Nat
  BY WireMoves
<1> HIDE DEF e
<1>4. ASSUME NEW i \in DOMAIN wire', wire'[i].stream # "assistant"
      PROVE  run' = "over" /\ \A j \in DOMAIN wire' : j > i => ~IsText(wire'[j])
  <2>1. run = "over" /\ \A j \in DOMAIN wire : j > i + 1 => ~IsText(wire[j])
    BY <1>2, <1>3, <1>4
  <2>2. \A j \in DOMAIN wire' : j > i => j + 1 > i + 1 BY <1>3
  <2> QED BY <1>3, <2>1, <2>2
<1>5. CASE ~IsText(e)
  <2>1. RunText' = RunText BY <1>5 DEF e
  <2>2. \A m \in (n + 1)..tokens :
          \E i \in DOMAIN wire' : IsText(wire'[i]) /\ wire'[i].token = m
    <3> TAKE m \in (n + 1)..tokens
    <3>1. PICK i \in DOMAIN wire : IsText(wire[i]) /\ wire[i].token = m BY <1>2
    <3>2. i # 1 BY <1>5, <3>1 DEF e
    <3> QED BY <1>3, <3>1, <3>2
  <2>3. \A i \in DOMAIN wire' : IsText(wire'[i]) => wire'[i].token > n BY <1>2, <1>3
  <2> QED BY <1>1, <1>2, <1>4, <2>1, <2>2, <2>3 DEF WholeUnderWay
<1>6. CASE IsText(e)
  <2>1. e.token = n + 1 BY <1>1, <1>6, NextToken DEF e
  <2>2. RunText' = Text(n + 1) BY <1>6, <2>1 DEF e
  <2>3. Len(RunText') = n + 1 /\ n + 1 <= tokens BY <1>1, <1>3, <2>1, <2>2, TextIs
  <2>4. \A m \in (n + 1 + 1)..tokens :
          \E i \in DOMAIN wire' : IsText(wire'[i]) /\ wire'[i].token = m
    <3> TAKE m \in (n + 1 + 1)..tokens
    <3>1. m \in (n + 1)..tokens /\ m # n + 1 BY <1>1
    <3>2. PICK i \in DOMAIN wire : IsText(wire[i]) /\ wire[i].token = m BY <1>2, <3>1
    <3>3. i # 1 BY <2>1, <3>1, <3>2 DEF e
    <3> QED BY <1>3, <3>2, <3>3
  <2>5. \A i \in DOMAIN wire' : IsText(wire'[i]) => wire'[i].token > n + 1
    BY <1>1, <1>3, <1>6, <2>1
  <2> QED BY <1>2, <1>4, <2>2, <2>3, <2>4, <2>5 DEF WholeUnderWay
<1> QED BY <1>5, <1>6

LEMMA ChatKeeps ==
  ASSUME AgentInv, handleEvent, wire[1].type = "chat"
  PROVE  AgentInv'
<1> USE DEF AgentInv
<1> DEFINE e == wire[1]
<1>1. /\ wire # <<>> /\ wire' = Tail(wire) /\ chatEvent(e)
      /\ UNCHANGED <<style, keys, run, tokens, linked, drops, rpc>>
  <2>1. wire # <<>> BY DEF handleEvent
  <2>2. Head(wire) = e BY <2>1, TailIs DEF AgentTypeOK
  <2> HIDE DEF e
  <2> QED BY <2>2 DEF handleEvent, gateway, e
<1>2. /\ keys = "both" /\ ~e.scoped /\ e.stream \in {"assistant", "final", "aborted", "error"}
      /\ 1 \in DOMAIN wire
  BY <1>1, WireMoves, EventFields DEF KeysSound, AgentTypeOK
<1>3. /\ runText' = runText /\ RunText' = RunText /\ sawScoped' = sawScoped
      /\ content' \in Seq(Nat) /\ (e.stream # "assistant" => content' = content)
      /\ outcome' = outcome \/ (outcome = "waiting" /\ outcome' = "rejected")
           \/ (/\ outcome = "waiting" /\ outcome' = "resolved"
               /\ e.stream = "final" /\ ~sawScoped)
  <2>1. content \in Seq(Nat) /\ <<e.token>> \in Seq(Nat) /\ sawScoped \in BOOLEAN
    BY <1>1, WireMoves DEF AgentTypeOK
  <2>2. Joined(<<e.token>>, FALSE, "delta") \in Seq(Nat) BY <2>1 DEF Joined
  <2>3. Joined(<<>>, FALSE, e.stream) = content BY DEF Joined
  <2>4. runText' = runText /\ RunText' = RunText BY <1>1 DEF chatEvent, RunText
  <2>5. CASE e.stream = "assistant"
    <3>1. Hears(e.scoped, "delta", <<e.token>>, FALSE) BY <1>1, <2>5 DEF chatEvent
    <3> QED BY <1>2, <2>1, <2>2, <2>4, <2>5, <3>1 DEF Hears
  <2>6. CASE e.stream # "assistant"
    <3>1. Hears(e.scoped, e.stream, <<>>, FALSE) BY <1>1, <2>6 DEF chatEvent
    <3> QED BY <1>2, <2>1, <2>3, <2>4, <2>6, <3>1 DEF Hears
  <2> QED BY <2>5, <2>6
<1>4. AgentTypeOK'
  <2>1. wire' \in Seq(EventType) BY <1>1, WireMoves
  <2>2. outcome' \in {"none", "waiting", "resolved", "rejected"} BY <1>3 DEF AgentTypeOK
  <2> QED BY <1>1, <1>3, <2>1, <2>2 DEF AgentTypeOK
<1>5. KeysSound' BY <1>1, <1>2, <1>3, WireMoves DEF KeysSound
<1>6. InOrder' BY <1>1, <1>2, WireMoves DEF InOrder
<1>7. QuietBefore'
  <2>1. outcome' # "none" BY <1>1, <1>3 DEF QuietBefore
  <2>2. ASSUME tokens' = 0
        PROVE  /\ content' = <<>> /\ RunText' = <<>>
               /\ \A i \in DOMAIN wire' : wire'[i].stream # "assistant"
    <3>1. tokens = 0 BY <1>1, <2>2
    <3>2. content = <<>> /\ RunText = <<>> /\ \A i \in DOMAIN wire : wire[i].stream # "assistant"
      BY <3>1 DEF QuietBefore
    <3>3. e.stream # "assistant" BY <1>2, <3>2
    <3> QED BY <1>1, <1>3, <3>2, <3>3, WireMoves
  <2>3. run' = "none" => tokens' = 0 BY <1>1 DEF QuietBefore
  <2> QED BY <2>1, <2>2, <2>3 DEF QuietBefore
<1>8. WholeUnderWay'
  <2> SUFFICES ASSUME outcome' = "waiting", drops' = 0 PROVE WholeUnderWay' BY DEF WholeUnderWay
  <2>1. outcome = "waiting" /\ drops = 0 BY <1>1, <1>3
  <2>2. ~IsText(wire[1]) BY DEF IsText
  <2>3. keys = "both" /\ RunText' # <<>> => sawScoped' BY <1>3, <2>1 DEF WholeUnderWay
  <2>4. RunText' = RunText BY <1>3
  <2>5. wire # <<>> /\ wire' = Tail(wire) BY <1>1
  <2>6. UNCHANGED <<style, keys, run, tokens, linked, drops, rpc>> BY <1>1
  <2> QED BY <2>1, <2>2, <2>3, <2>4, <2>5, <2>6, UnderWayMoves
<1>9. WholeWhenResolved'
  <2> SUFFICES ASSUME outcome' = "resolved", drops' = 0 PROVE run' = "over" /\ content' = Text(tokens')
    BY DEF WholeWhenResolved
  <2>1. CASE outcome = "resolved" /\ e.stream # "assistant"
    BY <1>1, <1>3, <2>1 DEF WholeWhenResolved
  <2>2. CASE outcome = "resolved" /\ e.stream = "assistant"
    <3>1. UNCHANGED content BY <1>1, <2>2 DEF chatEvent, Hears
    <3> QED BY <1>1, <2>2, <3>1 DEF WholeWhenResolved
  <2>3. CASE outcome # "resolved"
    <3>1. outcome = "waiting" /\ drops = 0 /\ e.stream = "final" /\ ~sawScoped
      BY <1>1, <1>3, <2>3
    <3>2. run = "over" /\ RunText = Text(tokens) /\ (RunText = <<>> => content = Text(tokens))
      BY <1>1, <3>1, HeardAll
    <3>3. RunText = <<>> BY <1>2, <3>1 DEF WholeUnderWay
    <3> QED BY <1>1, <1>3, <3>1, <3>2, <3>3
  <2> QED BY <2>1, <2>2, <2>3
<1> QED BY <1>4, <1>5, <1>6, <1>7, <1>8, <1>9

LEMMA TextKeeps ==
  ASSUME AgentInv, handleEvent, IsText(wire[1])
  PROVE  AgentInv'
<1> USE DEF AgentInv
<1> DEFINE e == wire[1]
           full == Text(e.token)
<1>1. /\ wire # <<>> /\ wire' = Tail(wire) /\ assistantEvent(e)
      /\ UNCHANGED <<style, keys, run, tokens, linked, drops, rpc>>
  <2>1. wire # <<>> BY DEF handleEvent
  <2>2. Head(wire) = e BY <2>1, TailIs DEF AgentTypeOK
  <2> HIDE DEF e
  <2> QED BY <2>2 DEF handleEvent, gateway, IsText, e
<1>2. /\ 1 \in DOMAIN wire /\ e.scoped \in BOOLEAN /\ (e.scoped <=> keys # "unscoped")
      /\ e.token \in Nat
  BY <1>1, WireMoves, EventFields DEF KeysSound, AgentTypeOK, IsText
<1>3. RunText \in Seq(Nat) /\ content \in Seq(Nat) /\ sawScoped \in BOOLEAN
  BY RunTextTyped DEF AgentTypeOK
<1>4. /\ full \in Seq(Nat) /\ Append(RunText, e.token) \in Seq(Nat)
      /\ content \o <<e.token>> = Append(content, e.token)
      /\ Append(content, e.token) \in Seq(Nat) /\ <<e.token>> # <<>>
  <2>1. full \in Seq(Nat) BY <1>2, TextIs
  <2> HIDE DEF full
  <2> QED BY <1>2, <1>3, <2>1
<1>5. /\ runText' \in Seq(Nat) /\ RunText' = runText'
      /\ RunText' \in {RunText, full, Append(RunText, e.token)}
      /\ style = "snapshots" => RunText' = full
      /\ style = "deltas" => RunText' = Append(RunText, e.token)
  <2>1. runText' = IF style = "snapshots" THEN full ELSE Append(RunText, e.token)
    BY <1>1 DEF assistantEvent, AgentTypeOK
  <2>2. runText' # NoRun BY <1>4, <2>1, AgentAssumption
  <2>3. RunText' = runText' BY <2>2 DEF RunText
  <2> QED BY <1>4, <2>1, <2>3 DEF AgentTypeOK
<1>6. /\ outcome' = outcome
      /\ content' \in {content, full, Append(content, e.token)}
      /\ sawScoped' = sawScoped \/ sawScoped' = (sawScoped \/ (outcome = "waiting" /\ e.scoped))
      /\ full # RunText => sawScoped' = (sawScoped \/ (outcome = "waiting" /\ e.scoped))
      /\ content' # content => outcome = "waiting"
  <2>1. Joined(full, TRUE, "delta") \in {content, full}
        /\ Joined(<<e.token>>, FALSE, "delta") = Append(content, e.token)
    BY <1>4 DEF Joined
  <2>2. CASE style = "snapshots" /\ full = RunText
    BY <1>1, <2>2 DEF assistantEvent, collector
  <2>3. CASE style = "snapshots" /\ full # RunText
    <3>1. Hears(e.scoped, "delta", full, TRUE) BY <1>1, <2>3 DEF assistantEvent
    <3> HIDE DEF full
    <3> QED BY <2>1, <3>1 DEF Hears
  <2>4. CASE style # "snapshots"
    <3>1. Hears(e.scoped, "delta", <<e.token>>, FALSE) BY <1>1, <2>4 DEF assistantEvent
    <3> HIDE DEF full
    <3> QED BY <2>1, <3>1 DEF Hears
  <2> QED BY <2>2, <2>3, <2>4
<1>7. AgentTypeOK'
  <2>1. wire' \in Seq(EventType) BY <1>1, WireMoves
  <2>2. content' \in Seq(Nat) /\ sawScoped' \in BOOLEAN BY <1>2, <1>3, <1>4, <1>6
  <2> QED BY <1>1, <1>5, <1>6, <2>1, <2>2 DEF AgentTypeOK
<1>8. KeysSound'
  <2>1. keys' = "unscoped" => ~sawScoped' BY <1>1, <1>2, <1>6 DEF KeysSound
  <2> QED BY <1>1, <2>1, WireMoves DEF KeysSound
<1>9. InOrder'
  <2>1. ASSUME keys # "both", NEW text \in {RunText', content'}
        PROVE  /\ Increasing(text)
               /\ \A i \in DOMAIN text :
                    /\ text[i] <= tokens'
                    /\ \A j \in DOMAIN wire' : IsText(wire'[j]) => text[i] < wire'[j].token
    <3>1. /\ \A i \in DOMAIN wire' : /\ wire'[i].token \in Nat
                                     /\ IsText(wire'[i]) => e.token < wire'[i].token
          /\ e.token <= tokens /\ tokens \in Nat /\ tokens' = tokens
      BY <1>1, WireMoves
    <3>2. ASSUME NEW old \in {RunText, content}
          PROVE  /\ Increasing(old) /\ old \in Seq(Nat)
                 /\ \A i \in DOMAIN old : old[i] \in Nat /\ old[i] < e.token
      BY <1>2, <1>3, <2>1 DEF InOrder
    <3>3. /\ text \in Seq(Nat) /\ Increasing(text)
          /\ \A i \in DOMAIN text : text[i] <= e.token
      <4>1. text \in {RunText, content, full, Append(RunText, e.token), Append(content, e.token)}
        BY <1>5, <1>6, <2>1
      <4>2. CASE text \in {RunText, content} BY <1>2, <3>2, <4>2
      <4>3. CASE text = full BY <1>2, <1>4, <4>3, TextIncreases
      <4>4. CASE text = Append(RunText, e.token)
        BY <1>2, <1>4, <3>2, <4>4, AppendIncreases
      <4>5. CASE text = Append(content, e.token)
        BY <1>2, <1>4, <3>2, <4>5, AppendIncreases
      <4> QED BY <4>1, <4>2, <4>3, <4>4, <4>5
    <3> HIDE DEF e
    <3>4. \A i \in DOMAIN text : text[i] \in Nat BY <3>3
    <3> QED BY <1>2, <3>1, <3>3, <3>4
  <2> QED BY <1>1, <2>1, WireMoves DEF InOrder
<1>10. tokens # 0
  BY <1>2 DEF QuietBefore, IsText
<1>11. QuietBefore' BY <1>1, <1>6, <1>10 DEF QuietBefore
<1>12. WholeUnderWay'
  <2> SUFFICES ASSUME outcome' = "waiting", drops' = 0 PROVE WholeUnderWay' BY DEF WholeUnderWay
  <2>1. outcome = "waiting" /\ drops = 0 BY <1>1, <1>6
  <2>2. /\ full # RunText /\ RunText' = full /\ RunText' # RunText
    <3>1. PICK n : n = Len(RunText) /\ n \in Nat /\ RunText = Text(n)
      BY <1>3, <2>1 DEF WholeUnderWay
    <3>2. e.token = n + 1 BY <1>1, <2>1, <3>1, NextToken
    <3>3. Len(full) = n + 1 /\ Append(RunText, n + 1) = full
      <4>1. Append(Text(n), n + 1) = Text(n + 1) BY <3>1, TextIs
      <4>2. n + 1 \in Nat BY <3>1
      <4>3. Len(Text(n + 1)) = n + 1 BY <4>2, TextIs
      <4> QED BY <3>1, <3>2, <4>1, <4>3
    <3>4. full # RunText BY <3>1, <3>3
    <3> HIDE DEF full, e
    <3> QED BY <1>5, <3>2, <3>3, <3>4 DEF AgentTypeOK
  <2>3. keys = "both" /\ RunText' # <<>> => sawScoped' BY <1>2, <1>6, <2>1, <2>2
  <2> QED BY <1>1, <2>1, <2>2, <2>3, UnderWayMoves
<1>13. WholeWhenResolved' BY <1>1, <1>6 DEF WholeWhenResolved
<1> QED BY <1>7, <1>8, <1>9, <1>11, <1>12, <1>13

LEMMA LastKeeps ==
  ASSUME AgentInv, handleEvent, wire[1].type = "agent", wire[1].stream # "assistant"
  PROVE  AgentInv'
<1> USE DEF AgentInv
<1> DEFINE e == wire[1]
<1>1. /\ wire # <<>> /\ wire' = Tail(wire) /\ lastEvent(e)
      /\ UNCHANGED <<style, keys, run, tokens, linked, drops, rpc>>
  <2>1. wire # <<>> BY DEF handleEvent
  <2>2. Head(wire) = e BY <2>1, TailIs DEF AgentTypeOK
  <2> HIDE DEF e
  <2> QED BY <2>2 DEF handleEvent, gateway, e
<1>2. /\ 1 \in DOMAIN wire /\ e.scoped \in BOOLEAN /\ (e.scoped <=> keys # "unscoped")
      /\ e.stream \in {"final", "aborted", "error"}
  BY <1>1, WireMoves, EventFields DEF KeysSound, AgentTypeOK
<1>3. RunText \in Seq(Nat) /\ content \in Seq(Nat) /\ sawScoped \in BOOLEAN
  BY RunTextTyped DEF AgentTypeOK
<1>4. runText' = NoRun /\ RunText' = <<>> BY <1>1 DEF lastEvent, RunText
<1>5. /\ sawScoped' = (sawScoped \/ (outcome = "waiting" /\ e.scoped))
      /\ outcome # "waiting" => outcome' = outcome /\ content' = content
      /\ outcome = "waiting" =>
           \/ outcome' = "rejected" /\ content' = content
           \/ outcome' = "resolved" /\ content' = IF RunText = <<>> THEN content ELSE RunText
  <2>1. Hears(e.scoped, e.stream, IF e.stream = "final" THEN RunText ELSE <<>>, TRUE)
    BY <1>1 DEF lastEvent
  <2>2. ~(~e.scoped /\ sawScoped) BY <1>2 DEF KeysSound
  <2>3. Joined(RunText, TRUE, "final") = IF RunText = <<>> THEN content ELSE RunText
    BY DEF Joined
  <2> HIDE DEF e
  <2> QED BY <1>2, <2>1, <2>2, <2>3 DEF Hears
<1>6. AgentTypeOK'
  <2>1. wire' \in Seq(EventType) BY <1>1, WireMoves
  <2>2. content' \in Seq(Nat) /\ sawScoped' \in BOOLEAN BY <1>2, <1>3, <1>5
  <2>3. outcome' \in {"none", "waiting", "resolved", "rejected"} BY <1>5 DEF AgentTypeOK
  <2> QED BY <1>1, <1>4, <2>1, <2>2, <2>3 DEF AgentTypeOK
<1>7. KeysSound'
  <2>1. keys' = "unscoped" => ~sawScoped' BY <1>1, <1>2, <1>5 DEF KeysSound
  <2> QED BY <1>1, <2>1, WireMoves DEF KeysSound
<1>8. InOrder'
  <2>1. ASSUME keys # "both", NEW text \in {<<>>, RunText, content}
        PROVE  /\ Increasing(text)
               /\ \A i \in DOMAIN text :
                    /\ text[i] <= tokens'
                    /\ \A j \in DOMAIN wire' : IsText(wire'[j]) => text[i] < wire'[j].token
    <3>1. CASE text = <<>> BY <3>1 DEF Increasing
    <3>2. CASE text \in {RunText, content}
      <4>1. /\ Increasing(text)
            /\ \A i \in DOMAIN text :
                 /\ text[i] <= tokens
                 /\ \A j \in DOMAIN wire : IsText(wire[j]) => text[i] < wire[j].token
        BY <2>1, <3>2 DEF InOrder
      <4>2. \A j \in DOMAIN wire' : \E i \in DOMAIN wire : wire'[j] = wire[i]
        BY <1>1, WireMoves
      <4> HIDE DEF e
      <4> QED BY <1>1, <4>1, <4>2
    <3> QED BY <2>1, <3>1, <3>2
  <2>2. RunText' \in {<<>>, RunText, content} /\ content' \in {<<>>, RunText, content}
    BY <1>4, <1>5
  <2> QED BY <1>1, <2>1, <2>2, WireMoves DEF InOrder
<1>9. QuietBefore'
  <2>1. outcome' # "none" BY <1>1, <1>5 DEF QuietBefore
  <2>2. ASSUME tokens' = 0
        PROVE  /\ content' = <<>> /\ RunText' = <<>>
               /\ \A i \in DOMAIN wire' : wire'[i].stream # "assistant"
    <3>1. content = <<>> /\ RunText = <<>> /\ \A i \in DOMAIN wire : wire[i].stream # "assistant"
      BY <1>1, <2>2 DEF QuietBefore
    <3> QED BY <1>1, <1>4, <1>5, <3>1, WireMoves
  <2>3. run' = "none" => tokens' = 0 BY <1>1 DEF QuietBefore
  <2> QED BY <2>1, <2>2, <2>3 DEF QuietBefore
<1>10. WholeUnderWay' BY <1>5 DEF WholeUnderWay
<1>11. WholeWhenResolved'
  <2> SUFFICES ASSUME outcome' = "resolved", drops' = 0 PROVE run' = "over" /\ content' = Text(tokens')
    BY DEF WholeWhenResolved
  <2>1. CASE outcome = "waiting"
    <3>1. run = "over" /\ RunText = Text(tokens) /\ (RunText = <<>> => content = Text(tokens))
      BY <1>1, <2>1, HeardAll
    <3> HIDE DEF e
    <3> QED BY <1>1, <1>5, <2>1, <3>1
  <2>2. CASE outcome # "waiting" BY <1>1, <1>5, <2>2 DEF WholeWhenResolved
  <2> QED BY <2>1, <2>2
<1> QED BY <1>6, <1>7, <1>8, <1>9, <1>10, <1>11

-----------------------------------------------------------------------------
(* The agent run: the theorems                                               *)

\* For runs of any length and any number of dropped connections: the texts
\* under way are, in order and without a gap, those the client has not heard.
THEOREM AgentInvariant == AgentSpec => []AgentInv
<1>1. AgentInit => AgentInv
  <2> SUFFICES ASSUME AgentInit PROVE AgentInv OBVIOUS
  <2> USE DEF AgentInit
  <2>1. RunText = <<>> BY DEF RunText
  <2>2. AgentTypeOK
    <3>1. <<>> \in Seq(EventType) /\ <<>> \in Seq(Nat) /\ 0 \in 0..MaxTokens BY AgentAssumption
    <3> QED BY <3>1 DEF AgentTypeOK
  <2>3. KeysSound /\ QuietBefore BY <2>1 DEF KeysSound, QuietBefore
  <2>4. InOrder BY <2>1 DEF InOrder, Increasing
  <2> QED BY <2>2, <2>3, <2>4 DEF AgentInv, WholeUnderWay, WholeWhenResolved
<1>2. AgentInv /\ [AgentNext]_agentVars => AgentInv'
  <2> SUFFICES ASSUME AgentInv, [AgentNext]_agentVars PROVE AgentInv' OBVIOUS
  <2>1. CASE handleEvent
    <3>1. wire \in Seq(EventType) /\ wire # <<>> BY <2>1 DEF handleEvent, AgentInv, AgentTypeOK
    <3>2. wire[1].type \in {"agent", "chat"} BY <3>1, TailIs, EventFields
    <3> QED BY <2>1, <3>2, ChatKeeps, TextKeeps, LastKeeps DEF IsText
  <2>2. CASE UNCHANGED agentVars
    <3> USE <2>2 DEF agentVars, gateway, collector
    <3>1. AgentTypeOK' BY DEF AgentInv, AgentTypeOK
    <3> QED BY <3>1, TextsUntouched DEF AgentInv, AgentTypeOK
  <2> QED BY <2>1, <2>2, AskKeeps, SaysKeeps, TimeoutKeeps, DropKeeps, ReconnectKeeps,
             EndsKeeps, AnsweredKeeps DEF AgentNext
<1> QED BY <1>1, <1>2, PTL DEF AgentSpec

\* The text a caller gets is what the agent said, whole and without a token
\* twice, for runs of any length, whichever form the events come in; across
\* dropped connections it is in order and without a token twice
\* (agent-kind.ts, gateway-ws-client.ts).
THEOREM TextIsWhole == AgentSpec => []WholeText
<1>1. AgentInv => WholeText
  BY DEF AgentInv, WholeWhenResolved, InOrder, Increasing, WholeText
<1> QED BY <1>1, AgentInvariant, PTL

-----------------------------------------------------------------------------
(* The chat: pieces of the stream                                            *)

LEMMA PieceFields ==
  ASSUME NEW p \in Piece
  PROVE  /\ p[1] \in {"line", "head", "tail", "tool"}
         /\ p[1] # "tool" => p[2] \in 1..MaxReplyTokens /\ p[2] \in Nat
         /\ p[1] = "tool" => p[2] \in Tools
BY ChatAssumption DEF Piece

LEMMA PipeFields ==
  ASSUME ChatTypeOK
  PROVE  /\ pipe \in Seq(Piece) /\ DOMAIN pipe = 1..Len(pipe) /\ Len(pipe) \in Nat
         /\ \A i \in DOMAIN pipe :
              /\ pipe[i] \in Piece
              /\ pipe[i][1] \in {"line", "head", "tail", "tool"}
              /\ Brings(pipe[i]) => pipe[i][2] \in 1..MaxReplyTokens /\ pipe[i][2] \in Nat
<1>1. pipe \in Seq(Piece) BY DEF ChatTypeOK
<1>2. DOMAIN pipe = 1..Len(pipe) /\ Len(pipe) \in Nat /\ \A i \in DOMAIN pipe : pipe[i] \in Piece
  BY <1>1
<1> QED BY <1>1, <1>2, PieceFields DEF Brings

LEMMA PiecesAre ==
  /\ \A n \in 1..MaxReplyTokens :
       <<"line", n>> \in Piece /\ <<"head", n>> \in Piece /\ <<"tail", n>> \in Piece
  /\ \A t \in Tools : <<"tool", t>> \in Piece
BY DEF Piece

\* The piece that is read is the first; the others move up.
LEMMA PipeMoves ==
  ASSUME ChatTypeOK, pipe # <<>>, pipe' = Tail(pipe)
  PROVE  /\ pipe' \in Seq(Piece) /\ Head(pipe) = pipe[1] /\ 1 \in DOMAIN pipe
         /\ DOMAIN pipe' = 1..Len(pipe') /\ Len(pipe') \in Nat /\ Len(pipe) = Len(pipe') + 1
         /\ \A i \in DOMAIN pipe' : pipe'[i] = pipe[i + 1] /\ i + 1 \in DOMAIN pipe /\ i \in Nat
         /\ \A i \in DOMAIN pipe : i # 1 =>
              i - 1 \in DOMAIN pipe' /\ pipe'[i - 1] = pipe[i] /\ i > 1 /\ i \in Nat
BY DEF ChatTypeOK

LEMMA LastTextTyped ==
  ASSUME ChatTypeOK, messages # <<>>
  PROVE  /\ LastText \in Seq(Nat) /\ DOMAIN LastText = 1..Len(LastText) /\ Len(LastText) \in Nat
         /\ \A i \in DOMAIN LastText : LastText[i] \in Nat
         /\ Len(messages) \in DOMAIN messages
<1>1. Len(messages) \in DOMAIN messages /\ messages[Len(messages)] \in Message
  BY DEF ChatTypeOK
<1>2. LastText \in Seq(Nat) BY <1>1 DEF LastText, Message
<1> QED BY <1>1, <1>2

LEMMA CountsIs ==
  ASSUME NEW s \in Seq(Nat), NEW D, DOMAIN s = D, \A i \in D : s[i] = i
  PROVE  s = [i \in D |-> i]
<1>1. s = [i \in DOMAIN s |-> s[i]] OBVIOUS
<1> QED BY <1>1

LEMMA AppendIs ==
  ASSUME NEW s \in Seq(Nat), NEW c \in Nat
  PROVE  /\ Append(s, c) \in Seq(Nat) /\ Len(Append(s, c)) = Len(s) + 1
         /\ DOMAIN Append(s, c) = 1..(Len(s) + 1)
         /\ \A i \in DOMAIN Append(s, c) :
              \/ i \in DOMAIN s /\ Append(s, c)[i] = s[i] /\ i <= Len(s)
              \/ i = Len(s) + 1 /\ Append(s, c)[i] = c /\ i \notin DOMAIN s
OBVIOUS

-----------------------------------------------------------------------------
(* The chat: a piece is written                                              *)

LEMMA PieceWritten ==
  ASSUME ChatTypeOK, PiecesInOrder, LinesEnd, NothingLost, stream = "open", messages # <<>>,
         NEW p \in Piece, pipe' = Append(pipe, p),
         UNCHANGED <<stream, buffer, messages>>,
         Brings(p) => ~half /\ sent' = sent + 1 /\ p[2] = sent',
         ~Brings(p) => sent' = sent,
         p[1] = "tail" => half,
         half' = (p[1] = "head" \/ (half /\ p[1] # "tail")),
         torn' = (torn \/ (half /\ p[1] = "tool"))
  PROVE  PiecesInOrder' /\ LinesEnd' /\ NothingLost'
<1> DEFINE L == Len(pipe)
<1>1. /\ L \in Nat /\ DOMAIN pipe = 1..L /\ DOMAIN pipe' = 1..(L + 1) /\ pipe'[L + 1] = p
      /\ \A i \in DOMAIN pipe : pipe'[i] = pipe[i] /\ i \in DOMAIN pipe'
      /\ \A i \in DOMAIN pipe' : i \in DOMAIN pipe \/ i = L + 1
  BY PipeFields
<1>2. LastText' = LastText BY DEF LastText
<1>3. /\ sent \in Nat /\ sent' \in Nat /\ sent <= sent' /\ (Brings(p) => sent < p[2])
  BY DEF ChatTypeOK
<1>4. /\ half \in BOOLEAN /\ torn \in BOOLEAN /\ half' \in BOOLEAN
      /\ buffer \in Nat \cup {Nothing} /\ Nothing \notin Nat
  BY ChatAssumption DEF ChatTypeOK
<1>5. \A i \in DOMAIN pipe : Brings(pipe[i]) => pipe[i][2] \in Nat BY PipeFields
<1>6. \A i \in DOMAIN LastText : LastText[i] \in Nat BY LastTextTyped
<1>7. p[1] \in {"line", "head", "tail", "tool"} BY PieceFields
<1> HIDE DEF L
<1>8. PiecesInOrder'
  <2>1. \A i \in DOMAIN LastText :
          /\ LastText[i] <= sent'
          /\ \A j \in DOMAIN pipe' : Brings(pipe'[j]) => LastText[i] < pipe'[j][2]
    <3> TAKE i \in DOMAIN LastText
    <3>1. LastText[i] <= sent /\ \A j \in DOMAIN pipe : Brings(pipe[j]) => LastText[i] < pipe[j][2]
      BY DEF PiecesInOrder
    <3>2. Brings(p) => LastText[i] < p[2] BY <1>3, <1>6, <3>1
    <3> QED BY <1>1, <1>3, <1>6, <3>1, <3>2
  <2>2. buffer # Nothing => buffer <= sent' BY <1>3, <1>4 DEF PiecesInOrder
  <2>3. \A i \in DOMAIN pipe' : Brings(pipe'[i]) =>
          /\ pipe'[i][2] <= sent'
          /\ buffer # Nothing => buffer < pipe'[i][2]
    <3> SUFFICES ASSUME NEW i \in DOMAIN pipe', Brings(pipe'[i])
                 PROVE  pipe'[i][2] <= sent' /\ (buffer # Nothing => buffer < pipe'[i][2])
      OBVIOUS
    <3>1. CASE i \in DOMAIN pipe
      <4>1. pipe[i][2] <= sent /\ (buffer # Nothing => buffer < pipe[i][2]) /\ pipe[i][2] \in Nat
        BY <1>1, <1>5, <3>1 DEF PiecesInOrder
      <4> QED BY <1>1, <1>3, <3>1, <4>1
    <3>2. CASE i = L + 1
      <4>1. buffer # Nothing => buffer <= sent BY DEF PiecesInOrder
      <4> QED BY <1>1, <1>3, <1>4, <3>2, <4>1
    <3> QED BY <1>1, <3>1, <3>2
  <2>4. \A i \in DOMAIN pipe' : Brings(pipe'[i]) =>
          \A j \in DOMAIN pipe' : i < j /\ Brings(pipe'[j]) => pipe'[i][2] < pipe'[j][2]
    <3> SUFFICES ASSUME NEW i \in DOMAIN pipe', Brings(pipe'[i]),
                        NEW j \in DOMAIN pipe', i < j, Brings(pipe'[j])
                 PROVE  pipe'[i][2] < pipe'[j][2]
      OBVIOUS
    <3>1. i \in DOMAIN pipe BY <1>1
    <3>2. CASE j \in DOMAIN pipe BY <1>1, <3>1, <3>2 DEF PiecesInOrder
    <3>3. CASE j = L + 1
      <4>1. pipe[i][2] <= sent /\ pipe[i][2] \in Nat BY <1>1, <1>5, <3>1 DEF PiecesInOrder
      <4> QED BY <1>1, <1>3, <3>1, <3>3, <4>1
    <3> QED BY <1>1, <3>2, <3>3
  <2> QED BY <1>2, <2>1, <2>2, <2>3, <2>4 DEF PiecesInOrder
<1>9. LinesEnd'
  <2>1. ASSUME NEW k \in DOMAIN pipe', Brings(pipe'[k])
        PROVE  /\ buffer # Nothing => \E j \in 1..(k - 1) : IsTail(pipe'[j])
               /\ \A i \in 1..(k - 1) : pipe'[i][1] = "head" =>
                    \E j \in (i + 1)..(k - 1) : IsTail(pipe'[j])
    <3>1. \A i \in 1..(k - 1) : i \in DOMAIN pipe /\ pipe'[i] = pipe[i] BY <1>1
    <3>2. CASE k \in DOMAIN pipe
      <4>1. /\ buffer # Nothing => \E j \in 1..(k - 1) : IsTail(pipe[j])
            /\ \A i \in 1..(k - 1) : pipe[i][1] = "head" =>
                 \E j \in (i + 1)..(k - 1) : IsTail(pipe[j])
        BY <1>1, <2>1, <3>2 DEF LinesEnd
      <4>2. \A i \in 1..(k - 1) : (i + 1)..(k - 1) \subseteq 1..(k - 1) BY <1>1
      <4> QED BY <3>1, <4>1, <4>2
    <3>3. CASE k = L + 1
      <4>1. ~half /\ 1..(k - 1) = DOMAIN pipe BY <1>1, <2>1, <3>3
      <4>2. /\ buffer # Nothing => \E j \in DOMAIN pipe : IsTail(pipe[j])
            /\ \A i \in DOMAIN pipe : pipe[i][1] = "head" =>
                 \E j \in DOMAIN pipe : i < j /\ IsTail(pipe[j])
        BY <4>1 DEF LinesEnd
      <4>3. \A i, j \in DOMAIN pipe : i < j => j \in (i + 1)..(k - 1) BY <1>1, <3>3
      <4> QED BY <3>1, <4>1, <4>2, <4>3
    <3> QED BY <1>1, <3>2, <3>3
  <2>2. ASSUME ~half'
        PROVE  /\ buffer # Nothing => \E j \in DOMAIN pipe' : IsTail(pipe'[j])
               /\ \A i \in DOMAIN pipe' : pipe'[i][1] = "head" =>
                    \E j \in DOMAIN pipe' : i < j /\ IsTail(pipe'[j])
    <3>0. p[1] # "head" BY <2>2
    <3>1. p[1] # "head" /\ L + 1 \in DOMAIN pipe' BY <1>1, <3>0
    <3>2. CASE p[1] = "tail"
      <4>1. IsTail(pipe'[L + 1]) BY <1>1, <3>2 DEF IsTail
      <4>2. \A i \in DOMAIN pipe' : pipe'[i][1] = "head" => i < L + 1
        BY <1>1, <3>1
      <4> QED BY <3>1, <4>1, <4>2
    <3>3. CASE p[1] # "tail"
      <4>1. ~half BY <1>4, <2>2, <3>3
      <4>2. /\ buffer # Nothing => \E j \in DOMAIN pipe : IsTail(pipe[j])
            /\ \A i \in DOMAIN pipe : pipe[i][1] = "head" =>
                 \E j \in DOMAIN pipe : i < j /\ IsTail(pipe[j])
        BY <4>1 DEF LinesEnd
      <4>3. \A i \in DOMAIN pipe' : pipe'[i][1] = "head" => i \in DOMAIN pipe BY <1>1, <3>1
      <4> QED BY <1>1, <4>2, <4>3
    <3> QED BY <3>2, <3>3
  <2>3. half' => sent' > 0
    <3>1. CASE Brings(p) BY <1>3, <3>1
    <3>2. CASE ~Brings(p)
      <4>1. half' => half BY <3>2 DEF Brings
      <4> QED BY <3>2, <4>1 DEF LinesEnd
    <3> QED BY <3>1, <3>2
  <2> QED BY <2>1, <2>2, <2>3 DEF LinesEnd
<1>10. NothingLost'
  <2> SUFFICES ASSUME ~torn' PROVE NothingLost' BY DEF NothingLost
  <2>1. ~torn /\ (p[1] = "tool" => ~half) BY <1>4
  <2>2. p[1] # "tail" => ~half
    BY <1>7, <2>1 DEF Brings
  <2>3. PICK m : m = Len(LastText) /\ m \in Nat BY LastTextTyped
  <2>4. /\ LastText = [i \in 1..m |-> i] /\ m <= sent
        /\ buffer # Nothing => buffer = m + 1 /\ (pipe # <<>> => IsTail(pipe[1]))
        /\ \A n \in (m + 1)..sent :
             n = buffer \/ \E i \in DOMAIN pipe : Brings(pipe[i]) /\ pipe[i][2] = n
        /\ \A i \in DOMAIN pipe :
             pipe[i][1] = "head" /\ i + 1 \in DOMAIN pipe => IsTail(pipe[i + 1])
    BY <2>1, <2>3 DEF NothingLost
  <2>5. buffer # Nothing => IsTail(pipe'[1])
    <3>1. CASE pipe # <<>>
      <4>1. 1 \in DOMAIN pipe BY <3>1, PipeFields
      <4> QED BY <1>1, <2>4, <3>1, <4>1
    <3>2. CASE pipe = <<>>
      <4>1. DOMAIN pipe = {} /\ L = 0 BY <3>2 DEF L
      <4>2. buffer # Nothing => half BY <4>1 DEF LinesEnd
      <4>3. pipe'[1] = p BY <1>1, <4>1
      <4> QED BY <2>2, <4>2, <4>3 DEF IsTail
    <3> QED BY <3>1, <3>2
  <2>6. \A n \in (m + 1)..sent' :
          n = buffer \/ \E i \in DOMAIN pipe' : Brings(pipe'[i]) /\ pipe'[i][2] = n
    <3> TAKE n \in (m + 1)..sent'
    <3>1. CASE n \in (m + 1)..sent BY <1>1, <2>4, <3>1
    <3>2. CASE n \notin (m + 1)..sent
      <4>1. Brings(p) /\ n = sent' BY <1>3, <2>3, <3>2
      <4>2. L + 1 \in DOMAIN pipe' BY <1>1
      <4> QED BY <1>1, <4>1, <4>2
    <3> QED BY <3>1, <3>2
  <2>7. \A i \in DOMAIN pipe' :
          pipe'[i][1] = "head" /\ i + 1 \in DOMAIN pipe' => IsTail(pipe'[i + 1])
    <3> SUFFICES ASSUME NEW i \in DOMAIN pipe', pipe'[i][1] = "head", i + 1 \in DOMAIN pipe'
                 PROVE  IsTail(pipe'[i + 1])
      OBVIOUS
    <3>1. i \in DOMAIN pipe BY <1>1
    <3>2. CASE i + 1 \in DOMAIN pipe BY <1>1, <2>4, <3>1, <3>2
    <3>3. CASE i + 1 \notin DOMAIN pipe
      <4>1. i = L /\ pipe'[i + 1] = p BY <1>1, <3>1, <3>3
      <4>2. half
        <5>1. \A j \in DOMAIN pipe : ~(i < j) BY <1>1, <4>1
        <5>2. pipe[i][1] = "head" BY <1>1, <3>1
        <5> QED BY <3>1, <5>1, <5>2 DEF LinesEnd
      <4> QED BY <2>2, <4>1, <4>2 DEF IsTail
    <3> QED BY <3>2, <3>3
  <2>8. m <= sent' BY <1>3, <2>3, <2>4
  <2> QED BY <1>2, <2>3, <2>4, <2>5, <2>6, <2>7, <2>8 DEF NothingLost
<1> QED BY <1>8, <1>9, <1>10

-----------------------------------------------------------------------------
(* The chat: a piece is read                                                 *)

\* What the first piece is while a token is in the buffer.
LEMMA NextPiece ==
  ASSUME ChatTypeOK, LinesEnd, pipe # <<>>, buffer # Nothing
  PROVE  ~Brings(pipe[1])
<1>1. 1 \in DOMAIN pipe BY PipeFields
<1>2. \A j \in 1..(1 - 1) : FALSE OBVIOUS
<1> QED BY <1>1, <1>2 DEF LinesEnd

LEMMA LinesStillEnd ==
  ASSUME ChatTypeOK, LinesEnd, pipe # <<>>, pipe' = Tail(pipe), half' = half,
         sent' = sent, buffer' # Nothing => pipe[1][1] = "head"
  PROVE  LinesEnd'
<1>1. /\ 1 \in DOMAIN pipe
      /\ \A i \in DOMAIN pipe' : pipe'[i] = pipe[i + 1] /\ i + 1 \in DOMAIN pipe /\ i \in Nat
      /\ \A i \in DOMAIN pipe : i # 1 =>
           i - 1 \in DOMAIN pipe' /\ pipe'[i - 1] = pipe[i] /\ i > 1 /\ i \in Nat
      /\ DOMAIN pipe' = 1..Len(pipe') /\ Len(pipe') \in Nat
  BY PipeMoves
<1>2. ASSUME NEW k \in DOMAIN pipe', Brings(pipe'[k])
      PROVE  /\ buffer' # Nothing => \E j \in 1..(k - 1) : IsTail(pipe'[j])
             /\ \A i \in 1..(k - 1) : pipe'[i][1] = "head" =>
                  \E j \in (i + 1)..(k - 1) : IsTail(pipe'[j])
  <2>1. k + 1 \in DOMAIN pipe /\ Brings(pipe[k + 1]) /\ k \in Nat \ {0} BY <1>1, <1>2
  <2>2. \A i \in 1..((k + 1) - 1) : pipe[i][1] = "head" =>
          \E j \in (i + 1)..((k + 1) - 1) : IsTail(pipe[j])
    BY <2>1 DEF LinesEnd
  <2>3. ASSUME NEW i \in 0..(k - 1), pipe[i + 1][1] = "head"
        PROVE  \E j \in (i + 1)..(k - 1) : IsTail(pipe'[j])
    <3>1. i + 1 \in 1..((k + 1) - 1) BY <2>1
    <3>2. PICK j \in ((i + 1) + 1)..((k + 1) - 1) : IsTail(pipe[j]) BY <2>2, <2>3, <3>1
    <3>3. j - 1 \in (i + 1)..(k - 1) /\ (j - 1) + 1 = j /\ j - 1 \in DOMAIN pipe'
      BY <1>1, <2>1, <3>2
    <3>4. pipe'[j - 1] = pipe[j] BY <1>1, <3>3
    <3> QED BY <3>2, <3>3, <3>4
  <2>4. \A i \in 1..(k - 1) : i \in DOMAIN pipe' /\ i \in 0..(k - 1) BY <1>1
  <2>5. 0 \in 0..(k - 1) /\ 0 + 1 = 1 BY <2>1
  <2>6. \A i \in 1..(k - 1) : pipe'[i] = pipe[i + 1] BY <1>1, <2>4
  <2>7. buffer' # Nothing => \E j \in 1..(k - 1) : IsTail(pipe'[j])
    BY <2>3, <2>5
  <2> QED BY <2>3, <2>4, <2>6, <2>7
<1>3. ASSUME ~half'
      PROVE  /\ buffer' # Nothing => \E j \in DOMAIN pipe' : IsTail(pipe'[j])
             /\ \A i \in DOMAIN pipe' : pipe'[i][1] = "head" =>
                  \E j \in DOMAIN pipe' : i < j /\ IsTail(pipe'[j])
  <2>1. \A i \in DOMAIN pipe : pipe[i][1] = "head" =>
          \E j \in DOMAIN pipe : i < j /\ IsTail(pipe[j])
    BY <1>3 DEF LinesEnd
  <2>2. ASSUME NEW i \in DOMAIN pipe, pipe[i][1] = "head"
        PROVE  \E j \in DOMAIN pipe' : i - 1 < j /\ IsTail(pipe'[j])
    <3>1. PICK j \in DOMAIN pipe : i < j /\ IsTail(pipe[j]) BY <2>1, <2>2
    <3>2. i \in Nat \ {0} /\ j \in Nat BY PipeFields
    <3>3. j # 1 BY <3>1, <3>2
    <3>4. j - 1 \in DOMAIN pipe' /\ pipe'[j - 1] = pipe[j] BY <1>1, <3>3
    <3>5. i - 1 < j - 1 BY <3>1, <3>2
    <3> QED BY <3>1, <3>4, <3>5
  <2>3. buffer' # Nothing => \E j \in DOMAIN pipe' : IsTail(pipe'[j]) BY <1>1, <2>2
  <2>4. ASSUME NEW i \in DOMAIN pipe', pipe'[i][1] = "head"
        PROVE  \E j \in DOMAIN pipe' : i < j /\ IsTail(pipe'[j])
    <3>1. i + 1 \in DOMAIN pipe /\ pipe[i + 1][1] = "head" /\ (i + 1) - 1 = i BY <1>1, <2>4
    <3> QED BY <2>2, <3>1
  <2> QED BY <2>3, <2>4
<1> QED BY <1>2, <1>3 DEF LinesEnd

\* The token that comes next, which is shown or goes to the buffer.
Comes(token) ==
  \/ Brings(pipe[1]) /\ token = pipe[1][2]
  \/ buffer # Nothing /\ token = buffer

LEMMA TokenComes ==
  ASSUME ChatTypeOK, messages # <<>>, PiecesInOrder, LinesEnd, pipe # <<>>,
         NEW token, Comes(token)
  PROVE  /\ token \in 1..MaxReplyTokens /\ token \in Nat /\ token <= sent
         /\ \A i \in DOMAIN LastText : LastText[i] < token
         /\ \A j \in DOMAIN pipe : j # 1 /\ Brings(pipe[j]) => token < pipe[j][2]
         /\ ~torn /\ NothingLost => token = Len(LastText) + 1
<1>1. 1 \in DOMAIN pipe /\ DOMAIN pipe = 1..Len(pipe) /\ Len(pipe) \in Nat BY PipeFields
<1>2. sent \in Nat BY DEF ChatTypeOK
<1>3. \A j \in DOMAIN pipe : j # 1 => 1 < j BY <1>1
<1>4. CASE Brings(pipe[1]) /\ token = pipe[1][2]
  <2>1. token \in 1..MaxReplyTokens /\ token \in Nat BY <1>1, <1>4, PipeFields
  <2>2. /\ token <= sent
        /\ \A i \in DOMAIN LastText : LastText[i] < token
        /\ \A j \in DOMAIN pipe : j # 1 /\ Brings(pipe[j]) => token < pipe[j][2]
    BY <1>1, <1>3, <1>4 DEF PiecesInOrder
  <2>3. ASSUME ~torn, NothingLost PROVE token = Len(LastText) + 1
    <3>1. PICK m : m = Len(LastText) /\ m \in Nat BY LastTextTyped
    <3>2. buffer = Nothing BY <1>4, NextPiece
    <3>3. /\ LastText = [i \in 1..m |-> i]
          /\ \A n \in (m + 1)..sent :
               n = buffer \/ \E i \in DOMAIN pipe : Brings(pipe[i]) /\ pipe[i][2] = n
      BY <2>3, <3>1 DEF NothingLost
    <3>4. m < token
      <4>1. CASE m = 0 BY <2>1, <4>1
      <4>2. CASE m # 0
        <5>1. m \in DOMAIN LastText /\ LastText[m] = m BY <3>1, <3>3, <4>2
        <5> QED BY <2>2, <5>1
      <4> QED BY <4>1, <4>2
    <3>5. m + 1 \in (m + 1)..sent /\ m + 1 \in Nat BY <1>2, <2>1, <2>2, <3>1, <3>4
    <3>6. m + 1 # Nothing BY <3>5, ChatAssumption
    <3>7. PICK i \in DOMAIN pipe : Brings(pipe[i]) /\ pipe[i][2] = m + 1
      BY <3>2, <3>3, <3>5, <3>6
    <3>8. CASE i = 1 BY <1>4, <3>1, <3>7, <3>8
    <3>9. CASE i # 1
      <4>1. token < m + 1 BY <2>2, <3>7, <3>9
      <4> QED BY <2>1, <3>1, <3>4, <4>1
    <3> QED BY <3>8, <3>9
  <2> QED BY <2>1, <2>2, <2>3
<1>5. CASE buffer # Nothing /\ token = buffer
  <2>1. token \in 1..MaxReplyTokens /\ token \in Nat BY <1>5, ChatAssumption DEF ChatTypeOK
  <2>2. /\ token <= sent
        /\ \A i \in DOMAIN LastText : LastText[i] < token
        /\ \A j \in DOMAIN pipe : Brings(pipe[j]) => token < pipe[j][2]
    BY <1>5 DEF PiecesInOrder
  <2>3. ~torn /\ NothingLost => token = Len(LastText) + 1 BY <1>5 DEF NothingLost
  <2> QED BY <2>1, <2>2, <2>3
<1> QED BY <1>4, <1>5 DEF Comes

\* A token is shown.
LEMMA TokenShown ==
  ASSUME ChatTypeOK, messages # <<>>, PiecesInOrder, LinesEnd, NothingLost, pipe # <<>>,
         pipe' = Tail(pipe), UNCHANGED <<stream, sent, half, torn>>,
         NEW token, Comes(token), LastText' = Append(LastText, token), buffer' = Nothing,
         pipe[1][1] # "head", pipe[1][1] # "tool"
  PROVE  PiecesInOrder' /\ LinesEnd' /\ NothingLost'
<1>1. /\ token \in Nat /\ token <= sent
      /\ \A i \in DOMAIN LastText : LastText[i] < token
      /\ \A j \in DOMAIN pipe : j # 1 /\ Brings(pipe[j]) => token < pipe[j][2]
      /\ ~torn => token = Len(LastText) + 1
  BY TokenComes
<1>2. PICK m : m = Len(LastText) /\ m \in Nat BY LastTextTyped
<1>3. /\ LastText \in Seq(Nat) /\ DOMAIN LastText = 1..m
      /\ \A i \in DOMAIN LastText : LastText[i] \in Nat
  BY <1>2, LastTextTyped
<1>4. /\ Len(LastText') = m + 1 /\ DOMAIN LastText' = 1..(m + 1) /\ LastText' \in Seq(Nat)
      /\ \A i \in DOMAIN LastText' :
           \/ i \in DOMAIN LastText /\ LastText'[i] = LastText[i] /\ i <= m
           \/ i = m + 1 /\ LastText'[i] = token /\ i \notin DOMAIN LastText
  BY <1>1, <1>2, <1>3, AppendIs
<1>5. /\ 1 \in DOMAIN pipe
      /\ \A i \in DOMAIN pipe' : pipe'[i] = pipe[i + 1] /\ i + 1 \in DOMAIN pipe /\ i \in Nat
      /\ \A i \in DOMAIN pipe : i # 1 =>
           i - 1 \in DOMAIN pipe' /\ pipe'[i - 1] = pipe[i] /\ i > 1 /\ i \in Nat
      /\ DOMAIN pipe' = 1..Len(pipe') /\ Len(pipe') \in Nat
  BY PipeMoves
<1>6. \A i \in DOMAIN pipe' : i + 1 # 1 BY <1>5
<1>7. LinesEnd' BY LinesStillEnd
<1>8. PiecesInOrder'
  <2>1. \A i, j \in DOMAIN LastText' : i < j => LastText'[i] < LastText'[j]
    <3> SUFFICES ASSUME NEW i \in DOMAIN LastText', NEW j \in DOMAIN LastText', i < j
                 PROVE  LastText'[i] < LastText'[j]
      OBVIOUS
    <3>1. i \in DOMAIN LastText /\ LastText'[i] = LastText[i] BY <1>2, <1>3, <1>4
    <3>2. CASE j \in DOMAIN LastText BY <1>4, <3>1, <3>2 DEF PiecesInOrder
    <3>3. CASE j \notin DOMAIN LastText BY <1>1, <1>4, <3>1, <3>3
    <3> QED BY <3>2, <3>3
  <2>2. \A i \in DOMAIN LastText' :
          /\ LastText'[i] <= sent
          /\ \A j \in DOMAIN pipe' : Brings(pipe'[j]) => LastText'[i] < pipe'[j][2]
    <3> TAKE i \in DOMAIN LastText'
    <3>1. CASE i \in DOMAIN LastText
      <4>1. /\ LastText[i] <= sent
            /\ \A j \in DOMAIN pipe : Brings(pipe[j]) => LastText[i] < pipe[j][2]
        BY <3>1 DEF PiecesInOrder
      <4>2. LastText'[i] = LastText[i] BY <1>4, <3>1
      <4> QED BY <1>5, <4>1, <4>2
    <3>2. CASE i \notin DOMAIN LastText
      <4>1. LastText'[i] = token BY <1>4, <3>2
      <4> QED BY <1>1, <1>5, <1>6, <4>1
    <3> QED BY <3>1, <3>2
  <2>3. \A i \in DOMAIN pipe' : Brings(pipe'[i]) =>
          /\ pipe'[i][2] <= sent
          /\ \A j \in DOMAIN pipe' : i < j /\ Brings(pipe'[j]) => pipe'[i][2] < pipe'[j][2]
    <3> SUFFICES ASSUME NEW i \in DOMAIN pipe', Brings(pipe'[i])
                 PROVE  /\ pipe'[i][2] <= sent
                        /\ \A j \in DOMAIN pipe' :
                             i < j /\ Brings(pipe'[j]) => pipe'[i][2] < pipe'[j][2]
      OBVIOUS
    <3>1. /\ pipe[i + 1][2] <= sent
          /\ \A j \in DOMAIN pipe :
               i + 1 < j /\ Brings(pipe[j]) => pipe[i + 1][2] < pipe[j][2]
      BY <1>5 DEF PiecesInOrder
    <3>2. \A j \in DOMAIN pipe' : i < j => i + 1 < j + 1 BY <1>5
    <3> QED BY <1>5, <3>1, <3>2
  <2> QED BY <2>1, <2>2, <2>3 DEF PiecesInOrder
<1>9. NothingLost'
  <2> SUFFICES ASSUME ~torn PROVE NothingLost' BY DEF NothingLost
  <2>1. token = m + 1 BY <1>1, <1>2
  <2>2. /\ LastText = [i \in 1..m |-> i]
        /\ \A n \in (m + 1)..sent :
             n = buffer \/ \E i \in DOMAIN pipe : Brings(pipe[i]) /\ pipe[i][2] = n
        /\ \A i \in DOMAIN pipe :
             pipe[i][1] = "head" /\ i + 1 \in DOMAIN pipe => IsTail(pipe[i + 1])
        /\ stream = "ended" => ~half
        /\ buffer # Nothing => buffer = m + 1
    BY <1>2 DEF NothingLost
  <2>3. LastText' = [i \in 1..(m + 1) |-> i]
    <3>1. \A i \in DOMAIN LastText' : LastText'[i] = i BY <1>3, <1>4, <2>1, <2>2
    <3>2. PICK text \in Seq(Nat) : text = LastText' BY <1>4
    <3>3. DOMAIN text = 1..(m + 1) /\ \A i \in 1..(m + 1) : text[i] = i BY <1>4, <3>1, <3>2
    <3>4. text = [i \in 1..(m + 1) |-> i] BY <3>3, CountsIs
    <3> QED BY <3>2, <3>4
  <2>4. m + 1 <= sent BY <1>1, <2>1
  <2>5. \A n \in ((m + 1) + 1)..sent : \E i \in DOMAIN pipe' : Brings(pipe'[i]) /\ pipe'[i][2] = n
    <3> TAKE n \in ((m + 1) + 1)..sent
    <3>0. sent \in Nat BY DEF ChatTypeOK
    <3>1. n \in (m + 1)..sent /\ n \in Nat /\ n # m + 1 BY <1>2, <3>0
    <3>2. n # buffer
      <4>1. n # Nothing BY <3>1, ChatAssumption
      <4> QED BY <2>2, <3>1, <4>1
    <3>3. PICK i \in DOMAIN pipe : Brings(pipe[i]) /\ pipe[i][2] = n BY <2>2, <3>1, <3>2
    <3>4. i # 1
      <4> SUFFICES ASSUME i = 1 PROVE FALSE OBVIOUS
      <4>1. Brings(pipe[1]) /\ buffer = Nothing BY <3>3, NextPiece
      <4>2. token = pipe[1][2] BY <4>1 DEF Comes
      <4> QED BY <2>1, <3>1, <3>3, <4>2
    <3>5. i - 1 \in DOMAIN pipe' /\ pipe'[i - 1] = pipe[i] BY <1>5, <3>4
    <3> QED BY <3>3, <3>5
  <2>6. \A i \in DOMAIN pipe' :
          pipe'[i][1] = "head" /\ i + 1 \in DOMAIN pipe' => IsTail(pipe'[i + 1])
    BY <1>5, <2>2
  <2> QED BY <1>4, <2>2, <2>3, <2>4, <2>5, <2>6 DEF NothingLost
<1> QED BY <1>7, <1>8, <1>9

\* A piece is read and nothing is shown.
LEMMA NothingShown ==
  ASSUME ChatTypeOK, messages # <<>>, PiecesInOrder, LinesEnd, NothingLost, pipe # <<>>,
         pipe' = Tail(pipe), UNCHANGED <<stream, sent, half, torn, messages>>,
         \/ pipe[1][1] = "head" /\ buffer' = pipe[1][2]
         \/ pipe[1][1] = "tail" /\ buffer = Nothing /\ buffer' = Nothing
         \/ pipe[1][1] = "tool" /\ buffer' = Nothing
  PROVE  PiecesInOrder' /\ LinesEnd' /\ NothingLost'
<1>1. /\ 1 \in DOMAIN pipe
      /\ \A i \in DOMAIN pipe' : pipe'[i] = pipe[i + 1] /\ i + 1 \in DOMAIN pipe /\ i \in Nat
      /\ \A i \in DOMAIN pipe : i # 1 =>
           i - 1 \in DOMAIN pipe' /\ pipe'[i - 1] = pipe[i] /\ i > 1 /\ i \in Nat
      /\ DOMAIN pipe' = 1..Len(pipe') /\ Len(pipe') \in Nat
  BY PipeMoves
<1>2. \A i \in DOMAIN pipe' : i + 1 # 1 BY <1>1
<1>3. LastText' = LastText BY DEF LastText
<1>4. LinesEnd' BY LinesStillEnd
<1>5. buffer' # Nothing => pipe[1][1] = "head" /\ Comes(buffer') BY DEF Comes, Brings
<1>6. ASSUME buffer' # Nothing
      PROVE  /\ buffer' <= sent
             /\ \A i \in DOMAIN LastText : LastText[i] < buffer'
             /\ \A j \in DOMAIN pipe : j # 1 /\ Brings(pipe[j]) => buffer' < pipe[j][2]
             /\ ~torn => buffer' = Len(LastText) + 1
  <2>1. PICK token : token = buffer' OBVIOUS
  <2>2. Comes(token) BY <1>5, <1>6, <2>1
  <2>3. /\ token <= sent
        /\ \A i \in DOMAIN LastText : LastText[i] < token
        /\ \A j \in DOMAIN pipe : j # 1 /\ Brings(pipe[j]) => token < pipe[j][2]
        /\ ~torn => token = Len(LastText) + 1
    BY <2>2, TokenComes
  <2> QED BY <2>1, <2>3
<1>7. PiecesInOrder'
  <2>1. \A i \in DOMAIN LastText :
          /\ LastText[i] <= sent
          /\ buffer' # Nothing => LastText[i] < buffer'
          /\ \A j \in DOMAIN pipe' : Brings(pipe'[j]) => LastText[i] < pipe'[j][2]
    <3> TAKE i \in DOMAIN LastText
    <3>1. /\ LastText[i] <= sent
          /\ \A j \in DOMAIN pipe : Brings(pipe[j]) => LastText[i] < pipe[j][2]
      BY DEF PiecesInOrder
    <3> QED BY <1>1, <1>6, <3>1
  <2>2. \A i \in DOMAIN pipe' : Brings(pipe'[i]) =>
          /\ pipe'[i][2] <= sent
          /\ buffer' # Nothing => buffer' < pipe'[i][2]
          /\ \A j \in DOMAIN pipe' : i < j /\ Brings(pipe'[j]) => pipe'[i][2] < pipe'[j][2]
    <3> SUFFICES ASSUME NEW i \in DOMAIN pipe', Brings(pipe'[i])
                 PROVE  /\ pipe'[i][2] <= sent
                        /\ buffer' # Nothing => buffer' < pipe'[i][2]
                        /\ \A j \in DOMAIN pipe' :
                             i < j /\ Brings(pipe'[j]) => pipe'[i][2] < pipe'[j][2]
      OBVIOUS
    <3>1. /\ pipe[i + 1][2] <= sent
          /\ \A j \in DOMAIN pipe :
               i + 1 < j /\ Brings(pipe[j]) => pipe[i + 1][2] < pipe[j][2]
      BY <1>1 DEF PiecesInOrder
    <3>2. \A j \in DOMAIN pipe' : i < j => i + 1 < j + 1 BY <1>1
    <3>3. buffer' # Nothing => buffer' < pipe'[i][2] BY <1>1, <1>2, <1>6
    <3> QED BY <1>1, <3>1, <3>2, <3>3
  <2> QED BY <1>3, <1>6, <2>1, <2>2 DEF PiecesInOrder
<1>8. NothingLost'
  <2> SUFFICES ASSUME ~torn PROVE NothingLost' BY DEF NothingLost
  <2>1. PICK m : m = Len(LastText) /\ m \in Nat BY LastTextTyped
  <2>2. /\ LastText = [i \in 1..m |-> i] /\ m <= sent
        /\ buffer # Nothing => IsTail(pipe[1])
        /\ \A n \in (m + 1)..sent :
             n = buffer \/ \E i \in DOMAIN pipe : Brings(pipe[i]) /\ pipe[i][2] = n
        /\ \A i \in DOMAIN pipe :
             pipe[i][1] = "head" /\ i + 1 \in DOMAIN pipe => IsTail(pipe[i + 1])
        /\ stream = "ended" => ~half
    BY <2>1 DEF NothingLost
  <2>3. buffer = Nothing
    <3>1. buffer # Nothing => pipe[1][1] = "tail" BY <2>2 DEF IsTail
    <3> QED BY <3>1
  <2>4. \A n \in (m + 1)..sent :
          n = buffer' \/ \E i \in DOMAIN pipe' : Brings(pipe'[i]) /\ pipe'[i][2] = n
    <3> TAKE n \in (m + 1)..sent
    <3>0. sent \in Nat BY DEF ChatTypeOK
    <3>1. n \in Nat /\ n # Nothing
      <4>1. n \in Nat BY <2>1, <3>0
      <4> QED BY <4>1, ChatAssumption
    <3>2. PICK i \in DOMAIN pipe : Brings(pipe[i]) /\ pipe[i][2] = n BY <2>2, <2>3, <3>1
    <3>3. CASE i = 1 BY <3>2, <3>3 DEF Brings
    <3>4. CASE i # 1 BY <1>1, <3>2, <3>4
    <3> QED BY <3>3, <3>4
  <2>5. \A i \in DOMAIN pipe' :
          pipe'[i][1] = "head" /\ i + 1 \in DOMAIN pipe' => IsTail(pipe'[i + 1])
    BY <1>1, <2>2
  <2>6. buffer' # Nothing => buffer' = m + 1 /\ (pipe' # <<>> => IsTail(pipe'[1]))
    <3> SUFFICES ASSUME buffer' # Nothing, pipe' # <<>> PROVE IsTail(pipe'[1])
      BY <1>6, <2>1
    <3>1. 1 \in DOMAIN pipe' /\ pipe[1][1] = "head"
      <4>1. pipe' \in Seq(Piece) BY PipeMoves
      <4> QED BY <1>5, <4>1
    <3>2. pipe'[1] = pipe[1 + 1] /\ 1 + 1 \in DOMAIN pipe BY <1>1, <3>1
    <3> QED BY <1>1, <2>2, <3>1, <3>2
  <2> QED BY <1>3, <2>1, <2>2, <2>4, <2>5, <2>6 DEF NothingLost
<1> QED BY <1>4, <1>7, <1>8

-----------------------------------------------------------------------------
(* The chat: the actions                                                     *)

LEMMA ChatHoldsInitially == ChatInit => ChatInv
<1> SUFFICES ASSUME ChatInit PROVE ChatInv OBVIOUS
<1> USE DEF ChatInit
<1>1. 1 \in SessionNumbers BY ChatAssumption DEF SessionNumbers
<1>2. ChatTypeOK
  <2>1. <<>> \in Seq(Piece) /\ <<>> \in Seq(Message) OBVIOUS
  <2>2. 0 \in 0..MaxReplyTokens /\ 0 \in Nat BY ChatAssumption
  <2> QED BY <1>1, <2>1, <2>2 DEF ChatTypeOK
<1>3. ReplyHasMessage BY DEF ReplyHasMessage
<1>4. ConversationsKept
  <2>1. \A k \in SessionNumbers : stored[k] = Nothing /\ final[k] = Nothing /\ ~(k < counter)
    BY ChatAssumption DEF SessionNumbers
  <2> QED BY <1>1, <2>1 DEF ConversationsKept
<1> QED BY <1>2, <1>3, <1>4 DEF ChatInv

\* The session that is open is stored as the tab says; the others stay.
LEMMA SessionStored ==
  ASSUME ChatTypeOK, ConversationsKept, NEW shown \in Seq(Message),
         stored' = [stored EXCEPT ![counter] = shown], UNCHANGED <<counter, final>>,
         ~isStreaming' => messages' = shown
  PROVE  ConversationsKept' /\ stored' \in [SessionNumbers -> Seq(Message) \cup {Nothing}]
<1>1. counter \in SessionNumbers /\ shown # Nothing BY ChatAssumption DEF ChatTypeOK
<1>2. /\ stored' \in [SessionNumbers -> Seq(Message) \cup {Nothing}] /\ stored'[counter] = shown
      /\ \A k \in SessionNumbers : k # counter => stored'[k] = stored[k]
  BY <1>1 DEF ChatTypeOK
<1>3. \A k \in SessionNumbers : k \in Nat BY DEF SessionNumbers
<1>4. ASSUME NEW k \in SessionNumbers
      PROVE  IF k + 2 < counter \/ k > counter THEN stored'[k] = Nothing
             ELSE k < counter => final[k] = IF stored'[k] = Nothing THEN <<>> ELSE stored'[k]
  <2>1. CASE k = counter
    <3>1. ~(k + 2 < counter \/ k > counter) /\ ~(k < counter) BY <1>3, <2>1
    <3> QED BY <3>1
  <2>2. CASE k # counter BY <1>2, <2>2 DEF ConversationsKept
  <2> QED BY <2>1, <2>2
<1>5. ~isStreaming' => messages' = IF stored'[counter] = Nothing THEN <<>> ELSE stored'[counter]
  BY <1>1, <1>2
<1> QED BY <1>2, <1>4, <1>5 DEF ConversationsKept

LEMMA SendMessageKeeps ==
  ASSUME ChatInv, sendMessage
  PROVE  ChatInv'
<1> USE DEF ChatInv
<1>1. /\ messages' = Append(messages, Empty)
      /\ stored' = [stored EXCEPT ![counter] = messages']
      /\ isStreaming' = TRUE /\ stream' = "asked"
      /\ sent' = 0 /\ half' = FALSE /\ torn' = FALSE /\ toolCalls' = 0
      /\ pipe' = <<>> /\ buffer' = Nothing /\ known' = {}
      /\ UNCHANGED <<counter, final>>
  BY DEF sendMessage, saveMessages, NewReply
<1>2. Empty \in Message /\ Empty.text = <<>>
  <2>1. <<>> \in Seq(Nat) /\ {} \in SUBSET Tools OBVIOUS
  <2> QED BY <2>1 DEF Empty, Message
<1>3. /\ messages' \in Seq(Message) /\ messages' # <<>> /\ messages'[Len(messages')] = Empty
  <2>1. \A s \in Seq(Message), m \in Message :
          /\ Append(s, m) \in Seq(Message) /\ Append(s, m) # <<>>
          /\ Append(s, m)[Len(Append(s, m))] = m
    OBVIOUS
  <2>2. messages \in Seq(Message) BY DEF ChatTypeOK
  <2> QED BY <1>1, <1>2, <2>1, <2>2
<1>4. LastText' = <<>> BY <1>2, <1>3 DEF LastText
<1>5. ConversationsKept' /\ stored' \in [SessionNumbers -> Seq(Message) \cup {Nothing}]
  <2>1. PICK shown \in Seq(Message) : shown = messages' BY <1>3
  <2> QED BY <1>1, <2>1, SessionStored
<1>6. ChatTypeOK'
  <2>1. <<>> \in Seq(Piece) OBVIOUS
  <2>2. 0 \in 0..MaxReplyTokens /\ 0 \in Nat BY ChatAssumption
  <2> QED BY <1>1, <1>3, <1>5, <2>1, <2>2 DEF ChatTypeOK
<1>7. ReplyHasMessage' BY <1>1, <1>3 DEF ReplyHasMessage
<1>8. PiecesInOrder' BY <1>1, <1>4 DEF PiecesInOrder
<1>9. LinesEnd' BY <1>1 DEF LinesEnd
<1>10. NothingLost'
  <2>1. <<>> = [i \in 1..Len(<<>>) |-> i] /\ Len(<<>>) = 0 /\ \A n \in (0 + 1)..0 : FALSE
    OBVIOUS
  <2> QED BY <1>1, <1>4, <2>1 DEF NothingLost
<1> QED BY <1>5, <1>6, <1>7, <1>8, <1>9, <1>10

LEMMA OpensKeeps ==
  ASSUME ChatInv, Opens
  PROVE  ChatInv'
<1> USE DEF ChatInv, Opens
<1>1. LastText' = LastText BY DEF LastText
<1>2. ChatTypeOK' BY DEF ChatTypeOK
<1>3. ReplyHasMessage' BY DEF ReplyHasMessage
<1>4. ConversationsKept' BY DEF ConversationsKept
<1>5. isStreaming => PiecesInOrder' BY <1>1 DEF PiecesInOrder
<1>6. isStreaming => LinesEnd' BY DEF LinesEnd
<1>7. isStreaming => NothingLost' BY <1>1 DEF NothingLost
<1> QED BY <1>2, <1>3, <1>4, <1>5, <1>6, <1>7

LEMMA BodyEndsKeeps ==
  ASSUME ChatInv, BodyEnds
  PROVE  ChatInv'
<1> USE DEF ChatInv, BodyEnds
<1>1. LastText' = LastText BY DEF LastText
<1>2. ChatTypeOK' BY DEF ChatTypeOK
<1>3. ReplyHasMessage' BY DEF ReplyHasMessage
<1>4. ConversationsKept' BY DEF ConversationsKept
<1>5. isStreaming => PiecesInOrder' BY <1>1 DEF PiecesInOrder
<1>6. isStreaming => LinesEnd' BY DEF LinesEnd
<1>7. isStreaming => NothingLost' BY <1>1 DEF NothingLost
<1> QED BY <1>2, <1>3, <1>4, <1>5, <1>6, <1>7

\* What the backend writes.
LEMMA WrittenKeeps ==
  ASSUME ChatInv, stream = "open",
         NEW p \in Piece, pipe' = Append(pipe, p),
         UNCHANGED <<stream, buffer, messages, known, isStreaming, counter, stored, final>>,
         Brings(p) => ~half /\ sent' = sent + 1 /\ p[2] = sent' /\ sent < MaxReplyTokens,
         ~Brings(p) => sent' = sent,
         p[1] = "tail" => half,
         half' = (p[1] = "head" \/ (half /\ p[1] # "tail")),
         torn' = (torn \/ (half /\ p[1] = "tool")),
         toolCalls' \in Nat
  PROVE  ChatInv'
<1> USE DEF ChatInv
<1>1. isStreaming /\ messages # <<>> BY DEF ReplyHasMessage
<1>2. PiecesInOrder' /\ LinesEnd' /\ NothingLost' BY <1>1, PieceWritten
<1>3. ChatTypeOK'
  <2>1. sent' \in 0..MaxReplyTokens
    <3>1. sent \in 0..MaxReplyTokens BY DEF ChatTypeOK
    <3>2. CASE Brings(p) BY <3>1, <3>2, ChatAssumption
    <3>3. CASE ~Brings(p) BY <3>1, <3>3
    <3> QED BY <3>2, <3>3
  <2>2. pipe' \in Seq(Piece) BY DEF ChatTypeOK
  <2>3. half' \in BOOLEAN /\ torn' \in BOOLEAN OBVIOUS
  <2> QED BY <2>1, <2>2, <2>3 DEF ChatTypeOK
<1>4. ReplyHasMessage' BY DEF ReplyHasMessage
<1>5. ConversationsKept' BY DEF ConversationsKept
<1> QED BY <1>2, <1>3, <1>4, <1>5

LEMMA ChunkKeeps ==
  ASSUME ChatInv, Chunk
  PROVE  ChatInv'
<1>1. /\ stream = "open" /\ toolCalls' \in Nat /\ sent \in 0..MaxReplyTokens
      /\ half \in BOOLEAN /\ torn' = torn /\ torn \in BOOLEAN
      /\ UNCHANGED <<stream, buffer, messages, known, isStreaming, counter, stored, final>>
  BY DEF Chunk, ChatInv, ChatTypeOK
<1>2. CASE /\ ~half /\ sent < MaxReplyTokens /\ sent' = sent + 1
           /\ Writes(<<"line", sent + 1>>) /\ half' = half
  <2>1. PICK n \in 1..MaxReplyTokens : n = sent + 1 BY <1>1, <1>2, ChatAssumption
  <2>2. PICK p \in Piece : p = <<"line", n>> BY PiecesAre
  <2>3. p[1] = "line" /\ p[2] = n BY <2>2
  <2>4. pipe' = Append(pipe, p) BY <1>2, <2>1, <2>2 DEF Writes
  <2>5. half' = (p[1] = "head" \/ (half /\ p[1] # "tail")) BY <1>1, <1>2, <2>3
  <2>6. torn' = (torn \/ (half /\ p[1] = "tool")) BY <1>1, <1>2, <2>3
  <2> QED BY <1>1, <1>2, <2>1, <2>3, <2>4, <2>5, <2>6, WrittenKeeps DEF Brings
<1>3. CASE /\ ~half /\ sent < MaxReplyTokens /\ sent' = sent + 1
           /\ Writes(<<"head", sent + 1>>) /\ half' = TRUE
  <2>1. PICK n \in 1..MaxReplyTokens : n = sent + 1 BY <1>1, <1>3, ChatAssumption
  <2>2. PICK p \in Piece : p = <<"head", n>> BY PiecesAre
  <2>3. p[1] = "head" /\ p[2] = n BY <2>2
  <2>4. pipe' = Append(pipe, p) BY <1>3, <2>1, <2>2 DEF Writes
  <2>5. half' = (p[1] = "head" \/ (half /\ p[1] # "tail")) BY <1>1, <1>3, <2>3
  <2>6. torn' = (torn \/ (half /\ p[1] = "tool")) BY <1>1, <1>3, <2>3
  <2> QED BY <1>1, <1>3, <2>1, <2>3, <2>4, <2>5, <2>6, WrittenKeeps DEF Brings
<1>4. CASE half /\ half' = FALSE /\ Writes(<<"tail", sent>>) /\ sent' = sent
  <2>1. PICK n \in 1..MaxReplyTokens : n = sent
    <3>1. isStreaming BY <1>1 DEF ChatInv, ReplyHasMessage
    <3>2. sent > 0 BY <1>4, <3>1 DEF ChatInv, LinesEnd
    <3> QED BY <1>1, <3>2, ChatAssumption
  <2>2. PICK p \in Piece : p = <<"tail", n>> BY PiecesAre
  <2>3. p[1] = "tail" /\ p[2] = n BY <2>2
  <2>4. pipe' = Append(pipe, p) BY <1>4, <2>1, <2>2 DEF Writes
  <2>5. half' = (p[1] = "head" \/ (half /\ p[1] # "tail")) BY <1>1, <1>4, <2>3
  <2>6. torn' = (torn \/ (half /\ p[1] = "tool")) BY <1>1, <1>4, <2>3
  <2> QED BY <1>1, <1>4, <2>3, <2>4, <2>5, <2>6, WrittenKeeps DEF Brings
<1> QED BY <1>2, <1>3, <1>4 DEF Chunk

LEMMA ToolCallKeeps ==
  ASSUME ChatInv, NEW t \in Tools, ToolCall(t)
  PROVE  ChatInv'
<1>1. /\ stream = "open" /\ toolCalls' \in Nat /\ half \in BOOLEAN
      /\ half' = half /\ sent' = sent /\ torn' = (torn \/ half)
      /\ UNCHANGED <<stream, buffer, messages, known, isStreaming, counter, stored, final>>
  BY DEF ToolCall, ChatInv, ChatTypeOK
<1>2. PICK p \in Piece : p = <<"tool", t>> BY PiecesAre
<1>3. p[1] = "tool" BY <1>2
<1>4. pipe' = Append(pipe, p) BY <1>2 DEF ToolCall, Writes
<1>5. half' = (p[1] = "head" \/ (half /\ p[1] # "tail")) BY <1>1, <1>3
<1>6. torn' = (torn \/ (half /\ p[1] = "tool")) BY <1>1, <1>3
<1> QED BY <1>1, <1>3, <1>4, <1>5, <1>6, WrittenKeeps DEF Brings

\* A token in the last message.
LEMMA ShowsAppends ==
  ASSUME ChatTypeOK, messages # <<>>, NEW token \in Nat, Shows(token)
  PROVE  messages' \in Seq(Message) /\ messages' # <<>> /\ LastText' = Append(LastText, token)
<1>1. PICK L \in DOMAIN messages : L = Len(messages)
  BY LastTextTyped
<1>2. PICK m : m = [text |-> Append(LastText, token), tools |-> known] OBVIOUS
<1>3. m \in Message /\ m.text = Append(LastText, token)
  <2>1. Append(LastText, token) \in Seq(Nat) BY LastTextTyped
  <2> QED BY <1>2, <2>1 DEF Message, ChatTypeOK
<1>4. messages' = [messages EXCEPT ![L] = m] BY <1>1, <1>2 DEF Shows, LastWith, LastText
<1>5. /\ messages' \in Seq(Message) /\ Len(messages') = L /\ messages'[L] = m
      /\ messages' # <<>>
  BY <1>1, <1>3, <1>4 DEF ChatTypeOK
<1> QED BY <1>3, <1>5 DEF LastText

LEMMA ReadKeeps ==
  ASSUME ChatInv, Read
  PROVE  ChatInv'
<1> USE DEF ChatInv
<1>1. /\ isStreaming /\ pipe # <<>> /\ pipe' = Tail(pipe)
      /\ UNCHANGED <<stream, sent, half, torn, toolCalls, isStreaming, counter, stored, final>>
  BY DEF Read
<1>2. /\ messages # <<>> /\ 1 \in DOMAIN pipe /\ Head(pipe) = pipe[1] /\ pipe' \in Seq(Piece)
      /\ pipe[1] \in Piece /\ pipe[1][1] \in {"line", "head", "tail", "tool"}
      /\ pipe[1][1] # "tool" => pipe[1][2] \in 1..MaxReplyTokens /\ pipe[1][2] \in Nat
      /\ pipe[1][1] = "tool" => pipe[1][2] \in Tools
  <2>1. messages # <<>> BY <1>1 DEF ReplyHasMessage
  <2>2. 1 \in DOMAIN pipe /\ Head(pipe) = pipe[1] /\ pipe' \in Seq(Piece) BY <1>1, PipeMoves
  <2>3. pipe[1] \in Piece BY <2>2, PipeFields
  <2> QED BY <2>1, <2>2, <2>3, PieceFields
<1>3. ASSUME NEW token, Comes(token), Shows(token), buffer' = Nothing, known' = known,
             pipe[1][1] # "head", pipe[1][1] # "tool"
      PROVE  ChatInv'
  <2>1. token \in Nat BY <1>1, <1>2, <1>3, TokenComes
  <2>2. messages' \in Seq(Message) /\ messages' # <<>> /\ LastText' = Append(LastText, token)
    BY <1>2, <1>3, <2>1, ShowsAppends
  <2>3. PiecesInOrder' /\ LinesEnd' /\ NothingLost' BY <1>1, <1>2, <1>3, <2>2, TokenShown
  <2>4. ChatTypeOK' BY <1>1, <1>2, <1>3, <2>2 DEF ChatTypeOK
  <2>5. ReplyHasMessage' BY <1>1, <2>2 DEF ReplyHasMessage
  <2>6. ConversationsKept' BY <1>1 DEF ConversationsKept
  <2> QED BY <2>3, <2>4, <2>5, <2>6
<1>4. ASSUME messages' = messages, known' \in SUBSET Tools,
             \/ pipe[1][1] = "head" /\ buffer' = pipe[1][2]
             \/ pipe[1][1] = "tail" /\ buffer = Nothing /\ buffer' = Nothing
             \/ pipe[1][1] = "tool" /\ buffer' = Nothing
      PROVE  ChatInv'
  <2>1. PiecesInOrder' /\ LinesEnd' /\ NothingLost' BY <1>1, <1>2, <1>4, NothingShown
  <2>2. buffer' \in (1..MaxReplyTokens) \cup {Nothing} BY <1>2, <1>4
  <2>3. ChatTypeOK' BY <1>1, <1>2, <1>4, <2>2 DEF ChatTypeOK
  <2>4. ReplyHasMessage' BY <1>1, <1>4 DEF ReplyHasMessage
  <2>5. ConversationsKept' BY <1>1 DEF ConversationsKept
  <2> QED BY <2>1, <2>3, <2>4, <2>5
<1>5. CASE pipe[1][1] = "line"
  <2>1. Shows(pipe[1][2]) /\ buffer' = buffer /\ known' = known BY <1>2, <1>5 DEF Read
  <2>2. Brings(pipe[1]) BY <1>5 DEF Brings
  <2>3. buffer = Nothing BY <1>1, <2>2, NextPiece
  <2>4. Comes(pipe[1][2]) BY <2>2 DEF Comes
  <2> QED BY <1>3, <1>5, <2>1, <2>3, <2>4
<1>6. CASE pipe[1][1] = "head"
  <2>1. buffer' = pipe[1][2] /\ known' = known /\ messages' = messages
    BY <1>2, <1>6 DEF Read
  <2> QED BY <1>4, <1>6, <2>1 DEF ChatTypeOK
<1>7. CASE pipe[1][1] = "tail"
  <2>1. /\ buffer' = Nothing /\ known' = known
        /\ IF buffer = Nothing THEN messages' = messages ELSE Shows(buffer)
    BY <1>2, <1>7 DEF Read
  <2>2. CASE buffer = Nothing BY <1>4, <1>7, <2>1, <2>2 DEF ChatTypeOK
  <2>3. CASE buffer # Nothing
    <3>1. Comes(buffer) BY <2>3 DEF Comes
    <3> QED BY <1>3, <1>7, <2>1, <2>3, <3>1
  <2> QED BY <2>2, <2>3
<1>8. CASE pipe[1][1] = "tool"
  <2>1. /\ buffer' = Nothing /\ messages' = messages
        /\ known' = IF buffer = Nothing THEN known \cup {pipe[1][2]} ELSE known
    BY <1>2, <1>8 DEF Read
  <2>2. known' \in SUBSET Tools BY <1>2, <1>8, <2>1 DEF ChatTypeOK
  <2> QED BY <1>4, <1>8, <2>1, <2>2
<1> QED BY <1>2, <1>5, <1>6, <1>7, <1>8

\* The reply is over: it is stored as it is shown.
LEMMA FinishKeeps ==
  ASSUME ChatInv, NEW shown \in Seq(Message), Finish(shown)
  PROVE  ChatInv'
<1> USE DEF ChatInv
<1>1. /\ messages' = shown /\ stored' = [stored EXCEPT ![counter] = shown]
      /\ isStreaming' = FALSE /\ stream' = "none"
      /\ UNCHANGED <<sent, half, torn, toolCalls, pipe, buffer, known, counter, final>>
  BY DEF Finish, saveMessages
<1>2. ConversationsKept' /\ stored' \in [SessionNumbers -> Seq(Message) \cup {Nothing}]
  BY <1>1, SessionStored
<1>3. ChatTypeOK' BY <1>1, <1>2 DEF ChatTypeOK
<1>4. ReplyHasMessage' BY <1>1 DEF ReplyHasMessage
<1> QED BY <1>1, <1>2, <1>3, <1>4

LEMMA DoneKeeps ==
  ASSUME ChatInv, Done
  PROVE  ChatInv'
BY FinishKeeps DEF Done, ChatInv, ChatTypeOK

LEMMA FailsKeeps ==
  ASSUME ChatInv, Fails
  PROVE  ChatInv'
<1>1. Failed \in Message
  <2>1. <<0>> \in Seq(Nat) OBVIOUS
  <2> QED BY <2>1 DEF Failed, Message
<1>2. isStreaming /\ messages # <<>> /\ messages \in Seq(Message)
  BY DEF Fails, ChatInv, ReplyHasMessage, ChatTypeOK
<1>3. LastWith(Failed) \in Seq(Message)
  <2>1. Len(messages) \in DOMAIN messages BY <1>2
  <2> QED BY <1>1, <1>2, <2>1 DEF LastWith
<1>4. PICK shown \in Seq(Message) : shown = LastWith(Failed) BY <1>3
<1> QED BY <1>4, FinishKeeps DEF Fails

LEMMA ReloadKeeps ==
  ASSUME ChatInv, Reload
  PROVE  ChatInv'
<1> USE DEF ChatInv
<1>1. /\ messages' = IF stored[counter] = Nothing THEN <<>> ELSE stored[counter]
      /\ isStreaming' = FALSE /\ stream' = "none"
      /\ UNCHANGED <<sent, half, torn, toolCalls, pipe, buffer, known, counter, stored, final>>
  BY DEF Reload
<1>2. messages' \in Seq(Message)
  <2>1. <<>> \in Seq(Message) OBVIOUS
  <2>2. stored[counter] \in Seq(Message) \cup {Nothing} BY DEF ChatTypeOK
  <2> QED BY <1>1, <2>1, <2>2
<1>3. ChatTypeOK' BY <1>1, <1>2 DEF ChatTypeOK
<1>4. ReplyHasMessage' BY <1>1 DEF ReplyHasMessage
<1>5. ConversationsKept' BY <1>1 DEF ConversationsKept
<1> QED BY <1>1, <1>3, <1>4, <1>5

LEMMA ResetSessionKeeps ==
  ASSUME ChatInv, resetSession
  PROVE  ChatInv'
<1> USE DEF ChatInv
<1>1. /\ ~isStreaming /\ counter < MaxSessions /\ counter' = counter + 1
      /\ messages' = <<>> /\ final' = [final EXCEPT ![counter] = messages]
      /\ UNCHANGED <<stream, sent, half, torn, toolCalls, pipe, buffer, known, isStreaming>>
  BY DEF resetSession, reply
<1>2. stored' = [k \in SessionNumbers |-> IF k + 2 < counter + 1 THEN Nothing ELSE stored[k]]
  BY <1>1 DEF resetSession, Prune
<1>3. counter \in SessionNumbers /\ counter' \in SessionNumbers /\ \A k \in SessionNumbers : k \in Nat
  BY <1>1, ChatAssumption DEF ChatTypeOK, SessionNumbers
<1>4. /\ messages \in Seq(Message) /\ <<>> \in Seq(Message)
      /\ stored \in [SessionNumbers -> Seq(Message) \cup {Nothing}]
      /\ final \in [SessionNumbers -> Seq(Message) \cup {Nothing}]
  BY DEF ChatTypeOK
<1>5. /\ final' \in [SessionNumbers -> Seq(Message) \cup {Nothing}]
      /\ stored' \in [SessionNumbers -> Seq(Message) \cup {Nothing}]
      /\ final'[counter] = messages
      /\ \A k \in SessionNumbers : k # counter => final'[k] = final[k]
      /\ \A k \in SessionNumbers :
           stored'[k] = IF k + 2 < counter + 1 THEN Nothing ELSE stored[k]
  BY <1>1, <1>2, <1>3, <1>4
<1>6. ChatTypeOK' BY <1>1, <1>3, <1>4, <1>5 DEF ChatTypeOK
<1>7. ReplyHasMessage' BY <1>1 DEF ReplyHasMessage
<1>8. ConversationsKept'
  <2>1. stored'[counter'] = Nothing
    <3>1. counter' > counter BY <1>1, <1>3
    <3>2. stored[counter'] = Nothing BY <1>3, <3>1 DEF ConversationsKept
    <3> QED BY <1>3, <1>5, <3>2
  <2>2. messages = IF stored[counter] = Nothing THEN <<>> ELSE stored[counter]
    BY <1>1 DEF ConversationsKept
  <2>3. ASSUME NEW k \in SessionNumbers
        PROVE  IF k + 2 < counter' \/ k > counter' THEN stored'[k] = Nothing
               ELSE k < counter' => final'[k] = IF stored'[k] = Nothing THEN <<>> ELSE stored'[k]
    <3>1. CASE k + 2 < counter' BY <1>1, <1>5, <3>1
    <3>2. CASE k > counter'
      <4>1. k > counter BY <1>1, <1>3, <3>2
      <4>2. stored[k] = Nothing BY <4>1 DEF ConversationsKept
      <4> QED BY <1>5, <3>2, <4>2
    <3>3. CASE k = counter' BY <1>3, <3>3
    <3>4. CASE k = counter
      <4>1. ~(k + 2 < counter + 1) BY <1>3, <3>4
      <4>2. stored'[k] = stored[k] /\ final'[k] = messages BY <1>5, <3>4, <4>1
      <4>3. ~(k + 2 < counter' \/ k > counter') BY <1>1, <1>3, <3>4
      <4> QED BY <2>2, <3>4, <4>2, <4>3
    <3>5. CASE k < counter /\ ~(k + 2 < counter')
      <4>1. /\ ~(k + 2 < counter + 1) /\ ~(k + 2 < counter) /\ ~(k > counter) /\ k # counter
            /\ ~(k > counter')
        BY <1>1, <1>3, <3>5
      <4>2. final[k] = IF stored[k] = Nothing THEN <<>> ELSE stored[k]
        BY <3>5, <4>1 DEF ConversationsKept
      <4>3. stored'[k] = stored[k] /\ final'[k] = final[k] BY <1>5, <4>1
      <4> QED BY <3>5, <4>1, <4>2, <4>3
    <3>6. \/ k + 2 < counter' \/ k > counter' \/ k = counter' \/ k = counter
          \/ k < counter /\ ~(k + 2 < counter')
      BY <1>1, <1>3
    <3> QED BY <3>1, <3>2, <3>3, <3>4, <3>5, <3>6
  <2> QED BY <1>1, <2>1, <2>3 DEF ConversationsKept
<1> QED BY <1>1, <1>6, <1>7, <1>8

LEMMA ChatStutterKeeps ==
  ASSUME ChatInv, UNCHANGED chatVars
  PROVE  ChatInv'
<1> USE DEF ChatInv, chatVars, reply
<1>1. LastText' = LastText BY DEF LastText
<1>2. ChatTypeOK' BY DEF ChatTypeOK
<1>3. ReplyHasMessage' BY DEF ReplyHasMessage
<1>4. ConversationsKept' BY DEF ConversationsKept
<1>5. isStreaming => PiecesInOrder' BY <1>1 DEF PiecesInOrder
<1>6. isStreaming => LinesEnd' BY DEF LinesEnd
<1>7. isStreaming => NothingLost' BY <1>1 DEF NothingLost
<1> QED BY <1>2, <1>3, <1>4, <1>5, <1>6, <1>7

-----------------------------------------------------------------------------
(* The chat: the theorems                                                    *)

\* Whatever the gateway's chunks cut and the plugin writes between them, the
\* tokens that are shown, in the browser's buffer and in the stream are in the
\* order they were sent; those of a reply no chunk tore are all there
\* (use-assistant.ts:212-266); the conversations are stored as they are shown
\* (chat-storage.ts:84-109).
THEOREM ChatInvariant == ChatSpec => []ChatInv
<1>1. ChatInit => ChatInv BY ChatHoldsInitially
<1>2. ChatInv /\ [ChatNext]_chatVars => ChatInv'
  <2> SUFFICES ASSUME ChatInv, [ChatNext]_chatVars PROVE ChatInv' OBVIOUS
  <2>1. CASE sendMessage BY <2>1, SendMessageKeeps
  <2>2. CASE Opens BY <2>2, OpensKeeps
  <2>3. CASE Chunk BY <2>3, ChunkKeeps
  <2>4. CASE BodyEnds BY <2>4, BodyEndsKeeps
  <2>5. CASE \E t \in Tools : ToolCall(t) BY <2>5, ToolCallKeeps
  <2>6. CASE Read BY <2>6, ReadKeeps
  <2>7. CASE Done BY <2>7, DoneKeeps
  <2>8. CASE Fails BY <2>8, FailsKeeps
  <2>9. CASE Reload BY <2>9, ReloadKeeps
  <2>10. CASE resetSession BY <2>10, ResetSessionKeeps
  <2>11. CASE UNCHANGED chatVars BY <2>11, ChatStutterKeeps
  <2> QED
    BY <2>1, <2>2, <2>3, <2>4, <2>5, <2>6, <2>7, <2>8, <2>9, <2>10, <2>11 DEF ChatNext
<1> QED BY <1>1, <1>2, PTL DEF ChatSpec

\* The chat shows the tokens of a reply in their order, all of them once the
\* response has ended unless a chunk of the plugin tore one of its lines, and
\* keeps the last three conversations as they were left (use-assistant.ts:212-294,
\* chat-storage.ts:84-109).
THEOREM ReplyIsShown == ChatSpec => []ChatSound
<1>1. ChatInv => ChatSound
  <2> SUFFICES ASSUME ChatInv PROVE ChatSound OBVIOUS
  <2> USE DEF ChatInv
  <2>1. ASSUME isStreaming, stream = "ended", pipe = <<>>, ~torn
        PROVE  LastText = [i \in 1..sent |-> i]
    <3>1. PICK m : m = Len(LastText) /\ m \in Nat
      BY <2>1, LastTextTyped DEF ReplyHasMessage
    <3>2. DOMAIN pipe = {} BY <2>1
    <3>3. /\ LastText = [i \in 1..m |-> i] /\ m <= sent /\ ~half
          /\ \A n \in (m + 1)..sent : n = buffer
      BY <2>1, <3>1, <3>2 DEF NothingLost
    <3>4. buffer = Nothing BY <2>1, <3>2, <3>3 DEF LinesEnd
    <3>5. sent \in Nat BY DEF ChatTypeOK
    <3>6. m = sent
      <4> SUFFICES ASSUME m # sent PROVE FALSE OBVIOUS
      <4>1. sent \in (m + 1)..sent BY <3>1, <3>3, <3>5
      <4> QED BY <3>3, <3>4, <3>5, <4>1, ChatAssumption
    <3> QED BY <3>3, <3>6
  <2>2. ShownIsSent BY <2>1 DEF ShownIsSent, PiecesInOrder
  <2> QED BY <2>2 DEF ChatSound
<1> QED BY <1>1, ChatInvariant, PTL
=============================================================================
