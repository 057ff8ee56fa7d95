------------------------------- MODULE AgentRun -------------------------------
(***************************************************************************)
(* One run of the agent and the caller that waits for its text: the         *)
(* gateway client turns the run's `agent` events into chat events           *)
(* (gateway-ws-client.ts) and collectAgentText puts the text together       *)
(* (agent-stream.ts), for the classifier, the booking and the Viator        *)
(* analysis. Drafts do the same with a listener of their own               *)
(* (draft-generator.ts).                                                    *)
(*                                                                         *)
(* The gateway is external: the events of a run carry its text so far or    *)
(* only what is new, the session key with or without the agent's prefix,    *)
(* and an older gateway sends legacy `chat` events beside them. Events that *)
(* are under way when the connection drops are lost, the run goes on.       *)
(* The text is the sequence 1, 2, ... of its tokens.                        *)
(***************************************************************************)
EXTENDS Naturals, Sequences

CONSTANTS
  MaxTokens,  \* bound on the tokens of a run
  MaxDrops,   \* bound on connections that drop
  NoRun

ASSUME AgentAssumption == MaxTokens \in Nat /\ NoRun \notin Seq(Nat)

VARIABLES
  style,     \* what the assistant events carry: "snapshots" or "deltas"
  keys,      \* the session keys events carry: "scoped", "unscoped" or "both"
  linked,    \* whether the client is connected
  drops,
  run,       \* the run at the gateway: "none", "active" or "over"
  tokens,    \* tokens it has said
  wire,      \* events on their way to the client
  rpc,       \* the agent request: "none", "pending" or "answered"
  runText,   \* state.text in agentRuns, or NoRun
  content, sawScoped,
  outcome    \* of collectAgentText: "none", "waiting", "resolved" or "rejected"

gateway == <<style, keys, run, tokens>>
collector == <<content, sawScoped, outcome>>
agentVars == <<gateway, linked, drops, wire, rpc, runText, collector>>

Text(n) == [i \in 1..n |-> i]

AgentInit ==
  /\ style \in {"snapshots", "deltas"}
  /\ keys \in {"scoped", "unscoped", "both"}
  /\ linked \in BOOLEAN
  /\ drops = 0
  /\ run = "none" /\ tokens = 0
  /\ wire = <<>>
  /\ rpc = "none"
  /\ runText = NoRun
  /\ content = <<>> /\ sawScoped = FALSE
  /\ outcome = "none"

-----------------------------------------------------------------------------
(* The gateway                                                               *)

Agent(stream, isScoped) ==
  [type |-> "agent", stream |-> stream, scoped |-> isScoped, token |-> tokens']
Chat(stream) == [type |-> "chat", stream |-> stream, scoped |-> FALSE, token |-> tokens']

Events(stream) ==
  CASE keys = "scoped" -> {<<Agent(stream, TRUE)>>}
    [] keys = "unscoped" -> {<<Agent(stream, FALSE)>>}
    [] keys = "both" -> {<<Agent(stream, TRUE), Chat(stream)>>,
                         <<Chat(stream), Agent(stream, TRUE)>>}

Sends(stream) ==
  IF linked THEN \E events \in Events(stream) : wire' = wire \o events
  ELSE UNCHANGED wire

Says ==
  /\ run = "active" /\ tokens < MaxTokens
  /\ tokens' = tokens + 1
  /\ Sends("assistant")
  /\ UNCHANGED <<style, keys, run, linked, drops, rpc, runText, collector>>

Ends(stream) ==
  /\ run = "active"
  /\ run' = "over"
  /\ tokens' = tokens
  /\ Sends(stream)
  /\ UNCHANGED <<style, keys, linked, drops, rpc, runText, collector>>

-----------------------------------------------------------------------------
(* collectAgentText                                                          *)

Settles(how) == outcome' = IF outcome = "waiting" THEN how ELSE outcome

\* The callers look at isConnected first; request throws without a connection.
Ask ==
  /\ outcome = "none"
  /\ IF linked
     THEN run' = "active" /\ rpc' = "pending" /\ outcome' = "waiting"
     ELSE outcome' = "rejected" /\ UNCHANGED <<run, rpc>>
  /\ UNCHANGED <<style, keys, tokens, linked, drops, wire, runText, content, sawScoped>>

Answered(ok) ==
  /\ rpc = "pending" /\ linked
  /\ rpc' = "answered"
  /\ IF ok THEN UNCHANGED outcome ELSE Settles("rejected")
  /\ UNCHANGED <<gateway, linked, drops, wire, runText, content, sawScoped>>

\* The timer of the caller, or the shorter one of the request.
Timeout ==
  /\ outcome = "waiting"
  /\ outcome' = "rejected"
  /\ UNCHANGED <<gateway, linked, drops, wire, rpc, runText, content, sawScoped>>

\* Mutant: the final text is taken for one more delta.
Joined_FinalAppends(text, snapshot, state) ==
  IF text = <<>> THEN content
  ELSE IF snapshot /\ state = "delta" THEN text ELSE content \o text

Joined(text, snapshot, state) ==
  IF text = <<>> THEN content ELSE IF snapshot THEN text ELSE content \o text

\* The listener: a chat event with its text, for the run's session.
Hears(scoped, state, text, snapshot) ==
  /\ sawScoped' = (sawScoped \/ (outcome = "waiting" /\ scoped))
  /\ IF outcome # "waiting" \/ (~scoped /\ sawScoped)
     THEN UNCHANGED <<content, outcome>>
     ELSE CASE state = "delta" -> content' = Joined(text, snapshot, state) /\ UNCHANGED outcome
            [] state = "final" -> content' = Joined(text, snapshot, state) /\ outcome' = "resolved"
            [] state \in {"error", "aborted"} -> outcome' = "rejected" /\ UNCHANGED content

-----------------------------------------------------------------------------
(* handleEvent                                                               *)

RunText == IF runText = NoRun THEN <<>> ELSE runText

assistantEvent(e) ==
  LET full == Text(e.token) IN
  IF style = "snapshots"
  THEN IF full = RunText
       THEN runText' = RunText /\ UNCHANGED collector
       ELSE runText' = full /\ Hears(e.scoped, "delta", full, TRUE)
  ELSE runText' = Append(RunText, e.token) /\ Hears(e.scoped, "delta", <<e.token>>, FALSE)

\* "final", "aborted" or "error": the run is over.
lastEvent(e) ==
  /\ runText' = NoRun
  /\ Hears(e.scoped, e.stream, IF e.stream = "final" THEN RunText ELSE <<>>, TRUE)

\* A legacy event goes to the listeners as it is.
chatEvent(e) ==
  /\ UNCHANGED runText
  /\ IF e.stream = "assistant" THEN Hears(e.scoped, "delta", <<e.token>>, FALSE)
     ELSE Hears(e.scoped, e.stream, <<>>, FALSE)

handleEvent ==
  /\ wire # <<>>
  /\ wire' = Tail(wire)
  /\ LET e == Head(wire) IN
     CASE e.type = "chat" -> chatEvent(e)
       [] e.type = "agent" /\ e.stream = "assistant" -> assistantEvent(e)
       [] e.type = "agent" /\ e.stream # "assistant" -> lastEvent(e)
  /\ UNCHANGED <<gateway, linked, drops, rpc>>

\* handleDisconnect: what the client knows of the run is gone, and a request
\* that is not answered is rejected.
Drop ==
  /\ linked /\ drops < MaxDrops
  /\ linked' = FALSE /\ drops' = drops + 1
  /\ wire' = <<>>
  /\ runText' = NoRun
  /\ IF rpc = "pending" THEN rpc' = "answered" /\ Settles("rejected")
     ELSE UNCHANGED <<rpc, outcome>>
  /\ UNCHANGED <<gateway, content, sawScoped>>

Reconnect ==
  /\ ~linked
  /\ linked' = TRUE
  /\ UNCHANGED <<gateway, drops, wire, rpc, runText, collector>>

-----------------------------------------------------------------------------
AgentNext ==
  \/ Ask \/ Says \/ Timeout \/ handleEvent \/ Drop \/ Reconnect
  \/ \E stream \in {"final", "aborted", "error"} : Ends(stream)
  \/ \E ok \in BOOLEAN : Answered(ok)

AgentSpec == AgentInit /\ [][AgentNext]_agentVars

-----------------------------------------------------------------------------
(* Properties                                                                *)

\* The text a caller gets is the text the agent said, whole and without a
\* token twice, in whichever form the events come (agent-stream.ts:88-121,
\* gateway-ws-client.ts:313-334). Across a dropped connection tokens may be
\* missing, but those that are there are in order and not repeated.
WholeText ==
  outcome = "resolved" =>
    IF drops = 0 THEN content = Text(tokens)
    ELSE keys # "both" =>
           \A i, j \in DOMAIN content : i < j => content[i] < content[j]

-----------------------------------------------------------------------------
(* What WholeText rests on                                                   *)

EventType ==
  [type: {"agent", "chat"}, stream: {"assistant", "final", "aborted", "error"},
   scoped: BOOLEAN, token: 0..MaxTokens]

AgentTypeOK ==
  /\ style \in {"snapshots", "deltas"}
  /\ keys \in {"scoped", "unscoped", "both"}
  /\ linked \in BOOLEAN
  /\ drops \in Nat
  /\ run \in {"none", "active", "over"}
  /\ tokens \in 0..MaxTokens
  /\ wire \in Seq(EventType)
  /\ rpc \in {"none", "pending", "answered"}
  /\ runText \in Seq(Nat) \cup {NoRun}
  /\ content \in Seq(Nat)
  /\ sawScoped \in BOOLEAN
  /\ outcome \in {"none", "waiting", "resolved", "rejected"}

\* Only an older gateway sends legacy events, and they have no agent's prefix.
KeysSound ==
  /\ \A i \in DOMAIN wire :
       /\ wire[i].type = "agent" => (wire[i].scoped <=> keys # "unscoped")
       /\ wire[i].type = "chat" => keys = "both" /\ ~wire[i].scoped
  /\ keys = "unscoped" => ~sawScoped

\* An agent event with text.
IsText(e) == e.type = "agent" /\ e.stream = "assistant"

Increasing(text) == \A i, j \in DOMAIN text : i < j => text[i] < text[j]

\* Texts come in order, and follow what was heard.
InOrder ==
  /\ \A i, j \in DOMAIN wire :
       i < j /\ IsText(wire[i]) /\ IsText(wire[j]) => wire[i].token < wire[j].token
  /\ \A i \in DOMAIN wire : wire[i].token <= tokens
  /\ keys # "both" =>
       \A text \in {RunText, content} :
         /\ Increasing(text)
         /\ \A i \in DOMAIN text :
              /\ text[i] <= tokens
              /\ \A j \in DOMAIN wire : IsText(wire[j]) => text[i] < wire[j].token

\* Nothing was said before somebody asked, and nothing heard of an empty text.
QuietBefore ==
  /\ outcome = "none" =>
       run = "none" /\ wire = <<>> /\ runText = NoRun /\ ~sawScoped
  /\ run = "none" => tokens = 0
  /\ tokens = 0 =>
       /\ content = <<>> /\ RunText = <<>>
       /\ \A i \in DOMAIN wire : wire[i].stream # "assistant"

\* While the caller waits, the text the client has and the texts under way are
\* what the agent said; the last event comes after them.
WholeUnderWay ==
  outcome = "waiting" /\ drops = 0 =>
    /\ linked /\ run # "none"
    /\ RunText = Text(Len(RunText)) /\ Len(RunText) <= tokens
    /\ \A n \in (Len(RunText) + 1)..tokens :
         \E i \in DOMAIN wire : IsText(wire[i]) /\ wire[i].token = n
    /\ \A i \in DOMAIN wire : IsText(wire[i]) => wire[i].token > Len(RunText)
    /\ \A i \in DOMAIN wire : wire[i].stream # "assistant" =>
         run = "over" /\ \A j \in DOMAIN wire : j > i => ~IsText(wire[j])
    /\ keys = "both" /\ RunText # <<>> => sawScoped

WholeWhenResolved ==
  outcome = "resolved" /\ drops = 0 => run = "over" /\ content = Text(tokens)

\* The inductive invariant.
AgentInv ==
  AgentTypeOK /\ KeysSound /\ InOrder /\ QuietBefore /\ WholeUnderWay /\ WholeWhenResolved
===============================================================================
