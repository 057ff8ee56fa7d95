----------------------------- MODULE AssistantChat -----------------------------
(***************************************************************************)
(* The dashboard's chat with the assistant: the backend pipes the gateway's *)
(* event stream to the browser and writes a chunk of its own into it for    *)
(* every call of the plugin (assistant.routes.ts, lib/tool-activity.ts);    *)
(* the browser cuts the stream into lines and puts the reply together       *)
(* (use-assistant.ts), and keeps the conversation in localStorage under a   *)
(* counted session key (chat-storage.ts).                                   *)
(*                                                                         *)
(* The gateway is external. A chunk of its stream need not end where a line *)
(* does: a line arrives whole, or as a head and a tail. The tokens of a     *)
(* reply are 1, 2, ...; one browser tab is open, which may be reloaded.     *)
(***************************************************************************)
EXTENDS Naturals, Sequences

CONSTANTS
  Tools,         \* names of tools
  MaxReplyTokens,  \* bound on the tokens of a reply
  MaxSends,      \* bound on the messages of a session
  MaxSessions,
  MaxToolCalls,  \* bound on the plugin calls during a reply
  Nothing        \* no stored session, or no text in the buffer

VARIABLES
  stream,      \* the response: "none", "asked", "open", "ended" or "broken"
  sent,        \* tokens whose line the gateway has begun
  half,        \* the last chunk ended inside a line
  torn,        \* history: a tool chunk was written inside a line of this reply, or its
               \* body ended inside one
  toolCalls,   \* plugin calls during this reply
  pipe,        \* pieces written and not yet read
  buffer,      \* the token whose line is not complete yet, or Nothing
  known,       \* currentToolCalls
  messages,    \* what the tab shows: the replies to the messages sent
  isStreaming,
  counter,     \* the number of the session key
  stored,      \* localStorage, by session
  final        \* history: what a session showed when it was left

Message == [text: Seq(Nat), tools: SUBSET Tools]

ASSUME ChatAssumption ==
  /\ MaxReplyTokens \in Nat /\ MaxSessions \in Nat \ {0}
  /\ Nothing \notin Nat /\ Nothing \notin Seq(Message)

reply == <<stream, sent, half, torn, toolCalls, pipe, buffer, known>>
chatVars == <<reply, messages, isStreaming, counter, stored, final>>

Empty == [text |-> <<>>, tools |-> {}]
Failed == [text |-> <<0>>, tools |-> {}]  \* an apology instead of a reply
SessionNumbers == 1..MaxSessions

ChatInit ==
  /\ stream = "none" /\ sent = 0 /\ half = FALSE /\ torn = FALSE /\ toolCalls = 0
  /\ pipe = <<>> /\ buffer = Nothing /\ known = {}
  /\ messages = <<>> /\ isStreaming = FALSE
  /\ counter = 1
  /\ stored = [k \in SessionNumbers |-> Nothing]
  /\ final = [k \in SessionNumbers |-> Nothing]

saveMessages(shown) == stored' = [stored EXCEPT ![counter] = shown]

-----------------------------------------------------------------------------
(* The backend: POST /chat                                                   *)

NewReply ==
  /\ sent' = 0 /\ half' = FALSE /\ torn' = FALSE /\ toolCalls' = 0
  /\ pipe' = <<>> /\ buffer' = Nothing /\ known' = {}

\* The input is disabled while a reply streams (chat-input.tsx:32).
sendMessage ==
  /\ ~isStreaming /\ Len(messages) < MaxSends
  /\ messages' = Append(messages, Empty)
  /\ saveMessages(messages')
  /\ isStreaming' = TRUE
  /\ stream' = "asked"
  /\ NewReply
  /\ UNCHANGED <<counter, final>>

\* The gateway answers, and its body is piped.
Opens ==
  /\ stream = "asked"
  /\ stream' = "open"
  /\ UNCHANGED <<sent, half, torn, toolCalls, pipe, buffer, known, messages, isStreaming,
                 counter, stored, final>>

Writes(piece) == pipe' = Append(pipe, piece)

Chunk ==
  /\ stream = "open"
  /\ \/ /\ ~half /\ sent < MaxReplyTokens
        /\ sent' = sent + 1
        /\ \/ Writes(<<"line", sent + 1>>) /\ UNCHANGED half
           \/ Writes(<<"head", sent + 1>>) /\ half' = TRUE
     \/ /\ half
        /\ half' = FALSE
        /\ Writes(<<"tail", sent>>)
        /\ UNCHANGED sent
  /\ UNCHANGED <<stream, torn, toolCalls, buffer, known, messages, isStreaming, counter,
                 stored, final>>

\* onToolCall: a call of the plugin with the API key, whoever chats with it.
ToolCall(t) ==
  /\ stream = "open" /\ toolCalls < MaxToolCalls
  /\ toolCalls' = toolCalls + 1
  /\ Writes(<<"tool", t>>)
  /\ torn' = (torn \/ half)
  /\ UNCHANGED <<stream, sent, half, buffer, known, messages, isStreaming, counter, stored,
                 final>>

\* The body ends, or reading it fails: the response is ended all the same.
BodyEnds ==
  /\ stream = "open"
  /\ stream' = "ended"
  /\ torn' = (torn \/ half)
  /\ UNCHANGED <<sent, half, toolCalls, pipe, buffer, known, messages, isStreaming, counter,
                 stored, final>>

-----------------------------------------------------------------------------
(* The browser: useAssistant                                                 *)

LastWith(m) == [messages EXCEPT ![Len(messages)] = m]

\* A delta with content: the reply so far and the tools called before it.
Shows(token) ==
  messages' = LastWith([text |-> Append(messages[Len(messages)].text, token),
                        tools |-> known])

\* Mutant: the rest of a chunk after its last line break is not kept.
Read_NoBuffer ==
  /\ isStreaming /\ pipe # <<>>
  /\ pipe' = Tail(pipe)
  /\ LET piece == Head(pipe) IN
     CASE piece[1] = "line" -> Shows(piece[2]) /\ UNCHANGED <<buffer, known>>
       [] piece[1] \in {"head", "tail"} -> UNCHANGED <<buffer, known, messages>>
       [] piece[1] = "tool" -> known' = known \cup {piece[2]} /\ UNCHANGED <<buffer, messages>>
  /\ UNCHANGED <<stream, sent, half, torn, toolCalls, isStreaming, counter, stored, final>>

\* Lines are complete at their line break. A tool chunk inside a line makes a
\* line of both that is no JSON, and leaves a tail that is no data line.
Read ==
  /\ isStreaming /\ pipe # <<>>
  /\ pipe' = Tail(pipe)
  /\ LET piece == Head(pipe) IN
     CASE piece[1] = "line" -> Shows(piece[2]) /\ UNCHANGED <<buffer, known>>
       [] piece[1] = "head" -> buffer' = piece[2] /\ UNCHANGED <<known, messages>>
       [] piece[1] = "tail" ->
            /\ IF buffer = Nothing THEN UNCHANGED messages ELSE Shows(buffer)
            /\ buffer' = Nothing
            /\ UNCHANGED known
       [] piece[1] = "tool" ->
            /\ known' = IF buffer = Nothing THEN known \cup {piece[2]} ELSE known
            /\ buffer' = Nothing
            /\ UNCHANGED messages
  /\ UNCHANGED <<stream, sent, half, torn, toolCalls, isStreaming, counter, stored, final>>

\* finally: the reply is stored as it is shown.
Finish(shown) ==
  /\ messages' = shown
  /\ saveMessages(shown)
  /\ isStreaming' = FALSE
  /\ stream' = "none"
  /\ UNCHANGED <<sent, half, torn, toolCalls, pipe, buffer, known, counter, final>>

Done == isStreaming /\ stream = "ended" /\ pipe = <<>> /\ Finish(messages)

\* No answer or an error from the backend, or the connection breaks.
Fails ==
  /\ isStreaming
  /\ Finish(LastWith(Failed))

\* The tab reads the counter and the messages of its session.
Reload ==
  /\ messages' = IF stored[counter] = Nothing THEN <<>> ELSE stored[counter]
  /\ isStreaming' = FALSE
  /\ stream' = "none"
  /\ UNCHANGED <<sent, half, torn, toolCalls, pipe, buffer, known, counter, stored, final>>

\* pruneOldSessions, with MAX_SESSIONS_RETAINED = 3.
Prune(sessions, current) ==
  [k \in SessionNumbers |-> IF k + 2 < current THEN Nothing ELSE sessions[k]]

\* "New conversation" is disabled while a reply streams (chat-container.tsx:46).
resetSession ==
  /\ ~isStreaming /\ counter < MaxSessions
  /\ counter' = counter + 1
  /\ stored' = Prune(stored, counter')
  /\ messages' = <<>>
  /\ final' = [final EXCEPT ![counter] = messages]
  /\ UNCHANGED <<reply, isStreaming>>

-----------------------------------------------------------------------------
ChatNext ==
  \/ sendMessage \/ Opens \/ Chunk \/ BodyEnds
  \/ \E t \in Tools : ToolCall(t)
  \/ Read \/ Done \/ Fails \/ Reload \/ resetSession

ChatSpec == ChatInit /\ [][ChatNext]_chatVars

-----------------------------------------------------------------------------
(* Properties                                                                *)

LastText == messages[Len(messages)].text

\* The browser shows the tokens in the order they were sent, none twice; it
\* shows them all when the response has ended, unless a tool's chunk was
\* written into a line (assistant.routes.ts:116-142, use-assistant.ts:212-266).
ShownIsSent ==
  isStreaming =>
    /\ \A i, j \in DOMAIN LastText : i < j => LastText[i] < LastText[j]
    /\ stream = "ended" /\ pipe = <<>> /\ ~torn => LastText = [i \in 1..sent |-> i]

\* Between replies a reload changes nothing: the conversation is stored as it is
\* shown. The last three conversations are kept as they were left and no other
\* (chat-storage.ts:84-109, use-assistant.ts:285-294).
ConversationsKept ==
  /\ ~isStreaming => messages = IF stored[counter] = Nothing THEN <<>> ELSE stored[counter]
  /\ \A k \in SessionNumbers :
       IF k + 2 < counter \/ k > counter THEN stored[k] = Nothing
       ELSE k < counter =>
              final[k] = IF stored[k] = Nothing THEN <<>> ELSE stored[k]

\* The chat shows what the agent said and keeps it (the two above).
ChatSound == ShownIsSent /\ ConversationsKept

-----------------------------------------------------------------------------
(* What ChatSound rests on                                                   *)

Piece == ({"line", "head", "tail"} \X (1..MaxReplyTokens)) \cup ({"tool"} \X Tools)

ChatTypeOK ==
  /\ stream \in {"none", "asked", "open", "ended"}
  /\ sent \in 0..MaxReplyTokens
  /\ half \in BOOLEAN /\ torn \in BOOLEAN
  /\ toolCalls \in Nat
  /\ pipe \in Seq(Piece)
  /\ buffer \in (1..MaxReplyTokens) \cup {Nothing}
  /\ known \in SUBSET Tools
  /\ messages \in Seq(Message)
  /\ isStreaming \in BOOLEAN
  /\ counter \in SessionNumbers
  /\ stored \in [SessionNumbers -> Seq(Message) \cup {Nothing}]
  /\ final \in [SessionNumbers -> Seq(Message) \cup {Nothing}]

\* A reply that streams has a message to appear in.
ReplyHasMessage ==
  /\ stream # "none" => isStreaming
  /\ isStreaming => messages # <<>>

Brings(piece) == piece[1] \in {"line", "head"}
IsTail(piece) == piece[1] = "tail"

\* The tokens on their way follow those that are shown, and the one in the buffer.
PiecesInOrder ==
  /\ \A i, j \in DOMAIN LastText : i < j => LastText[i] < LastText[j]
  /\ \A i \in DOMAIN LastText :
       /\ LastText[i] <= sent
       /\ buffer # Nothing => LastText[i] < buffer
       /\ \A j \in DOMAIN pipe : Brings(pipe[j]) => LastText[i] < pipe[j][2]
  /\ buffer # Nothing => buffer <= sent
  /\ \A i \in DOMAIN pipe : Brings(pipe[i]) =>
       /\ pipe[i][2] <= sent
       /\ buffer # Nothing => buffer < pipe[i][2]
       /\ \A j \in DOMAIN pipe : i < j /\ Brings(pipe[j]) => pipe[i][2] < pipe[j][2]

\* A line that was begun is ended before the next one, if it ever is.
LinesEnd ==
  /\ half => sent > 0
  /\ \A k \in DOMAIN pipe : Brings(pipe[k]) =>
       /\ buffer # Nothing => \E j \in 1..(k - 1) : IsTail(pipe[j])
       /\ \A i \in 1..(k - 1) : pipe[i][1] = "head" =>
            \E j \in (i + 1)..(k - 1) : IsTail(pipe[j])
  /\ ~half =>
       /\ buffer # Nothing => \E j \in DOMAIN pipe : IsTail(pipe[j])
       /\ \A i \in DOMAIN pipe : pipe[i][1] = "head" =>
            \E j \in DOMAIN pipe : i < j /\ IsTail(pipe[j])

\* So long as no line is torn, what is shown, in the buffer and on its way is
\* all that was sent.
NothingLost ==
  ~torn =>
    /\ LastText = [i \in 1..Len(LastText) |-> i] /\ Len(LastText) <= sent
    /\ buffer # Nothing =>
         buffer = Len(LastText) + 1 /\ (pipe # <<>> => IsTail(pipe[1]))
    /\ \A n \in (Len(LastText) + 1)..sent :
         n = buffer \/ \E i \in DOMAIN pipe : Brings(pipe[i]) /\ pipe[i][2] = n
    /\ \A i \in DOMAIN pipe :
         pipe[i][1] = "head" /\ i + 1 \in DOMAIN pipe => IsTail(pipe[i + 1])
    /\ stream = "ended" => ~half

\* The inductive invariant.
ChatInv ==
  /\ ChatTypeOK /\ ReplyHasMessage /\ ConversationsKept
  /\ isStreaming => PiecesInOrder /\ LinesEnd /\ NothingLost
================================================================================
