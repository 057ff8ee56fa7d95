----------------------------- MODULE MCAssistant -----------------------------
(***************************************************************************)
(* The assistant's components, one at a time: they share no variable, so    *)
(* what one does is the same whatever the others do. `part` says which one  *)
(* runs.                                                                    *)
(***************************************************************************)
EXTENDS ConfirmationRefinement, AgentRun, AssistantChat, FiniteSets, TLC

VARIABLES
  part,
  toolPending, toolRequest, toolReply  \* AssistantTools: a pending action of its own

CONSTANTS a1, a2, s1, s2, c1, c2

MCActions == {a1, a2}
MCSessions == {s1, s2}
MCCalls == {c1, c2}

T == INSTANCE AssistantTools
       WITH pending <- toolPending, request <- toolRequest, reply <- toolReply, NoCall <- Nothing

toolVars == <<toolPending, toolRequest, toolReply>>

\* Two actions in one session and one call at a time, or one action, two
\* sessions and two calls.
Small ==
  \/ Cardinality({a \in Actions : prepared[a] # None}) <= 1
  \/ /\ \E s \in Sessions :
          /\ \A t \in Sessions \ {s} : said[t] = <<>>
          /\ \A a \in Actions : prepared[a] # None => prepared[a].session = s
          /\ \A c \in Calls : calls[c] # Idle => calls[c].session = s
     /\ Cardinality({c \in Calls : calls[c] # Idle}) <= 1
MCInit ==
  /\ part \in {"confirmation", "run", "chat", "tools"}
  /\ Init /\ AgentInit /\ ChatInit /\ T!Init
  /\ part # "run" => style = "deltas" /\ keys = "scoped" /\ linked

MCNext ==
  /\ part' = part
  /\ \/ part = "confirmation" /\ Next /\ Small' /\ UNCHANGED <<agentVars, chatVars, toolVars>>
     \/ part = "run" /\ AgentNext /\ UNCHANGED <<vars, chatVars, toolVars>>
     \/ part = "chat" /\ ChatNext /\ UNCHANGED <<vars, agentVars, toolVars>>
     \/ part = "tools" /\ T!Next /\ UNCHANGED <<vars, agentVars, chatVars>>

MCSpec == MCInit /\ [][MCNext]_<<part, vars, agentVars, chatVars, toolVars>>

MCSymmetry ==
  Permutations(MCActions) \cup Permutations(MCSessions) \cup Permutations(MCCalls)

PreparedIsTaken == T!PreparedIsTaken
==============================================================================
