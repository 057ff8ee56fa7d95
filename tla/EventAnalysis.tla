---------------------------- MODULE EventAnalysis ----------------------------
(***************************************************************************)
(* The Viator analysis of one conversation: the row the inbox polls          *)
(* (conversation-event.service.ts, the table conversation_event_analyses).  *)
(* The e-mail poll stores a message of Viator and then a pending row; an     *)
(* operator runs the analysis, which reads the newest messages, asks the     *)
(* gateway and stores what comes of it.  The job that should run it is never *)
(* queued (EmailIngest), so nobody else does.  The model behind the gateway  *)
(* is external; whatever goes wrong there is a result, "error".              *)
(***************************************************************************)
EXTENDS Naturals, Sequences, FiniteSetsExt

CONSTANTS
  Runs,         \* requests to run the analysis that can be in flight at once
  Window,       \* take: how many messages a run reads
  MaxMessages,  \* bound on the messages of the conversation
  NoAnalysis    \* no row, no run

VARIABLES
  thread,     \* who wrote each message: "viator", another "guest" or "us"
  announced,  \* the message of Viator whose pending row is yet to be written, 0
  analysis,   \* the row
  runs,       \* what each run in flight read
  overtaken,  \* whether a run was in flight when its newest e-mail came (history)
  missed      \* whether a pending row was not written (history)

analysisVars == <<thread, announced, analysis, runs, overtaken, missed>>

Writer == {"viator", "guest", "us"}
Result == {"ready", "insufficient_data", "not_applicable", "error"}
\* message: the one it is about, 0 for none.
AnalysisRow == [status : Result \cup {"pending"}, message : 0..MaxMessages]

AnalysisParameters ==
  /\ Window \in Nat /\ MaxMessages \in Nat
  /\ NoAnalysis \notin AnalysisRow
ASSUME AnalysisAssumption == AnalysisParameters

AnalysisInit ==
  /\ thread = <<>>
  /\ announced = 0
  /\ analysis = NoAnalysis
  /\ runs = [r \in Runs |-> NoAnalysis]
  /\ overtaken = FALSE
  /\ missed = FALSE

Running == \E r \in Runs : runs[r] # NoAnalysis

-----------------------------------------------------------------------------
(* The inbox and the e-mail poll, which takes one e-mail at a time          *)

StoreMessage(w) ==
  /\ Len(thread) < MaxMessages
  /\ w # "us" => announced = 0
  /\ thread' = Append(thread, w)
  /\ announced' = IF w = "viator" THEN Len(thread) + 1 ELSE announced
  /\ overtaken' = (overtaken \/ (w = "viator" /\ Running))
  /\ UNCHANGED <<analysis, runs, missed>>

\* upsertConversationEventAnalysisPending
Announce ==
  /\ announced # 0
  /\ analysis' = [status |-> "pending", message |-> announced]
  /\ announced' = 0
  /\ overtaken' = (overtaken /\ Running)
  /\ UNCHANGED <<thread, runs, missed>>

\* The error is caught, or the process dies: the e-mail is not taken again.
AnnounceFails ==
  /\ announced # 0
  /\ announced' = 0
  /\ missed' = TRUE
  /\ UNCHANGED <<thread, analysis, runs, overtaken>>

-----------------------------------------------------------------------------
(* runConversationEventAnalysis                                             *)

InboundRead ==
  {i \in DOMAIN thread : thread[i] # "us" /\ i + Window > Len(thread)}

\* Mutant: the messages come in the order they were sent.
Selected_Oldest ==
  IF InboundRead = {} THEN 0 ELSE Min(InboundRead)

\* The newest inbound message of those read.
Selected ==
  IF InboundRead = {} THEN 0 ELSE Max(InboundRead)

BeginRun(r) ==
  /\ runs[r] = NoAnalysis
  /\ runs' = [runs EXCEPT ![r] = [message |-> Selected]]
  /\ UNCHANGED <<thread, announced, analysis, overtaken, missed>>

\* persistConversationEventAnalysis: whatever the row says by then.
Persist(r) ==
  /\ runs[r] # NoAnalysis
  /\ \E s \in IF runs[r].message = 0 THEN {"insufficient_data"} ELSE Result :
       analysis' = [status |-> s, message |-> runs[r].message]
  /\ runs' = [runs EXCEPT ![r] = NoAnalysis]
  /\ UNCHANGED <<thread, announced, overtaken, missed>>

\* A read or write of the database that fails, or a death of the process.
RunThrows(r) ==
  /\ runs[r] # NoAnalysis
  /\ runs' = [runs EXCEPT ![r] = NoAnalysis]
  /\ UNCHANGED <<thread, announced, analysis, overtaken, missed>>

-----------------------------------------------------------------------------
AnalysisNext ==
  \/ \E w \in Writer : StoreMessage(w)
  \/ Announce \/ AnnounceFails
  \/ \E r \in Runs : BeginRun(r) \/ Persist(r) \/ RunThrows(r)

AnalysisSpec == AnalysisInit /\ [][AnalysisNext]_analysisVars

-----------------------------------------------------------------------------
(* Properties                                                               *)

AnalysisTypeOK ==
  /\ thread \in Seq(Writer)
  /\ announced \in 0..Len(thread)
  /\ analysis \in AnalysisRow \cup {NoAnalysis}
  /\ runs \in [Runs -> [message : 0..MaxMessages] \cup {NoAnalysis}]
  /\ overtaken \in BOOLEAN /\ missed \in BOOLEAN

\* An analysis of message m is not of an older one than the i-th, or finds none.
UpToDate(m, i) == m >= i \/ (m = 0 /\ i + Window <= Len(thread))

\* What the inbox shows is never about an e-mail older than the newest one of
\* Viator, unless a run was in flight when that one came, its row was not
\* written, or it lies behind as many newer messages as a run reads: then a run
\* finds no message (conversation-event.service.ts:151-188, 254-298, 363-368).
NewestAnalysed ==
  \A i \in DOMAIN thread :
    thread[i] = "viator" /\ i # announced /\ ~overtaken /\ ~missed =>
      /\ analysis # NoAnalysis
      /\ UpToDate(analysis.message, i)

\* (conversation-event.service.ts:151-369)
AnalysisSound == AnalysisTypeOK /\ NewestAnalysed

-----------------------------------------------------------------------------
(* What NewestAnalysed rests on                                             *)

\* The e-mail whose row is yet to be written is the newest one of Viator.
AnnouncedIsNewest ==
  announced # 0 => \A i \in DOMAIN thread : thread[i] = "viator" => i <= announced

\* What a run that was not overtaken has read is up to date, announced or not.
RunsUpToDate ==
  \A r \in Runs, i \in DOMAIN thread :
    runs[r] # NoAnalysis /\ thread[i] = "viator" /\ ~overtaken => UpToDate(runs[r].message, i)

\* The inductive invariant.
AnalysisIInv ==
  /\ AnalysisTypeOK /\ Len(thread) <= MaxMessages
  /\ AnnouncedIsNewest /\ RunsUpToDate /\ NewestAnalysed
==============================================================================
