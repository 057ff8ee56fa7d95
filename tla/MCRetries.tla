------------------------------ MODULE MCRetries ------------------------------
(***************************************************************************)
(* What the e-mail poll and the calendar worker must get done at last.  They *)
(* share no variable: a behaviour is about one of them, and `part` says      *)
(* which.  At rest the other has no fair action to take.                     *)
(***************************************************************************)
EXTENDS CalendarSync, TLC

CONSTANTS b1, i1, i2, i3

VARIABLES
  part,
  (* EmailIngest *)
  mailbox, lastUid, messages, convs, queued, batch, at, thrown, cut, again, faults, deaths

OneBooking == {b1}
MCPayloads == [booking : OneBooking, action : {"create", "update", "delete"}]
DownOrRefusing == {"down", "refused"}

\* An inquiry, an answer to it, an answer to both, a notice of an OTA without
\* Message-ID and one from before the cut.
MCMail ==
  {[id |-> i1, refs |-> <<>>, kind |-> "inquiry"], [id |-> i2, refs |-> <<i1>>, kind |-> "viator"],
   [id |-> i3, refs |-> <<i2, i1>>, kind |-> "other"], [id |-> NoRow, refs |-> <<>>, kind |-> "ota"],
   [id |-> i2, refs |-> <<>>, kind |-> "old"]}

E == INSTANCE EmailIngest WITH
       Ids <- {i1, i2, i3}, Incoming <- MCMail, NoId <- NoRow,
       BatchSize <- 1, MaxUid <- 2, MaxFaults <- 1, MaxCrashes <- 1, crashes <- deaths

mailVars == <<mailbox, lastUid, messages, convs, queued, batch, at, thrown, cut, again, faults, deaths>>

MCInit == part \in {"mail", "calendar"} /\ Init /\ E!MailInit

MCNext ==
  /\ part' = part
  /\ \/ part = "mail" /\ E!MailNext /\ UNCHANGED vars
     \/ part = "calendar" /\ Next /\ UNCHANGED mailVars

MCSpec ==
  /\ MCInit /\ [][MCNext]_<<part, vars, mailVars>>
  /\ Fairness /\ WF_mailVars(E!BoundToWork)

ASSUME CalmCalendar == Calm

\* Once there is a last UID the poll gets past every e-mail that arrives, also when
\* that UID cannot be read now and then (services/email/index.ts:222-556).
EveryMailPassed == E!EveryMailPassed
==============================================================================
