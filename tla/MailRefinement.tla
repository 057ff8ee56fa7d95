--------------------------- MODULE MailRefinement ----------------------------
(***************************************************************************)
(* EmailIngest implements MailLedger: storing the message is the moment an  *)
(* e-mail is kept, storing its UID the moment it is passed.  The batch and  *)
(* the progress with the e-mail at hand are nothing the ledger knows of.    *)
(***************************************************************************)
EXTENDS EmailIngest

\* The jobs of each e-mail, but for those the queue refuses.
JobsOf == [e \in Incoming |-> Wanted(e) \ Unusable]

Ledger ==
  INSTANCE MailLedger WITH
    Mails <- Incoming, TooOld <- {e \in Incoming : e.kind = "old"}, Jobs <- JobsOf,
    arrived <- mailbox, passed <- lastUid, kept <- messages, failed <- thrown \cup cut

\* However errors, deaths of the process, partial fetches, copies of e-mails and
\* reads of the last UID that fail interleave with the poll, each of its writes
\* keeps one e-mail where it belongs, queues one of its jobs or passes what is
\* settled or failed: there is no state in which an e-mail is passed and still
\* has something to come, and the poll goes back only to what it had passed when
\* it could not read where it was (services/email/index.ts:200-578).
ImplementsLedger == Ledger!Spec

-----------------------------------------------------------------------------
(* What the refinement rests on, besides MailIInv                            *)

\* A message the poll has not passed is the one at hand, failed before, or is
\* one of those it went back to.
Unpassed ==
  \A i \in DOMAIN messages :
    LET u == messages[i].uid IN
    lastUid < u => u \in thrown \cup cut \cup again \/ (InStep("stored") /\ u = Uid)

TodoWanted == InStep("stored") => at.todo \subseteq Wanted(Mail)

LedgerIInv == MailIInv /\ Unpassed /\ TodoWanted
==============================================================================
