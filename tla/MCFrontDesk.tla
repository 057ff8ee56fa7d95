----------------------------- MODULE MCFrontDesk -----------------------------
(***************************************************************************)
(* What the staff work with, one part at a time: the parts share no         *)
(* variable. `part` says which one runs.                                    *)
(*                                                                         *)
(* Registrations: two guests, one with an e-mail address, a third not known *)
(* yet; a puppy yoga class for two and another that may be planned; the     *)
(* bodies of create_or_link differ in guest, attendees and booking id.      *)
(* Inbox: two conversations and two drafts.  Mail: an inquiry, an answer to *)
(* it, an answer to both, a notice without Message-ID and an e-mail from    *)
(* before the cut.                                                          *)
(***************************************************************************)
EXTENDS EventRegistration, MailRefinement, InboxComposer, TLC

VARIABLES
  part,
  (* DashboardForms *)
  form, request, toast, passwords

CONSTANTS g1, g2, g3, e1, e2, x1, x2, ann, ANN, k1, k2, i1, i2, i3

MCGuests == {g1, g2, g3}
MCEvents == {e1, e2}
MCBookingIds == {x1, x2}
MCEmails == {ann, ANN}
MCFolded == [m \in MCEmails |-> ann]

At(e) == [event |-> e, opens |-> None]

MCLinkBodies ==
  { [mode |-> "existing", guest |-> g1, email |-> None, apply |-> FALSE,
     to |-> At(e1), count |-> 2, bookingId |-> x1],
    [mode |-> "existing", guest |-> g2, email |-> ANN, apply |-> TRUE,
     to |-> At(e1), count |-> 1, bookingId |-> x2],
    [mode |-> "linked", guest |-> None, email |-> None, apply |-> FALSE,
     to |-> At(e1), count |-> 1, bookingId |-> x1],
    [mode |-> "create", guest |-> None, email |-> ann, apply |-> FALSE,
     to |-> [event |-> e2, opens |-> 1], count |-> 1, bookingId |-> x2] }

MCInbox == {k1, k2}
F == INSTANCE DashboardForms WITH NoRequest <- None

MCIds == {i1, i2, i3}
MCMail ==
  {[id |-> i1, refs |-> <<>>, kind |-> "inquiry"], [id |-> i2, refs |-> <<i1>>, kind |-> "viator"],
   [id |-> i3, refs |-> <<i2, i1>>, kind |-> "other"], [id |-> None, refs |-> <<>>, kind |-> "ota"],
   [id |-> i2, refs |-> <<>>, kind |-> "old"]}

formVars == <<form, request, toast, passwords>>

\* The text of the composer and the progress of a generation do not meet, nor a
\* send that waited offline and a rejection.
SmallInbox ==
  \/ /\ generation = None /\ asked = {}
     /\ sending # None /\ sending.waited => rejecting = None
  \/ /\ composer = None /\ sending = None /\ rejecting = None
     /\ card # None => ~card.editing

\* Two e-mails where an error meets a death of the process, otherwise three.
SmallMail == Len(mailbox) <= 2 \/ faults = 0 \/ crashes = 0

MCInit ==
  /\ part \in {"registrations", "inbox", "forms", "mail"}
  /\ Init /\ InboxInit /\ F!Init /\ MailInit
  /\ guests[g1].email = ann /\ guests[g1].state = "active"
  /\ guests[g2].email = None /\ guests[g2].state = "active"
  /\ guests[g3].state = "unknown"
  /\ events[e1] = 2 /\ events[e2] = None
  /\ part # "registrations" => \A s \in Stays : stays[s].party = {g1}

MCNext ==
  /\ part' = part
  /\ \/ /\ part = "registrations" /\ Next
        /\ UNCHANGED <<inboxVars, formVars, mailVars>>
     \/ /\ part = "inbox" /\ InboxNext /\ SmallInbox'
        /\ UNCHANGED <<vars, formVars, mailVars>>
     \/ /\ part = "forms" /\ F!Next
        /\ UNCHANGED <<vars, inboxVars, mailVars>>
     \/ /\ part = "mail" /\ MailNext /\ SmallMail'
        /\ UNCHANGED <<vars, inboxVars, formVars>>

MCSpec == MCInit /\ [][MCNext]_<<part, vars, inboxVars, formVars, mailVars>>

MCSymmetry == Permutations({k1, k2})

\* What the dashboard says it saved it saved (components/features).
FormsSound == part = "forms" => F!FormsSound
==============================================================================
