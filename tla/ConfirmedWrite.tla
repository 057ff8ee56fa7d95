---------------------------- MODULE ConfirmedWrite ----------------------------
(***************************************************************************)
(* What the two-step confirmation promises: a write is proposed, cleared    *)
(* by the user, then made once or given up; what is given up stays so.      *)
(* One step may clear or give up several writes: a message "OK" clears all  *)
(* that were proposed before it, a restart of the plugin drops them all.    *)
(***************************************************************************)
CONSTANT Actions
VARIABLE write  \* where each write stands

States == {"none", "proposed", "cleared", "written", "dropped"}

Init == write = [a \in Actions |-> "none"]

Moves ==
  {<<"none", "proposed">>, <<"proposed", "cleared">>, <<"cleared", "written">>,
   <<"proposed", "dropped">>, <<"cleared", "dropped">>}

Next ==
  /\ write' \in [Actions -> States]
  /\ \A a \in Actions : write'[a] = write[a] \/ <<write[a], write'[a]>> \in Moves

Spec == Init /\ [][Next]_write
===============================================================================
