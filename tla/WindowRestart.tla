----------------------------- MODULE WindowRestart -----------------------------
(***************************************************************************)
(* WindowLifecycle with the death of the app process, by "Kill All" of the *)
(* notification or by the system.  Nothing of the compositor survives: the *)
(* clients lose their connection, the windows and the channel are gone,    *)
(* and the next process counts window ids from 1 again.  Android keeps the *)
(* Activity records with the window_id of their intents, and restores such *)
(* a record when the user opens it from the list of recent tasks.          *)
(***************************************************************************)
EXTENDS WindowLifecycle

ProcessDeath ==
  /\ actions < MaxUserActions
  /\ actions' = actions + 1
  /\ surface' = [s \in Surfaces |-> "unborn"]
  /\ geometry' = [s \in Surfaces |-> FALSE]
  /\ close_sent' = [s \in Surfaces |-> FALSE]
  /\ pending' = {}
  /\ destroyed' = {}
  /\ phase' = "adopt"
  /\ windows' = << >>
  /\ next_id' = 1
  /\ batch' = << >>
  /\ channel' = << >>
  /\ instances' = << >>
  /\ posted' = [a \in Acts |-> "none"]
  /\ act' = [a \in Acts |->
               IF act[a].state \notin {"starting", "created"} THEN act[a]
               ELSE [act[a] EXCEPT
                       !.state = IF act[a].finishing THEN "destroyed" ELSE "dormant",
                       !.surface = FALSE]]

RestartNext == Next \/ ProcessDeath

RestartSpec == Init /\ [][RestartNext]_vars

(* DESIGN.md gives each toplevel its own Activity.  At most one Activity   *)
(* at a time feeds surfaces and input into a window.                       *)
OwnActivity ==
  \A w \in DOMAIN windows :
    \A a, b \in Acts :
      /\ act[a].state = "created" /\ act[a].window_id = w
      /\ act[b].state = "created" /\ act[b].window_id = w
      => a = b
=============================================================================
