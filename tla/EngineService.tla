---------------------------- MODULE EngineService ----------------------------
(***************************************************************************)
(* What the daemon and the commands promise of the engine together: there  *)
(* is one at a time, it is started for devices that are in the lab at that *)
(* moment, and it serves them unchanged until it is told to end; a changed *)
(* lab is served by another engine.                                        *)
(***************************************************************************)
CONSTANTS
  Engine   \* what tells one engine from another

VARIABLES
  lab,     \* the reachable devices
  live,    \* the engines that nobody has told to end
  serves,  \* what each of them serves
  lost     \* whether an engine has been lost, so that there may be two

Init == live = {} /\ lost = FALSE

ChangeLab == UNCHANGED <<live, serves>>

\* A loss happens in a step of its own, and is for ever.
Lose == lost' /\ UNCHANGED <<lab, live, serves>>

Start(e) ==
  /\ live = {} \/ lost
  /\ e \notin live
  /\ live' = live \cup {e}
  /\ serves'[e] \subseteq lab
  /\ UNCHANGED lab

End == live' \subseteq live /\ UNCHANGED lab

Next ==
  /\ \A e \in live \cap live' : serves'[e] = serves[e]
  /\ \/ Lose
     \/ /\ UNCHANGED lost
        /\ ChangeLab \/ End \/ \E e \in Engine : Start(e)

Spec == Init /\ [][Next]_<<lab, live, serves, lost>>

=============================================================================
