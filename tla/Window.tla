------------------------------- MODULE Window -------------------------------
(***************************************************************************)
(* The window of the application, frontend/, over the backend it calls:    *)
(* one control of its settings and rules (SettingsControls), the page of   *)
(* the filter lists (FilterListsPage), or a view of the counters           *)
(* (Counters).  They share no state but that of the backend, of which they *)
(* use different parts: a behaviour shows one of them.                     *)
(***************************************************************************)
EXTENDS SettingsControls, FilterListsPage, Counters

VARIABLE part   \* what the user works with

vars == <<part, controlVars, pageVars, counterVars>>

Init ==
  \/ part = "control" /\ ControlsInit /\ NoPage /\ NoCounters
  \/ part = "lists" /\ NoControls /\ PageInit /\ NoCounters
  \/ part = "counters" /\ NoControls /\ NoPage /\ CountersInit

Next ==
  /\ UNCHANGED part
  /\ \/ part = "control" /\ ControlsNext /\ UNCHANGED <<pageVars, counterVars>>
     \/ part = "lists" /\ PageNext /\ UNCHANGED <<controlVars, counterVars>>
     \/ part = "counters" /\ CountersNext /\ UNCHANGED <<controlVars, pageVars>>

Spec == Init /\ [][Next]_vars /\ ControlsFairness

=============================================================================
