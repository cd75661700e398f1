------------------------------ MODULE MCBrowser ------------------------------
(* What runs in the browser of a viewer, for TLC: the search and the follow  *)
(* button, the bell, and the extension.  They share no state that one reads  *)
(* of another, so `scene` runs one of them and a step of one never waits for *)
(* a step of another.                                                        *)
EXTENDS Discover, NotificationBell, Extension, TLC

VARIABLE scene

vars == <<scene, discoverVars, bellVars, extensionVars>>

Init ==
  /\ scene \in {"discover", "bell", "extension"}
  /\ DiscoverInit /\ BellInit /\ ExtensionInit
  /\ scene # "discover" => ~follows

Next ==
  \/ scene = "discover" /\ DiscoverNext /\ UNCHANGED <<scene, bellVars, extensionVars>>
  \/ scene = "bell" /\ BellNext /\ UNCHANGED <<scene, discoverVars, extensionVars>>
  \/ scene = "extension" /\ ExtensionNext /\ UNCHANGED <<scene, discoverVars, bellVars>>

Spec == Init /\ [][Next]_vars /\ SearchFairness /\ ListFairness /\ WorkerFairness

\* Every part keeps its types.
TypeOK == DiscoverTypeOK /\ BellTypeOK /\ ExtensionTypeOK
=============================================================================
