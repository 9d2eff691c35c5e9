-------------------------- MODULE MCAguiCoordinator --------------------------
(* AguiCoordinator for TLC. *)
EXTENDS AguiCoordinator, TLC

CONSTANTS c1, c2

Symmetry == Permutations({c1, c2})

Foreign   == {r \in Rows : proof[r] = "foreign"}
Projected == {r \in Rows : \E i \in DOMAIN runs[r].agui : runs[r].agui[i] = "projected"}

\* Three runs and a reboot while no write fails and the agent says nothing (after which, with
\* three runs, no callback fails either), or two runs with a failing write and a projected
\* event or a foreign file, but no reboot.
Bounds ==
  \/ /\ faults = 0 /\ Foreign \cup Projected = {}
     /\ Len(runs) = 3 /\ reboots = 1 => \A r \in Rows : task[r].latch = "none"
  \/ /\ Len(runs) <= 2 /\ reboots = 0
     /\ Cardinality(Foreign) + Cardinality(Projected) <= 1
===============================================================================
