------------------------------- MODULE MCFleet -------------------------------
(* Small instances of Fleet.                                                *)
EXTENDS Fleet, TLC

CONSTANTS r1, q1, f1, f2

HandlerSymmetry == Permutations(Handlers)

\* A formation and a motion request for the same robot.
FormationAndMotion == [q \in {f1, q1} |-> <<r1>>]

\* Two formations of the same robot.
RivalFormations == [q \in {f1, f2} |-> <<r1>>]

Faults(repeat, outage) ==
    [k \in FaultKinds |-> IF k = "repeat" THEN repeat ELSE outage]
OneOutage == Faults(0, 1)
RepeatAndOutage == Faults(1, 1)

(* Of a repetition and an outage the commands run takes one, or both if the   *)
(* outage is a restart of the web API that forgot a command.                  *)
OneFault ==
    \/ faults'["repeat"] + faults'["outage"] <= 1
    \/ \E c \in Commands : shown'[c] = "forgotten"
===============================================================================
