---------------------------- MODULE CommandLedger ----------------------------
(***************************************************************************)
(* What the fleet API promises about the status it shows for a command      *)
(* (docs/fleet_communication.md, steps 2 and 7), as one line per command:   *)
(* which answers the robot gave, whether the broker refused the command,    *)
(* and what an operator is shown.  A success is shown only if the robot     *)
(* reported one, a failure only if something failed, a timeout only of a    *)
(* command that was shown as published; and a success shown is never taken  *)
(* back for a timeout.                                                      *)
(*                                                                          *)
(* The move from "failed" to "published" is what the code does when the     *)
(* robot's failure arrives before the request's own thread has marked the   *)
(* command: the ledger allows it, and Fleet shows what comes of it.         *)
(***************************************************************************)
CONSTANTS Commands

VARIABLES shown,    \* the status of each command
          reported  \* the results the robot reported for each command

ledgerVars == <<shown, reported>>

Init == /\ shown = [c \in Commands |-> "unissued"]
        /\ reported = [c \in Commands |-> {}]

Show(c, status) == /\ shown' = [shown EXCEPT ![c] = status]
                   /\ UNCHANGED reported

Issue(c) == shown[c] = "unissued" /\ Show(c, "pending")

Report(c, result) ==
    /\ shown[c] # "unissued"
    /\ reported' = [reported EXCEPT ![c] = @ \cup {result}]
    /\ UNCHANGED shown

MarkPublished(c) == shown[c] \in {"pending", "failed"} /\ Show(c, "published")
MarkRefused(c) == shown[c] \in {"pending", "acked", "failed"} /\ Show(c, "failed")
Confirm(c) ==
    shown[c] \notin {"unissued", "forgotten"} /\ "ok" \in reported[c] /\ Show(c, "acked")
Fail(c) ==
    shown[c] \notin {"unissued", "forgotten"} /\ "failed" \in reported[c] /\ Show(c, "failed")
Expire(c) == shown[c] = "published" /\ Show(c, "timeout")

\* The registry lives in the memory of one process.
Forget ==
    /\ shown' = [c \in Commands |-> IF shown[c] = "unissued" THEN "unissued" ELSE "forgotten"]
    /\ UNCHANGED reported

Next ==
    \/ \E c \in Commands :
         \/ Issue(c) \/ MarkPublished(c) \/ MarkRefused(c)
         \/ Confirm(c) \/ Fail(c) \/ Expire(c)
         \/ \E result \in {"ok", "failed"} : Report(c, result)
    \/ Forget

Spec == Init /\ [][Next]_ledgerVars
===============================================================================
