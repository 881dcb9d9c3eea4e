------------------------------ MODULE MotionSlot ------------------------------
(***************************************************************************)
(* What the motion arbiter of the ROS bridge promises about the single     *)
(* slot that makes a running motion stoppable.  At any moment at most one   *)
(* motion owns the slot.  A motion owns it at most once in its life; a      *)
(* motion whose ownership was revoked is told so (its stop event is set)    *)
(* and never owns it again; a motion that ends gives up the slot exactly    *)
(* when it still owns it, so it never evicts its successor and never stays  *)
(* behind as a dead owner; and once the arbiter is shut nothing takes the   *)
(* slot any more.                                                           *)
(*                                                                          *)
(* Taking the slot replaces whoever owns it without revoking it: that       *)
(* weakness is in the code (two callers between their cancel and their      *)
(* registration) and the abstract specification does not hide it.           *)
(***************************************************************************)
CONSTANTS Motions,  \* the motions that can ever be requested
          None      \* the empty slot

VARIABLES owner,    \* the motion in the slot
          revoked,  \* the motions whose stop event has been set
          taken,    \* the motions that have owned the slot
          finished, \* the motions whose thread is done
          shut      \* the arbiter accepts no more motions

slotVars == <<owner, revoked, taken, finished, shut>>

Init == /\ owner = None
        /\ revoked = {} /\ taken = {} /\ finished = {}
        /\ shut = FALSE

Take(m) == /\ ~shut
           /\ m \notin taken
           /\ owner' = m
           /\ taken' = taken \cup {m}
           /\ UNCHANGED <<revoked, finished, shut>>

Revoke == /\ owner # None
          /\ revoked' = revoked \cup {owner}
          /\ owner' = None
          /\ UNCHANGED <<taken, finished, shut>>

\* A motion that ends on a shut arbiter may leave its entry behind.
Finish(m) == /\ m \in taken \ finished
             /\ finished' = finished \cup {m}
             /\ \/ owner = m /\ owner' = None
                \/ (owner # m \/ shut) /\ UNCHANGED owner
             /\ UNCHANGED <<revoked, taken, shut>>

Shut == /\ shut' = TRUE
        /\ UNCHANGED <<owner, revoked, taken, finished>>

Next == \/ Revoke \/ Shut
        \/ \E m \in Motions : Take(m) \/ Finish(m)

Spec == Init /\ [][Next]_slotVars
===============================================================================
