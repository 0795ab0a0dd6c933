------------------------------ MODULE CursorLog ------------------------------
(***************************************************************************)
(* What a resumable consumer promises about its persisted cursor, whatever *)
(* its goroutines do: events become settled (dealt with, once and for all) *)
(* in any order, and the cursor that a restart will resume from is only    *)
(* ever moved to a position behind which every event is settled.  It may   *)
(* move backwards: events are then delivered again.                        *)
(***************************************************************************)
EXTENDS Integers

CONSTANT N          \* events of the log, numbered 1 .. N

VARIABLES settled,  \* the events dealt with
          saved     \* the persisted cursor

logVars == <<settled, saved>>

Init == settled = {} /\ saved = 0

Settle ==
    /\ \E S \in SUBSET (1 .. N) : settled' = settled \cup S
    /\ saved' = saved

Persist ==
    /\ \E v \in 0 .. N : 1 .. v \subseteq settled /\ saved' = v
    /\ settled' = settled

Next == Settle \/ Persist

Spec == Init /\ [][Next]_logVars

\* Resuming from the cursor skips no event that was never dealt with.
NothingSkipped == 1 .. saved \subseteq settled
=============================================================================
