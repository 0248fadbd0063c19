----------------------------- MODULE DurableCell -----------------------------
(***************************************************************************)
(* What noded expects of est.rs::write_atomic: a file is a cell that       *)
(* holds one whole version.  A reader sees `vis`, a power loss falls back  *)
(* to `dur`, and a version whose write has returned Ok (`acked`) can no    *)
(* longer be lost.  Version 0 is "no such file".                           *)
(***************************************************************************)
EXTENDS Naturals

VARIABLES
    vis,    \* the version a reader of the path finds
    dur,    \* the version the path holds after a power loss
    acked   \* the newest version whose write returned Ok

cell == <<vis, dur, acked>>

Init == vis = 0 /\ dur = 0 /\ acked = 0

\* A newer whole version replaces the visible one in a single step.
Replace ==
    /\ vis' \in Nat
    /\ vis' > vis /\ vis' > dur
    /\ UNCHANGED <<dur, acked>>

\* The visible version reaches stable storage.
Persist ==
    /\ dur' = vis
    /\ UNCHANGED <<vis, acked>>

\* The writer is told Ok: only for a version that is already durable.
Acknowledge ==
    /\ acked' = vis
    /\ dur' = vis
    /\ UNCHANGED vis

\* Power loss: whatever was not durable is gone.
PowerLoss ==
    /\ vis' = dur
    /\ UNCHANGED <<dur, acked>>

Next == Replace \/ Persist \/ Acknowledge \/ PowerLoss

Spec == Init /\ [][Next]_cell
=============================================================================
