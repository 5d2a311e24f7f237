---------------------------- MODULE PresenceView ----------------------------
(***************************************************************************)
(* What the presence column of the dashboard promises: the value shown of  *)
(* a device is its real state at the instant of one sample, the same       *)
(* instant for all devices, or "online" for a device that was forgotten.   *)
(***************************************************************************)
CONSTANT Macs

VARIABLES
    alive,       \* the device has been heard of within its threshold
    sampled,     \* what the last sample found
    shown        \* devices.is_online

view == <<alive, sampled, shown>>

Init ==
    /\ alive = [m \in Macs |-> TRUE]
    /\ sampled = [m \in Macs |-> TRUE]
    /\ shown = [m \in Macs |-> TRUE]

\* Time passes, packets arrive, thresholds are edited.
Change ==
    /\ alive' \in [Macs -> BOOLEAN]
    /\ UNCHANGED <<sampled, shown>>

Sample ==
    /\ sampled' = alive
    /\ UNCHANGED <<alive, shown>>

Publish(m) ==
    /\ shown' = [shown EXCEPT ![m] = sampled[m]]
    /\ UNCHANGED <<alive, sampled>>

\* The database is cleared.
Forget ==
    /\ alive' \in [Macs -> BOOLEAN]
    /\ shown' = [m \in Macs |-> TRUE]
    /\ UNCHANGED sampled

Next == Change \/ Sample \/ (\E m \in Macs : Publish(m)) \/ Forget

Spec == Init /\ [][Next]_view

=============================================================================
