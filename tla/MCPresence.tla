----------------------------- MODULE MCPresence -----------------------------
(***************************************************************************)
(* Small instances of Presence for TLC.                                    *)
(***************************************************************************)
EXTENDS Presence

\* One unit of silence is an outage, whatever the type of the device.
SameUsual == [m \in Macs |-> Default]

=============================================================================
