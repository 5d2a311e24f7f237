------------------------------ MODULE MCSensor ------------------------------
(***************************************************************************)
(* Small instances of Sensor for TLC.                                      *)
(***************************************************************************)
EXTENDS Sensor

\* One list names an interface twice; a list that names it once behaves like one whose
\* second thread captures nothing.
OneList == {[sel |-> Ifaces, twice |-> {}]}
Repeats == {[sel |-> Ifaces, twice |-> Ifaces]}

\* A sensor in direct mode reads no command, so one request is enough there; of frames
\* it keeps more than the other mode, which has no ring.
FewFrames == IF mode = "direct" THEN ops <= 1 ELSE captured <= 2

=============================================================================
