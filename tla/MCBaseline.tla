----------------------------- MODULE MCBaseline -----------------------------
(***************************************************************************)
(* Small instances of Baseline for TLC.  One unit of time is of the order  *)
(* of LEARNING_FLOOR.                                                      *)
(***************************************************************************)
EXTENDS Baseline

Conf(mode, quiet, cap) == [mode |-> mode, quiet |-> quiet, maxWindow |-> cap]

\* An ordinary cap, one shorter than the floor, and a window the operator closes.
MCConfigs == {Conf("automatic", 1, 2), Conf("automatic", 1, 0), Conf("manual", 1, 2)}
Ordinary  == {Conf("automatic", 1, 3)}

=============================================================================
