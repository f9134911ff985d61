------------------------- MODULE MCValidationMonitor -------------------------
(***************************************************************************)
(* Instances of ValidationMonitor for TLC: one monitor at a time, as the    *)
(* launcher sees to, and one terminal.                                      *)
(***************************************************************************)
EXTENDS ValidationMonitor

CONSTANTS m1, o1

OneMonitor == { m1 }
OneCommand == { o1 }
Everyone   == { m1, o1 }

AllKinds   == { "ARTIFACT", "FUNCTIONAL", "BATCH" }
AllMishaps == { "NOTHING", "ERROR", "SKIP", "FOREIGN", "CRASH", "LIMIT", "EXPIRY",
                "OPERATOR", "COMMAND" }
=============================================================================
