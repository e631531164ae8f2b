------------------------------ MODULE MCPatches ------------------------------
\* The instance of Patches.tla for TLC: see MCPatches.cfg.  At first one device
\* lacks every patch, the others those with a KB number.
EXTENDS Patches

MCInit == Init /\ missing = [d \in Devices |-> IF d = SomeDevice THEN Names ELSE WithKB]

MCSpec == MCInit /\ [][Next]_vars /\ Fairness
=============================================================================
