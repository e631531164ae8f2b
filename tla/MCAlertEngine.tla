---------------------------- MODULE MCAlertEngine ----------------------------
\* Instances of AlertEngine.tla for TLC: see the MCAlerts*.cfg files.
EXTENDS AlertEngine, TLC

EvaluatorSymmetry == Permutations(Evaluators)
=============================================================================
