----------------------------- MODULE MCScriptRuns -----------------------------
\* Instances of ScriptRuns.tla for TLC: see MCScripts.cfg.
EXTENDS ScriptRuns, TLC
=============================================================================
