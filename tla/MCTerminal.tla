------------------------------ MODULE MCTerminal ------------------------------
\* Instances of Terminal.tla for TLC: see the MCTerminal*.cfg files.
EXTENDS Terminal
=============================================================================
