------------------------------ MODULE MCBilling ------------------------------
\* The instance of Billing.tla for TLC: see MCBilling.cfg.
EXTENDS Billing
=============================================================================
