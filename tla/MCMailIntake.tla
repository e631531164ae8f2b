----------------------------- MODULE MCMailIntake -----------------------------
\* The instance of MailIntake.tla for TLC: see MCMail.cfg.
EXTENDS MailIntake
=============================================================================
