-------------------------- MODULE MCBillingPeriod --------------------------
(* One user over a few hours, with periods as short as the bound allows.      *)
EXTENDS BillingPeriod, TLC
=============================================================================
