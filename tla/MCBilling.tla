----------------------------- MODULE MCBilling -----------------------------
(* The billing account with one webhook handler, the worker and the user.  *)
EXTENDS Billing
=============================================================================
