----------------------------- MODULE MCLicensing -----------------------------
(* Two machines compete for one seat.                                      *)
EXTENDS Licensing
=============================================================================
