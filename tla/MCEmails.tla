------------------------------ MODULE MCEmails ------------------------------
(* One e-mail, and two workers that may be in it at once.                  *)
EXTENDS Emails
=============================================================================
