----------------------------- MODULE MCMessages -----------------------------
(* One contact, one composer and the outbox run, and two rows for them.    *)
EXTENDS Messages
=============================================================================
