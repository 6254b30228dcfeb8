--------------------------- MODULE MCOutboxRelay ---------------------------
(***************************************************************************)
(* Small instances of the outbox relay.  Events do not interact, so one    *)
(* of them with two processes shows every order of events on one row.      *)
(***************************************************************************)
EXTENDS OutboxRelay
=============================================================================
