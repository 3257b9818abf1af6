----------------------------- MODULE MCContexts -----------------------------
(* Entries and switches on a small instance: one number of each kind of    *)
(* service, one below and one beyond the table, an error and a result.     *)
EXTENDS Contexts

MCCalls    == {1, 2, 10, 22, 23, 42}
MCOutcomes == {3}
=============================================================================
