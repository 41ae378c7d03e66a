----------------------------- MODULE MCRoutines -----------------------------
EXTENDS Routines

MCPlans == { [kind |-> "interval", overlap |-> "queue"],
             [kind |-> "daily", overlap |-> "skip"],
             [kind |-> "once", overlap |-> "skip"] }
=============================================================================
