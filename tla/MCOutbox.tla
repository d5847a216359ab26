------------------------------ MODULE MCOutbox ------------------------------
(* Small instances of Outbox for TLC.                                          *)
EXTENDS Outbox, TLC

CONSTANTS e1, e2, audit, ghost, earnings

\* Two events for the audit consumer.  The first also goes to `ghost`, a
\* consumer marked built whose handler the relay does not have, and to
\* `earnings`, which is registered as inline and so is never queued.
TwoEvents == e1 :> {audit, ghost, earnings} @@ e2 :> {audit}

\* One event for the audit consumer alone.
OneEvent == e1 :> {audit}

\* A retry for audit, none for the others.
Attempts == audit :> 2 @@ ghost :> 1 @@ earnings :> 1
=============================================================================
