----------------------------- MODULE MCDispatch -----------------------------
(* Small instances of Dispatch for TLC.                                        *)
EXTENDS Dispatch

CONSTANTS j1, j2, j3, visit, chore, other, acme, zen

\* A meeting that may be rescheduled, and a job of another tenant.
TwiceAndOther == [j \in Job |-> IF j = j3 THEN other ELSE visit]

\* Two episodes of one tenant and one of another.
StormAndQuiet ==
    [j \in Job |-> IF j = j1 THEN visit ELSE IF j = j2 THEN chore ELSE other]

Tenants2 == [e \in Episode |-> IF e = other THEN zen ELSE acme]
=============================================================================
