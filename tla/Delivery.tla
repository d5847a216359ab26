------------------------------ MODULE Delivery ------------------------------
(* What the outbox promises a consumer, without rows, leases or relays: an     *)
(* event becomes one delivery per consumer that wants it, all at once; each    *)
(* delivery ends in its one effect or is given up with a record, and never     *)
(* both; none is owed for ever.                                                *)
CONSTANTS
    Event,
    Consumer,
    Wanted          \* Wanted[e]: the consumers an event goes to

VARIABLES
    emitted,        \* events the application has emitted
    owed,           \* deliveries not settled yet
    done,           \* deliveries whose effect is in the database
    givenUp         \* deliveries recorded as dead letters

dvars == <<emitted, owed, done, givenUp>>

DInit == emitted = {} /\ owed = {} /\ done = {} /\ givenUp = {}

Emit(e) ==
    /\ e \notin emitted
    /\ emitted' = emitted \cup {e}
    /\ owed' = owed \cup ({e} \X Wanted[e])
    /\ UNCHANGED <<done, givenUp>>

TakeEffect(d) ==
    /\ d \in owed
    /\ owed' = owed \ {d}
    /\ done' = done \cup {d}
    /\ UNCHANGED <<emitted, givenUp>>

GiveUp(d) ==
    /\ d \in owed
    /\ owed' = owed \ {d}
    /\ givenUp' = givenUp \cup {d}
    /\ UNCHANGED <<emitted, done>>

Settle(d) == TakeEffect(d) \/ GiveUp(d)

DNext ==
    \/ \E e \in Event : Emit(e)
    \/ \E d \in Event \X Consumer : Settle(d)

DSafe == DInit /\ [][DNext]_dvars

DSpec == DSafe /\ \A d \in Event \X Consumer : WF_dvars(Settle(d))
=============================================================================
