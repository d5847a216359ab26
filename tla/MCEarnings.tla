----------------------------- MODULE MCEarnings -----------------------------
(* Small instances of Earnings for TLC.                                        *)
EXTENDS Earnings, TLC

CONSTANTS o1, o2, ana, bob

\* One card, or one card for each of two sellers.
OneOwner == o1 :> ana
TwoOwners == o1 :> ana @@ o2 :> bob

\* Corrections up and down, one of them the size of a premium.
UpAndDown == {-10, 5}
DownOnly == {-10}
=============================================================================
