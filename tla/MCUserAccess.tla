---------------------------- MODULE MCUserAccess ----------------------------
(***************************************************************************)
(* Small instances of UserAccess: a founder and one other person.          *)
(***************************************************************************)
EXTENDS UserAccess, TLC

CONSTANTS ana, bea, s1, s2

TwoUsers == {ana, bea}
TwoSessions == {s1, s2}

\* Sessions are alike.
Alike == Permutations(TwoSessions)

=============================================================================
