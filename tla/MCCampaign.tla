----------------------------- MODULE MCCampaign -----------------------------
(***************************************************************************)
(* TLC instances of Campaign: two start commands, for a campaign each or   *)
(* for the same one.                                                       *)
(***************************************************************************)
EXTENDS Campaign, TLC

CONSTANTS s1, s2, k1, k2

TwoStarts == {s1, s2}
Distinct  == [c \in TwoStarts |-> IF c = s1 THEN k1 ELSE k2]
Alone     == [c \in {s1} |-> k1]
Repeated  == [c \in TwoStarts |-> k1]

\* Two starts of the same campaign are interchangeable.
StartSymmetry == Permutations(TwoStarts)
=============================================================================
