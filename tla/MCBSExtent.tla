----------------------------- MODULE MCBSExtent -----------------------------
(* Model-checking instance of BSExtent: the slots are model values.        *)
EXTENDS BSExtent, TLC

CONSTANTS s1, s2

MCSlot == {s1, s2}

SlotSymmetry == Permutations(MCSlot)
=============================================================================
