---------------------------- MODULE MCSettingsSync ----------------------------
(* Two contexts and one other program, over two values of either kind. *)
EXTENDS SettingsSync, TLC

Symmetry == Permutations(Engines) \cup Permutations(Own) \cup Permutations(Other)

=============================================================================
