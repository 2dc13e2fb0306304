------------------------- MODULE MCDictionaryWindow -------------------------
(* Two windows, two names to restore under and two input contexts. *)
EXTENDS DictionaryWindow, TLC

Symmetry == Permutations(Generations) \cup Permutations(Windows) \cup Permutations(Contexts)
=============================================================================
