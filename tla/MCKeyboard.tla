----------------------------- MODULE MCKeyboard -----------------------------
(* The keyboard driver on a small instance.  Keys differ, so that their    *)
(* order shows; tasks and keys are interchangeable.                        *)
EXTENDS Keyboard, TLC

Symmetry == Permutations(Tasks) \cup Permutations(Keys)
=============================================================================
