----------------------------- MODULE MCConsole -----------------------------
(* A small screen, and the shortest texts that reach every column with     *)
(* every one of their characters and end a line anywhere.  At first the    *)
(* screen is blank, full of digits, or shows letters, blanks and digits.   *)
EXTENDS Console

MCWrites   == {<<97>>}
MCMessages == {<<98, Newline>>}
MCLeftovers ==
  {[cell \in Cells |-> Blank],
   [cell \in Cells |-> Zero + 1],
   [cell \in Cells |-> CASE cell % 3 = 0 -> Zero
                         [] cell % 3 = 1 -> Blank
                         [] OTHER -> 99]}
=============================================================================
