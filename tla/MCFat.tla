------------------------------- MODULE MCFat -------------------------------
(* The file system on a small instance.  The long buffer covers parts of   *)
(* two blocks or three; neighbouring bytes of it differ.                   *)
EXTENDS Fat

MCBuffers == {<<"a", "b", "a">>}
ShortOnly == {<<"a">>}

(* Once the promise is void there is nothing left to check: such a state   *)
(* is reached and checked, and not explored further.                       *)
StillSound == Sound(fs)
=============================================================================
