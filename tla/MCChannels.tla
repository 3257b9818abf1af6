----------------------------- MODULE MCChannels -----------------------------
(* The descriptors on a small instance.                                    *)
EXTENDS Channels

(* Once the chains of blocks are damaged, counters drift without bound and *)
(* Fat promises nothing: such a state is checked and not explored further. *)
ChainsSound == Disk!Sound(fs)
=============================================================================
