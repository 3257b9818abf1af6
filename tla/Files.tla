------------------------------- MODULE Files -------------------------------
(***************************************************************************)
(* What the file system promises: a file is a sequence of bytes that only  *)
(* writes to that file change; a write changes the bytes it covers, and    *)
(* when there is no block left for all of them, those that fit.            *)
(*                                                                         *)
(* The promise ends with a write that begins beyond the block after the    *)
(* last one, with a write to a file that has been removed, and with a      *)
(* removal while the file system is fragile, which only removals make it.  *)
(***************************************************************************)
EXTENDS Integers, Sequences, FiniteSets, FiniteSetsExt

CONSTANTS File, Buffer, NrBlocks, BlockSize   \* Buffer: what may be written

VARIABLES content,    \* content[f], for the files that exist
          gone,       \* files that were removed, not created again
          sound,      \* is the promise still in force?
          fragile     \* may the next removal end it?

vars == <<content, gone, sound, fragile>>

BlocksFor(n) == (n + BlockSize - 1) \div BlockSize

Init == content = <<>> /\ gone = {} /\ sound = TRUE /\ fragile = FALSE

(* The files other than f are there as before.  In the operators below, old *)
(* and new are the contents before and after a step.                       *)
OthersUntouched(f, old, new) ==
  /\ (DOMAIN new) \ {f} = (DOMAIN old) \ {f}
  /\ \A g \in (DOMAIN old) \ {f} : new[g] = old[g]

Created(f, old, new) ==
  f \notin DOMAIN old /\ f \in DOMAIN new /\ new[f] = <<>>

Removed(f, old, new) == f \in DOMAIN old /\ f \notin DOMAIN new

(* new is old with bytes from offset on, as many as there is room for; the *)
(* bytes between the end of old and offset may be anything.                *)
Overwritten(old, new, offset, bytes, room) ==
  LET n    == Min({Len(bytes), Max({0, room - offset})})
      kept == {i \in 1..Len(old) : i \notin offset+1 .. offset+n}
  IN  /\ Len(new) = IF n = 0 THEN Len(old) ELSE Max({Len(old), offset + n})
      /\ \A i \in 1..n : new[offset + i] = bytes[i]
      /\ \A i \in kept : new[i] = old[i]

Allocated(f, old) == BlocksFor(Len(old[f]))
Places(old) == UNION {{f} \X (1..Allocated(f, old)) : f \in DOMAIN old}
Free(old) == NrBlocks - Cardinality(Places(old))

Written(f, old, new) ==
  /\ f \in DOMAIN old /\ f \in DOMAIN new
  /\ \E offset \in 0 .. (Allocated(f, old) + 1) * BlockSize - 1,
        bytes \in Buffer :
       Overwritten(old[f], new[f], offset, bytes,
                   (Allocated(f, old) + Free(old)) * BlockSize)

(* Only the length is promised: offset, and as many bytes as there is room.*)
WrittenBeyond(f, old, new) ==
  /\ f \in DOMAIN old /\ f \in DOMAIN new
  /\ \E offset \in (Allocated(f, old) + 1) * BlockSize .. Len(new[f]),
        bytes \in Buffer :
       Len(new[f]) = offset + Min({Len(bytes),
                              Free(old) * BlockSize - (offset % BlockSize)})

Step(f, old, new) ==
  \/ /\ sound' /\ OthersUntouched(f, old, new)
     /\ \/ Created(f, old, new) /\ gone' = gone \ {f} /\ fragile' = fragile
        \/ Written(f, old, new) /\ gone' = gone /\ (fragile' => fragile)
        \/ Removed(f, old, new) /\ gone' = gone \cup {f}
  \/ /\ ~sound'
     /\ \/ WrittenBeyond(f, old, new) /\ OthersUntouched(f, old, new)
        \/ f \in gone /\ new = old
        \/ Removed(f, old, new) /\ fragile

Next == sound => \E f \in File : Step(f, content, content')

Spec == Init /\ [][Next]_vars
=============================================================================
