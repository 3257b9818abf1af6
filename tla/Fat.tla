-------------------------------- MODULE Fat --------------------------------
(***************************************************************************)
(* The file system of the 0s kernel, fat.c: a directory of MAX_FILES       *)
(* entries over MAX_BLOCKS blocks in memory, each file a chain of blocks   *)
(* in block_lists, the free blocks one more chain.                         *)
(*                                                                         *)
(* Every operation runs with interrupts off and is one action.  Operations *)
(* are operators from one value of fs to the next.  The opens field of a   *)
(* directory entry, which nothing changes from 0, and the names, which     *)
(* module Channels has, are left out.                                      *)
(*                                                                         *)
(* A file that is created is opened, its descriptor can never be closed,   *)
(* and it goes on working when the file has been removed.                  *)
(***************************************************************************)
EXTENDS Integers, FiniteSets, SequencesExt

CONSTANTS MAX_FILES, MAX_BLOCKS, BLOCK_SIZE,
          Modes,        \* bound: the modes of the files created
          Buffers       \* bound: the sequences of bytes that are written

Files   == 0 .. MAX_FILES-1
Blocks  == 0 .. MAX_BLOCKS-1
Bytes   == UNION {ToSet(buffer) : buffer \in Buffers}
Longest == Max({Len(buffer) : buffer \in Buffers})

ASSUME FatAssumption ==
  /\ MAX_FILES \in Nat \ {0}
  /\ MAX_BLOCKS \in Nat \ {0}
  /\ BLOCK_SIZE \in Nat \ {0}
  /\ Modes \subseteq 0..3
  /\ \A buffer \in Buffers : buffer \in Seq(Bytes)
  /\ \E long \in Buffers : \A buffer \in Buffers : Len(buffer) <= Len(long)

EOC       == -1     \* end of chain
FREE_TYPE == -1     \* mode of a free directory entry
NUL       == "nul"  \* a byte never written

VARIABLES
  fs,       \* [root, block_lists, data, first_free_block,
            \*  last_free_block, free_block_count, used_block_count]
  opened    \* files that some process has a descriptor of

FreeEntry ==
  [mode |-> FREE_TYPE, size |-> 0, first_block |-> EOC, last_block |-> EOC]

initZeOSFAT ==
  [root             |-> [f \in Files |-> FreeEntry],
   block_lists      |-> [b \in Blocks |->
                           IF b = MAX_BLOCKS-1 THEN EOC ELSE b + 1],
   data             |-> [b \in Blocks |-> [i \in 0..BLOCK_SIZE-1 |-> NUL]],
   first_free_block |-> 0,
   last_free_block  |-> MAX_BLOCKS-1,
   free_block_count |-> MAX_BLOCKS,
   used_block_count |-> 0]
----------------------------------------------------------------------------
(* Blocks of a file.                                                       *)

(* EOC is also the error of a logic_block far beyond the end.              *)
fat_translate_block(s, file, logic_block) ==
  LET walk[lb \in 0..logic_block] ==
        IF lb = 0 THEN s.root[file].first_block
        ELSE IF walk[lb-1] = EOC THEN EOC
        ELSE s.block_lists[walk[lb-1]]
  IN  walk[logic_block]

(* Deliberate defect: the end of the file is not marked.                   *)
Terminated_not(s, b) == s

Terminated(s, b) == [s EXCEPT !.block_lists[b] = EOC]

(* The first free block becomes the last of the file.                      *)
fat_add_block(s, file) ==
  LET b      == s.first_free_block
      linked == IF s.root[file].first_block = EOC
                THEN [s EXCEPT !.root[file].first_block = b,
                               !.root[file].last_block = b]
                ELSE [s EXCEPT !.block_lists[s.root[file].last_block] = b,
                               !.root[file].last_block = b]
      next   == linked.block_lists[b]
  IN  Terminated([linked EXCEPT
                    !.first_free_block = next,
                    !.last_free_block  = IF next = EOC THEN EOC ELSE @,
                    !.used_block_count = @ + 1,
                    !.free_block_count = @ - 1], b)
----------------------------------------------------------------------------
(* Files.                                                                  *)

fat_create(s, file, mode) ==
  [s EXCEPT !.root[file] = [FreeEntry EXCEPT !.mode = mode]]

(* The part of one block that an access of count bytes from position pos   *)
(* covers: at most to the end of the block.                                *)
Chunk(pos, count) == Min({BLOCK_SIZE - (pos % BLOCK_SIZE), count})

(* Deliberate defect: a read does not stop at the end of the file.         *)
Readable_unclamped(s, file, offset, count) == count

Readable(s, file, offset, count) ==
  Max({0, Min({count, s.root[file].size - offset})})

(* One iteration of fat_read: what it adds to what was read.               *)
read_block(s, file, offset, total, read) ==
  LET pos  == offset + Len(read)
      size == Chunk(pos, total - Len(read))
      b    == fat_translate_block(s, file, pos \div BLOCK_SIZE)
  IN  IF size = 0 \/ b = EOC THEN read
      ELSE read \o [i \in 1..size |-> s.data[b][(pos % BLOCK_SIZE) + i - 1]]

(* The bytes that fat_read leaves in the buffer; their number is returned. *)
fat_read(s, file, offset, count) ==
  LET total == Readable(s, file, offset, count)
      loop[n \in 0..total] ==   \* after n iterations
        IF n = 0 THEN <<>>
        ELSE read_block(s, file, offset, total, loop[n-1])
  IN  loop[total]

(* One iteration of fat_write, after sofar.                                *)
write_block(sofar, file, buffer, offset) ==
  LET pos   == offset + sofar.written
      size  == Chunk(pos, Len(buffer) - sofar.written)
      at    == pos % BLOCK_SIZE
      b0    == fat_translate_block(sofar.fs, file, pos \div BLOCK_SIZE)
      grown == IF b0 = EOC THEN fat_add_block(sofar.fs, file) ELSE sofar.fs
      b     == IF b0 = EOC THEN grown.root[file].last_block ELSE b0
  IN  IF sofar.failed \/ size = 0 THEN sofar
      ELSE IF b0 = EOC /\ sofar.fs.first_free_block = EOC
      THEN [sofar EXCEPT !.failed = TRUE]
      ELSE [sofar EXCEPT
             !.fs = [grown EXCEPT
               !.data[b] = [i \in 0..BLOCK_SIZE-1 |->
                  IF i \in at .. at+size-1
                  THEN buffer[sofar.written + i - at + 1] ELSE @[i]],
               !.root[file].size = Max({@, pos + size})],
             !.written = @ + size]

(* The file system after fat_write, and whether it returned -ENOSPC: the   *)
(* blocks written before that stay written.                                *)
fat_write(s, file, buffer, offset) ==
  LET loop[n \in 0..Len(buffer)] ==   \* after n iterations
        IF n = 0 THEN [fs |-> s, written |-> 0, failed |-> FALSE]
        ELSE write_block(loop[n-1], file, buffer, offset)
  IN  loop[Len(buffer)]

(* Deliberate defects: the number of blocks rounded down, or always up.    *)
BlocksOf_down(size) == size \div BLOCK_SIZE
BlocksOf_up(size)   == size \div BLOCK_SIZE + 1

BlocksOf(size) ==
  size \div BLOCK_SIZE + (IF size % BLOCK_SIZE # 0 THEN 1 ELSE 0)

(* last_free_block moves only when the free list was empty.                *)
fat_unlink(s, file) ==
  LET entry  == s.root[file]
      joined == IF s.last_free_block # EOC
                THEN [s EXCEPT !.block_lists[s.last_free_block] =
                                  entry.first_block]
                ELSE [s EXCEPT !.first_free_block = entry.first_block,
                               !.last_free_block  = entry.last_block]
  IN  [joined EXCEPT !.free_block_count = @ + BlocksOf(entry.size),
                     !.used_block_count = @ - BlocksOf(entry.size),
                     !.root[file] = FreeEntry]
----------------------------------------------------------------------------
Used(s) == {f \in Files : s.root[f].mode # FREE_TYPE}

Init == fs = initZeOSFAT /\ opened = {}

(* The first free entry is taken.                                          *)
Create(mode) ==
  LET file == Min(Files \ Used(fs))
  IN  /\ Used(fs) # Files                                   \* else ENOSPC
      /\ fs' = fat_create(fs, file, mode)
      /\ opened' = opened \cup {file}

Write(file, offset, buffer) ==
  /\ file \in opened
  /\ fs' = fat_write(fs, file, buffer, offset).fs
  /\ UNCHANGED opened

Unlink(file) ==
  /\ file \in Used(fs)
  /\ fs' = fat_unlink(fs, file)
  /\ UNCHANGED opened

Next ==
  \/ \E mode \in Modes : Create(mode)
  \/ \E file \in Files, offset \in 0 .. MAX_BLOCKS*BLOCK_SIZE,
        buffer \in Buffers : Write(file, offset, buffer)
  \/ \E file \in Files : Unlink(file)

Spec == Init /\ [][Next]_<<fs, opened>>
----------------------------------------------------------------------------
(* Properties.                                                             *)

Entry ==
  [mode : {FREE_TYPE} \cup Modes,
   size : 0 .. 2*MAX_BLOCKS*BLOCK_SIZE + Longest,
   first_block : Blocks \cup {EOC}, last_block : Blocks \cup {EOC}]

(* Types: every link is a block or EOC, and neither block counter leaves   *)
(* 0..MAX_BLOCKS, whatever is removed, until the chains are unsound.       *)
TypeOK ==
  /\ fs \in [root : [Files -> Entry],
              block_lists : [Blocks -> Blocks \cup {EOC}],
              data : [Blocks -> [0..BLOCK_SIZE-1 -> Bytes \cup {NUL}]],
              first_free_block : Blocks \cup {EOC},
              last_free_block : Blocks \cup {EOC},
              free_block_count : 0..MAX_BLOCKS,
              used_block_count : 0..MAX_BLOCKS]
  /\ opened \subseteq Files

(* The chain that starts with block b, cut after MAX_BLOCKS+1 blocks.      *)
Chain(s, b) ==
  LET next == [x \in Blocks \cup {EOC} |->
                 IF x = EOC THEN EOC ELSE s.block_lists[x]]
      at[n \in 0..MAX_BLOCKS] == IF n = 0 THEN b ELSE next[at[n-1]]
      length == Cardinality({n \in 0..MAX_BLOCKS : at[n] # EOC})
  IN  [n \in 1..length |-> at[n-1]]

FreeChain(s)    == Chain(s, s.first_free_block)
FileChain(s, f) == Chain(s, s.root[f].first_block)
LastOf(chain)   == IF chain = <<>> THEN EOC ELSE Last(chain)

BlocksFor(size) == (size + BLOCK_SIZE - 1) \div BLOCK_SIZE

(* The places of owner o, who has this chain, and what block is there.     *)
Nobody == -1
Places(o, chain) == {<<o, n, chain[n]>> : n \in DOMAIN chain}

(* Every block is in one chain, at one place; a file has the blocks its    *)
(* size needs and knows the last of them; a removed file has none.         *)
Sound(s) ==
  LET places == Places(Nobody, FreeChain(s))
                  \cup UNION {Places(f, FileChain(s, f)) : f \in Files}
  IN  /\ {p[3] : p \in places} = Blocks
      /\ \A p, q \in places : p[3] = q[3] => p = q
      /\ \A f \in Files :
           /\ Len(FileChain(s, f)) = BlocksFor(s.root[f].size)
           /\ s.root[f].last_block = LastOf(FileChain(s, f))
           /\ f \notin Used(s) => s.root[f].first_block = EOC

(* The end of the free list is not where last_free_block says.             *)
Fragile(s) == s.last_free_block # LastOf(FreeChain(s))

(* The bytes of a file, block after block.                                 *)
Content(s, f) ==
  LET chain == FileChain(s, f)
  IN  [i \in 1 .. s.root[f].size |->
         LET n == (i-1) \div BLOCK_SIZE + 1
         IN  IF n <= Len(chain) THEN s.data[chain[n]][(i-1) % BLOCK_SIZE]
             ELSE NUL]

(* The counters of used and free blocks, which unlink computes from sizes  *)
(* and add_block one by one, agree with the lists.                         *)
CountersMatchLists ==
  Sound(fs) =>
    /\ fs.free_block_count = Len(FreeChain(fs))
    /\ fs.used_block_count = MAX_BLOCKS - Len(FreeChain(fs))

(* Whatever was created, written and removed before, a read returns the    *)
(* bytes of the file from offset on, up to its end.                        *)
ReadsBack ==
  Sound(fs) =>
    \A f \in Used(fs) :
      LET content == Content(fs, f)
      IN  \A offset \in 0 .. Len(content)+1, count \in 0 .. Longest :
            fat_read(fs, f, offset, count) =
              SubSeq(content, offset+1, Min({offset+count, Len(content)}))

(* The chains of blocks keep the promise of Files.                         *)
Promise == INSTANCE Files
  WITH File <- Files, Buffer <- Buffers, NrBlocks <- MAX_BLOCKS,
       BlockSize <- BLOCK_SIZE, sound <- Sound(fs), fragile <- Fragile(fs),
       content <- [f \in Used(fs) |-> Content(fs, f)],
       gone <- opened \ Used(fs)
ImplementsFiles == Promise!Spec

(* fat.c:243: unlink frees all assigned blocks, at the end of the free     *)
(* list.                                                                   *)
UnlinkFreesBlocks ==
  [][\A f \in Used(fs) \ Used(fs') :
       FreeChain(fs') = FreeChain(fs) \o FileChain(fs, f)]_fs
=============================================================================
