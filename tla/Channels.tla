------------------------------ MODULE Channels ------------------------------
(***************************************************************************)
(* The descriptors of the 0s kernel: the channels of every task, the table *)
(* of dynamic channels they refer to, the directory, and the services      *)
(* open, read, write, close, unlink, dup, fork and exit that work on them, *)
(* down to the blocks of module Fat.                                       *)
(*                                                                         *)
(* Every service is one action, of any task that exists.  Services refused *)
(* with an error, and the input and output of the two devices, change      *)
(* nothing here (the offset they advance is one that no driver looks       *)
(* at).  What a file contains is for Fat to say: all bytes are alike. When *)
(* the kernel calls through a NULL pointer, or copies from or to a         *)
(* negative offset, it is lost: nothing is known of what follows.          *)
(***************************************************************************)
EXTENDS Integers, SequencesExt

CONSTANTS NrTasks,                      \* NR_TASKS
          NUM_CHANNELS, NUM_DYNAMIC_CHANNELS,
          MAX_FILES, MAX_BLOCKS, BLOCK_SIZE, SYSBUFF_SIZE,
          ENOSPC,
          Names,        \* bound: the paths used, other than the devices
          Flags,        \* bound: the flags passed to open
          Counts,       \* bound: the counts passed to read and write
          FdArgs,       \* bound: the descriptors passed to the services
          MaxCloses     \* bound: how often opens may be decreased below 0

ASSUME ChannelsAssumption ==
  /\ NrTasks \in Nat \ {0}
  /\ NUM_CHANNELS \in Nat /\ NUM_CHANNELS >= 3
  /\ NUM_DYNAMIC_CHANNELS \in Nat /\ NUM_DYNAMIC_CHANNELS >= NUM_CHANNELS
  /\ MAX_FILES \in Nat /\ MAX_FILES >= 2
  /\ MAX_BLOCKS \in Nat \ {0}
  /\ BLOCK_SIZE \in Nat \ {0}
  /\ SYSBUFF_SIZE \in Nat \ {0}
  /\ ENOSPC \in Nat \ {0}
  /\ Flags \subseteq Nat
  /\ Counts \subseteq Nat
  /\ FdArgs \subseteq 0 .. NUM_CHANNELS     \* bad_fd refuses the others
  /\ MaxCloses \in Nat

Slots == 0 .. NrTasks-1
Fds   == 0 .. NUM_CHANNELS-1
Dyn   == 0 .. NUM_DYNAMIC_CHANNELS-1
Files == 0 .. MAX_FILES-1

(* bad_fd accepts one element more than channels has; the memory there is  *)
(* the unused end of the kernel stack, which is zero.                      *)
Accepted == 0 .. NUM_CHANNELS

FREE_CHANNEL  == -1
O_RDONLY      == 1
O_WRONLY      == 2
O_CREAT       == 4
O_EXCL        == 8
KEYBOARD_PATH == "KEYBOARD"
CONSOLE_PATH  == "DISPLAY"
dev_keyboard  == "dev_keyboard"
dev_console   == "dev_console"
dev_file      == "dev_file"
NULL          == "NULL"

Buffer(n) == [i \in 1..n |-> "byte"]

VARIABLES
  channels,       \* channels[t][fd], for the tasks t that exist: a dynamic
                  \*  channel or FREE_CHANNEL
  dyn_channels,   \* [fops, file, mode, offset, opens]
  name,           \* the names in the directory
  fs,             \* the rest of the file system
  outlived,       \* history: dynamic channels whose file was removed
  lost

vars == <<channels, dyn_channels, name, fs, outlived, lost>>

Disk == INSTANCE Fat WITH Modes   <- 0..3,
                          Buffers <- {Buffer(n) : n \in Counts},
                          opened  <- {}

Live == DOMAIN channels

Has(flags, bit) == (flags \div bit) % 2 = 1
Access(flags)   == flags % 4                    \* flags & O_RDWR

IsFile(d) ==
  dyn_channels[d].mode # FREE_CHANNEL /\ dyn_channels[d].fops = dev_file
----------------------------------------------------------------------------
(* The tables.                                                             *)

(* Deliberate defect: a task's full table is not noticed.                  *)
find_free_channel_last(chs) ==
  LET unused == {fd \in Fds : chs[fd] = FREE_CHANNEL}
  IN  IF unused = {} THEN NUM_CHANNELS-1 ELSE Min(unused)

find_free_channel(chs) ==
  LET unused == {fd \in Fds : chs[fd] = FREE_CHANNEL}
  IN  IF unused = {} THEN -1 ELSE Min(unused)

(* Deliberate defect: a full table is not noticed.                         *)
find_free_dyn_channel_last ==
  LET unused == {d \in Fds : dyn_channels[d].mode = FREE_CHANNEL}
  IN  IF unused = {} THEN NUM_CHANNELS ELSE Min(unused)

(* Of the dynamic channels only the first NUM_CHANNELS are handed out.     *)
find_free_dyn_channel ==
  LET unused == {d \in Fds : dyn_channels[d].mode = FREE_CHANNEL}
  IN  IF unused = {} THEN -1 ELSE Min(unused)

file_is_in_use(f) ==
  LET users == {d \in Dyn : dyn_channels[d].file = f
                              /\ dyn_channels[d].opens > 0}
  IN  IF users = {} THEN -1 ELSE Min(users)

Found(path) == {f \in Disk!Used(fs) : name[f] = path}   \* fat_find_path

(* FREE_CHANNEL has all the bits of a mode.                                *)
fd_access_ok(t, fd, mode) ==
  /\ channels[t][fd] # FREE_CHANNEL
  /\ LET m == dyn_channels[channels[t][fd]].mode
     IN  m = FREE_CHANNEL \/ Has(m, mode)

fat_access_ok(f, flags) == Access(fs.root[f].mode) = Access(flags)
----------------------------------------------------------------------------
(* init_dynamic_channels, the directory entries that init_devices creates, *)
(* and set_default_std_in_out_err, which init_task0 calls without its      *)
(* argument: task[0] gets the three channels if the pointer that happens   *)
(* to be on the stack is still its own.                                    *)
Init ==
  LET std(fops, mode) ==
        [fops |-> fops, file |-> 0, mode |-> mode, offset |-> 0, opens |-> 0]
      none == [t \in {0} |-> [fd \in Accepted |->
                 IF fd = NUM_CHANNELS THEN 0 ELSE FREE_CHANNEL]]
      entry(f, n) == IF f = 0 THEN KEYBOARD_PATH
                     ELSE IF f = 1 THEN CONSOLE_PATH ELSE n
  IN  /\ channels \in {none, [none EXCEPT ![0] =
                          [fd \in Accepted |-> IF fd < 3 THEN fd ELSE @[fd]]]}
      /\ dyn_channels = [d \in Dyn |->
           CASE d = 0     -> std(dev_keyboard, O_RDONLY)
             [] d \in 1..2 -> std(dev_console, O_WRONLY)
             [] OTHER     -> std(NULL, FREE_CHANNEL)]
      /\ name = [f \in Files |-> entry(f, "")]
      /\ fs = Disk!fat_create(Disk!fat_create(Disk!initZeOSFAT, 0, O_RDONLY),
                              1, O_WRONLY)
      /\ outlived = {}
      /\ lost = FALSE
----------------------------------------------------------------------------
(* A call through a NULL pointer, or an access in front of block_buffer.   *)
Lose ==
  lost' = TRUE /\ UNCHANGED <<channels, dyn_channels, name, fs, outlived>>

(* Deliberate defect: every path opens a file.                             *)
Driver_file(d, created) == dev_file

(* An existing path leaves the driver to what the dynamic channel had.     *)
Driver(d, created) == IF created THEN dev_file ELSE dyn_channels[d].fops

(* Deliberate defect: flags | O_RDWR.                                      *)
OpenMode_or(flags) == flags - Access(flags) + 3

(* flags & O_RDWR                                                          *)
OpenMode(flags) == Access(flags)

(* The end of open: the first free channel of t refers to d, d to file f.  *)
Install(t, d, f, flags, created) ==
  /\ channels' = [channels EXCEPT ![t][find_free_channel(channels[t])] = d]
  /\ dyn_channels' = [dyn_channels EXCEPT ![d] =
       [fops |-> Driver(d, created), file |-> f, mode |-> OpenMode(flags),
        offset |-> 0, opens |-> @.opens + 1]]
  /\ outlived' = outlived \ {d}
  /\ UNCHANGED lost

sys_open(t, path, flags) ==
  LET d == find_free_dyn_channel
  IN  /\ find_free_channel(channels[t]) >= 0 /\ d >= 0      \* else EMFILE
      /\ \/ /\ Found(path) = {}
            /\ Has(flags, O_CREAT)                          \* else ENOENT
            /\ Disk!Used(fs) # Files                        \* else ENOSPC
            /\ LET f == Min(Files \ Disk!Used(fs))
               IN  /\ fs' = Disk!fat_create(fs, f, Access(flags))
                   /\ name' = [name EXCEPT ![f] = path]
                   /\ Install(t, d, f, flags, TRUE)
         \/ \E f \in Found(path) :
              /\ ~(Has(flags, O_CREAT) /\ Has(flags, O_EXCL))  \* else EEXIST
              /\ fat_access_ok(f, flags)                       \* else EACCES
              /\ \/ /\ Driver(d, FALSE) = NULL
                    /\ Lose
                 \/ /\ Driver(d, FALSE) # NULL
                    /\ Install(t, d, f, flags, FALSE)
                    /\ UNCHANGED <<name, fs>>

(* Deliberate defect: the offset advances by the count that was asked for. *)
Transferred_asked(c, count) == count

(* What a read of a file returns.                                          *)
Transferred(c, count) == Len(Disk!fat_read(fs, c.file, c.offset, count))

sys_read(t, fd, count) ==
  LET d == channels[t][fd]
      c == dyn_channels[d]
  IN  /\ fd_access_ok(t, fd, O_RDONLY)                      \* else EBADF
      /\ \/ /\ c.fops = dev_file /\ c.offset >= 0
            /\ dyn_channels' = [dyn_channels EXCEPT
                                  ![d].offset = @ + Transferred(c, count)]
            /\ UNCHANGED <<channels, name, fs, outlived, lost>>
         \/ c.fops = dev_file /\ c.offset < 0 /\ Lose
         \/ c.fops = dev_console /\ Lose                    \* f_read is NULL

(* One iteration of sys_write_file: a piece of SYSBUFF_SIZE bytes.         *)
write_piece(sofar, c, count) ==
  LET chuck == Min({SYSBUFF_SIZE, count - sofar.written})
      wrote == Disk!fat_write(sofar.fs, c.file, Buffer(chuck),
                              c.offset + sofar.written)
  IN  IF sofar.failed \/ chuck = 0 THEN sofar
      ELSE [fs |-> wrote.fs, failed |-> wrote.failed,
            written |-> sofar.written
                        + IF wrote.failed THEN -ENOSPC ELSE chuck]

(* The file system after sys_write_file and what it returns: the number of *)
(* bytes in the pieces that were written, less ENOSPC when one was not.    *)
sys_write_file(c, count) ==
  LET loop[n \in 0..count] ==   \* after n pieces
        IF n = 0 THEN [fs |-> fs, written |-> 0, failed |-> FALSE]
        ELSE write_piece(loop[n-1], c, count)
  IN  loop[count]

sys_write(t, fd, count) ==
  LET d == channels[t][fd]
      c == dyn_channels[d]
  IN  /\ fd_access_ok(t, fd, O_WRONLY)                      \* else EBADF
      /\ \/ /\ c.fops = dev_file /\ c.offset >= 0
            /\ LET wrote == sys_write_file(c, count)
               IN  /\ fs' = wrote.fs
                   /\ dyn_channels' = [dyn_channels EXCEPT
                                         ![d].offset = @ + wrote.written]
            /\ UNCHANGED <<channels, name, outlived, lost>>
         \/ c.fops = dev_file /\ c.offset < 0 /\ Lose
         \/ c.fops = dev_keyboard /\ Lose                   \* f_write is NULL

(* fat_close refuses when opens of the directory entry is 0, and it is.    *)
CloseFails(c) == c.fops = dev_file

(* The channels chs of a task and the dynamic channels after the close of  *)
(* fd, whose dynamic channel is free unless the same task has it twice.    *)
sys_close(chs, dyn, fd) ==
  LET d     == chs[fd]
      duped == \E i \in Fds \ {fd} : chs[i] = d
  IN  IF d = FREE_CHANNEL \/ CloseFails(dyn[d])
      THEN [chs |-> chs, dyn |-> dyn]
      ELSE [chs |-> [chs EXCEPT ![fd] = FREE_CHANNEL],
            dyn |-> [dyn EXCEPT
                       ![d].mode  = IF duped THEN @ ELSE FREE_CHANNEL,
                       ![d].opens = @ - 1]]

(* What follows is the same for close and exit.                            *)
Closed(dyn) ==
  /\ dyn_channels' = dyn
  /\ \A d \in Dyn : dyn[d].opens >= -MaxCloses
  /\ UNCHANGED <<name, fs, outlived, lost>>

Close(t, fd) ==
  LET after == sys_close(channels[t], dyn_channels, fd)
  IN  /\ channels' = [channels EXCEPT ![t] = after.chs]
      /\ Closed(after.dyn)

sys_unlink(path) ==
  \E f \in Found(path) :                                    \* else ENOENT
    /\ file_is_in_use(f) >= 0                               \* else EBUSY
    /\ dyn_channels[file_is_in_use(f)].fops = dev_file
    /\ fs' = Disk!fat_unlink(fs, f)
    /\ name' = [name EXCEPT ![f] = ""]
    /\ outlived' = outlived \cup
                     {d \in Dyn : IsFile(d) /\ dyn_channels[d].file = f}
    /\ UNCHANGED <<channels, dyn_channels, lost>>

sys_dup(t, fd) ==
  LET new_fd == find_free_channel(channels[t])
  IN  /\ channels[t][fd] # FREE_CHANNEL                     \* else EBADF
      /\ new_fd >= 0                                        \* else EMFILE
      /\ channels' = [channels EXCEPT ![t][new_fd] = channels[t][fd]]
      /\ UNCHANGED <<dyn_channels, name, fs, outlived, lost>>

(* The child gets a copy of everything its parent has.                     *)
sys_fork(t, child) ==
  /\ child \notin Live
  /\ channels' = [u \in Live \cup {child} |->
                    IF u = child THEN channels[t] ELSE channels[u]]
  /\ UNCHANGED <<dyn_channels, name, fs, outlived, lost>>

(* The loop of exit closes the channels one by one.                        *)
sys_exit(t) ==
  LET after[n \in 0..NUM_CHANNELS] ==
        IF n = 0 THEN [chs |-> channels[t], dyn |-> dyn_channels]
        ELSE sys_close(after[n-1].chs, after[n-1].dyn, n-1)
  IN  /\ t # 0
      /\ channels' = [u \in Live \ {t} |-> channels[u]]
      /\ Closed(after[NUM_CHANNELS].dyn)
----------------------------------------------------------------------------
Paths   == Names \cup {KEYBOARD_PATH, CONSOLE_PATH}
Callers == {t \in Live : ~lost}

Next ==
  \/ \E t \in Callers, path \in Paths, flags \in Flags :
       sys_open(t, path, flags)
  \/ \E t \in Callers, fd \in FdArgs, count \in Counts :
       sys_read(t, fd, count)
  \/ \E t \in Callers, fd \in FdArgs, count \in Counts :
       sys_write(t, fd, count)
  \/ \E t \in Callers, fd \in FdArgs : Close(t, fd)
  \/ \E t \in Callers, path \in Paths : sys_unlink(path)
  \/ \E t \in Callers, fd \in FdArgs : sys_dup(t, fd)
  \/ \E t \in Callers, child \in Slots : sys_fork(t, child)
  \/ \E t \in Callers : sys_exit(t)

Spec == Init /\ [][Next]_vars
----------------------------------------------------------------------------
(* Properties.                                                             *)

(* Types: a descriptor refers to one of the dynamic channels that are      *)
(* handed out, or to none.                                                 *)
TypeOK ==
  /\ 0 \in Live /\ Live \subseteq Slots
  /\ channels \in [Live -> [Accepted -> Fds \cup {FREE_CHANNEL}]]
  /\ dyn_channels \in
       [Dyn -> [fops : {dev_keyboard, dev_console, dev_file, NULL},
                file : Files, mode : 0..3 \cup {FREE_CHANNEL},
                offset : Int, opens : Int]]
  /\ name \in [Files -> Paths \cup {""}]
  /\ outlived \subseteq Dyn
  /\ lost \in BOOLEAN

(* fat_write loses what is written beyond the end of a file.  Whatever the *)
(* tasks that share a channel read and write, and also after a write that  *)
(* failed half-way, its offset is not beyond the end of its file, if the   *)
(* file was not removed under it.                                          *)
OffsetWithinFile ==
  \A d \in Dyn : IsFile(d) /\ d \notin outlived =>
    dyn_channels[d].offset <= fs.root[dyn_channels[d].file].size

(* A file is read and written only as the flags that created it allow,     *)
(* whatever open, dup, fork, close or exit of other tasks is between its   *)
(* creation and the access: open compares the flags with those of the      *)
(* creation but keeps its own in the channel, and fd_access_ok looks only  *)
(* there, and lets everything through a channel that is marked free.       *)
AccessAsCreated ==
  \A t \in Live, fd \in Accepted, mode \in {O_RDONLY, O_WRONLY} :
    LET d == channels[t][fd]
        c == dyn_channels[d]
    IN  /\ fd_access_ok(t, fd, mode)
        /\ c.fops = dev_file
        /\ d \notin outlived
        => Has(fs.root[c.file].mode, mode)

(* The two devices stay in the directory and are never written as files:   *)
(* neither unlink nor a channel with a driver that was left over reaches   *)
(* their entries.                                                          *)
DeviceEntriesStay ==
  /\ name[0] = KEYBOARD_PATH /\ name[1] = CONSOLE_PATH
  /\ {0, 1} \subseteq Disk!Used(fs)
  /\ fs.root[0].size = 0 /\ fs.root[1].size = 0
  /\ \A d \in Dyn : IsFile(d) => dyn_channels[d].file \notin {0, 1}

(* The descriptor of a file keeps its meaning until its task closes it or  *)
(* exits: no close, exit, open or dup, of whatever task and whatever other *)
(* descriptor, gives it another dynamic channel, or its dynamic channel    *)
(* another file, other rights or back to those that open hands out.  (The  *)
(* descriptors of the devices do not: a task that exits frees them for     *)
(* everybody.  Those of files keep it only because fat_close refuses.)     *)
FileDescriptorsStay ==
  [][\A t \in Live, fd \in Fds :
       LET d == channels[t][fd]
       IN  d # FREE_CHANNEL /\ IsFile(d) /\ t \in Live' =>
             \/ channels' = [channels EXCEPT ![t][fd] = FREE_CHANNEL]
             \/ /\ channels'[t][fd] = d
                /\ dyn_channels'[d].fops = dev_file
                /\ dyn_channels'[d].file = dyn_channels[d].file
                /\ dyn_channels'[d].mode = dyn_channels[d].mode]_vars

(* channel.h:17: the mode of a dynamic channel is FREE_CHANNEL if it is    *)
(* unopened.                                                               *)
FreeIfUnopened ==
  \A t \in Live, fd \in Fds :
    channels[t][fd] # FREE_CHANNEL =>
      dyn_channels[channels[t][fd]].mode # FREE_CHANNEL
=============================================================================
