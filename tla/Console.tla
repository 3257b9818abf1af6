------------------------------ MODULE Console ------------------------------
(***************************************************************************)
(* The screen of 0s: io.c, kernutil.c, sys_write_console of devices.c and  *)
(* the clock in the first row of interrupt.c.  The screen is memory: what  *)
(* lies to the right of a row is the row below.                            *)
(***************************************************************************)
EXTENDS Integers, Sequences

CONSTANTS NUM_COLUMNS, NUM_ROWS,
          StartRow,         \* initial value of y (15 in the code)
          LastByte,         \* 255: the largest x
          TICS_PER_SEC,
          Minute, Base,     \* 60 and 10 in the code
          Writes,           \* bound: what processes write, each in one call
          Messages,         \* bound: what the kernel prints in one go
          Leftovers,        \* bound: what the screen shows before the kernel prints
          MaxTics           \* bound: clock interrupts

Cells == 0 .. NUM_ROWS * NUM_COLUMNS - 1
At(column, row) == row * NUM_COLUMNS + column
RowOf(cell) == cell \div NUM_COLUMNS

ASSUME ConsoleAssumption ==
  /\ NUM_COLUMNS \in Nat /\ NUM_COLUMNS > 3
  /\ NUM_ROWS \in Nat /\ NUM_ROWS > 2
  /\ LastByte \in Nat /\ LastByte >= NUM_COLUMNS
  /\ StartRow \in 1..NUM_ROWS-1
  /\ TICS_PER_SEC \in Nat \ {0} /\ MaxTics \in Nat
  /\ Base \in Nat /\ Base > 1
  /\ Minute \in 1 .. Base*Base     \* two digits for the seconds
  /\ Writes \cup Messages \subseteq Seq(Nat)
  /\ Leftovers \subseteq [Cells -> Nat]

(* Characters.                                                             *)
NUL     == 0
Newline == 10
Blank   == 32
Zero    == 48
Colon   == 58

VARIABLES
  screen,           \* the cells from address 0xb8000 on
  x, y,             \* where the next character goes
  tics, tacs,       \* interrupts of the clock; those left of this second
  secs,             \* seconds since the start
  keeps             \* see do_scroll

vars == <<screen, x, y, tics, tacs, secs, keeps>>

(* Initial state.  No code clears the screen: the kernel prints on what    *)
(* the BIOS and the boot sector left there, whatever that is.              *)
Init ==
  /\ screen \in Leftovers
  /\ x = 0 /\ y = StartRow
  /\ tics = 0 /\ tacs = TICS_PER_SEC
  /\ secs = 0
  /\ keeps \in BOOLEAN
----------------------------------------------------------------------------
(* Characters that follow each other.                                      *)

(* do_scroll moves rows 2 and on up by one and blanks the last.  The       *)
(* instruction that reads a character changes an operand that it declares  *)
(* as input, so what is written is the character or NUL: which of the two  *)
(* is the compiler's choice, and the same for each call (keeps).           *)
do_scroll(scr) ==
  [cell \in Cells |->
     CASE RowOf(cell) = 0          -> scr[cell]
       [] RowOf(cell) = NUM_ROWS-1 -> Blank
       [] OTHER -> IF keeps THEN scr[cell + NUM_COLUMNS] ELSE NUL]

(* The state of the screen, for the loops.                                 *)
Con == [screen |-> screen, x |-> x, y |-> y]

(* Deliberate defect: one row more than the screen has.                    *)
NextRow_beyond(con) ==
  IF con.y >= NUM_ROWS
  THEN [con EXCEPT !.x = 0, !.screen = do_scroll(@)]
  ELSE [con EXCEPT !.x = 0, !.y = @ + 1]

(* x = 0; if (++y >= NUM_ROWS) { y--; do_scroll(); }                       *)
NextRow(con) ==
  IF con.y + 1 >= NUM_ROWS
  THEN [con EXCEPT !.x = 0, !.screen = do_scroll(@)]
  ELSE [con EXCEPT !.x = 0, !.y = @ + 1]

(* What a newline does before it goes to the next row: it blanks the cells *)
(* to the right of x, but only if x is the last column, and then those of  *)
(* the rows below until x, a Byte, is 0 again.                             *)
Filled(con) ==
  IF con.x + 1 < NUM_COLUMNS THEN con
  ELSE [con EXCEPT !.screen =
          [cell \in Cells |->
             IF cell \in At(NUM_COLUMNS, con.y) .. At(LastByte, con.y) THEN Blank
             ELSE @[cell]]]

(* Deliberate defect: a row that takes one column more than it has.        *)
printc_late(con, c) ==
  IF c = Newline THEN NextRow(Filled(con))
  ELSE LET moved == IF con.x + 1 > NUM_COLUMNS THEN NextRow(con)
                    ELSE [con EXCEPT !.x = @ + 1]
       IN  [moved EXCEPT !.screen[At(con.x, con.y)] = c]

(* The address is computed first, the character stored last: a character   *)
(* that fills the last row is stored after that row has moved up.          *)
printc(con, c) ==
  IF c = Newline THEN NextRow(Filled(con))
  ELSE LET moved == IF con.x + 1 >= NUM_COLUMNS THEN NextRow(con)
                    ELSE [con EXCEPT !.x = @ + 1]
       IN  [moved EXCEPT !.screen[At(con.x, con.y)] = c]

(* The loop of printk, and of sys_write_console: no buffer that a process  *)
(* may pass is larger than sysbuff, so there is one round of its loop.     *)
Printed(string) ==
  LET after[n \in 0..Len(string)] ==   \* after n characters
        IF n = 0 THEN Con ELSE printc(after[n-1], string[n])
  IN  after[Len(string)]

PutAll(string) ==
  /\ LET con == Printed(string)
     IN  screen' = con.screen /\ x' = con.x /\ y' = con.y
  /\ UNCHANGED <<tics, tacs, secs, keeps>>

sys_write_console(buffer) == PutAll(buffer)
printk(string) == PutAll(string)
----------------------------------------------------------------------------
(* The clock.                                                              *)

(* The digits of value, found from the last to the first, and the same     *)
(* with zeros before them.                                                 *)
itoa(value) ==
  LET digits[v \in 0..value] ==
        IF v < Base THEN <<Zero + v>>
        ELSE Append(digits[v \div Base], Zero + (v % Base))
  IN  digits[value]
itoap(value, minlength) ==
  [i \in 1 .. minlength - Len(itoa(value)) |-> Zero] \o itoa(value)

(* Until the last interrupt the minutes have room left of the seconds: the *)
(* 80 columns of the code are far more than the digits of an int.          *)
ASSUME ClockAssumption ==
  \A s \in 0..MaxTics : s * TICS_PER_SEC < MaxTics =>
    Len(itoa(s \div Minute)) + 3 <= NUM_COLUMNS

(* The string ends in the last column; its NUL follows it.                 *)
printk_xyr(row, str) ==
  LET l == Len(str)
  IN  [cell \in Cells |->
         IF cell = At(NUM_COLUMNS, row) THEN NUL
         ELSE IF cell \in At(NUM_COLUMNS - l, row) .. At(NUM_COLUMNS - 1, row)
              THEN str[cell - At(NUM_COLUMNS - l, row) + 1]
         ELSE screen[cell]]

(* Deliberate defect: the interrupt that ends a second counts for none.    *)
clock_routine_slow ==
  /\ tics < MaxTics
  /\ tics' = tics + 1
  /\ IF tacs = 0
     THEN /\ tacs' = TICS_PER_SEC
          /\ secs' = secs + 1
          /\ screen' = printk_xyr(0, itoa(secs' \div Minute) \o <<Colon>>
                                       \o itoap(secs' % Minute, 2))
     ELSE /\ tacs' = tacs - 1
          /\ UNCHANGED <<secs, screen>>
  /\ UNCHANGED <<x, y, keeps>>

(* The rest of clock_routine is in Scheduler.                              *)
clock_routine ==
  /\ tics < MaxTics
  /\ tics' = tics + 1
  /\ IF tacs = 0
     THEN /\ tacs' = TICS_PER_SEC - 1
          /\ secs' = secs + 1
          /\ screen' = printk_xyr(0, itoa(secs' \div Minute) \o <<Colon>>
                                       \o itoap(secs' % Minute, 2))
     ELSE /\ tacs' = tacs - 1
          /\ UNCHANGED <<secs, screen>>
  /\ UNCHANGED <<x, y, keeps>>

Next ==
  \/ \E buffer \in Writes : sys_write_console(buffer)
  \/ \E string \in Messages : printk(string)
  \/ clock_routine

Spec == Init /\ [][Next]_vars
----------------------------------------------------------------------------
(* Properties.                                                             *)

(* Types and ranges: the position is on the screen, below the clock's row. *)
TypeOK ==
  /\ screen \in [Cells -> Nat]
  /\ x \in 0..NUM_COLUMNS-1
  /\ y \in 1..NUM_ROWS-1
  /\ tics \in 0..MaxTics
  /\ tacs \in 0..TICS_PER_SEC
  /\ secs \in Nat
  /\ keeps \in BOOLEAN

(* The number that the digits in the cells from first to last say.         *)
Number(first, last) ==
  LET value[cell \in first-1..last] ==
        IF cell = first-1 THEN 0
        ELSE value[cell-1] * Base + screen[cell] - Zero
  IN  value[last]
Reads(first, last) ==
  \A cell \in first..last : screen[cell] \in Zero .. Zero+Base-1

(* From the end of the first second on the first row ends in the time,     *)
(* m:ss, whatever was there before, whatever else is printed and however   *)
(* often the rest scrolls: some digits, without a leading zero, a colon    *)
(* and two digits are numbers of minutes and seconds that are never ahead  *)
(* of the interrupts, behind them by less than a second and an interrupt,  *)
(* and do not drift, through the division, the conversion to digits, the   *)
(* padding and the alignment.  Where the minutes begin cannot be told from *)
(* the row when the cell before them held a digit.                         *)
ClockShowsTime ==
  tics > TICS_PER_SEC =>
    \E first \in 0..NUM_COLUMNS-4 :
      LET shown == Number(first, NUM_COLUMNS-4) * Minute
                     + Number(NUM_COLUMNS-2, NUM_COLUMNS-1)
      IN  /\ Reads(first, NUM_COLUMNS-4) /\ Reads(NUM_COLUMNS-2, NUM_COLUMNS-1)
          /\ screen[NUM_COLUMNS-3] = Colon
          /\ first < NUM_COLUMNS-4 => screen[first] # Zero
          /\ shown * TICS_PER_SEC <= tics
          /\ tics <= (shown + 1) * TICS_PER_SEC

HiddenPlaces == {<<1, 0>>} \cup {<<row, NUM_COLUMNS-1>> : row \in 1..NUM_ROWS-1}
ShownText ==
  [p \in ((1..NUM_ROWS-1) \X (0..NUM_COLUMNS-1)) \ HiddenPlaces |->
     screen[At(p[2], p[1])]]

(* The rows below show what was written over what they showed at first, as *)
(* Teletype says, whatever the clock does.  Hidden are the last column,    *)
(* where the character that fills the last row lands in the next, and the  *)
(* corner below the clock.                                                 *)
Paper == INSTANCE Teletype
  WITH Lines   <- NUM_ROWS - 1,
       Columns <- NUM_COLUMNS,
       Line0   <- StartRow,
       Hidden  <- HiddenPlaces,
       Nothing <- NUL,
       Spill   <- LastByte + 1 - NUM_COLUMNS,
       Texts   <- Writes \cup Messages,
       text    <- ShownText,
       line    <- y,
       column  <- x
ImplementsTeletype == Paper!Spec
=============================================================================
