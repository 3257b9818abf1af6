--------------------------- MODULE ConsoleProofs ---------------------------
(***************************************************************************)
(* Theorems about the console, for a screen of any size, any texts, any    *)
(* clock rate and any base.                                                *)
(***************************************************************************)
EXTENDS Console, SequenceTheorems, WellFoundedInduction, TLAPS

(* A set of natural numbers has a smallest element.                        *)
LEMMA NatWellOrdered ==
  ASSUME NEW T, T \subseteq Nat, T # {}
  PROVE  \E m \in T : \A k \in T : ~(k < m)
  <1>1. \E R : IsWellFoundedOn(R, Nat) /\ \A k, m \in Nat : k < m => <<k, m>> \in R
    <2>1. IsWellFoundedOn(OpToRel(<, Nat), Nat)
      BY NatLessThanWellFounded, Zenon
    <2>2. \A k, m \in Nat : k < m => <<k, m>> \in OpToRel(<, Nat)
      BY Zenon DEF OpToRel
    <2> QED BY <2>1, <2>2, Zenon
  <1>2. PICK R : IsWellFoundedOn(R, Nat) /\ \A k, m \in Nat : k < m => <<k, m>> \in R
    BY <1>1
  <1>3. PICK m \in T : \A k \in T : ~(<<k, m>> \in R)
    <2>1. IsWellFoundedOn(R, Nat)
      BY <1>2
    <2> QED BY <2>1, WFMin, Zenon
  <1> QED BY <1>2, <1>3

(* An inductive set of natural numbers holds them all.                     *)
LEMMA NatSetInduction ==
  ASSUME NEW I, 0 \in I, \A n \in Nat : n \in I => n+1 \in I
  PROVE  Nat \subseteq I
  <1> SUFFICES ASSUME Nat \ I # {} PROVE FALSE
    OBVIOUS
  <1>1. PICK m \in Nat \ I : \A k \in Nat \ I : ~(k < m)
    BY NatWellOrdered
  <1>2. m-1 \in Nat /\ m-1 < m /\ (m-1)+1 = m
    BY <1>1
  <1> QED BY <1>1, <1>2


----------------------------------------------------------------------------
(* Division.                                                               *)
LEMMA DivMod ==
  ASSUME NEW a \in Nat, NEW b \in Nat \ {0}
  PROVE  /\ a \div b \in Nat /\ a % b \in 0..b-1
         /\ a = b * (a \div b) + (a % b)
  OBVIOUS

LEMMA DivUnique ==
  ASSUME NEW b \in Nat \ {0}, NEW q \in Nat, NEW r \in 0..b-1
  PROVE  (b * q + r) \div b = q /\ (b * q + r) % b = r
  OBVIOUS

(* A quotient is smaller than what is divided.                             *)
LEMMA DivSmaller ==
  ASSUME NEW a \in Nat \ {0}, NEW b \in Nat, b > 1
  PROVE  a \div b < a
  OBVIOUS

LEMMA DivBound ==
  ASSUME NEW a \in Nat, NEW b \in Nat \ {0}, NEW c \in Nat, a < b * c
  PROVE  a \div b < c
  OBVIOUS

LEMMA ProductMonotone ==
  ASSUME NEW a \in Nat, NEW c \in Nat, NEW b \in Nat, a <= c
  PROVE  a * b <= c * b
  OBVIOUS

----------------------------------------------------------------------------
(* The cells of the screen, row by row.                                    *)
LEMMA Layout ==
  ASSUME NEW row \in 0..NUM_ROWS-1, NEW column \in 0..NUM_COLUMNS-1
  PROVE  /\ At(column, row) \in Cells
         /\ RowOf(At(column, row)) = row
         /\ At(column, row) % NUM_COLUMNS = column
  <1>1. NUM_COLUMNS \in Nat \ {0} /\ NUM_ROWS \in Nat
    BY ConsoleAssumption
  <1>2. At(column, row) = NUM_COLUMNS * row + column
    BY <1>1 DEF At
  <1>3. (row + 1) * NUM_COLUMNS <= NUM_ROWS * NUM_COLUMNS
    <2>1. row + 1 <= NUM_ROWS /\ row + 1 \in Nat
      BY <1>1
    <2> QED BY <1>1, <2>1, ProductMonotone
  <1>4. (row + 1) * NUM_COLUMNS = NUM_COLUMNS * row + NUM_COLUMNS
    BY <1>1
  <1>5. NUM_COLUMNS * row \in Nat /\ NUM_ROWS * NUM_COLUMNS \in Nat
    BY <1>1
  <1>6. At(column, row) \in Cells
    BY <1>1, <1>2, <1>3, <1>4, <1>5 DEF Cells
  <1>7. row \in Nat /\ column \in 0..NUM_COLUMNS-1
    BY <1>1
  <1>8. /\ (NUM_COLUMNS * row + column) \div NUM_COLUMNS = row
        /\ (NUM_COLUMNS * row + column) % NUM_COLUMNS = column
    BY <1>1, <1>7, DivUnique
  <1> QED BY <1>2, <1>6, <1>8 DEF RowOf

(* Different places are different cells.                                   *)
LEMMA Injective ==
  ASSUME NEW r1 \in 0..NUM_ROWS-1, NEW c1 \in 0..NUM_COLUMNS-1,
         NEW r2 \in 0..NUM_ROWS-1, NEW c2 \in 0..NUM_COLUMNS-1,
         At(c1, r1) = At(c2, r2)
  PROVE  r1 = r2 /\ c1 = c2
  BY Layout

LEMMA RowsOfCells ==
  ASSUME NEW cell \in Cells
  PROVE  /\ RowOf(cell) \in 0..NUM_ROWS-1
         /\ RowOf(cell) = 0 <=> cell < NUM_COLUMNS
         /\ RowOf(cell) < NUM_ROWS-1 =>
              /\ cell + NUM_COLUMNS \in Cells
              /\ RowOf(cell + NUM_COLUMNS) = RowOf(cell) + 1
  <1>1. NUM_COLUMNS \in Nat \ {0} /\ NUM_ROWS \in Nat /\ NUM_ROWS > 2
    BY ConsoleAssumption
  <1>2. NUM_ROWS * NUM_COLUMNS \in Nat /\ NUM_ROWS * NUM_COLUMNS = NUM_COLUMNS * NUM_ROWS
    BY <1>1
  <1>3. cell \in Nat /\ cell < NUM_COLUMNS * NUM_ROWS
    BY <1>2 DEF Cells
  <1>4. PICK q \in Nat, r \in 0..NUM_COLUMNS-1 :
          q = RowOf(cell) /\ cell = NUM_COLUMNS * q + r
    <2>1. PICK q : q = cell \div NUM_COLUMNS
      OBVIOUS
    <2>2. PICK r : r = cell % NUM_COLUMNS
      OBVIOUS
    <2>3. q \in Nat /\ r \in 0..NUM_COLUMNS-1 /\ cell = NUM_COLUMNS * q + r
      BY <1>1, <1>3, <2>1, <2>2, DivMod
    <2> QED BY <2>1, <2>3 DEF RowOf
  <1>5. q < NUM_ROWS
    BY <1>1, <1>3, <1>4, DivBound DEF RowOf
  <1>6. q = 0 <=> cell < NUM_COLUMNS
    <2>1. CASE q = 0
      BY <1>1, <1>4, <2>1
    <2>2. CASE q # 0
      <3>1. NUM_COLUMNS * 1 <= NUM_COLUMNS * q
        BY <1>1, <1>4, <2>2
      <3>2. NUM_COLUMNS * q \in Nat
        BY <1>1, <1>4
      <3> QED BY <1>1, <1>4, <2>2, <3>1, <3>2
    <2> QED BY <2>1, <2>2
  <1>7. ASSUME q < NUM_ROWS-1
        PROVE  cell + NUM_COLUMNS \in Cells /\ RowOf(cell + NUM_COLUMNS) = q + 1
    <2>1. NUM_COLUMNS * (q + 1) = NUM_COLUMNS * q + NUM_COLUMNS
      BY <1>1, <1>4
    <2>2. cell + NUM_COLUMNS = NUM_COLUMNS * (q + 1) + r
      BY <1>1, <1>4, <2>1
    <2>3. cell + NUM_COLUMNS = At(r, q+1)
      BY <1>1, <1>4, <2>2 DEF At
    <2>4. q+1 \in 0..NUM_ROWS-1
      BY <1>1, <1>4, <1>7
    <2> QED BY <1>4, <2>3, <2>4, Layout
  <1> QED BY <1>1, <1>4, <1>5, <1>6, <1>7

----------------------------------------------------------------------------
(* One character.  What the loops work on.                                 *)
ConOK(con) ==
  con \in [screen : [Cells -> Nat], x : 0..NUM_COLUMNS-1, y : 1..NUM_ROWS-1]

(* The row of the clock.                                                   *)
Row0 == 0..NUM_COLUMNS-1

(* What Teletype sees of a screen.                                         *)
PageOf(con) ==
  [text |-> [p \in Paper!Places |-> con.screen[At(p[2], p[1])]],
   line |-> con.y, column |-> con.x]

(***************************************************************************)
(* A newline in the last column blanks the cells that follow, of this row  *)
(* and of those below: those that Teletype blanks, and none of the clock's *)
(* row.                                                                    *)
(***************************************************************************)
LEMMA FilledStep ==
  ASSUME NEW con, ConOK(con)
  PROVE  /\ ConOK(Filled(con))
         /\ \A cell \in Row0 : Filled(con).screen[cell] = con.screen[cell]
         /\ PageOf(Filled(con)) = Paper!Spilled(PageOf(con))
  <1>1. /\ NUM_COLUMNS \in Nat \ {0} /\ NUM_ROWS \in Nat /\ NUM_ROWS > 2
        /\ LastByte \in Nat
    BY ConsoleAssumption
  <1>2. /\ con = [screen |-> con.screen, x |-> con.x, y |-> con.y]
        /\ con.screen \in [Cells -> Nat]
        /\ con.x \in 0..NUM_COLUMNS-1 /\ con.y \in 1..NUM_ROWS-1
    BY DEF ConOK
  <1>3. PICK page : page = PageOf(con)
    OBVIOUS
  <1>4. /\ page.line = con.y /\ page.column = con.x
        /\ page.text = [p \in Paper!Places |-> con.screen[At(p[2], p[1])]]
        /\ page = [text |-> page.text, line |-> con.y, column |-> con.x]
    BY <1>3 DEF PageOf
  <1>5. CASE con.x + 1 < NUM_COLUMNS
    <2>1. con.x < NUM_COLUMNS - 1
      BY <1>1, <1>2, <1>5
    <2>2. Filled(con) = con
      BY <1>5 DEF Filled
    <2>3. Paper!Spilled(page) = page
      BY <1>4, <2>1 DEF Paper!Spilled
    <2> QED BY <1>3, <2>2, <2>3
  <1>6. CASE ~(con.x + 1 < NUM_COLUMNS)
    <2>1. ~(con.x < NUM_COLUMNS - 1)
      BY <1>1, <1>2, <1>6
    <2>2. PICK scr : scr = [cell \in Cells |->
             IF cell \in At(NUM_COLUMNS, con.y) .. At(LastByte, con.y) THEN Blank
             ELSE con.screen[cell]]
      OBVIOUS
    <2>3. Filled(con) = [screen |-> scr, x |-> con.x, y |-> con.y]
      BY <1>2, <1>6, <2>2 DEF Filled
    <2>4. scr \in [Cells -> Nat]
      BY <1>2, <2>2 DEF Blank
    <2>5. ConOK(Filled(con))
      BY <1>2, <2>3, <2>4 DEF ConOK
    <2>6. PICK base : base = con.y * NUM_COLUMNS
      OBVIOUS
    <2>7. /\ base \in Nat /\ base >= NUM_COLUMNS
          /\ At(NUM_COLUMNS, con.y) = base + NUM_COLUMNS
          /\ At(LastByte, con.y) = base + LastByte
      <3>1. base \in Nat /\ 1 * NUM_COLUMNS <= con.y * NUM_COLUMNS
        BY <1>1, <1>2, <2>6
      <3> QED BY <1>1, <2>6, <3>1 DEF At
    <2>8. ASSUME NEW cell \in Row0 PROVE scr[cell] = con.screen[cell]
      <3>1. cell \in Cells
        <4>1. cell = At(cell, 0) /\ 0 \in 0..NUM_ROWS-1
          BY <1>1, <2>8 DEF At, Row0
        <4> QED BY <2>8, <4>1, Layout DEF Row0
      <3>2. cell \notin At(NUM_COLUMNS, con.y) .. At(LastByte, con.y)
        BY <1>1, <2>7 DEF Row0
      <3> QED BY <2>2, <3>1, <3>2
    <2>9. PICK txt : txt =
            [q \in Paper!Places |->
               IF q[1] > con.y
                  /\ (q[1] - con.y - 1) * NUM_COLUMNS + q[2] < LastByte + 1 - NUM_COLUMNS
               THEN Blank ELSE page.text[q]]
      OBVIOUS
    <2>10. Paper!Spilled(page) = [text |-> txt, line |-> con.y, column |-> con.x]
      BY <1>4, <2>1, <2>9 DEF Paper!Spilled
    <2>11. ASSUME NEW q \in Paper!Places PROVE txt[q] = scr[At(q[2], q[1])]
      <3>1. PICK row \in 1..NUM_ROWS-1, column \in 0..NUM_COLUMNS-1 : q = <<row, column>>
        BY DEF Paper!Places
      <3>2. row \in 0..NUM_ROWS-1 /\ row \in Nat /\ con.y \in Nat
        BY <1>1, <1>2, <3>1
      <3>3. PICK cell : cell = At(column, row)
        OBVIOUS
      <3>4. PICK down : down = row * NUM_COLUMNS
        OBVIOUS
      <3>5. cell \in Cells /\ cell = down + column /\ down \in Nat
        BY <1>1, <3>1, <3>2, <3>3, <3>4, Layout DEF At
      <3>6. row > con.y => down >= base + NUM_COLUMNS
        <4> SUFFICES ASSUME row > con.y PROVE down >= base + NUM_COLUMNS
          OBVIOUS
        <4>1. con.y + 1 <= row /\ con.y + 1 \in Nat
          BY <3>2
        <4>2. (con.y + 1) * NUM_COLUMNS <= row * NUM_COLUMNS
          BY <1>1, <3>2, <4>1, ProductMonotone
        <4>3. (con.y + 1) * NUM_COLUMNS = con.y * NUM_COLUMNS + NUM_COLUMNS
          BY <1>1, <3>2
        <4> QED BY <2>6, <3>4, <4>2, <4>3
      <3>7. ~(row > con.y) => down <= base
        <4> SUFFICES ASSUME ~(row > con.y) PROVE down <= base
          OBVIOUS
        <4>1. row <= con.y
          BY <3>2
        <4> QED BY <1>1, <2>6, <3>2, <3>4, <4>1, ProductMonotone
      <3>8. (row - con.y - 1) * NUM_COLUMNS = down - base - NUM_COLUMNS
        BY <1>1, <2>6, <3>2, <3>4
      <3>9. cell \in At(NUM_COLUMNS, con.y) .. At(LastByte, con.y) <=>
              row > con.y /\ down - base - NUM_COLUMNS + column < LastByte + 1 - NUM_COLUMNS
        BY <1>1, <2>7, <3>1, <3>5, <3>6, <3>7
      <3>10. cell \in At(NUM_COLUMNS, con.y) .. At(LastByte, con.y) <=>
               row > con.y
                 /\ (row - con.y - 1) * NUM_COLUMNS + column < LastByte + 1 - NUM_COLUMNS
        BY <3>8, <3>9
      <3>11. page.text[q] = con.screen[cell]
        BY <1>4, <3>1, <3>3
      <3>12. q[1] = row /\ q[2] = column
        BY <3>1
      <3> QED BY <2>2, <2>9, <3>3, <3>5, <3>10, <3>11, <3>12
    <2>12. txt = [q \in Paper!Places |-> scr[At(q[2], q[1])]]
      BY <2>9, <2>11
    <2>13. PageOf(Filled(con)) = Paper!Spilled(page)
      BY <2>3, <2>10, <2>12 DEF PageOf
    <2> QED BY <1>3, <2>3, <2>5, <2>8, <2>13
  <1> QED BY <1>5, <1>6

(* do_scroll leaves the first row alone.                                   *)
LEMMA Scrolled ==
  ASSUME NEW scr \in [Cells -> Nat], keeps \in BOOLEAN
  PROVE  /\ do_scroll(scr) \in [Cells -> Nat]
         /\ \A cell \in Row0 : do_scroll(scr)[cell] = scr[cell]
         /\ \A row \in 1..NUM_ROWS-1, column \in 0..NUM_COLUMNS-1 :
              do_scroll(scr)[At(column, row)] =
                IF row = NUM_ROWS-1 THEN Blank
                ELSE IF keeps THEN scr[At(column, row+1)] ELSE NUL
  <1>1. NUM_COLUMNS \in Nat \ {0} /\ NUM_ROWS \in Nat /\ NUM_ROWS > 2
    BY ConsoleAssumption
  <1>2. PICK new : new = do_scroll(scr)
    OBVIOUS
  <1>3. \A cell \in Cells : new[cell] =
          IF RowOf(cell) = 0 THEN scr[cell]
          ELSE IF RowOf(cell) = NUM_ROWS-1 THEN Blank
          ELSE IF keeps THEN scr[cell + NUM_COLUMNS] ELSE NUL
    <2> SUFFICES ASSUME NEW cell \in Cells
                 PROVE new[cell] =
                   IF RowOf(cell) = 0 THEN scr[cell]
                   ELSE IF RowOf(cell) = NUM_ROWS-1 THEN Blank
                   ELSE IF keeps THEN scr[cell + NUM_COLUMNS] ELSE NUL
      OBVIOUS
    <2>1. CASE RowOf(cell) = 0
      BY <1>1, <1>2, <2>1 DEF do_scroll
    <2>2. CASE RowOf(cell) # 0 /\ RowOf(cell) = NUM_ROWS-1
      BY <1>1, <1>2, <2>2 DEF do_scroll
    <2>3. CASE RowOf(cell) # 0 /\ RowOf(cell) # NUM_ROWS-1
      BY <1>2, <2>3 DEF do_scroll
    <2> QED BY <2>1, <2>2, <2>3
  <1>4. new \in [Cells -> Nat]
    <2>1. DOMAIN new = Cells /\ new = [cell \in Cells |-> new[cell]]
      BY <1>2 DEF do_scroll
    <2>2. ASSUME NEW cell \in Cells PROVE new[cell] \in Nat
      <3>1. RowOf(cell) \in 0..NUM_ROWS-1
        BY RowsOfCells
      <3>2. RowOf(cell) < NUM_ROWS-1 => cell + NUM_COLUMNS \in Cells
        BY RowsOfCells
      <3>3. RowOf(cell) # NUM_ROWS-1 => cell + NUM_COLUMNS \in Cells
        BY <1>1, <3>1, <3>2
      <3> QED BY <1>3, <3>3 DEF Blank, NUL
    <2> QED BY <2>1, <2>2
  <1>5. ASSUME NEW cell \in Row0 PROVE new[cell] = scr[cell]
    <2>1. cell = At(cell, 0) /\ 0 \in 0..NUM_ROWS-1
      BY <1>1, <1>5 DEF At, Row0
    <2>2. cell \in Cells /\ RowOf(cell) = 0
      BY <1>5, <2>1, Layout DEF Row0
    <2> QED BY <1>3, <2>2
  <1>6. ASSUME NEW row \in 1..NUM_ROWS-1, NEW column \in 0..NUM_COLUMNS-1
        PROVE  new[At(column, row)] =
                 IF row = NUM_ROWS-1 THEN Blank
                 ELSE IF keeps THEN scr[At(column, row+1)] ELSE NUL
    <2>1. row \in 0..NUM_ROWS-1 /\ row # 0
      BY <1>1, <1>6
    <2>2. At(column, row) \in Cells /\ RowOf(At(column, row)) = row
      BY <2>1, Layout
    <2>3. At(column, row) + NUM_COLUMNS = At(column, row+1)
      BY <1>1, <2>1 DEF At
    <2> QED BY <1>3, <2>1, <2>2, <2>3
  <1> QED BY <1>2, <1>4, <1>5, <1>6

(* The next row.                                                           *)
LEMMA NextRowStep ==
  ASSUME NEW con, ConOK(con), keeps \in BOOLEAN
  PROVE  /\ ConOK(NextRow(con))
         /\ \A cell \in Row0 : NextRow(con).screen[cell] = con.screen[cell]
         /\ PageOf(NextRow(con)) = Paper!NextLine(PageOf(con))
  <1>1. NUM_COLUMNS \in Nat \ {0} /\ NUM_ROWS \in Nat /\ NUM_ROWS > 2
    BY ConsoleAssumption
  <1>2. /\ con = [screen |-> con.screen, x |-> con.x, y |-> con.y]
        /\ con.screen \in [Cells -> Nat]
        /\ con.x \in 0..NUM_COLUMNS-1 /\ con.y \in 1..NUM_ROWS-1
    BY DEF ConOK
  <1>3. PICK page : page = PageOf(con)
    OBVIOUS
  <1>4. /\ page.line = con.y /\ page.column = con.x
        /\ page.text = [p \in Paper!Places |-> con.screen[At(p[2], p[1])]]
        /\ page = [text |-> page.text, line |-> con.y, column |-> con.x]
    BY <1>3 DEF PageOf
  <1>5. CASE con.y + 1 >= NUM_ROWS
    <2>1. con.y = NUM_ROWS-1
      BY <1>1, <1>2, <1>5
    <2>2. PICK new : new = do_scroll(con.screen)
      OBVIOUS
    <2>3. NextRow(con) = [screen |-> new, x |-> 0, y |-> con.y]
      BY <1>2, <1>5, <2>2 DEF NextRow
    <2>4. /\ new \in [Cells -> Nat]
          /\ \A cell \in Row0 : new[cell] = con.screen[cell]
          /\ \A row \in 1..NUM_ROWS-1, column \in 0..NUM_COLUMNS-1 :
              new[At(column, row)] =
                IF row = NUM_ROWS-1 THEN Blank
                ELSE IF keeps THEN con.screen[At(column, row+1)] ELSE NUL
      BY <1>2, <2>2, Scrolled
    <2>5. ConOK(NextRow(con))
      BY <1>1, <1>2, <2>3, <2>4 DEF ConOK
    <2>6. PICK moved : moved =
             [q \in Paper!Places |->
                IF q[1] = NUM_ROWS-1 THEN Blank
                ELSE IF keeps THEN page.text[<<q[1] + 1, q[2]>>] ELSE NUL]
      OBVIOUS
    <2>7. Paper!NextLine(page) = [text |-> moved, line |-> con.y, column |-> 0]
      BY <1>4, <2>1, <2>6 DEF Paper!NextLine, Paper!Moved
    <2>8. ASSUME NEW q \in Paper!Places PROVE moved[q] = new[At(q[2], q[1])]
      <3>1. PICK row \in 1..NUM_ROWS-1, column \in 0..NUM_COLUMNS-1 :
              q = <<row, column>> /\ q \notin HiddenPlaces
        BY DEF Paper!Places
      <3>2. ASSUME row # NUM_ROWS-1
            PROVE  /\ <<row+1, column>> \in Paper!Places
                   /\ page.text[<<row+1, column>>] = con.screen[At(column, row+1)]
        <4>1. row+1 \in 1..NUM_ROWS-1 /\ row+1 # 1
          BY <1>1, <3>1, <3>2
        <4>2. <<row+1, column>> \notin HiddenPlaces
          BY <3>1, <4>1 DEF HiddenPlaces
        <4>3. <<row+1, column>> \in Paper!Places
          BY <4>1, <4>2 DEF Paper!Places
        <4> QED BY <1>4, <4>3
      <3> QED BY <2>4, <2>6, <3>1, <3>2
    <2>9. moved = [q \in Paper!Places |-> new[At(q[2], q[1])]]
      BY <2>6, <2>8
    <2>10. PageOf(NextRow(con)) = Paper!NextLine(page)
      BY <2>3, <2>7, <2>9 DEF PageOf
    <2> QED BY <1>2, <1>3, <2>3, <2>4, <2>5, <2>10
  <1>6. CASE ~(con.y + 1 >= NUM_ROWS)
    <2>1. con.y # NUM_ROWS-1 /\ con.y + 1 \in 1..NUM_ROWS-1
      BY <1>1, <1>2, <1>6
    <2>2. NextRow(con) = [screen |-> con.screen, x |-> 0, y |-> con.y + 1]
      BY <1>2, <1>6 DEF NextRow
    <2>3. Paper!NextLine(page) = [text |-> page.text, line |-> con.y + 1, column |-> 0]
      BY <1>4, <2>1 DEF Paper!NextLine
    <2>4. ConOK(NextRow(con))
      BY <1>1, <1>2, <2>1, <2>2 DEF ConOK
    <2>5. PageOf(NextRow(con)) = Paper!NextLine(page)
      BY <1>4, <2>2, <2>3 DEF PageOf
    <2> QED BY <1>2, <1>3, <2>1, <2>2, <2>4, <2>5
  <1> QED BY <1>5, <1>6

(* One character: Teletype types the same one.                             *)
LEMMA PrintcStep ==
  ASSUME NEW con, ConOK(con), keeps \in BOOLEAN, NEW c \in Nat
  PROVE  /\ ConOK(printc(con, c))
         /\ \A cell \in Row0 : printc(con, c).screen[cell] = con.screen[cell]
         /\ PageOf(printc(con, c)) = Paper!Type(PageOf(con), c)
  <1>1. NUM_COLUMNS \in Nat \ {0} /\ NUM_ROWS \in Nat /\ NUM_ROWS > 2
    BY ConsoleAssumption
  <1>2. /\ con = [screen |-> con.screen, x |-> con.x, y |-> con.y]
        /\ con.screen \in [Cells -> Nat]
        /\ con.x \in 0..NUM_COLUMNS-1 /\ con.y \in 1..NUM_ROWS-1
    BY DEF ConOK
  <1>3. PICK page : page = PageOf(con)
    OBVIOUS
  <1>4. /\ page.line = con.y /\ page.column = con.x
        /\ page.text = [p \in Paper!Places |-> con.screen[At(p[2], p[1])]]
        /\ page = [text |-> page.text, line |-> con.y, column |-> con.x]
    BY <1>3 DEF PageOf
  <1>5. PICK next : next = NextRow(con)
    OBVIOUS
  <1>6. /\ ConOK(next)
        /\ \A cell \in Row0 : next.screen[cell] = con.screen[cell]
        /\ PageOf(next) = Paper!NextLine(page)
    BY <1>3, <1>5, NextRowStep
  <1>7. CASE c = Newline
    <2>1. PICK filled : filled = Filled(con)
      OBVIOUS
    <2>2. /\ ConOK(filled)
          /\ \A cell \in Row0 : filled.screen[cell] = con.screen[cell]
          /\ PageOf(filled) = Paper!Spilled(page)
      BY <1>3, <2>1, FilledStep
    <2>3. /\ ConOK(NextRow(filled))
          /\ \A cell \in Row0 : NextRow(filled).screen[cell] = filled.screen[cell]
          /\ PageOf(NextRow(filled)) = Paper!NextLine(Paper!Spilled(page))
      BY <2>2, NextRowStep
    <2>4. printc(con, c) = NextRow(filled)
      BY <1>7, <2>1 DEF printc
    <2>5. Paper!Type(page, c) = Paper!NextLine(Paper!Spilled(page))
      BY <1>7 DEF Paper!Type
    <2> QED BY <1>3, <2>2, <2>3, <2>4, <2>5
  <1>8. CASE c # Newline
    <2>1. PICK here : here = At(con.x, con.y)
      OBVIOUS
    <2>2. con.y \in 0..NUM_ROWS-1 /\ con.y # 0
      BY <1>1, <1>2
    <2>3. here \in Cells /\ here \notin Row0
      <3>1. here \in Cells /\ RowOf(here) = con.y
        BY <1>2, <2>1, <2>2, Layout
      <3>2. ~(here < NUM_COLUMNS)
        BY <2>2, <3>1, RowsOfCells
      <3> QED BY <1>1, <3>1, <3>2 DEF Row0
    <2>4. PICK moved : moved = IF con.x + 1 >= NUM_COLUMNS THEN next
                               ELSE [screen |-> con.screen, x |-> con.x + 1, y |-> con.y]
      OBVIOUS
    <2>5. ConOK(moved)
      <3>1. CASE con.x + 1 >= NUM_COLUMNS
        BY <1>6, <2>4, <3>1
      <3>2. CASE ~(con.x + 1 >= NUM_COLUMNS)
        <4>1. con.x + 1 \in 0..NUM_COLUMNS-1
          BY <1>1, <1>2, <3>2
        <4> QED BY <1>1, <1>2, <2>4, <3>2, <4>1 DEF ConOK
      <3> QED BY <3>1, <3>2
    <2>6. \A cell \in Row0 : moved.screen[cell] = con.screen[cell]
      BY <1>6, <2>4
    <2>7. PICK scr : scr = [moved.screen EXCEPT ![here] = c]
      OBVIOUS
    <2>8. /\ moved = [screen |-> moved.screen, x |-> moved.x, y |-> moved.y]
          /\ moved.screen \in [Cells -> Nat]
          /\ moved.x \in 0..NUM_COLUMNS-1 /\ moved.y \in 1..NUM_ROWS-1
      BY <2>5 DEF ConOK
    <2>9. printc(con, c) = [screen |-> scr, x |-> moved.x, y |-> moved.y]
      <3>1. printc(con, c) = [moved EXCEPT !.screen[here] = c]
        BY <1>2, <1>5, <1>8, <2>1, <2>4 DEF printc
      <3> QED BY <2>7, <2>8, <3>1
    <2>10. /\ scr \in [Cells -> Nat]
           /\ \A cell \in Cells : scr[cell] = IF cell = here THEN c ELSE moved.screen[cell]
      BY <2>3, <2>7, <2>8
    <2>11. ConOK(printc(con, c))
      BY <2>8, <2>9, <2>10 DEF ConOK
    <2>12. ASSUME NEW cell \in Row0 PROVE scr[cell] = con.screen[cell]
      <3>1. cell \in Cells
        <4>1. cell = At(cell, 0) /\ 0 \in 0..NUM_ROWS-1
          BY <1>1, <2>12 DEF At, Row0
        <4> QED BY <2>12, <4>1, Layout DEF Row0
      <3> QED BY <2>3, <2>6, <2>10, <3>1
    <2>13. \A p \in Paper!Places :
             /\ At(p[2], p[1]) \in Cells
             /\ p[1] \in 1..NUM_ROWS-1 /\ p[2] \in 0..NUM_COLUMNS-1
             /\ p = <<p[1], p[2]>> /\ p \notin HiddenPlaces
      <3> SUFFICES ASSUME NEW p \in Paper!Places
                   PROVE  /\ At(p[2], p[1]) \in Cells
                          /\ p[1] \in 1..NUM_ROWS-1 /\ p[2] \in 0..NUM_COLUMNS-1
                          /\ p = <<p[1], p[2]>> /\ p \notin HiddenPlaces
        OBVIOUS
      <3>1. PICK row \in 1..NUM_ROWS-1, column \in 0..NUM_COLUMNS-1 :
              p = <<row, column>> /\ p \notin HiddenPlaces
        BY DEF Paper!Places
      <3>2. row \in 0..NUM_ROWS-1
        BY <1>1, <3>1
      <3> QED BY <3>1, <3>2, Layout
    <2>14. \A p \in Paper!Places : At(p[2], p[1]) = here <=> p = <<con.y, con.x>>
      <3> SUFFICES ASSUME NEW p \in Paper!Places
                   PROVE  At(p[2], p[1]) = here <=> p = <<con.y, con.x>>
        OBVIOUS
      <3>1. /\ p[1] \in 1..NUM_ROWS-1 /\ p[2] \in 0..NUM_COLUMNS-1
            /\ p = <<p[1], p[2]>>
        BY <2>13
      <3>2. p[1] \in 0..NUM_ROWS-1
        BY <1>1, <3>1
      <3>3. At(p[2], p[1]) = here => p[1] = con.y /\ p[2] = con.x
        BY <1>2, <2>1, <2>2, <3>1, <3>2, Injective
      <3> QED BY <2>1, <3>1, <3>3
    <2>15. PICK txt : txt = [p \in Paper!Places |-> scr[At(p[2], p[1])]]
      OBVIOUS
    <2>16. PageOf(printc(con, c)) = [text |-> txt, line |-> moved.y, column |-> moved.x]
      BY <2>9, <2>15 DEF PageOf
    <2>17. PICK put : put = [q \in Paper!Places |->
                               IF q = <<con.y, con.x>> THEN c ELSE page.text[q]]
      OBVIOUS
    <2>18. Paper!Put(page, c) = [text |-> put, line |-> con.y, column |-> con.x]
      BY <1>4, <2>17 DEF Paper!Put
    <2>19. CASE con.x + 1 >= NUM_COLUMNS
      <3>1. con.x = NUM_COLUMNS-1
        BY <1>1, <1>2, <2>19
      <3>2. <<con.y, con.x>> \notin Paper!Places
        BY <1>2, <3>1 DEF Paper!Places, HiddenPlaces
      <3>3. put = page.text
        BY <1>4, <2>17, <3>2
      <3>4. Paper!Type(page, c) = Paper!NextLine(page)
        BY <1>4, <1>8, <2>18, <3>1, <3>3 DEF Paper!Type
      <3>5. txt = [p \in Paper!Places |-> next.screen[At(p[2], p[1])]]
        BY <2>4, <2>10, <2>13, <2>14, <2>15, <2>19, <3>2
      <3>6. PageOf(next) = [text |-> txt, line |-> next.y, column |-> next.x]
        BY <3>5 DEF PageOf
      <3> QED BY <1>3, <1>6, <2>4, <2>9, <2>11, <2>12, <2>16, <2>19, <3>4, <3>6
    <2>20. CASE ~(con.x + 1 >= NUM_COLUMNS)
      <3>1. con.x # NUM_COLUMNS-1
        BY <1>1, <1>2, <2>20
      <3>2. Paper!Type(page, c) = [text |-> put, line |-> con.y, column |-> con.x + 1]
        BY <1>4, <1>8, <2>18, <3>1 DEF Paper!Type
      <3>3. \A p \in Paper!Places : page.text[p] = con.screen[At(p[2], p[1])]
        BY <1>4
      <3>4. txt = put
        BY <2>4, <2>10, <2>13, <2>14, <2>15, <2>17, <2>20, <3>3
      <3>5. moved.x = con.x + 1 /\ moved.y = con.y
        BY <2>4, <2>20
      <3> QED BY <1>3, <2>9, <2>11, <2>12, <2>16, <3>2, <3>4, <3>5
    <2> QED BY <2>19, <2>20
  <1> QED BY <1>7, <1>8

----------------------------------------------------------------------------
(* The recursive definition in Printed has a solution: the loop.           *)
LEMMA PrintedDef ==
  ASSUME NEW string, Len(string) \in Nat
  PROVE  \E g : /\ g[0] = Con
                /\ \A n \in 1..Len(string) : g[n] = printc(g[n-1], string[n])
                /\ Printed(string) = g[Len(string)]
  <1>1. PICK a : a = Con
    OBVIOUS
  <1> DEFINE Sol(g, m) == g = [n \in 0..m |-> IF n = 0 THEN a
                                              ELSE printc(g[n-1], string[n])]
             I == {m \in Nat : \E g : Sol(g, m)}
  <1>2. 0 \in I
    <2>1. PICK g : g = [n \in 0..0 |-> a]
      OBVIOUS
    <2>2. Sol(g, 0)
      BY <2>1
    <2> QED BY <2>2
  <1>3. ASSUME NEW m \in Nat, m \in I PROVE m+1 \in I
    <2>1. PICK g : Sol(g, m)
      BY <1>3
    <2>2. PICK w : w = printc(g[m], string[m+1])
      OBVIOUS
    <2>3. PICK h : h = [n \in 0..m+1 |-> IF n = m+1 THEN w ELSE g[n]]
      OBVIOUS
    <2>4. \A n \in 0..m : h[n] = g[n]
      BY <2>3
    <2>5. ASSUME NEW n \in 0..m+1
          PROVE h[n] = IF n = 0 THEN a ELSE printc(h[n-1], string[n])
      <3>1. CASE n = 0
        BY <2>1, <2>4, <3>1
      <3>2. CASE n = m+1
        <4>1. n # 0 /\ h[n] = w /\ h[n-1] = g[m]
          BY <2>3, <2>4, <3>2
        <4> QED BY <2>2, <3>2, <4>1
      <3>3. CASE n # 0 /\ n # m+1
        <4>1. n \in 0..m /\ n-1 \in 0..m
          BY <3>3
        <4>2. g[n] = printc(g[n-1], string[n])
          BY <2>1, <3>3, <4>1
        <4> QED BY <2>4, <3>3, <4>1, <4>2
      <3> QED BY <3>1, <3>2, <3>3
    <2>6. Sol(h, m+1)
      BY <2>3, <2>5
    <2> QED BY <2>6
  <1>4. Len(string) \in I
    <2> HIDE DEF I
    <2> QED BY <1>2, <1>3, NatSetInduction
  <1> DEFINE Def(g) == g = [n \in 0..Len(string) |->
                              IF n = 0 THEN Con ELSE printc(g[n-1], string[n])]
  <1>5. PICK g : g = CHOOSE h : Def(h)
    OBVIOUS
  <1>6. Def(g)
    <2>1. PICK h : Sol(h, Len(string))
      BY <1>4
    <2>2. Def(h)
      BY <1>1, <2>1
    <2> HIDE DEF Def
    <2> QED BY <1>5, <2>2, Zenon
  <1>7. Printed(string) = g[Len(string)]
    BY <1>5 DEF Printed
  <1>8. g[0] = Con
    BY <1>6
  <1>9. ASSUME NEW n \in 1..Len(string) PROVE g[n] = printc(g[n-1], string[n])
    <2>1. n \in 0..Len(string) /\ n # 0
      OBVIOUS
    <2> QED BY <1>6, <2>1
  <1> QED BY <1>7, <1>8, <1>9

(* So has the one in Typed.                                                *)
LEMMA TypedDef ==
  ASSUME NEW t, Len(t) \in Nat
  PROVE  \E g : /\ g[0] = Paper!Page
                /\ \A n \in 1..Len(t) : g[n] = Paper!Type(g[n-1], t[n])
                /\ Paper!Typed(t) = g[Len(t)]
  <1>1. PICK a : a = Paper!Page
    OBVIOUS
  <1> DEFINE Sol(g, m) == g = [n \in 0..m |-> IF n = 0 THEN a
                                              ELSE Paper!Type(g[n-1], t[n])]
             I == {m \in Nat : \E g : Sol(g, m)}
  <1>2. 0 \in I
    <2>1. PICK g : g = [n \in 0..0 |-> a]
      OBVIOUS
    <2>2. Sol(g, 0)
      BY <2>1
    <2> QED BY <2>2
  <1>3. ASSUME NEW m \in Nat, m \in I PROVE m+1 \in I
    <2>1. PICK g : Sol(g, m)
      BY <1>3
    <2>2. PICK w : w = Paper!Type(g[m], t[m+1])
      OBVIOUS
    <2>3. PICK h : h = [n \in 0..m+1 |-> IF n = m+1 THEN w ELSE g[n]]
      OBVIOUS
    <2>4. \A n \in 0..m : h[n] = g[n]
      BY <2>3
    <2>5. ASSUME NEW n \in 0..m+1
          PROVE h[n] = IF n = 0 THEN a ELSE Paper!Type(h[n-1], t[n])
      <3>1. CASE n = 0
        BY <2>1, <2>4, <3>1
      <3>2. CASE n = m+1
        <4>1. n # 0 /\ h[n] = w /\ h[n-1] = g[m]
          BY <2>3, <2>4, <3>2
        <4> QED BY <2>2, <3>2, <4>1
      <3>3. CASE n # 0 /\ n # m+1
        <4>1. n \in 0..m /\ n-1 \in 0..m
          BY <3>3
        <4>2. g[n] = Paper!Type(g[n-1], t[n])
          BY <2>1, <3>3, <4>1
        <4> QED BY <2>4, <3>3, <4>1, <4>2
      <3> QED BY <3>1, <3>2, <3>3
    <2>6. Sol(h, m+1)
      BY <2>3, <2>5
    <2> QED BY <2>6
  <1>4. Len(t) \in I
    <2> HIDE DEF I
    <2> QED BY <1>2, <1>3, NatSetInduction
  <1> DEFINE Def(g) == g = [n \in 0..Len(t) |->
                              IF n = 0 THEN Paper!Page ELSE Paper!Type(g[n-1], t[n])]
  <1>5. PICK g : g = CHOOSE h : Def(h)
    OBVIOUS
  <1>6. Def(g)
    <2>1. PICK h : Sol(h, Len(t))
      BY <1>4
    <2>2. Def(h)
      BY <1>1, <2>1
    <2> HIDE DEF Def
    <2> QED BY <1>5, <2>2, Zenon
  <1>7. Paper!Typed(t) = g[Len(t)]
    BY <1>5 DEF Paper!Typed
  <1>8. g[0] = Paper!Page
    BY <1>6
  <1>9. ASSUME NEW n \in 1..Len(t) PROVE g[n] = Paper!Type(g[n-1], t[n])
    <2>1. n \in 0..Len(t) /\ n # 0
      OBVIOUS
    <2> QED BY <1>6, <2>1
  <1> QED BY <1>7, <1>8, <1>9

(* A text: character by character, Teletype types the same.                *)
LEMMA PrintedStep ==
  ASSUME ConOK(Con), keeps \in BOOLEAN, NEW string \in Seq(Nat)
  PROVE  /\ ConOK(Printed(string))
         /\ \A cell \in Row0 : Printed(string).screen[cell] = screen[cell]
         /\ PageOf(Printed(string)) = Paper!Typed(string)
  <1>1. PICK m : m = Len(string)
    OBVIOUS
  <1>2. m \in Nat
    BY <1>1
  <1>3. PICK g : /\ g[0] = Con
                 /\ \A n \in 1..m : g[n] = printc(g[n-1], string[n])
                 /\ Printed(string) = g[m]
    BY <1>1, <1>2, PrintedDef
  <1>4. PICK h : /\ h[0] = Paper!Page
                 /\ \A n \in 1..m : h[n] = Paper!Type(h[n-1], string[n])
                 /\ Paper!Typed(string) = h[m]
    BY <1>1, <1>2, TypedDef
  <1> DEFINE J(con, page) ==
               /\ ConOK(con)
               /\ \A cell \in Row0 : con.screen[cell] = screen[cell]
               /\ PageOf(con) = page
             I == {n \in Nat : n <= m => J(g[n], h[n])}
  <1>5. 0 \in I
    <2>1. PageOf(Con) = Paper!Page
      <3>1. Paper!Places = ((1..NUM_ROWS-1) \X (0..NUM_COLUMNS-1)) \ HiddenPlaces
        BY DEF Paper!Places
      <3> QED BY <3>1 DEF PageOf, Con, Paper!Page, ShownText
    <2>2. Con.screen = screen
      BY DEF Con
    <2> QED BY <1>3, <1>4, <2>1, <2>2
  <1>6. ASSUME NEW n \in Nat, n \in I PROVE n+1 \in I
    <2> SUFFICES ASSUME n+1 <= m PROVE J(g[n+1], h[n+1])
      OBVIOUS
    <2>1. n <= m /\ n+1 \in 1..m /\ (n+1)-1 = n
      BY <1>2
    <2>2. PICK con : con = g[n]
      OBVIOUS
    <2>3. PICK page : page = h[n]
      OBVIOUS
    <2>4. PICK c : c = string[n+1]
      OBVIOUS
    <2>5. c \in Nat
      BY <1>1, <2>1, <2>4
    <2>6. J(con, page)
      BY <1>6, <2>1, <2>2, <2>3
    <2>7. g[n+1] = printc(con, c) /\ h[n+1] = Paper!Type(page, c)
      BY <1>3, <1>4, <2>1, <2>2, <2>3, <2>4
    <2>8. /\ ConOK(printc(con, c))
          /\ \A cell \in Row0 : printc(con, c).screen[cell] = con.screen[cell]
          /\ PageOf(printc(con, c)) = Paper!Type(page, c)
      BY <2>5, <2>6, PrintcStep
    <2>9. J(printc(con, c), Paper!Type(page, c))
      BY <2>6, <2>8
    <2> QED BY <2>7, <2>9
  <1>7. m \in I
    <2> HIDE DEF I
    <2> QED BY <1>2, <1>5, <1>6, NatSetInduction
  <1>8. J(g[m], h[m])
    BY <1>2, <1>7
  <1> QED BY <1>3, <1>4, <1>8

----------------------------------------------------------------------------
(* Numbers and their digits.  What a solution of itoa's recursion is.      *)
Digits(g, m) ==
  g = [v \in 0..m |-> IF v < Base THEN <<Zero + v>>
                      ELSE Append(g[v \div Base], Zero + (v % Base))]

(* There is one for every value.                                           *)
LEMMA DigitsExist ==
  ASSUME NEW value \in Nat
  PROVE  \E g : Digits(g, value)
  <1>1. Base \in Nat /\ Base > 1
    BY ConsoleAssumption
  <1> DEFINE I == {m \in Nat : \E g : Digits(g, m)}
  <1>2. 0 \in I
    <2>1. PICK g : g = [v \in 0..0 |-> <<Zero + v>>]
      OBVIOUS
    <2>2. Digits(g, 0)
      BY <1>1, <2>1 DEF Digits
    <2> QED BY <2>2
  <1>3. ASSUME NEW m \in Nat, m \in I PROVE m+1 \in I
    <2>1. PICK g : Digits(g, m)
      BY <1>3
    <2>2. PICK w : w = IF m+1 < Base THEN <<Zero + (m+1)>>
                       ELSE Append(g[(m+1) \div Base], Zero + ((m+1) % Base))
      OBVIOUS
    <2>3. PICK h : h = [v \in 0..m+1 |-> IF v = m+1 THEN w ELSE g[v]]
      OBVIOUS
    <2>4. \A v \in 0..m : h[v] = g[v]
      BY <2>3
    <2>5. \A v \in 1..m+1 : v \div Base \in 0..m
      <3> SUFFICES ASSUME NEW v \in 1..m+1 PROVE v \div Base \in 0..m
        OBVIOUS
      <3>1. v \in Nat \ {0} /\ Base \in Nat \ {0}
        BY <1>1
      <3>2. v \div Base \in Nat /\ v \div Base < v
        BY <1>1, <3>1, DivMod, DivSmaller
      <3> QED BY <3>2
    <2>6. ASSUME NEW v \in 0..m+1
          PROVE h[v] = IF v < Base THEN <<Zero + v>>
                       ELSE Append(h[v \div Base], Zero + (v % Base))
      <3>1. CASE v = m+1
        <4>1. h[v] = w /\ v \div Base \in 0..m
          BY <2>3, <2>5, <3>1
        <4>2. h[v \div Base] = g[v \div Base]
          BY <2>4, <4>1
        <4> QED BY <2>2, <3>1, <4>1, <4>2
      <3>2. CASE v # m+1 /\ v < Base
        <4>1. v \in 0..m
          BY <3>2
        <4>2. g[v] = <<Zero + v>>
          BY <2>1, <3>2, <4>1 DEF Digits
        <4> QED BY <2>4, <3>2, <4>1, <4>2
      <3>3. CASE v # m+1 /\ ~(v < Base)
        <4>1. v \in 0..m /\ v \in 1..m+1
          BY <1>1, <3>3
        <4>2. g[v] = Append(g[v \div Base], Zero + (v % Base))
          BY <2>1, <3>3, <4>1 DEF Digits
        <4>3. h[v \div Base] = g[v \div Base]
          BY <2>4, <2>5, <4>1
        <4> QED BY <2>4, <3>3, <4>1, <4>2, <4>3
      <3> QED BY <3>1, <3>2, <3>3
    <2>7. Digits(h, m+1)
      BY <2>3, <2>6 DEF Digits
    <2> QED BY <2>7
  <1>4. value \in I
    <2> HIDE DEF I
    <2> QED BY <1>2, <1>3, NatSetInduction
  <1> QED BY <1>4

(* Two of them agree.                                                      *)
LEMMA DigitsUnique ==
  ASSUME NEW k \in Nat, NEW m \in Nat, NEW g, NEW h, Digits(g, k), Digits(h, m),
         NEW value \in Nat, value <= k, value <= m
  PROVE  g[value] = h[value]
  <1>1. Base \in Nat \ {0} /\ Base > 1
    BY ConsoleAssumption
  <1> DEFINE I == {n \in Nat : \A v \in 0..n : v <= k /\ v <= m => g[v] = h[v]}
  <1>2. ASSUME NEW n \in Nat, \A v \in 0..n-1 : v <= k /\ v <= m => g[v] = h[v],
               n <= k, n <= m
        PROVE  g[n] = h[n]
    <2>1. n \in 0..k /\ n \in 0..m
      BY <1>2
    <2>2. CASE n < Base
      BY <2>1, <2>2 DEF Digits
    <2>3. CASE ~(n < Base)
      <3>1. n \in Nat \ {0}
        BY <1>1, <2>3
      <3>2. n \div Base \in Nat /\ n \div Base < n
        BY <1>1, <3>1, DivMod, DivSmaller
      <3>3. g[n \div Base] = h[n \div Base]
        <4>1. PICK q : q = n \div Base
          OBVIOUS
        <4>2. q \in Nat /\ q < n
          BY <3>2, <4>1
        <4>3. q \in 0..n-1 /\ q <= k /\ q <= m
          BY <1>2, <4>2
        <4>4. g[q] = h[q]
          BY <1>2, <4>3
        <4> QED BY <4>1, <4>4
      <3>4. g[n] = Append(g[n \div Base], Zero + (n % Base))
        BY <2>1, <2>3 DEF Digits
      <3>5. h[n] = Append(h[n \div Base], Zero + (n % Base))
        BY <2>1, <2>3 DEF Digits
      <3> QED BY <3>3, <3>4, <3>5
    <2> QED BY <2>2, <2>3
  <1>3. 0 \in I
    <2>1. 0 <= k /\ 0 <= m => g[0] = h[0]
      BY <1>2
    <2> QED BY <2>1
  <1>4. ASSUME NEW n \in Nat, n \in I PROVE n+1 \in I
    <2>1. n+1 <= k /\ n+1 <= m => g[n+1] = h[n+1]
      <3>1. (n+1)-1 = n /\ n+1 \in Nat
        OBVIOUS
      <3> QED BY <1>2, <1>4, <3>1
    <2> QED BY <1>4, <2>1
  <1>5. value \in I
    <2> HIDE DEF I
    <2> QED BY <1>3, <1>4, NatSetInduction
  <1> QED BY <1>5

(* itoa is a solution.                                                     *)
LEMMA ItoaDef ==
  ASSUME NEW value \in Nat, NEW g, Digits(g, value)
  PROVE  itoa(value) = g[value]
  <1> DEFINE Def(f) == f = [v \in 0..value |->
                              IF v < Base THEN <<Zero + v>>
                              ELSE Append(f[v \div Base], Zero + (v % Base))]
  <1>1. PICK h : h = CHOOSE f : Def(f)
    OBVIOUS
  <1>2. Def(g)
    BY DEF Digits
  <1>3. Def(h)
    <2> HIDE DEF Def
    <2> QED BY <1>1, <1>2, Zenon
  <1>4. itoa(value) = h[value]
    BY <1>1 DEF itoa
  <1>5. Digits(h, value)
    BY <1>3 DEF Digits
  <1> QED BY <1>4, <1>5, DigitsUnique

(* The digits of a number: those of its quotient, then its remainder.      *)
LEMMA Itoa ==
  ASSUME NEW value \in Nat
  PROVE  /\ value < Base => itoa(value) = <<Zero + value>>
         /\ value >= Base => itoa(value) = Append(itoa(value \div Base),
                                                 Zero + (value % Base))
  <1>1. Base \in Nat \ {0} /\ Base > 1
    BY ConsoleAssumption
  <1>2. PICK g : Digits(g, value)
    BY DigitsExist
  <1>3. itoa(value) = g[value] /\ value \in 0..value
    BY <1>2, ItoaDef
  <1>4. ASSUME value < Base PROVE itoa(value) = <<Zero + value>>
    BY <1>2, <1>3, <1>4 DEF Digits
  <1>5. ASSUME value >= Base
        PROVE  itoa(value) = Append(itoa(value \div Base), Zero + (value % Base))
    <2>1. value \in Nat \ {0} /\ ~(value < Base)
      BY <1>1, <1>5
    <2>2. PICK q : q = value \div Base
      OBVIOUS
    <2>3. q \in Nat /\ q <= value
      BY <1>1, <2>1, <2>2, DivMod, DivSmaller
    <2>4. PICK h : Digits(h, q)
      BY <2>3, DigitsExist
    <2>5. itoa(q) = h[q]
      BY <2>3, <2>4, ItoaDef
    <2>6. g[q] = h[q]
      BY <1>2, <2>3, <2>4, DigitsUnique
    <2>7. g[value] = Append(g[value \div Base], Zero + (value % Base))
      BY <1>2, <1>3, <2>1 DEF Digits
    <2> QED BY <1>3, <2>2, <2>5, <2>6, <2>7
  <1> QED BY <1>4, <1>5

(* They are digits, at least one, and the first of several is no zero.     *)
Numerals(s) == /\ s \in Seq(Nat) /\ Len(s) > 0
               /\ \A i \in 1..Len(s) : s[i] \in Zero .. Zero+Base-1
LEMMA ItoaDigits ==
  ASSUME NEW value \in Nat
  PROVE  /\ Numerals(itoa(value))
         /\ Len(itoa(value)) > 1 => itoa(value)[1] # Zero
  <1>1. Base \in Nat \ {0} /\ Base > 1
    BY ConsoleAssumption
  <1> DEFINE J(v) == /\ Numerals(itoa(v))
                     /\ v # 0 => itoa(v)[1] # Zero
             I == {n \in Nat : \A v \in 0..n : J(v)}
  <1>2. ASSUME NEW n \in Nat, \A v \in 0..n-1 : J(v) PROVE J(n)
    <2>1. CASE n < Base
      <3>1. itoa(n) = <<Zero + n>>
        BY <2>1, Itoa
      <3>2. Zero + n \in Nat /\ Zero + n \in Zero .. Zero+Base-1 /\ (n # 0 => Zero + n # Zero)
        BY <1>1, <2>1 DEF Zero
      <3> QED BY <3>1, <3>2 DEF Numerals
    <2>2. CASE n >= Base
      <3>1. PICK q : q = n \div Base
        OBVIOUS
      <3>2. PICK r : r = n % Base
        OBVIOUS
      <3>3. n \in Nat \ {0}
        BY <1>1, <2>2
      <3>4. q \in 0..n-1 /\ q # 0 /\ r \in 0..Base-1
        <4>1. q \in Nat /\ r \in 0..Base-1 /\ n = Base * q + r
          BY <1>1, <3>1, <3>2, DivMod
        <4>2. q < n
          BY <1>1, <3>1, <3>3, DivSmaller
        <4>3. q # 0
          BY <1>1, <2>2, <4>1
        <4> QED BY <4>1, <4>2, <4>3
      <3>5. J(q)
        BY <1>2, <3>4
      <3>6. itoa(n) = Append(itoa(q), Zero + r)
        BY <2>2, <3>1, <3>2, Itoa
      <3>7. Zero + r \in Nat /\ Zero + r \in Zero .. Zero+Base-1
        BY <1>1, <3>4 DEF Zero
      <3>8. PICK s : s = itoa(q)
        OBVIOUS
      <3>9. /\ s \in Seq(Nat) /\ Len(s) > 0 /\ s[1] # Zero
            /\ \A i \in 1..Len(s) : s[i] \in Zero .. Zero+Base-1
        BY <3>4, <3>5, <3>8 DEF Numerals
      <3>10. PICK t : t = Append(s, Zero + r)
        OBVIOUS
      <3>11. t \in Seq(Nat) /\ Len(t) = Len(s) + 1
        BY <3>7, <3>9, <3>10
      <3>12. \A i \in 1..Len(t) : t[i] = IF i <= Len(s) THEN s[i] ELSE Zero + r
        BY <3>7, <3>9, <3>10
      <3>13. \A i \in 1..Len(t) : t[i] \in Zero .. Zero+Base-1
        BY <3>7, <3>9, <3>11, <3>12
      <3>14. t[1] = s[1]
        BY <3>9, <3>11, <3>12
      <3> QED BY <3>6, <3>8, <3>9, <3>10, <3>11, <3>13, <3>14 DEF Numerals
    <2> QED BY <1>1, <2>1, <2>2
  <1>3. 0 \in I
    <2> HIDE DEF J
    <2> QED BY <1>2
  <1>4. ASSUME NEW n \in Nat, n \in I PROVE n+1 \in I
    <2> HIDE DEF J
    <2>1. J(n+1)
      <3>1. (n+1)-1 = n /\ n+1 \in Nat
        OBVIOUS
      <3> QED BY <1>2, <1>4, <3>1
    <2> QED BY <1>4, <2>1
  <1>5. value \in I
    <2> HIDE DEF I
    <2> QED BY <1>3, <1>4, NatSetInduction
  <1>6. J(value)
    <2> HIDE DEF J
    <2> QED BY <1>5
  <1>7. value = 0 => Len(itoa(value)) = 1
    <2> SUFFICES ASSUME value = 0 PROVE Len(itoa(value)) = 1
      OBVIOUS
    <2>1. itoa(value) = <<Zero + value>>
      BY <1>1, Itoa
    <2> QED BY <2>1
  <1>8. Len(itoa(value)) > 1 => itoa(value)[1] # Zero
    <2>1. CASE value = 0
      <3>1. PICK l : l = Len(itoa(value))
        OBVIOUS
      <3>2. l = 1
        BY <1>7, <2>1, <3>1
      <3>3. ~(l > 1)
        BY <3>2
      <3> QED BY <3>1, <3>3
    <2>2. CASE value # 0
      BY <1>6, <2>2
    <2> QED BY <2>1, <2>2
  <1> QED BY <1>6, <1>8

LEMMA Pair ==
  ASSUME NEW a \in Nat, NEW b \in Nat
  PROVE  Append(<<a>>, b) = <<a, b>> /\ <<a>> \o <<b>> = <<a, b>>
  <1>1. PICK s : s = <<a>>
    OBVIOUS
  <1>2. PICK u : u = <<b>>
    OBVIOUS
  <1>3. PICK t : t = <<a, b>>
    OBVIOUS
  <1>4. s \in Seq(Nat) /\ Len(s) = 1 /\ s[1] = a
    BY <1>1
  <1>5. u \in Seq(Nat) /\ Len(u) = 1 /\ u[1] = b
    BY <1>2
  <1>6. t \in Seq(Nat) /\ Len(t) = 2 /\ t[1] = a /\ t[2] = b
    BY <1>3
  <1>7. Append(s, b) = t
    <2>1. /\ Append(s, b) \in Seq(Nat) /\ Len(Append(s, b)) = Len(s)+1
          /\ \A i \in 1..Len(s) : Append(s, b)[i] = s[i]
          /\ Append(s, b)[Len(s)+1] = b
      <3>1. s \in Seq(Nat)
        BY <1>4
      <3> QED BY <3>1, AppendProperties
    <2>2. PICK p : p = Append(s, b)
      OBVIOUS
    <2>3. Len(s) = 1 /\ 1 \in 1..Len(s)
      BY <1>4
    <2>4. p \in Seq(Nat) /\ Len(p) = 2 /\ p[1] = a /\ p[2] = b
      BY <1>4, <2>1, <2>2, <2>3
    <2>5. \A i \in 1..2 : p[i] = t[i]
      BY <1>6, <2>4
    <2> QED BY <1>6, <2>2, <2>4, <2>5, SeqEqual
  <1>8. s \o u = t
    <2>1. /\ s \o u \in Seq(Nat) /\ Len(s \o u) = Len(s) + Len(u)
          /\ \A i \in 1..Len(s) + Len(u) :
               (s \o u)[i] = IF i <= Len(s) THEN s[i] ELSE u[i - Len(s)]
      <3>1. s \in Seq(Nat) /\ u \in Seq(Nat)
        BY <1>4, <1>5
      <3> QED BY <3>1, ConcatProperties
    <2>2. PICK p : p = s \o u
      OBVIOUS
    <2>3. /\ p \in Seq(Nat) /\ Len(p) = 2
          /\ \A i \in 1..2 : p[i] = IF i <= 1 THEN s[i] ELSE u[i - 1]
      BY <1>4, <1>5, <2>1, <2>2
    <2>4. p[1] = a /\ p[2] = b
      BY <1>4, <1>5, <2>3
    <2>5. \A i \in 1..2 : p[i] = t[i]
      BY <1>6, <2>4
    <2> QED BY <1>6, <2>2, <2>3, <2>5, SeqEqual
  <1> QED BY <1>1, <1>2, <1>3, <1>7, <1>8

(* The seconds take two digits, the first of which may be zero.            *)
LEMMA TwoDigits ==
  ASSUME NEW value \in Nat, value < Base * Base
  PROVE  /\ value \div Base \in 0..Base-1 /\ value % Base \in 0..Base-1
         /\ value = (value \div Base) * Base + (value % Base)
         /\ itoap(value, 2) = <<Zero + (value \div Base), Zero + (value % Base)>>
  <1>1. Base \in Nat \ {0} /\ Base > 1
    BY ConsoleAssumption
  <1>2. PICK q : q = value \div Base
    OBVIOUS
  <1>3. PICK r : r = value % Base
    OBVIOUS
  <1>4. q \in Nat /\ r \in 0..Base-1 /\ value = Base * q + r
    BY <1>1, <1>2, <1>3, DivMod
  <1>5. q < Base
    BY <1>1, <1>2, DivBound
  <1>6. value = q * Base + r
    BY <1>1, <1>4
  <1>7. itoap(value, 2) = <<Zero + q, Zero + r>>
    <2>1. CASE value < Base
      <3>1. itoa(value) = <<Zero + value>> /\ Len(itoa(value)) = 1
        BY <2>1, Itoa
      <3>2. q = 0 /\ r = value
        <4>1. value = Base * 0 + value /\ value \in 0..Base-1
          BY <1>1, <2>1
        <4> QED BY <1>1, <1>2, <1>3, <4>1, DivUnique
      <3>3. itoap(value, 2) = [i \in 1..1 |-> Zero] \o <<Zero + value>>
        BY <3>1 DEF itoap
      <3>4. [i \in 1..1 |-> Zero] = <<Zero>>
        OBVIOUS
      <3>5. <<Zero>> \o <<Zero + value>> = <<Zero, Zero + value>>
        BY Pair DEF Zero
      <3>6. Zero + q = Zero
        BY <3>2 DEF Zero
      <3> QED BY <3>2, <3>3, <3>4, <3>5, <3>6
    <2>2. CASE value >= Base
      <3>1. itoa(q) = <<Zero + q>>
        BY <1>4, <1>5, Itoa
      <3>2. itoa(value) = Append(<<Zero + q>>, Zero + r)
        BY <1>2, <1>3, <2>2, <3>1, Itoa
      <3>3. itoa(value) = <<Zero + q, Zero + r>> /\ Len(itoa(value)) = 2
        <4>1. Zero + q \in Nat /\ Zero + r \in Nat
          BY <1>1, <1>4 DEF Zero
        <4>2. Append(<<Zero + q>>, Zero + r) = <<Zero + q, Zero + r>>
          BY <4>1, Pair
        <4> QED BY <3>2, <4>2
      <3>4. itoap(value, 2) = [i \in 1..0 |-> Zero] \o <<Zero + q, Zero + r>>
        BY <3>3 DEF itoap
      <3>5. [i \in 1..0 |-> Zero] = << >>
        OBVIOUS
      <3> QED BY <1>1, <1>4, <3>4, <3>5 DEF Zero
    <2> QED BY <1>1, <2>1, <2>2
  <1>8. q \in 0..Base-1
    BY <1>1, <1>4, <1>5
  <1>9. /\ q \in 0..Base-1 /\ r \in 0..Base-1 /\ value = q * Base + r
        /\ itoap(value, 2) = <<Zero + q, Zero + r>>
    BY <1>4, <1>6, <1>7, <1>8
  <1> QED BY <1>2, <1>3, <1>9, Zenon

----------------------------------------------------------------------------
(* What is read on the screen.  The recursion of Number has a solution.    *)
Read(g, first, last) ==
  /\ g[first-1] = 0
  /\ \A cell \in first..last :
       g[cell] = g[cell-1] * Base + screen[cell] - Zero

LEMMA NumberDef ==
  ASSUME NEW first \in Int, NEW last \in Int, first <= last
  PROVE  \E g : Read(g, first, last) /\ Number(first, last) = g[last]
  <1> DEFINE Sol(g, m) == g = [cell \in first-1..first-1+m |->
                                 IF cell = first-1 THEN 0
                                 ELSE g[cell-1] * Base + screen[cell] - Zero]
             I == {m \in Nat : \E g : Sol(g, m)}
  <1>1. 0 \in I
    <2>1. PICK g : g = [cell \in first-1..first-1 |-> 0]
      OBVIOUS
    <2>2. first-1..first-1+0 = first-1..first-1
      OBVIOUS
    <2>3. Sol(g, 0)
      BY <2>1, <2>2
    <2> QED BY <2>3
  <1>2. ASSUME NEW m \in Nat, m \in I PROVE m+1 \in I
    <2>1. PICK g : Sol(g, m)
      BY <1>2
    <2>2. PICK new : new = first+m
      OBVIOUS
    <2>3. PICK w : w = g[new-1] * Base + screen[new] - Zero
      OBVIOUS
    <2>4. new \in Int /\ new = first-1+(m+1) /\ new # first-1 /\ new-1 = first-1+m
      BY <2>2
    <2>5. PICK h : h = [cell \in first-1..new |-> IF cell = new THEN w ELSE g[cell]]
      OBVIOUS
    <2>6. \A cell \in first-1..new-1 : h[cell] = g[cell]
      BY <2>4, <2>5
    <2>7. ASSUME NEW cell \in first-1..new
          PROVE h[cell] = IF cell = first-1 THEN 0
                          ELSE h[cell-1] * Base + screen[cell] - Zero
      <3>1. CASE cell = new
        <4>1. cell-1 \in first-1..new-1 /\ h[cell] = w
          BY <2>4, <2>5, <3>1
        <4>2. h[cell-1] = g[new-1]
          BY <2>6, <3>1, <4>1
        <4> QED BY <2>3, <2>4, <3>1, <4>1, <4>2
      <3>2. CASE cell = first-1
        <4>1. cell \in first-1..new-1
          BY <2>2, <2>4, <3>2
        <4>2. g[cell] = 0
          BY <2>1, <2>4, <3>2, <4>1
        <4> QED BY <2>6, <3>2, <4>1, <4>2
      <3>3. CASE cell # new /\ cell # first-1
        <4>1. cell \in first-1..new-1 /\ cell-1 \in first-1..new-1
          BY <2>4, <3>3
        <4>2. g[cell] = g[cell-1] * Base + screen[cell] - Zero
          BY <2>1, <2>4, <3>3, <4>1
        <4> QED BY <2>6, <3>3, <4>1, <4>2
      <3> QED BY <3>1, <3>2, <3>3
    <2>8. Sol(h, m+1)
      BY <2>4, <2>5, <2>7
    <2> QED BY <2>8
  <1>3. last-first+1 \in I
    <2>1. last-first+1 \in Nat
      OBVIOUS
    <2> HIDE DEF I
    <2> QED BY <1>1, <1>2, <2>1, NatSetInduction
  <1> DEFINE Def(g) == g = [cell \in first-1..last |->
                              IF cell = first-1 THEN 0
                              ELSE g[cell-1] * Base + screen[cell] - Zero]
  <1>4. PICK g : g = CHOOSE h : Def(h)
    OBVIOUS
  <1>5. Def(g)
    <2>1. PICK h : Sol(h, last-first+1)
      BY <1>3
    <2>2. first-1+(last-first+1) = last
      OBVIOUS
    <2>3. Def(h)
      BY <2>1, <2>2
    <2> HIDE DEF Def
    <2> QED BY <1>4, <2>3, Zenon
  <1>6. Number(first, last) = g[last]
    BY <1>4 DEF Number
  <1>7. g[first-1] = 0
    BY <1>5
  <1>8. ASSUME NEW cell \in first..last
        PROVE  g[cell] = g[cell-1] * Base + screen[cell] - Zero
    <2>1. cell \in first-1..last /\ cell # first-1
      OBVIOUS
    <2> QED BY <1>5, <2>1
  <1> QED BY <1>6, <1>7, <1>8 DEF Read

(* The digits of a number are read as that number.                         *)
LEMMA DigitsRead ==
  ASSUME NEW first \in Int, NEW last \in Int, NEW g, Read(g, first, last),
         NEW value \in Nat, NEW end \in first-1..last, g[end] = 0,
         end + Len(itoa(value)) <= last,
         \A i \in 1..Len(itoa(value)) : screen[end+i] = itoa(value)[i]
  PROVE  g[end + Len(itoa(value))] = value
  <1>1. Base \in Nat \ {0} /\ Base > 1
    BY ConsoleAssumption
  <1> DEFINE J(v) == /\ end + Len(itoa(v)) <= last
                     /\ \A i \in 1..Len(itoa(v)) : screen[end+i] = itoa(v)[i]
             I == {n \in Nat : \A v \in 0..n : J(v) => g[end + Len(itoa(v))] = v}
  <1>2. ASSUME NEW n \in Nat, J(n),
               \A v \in 0..n-1 : J(v) => g[end + Len(itoa(v))] = v
        PROVE  g[end + Len(itoa(n))] = n
    <2>1. CASE n < Base
      <3>1. itoa(n) = <<Zero + n>>
        BY <2>1, Itoa
      <3>2. Len(itoa(n)) = 1 /\ itoa(n)[1] = Zero + n
        BY <3>1
      <3>3. end+1 \in first..last /\ (end+1)-1 = end /\ screen[end+1] = Zero + n
        BY <1>2, <3>2
      <3>4. g[end+1] = g[end] * Base + screen[end+1] - Zero
        BY <3>3 DEF Read
      <3>5. g[end+1] = 0 * Base + (Zero + n) - Zero
        BY <3>3, <3>4
      <3>6. 0 * Base + (Zero + n) - Zero = n
        BY <1>1 DEF Zero
      <3> QED BY <3>2, <3>5, <3>6
    <2>2. CASE n >= Base
      <3>1. PICK q : q = n \div Base
        OBVIOUS
      <3>2. PICK r : r = n % Base
        OBVIOUS
      <3>3. n \in Nat \ {0}
        BY <1>1, <2>2
      <3>4. q \in Nat /\ r \in 0..Base-1 /\ n = Base * q + r
        BY <1>1, <3>1, <3>2, DivMod
      <3>5. q < n
        BY <1>1, <3>1, <3>3, DivSmaller
      <3>6. PICK s : s = itoa(q)
        OBVIOUS
      <3>7. PICK l : l = Len(s)
        OBVIOUS
      <3>8. s \in Seq(Nat) /\ l \in Nat
        BY <3>4, <3>6, <3>7, ItoaDigits DEF Numerals
      <3>9. itoa(n) = Append(s, Zero + r)
        BY <2>2, <3>1, <3>2, <3>6, Itoa
      <3>10. Zero + r \in Nat
        BY <1>1, <3>4 DEF Zero
      <3>11. /\ Len(itoa(n)) = l + 1 /\ itoa(n)[l+1] = Zero + r
             /\ \A i \in 1..l : itoa(n)[i] = s[i]
        BY <3>7, <3>8, <3>9, <3>10
      <3>12. J(q)
        <4>1. end + l <= last
          BY <1>2, <3>8, <3>11
        <4>2. \A i \in 1..l : i \in 1..Len(itoa(n))
          BY <3>8, <3>11
        <4>3. \A i \in 1..l : screen[end+i] = s[i]
          BY <1>2, <3>11, <4>2
        <4> QED BY <3>6, <3>7, <4>1, <4>3
      <3>13. g[end + l] = q
        <4>1. q \in 0..n-1
          BY <3>4, <3>5
        <4> QED BY <1>2, <3>6, <3>7, <3>12, <4>1
      <3>14. PICK cell : cell = end + (l + 1)
        OBVIOUS
      <3>15. cell \in first..last /\ cell-1 = end + l
        BY <1>2, <3>8, <3>11, <3>14
      <3>16. screen[cell] = Zero + r
        <4>1. l+1 \in 1..Len(itoa(n))
          BY <3>8, <3>11
        <4> QED BY <1>2, <3>11, <3>14, <4>1
      <3>17. g[cell] = q * Base + (Zero + r) - Zero
        BY <3>13, <3>15, <3>16 DEF Read
      <3>18. q * Base + (Zero + r) - Zero = n
        <4>1. q * Base = Base * q /\ Base * q \in Nat
          BY <1>1, <3>4
        <4> QED BY <1>1, <3>4, <4>1 DEF Zero
      <3> QED BY <3>11, <3>14, <3>17, <3>18
    <2> QED BY <1>1, <2>1, <2>2
  <1>3. 0 \in I
    <2> HIDE DEF J
    <2>1. J(0) => g[end + Len(itoa(0))] = 0
      BY <1>2
    <2> QED BY <2>1
  <1>4. ASSUME NEW n \in Nat, n \in I PROVE n+1 \in I
    <2> HIDE DEF J
    <2>1. J(n+1) => g[end + Len(itoa(n+1))] = n+1
      <3>1. (n+1)-1 = n /\ n+1 \in Nat
        OBVIOUS
      <3> QED BY <1>2, <1>4, <3>1
    <2>2. \A v \in 0..n+1 : v \in 0..n \/ v = n+1
      OBVIOUS
    <2>3. \A v \in 0..n+1 : J(v) => g[end + Len(itoa(v))] = v
      BY <1>4, <2>1, <2>2, Zenon
    <2>4. n+1 \in Nat
      OBVIOUS
    <2> QED BY <2>3, <2>4, Zenon
  <1>5. value \in I
    <2> HIDE DEF I
    <2> QED BY <1>3, <1>4, NatSetInduction
  <1> QED BY <1>5

----------------------------------------------------------------------------
(* The invariant.  It is strengthened by what exactly the first row ends   *)
(* in, once a second has passed: the digits of the minutes, a colon and    *)
(* two digits.                                                             *)
ClockRow ==
  LET m == itoa(secs \div Minute)
      s == secs % Minute
      first == NUM_COLUMNS - 3 - Len(m)
  IN  secs # 0 =>
        /\ first >= 0
        /\ \A i \in 1..Len(m) : screen[first + i - 1] = m[i]
        /\ screen[NUM_COLUMNS-3] = Colon
        /\ screen[NUM_COLUMNS-2] = Zero + (s \div Base)
        /\ screen[NUM_COLUMNS-1] = Zero + (s % Base)

(* A second has TICS_PER_SEC interrupts, the first of them one more.       *)
Ticking == tics = secs * TICS_PER_SEC + TICS_PER_SEC - tacs

IInv == TypeOK /\ ClockRow /\ Ticking

(* The string that the clock prints.                                       *)
LEMMA TimeString ==
  ASSUME NEW m \in Nat, NEW s \in 0..Minute-1
  PROVE  LET t == itoa(m) \o <<Colon>> \o itoap(s, 2)
             l == Len(itoa(m))
         IN  /\ t \in Seq(Nat) /\ l \in Nat \ {0} /\ Len(t) = l + 3
             /\ \A i \in 1..l : t[i] = itoa(m)[i]
             /\ t[l+1] = Colon
             /\ t[l+2] = Zero + (s \div Base) /\ t[l+3] = Zero + (s % Base)
  <1>1. Base \in Nat \ {0} /\ Base > 1 /\ Minute \in Nat /\ Minute <= Base * Base
    BY ConsoleAssumption
  <1>2. s \in Nat /\ s < Base * Base
    <2>1. Base * Base \in Nat
      BY <1>1
    <2> QED BY <1>1, <2>1
  <1>3. PICK a \in Nat, b \in Nat :
          a = Zero + (s \div Base) /\ b = Zero + (s % Base)
    <2>1. Zero + (s \div Base) \in Nat /\ Zero + (s % Base) \in Nat
      BY <1>1, <1>2, DivMod DEF Zero
    <2> QED BY <2>1
  <1>4. itoap(s, 2) = <<a, b>>
    BY <1>2, <1>3, TwoDigits
  <1>5. PICK d : d = itoa(m)
    OBVIOUS
  <1>6. PICK l : l = Len(d)
    OBVIOUS
  <1>7. d \in Seq(Nat) /\ l \in Nat \ {0}
    BY <1>5, <1>6, ItoaDigits DEF Numerals
  <1>8. PICK c : c = <<Colon>> /\ c \in Seq(Nat) /\ Len(c) = 1 /\ c[1] = Colon
    <2>1. PICK c : c = <<Colon>>
      OBVIOUS
    <2>2. c \in Seq(Nat) /\ Len(c) = 1 /\ c[1] = Colon
      BY <2>1 DEF Colon
    <2> QED BY <2>1, <2>2
  <1>9. PICK e : e = <<a, b>> /\ e \in Seq(Nat) /\ Len(e) = 2 /\ e[1] = a /\ e[2] = b
    <2>1. PICK e : e = <<a, b>>
      OBVIOUS
    <2>2. e \in Seq(Nat) /\ Len(e) = 2 /\ e[1] = a /\ e[2] = b
      BY <2>1
    <2> QED BY <2>1, <2>2
  <1>10. PICK u : u = d \o c
    OBVIOUS
  <1>11. /\ u \in Seq(Nat) /\ Len(u) = l + 1
         /\ \A i \in 1..l : u[i] = d[i]
         /\ u[l+1] = Colon
    <2>1. /\ d \o c \in Seq(Nat) /\ Len(d \o c) = Len(d) + Len(c)
          /\ \A i \in 1..Len(d) + Len(c) :
               (d \o c)[i] = IF i <= Len(d) THEN d[i] ELSE c[i - Len(d)]
      BY <1>7, <1>8, ConcatProperties
    <2>2. \A i \in 1..l : i \in 1..Len(d) + Len(c) /\ i <= Len(d)
      BY <1>6, <1>7, <1>8
    <2>3. l+1 \in 1..Len(d) + Len(c) /\ ~(l+1 <= Len(d)) /\ (l+1) - Len(d) = 1
      BY <1>6, <1>7, <1>8
    <2> QED BY <1>6, <1>8, <1>10, <2>1, <2>2, <2>3
  <1>12. PICK t : t = u \o e
    OBVIOUS
  <1>13. /\ t \in Seq(Nat) /\ Len(t) = l + 3
         /\ \A i \in 1..l : t[i] = d[i]
         /\ t[l+1] = Colon
         /\ t[l+2] = a /\ t[l+3] = b
    <2>1. /\ u \o e \in Seq(Nat) /\ Len(u \o e) = Len(u) + Len(e)
          /\ \A i \in 1..Len(u) + Len(e) :
               (u \o e)[i] = IF i <= Len(u) THEN u[i] ELSE e[i - Len(u)]
      BY <1>9, <1>11, ConcatProperties
    <2>2. /\ t \in Seq(Nat) /\ Len(t) = l + 3
          /\ \A i \in 1..l+3 : t[i] = IF i <= l+1 THEN u[i] ELSE e[i - (l+1)]
      BY <1>7, <1>9, <1>11, <1>12, <2>1
    <2>3. \A i \in 1..l : i \in 1..l+3 /\ i <= l+1
      BY <1>7
    <2>4. /\ l+1 \in 1..l+3 /\ l+1 <= l+1
          /\ l+2 \in 1..l+3 /\ ~(l+2 <= l+1) /\ (l+2) - (l+1) = 1
          /\ l+3 \in 1..l+3 /\ ~(l+3 <= l+1) /\ (l+3) - (l+1) = 2
      BY <1>7
    <2> QED BY <1>9, <1>11, <2>2, <2>3, <2>4
  <1>14. itoa(m) \o <<Colon>> \o itoap(s, 2) = t
    BY <1>4, <1>5, <1>8, <1>9, <1>10, <1>12
  <1> QED BY <1>3, <1>5, <1>6, <1>7, <1>13, <1>14

(* A string aligned to the right of the first row.                         *)
LEMMA PrintedRight ==
  ASSUME screen \in [Cells -> Nat], NEW str \in Seq(Nat), Len(str) <= NUM_COLUMNS
  PROVE  LET new == printk_xyr(0, str)
         IN  /\ new \in [Cells -> Nat]
             /\ \A cell \in Row0 :
                  new[cell] = IF cell < NUM_COLUMNS - Len(str) THEN screen[cell]
                              ELSE str[cell - (NUM_COLUMNS - Len(str)) + 1]
             /\ \A cell \in Cells : cell > NUM_COLUMNS => new[cell] = screen[cell]
  <1>1. NUM_COLUMNS \in Nat \ {0} /\ NUM_ROWS \in Nat /\ NUM_ROWS > 2
    BY ConsoleAssumption
  <1>2. PICK l \in Nat : l = Len(str)
    OBVIOUS
  <1>3. PICK f : f = NUM_COLUMNS - l
    OBVIOUS
  <1>4. f \in Nat /\ f = NUM_COLUMNS - Len(str)
    BY <1>1, <1>2, <1>3
  <1>5. /\ At(NUM_COLUMNS, 0) = NUM_COLUMNS
        /\ At(NUM_COLUMNS - l, 0) = f
        /\ At(NUM_COLUMNS - 1, 0) = NUM_COLUMNS - 1
    BY <1>1, <1>2, <1>3 DEF At
  <1>6. PICK new : new = printk_xyr(0, str)
    OBVIOUS
  <1>7. new = [cell \in Cells |->
                 IF cell = NUM_COLUMNS THEN NUL
                 ELSE IF cell \in f .. NUM_COLUMNS-1 THEN str[cell - f + 1]
                 ELSE screen[cell]]
    BY <1>2, <1>5, <1>6 DEF printk_xyr
  <1>8. \A cell \in f..NUM_COLUMNS-1 : cell - f + 1 \in 1..l
    BY <1>1, <1>2, <1>3
  <1>9. new \in [Cells -> Nat]
    BY <1>2, <1>7, <1>8 DEF NUL
  <1>10. ASSUME NEW cell \in Row0
         PROVE  new[cell] = IF cell < f THEN screen[cell] ELSE str[cell - f + 1]
    <2>1. cell \in Cells
      <3>1. cell = At(cell, 0) /\ 0 \in 0..NUM_ROWS-1
        BY <1>1 DEF At, Row0
      <3> QED BY <3>1, Layout DEF Row0
    <2>2. cell # NUM_COLUMNS /\ (cell < f \/ cell \in f..NUM_COLUMNS-1)
      BY <1>1, <1>4 DEF Row0
    <2>3. cell < f => cell \notin f..NUM_COLUMNS-1
      BY <1>4 DEF Row0
    <2>4. cell \in f..NUM_COLUMNS-1 => ~(cell < f)
      BY <1>4 DEF Row0
    <2> QED BY <1>7, <2>1, <2>2, <2>3, <2>4
  <1>11. ASSUME NEW cell \in Cells, cell > NUM_COLUMNS
         PROVE  new[cell] = screen[cell]
    <2>1. cell # NUM_COLUMNS /\ cell \notin f..NUM_COLUMNS-1
      BY <1>1, <1>4, <1>11 DEF Cells
    <2> QED BY <1>7, <2>1
  <1> QED BY <1>4, <1>6, <1>9, <1>10, <1>11

(* What the invariant says of the end of the first row is the time.        *)
LEMMA RowIsRead ==
  ASSUME TypeOK, ClockRow, secs # 0
  PROVE  \E first \in 0..NUM_COLUMNS-4 :
           /\ Reads(first, NUM_COLUMNS-4) /\ Reads(NUM_COLUMNS-2, NUM_COLUMNS-1)
           /\ screen[NUM_COLUMNS-3] = Colon
           /\ first < NUM_COLUMNS-4 => screen[first] # Zero
           /\ Number(first, NUM_COLUMNS-4) * Minute
                + Number(NUM_COLUMNS-2, NUM_COLUMNS-1) = secs
  <1>1. /\ NUM_COLUMNS \in Nat /\ NUM_COLUMNS > 3
        /\ Base \in Nat \ {0} /\ Minute \in Nat \ {0} /\ Minute <= Base * Base
    BY ConsoleAssumption
  <1>2. secs \in Nat
    BY DEF TypeOK
  <1>3. PICK m : m = secs \div Minute
    OBVIOUS
  <1>4. PICK s : s = secs % Minute
    OBVIOUS
  <1>5. m \in Nat /\ s \in 0..Minute-1 /\ secs = Minute * m + s
    BY <1>1, <1>2, <1>3, <1>4, DivMod
  <1>6. PICK digits : digits = itoa(m)
    OBVIOUS
  <1>7. PICK l : l = Len(digits)
    OBVIOUS
  <1>8. /\ l \in Nat \ {0} /\ \A i \in 1..l : digits[i] \in Zero .. Zero+Base-1
        /\ l > 1 => digits[1] # Zero
    <2>1. Numerals(digits) /\ (Len(digits) > 1 => digits[1] # Zero)
      BY <1>5, <1>6, ItoaDigits
    <2>2. digits \in Seq(Nat) /\ Len(digits) > 0
      BY <2>1 DEF Numerals
    <2>3. l \in Nat \ {0}
      BY <1>7, <2>2
    <2> QED BY <1>7, <2>1, <2>3 DEF Numerals
  <1>9. PICK first : first = NUM_COLUMNS - 3 - l
    OBVIOUS
  <1>10. /\ first >= 0
         /\ \A i \in 1..l : screen[first + i - 1] = digits[i]
         /\ screen[NUM_COLUMNS-3] = Colon
         /\ screen[NUM_COLUMNS-2] = Zero + (s \div Base)
         /\ screen[NUM_COLUMNS-1] = Zero + (s % Base)
    BY <1>3, <1>4, <1>6, <1>7, <1>9 DEF ClockRow
  <1>11. first \in 0..NUM_COLUMNS-4
    BY <1>1, <1>8, <1>9, <1>10
  <1>12. PICK g : Read(g, first, NUM_COLUMNS-4) /\ Number(first, NUM_COLUMNS-4) = g[NUM_COLUMNS-4]
    <2>1. first \in Int /\ NUM_COLUMNS-4 \in Int /\ first <= NUM_COLUMNS-4
      BY <1>1, <1>11
    <2> QED BY <2>1, NumberDef
  <1>13. g[NUM_COLUMNS-4] = m
    <2>1. PICK end : end = first - 1
      OBVIOUS
    <2>2. /\ first \in Int /\ NUM_COLUMNS-4 \in Int
          /\ end \in first-1..NUM_COLUMNS-4 /\ end + l = NUM_COLUMNS-4
          /\ \A i \in 1..l : first + i - 1 = end + i
      BY <1>1, <1>8, <1>9, <1>11, <2>1
    <2>3. g[end] = 0
      BY <1>12, <2>1 DEF Read
    <2>4. \A i \in 1..Len(itoa(m)) : screen[end+i] = itoa(m)[i]
      BY <1>6, <1>7, <1>10, <2>2
    <2>5. end + Len(itoa(m)) <= NUM_COLUMNS-4
      BY <1>1, <1>6, <1>7, <2>2
    <2>6. g[end + Len(itoa(m))] = m
      <3>1. PICK last : last = NUM_COLUMNS-4
        OBVIOUS
      <3>2. /\ first \in Int /\ last \in Int /\ m \in Nat
            /\ end \in first-1..last /\ end + Len(itoa(m)) <= last
        BY <1>5, <2>2, <2>5, <3>1
      <3>3. Read(g, first, last)
        BY <1>12, <3>1
      <3> QED BY <2>3, <2>4, <3>2, <3>3, DigitsRead
    <2> QED BY <1>6, <1>7, <2>2, <2>6
  <1>14. PICK a : a = s \div Base
    OBVIOUS
  <1>15. PICK b : b = s % Base
    OBVIOUS
  <1>16. a \in 0..Base-1 /\ b \in 0..Base-1 /\ s = a * Base + b
    <2>1. s \in Nat /\ s < Base * Base
      <3>1. Base * Base \in Nat
        BY <1>1
      <3> QED BY <1>1, <1>5, <3>1
    <2> QED BY <1>14, <1>15, <2>1, TwoDigits
  <1>17. PICK h : /\ Read(h, NUM_COLUMNS-2, NUM_COLUMNS-1)
                  /\ Number(NUM_COLUMNS-2, NUM_COLUMNS-1) = h[NUM_COLUMNS-1]
    <2>1. NUM_COLUMNS-2 \in Int /\ NUM_COLUMNS-1 \in Int /\ NUM_COLUMNS-2 <= NUM_COLUMNS-1
      BY <1>1
    <2> QED BY <2>1, NumberDef
  <1>18. h[NUM_COLUMNS-1] = s
    <2>1. /\ (NUM_COLUMNS-2)-1 = NUM_COLUMNS-3 /\ (NUM_COLUMNS-1)-1 = NUM_COLUMNS-2
          /\ NUM_COLUMNS-2 \in NUM_COLUMNS-2..NUM_COLUMNS-1
          /\ NUM_COLUMNS-1 \in NUM_COLUMNS-2..NUM_COLUMNS-1
      BY <1>1
    <2>2. /\ h[NUM_COLUMNS-3] = 0
          /\ h[NUM_COLUMNS-2] = h[NUM_COLUMNS-3] * Base + screen[NUM_COLUMNS-2] - Zero
          /\ h[NUM_COLUMNS-1] = h[NUM_COLUMNS-2] * Base + screen[NUM_COLUMNS-1] - Zero
      BY <1>17, <2>1 DEF Read
    <2>3. h[NUM_COLUMNS-2] = 0 * Base + (Zero + a) - Zero
      BY <1>10, <1>14, <2>2
    <2>4. h[NUM_COLUMNS-2] = a
      BY <1>1, <1>16, <2>3 DEF Zero
    <2>5. h[NUM_COLUMNS-1] = a * Base + (Zero + b) - Zero
      BY <1>10, <1>15, <2>2, <2>4
    <2>6. a * Base \in Nat
      BY <1>1, <1>16
    <2> QED BY <1>16, <2>5, <2>6 DEF Zero
  <1>19. Reads(first, NUM_COLUMNS-4)
    <2> SUFFICES ASSUME NEW cell \in first..NUM_COLUMNS-4
                 PROVE  screen[cell] \in Zero .. Zero+Base-1
      BY DEF Reads
    <2>1. PICK i : i = cell - first + 1
      OBVIOUS
    <2>2. i \in 1..l /\ first + i - 1 = cell
      BY <1>1, <1>8, <1>9, <1>11, <2>1
    <2> QED BY <1>8, <1>10, <2>2
  <1>20. Reads(NUM_COLUMNS-2, NUM_COLUMNS-1)
    <2>1. /\ screen[NUM_COLUMNS-2] \in Zero .. Zero+Base-1
          /\ screen[NUM_COLUMNS-1] \in Zero .. Zero+Base-1
      BY <1>1, <1>10, <1>14, <1>15, <1>16 DEF Zero
    <2>2. \A cell \in NUM_COLUMNS-2..NUM_COLUMNS-1 :
            cell = NUM_COLUMNS-2 \/ cell = NUM_COLUMNS-1
      BY <1>1
    <2> QED BY <2>1, <2>2 DEF Reads
  <1>21. first < NUM_COLUMNS-4 => screen[first] # Zero
    <2> SUFFICES ASSUME first < NUM_COLUMNS-4 PROVE screen[first] # Zero
      OBVIOUS
    <2>1. l > 1 /\ 1 \in 1..l /\ first + 1 - 1 = first
      BY <1>1, <1>8, <1>9, <1>11
    <2> QED BY <1>8, <1>10, <2>1
  <1>22. Number(first, NUM_COLUMNS-4) * Minute
           + Number(NUM_COLUMNS-2, NUM_COLUMNS-1) = secs
    <2>1. m * Minute = Minute * m /\ Minute * m \in Nat
      BY <1>1, <1>5
    <2>2. m * Minute + s = secs
      BY <1>5, <2>1
    <2> QED BY <1>12, <1>13, <1>17, <1>18, <2>2
  <1> QED BY <1>10, <1>11, <1>19, <1>20, <1>21, <1>22

----------------------------------------------------------------------------
(* The steps.                                                              *)
LEMMA InitInv ==
  ASSUME Init
  PROVE  IInv
  <1>1. /\ NUM_COLUMNS \in Nat /\ NUM_COLUMNS > 3 /\ NUM_ROWS \in Nat /\ NUM_ROWS > 2
        /\ StartRow \in 1..NUM_ROWS-1 /\ TICS_PER_SEC \in Nat /\ MaxTics \in Nat
    BY ConsoleAssumption
  <1>2. TypeOK
    BY <1>1, ConsoleAssumption DEF Init, TypeOK
  <1>3. ClockRow
    BY DEF Init, ClockRow
  <1>4. Ticking
    BY <1>1 DEF Init, Ticking
  <1> QED BY <1>2, <1>3, <1>4 DEF IInv

(* A text that a process or the kernel prints.                             *)
LEMMA PutAllStep ==
  ASSUME IInv, NEW string \in Writes \cup Messages, PutAll(string)
  PROVE  IInv' /\ Paper!Write(string)
  <1>1. string \in Seq(Nat) /\ keeps \in BOOLEAN /\ ConOK(Con)
    BY ConsoleAssumption DEF IInv, TypeOK, ConOK, Con
  <1>2. PICK con : con = Printed(string)
    OBVIOUS
  <1>3. /\ ConOK(con)
        /\ \A cell \in Row0 : con.screen[cell] = screen[cell]
        /\ PageOf(con) = Paper!Typed(string)
    BY <1>1, <1>2, PrintedStep
  <1>4. /\ screen' = con.screen /\ x' = con.x /\ y' = con.y
        /\ UNCHANGED <<tics, tacs, secs, keeps>>
    BY <1>2 DEF PutAll
  <1>5. TypeOK'
    BY <1>3, <1>4 DEF IInv, TypeOK, ConOK
  <1>6. ClockRow'
    <2>1. \A cell \in Row0 : screen'[cell] = screen[cell]
      BY <1>3, <1>4
    <2>2. /\ NUM_COLUMNS \in Nat /\ NUM_COLUMNS > 3 /\ Minute \in Nat \ {0}
          /\ secs \in Nat
      BY ConsoleAssumption DEF IInv, TypeOK
    <2>3. CASE secs = 0
      BY <1>4, <2>1, <2>3 DEF IInv, ClockRow
    <2>4. CASE secs # 0
      <3>1. PICK m : m = itoa(secs \div Minute)
        OBVIOUS
      <3>2. Len(m) \in Nat \ {0}
        <4>1. secs \div Minute \in Nat
          BY <2>2, DivMod
        <4>2. Numerals(m)
          BY <3>1, <4>1, ItoaDigits
        <4> QED BY <4>2 DEF Numerals
      <3>3. PICK first : first = NUM_COLUMNS - 3 - Len(m)
        OBVIOUS
      <3>4. PICK s : s = secs % Minute
        OBVIOUS
      <3>5. /\ first >= 0
            /\ \A i \in 1..Len(m) : screen[first + i - 1] = m[i]
            /\ screen[NUM_COLUMNS-3] = Colon
            /\ screen[NUM_COLUMNS-2] = Zero + (s \div Base)
            /\ screen[NUM_COLUMNS-1] = Zero + (s % Base)
        BY <2>4, <3>1, <3>3, <3>4 DEF IInv, ClockRow
      <3>6. /\ {NUM_COLUMNS-3, NUM_COLUMNS-2, NUM_COLUMNS-1} \subseteq Row0
            /\ \A i \in 1..Len(m) : first + i - 1 \in Row0
        BY <2>2, <3>2, <3>3, <3>5 DEF Row0
      <3>7. /\ \A i \in 1..Len(m) : screen'[first + i - 1] = m[i]
            /\ screen'[NUM_COLUMNS-3] = Colon
            /\ screen'[NUM_COLUMNS-2] = Zero + (s \div Base)
            /\ screen'[NUM_COLUMNS-1] = Zero + (s % Base)
        BY <2>1, <3>5, <3>6
      <3>8. itoa(secs' \div Minute) = m /\ secs' % Minute = s /\ secs' # 0
        BY <1>4, <2>4, <3>1, <3>4
      <3> QED BY <3>3, <3>5, <3>7, <3>8 DEF ClockRow
    <2> QED BY <2>3, <2>4
  <1>7. Ticking'
    BY <1>4 DEF IInv, Ticking
  <1>8. Paper!Write(string)
    <2>1. PICK page : page = Paper!Typed(string)
      OBVIOUS
    <2>2. /\ page.text = [p \in Paper!Places |-> screen'[At(p[2], p[1])]]
          /\ page.line = y' /\ page.column = x'
      BY <1>3, <1>4, <2>1 DEF PageOf
    <2>3. ShownText' = page.text
      BY <2>2 DEF ShownText, Paper!Places
    <2> QED BY <1>4, <2>1, <2>2, <2>3 DEF Paper!Write
  <1> QED BY <1>5, <1>6, <1>7, <1>8 DEF IInv

(* An interrupt of the clock.                                              *)
LEMMA ClockStep ==
  ASSUME IInv, clock_routine
  PROVE  IInv' /\ UNCHANGED Paper!vars
  <1>1. /\ NUM_COLUMNS \in Nat /\ NUM_COLUMNS > 3 /\ NUM_ROWS \in Nat /\ NUM_ROWS > 2
        /\ Base \in Nat \ {0} /\ Minute \in Nat \ {0} /\ Minute <= Base * Base
        /\ TICS_PER_SEC \in Nat \ {0} /\ MaxTics \in Nat
    BY ConsoleAssumption
  <1>2. TypeOK /\ ClockRow /\ Ticking
    BY DEF IInv
  <1>3. /\ tics < MaxTics /\ tics' = tics + 1
        /\ UNCHANGED <<x, y, keeps>>
    BY DEF clock_routine
  <1>4. CASE tacs # 0
    <2>1. tacs' = tacs - 1 /\ UNCHANGED <<secs, screen>>
      BY <1>4 DEF clock_routine
    <2>2. TypeOK'
      BY <1>1, <1>2, <1>3, <1>4, <2>1 DEF TypeOK
    <2>3. ClockRow'
      BY <1>2, <2>1 DEF ClockRow
    <2>4. Ticking'
      <3>1. tacs \in Int /\ secs * TICS_PER_SEC \in Int
        BY <1>1, <1>2 DEF TypeOK
      <3> QED BY <1>1, <1>2, <1>3, <2>1, <3>1 DEF Ticking
    <2>5. UNCHANGED Paper!vars
      BY <1>3, <2>1 DEF Paper!vars, ShownText
    <2> QED BY <2>2, <2>3, <2>4, <2>5 DEF IInv
  <1>5. CASE tacs = 0
    <2>1. PICK n : n = secs + 1
      OBVIOUS
    <2>2. n \in Nat \ {0} /\ secs \in Nat
      BY <1>2, <2>1 DEF TypeOK
    <2>3. PICK m : m = n \div Minute
      OBVIOUS
    <2>4. PICK s : s = n % Minute
      OBVIOUS
    <2>5. m \in Nat /\ s \in 0..Minute-1
      BY <1>1, <2>2, <2>3, <2>4, DivMod
    <2>6. PICK str : str = itoa(m) \o <<Colon>> \o itoap(s, 2)
      OBVIOUS
    <2>7. PICK l : l = Len(itoa(m))
      OBVIOUS
    <2>8. /\ str \in Seq(Nat) /\ l \in Nat \ {0} /\ Len(str) = l + 3
          /\ \A i \in 1..l : str[i] = itoa(m)[i]
          /\ str[l+1] = Colon
          /\ str[l+2] = Zero + (s \div Base) /\ str[l+3] = Zero + (s % Base)
      BY <2>5, <2>6, <2>7, TimeString
    <2>9. /\ tacs' = TICS_PER_SEC - 1 /\ secs' = n
          /\ screen' = printk_xyr(0, str)
      BY <1>5, <2>1, <2>3, <2>4, <2>6 DEF clock_routine
    <2>10. tics = n * TICS_PER_SEC
      <3>1. n * TICS_PER_SEC = secs * TICS_PER_SEC + TICS_PER_SEC
        BY <1>1, <2>1, <2>2
      <3>2. secs * TICS_PER_SEC \in Nat
        BY <1>1, <2>2
      <3> QED BY <1>1, <1>2, <1>5, <3>1, <3>2 DEF Ticking
    <2>11. n \in 0..MaxTics
      <3>1. n * 1 <= n * TICS_PER_SEC /\ n * TICS_PER_SEC \in Nat
        BY <1>1, <2>2
      <3> QED BY <1>1, <1>3, <2>2, <2>10, <3>1
    <2>12. l + 3 <= NUM_COLUMNS
      BY <1>3, <2>3, <2>7, <2>10, <2>11, ClockAssumption
    <2>13. PICK first : first = NUM_COLUMNS - 3 - l
      OBVIOUS
    <2>14. first \in Nat /\ first = NUM_COLUMNS - Len(str)
      BY <1>1, <2>8, <2>12, <2>13
    <2>15. screen \in [Cells -> Nat]
      BY <1>2 DEF TypeOK
    <2>16. /\ screen' \in [Cells -> Nat]
           /\ \A cell \in Row0 :
                screen'[cell] = IF cell < first THEN screen[cell]
                                ELSE str[cell - first + 1]
           /\ \A cell \in Cells : cell > NUM_COLUMNS => screen'[cell] = screen[cell]
      BY <1>1, <2>8, <2>9, <2>12, <2>14, <2>15, PrintedRight
    <2>17. TypeOK'
      BY <1>1, <1>2, <1>3, <2>2, <2>9, <2>16 DEF TypeOK
    <2>18. ClockRow'
      <3>1. screen'[NUM_COLUMNS-3] = Colon
        <4>1. PICK cell : cell = NUM_COLUMNS-3
          OBVIOUS
        <4>2. cell \in Row0 /\ ~(cell < first) /\ cell - first + 1 = l+1
          BY <1>1, <2>8, <2>13, <2>14, <4>1 DEF Row0
        <4> QED BY <2>8, <2>16, <4>1, <4>2
      <3>2. ASSUME NEW i \in 1..l PROVE screen'[first + i - 1] = itoa(m)[i]
        <4>1. PICK cell : cell = first + i - 1
          OBVIOUS
        <4>2. cell \in Row0 /\ ~(cell < first) /\ cell - first + 1 = i
          BY <1>1, <2>8, <2>13, <2>14, <4>1 DEF Row0
        <4> QED BY <2>8, <2>16, <4>1, <4>2
      <3>3. screen'[NUM_COLUMNS-2] = Zero + (s \div Base)
        <4>1. PICK cell : cell = NUM_COLUMNS-2
          OBVIOUS
        <4>2. cell \in Row0 /\ ~(cell < first) /\ cell - first + 1 = l+2
          BY <1>1, <2>8, <2>13, <2>14, <4>1 DEF Row0
        <4> QED BY <2>8, <2>16, <4>1, <4>2
      <3>4. screen'[NUM_COLUMNS-1] = Zero + (s % Base)
        <4>1. PICK cell : cell = NUM_COLUMNS-1
          OBVIOUS
        <4>2. cell \in Row0 /\ ~(cell < first) /\ cell - first + 1 = l+3
          BY <1>1, <2>8, <2>13, <2>14, <4>1 DEF Row0
        <4> QED BY <2>8, <2>16, <4>1, <4>2
      <3>5. itoa(secs' \div Minute) = itoa(m) /\ secs' % Minute = s /\ secs' # 0
        BY <2>2, <2>3, <2>4, <2>9
      <3> QED BY <2>7, <2>13, <2>14, <3>1, <3>2, <3>3, <3>4, <3>5 DEF ClockRow
    <2>19. Ticking'
      <3>1. n * TICS_PER_SEC \in Nat
        BY <1>1, <2>2
      <3>2. n * TICS_PER_SEC + 1 =
              n * TICS_PER_SEC + TICS_PER_SEC - (TICS_PER_SEC - 1)
        BY <1>1, <3>1
      <3> QED BY <1>1, <1>3, <2>9, <2>10, <3>1, <3>2 DEF Ticking
    <2>20. UNCHANGED Paper!vars
      <3>1. ASSUME NEW p \in ((1..NUM_ROWS-1) \X (0..NUM_COLUMNS-1)) \ HiddenPlaces
            PROVE  screen'[At(p[2], p[1])] = screen[At(p[2], p[1])]
        <4>1. PICK row \in 1..NUM_ROWS-1, column \in 0..NUM_COLUMNS-1 :
                p = <<row, column>> /\ p # <<1, 0>>
          BY <3>1 DEF HiddenPlaces
        <4>2. PICK cell : cell = At(column, row)
          OBVIOUS
        <4>3. row \in 0..NUM_ROWS-1 /\ row # 0
          BY <1>1, <4>1
        <4>4. cell \in Cells
          BY <4>2, <4>3, Layout
        <4>5. cell > NUM_COLUMNS
          <5>1. CASE row = 1
            <6>1. column # 0 /\ cell = NUM_COLUMNS + column
              BY <1>1, <4>1, <4>2, <5>1 DEF At
            <6> QED BY <1>1, <6>1
          <5>2. CASE row # 1
            <6>1. row \in Nat /\ 2 <= row
              BY <1>1, <4>3, <5>2
            <6>2. 2 * NUM_COLUMNS <= row * NUM_COLUMNS /\ row * NUM_COLUMNS \in Nat
              BY <1>1, <6>1, ProductMonotone
            <6> QED BY <1>1, <4>2, <6>2 DEF At
          <5> QED BY <5>1, <5>2
        <4> QED BY <2>16, <4>1, <4>2, <4>4, <4>5
      <3>2. ShownText' = ShownText
        BY <3>1 DEF ShownText
      <3> QED BY <1>3, <3>2 DEF Paper!vars
    <2> QED BY <2>17, <2>18, <2>19, <2>20 DEF IInv
  <1> QED BY <1>4, <1>5

(* Every step keeps the invariant, and is one of Teletype or none.         *)
LEMMA NextInv ==
  ASSUME IInv, [Next]_vars
  PROVE  IInv' /\ [Paper!Next]_(Paper!vars)
  <1>1. CASE UNCHANGED vars
    <2>1. UNCHANGED <<screen, x, y, tics, tacs, secs, keeps>>
      BY <1>1 DEF vars
    <2>2. TypeOK' /\ ClockRow' /\ Ticking'
      BY <2>1 DEF IInv, TypeOK, ClockRow, Ticking
    <2>3. UNCHANGED Paper!vars
      BY <2>1 DEF Paper!vars, ShownText
    <2> QED BY <2>2, <2>3 DEF IInv
  <1>2. ASSUME NEW string \in Writes \cup Messages, PutAll(string)
        PROVE  IInv' /\ Paper!Next
    <2>1. IInv' /\ Paper!Write(string)
      BY <1>2, PutAllStep
    <2> QED BY <2>1 DEF Paper!Next
  <1>3. CASE \E buffer \in Writes : sys_write_console(buffer)
    BY <1>2, <1>3 DEF sys_write_console
  <1>4. CASE \E string \in Messages : printk(string)
    BY <1>2, <1>4 DEF printk
  <1>5. CASE clock_routine
    BY <1>5, ClockStep
  <1> QED BY <1>1, <1>3, <1>4, <1>5 DEF Next

(* The invariant holds of the console.                                     *)
THEOREM Invariance == Spec => []IInv
  <1>1. Init => IInv
    BY InitInv
  <1>2. IInv /\ [Next]_vars => IInv'
    BY NextInv
  <1> QED BY <1>1, <1>2, PTL DEF Spec

(* The next character's place is on the screen, below the clock's row.     *)
THEOREM TypeCorrect == Spec => []TypeOK
  <1>1. IInv => TypeOK
    BY DEF IInv
  <1> QED BY <1>1, Invariance, PTL

(* The clock is right, whatever the screen showed before, whatever is      *)
(* printed and however often it scrolls.                                   *)
THEOREM ShowsTheTime == Spec => []ClockShowsTime
  <1>1. ASSUME IInv PROVE ClockShowsTime
    <2> SUFFICES ASSUME tics > TICS_PER_SEC
                 PROVE  \E first \in 0..NUM_COLUMNS-4 :
                   LET shown == Number(first, NUM_COLUMNS-4) * Minute
                                  + Number(NUM_COLUMNS-2, NUM_COLUMNS-1)
                   IN  /\ Reads(first, NUM_COLUMNS-4) /\ Reads(NUM_COLUMNS-2, NUM_COLUMNS-1)
                       /\ screen[NUM_COLUMNS-3] = Colon
                       /\ first < NUM_COLUMNS-4 => screen[first] # Zero
                       /\ shown * TICS_PER_SEC <= tics
                       /\ tics <= (shown + 1) * TICS_PER_SEC
      BY DEF ClockShowsTime
    <2>1. /\ TICS_PER_SEC \in Nat /\ secs \in Nat /\ tacs \in 0..TICS_PER_SEC
          /\ tics = secs * TICS_PER_SEC + TICS_PER_SEC - tacs
      BY <1>1, ConsoleAssumption DEF IInv, TypeOK, Ticking
    <2>2. secs # 0
      <3> SUFFICES ASSUME secs = 0 PROVE FALSE
        OBVIOUS
      <3>1. tics = 0 * TICS_PER_SEC + TICS_PER_SEC - tacs
        BY <2>1
      <3> QED BY <2>1, <3>1
    <2>3. PICK first \in 0..NUM_COLUMNS-4 :
            /\ Reads(first, NUM_COLUMNS-4) /\ Reads(NUM_COLUMNS-2, NUM_COLUMNS-1)
            /\ screen[NUM_COLUMNS-3] = Colon
            /\ first < NUM_COLUMNS-4 => screen[first] # Zero
            /\ Number(first, NUM_COLUMNS-4) * Minute
                 + Number(NUM_COLUMNS-2, NUM_COLUMNS-1) = secs
      BY <1>1, <2>2, RowIsRead DEF IInv
    <2>4. /\ secs * TICS_PER_SEC \in Nat
          /\ (secs + 1) * TICS_PER_SEC = secs * TICS_PER_SEC + TICS_PER_SEC
      BY <2>1
    <2>5. secs * TICS_PER_SEC <= tics /\ tics <= (secs + 1) * TICS_PER_SEC
      BY <2>1, <2>4
    <2> QED BY <2>3, <2>5
  <1> QED BY <1>1, Invariance, PTL

(* The screen below the clock shows what was printed, over what it showed  *)
(* before, as Teletype says.                                               *)
THEOREM Refinement == Spec => ImplementsTeletype
  <1>1. Init => Paper!Init
    <2> SUFFICES ASSUME Init PROVE Paper!Init
      OBVIOUS
    <2>1. /\ screen \in [Cells -> Nat]
          /\ x = 0 /\ y = StartRow /\ keeps \in BOOLEAN
      BY ConsoleAssumption DEF Init
    <2>2. ASSUME NEW p \in ((1..NUM_ROWS-1) \X (0..NUM_COLUMNS-1)) \ HiddenPlaces
          PROVE  screen[At(p[2], p[1])] \in Nat
      <3>1. PICK row \in 1..NUM_ROWS-1, column \in 0..NUM_COLUMNS-1 :
              p = <<row, column>>
        BY <2>2
      <3>2. row \in 0..NUM_ROWS-1
        BY <3>1, ConsoleAssumption
      <3>3. At(column, row) \in Cells
        BY <3>1, <3>2, Layout
      <3> QED BY <2>1, <3>1, <3>3
    <2>3. ShownText \in [Paper!Places -> Nat]
      BY <2>2 DEF ShownText, Paper!Places
    <2> QED BY <2>1, <2>3 DEF Paper!Init
  <1>2. IInv /\ [Next]_vars => [Paper!Next]_(Paper!vars)
    BY NextInv
  <1> QED BY <1>1, <1>2, Invariance, PTL DEF Spec, ImplementsTeletype, Paper!Spec
=============================================================================
