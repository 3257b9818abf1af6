------------------------------ MODULE Teletype ------------------------------
(***************************************************************************)
(* What the console promises to those who write on it: a page of lines,    *)
(* which may have been used before.  A character is put over what the last *)
(* line shows in its place; a line that is full, or ended by a newline, is *)
(* followed by the next, for which the page moves up when it must, and     *)
(* then that line is an empty one.  A newline leaves what the rest of its  *)
(* line shows, but one in the last column blanks the places that follow.   *)
(* Some places may show anything (Hidden).  The page may be such that it   *)
(* comes out blank when it moves.                                          *)
(***************************************************************************)
EXTENDS Naturals, Sequences

CONSTANTS Lines, Columns,   \* of the page
          Line0,            \* where the text begins
          Hidden,           \* places that may show anything
          Blank, Nothing,   \* a blank; what a page shows that came out blank
          Newline,
          Spill,            \* how many places a newline at a line's end blanks
          Texts             \* what is written, each in one go

Places  == ((1..Lines) \X (0..Columns-1)) \ Hidden

VARIABLES text,             \* what each place that is not hidden shows
          line, column,     \* of the next character
          keeps             \* the page keeps what it shows when it moves

vars == <<text, line, column, keeps>>

Page == [text |-> text, line |-> line, column |-> column]

Put(p, c) ==
  [p EXCEPT !.text = [q \in Places |-> IF q = <<p.line, p.column>> THEN c ELSE @[q]]]

Moved(p) ==
  [p EXCEPT !.text =
     [q \in Places |-> IF q[1] = Lines THEN Blank
                       ELSE IF keeps THEN p.text[<<q[1] + 1, q[2]>>]
                       ELSE Nothing]]

NextLine(p) ==
  IF p.line = Lines THEN [Moved(p) EXCEPT !.column = 0]
  ELSE [p EXCEPT !.line = @ + 1, !.column = 0]

Spilled(p) ==
  IF p.column < Columns - 1 THEN p
  ELSE [p EXCEPT !.text =
          [q \in Places |->
             IF q[1] > p.line /\ (q[1] - p.line - 1) * Columns + q[2] < Spill
             THEN Blank ELSE @[q]]]

Type(p, c) ==
  IF c = Newline THEN NextLine(Spilled(p))
  ELSE IF p.column = Columns - 1 THEN NextLine(Put(p, c))
  ELSE [Put(p, c) EXCEPT !.column = @ + 1]

Init == /\ text \in [Places -> Nat]
        /\ line = Line0
        /\ column = 0
        /\ keeps \in BOOLEAN

(* The characters of one text follow each other.                           *)
Typed(t) ==
  LET after[n \in 0..Len(t)] ==
        IF n = 0 THEN Page ELSE Type(after[n-1], t[n])
  IN  after[Len(t)]

Write(t) ==
  /\ text' = Typed(t).text
  /\ line' = Typed(t).line
  /\ column' = Typed(t).column
  /\ UNCHANGED keeps

Next == \E t \in Texts : Write(t)

Spec == Init /\ [][Next]_vars
=============================================================================
