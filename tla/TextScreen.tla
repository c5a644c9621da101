----------------------------- MODULE TextScreen -----------------------------
(***************************************************************************)
(* What the framebuffer console promises: a grid of Rows x Cols character  *)
(* cells that fills from the top left, goes to the next line at the right  *)
(* edge, and moves up by one line, losing the top one, when the last line  *)
(* is full.  Nothing is said of pixels, pitch or glyphs: Picture(c, f, b)  *)
(* is how the character c looks in colours f on b, Empty(b) a cell of      *)
(* background alone.  A character printed behind the right edge, where     *)
(* only a tab leads, is lost.                                              *)
(***************************************************************************)
EXTENDS Integers

CONSTANTS Rows, Cols, TabStop, Chars, Colors, Picture(_, _, _), Empty(_)

VARIABLES on, cell, row, col

screenVars == <<on, cell, row, col>>

Init == ~on /\ row = 0 /\ col = 0

Start ==
  /\ ~on /\ on' = TRUE
  /\ \E b \in Colors : cell' = [p \in (0..Rows - 1) \X (0..Cols - 1) |-> Empty(b)]
  /\ UNCHANGED <<row, col>>

(* The picture shown, pic, after the cursor goes to the next line. *)
NextLine(pic, b) ==
  /\ col' = 0
  /\ row' = IF row = Rows - 1 THEN row ELSE row + 1
  /\ cell' = IF row < Rows - 1 THEN pic
             ELSE [p \in DOMAIN pic |->
                     IF p[1] = Rows - 1 THEN Empty(b) ELSE pic[<<p[1] + 1, p[2]>>]]

PrintChar(c, f, b) ==
  LET pic == [p \in DOMAIN cell |->
                IF p = <<row, col>> THEN Picture(c, f, b) ELSE cell[p]]
  IN  IF col + 1 < Cols
      THEN cell' = pic /\ col' = col + 1 /\ UNCHANGED row
      ELSE NextLine(pic, b)

NewLine(b) == NextLine(cell, b)

Return == col' = 0 /\ UNCHANGED <<cell, row>>

Tab == col' = col + TabStop /\ UNCHANGED <<cell, row>>

Next ==
  \/ Start
  \/ /\ on /\ UNCHANGED on
     /\ \/ Return
        \/ Tab
        \/ \E b \in Colors : NewLine(b)
        \/ \E c \in Chars, f, b \in Colors : PrintChar(c, f, b)

Spec == Init /\ [][Next]_screenVars
=============================================================================
