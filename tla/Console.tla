------------------------------ MODULE Console ------------------------------
(***************************************************************************)
(* The framebuffer console, kernel/src/fb/fbtext.c, and the calls that     *)
(* print on it, kernel/src/utils/printk.c.                                 *)
(*                                                                         *)
(* mem is the memory of the framebuffer, pixel by pixel, and what follows  *)
(* it.  A row of pixels takes Pitch of them, of which FbWidth are visible; *)
(* neither the width nor the height need be a multiple of the font's.      *)
(* Output is a sequence of characters with their colours (todo), and each  *)
(* fb_putchar is a step.  Texts are what printf.c made of a format (see    *)
(* module Printf); the fixed words of a log line are one character each.   *)
(***************************************************************************)
EXTENDS Integers, Sequences

CONSTANTS
  FBFONT_WIDTH, FBFONT_HEIGHT,
  FbWidth, FbHeight, Pitch,  \* of the framebuffer, in pixels
  Beyond,     \* pixels of memory that follow the framebuffer
  Glyph,      \* Glyph[c] is the set of lit <<row, column>> of a character
  Ink, Paper, \* _putchar's colours; Paper is fb_get_background_color too
  Black,      \* the colours klog_* passes with its last newline
  LevelColor, \* LevelColor[l] is the colour of the label of klog_l
  Texts       \* what callers print: sequences of characters

Controls == {"NL", "CR", "TAB"}
Chars == DOMAIN Glyph
Levels == DOMAIN LevelColor
Colors == {Ink, Paper, Black} \cup {LevelColor[l] : l \in Levels}

ASSUME FontAssumption == FBFONT_WIDTH \in Nat \ {0} /\ FBFONT_HEIGHT \in Nat \ {0}
ASSUME FramebufferAssumption ==
  /\ FbWidth \in Nat /\ FbHeight \in Nat /\ Pitch \in Nat
  /\ FbWidth >= FBFONT_WIDTH /\ FbHeight >= FBFONT_HEIGHT
  /\ Pitch >= FbWidth
  /\ Beyond \in Nat

(* A label is a character here, and no character is a control. *)
ASSUME CharAssumption ==
  /\ {"[", "]"} \cup Levels \subseteq Chars /\ Chars \cap Controls = {}
  /\ Texts \subseteq Seq(Chars \cup Controls)

VARIABLES
  g_fb,        \* is g_fb set?
  mem,         \* colour of every pixel of memory
  cursor_x,
  cursor_y,
  todo         \* what the call in progress still has to print

vars == <<g_fb, mem, cursor_x, cursor_y, todo>>

rows == FbHeight \div FBFONT_HEIGHT
cols == FbWidth \div FBFONT_WIDTH
FrameSize == Pitch * FbHeight
FontCells == (0..FBFONT_HEIGHT - 1) \X (0..FBFONT_WIDTH - 1)
Offset(x, y) == y * Pitch + x

Init ==
  /\ g_fb = FALSE
  /\ mem = [i \in 0..FrameSize + Beyond - 1 |->
              IF i < FrameSize THEN "firmware" ELSE "other"]
  /\ cursor_x = 0
  /\ cursor_y = 0
  /\ todo = << >>
-----------------------------------------------------------------------------
(* Variants with one plausible mistake each, never used below. *)
InFrame_ByPitch(x, y) == x < Pitch /\ y < FbHeight
Moved_OneRow(m, i) == m[i + Pitch]
LogNewline_InInk == <<[char |-> "NL", fg |-> Black, bg |-> Ink]>>
-----------------------------------------------------------------------------
(* fb_putpixel ignores what is not visible. *)
InFrame(x, y) == x < FbWidth /\ y < FbHeight

(* The loop over a glyph's rows and bits, at the cursor. *)
Drawn(c, fg, bg) ==
  LET at(p) == Offset(cursor_x * FBFONT_WIDTH + p[2], cursor_y * FBFONT_HEIGHT + p[1])
      seen == {p \in FontCells : InFrame(cursor_x * FBFONT_WIDTH + p[2],
                                         cursor_y * FBFONT_HEIGHT + p[1])}
      lit == {at(p) : p \in seen \cap Glyph[c]}
      unlit == {at(p) : p \in seen \ Glyph[c]}
  IN  [i \in DOMAIN mem |-> IF i \in lit THEN fg ELSE IF i \in unlit THEN bg ELSE mem[i]]

(* fb_scroll copies upwards in place, lowest address first, so every pixel *)
(* is read before it is overwritten, and clears the last FBFONT_HEIGHT     *)
(* rows of pixels.                                                         *)
Moved(m, i) == m[i + Pitch * FBFONT_HEIGHT]

fb_scroll(m, bg) ==
  [i \in DOMAIN m |->
     IF \E y \in FbHeight - FBFONT_HEIGHT..FbHeight - 1, x \in 0..FbWidth - 1 : i = Offset(x, y)
     THEN bg
     ELSE IF i < Pitch * (FbHeight - FBFONT_HEIGHT) THEN Moved(m, i) ELSE m[i]]

LineFull(x) == x >= cols

LastLineFull(y) == y >= rows

(* The cursor goes to the start of the next line of the memory m. *)
NextLine(m, bg) ==
  /\ cursor_x' = 0
  /\ cursor_y' = IF LastLineFull(cursor_y + 1) THEN rows - 1 ELSE cursor_y + 1
  /\ mem' = IF LastLineFull(cursor_y + 1) THEN fb_scroll(m, bg) ELSE m

PutNewline(bg) == NextLine(mem, bg)

PutReturn == cursor_x' = 0 /\ UNCHANGED <<mem, cursor_y>>

PutTab ==
  /\ cursor_x' = cursor_x + 4
  /\ UNCHANGED <<mem, cursor_y>>

PutGlyph(c, fg, bg) ==
  IF LineFull(cursor_x + 1)
  THEN NextLine(Drawn(c, fg, bg), bg)
  ELSE /\ mem' = Drawn(c, fg, bg)
       /\ cursor_x' = cursor_x + 1
       /\ UNCHANGED cursor_y

(* Without a framebuffer nothing is printed and nothing changes. *)
PutNowhere == ~g_fb /\ UNCHANGED <<mem, cursor_x, cursor_y>>

fb_putchar ==
  /\ todo # << >>
  /\ todo' = Tail(todo)
  /\ UNCHANGED g_fb
  /\ LET c == Head(todo).char
         bg == Head(todo).bg
     IN  \/ PutNowhere
         \/ g_fb /\ c = "NL" /\ PutNewline(bg)
         \/ g_fb /\ c = "CR" /\ PutReturn
         \/ g_fb /\ c = "TAB" /\ PutTab
         \/ g_fb /\ c \in Chars /\ PutGlyph(c, Head(todo).fg, bg)

(* fb_init takes the first framebuffer of the response and clears it.  The *)
(* cursor is not reset: nothing has moved it before.                       *)
fb_clear ==
  mem' = [i \in DOMAIN mem |->
            IF \E y \in 0..FbHeight - 1, x \in 0..FbWidth - 1 : i = Offset(x, y)
            THEN Paper ELSE mem[i]]

fb_init ==
  /\ ~g_fb /\ todo = << >>
  /\ g_fb' = TRUE
  /\ fb_clear
  /\ UNCHANGED <<cursor_x, cursor_y, todo>>

In(text, fg, bg) == [i \in DOMAIN text |-> [char |-> text[i], fg |-> fg, bg |-> bg]]

(* printf_ prints through _putchar, in the theme's colours. *)
Plain(text) == In(text, Ink, Paper)

fb_puts(text, fg, bg) == In(text, fg, bg)

(* Each call prints when the one before it has returned. *)
printk(text) ==
  /\ todo = << >>
  /\ todo' = Plain(text)
  /\ UNCHANGED <<g_fb, mem, cursor_x, cursor_y>>

LogNewline == In(<<"NL">>, Black, Black)

(* klog_ok, klog_info, klog_warn, klog_error, klog_custom and klog_debug:  *)
(* the label in brackets, the text, and a newline in black on black.       *)
klog(level, text) ==
  /\ todo = << >>
  /\ todo' = Plain(<<"[">>) \o fb_puts(<<level>>, LevelColor[level], Paper)
             \o Plain(<<"]">>) \o Plain(text) \o LogNewline
  /\ UNCHANGED <<g_fb, mem, cursor_x, cursor_y>>

Next ==
  \/ fb_init
  \/ fb_putchar
  \/ \E text \in Texts : printk(text) \/ \E l \in Levels : klog(l, text)

Spec == Init /\ [][Next]_vars
-----------------------------------------------------------------------------
(* The variables keep their types; the cursor's line is always a whole     *)
(* line of the screen, so that what is printed can be seen.                *)
TypeOK ==
  /\ g_fb \in BOOLEAN
  /\ mem \in [0..FrameSize + Beyond - 1 -> Colors \cup {"firmware", "other"}]
  /\ cursor_x \in Nat
  /\ cursor_y \in 0..rows - 1
  /\ todo \in Seq([char : Chars \cup Controls, fg : Colors, bg : Colors])

(* Nothing is written behind the framebuffer. *)
NothingBeyondFrame == \A i \in FrameSize..FrameSize + Beyond - 1 : mem[i] = "other"

(* The pixels between FbWidth and Pitch get no glyph's and no background's *)
(* colour: scrolling copies whole rows, but only among themselves.         *)
PaddingUntouched ==
  \A i \in 0..FrameSize - 1 : i % Pitch >= FbWidth => mem[i] = "firmware"

(* Printing, scrolling and clearing change visible pixels only, however    *)
(* far to the right tabs, which do not wrap (fbtext.c:39), have moved the  *)
(* cursor; the line of the cursor can be seen.                             *)
OnlyVisiblePixels == TypeOK /\ NothingBeyondFrame /\ PaddingUntouched

(* The strip under the last whole line, which scrolling pulls into that    *)
(* line, shows background only.                                            *)
StripIsPaper ==
  g_fb => \A y \in rows * FBFONT_HEIGHT..FbHeight - 1, x \in 0..FbWidth - 1 :
            mem[Offset(x, y)] = Paper

(* Cell by cell, the picture in the framebuffer is the one a text screen   *)
(* would show.                                                             *)
Shown(r, c) ==
  [p \in FontCells |-> mem[Offset(c * FBFONT_WIDTH + p[2], r * FBFONT_HEIGHT + p[1])]]

Looks(c, f, b) == [p \in FontCells |-> IF p \in Glyph[c] THEN f ELSE b]

LooksEmpty(b) == [p \in FontCells |-> b]

Screen == INSTANCE TextScreen WITH
  Rows <- rows, Cols <- cols, TabStop <- 4,
  Picture <- Looks, Empty <- LooksEmpty,
  on <- g_fb, row <- cursor_y, col <- cursor_x,
  cell <- [p \in (0..rows - 1) \X (0..cols - 1) |-> Shown(p[1], p[2])]

ImplementsTextScreen == Screen!Spec
=============================================================================
