--------------------------- MODULE ConsoleProofs ---------------------------
(***************************************************************************)
(* Proofs about module Console, for every font, frame, pitch and text.     *)
(*                                                                         *)
(* Memory changes in three ways: a glyph is drawn, the screen scrolls, or  *)
(* it is cleared.  For each of them it is shown which pixels keep their    *)
(* colour, what the strip under the last line holds, and what every cell   *)
(* of the screen looks like afterwards; the theorems put this together.    *)
(***************************************************************************)
EXTENDS Console, SequenceTheorems, TLAPS

Pixels == 0..FrameSize + Beyond - 1
Stored == Colors \cup {"firmware", "other"}
Visible == {Offset(x, y) : x \in 0..FbWidth - 1, y \in 0..FbHeight - 1}

(* What OnlyVisiblePixels says of a memory. *)
FrameOK(m) ==
  /\ m \in [Pixels -> Stored]
  /\ \A i \in FrameSize..FrameSize + Beyond - 1 : m[i] = "other"
  /\ \A i \in 0..FrameSize - 1 : i % Pitch >= FbWidth => m[i] = "firmware"

(* Output that is waiting. *)
Outputs == [char : Chars \cup Controls, fg : Colors, bg : Colors]
-----------------------------------------------------------------------------
(* Numbers. *)

LEMMA Sizes ==
  /\ FBFONT_WIDTH \in Nat \ {0} /\ FBFONT_HEIGHT \in Nat \ {0}
  /\ FbWidth \in Nat \ {0} /\ FbHeight \in Nat \ {0}
  /\ Pitch \in Nat \ {0} /\ FbWidth <= Pitch /\ Beyond \in Nat
  /\ FBFONT_WIDTH <= FbWidth /\ FBFONT_HEIGHT <= FbHeight
  BY FontAssumption, FramebufferAssumption

LEMMA Products ==
  ASSUME NEW i \in Nat, NEW j \in Nat, NEW k \in Nat
  PROVE  /\ i * k \in Nat /\ i * k = k * i
         /\ (i + j) * k = i * k + j * k
         /\ (i + 1) * k = i * k + k
         /\ i <= j => i * k <= j * k
  OBVIOUS

LEMMA QuotientBounds ==
  ASSUME NEW a \in Nat, NEW k \in Nat \ {0}
  PROVE  /\ a \div k \in Nat
         /\ a = (a \div k) * k + (a % k) /\ a % k \in 0..k - 1
  OBVIOUS

(* A number is a multiple of k and a rest in only one way. *)
LEMMA OnePlace ==
  ASSUME NEW k \in Nat \ {0}, NEW a \in Nat, NEW b \in Nat,
         NEW r \in 0..k - 1, NEW s \in 0..k - 1, a * k + r = b * k + s
  PROVE  a = b /\ r = s
<1>1. ASSUME NEW i \in Nat, NEW j \in Nat, i < j PROVE i * k + k <= j * k
  <2>1. i + 1 \in Nat /\ i + 1 <= j
    BY <1>1
  <2>2. (i + 1) * k <= j * k
    BY <2>1, Products
  <2>3. (i + 1) * k = i * k + k
    BY Products
  <2>4. QED  BY <2>2, <2>3
<1> DEFINE x == a * k
           y == b * k
<1>2. x \in Nat /\ y \in Nat
  BY Products
<1>3. (a < b => x + k <= y) /\ (b < a => y + k <= x)
  BY <1>1
<1>4. x + r = y + s
  OBVIOUS
<1>5. a = b => x = y
  OBVIOUS
<1> HIDE DEF x, y
<1>6. ~(a < b) /\ ~(b < a)
  BY <1>2, <1>3, <1>4
<1>7. QED  BY <1>2, <1>4, <1>5, <1>6

LEMMA OneRemainder ==
  ASSUME NEW k \in Nat \ {0}, NEW a \in Nat, NEW r \in 0..k - 1, NEW i,
         i = a * k + r
  PROVE  i \in Nat /\ i % k = r
<1>1. i \in Nat
  BY Products
<1>2. i \div k \in Nat /\ i = (i \div k) * k + (i % k) /\ i % k \in 0..k - 1
  BY <1>1, QuotientBounds
<1>3. PICK b \in Nat : b = i \div k
  BY <1>2
<1>4. PICK s \in 0..k - 1 : s = i % k
  BY <1>2
<1>5. a * k + r = b * k + s
  BY <1>2, <1>3, <1>4
<1>6. r = s
  BY <1>5, OnePlace
<1>7. QED  BY <1>1, <1>4, <1>6

(* Places of memory. *)
LEMMA Offsets ==
  ASSUME NEW x \in 0..Pitch - 1, NEW y \in Nat
  PROVE  /\ Offset(x, y) \in Nat /\ Offset(x, y) % Pitch = x
         /\ \A h \in Nat : (y < h => Offset(x, y) < Pitch * h)
                           /\ (h <= y => Pitch * h <= Offset(x, y))
         /\ \A h \in Nat : Offset(x, y + h) = Offset(x, y) + Pitch * h
<1>1. Offset(x, y) \in Nat /\ Offset(x, y) % Pitch = x
  BY Sizes, OneRemainder DEF Offset
<1>2. ASSUME NEW h \in Nat, y < h PROVE Offset(x, y) < Pitch * h
  <2>1. (y + 1) * Pitch <= h * Pitch /\ (y + 1) * Pitch = y * Pitch + Pitch
    <3>1. y + 1 \in Nat /\ y + 1 <= h
      BY <1>2
    <3>2. QED  BY <3>1, Sizes, Products
  <2>2. y * Pitch \in Nat /\ h * Pitch = Pitch * h /\ Pitch * h \in Nat
    BY Sizes, Products
  <2>3. QED  BY <2>1, <2>2, Sizes DEF Offset
<1>3. ASSUME NEW h \in Nat, h <= y PROVE Pitch * h <= Offset(x, y)
  <2>1. h * Pitch <= y * Pitch /\ y * Pitch \in Nat /\ h * Pitch = Pitch * h
        /\ Pitch * h \in Nat
    BY <1>3, Sizes, Products
  <2>2. QED  BY <2>1, Sizes DEF Offset
<1>4. ASSUME NEW h \in Nat PROVE Offset(x, y + h) = Offset(x, y) + Pitch * h
  <2>1. (y + h) * Pitch = y * Pitch + h * Pitch /\ h * Pitch = Pitch * h
        /\ y * Pitch \in Nat /\ Pitch * h \in Nat
    BY Sizes, Products
  <2>2. QED  BY <2>1, Sizes DEF Offset
<1>5. QED  BY <1>1, <1>2, <1>3, <1>4

LEMMA OffsetsDiffer ==
  ASSUME NEW x \in 0..Pitch - 1, NEW y \in Nat,
         NEW u \in 0..Pitch - 1, NEW v \in Nat, Offset(x, y) = Offset(u, v)
  PROVE  x = u /\ y = v
  BY Sizes, OnePlace DEF Offset

LEMMA VisibleInFrame ==
  ASSUME NEW x \in 0..FbWidth - 1, NEW y \in 0..FbHeight - 1
  PROVE  /\ Offset(x, y) \in 0..FrameSize - 1 /\ Offset(x, y) \in Pixels
         /\ Offset(x, y) % Pitch = x /\ Offset(x, y) % Pitch < FbWidth
<1>1. x \in 0..Pitch - 1 /\ y \in Nat /\ y < FbHeight /\ x < FbWidth /\ FbHeight \in Nat
  BY Sizes
<1>2. Offset(x, y) \in Nat /\ Offset(x, y) < Pitch * FbHeight /\ Offset(x, y) % Pitch = x
  BY <1>1, Offsets
<1>3. Pitch * FbHeight \in Nat
  BY Sizes, Products
<1>4. QED  BY <1>1, <1>2, <1>3, Sizes DEF FrameSize, Pixels

LEMMA FrameNumbers ==
  /\ FrameSize \in Nat /\ Pitch * FBFONT_HEIGHT \in Nat
  /\ Pitch * (FbHeight - FBFONT_HEIGHT) \in Nat
  /\ Pitch * (FbHeight - FBFONT_HEIGHT) + Pitch * FBFONT_HEIGHT = FrameSize
<1>1. FbHeight - FBFONT_HEIGHT \in Nat
      /\ (FbHeight - FBFONT_HEIGHT) + FBFONT_HEIGHT = FbHeight
  BY Sizes
<1>2. PICK d \in Nat : d = FbHeight - FBFONT_HEIGHT
  BY <1>1
<1>3. (d + FBFONT_HEIGHT) * Pitch = d * Pitch + FBFONT_HEIGHT * Pitch
      /\ d * Pitch = Pitch * d /\ Pitch * d \in Nat
      /\ FBFONT_HEIGHT * Pitch = Pitch * FBFONT_HEIGHT /\ Pitch * FBFONT_HEIGHT \in Nat
  BY <1>2, Sizes, Products
<1>4. FrameSize = (d + FBFONT_HEIGHT) * Pitch /\ FrameSize \in Nat
  BY <1>1, <1>2, Sizes, Products DEF FrameSize
<1>5. QED  BY <1>2, <1>3, <1>4

(* Lines and columns of the screen. *)
LEMMA Lines ==
  /\ rows \in Nat \ {0} /\ cols \in Nat \ {0}
  /\ rows * FBFONT_HEIGHT \in Nat /\ cols * FBFONT_WIDTH \in Nat
  /\ rows * FBFONT_HEIGHT <= FbHeight /\ FbHeight < rows * FBFONT_HEIGHT + FBFONT_HEIGHT
  /\ cols * FBFONT_WIDTH <= FbWidth
<1>1. ASSUME NEW n \in Nat, NEW k \in Nat \ {0}, k <= n
      PROVE  /\ n \div k \in Nat \ {0} /\ (n \div k) * k \in Nat
             /\ (n \div k) * k <= n /\ n < (n \div k) * k + k
  <2>1. PICK q \in Nat : q = n \div k
    BY QuotientBounds
  <2>2. PICK z \in Nat : z = q * k
    BY Products
  <2>3. n = z + (n % k) /\ n % k \in 0..k - 1
    BY <2>1, <2>2, QuotientBounds
  <2>4. q # 0
    <3>1. q = 0 => z = 0
      BY <2>2
    <3>2. QED  BY <1>1, <2>3, <3>1
  <2>5. QED  BY <2>1, <2>2, <2>3, <2>4
<1>2. QED  BY <1>1, Sizes DEF rows, cols

(* The pixels of line n, character n of a line, of characters k high. *)
LEMMA CellPlace ==
  ASSUME NEW k \in Nat \ {0}, NEW n \in Nat, NEW m \in Nat, NEW p \in 0..k - 1,
         n < m
  PROVE  n * k + p \in Nat /\ n * k + p < m * k
<1>1. n + 1 \in Nat /\ n + 1 <= m
  OBVIOUS
<1>2. (n + 1) * k <= m * k /\ (n + 1) * k = n * k + k /\ n * k \in Nat /\ m * k \in Nat
  BY <1>1, Products
<1>3. QED  BY <1>2
-----------------------------------------------------------------------------
(* A glyph is drawn. *)

CursorOK == cursor_x \in Nat /\ cursor_y \in 0..rows - 1

LEMMA CursorPlace ==
  ASSUME CursorOK
  PROVE  /\ cursor_x * FBFONT_WIDTH \in Nat /\ cursor_y * FBFONT_HEIGHT \in Nat
         /\ cursor_y * FBFONT_HEIGHT + FBFONT_HEIGHT <= rows * FBFONT_HEIGHT
<1>1. cursor_x \in Nat /\ cursor_y \in Nat /\ cursor_y + 1 \in Nat /\ cursor_y + 1 <= rows
      /\ rows \in Nat
  BY Lines DEF CursorOK
<1>2. (cursor_y + 1) * FBFONT_HEIGHT <= rows * FBFONT_HEIGHT
      /\ (cursor_y + 1) * FBFONT_HEIGHT = cursor_y * FBFONT_HEIGHT + FBFONT_HEIGHT
  BY <1>1, Sizes, Products
<1>3. QED  BY <1>1, <1>2, Sizes, Products

(* The memory m is mem with c drawn at column a, row b of pixels. *)
ShowsAt(m, c, fg, bg, a, b) ==
  /\ m \in [Pixels -> Stored]
  /\ \A i \in Pixels : i \notin Visible => m[i] = mem[i]
  /\ \A x \in 0..FbWidth - 1, y \in 0..FbHeight - 1 :
       m[Offset(x, y)] =
         IF <<y - b, x - a>> \notin FontCells THEN mem[Offset(x, y)]
         ELSE IF <<y - b, x - a>> \in Glyph[c] THEN fg ELSE bg

LEMMA DrawnAt ==
  ASSUME CursorOK, FrameOK(mem), NEW c, NEW fg \in Colors, NEW bg \in Colors
  PROVE  ShowsAt(Drawn(c, fg, bg), c, fg, bg,
                 cursor_x * FBFONT_WIDTH, cursor_y * FBFONT_HEIGHT)
<1>0. PICK a \in Nat, b \in Nat :
        a = cursor_x * FBFONT_WIDTH /\ b = cursor_y * FBFONT_HEIGHT
  BY CursorPlace
<1> DEFINE at(p) == Offset(a + p[2], b + p[1])
           seen == {p \in FontCells : InFrame(a + p[2], b + p[1])}
           lit == {at(p) : p \in seen \cap Glyph[c]}
           unlit == {at(p) : p \in seen \ Glyph[c]}
<1>1. Drawn(c, fg, bg) = [i \in DOMAIN mem |->
        IF i \in lit THEN fg ELSE IF i \in unlit THEN bg ELSE mem[i]]
  BY <1>0 DEF Drawn
<1>2. DOMAIN mem = Pixels /\ \A i \in Pixels : mem[i] \in Stored
  BY DEF FrameOK
<1>3. Drawn(c, fg, bg) \in [Pixels -> Stored]
  BY <1>1, <1>2 DEF Stored
<1>4. a \in Nat /\ b \in Nat
  OBVIOUS
<1>5. ASSUME NEW p \in seen
      PROVE  /\ p = <<p[1], p[2]>> /\ p[1] \in Nat /\ p[2] \in Nat
             /\ a + p[2] \in 0..FbWidth - 1 /\ b + p[1] \in 0..FbHeight - 1
  <2>1. p \in FontCells /\ a + p[2] < FbWidth /\ b + p[1] < FbHeight
    BY DEF InFrame
  <2>2. p = <<p[1], p[2]>> /\ p[1] \in Nat /\ p[2] \in Nat
    BY <2>1, Sizes DEF FontCells
  <2>3. QED  BY <1>4, <2>1, <2>2, Sizes
<1>6. \A i \in lit \cup unlit : i \in Visible
  BY <1>5 DEF Visible
<1>7. \A i \in Pixels : i \notin Visible => Drawn(c, fg, bg)[i] = mem[i]
  BY <1>1, <1>2, <1>6
<1>8. ASSUME NEW x \in 0..FbWidth - 1, NEW y \in 0..FbHeight - 1
      PROVE  Drawn(c, fg, bg)[Offset(x, y)] =
               IF <<y - b, x - a>> \notin FontCells THEN mem[Offset(x, y)]
               ELSE IF <<y - b, x - a>> \in Glyph[c] THEN fg ELSE bg
  <2>1. PICK q : q = <<y - b, x - a>>
    OBVIOUS
  <2>2. Offset(x, y) \in Pixels
    BY VisibleInFrame
  <2>3. a + (x - a) = x /\ b + (y - b) = y /\ x < FbWidth /\ y < FbHeight
    BY <1>4, Sizes
  <2>4. q[1] = y - b /\ q[2] = x - a
    BY <2>1
  <2>5. q \in FontCells => q \in seen
    BY <2>3, <2>4 DEF InFrame
  <2>6. at(q) = Offset(x, y)
    BY <2>3, <2>4
  <2>7. ASSUME NEW p \in seen, at(p) = Offset(x, y) PROVE p = q
    <3>1. /\ a + p[2] \in 0..Pitch - 1 /\ b + p[1] \in Nat
          /\ x \in 0..Pitch - 1 /\ y \in Nat
      BY <1>5, Sizes
    <3>2. a + p[2] = x /\ b + p[1] = y
      BY <2>7, <3>1, OffsetsDiffer
    <3>3. p[2] = x - a /\ p[1] = y - b
      BY <1>4, <1>5, <3>2
    <3>4. QED  BY <1>5, <2>1, <3>3
  <2>8. Offset(x, y) \in lit <=> q \in seen \cap Glyph[c]
    BY <2>6, <2>7
  <2>9. Offset(x, y) \in unlit <=> q \in seen \ Glyph[c]
    BY <2>6, <2>7
  <2>10. Drawn(c, fg, bg)[Offset(x, y)] =
           IF Offset(x, y) \in lit THEN fg
           ELSE IF Offset(x, y) \in unlit THEN bg ELSE mem[Offset(x, y)]
    BY <1>1, <1>2, <2>2
  <2>11. q \in seen <=> q \in FontCells
    BY <2>5
  <2> HIDE DEF seen, lit, unlit
  <2>12. QED  BY <2>1, <2>8, <2>9, <2>10, <2>11
<1>9. ShowsAt(Drawn(c, fg, bg), c, fg, bg, a, b)
  BY <1>3, <1>7, <1>8 DEF ShowsAt
<1>10. QED  BY <1>0, <1>9

(* A change of visible pixels only. *)
LEMMA VisibleChange ==
  ASSUME NEW m, NEW n, FrameOK(m), n \in [Pixels -> Stored],
         \A i \in Pixels : i \notin Visible => n[i] = m[i]
  PROVE  FrameOK(n)
<1>1. \A i \in Visible : i \in 0..FrameSize - 1 /\ i % Pitch < FbWidth
  BY VisibleInFrame DEF Visible
<1>2. ASSUME NEW i \in FrameSize..FrameSize + Beyond - 1 PROVE n[i] = "other"
  <2>1. i \in Pixels /\ i \notin 0..FrameSize - 1
    BY FrameNumbers, Sizes DEF Pixels
  <2>2. QED  BY <1>1, <2>1 DEF FrameOK
<1>3. ASSUME NEW i \in 0..FrameSize - 1, i % Pitch >= FbWidth
      PROVE  n[i] = "firmware"
  <2>1. i \in Pixels /\ i % Pitch \in 0..Pitch - 1
    <3>1. i \in Nat /\ i \in Pixels
      BY FrameNumbers, Sizes DEF Pixels
    <3>2. QED  BY <3>1, Sizes, QuotientBounds
  <2>2. i \notin Visible
    BY <1>1, <1>3, <2>1, Sizes
  <2>3. QED  BY <1>3, <2>1, <2>2 DEF FrameOK
<1>4. QED  BY <1>2, <1>3 DEF FrameOK
-----------------------------------------------------------------------------
(* The screen scrolls. *)

LEMMA ScrollAt ==
  ASSUME NEW m, FrameOK(m), NEW bg \in Colors
  PROVE  /\ FrameOK(fb_scroll(m, bg))
         /\ \A x \in 0..FbWidth - 1, y \in 0..FbHeight - 1 :
              fb_scroll(m, bg)[Offset(x, y)] =
                IF y >= FbHeight - FBFONT_HEIGHT THEN bg
                ELSE m[Offset(x, y + FBFONT_HEIGHT)]
<1> DEFINE last == {Offset(x, y) : x \in 0..FbWidth - 1,
                                   y \in FbHeight - FBFONT_HEIGHT..FbHeight - 1}
<1>1. PICK s : s = fb_scroll(m, bg)
  OBVIOUS
<1>2. PICK e \in Nat : e = Pitch * (FbHeight - FBFONT_HEIGHT)
  BY FrameNumbers
<1>3. PICK h \in Nat : h = Pitch * FBFONT_HEIGHT
  BY FrameNumbers
<1>4. e + h = FrameSize
  BY <1>2, <1>3, FrameNumbers
<1>5. DOMAIN m = Pixels /\ \A i \in Pixels : m[i] \in Stored
  BY DEF FrameOK
<1>6. DOMAIN s = Pixels /\ \A i \in Pixels :
        s[i] = IF i \in last THEN bg ELSE IF i < e THEN m[i + h] ELSE m[i]
  BY <1>1, <1>2, <1>3, <1>5 DEF fb_scroll, Moved
<1>7. \A y \in FbHeight - FBFONT_HEIGHT..FbHeight - 1 : y \in 0..FbHeight - 1
  BY Sizes
<1>8. \A i \in last : i \in Visible
  BY <1>7 DEF Visible
<1>9. ASSUME NEW i \in Pixels, i < e
      PROVE  i + h \in Pixels /\ i + h \in 0..FrameSize - 1
  BY <1>4, <1>9, FrameNumbers, Sizes DEF Pixels
<1>10. s \in [Pixels -> Stored]
  <2>1. ASSUME NEW i \in Pixels PROVE s[i] \in Stored
    <3>1. CASE i \in last
      BY <1>6, <3>1 DEF Stored
    <3>2. CASE i \notin last /\ i < e
      BY <1>5, <1>6, <1>9, <3>2
    <3>3. CASE i \notin last /\ ~(i < e)
      BY <1>5, <1>6, <3>3
    <3>4. QED  BY <3>1, <3>2, <3>3
  <2>2. s = [i \in Pixels |-> s[i]]
    BY <1>1, <1>5 DEF fb_scroll
  <2>3. QED  BY <2>1, <2>2
<1>11. \A i \in Visible : i \in 0..FrameSize - 1 /\ i % Pitch < FbWidth
  BY VisibleInFrame DEF Visible
<1>12. ASSUME NEW i \in FrameSize..FrameSize + Beyond - 1 PROVE s[i] = "other"
  <2>1. i \in Pixels /\ i \notin 0..FrameSize - 1 /\ ~(i < e)
    BY <1>4, FrameNumbers, Sizes DEF Pixels
  <2>2. s[i] = m[i]
    BY <1>6, <1>8, <1>11, <2>1
  <2>3. QED  BY <2>2 DEF FrameOK
<1>13. ASSUME NEW i \in 0..FrameSize - 1, i % Pitch >= FbWidth
       PROVE  s[i] = "firmware"
  <2>1. i \in Pixels /\ i \in Nat
    BY FrameNumbers, Sizes DEF Pixels
  <2>2. PICK q \in Nat : q = i \div Pitch
    BY <2>1, Sizes, QuotientBounds
  <2>3. PICK r \in 0..Pitch - 1 : r = i % Pitch
    BY <2>1, Sizes, QuotientBounds
  <2>4. i = q * Pitch + r
    BY <2>1, <2>2, <2>3, Sizes, QuotientBounds
  <2>5. i \notin last
    <3>1. ~(i % Pitch < FbWidth)
      BY <1>13, <2>3, Sizes
    <3>2. QED  BY <1>8, <1>11, <3>1
  <2>6. CASE i < e
    <3>1. i + h = (q + FBFONT_HEIGHT) * Pitch + r
      <4>1. (q + FBFONT_HEIGHT) * Pitch = q * Pitch + FBFONT_HEIGHT * Pitch
            /\ q * Pitch \in Nat
        BY Sizes, Products
      <4>2. FBFONT_HEIGHT * Pitch = h
        BY <1>3, Sizes, Products
      <4>3. QED  BY <2>4, <4>1, <4>2
    <3>2. (i + h) % Pitch = r
      <4>1. PICK b \in Nat : b = q + FBFONT_HEIGHT
        BY Sizes
      <4>2. PICK j : j = i + h
        OBVIOUS
      <4>3. j = b * Pitch + r
        BY <3>1, <4>1, <4>2
      <4>4. Pitch \in Nat \ {0}
        BY Sizes
      <4>5. j % Pitch = r
        BY <4>3, <4>4, OneRemainder
      <4>6. QED  BY <4>2, <4>5
    <3>3. i + h \in 0..FrameSize - 1
      BY <1>9, <2>1, <2>6
    <3>4. m[i + h] = "firmware"
      BY <1>13, <2>3, <3>2, <3>3 DEF FrameOK
    <3>5. QED  BY <1>6, <2>1, <2>5, <2>6, <3>4
  <2>7. CASE ~(i < e)
    BY <1>6, <1>13, <2>1, <2>5, <2>7 DEF FrameOK
  <2>8. QED  BY <2>6, <2>7
<1>14. ASSUME NEW x \in 0..FbWidth - 1, NEW y \in 0..FbHeight - 1
       PROVE  s[Offset(x, y)] = IF y >= FbHeight - FBFONT_HEIGHT THEN bg
                                ELSE m[Offset(x, y + FBFONT_HEIGHT)]
  <2>1. Offset(x, y) \in Pixels
    BY VisibleInFrame
  <2>2. x \in 0..Pitch - 1 /\ y \in Nat /\ FbHeight - FBFONT_HEIGHT \in Nat
    BY Sizes
  <2>3. CASE y >= FbHeight - FBFONT_HEIGHT
    <3>1. y \in FbHeight - FBFONT_HEIGHT..FbHeight - 1
      BY <2>2, <2>3
    <3>2. Offset(x, y) \in last
      BY <3>1
    <3>3. QED  BY <1>6, <2>1, <2>3, <3>2
  <2>4. CASE ~(y >= FbHeight - FBFONT_HEIGHT)
    <3>1. y < FbHeight - FBFONT_HEIGHT
      BY <2>2, <2>4
    <3>2. Offset(x, y) < e
      BY <1>2, <2>2, <3>1, Offsets
    <3>3. Offset(x, y) \notin last
      <4>1. ASSUME NEW u \in 0..FbWidth - 1,
                   NEW v \in FbHeight - FBFONT_HEIGHT..FbHeight - 1,
                   Offset(x, y) = Offset(u, v)
            PROVE  FALSE
        <5>1. u \in 0..Pitch - 1 /\ v \in Nat
          BY Sizes
        <5>2. y = v
          BY <2>2, <4>1, <5>1, OffsetsDiffer
        <5>3. QED  BY <2>2, <3>1, <5>2
      <4>2. QED  BY <4>1
    <3>4. Offset(x, y + FBFONT_HEIGHT) = Offset(x, y) + h
      BY <1>3, <2>2, Sizes, Offsets
    <3>5. QED  BY <1>6, <2>1, <2>4, <3>2, <3>3, <3>4
  <2>5. QED  BY <2>3, <2>4
<1>15. QED  BY <1>1, <1>10, <1>12, <1>13, <1>14 DEF FrameOK
-----------------------------------------------------------------------------
(* The screen is cleared. *)

Cleared == [i \in DOMAIN mem |->
              IF \E y \in 0..FbHeight - 1, x \in 0..FbWidth - 1 : i = Offset(x, y)
              THEN Paper ELSE mem[i]]

LEMMA ClearedAt ==
  ASSUME FrameOK(mem)
  PROVE  /\ FrameOK(Cleared)
         /\ \A x \in 0..FbWidth - 1, y \in 0..FbHeight - 1 :
              Cleared[Offset(x, y)] = Paper
<1>1. DOMAIN mem = Pixels /\ \A i \in Pixels : mem[i] \in Stored
  BY DEF FrameOK
<1>2. Cleared \in [Pixels -> Stored]
  BY <1>1 DEF Cleared, Stored, Colors
<1>3. \A i \in Pixels : i \notin Visible => Cleared[i] = mem[i]
  BY <1>1 DEF Cleared, Visible
<1>4. ASSUME NEW x \in 0..FbWidth - 1, NEW y \in 0..FbHeight - 1
      PROVE  Cleared[Offset(x, y)] = Paper
  <2>1. Offset(x, y) \in Pixels
    BY VisibleInFrame
  <2>2. QED  BY <1>1, <2>1 DEF Cleared
<1>5. QED  BY <1>2, <1>3, <1>4, VisibleChange
-----------------------------------------------------------------------------
(* What every step does: nothing to memory and the cursor, or a change of  *)
(* one of the three kinds.                                                 *)

Rest == UNCHANGED <<mem, cursor_x, cursor_y>>

LEMMA QueueFacts ==
  ASSUME todo \in Seq(Outputs), todo # << >>
  PROVE  Head(todo) \in Outputs /\ Tail(todo) \in Seq(Outputs)
         /\ Len(todo) \in Nat \ {0}
         /\ Head(todo) = todo[1]
         /\ Len(Tail(todo)) = Len(todo) - 1
         /\ \A i \in 1..Len(Tail(todo)) : Tail(todo)[i] = todo[i + 1]
  BY HeadTailProperties

LEMMA NextLineKeepsFrame ==
  ASSUME NEW m, FrameOK(m), CursorOK, NEW bg \in Colors, NextLine(m, bg)
  PROVE  FrameOK(mem)' /\ CursorOK'
<1>1. CursorOK'
  <2>1. cursor_x' = 0 /\ cursor_y' \in 0..rows - 1
    BY Lines DEF NextLine, CursorOK, LastLineFull
  <2>2. QED  BY <2>1 DEF CursorOK
<1>2. FrameOK(mem')
  <2>1. FrameOK(fb_scroll(m, bg))
    BY ScrollAt
  <2>2. QED  BY <2>1 DEF NextLine
<1>3. FrameOK(mem') => FrameOK(mem)'
  BY DEF FrameOK
<1>4. QED  BY <1>1, <1>2, <1>3

LEMMA DrawnKeepsFrame ==
  ASSUME FrameOK(mem), CursorOK, NEW c, NEW fg \in Colors, NEW bg \in Colors
  PROVE  FrameOK(Drawn(c, fg, bg))
<1>1. PICK m : m = Drawn(c, fg, bg)
  OBVIOUS
<1>2. m \in [Pixels -> Stored] /\ \A i \in Pixels : i \notin Visible => m[i] = mem[i]
  <2>1. ShowsAt(m, c, fg, bg, cursor_x * FBFONT_WIDTH, cursor_y * FBFONT_HEIGHT)
    BY <1>1, DrawnAt
  <2>2. QED  BY <2>1 DEF ShowsAt
<1>3. QED  BY <1>1, <1>2, VisibleChange

LEMMA fb_putcharKeepsFrame ==
  ASSUME FrameOK(mem), CursorOK, todo \in Seq(Outputs), fb_putchar
  PROVE  FrameOK(mem)' /\ CursorOK'
<1>1. PICK c : c = Head(todo).char
  OBVIOUS
<1>2. PICK fg \in Colors : fg = Head(todo).fg
  BY QueueFacts DEF fb_putchar, Outputs
<1>3. PICK bg \in Colors : bg = Head(todo).bg
  BY QueueFacts DEF fb_putchar, Outputs
<1>4. PutNowhere \/ PutNewline(bg) \/ PutReturn \/ PutTab \/ PutGlyph(c, fg, bg)
  BY <1>1, <1>2, <1>3 DEF fb_putchar
<1>5. CASE PutNowhere
  BY <1>5 DEF PutNowhere, FrameOK, CursorOK
<1>6. CASE PutNewline(bg)
  BY <1>6, NextLineKeepsFrame DEF PutNewline
<1>7. CASE PutReturn
  BY <1>7 DEF PutReturn, FrameOK, CursorOK
<1>8. CASE PutTab
  BY <1>8 DEF PutTab, FrameOK, CursorOK
<1>9. CASE PutGlyph(c, fg, bg)
  <2>1. FrameOK(Drawn(c, fg, bg))
    BY DrawnKeepsFrame
  <2>2. CASE NextLine(Drawn(c, fg, bg), bg)
    BY <2>1, <2>2, NextLineKeepsFrame
  <2>3. CASE mem' = Drawn(c, fg, bg) /\ cursor_x' = cursor_x + 1 /\ UNCHANGED cursor_y
    <3>1. FrameOK(mem') /\ CursorOK'
      BY <2>1, <2>3 DEF CursorOK
    <3>2. QED  BY <3>1 DEF FrameOK
  <2>4. QED  BY <1>9, <2>2, <2>3 DEF PutGlyph
<1>10. QED  BY <1>4, <1>5, <1>6, <1>7, <1>8, <1>9

(* What is to be printed is printable, in the colours of the console. *)
PaperOnly(s) == \A i \in 1..Len(s) : s[i].bg = Paper

LEMMA InFacts ==
  ASSUME NEW text \in Seq(Chars \cup Controls), NEW fg \in Colors, NEW bg \in Colors
  PROVE  In(text, fg, bg) \in Seq(Outputs)
         /\ (bg = Paper => PaperOnly(In(text, fg, bg)))
<1>1. DOMAIN text = 1..Len(text) /\ Len(text) \in Nat
      /\ \A i \in 1..Len(text) : text[i] \in Chars \cup Controls
  BY ElementOfSeq
<1>2. In(text, fg, bg) \in [1..Len(text) -> Outputs]
  BY <1>1 DEF In, Outputs
<1>3. In(text, fg, bg) \in Seq(Outputs) /\ Len(In(text, fg, bg)) = Len(text)
  BY <1>1, <1>2
<1>4. ASSUME bg = Paper PROVE PaperOnly(In(text, fg, bg))
  BY <1>1, <1>3, <1>4 DEF PaperOnly, In
<1>5. QED  BY <1>3, <1>4

LEMMA ConcatFacts ==
  ASSUME NEW s \in Seq(Outputs), NEW t \in Seq(Outputs)
  PROVE  s \o t \in Seq(Outputs)
         /\ (PaperOnly(s) /\ PaperOnly(t) => PaperOnly(s \o t))
<1>1. s \o t \in Seq(Outputs) /\ Len(s \o t) = Len(s) + Len(t)
      /\ Len(s) \in Nat /\ Len(t) \in Nat
      /\ \A i \in 1..Len(s) + Len(t) :
           (s \o t)[i] = IF i <= Len(s) THEN s[i] ELSE t[i - Len(s)]
  BY ConcatProperties
<1>2. ASSUME PaperOnly(s), PaperOnly(t), NEW i \in 1..Len(s) + Len(t)
      PROVE  (s \o t)[i].bg = Paper
  <2>1. CASE i <= Len(s)
    <3>1. i \in 1..Len(s)
      BY <1>1, <2>1
    <3>2. QED  BY <1>1, <1>2, <2>1, <3>1 DEF PaperOnly
  <2>2. CASE ~(i <= Len(s))
    <3>1. i - Len(s) \in 1..Len(t)
      BY <1>1, <2>2
    <3>2. QED  BY <1>1, <1>2, <2>2, <3>1 DEF PaperOnly
  <2>3. QED  BY <2>1, <2>2
<1>3. QED  BY <1>1, <1>2 DEF PaperOnly

LEMMA ColorFacts ==
  Ink \in Colors /\ Paper \in Colors /\ Black \in Colors
  /\ \A l \in Levels : LevelColor[l] \in Colors
  BY DEF Colors

LEMMA QueueKept ==
  ASSUME todo \in Seq(Outputs), Next
  PROVE  todo' \in Seq(Outputs)
         /\ (Black = Paper /\ PaperOnly(todo) => PaperOnly(todo'))
<1>1. CASE fb_init
  BY <1>1 DEF fb_init
<1>2. CASE fb_putchar
  <2>1. todo # << >> /\ todo' = Tail(todo)
    BY <1>2 DEF fb_putchar
  <2>2. todo' \in Seq(Outputs)
    BY <2>1, QueueFacts
  <2>3. ASSUME PaperOnly(todo) PROVE PaperOnly(todo')
    <3>1. PICK n \in Nat : n = Len(todo)
      BY <2>1, QueueFacts
    <3>2. Len(todo') = n - 1 /\ \A i \in 1..n - 1 : todo'[i] = todo[i + 1]
      BY <2>1, <3>1, QueueFacts
    <3>3. \A i \in 1..n - 1 : i + 1 \in 1..n
      BY <3>1
    <3>4. QED  BY <2>3, <3>1, <3>2, <3>3 DEF PaperOnly
  <2>4. QED  BY <2>2, <2>3
<1>3. ASSUME NEW text \in Texts, printk(text)
      PROVE  todo' \in Seq(Outputs) /\ PaperOnly(todo')
  <2>1. text \in Seq(Chars \cup Controls) /\ todo' = In(text, Ink, Paper)
    BY <1>3, CharAssumption DEF printk, Plain
  <2>2. QED  BY <2>1, ColorFacts, InFacts
<1>4. ASSUME NEW text \in Texts, NEW l \in Levels, klog(l, text)
      PROVE  todo' \in Seq(Outputs) /\ (Black = Paper => PaperOnly(todo'))
  <2>1. /\ text \in Seq(Chars \cup Controls) /\ <<"[">> \in Seq(Chars \cup Controls)
        /\ <<"]">> \in Seq(Chars \cup Controls) /\ <<"NL">> \in Seq(Chars \cup Controls)
        /\ <<l>> \in Seq(Chars \cup Controls)
    <3>1. text \in Seq(Chars \cup Controls)
      BY CharAssumption
    <3>2. "[" \in Chars \cup Controls /\ "]" \in Chars \cup Controls
          /\ "NL" \in Chars \cup Controls /\ l \in Chars \cup Controls
      BY CharAssumption DEF Controls
    <3>3. QED  BY <3>1, <3>2
  <2>2. PICK p1 : p1 = In(<<"[">>, Ink, Paper)
    OBVIOUS
  <2>3. PICK p2 : p2 = In(<<l>>, LevelColor[l], Paper)
    OBVIOUS
  <2>4. PICK p3 : p3 = In(<<"]">>, Ink, Paper)
    OBVIOUS
  <2>5. PICK p4 : p4 = In(text, Ink, Paper)
    OBVIOUS
  <2>6. PICK p5 : p5 = In(<<"NL">>, Black, Black)
    OBVIOUS
  <2>7. p1 \in Seq(Outputs) /\ PaperOnly(p1)
    BY <2>1, <2>2, ColorFacts, InFacts
  <2>8. p2 \in Seq(Outputs) /\ PaperOnly(p2)
    BY <2>1, <2>3, ColorFacts, InFacts
  <2>9. p3 \in Seq(Outputs) /\ PaperOnly(p3)
    BY <2>1, <2>4, ColorFacts, InFacts
  <2>10. p4 \in Seq(Outputs) /\ PaperOnly(p4)
    BY <2>1, <2>5, ColorFacts, InFacts
  <2>11. p5 \in Seq(Outputs) /\ (Black = Paper => PaperOnly(p5))
    BY <2>1, <2>6, ColorFacts, InFacts
  <2>12. todo' = (((p1 \o p2) \o p3) \o p4) \o p5
    BY <1>4, <2>2, <2>3, <2>4, <2>5, <2>6
       DEF klog, Plain, fb_puts, LogNewline
  <2>13. PICK q1 : q1 = p1 \o p2
    OBVIOUS
  <2>14. q1 \in Seq(Outputs) /\ PaperOnly(q1)
    BY <2>7, <2>8, <2>13, ConcatFacts
  <2>15. PICK q2 : q2 = q1 \o p3
    OBVIOUS
  <2>16. q2 \in Seq(Outputs) /\ PaperOnly(q2)
    BY <2>9, <2>14, <2>15, ConcatFacts
  <2>17. PICK q3 : q3 = q2 \o p4
    OBVIOUS
  <2>18. q3 \in Seq(Outputs) /\ PaperOnly(q3)
    BY <2>10, <2>16, <2>17, ConcatFacts
  <2>19. todo' = q3 \o p5
    BY <2>12, <2>13, <2>15, <2>17
  <2>20. QED  BY <2>11, <2>18, <2>19, ConcatFacts
<1>5. QED  BY <1>1, <1>2, <1>3, <1>4 DEF Next
-----------------------------------------------------------------------------
(* Only visible pixels change. *)

Inv == g_fb \in BOOLEAN /\ FrameOK(mem) /\ CursorOK /\ todo \in Seq(Outputs)

LEMMA InvIsProperty == Inv <=> OnlyVisiblePixels
<1>1. FrameOK(mem) <=> mem \in [0..FrameSize + Beyond - 1 -> Colors \cup {"firmware", "other"}]
                       /\ NothingBeyondFrame /\ PaddingUntouched
  BY DEF FrameOK, Pixels, Stored, NothingBeyondFrame, PaddingUntouched
<1>2. QED  BY <1>1 DEF Inv, OnlyVisiblePixels, TypeOK, CursorOK, Outputs

LEMMA InitInv == Init => Inv
<1> SUFFICES ASSUME Init PROVE Inv
  OBVIOUS
<1>1. mem = [i \in Pixels |-> IF i < FrameSize THEN "firmware" ELSE "other"]
  BY DEF Init, Pixels
<1>2. \A i \in FrameSize..FrameSize + Beyond - 1 : i \in Pixels /\ ~(i < FrameSize)
  BY FrameNumbers, Sizes DEF Pixels
<1>3. \A i \in 0..FrameSize - 1 : i \in Pixels /\ i < FrameSize
  BY FrameNumbers, Sizes DEF Pixels
<1>4. mem \in [Pixels -> Stored]
  BY <1>1 DEF Stored
<1>5. FrameOK(mem)
  BY <1>1, <1>2, <1>3, <1>4 DEF FrameOK
<1>6. CursorOK
  BY Lines DEF Init, CursorOK
<1>7. todo \in Seq(Outputs) /\ g_fb \in BOOLEAN
  <2>1. << >> \in Seq(Outputs)
    OBVIOUS
  <2>2. QED  BY <2>1, Zenon DEF Init
<1>8. QED  BY <1>5, <1>6, <1>7 DEF Inv

LEMMA NextInv == Inv /\ [Next]_vars => Inv'
<1> SUFFICES ASSUME Inv, [Next]_vars PROVE Inv'
  OBVIOUS
<1>1. CASE UNCHANGED vars
  BY <1>1 DEF vars, Inv, FrameOK, CursorOK
<1>2. CASE Next
  <2>1. todo' \in Seq(Outputs)
    BY <1>2, QueueKept DEF Inv
  <2>2. g_fb' \in BOOLEAN
    BY <1>2 DEF Inv, Next, fb_init, fb_putchar, printk, klog
  <2>3. FrameOK(mem)' /\ CursorOK'
    <3>1. CASE fb_init
      <4>1. mem' = Cleared /\ UNCHANGED <<cursor_x, cursor_y>>
        BY <3>1 DEF fb_init, fb_clear, Cleared
      <4>2. FrameOK(mem')
        BY <4>1, ClearedAt DEF Inv
      <4>3. QED  BY <4>1, <4>2 DEF FrameOK, Inv, CursorOK
    <3>2. CASE fb_putchar
      BY <3>2, fb_putcharKeepsFrame DEF Inv
    <3>3. CASE Rest
      BY <3>3 DEF Rest, Inv, FrameOK, CursorOK
    <3>4. QED  BY <1>2, <3>1, <3>2, <3>3 DEF Next, Rest, printk, klog
  <2>4. QED  BY <2>1, <2>2, <2>3 DEF Inv
<1>3. QED  BY <1>1, <1>2

LEMMA Invariance == Spec => []Inv
  BY InitInv, NextInv, PTL DEF Spec

(* Printing, scrolling and clearing change visible pixels only, and the    *)
(* line of the cursor can be seen, for every size of font and frame.       *)
THEOREM OnlyVisiblePixelsChange == Spec => []OnlyVisiblePixels
  BY Invariance, InvIsProperty, PTL
-----------------------------------------------------------------------------
(* The strip under the last line stays paper. *)

StripPaper(m) ==
  \A y \in rows * FBFONT_HEIGHT..FbHeight - 1, x \in 0..FbWidth - 1 :
    m[Offset(x, y)] = Paper

LEMMA StripLines ==
  ASSUME NEW y \in rows * FBFONT_HEIGHT..FbHeight - 1
  PROVE  y \in 0..FbHeight - 1 /\ y >= FbHeight - FBFONT_HEIGHT
         /\ y >= rows * FBFONT_HEIGHT
  BY Lines, Sizes

LEMMA DrawnKeepsStrip ==
  ASSUME FrameOK(mem), CursorOK, StripPaper(mem),
         NEW c, NEW fg \in Colors, NEW bg \in Colors
  PROVE  StripPaper(Drawn(c, fg, bg))
<1>1. PICK a \in Nat : a = cursor_x * FBFONT_WIDTH
  BY CursorPlace
<1>2. PICK b \in Nat : b = cursor_y * FBFONT_HEIGHT
  BY CursorPlace
<1>0. ShowsAt(Drawn(c, fg, bg), c, fg, bg, a, b)
  BY <1>1, <1>2, DrawnAt
<1>3. ASSUME NEW y \in rows * FBFONT_HEIGHT..FbHeight - 1, NEW x \in 0..FbWidth - 1
      PROVE  Drawn(c, fg, bg)[Offset(x, y)] = Paper
  <2>1. b + FBFONT_HEIGHT <= rows * FBFONT_HEIGHT /\ rows * FBFONT_HEIGHT \in Nat
    BY <1>2, CursorPlace, Lines
  <2>2. PICK s \in Nat : s = rows * FBFONT_HEIGHT
    BY <2>1
  <2>3. y \in Nat /\ y >= s /\ y \in 0..FbHeight - 1
    BY <2>2, StripLines
  <2>4. ~(y - b \in 0..FBFONT_HEIGHT - 1)
    BY <2>1, <2>2, <2>3, Sizes
  <2>5. <<y - b, x - a>> \notin FontCells
    BY <2>4 DEF FontCells
  <2>6. Drawn(c, fg, bg)[Offset(x, y)] = mem[Offset(x, y)]
    BY <1>0, <2>3, <2>5 DEF ShowsAt
  <2>7. QED  BY <2>6 DEF StripPaper
<1>4. QED  BY <1>3 DEF StripPaper

LEMMA ScrollKeepsStrip ==
  ASSUME NEW m, FrameOK(m)
  PROVE  StripPaper(fb_scroll(m, Paper))
  BY ScrollAt, StripLines, ColorFacts DEF StripPaper

LEMMA NextLineKeepsStrip ==
  ASSUME NEW m, FrameOK(m), StripPaper(m), NextLine(m, Paper)
  PROVE  StripPaper(mem')
  BY ScrollKeepsStrip DEF NextLine

PaperInv == Inv /\ PaperOnly(todo) /\ (g_fb => StripPaper(mem))

DefaultTheme == Black = Paper

(* The next character, printed on paper. *)
LEMMA Putting ==
  ASSUME PaperInv, fb_putchar
  PROVE  \/ PutNowhere
         \/ g_fb /\ PutNewline(Paper)
         \/ g_fb /\ PutReturn
         \/ g_fb /\ PutTab
         \/ g_fb /\ \E c \in Chars, fg \in Colors : PutGlyph(c, fg, Paper)
<1>1. Head(todo) \in Outputs /\ Head(todo).bg = Paper
  <2>1. Head(todo) \in Outputs /\ Head(todo) = todo[1] /\ Len(todo) \in Nat \ {0}
    BY QueueFacts DEF PaperInv, Inv, fb_putchar
  <2>2. 1 \in 1..Len(todo)
    BY <2>1
  <2>3. QED  BY <2>1, <2>2 DEF PaperInv, PaperOnly
<1>2. Head(todo).fg \in Colors
  BY <1>1 DEF Outputs
<1>3. QED  BY <1>1, <1>2 DEF fb_putchar

LEMMA InitPaperInv == Init => PaperInv
<1> SUFFICES ASSUME Init PROVE PaperInv
  OBVIOUS
<1>1. Inv
  BY InitInv
<1>2. PaperOnly(todo)
  BY DEF Init, PaperOnly
<1>3. ~g_fb
  BY Zenon DEF Init
<1>4. QED  BY <1>1, <1>2, <1>3 DEF PaperInv

LEMMA NextPaperInv == DefaultTheme /\ PaperInv /\ [Next]_vars => PaperInv'
<1> SUFFICES ASSUME DefaultTheme, PaperInv, [Next]_vars PROVE PaperInv'
  OBVIOUS
<1>1. Inv'
  BY NextInv DEF PaperInv
<1>2. PaperOnly(todo')
  <2>1. CASE UNCHANGED vars
    BY <2>1 DEF vars, PaperInv, PaperOnly
  <2>2. CASE Next
    BY <2>2, QueueKept DEF PaperInv, Inv, DefaultTheme
  <2>3. QED  BY <2>1, <2>2
<1>3. ASSUME g_fb' PROVE StripPaper(mem')
  <2>1. CASE fb_init
    <3>1. mem' = Cleared
      BY <2>1 DEF fb_init, fb_clear, Cleared
    <3>2. QED  BY <3>1, ClearedAt, StripLines DEF PaperInv, Inv, StripPaper
  <2>2. CASE fb_putchar
    <3>0. /\ FrameOK(mem) /\ CursorOK /\ StripPaper(mem) /\ g_fb
      BY <1>3, <2>2 DEF PaperInv, Inv, fb_putchar
    <3>1. CASE PutNewline(Paper)
      BY <3>0, <3>1, NextLineKeepsStrip DEF PutNewline
    <3>2. ASSUME NEW c \in Chars, NEW fg \in Colors, PutGlyph(c, fg, Paper)
          PROVE  StripPaper(mem')
      <4>1. FrameOK(Drawn(c, fg, Paper)) /\ StripPaper(Drawn(c, fg, Paper))
        BY <3>0, DrawnKeepsFrame, DrawnKeepsStrip, ColorFacts
      <4>2. CASE NextLine(Drawn(c, fg, Paper), Paper)
        BY <4>1, <4>2, NextLineKeepsStrip
      <4>3. QED  BY <3>2, <4>1, <4>2 DEF PutGlyph
    <3>3. CASE PutNowhere \/ PutReturn \/ PutTab
      BY <3>0, <3>3 DEF PutNowhere, PutReturn, PutTab
    <3>4. QED  BY <2>2, <3>1, <3>2, <3>3, Putting
  <2>3. CASE UNCHANGED <<g_fb, mem>>
    BY <1>3, <2>3 DEF PaperInv
  <2>4. QED
    BY <2>1, <2>2, <2>3 DEF Next, printk, klog, vars
<1>4. StripPaper(mem') => StripPaper(mem)'
  BY DEF StripPaper
<1>5. PaperOnly(todo') => PaperOnly(todo)'
  BY DEF PaperOnly
<1>6. QED  BY <1>1, <1>2, <1>3, <1>4, <1>5 DEF PaperInv

LEMMA PaperInvariance == DefaultTheme => (Spec => []PaperInv)
<1>1. SUFFICES ASSUME DefaultTheme PROVE Spec => []PaperInv
  OBVIOUS
<1>2. PaperInv /\ [Next]_vars => PaperInv'
  BY <1>1, NextPaperInv
<1>3. QED  BY InitPaperInv, <1>2, PTL DEF Spec

(* Scrolling pulls the strip under the last line into that line; it shows  *)
(* background only, whatever was printed, as long as the newline of the    *)
(* log functions has the background's colour.                              *)
THEOREM StripStaysPaper == DefaultTheme => (Spec => []StripIsPaper)
<1> SUFFICES ASSUME DefaultTheme PROVE Spec => []StripIsPaper
  OBVIOUS
<1>1. PaperInv => StripIsPaper
  BY DEF PaperInv, StripPaper, StripIsPaper
<1>2. Spec => []PaperInv
  BY PaperInvariance
<1>3. QED  BY <1>1, <1>2, PTL
-----------------------------------------------------------------------------
(* The console implements a text screen. *)

Grid == (0..rows - 1) \X (0..cols - 1)

CellOf(m, r, c) ==
  [p \in FontCells |-> m[Offset(c * FBFONT_WIDTH + p[2], r * FBFONT_HEIGHT + p[1])]]

Cells(m) == [p \in Grid |-> CellOf(m, p[1], p[2])]

LEMMA CellPixels ==
  ASSUME NEW r \in 0..rows - 1, NEW c \in 0..cols - 1, NEW p \in FontCells
  PROVE  \E x \in 0..FbWidth - 1, y \in 0..FbHeight - 1, u \in Nat, v \in Nat :
           /\ x = c * FBFONT_WIDTH + p[2] /\ y = r * FBFONT_HEIGHT + p[1]
           /\ y < rows * FBFONT_HEIGHT
           /\ u = c * FBFONT_WIDTH /\ v = r * FBFONT_HEIGHT
           /\ x = u + p[2] /\ y = v + p[1]
           /\ p = <<p[1], p[2]>> /\ p[1] \in 0..FBFONT_HEIGHT - 1
           /\ p[2] \in 0..FBFONT_WIDTH - 1
<1>1. p = <<p[1], p[2]>> /\ p[1] \in 0..FBFONT_HEIGHT - 1 /\ p[2] \in 0..FBFONT_WIDTH - 1
  BY DEF FontCells
<1>2. r \in Nat /\ c \in Nat /\ r < rows /\ c < cols /\ rows \in Nat /\ cols \in Nat
  BY Lines
<1>3. PICK u \in Nat : u = c * FBFONT_WIDTH
  BY <1>2, Sizes, Products
<1>4. PICK v \in Nat : v = r * FBFONT_HEIGHT
  BY <1>2, Sizes, Products
<1>5. u + p[2] \in Nat /\ u + p[2] < cols * FBFONT_WIDTH
  BY <1>1, <1>2, <1>3, Sizes, CellPlace
<1>6. v + p[1] \in Nat /\ v + p[1] < rows * FBFONT_HEIGHT
  BY <1>1, <1>2, <1>4, Sizes, CellPlace
<1>7. u + p[2] \in 0..FbWidth - 1 /\ v + p[1] \in 0..FbHeight - 1
  BY <1>5, <1>6, Lines, Sizes
<1>8. QED  BY <1>1, <1>3, <1>4, <1>6, <1>7

LEMMA DrawnCell ==
  ASSUME FrameOK(mem), CursorOK, NEW ch, NEW fg \in Colors, NEW bg \in Colors,
         NEW r \in 0..rows - 1, NEW c \in 0..cols - 1
  PROVE  CellOf(Drawn(ch, fg, bg), r, c) =
           IF r = cursor_y /\ c = cursor_x THEN Looks(ch, fg, bg)
           ELSE CellOf(mem, r, c)
<1>1. PICK a \in Nat : a = cursor_x * FBFONT_WIDTH
  BY CursorPlace
<1>2. PICK b \in Nat : b = cursor_y * FBFONT_HEIGHT
  BY CursorPlace
<1>3. PICK d : d = Drawn(ch, fg, bg)
  OBVIOUS
<1>4. \A u \in 0..FbWidth - 1, v \in 0..FbHeight - 1 :
        d[Offset(u, v)] =
          IF <<v - b, u - a>> \notin FontCells THEN mem[Offset(u, v)]
          ELSE IF <<v - b, u - a>> \in Glyph[ch] THEN fg ELSE bg
  <2>1. ShowsAt(d, ch, fg, bg, a, b)
    BY <1>1, <1>2, <1>3, DrawnAt
  <2>2. QED  BY <2>1 DEF ShowsAt
<1>5. ASSUME NEW p \in FontCells
      PROVE  d[Offset(c * FBFONT_WIDTH + p[2], r * FBFONT_HEIGHT + p[1])] =
               IF r = cursor_y /\ c = cursor_x THEN IF p \in Glyph[ch] THEN fg ELSE bg
               ELSE mem[Offset(c * FBFONT_WIDTH + p[2], r * FBFONT_HEIGHT + p[1])]
  <2>1. PICK x \in 0..FbWidth - 1, y \in 0..FbHeight - 1, u \in Nat, v \in Nat :
           /\ x = c * FBFONT_WIDTH + p[2] /\ y = r * FBFONT_HEIGHT + p[1]
           /\ u = c * FBFONT_WIDTH /\ v = r * FBFONT_HEIGHT
           /\ x = u + p[2] /\ y = v + p[1]
           /\ p = <<p[1], p[2]>> /\ p[1] \in 0..FBFONT_HEIGHT - 1
           /\ p[2] \in 0..FBFONT_WIDTH - 1
    BY CellPixels
  <2>2. CASE r = cursor_y /\ c = cursor_x
    <3>1. u = a /\ v = b
      BY <1>1, <1>2, <2>1, <2>2
    <3>2. y - b = p[1] /\ x - a = p[2]
      BY <2>1, <3>1
    <3>3. <<y - b, x - a>> = p
      BY <2>1, <3>2
    <3>4. d[Offset(x, y)] = IF p \in Glyph[ch] THEN fg ELSE bg
      BY <1>4, <3>3
    <3>5. QED  BY <2>1, <2>2, <3>4
  <2>3. CASE ~(r = cursor_y /\ c = cursor_x)
    <3>1. ASSUME <<y - b, x - a>> \in FontCells PROVE FALSE
      <4>1. y - b \in 0..FBFONT_HEIGHT - 1 /\ x - a \in 0..FBFONT_WIDTH - 1
        BY <3>1 DEF FontCells
      <4>2. PICK i \in 0..FBFONT_HEIGHT - 1 : i = y - b
        BY <4>1
      <4>3. PICK j \in 0..FBFONT_WIDTH - 1 : j = x - a
        BY <4>1
      <4>4. b + i = v + p[1] /\ a + j = u + p[2]
        BY <2>1, <4>2, <4>3
      <4>5. cursor_y * FBFONT_HEIGHT + i = r * FBFONT_HEIGHT + p[1]
        BY <1>2, <2>1, <4>4
      <4>6. cursor_x * FBFONT_WIDTH + j = c * FBFONT_WIDTH + p[2]
        BY <1>1, <2>1, <4>4
      <4>7. cursor_y \in Nat /\ cursor_x \in Nat /\ r \in Nat /\ c \in Nat
        BY Lines DEF CursorOK
      <4>8. cursor_y = r
        <5>1. PICK k \in Nat \ {0} : k = FBFONT_HEIGHT
          BY Sizes
        <5>2. PICK z \in 0..k - 1 : z = p[1]
          BY <2>1, <5>1
        <5>3. cursor_y * k + i = r * k + z /\ i \in 0..k - 1
          BY <4>5, <5>1, <5>2
        <5>4. QED  BY <4>7, <5>3, OnePlace
      <4>9. cursor_x = c
        <5>1. PICK k \in Nat \ {0} : k = FBFONT_WIDTH
          BY Sizes
        <5>2. PICK z \in 0..k - 1 : z = p[2]
          BY <2>1, <5>1
        <5>3. cursor_x * k + j = c * k + z /\ j \in 0..k - 1
          BY <4>6, <5>1, <5>2
        <5>4. QED  BY <4>7, <5>3, OnePlace
      <4>10. QED  BY <2>3, <4>8, <4>9
    <3>2. d[Offset(x, y)] = mem[Offset(x, y)]
      BY <1>4, <3>1
    <3>3. QED  BY <2>1, <2>3, <3>2
  <2>4. QED  BY <2>2, <2>3
<1>6. CASE r = cursor_y /\ c = cursor_x
  BY <1>3, <1>5, <1>6 DEF CellOf, Looks
<1>7. CASE ~(r = cursor_y /\ c = cursor_x)
  BY <1>3, <1>5, <1>7 DEF CellOf
<1>8. QED  BY <1>6, <1>7

LEMMA ScrolledCell ==
  ASSUME NEW m, FrameOK(m), StripPaper(m), NEW r \in 0..rows - 1, NEW c \in 0..cols - 1
  PROVE  CellOf(fb_scroll(m, Paper), r, c) =
           IF r = rows - 1 THEN LooksEmpty(Paper) ELSE CellOf(m, r + 1, c)
<1>1. PICK s : s = fb_scroll(m, Paper)
  OBVIOUS
<1>2. \A x \in 0..FbWidth - 1, y \in 0..FbHeight - 1 :
        s[Offset(x, y)] = IF y >= FbHeight - FBFONT_HEIGHT THEN Paper
                          ELSE m[Offset(x, y + FBFONT_HEIGHT)]
  BY <1>1, ScrollAt, ColorFacts
<1>3. ASSUME NEW p \in FontCells
      PROVE  s[Offset(c * FBFONT_WIDTH + p[2], r * FBFONT_HEIGHT + p[1])] =
               IF r = rows - 1 THEN Paper
               ELSE m[Offset(c * FBFONT_WIDTH + p[2], (r + 1) * FBFONT_HEIGHT + p[1])]
  <2>1. PICK x \in 0..FbWidth - 1, y \in 0..FbHeight - 1, u \in Nat, v \in Nat :
           /\ x = c * FBFONT_WIDTH + p[2] /\ y = r * FBFONT_HEIGHT + p[1]
           /\ u = c * FBFONT_WIDTH /\ v = r * FBFONT_HEIGHT
           /\ x = u + p[2] /\ y = v + p[1]
           /\ p = <<p[1], p[2]>> /\ p[1] \in 0..FBFONT_HEIGHT - 1
           /\ p[2] \in 0..FBFONT_WIDTH - 1
    BY CellPixels
  <2>2. (r + 1) * FBFONT_HEIGHT = v + FBFONT_HEIGHT /\ r \in Nat /\ r < rows
    BY <2>1, Sizes, Lines, Products
  <2>3. (r + 1) * FBFONT_HEIGHT + p[1] = y + FBFONT_HEIGHT
    BY <2>1, <2>2, Sizes
  <2>4. CASE r = rows - 1
    <3>1. r + 1 = rows
      BY <2>4, Lines
    <3>2. PICK e \in Nat : e = rows * FBFONT_HEIGHT /\ e = v + FBFONT_HEIGHT
      BY <2>2, <3>1, Lines
    <3>3. CASE y >= FbHeight - FBFONT_HEIGHT
      BY <1>2, <2>1, <2>4, <3>3
    <3>4. CASE ~(y >= FbHeight - FBFONT_HEIGHT)
      <4>1. y + FBFONT_HEIGHT \in e..FbHeight - 1
        BY <2>1, <3>2, <3>4, Sizes
      <4>2. m[Offset(x, y + FBFONT_HEIGHT)] = Paper
        BY <3>2, <4>1 DEF StripPaper
      <4>3. s[Offset(x, y)] = Paper
        BY <1>2, <3>4, <4>2
      <4>4. QED  BY <2>1, <2>4, <4>3
    <3>5. QED  BY <3>3, <3>4
  <2>5. CASE r # rows - 1
    <3>1. r + 1 \in 0..rows - 1
      BY <2>2, <2>5, Lines
    <3>2. PICK k : k = r + 1
      OBVIOUS
    <3>3. \E z \in 0..FbHeight - 1 : z = k * FBFONT_HEIGHT + p[1]
      BY <3>1, <3>2, CellPixels
    <3>4. y + FBFONT_HEIGHT \in 0..FbHeight - 1
      BY <2>3, <3>2, <3>3
    <3>5. ~(y >= FbHeight - FBFONT_HEIGHT)
      BY <3>4, Sizes
    <3>6. s[Offset(x, y)] = m[Offset(x, y + FBFONT_HEIGHT)]
      BY <1>2, <3>5
    <3>7. QED  BY <2>1, <2>3, <2>5, <3>6
  <2>6. QED  BY <2>4, <2>5
<1>4. CASE r = rows - 1
  BY <1>1, <1>3, <1>4 DEF CellOf, LooksEmpty
<1>5. CASE r # rows - 1
  BY <1>1, <1>3, <1>5 DEF CellOf
<1>6. QED  BY <1>4, <1>5

LEMMA ClearedCell ==
  ASSUME FrameOK(mem), NEW r \in 0..rows - 1, NEW c \in 0..cols - 1
  PROVE  CellOf(Cleared, r, c) = LooksEmpty(Paper)
<1>1. ASSUME NEW p \in FontCells
      PROVE  Cleared[Offset(c * FBFONT_WIDTH + p[2], r * FBFONT_HEIGHT + p[1])] = Paper
  <2>1. PICK x \in 0..FbWidth - 1, y \in 0..FbHeight - 1 :
           x = c * FBFONT_WIDTH + p[2] /\ y = r * FBFONT_HEIGHT + p[1]
    BY CellPixels
  <2>2. Cleared[Offset(x, y)] = Paper
    BY ClearedAt
  <2>3. QED  BY <2>1, <2>2
<1>2. QED  BY <1>1 DEF CellOf, LooksEmpty
LEMMA DrawnCells ==
  ASSUME FrameOK(mem), CursorOK, NEW ch, NEW fg \in Colors, NEW bg \in Colors
  PROVE  Cells(Drawn(ch, fg, bg)) =
           [p \in Grid |-> IF p = <<cursor_y, cursor_x>> THEN Looks(ch, fg, bg)
                           ELSE Cells(mem)[p]]
<1>1. ASSUME NEW p \in Grid
      PROVE  CellOf(Drawn(ch, fg, bg), p[1], p[2]) =
               IF p = <<cursor_y, cursor_x>> THEN Looks(ch, fg, bg)
               ELSE CellOf(mem, p[1], p[2])
  <2>1. p[1] \in 0..rows - 1 /\ p[2] \in 0..cols - 1
        /\ (p = <<cursor_y, cursor_x>> <=> p[1] = cursor_y /\ p[2] = cursor_x)
    BY DEF Grid
  <2>2. QED  BY <2>1, DrawnCell
<1>2. QED  BY <1>1 DEF Cells

LEMMA ScrolledCells ==
  ASSUME NEW m, FrameOK(m), StripPaper(m)
  PROVE  Cells(fb_scroll(m, Paper)) =
           [p \in Grid |-> IF p[1] = rows - 1 THEN LooksEmpty(Paper)
                           ELSE Cells(m)[<<p[1] + 1, p[2]>>]]
<1>1. ASSUME NEW p \in Grid
      PROVE  CellOf(fb_scroll(m, Paper), p[1], p[2]) =
               IF p[1] = rows - 1 THEN LooksEmpty(Paper)
               ELSE Cells(m)[<<p[1] + 1, p[2]>>]
  <2>1. p[1] \in 0..rows - 1 /\ p[2] \in 0..cols - 1
    BY DEF Grid
  <2>2. CASE p[1] = rows - 1
    BY <2>1, <2>2, ScrolledCell
  <2>3. CASE p[1] # rows - 1
    <3>1. <<p[1] + 1, p[2]>> \in Grid
      BY <2>1, <2>3, Lines DEF Grid
    <3>2. Cells(m)[<<p[1] + 1, p[2]>>] = CellOf(m, p[1] + 1, p[2])
      BY <3>1 DEF Cells
    <3>3. QED  BY <2>1, <2>3, <3>2, ScrolledCell
  <2>4. QED  BY <2>2, <2>3
<1>2. QED  BY <1>1 DEF Cells

LEMMA ClearedCells ==
  ASSUME FrameOK(mem)
  PROVE  Cells(Cleared) = [p \in Grid |-> LooksEmpty(Paper)]
<1>1. ASSUME NEW p \in Grid PROVE CellOf(Cleared, p[1], p[2]) = LooksEmpty(Paper)
  <2>1. p[1] \in 0..rows - 1 /\ p[2] \in 0..cols - 1
    BY DEF Grid
  <2>2. QED  BY <2>1, ClearedCell
<1>2. QED  BY <1>1 DEF Cells

(* The refinement's cells, before and after a step. *)
ShownCells == [p \in (0..rows - 1) \X (0..cols - 1) |-> Shown(p[1], p[2])]

LEMMA ShownIsCells == ShownCells = Cells(mem) /\ ShownCells' = Cells(mem')
  BY DEF ShownCells, Shown, Cells, CellOf, Grid

(* The cursor goes to the next line of m, which shows pic. *)
LEMMA NextLineImplements ==
  ASSUME NEW m, FrameOK(m), StripPaper(m), CursorOK, NextLine(m, Paper),
         NEW pic, pic = Cells(m)
  PROVE  Screen!NextLine(pic, Paper)
<1>1. cursor_y \in 0..rows - 1 /\ rows \in Nat \ {0}
  BY Lines DEF CursorOK
<1>2. DOMAIN pic = Grid
  BY DEF Cells
<1>3. CASE cursor_y = rows - 1
  <2>1. LastLineFull(cursor_y + 1)
    BY <1>1, <1>3 DEF LastLineFull
  <2>2. cursor_x' = 0 /\ cursor_y' = cursor_y /\ mem' = fb_scroll(m, Paper)
    BY <1>3, <2>1 DEF NextLine
  <2>3. ShownCells' = [p \in DOMAIN pic |->
          IF p[1] = rows - 1 THEN LooksEmpty(Paper) ELSE pic[<<p[1] + 1, p[2]>>]]
    BY <1>2, <2>2, ShownIsCells, ScrolledCells
  <2>4. ~(cursor_y < rows - 1)
    BY <1>1, <1>3
  <2>5. QED
    BY <1>3, <2>2, <2>3, <2>4, Zenon DEF Screen!NextLine, ShownCells
<1>4. CASE cursor_y # rows - 1
  <2>1. ~LastLineFull(cursor_y + 1) /\ cursor_y < rows - 1
    BY <1>1, <1>4 DEF LastLineFull
  <2>2. cursor_x' = 0 /\ cursor_y' = cursor_y + 1 /\ mem' = m
    BY <2>1 DEF NextLine
  <2>3. ShownCells' = pic
    BY <2>2, ShownIsCells
  <2>4. QED
    BY <1>1, <1>4, <2>1, <2>2, <2>3 DEF Screen!NextLine, ShownCells
<1>5. QED  BY <1>3, <1>4

LEMMA PutGlyphImplements ==
  ASSUME Inv, StripPaper(mem), NEW c \in Chars, NEW fg \in Colors,
         PutGlyph(c, fg, Paper)
  PROVE  Screen!PrintChar(c, fg, Paper)
<1>0. FrameOK(mem) /\ CursorOK
  BY DEF Inv
<1>1. PICK m : m = Drawn(c, fg, Paper)
  OBVIOUS
<1>2. FrameOK(m) /\ StripPaper(m)
  BY <1>0, <1>1, DrawnKeepsFrame, DrawnKeepsStrip, ColorFacts
<1>3. PICK pic : pic = [p \in DOMAIN ShownCells |->
        IF p = <<cursor_y, cursor_x>> THEN Looks(c, fg, Paper) ELSE ShownCells[p]]
  OBVIOUS
<1>4. pic = Cells(m)
  <2>1. ShownCells = Cells(mem) /\ DOMAIN ShownCells = Grid
    BY ShownIsCells DEF Grid, ShownCells
  <2>2. Cells(m) = [p \in Grid |->
          IF p = <<cursor_y, cursor_x>> THEN Looks(c, fg, Paper) ELSE Cells(mem)[p]]
    BY <1>0, <1>1, DrawnCells, ColorFacts
  <2>3. PICK old : old = Cells(mem)
    OBVIOUS
  <2>4. QED  BY <1>3, <2>1, <2>2, <2>3
<1>5. CASE cursor_x + 1 < cols
  <2>1. mem' = m /\ cursor_x' = cursor_x + 1 /\ UNCHANGED cursor_y
    BY <1>0, <1>1, <1>5, Lines DEF PutGlyph, LineFull, CursorOK
  <2>2. ShownCells' = pic
    BY <1>4, <2>1, ShownIsCells
  <2>3. QED  BY <1>3, <1>5, <2>1, <2>2 DEF Screen!PrintChar, ShownCells
<1>6. CASE ~(cursor_x + 1 < cols)
  <2>1. NextLine(m, Paper)
    BY <1>0, <1>1, <1>6, Lines DEF PutGlyph, LineFull, CursorOK
  <2>2. Screen!NextLine(pic, Paper)
    BY <1>0, <1>2, <1>4, <2>1, NextLineImplements
  <2>3. QED  BY <1>3, <1>6, <2>2 DEF Screen!PrintChar, ShownCells
<1>7. QED  BY <1>5, <1>6

LEMMA StepImplements ==
  ASSUME PaperInv, Next
  PROVE  [Screen!Next]_(Screen!screenVars)
<1>0. FrameOK(mem) /\ CursorOK /\ (g_fb => StripPaper(mem))
  BY DEF PaperInv, Inv
<1>1. CASE fb_init
  <2>1. ~g_fb /\ g_fb' = TRUE /\ mem' = Cleared /\ UNCHANGED <<cursor_x, cursor_y>>
    BY <1>1 DEF fb_init, fb_clear, Cleared
  <2>2. ShownCells' = [p \in (0..rows - 1) \X (0..cols - 1) |-> LooksEmpty(Paper)]
    BY <1>0, <2>1, ClearedCells, ShownIsCells DEF Grid
  <2>3. Screen!Start
    BY <2>1, <2>2, ColorFacts DEF Screen!Start, ShownCells
  <2>4. QED  BY <2>3 DEF Screen!Next
<1>2. CASE fb_putchar
  <2>0. UNCHANGED g_fb
    BY <1>2 DEF fb_putchar
  <2>1. CASE PutNowhere
    <3>1. UNCHANGED <<mem, cursor_x, cursor_y>>
      BY <2>1 DEF PutNowhere
    <3>2. UNCHANGED ShownCells
      BY <3>1, ShownIsCells
    <3>3. QED  BY <2>0, <3>1, <3>2 DEF Screen!screenVars, ShownCells
  <2>2. CASE g_fb /\ PutNewline(Paper)
    <3>1. NextLine(mem, Paper)
      BY <2>2 DEF PutNewline
    <3>2. PICK pic : pic = ShownCells
      OBVIOUS
    <3>3. Screen!NextLine(pic, Paper)
      BY <1>0, <2>2, <3>1, <3>2, ShownIsCells, NextLineImplements
    <3>4. Screen!NewLine(Paper)
      BY <3>2, <3>3 DEF Screen!NewLine, ShownCells
    <3>5. QED  BY <2>0, <2>2, <3>4, ColorFacts DEF Screen!Next
  <2>3. CASE g_fb /\ PutReturn
    <3>1. UNCHANGED mem /\ cursor_x' = 0 /\ UNCHANGED cursor_y
      BY <2>3 DEF PutReturn
    <3>2. UNCHANGED ShownCells
      BY <3>1, ShownIsCells
    <3>3. Screen!Return
      BY <3>1, <3>2 DEF Screen!Return, ShownCells
    <3>4. QED  BY <2>0, <2>3, <3>3 DEF Screen!Next
  <2>4. CASE g_fb /\ PutTab
    <3>1. UNCHANGED mem /\ cursor_x' = cursor_x + 4 /\ UNCHANGED cursor_y
      BY <2>4 DEF PutTab
    <3>2. UNCHANGED ShownCells
      BY <3>1, ShownIsCells
    <3>3. Screen!Tab
      BY <3>1, <3>2 DEF Screen!Tab, ShownCells
    <3>4. QED  BY <2>0, <2>4, <3>3 DEF Screen!Next
  <2>5. ASSUME g_fb, NEW c \in Chars, NEW fg \in Colors, PutGlyph(c, fg, Paper)
        PROVE  Screen!Next
    <3>1. Screen!PrintChar(c, fg, Paper)
      BY <1>0, <2>5, PutGlyphImplements DEF PaperInv
    <3>2. QED  BY <2>0, <2>5, <3>1, ColorFacts DEF Screen!Next
  <2>6. QED  BY <1>2, <2>1, <2>2, <2>3, <2>4, <2>5, Putting
<1>3. CASE Rest /\ UNCHANGED g_fb
  <2>1. UNCHANGED ShownCells
    BY <1>3, ShownIsCells DEF Rest
  <2>2. QED  BY <1>3, <2>1 DEF Rest, Screen!screenVars, ShownCells
<1>4. QED  BY <1>1, <1>2, <1>3 DEF Next, Rest, printk, klog

(* Cell by cell the picture in the framebuffer is the one a text screen    *)
(* would show, tabs and scrolling included, whatever the sizes of font and *)
(* frame and whatever the characters look like.                            *)
THEOREM ConsoleImplementsTextScreen == DefaultTheme => (Spec => ImplementsTextScreen)
<1> SUFFICES ASSUME DefaultTheme PROVE Spec => ImplementsTextScreen
  OBVIOUS
<1>1. Init => Screen!Init
  BY DEF Init, Screen!Init
<1>2. PaperInv /\ [Next]_vars => [Screen!Next]_(Screen!screenVars)
  <2> SUFFICES ASSUME PaperInv, [Next]_vars PROVE [Screen!Next]_(Screen!screenVars)
    OBVIOUS
  <2>1. CASE Next
    BY <2>1, StepImplements
  <2>2. CASE UNCHANGED vars
    <3>1. UNCHANGED <<g_fb, mem, cursor_x, cursor_y>>
      BY <2>2 DEF vars
    <3>2. UNCHANGED ShownCells
      BY <3>1, ShownIsCells
    <3>3. QED  BY <3>1, <3>2 DEF Screen!screenVars, ShownCells
  <2>3. QED  BY <2>1, <2>2
<1>3. Spec => []PaperInv
  BY PaperInvariance
<1>4. QED
  BY <1>1, <1>2, <1>3, PTL DEF Spec, ImplementsTextScreen, Screen!Spec
=============================================================================
