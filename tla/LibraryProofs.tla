---------------------------- MODULE LibraryProofs ---------------------------
(***************************************************************************)
(* Proofs about the functions of kernel/src/utils.                         *)
(*                                                                         *)
(* Formatted output, for every format, every argument list that fits it,   *)
(* every count and every memory: nothing is written at or behind count, a  *)
(* text that does not fit is cut as C cuts it, and %s reads as far as C    *)
(* lets it, but for one character behind a precision.                      *)
(*                                                                         *)
(* formatsize, for every size: the digits, the point and the unit.         *)
(*                                                                         *)
(* Every conversion, for every number, flags, width and precision: where   *)
(* its text is the one that C prescribes, and where it is not: a negative  *)
(* precision, which C takes as omitted, is one of these cases.  A number   *)
(* is its digits, last one first, with zeros and what stands in front of   *)
(* them (Back); the code keeps as much of one as its buffer takes.         *)
(*                                                                         *)
(* memset, memcpy and strlen, for bytes of every width, words of four and  *)
(* of eight, every memory and every alignment: they do what a byte at a    *)
(* time would.                                                             *)
(***************************************************************************)
EXTENDS Library, SequenceTheorems, WellFoundedInduction, TLAPS

LEMMA Numbers ==
  /\ PRINTF_NTOA_BUFFER_SIZE \in Nat \ {0} /\ LongBits \in Nat \ {0} /\ MemSize \in Nat
  /\ 2^CharBits \in Nat \ {0} /\ 2^ShortBits \in Nat \ {0}
  /\ 2^IntBits \in Nat \ {0} /\ 2^LongBits \in Nat \ {0} /\ SizeMax \in Nat
  BY PrintfAssumption DEF SizeMax

LEMMA Least ==
  ASSUME NEW S \in SUBSET Nat, S # {}
  PROVE  \E x \in S : \A y \in S : x <= y
<1>1. PICK x \in S : \A y \in S : ~(<<y, x>> \in OpToRel(<, Nat))
  BY WFMin, NatLessThanWellFounded
<1>2. \A y \in S : ~(y < x)
  BY <1>1 DEF OpToRel
<1>3. QED  BY <1>2
-----------------------------------------------------------------------------
(* Texts: arrays whose elements may be anything. *)

IsText(s) == Len(s) \in Nat /\ s = [i \in 1..Len(s) |-> s[i]]

LEMMA TextIsSeq ==
  ASSUME NEW s, IsText(s)
  PROVE  s \in Seq({s[i] : i \in 1..Len(s)}) /\ DOMAIN s = 1..Len(s)
  BY DEF IsText

LEMMA SeqIsText ==
  ASSUME NEW S, NEW s \in Seq(S)
  PROVE  IsText(s) /\ DOMAIN s = 1..Len(s)
  BY DEF IsText

LEMMA FunctionIsText ==
  ASSUME NEW n \in Nat, NEW s, DOMAIN s = 1..n, s = [i \in 1..n |-> s[i]]
  PROVE  IsText(s) /\ Len(s) = n
  BY DEF IsText

(* What the concatenation of two texts is. *)
Joins(u, s, t) ==
  /\ IsText(u) /\ Len(u) = Len(s) + Len(t)
  /\ \A i \in 1..Len(u) : u[i] = IF i <= Len(s) THEN s[i] ELSE t[i - Len(s)]

LEMMA Joined ==
  ASSUME NEW s, NEW t, IsText(s), IsText(t)
  PROVE  Joins(s \o t, s, t)
<1>1. PICK S : S = {s[i] : i \in 1..Len(s)} \cup {t[i] : i \in 1..Len(t)}
  OBVIOUS
<1>2. s \in Seq(S)
  BY <1>1 DEF IsText
<1>3. t \in Seq(S)
  BY <1>1 DEF IsText
<1>4. /\ s \o t \in Seq(S) /\ Len(s \o t) = Len(s) + Len(t)
      /\ \A i \in 1..Len(s) + Len(t) :
           (s \o t)[i] = IF i <= Len(s) THEN s[i] ELSE t[i - Len(s)]
  BY <1>2, <1>3, ConcatProperties
<1>5. IsText(s \o t)
  BY <1>4, SeqIsText
<1>6. QED  BY <1>4, <1>5 DEF Joins

LEMMA JoinIsText ==
  ASSUME NEW s, NEW t, IsText(s), IsText(t)
  PROVE  IsText(s \o t)
  BY Joined DEF Joins

LEMMA RepeatIsText ==
  ASSUME NEW c, NEW n \in Nat PROVE IsText(Repeat(c, n))
<1>1. PICK s : s = Repeat(c, n)
  OBVIOUS
<1>2. s = [i \in 1..n |-> c]
  BY <1>1 DEF Repeat
<1>3. DOMAIN s = 1..n /\ s = [i \in 1..n |-> s[i]]
  BY <1>2
<1>4. QED  BY <1>1, <1>3, FunctionIsText

LEMMA ReversedIsText ==
  ASSUME NEW s, IsText(s) PROVE IsText(Reversed(s))
<1>1. DOMAIN s = 1..Len(s) /\ Len(s) \in Nat
  BY TextIsSeq DEF IsText
<1>2. PICK r : r = Reversed(s)
  OBVIOUS
<1>3. r = [i \in 1..Len(s) |-> s[Len(s) + 1 - i]]
  BY <1>1, <1>2 DEF Reversed
<1>4. DOMAIN r = 1..Len(s) /\ r = [i \in 1..Len(s) |-> r[i]]
  BY <1>3
<1>5. QED  BY <1>1, <1>2, <1>4, FunctionIsText

LEMMA CutIsText ==
  ASSUME NEW s, IsText(s), NEW m \in 0..Len(s) PROVE IsText(SubSeq(s, 1, m))
<1>1. Len(s) \in Nat
  BY DEF IsText
<1>2. PICK r : r = SubSeq(s, 1, m)
  OBVIOUS
<1>3. s \in Seq({s[i] : i \in 1..Len(s)})
  BY TextIsSeq
<1>4. r \in Seq({s[i] : i \in 1..Len(s)})
  BY <1>1, <1>2, <1>3, SubSeqProperties
<1>5. QED  BY <1>2, <1>4, SeqIsText

LEMMA OneIsText == ASSUME NEW c PROVE IsText(<<c>>)
<1>1. <<c>> \in Seq({c})
  OBVIOUS
<1>2. QED  BY <1>1, SeqIsText

LEMMA AppendIsText ==
  ASSUME NEW s, IsText(s), NEW c PROVE IsText(AppendChar(s, c))
<1>1. PICK S : S = {s[i] : i \in 1..Len(s)} \cup {c}
  OBVIOUS
<1>2. s \in Seq(S)
  BY <1>1 DEF IsText
<1>3. c \in S
  BY <1>1
<1>4. Append(s, c) \in Seq(S)
  BY <1>2, <1>3
<1>5. IsText(Append(s, c))
  BY <1>4, SeqIsText
<1>6. QED  BY <1>5 DEF AppendChar
-----------------------------------------------------------------------------
(* Every conversion yields a text, for all widths and precisions. *)

LEMMA Bounds ==
  ASSUME NEW a \in Int, NEW b \in Int
  PROVE  /\ AtLeast(a, 0) \in Nat /\ AtMost(a, b) \in Int
         /\ AtLeast(AtMost(a, b) - b, 0) \in Nat
  BY DEF AtLeast, AtMost

LEMMA ZerosAreText ==
  ASSUME NEW buf, IsText(buf), NEW n \in Int
  PROVE  IsText(ZerosUpTo(buf, n))
<1>1. PICK k : k = AtLeast(AtMost(n, PRINTF_NTOA_BUFFER_SIZE) - Len(buf), 0)
  OBVIOUS
<1>2. k \in Nat
  BY Numbers, Bounds, <1>1 DEF IsText, AtLeast
<1>3. IsText(buf \o Repeat("0", k))
  BY <1>2, RepeatIsText, JoinIsText
<1>4. QED  BY <1>1, <1>3 DEF ZerosUpTo

LEMMA PaddedIsText ==
  ASSUME NEW buf, IsText(buf), NEW prec \in Int, NEW width \in Int, NEW flags
  PROVE  IsText(PadZeros(buf, prec, width, flags))
  BY ZerosAreText DEF PadZeros

LEMMA PrefixedIsText ==
  ASSUME NEW buf, IsText(buf), NEW base, NEW prec, NEW width, NEW flags
  PROVE  IsText(PutPrefix(buf, base, prec, width, flags))
<1> DEFINE n == Len(buf)
           cut == IF "PRECISION" \notin flags /\ n > 0 /\ n \in {prec, width}
                  THEN IF base = 16 /\ n > 1 THEN 2 ELSE 1
                  ELSE 0
           kept == SubSeq(buf, 1, n - cut)
           lettered == CASE base = 16 -> AppendChar(kept, IF "UPPERCASE" \in flags THEN "X" ELSE "x")
                         [] base = 2 -> AppendChar(kept, "b")
                         [] OTHER -> kept
<1>1. n - cut \in 0..Len(buf)
  BY DEF IsText
<1> HIDE DEF cut
<1>2. IsText(kept)
  BY <1>1, CutIsText
<1> HIDE DEF kept
<1>3. IsText(lettered)
  <2>1. \A c : IsText(AppendChar(kept, c))
    BY <1>2, AppendIsText
  <2>2. CASE base = 16
    BY <2>1, <2>2
  <2>3. CASE base = 2 /\ base # 16
    BY <2>1, <2>3
  <2>4. CASE base # 2 /\ base # 16
    BY <1>2, <2>4
  <2>5. QED  BY <2>2, <2>3, <2>4
<1> HIDE DEF lettered
<1>4. IsText(AppendChar(lettered, "0"))
  BY <1>3, AppendIsText
<1>5. PutPrefix(buf, base, prec, width, flags)
        = IF "HASH" \in flags THEN AppendChar(lettered, "0") ELSE buf
  BY DEF PutPrefix, lettered, kept, cut
<1>6. QED  BY <1>4, <1>5

LEMMA SignedIsText ==
  ASSUME NEW buf, IsText(buf), NEW negative \in BOOLEAN, NEW flags
  PROVE  IsText(PutSign(buf, negative, flags))
<1>1. IsText(AppendChar(buf, "-")) /\ IsText(AppendChar(buf, "+")) /\ IsText(AppendChar(buf, "SP"))
  BY AppendIsText
<1>2. CASE negative
  BY <1>1, <1>2 DEF PutSign
<1>3. CASE ~negative /\ "PLUS" \in flags
  BY <1>1, <1>3 DEF PutSign
<1>4. CASE ~negative /\ "PLUS" \notin flags /\ "SPACE" \in flags
  BY <1>1, <1>4 DEF PutSign
<1>5. CASE ~negative /\ "PLUS" \notin flags /\ "SPACE" \notin flags
  BY <1>1, <1>5 DEF PutSign
<1>6. QED  BY <1>2, <1>3, <1>4, <1>5

LEMMA WrittenOutIsText ==
  ASSUME NEW buf, IsText(buf), NEW width \in Int, NEW flags
  PROVE  IsText(out_rev(buf, width, flags))
<1>1. PICK k : k = Widening(Len(buf), width, flags)
  OBVIOUS
<1>2. k \in Nat
  BY <1>1 DEF Widening, AtLeast, IsText
<1>3. PICK front : front = Repeat("SP", k) \o Reversed(buf)
  OBVIOUS
<1>4. IsText(front)
  BY <1>2, RepeatIsText, ReversedIsText, <1>3, JoinIsText
<1>5. PICK l : l = AtLeast(width - Len(front), 0)
  OBVIOUS
<1>6. l \in Nat
  BY <1>4, <1>5 DEF AtLeast, IsText
<1>7. IsText(front \o Repeat("SP", l))
  BY <1>4, <1>6, RepeatIsText, JoinIsText
<1>8. out_rev(buf, width, flags)
        = IF "LEFT" \in flags THEN front \o Repeat("SP", l) ELSE front
  BY <1>1, <1>3, <1>5 DEF out_rev
<1>9. QED  BY <1>4, <1>7, <1>8

LEMMA FormattedIsText ==
  ASSUME NEW buf, IsText(buf), NEW negative \in BOOLEAN, NEW base,
         NEW prec \in Int, NEW width \in Int, NEW flags
  PROVE  IsText(ntoa_format(buf, negative, base, prec, width, flags))
<1> DEFINE narrowed == IF /\ "LEFT" \notin flags /\ "ZEROPAD" \in flags /\ width > 0
                          /\ negative \/ (flags \cap {"PLUS", "SPACE"} # {})
                       THEN width - 1 ELSE width
           padded == PadZeros(buf, prec, narrowed, flags)
           prefixed == PutPrefix(padded, base, prec, narrowed, flags)
           signed == PutSign(prefixed, negative, flags)
<1>1. narrowed \in Int
  OBVIOUS
<1> HIDE DEF narrowed
<1>2. IsText(padded)
  BY <1>1, PaddedIsText
<1> HIDE DEF padded
<1>3. IsText(prefixed)
  BY <1>2, PrefixedIsText
<1> HIDE DEF prefixed
<1>4. IsText(signed)
  BY <1>3, SignedIsText
<1> HIDE DEF signed
<1>5. IsText(out_rev(signed, narrowed, flags))
  BY <1>1, <1>4, WrittenOutIsText
<1>6. ntoa_format(buf, negative, base, prec, width, flags) = out_rev(signed, narrowed, flags)
  BY DEF ntoa_format, signed, prefixed, padded, narrowed
<1>7. QED  BY <1>5, <1>6

(* The loop over the digits ends when none is left or the buffer is full. *)
LEMMA DigitsAreText ==
  ASSUME NEW value, NEW base, NEW flags
  PROVE  IsText(DigitsReversed(value, base, flags))
<1> DEFINE Last(n) == n = PRINTF_NTOA_BUFFER_SIZE \/ value \div base^n = 0
           Count(n) == /\ Last(n)
                       /\ \A k \in 1..n - 1 : value \div base^k # 0
           S == {n \in 1..PRINTF_NTOA_BUFFER_SIZE : Last(n)}
           n == CHOOSE n \in 1..PRINTF_NTOA_BUFFER_SIZE : Count(n)
           digit == IF "UPPERCASE" \in flags THEN UpperHex ELSE LowerHex
<1>1. \E m \in 1..PRINTF_NTOA_BUFFER_SIZE : Count(m)
  <2>1. S \in SUBSET Nat /\ PRINTF_NTOA_BUFFER_SIZE \in S
    BY Numbers
  <2>2. PICK m \in S : \A k \in S : m <= k
    <3> HIDE DEF S
    <3>1. QED  BY <2>1, Least
  <2>3. m \in 1..PRINTF_NTOA_BUFFER_SIZE /\ Last(m)
    OBVIOUS
  <2>4. ASSUME NEW k \in 1..m - 1 PROVE value \div base^k # 0
    <3>1. k \in 1..PRINTF_NTOA_BUFFER_SIZE /\ ~(m <= k)
      BY <2>3, Numbers
    <3>2. k \notin S
      <4> HIDE DEF S
      <4>1. QED  BY <2>2, <3>1
    <3>3. QED  BY <3>1, <3>2
  <2>5. QED  BY <2>3, <2>4
<1>2. n \in 1..PRINTF_NTOA_BUFFER_SIZE
  <2> HIDE DEF Count
  <2>1. QED  BY <1>1
<1>3. PICK s : s = DigitsReversed(value, base, flags)
  OBVIOUS
<1>4. s = [i \in 1..n |-> digit[((value \div base^(i - 1)) % base) + 1]]
  BY <1>3 DEF DigitsReversed
<1> HIDE DEF n, digit
<1>5. n \in Nat /\ DOMAIN s = 1..n /\ s = [i \in 1..n |-> s[i]]
  BY <1>2, <1>4, Numbers
<1>6. QED  BY <1>3, <1>5, FunctionIsText

LEMMA NumberIsText ==
  ASSUME NEW value, NEW negative \in BOOLEAN, NEW base,
         NEW prec \in Int, NEW width \in Int, NEW flags
  PROVE  /\ IsText(ntoa_long(value, negative, base, prec, width, flags))
         /\ IsText(ntoa_long_long(value, negative, base, prec, width, flags))
<1>1. PICK buf : buf = IF "PRECISION" \in flags /\ value = 0 THEN << >>
                       ELSE DigitsReversed(value, base, flags)
  OBVIOUS
<1>2. IsText(<< >>)
  BY SeqIsText, << >> \in Seq({0})
<1>3. IsText(buf)
  BY <1>1, <1>2, DigitsAreText
<1>4. PICK f : f = IF value = 0 THEN flags \ {"HASH"} ELSE flags
  OBVIOUS
<1>5. IsText(ntoa_format(buf, negative, base, prec, width, f))
  BY <1>3, FormattedIsText
<1>6. ntoa_long(value, negative, base, prec, width, flags)
        = ntoa_format(buf, negative, base, prec, width, f)
  BY <1>1, <1>4 DEF ntoa_long
<1>7. QED  BY <1>5, <1>6 DEF ntoa_long_long

LEMMA IntegerIsText ==
  ASSUME NEW d, d.width \in Int, d.prec \in Int, NEW arg \in Int
  PROVE  IsText(IntegerText(d, arg))
<1> DEFINE bits == BitsOf(d.flags)
           v == IF d.spec \in {"d", "i"} THEN Signed(arg, bits) ELSE Unsigned(arg, bits)
           m == Magnitude(v, bits)
<1>1. 2^bits \in Nat \ {0}
  BY Numbers DEF BitsOf
<1>2. v \in Int
  <2>1. PICK k \in Nat \ {0} : k = 2^bits
    BY <1>1
  <2>2. arg % k \in Int /\ (arg % k) - k \in Int
    OBVIOUS
  <2>3. Unsigned(arg, bits) \in Int /\ Signed(arg, bits) \in Int
    BY <2>1, <2>2 DEF Unsigned, Signed
  <2>4. QED  BY <2>3
<1>3. IntegerText(d, arg) =
        IF "LONG_LONG" \in d.flags
        THEN ntoa_long_long(m, v < 0, Base(d.spec), d.prec, d.width, IntegerFlags(d))
        ELSE ntoa_long(m, v < 0, Base(d.spec), d.prec, d.width, IntegerFlags(d))
  BY DEF IntegerText
<1> HIDE DEF m, v
<1>4. (v < 0) \in BOOLEAN
  BY <1>2
<1>5. PICK negative \in BOOLEAN : negative = (v < 0)
  BY <1>4
<1>6. PICK prec \in Int, width \in Int : prec = d.prec /\ width = d.width
  OBVIOUS
<1>7. PICK base, flags : base = Base(d.spec) /\ flags = IntegerFlags(d)
  OBVIOUS
<1>8. /\ IsText(ntoa_long(m, negative, base, prec, width, flags))
      /\ IsText(ntoa_long_long(m, negative, base, prec, width, flags))
  BY NumberIsText
<1>9. QED  BY <1>3, <1>5, <1>6, <1>7, <1>8

LEMMA PointerIsText ==
  ASSUME NEW d, d.prec \in Int, NEW arg
  PROVE  IsText(PointerText(d, arg))
<1>1. LongBits \div 4 \in Int
  BY Numbers
<1>2. IsText(ntoa_long_long(Unsigned(arg, LongBits), FALSE, 16, d.prec, LongBits \div 4,
                            d.flags \cup {"ZEROPAD", "UPPERCASE"}))
  BY <1>1, NumberIsText
<1>3. QED  BY <1>2 DEF PointerText

LEMMA JustifiedIsText ==
  ASSUME NEW text, IsText(text), NEW d, d.width \in Int
  PROVE  IsText(Justified(text, d))
<1>1. PICK k : k = AtLeast(d.width - Len(text), 0)
  OBVIOUS
<1>2. k \in Nat
  BY <1>1 DEF AtLeast, IsText
<1>3. IsText(Repeat("SP", k))
  BY <1>2, RepeatIsText
<1>4. IsText(text \o Repeat("SP", k)) /\ IsText(Repeat("SP", k) \o text)
  BY <1>3, JoinIsText
<1>5. QED  BY <1>1, <1>4 DEF Justified

(* What the definition of CharsRead asks for. *)
StopsAt(f, p, maxsize) ==
  f = [k \in 1..Len(p) + 1 |-> IF GoesOn(p, k, maxsize) THEN f[k + 1] ELSE k]

(* The loop that is at character k goes on to e. *)
RunsTo(p, maxsize, k, e) ==
  /\ e \in k..Len(p) + 1 /\ ~GoesOn(p, e, maxsize)
  /\ \A i \in k..e - 1 : GoesOn(p, i, maxsize)

LEMMA RunsSomewhere ==
  ASSUME NEW p, IsText(p), NEW maxsize, NEW k \in 1..Len(p) + 1
  PROVE  \E e \in 1..Len(p) + 1 : RunsTo(p, maxsize, k, e)
<1>1. PICK n \in Nat : n = Len(p)
  BY DEF IsText
<1> DEFINE S == {i \in k..n + 1 : ~GoesOn(p, i, maxsize)}
<1>2. S \in SUBSET Nat
  BY <1>1
<1>3. n + 1 \in S
  BY <1>1 DEF GoesOn
<1>4. PICK e \in S : \A i \in S : e <= i
  <2> HIDE DEF S
  <2>1. QED  BY <1>2, <1>3, Least
<1>5. e \in k..n + 1 /\ ~GoesOn(p, e, maxsize)
  OBVIOUS
<1>6. ASSUME NEW i \in k..e - 1 PROVE GoesOn(p, i, maxsize)
  BY <1>1, <1>5, <1>4
<1>7. e \in 1..n + 1
  BY <1>1, <1>5
<1>8. QED  BY <1>1, <1>5, <1>6, <1>7 DEF RunsTo

LEMMA RunsOneWay ==
  ASSUME NEW p, NEW maxsize, NEW k \in Nat, NEW a, RunsTo(p, maxsize, k, a),
         NEW b, RunsTo(p, maxsize, k, b), a \in Nat, b \in Nat
  PROVE  ~(a < b)
<1> SUFFICES ASSUME a < b PROVE FALSE
  OBVIOUS
<1>1. k <= a /\ ~GoesOn(p, a, maxsize) /\ \A i \in k..b - 1 : GoesOn(p, i, maxsize)
  BY DEF RunsTo
<1>2. a \in k..b - 1
  BY <1>1
<1>3. QED  BY <1>1, <1>2

LEMMA StopExists ==
  ASSUME NEW p, IsText(p), NEW maxsize
  PROVE  \E f : StopsAt(f, p, maxsize)
<1>1. PICK n \in Nat : n = Len(p)
  BY DEF IsText
<1>2. PICK f : f = [k \in 1..n + 1 |-> CHOOSE e \in 1..n + 1 : RunsTo(p, maxsize, k, e)]
  OBVIOUS
<1>3. ASSUME NEW k \in 1..n + 1 PROVE f[k] \in 1..n + 1 /\ RunsTo(p, maxsize, k, f[k])
  BY <1>1, RunsSomewhere, <1>2
<1>4. ASSUME NEW k \in 1..n + 1
      PROVE  f[k] = IF GoesOn(p, k, maxsize) THEN f[k + 1] ELSE k
  <2>1. CASE ~GoesOn(p, k, maxsize)
    <3>1. RunsTo(p, maxsize, k, k)
      BY <1>1, <2>1 DEF RunsTo
    <3>2. PICK e \in 1..n + 1 : e = f[k] /\ RunsTo(p, maxsize, k, e)
      BY <1>3
    <3>3. ~(e < k) /\ ~(k < e)
      BY <3>1, <3>2, RunsOneWay
    <3>4. QED  BY <2>1, <3>2, <3>3
  <2>2. CASE GoesOn(p, k, maxsize)
    <3>1. k \in 1..n /\ k + 1 \in 1..n + 1
      BY <1>1, <2>2 DEF GoesOn
    <3>2. PICK e \in 1..n + 1 : e = f[k] /\ RunsTo(p, maxsize, k, e)
      BY <1>3
    <3>3. PICK h \in 1..n + 1 : h = f[k + 1] /\ RunsTo(p, maxsize, k + 1, h)
      BY <1>3, <3>1
    <3>4. RunsTo(p, maxsize, k, h)
      BY <1>1, <3>3, <3>1, <2>2 DEF RunsTo
    <3>5. ~(e < h) /\ ~(h < e)
      BY <3>1, <3>2, <3>4, RunsOneWay
    <3>6. QED  BY <2>2, <3>2, <3>3, <3>5
  <2>3. QED  BY <2>1, <2>2
<1>5. f = [k \in 1..n + 1 |-> IF GoesOn(p, k, maxsize) THEN f[k + 1] ELSE k]
  <2>1. PICK g : g = [k \in 1..n + 1 |-> IF GoesOn(p, k, maxsize) THEN f[k + 1] ELSE k]
    OBVIOUS
  <2>2. \A k \in 1..n + 1 : f[k] = g[k]
    BY <1>4, <2>1
  <2>3. f = [k \in 1..n + 1 |-> f[k]] /\ g = [k \in 1..n + 1 |-> g[k]]
    BY <1>2, <2>1
  <2>4. f = g
    BY <2>2, <2>3
  <2>5. QED  BY <2>1, <2>4
<1>6. QED  BY <1>1, <1>5 DEF StopsAt

(* The loop of _strnlen_s, and that of the copy, end at the first NUL or   *)
(* behind maxsize characters, whichever comes first.                       *)
LEMMA LoopEnds ==
  ASSUME NEW p, IsText(p), NEW maxsize
  PROVE  CharsRead(p, maxsize) \in Nat /\ RunsTo(p, maxsize, 1, CharsRead(p, maxsize))
<1> DEFINE P(f) == StopsAt(f, p, maxsize)
<1>1. PICK f : f = CHOOSE e : P(e)
  OBVIOUS
<1>2. P(f)
  <2>1. \E e : P(e)
    BY StopExists
  <2> HIDE DEF P
  <2>2. QED  BY <1>1, <2>1
<1>3. CharsRead(p, maxsize) = f[1]
  BY <1>1 DEF CharsRead, StopsAt
<1>4. PICK n \in Nat : n = Len(p)
  BY DEF IsText
<1>5. \A k \in 1..n + 1 : f[k] = IF GoesOn(p, k, maxsize) THEN f[k + 1] ELSE k
  BY <1>2, <1>4 DEF StopsAt
<1>6. PICK e \in 1..n + 1 : RunsTo(p, maxsize, 1, e)
  BY <1>4, RunsSomewhere
<1>7. ~GoesOn(p, e, maxsize) /\ \A i \in 1..e - 1 : GoesOn(p, i, maxsize)
  BY <1>6 DEF RunsTo
<1> DEFINE T == {j \in 0..e - 1 : f[e - j] # e}
<1>8. T = {}
  <2> SUFFICES ASSUME T # {} PROVE FALSE
    OBVIOUS
  <2>1. PICK j \in T : \A i \in T : j <= i
    <3>1. T \in SUBSET Nat
      OBVIOUS
    <3> HIDE DEF T
    <3>2. QED  BY <3>1, Least
  <2>2. j \in 0..e - 1 /\ f[e - j] # e
    OBVIOUS
  <2>3. j # 0
    BY <1>5, <1>7, <2>2
  <2>4. j - 1 \in 0..e - 1 /\ j - 1 \notin T
    BY <2>1, <2>2, <2>3
  <2>5. f[e - (j - 1)] = e
    BY <2>4
  <2>6. e - j \in 1..e - 1 /\ e - j \in 1..n + 1 /\ e - (j - 1) = (e - j) + 1
    BY <2>2, <2>3
  <2>7. f[e - j] = f[(e - j) + 1]
    BY <1>5, <1>7, <2>6
  <2>8. QED  BY <2>2, <2>5, <2>6, <2>7
<1>9. e - 1 \in 0..e - 1 /\ e - (e - 1) = 1
  OBVIOUS
<1>10. f[1] = e
  BY <1>8, <1>9
<1>11. QED  BY <1>3, <1>6, <1>10

LEMMA StringShape ==
  ASSUME NEW limit \in Nat, NEW p, IsString(p, limit)
  PROVE  /\ IsText(p) /\ Len(p) \in Nat /\ Len(p) <= SizeMax
         /\ (\E k \in 1..Len(p) : p[k] = "NUL") \/ (limit # 0 /\ limit <= Len(p))
  BY SeqIsText DEF IsString

LEMMA CharsReadFacts ==
  ASSUME NEW p, IsText(p), NEW maxsize \in Nat,
         (\E k \in 1..Len(p) : p[k] = "NUL") \/ maxsize <= Len(p)
  PROVE  /\ CharsRead(p, maxsize) \in 1..Len(p) + 1
         /\ \/ CharsRead(p, maxsize) = maxsize + 1
            \/ CharsRead(p, maxsize) \in 1..Len(p) /\ p[CharsRead(p, maxsize)] = "NUL"
         /\ \A k \in 1..CharsRead(p, maxsize) - 1 : p[k] # "NUL" /\ k <= maxsize
<1>1. PICK n \in Nat : n = Len(p)
  BY DEF IsText
<1>2. PICK e \in Nat : e = CharsRead(p, maxsize) /\ RunsTo(p, maxsize, 1, e)
  BY LoopEnds
<1>3. /\ e \in 1..n + 1 /\ (e <= n => p[e] = "NUL" \/ ~(e <= maxsize))
      /\ \A k \in 1..e - 1 : p[k] # "NUL" /\ k <= maxsize
  BY <1>1, <1>2 DEF RunsTo, GoesOn
<1>4. e <= maxsize + 1
  <2>1. CASE e = 1
    BY <2>1
  <2>2. CASE e # 1
    BY <1>3, <2>2
  <2>3. QED  BY <2>1, <2>2
<1>5. e = maxsize + 1 \/ (e \in 1..n /\ p[e] = "NUL")
  <2>1. CASE e <= n
    BY <1>3, <1>4, <2>1
  <2>2. CASE e = n + 1
    BY <1>3, <2>2, <1>1, <1>4
  <2>3. QED  BY <1>3, <2>1, <2>2
<1>6. QED  BY <1>1, <1>2, <1>3, <1>5

(* The place of the first NUL. *)
EndsWith(p, c) == p[c] = "NUL" /\ \A k \in 1..c - 1 : p[k] # "NUL"

(* How far the length is counted: to the NUL, and no more than one behind  *)
(* a precision that is not zero.                                           *)
LEMMA LengthReads ==
  ASSUME NEW d, d.prec \in Nat, NEW p, IsString(p, d.prec), NEW c, c = CharsRead(p, LengthLimit(d))
  PROVE  /\ c \in 1..Len(p) + 1
         /\ (d.prec # 0 /\ c = d.prec + 1) \/ EndsWith(p, c)
         /\ \A k \in 1..c - 1 : p[k] # "NUL" /\ (d.prec # 0 => k <= d.prec)
<1>1. PICK prec \in Nat : prec = d.prec
  OBVIOUS
<1>2. PICK n \in Nat : n = Len(p) /\ n <= SizeMax
  BY <1>1, StringShape
<1>3. IsText(p) /\ ((\E k \in 1..n : p[k] = "NUL") \/ (prec # 0 /\ prec <= n))
  BY <1>1, <1>2, StringShape
<1>4. PICK limit \in Nat : limit = LengthLimit(d) /\ limit = IF prec # 0 THEN prec ELSE SizeMax
  BY <1>1, Numbers DEF LengthLimit
<1>5. (\E k \in 1..n : p[k] = "NUL") \/ limit <= n
  BY <1>3, <1>4
<1>6. /\ c \in 1..n + 1 /\ (c = limit + 1 \/ (c \in 1..n /\ p[c] = "NUL"))
      /\ \A k \in 1..c - 1 : p[k] # "NUL" /\ k <= limit
  BY <1>2, <1>3, <1>4, <1>5, CharsReadFacts
<1>7. (prec # 0 /\ c = prec + 1) \/ EndsWith(p, c)
  <2>1. CASE p[c] = "NUL"
    BY <1>6, <2>1 DEF EndsWith
  <2>2. CASE p[c] # "NUL"
    <3>1. c = limit + 1
      BY <1>6, <2>2
    <3>2. CASE prec # 0
      BY <1>4, <3>1, <3>2
    <3>3. CASE prec = 0
      BY <1>3, <1>4, <3>3, <1>2, <1>6, <3>1
    <3>4. QED  BY <3>2, <3>3
  <2>3. QED  BY <2>1, <2>2
<1>8. \A k \in 1..c - 1 : p[k] # "NUL" /\ (prec # 0 => k <= prec)
  BY <1>4, <1>6
<1>9. QED  BY <1>1, <1>2, <1>6, <1>7, <1>8

LEMMA StringIsText ==
  ASSUME NEW d, d.width \in Int, d.prec \in Nat, NEW p, IsString(p, d.prec)
  PROVE  IsText(StringText(d, p))
<1>1. PICK prec \in Nat : prec = d.prec
  OBVIOUS
<1>2. PICK l : l = strnlen_s(p, LengthLimit(d))
  OBVIOUS
<1>3. IsText(p) /\ CharsRead(p, LengthLimit(d)) \in 1..Len(p) + 1
  BY <1>1, LengthReads, StringShape
<1>4. l \in 0..Len(p)
  BY <1>2, <1>3 DEF strnlen_s, IsText
<1>5. PICK k : k = IF "PRECISION" \in d.flags THEN AtMost(l, prec) ELSE l
  OBVIOUS
<1>6. k \in 0..Len(p)
  BY <1>3, <1>4, <1>5 DEF AtMost, IsText
<1>7. IsText(SubSeq(p, 1, k))
  BY <1>3, <1>6, CutIsText
<1>8. IsText(Justified(SubSeq(p, 1, k), d))
  BY <1>7, JustifiedIsText
<1>9. QED  BY <1>1, <1>2, <1>5, <1>8 DEF StringText
-----------------------------------------------------------------------------
(* Reading a directive. *)

LEMMA FormatFacts ==
  ASSUME call \in Calls
  PROVE  /\ Len(Format) \in Nat \ {0} /\ DOMAIN Format = 1..Len(Format)
         /\ Format[Len(Format)] = "NUL"
         /\ IsText(call.va)
<1>1. PICK f : f = Format
  OBVIOUS
<1>2. f \in Seq(STRING) /\ f # << >> /\ f[Len(f)] = "NUL"
  BY <1>1, PrintfAssumption DEF Format
<1>3. Len(f) \in Nat \ {0} /\ DOMAIN f = 1..Len(f)
  BY <1>2
<1>4. IsText(call.va)
  BY PrintfAssumption DEF IsText
<1>5. QED  BY <1>1, <1>2, <1>3, <1>4

LEMMA SkipFacts ==
  ASSUME call \in Calls, NEW i \in 1..Len(Format), NEW S, "NUL" \notin S
  PROVE  /\ SkipAll(i, S) \in i..Len(Format) /\ Format[SkipAll(i, S)] \notin S
         /\ \A k \in i..SkipAll(i, S) - 1 : Format[k] \in S
<1> DEFINE Ends(j) == Format[j] \notin S /\ \A k \in i..j - 1 : Format[k] \in S
           T == {j \in i..Len(Format) : Format[j] \notin S}
<1>1. \E j \in i..Len(Format) : Ends(j)
  <2>1. T \in SUBSET Nat /\ Len(Format) \in T
    BY FormatFacts
  <2>2. PICK j \in T : \A k \in T : j <= k
    <3> HIDE DEF T
    <3>1. QED  BY <2>1, Least
  <2>3. j \in i..Len(Format) /\ Format[j] \notin S
    OBVIOUS
  <2>4. ASSUME NEW k \in i..j - 1 PROVE Format[k] \in S
    <3>1. k \in i..Len(Format) /\ ~(j <= k)
      BY <2>3, FormatFacts
    <3>2. k \notin T
      <4> HIDE DEF T
      <4>1. QED  BY <2>2, <3>1
    <3>3. QED  BY <3>1, <3>2
  <2>5. QED  BY <2>3, <2>4
<1>2. SkipAll(i, S) = CHOOSE j \in i..Len(Format) : Ends(j)
  BY DEF SkipAll
<1>3. Ends(SkipAll(i, S)) /\ SkipAll(i, S) \in i..Len(Format)
  <2> DEFINE C == CHOOSE j \in i..Len(Format) : Ends(j)
  <2>1. Ends(C) /\ C \in i..Len(Format)
    <3> HIDE DEF Ends
    <3>1. QED  BY <1>1
  <2> HIDE DEF Ends
  <2>2. QED  BY <1>2, <2>1
<1>4. QED  BY <1>3

LEMMA DigitFacts ==
  ASSUME NEW c \in IsDigit PROVE DigitValue(c) \in Nat
<1>1. PICK i \in 1..10 : Decimal[i] = c
  BY DEF IsDigit
<1>2. PICK x : x = CHOOSE k \in 1..10 : Decimal[k] = c
  OBVIOUS
<1>3. x \in 1..10
  BY <1>1, <1>2
<1>4. DigitValue(c) = x - 1
  BY <1>2 DEF DigitValue
<1>5. QED  BY <1>3, <1>4

(* What the definition of atoi asks for, on the characters up to n. *)
ValueTo(n, f, i) ==
  f = [k \in i - 1..n |->
         IF k < i THEN 0 ELSE (f[k - 1] * 10 + DigitValue(Format[k])) % 2^IntBits]

LEMMA ValueExists ==
  ASSUME NEW i \in Nat \ {0}, NEW j \in Nat, i <= j
  PROVE  \E f : ValueTo(j - 1, f, i)
<1> DEFINE S == {n \in i - 1..j - 1 : ~ \E f : ValueTo(n, f, i)}
<1>1. S = {}
  <2> SUFFICES ASSUME S # {} PROVE FALSE
    OBVIOUS
  <2>1. S \in SUBSET Nat
    OBVIOUS
  <2>2. PICK n \in S : \A y \in S : n <= y
    BY <2>1, Least
  <2>3. n \in i - 1..j - 1 /\ n \in Nat /\ ~ \E f : ValueTo(n, f, i)
    BY <2>1
  <2>4. n # i - 1
    <3> DEFINE f == [k \in i - 1..i - 1 |-> 0]
    <3>1. ValueTo(i - 1, f, i)
      BY DEF ValueTo
    <3>2. QED  BY <3>1, <2>3
  <2>5. n - 1 \in i - 1..j - 1 /\ n - 1 \notin S
    BY <2>2, <2>3, <2>4
  <2>6. PICK f : ValueTo(n - 1, f, i)
    BY <2>5
  <2> DEFINE next == (f[n - 1] * 10 + DigitValue(Format[n])) % 2^IntBits
             g == [k \in i - 1..n |-> IF k = n THEN next ELSE f[k]]
  <2>7. \A k \in i - 1..n - 1 : f[k] =
          IF k < i THEN 0 ELSE (f[k - 1] * 10 + DigitValue(Format[k])) % 2^IntBits
    BY <2>6 DEF ValueTo
  <2>8. g[n] = next /\ \A k \in i - 1..n - 1 : g[k] = f[k]
    BY <2>3, <2>4
  <2> HIDE DEF next
  <2>9. \A k \in i - 1..n : g[k] =
          IF k < i THEN 0 ELSE (g[k - 1] * 10 + DigitValue(Format[k])) % 2^IntBits
    <3> HIDE DEF g
    <3> TAKE k \in i - 1..n
    <3>1. CASE k = n
      BY <2>3, <2>4, <2>8, <3>1 DEF next
    <3>2. CASE k # n
      BY <3>2, <2>3, <2>8, <2>7
    <3>3. QED  BY <3>1, <3>2
  <2> DEFINE rest == [k \in i - 1..n |->
         IF k < i THEN 0 ELSE (g[k - 1] * 10 + DigitValue(Format[k])) % 2^IntBits]
  <2>10. g = rest
    <3>1. \A k \in i - 1..n : g[k] = rest[k]
      BY <2>9
    <3>2. g = [k \in i - 1..n |-> g[k]] /\ rest = [k \in i - 1..n |-> rest[k]]
      OBVIOUS
    <3> HIDE DEF g, rest
    <3>3. QED  BY <3>1, <3>2
  <2>11. ValueTo(n, g, i)
    <3> HIDE DEF g
    <3>1. QED  BY <2>10 DEF ValueTo
  <2>12. QED  BY <2>11, <2>3
<1>2. j - 1 \in i - 1..j - 1
  OBVIOUS
<1>3. QED  BY <1>1, <1>2

LEMMA AtoiFacts ==
  ASSUME NEW i \in Nat \ {0}, NEW j \in Nat, i <= j,
         \A k \in i..j - 1 : Format[k] \in IsDigit
  PROVE  atoi(i, j) \in Nat
<1> DEFINE P(f) == ValueTo(j - 1, f, i)
<1>1. PICK f : f = CHOOSE e : P(e)
  OBVIOUS
<1>2. P(f)
  <2>1. \E e : P(e)
    BY ValueExists
  <2> HIDE DEF P
  <2>2. QED  BY <1>1, <2>1
<1>3. atoi(i, j) = f[j - 1]
  BY <1>1 DEF atoi, ValueTo
<1>4. \A k \in i - 1..j - 1 : f[k] =
        IF k < i THEN 0 ELSE (f[k - 1] * 10 + DigitValue(Format[k])) % 2^IntBits
  BY <1>2 DEF ValueTo
<1> DEFINE S == {n \in i - 1..j - 1 : f[n] \notin Nat}
<1>5. S = {}
  <2> SUFFICES ASSUME S # {} PROVE FALSE
    OBVIOUS
  <2>1. S \in SUBSET Nat
    OBVIOUS
  <2>2. PICK n \in S : \A y \in S : n <= y
    BY <2>1, Least
  <2>3. n \in i - 1..j - 1 /\ n \in Nat /\ f[n] \notin Nat
    BY <2>1
  <2>4. ~(n < i)
    BY <1>4, <2>3
  <2>5. n - 1 \in i - 1..j - 1 /\ n - 1 \notin S /\ n \in i..j - 1
    BY <2>2, <2>3, <2>4
  <2>6. f[n - 1] \in Nat
    BY <2>5
  <2>7. PICK w \in Nat \ {0} : w = 2^IntBits
    BY Numbers
  <2>8. PICK x \in Nat : x = f[n - 1] * 10 + DigitValue(Format[n])
    BY <2>5, DigitFacts, <2>6
  <2>9. f[n] = x % w
    BY <1>4, <2>3, <2>4, <2>7, <2>8
  <2>10. x % w \in Nat
    OBVIOUS
  <2>11. QED  BY <2>3, <2>9, <2>10
<1>6. j - 1 \in i - 1..j - 1
  OBVIOUS
<1>7. f[j - 1] \in Nat
  BY <1>5, <1>6
<1>8. QED  BY <1>3, <1>7

(* What a directive turns out to be. *)
DirectiveOK(d) ==
  /\ d.width \in Nat /\ d.prec \in Nat
  /\ d.at \in pos + 1..Len(Format) /\ d.spec = Format[d.at]
  /\ IsText(d.args) /\ Len(d.args) <= Len(va)

LEMMA TailFacts ==
  ASSUME NEW s, IsText(s), s # << >>
  PROVE  IsText(Tail(s)) /\ Len(Tail(s)) = Len(s) - 1 /\ Len(s) \in Nat \ {0} /\ Tail(s) # s
<1>1. PICK S : s \in Seq(S)
  BY TextIsSeq
<1>2. Tail(s) \in Seq(S) /\ Len(Tail(s)) = Len(s) - 1 /\ Len(s) \in Nat \ {0}
  BY <1>1
<1>3. IsText(Tail(s))
  BY <1>2, SeqIsText
<1>4. Len(Tail(s)) # Len(s)
  <2>1. PICK n \in Nat \ {0} : n = Len(s)
    BY <1>2
  <2>2. n - 1 # n
    OBVIOUS
  <2>3. QED  BY <1>2, <2>1, <2>2
<1>5. QED  BY <1>2, <1>3, <1>4

LEMMA SignedArgument ==
  ASSUME NEW n \in Int
  PROVE  /\ Signed(n, IntBits) \in Int
         /\ (IF Signed(n, IntBits) < 0 THEN -Signed(n, IntBits) ELSE Signed(n, IntBits)) \in Nat
         /\ AtLeast(Signed(n, IntBits), 0) \in Nat
<1>1. PICK k \in Nat \ {0} : k = 2^IntBits
  BY Numbers
<1>2. n % k \in Int /\ (n % k) - k \in Int
  OBVIOUS
<1>3. PICK v : v = Signed(n, IntBits)
  OBVIOUS
<1>4. v \in Int
  BY <1>1, <1>2, <1>3 DEF Signed
<1>5. (IF v < 0 THEN -v ELSE v) \in Nat /\ AtLeast(v, 0) \in Nat
  BY <1>4 DEF AtLeast
<1>6. QED  BY <1>3, <1>4, <1>5

(* A field is read from i on, and takes arguments of args. *)
FieldOK(f, i, args) ==
  /\ f.n \in Nat /\ f.next \in i..Len(Format)
  /\ IsText(f.args) /\ Len(f.args) <= Len(args)

LEMMA WidthFacts ==
  ASSUME call \in Calls, NEW i \in 1..Len(Format), NEW args, IsText(args),
         Format[i] = "*" => args # << >> /\ args[1] \in Int
  PROVE  FieldOK(WidthField(i, args), i, args)
<1>1. CASE Format[i] = "*"
  <2>1. PICK w : w = Signed(args[1], IntBits)
    OBVIOUS
  <2>2. PICK n \in Nat : n = IF w < 0 THEN -w ELSE w
    BY <1>1, <2>1, SignedArgument
  <2>3. i + 1 \in i..Len(Format)
    BY <1>1, FormatFacts
  <2>4. WidthField(i, args) =
          [n |-> n, next |-> i + 1, args |-> Tail(args),
           flags |-> IF w < 0 THEN {"LEFT"} ELSE {}]
    BY <1>1, <2>1, <2>2 DEF WidthField
  <2>5. IsText(Tail(args)) /\ Len(Tail(args)) <= Len(args)
    BY <1>1, TailFacts
  <2>6. QED  BY <2>3, <2>4, <2>5 DEF FieldOK
<1>2. CASE Format[i] # "*"
  <2>1. PICK j : j = SkipAll(i, IsDigit)
    OBVIOUS
  <2>2. j \in i..Len(Format) /\ \A k \in i..j - 1 : Format[k] \in IsDigit
    BY <2>1, SkipFacts DEF IsDigit, Decimal
  <2>3. i \in Nat \ {0} /\ j \in Nat /\ i <= j
    BY <2>2, FormatFacts
  <2>4. PICK n \in Nat : n = atoi(i, j)
    BY <2>2, <2>3, AtoiFacts
  <2>5. WidthField(i, args) = [n |-> n, next |-> j, args |-> args, flags |-> {}]
    BY <1>2, <2>1, <2>4 DEF WidthField
  <2>6. Len(args) <= Len(args)
    BY DEF IsText
  <2>7. QED  BY <2>2, <2>5, <2>6 DEF FieldOK
<1>3. QED  BY <1>1, <1>2

LEMMA PrecisionFacts ==
  ASSUME call \in Calls, NEW i \in 1..Len(Format), NEW args, IsText(args),
         Format[i] = "." /\ Format[i + 1] = "*" => args # << >> /\ args[1] \in Int
  PROVE  FieldOK(PrecisionField(i, args), i, args)
<1>1. Len(args) <= Len(args) /\ i \in i..Len(Format)
  BY FormatFacts DEF IsText
<1>2. CASE Format[i] # "."
  BY <1>2, <1>1 DEF PrecisionField, FieldOK
<1>3. CASE Format[i] = "." /\ Format[i + 1] = "*"
  <2>1. PICK n \in Nat : n = AtLeast(Signed(args[1], IntBits), 0)
    BY <1>3, SignedArgument
  <2>2. i + 2 \in i..Len(Format)
    BY <1>3, FormatFacts
  <2>3. PrecisionField(i, args) =
          [n |-> n, next |-> i + 2, args |-> Tail(args), flags |-> {"PRECISION"}]
    BY <1>3, <2>1 DEF PrecisionField
  <2>4. IsText(Tail(args)) /\ Len(Tail(args)) <= Len(args)
    BY <1>3, TailFacts
  <2>5. QED  BY <2>2, <2>3, <2>4 DEF FieldOK
<1>4. CASE Format[i] = "." /\ Format[i + 1] # "*"
  <2>1. i + 1 \in 1..Len(Format)
    BY <1>4, FormatFacts
  <2>2. PICK j : j = SkipAll(i + 1, IsDigit)
    OBVIOUS
  <2>3. j \in i + 1..Len(Format) /\ \A k \in i + 1..j - 1 : Format[k] \in IsDigit
    <3>1. "NUL" \notin IsDigit
      BY DEF IsDigit, Decimal
    <3>2. QED  BY <2>1, <2>2, <3>1, SkipFacts
  <2>4. i + 1 \in Nat \ {0} /\ j \in Nat /\ i + 1 <= j /\ j \in i..Len(Format)
    BY <2>1, <2>3, FormatFacts
  <2>5. PICK n \in Nat : n = atoi(i + 1, j)
    BY <2>3, <2>4, AtoiFacts
  <2>6. PrecisionField(i, args) =
          [n |-> n, next |-> j, args |-> args, flags |-> {"PRECISION"}]
    BY <1>4, <2>2, <2>5 DEF PrecisionField
  <2>7. QED  BY <1>1, <2>4, <2>6 DEF FieldOK
<1>5. QED  BY <1>2, <1>3, <1>4

LEMMA LengthFacts ==
  ASSUME call \in Calls, NEW i \in 1..Len(Format)
  PROVE  LengthField(i).next \in i..Len(Format)
<1>1. i \in i..Len(Format)
  BY FormatFacts
<1>2. ASSUME Format[i] \in {"l", "h", "t", "j", "z"} PROVE i + 1 \in i..Len(Format)
  BY <1>2, FormatFacts
<1>3. ASSUME Format[i] \in {"l", "h"}, Format[i + 1] = Format[i]
      PROVE  i + 2 \in i..Len(Format)
  BY <1>3, FormatFacts
<1>4. CASE Format[i] \in {"l", "h"} /\ Format[i + 1] = Format[i]
  BY <1>3, <1>4 DEF LengthField
<1>5. CASE Format[i] \in {"l", "h"} /\ Format[i + 1] # Format[i]
  BY <1>2, <1>5 DEF LengthField
<1>6. CASE Format[i] \in {"t", "j", "z"}
  BY <1>2, <1>6 DEF LengthField
<1>7. CASE Format[i] \notin {"l", "h", "t", "j", "z"}
  BY <1>1, <1>7 DEF LengthField
<1>8. QED  BY <1>4, <1>5, <1>6, <1>7

LEMMA DirectiveFacts ==
  ASSUME call \in Calls, IsText(va), pos \in DOMAIN Format, AtDirective, ArgumentsMatch
  PROVE  DirectiveOK(Directive)
<1>1. pos + 1 \in 1..Len(Format) /\ pos \in Nat /\ Len(Format) \in Nat
  BY FormatFacts DEF AtDirective
<1>2. PICK j : j = SkipAll(pos + 1, DOMAIN Flag)
  OBVIOUS
<1>3. j \in pos + 1..Len(Format)
  BY <1>1, <1>2, SkipFacts DEF Flag
<1>4. PICK w : w = WidthField(j, va)
  OBVIOUS
<1>5. FieldOK(w, j, va)
  BY <1>2, <1>1, <1>3, <1>4, WidthFacts DEF ArgumentsMatch
<1>6. PICK p : p = PrecisionField(w.next, w.args)
  OBVIOUS
<1>7. FieldOK(p, w.next, w.args)
  <2>1. Format[w.next] = "." /\ Format[w.next + 1] = "*" => w.args # << >> /\ w.args[1] \in Int
    BY <1>2, <1>4 DEF ArgumentsMatch
  <2>2. w.next \in 1..Len(Format) /\ IsText(w.args)
    BY <1>1, <1>3, <1>5 DEF FieldOK
  <2>3. QED  BY <1>6, <2>1, <2>2, PrecisionFacts
<1>8. PICK l : l = LengthField(p.next)
  OBVIOUS
<1>9. l.next \in p.next..Len(Format)
  BY <1>1, <1>3, <1>5, <1>7, <1>8, LengthFacts DEF FieldOK
<1>10. l.next \in pos + 1..Len(Format)
  BY <1>1, <1>3, <1>5, <1>7, <1>9 DEF FieldOK
<1>11. IsText(p.args) /\ Len(p.args) <= Len(va)
  BY <1>5, <1>7 DEF FieldOK, IsText
<1>12. PICK d : d = Directive
  OBVIOUS
<1>13. /\ d.width = w.n /\ d.prec = p.n /\ d.args = p.args
       /\ d.at = l.next /\ d.spec = Format[l.next]
  BY <1>2, <1>4, <1>6, <1>8, <1>12 DEF Directive
<1>14. QED  BY <1>5, <1>7, <1>10, <1>11, <1>12, <1>13 DEF FieldOK, DirectiveOK
(* A precision is zero unless one is given, and no directive asks for      *)
(* capitals but by its letter.                                             *)
LEMMA FieldFlags ==
  ASSUME NEW i, NEW args
  PROVE  /\ WidthField(i, args).flags \subseteq {"LEFT"}
         /\ PrecisionField(i, args).flags \subseteq {"PRECISION"}
         /\ "PRECISION" \notin PrecisionField(i, args).flags => PrecisionField(i, args).n = 0
         /\ LengthField(i).flags \subseteq {"LONG", "LONG_LONG", "SHORT", "CHAR"}
<1>1. WidthField(i, args).flags \subseteq {"LEFT"}
  BY DEF WidthField
<1>2. /\ PrecisionField(i, args).flags \subseteq {"PRECISION"}
      /\ "PRECISION" \notin PrecisionField(i, args).flags => PrecisionField(i, args).n = 0
  <2>1. CASE Format[i] # "."
    BY <2>1 DEF PrecisionField
  <2>2. CASE Format[i] = "."
    BY <2>2 DEF PrecisionField
  <2>3. QED  BY <2>1, <2>2
<1>3. LengthField(i).flags \subseteq {"LONG", "LONG_LONG", "SHORT", "CHAR"}
  <2>1. CASE Format[i] = "l"
    BY <2>1 DEF LengthField
  <2>2. CASE Format[i] = "h"
    BY <2>2 DEF LengthField
  <2>3. CASE Format[i] \in {"t", "j", "z"}
    BY <2>3 DEF LengthField
  <2>4. CASE Format[i] \notin {"l", "h", "t", "j", "z"}
    BY <2>4 DEF LengthField
  <2>5. QED  BY <2>1, <2>2, <2>3, <2>4
<1>4. QED  BY <1>1, <1>2, <1>3

LEMMA DirectiveFlags ==
  ASSUME call \in Calls, pos \in DOMAIN Format, AtDirective
  PROVE  /\ "PRECISION" \notin Directive.flags => Directive.prec = 0
         /\ "UPPERCASE" \notin Directive.flags
<1>1. pos + 1 \in 1..Len(Format)
  BY FormatFacts DEF AtDirective
<1>2. PICK j : j = SkipAll(pos + 1, DOMAIN Flag)
  OBVIOUS
<1>3. \A k \in pos + 1..j - 1 : Format[k] \in DOMAIN Flag
  BY <1>1, <1>2, SkipFacts DEF Flag
<1>4. PICK read : read = {Flag[Format[k]] : k \in pos + 1..j - 1}
  OBVIOUS
<1>5. read \subseteq {"ZEROPAD", "LEFT", "PLUS", "SPACE", "HASH"}
  BY <1>3, <1>4 DEF Flag
<1>6. PICK w : w = WidthField(j, va)
  OBVIOUS
<1>7. PICK p : p = PrecisionField(w.next, w.args)
  OBVIOUS
<1>8. PICK l : l = LengthField(p.next)
  OBVIOUS
<1>9. /\ w.flags \subseteq {"LEFT"} /\ p.flags \subseteq {"PRECISION"}
      /\ "PRECISION" \notin p.flags => p.n = 0
      /\ l.flags \subseteq {"LONG", "LONG_LONG", "SHORT", "CHAR"}
  BY <1>6, <1>7, <1>8, FieldFlags
<1>10. Directive.flags = read \cup w.flags \cup p.flags \cup l.flags /\ Directive.prec = p.n
  BY <1>2, <1>4, <1>6, <1>7, <1>8 DEF Directive
<1>11. "UPPERCASE" \notin Directive.flags
  BY <1>5, <1>9, <1>10
<1>12. QED  BY <1>9, <1>10, <1>11

(* C's directive differs in a precision that the code takes for zero. *)
WithoutPrecision(d, c) ==
  /\ "PRECISION" \in d.flags /\ d.prec = 0
  /\ c.flags = d.flags \ {"PRECISION"}
  /\ c.spec = d.spec /\ c.width = d.width /\ c.prec = d.prec

ReadAs(c, d) == c = d \/ WithoutPrecision(d, c)

LEMMA CDirectiveFacts ==
  ASSUME call \in Calls, IsText(va), pos \in DOMAIN Format, AtDirective, ArgumentsMatch
  PROVE  ReadAs(CDirective, Directive)
<1>0. CASE ~PrecisionIsNegative
  BY <1>0 DEF ReadAs, CDirective
<1> SUFFICES ASSUME PrecisionIsNegative PROVE WithoutPrecision(Directive, CDirective)
  BY <1>0 DEF ReadAs
<1>1. PICK j : j = SkipAll(pos + 1, DOMAIN Flag)
  OBVIOUS
<1>2. PICK w : w = WidthField(j, va)
  OBVIOUS
<1>3. PICK v : v = Signed(w.args[1], IntBits)
  OBVIOUS
<1>4. Format[w.next] = "." /\ Format[w.next + 1] = "*" /\ v < 0
  BY <1>1, <1>2, <1>3 DEF PrecisionIsNegative
<1>5. w.args[1] \in Int
  BY <1>1, <1>2, <1>4 DEF ArgumentsMatch
<1>6. v \in Int
  BY <1>3, <1>5, SignedArgument
<1>7. AtLeast(v, 0) = 0
  BY <1>4, <1>6 DEF AtLeast
<1>8. PICK p : p = PrecisionField(w.next, w.args)
  OBVIOUS
<1>9. p.n = 0 /\ p.flags = {"PRECISION"}
  BY <1>3, <1>4, <1>7, <1>8 DEF PrecisionField
<1>10. PICK l : l = LengthField(p.next)
  OBVIOUS
<1>11. PICK e : e = {Flag[Format[k]] : k \in pos + 1..j - 1} \cup w.flags \cup p.flags \cup l.flags
  OBVIOUS
<1>12. Directive = [flags |-> e, width |-> w.n, prec |-> p.n, args |-> p.args,
                    at |-> l.next, spec |-> Format[l.next]]
  BY <1>1, <1>2, <1>8, <1>10, <1>11 DEF Directive
<1>13. CDirective = [Directive EXCEPT !.flags = @ \ {"PRECISION"}]
  BY DEF CDirective
<1>14. CDirective = [flags |-> e \ {"PRECISION"}, width |-> w.n, prec |-> p.n, args |-> p.args,
                     at |-> l.next, spec |-> Format[l.next]]
  BY <1>12, <1>13
<1>15. "PRECISION" \in e /\ p.n = 0
  BY <1>9, <1>11
<1>16. QED  BY <1>12, <1>14, <1>15 DEF WithoutPrecision

(* The two loops together read to the place where C stops, or to the one   *)
(* behind a precision that is not zero.                                    *)
ReadRight(c, p, r) ==
  IF "PRECISION" \in c.flags /\ c.prec # 0 /\ \A k \in 1..c.prec : p[k] # "NUL"
  THEN r = c.prec + 1 ELSE EndsWith(p, r)

LEMMA StringReadFacts ==
  ASSUME NEW d, d.prec \in Nat, "PRECISION" \notin d.flags => d.prec = 0,
         NEW c, ReadAs(c, d), NEW p, IsString(p, d.prec)
  PROVE  ReadRight(c, p, StringRead(d, p))
<1>1. PICK prec \in Nat : prec = d.prec
  OBVIOUS
<1>2. PICK a : a = CharsRead(p, LengthLimit(d))
  OBVIOUS
<1>3. /\ a \in 1..Len(p) + 1
      /\ (prec # 0 /\ a = prec + 1) \/ EndsWith(p, a)
      /\ \A k \in 1..a - 1 : p[k] # "NUL" /\ (prec # 0 => k <= prec)
  BY <1>1, <1>2, LengthReads
<1>4. a \in Nat /\ a >= 1
  BY <1>3, StringShape, <1>1
<1>5. PICK b : b = CharsRead(p, CopyLimit(d))
  OBVIOUS
<1>6. b = a \/ b = 1
  <2>1. CASE "PRECISION" \in d.flags /\ prec = 0
    BY <1>1, <1>5, <2>1, StringShape, LoopEnds DEF CopyLimit, RunsTo, GoesOn
  <2>2. CASE "PRECISION" \notin d.flags
    BY <1>2, <1>5, <2>2 DEF CopyLimit, LengthLimit
  <2>3. CASE prec # 0
    BY <1>1, <1>2, <1>5, <2>3 DEF CopyLimit, LengthLimit
  <2>4. QED  BY <2>1, <2>2, <2>3
<1>7. StringRead(d, p) = a
  BY <1>2, <1>4, <1>5, <1>6 DEF StringRead, AtLeast
<1>8. CASE prec = 0
  BY <1>1, <1>3, <1>7, <1>8 DEF ReadAs, WithoutPrecision, ReadRight
<1>9. CASE prec # 0
  <2>1. c = d /\ "PRECISION" \in d.flags
    BY <1>1, <1>9 DEF ReadAs, WithoutPrecision
  <2>2. CASE \A k \in 1..prec : p[k] # "NUL"
    <3>1. a = prec + 1
      <4>1. SUFFICES ASSUME a # prec + 1 PROVE FALSE
        OBVIOUS
      <4>2. p[a] = "NUL"
        BY <1>3, <4>1 DEF EndsWith
      <4>3. a <= prec
        <5>1. a - 1 <= prec
          <6>1. CASE a = 1
            BY <6>1
          <6>2. CASE a # 1
            BY <1>4, <6>2, <1>3, <1>9
          <6>3. QED  BY <6>1, <6>2
        <5>2. QED  BY <1>4, <4>1, <5>1
      <4>4. QED  BY <1>4, <2>2, <4>2, <4>3
    <3>2. QED  BY <1>1, <1>7, <1>9, <2>1, <2>2, <3>1 DEF ReadRight
  <2>3. CASE ~ \A k \in 1..prec : p[k] # "NUL"
    <3>1. EndsWith(p, a)
      <4>1. SUFFICES ASSUME a = prec + 1 PROVE FALSE
        BY <1>3
      <4>2. QED  BY <1>3, <2>3, <4>1
    <3>2. QED  BY <1>1, <1>7, <2>1, <2>3, <3>1 DEF ReadRight
  <2>4. QED  BY <2>2, <2>3
<1>10. QED  BY <1>8, <1>9
-----------------------------------------------------------------------------
(* The invariant: before the terminator is written, the memory holds what  *)
(* of the text lies below count, and nothing else was written.             *)

Written ==
  \A i \in DOMAIN mem :
    mem[i] = IF ToBuffer /\ i < idx /\ i < MaxLen THEN full[i + 1] ELSE "old"

Cut ==
  \A i \in DOMAIN mem :
    mem[i] = CASE i < AtMost(Len(full), MaxLen - 1) -> full[i + 1]
               [] i = AtMost(Len(full), MaxLen - 1) -> "NUL"
               [] i > AtMost(Len(full), MaxLen - 1) -> "old"

Inv ==
  /\ call \in Calls
  /\ IsText(va) /\ Len(va) <= Len(call.va)
  /\ status \in {"running", "returned", "overrun"}
  /\ status # "overrun" => pos \in DOMAIN Format
  /\ IsText(full) /\ idx = Len(full)
  /\ DOMAIN mem = 0..MemSize - 1
  /\ NothingBeyondCount
  /\ status # "returned" => Written
  /\ status = "returned" /\ ToBuffer /\ MaxLen > 0 => Cut
  /\ ReadsLikeC

LEMMA MaxLenFacts ==
  ASSUME call \in Calls PROVE MaxLen \in 0..SizeMax
<1>1. CASE call.fn \in {"snprintf", "vsnprintf"}
  BY <1>1, PrintfAssumption DEF MaxLen
<1>2. CASE call.fn \notin {"snprintf", "vsnprintf"}
  <2>1. PICK m \in Nat : m = SizeMax
    BY Numbers
  <2>2. MaxLen = m
    BY <1>2, <2>1 DEF MaxLen
  <2>3. QED  BY <2>1, <2>2
<1>3. QED  BY <1>1, <1>2

LEMMA InitInv == Init => Inv
<1> SUFFICES ASSUME Init PROVE Inv
  OBVIOUS
<1>1. call \in Calls /\ va = call.va /\ pos = 1 /\ idx = 0 /\ status = "running"
      /\ last = << >> /\ full = << >> /\ mem = [i \in 0..MemSize - 1 |-> "old"]
  BY DEF Init
<1>2. pos \in DOMAIN Format
  BY <1>1, FormatFacts
<1>3. IsText(va) /\ Len(va) <= Len(call.va)
  BY <1>1, FormatFacts DEF IsText
<1>4. IsText(full) /\ idx = Len(full)
  <2>1. full \in Seq({0}) /\ Len(full) = 0
    BY <1>1
  <2>2. QED  BY <1>1, <2>1, SeqIsText
<1>5. DOMAIN mem = 0..MemSize - 1 /\ \A i \in DOMAIN mem : mem[i] = "old" /\ i \in Nat
  BY <1>1, Numbers
<1>6. NothingBeyondCount
  BY <1>5 DEF NothingBeyondCount
<1>7. Written
  BY <1>1, <1>5 DEF Written
<1>8. ReadsLikeC
  BY <1>1 DEF ReadsLikeC
<1>9. QED  BY <1>1, <1>2, <1>3, <1>4, <1>5, <1>6, <1>7, <1>8 DEF Inv

(* What a round of the loop that produces a text does to the buffer. *)
LEMMA PutKeeps ==
  ASSUME Inv, status # "returned", status' # "returned", call' = call,
         NEW text, IsText(text), Put(text)
  PROVE  /\ IsText(full)' /\ idx' = Len(full')
         /\ (DOMAIN mem = 0..MemSize - 1)'
         /\ NothingBeyondCount' /\ Written'
<1>1. /\ idx' = idx + Len(text) /\ full' = full \o text
      /\ mem' = [i \in DOMAIN mem |->
                   IF ToBuffer /\ i \in idx..idx + Len(text) - 1 /\ i < MaxLen
                   THEN text[i - idx + 1] ELSE mem[i]]
  BY DEF Put, out_buffer
<1>2. IsText(full) /\ idx = Len(full) /\ DOMAIN mem = 0..MemSize - 1
  BY DEF Inv
<1>3. idx \in Nat /\ Len(text) \in Nat /\ MaxLen \in Nat
  BY <1>2, MaxLenFacts, Numbers DEF Inv, IsText
<1>4. Joins(full', full, text)
  BY <1>1, <1>2, Joined
<1>5. IsText(full') /\ idx' = Len(full')
  BY <1>1, <1>2, <1>4 DEF Joins
<1>6. MaxLen' = MaxLen /\ ToBuffer' = ToBuffer
  BY DEF MaxLen, ToBuffer
<1>7. DOMAIN mem' = 0..MemSize - 1
  BY <1>1, <1>2
<1>8. ASSUME NEW i \in DOMAIN mem'
      PROVE  mem'[i] = IF ToBuffer /\ i < idx' /\ i < MaxLen THEN full'[i + 1] ELSE "old"
  <2>1. i \in DOMAIN mem /\ i \in Nat
    BY <1>2, <1>7, Numbers
  <2>2. mem'[i] = IF ToBuffer /\ i \in idx..idx + Len(text) - 1 /\ i < MaxLen
                  THEN text[i - idx + 1] ELSE mem[i]
    BY <1>1, <2>1
  <2>3. mem[i] = IF ToBuffer /\ i < idx /\ i < MaxLen THEN full[i + 1] ELSE "old"
    BY <2>1 DEF Inv, Written
  <2>4. CASE ToBuffer /\ i < MaxLen /\ i < idx
    BY <1>3, <2>1, <2>2, <2>3, <2>4, <1>1, <1>2, <1>5, <1>4 DEF Joins
  <2>5. CASE ToBuffer /\ i < MaxLen /\ idx <= i /\ i < idx'
    <3>1. i \in idx..idx + Len(text) - 1
      BY <1>1, <1>3, <2>1, <2>5
    <3>2. mem'[i] = text[i - idx + 1]
      BY <2>2, <2>5, <3>1
    <3>3. PICK k \in Nat : k = i + 1
      BY <2>1
    <3>4. k \in 1..Len(full') /\ ~(k <= Len(full))
      BY <1>1, <1>2, <1>3, <1>5, <2>1, <2>5, <3>3
    <3>5. full'[k] = text[k - Len(full)]
      BY <1>4, <3>4 DEF Joins
    <3>6. k - Len(full) = i - idx + 1
      BY <1>2, <1>3, <2>1, <3>3
    <3>7. mem'[i] = full'[k]
      BY <3>2, <3>5, <3>6
    <3>8. QED  BY <2>5, <3>3, <3>7
  <2>6. CASE ~(ToBuffer /\ i < MaxLen /\ i < idx')
    BY <1>1, <1>3, <2>1, <2>6, <2>2, <2>3
  <2>7. i < idx \/ idx <= i
    BY <1>3, <2>1
  <2>8. i < idx => i < idx'
    BY <1>1, <1>3, <2>1
  <2>9. QED
    BY Zenon, <2>4, <2>5, <2>6, <2>7, <2>8
<1>9. Written'
  BY <1>6, <1>8 DEF Written
<1>10. NothingBeyondCount'
  <2>1. ASSUME NEW i \in DOMAIN mem', i >= MaxLen PROVE mem'[i] = "old"
    BY <1>7, Numbers, <1>3, <2>1, <1>8
  <2>2. QED  BY <1>6, <2>1 DEF NothingBeyondCount
<1>11. QED  BY <1>5, <1>7, <1>9, <1>10

LEMMA PutLiteralKeepsInv ==
  ASSUME Inv, PutLiteral PROVE Inv'
<1>1. /\ status = "running" /\ Format[pos] # "NUL"
      /\ Put(<<Format[pos]>>) /\ pos' = pos + 1
      /\ UNCHANGED <<call, va, status, last>>
  BY DEF PutLiteral, Running, CopiedAsIs
<1>2. IsText(<<Format[pos]>>)
  BY OneIsText
<1>3. /\ IsText(full)' /\ idx' = Len(full') /\ (DOMAIN mem = 0..MemSize - 1)'
      /\ NothingBeyondCount' /\ Written'
  BY <1>1, <1>2, PutKeeps
<1>4. Format' = Format
  BY <1>1 DEF Format
<1>5. pos' \in DOMAIN Format'
  <2>1. pos \in 1..Len(Format) /\ Len(Format) \in Nat /\ pos # Len(Format)
        /\ DOMAIN Format = 1..Len(Format)
    BY <1>1, FormatFacts DEF Inv
  <2>2. PICK p, n : p = pos /\ n = Len(Format)
    OBVIOUS
  <2>3. p + 1 \in 1..n
    <3>1. p \in 1..n /\ n \in Nat /\ p # n
      BY <2>1, <2>2
    <3>2. QED  BY <3>1
  <2>4. QED  BY <1>1, <1>4, <2>1, <2>2, <2>3
<1>6. ReadsLikeC'
  BY <1>1 DEF Inv, ReadsLikeC
<1>7. QED  BY <1>1, <1>3, <1>5, <1>6 DEF Inv, IsText

(* A conversion, given that its text is one and that it reads no further   *)
(* than it may.                                                            *)
LEMMA ConversionKeepsInv ==
  ASSUME Inv, AtDirective, NEW d, DirectiveOK(d), NEW text, IsText(text),
         NEW rest, IsText(rest), Len(rest) <= Len(d.args),
         Converted(d, text, rest), ReadsLikeC',
         status' = IF d.spec = "NUL" THEN "overrun" ELSE status
  PROVE  Inv'
<1>1. /\ status = "running" /\ Put(text) /\ pos' = d.at + 1 /\ va' = rest /\ call' = call
  BY DEF AtDirective, Running, Converted
<1>2. status' \in {"running", "overrun"}
  BY <1>1
<1>3. /\ IsText(full)' /\ idx' = Len(full') /\ (DOMAIN mem = 0..MemSize - 1)'
      /\ NothingBeyondCount' /\ Written'
  BY <1>1, <1>2, PutKeeps
<1>4. Format' = Format
  BY <1>1 DEF Format
<1>5. status' # "overrun" => pos' \in DOMAIN Format'
  <2>1. SUFFICES ASSUME d.spec # "NUL" PROVE pos' \in DOMAIN Format
    BY <1>4
  <2>2. PICK n \in Nat : n = Len(Format)
    BY FormatFacts DEF Inv
  <2>3. PICK a : a = d.at
    OBVIOUS
  <2>4. pos \in Nat
    BY FormatFacts DEF Inv, AtDirective, Running
  <2>5. a \in pos + 1..n /\ a # n
    BY <2>1, <2>2, <2>3, FormatFacts DEF DirectiveOK, Inv
  <2>6. a + 1 \in 1..n
    BY <2>4, <2>5
  <2>7. QED  BY <1>1, <2>2, <2>3, <2>6, FormatFacts DEF Inv
<1>6. IsText(va)' /\ Len(va') <= Len(call.va)'
  <2>1. PICK n, k, l, m : n = Len(rest) /\ k = Len(d.args) /\ l = Len(va) /\ m = Len(call.va)
    OBVIOUS
  <2>2. n \in Nat /\ k \in Nat /\ l \in Nat /\ m \in Nat
    BY <2>1, FormatFacts DEF Inv, DirectiveOK, IsText
  <2>3. n <= k /\ k <= l /\ l <= m
    BY <2>1 DEF Inv, DirectiveOK
  <2>4. n <= m
    BY <2>2, <2>3
  <2>5. QED  BY <1>1, <2>1, <2>4 DEF IsText
<1>7. QED
  BY <1>1, <1>2, <1>3, <1>5, <1>6 DEF Inv

(* An integer, a pointer, a character or a string takes the next argument. *)
LEMMA OneArgumentKeepsInv ==
  ASSUME Inv, AtDirective, ArgumentsMatch, NEW text, IsText(text),
         Directive.args # << >>, Directive.spec # "NUL",
         Directive.spec = "s" => IsString(Directive.args[1], Directive.prec),
         Converted(Directive, text, Tail(Directive.args)), UNCHANGED status
  PROVE  Inv'
<1>1. PICK d : d = Directive
  OBVIOUS
<1>2. DirectiveOK(d)
  BY <1>1, DirectiveFacts DEF Inv, AtDirective, Running
<1>3. PICK rest : rest = Tail(d.args)
  OBVIOUS
<1>4. IsText(rest) /\ Len(rest) <= Len(d.args) /\ rest # d.args
  <2>1. IsText(d.args) /\ d.args # << >>
    BY <1>1, <1>2 DEF DirectiveOK
  <2>2. PICK s : s = d.args
    OBVIOUS
  <2>3. IsText(Tail(s)) /\ Len(Tail(s)) = Len(s) - 1 /\ Len(s) \in Nat \ {0} /\ Tail(s) # s
    BY <2>1, <2>2, TailFacts
  <2>4. Len(Tail(s)) <= Len(s)
    <3>1. PICK n, k : n = Len(s) /\ k = Len(Tail(s))
      OBVIOUS
    <3>2. n \in Nat \ {0} /\ k = n - 1
      BY <2>3, <3>1
    <3>3. k <= n
      BY <3>2
    <3>4. QED  BY <3>1, <3>3
  <2>5. QED  BY <1>3, <2>2, <2>3, <2>4
<1>5. Converted(d, text, rest)
  BY <1>1, <1>3
<1>6. PICK c : c = CDirective
  OBVIOUS
<1>7. ReadsLikeC'
  <2>1. last' = [d |-> d, c |-> c, arg |-> d.args[1], text |-> text,
                 read |-> IF d.spec = "s" THEN StringRead(d, d.args[1]) ELSE 0]
    BY <1>4, <1>5, <1>6 DEF Converted
  <2>2. last'.d = d /\ last'.c = c /\ last'.arg = d.args[1]
        /\ last'.read = IF d.spec = "s" THEN StringRead(d, d.args[1]) ELSE 0
    BY <2>1
  <2>3. CASE d.spec = "s"
    <3>1. PICK p, r : p = d.args[1] /\ r = StringRead(d, p)
      OBVIOUS
    <3>2. "PRECISION" \notin d.flags => d.prec = 0
      BY <1>1, DirectiveFlags DEF Inv, AtDirective, Running
    <3>3. ReadAs(c, d)
      BY <1>1, <1>6, CDirectiveFacts DEF Inv, AtDirective, Running
    <3>4. ReadRight(c, p, r)
      BY <1>1, <1>2, <2>3, <3>1, <3>2, <3>3, StringReadFacts DEF DirectiveOK
    <3>5. last'.read = r /\ last'.arg = p
      BY <2>2, <2>3, <3>1
    <3>6. QED  BY <2>2, <3>4, <3>5 DEF ReadsLikeC, ReadRight, EndsWith
  <2>4. CASE d.spec # "s"
    BY <2>2, <2>4 DEF ReadsLikeC
  <2>5. QED  BY <2>3, <2>4
<1>8. d.spec # "NUL" /\ status' = IF d.spec = "NUL" THEN "overrun" ELSE status
  BY <1>1
<1>9. QED  BY <1>2, <1>4, <1>5, <1>7, <1>8, ConversionKeepsInv

LEMMA ConvertIntegerKeepsInv ==
  ASSUME Inv, ArgumentsMatch, ConvertInteger PROVE Inv'
<1>1. AtDirective /\ Directive.spec \in IntegerSpecs /\ UNCHANGED status
      /\ Converted(Directive, IntegerText(Directive, Directive.args[1]), Tail(Directive.args))
  BY DEF ConvertInteger
<1>2. Directive.args # << >> /\ Directive.args[1] \in Int
  BY <1>1 DEF ArgumentsMatch
<1>3. DirectiveOK(Directive)
  BY <1>1, DirectiveFacts DEF Inv, AtDirective, Running
<1>4. IsText(IntegerText(Directive, Directive.args[1]))
  <2>1. PICK d, arg : d = Directive /\ arg = Directive.args[1]
    OBVIOUS
  <2>2. d.width \in Int /\ d.prec \in Int /\ arg \in Int
    BY <1>2, <1>3, <2>1 DEF DirectiveOK
  <2>3. QED  BY <2>1, <2>2, IntegerIsText
<1>5. Directive.spec # "NUL" /\ Directive.spec # "s"
  BY <1>1 DEF IntegerSpecs
<1>6. QED  BY <1>1, <1>2, <1>4, <1>5, OneArgumentKeepsInv

LEMMA ConvertPointerKeepsInv ==
  ASSUME Inv, ArgumentsMatch, ConvertPointer PROVE Inv'
<1>1. AtDirective /\ Directive.spec = "p" /\ UNCHANGED status
      /\ Converted(Directive, PointerText(Directive, Directive.args[1]), Tail(Directive.args))
  BY DEF ConvertPointer
<1>2. Directive.args # << >>
  BY <1>1 DEF ArgumentsMatch
<1>3. DirectiveOK(Directive)
  BY <1>1, DirectiveFacts DEF Inv, AtDirective, Running
<1>4. IsText(PointerText(Directive, Directive.args[1]))
  <2>1. PICK d : d = Directive
    OBVIOUS
  <2>2. d.prec \in Int
    BY <1>3, <2>1 DEF DirectiveOK
  <2>3. QED  BY <2>1, <2>2, PointerIsText
<1>5. QED  BY <1>1, <1>2, <1>4, OneArgumentKeepsInv

LEMMA ConvertCharKeepsInv ==
  ASSUME Inv, ArgumentsMatch, ConvertChar PROVE Inv'
<1>1. AtDirective /\ Directive.spec = "c" /\ UNCHANGED status
      /\ Converted(Directive, Justified(<<Directive.args[1]>>, Directive), Tail(Directive.args))
  BY DEF ConvertChar
<1>2. Directive.args # << >>
  BY <1>1 DEF ArgumentsMatch
<1>3. DirectiveOK(Directive)
  BY <1>1, DirectiveFacts DEF Inv, AtDirective, Running
<1>4. IsText(Justified(<<Directive.args[1]>>, Directive))
  <2>1. PICK d, arg : d = Directive /\ arg = Directive.args[1]
    OBVIOUS
  <2>2. d.width \in Int
    BY <1>3, <2>1 DEF DirectiveOK
  <2>3. IsText(<<arg>>)
    BY OneIsText
  <2>4. QED  BY <2>1, <2>2, <2>3, JustifiedIsText
<1>5. QED  BY <1>1, <1>2, <1>4, OneArgumentKeepsInv

LEMMA ConvertStringKeepsInv ==
  ASSUME Inv, ArgumentsMatch, ConvertString PROVE Inv'
<1>1. AtDirective /\ Directive.spec = "s" /\ UNCHANGED status
      /\ Converted(Directive, StringText(Directive, Directive.args[1]), Tail(Directive.args))
  BY DEF ConvertString
<1>2. Directive.args # << >> /\ IsString(Directive.args[1], Directive.prec)
  BY <1>1 DEF ArgumentsMatch
<1>3. DirectiveOK(Directive)
  BY <1>1, DirectiveFacts DEF Inv, AtDirective, Running
<1>4. IsText(StringText(Directive, Directive.args[1]))
  <2>1. PICK d, p : d = Directive /\ p = Directive.args[1]
    OBVIOUS
  <2>2. d.width \in Int /\ d.prec \in Nat /\ IsString(p, d.prec)
    BY <1>2, <1>3, <2>1 DEF DirectiveOK
  <2>3. QED  BY <2>1, <2>2, StringIsText
<1>5. QED  BY <1>1, <1>2, <1>4, OneArgumentKeepsInv

LEMMA ConvertOtherKeepsInv ==
  ASSUME Inv, ArgumentsMatch, ConvertOther PROVE Inv'
<1>1. PICK d : d = Directive
  OBVIOUS
<1>2. /\ AtDirective /\ d.spec # "s"
      /\ Converted(d, <<d.spec>>, d.args)
      /\ status' = IF d.spec = "NUL" THEN "overrun" ELSE status
  BY <1>1 DEF ConvertOther
<1>3. DirectiveOK(d)
  BY <1>1, <1>2, DirectiveFacts DEF Inv, AtDirective, Running
<1>4. IsText(<<d.spec>>)
  BY OneIsText
<1>5. IsText(d.args) /\ Len(d.args) <= Len(d.args)
  BY <1>3 DEF DirectiveOK, IsText
<1>6. last'.d = d
  BY <1>2 DEF Converted
<1>7. ReadsLikeC'
  BY <1>2, <1>6 DEF ReadsLikeC
<1>8. QED  BY <1>2, <1>3, <1>4, <1>5, <1>7, ConversionKeepsInv

(* The terminator goes behind the text or over the last place. *)
LEMMA TerminateKeepsInv ==
  ASSUME Inv, Terminate PROVE Inv'
<1>1. PICK end : end = Terminator(idx, MaxLen)
  OBVIOUS
<1>2. /\ status = "running" /\ status' = "returned"
      /\ mem' = [i \in DOMAIN mem |->
                   IF ToBuffer /\ i = end /\ end < MaxLen THEN "NUL" ELSE mem[i]]
      /\ UNCHANGED <<call, pos, va, idx, shown, last, full>>
  BY <1>1 DEF Terminate, Running, out_buffer
<1>3. DOMAIN mem' = 0..MemSize - 1 /\ DOMAIN mem = 0..MemSize - 1
  BY <1>2 DEF Inv
<1>4. MaxLen' = MaxLen /\ ToBuffer' = ToBuffer /\ Format' = Format
  BY <1>2 DEF MaxLen, ToBuffer, Format
<1>5. PICK m \in Nat, n \in Nat : m = MaxLen /\ n = idx
  BY MaxLenFacts, Numbers DEF Inv, IsText
<1>6. PICK z \in Nat : z = SizeMax
  BY Numbers
<1>7. m <= z
  BY <1>5, <1>6, MaxLenFacts DEF Inv
<1>8. m > 0 => end = AtMost(n, m - 1)
  <2>1. SUFFICES ASSUME m > 0 PROVE end = AtMost(n, m - 1)
    OBVIOUS
  <2>2. end = IF n < m THEN n ELSE (m - 1) % (z + 1)
    BY <1>1, <1>5, <1>6 DEF Terminator
  <2>3. m - 1 \in 0..z
    BY <1>7, <2>1
  <2>4. (m - 1) % (z + 1) = m - 1
    <3>1. PICK a \in Nat : a = m - 1
      BY <2>1
    <3>2. PICK b \in Nat \ {0} : b = z + 1
      OBVIOUS
    <3>3. a < b
      BY <2>3, <3>1, <3>2
    <3>4. a % b = a
      BY <3>3
    <3>5. QED  BY <3>1, <3>2, <3>4
  <2>5. QED  BY <2>2, <2>4 DEF AtMost
<1>9. ASSUME NEW i \in DOMAIN mem
      PROVE  /\ i \in Nat
             /\ mem[i] = IF ToBuffer /\ i < n /\ i < m THEN full[i + 1] ELSE "old"
             /\ mem'[i] = IF ToBuffer /\ i = end /\ end < m THEN "NUL" ELSE mem[i]
  BY <1>2, <1>3, <1>5, Numbers DEF Inv, Written
<1>10. NothingBeyondCount'
  <2>1. ASSUME NEW i \in DOMAIN mem', i >= MaxLen' PROVE mem'[i] = "old"
    BY <1>3, <1>4, <1>5, <1>9, <2>1
  <2>2. QED  BY <2>1 DEF NothingBeyondCount
<1>11. ASSUME ToBuffer, m > 0 PROVE Cut'
  <2>1. PICK e \in Nat : e = AtMost(n, m - 1)
    BY <1>11 DEF AtMost
  <2>2. end = e /\ e < m /\ e <= n
    BY <1>8, <1>11, <2>1 DEF AtMost
  <2>3. ASSUME NEW i \in DOMAIN mem
        PROVE  mem'[i] = CASE i < e -> full[i + 1] [] i = e -> "NUL" [] i > e -> "old"
    <3>1. i \in Nat /\ mem[i] = IF i < n /\ i < m THEN full[i + 1] ELSE "old"
      BY <1>9, <1>11
    <3>2. mem'[i] = IF i = e THEN "NUL" ELSE mem[i]
      BY <1>9, <1>11, <2>2
    <3>3. CASE i < e
      BY <2>2, <3>1, <3>3, <3>2
    <3>4. CASE i = e
      BY <3>1, <3>2, <3>4
    <3>5. CASE i > e
      BY <2>1, <3>1, <3>5, <3>2 DEF AtMost
    <3>6. QED  BY <3>1, <3>3, <3>4, <3>5
  <2>4. AtMost(Len(full'), MaxLen' - 1) = e /\ DOMAIN mem' = DOMAIN mem /\ full' = full
    BY <1>2, <1>3, <1>4, <1>5, <2>1 DEF Inv
  <2>5. QED  BY <2>3, <2>4 DEF Cut
<1>12. ReadsLikeC'
  BY <1>2 DEF Inv, ReadsLikeC
<1>13. ToBuffer' /\ MaxLen' > 0 => Cut'
  BY <1>4, <1>5, <1>11
<1>14. IsText(va)' /\ IsText(full)' /\ Len(va') <= Len(call'.va)
  BY <1>2 DEF Inv, IsText
<1>15. QED  BY <1>2, <1>3, <1>4, <1>10, <1>12, <1>13, <1>14 DEF Inv

LEMMA NextKeepsInv ==
  ASSUME Inv, ArgumentsMatch, [Next]_vars PROVE Inv'
<1>1. CASE UNCHANGED vars
  BY <1>1 DEF vars, Inv, IsText, Format, NothingBeyondCount, Written, Cut, ReadsLikeC,
              ToBuffer, MaxLen
<1>2. CASE PutLiteral
  BY <1>2, PutLiteralKeepsInv
<1>3. CASE ConvertInteger
  BY <1>3, ConvertIntegerKeepsInv
<1>4. CASE ConvertPointer
  BY <1>4, ConvertPointerKeepsInv
<1>5. CASE ConvertChar
  BY <1>5, ConvertCharKeepsInv
<1>6. CASE ConvertString
  BY <1>6, ConvertStringKeepsInv
<1>7. CASE ConvertOther
  BY <1>7, ConvertOtherKeepsInv
<1>8. CASE Terminate
  BY <1>8, TerminateKeepsInv
<1>9. QED
  BY <1>1, <1>2, <1>3, <1>4, <1>5, <1>6, <1>7, <1>8 DEF Next

LEMMA InvHolds == Spec /\ []ArgumentsMatch => []Inv
<1>1. Inv /\ ArgumentsMatch /\ [Next]_vars => Inv'
  BY NextKeepsInv
<1>2. QED  BY <1>1, InitInv, PTL DEF Spec

-----------------------------------------------------------------------------
(* Numbers. *)

Byte == 2^ByteBits
Power(k) == 2^(ByteBits * k)

LEMMA ProductSign ==
  ASSUME NEW a \in Nat, NEW b \in Nat
  PROVE  a * b \in Nat /\ (a # 0 /\ b # 0 => a * b # 0)
  OBVIOUS

LEMMA QuotientBounds ==
  ASSUME NEW k \in Nat \ {0}, NEW i \in Int
  PROVE  /\ i \div k \in Int /\ i = k * (i \div k) + (i % k)
         /\ i % k \in 0..k - 1
  OBVIOUS

(* There is one quotient and one remainder. *)
LEMMA OnePlace ==
  ASSUME NEW k \in Nat \ {0}, NEW q \in Int, NEW p \in Int,
         NEW r \in 0..k - 1, NEW s \in 0..k - 1, k * q + r = k * p + s
  PROVE  q = p /\ r = s
<1>1. k * (q - p) = s - r
  OBVIOUS
<1>2. ~(q - p >= 1)
  <2> SUFFICES ASSUME q - p >= 1 PROVE FALSE
    OBVIOUS
  <2>1. PICK x \in Nat : x = q - p - 1
    OBVIOUS
  <2>2. k * x \in Nat
    BY ProductSign
  <2>3. k * (q - p) = k * x + k
    BY <2>1
  <2>4. PICK y \in Nat : y = k * x
    BY <2>2
  <2>5. s - r = y + k
    BY <1>1, <2>3, <2>4
  <2>6. QED  BY <2>5
<1>3. ~(p - q >= 1)
  <2> SUFFICES ASSUME p - q >= 1 PROVE FALSE
    OBVIOUS
  <2>1. PICK x \in Nat : x = p - q - 1
    OBVIOUS
  <2>2. k * x \in Nat
    BY ProductSign
  <2>3. k * (q - p) = 0 - (k * x + k)
    BY <2>1
  <2>4. PICK y \in Nat : y = k * x
    BY <2>2
  <2>5. s - r = 0 - (y + k)
    BY <1>1, <2>3, <2>4
  <2>6. QED  BY <2>5
<1>4. q = p
  BY <1>2, <1>3
<1>5. k * q = k * p
  BY <1>4
<1>6. PICK z \in Int : z = k * q
  OBVIOUS
<1>7. z + r = z + s
  BY <1>5, <1>6
<1>8. QED  BY <1>4, <1>7

LEMMA Divided ==
  ASSUME NEW k \in Nat \ {0}, NEW q \in Int, NEW r \in 0..k - 1, NEW i,
         i = k * q + r
  PROVE  i \in Int /\ i \div k = q /\ i % k = r
<1>1. i \in Int
  OBVIOUS
<1>2. PICK p, s : p = i \div k /\ s = i % k
  OBVIOUS
<1>3. p \in Int /\ s \in 0..k - 1 /\ i = k * p + s
  BY <1>1, <1>2, QuotientBounds
<1>4. k * q + r = k * p + s
  BY <1>3
<1>5. q = p /\ r = s
  BY <1>3, <1>4, OnePlace
<1>6. QED  BY <1>1, <1>2, <1>5

LEMMA Powers ==
  /\ Byte \in Nat \ {0, 1} /\ ByteBits \in Nat \ {0}
  /\ 2^(ByteBits - 1) \in Nat \ {0} /\ Byte = 2 * 2^(ByteBits - 1)
  /\ Power(0) = 1 /\ Power(1) = Byte
  /\ \A j, k \in 0..WordSize : j + k <= WordSize => Power(j + k) = Power(j) * Power(k)
<1>1. 2^(ByteBits - 1) \in Nat \ {0} /\ Byte = 2 * 2^(ByteBits - 1) /\ ByteBits \in Nat \ {0}
  BY WordAssumption DEF Byte
<1>2. Byte \in Nat \ {0, 1}
  <2>1. PICK h \in Nat \ {0} : h = 2^(ByteBits - 1)
    BY <1>1
  <2>2. Byte = 2 * h
    BY <1>1, <2>1
  <2>3. QED  BY <2>2
<1>3. Power(0) = 1
  <2>1. ByteBits * 0 = 0
    BY <1>1
  <2>2. QED  BY <2>1, WordAssumption DEF Power
<1>4. Power(1) = Byte
  BY <1>1 DEF Power, Byte
<1>5. \A j, k \in 0..WordSize : j + k <= WordSize => Power(j + k) = Power(j) * Power(k)
  BY WordAssumption DEF Power
<1>6. QED  BY <1>1, <1>2, <1>3, <1>4, <1>5

LEMMA Word ==
  WordSize \in Nat /\ WordSize \in {4, 8}
  BY WordAssumption

LEMMA PowersPositive == \A k \in 0..WordSize : Power(k) \in Nat \ {0}
<1> DEFINE S == {k \in 0..WordSize : ~(Power(k) \in Nat \ {0})}
<1>1. S = {}
  <2> SUFFICES ASSUME S # {} PROVE FALSE
    OBVIOUS
  <2>1. S \in SUBSET Nat
    BY Word
  <2>2. PICK n \in S : \A y \in S : n <= y
    BY <2>1, Least
  <2>3. n \in 0..WordSize /\ ~(Power(n) \in Nat \ {0})
    OBVIOUS
  <2>4. n # 0
    BY <2>3, Powers
  <2>5. n - 1 \in 0..WordSize /\ n - 1 \notin S /\ 1 \in 0..WordSize /\ (n - 1) + 1 = n
    BY <2>2, <2>3, <2>4, Word
  <2>6. Power(n - 1) \in Nat \ {0}
    BY <2>5
  <2>7. Power((n - 1) + 1) = Power(n - 1) * Power(1)
    BY <2>5, <2>3, Powers
  <2>8. Power(n) = Power(n - 1) * Byte
    BY <2>5, <2>7, Powers
  <2>9. PICK x \in Nat \ {0} : x = Power(n - 1)
    BY <2>6
  <2>10. PICK y \in Nat \ {0} : y = Byte
    BY Powers
  <2>11. x * y \in Nat \ {0}
    BY ProductSign
  <2>12. QED  BY <2>3, <2>8, <2>9, <2>10, <2>11
<1>2. QED  BY <1>1

LEMMA NextPower ==
  ASSUME NEW k \in 0..WordSize - 1
  PROVE  Power(k + 1) = Power(k) * Byte /\ k + 1 \in 0..WordSize /\ k \in 0..WordSize
  BY Word, Powers
-----------------------------------------------------------------------------
(* Digits of a number. *)

LEMMA OneMoreDigit ==
  ASSUME NEW a \in Nat \ {0}, NEW b \in Nat \ {0}, NEW n \in 0..a - 1, NEW d \in 0..b - 1
  PROVE  n + d * a \in 0..a * b - 1
<1>1. PICK e \in Nat : e = b - 1 - d
  OBVIOUS
<1>2. d * a \in Nat /\ e * a \in Nat
  BY ProductSign
<1>3. a * b = d * a + e * a + a
  BY <1>1
<1>4. PICK x \in Nat : x = d * a
  BY <1>2
<1>5. PICK y \in Nat : y = e * a
  BY <1>2
<1>6. PICK z : z = a * b
  OBVIOUS
<1>7. z = x + y + a
  BY <1>3, <1>4, <1>5, <1>6
<1>8. n + x \in 0..z - 1
  BY <1>7
<1>9. QED  BY <1>4, <1>6, <1>8

LEMMA TopDigit ==
  ASSUME NEW a \in Nat \ {0}, NEW b \in Nat \ {0}, NEW n \in 0..a - 1, NEW d \in 0..b - 1
  PROVE  ((n + d * a) \div a) % b = d
<1>1. PICK i : i = n + d * a
  OBVIOUS
<1>2. i = a * d + n
  BY <1>1
<1>3. i \div a = d
  BY <1>2, Divided
<1>4. d = b * 0 + d /\ 0 \in Int
  OBVIOUS
<1>5. d % b = d
  BY <1>4, Divided
<1>6. QED  BY <1>1, <1>3, <1>5

(* What is added above a digit does not change it. *)
IsAbove(i, n, g, x) == i = n + g * x
Digit(i, a, b) == (i \div a) % b

LEMMA LowerDigit ==
  ASSUME NEW a \in Nat \ {0}, NEW b \in Nat \ {0}, NEW x \in Int, NEW n \in Int,
         NEW i, IsAbove(i, n, a * b, x)
  PROVE  Digit(i, a, b) = Digit(n, a, b)
<1>1. PICK q, r : q = n \div a /\ r = n % a
  OBVIOUS
<1>2. q \in Int /\ r \in 0..a - 1 /\ n = a * q + r
  BY <1>1, QuotientBounds
<1>3. i = n + (a * b) * x
  BY DEF IsAbove
<1>4. i = a * (q + b * x) + r
  <2>1. a * (q + b * x) = a * q + (a * b) * x
    BY <1>2
  <2>2. PICK y \in Int : y = (a * b) * x
    OBVIOUS
  <2>3. PICK z \in Int : z = a * q
    BY <1>2
  <2>4. i = n + y /\ n = z + r /\ a * (q + b * x) = z + y
    BY <1>2, <1>3, <2>1, <2>2, <2>3
  <2>5. n + y = (z + y) + r
    BY <1>2, <2>4
  <2>6. QED  BY <2>4, <2>5
<1>5. PICK t \in Int : t = q + b * x
  BY <1>2
<1>6. i \div a = t
  <2>1. i = a * t + r
    BY <1>4, <1>5
  <2>2. r \in 0..a - 1
    BY <1>2
  <2>3. QED  BY <2>1, <2>2, Divided
<1>7. PICK p, s : p = q \div b /\ s = q % b
  OBVIOUS
<1>8. p \in Int /\ s \in 0..b - 1 /\ q = b * p + s
  BY <1>2, <1>7, QuotientBounds
<1>9. t = b * (p + x) + s
  <2>1. b * (p + x) = b * p + b * x
    BY <1>8
  <2>2. PICK y \in Int : y = b * x
    OBVIOUS
  <2>3. PICK z \in Int : z = b * p
    BY <1>8
  <2>4. t = q + y /\ q = z + s /\ b * (p + x) = z + y
    BY <1>5, <1>8, <2>1, <2>2, <2>3
  <2>5. q + y = (z + y) + s
    BY <1>8, <2>4
  <2>6. QED  BY <2>4, <2>5
<1>10. t % b = s
  <2>1. p + x \in Int
    BY <1>8
  <2>2. QED  BY <1>8, <1>9, <2>1, Divided
<1>11. QED  BY <1>1, <1>6, <1>7, <1>10 DEF Digit

(* The bytes d, lowest first, and the numbers u that the first of them     *)
(* make.                                                                   *)
Bytes(d) == \A k \in 0..WordSize - 1 : d[k] \in 0..Byte - 1

Sums(u, d) ==
  /\ u[0] = 0
  /\ \A k \in 0..WordSize - 1 : u[k + 1] = u[k] + d[k] * Power(k)

LEMMA SumBound ==
  ASSUME NEW d, NEW u, Bytes(d), Sums(u, d)
  PROVE  \A k \in 0..WordSize : u[k] \in 0..Power(k) - 1
<1> DEFINE S == {k \in 0..WordSize : ~(u[k] \in 0..Power(k) - 1)}
<1>1. S = {}
  <2> SUFFICES ASSUME S # {} PROVE FALSE
    OBVIOUS
  <2>1. S \in SUBSET Nat
    BY Word
  <2>2. PICK n \in S : \A y \in S : n <= y
    BY <2>1, Least
  <2>3. n \in 0..WordSize /\ ~(u[n] \in 0..Power(n) - 1)
    OBVIOUS
  <2>4. n # 0
    BY Powers, <2>3 DEF Sums
  <2>5. PICK k : k = n - 1
    OBVIOUS
  <2>6. k \in 0..WordSize - 1 /\ k \in 0..WordSize /\ k \notin S /\ n = k + 1
    BY <2>2, <2>3, <2>4, <2>5, Word
  <2>7. u[k] \in 0..Power(k) - 1
    BY <2>6
  <2>8. u[n] = u[k] + d[k] * Power(k)
    BY <2>6 DEF Sums
  <2>9. Power(n) = Power(k) * Byte
    BY <2>6, NextPower
  <2>10. PICK a \in Nat \ {0} : a = Power(k)
    BY <2>6, PowersPositive
  <2>11. PICK b \in Nat \ {0} : b = Byte
    BY Powers
  <2>12. PICK e : e = d[k]
    OBVIOUS
  <2>13. e \in 0..b - 1
    BY <2>6, <2>11, <2>12 DEF Bytes
  <2>14. PICK x : x = u[k]
    OBVIOUS
  <2>15. x \in 0..a - 1
    BY <2>7, <2>10, <2>14
  <2>16. x + e * a \in 0..a * b - 1
    BY <2>13, <2>15, OneMoreDigit
  <2>17. u[n] = x + e * a /\ Power(n) = a * b
    BY <2>8, <2>9, <2>10, <2>11, <2>12, <2>14
  <2>18. QED  BY <2>3, <2>16, <2>17
<1>2. QED  BY <1>1

(* Each byte of the number is the byte that it was made from. *)
LEMMA SumDigits ==
  ASSUME NEW d, NEW u, Bytes(d), Sums(u, d), NEW j \in 0..WordSize - 1
  PROVE  \A k \in j + 1..WordSize : (u[k] \div Power(j)) % Byte = d[j]
<1> DEFINE Holds(k) == (u[k] \div Power(j)) % Byte = d[j]
           S == {k \in j + 1..WordSize : ~Holds(k)}
<1>1. PICK a \in Nat \ {0} : a = Power(j)
  BY NextPower, PowersPositive
<1>2. PICK b \in Nat \ {0} : b = Byte
  BY Powers
<1>3. Holds(j + 1)
  <2>1. PICK e : e = d[j]
    OBVIOUS
  <2>2. e \in 0..b - 1
    BY <1>2, <2>1 DEF Bytes
  <2>3. PICK x : x = u[j]
    OBVIOUS
  <2>4. x \in 0..a - 1
    BY <1>1, <2>3, SumBound, NextPower
  <2>5. u[j + 1] = x + e * a
    BY <1>1, <2>1, <2>3 DEF Sums
  <2>6. ((x + e * a) \div a) % b = e
    BY <2>2, <2>4, TopDigit
  <2>7. QED  BY <1>1, <1>2, <2>1, <2>5, <2>6
<1>4. S = {}
  <2> HIDE DEF Holds
  <2> SUFFICES ASSUME S # {} PROVE FALSE
    OBVIOUS
  <2>1. S \in SUBSET Nat
    BY Word
  <2>2. PICK n \in S : \A y \in S : n <= y
    BY <2>1, Least
  <2>3. n \in j + 1..WordSize /\ ~Holds(n)
    OBVIOUS
  <2>4. n # j + 1
    BY <1>3, <2>3
  <2>5. PICK k : k = n - 1
    OBVIOUS
  <2>6. k \in j + 1..WordSize /\ k \in 0..WordSize - 1 /\ n = k + 1
    BY <2>3, <2>4, <2>5, Word
  <2>7. k \notin S
    BY <2>2, <2>3, <2>5, <2>6
  <2>8. Holds(k)
    BY <2>6, <2>7
  <2>9. PICK c : c = Power(k - (j + 1))
    OBVIOUS
  <2>10. c \in Nat \ {0} /\ Power(k) = (a * b) * c
    <3>1. j + 1 \in 0..WordSize /\ k - (j + 1) \in 0..WordSize
      BY <2>6, Word
    <3>2. (j + 1) + (k - (j + 1)) = k /\ k <= WordSize
      BY <2>6, Word
    <3>3. PICK h : h = k - (j + 1)
      OBVIOUS
    <3>4. Power((j + 1) + h) = Power(j + 1) * Power(h)
      BY <3>1, <3>2, <3>3, Powers
    <3>5. Power(k) = Power(j + 1) * c
      BY <3>2, <3>3, <3>4, <2>9
    <3>6. Power(j + 1) = a * b
      BY <1>1, <1>2, NextPower
    <3>7. c \in Nat \ {0}
      BY <3>1, <2>9, PowersPositive
    <3>8. QED  BY <3>5, <3>6, <3>7
  <2>11. PICK e : e = d[k]
    OBVIOUS
  <2>12. e \in Nat
    BY <2>6, <2>11, Powers DEF Bytes
  <2>13. PICK x : x = u[k]
    OBVIOUS
  <2>14. x \in Int
    BY <2>6, <2>13, SumBound
  <2>15. u[n] = x + e * Power(k)
    BY <2>6, <2>11, <2>13 DEF Sums
  <2>16. PICK y \in Int : y = e * c
    BY <2>10, <2>12
  <2>17. e * ((a * b) * c) = (a * b) * y
    <3>1. PICK g \in Int : g = a * b
      OBVIOUS
    <3>2. e * (g * c) = g * (e * c)
      BY <2>10, <2>12
    <3>3. QED  BY <3>1, <3>2, <2>16
  <2>18. u[n] = x + (a * b) * y
    BY <2>10, <2>15, <2>17
  <2>19. Digit(u[n], a, b) = Digit(x, a, b)
    <3>1. IsAbove(u[n], x, a * b, y)
      BY <2>18 DEF IsAbove
    <3>2. QED  BY <2>14, <3>1, LowerDigit
  <2>20. Holds(n)
    BY <1>1, <1>2, <2>8, <2>13, <2>19 DEF Holds, Digit
  <2>21. QED  BY <2>3, <2>20
<1>5. QED  BY <1>4

LEMMA ByteOfSum ==
  ASSUME NEW d, NEW u, Bytes(d), Sums(u, d), NEW j \in 0..WordSize - 1
  PROVE  ByteOf(u[WordSize], j) = d[j]
  BY Word, SumDigits DEF ByteOf, Power, Byte
-----------------------------------------------------------------------------
(* The word at an address is the number that its bytes make. *)

(* What the definition of WordAt asks for, on the first n bytes. *)
UpTo(n, f, m, p) ==
  f = [k \in 0..n |->
         IF k = 0 THEN 0 ELSE f[k - 1] + m[p + k - 1] * 2^(ByteBits * (k - 1))]

LEMMA UpToExists ==
  ASSUME NEW m, NEW p
  PROVE  \E f : UpTo(WordSize, f, m, p)
<1> DEFINE S == {n \in 0..WordSize : ~ \E f : UpTo(n, f, m, p)}
<1>1. S = {}
  <2> SUFFICES ASSUME S # {} PROVE FALSE
    OBVIOUS
  <2>1. S \in SUBSET Nat
    BY Word
  <2>2. PICK n \in S : \A y \in S : n <= y
    BY <2>1, Least
  <2>3. n \in 0..WordSize /\ n \in Nat /\ ~ \E f : UpTo(n, f, m, p)
    BY <2>1
  <2>4. n # 0
    <3> DEFINE f == [k \in 0..0 |-> 0]
    <3>1. UpTo(0, f, m, p)
      BY DEF UpTo
    <3>2. QED  BY <3>1, <2>3
  <2>5. n - 1 \in 0..WordSize /\ n - 1 \notin S
    <3>1. n - 1 \in 0..WordSize /\ ~(n <= n - 1)
      BY <2>3, <2>4, Word
    <3> HIDE DEF S
    <3>2. n - 1 \notin S
      BY <2>2, <3>1
    <3>3. QED  BY <3>1, <3>2
  <2>6. PICK f : UpTo(n - 1, f, m, p)
    BY <2>5
  <2> DEFINE next == f[n - 1] + m[p + n - 1] * 2^(ByteBits * (n - 1))
             g == [k \in 0..n |-> IF k = n THEN next ELSE f[k]]
             Step(h, k) == h[k - 1] + m[p + k - 1] * 2^(ByteBits * (k - 1))
  <2>7. \A k \in 0..n - 1 : f[k] = IF k = 0 THEN 0 ELSE Step(f, k)
    BY <2>6 DEF UpTo
  <2>8. g[n] = next /\ \A k \in 0..n - 1 : g[k] = f[k]
    BY <2>3, <2>4
  <2>9. next = Step(f, n)
    OBVIOUS
  <2> HIDE DEF next
  <2>10. \A k \in 0..n : g[k] = IF k = 0 THEN 0 ELSE Step(g, k)
    <3> HIDE DEF g
    <3> TAKE k \in 0..n
    <3>1. k # 0 => k - 1 \in 0..n - 1
      BY <2>3
    <3>2. k # 0 => Step(g, k) = Step(f, k)
      BY <3>1, <2>8
    <3> HIDE DEF Step
    <3>3. CASE k = n
      BY <3>2, <3>3, <2>4, <2>8, <2>9
    <3>4. CASE k # n
      BY <3>4, <2>3, <2>8, <3>2, <2>7
    <3>5. QED  BY <3>3, <3>4
  <2> DEFINE rest == [k \in 0..n |-> IF k = 0 THEN 0 ELSE Step(g, k)]
  <2>11. g = rest
    <3>1. g = [k \in 0..n |-> g[k]]
      OBVIOUS
    <3> HIDE DEF g, Step
    <3>2. [k \in 0..n |-> g[k]] = rest
      BY <2>10
    <3>3. QED  BY <3>1, <3>2
  <2>12. UpTo(n, g, m, p)
    <3> HIDE DEF g
    <3>1. QED  BY <2>11 DEF UpTo
  <2>13. QED  BY <2>12, <2>3
<1>2. WordSize \in 0..WordSize
  BY Word
<1>3. QED  BY <1>1, <1>2

BytesAt(m, p) == [k \in 0..WordSize - 1 |-> m[p + k]]

LEMMA WordIsSum ==
  ASSUME NEW m, NEW p \in Int
  PROVE  \E u : Sums(u, BytesAt(m, p)) /\ WordAt(m, p) = u[WordSize]
<1> DEFINE P(f) == UpTo(WordSize, f, m, p)
<1>1. PICK u : u = CHOOSE f : P(f)
  OBVIOUS
<1>2. P(u)
  <2>1. \E f : P(f)
    BY UpToExists
  <2> HIDE DEF P
  <2>2. QED  BY <1>1, <2>1
<1>3. WordAt(m, p) = u[WordSize]
  BY <1>1 DEF WordAt, UpTo
<1>4. u[0] = 0
  BY Word, <1>2 DEF UpTo
<1>5. ASSUME NEW k \in 0..WordSize - 1
      PROVE  u[k + 1] = u[k] + BytesAt(m, p)[k] * Power(k)
  <2>1. k + 1 \in 0..WordSize /\ k + 1 # 0 /\ (k + 1) - 1 = k /\ p + (k + 1) - 1 = p + k
    BY Word
  <2>2. u[k + 1] = u[(k + 1) - 1] + m[p + (k + 1) - 1] * 2^(ByteBits * ((k + 1) - 1))
    <3>1. PICK i : i = k + 1
      OBVIOUS
    <3>2. i \in 0..WordSize /\ i # 0
      BY <2>1, <3>1
    <3>3. u[i] = u[i - 1] + m[p + i - 1] * 2^(ByteBits * (i - 1))
      BY <1>2, <3>2 DEF UpTo
    <3>4. QED  BY <3>1, <3>3
  <2>3. QED  BY <2>1, <2>2 DEF BytesAt, Power
<1>6. QED  BY <1>3, <1>4, <1>5 DEF Sums

LEMMA BytesOfWord ==
  ASSUME NEW m, NEW p \in Int, \A k \in 0..WordSize - 1 : m[p + k] \in 0..Byte - 1,
         NEW k \in 0..WordSize - 1
  PROVE  ByteOf(WordAt(m, p), k) = m[p + k]
<1>1. PICK u : Sums(u, BytesAt(m, p)) /\ WordAt(m, p) = u[WordSize]
  BY WordIsSum
<1>2. Bytes(BytesAt(m, p))
  BY DEF Bytes, BytesAt
<1>3. ByteOf(WordAt(m, p), k) = BytesAt(m, p)[k]
  BY <1>1, <1>2, ByteOfSum
<1>4. QED  BY <1>3 DEF BytesAt

(* Doubling a byte gives a word in which every byte is that byte. *)
LEMMA ByteInEveryByte ==
  ASSUME NEW c \in Int, NEW k \in 0..WordSize - 1
  PROVE  ByteOf(word_value(c), k) = c % Byte
<1>1. PICK e : e = c % Byte
  OBVIOUS
<1>2. e \in 0..Byte - 1 /\ e \in Int
  <2>1. PICK b \in Nat \ {0} : b = Byte
    BY Powers
  <2>2. c % b \in 0..b - 1
    BY QuotientBounds
  <2>3. QED  BY <1>1, <2>1, <2>2
<1>3. PICK m : m = [a \in 0..WordSize - 1 |-> e]
  OBVIOUS
<1>4. BytesAt(m, 0) = m
  BY <1>3, Word DEF BytesAt
<1>5. PICK u : Sums(u, m) /\ WordAt(m, 0) = u[WordSize]
  BY <1>4, WordIsSum
<1>6. word_value(c) = u[WordSize]
  <2>1. \A i \in 0..WordSize - 1 : u[i + 1] = u[i] + e * Power(i)
    BY <1>3, <1>5 DEF Sums
  <2>2. u[0] = 0
    BY <1>5 DEF Sums
  <2>3. PICK b \in Nat : b = Byte
    BY Powers
  <2>4. Power(0) = 1 /\ Power(1) = b /\ Power(2) = b * b /\ Power(3) = (b * b) * b
    <3>1. \A i \in 0..3 : i \in 0..WordSize - 1
      BY Word
    <3>2. Power(0) = 1 /\ Power(1) = Byte
      BY Powers
    <3>3. Power(1 + 1) = Power(1) * Byte
      BY <3>1, NextPower
    <3>4. Power(2 + 1) = Power(2) * Byte
      BY <3>1, NextPower
    <3>5. 1 + 1 = 2 /\ 2 + 1 = 3
      OBVIOUS
    <3>6. Power(2) = b * b
      BY <2>3, <3>2, <3>3, <3>5
    <3>7. QED  BY <2>3, <3>2, <3>4, <3>5, <3>6
  <2>5. PICK b2 \in Nat : b2 = b * b
    OBVIOUS
  <2>6. PICK four : four = (e + e * b) + (e + e * b) * b2
    OBVIOUS
  <2>7. u[4] = four
    <3>1. \A i \in 0..3 : i \in 0..WordSize - 1
      BY Word
    <3>2. u[0 + 1] = u[0] + e * Power(0) /\ u[1 + 1] = u[1] + e * Power(1)
          /\ u[2 + 1] = u[2] + e * Power(2) /\ u[3 + 1] = u[3] + e * Power(3)
      BY <2>1, <3>1
    <3>3. 0 + 1 = 1 /\ 1 + 1 = 2 /\ 2 + 1 = 3 /\ 3 + 1 = 4
      OBVIOUS
    <3>4. u[1] = 0 + e * 1 /\ u[2] = u[1] + e * b /\ u[3] = u[2] + e * b2
          /\ u[4] = u[3] + e * (b2 * b)
      BY <2>2, <2>4, <2>5, <3>2, <3>3
    <3>5. u[4] = ((0 + e * 1 + e * b) + e * b2) + e * (b2 * b)
      BY <3>4
    <3>6. ((0 + e * 1 + e * b) + e * b2) + e * (b2 * b) = (e + e * b) + (e + e * b) * b2
      BY <1>2
    <3>7. QED  BY <2>6, <3>5, <3>6
  <2>8. /\ 2^ByteBits = b /\ 2^(2 * ByteBits) = b2 /\ 2^(4 * ByteBits) = Power(4)
    BY Powers, <2>3, <2>4, <2>5 DEF Power, Byte
  <2>9. word_value(c) = IF WordSize = 8 THEN four + four * Power(4) ELSE four
    BY <1>1, <2>3, <2>6, <2>8 DEF word_value, Byte
  <2>10. CASE WordSize = 4
    BY <2>7, <2>9, <2>10
  <2>11. CASE WordSize = 8
    <3>1. \A i \in 0..7 : i \in 0..WordSize - 1
      BY <2>11
    <3>2. PICK b4 \in Nat : b4 = Power(4)
      BY <2>11, PowersPositive
    <3>3. Power(5) = b4 * b /\ Power(6) = (b4 * b) * b /\ Power(7) = ((b4 * b) * b) * b
      BY <3>1, NextPower, <2>3, <3>2
    <3>4. u[5] = u[4] + e * b4 /\ u[6] = u[5] + e * (b4 * b)
          /\ u[7] = u[6] + e * ((b4 * b) * b) /\ u[8] = u[7] + e * (((b4 * b) * b) * b)
      BY <2>1, <3>1, <3>2, <3>3
    <3>5. u[8] = (((four + e * b4) + e * (b4 * b)) + e * ((b4 * b) * b))
                 + e * (((b4 * b) * b) * b)
      BY <2>7, <3>4
    <3>6. four * b4 = ((e * b4 + e * (b4 * b)) + e * ((b4 * b) * b))
                      + e * (((b4 * b) * b) * b)
      BY <1>2, <2>5, <2>6
    <3>7. PICK w, x, y, z : w = e * b4 /\ x = e * (b4 * b) /\ y = e * ((b4 * b) * b)
                            /\ z = e * (((b4 * b) * b) * b)
      OBVIOUS
    <3>8. w \in Int /\ x \in Int /\ y \in Int /\ z \in Int /\ four \in Int
      BY <1>2, <2>6, <3>7
    <3>9. u[8] = (((four + w) + x) + y) + z /\ four * b4 = ((w + x) + y) + z
      BY <3>5, <3>6, <3>7
    <3>10. u[8] = four + four * b4
      BY <3>8, <3>9
    <3>11. QED  BY <2>9, <2>11, <3>2, <3>10
  <2>12. QED  BY <2>10, <2>11, Word
<1>7. Bytes(m)
  BY <1>2, <1>3 DEF Bytes
<1>8. ByteOf(u[WordSize], k) = m[k]
  BY <1>5, <1>7, ByteOfSum
<1>9. QED  BY <1>1, <1>3, <1>6, <1>8
-----------------------------------------------------------------------------
(* memset and memcpy: three parts that make one. *)

LEMMA Aligning ==
  ASSUME NEW p \in Int
  PROVE  ToAligned(p) \in 0..WordSize - 1 /\ (p + ToAligned(p)) % WordSize = 0
<1>1. CASE WordSize = 4
  BY <1>1 DEF ToAligned
<1>2. CASE WordSize = 8
  BY <1>2 DEF ToAligned
<1>3. QED  BY <1>1, <1>2, Word

LEMMA WholeWords ==
  ASSUME NEW n \in Nat
  PROVE  /\ n \div WordSize \in Nat /\ (n \div WordSize) * WordSize \in 0..n
<1>1. CASE WordSize = 4
  BY <1>1
<1>2. CASE WordSize = 8
  BY <1>2
<1>3. QED  BY <1>1, <1>2, Word

LEMMA InWords ==
  ASSUME NEW w \in Nat, NEW x \in 0..w * WordSize - 1
  PROVE  /\ x % WordSize \in 0..WordSize - 1
         /\ x \div WordSize \in Nat
         /\ (x \div WordSize) * WordSize + (x % WordSize) = x
         /\ (x \div WordSize) * WordSize + WordSize <= w * WordSize
<1>1. CASE WordSize = 4
  BY <1>1
<1>2. CASE WordSize = 8
  BY <1>2
<1>3. QED  BY <1>1, <1>2, Word

LEMMA memsetByBytes ==
  ASSUME NEW D \in SUBSET Nat, NEW m, DOMAIN m = D, NEW s \in Nat, NEW c \in Int, NEW n \in Nat
  PROVE  memset(m, s, c, n) = [a \in D |-> IF a \in s..s + n - 1 THEN c % Byte ELSE m[a]]
<1>1. PICK h : h = IF n < ToAligned(s) THEN n ELSE ToAligned(s)
  OBVIOUS
<1>2. h \in 0..n
  <2>1. ToAligned(s) \in Nat
    BY Aligning, Word
  <2>2. PICK x \in Nat : x = ToAligned(s)
    BY <2>1
  <2>3. h = IF n < x THEN n ELSE x
    BY <1>1, <2>2
  <2>4. QED  BY <2>3
<1>3. PICK w : w = (n - h) \div WordSize
  OBVIOUS
<1>4. PICK y : y = w * WordSize
  OBVIOUS
<1>5. w \in Nat /\ y \in 0..n - h
  BY <1>2, <1>3, <1>4, WholeWords
<1>6. PICK t, r : t = s + h + y /\ r = s + n - t
  OBVIOUS
<1>7. t \in Nat /\ r \in Nat /\ t + r = s + n
  BY <1>2, <1>5, <1>6
<1>8. PICK e : e = c % Byte
  OBVIOUS
<1>9. PICK v : v = word_value(c)
  OBVIOUS
<1>10. PICK m1 : m1 = SetBytes(m, s, c, h)
  OBVIOUS
<1>11. PICK m2 : m2 = SetWords(m1, s + h, v, w)
  OBVIOUS
<1>12. PICK m3 : m3 = SetBytes(m2, t, c, r)
  OBVIOUS
<1>13. memset(m, s, c, n) = m3
  BY <1>1, <1>3, <1>4, <1>6, <1>9, <1>10, <1>11, <1>12 DEF memset
<1>14. m1 = [a \in D |-> IF a \in s..s + h - 1 THEN e ELSE m[a]]
  BY <1>8, <1>10 DEF SetBytes, Byte
<1>15. m2 = [a \in D |-> IF a \in s + h..s + h + y - 1 THEN ByteOf(v, (a - (s + h)) % WordSize)
                         ELSE m1[a]]
  BY <1>14, <1>4, <1>11 DEF SetWords
<1>16. m3 = [a \in D |-> IF a \in t..t + r - 1 THEN e ELSE m2[a]]
  BY <1>15, <1>8, <1>12 DEF SetBytes, Byte
<1>17. ASSUME NEW a \in D
       PROVE  m3[a] = IF a \in s..s + n - 1 THEN e ELSE m[a]
  <2>1. a \in Nat
    OBVIOUS
  <2>2. CASE a \in t..t + r - 1
    BY <1>2, <1>5, <1>6, <1>7, <2>1, <2>2, <1>16
  <2>3. CASE a \in s + h..s + h + y - 1
    <3>1. a \notin t..t + r - 1 /\ a \in s..s + n - 1 /\ a - (s + h) \in 0..y - 1
      BY <1>2, <1>5, <1>6, <1>7, <2>1, <2>3
    <3>2. PICK x : x = a - (s + h)
      OBVIOUS
    <3>3. x % WordSize \in 0..WordSize - 1
      BY <1>4, <1>5, <3>1, <3>2, InWords
    <3>4. ByteOf(v, x % WordSize) = e
      BY <1>8, <1>9, <3>3, ByteInEveryByte
    <3>5. m2[a] = e
      BY <1>15, <2>3, <3>2, <3>4
    <3>6. QED  BY <1>16, <3>1, <3>5
  <2>4. CASE a \notin t..t + r - 1 /\ a \notin s + h..s + h + y - 1
    BY <1>2, <1>5, <1>6, <1>7, <2>1, <2>4, <1>15, <1>16, <1>14
  <2>5. QED  BY <2>2, <2>3, <2>4
<1>18. m3 = [a \in D |-> m3[a]]
  BY <1>16
<1>19. m3 = [a \in D |-> IF a \in s..s + n - 1 THEN e ELSE m[a]]
  BY <1>17, <1>18
<1>20. QED  BY <1>8, <1>13, <1>19

(* Whole words carry their bytes over. *)
LEMMA CopyWordsByBytes ==
  ASSUME NEW D \in SUBSET Nat, NEW m \in [D -> 0..Byte - 1],
         NEW d \in Nat, NEW s \in Nat, NEW w \in Nat,
         s..s + w * WordSize - 1 \subseteq D
  PROVE  CopyWords(m, d, s, w) = CopyBytes(m, d, s, w * WordSize)
<1>1. PICK y : y = w * WordSize
  OBVIOUS
<1>2. y \in Nat
  BY <1>1, Word, ProductSign
<1>3. PICK m2 : m2 = CopyWords(m, d, s, w)
  OBVIOUS
<1>4. m2 = [a \in D |->
              IF a \in d..d + y - 1
              THEN ByteOf(WordAt(m, s + ((a - d) \div WordSize) * WordSize), (a - d) % WordSize)
              ELSE m[a]]
  BY <1>1, <1>3 DEF CopyWords
<1>5. ASSUME NEW a \in D
      PROVE  m2[a] = IF a \in d..d + y - 1 THEN m[s + (a - d)] ELSE m[a]
  <2>1. CASE a \in d..d + y - 1
    <3>1. PICK x : x = a - d
      OBVIOUS
    <3>2. x \in 0..y - 1
      BY <2>1, <3>1, <1>2
    <3>3. PICK k, q : k = (x \div WordSize) * WordSize /\ q = x % WordSize
      OBVIOUS
    <3>4. x \div WordSize \in Nat /\ q \in 0..WordSize - 1 /\ k + q = x /\ k + WordSize <= y
      BY <1>1, <3>2, <3>3, InWords
    <3>5. k \in Nat
      BY <3>3, <3>4, Word, ProductSign
    <3>6. m2[a] = ByteOf(WordAt(m, s + k), q)
      BY <1>4, <2>1, <3>1, <3>3
    <3>7. ASSUME NEW i \in 0..WordSize - 1
          PROVE  m[(s + k) + i] \in 0..Byte - 1
      BY <1>2, <3>4, <3>5, Word, <1>1
    <3>8. s + k \in Int
      BY <3>5
    <3>9. ByteOf(WordAt(m, s + k), q) = m[(s + k) + q]
      BY <3>4, <3>7, <3>8, BytesOfWord
    <3>10. (s + k) + q = s + (a - d)
      BY <3>1, <3>2, <3>4, <3>5
    <3>11. QED  BY <2>1, <3>6, <3>9, <3>10
  <2>2. CASE a \notin d..d + y - 1
    BY <1>4, <2>2
  <2>3. QED  BY <2>1, <2>2
<1>6. m2 = [a \in D |-> m2[a]]
  BY <1>4
<1>7. m2 = [a \in D |-> IF a \in d..d + y - 1 THEN m[s + (a - d)] ELSE m[a]]
  BY <1>5, <1>6
<1>8. QED  BY <1>1, <1>3, <1>7 DEF CopyBytes

(* A copy that C defines. *)
Copies(m, d, s, n) ==
  /\ DOMAIN m \subseteq Nat /\ {d, s, n} \subseteq Nat
  /\ s..s + n - 1 \subseteq DOMAIN m /\ (d..d + n - 1) \cap (s..s + n - 1) = {}

(* It can be made in two parts. *)
LEMMA CopyInParts ==
  ASSUME NEW m, NEW d, NEW s, NEW n, NEW h \in Nat, NEW r \in Nat,
         Copies(m, d, s, n), h + r = n
  PROVE  CopyBytes(CopyBytes(m, d, s, h), d + h, s + h, r) = CopyBytes(m, d, s, n)
<1>0. PICK D : D = DOMAIN m
  OBVIOUS
<1> d \in Nat /\ s \in Nat /\ n \in Nat /\ s..s + n - 1 \subseteq D /\ D \subseteq Nat
    /\ (d..d + n - 1) \cap (s..s + n - 1) = {}
  BY <1>0 DEF Copies
<1>1. PICK m1 : m1 = CopyBytes(m, d, s, h)
  OBVIOUS
<1>2. PICK m2 : m2 = CopyBytes(m1, d + h, s + h, r)
  OBVIOUS
<1>3. m1 = [a \in D |-> IF a \in d..d + h - 1 THEN m[s + (a - d)] ELSE m[a]]
  BY <1>0, <1>1 DEF CopyBytes
<1>4. h + r = n
  OBVIOUS
<1>5. m2 = [a \in D |-> IF a \in d + h..d + h + r - 1 THEN m1[(s + h) + (a - (d + h))]
                        ELSE m1[a]]
  BY <1>3, <1>2, <1>4 DEF CopyBytes
<1>6. ASSUME NEW a \in D
      PROVE  m2[a] = IF a \in d..d + n - 1 THEN m[s + (a - d)] ELSE m[a]
  <2>1. a \in Nat
    OBVIOUS
  <2>2. CASE a \in d + h..d + h + r - 1
    <3>1. PICK b : b = s + (a - d)
      OBVIOUS
    <3>2. b \in s..s + n - 1 /\ a \in d..d + n - 1 /\ (s + h) + (a - (d + h)) = b
      BY <1>4, <2>1, <2>2, <3>1
    <3>3. b \in D /\ b \notin d..d + n - 1
      BY <3>2
    <3>4. b \notin d..d + h - 1
      BY <3>2, <3>3
    <3>5. m1[b] = m[b]
      BY <1>3, <3>3, <3>4
    <3>6. m2[a] = m1[b]
      BY <1>5, <2>2, <3>2
    <3>7. QED  BY <3>1, <3>2, <3>5, <3>6
  <2>3. CASE a \notin d + h..d + h + r - 1
    BY <1>4, <2>1, <2>3, <1>5, <1>3
  <2>4. QED  BY <2>2, <2>3
<1>7. m2 = [a \in D |-> m2[a]]
  BY <1>5
<1>8. m2 = [a \in D |-> IF a \in d..d + n - 1 THEN m[s + (a - d)] ELSE m[a]]
  BY <1>6, <1>7
<1>9. QED  BY <1>0, <1>1, <1>2, <1>8 DEF CopyBytes

LEMMA CopyKeepsMemory ==
  ASSUME NEW D \in SUBSET Nat, NEW m \in [D -> 0..Byte - 1],
         NEW d \in Nat, NEW s \in Nat, NEW n \in Nat, s..s + n - 1 \subseteq D
  PROVE  CopyBytes(m, d, s, n) \in [D -> 0..Byte - 1]
<1>1. ASSUME NEW a \in D
      PROVE  (IF a \in d..d + n - 1 THEN m[s + (a - d)] ELSE m[a]) \in 0..Byte - 1
  <2>1. CASE a \in d..d + n - 1
    BY <2>1
  <2>2. CASE a \notin d..d + n - 1
    BY <2>2
  <2>3. QED  BY <2>1, <2>2
<1>2. QED  BY <1>1 DEF CopyBytes

LEMMA InnerRange ==
  ASSUME NEW s \in Nat, NEW n \in Nat, NEW a \in Nat, NEW b \in Nat, a + b <= n
  PROVE  (s + a)..(s + a) + b - 1 \subseteq s..s + n - 1
  OBVIOUS

LEMMA memcpyByBytes ==
  ASSUME NEW D \in SUBSET Nat, NEW m \in [D -> 0..Byte - 1],
         NEW d \in Nat, NEW s \in Nat, NEW n \in Nat, d # 0, s # 0, Copies(m, d, s, n)
  PROVE  memcpy(m, d, s, n) = CopyBytes(m, d, s, n)
<1>0. /\ s..s + n - 1 \subseteq D
      /\ (d..d + n - 1) \cap (s..s + n - 1) = {}
  BY DEF Copies
<1>1. CASE n = 0
  BY <1>1 DEF memcpy, CopyBytes
<1>2. CASE n # 0
  <2>1. PICK h : h = IF n >= WordSize THEN ToAligned(d) ELSE 0
    OBVIOUS
  <2>2. h \in 0..n
    BY Aligning, <2>1, Word
  <2>3. PICK w : w = (n - h) \div WordSize
    OBVIOUS
  <2>4. PICK y : y = w * WordSize
    OBVIOUS
  <2>5. w \in Nat /\ y \in 0..n - h
    BY <2>2, <2>3, <2>4, WholeWords
  <2>6. PICK m1 : m1 = CopyBytes(m, d, s, h)
    OBVIOUS
  <2>7. PICK m2 : m2 = CopyWords(m1, d + h, s + h, w)
    OBVIOUS
  <2>8. PICK t : t = h + y
    OBVIOUS
  <2>9. t \in 0..n /\ h \in 0..t /\ t - h = y
    BY <2>2, <2>5, <2>8
  <2>10. memcpy(m, d, s, n) = CopyBytes(m2, d + t, s + t, n - t)
    BY <1>2, <2>1, <2>3, <2>4, <2>6, <2>7, <2>8 DEF memcpy
  <2>11. m1 \in [D -> 0..Byte - 1]
    <3>1. s..s + h - 1 \subseteq D
      BY <2>2, InnerRange, <1>0
    <3>2. h \in Nat
      BY <2>2
    <3>3. QED  BY <2>6, <3>1, <3>2, CopyKeepsMemory
  <2>12. m2 = CopyBytes(m1, d + h, s + h, y)
    <3>1. (s + h)..(s + h) + y - 1 \subseteq D
      BY <2>2, <2>5, InnerRange, <1>0
    <3>2. d + h \in Nat /\ s + h \in Nat
      BY <2>2
    <3>3. QED  BY <2>4, <2>5, <2>7, <2>11, <3>1, <3>2, CopyWordsByBytes
  <2>13. m2 = CopyBytes(m, d, s, t)
    <3>1. Copies(m, d, s, t)
      <4>1. t \in Nat /\ 0 + t <= n /\ s + 0 = s /\ d + 0 = d
        BY <2>9
      <4>2. (s + 0)..(s + 0) + t - 1 \subseteq s..s + n - 1
            /\ (d + 0)..(d + 0) + t - 1 \subseteq d..d + n - 1
        BY <4>1, InnerRange
      <4>3. s..s + t - 1 \subseteq s..s + n - 1 /\ d..d + t - 1 \subseteq d..d + n - 1
        BY <4>1, <4>2
      <4>4. s..s + t - 1 \subseteq D /\ (d..d + t - 1) \cap (s..s + t - 1) = {}
        BY <1>0, <4>3
      <4>5. QED  BY <4>1, <4>4 DEF Copies
    <3>2. h \in Nat /\ y \in Nat /\ h + y = t
      BY <2>2, <2>5, <2>8
    <3>3. CopyBytes(CopyBytes(m, d, s, h), d + h, s + h, y) = CopyBytes(m, d, s, t)
      BY <3>1, <3>2, CopyInParts
    <3>4. QED  BY <2>6, <2>12, <3>3
  <2>14. CopyBytes(CopyBytes(m, d, s, t), d + t, s + t, n - t) = CopyBytes(m, d, s, n)
    <3>1. PICK r : r = n - t
      OBVIOUS
    <3>2. t \in Nat /\ r \in Nat /\ t + r = n
      BY <2>9, <3>1
    <3>3. CopyBytes(CopyBytes(m, d, s, t), d + t, s + t, r) = CopyBytes(m, d, s, n)
      <4>1. PICK to : to = n
        OBVIOUS
      <4>2. Copies(m, d, s, to) /\ t + r = to
        BY <3>2, <4>1
      <4>3. CopyBytes(CopyBytes(m, d, s, t), d + t, s + t, r) = CopyBytes(m, d, s, to)
        BY <3>2, <4>2, CopyInParts
      <4>4. QED  BY <4>1, <4>3
    <3>4. QED  BY <3>1, <3>3
  <2>15. QED  BY <2>10, <2>13, <2>14
<1>3. QED  BY <1>1, <1>2
-----------------------------------------------------------------------------
(* The test for a zero byte: from each byte of the word one is taken.      *)

Ones == [k \in 0..WordSize - 1 |-> 1]
low_bits == (2^WordBits - 1) \div (2^ByteBits - 1)
HighBit == 2^(ByteBits - 1)

LEMMA OnesAreBytes == Bytes(Ones) /\ \A k \in 0..WordSize - 1 : Ones[k] = 1
<1>1. \A k \in 0..WordSize - 1 : Ones[k] = 1
  BY DEF Ones
<1>2. PICK b \in Nat \ {0, 1} : b = Byte
  BY Powers
<1>3. 1 \in 0..b - 1
  OBVIOUS
<1>4. QED  BY <1>1, <1>2, <1>3 DEF Bytes

LEMMA LowBitsAreOnes == \E lo : Sums(lo, Ones) /\ low_bits = lo[WordSize]
<1>1. PICK m : m = Ones
  OBVIOUS
<1>2. BytesAt(m, 0) = Ones
  BY <1>1 DEF BytesAt, Ones
<1>3. PICK lo : Sums(lo, Ones)
  BY <1>2, WordIsSum
<1>4. PICK b \in Nat \ {0, 1} : b = Byte
  BY Powers
<1>5. PICK e \in Nat \ {0} : e = b - 1
  OBVIOUS
<1> DEFINE Holds(k) == lo[k] \in Nat /\ e * lo[k] = Power(k) - 1
           S == {k \in 0..WordSize : ~Holds(k)}
<1>6. Holds(0)
  BY <1>3, <1>5, Powers DEF Sums
<1>7. S = {}
  <2> HIDE DEF Holds
  <2> SUFFICES ASSUME S # {} PROVE FALSE
    OBVIOUS
  <2>1. S \in SUBSET Nat
    BY Word
  <2>2. PICK n \in S : \A y \in S : n <= y
    BY <2>1, Least
  <2>3. n \in 0..WordSize /\ ~Holds(n)
    OBVIOUS
  <2>4. n # 0
    BY <1>6, <2>3
  <2>5. PICK k : k = n - 1
    OBVIOUS
  <2>6. k \in 0..WordSize - 1 /\ k \in 0..WordSize /\ n = k + 1 /\ ~(n <= k)
    BY <2>3, <2>4, <2>5, Word
  <2>7. k \notin S
    BY <2>2, <2>6
  <2>8. Holds(k)
    BY <2>6, <2>7
  <2>9. PICK a \in Nat \ {0} : a = Power(k)
    BY <2>6, PowersPositive
  <2>10. PICK x : x = lo[k]
    OBVIOUS
  <2>11. x \in Nat /\ e * x = a - 1
    BY <2>8, <2>9, <2>10 DEF Holds
  <2>12. lo[n] = x + a
    BY <1>3, <2>6, OnesAreBytes, <2>9, <2>10 DEF Sums
  <2>13. Power(n) = a * b
    BY <1>4, <2>6, <2>9, NextPower
  <2>14. e * (x + a) = a * b - 1
    <3>1. e * (x + a) = e * x + e * a
      BY <2>11
    <3>2. a * b = e * a + a
      BY <1>5
    <3>3. PICK y : y = e * a
      OBVIOUS
    <3>4. y \in Int
      BY <3>3
    <3>5. e * (x + a) = (a - 1) + y /\ a * b = y + a
      BY <2>11, <3>1, <3>2, <3>3
    <3>6. (a - 1) + y = (y + a) - 1
      BY <3>4
    <3>7. QED  BY <3>5, <3>6
  <2>15. x + a \in Nat
    BY <2>11
  <2>16. Holds(n)
    BY <2>12, <2>13, <2>14, <2>15 DEF Holds
  <2>17. QED  BY <2>3, <2>16
<1>8. Holds(WordSize)
  <2> HIDE DEF Holds
  <2>1. WordSize \in 0..WordSize
    BY Word
  <2>2. QED  BY <1>7, <2>1
<1>9. PICK x : x = lo[WordSize]
  OBVIOUS
<1>10. x \in Nat /\ e * x = Power(WordSize) - 1
  BY <1>8, <1>9
<1>11. PICK i : i = Power(WordSize) - 1
  OBVIOUS
<1>12. i = e * x + 0 /\ 0 \in 0..e - 1 /\ x \in Int
  BY <1>10, <1>11
<1>13. i \div e = x
  BY <1>12, Divided
<1>14. low_bits = i \div e
  BY <1>4, <1>5, <1>11 DEF low_bits, WordBits, Power, Byte
<1>15. QED  BY <1>3, <1>9, <1>13, <1>14

(* The bytes above a place make a multiple of its power. *)
LEMMA UpperBytes ==
  ASSUME NEW d, NEW u, Bytes(d), Sums(u, d), NEW j \in 0..WordSize
  PROVE  \E r \in Int : u[WordSize] = u[j] + Power(j) * r
<1> DEFINE Holds(k) == \E r \in Int : u[k] = u[j] + Power(j) * r
           S == {k \in j..WordSize : ~Holds(k)}
<1>1. PICK a \in Nat \ {0} : a = Power(j)
  BY PowersPositive
<1>2. PICK t \in Nat : t = u[j]
  BY SumBound
<1>3. Holds(j)
  BY <1>1, <1>2
<1>4. S = {}
  <2> HIDE DEF Holds
  <2> SUFFICES ASSUME S # {} PROVE FALSE
    OBVIOUS
  <2>1. S \in SUBSET Nat
    BY Word
  <2>2. PICK n \in S : \A y \in S : n <= y
    BY <2>1, Least
  <2>3. n \in j..WordSize /\ ~Holds(n)
    OBVIOUS
  <2>4. n # j
    BY <1>3, <2>3
  <2>5. PICK k : k = n - 1
    OBVIOUS
  <2>6. k \in j..WordSize /\ k \in 0..WordSize - 1 /\ n = k + 1 /\ ~(n <= k)
    BY <2>3, <2>4, <2>5, Word
  <2>7. k \notin S
    BY <2>2, <2>6
  <2>8. Holds(k)
    BY <2>6, <2>7
  <2>9. PICK r \in Int : u[k] = t + a * r
    BY <1>1, <1>2, <2>8 DEF Holds
  <2>10. PICK c : c = Power(k - j)
    OBVIOUS
  <2>11. c \in Nat /\ Power(k) = a * c
    <3>1. PICK h : h = k - j
      OBVIOUS
    <3>2. h \in 0..WordSize /\ j + h = k /\ j + h <= WordSize
      BY <2>6, <3>1, Word
    <3>3. Power(j + h) = Power(j) * Power(h)
      BY <3>2, Powers
    <3>4. c \in Nat
      BY <2>10, <3>1, <3>2, PowersPositive
    <3>5. QED  BY <1>1, <2>10, <3>1, <3>2, <3>3, <3>4
  <2>12. PICK e : e = d[k]
    OBVIOUS
  <2>13. e \in Nat
    BY <2>6, <2>12, Powers DEF Bytes
  <2>14. u[n] = (t + a * r) + e * (a * c)
    BY <2>6, <2>9, <2>11, <2>12 DEF Sums
  <2>15. (t + a * r) + e * (a * c) = t + a * (r + e * c)
    BY <2>11, <2>13
  <2>16. r + e * c \in Int
    BY <2>11, <2>13
  <2>17. Holds(n)
    BY <1>1, <1>2, <2>14, <2>15, <2>16 DEF Holds
  <2>18. QED  BY <2>3, <2>17
<1>5. WordSize \in j..WordSize
  BY Word
<1>6. Holds(WordSize)
  <2> HIDE DEF Holds
  <2>1. QED  BY <1>4, <1>5
<1>7. QED  BY <1>6

(* Below the first zero byte nothing is borrowed. *)
LEMMA NothingBorrowed ==
  ASSUME NEW d, NEW u, Bytes(d), Sums(u, d), NEW lo, Sums(lo, Ones),
         NEW z \in 0..WordSize, \A k \in 0..z - 1 : d[k] # 0
  PROVE  \A k \in 0..z : u[k] - lo[k] \in 0..Power(k) - 1
<1> DEFINE Holds(k) == u[k] - lo[k] \in 0..Power(k) - 1
           S == {k \in 0..z : ~Holds(k)}
<1>1. Holds(0)
  BY Powers DEF Sums
<1>2. S = {}
  <2> HIDE DEF Holds
  <2> SUFFICES ASSUME S # {} PROVE FALSE
    OBVIOUS
  <2>1. S \in SUBSET Nat
    OBVIOUS
  <2>2. PICK n \in S : \A y \in S : n <= y
    BY <2>1, Least
  <2>3. n \in 0..z /\ ~Holds(n)
    OBVIOUS
  <2>4. n # 0
    BY <1>1, <2>3
  <2>5. PICK k : k = n - 1
    OBVIOUS
  <2>6. k \in 0..z - 1 /\ k \in 0..z /\ k \in 0..WordSize - 1 /\ n = k + 1 /\ ~(n <= k)
    BY <2>3, <2>4, <2>5, Word
  <2>7. k \notin S
    BY <2>2, <2>6
  <2>8. Holds(k)
    BY <2>6, <2>7
  <2>9. PICK a \in Nat \ {0} : a = Power(k)
    BY <2>6, NextPower, PowersPositive
  <2>10. PICK b \in Nat \ {0} : b = Byte
    BY Powers
  <2>11. PICK e : e = d[k] - 1
    OBVIOUS
  <2>12. d[k] \in 0..b - 1 /\ d[k] # 0
    BY <2>6, <2>10 DEF Bytes
  <2>13. e \in 0..b - 1 /\ d[k] = e + 1
    BY <2>11, <2>12
  <2>14. PICK x, y : x = u[k] /\ y = lo[k]
    OBVIOUS
  <2>15. x \in Int /\ y \in Int
    BY <2>6, NextPower, <2>14, SumBound, OnesAreBytes
  <2>16. PICK w : w = x - y
    OBVIOUS
  <2>17. w \in 0..a - 1
    BY <2>8, <2>9, <2>14, <2>16 DEF Holds
  <2>18. u[n] = x + (e + 1) * a /\ lo[n] = y + a
    BY <2>6, OnesAreBytes, <2>9, <2>13, <2>14 DEF Sums
  <2>19. (x + (e + 1) * a) - (y + a) = w + e * a
    <3>1. (e + 1) * a = e * a + a
      BY <2>13
    <3>2. PICK g \in Int : g = e * a
      BY <2>13
    <3>3. (x + (g + a)) - (y + a) = w + g
      BY <2>15, <2>16
    <3>4. QED  BY <3>1, <3>2, <3>3
  <2>20. w + e * a \in 0..a * b - 1
    BY <2>13, <2>17, OneMoreDigit
  <2>21. Power(n) = a * b
    BY <2>6, <2>9, <2>10, NextPower
  <2>22. Holds(n)
    BY <2>18, <2>19, <2>20, <2>21 DEF Holds
  <2>23. QED  BY <2>3, <2>22
<1>3. QED  BY <1>2

Borrowed(v) == (v - low_bits) % 2^WordBits

LEMMA HasZeroByBytes ==
  ASSUME NEW v
  PROVE  HasZero(v) <=> \E k \in 0..WordSize - 1 :
                          ByteOf(Borrowed(v), k) >= HighBit /\ ~(ByteOf(v, k) >= HighBit)
  BY DEF HasZero, Borrowed, low_bits, HighBit

LEMMA HighBits ==
  HighBit \in Nat \ {0} /\ Byte = 2 * HighBit
  BY Powers DEF HighBit

LEMMA WholeWord == 2^WordBits = Power(WordSize) /\ Power(WordSize) \in Nat \ {0}
  BY Word, PowersPositive DEF WordBits, Power

LEMMA NoZeroNoHit ==
  ASSUME NEW d, NEW u, Bytes(d), Sums(u, d), \A k \in 0..WordSize - 1 : d[k] # 0
  PROVE  ~HasZero(u[WordSize])
<1>1. PICK lo : Sums(lo, Ones) /\ low_bits = lo[WordSize]
  BY LowBitsAreOnes
<1>2. PICK a \in Nat \ {0} : a = Power(WordSize) /\ a = 2^WordBits
  BY WholeWord
<1>3. PICK x : x = u[WordSize] - lo[WordSize]
  OBVIOUS
<1>4. WordSize \in 0..WordSize
  BY Word
<1>5. \A k \in 0..WordSize : u[k] - lo[k] \in 0..Power(k) - 1
  BY <1>1, <1>4, NothingBorrowed
<1>6. x \in 0..a - 1
  BY <1>2, <1>3, <1>4, <1>5
<1>7. x % a = x
  BY <1>6, Divided
<1>8. Borrowed(u[WordSize]) = x
  BY <1>1, <1>2, <1>3, <1>7 DEF Borrowed
<1>9. PICK e : e = [k \in 0..WordSize - 1 |-> d[k] - 1]
  OBVIOUS
<1>10. PICK w : w = [k \in 0..WordSize |-> u[k] - lo[k]]
  OBVIOUS
<1>11. Bytes(e)
  <2>1. PICK b \in Nat \ {0} : b = Byte
    BY Powers
  <2>2. ASSUME NEW k \in 0..WordSize - 1 PROVE e[k] \in 0..b - 1
    <3>1. d[k] \in 0..b - 1 /\ d[k] # 0
      BY <2>1 DEF Bytes
    <3>2. PICK f : f = d[k]
      OBVIOUS
    <3>3. f - 1 \in 0..b - 1
      BY <3>1, <3>2
    <3>4. QED  BY <1>9, <3>2, <3>3
  <2>3. QED  BY <2>1, <2>2 DEF Bytes
<1>12. Sums(w, e)
  <2>1. w[0] = 0
    BY Word, <1>10, <1>1 DEF Sums
  <2>2. ASSUME NEW k \in 0..WordSize - 1
        PROVE  w[k + 1] = w[k] + e[k] * Power(k)
    <3>1. k \in 0..WordSize /\ k + 1 \in 0..WordSize
      BY NextPower
    <3>2. w[k] = u[k] - lo[k] /\ w[k + 1] = u[k + 1] - lo[k + 1]
      BY <1>10, <3>1
    <3>3. PICK p \in Nat : p = Power(k)
      BY <3>1, PowersPositive
    <3>4. PICK f : f = d[k]
      OBVIOUS
    <3>5. f \in Nat
      BY <3>4, Powers DEF Bytes
    <3>6. PICK y, z : y = u[k] /\ z = lo[k]
      OBVIOUS
    <3>7. y \in Int /\ z \in Int
      BY <3>1, <3>6, SumBound, <1>1, OnesAreBytes
    <3>8. u[k + 1] = y + f * p /\ lo[k + 1] = z + 1 * p
      BY <1>1, <3>3, <3>4, <3>6, OnesAreBytes DEF Sums
    <3>9. (y + f * p) - (z + 1 * p) = (y - z) + (f - 1) * p
      <4>1. (f - 1) * p = f * p - p
        BY <3>5
      <4>2. PICK g \in Int : g = f * p
        BY <3>5
      <4>3. (y + g) - (z + p) = (y - z) + (g - p)
        BY <3>7
      <4>4. QED  BY <4>1, <4>2, <4>3
    <3>10. e[k] = f - 1
      BY <1>9, <3>4
    <3>11. QED  BY <3>2, <3>3, <3>6, <3>8, <3>9, <3>10
  <2>3. QED  BY <2>1, <2>2 DEF Sums
<1>13. w[WordSize] = x
  BY <1>3, <1>4, <1>10
<1>14. ASSUME NEW k \in 0..WordSize - 1, ByteOf(x, k) >= HighBit
       PROVE  ByteOf(u[WordSize], k) >= HighBit
  <2>1. ByteOf(x, k) = e[k]
    BY <1>11, <1>12, <1>13, ByteOfSum
  <2>2. ByteOf(u[WordSize], k) = d[k]
    BY ByteOfSum
  <2>3. e[k] = d[k] - 1
    BY <1>9
  <2>4. PICK f : f = d[k]
    OBVIOUS
  <2>5. f \in Nat
    BY <2>4, Powers DEF Bytes
  <2>6. PICK h \in Nat : h = HighBit
    BY HighBits
  <2>7. f - 1 >= h
    BY <1>14, <2>1, <2>3, <2>4, <2>6
  <2>8. f >= h
    BY <2>5, <2>7
  <2>9. QED  BY <2>2, <2>4, <2>6, <2>8
<1>15. QED  BY <1>8, <1>14, HasZeroByBytes

LEMMA ZeroIsHit ==
  ASSUME NEW d, NEW u, Bytes(d), Sums(u, d), NEW y \in 0..WordSize - 1, d[y] = 0
  PROVE  HasZero(u[WordSize])
<1>1. PICK z \in 0..WordSize - 1 : d[z] = 0 /\ \A k \in 0..z - 1 : d[k] # 0
  <2> DEFINE S == {k \in 0..WordSize - 1 : d[k] = 0}
  <2>1. S \in SUBSET Nat /\ S # {}
    OBVIOUS
  <2>2. PICK z \in S : \A k \in S : z <= k
    BY <2>1, Least
  <2>3. z \in 0..WordSize - 1 /\ d[z] = 0
    OBVIOUS
  <2>4. ASSUME NEW k \in 0..z - 1 PROVE d[k] # 0
    BY <2>3, Word, <2>2
  <2>5. QED  BY <2>3, <2>4
<1>2. PICK lo : Sums(lo, Ones) /\ low_bits = lo[WordSize]
  BY LowBitsAreOnes
<1>3. z \in 0..WordSize /\ z + 1 \in 0..WordSize /\ Power(z + 1) = Power(z) * Byte
  BY NextPower
<1>4. PICK a \in Nat \ {0} : a = Power(z)
  BY <1>3, PowersPositive
<1>5. PICK b \in Nat \ {0} : b = Byte
  BY Powers
<1>6. PICK x : x = u[z] - lo[z]
  OBVIOUS
<1>7. x \in 0..a - 1
  BY <1>1, <1>2, <1>3, NothingBorrowed, <1>4, <1>6
<1>8. PICK r1 \in Int : u[WordSize] = u[z + 1] + Power(z + 1) * r1
  BY <1>3, UpperBytes
<1>9. PICK r2 \in Int : lo[WordSize] = lo[z + 1] + Power(z + 1) * r2
  BY <1>2, <1>3, UpperBytes, OnesAreBytes
<1>10. PICK g \in Int : g = a * b
  OBVIOUS
<1>11. Power(z + 1) = g
  BY <1>3, <1>4, <1>5, <1>10
<1>12. PICK p, q : p = u[z] /\ q = lo[z]
  OBVIOUS
<1>13. p \in Int /\ q \in Int /\ x = p - q
  BY <1>3, <1>12, SumBound, <1>2, OnesAreBytes, <1>6
<1>14. u[z + 1] = p /\ lo[z + 1] = q + a
  BY <1>2, <1>1, <1>4, <1>12, OnesAreBytes, <1>13 DEF Sums
<1>15. PICK t \in Nat \ {0} : t = 2^WordBits /\ t = Power(WordSize)
  BY WholeWord
<1>16. PICK c \in Int : t = g * c
  <2>1. PICK h : h = WordSize - (z + 1)
    OBVIOUS
  <2>2. h \in 0..WordSize /\ (z + 1) + h = WordSize /\ (z + 1) + h <= WordSize
    BY <1>3, <2>1, Word
  <2>3. Power((z + 1) + h) = Power(z + 1) * Power(h)
    BY <1>3, <2>2, Powers
  <2>4. Power(h) \in Int
    BY <2>2, PowersPositive
  <2>5. QED  BY <1>11, <1>15, <2>2, <2>3, <2>4
<1>17. PICK l : l = u[WordSize] - low_bits
  OBVIOUS
<1>18. l = (x - a) + g * (r1 - r2)
  <2>1. l = (p + g * r1) - ((q + a) + g * r2)
    BY <1>2, <1>8, <1>9, <1>11, <1>14, <1>17
  <2>2. g * (r1 - r2) = g * r1 - g * r2
    OBVIOUS
  <2>3. PICK i, j : i = g * r1 /\ j = g * r2
    OBVIOUS
  <2>4. i \in Int /\ j \in Int
    BY <2>3
  <2>5. (p + i) - ((q + a) + j) = (x - a) + (i - j)
    BY <1>13, <2>4
  <2>6. QED  BY <2>1, <2>2, <2>3, <2>5
<1>19. PICK less, o : less = l % t /\ o = l \div t
  OBVIOUS
<1>20. less \in Int /\ o \in Int /\ l = t * o + less
  BY <1>7, <1>18, QuotientBounds, <1>19
<1>21. PICK e : e = b - 1
  OBVIOUS
<1>22. e \in 0..b - 1
  BY <1>21
<1>23. PICK s : s = r1 - r2 - c * o - 1
  OBVIOUS
<1>24. s \in Int
  BY <1>20, <1>23
<1>25. less = (x + e * a) + g * s
  <2>1. t * o = g * (c * o)
    BY <1>20, <1>16
  <2>2. PICK f : f = c * o
    OBVIOUS
  <2>3. f \in Int
    BY <1>20, <2>2
  <2>4. g * s = g * (r1 - r2) - g * f - g
    <3>1. s = (r1 - r2) - f - 1
      BY <1>23, <2>2
    <3>2. PICK r \in Int : r = r1 - r2
      OBVIOUS
    <3>3. g * (r - f - 1) = g * r - g * f - g
      BY <2>3
    <3>4. QED  BY <3>1, <3>2, <3>3
  <2>5. e * a = g - a
    BY <1>10, <1>21
  <2>6. PICK i, j : i = g * (r1 - r2) /\ j = g * f
    OBVIOUS
  <2>7. i \in Int /\ j \in Int
    BY <2>3, <2>6
  <2>8. (x - a) + i = j + less
    BY <1>18, <1>20, <2>1, <2>2, <2>6
  <2>9. less = (x + (g - a)) + (i - j - g)
    BY <1>7, <1>20, <2>7, <2>8
  <2>10. QED  BY <2>4, <2>5, <2>6, <2>9
<1>26. (less \div a) % b = e
  <2>1. PICK n : n = x + e * a
    OBVIOUS
  <2>2. n \in Int
    BY <1>7, <1>22, <2>1
  <2>3. (n \div a) % b = e
    BY <1>7, <1>22, <2>1, TopDigit
  <2>4. IsAbove(less, n, a * b, s)
    BY <1>10, <1>25, <2>1 DEF IsAbove
  <2>5. Digit(less, a, b) = Digit(n, a, b)
    BY <1>24, <2>2, <2>4, LowerDigit
  <2>6. QED  BY <2>3, <2>5 DEF Digit
<1>27. ByteOf(Borrowed(u[WordSize]), z) = e
  BY <1>15, <1>17, <1>19, <1>4, <1>5, <1>26 DEF Borrowed, ByteOf, Power, Byte
<1>28. ByteOf(u[WordSize], z) = 0
  BY <1>1, ByteOfSum
<1>29. e >= HighBit /\ ~(0 >= HighBit)
  <2>1. PICK h \in Nat \ {0} : h = HighBit /\ b = 2 * h
    BY <1>5, HighBits
  <2>2. e = 2 * h - 1
    BY <1>21, <2>1
  <2>3. e >= h /\ ~(0 >= h)
    BY <2>2
  <2>4. QED  BY <2>1, <2>3
<1>30. QED  BY <1>27, <1>28, <1>29, HasZeroByBytes

(* The test finds a zero byte exactly where there is one. *)
LEMMA HasZeroExact ==
  ASSUME NEW m, NEW p \in Int, \A k \in 0..WordSize - 1 : m[p + k] \in 0..Byte - 1
  PROVE  HasZero(WordAt(m, p)) <=> \E k \in 0..WordSize - 1 : m[p + k] = 0
<1>1. PICK d : d = BytesAt(m, p)
  OBVIOUS
<1>2. \A k \in 0..WordSize - 1 : d[k] = m[p + k]
  BY <1>1 DEF BytesAt
<1>3. Bytes(d)
  BY <1>2 DEF Bytes
<1>4. PICK u : Sums(u, d) /\ WordAt(m, p) = u[WordSize]
  BY <1>1, WordIsSum
<1>5. ASSUME NEW k \in 0..WordSize - 1, m[p + k] = 0 PROVE HasZero(WordAt(m, p))
  BY <1>2, <1>5, <1>3, <1>4, ZeroIsHit
<1>6. ASSUME \A k \in 0..WordSize - 1 : m[p + k] # 0 PROVE ~HasZero(WordAt(m, p))
  BY <1>2, <1>6, <1>3, <1>4, NoZeroNoHit
<1>7. QED  BY <1>5, <1>6
-----------------------------------------------------------------------------
(* strlen: byte by byte to the first word, then by words.                  *)

LEMMA InWord ==
  ASSUME NEW a \in Nat
  PROVE  /\ a % WordSize \in 0..WordSize - 1 /\ a - (a % WordSize) \in 0..a
         /\ (a - (a % WordSize)) % WordSize = 0
         /\ \A b \in Nat : b % WordSize = 0 /\ b <= a => b <= a - (a % WordSize)
<1>1. CASE WordSize = 4
  BY <1>1
<1>2. CASE WordSize = 8
  BY <1>2
<1>3. QED  BY <1>1, <1>2, Word

LEMMA SameWord ==
  ASSUME NEW h \in Nat, h % WordSize = 0, NEW j \in 0..WordSize - 1, NEW k \in 0..WordSize - 1
  PROVE  (h + j) \div WordSize = (h + k) \div WordSize
<1>1. CASE WordSize = 4
  BY <1>1
<1>2. CASE WordSize = 8
  BY <1>2
<1>3. QED  BY <1>1, <1>2, Word

WholeWordsIn(D) == \A a \in D, k \in 0..WordSize - 1 : a - (a % WordSize) + k \in D

EndsAt(m, D, str, end) ==
  /\ D \subseteq Nat /\ m \in [D -> 0..Byte - 1] /\ WholeWordsIn(D)
  /\ str \in Nat /\ end \in Nat /\ str <= end /\ str..end \subseteq D /\ m[end] = 0

(* What strlen is to find, and what it may read. *)
IsLength(m, str, len) ==
  len \in Nat /\ m[str + len] = 0 /\ \A k \in 0..len - 1 : m[str + k] # 0

InWordsOf(str, len, read) ==
  \A a \in read : \E k \in 0..len : a \div WordSize = (str + k) \div WordSize

LEMMA EarlyEnd ==
  ASSUME NEW m, NEW str \in Nat, NEW first \in Nat, str <= first, m[first] = 0,
         \A a \in str..first - 1 : m[a] # 0
  PROVE  IsLength(m, str, first - str) /\ InWordsOf(str, first - str, str..first)
<1>1. PICK n : n = first - str
  OBVIOUS
<1>2. n \in Nat /\ str + n = first
  BY <1>1
<1>3. ASSUME NEW k \in 0..n - 1 PROVE m[str + k] # 0
  BY <1>2
<1>4. ASSUME NEW a \in str..first
      PROVE  \E k \in 0..n : a \div WordSize = (str + k) \div WordSize
  <2>1. PICK k : k = a - str
    OBVIOUS
  <2>2. k \in 0..n /\ str + k = a
    BY <1>2, <2>1
  <2>3. QED  BY <2>2
<1>5. IsLength(m, str, n)
  BY <1>2, <1>3 DEF IsLength
<1>6. InWordsOf(str, n, str..first)
  BY <1>4 DEF InWordsOf
<1>7. QED  BY <1>1, <1>5, <1>6

HasByte(m, w) == \E k \in 0..WordSize - 1 : m[w + k] = 0

LEMMA HitInWord ==
  ASSUME NEW D, NEW m \in [D -> 0..Byte - 1], WholeWordsIn(D), D \subseteq Nat,
         NEW w \in D, w % WordSize = 0
  PROVE  HasZero(WordAt(m, w)) <=> HasByte(m, w)
<1>1. w \in Nat
  OBVIOUS
<1>2. ASSUME NEW k \in 0..WordSize - 1 PROVE m[w + k] \in 0..Byte - 1
  <2>1. w - (w % WordSize) + k \in D
    BY DEF WholeWordsIn
  <2>2. w - (w % WordSize) + k = w + k
    BY <1>1, Word
  <2>3. w + k \in D
    BY <2>1, <2>2
  <2>4. QED  BY <2>3
<1>3. w \in Int
  BY <1>1
<1>4. QED  BY <1>2, <1>3, HasZeroExact DEF HasByte

(* The string ends behind base, where the words begin. *)
EndsLate(m, D, str, end, base) ==
  /\ EndsAt(m, D, str, end) /\ base = str + ToAligned(str)
  /\ \A a \in str..base - 1 : m[a] # 0

WordsFrom(D, base) == {w \in D : base <= w /\ w % WordSize = 0}

IsHit(m, words, w) ==
  HasZero(WordAt(m, w)) /\ \A u \in words : u < w => ~HasZero(WordAt(m, u))

IsByte(m, hit, b) ==
  /\ b = WordSize - 1 \/ m[hit + b] = 0
  /\ \A c \in 0..b - 1 : m[hit + c] # 0

LEMMA StringFacts ==
  ASSUME NEW m, NEW D, NEW str, NEW end, EndsAt(m, D, str, end)
  PROVE  /\ D \in SUBSET Nat /\ m \in [D -> 0..Byte - 1] /\ WholeWordsIn(D)
         /\ str \in Nat /\ end \in Nat /\ str <= end /\ end \in D /\ m[end] = 0
         /\ \A a \in Nat : str <= a /\ a <= end => a \in D
  BY DEF EndsAt

LEMMA BaseFacts ==
  ASSUME NEW m, NEW D, NEW str, NEW end, NEW base, EndsLate(m, D, str, end, base)
  PROVE  base \in Nat /\ str <= base /\ base <= end /\ base % WordSize = 0
<1>1. str \in Nat /\ end \in Nat /\ str <= end /\ m[end] = 0
  BY StringFacts DEF EndsLate
<1>2. base \in Nat /\ str <= base /\ base % WordSize = 0
  <2>1. ToAligned(str) \in Nat /\ (str + ToAligned(str)) % WordSize = 0
    BY <1>1, Aligning, Word
  <2>2. PICK x : x = ToAligned(str)
    OBVIOUS
  <2>3. base = str + x
    BY <2>2 DEF EndsLate
  <2>4. QED  BY <1>1, <2>1, <2>2, <2>3
<1>3. end \notin str..base - 1
  BY <1>1 DEF EndsLate
<1>4. QED  BY <1>1, <1>2, <1>3

(* The word that an address lies in. *)
LEMMA WordOf ==
  ASSUME NEW D \in SUBSET Nat, WholeWordsIn(D), NEW a \in D,
         NEW base \in Nat, base % WordSize = 0, base <= a
  PROVE  \E w \in WordsFrom(D, base), k \in 0..WordSize - 1 : a = w + k
<1>1. PICK q : q = a % WordSize
  OBVIOUS
<1>2. PICK w : w = a - q
  OBVIOUS
<1>3. a \in Nat
  OBVIOUS
<1>4. q \in 0..WordSize - 1 /\ w \in 0..a /\ w % WordSize = 0 /\ base <= w
  BY <1>1, <1>2, <1>3, InWord
<1>5. w \in D
  BY Word, <1>1, <1>2, <1>4 DEF WholeWordsIn
<1>6. a = w + q
  BY <1>4, <1>2, <1>3
<1>7. w \in WordsFrom(D, base)
  BY <1>4, <1>5 DEF WordsFrom
<1>8. QED  BY <1>4, <1>6, <1>7

LEMMA LastWord ==
  ASSUME NEW m, NEW D, NEW str, NEW end, NEW base, EndsLate(m, D, str, end, base)
  PROVE  \E w \in WordsFrom(D, base) : w <= end /\ HasZero(WordAt(m, w))
<1>1. /\ D \in SUBSET Nat /\ m \in [D -> 0..Byte - 1] /\ WholeWordsIn(D)
      /\ end \in Nat /\ end \in D /\ m[end] = 0
  BY StringFacts DEF EndsLate
<1>2. base \in Nat /\ base <= end /\ base % WordSize = 0
  BY BaseFacts
<1>3. PICK w \in WordsFrom(D, base), k \in 0..WordSize - 1 : end = w + k
  BY <1>1, <1>2, WordOf
<1>4. w \in D /\ w % WordSize = 0 /\ w \in Nat
  BY <1>1 DEF WordsFrom
<1>5. m[w + k] = 0
  BY <1>1, <1>3
<1>6. HasZero(WordAt(m, w))
  BY <1>3, <1>5, <1>1, <1>4, HitInWord DEF HasByte
<1>7. w <= end
  BY <1>3, <1>4
<1>8. QED  BY <1>6, <1>7

LEMMA HitExists ==
  ASSUME NEW m, NEW D, NEW str, NEW end, NEW base, EndsLate(m, D, str, end, base)
  PROVE  \E w \in WordsFrom(D, base) : IsHit(m, WordsFrom(D, base), w)
<1>1. PICK words : words = WordsFrom(D, base)
  OBVIOUS
<1>2. words \in SUBSET Nat
  BY <1>1, StringFacts DEF WordsFrom, EndsLate
<1> DEFINE S == {w \in words : HasZero(WordAt(m, w))}
<1>3. S \in SUBSET Nat /\ S # {}
  BY <1>1, LastWord, <1>2
<1>4. PICK w \in S : \A u \in S : w <= u
  BY <1>3, Least
<1>5. w \in words /\ w \in Nat /\ HasZero(WordAt(m, w))
  BY <1>2
<1>6. ASSUME NEW u \in words, u < w PROVE ~HasZero(WordAt(m, u))
  BY <1>2, <1>5, <1>6, <1>4
<1>7. IsHit(m, words, w)
  BY <1>5, <1>6 DEF IsHit
<1>8. QED  BY <1>1, <1>5, <1>7

LEMMA HitFacts ==
  ASSUME NEW m, NEW D, NEW str, NEW end, NEW base, EndsLate(m, D, str, end, base),
         NEW hit \in WordsFrom(D, base), IsHit(m, WordsFrom(D, base), hit)
  PROVE  /\ hit \in Nat /\ hit \in D /\ base <= hit /\ hit % WordSize = 0 /\ hit <= end
         /\ \E k \in 0..WordSize - 1 : m[hit + k] = 0
<1>1. D \in SUBSET Nat /\ m \in [D -> 0..Byte - 1] /\ WholeWordsIn(D) /\ end \in Nat
  BY StringFacts DEF EndsLate
<1>2. hit \in Nat /\ hit \in D /\ base <= hit /\ hit % WordSize = 0
  BY <1>1 DEF WordsFrom
<1>3. PICK w \in WordsFrom(D, base) : w <= end /\ HasZero(WordAt(m, w))
  BY LastWord
<1>4. w \in Nat
  BY <1>1, <1>3 DEF WordsFrom
<1>5. ~(w < hit)
  BY <1>3 DEF IsHit
<1>6. hit <= end
  BY <1>1, <1>2, <1>3, <1>4, <1>5
<1>7. HasZero(WordAt(m, hit))
  BY DEF IsHit
<1>8. HasByte(m, hit)
  BY <1>1, <1>2, HitInWord, <1>7
<1>9. QED  BY <1>2, <1>6, <1>8 DEF HasByte

LEMMA ByteExists ==
  ASSUME NEW m, NEW hit, \E k \in 0..WordSize - 1 : m[hit + k] = 0
  PROVE  \E b \in 0..WordSize - 1 : IsByte(m, hit, b)
<1> DEFINE S == {k \in 0..WordSize - 1 : m[hit + k] = 0}
<1>1. S \in SUBSET Nat /\ S # {}
  OBVIOUS
<1>2. PICK b \in S : \A k \in S : b <= k
  BY <1>1, Least
<1>3. b \in 0..WordSize - 1 /\ m[hit + b] = 0
  OBVIOUS
<1>4. ASSUME NEW c \in 0..b - 1 PROVE m[hit + c] # 0
  BY <1>3, Word, <1>2
<1>5. QED  BY <1>3, <1>4 DEF IsByte

LEMMA ByteIsZero ==
  ASSUME NEW m, NEW hit, NEW byte \in 0..WordSize - 1, IsByte(m, hit, byte),
         \E k \in 0..WordSize - 1 : m[hit + k] = 0
  PROVE  m[hit + byte] = 0
<1> SUFFICES ASSUME m[hit + byte] # 0 PROVE FALSE
  OBVIOUS
<1>1. byte = WordSize - 1 /\ \A c \in 0..byte - 1 : m[hit + c] # 0
  BY DEF IsByte
<1>2. PICK k \in 0..WordSize - 1 : m[hit + k] = 0
  OBVIOUS
<1>3. k \notin 0..byte - 1
  BY <1>1, <1>2
<1>4. k = byte
  BY <1>1, <1>3, Word
<1>5. QED  BY <1>2, <1>4

(* No word before the hit has a zero. *)
LEMMA NoneBefore ==
  ASSUME NEW m, NEW D, NEW str, NEW end, NEW base, EndsLate(m, D, str, end, base),
         NEW hit \in WordsFrom(D, base), IsHit(m, WordsFrom(D, base), hit),
         NEW a \in Nat, base <= a, a < hit
  PROVE  m[a] # 0
<1>1. /\ D \in SUBSET Nat /\ m \in [D -> 0..Byte - 1] /\ WholeWordsIn(D)
      /\ str \in Nat /\ end \in Nat
  BY StringFacts DEF EndsLate
<1>2. hit \in Nat /\ hit <= end
  BY HitFacts
<1>3. base \in Nat /\ str <= base /\ base % WordSize = 0
  BY BaseFacts
<1>4. a \in D
  BY <1>1, <1>2, <1>3, StringFacts DEF EndsLate
<1>5. PICK w \in WordsFrom(D, base), k \in 0..WordSize - 1 : a = w + k
  BY <1>1, <1>3, <1>4, WordOf
<1>6. w \in D /\ w % WordSize = 0 /\ w \in Nat
  BY <1>1 DEF WordsFrom
<1>7. w < hit
  BY <1>2, <1>5, <1>6
<1>8. ~HasZero(WordAt(m, w))
  BY <1>7 DEF IsHit
<1>9. ~ \E i \in 0..WordSize - 1 : m[w + i] = 0
  BY <1>1, <1>6, <1>8, HitInWord DEF HasByte
<1>10. QED  BY <1>5, <1>9

LEMMA LateEnd ==
  ASSUME NEW m, NEW D, NEW str, NEW end, NEW base, EndsLate(m, D, str, end, base),
         NEW hit \in WordsFrom(D, base), IsHit(m, WordsFrom(D, base), hit),
         NEW byte \in 0..WordSize - 1, IsByte(m, hit, byte), NEW len, len = hit + byte - str
  PROVE  IsLength(m, str, len) /\ InWordsOf(str, len, str..hit + WordSize - 1)
<1>1. str \in Nat
  BY StringFacts DEF EndsLate
<1>2. base \in Nat /\ str <= base
  BY BaseFacts
<1>3. /\ hit \in Nat /\ base <= hit /\ hit % WordSize = 0
      /\ \E k \in 0..WordSize - 1 : m[hit + k] = 0
  BY HitFacts
<1>4. m[hit + byte] = 0
  BY <1>3, ByteIsZero
<1>5. byte \in Nat /\ byte < WordSize
  BY Word
<1>6. len \in Nat /\ str + len = hit + byte
  BY <1>1, <1>2, <1>3, <1>5
<1>7. ASSUME NEW k \in 0..len - 1 PROVE m[str + k] # 0
  <2>1. PICK a : a = str + k
    OBVIOUS
  <2>2. a \in Nat /\ str <= a /\ a < hit + byte
    BY <1>1, <1>6, <2>1
  <2>3. CASE a < base
    BY <1>1, <1>2, <2>2, <2>3, <2>1 DEF EndsLate
  <2>4. CASE hit <= a
    <3>1. PICK c : c = a - hit
      OBVIOUS
    <3>2. c \in 0..byte - 1 /\ hit + c = a
      BY <1>3, <1>5, <2>2, <2>4, <3>1
    <3>3. m[hit + c] # 0
      BY <3>2 DEF IsByte
    <3>4. QED  BY <2>1, <3>2, <3>3
  <2>5. CASE base <= a /\ a < hit
    BY <2>1, <2>2, <2>5, NoneBefore
  <2>6. QED  BY <1>2, <1>3, <2>2, <2>3, <2>4, <2>5
<1>8. ASSUME NEW a \in str..hit + WordSize - 1
      PROVE  \E k \in 0..len : a \div WordSize = (str + k) \div WordSize
  <2>1. a \in Nat /\ str <= a /\ a < hit + WordSize
    BY <1>1, <1>3, Word
  <2>2. CASE a <= str + len
    <3>1. PICK k : k = a - str
      OBVIOUS
    <3>2. k \in 0..len /\ str + k = a
      BY <1>1, <1>6, <2>1, <2>2, <3>1
    <3>3. QED  BY <3>2
  <2>3. CASE ~(a <= str + len)
    <3>1. PICK j : j = a - hit
      OBVIOUS
    <3>2. j \in 0..WordSize - 1 /\ hit + j = a
      BY <1>1, <1>3, <1>5, <1>6, <2>1, <2>3, <3>1, Word
    <3>3. (hit + j) \div WordSize = (hit + byte) \div WordSize
      BY <1>3, <3>2, SameWord
    <3>4. len \in 0..len
      BY <1>6
    <3>5. QED  BY <1>6, <3>2, <3>3, <3>4
  <2>4. QED  BY <2>2, <2>3
<1>9. IsLength(m, str, len)
  BY <1>4, <1>6, <1>7 DEF IsLength
<1>10. InWordsOf(str, len, str..hit + WordSize - 1)
  BY <1>8 DEF InWordsOf
<1>11. QED  BY <1>9, <1>10

LEMMA strlenFinds ==
  ASSUME NEW m, NEW D, NEW str, NEW end, EndsAt(m, D, str, end)
  PROVE  /\ IsLength(m, str, strlen(m, str).len)
         /\ InWordsOf(str, strlen(m, str).len, strlen(m, str).read)
<1>1. PICK base : base = str + ToAligned(str)
  OBVIOUS
<1>2. PICK early : early = {a \in str..base - 1 : m[a] = 0}
  OBVIOUS
<1>3. DOMAIN m = D /\ str \in Nat
  BY StringFacts
<1>4. CASE early # {}
  <2> DEFINE IsFirst(a) == \A b \in early : a <= b
  <2>1. PICK first : first = CHOOSE a \in early : IsFirst(a)
    OBVIOUS
  <2>2. strlen(m, str) = [len |-> first - str, read |-> str..first]
    BY <1>1, <1>2, <1>4, <2>1 DEF strlen
  <2>3. base \in Nat
    <3>1. ToAligned(str) \in Nat
      BY <1>3, Aligning, Word
    <3>2. QED  BY <1>1, <1>3, <3>1
  <2>4. first \in early /\ IsFirst(first)
    <3>1. early \in SUBSET Nat
      BY <1>2, <1>3
    <3>2. \E a \in early : IsFirst(a)
      BY <1>4, <3>1, Least
    <3> HIDE DEF IsFirst
    <3>3. QED  BY <2>1, <3>2
  <2>5. first \in Nat /\ str <= first /\ first <= base - 1 /\ m[first] = 0
    BY <1>2, <2>4, <1>3, <2>3
  <2>6. ASSUME NEW a \in str..first - 1 PROVE m[a] # 0
    BY <1>3, <2>3, <2>5, <2>4, <1>2
  <2>7. IsLength(m, str, first - str) /\ InWordsOf(str, first - str, str..first)
    BY <1>3, <2>5, <2>6, EarlyEnd
  <2>8. QED  BY <2>2, <2>7
<1>5. CASE early = {}
  <2>1. EndsLate(m, D, str, end, base)
    BY <1>1, <1>2, <1>5 DEF EndsLate
  <2>2. PICK words : words = WordsFrom(D, base)
    OBVIOUS
  <2>3. PICK hit : hit = CHOOSE w \in words : IsHit(m, words, w)
    OBVIOUS
  <2>4. hit \in words /\ IsHit(m, words, hit)
    BY <2>1, <2>2, HitExists, <2>3
  <2>5. PICK byte : byte = CHOOSE b \in 0..WordSize - 1 : IsByte(m, hit, b)
    OBVIOUS
  <2>6. byte \in 0..WordSize - 1 /\ IsByte(m, hit, byte)
    BY <2>1, <2>2, <2>4, HitFacts, ByteExists, <2>5
  <2>7. PICK len : len = hit + byte - str
    OBVIOUS
  <2>8. strlen(m, str) = [len |-> len, read |-> str..hit + WordSize - 1]
    BY <1>1, <1>2, <1>3, <1>5, <2>2, <2>3, <2>5, <2>7 DEF strlen, WordsFrom, IsHit, IsByte
  <2>9. IsLength(m, str, len) /\ InWordsOf(str, len, str..hit + WordSize - 1)
    BY <2>1, <2>2, <2>4, <2>6, <2>7, LateEnd
  <2>10. QED  BY <2>8, <2>9
<1>6. QED  BY <1>4, <1>5
-----------------------------------------------------------------------------
(* One call at a time: the other part of the library is idle.              *)

LEMMA IdleStays == FormatterIdle /\ [LibraryNext]_<<vars, memVars>> => FormatterIdle'
<1> SUFFICES ASSUME FormatterIdle, [LibraryNext]_<<vars, memVars>> PROVE FormatterIdle'
  OBVIOUS
<1>1. status = "returned"
  BY DEF FormatterIdle
<1>2. ~Next
  BY <1>1 DEF Next, PutLiteral, ConvertInteger, ConvertPointer, ConvertChar, ConvertString,
              ConvertOther, Terminate, AtDirective, Running
<1>3. UNCHANGED vars
  BY <1>2 DEF LibraryNext
<1>4. QED  BY <1>3 DEF FormatterIdle, vars

LEMMA IdleIsFine == FormatterIdle /\ ArgumentsMatch => TruncatedLikeC /\ ReadsLikeC
<1> SUFFICES ASSUME FormatterIdle, ArgumentsMatch PROVE TruncatedLikeC /\ ReadsLikeC
  OBVIOUS
<1>1. call = NoCall /\ pos = 1 /\ va = << >> /\ idx = 0 /\ status = "returned"
      /\ last = << >> /\ full = << >> /\ mem = [i \in 0..MemSize - 1 |-> "old"]
  BY DEF FormatterIdle
<1>2. call.fn = "none" /\ call.va = << >> /\ call.format = <<"NUL">>
  BY <1>1 DEF NoCall
<1>3. Len(va) <= Len(call.va) /\ idx = Len(full) /\ pos \in DOMAIN Format
  BY <1>1, <1>2 DEF Format
<1>4. TypeOK
  BY <1>1, <1>3 DEF TypeOK
<1>5. NothingBeyondCount
  BY <1>1 DEF NothingBeyondCount
<1>6. ~ToBuffer
  BY <1>2 DEF ToBuffer
<1>7. TruncatedLikeC
  BY <1>4, <1>5, <1>6 DEF TruncatedLikeC
<1>8. ReadsLikeC
  BY <1>1 DEF ReadsLikeC
<1>9. QED  BY <1>7, <1>8

LEMMA FormatterHolds == LibrarySpec /\ []ArgumentsMatch => [](Inv \/ FormatterIdle)
<1>1. LibraryInit => Inv \/ FormatterIdle
  BY InitInv DEF LibraryInit
<1>2. (Inv \/ FormatterIdle) /\ ArgumentsMatch /\ [LibraryNext]_<<vars, memVars>>
      => (Inv \/ FormatterIdle)'
  BY IdleStays, NextKeepsInv DEF LibraryNext
<1>3. QED  BY <1>1, <1>2, PTL DEF LibrarySpec

(* As long as the caller's arguments fit the format, nothing is written at *)
(* or behind count, and a text that does not fit is cut as C cuts it       *)
(* (_out_buffer, _vsnprintf): whatever the widths, precisions and flags.   *)
THEOREM TextCutAtCount == LibrarySpec /\ []ArgumentsMatch => []TruncatedLikeC
<1>1. Inv /\ ArgumentsMatch => TruncatedLikeC
  BY DEF Inv, Cut, TruncatedLikeC, TypeOK
<1>2. QED  BY <1>1, IdleIsFine, FormatterHolds, PTL

(* As long as the caller's arguments fit the format, the loops of %s end    *)
(* at the first NUL, or one character behind a precision that comes before *)
(* it, and read everything in front of that (_strnlen_s, _vsnprintf).      *)
THEOREM StringsReadLikeC == LibrarySpec /\ []ArgumentsMatch => []ReadsLikeC
<1>1. Inv => ReadsLikeC
  BY DEF Inv
<1>2. QED  BY <1>1, IdleIsFine, FormatterHolds, PTL
-----------------------------------------------------------------------------
(* The calls into memory.c.                                                *)

LEMMA JobFacts ==
  ASSUME NEW j \in Jobs, NEW D, D = DOMAIN j.bytes
  PROVE  /\ D \in SUBSET Nat /\ j.bytes \in [D -> 0..Byte - 1] /\ WholeWordsIn(D)
         /\ j.dest \in Nat /\ j.src \in Nat /\ j.n \in Nat /\ j.c \in Int
         /\ j.fn = "memcpy" /\ j.dest # 0 /\ j.src # 0 =>
              /\ j.src..j.src + j.n - 1 \subseteq D
              /\ (j.dest..j.dest + j.n - 1) \cap (j.src..j.src + j.n - 1) = {}
         /\ j.fn = "strlen" => \E end : EndsAt(j.bytes, D, j.src, end)
<1>1. /\ {j.dest, j.src, j.n} \cup D \subseteq Nat /\ j.c \in Int
      /\ j.bytes \in [D -> 0..Byte - 1]
  BY JobsAssumption DEF Byte
<1>2. D \in SUBSET Nat /\ j.dest \in Nat /\ j.src \in Nat /\ j.n \in Nat
  BY <1>1
<1>3. WholeWordsIn(D)
  BY JobsAssumption DEF WholeWordsIn
<1>4. ASSUME j.fn = "memcpy", j.dest # 0, j.src # 0
      PROVE  /\ j.src..j.src + j.n - 1 \subseteq D
             /\ (j.dest..j.dest + j.n - 1) \cap (j.src..j.src + j.n - 1) = {}
  <2>1. PICK to, from : to = j.dest..j.dest + j.n - 1 /\ from = j.src..j.src + j.n - 1
    OBVIOUS
  <2>2. to \cup from \subseteq D /\ to \cap from = {}
    BY <1>4, <2>1, JobsAssumption
  <2>3. from \subseteq D
    BY <2>2
  <2>4. QED  BY <2>1, <2>2, <2>3
<1>5. ASSUME j.fn = "strlen" PROVE \E end : EndsAt(j.bytes, D, j.src, end)
  <2>1. PICK end \in D : j.src..end \subseteq D /\ j.src <= end /\ j.bytes[end] = 0
    BY <1>5, JobsAssumption
  <2>2. end \in Nat
    BY <1>2
  <2>3. EndsAt(j.bytes, D, j.src, end)
    BY <1>1, <1>2, <1>3, <2>1, <2>2 DEF EndsAt
  <2>4. QED  BY <2>3
<1>6. QED  BY <1>1, <1>2, <1>3, <1>4, <1>5

MemInv ==
  /\ done \in BOOLEAN
  /\ ~done => job \in Jobs /\ bytes = job.bytes
  /\ MemoryAsByBytes
  /\ StrlenExact

(* What the memory is to be after a call that began with m. *)
AsByBytes(m, j) ==
  [a \in DOMAIN m |->
     CASE j.fn = "memset" /\ a \in j.dest..j.dest + j.n - 1 -> j.c % 2^ByteBits
       [] j.fn = "memcpy" /\ j.dest # 0 /\ j.src # 0
          /\ a \in j.dest..j.dest + j.n - 1 -> j.bytes[j.src + (a - j.dest)]
       [] OTHER -> j.bytes[a]]

LEMMA IdleIsInv == MemIdle => MemInv
<1> SUFFICES ASSUME MemIdle PROVE MemInv
  OBVIOUS
<1>1. job = NoJob /\ bytes = << >> /\ done = TRUE
  BY DEF MemIdle
<1>2. job.fn = "none"
  BY <1>1 DEF NoJob
<1>3. bytes = AsByBytes(bytes, job)
  <2>1. << >> \in Seq({})
    OBVIOUS
  <2>2. PICK s : s = << >>
    OBVIOUS
  <2>3. s = [i \in 1..Len(s) |-> s[i]] /\ Len(s) = 0
    BY <2>1, <2>2
  <2>4. DOMAIN s = {} /\ s = [i \in {} |-> s[i]]
    BY <2>3
  <2>5. bytes = s
    BY <1>1, <2>2
  <2>6. AsByBytes(s, job) = [i \in {} |-> s[i]]
    BY <2>4 DEF AsByBytes
  <2>7. QED  BY <2>4, <2>5, <2>6
<1>4. MemoryAsByBytes
  BY <1>3 DEF MemoryAsByBytes, AsByBytes
<1>5. StrlenExact
  BY <1>2 DEF StrlenExact
<1>6. QED  BY <1>1, <1>4, <1>5 DEF MemInv

LEMMA MemInitInv == MemInit => MemInv
<1> SUFFICES ASSUME MemInit PROVE MemInv
  OBVIOUS
<1>1. job \in Jobs /\ bytes = job.bytes /\ done = FALSE
  BY DEF MemInit
<1>2. QED  BY <1>1 DEF MemInv, MemoryAsByBytes, StrlenExact

LEMMA AfterMemset ==
  ASSUME MemInv, CallMemset PROVE bytes' = AsByBytes(bytes, job)
<1>1. /\ ~done /\ job.fn = "memset" /\ job \in Jobs /\ bytes = job.bytes
      /\ bytes' = memset(bytes, job.dest, job.c, job.n)
  BY DEF MemInv, CallMemset
<1>2. PICK j, m, D : j = job /\ m = bytes /\ D = DOMAIN m
  OBVIOUS
<1>3. D \in SUBSET Nat /\ j.dest \in Nat /\ j.n \in Nat /\ j.c \in Int
  BY <1>1, <1>2, JobFacts
<1>4. PICK d, n, c : d = j.dest /\ n = j.n /\ c = j.c
  OBVIOUS
<1>5. memset(m, d, c, n) = [a \in D |-> IF a \in d..d + n - 1 THEN c % Byte ELSE m[a]]
  <2>1. d \in Nat /\ c \in Int /\ n \in Nat /\ D \in SUBSET Nat
    BY <1>3, <1>4
  <2>2. DOMAIN m = D
    BY <1>2
  <2>3. QED  BY <2>1, <2>2, memsetByBytes
<1>6. AsByBytes(m, j) = [a \in D |-> IF a \in d..d + n - 1 THEN c % Byte ELSE m[a]]
  BY <1>1, <1>2, <1>4 DEF AsByBytes, Byte
<1>7. QED  BY <1>1, <1>2, <1>4, <1>5, <1>6

LEMMA AfterMemcpy ==
  ASSUME MemInv, CallMemcpy PROVE bytes' = AsByBytes(bytes, job)
<1>1. /\ ~done /\ job.fn = "memcpy" /\ job \in Jobs /\ bytes = job.bytes
      /\ bytes' = memcpy(bytes, job.dest, job.src, job.n)
  BY DEF MemInv, CallMemcpy
<1>2. PICK j, m, D : j = job /\ m = bytes /\ D = DOMAIN m
  OBVIOUS
<1>3. PICK d, s, n : d = j.dest /\ s = j.src /\ n = j.n
  OBVIOUS
<1>4. /\ D \in SUBSET Nat /\ m \in [D -> 0..Byte - 1]
      /\ d \in Nat /\ s \in Nat /\ n \in Nat
      /\ d # 0 /\ s # 0 => /\ s..s + n - 1 \subseteq D
                           /\ (d..d + n - 1) \cap (s..s + n - 1) = {}
  BY <1>1, <1>2, <1>3, JobFacts
<1>5. j.fn = "memcpy" /\ j.bytes = m
  BY <1>1, <1>2
<1>6. CASE d # 0 /\ s # 0
  <2>1. memcpy(m, d, s, n) = CopyBytes(m, d, s, n)
    <3>1. Copies(m, d, s, n)
      BY <1>2, <1>4, <1>6 DEF Copies
    <3>2. QED  BY <1>4, <1>6, <3>1, memcpyByBytes
  <2>2. AsByBytes(m, j) = CopyBytes(m, d, s, n)
    BY <1>2, <1>3, <1>5, <1>6 DEF AsByBytes, CopyBytes
  <2>3. QED  BY <1>1, <1>2, <1>3, <2>1, <2>2
<1>7. CASE ~(d # 0 /\ s # 0)
  BY <1>7, <1>2, <1>3, <1>5, <1>4, <1>1 DEF memcpy, AsByBytes
<1>8. QED  BY <1>6, <1>7

LEMMA AfterStrlen ==
  ASSUME MemInv, CallStrlen PROVE MemoryAsByBytes' /\ StrlenExact'
<1>1. /\ ~done /\ job.fn = "strlen" /\ job \in Jobs /\ bytes = job.bytes
      /\ result' = strlen(bytes, job.src).len /\ touched' = strlen(bytes, job.src).read
      /\ job' = job /\ bytes' = bytes
  BY DEF MemInv, CallStrlen
<1>2. PICK j, m, D : j = job /\ m = bytes /\ D = DOMAIN m
  OBVIOUS
<1>3. PICK end : EndsAt(m, D, j.src, end)
  BY <1>1, <1>2, JobFacts
<1>4. PICK str, len, read : str = j.src /\ len = result' /\ read = touched'
  OBVIOUS
<1>5. IsLength(m, str, len) /\ InWordsOf(str, len, read)
  BY <1>1, <1>2, <1>3, <1>4, strlenFinds
<1>6. /\ m[str + len] = 0 /\ \A k \in 0..len - 1 : m[str + k] # 0
      /\ \A a \in read : \E k \in 0..len : a \div WordSize = (str + k) \div WordSize
  BY <1>5 DEF IsLength, InWordsOf
<1>7. job' = j /\ bytes' = m /\ result' = len /\ touched' = read /\ j.src = str
  BY <1>1, <1>2, <1>4
<1>8. StrlenExact'
  BY <1>6, <1>7 DEF StrlenExact, StrlenStaysInWords
<1>9. m = AsByBytes(m, j)
  <2>1. m \in [D -> 0..Byte - 1]
    BY <1>1, <1>2, JobFacts
  <2>2. AsByBytes(m, j) = [a \in D |-> m[a]]
    BY <1>1, <1>2 DEF AsByBytes
  <2>3. QED  BY <2>1, <2>2
<1>10. MemoryAsByBytes'
  BY <1>7, <1>9 DEF MemoryAsByBytes, AsByBytes
<1>11. QED  BY <1>8, <1>10

LEMMA MemNextInv == MemInv /\ [MemNext]_memVars => MemInv'
<1> SUFFICES ASSUME MemInv, [MemNext]_memVars PROVE MemInv'
  OBVIOUS
<1>1. CASE CallMemset \/ CallMemcpy
  <2>1. bytes' = AsByBytes(bytes, job)
    BY <1>1, AfterMemset, AfterMemcpy
  <2>2. done' = TRUE /\ job' = job /\ job.fn \in {"memset", "memcpy"}
    BY <1>1 DEF CallMemset, CallMemcpy
  <2>3. DOMAIN bytes' = DOMAIN bytes
    BY <2>1 DEF AsByBytes
  <2>4. bytes' = AsByBytes(bytes', job)
    BY <2>1, <2>3 DEF AsByBytes
  <2>5. MemoryAsByBytes'
    BY <2>2, <2>4 DEF MemoryAsByBytes, AsByBytes
  <2>6. StrlenExact'
    BY <2>2 DEF StrlenExact
  <2>7. QED  BY <2>2, <2>5, <2>6 DEF MemInv
<1>2. CASE CallStrlen
  BY <1>2, AfterStrlen DEF CallStrlen, MemInv
<1>3. CASE UNCHANGED memVars
  BY <1>3 DEF MemInv, memVars, MemoryAsByBytes, StrlenExact, StrlenStaysInWords
<1>4. QED  BY <1>1, <1>2, <1>3 DEF MemNext

LEMMA MemoryHolds == LibrarySpec => []MemInv
<1>1. LibraryInit => MemInv
  BY IdleIsInv, MemInitInv DEF LibraryInit
<1>2. MemInv /\ [LibraryNext]_<<vars, memVars>> => MemInv'
  BY MemNextInv DEF LibraryNext
<1>3. QED  BY <1>1, <1>2, PTL DEF LibrarySpec

(* Whatever the alignments of source and destination and the length, and   *)
(* whatever the bytes, memset and memcpy do what setting or copying byte   *)
(* by byte would do, and touch nothing else (memory.c:3 and 34).           *)
THEOREM MemoryIsAsByBytes == LibrarySpec => []MemoryAsByBytes
<1>1. MemInv => MemoryAsByBytes
  BY DEF MemInv
<1>2. QED  BY <1>1, MemoryHolds, PTL

(* strlen finds the first zero byte of every string at every alignment,    *)
(* also where bytes have their high bit set or are one, and reads only the *)
(* words that the string lies in (memory.c:106).                           *)
THEOREM StrlenIsExact == LibrarySpec => []StrlenExact
<1>1. MemInv => StrlenExact
  BY DEF MemInv
<1>2. QED  BY <1>1, MemoryHolds, PTL
-----------------------------------------------------------------------------
(* formatsize.  The digits of a number that fits a size_t are C's. *)

InDecimal(n) == CDigits(n, 10, FALSE)
Ten(k) == 10^k

(* n digits are as many as the value has. *)
IsCount(v, n, max) == /\ n \in 1..max /\ v \div Ten(n) = 0
                      /\ \A k \in 1..n - 1 : v \div Ten(k) # 0

LEMMA CountExists ==
  ASSUME NEW v \in 0..SizeMax
  PROVE  \E n \in Nat : IsCount(v, n, LongBits) /\ IsCount(v, n, PRINTF_NTOA_BUFFER_SIZE)
<1> DEFINE max == AtMost(LongBits, PRINTF_NTOA_BUFFER_SIZE)
           S == {n \in 1..max : v \div Ten(n) = 0}
<1>1. max \in Nat /\ \A n \in 1..max : n \in 1..LongBits /\ n \in 1..PRINTF_NTOA_BUFFER_SIZE
  BY Numbers DEF AtMost
<1>2. PICK m \in 1..max : Ten(m) \in Nat /\ Ten(m) > SizeMax
  BY SizeAssumption DEF Ten
<1> HIDE DEF max
<1>3. v \div Ten(m) = 0
  <2>1. PICK t \in Nat : t = Ten(m)
    BY <1>2
  <2>2. PICK x \in Nat : x = SizeMax
    BY Numbers
  <2>3. t \in Nat \ {0} /\ v \in 0..t - 1
    BY <1>2, <2>1, <2>2
  <2>4. PICK q \in Int, r \in 0..t - 1 : q = 0 /\ r = v /\ v = t * q + r
    BY <2>3
  <2>5. v \div t = 0
    BY <2>3, <2>4, Divided
  <2>6. QED  BY <2>1, <2>5
<1>4. S \in SUBSET Nat /\ m \in S
  <2>1. \A n \in 1..max : n \in Nat
    BY <1>1
  <2>2. S \subseteq 1..max /\ m \in S
    BY <1>3
  <2> HIDE DEF S
  <2>3. QED  BY <2>1, <2>2
<1>5. PICK n \in S : \A k \in S : n <= k
  <2> HIDE DEF S
  <2>1. QED  BY <1>4, Least
<1>6. n \in 1..max /\ v \div Ten(n) = 0
  OBVIOUS
<1>7. ASSUME NEW k \in 1..n - 1 PROVE v \div Ten(k) # 0
  <2>1. k \in 1..max /\ ~(n <= k)
    BY <1>1, <1>6
  <2>2. k \notin S
    <3> HIDE DEF S
    <3>1. QED  BY <1>5, <2>1
  <2>3. QED  BY <2>1, <2>2
<1>8. n \in Nat /\ n \in 1..LongBits /\ n \in 1..PRINTF_NTOA_BUFFER_SIZE
  BY <1>1, <1>6
<1>9. QED  BY <1>6, <1>7, <1>8 DEF IsCount

LEMMA CountUnique ==
  ASSUME NEW v, NEW max \in Nat, NEW top \in Nat, NEW n, NEW k,
         IsCount(v, n, max), IsCount(v, k, top)
  PROVE  n = k
<1>1. n \in Nat /\ k \in Nat /\ n >= 1 /\ k >= 1
  BY DEF IsCount
<1>2. ~(n < k)
  <2> SUFFICES ASSUME n < k PROVE FALSE
    OBVIOUS
  <2>1. n \in 1..k - 1
    BY <1>1
  <2>2. QED  BY <2>1 DEF IsCount
<1>3. ~(k < n)
  <2> SUFFICES ASSUME k < n PROVE FALSE
    OBVIOUS
  <2>1. k \in 1..n - 1
    BY <1>1
  <2>2. QED  BY <2>1 DEF IsCount
<1>4. QED  BY <1>1, <1>2, <1>3

(* The digits of a value of n digits, first one first. *)
DigitsOf(v, n) == [i \in 1..n |-> LowerHex[((v \div Ten(n - i)) % 10) + 1]]

LEMMA CDigitsAre ==
  ASSUME NEW v, NEW n, IsCount(v, n, LongBits)
  PROVE  InDecimal(v) = DigitsOf(v, n)
<1> DEFINE C == CHOOSE k \in 1..LongBits :
                  v \div 10^k = 0 /\ \A j \in 1..k - 1 : v \div 10^j # 0
<1>1. PICK c : c = CHOOSE k : IsCount(v, k, LongBits)
  OBVIOUS
<1>2. IsCount(v, c, LongBits)
  BY <1>1
<1>3. c = n
  BY <1>2, CountUnique, Numbers
<1>4. C = CHOOSE k : IsCount(v, k, LongBits)
  BY DEF IsCount, Ten
<1>5. C = n
  BY <1>1, <1>3, <1>4
<1>6. InDecimal(v) = [i \in 1..C |-> LowerHex[((v \div 10^(C - i)) % 10) + 1]]
  BY DEF InDecimal, CDigits
<1> HIDE DEF C
<1>7. QED  BY <1>5, <1>6 DEF DigitsOf, Ten

LEMMA DigitsReversedAre ==
  ASSUME NEW v, NEW n, IsCount(v, n, PRINTF_NTOA_BUFFER_SIZE), NEW flags, "UPPERCASE" \notin flags
  PROVE  /\ IsText(DigitsReversed(v, 10, flags)) /\ Len(DigitsReversed(v, 10, flags)) = n
         /\ Reversed(DigitsReversed(v, 10, flags)) = DigitsOf(v, n)
<1> DEFINE C == CHOOSE k \in 1..PRINTF_NTOA_BUFFER_SIZE :
                  /\ k = PRINTF_NTOA_BUFFER_SIZE \/ v \div 10^k = 0
                  /\ \A j \in 1..k - 1 : v \div 10^j # 0
           Stop(k) == /\ k \in 1..PRINTF_NTOA_BUFFER_SIZE
                      /\ k = PRINTF_NTOA_BUFFER_SIZE \/ v \div Ten(k) = 0
                      /\ \A j \in 1..k - 1 : v \div Ten(j) # 0
<1>0. n \in Nat \ {0} /\ n <= PRINTF_NTOA_BUFFER_SIZE
  BY Numbers DEF IsCount
<1>1. Stop(n)
  BY DEF IsCount
<1>2. ASSUME NEW c, Stop(c) PROVE c = n
  <2>1. c \in Nat /\ c >= 1 /\ c <= PRINTF_NTOA_BUFFER_SIZE
    BY <1>2, Numbers
  <2>2. ~(n < c)
    <3> SUFFICES ASSUME n < c PROVE FALSE
      OBVIOUS
    <3>1. n \in 1..c - 1
      BY <1>0, <2>1
    <3>2. QED  BY <1>2, <3>1 DEF IsCount
  <2>3. ~(c < n)
    <3> SUFFICES ASSUME c < n PROVE FALSE
      OBVIOUS
    <3>1. c \in 1..n - 1 /\ c # PRINTF_NTOA_BUFFER_SIZE
      BY <1>0, <2>1, Numbers
    <3>2. v \div Ten(c) = 0
      BY <1>2, <3>1
    <3>3. QED  BY <3>1, <3>2 DEF IsCount
  <2>4. QED  BY <1>0, <2>1, <2>2, <2>3
<1>3. PICK c : c = CHOOSE k : Stop(k)
  OBVIOUS
<1>4. C = CHOOSE k : Stop(k)
  BY DEF Ten
<1> HIDE DEF Stop
<1>5. Stop(c)
  BY <1>1, <1>3
<1>6. C = n
  BY <1>2, <1>3, <1>4, <1>5
<1>7. PICK s : s = DigitsReversed(v, 10, flags)
  OBVIOUS
<1>8. s = [i \in 1..C |-> LowerHex[((v \div 10^(i - 1)) % 10) + 1]]
  BY <1>7 DEF DigitsReversed
<1> HIDE DEF C
<1>9. s = [i \in 1..n |-> LowerHex[((v \div Ten(i - 1)) % 10) + 1]]
  BY <1>6, <1>8 DEF Ten
<1>10. DOMAIN s = 1..n /\ s = [i \in 1..n |-> s[i]]
  BY <1>9
<1>11. IsText(s) /\ Len(s) = n
  BY <1>0, <1>10, FunctionIsText
<1>12. Reversed(s) = [i \in 1..n |-> s[n + 1 - i]]
  BY <1>10, <1>11 DEF Reversed
<1>13. ASSUME NEW i \in 1..n
       PROVE  s[n + 1 - i] = LowerHex[((v \div Ten(n - i)) % 10) + 1]
  <2>1. PICK k : k = n + 1 - i
    OBVIOUS
  <2>2. k \in 1..n /\ k - 1 = n - i
    BY <1>0, <2>1
  <2>3. QED  BY <1>9, <2>1, <2>2
<1>14. Reversed(s) = DigitsOf(v, n)
  BY <1>12, <1>13 DEF DigitsOf
<1>15. QED  BY <1>7, <1>11, <1>14

(* Nothing to put in front or behind. *)
LEMMA JoinEmpty ==
  ASSUME NEW s, IsText(s)
  PROVE  s \o << >> = s /\ << >> \o s = s
<1>1. PICK S : s \in Seq(S)
  BY TextIsSeq
<1>2. QED  BY <1>1, ConcatEmptySeq

LEMMA NothingRepeated == ASSUME NEW c PROVE Repeat(c, 0) = << >>
<1>1. 1..0 = {}
  OBVIOUS
<1>2. << >> = [i \in {} |-> c]
  <2>1. PICK s : s = << >>
    OBVIOUS
  <2>2. s \in Seq({}) /\ Len(s) = 0
    BY <2>1
  <2>3. s = [i \in 1..0 |-> s[i]]
    BY <2>2
  <2>4. QED  BY <1>1, <2>1, <2>3
<1>3. QED  BY <1>1, <1>2 DEF Repeat

(* Without flags, width and precision a number is its digits. *)
LEMMA PlainNumber ==
  ASSUME NEW v \in 0..SizeMax
  PROVE  ntoa_long(v, FALSE, 10, 0, 0, {"LONG"}) = InDecimal(v) /\ IsText(InDecimal(v))
<1> DEFINE flags == {"LONG"}
<1>1. PICK n \in Nat : IsCount(v, n, LongBits) /\ IsCount(v, n, PRINTF_NTOA_BUFFER_SIZE)
  BY CountExists
<1>2. PICK buf : buf = DigitsReversed(v, 10, flags)
  OBVIOUS
<1>3. IsText(buf) /\ Len(buf) = n /\ Reversed(buf) = DigitsOf(v, n)
  BY <1>1, <1>2, DigitsReversedAre
<1>4. InDecimal(v) = DigitsOf(v, n)
  BY <1>1, CDigitsAre
<1>5. IsText(InDecimal(v))
  BY <1>3, <1>4, ReversedIsText
<1>6. ntoa_long(v, FALSE, 10, 0, 0, flags) = ntoa_format(buf, FALSE, 10, 0, 0, flags)
  <2>1. "PRECISION" \notin flags /\ flags \ {"HASH"} = flags
    OBVIOUS
  <2> HIDE DEF flags
  <2>2. QED  BY <1>2, <2>1 DEF ntoa_long
<1>7. PadZeros(buf, 0, 0, flags) = buf
  <2>1. AtMost(0, PRINTF_NTOA_BUFFER_SIZE) = 0
    BY Numbers DEF AtMost
  <2>2. AtLeast(0 - Len(buf), 0) = 0
    BY <1>1, <1>3 DEF AtLeast
  <2>3. ZerosUpTo(buf, 0) = buf \o Repeat("0", 0)
    BY <2>1, <2>2 DEF ZerosUpTo
  <2>4. ZerosUpTo(buf, 0) = buf
    BY <1>3, <2>3, NothingRepeated, JoinEmpty
  <2>5. "LEFT" \notin flags /\ {"LEFT", "ZEROPAD"} \cap flags # {"ZEROPAD"}
    OBVIOUS
  <2> HIDE DEF flags
  <2>6. QED  BY <2>4, <2>5 DEF PadZeros
<1>8. PutPrefix(buf, 10, 0, 0, flags) = buf
  BY DEF PutPrefix
<1>9. PutSign(buf, FALSE, flags) = buf
  BY DEF PutSign
<1>10. out_rev(buf, 0, flags) = Reversed(buf)
  <2>1. Widening(Len(buf), 0, flags) = 0
    BY <1>1, <1>3 DEF Widening, AtLeast
  <2>2. Repeat("SP", 0) \o Reversed(buf) = Reversed(buf)
    BY <1>3, ReversedIsText, NothingRepeated, JoinEmpty
  <2>3. "LEFT" \notin flags
    OBVIOUS
  <2> HIDE DEF flags
  <2>4. QED  BY <2>1, <2>2, <2>3 DEF out_rev
<1>11. ntoa_format(buf, FALSE, 10, 0, 0, flags) = out_rev(buf, 0, flags)
  <2>1. "ZEROPAD" \notin flags
    OBVIOUS
  <2> HIDE DEF flags
  <2>2. QED  BY <1>7, <1>8, <1>9, <2>1 DEF ntoa_format
<1>12. QED  BY <1>3, <1>4, <1>5, <1>6, <1>10, <1>11
-----------------------------------------------------------------------------
(* The unit, and what is left below it. *)

KiloTo(u) == Kilo^u

LEMMA KiloFacts ==
  /\ Kilo \in Nat /\ Kilo > 1 /\ KiloTo(0) = 1
  /\ \A u \in 0..6 : KiloTo(u) \in Nat \ {0} /\ KiloTo(u + 1) = Kilo * KiloTo(u)
  /\ 10 * KiloTo(6) <= SizeMax + 1
  BY SizeAssumption DEF KiloTo

LEMMA NextUnit == ASSUME NEW u \in 0..6 PROVE KiloTo(u) <= KiloTo(u + 1) /\ KiloTo(u + 1) \in Nat
<1>1. PICK a \in Nat \ {0} : a = KiloTo(u)
  BY KiloFacts
<1>2. PICK x \in Nat : x = Kilo - 1
  BY KiloFacts
<1>3. x * a \in Nat
  BY ProductSign
<1>4. Kilo * a = x * a + a
  BY <1>2, KiloFacts
<1>5. KiloTo(u + 1) = Kilo * a
  BY <1>1, KiloFacts
<1>6. PICK y \in Nat : y = x * a
  BY <1>3
<1>7. QED  BY <1>1, <1>4, <1>5, <1>6

LEMMA UnitsGrow == \A u, v \in 0..7 : u <= v => KiloTo(u) <= KiloTo(v) /\ KiloTo(v) \in Nat
<1> DEFINE S == {v \in 0..7 :
                   ~(KiloTo(v) \in Nat /\ \A u \in 0..7 : u <= v => KiloTo(u) <= KiloTo(v))}
<1>1. S = {}
  <2> SUFFICES ASSUME S # {} PROVE FALSE
    OBVIOUS
  <2>1. S \in SUBSET Nat
    OBVIOUS
  <2>2. PICK v \in S : \A y \in S : v <= y
    BY <2>1, Least
  <2>3. v \in 0..7 /\ ~(KiloTo(v) \in Nat /\ \A u \in 0..7 : u <= v => KiloTo(u) <= KiloTo(v))
    OBVIOUS
  <2>4. v # 0
    BY KiloFacts, <2>3
  <2>5. PICK w \in 0..6 : v = w + 1
    BY <2>3, <2>4
  <2>6. w \in 0..7 /\ w \notin S
    BY <2>2, <2>5
  <2>7. KiloTo(w) \in Nat /\ \A u \in 0..7 : u <= w => KiloTo(u) <= KiloTo(w)
    BY <2>6
  <2>8. KiloTo(w) <= KiloTo(v) /\ KiloTo(v) \in Nat
    BY <2>5, NextUnit
  <2>9. ASSUME NEW u \in 0..7, u <= v PROVE KiloTo(u) <= KiloTo(v)
    <3>1. CASE u = v
      BY <2>8, <3>1
    <3>2. CASE u # v
      <4>1. u <= w
        BY <2>5, <2>9, <3>2
      <4>2. KiloTo(u) \in Nat
        BY <2>5, <4>1, KiloFacts
      <4>3. PICK a, b, c : a = KiloTo(u) /\ b = KiloTo(w) /\ c = KiloTo(v)
        OBVIOUS
      <4>4. a \in Nat /\ b \in Nat /\ c \in Nat /\ a <= b /\ b <= c
        BY <2>7, <2>8, <4>1, <4>2, <4>3
      <4>5. QED  BY <4>3, <4>4
    <3>3. QED  BY <3>1, <3>2
  <2>10. QED  BY <2>3, <2>8, <2>9
<1>2. ASSUME NEW u \in 0..7, NEW v \in 0..7, u <= v
      PROVE  KiloTo(u) <= KiloTo(v) /\ KiloTo(v) \in Nat
  BY <1>1, <1>2
<1>3. QED  BY <1>2

LEMMA QuotientBelow ==
  ASSUME NEW b \in Nat, NEW a \in Nat \ {0}, NEW k \in Nat
  PROVE  b \div a < k <=> b < k * a
<1>1. PICK q \in Int, r \in 0..a - 1 : q = b \div a /\ b = a * q + r
  BY QuotientBounds
<1>2. ASSUME q < k PROVE b < k * a
  <2>1. PICK x \in Nat : x = k - q - 1
    BY <1>2
  <2>2. k = q + x + 1
    BY <2>1
  <2>3. PICK y \in Nat : y = x * a
    BY ProductSign
  <2>4. PICK z \in Int : z = a * q
    OBVIOUS
  <2>5. k * a = z + y + a
    BY <2>2, <2>3, <2>4
  <2>6. b = z + r
    BY <1>1, <2>4
  <2>7. QED  BY <2>5, <2>6
<1>3. ASSUME q >= k PROVE b >= k * a
  <2>1. PICK x \in Nat : x = q - k
    BY <1>3
  <2>2. q = k + x
    BY <2>1
  <2>3. PICK y \in Nat : y = x * a
    BY ProductSign
  <2>4. PICK z \in Int : z = k * a
    OBVIOUS
  <2>5. a * q = z + y
    BY <2>2, <2>3, <2>4
  <2>6. b = z + y + r
    BY <1>1, <2>5
  <2>7. b >= z
    BY <2>6
  <2>8. QED  BY <2>4, <2>7
<1>4. PICK z \in Int : z = k * a
  OBVIOUS
<1>5. QED  BY <1>1, <1>2, <1>3, <1>4

(* The largest unit that the size reaches. *)
IsUnit(b, u) ==
  /\ u \in 0..6
  /\ u = 0 \/ KiloTo(u) <= b
  /\ u = 6 \/ b < KiloTo(u + 1)

LEMMA OneUnit ==
  ASSUME NEW b \in Nat, NEW u, NEW v, IsUnit(b, u), IsUnit(b, v) PROVE u = v
<1>1. ASSUME NEW x, NEW y, IsUnit(b, x), IsUnit(b, y) PROVE ~(x < y)
  <2> SUFFICES ASSUME x < y PROVE FALSE
    OBVIOUS
  <2>1. x \in 0..6 /\ y \in 0..6
    BY <1>1 DEF IsUnit
  <2>2. x # 6 /\ y # 0 /\ x + 1 \in 0..7 /\ y \in 0..7 /\ x + 1 <= y
    BY <2>1
  <2>3. b < KiloTo(x + 1) /\ KiloTo(y) <= b
    BY <1>1, <2>2 DEF IsUnit
  <2>4. KiloTo(x + 1) <= KiloTo(y) /\ KiloTo(x + 1) \in Nat /\ KiloTo(y) \in Nat
    BY <2>2, UnitsGrow
  <2>5. QED  BY <2>3, <2>4
<1>2. ~(u < v) /\ ~(v < u)
  BY <1>1
<1>3. u \in 0..6 /\ v \in 0..6
  BY DEF IsUnit
<1>4. QED  BY <1>2, <1>3

LEMMA UnitFacts ==
  ASSUME NEW b \in Nat PROVE IsUnit(b, Unit(b))
<1> DEFINE Enough(u) == u = 6 \/ b \div KiloTo(u) < Kilo
           Found(u) == /\ u \in 0..6 /\ Enough(u)
                       /\ \A k \in 0..u - 1 : b \div KiloTo(k) >= Kilo
           S == {u \in 0..6 : Enough(u)}
<1>1. \A u \in 0..6 : b \div KiloTo(u) \in Int /\ (b \div KiloTo(u) < Kilo <=> b < KiloTo(u + 1))
  <2> TAKE u \in 0..6
  <2>1. PICK a \in Nat \ {0} : a = KiloTo(u)
    BY KiloFacts
  <2>2. b \div a < Kilo <=> b < Kilo * a
    BY KiloFacts, QuotientBelow
  <2>3. b \div a \in Int
    BY QuotientBounds
  <2>4. KiloTo(u + 1) = Kilo * a
    BY <2>1, KiloFacts
  <2>5. QED  BY <2>1, <2>2, <2>3, <2>4
<1>2. \E u : Found(u)
  <2>1. S \in SUBSET Nat /\ 6 \in S
    OBVIOUS
  <2>2. PICK u \in S : \A k \in S : u <= k
    <3> HIDE DEF S
    <3>1. QED  BY <2>1, Least
  <2>3. u \in 0..6 /\ Enough(u)
    OBVIOUS
  <2>4. ASSUME NEW k \in 0..u - 1 PROVE b \div KiloTo(k) >= Kilo
    <3>1. k \in 0..6 /\ ~(u <= k)
      BY <2>3
    <3>2. k \notin S
      BY <2>2, <3>1
    <3>3. ~(b \div KiloTo(k) < Kilo)
      BY <3>1, <3>2
    <3>4. PICK q \in Int : q = b \div KiloTo(k)
      BY <1>1, <3>1
    <3>5. QED  BY <3>3, <3>4, KiloFacts
  <2>5. QED  BY <2>3, <2>4
<1>3. PICK u : u = CHOOSE k : Found(k)
  OBVIOUS
<1>4. Found(u)
  <2> HIDE DEF Found
  <2>1. QED  BY <1>2, <1>3
<1>5. Unit(b) = CHOOSE k : Found(k)
  BY DEF Unit, KiloTo
<1>6. u = 6 \/ b < KiloTo(u + 1)
  BY <1>1, <1>4
<1>7. u = 0 \/ KiloTo(u) <= b
  <2> SUFFICES ASSUME u # 0 PROVE KiloTo(u) <= b
    OBVIOUS
  <2>1. PICK k \in 0..6 : u = k + 1
    BY <1>4
  <2>2. b \div KiloTo(k) >= Kilo
    BY <1>4, <2>1
  <2>3. PICK q \in Int : q = b \div KiloTo(k)
    BY <1>1
  <2>4. ~(q < Kilo)
    BY <2>2, <2>3, KiloFacts
  <2>5. ~(b < KiloTo(u))
    BY <1>1, <2>1, <2>3, <2>4
  <2>6. KiloTo(u) \in Nat
    BY <1>4, KiloFacts
  <2>7. QED  BY <2>5, <2>6
<1>8. QED  BY <1>3, <1>4, <1>5, <1>6, <1>7 DEF IsUnit

(* The number before the point and the digit behind it. *)
Whole(b) == b \div KiloTo(Unit(b))
Tenth(b) == (((b % KiloTo(Unit(b))) * 10) % (SizeMax + 1)) \div KiloTo(Unit(b))

LEMMA TenthFacts ==
  ASSUME NEW b \in 0..SizeMax
  PROVE  /\ Whole(b) \in 0..SizeMax /\ Tenth(b) \in 0..9
         /\ ((b * 10) \div KiloTo(Unit(b))) \div 10 = Whole(b)
         /\ ((b * 10) \div KiloTo(Unit(b))) % 10 = Tenth(b)
<1>0. b \in Nat
  OBVIOUS
<1>1. PICK u \in 0..6 : u = Unit(b)
  BY <1>0, UnitFacts DEF IsUnit
<1>2. PICK a \in Nat \ {0} : a = KiloTo(u)
  BY KiloFacts
<1>3. PICK M \in Nat : M = SizeMax + 1
  BY Numbers
<1>4. 10 * a <= M
  <2>1. PICK c \in Nat : c = KiloTo(6)
    BY KiloFacts
  <2>2. a <= c
    BY <1>2, <2>1, UnitsGrow
  <2>3. 10 * c <= M
    BY <1>3, <2>1, KiloFacts
  <2>4. QED  BY <2>2, <2>3
<1>5. PICK q \in Int, r \in 0..a - 1 : q = b \div a /\ r = b % a /\ b = a * q + r
  <2>1. PICK q, r : q = b \div a /\ r = b % a
    OBVIOUS
  <2>2. q \in Int /\ r \in 0..a - 1 /\ b = a * q + r
    BY <1>0, <2>1, QuotientBounds
  <2>3. QED  BY <2>1, <2>2
<1>6. q \in Nat /\ q <= b
  <2>1. ~(q < 0)
    <3> SUFFICES ASSUME q < 0 PROVE FALSE
      OBVIOUS
    <3>1. PICK x \in Nat : x = -q - 1
      OBVIOUS
    <3>2. PICK y \in Nat : y = x * a
      BY ProductSign
    <3>3. a * q = -y - a
      BY <3>1, <3>2
    <3>4. b = -y - a + r
      BY <1>5, <3>3
    <3>5. QED  BY <1>0, <3>4
  <2>2. PICK x \in Nat : x = a - 1
    OBVIOUS
  <2>3. q \in Nat
    BY <2>1
  <2>4. PICK y \in Nat : y = x * q
    BY <2>3, ProductSign
  <2>5. a * q = y + q
    BY <2>2, <2>4
  <2>6. b = y + q + r
    BY <1>5, <2>5
  <2>7. QED  BY <2>3, <2>6
<1>7. (r * 10) % M = r * 10
  <2>1. PICK k \in 0..M - 1 : k = r * 10
    BY <1>4
  <2>2. k = M * 0 + k /\ 0 \in Int
    OBVIOUS
  <2>3. M \in Nat \ {0}
    BY <1>4
  <2>4. k % M = k
    BY <2>2, <2>3, Divided
  <2>5. QED  BY <2>1, <2>4
<1>8. PICK t \in Int, s \in 0..a - 1 : t = (r * 10) \div a /\ r * 10 = a * t + s
  <2>1. r * 10 \in Int
    OBVIOUS
  <2>2. QED  BY <2>1, QuotientBounds
<1>9. t \in 0..9
  <2>1. r * 10 \in Nat /\ r * 10 < 10 * a
    OBVIOUS
  <2>2. t < 10
    BY <1>8, <2>1, QuotientBelow
  <2>3. ~(t < 0)
    <3> SUFFICES ASSUME t < 0 PROVE FALSE
      OBVIOUS
    <3>1. (r * 10) \div a < 0 <=> r * 10 < 0 * a
      BY <2>1, QuotientBelow
    <3>2. 0 * a = 0
      OBVIOUS
    <3>3. QED  BY <1>8, <2>1, <3>1, <3>2
  <2>4. QED  BY <2>2, <2>3
<1>10. PICK n \in Int : n = 10 * q + t
  OBVIOUS
<1>11. (b * 10) \div a = n
  <2>1. a * n = 10 * (a * q) + a * t
    BY <1>10
  <2>2. PICK x \in Int, y \in Int : x = a * q /\ y = a * t
    OBVIOUS
  <2>3. b = x + r /\ r * 10 = y + s
    BY <1>5, <1>8, <2>2
  <2>4. b * 10 = 10 * x + y + s
    BY <2>3
  <2>5. b * 10 = a * n + s
    BY <2>1, <2>2, <2>4
  <2>6. PICK m : m = b * 10
    OBVIOUS
  <2>7. m \div a = n
    BY <2>5, <2>6, Divided
  <2>8. QED  BY <2>6, <2>7
<1>12. n \div 10 = q /\ n % 10 = t
  BY <1>9, <1>10, Divided
<1>13. Whole(b) = q
  BY <1>1, <1>2, <1>5 DEF Whole
<1>14. Tenth(b) = t
  BY <1>1, <1>2, <1>3, <1>5, <1>7, <1>8 DEF Tenth
<1>15. q \in 0..SizeMax
  BY <1>6, Numbers
<1>16. QED  BY <1>1, <1>2, <1>9, <1>11, <1>12, <1>13, <1>14, <1>15
-----------------------------------------------------------------------------
(* A round of the loop on the directives that formatsize uses. *)

LEMMA NoDigits == ASSUME NEW i \in Nat \ {0} PROVE atoi(i, i) = 0
<1> DEFINE P(f) == ValueTo(i - 1, f, i)
<1>1. PICK f : f = CHOOSE e : P(e)
  OBVIOUS
<1>2. P(f)
  <2>1. \E e : P(e)
    BY ValueExists
  <2> HIDE DEF P
  <2>2. QED  BY <1>1, <2>1
<1>3. atoi(i, i) = f[i - 1]
  BY <1>1 DEF atoi, ValueTo
<1>4. i - 1 \in i - 1..i - 1 /\ i - 1 < i
  OBVIOUS
<1>5. f[i - 1] = 0
  BY <1>2, <1>4 DEF ValueTo
<1>6. QED  BY <1>3, <1>5

LEMMA NothingSkipped ==
  ASSUME call \in Calls, NEW i \in 1..Len(Format), NEW S, "NUL" \notin S, Format[i] \notin S
  PROVE  SkipAll(i, S) = i
<1>1. PICK j : j = SkipAll(i, S)
  OBVIOUS
<1>2. j \in i..Len(Format) /\ \A k \in i..j - 1 : Format[k] \in S
  BY <1>1, SkipFacts
<1>3. i \in Nat /\ j \in Nat
  BY <1>2, FormatFacts
<1>4. i \notin i..j - 1
  BY <1>2
<1>5. QED  BY <1>1, <1>2, <1>3, <1>4

LEMMA PlainDirective ==
  ASSUME call \in Calls, pos \in Nat, pos + 1 \in 1..Len(Format),
         Format[pos + 1] \in {"z", "c"}
  PROVE  Directive = [flags |-> LengthField(pos + 1).flags, width |-> 0, prec |-> 0, args |-> va,
                      at |-> LengthField(pos + 1).next,
                      spec |-> Format[LengthField(pos + 1).next]]
<1>1. PICK i : i = pos + 1
  OBVIOUS
<1>2. i \in Nat \ {0} /\ i \in 1..Len(Format) /\ i - 1 = pos
  BY <1>1
<1>3. Format[i] \notin DOMAIN Flag /\ Format[i] \notin IsDigit /\ Format[i] \notin {"*", "."}
      /\ "NUL" \notin DOMAIN Flag /\ "NUL" \notin IsDigit
  BY <1>1 DEF Flag, IsDigit, Decimal
<1>4. SkipAll(i, DOMAIN Flag) = i /\ SkipAll(i, IsDigit) = i
  BY <1>2, <1>3, NothingSkipped
<1>5. WidthField(i, va) = [n |-> 0, next |-> i, args |-> va, flags |-> {}]
  BY <1>2, <1>3, <1>4, NoDigits DEF WidthField
<1>6. PrecisionField(i, va) = [n |-> 0, next |-> i, args |-> va, flags |-> {}]
  BY <1>3 DEF PrecisionField
<1>7. {Flag[Format[k]] : k \in i..i - 1} = {}
  BY <1>2
<1>8. PICK l : l = LengthField(i)
  OBVIOUS
<1>9. LET w == WidthField(i, va)
          p == PrecisionField(w.next, w.args)
      IN  /\ w.flags = {} /\ p.flags = {} /\ w.n = 0 /\ p.n = 0 /\ p.args = va
          /\ LengthField(p.next) = l
  BY <1>5, <1>6, <1>8
<1>10. PICK none : none = {Flag[Format[k]] : k \in i..i - 1}
  OBVIOUS
<1>11. Directive = [flags |-> none \cup {} \cup {} \cup l.flags, width |-> 0, prec |-> 0,
                    args |-> va, at |-> l.next, spec |-> Format[l.next]]
  BY <1>1, <1>4, <1>9, <1>10 DEF Directive
<1>12. none \cup {} \cup {} \cup l.flags = l.flags
  BY <1>7, <1>10
<1>13. QED  BY <1>1, <1>8, <1>11, <1>12

(* Below its modulus a number is its own remainder. *)
LEMMA SmallRemainder ==
  ASSUME NEW M \in Nat \ {0}, NEW r \in 0..M - 1
  PROVE  r % M = r
  BY Divided

LEMMA NumberStep ==
  ASSUME call \in Calls, Running, Next, pos \in Nat, pos + 2 \in 1..Len(Format),
         Format[pos] = "%", Format[pos + 1] = "z", Format[pos + 2] = "u",
         NEW v \in 0..SizeMax, va[1] = v
  PROVE  /\ pos' = pos + 3 /\ va' = Tail(va) /\ full' = full \o InDecimal(v)
         /\ status' = status /\ call' = call
<1>1. pos + 1 \in 1..Len(Format)
  BY FormatFacts
<1>2. LengthField(pos + 1) = [flags |-> {"LONG"}, next |-> pos + 2]
  <2>1. (pos + 1) + 1 = pos + 2
    OBVIOUS
  <2>2. QED  BY <2>1 DEF LengthField
<1>3. PICK d : d = Directive
  OBVIOUS
<1>4. d = [flags |-> {"LONG"}, width |-> 0, prec |-> 0, args |-> va, at |-> pos + 2, spec |-> "u"]
  BY <1>1, <1>2, <1>3, PlainDirective
<1>5. ConvertInteger
  BY <1>3, <1>4 DEF Next, PutLiteral, ConvertInteger, ConvertPointer, ConvertChar, ConvertString,
                    ConvertOther, Terminate, AtDirective, CopiedAsIs, IntegerSpecs
<1>6. IntegerText(d, v) = InDecimal(v)
  <2>1. Unsigned(v, LongBits) = v
    <3>1. PICK M \in Nat \ {0} : M = 2^LongBits
      BY Numbers
    <3>2. PICK r \in 0..M - 1 : r = v
      BY <3>1 DEF SizeMax
    <3>3. r % M = r
      BY SmallRemainder
    <3>4. QED  BY <3>1, <3>2, <3>3 DEF Unsigned
  <2>2. BitsOf(d.flags) = LongBits
    BY <1>4 DEF BitsOf
  <2>3. Base(d.spec) = 10
    BY <1>4 DEF Base
  <2>4. IntegerFlags(d) = {"LONG"}
    BY <1>4, <2>3 DEF IntegerFlags
  <2>5. Magnitude(v, LongBits) = v /\ ~(v < 0)
    BY DEF Magnitude
  <2>6. IntegerText(d, v) = ntoa_long(v, v < 0, 10, 0, 0, {"LONG"})
    BY <1>4, <2>1, <2>2, <2>3, <2>4, <2>5 DEF IntegerText
  <2>7. (v < 0) = FALSE
    BY <2>5
  <2>8. QED  BY <2>6, <2>7, PlainNumber
<1>7. Converted(d, IntegerText(d, v), Tail(va)) /\ status' = status
  BY <1>3, <1>4, <1>5 DEF ConvertInteger
<1>8. pos' = (pos + 2) + 1
  BY <1>4, <1>7 DEF Converted
<1>9. QED  BY <1>6, <1>7, <1>8 DEF Converted, Put

LEMMA CharStep ==
  ASSUME call \in Calls, Running, Next, pos \in Nat, pos + 1 \in 1..Len(Format),
         Format[pos] = "%", Format[pos + 1] = "c"
  PROVE  /\ pos' = pos + 2 /\ full' = full \o <<va[1]>>
         /\ status' = status /\ call' = call
<1>1. LengthField(pos + 1) = [flags |-> {}, next |-> pos + 1]
  BY DEF LengthField
<1>2. PICK d : d = Directive
  OBVIOUS
<1>3. d = [flags |-> {}, width |-> 0, prec |-> 0, args |-> va, at |-> pos + 1, spec |-> "c"]
  BY <1>1, <1>2, PlainDirective
<1>4. ConvertChar
  BY <1>2, <1>3 DEF Next, PutLiteral, ConvertInteger, ConvertPointer, ConvertChar, ConvertString,
                    ConvertOther, Terminate, AtDirective, CopiedAsIs, IntegerSpecs
<1>5. PICK text : text = <<va[1]>>
  OBVIOUS
<1>6. IsText(text) /\ Len(text) = 1
  BY <1>5, OneIsText
<1>7. Justified(text, d) = text
  <2>1. AtLeast(0 - Len(text), 0) = 0
    BY <1>6 DEF AtLeast
  <2>2. Justified(text, d) = Repeat("SP", 0) \o text
    BY <1>3, <2>1 DEF Justified
  <2>3. QED  BY <1>6, <2>2, NothingRepeated, JoinEmpty
<1>8. Converted(d, Justified(text, d), Tail(va)) /\ status' = status
  BY <1>2, <1>3, <1>4, <1>5 DEF ConvertChar
<1>9. pos' = (pos + 1) + 1
  BY <1>3, <1>8 DEF Converted
<1>10. QED  BY <1>5, <1>7, <1>8, <1>9 DEF Converted, Put

LEMMA LiteralStep ==
  ASSUME Running, Next, Format[pos] \in {"B", "."}
  PROVE  /\ pos' = pos + 1 /\ va' = va /\ full' = full \o <<Format[pos]>>
         /\ status' = status /\ call' = call
<1>1. PutLiteral
  BY DEF Next, PutLiteral, ConvertInteger, ConvertPointer, ConvertChar, ConvertString,
         ConvertOther, Terminate, AtDirective
<1>2. QED  BY <1>1 DEF PutLiteral, Put, Running

LEMMA EndStep ==
  ASSUME Next, Format[pos] = "NUL" PROVE UNCHANGED <<pos, full, call>>
  BY DEF Next, PutLiteral, ConvertInteger, ConvertPointer, ConvertChar, ConvertString,
     ConvertOther, Terminate, AtDirective, CopiedAsIs

LEMMA NoStep == ASSUME status = "returned" PROVE ~Next
  BY DEF Next, PutLiteral, ConvertInteger, ConvertPointer, ConvertChar, ConvertString,
         ConvertOther, Terminate, AtDirective, Running
-----------------------------------------------------------------------------
(* How far formatsize's call has come, for a size w, or w.t, in units u.   *)

InBytes(w) ==
  /\ Format = <<"%", "z", "u", "B", "NUL">>
  /\ \/ Running /\ pos = 1 /\ va[1] = w /\ full = << >>
     \/ Running /\ pos = 4 /\ full = InDecimal(w)
     \/ pos = 5 /\ full = InDecimal(w) \o <<"B">>

InUnits(w, u) ==
  /\ Format = <<"%", "z", "u", "%", "c", "NUL">>
  /\ \/ Running /\ pos = 1 /\ va = <<w, u>> /\ full = << >>
     \/ Running /\ pos = 4 /\ va[1] = u /\ full = InDecimal(w)
     \/ pos = 6 /\ full = InDecimal(w) \o <<u>>

InTenths(w, t, u) ==
  /\ Format = <<"%", "z", "u", ".", "%", "z", "u", "%", "c", "NUL">>
  /\ \/ Running /\ pos = 1 /\ va = <<w, t, u>> /\ full = << >>
     \/ Running /\ pos = 4 /\ va = <<t, u>> /\ full = InDecimal(w)
     \/ Running /\ pos = 5 /\ va = <<t, u>> /\ full = InDecimal(w) \o <<".">>
     \/ Running /\ pos = 8 /\ va[1] = u /\ full = (InDecimal(w) \o <<".">>) \o InDecimal(t)
     \/ pos = 10 /\ full = ((InDecimal(w) \o <<".">>) \o InDecimal(t)) \o <<u>>

UnitName(b) == Units[Unit(b) + 1]

SizeProgress(b) ==
  /\ UnitName(b) = "B" => InBytes(Whole(b))
  /\ UnitName(b) # "B" /\ Tenth(b) = 0 => InUnits(Whole(b), UnitName(b))
  /\ UnitName(b) # "B" /\ Tenth(b) # 0 => InTenths(Whole(b), Tenth(b), UnitName(b))

SizeInv ==
  call.fn = "formatsize" => call \in Calls /\ SizeProgress(call.count)

LEMMA BytesStep ==
  ASSUME call \in Calls, NEW w \in 0..SizeMax, InBytes(w), Next PROVE InBytes(w)'
<1>1. PICK f : f = Format
  OBVIOUS
<1>2. f = <<"%", "z", "u", "B", "NUL">>
  BY <1>1 DEF InBytes
<1>3. /\ f[1] = "%" /\ f[2] = "z" /\ f[3] = "u" /\ f[4] = "B" /\ f[5] = "NUL" /\ Len(f) = 5
  BY <1>2
<1>4. CASE Running /\ pos = 1 /\ va[1] = w /\ full = << >>
  BY <1>1, <1>3, <1>4, NumberStep, PlainNumber, JoinEmpty, <1>2 DEF InBytes, Running, Format
<1>5. CASE Running /\ pos = 4 /\ full = InDecimal(w)
  BY <1>1, <1>3, <1>5, LiteralStep, <1>2 DEF InBytes, Format
<1>6. CASE pos = 5 /\ full = InDecimal(w) \o <<"B">>
  BY <1>1, <1>3, <1>6, EndStep, <1>2 DEF InBytes, Format
<1>7. QED  BY <1>4, <1>5, <1>6 DEF InBytes

LEMMA UnitsStep ==
  ASSUME call \in Calls, NEW w \in 0..SizeMax, NEW u, InUnits(w, u), Next PROVE InUnits(w, u)'
<1>1. PICK f : f = Format
  OBVIOUS
<1>2. f = <<"%", "z", "u", "%", "c", "NUL">>
  BY <1>1 DEF InUnits
<1>3. /\ f[1] = "%" /\ f[2] = "z" /\ f[3] = "u" /\ f[4] = "%" /\ f[5] = "c" /\ f[6] = "NUL"
      /\ Len(f) = 6
  BY <1>2
<1>4. CASE Running /\ pos = 1 /\ va = <<w, u>> /\ full = << >>
  BY <1>4, <1>1, <1>3, NumberStep, PlainNumber, JoinEmpty, <1>2 DEF InUnits, Running, Format
<1>5. CASE Running /\ pos = 4 /\ va[1] = u /\ full = InDecimal(w)
  BY <1>1, <1>3, <1>5, CharStep, <1>2 DEF InUnits, Format
<1>6. CASE pos = 6 /\ full = InDecimal(w) \o <<u>>
  BY <1>1, <1>3, <1>6, EndStep, <1>2 DEF InUnits, Format
<1>7. QED  BY <1>4, <1>5, <1>6 DEF InUnits

LEMMA TenthsStep ==
  ASSUME call \in Calls, NEW w \in 0..SizeMax, NEW t \in 0..SizeMax, NEW u,
         InTenths(w, t, u), Next
  PROVE  InTenths(w, t, u)'
<1>1. PICK f : f = Format
  OBVIOUS
<1>2. f = <<"%", "z", "u", ".", "%", "z", "u", "%", "c", "NUL">>
  BY <1>1 DEF InTenths
<1>3. /\ f[1] = "%" /\ f[2] = "z" /\ f[3] = "u" /\ f[4] = "." /\ f[5] = "%" /\ f[6] = "z"
      /\ f[7] = "u" /\ f[8] = "%" /\ f[9] = "c" /\ f[10] = "NUL" /\ Len(f) = 10
  BY <1>2
<1>4. CASE Running /\ pos = 1 /\ va = <<w, t, u>> /\ full = << >>
  <2>1. va[1] = w /\ Tail(va) = <<t, u>>
    BY <1>4
  <2>2. /\ pos \in Nat /\ pos + 2 \in 1..Len(Format)
        /\ Format[pos] = "%" /\ Format[pos + 1] = "z" /\ Format[pos + 2] = "u"
    BY <1>1, <1>3, <1>4
  <2>3. /\ pos' = pos + 3 /\ full' = full \o InDecimal(w) /\ va' = Tail(va)
        /\ status' = status /\ call' = call
    BY <1>4, <2>1, <2>2, NumberStep
  <2>4. full' = InDecimal(w)
    BY <1>4, <2>3, PlainNumber, JoinEmpty
  <2>5. pos' = 4
    BY <1>4, <2>3
  <2>6. QED  BY <1>1, <1>2, <1>4, <2>1, <2>3, <2>4, <2>5, Zenon DEF InTenths, Running, Format
<1>5. CASE Running /\ pos = 4 /\ va = <<t, u>> /\ full = InDecimal(w)
  <2>1. Format[pos] = "."
    BY <1>1, <1>3, <1>5
  <2>2. /\ pos' = pos + 1 /\ full' = full \o <<Format[pos]>> /\ va' = va
        /\ status' = status /\ call' = call
    BY <1>5, <2>1, LiteralStep
  <2>3. pos' = 5
    BY <1>5, <2>2
  <2>4. QED  BY <1>1, <1>2, <1>5, <2>1, <2>2, <2>3, Zenon DEF InTenths, Running, Format
<1>6. CASE Running /\ pos = 5 /\ va = <<t, u>> /\ full = InDecimal(w) \o <<".">>
  <2>1. va[1] = t /\ Tail(va)[1] = u
    BY <1>6
  <2>2. /\ pos \in Nat /\ pos + 2 \in 1..Len(Format)
        /\ Format[pos] = "%" /\ Format[pos + 1] = "z" /\ Format[pos + 2] = "u"
    BY <1>1, <1>3, <1>6
  <2>3. /\ pos' = pos + 3 /\ full' = full \o InDecimal(t) /\ va' = Tail(va)
        /\ status' = status /\ call' = call
    BY <1>6, <2>1, <2>2, NumberStep
  <2>4. pos' = 8
    BY <1>6, <2>3
  <2>5. QED  BY <1>1, <1>2, <1>6, <2>1, <2>3, <2>4, Zenon DEF InTenths, Running, Format
<1>7. CASE Running /\ pos = 8 /\ va[1] = u /\ full = (InDecimal(w) \o <<".">>) \o InDecimal(t)
  <2>1. /\ pos \in Nat /\ pos + 1 \in 1..Len(Format)
        /\ Format[pos] = "%" /\ Format[pos + 1] = "c"
    BY <1>1, <1>3, <1>7
  <2>2. pos' = pos + 2 /\ full' = full \o <<va[1]>> /\ call' = call
    BY <1>7, <2>1, CharStep
  <2>3. pos' = 10
    BY <1>7, <2>2
  <2>4. QED  BY <1>1, <1>2, <1>7, <2>2, <2>3, Zenon DEF InTenths, Format
<1>8. CASE pos = 10 /\ full = ((InDecimal(w) \o <<".">>) \o InDecimal(t)) \o <<u>>
  <2>1. Format[pos] = "NUL"
    BY <1>1, <1>3, <1>8
  <2>2. UNCHANGED <<pos, full, call>>
    BY <2>1, EndStep
  <2>3. QED  BY <1>1, <1>2, <1>8, <2>2, Zenon DEF InTenths, Format
<1>9. QED  BY <1>4, <1>5, <1>6, <1>7, <1>8, Zenon DEF InTenths

LEMMA SizeCount ==
  ASSUME call \in Calls, call.fn = "formatsize"
  PROVE  call.count \in 0..SizeMax /\ call = formatsize(call.count)
  BY SizeAssumption

(* formatsize's own call, in the words used here. *)
LEMMA SizeCall ==
  ASSUME call \in Calls, call.fn = "formatsize", NEW b, b = call.count
  PROVE  /\ UnitName(b) = "B" => Format = <<"%", "z", "u", "B", "NUL">> /\ call.va = <<b>>
         /\ UnitName(b) # "B" /\ Tenth(b) = 0 =>
              /\ Format = <<"%", "z", "u", "%", "c", "NUL">>
              /\ call.va = <<Whole(b), UnitName(b)>>
         /\ UnitName(b) # "B" /\ Tenth(b) # 0 =>
              /\ Format = <<"%", "z", "u", ".", "%", "z", "u", "%", "c", "NUL">>
              /\ call.va = <<Whole(b), Tenth(b), UnitName(b)>>
<1> DEFINE w == Whole(b)
           t == Tenth(b)
           u == UnitName(b)
<1>1. call = formatsize(b)
  BY SizeCount
<1>2. call = [fn |-> "formatsize", count |-> b,
       format |-> CASE u = "B" -> <<"%", "z", "u", "B", "NUL">>
                    [] u # "B" /\ t = 0 -> <<"%", "z", "u", "%", "c", "NUL">>
                    [] OTHER -> <<"%", "z", "u", ".", "%", "z", "u", "%", "c", "NUL">>,
       va |-> CASE u = "B" -> <<b>>
                [] u # "B" /\ t = 0 -> <<w, u>>
                [] OTHER -> <<w, t, u>>]
  BY <1>1 DEF formatsize, Whole, Tenth, UnitName, KiloTo
<1> HIDE DEF w, t, u
<1>3. PICK c : c = call
  OBVIOUS
<1>4. u = "B" => c.format = <<"%", "z", "u", "B", "NUL">> /\ c.va = <<b>>
  BY <1>2, <1>3
<1>5. u # "B" /\ t = 0 =>
        c.format = <<"%", "z", "u", "%", "c", "NUL">> /\ c.va = <<w, u>>
  BY <1>2, <1>3
<1>6. u # "B" /\ t # 0 =>
        c.format = <<"%", "z", "u", ".", "%", "z", "u", "%", "c", "NUL">> /\ c.va = <<w, t, u>>
  BY <1>2, <1>3
<1>7. QED  BY <1>3, <1>4, <1>5, <1>6 DEF Format, w, t, u

LEMMA UnitIsB == ASSUME NEW b \in Nat PROVE UnitName(b) = "B" <=> Unit(b) = 0
<1>1. PICK u \in 0..6 : u = Unit(b)
  BY UnitFacts DEF IsUnit
<1>2. Units[u + 1] = "B" <=> u = 0
  BY DEF Units
<1>3. QED  BY <1>1, <1>2 DEF UnitName

LEMMA NineFits == 9 <= SizeMax
<1>1. PICK a \in Nat : a = KiloTo(6)
  BY KiloFacts
<1>2. a >= 1
  BY <1>1, KiloFacts
<1>3. 10 * a <= SizeMax + 1
  BY <1>1, KiloFacts
<1>4. QED  BY <1>2, <1>3, Numbers

LEMMA SizeInvInit == Init => SizeInv
<1> SUFFICES ASSUME Init, call.fn = "formatsize" PROVE call \in Calls /\ SizeProgress(call.count)
  BY DEF SizeInv
<1>1. call \in Calls /\ pos = 1 /\ va = call.va /\ status = "running" /\ full = << >>
  BY DEF Init
<1>2. PICK b \in 0..SizeMax : b = call.count
  BY <1>1, SizeCount
<1>3. Running
  BY <1>1 DEF Running
<1>4. ASSUME UnitName(b) = "B" PROVE InBytes(Whole(b))
  <2>1. Format = <<"%", "z", "u", "B", "NUL">> /\ va = <<b>>
    BY <1>1, <1>2, <1>4, SizeCall
  <2>2. Unit(b) = 0
    BY <1>2, <1>4, UnitIsB
  <2>3. Whole(b) = b
    BY Divided, <2>2, KiloFacts DEF Whole
  <2>4. va[1] = Whole(b)
    BY <2>1, <2>3
  <2>5. QED  BY <1>1, <1>3, <2>1, <2>4 DEF InBytes
<1>5. ASSUME UnitName(b) # "B", Tenth(b) = 0 PROVE InUnits(Whole(b), UnitName(b))
  BY <1>1, <1>2, <1>5, SizeCall, <1>3 DEF InUnits
<1>6. ASSUME UnitName(b) # "B", Tenth(b) # 0
      PROVE  InTenths(Whole(b), Tenth(b), UnitName(b))
  BY <1>1, <1>2, <1>6, SizeCall, <1>3 DEF InTenths
<1>7. QED  BY <1>1, <1>2, <1>4, <1>5, <1>6 DEF SizeProgress

LEMMA SizeInvNext == SizeInv /\ [Next]_vars => SizeInv'
<1> SUFFICES ASSUME SizeInv, [Next]_vars PROVE SizeInv'
  OBVIOUS
<1>1. CASE UNCHANGED vars
  BY <1>1 DEF vars, SizeInv, SizeProgress, InBytes, InUnits, InTenths, Running, Format
<1>2. CASE Next
  <2>1. call' = call
    BY <1>2 DEF Next, PutLiteral, ConvertInteger, ConvertPointer, ConvertChar, ConvertString,
                ConvertOther, Terminate, Converted
  <2> SUFFICES ASSUME call.fn = "formatsize" PROVE SizeInv'
    BY <2>1 DEF SizeInv
  <2>2. call \in Calls /\ SizeProgress(call.count)
    BY DEF SizeInv
  <2>3. PICK b \in 0..SizeMax : b = call.count
    BY <2>2, SizeCount
  <2>4. PICK w, t, u : w = Whole(b) /\ t = Tenth(b) /\ u = UnitName(b)
    OBVIOUS
  <2>5. w \in 0..SizeMax /\ t \in 0..SizeMax
    BY <2>4, TenthFacts, NineFits, Numbers
  <2>6. /\ u = "B" => InBytes(w)'
        /\ u # "B" /\ t = 0 => InUnits(w, u)'
        /\ u # "B" /\ t # 0 => InTenths(w, t, u)'
    BY <1>2, <2>2, <2>3, <2>4, <2>5, BytesStep, UnitsStep, TenthsStep DEF SizeProgress
  <2>7. SizeProgress(b)'
    BY <2>4, <2>6 DEF SizeProgress
  <2>8. QED  BY <2>1, <2>2, <2>3, <2>7 DEF SizeInv
<1>3. QED  BY <1>1, <1>2

(* One digit. *)
LEMMA OneDigit == ASSUME NEW t \in 0..9 PROVE InDecimal(t) = <<Decimal[t + 1]>>
<1>1. Ten(0) = 1 /\ Ten(1) = 10
  BY SizeAssumption DEF Ten
<1>2. t \div 10 = 0 /\ t % 10 = t /\ t \div 1 = t
  OBVIOUS
<1>3. IsCount(t, 1, LongBits)
  BY <1>1, <1>2, Numbers DEF IsCount
<1>4. InDecimal(t) = DigitsOf(t, 1)
  BY <1>3, CDigitsAre
<1>5. LowerHex[t + 1] = Decimal[t + 1]
  BY DEF LowerHex, Decimal
<1>6. DigitsOf(t, 1) = [i \in 1..1 |-> Decimal[t + 1]]
  BY <1>1, <1>2, <1>5 DEF DigitsOf
<1>7. PICK c : c = Decimal[t + 1]
  OBVIOUS
<1>8. [i \in 1..1 |-> c] = <<c>>
  <2>1. PICK s : s = <<c>>
    OBVIOUS
  <2>2. s \in Seq({c}) /\ Len(s) = 1 /\ s[1] = c
    BY <2>1
  <2>3. s = [i \in 1..1 |-> s[i]] /\ \A i \in 1..1 : i = 1
    BY <2>2
  <2>4. QED  BY <2>1, <2>2, <2>3
<1>9. QED  BY <1>4, <1>6, <1>7, <1>8

LEMMA PointAndDigit ==
  ASSUME NEW s, IsText(s), NEW c
  PROVE  (s \o <<".">>) \o <<c>> = s \o <<".", c>>
<1>1. PICK S : S = {s[i] : i \in 1..Len(s)} \cup {".", c}
  OBVIOUS
<1>2. s \in Seq(S)
  BY <1>1 DEF IsText
<1>3. <<".">> \in Seq(S) /\ <<c>> \in Seq(S)
  BY <1>1
<1>4. (s \o <<".">>) \o <<c>> = s \o (<<".">> \o <<c>>)
  BY <1>2, <1>3, ConcatAssociative
<1>5. <<".">> \o <<c>> = <<".", c>>
  <2>1. PICK r, q : r = <<".">> \o <<c>> /\ q = <<".", c>>
    OBVIOUS
  <2>2. r \in Seq(S) /\ Len(r) = 2 /\ r[1] = "." /\ r[2] = c
    BY <1>3, <2>1
  <2>3. q \in Seq(S) /\ Len(q) = 2 /\ q[1] = "." /\ q[2] = c
    BY <1>1, <2>1
  <2>4. r = [i \in 1..2 |-> r[i]] /\ q = [i \in 1..2 |-> q[i]]
    BY <2>2, <2>3
  <2>5. \A i \in 1..2 : r[i] = q[i]
    BY <2>2, <2>3
  <2>6. QED  BY <2>1, <2>4, <2>5
<1>6. QED  BY <1>4, <1>5
-----------------------------------------------------------------------------
(* Conversions of integers.  The digits of a number, last one first. *)

Pow(b, k) == b^k
Bases == {2, 8, 10, 16}
HexDigits(upper) == IF upper THEN UpperHex ELSE LowerHex
DigitAt(m, b, upper, i) == HexDigits(upper)[((m \div Pow(b, i - 1)) % b) + 1]

(* n digits are as many as m has. *)
HasDigits(m, b, n) ==
  /\ n \in Nat \ {0} /\ n <= LongBits
  /\ m \div Pow(b, n) = 0 /\ \A k \in 1..n - 1 : m \div Pow(b, k) # 0

LEMMA BasePowers ==
  ASSUME NEW b \in Bases
  PROVE  /\ Pow(b, 0) = 1
         /\ \E n \in 1..LongBits :
              /\ Pow(b, n) \in Nat /\ Pow(b, n) > SizeMax
              /\ \A k \in 0..n - 1 : Pow(b, k) \in Nat \ {0} /\ Pow(b, k + 1) = b * Pow(b, k)
  BY PowersAssumption DEF Bases, Pow

(* A quotient is zero just below its divisor. *)
LEMMA ZeroQuotient ==
  ASSUME NEW m \in Nat, NEW t \in Nat \ {0}
  PROVE  m \div t = 0 <=> m < t
<1>1. PICK q, r : q = m \div t /\ r = m % t
  OBVIOUS
<1>2. q \in Int /\ m = t * q + r /\ r \in 0..t - 1
  BY <1>1, QuotientBounds
<1>3. CASE m < t
  BY <1>3, Divided
<1>4. CASE q = 0
  BY <1>2, <1>4, <1>1
<1>5. QED  BY <1>1, <1>3, <1>4

(* Of a number that is not zero the first digit is not, as the number is   *)
(* less than the next power.                                               *)
LEMMA LeadingDigit ==
  ASSUME NEW m \in Nat, NEW b \in Nat \ {0}, NEW t \in Nat \ {0},
         m < b * t, t <= m
  PROVE  (m \div t) % b # 0
<1>1. PICK q, r : q = m \div t /\ r = m % t
  OBVIOUS
<1>2. q \in Int /\ m = t * q + r /\ r \in 0..t - 1
  BY <1>1, QuotientBounds
<1>3. q < b
  <2> SUFFICES ASSUME q >= b PROVE FALSE
    BY <1>2
  <2>1. PICK x \in Nat : x = q - b
    BY <1>2
  <2>2. t * q = t * x + b * t
    BY <1>2, <2>1
  <2>3. PICK y \in Nat : y = t * x
    BY ProductSign
  <2>4. PICK z \in Nat : z = b * t
    BY ProductSign
  <2>5. m = (y + z) + r
    BY <1>2, <2>2, <2>3, <2>4
  <2>6. m < z
    BY <2>4
  <2>7. QED  BY <1>2, <2>5, <2>6
<1>4. q >= 1
  <2> SUFFICES ASSUME q <= 0 PROVE FALSE
    BY <1>2
  <2>1. PICK x \in Nat : x = 0 - q
    BY <1>2
  <2>2. PICK y \in Nat : y = t * x
    BY ProductSign
  <2>3. t * q = 0 - y
    BY <1>2, <2>1, <2>2
  <2>4. QED  BY <1>2, <2>2, <2>3
<1>5. q \in 0..b - 1
  BY <1>2, <1>3, <1>4
<1>6. q % b = q
  BY <1>5, SmallRemainder
<1>7. QED  BY <1>1, <1>4, <1>6

LEMMA NumberOfDigits ==
  ASSUME NEW b \in Bases, NEW m \in 0..SizeMax
  PROVE  \E n \in Nat :
           /\ HasDigits(m, b, n)
           /\ \A k \in 0..n - 1 : Pow(b, k) \in Nat \ {0}
           /\ m # 0 => (m \div Pow(b, n - 1)) % b # 0
           /\ m = 0 => n = 1
<1>1. PICK top \in 1..LongBits :
        /\ Pow(b, top) \in Nat /\ Pow(b, top) > SizeMax
        /\ \A k \in 0..top - 1 : Pow(b, k) \in Nat \ {0} /\ Pow(b, k + 1) = b * Pow(b, k)
  BY BasePowers
<1>2. top \in Nat \ {0} /\ top <= LongBits /\ m \in Nat /\ b \in Nat \ {0}
  BY Numbers DEF Bases
<1>3. Pow(b, top) \in Nat \ {0} /\ m < Pow(b, top)
  BY <1>1, <1>2, Numbers
<1>4. m \div Pow(b, top) = 0
  BY <1>2, <1>3, ZeroQuotient
<1> DEFINE S == {n \in 1..top : m \div Pow(b, n) = 0}
<1>5. S \in SUBSET Nat /\ top \in S
  BY <1>2, <1>4
<1>6. PICK n \in S : \A k \in S : n <= k
  <2> HIDE DEF S
  <2>1. QED  BY <1>5, Least
<1>7. n \in Nat \ {0} /\ n <= top /\ m \div Pow(b, n) = 0
  BY <1>2
<1>8. ASSUME NEW k \in 1..n - 1 PROVE m \div Pow(b, k) # 0
  <2>1. k \in 1..top /\ ~(n <= k)
    BY <1>2, <1>7
  <2>2. k \notin S
    <3> HIDE DEF S
    <3>1. QED  BY <1>6, <2>1
  <2>3. QED  BY <2>1, <2>2
<1> HIDE DEF S
<1>9. HasDigits(m, b, n)
  BY <1>2, <1>7, <1>8, Numbers DEF HasDigits
<1>10. \A k \in 0..n - 1 : Pow(b, k) \in Nat \ {0}
  BY <1>1, <1>2, <1>7
<1>11. PICK p : p = n - 1
  OBVIOUS
<1>12. p \in 0..top - 1 /\ p + 1 = n /\ p \in Nat
  BY <1>2, <1>7, <1>11
<1>13. PICK t \in Nat \ {0} : t = Pow(b, p)
  BY <1>1, <1>12
<1>14. Pow(b, n) = b * t
  BY <1>1, <1>12, <1>13
<1>15. PICK s \in Nat \ {0} : s = b * t
  BY <1>2, ProductSign
<1>16. m < s
  BY <1>2, <1>7, <1>14, <1>15, ZeroQuotient
<1>17. ASSUME m # 0 PROVE t <= m
  <2>1. CASE p = 0
    BY <1>13, <2>1, BasePowers, <1>2, <1>17
  <2>2. CASE p # 0
    BY <1>7, <1>12, <2>2, <1>8, <1>13, <1>2, ZeroQuotient
  <2>3. QED  BY <2>1, <2>2
<1>18. m # 0 => (m \div t) % b # 0
  BY <1>2, <1>15, <1>16, <1>17, LeadingDigit
<1>19. ASSUME m = 0 PROVE n = 1
  <2>1. PICK s1 : s1 = Pow(b, 1)
    OBVIOUS
  <2>2. s1 \in Nat \ {0}
    <3>1. CASE top = 1
      BY <1>3, <2>1, <3>1
    <3>2. CASE top # 1
      BY <1>1, <1>2, <2>1, <3>2
    <3>3. QED  BY <3>1, <3>2
  <2>3. m \div s1 = 0
    BY <1>2, <1>19, <2>2, ZeroQuotient
  <2>4. 1 \notin 1..n - 1
    BY <1>8, <2>1, <2>3
  <2>5. QED  BY <1>7, <2>4
<1>20. QED  BY <1>7, <1>9, <1>10, <1>11, <1>13, <1>18, <1>19

LEMMA DigitsOfBase ==
  ASSUME NEW b \in Bases, NEW m \in Nat, NEW upper \in BOOLEAN,
         NEW i \in Nat \ {0}, Pow(b, i - 1) \in Nat \ {0}
  PROVE  /\ DigitAt(m, b, upper, i) # "SP"
         /\ DigitAt(m, b, upper, i) = "0" <=> (m \div Pow(b, i - 1)) % b = 0
<1>1. PICK t \in Nat \ {0} : t = Pow(b, i - 1)
  OBVIOUS
<1>2. PICK q : q = m \div t
  OBVIOUS
<1>3. q \in Int
  BY <1>2, QuotientBounds
<1>4. PICK r : r = q % b
  OBVIOUS
<1>5. r \in 0..15
  BY <1>3, <1>4, QuotientBounds DEF Bases
<1>6. DigitAt(m, b, upper, i) = HexDigits(upper)[r + 1]
  BY <1>1, <1>2, <1>4 DEF DigitAt
<1>7. r \in {0, 1, 2, 3, 4, 5, 6, 7, 8, 9, 10, 11, 12, 13, 14, 15}
  BY <1>5
<1>8. LowerHex[r + 1] # "SP" /\ (LowerHex[r + 1] = "0" <=> r = 0)
  BY <1>7 DEF LowerHex, Decimal
<1>9. UpperHex[r + 1] # "SP" /\ (UpperHex[r + 1] = "0" <=> r = 0)
  BY <1>7 DEF UpperHex, Decimal
<1>10. QED  BY <1>1, <1>2, <1>4, <1>6, <1>8, <1>9 DEF HexDigits

(* A number from its end: k digits, z zeros, and what is in front, which   *)
(* is reversed as well.                                                    *)
Back(D, k, z, f) ==
  [i \in 1..k + z + Len(f) |->
     IF i <= k THEN D[i] ELSE IF i <= k + z THEN "0" ELSE f[i - k - z]]

LEMMA EqualTexts ==
  ASSUME NEW s, NEW t, IsText(s), IsText(t), Len(s) = Len(t),
         \A i \in 1..Len(s) : s[i] = t[i]
  PROVE  s = t
<1>1. PICK n : n = Len(s)
  OBVIOUS
<1>2. s = [i \in 1..n |-> s[i]] /\ t = [i \in 1..n |-> t[i]]
  BY <1>1 DEF IsText
<1>3. \A i \in 1..n : s[i] = t[i]
  BY <1>1
<1>4. [i \in 1..n |-> s[i]] = [i \in 1..n |-> t[i]]
  BY <1>3
<1>5. QED  BY <1>2, <1>4

LEMMA ReversedElements ==
  ASSUME NEW s, IsText(s)
  PROVE  /\ IsText(Reversed(s)) /\ Len(Reversed(s)) = Len(s)
         /\ \A i \in 1..Len(s) : Reversed(s)[i] = s[Len(s) + 1 - i]
<1>1. DOMAIN s = 1..Len(s) /\ Len(s) \in Nat
  BY TextIsSeq DEF IsText
<1>2. PICK r : r = Reversed(s)
  OBVIOUS
<1>3. r = [i \in 1..Len(s) |-> s[Len(s) + 1 - i]]
  BY <1>1, <1>2 DEF Reversed
<1>4. DOMAIN r = 1..Len(s) /\ r = [i \in 1..Len(s) |-> r[i]]
  BY <1>3
<1>5. IsText(r) /\ Len(r) = Len(s)
  BY <1>1, <1>4, FunctionIsText
<1>6. \A i \in 1..Len(s) : r[i] = s[Len(s) + 1 - i]
  BY <1>3
<1>7. QED  BY <1>2, <1>5, <1>6

LEMMA RepeatElements ==
  ASSUME NEW c, NEW n \in Nat
  PROVE  /\ IsText(Repeat(c, n)) /\ Len(Repeat(c, n)) = n
         /\ \A i \in 1..n : Repeat(c, n)[i] = c
<1>1. PICK s : s = Repeat(c, n)
  OBVIOUS
<1>2. s = [i \in 1..n |-> c]
  BY <1>1 DEF Repeat
<1>3. DOMAIN s = 1..n /\ s = [i \in 1..n |-> s[i]]
  BY <1>2
<1>4. IsText(s) /\ Len(s) = n
  BY <1>3, FunctionIsText
<1>5. QED  BY <1>1, <1>2, <1>4

(* s has n characters: k digits, z zeros, and f.                           *)
Reads(s, n, D, k, z, f) ==
  /\ IsText(s) /\ Len(s) = n
  /\ \A i \in 1..n : /\ i <= k => s[i] = D[i]
                     /\ k < i /\ i <= k + z => s[i] = "0"
                     /\ k + z < i => s[i] = f[i - (k + z)]

LEMMA BackReads ==
  ASSUME NEW D, NEW k \in Nat, NEW z \in Nat, NEW f, IsText(f), NEW n, n = k + z + Len(f)
  PROVE  Reads(Back(D, k, z, f), n, D, k, z, f) /\ n \in Nat
<1>1. n \in Nat
  BY DEF IsText
<1>2. PICK s : s = Back(D, k, z, f)
  OBVIOUS
<1>3. s = [i \in 1..n |-> IF i <= k THEN D[i] ELSE IF i <= k + z THEN "0" ELSE f[i - (k + z)]]
  BY <1>2 DEF Back
<1>4. DOMAIN s = 1..n /\ s = [i \in 1..n |-> s[i]]
  BY <1>3
<1>5. IsText(s) /\ Len(s) = n
  BY <1>1, <1>4, FunctionIsText
<1>6. \A i \in 1..n : s[i] = IF i <= k THEN D[i] ELSE IF i <= k + z THEN "0" ELSE f[i - (k + z)]
  BY <1>3
<1>7. ASSUME NEW i \in 1..n
      PROVE  /\ i <= k => s[i] = D[i]
             /\ k < i /\ i <= k + z => s[i] = "0"
             /\ k + z < i => s[i] = f[i - (k + z)]
  BY <1>1, <1>6
<1>8. QED  BY <1>1, <1>2, <1>5, <1>7 DEF Reads

LEMMA EmptyIsText == IsText(<< >>) /\ Len(<< >>) = 0
<1>1. << >> \in Seq({0}) /\ Len(<< >>) = 0
  OBVIOUS
<1>2. QED  BY <1>1, SeqIsText

LEMMA PlainReads ==
  ASSUME NEW D, NEW k \in Nat, NEW z \in Nat, NEW n, n = k + z
  PROVE  Reads(Back(D, k, z, << >>), n, D, k, z, << >>) /\ n \in Nat
<1>1. PICK e : e = << >>
  OBVIOUS
<1>2. IsText(e) /\ n = k + z + Len(e)
  BY <1>1, EmptyIsText
<1>3. Reads(Back(D, k, z, e), n, D, k, z, e) /\ n \in Nat
  BY <1>2, BackReads
<1>4. QED  BY <1>1, <1>3

LEMMA ReadOnce ==
  ASSUME NEW D, NEW k \in Nat, NEW z \in Nat, NEW f, NEW n \in Nat,
         NEW s, NEW t, Reads(s, n, D, k, z, f), Reads(t, n, D, k, z, f)
  PROVE  s = t
<1>1. IsText(s) /\ IsText(t) /\ Len(s) = n /\ Len(t) = n
  BY DEF Reads
<1>2. ASSUME NEW i \in 1..n PROVE s[i] = t[i]
  BY DEF Reads
<1>3. QED  BY <1>1, <1>2, EqualTexts

(* A text of two parts, and one reversed. *)
Parts(x, u, m, v, n) ==
  /\ IsText(x) /\ Len(x) = m + n
  /\ \A i \in 1..m + n : (i <= m => x[i] = u[i]) /\ (m < i => x[i] = v[i - m])

LEMMA JoinedParts ==
  ASSUME NEW u, IsText(u), NEW m, Len(u) = m, NEW v, IsText(v), NEW n, Len(v) = n
  PROVE  Parts(u \o v, u, m, v, n) /\ m \in Nat /\ n \in Nat
<1>1. m \in Nat /\ n \in Nat
  BY DEF IsText
<1>2. PICK x : x = u \o v
  OBVIOUS
<1>3. Joins(x, u, v)
  BY <1>2, Joined
<1>4. IsText(x) /\ Len(x) = m + n
  BY <1>3 DEF Joins
<1>5. \A i \in 1..m + n : x[i] = IF i <= m THEN u[i] ELSE v[i - m]
  BY <1>3, <1>4 DEF Joins
<1>6. ASSUME NEW i \in 1..m + n PROVE (i <= m => x[i] = u[i]) /\ (m < i => x[i] = v[i - m])
  BY <1>1, <1>5
<1>7. QED  BY <1>1, <1>2, <1>4, <1>6 DEF Parts

Mirrors(w, s, n) == IsText(w) /\ Len(w) = n /\ \A i \in 1..n : w[i] = s[(n + 1) - i]

LEMMA Mirrored ==
  ASSUME NEW s, IsText(s), NEW n, n = Len(s)
  PROVE  Mirrors(Reversed(s), s, n) /\ n \in Nat
  BY ReversedElements DEF IsText, Mirrors

(* A text in front of a number. *)
Heads(u, m, s, l, t) ==
  /\ IsText(u) /\ Len(u) = m /\ IsText(s) /\ Len(s) = l /\ IsText(t) /\ Len(t) = l + m
  /\ \A i \in 1..l : t[i] = s[i]
  /\ \A i \in 1..m : u[i] = t[l + ((m + 1) - i)]

LEMMA InFront ==
  ASSUME NEW m \in Nat, NEW l \in Nat, NEW u, NEW s, NEW t, Heads(u, m, s, l, t)
  PROVE  u \o Reversed(s) = Reversed(t)
<1>0. /\ IsText(u) /\ Len(u) = m /\ IsText(s) /\ Len(s) = l /\ IsText(t) /\ Len(t) = l + m
      /\ \A i \in 1..l : t[i] = s[i]
      /\ \A i \in 1..m : u[i] = t[l + ((m + 1) - i)]
  BY DEF Heads
<1>1. PICK v, w, x : v = Reversed(s) /\ w = Reversed(t) /\ x = u \o v
  OBVIOUS
<1>2. Mirrors(v, s, l)
  BY <1>0, <1>1, Mirrored
<1>3. PICK n \in Nat : n = l + m
  OBVIOUS
<1>4. Mirrors(w, t, n)
  BY <1>0, <1>1, <1>3, Mirrored
<1>5. Parts(x, u, m, v, l)
  BY <1>0, <1>1, <1>2, JoinedParts DEF Mirrors
<1>6. ASSUME NEW i \in 1..n PROVE x[i] = w[i]
  <2>1. m + l = n /\ i \in 1..m + l
    BY <1>3
  <2>2. CASE i <= m
    BY <1>3, <2>2, <1>5, <2>1, <1>0, <1>4 DEF Parts, Mirrors
  <2>3. CASE m < i
    <3>1. PICK j : j = i - m
      OBVIOUS
    <3>2. j \in 1..l /\ (l + 1) - j = (n + 1) - i /\ (l + 1) - j \in 1..l
      BY <1>3, <2>3, <3>1
    <3>3. x[i] = v[j]
      BY <1>5, <2>1, <2>3, <3>1 DEF Parts
    <3>4. v[j] = s[(l + 1) - j]
      BY <1>2, <3>2 DEF Mirrors
    <3>5. s[(l + 1) - j] = t[(n + 1) - i]
      BY <1>0, <3>2
    <3>6. QED  BY <1>4, <3>3, <3>4, <3>5 DEF Mirrors
  <2>4. QED  BY <2>2, <2>3
<1>7. IsText(x) /\ Len(x) = n
  BY <1>3, <1>5 DEF Parts
<1>8. x = w
  BY <1>4, <1>6, <1>7, EqualTexts DEF Mirrors
<1>9. QED  BY <1>1, <1>8

(* Zeros and a sign or prefix before a number, as C puts them. *)
LEMMA ZerosBefore ==
  ASSUME NEW D, NEW k \in Nat, NEW z \in Nat, NEW n \in Nat
  PROVE  Repeat("0", n) \o Reversed(Back(D, k, z, << >>)) = Reversed(Back(D, k, z + n, << >>))
<1>1. PICK s, t, u : /\ s = Back(D, k, z, << >>) /\ t = Back(D, k, z + n, << >>)
                     /\ u = Repeat("0", n)
  OBVIOUS
<1>2. PICK l \in Nat, y \in Nat, m \in Nat : l = k + z /\ y = z + n /\ m = l + n
  OBVIOUS
<1>3. m = k + y
  BY <1>2
<1>4. Reads(s, l, D, k, z, << >>) /\ Reads(t, m, D, k, y, << >>)
  BY <1>1, <1>2, <1>3, PlainReads
<1>5. IsText(u) /\ Len(u) = n /\ \A i \in 1..n : u[i] = "0"
  BY <1>1, RepeatElements
<1>6. ASSUME NEW i \in 1..l PROVE t[i] = s[i]
  BY <1>2, <1>4 DEF Reads
<1>7. ASSUME NEW i \in 1..n PROVE u[i] = t[l + ((n + 1) - i)]
  <2>1. PICK j : j = l + ((n + 1) - i)
    OBVIOUS
  <2>2. j \in 1..m /\ k < j /\ j <= k + y
    BY <1>2, <2>1
  <2>3. t[j] = "0"
    BY <1>4, <2>2 DEF Reads
  <2>4. QED  BY <1>5, <2>1, <2>3
<1>8. IsText(s) /\ Len(s) = l /\ IsText(t) /\ Len(t) = l + n
  BY <1>2, <1>4 DEF Reads
<1>9. Heads(u, n, s, l, t)
  BY <1>5, <1>6, <1>7, <1>8 DEF Heads
<1>10. u \o Reversed(s) = Reversed(t)
  BY <1>9, InFront
<1>11. QED  BY <1>1, <1>10

LEMMA FrontBefore ==
  ASSUME NEW D, NEW k \in Nat, NEW z \in Nat, NEW f, IsText(f)
  PROVE  Reversed(f) \o Reversed(Back(D, k, z, << >>)) = Reversed(Back(D, k, z, f))
<1>1. PICK s, t, u : /\ s = Back(D, k, z, << >>) /\ t = Back(D, k, z, f)
                     /\ u = Reversed(f)
  OBVIOUS
<1>2. PICK n \in Nat : n = Len(f)
  BY DEF IsText
<1>3. PICK l \in Nat, m \in Nat : l = k + z /\ m = l + n
  OBVIOUS
<1>4. Reads(s, l, D, k, z, << >>) /\ Reads(t, m, D, k, z, f)
  BY <1>1, <1>2, <1>3, PlainReads, BackReads
<1>5. Mirrors(u, f, n)
  BY <1>1, <1>2, Mirrored
<1>6. ASSUME NEW i \in 1..l PROVE t[i] = s[i]
  BY <1>3, <1>4 DEF Reads
<1>7. ASSUME NEW i \in 1..n PROVE u[i] = t[l + ((n + 1) - i)]
  <2>1. PICK j : j = l + ((n + 1) - i)
    OBVIOUS
  <2>2. j \in 1..m /\ k + z < j /\ j - (k + z) = (n + 1) - i
    BY <1>3, <2>1
  <2>3. t[j] = f[(n + 1) - i]
    BY <1>4, <2>2 DEF Reads
  <2>4. QED  BY <1>5, <2>1, <2>3 DEF Mirrors
<1>8. IsText(s) /\ Len(s) = l /\ IsText(t) /\ Len(t) = l + n
  BY <1>3, <1>4 DEF Reads
<1>9. IsText(u) /\ Len(u) = n
  BY <1>5 DEF Mirrors
<1>10. Heads(u, n, s, l, t)
  BY <1>6, <1>7, <1>8, <1>9 DEF Heads
<1>11. u \o Reversed(s) = Reversed(t)
  BY <1>10, InFront
<1>12. QED  BY <1>1, <1>11

(* The same in the conversion buffer.  The prover does not find a sum, but *)
(* the name of one.                                                        *)
Totals(n, i, j) == n = i + j

LEMMA ZerosBehind ==
  ASSUME NEW D, NEW k \in Nat, NEW z \in Nat, NEW n \in Int, NEW y \in Nat,
         NEW a, Totals(a, z, y),
         y = AtLeast(AtMost(n, PRINTF_NTOA_BUFFER_SIZE) - (k + z), 0)
  PROVE  ZerosUpTo(Back(D, k, z, << >>), n) = Back(D, k, a, << >>)
<1>1. PICK s, t, u : /\ s = Back(D, k, z, << >>) /\ t = Back(D, k, a, << >>)
                     /\ u = Repeat("0", y)
  OBVIOUS
<1>2. PICK l \in Nat, m \in Nat : l = k + z /\ m = l + y
  OBVIOUS
<1>0. a = z + y
  BY DEF Totals
<1>3. m = k + a /\ a \in Nat
  BY <1>0, <1>2
<1>4. Reads(s, l, D, k, z, << >>) /\ Reads(t, m, D, k, a, << >>)
  BY <1>1, <1>2, <1>3, PlainReads
<1>5. IsText(u) /\ Len(u) = y /\ \A i \in 1..y : u[i] = "0"
  BY <1>1, RepeatElements
<1>6. PICK x : x = s \o u
  OBVIOUS
<1>7. Parts(x, s, l, u, y)
  BY <1>4, <1>5, <1>6, JoinedParts DEF Reads
<1>8. ASSUME NEW i \in 1..m PROVE x[i] = t[i]
  <2>1. i \in 1..l + y
    BY <1>2
  <2>2. CASE i <= l
    <3>1. x[i] = s[i] /\ i \in 1..l
      BY <1>7, <2>1, <2>2 DEF Parts
    <3>2. CASE i <= k
      BY <1>4, <3>1, <3>2, <2>1, <1>2 DEF Reads
    <3>3. CASE k < i
      BY <1>0, <1>2, <2>1, <2>2, <1>4, <3>1, <3>3 DEF Reads
    <3>4. QED  BY <1>2, <3>2, <3>3
  <2>3. CASE l < i
    BY <1>0, <1>2, <2>3, <1>7, <2>1, <1>4, <1>5 DEF Parts, Reads
  <2>4. QED  BY <2>2, <2>3
<1>9. IsText(x) /\ Len(x) = m /\ IsText(t) /\ Len(t) = m
  BY <1>2, <1>4, <1>7 DEF Reads, Parts
<1>10. x = t
  BY <1>8, <1>9, EqualTexts
<1>11. Len(s) = k + z
  BY <1>2, <1>4 DEF Reads
<1>12. ZerosUpTo(s, n) = x
  BY <1>1, <1>6, <1>11 DEF ZerosUpTo
<1>13. QED  BY <1>1, <1>10, <1>12

(* g is f and one character. *)
Longer(g, f, h, c) ==
  /\ IsText(f) /\ Len(f) = h /\ IsText(g) /\ Len(g) = h + 1
  /\ g[h + 1] = c /\ \A i \in 1..h : g[i] = f[i]

LEMMA AppendBehind ==
  ASSUME NEW D, NEW k \in Nat, NEW z \in Nat, NEW h \in Nat, NEW f, NEW g, NEW c,
         Longer(g, f, h, c), k + z + h < PRINTF_NTOA_BUFFER_SIZE
  PROVE  AppendChar(Back(D, k, z, f), c) = Back(D, k, z, g)
<1>0. /\ IsText(f) /\ Len(f) = h /\ IsText(g) /\ Len(g) = h + 1
      /\ g[h + 1] = c /\ \A i \in 1..h : g[i] = f[i]
  BY DEF Longer
<1>1. PICK s, t : s = Back(D, k, z, f) /\ t = Back(D, k, z, g)
  OBVIOUS
<1>2. PICK n \in Nat, m \in Nat : n = k + z + h /\ m = n + 1
  OBVIOUS
<1>3. m = k + z + (h + 1)
  BY <1>2
<1>4. Reads(s, n, D, k, z, f) /\ Reads(t, m, D, k, z, g)
  BY <1>0, <1>1, <1>2, <1>3, BackReads
<1>5. PICK u, x : u = <<c>> /\ x = s \o u
  OBVIOUS
<1>6. IsText(u) /\ Len(u) = 1 /\ u[1] = c
  BY <1>5, OneIsText
<1>7. IsText(s) /\ Len(s) = n
  BY <1>4 DEF Reads
<1>8. Parts(x, s, n, u, 1)
  BY <1>5, <1>6, <1>7, JoinedParts
<1>9. ASSUME NEW i \in 1..m PROVE x[i] = t[i]
  <2>1. i \in 1..n + 1
    BY <1>2
  <2>2. CASE i <= n
    <3>1. x[i] = s[i] /\ i \in 1..n
      BY <1>8, <2>1, <2>2 DEF Parts
    <3>2. CASE i <= k + z
      BY <1>2, <1>4, <3>1, <3>2 DEF Reads
    <3>3. CASE k + z < i
      BY <1>2, <2>2, <3>3, <1>0, <1>4, <3>1 DEF Reads
    <3>4. QED  BY <1>2, <3>2, <3>3
  <2>3. CASE n < i
    BY <1>2, <2>3, <1>8, <2>1, <1>4, <1>0, <1>6 DEF Parts, Reads
  <2>4. QED  BY <1>2, <2>2, <2>3
<1>10. IsText(x) /\ Len(x) = m /\ IsText(t) /\ Len(t) = m
  BY <1>2, <1>4, <1>8 DEF Reads, Parts
<1>11. x = t
  BY <1>9, <1>10, EqualTexts
<1>12. Append(s, c) = x
  <2>1. PICK S : s \in Seq(S)
    BY <1>7, TextIsSeq
  <2>2. QED  BY <1>5, <2>1
<1>13. AppendChar(s, c) = Append(s, c)
  BY <1>2, <1>7 DEF AppendChar
<1>14. QED  BY <1>1, <1>11, <1>12, <1>13

LEMMA AppendFirst ==
  ASSUME NEW D, NEW k \in Nat, NEW z \in Nat, NEW c, k + z < PRINTF_NTOA_BUFFER_SIZE
  PROVE  AppendChar(Back(D, k, z, << >>), c) = Back(D, k, z, <<c>>)
<1>1. PICK f, g : f = << >> /\ g = <<c>>
  OBVIOUS
<1>2. IsText(f) /\ Len(f) = 0 /\ IsText(g) /\ Len(g) = 0 + 1 /\ g[0 + 1] = c
  BY <1>1, EmptyIsText, OneIsText
<1>3. Longer(g, f, 0, c) /\ k + z + 0 < PRINTF_NTOA_BUFFER_SIZE
  BY <1>2 DEF Longer
<1>4. AppendChar(Back(D, k, z, f), c) = Back(D, k, z, g)
  BY <1>3, AppendBehind
<1>5. QED  BY <1>1, <1>4

LEMMA AppendSecond ==
  ASSUME NEW D, NEW k \in Nat, NEW z \in Nat, NEW a, NEW c, k + z + 1 < PRINTF_NTOA_BUFFER_SIZE
  PROVE  AppendChar(Back(D, k, z, <<a>>), c) = Back(D, k, z, <<a, c>>)
<1>1. PICK f, g : f = <<a>> /\ g = <<a, c>>
  OBVIOUS
<1>2. IsText(f) /\ Len(f) = 1 /\ f[1] = a
  BY <1>1, OneIsText
<1>3. g \in Seq({a, c}) /\ Len(g) = 1 + 1 /\ g[1 + 1] = c /\ g[1] = a
  BY <1>1
<1>4. IsText(g)
  BY <1>3, SeqIsText
<1>5. Longer(g, f, 1, c)
  BY <1>2, <1>3, <1>4 DEF Longer
<1>6. AppendChar(Back(D, k, z, f), c) = Back(D, k, z, g)
  BY <1>5, AppendBehind
<1>7. QED  BY <1>1, <1>6

(* Dropping characters drops the front of the number. *)
Kept(s, n) == SubSeq(s, 1, n)

LEMMA CutBehind ==
  ASSUME NEW D, NEW k \in Nat, NEW z \in Nat, NEW j \in Nat, NEW y \in Nat,
         NEW e, Totals(e, j, y), j <= k, j < k => y = 0, y <= z
  PROVE  Kept(Back(D, k, z, << >>), e) = Back(D, j, y, << >>)
<1>1. PICK s, t : s = Back(D, k, z, << >>) /\ t = Back(D, j, y, << >>)
  OBVIOUS
<1>2. PICK n \in Nat, m \in Nat : n = k + z /\ m = e /\ m = j + y
  BY DEF Totals
<1>3. Reads(s, n, D, k, z, << >>) /\ Reads(t, m, D, j, y, << >>)
  BY <1>1, <1>2, PlainReads
<1>4. PICK x : x = SubSeq(s, 1, m)
  OBVIOUS
<1>5. x = [i \in 1..m |-> s[i]]
  BY <1>4
<1>6. DOMAIN x = 1..m /\ x = [i \in 1..m |-> x[i]]
  BY <1>5
<1>7. IsText(x) /\ Len(x) = m
  BY <1>6, FunctionIsText
<1>8. ASSUME NEW i \in 1..m PROVE x[i] = t[i]
  <2>1. x[i] = s[i] /\ i \in 1..n
    BY <1>2, <1>5
  <2>2. CASE i <= j
    BY <1>3, <2>1, <2>2 DEF Reads
  <2>3. CASE j < i
    BY <1>2, <2>3, <1>3, <2>1 DEF Reads
  <2>4. QED  BY <1>2, <2>2, <2>3
<1>9. IsText(t) /\ Len(t) = m
  BY <1>3 DEF Reads
<1>10. x = t
  BY <1>7, <1>8, <1>9, EqualTexts
<1>11. QED  BY <1>1, <1>2, <1>4, <1>10 DEF Kept

(* A zero is a zero. *)
LEMMA ZeroInFront ==
  ASSUME NEW D, NEW k \in Nat, NEW z \in Nat
  PROVE  Back(D, k, z, <<"0">>) = Back(D, k, z + 1, << >>)
<1>1. PICK s, t, f : s = Back(D, k, z, f) /\ t = Back(D, k, z + 1, << >>) /\ f = <<"0">>
  OBVIOUS
<1>2. PICK y \in Nat, n \in Nat : y = z + 1 /\ n = k + y
  OBVIOUS
<1>3. IsText(f) /\ Len(f) = 1 /\ f[1] = "0"
  BY <1>1, OneIsText
<1>4. n = k + z + 1
  BY <1>2
<1>5. Reads(s, n, D, k, z, f)
  BY <1>1, <1>3, <1>4, BackReads
<1>6. Reads(t, n, D, k, y, << >>)
  BY <1>1, <1>2, PlainReads
<1>7. ASSUME NEW i \in 1..n PROVE s[i] = t[i]
  <2>1. CASE i <= k
    BY <1>5, <1>6, <2>1 DEF Reads
  <2>2. CASE k < i /\ i <= k + z
    BY <1>2, <2>2, <1>5, <1>6 DEF Reads
  <2>3. CASE k + z < i
    BY <1>2, <2>3, <1>5, <1>6, <1>3 DEF Reads
  <2>4. QED  BY <2>1, <2>2, <2>3
<1>8. IsText(s) /\ IsText(t) /\ Len(s) = n /\ Len(t) = n
  BY <1>5, <1>6 DEF Reads
<1>9. s = t
  BY <1>7, <1>8, EqualTexts
<1>10. QED  BY <1>1, <1>9

LEMMA ZeroIsDigit ==
  ASSUME NEW D, NEW z \in Nat, D[1] = "0"
  PROVE  Back(D, 1, z, << >>) = Back(D, 0, z + 1, << >>)
<1>1. PICK s, t : s = Back(D, 1, z, << >>) /\ t = Back(D, 0, z + 1, << >>)
  OBVIOUS
<1>2. PICK n \in Nat : n = z + 1
  OBVIOUS
<1>3. n = 1 + z /\ n = 0 + n
  BY <1>2
<1>4. Reads(s, n, D, 1, z, << >>) /\ Reads(t, n, D, 0, n, << >>)
  BY <1>1, <1>2, <1>3, PlainReads
<1>5. ASSUME NEW i \in 1..n PROVE s[i] = t[i]
  <2>1. t[i] = "0"
    BY <1>3, <1>4 DEF Reads
  <2>2. s[i] = "0"
    <3>1. CASE i <= 1
      BY <3>1, <1>4 DEF Reads
    <3>2. CASE 1 < i
      BY <1>2, <1>4, <3>2 DEF Reads
    <3>3. QED  BY <3>1, <3>2
  <2>3. QED  BY <2>1, <2>2
<1>6. IsText(s) /\ IsText(t) /\ Len(s) = n /\ Len(t) = n
  BY <1>4 DEF Reads
<1>7. s = t
  BY <1>5, <1>6, EqualTexts
<1>8. QED  BY <1>1, <1>7

(* A text of width w, on its left or on its right. *)
OnLeft(s, w) == Reversed(s) \o Repeat("SP", AtLeast(w - Len(s), 0))
OnRight(s, w) == Repeat("SP", AtLeast(w - Len(s), 0)) \o Reversed(s)

LEMMA CodeText ==
  ASSUME NEW s, IsText(s), NEW w \in Nat, NEW flags
  PROVE  out_rev(s, w, flags) = IF "LEFT" \in flags THEN OnLeft(s, w)
                                ELSE IF "ZEROPAD" \in flags THEN Reversed(s) ELSE OnRight(s, w)
<1>1. PICK r : r = Reversed(s)
  OBVIOUS
<1>2. IsText(r) /\ Len(r) = Len(s)
  BY <1>1, ReversedElements
<1>3. Repeat("SP", 0) \o r = r
  BY <1>2, NothingRepeated, JoinEmpty
<1>4. CASE "LEFT" \in flags
  BY <1>4, <1>1, <1>2, <1>3 DEF Widening, out_rev, OnLeft
<1>5. CASE "LEFT" \notin flags /\ "ZEROPAD" \in flags
  BY <1>5, <1>1, <1>3 DEF Widening, out_rev
<1>6. CASE "LEFT" \notin flags /\ "ZEROPAD" \notin flags
  BY <1>6, <1>1 DEF Widening, out_rev, OnRight
<1>7. QED  BY <1>4, <1>5, <1>6

LEMMA JustifiedText ==
  ASSUME NEW s, IsText(s), NEW d
  PROVE  Justified(Reversed(s), d) = IF "LEFT" \in d.flags THEN OnLeft(s, d.width)
                                     ELSE OnRight(s, d.width)
  BY ReversedElements DEF Justified, OnLeft, OnRight

(* Characters of such texts. *)
IsOnRight(x, s, n, w) ==
  /\ IsText(x) /\ Len(x) = AtLeast(w, n)
  /\ \A i \in 1..w - n : x[i] = "SP"
  /\ n <= w => \A j \in 1..n : x[(w + 1) - j] = s[j]

IsOnLeft(x, s, n, w) ==
  /\ IsText(x) /\ Len(x) = AtLeast(w, n)
  /\ \A i \in n + 1..w : x[i] = "SP"
  /\ n > 0 => x[n] = s[1]

LEMMA RightElements ==
  ASSUME NEW s, IsText(s), NEW n, n = Len(s), NEW w \in Nat
  PROVE  IsOnRight(OnRight(s, w), s, n, w) /\ n \in Nat
<1>1. PICK a \in Nat : a = AtLeast(w - n, 0)
  BY DEF AtLeast, IsText
<1>2. PICK u, v, x : u = Repeat("SP", a) /\ v = Reversed(s) /\ x = u \o v
  OBVIOUS
<1>3. n \in Nat
  BY DEF IsText
<1>4. IsText(u) /\ Len(u) = a /\ \A i \in 1..a : u[i] = "SP"
  BY <1>2, RepeatElements
<1>5. Mirrors(v, s, n)
  BY <1>2, Mirrored
<1>6. Parts(x, u, a, v, n)
  BY <1>2, <1>4, <1>5, JoinedParts DEF Mirrors
<1>7. x = OnRight(s, w)
  BY <1>1, <1>2 DEF OnRight
<1>8. a + n = AtLeast(w, n) /\ (n <= w => a = w - n) /\ (w < n => a = 0)
  BY <1>1, <1>3 DEF AtLeast
<1>9. IsText(x) /\ Len(x) = AtLeast(w, n)
  BY <1>6, <1>8 DEF Parts
<1>10. ASSUME NEW i \in 1..w - n PROVE x[i] = "SP"
  BY <1>3, <1>8, <1>4, <1>6 DEF Parts
<1>11. ASSUME n <= w, NEW j \in 1..n PROVE x[(w + 1) - j] = s[j]
  <2>1. PICK i : i = (w + 1) - j
    OBVIOUS
  <2>2. i \in 1..a + n /\ a < i /\ i - a = (n + 1) - j
    BY <1>3, <1>8, <1>11, <2>1
  <2>3. x[i] = v[(n + 1) - j]
    BY <1>6, <2>2 DEF Parts
  <2>4. PICK h : h = (n + 1) - j
    OBVIOUS
  <2>5. h \in 1..n /\ (n + 1) - h = j
    BY <1>3, <2>4
  <2>6. v[h] = s[j]
    BY <1>5, <2>5 DEF Mirrors
  <2>7. QED  BY <2>1, <2>3, <2>4, <2>6
<1>12. QED  BY <1>3, <1>7, <1>9, <1>10, <1>11 DEF IsOnRight

LEMMA LeftElements ==
  ASSUME NEW s, IsText(s), NEW n, n = Len(s), NEW w \in Nat
  PROVE  IsOnLeft(OnLeft(s, w), s, n, w) /\ n \in Nat
<1>1. PICK a \in Nat : a = AtLeast(w - n, 0)
  BY DEF AtLeast, IsText
<1>2. PICK u, v, x : u = Repeat("SP", a) /\ v = Reversed(s) /\ x = v \o u
  OBVIOUS
<1>3. n \in Nat
  BY DEF IsText
<1>4. IsText(u) /\ Len(u) = a /\ \A i \in 1..a : u[i] = "SP"
  BY <1>2, RepeatElements
<1>5. Mirrors(v, s, n)
  BY <1>2, Mirrored
<1>6. Parts(x, v, n, u, a)
  BY <1>2, <1>4, <1>5, JoinedParts DEF Mirrors
<1>7. x = OnLeft(s, w)
  BY <1>1, <1>2 DEF OnLeft
<1>8. n + a = AtLeast(w, n) /\ (n <= w => a = w - n) /\ (w < n => a = 0)
  BY <1>1, <1>3 DEF AtLeast
<1>9. IsText(x) /\ Len(x) = AtLeast(w, n)
  BY <1>6, <1>8 DEF Parts
<1>10. ASSUME NEW i \in n + 1..w PROVE x[i] = "SP"
  BY <1>3, <1>8, <1>4, <1>6 DEF Parts
<1>11. ASSUME n > 0 PROVE x[n] = s[1]
  BY <1>3, <1>11, <1>6, <1>5 DEF Parts, Mirrors
<1>12. QED  BY <1>3, <1>7, <1>9, <1>10, <1>11 DEF IsOnLeft

(* What is missing in front shows, unless it is a blank. *)
LEMMA RightDiffers ==
  ASSUME NEW s, IsText(s), NEW t, IsText(t), NEW w \in Nat, Len(s) < Len(t),
         w < Len(t) \/ \E j \in Len(s) + 1..Len(t) : t[j] # "SP"
  PROVE  OnRight(s, w) # OnRight(t, w) /\ OnRight(t, w) # OnRight(s, w)
<1>1. PICK m, n : m = Len(s) /\ n = Len(t)
  OBVIOUS
<1>2. m \in Nat /\ n \in Nat /\ m < n
  BY <1>1 DEF IsText
<1>3. PICK x, y : x = OnRight(s, w) /\ y = OnRight(t, w)
  OBVIOUS
<1>4. IsOnRight(x, s, m, w)
  BY <1>1, <1>3, RightElements
<1>5. IsOnRight(y, t, n, w)
  BY <1>1, <1>3, RightElements
<1>6. CASE w < n
  BY <1>2, <1>4, <1>5, <1>6, <1>3 DEF AtLeast, IsOnRight
<1>7. CASE n <= w
  <2>1. PICK j \in m + 1..n : t[j] # "SP"
    BY <1>1, <1>2, <1>7
  <2>2. PICK i : i = (w + 1) - j
    OBVIOUS
  <2>3. i \in 1..w - m /\ j \in 1..n
    BY <1>2, <1>7, <2>2
  <2>4. x[i] = "SP" /\ y[i] = t[j]
    BY <1>4, <1>5, <1>7, <2>2, <2>3 DEF IsOnRight
  <2>5. QED  BY <1>3, <2>1, <2>4
<1>8. QED  BY <1>2, <1>6, <1>7

LEMMA LeftDiffers ==
  ASSUME NEW s, IsText(s), NEW t, IsText(t), NEW w \in Nat, Len(s) < Len(t), t[1] # "SP"
  PROVE  OnLeft(s, w) # OnLeft(t, w)
<1>1. PICK m, n : m = Len(s) /\ n = Len(t)
  OBVIOUS
<1>2. m \in Nat /\ n \in Nat /\ m < n
  BY <1>1 DEF IsText
<1>3. PICK x, y : x = OnLeft(s, w) /\ y = OnLeft(t, w)
  OBVIOUS
<1>4. IsOnLeft(x, s, m, w)
  BY <1>1, <1>3, LeftElements
<1>5. IsOnLeft(y, t, n, w)
  BY <1>1, <1>3, LeftElements
<1>6. CASE w < n
  BY <1>2, <1>4, <1>5, <1>6, <1>3 DEF AtLeast, IsOnLeft
<1>7. CASE n <= w
  BY <1>2, <1>7, <1>4, <1>5, <1>3 DEF IsOnLeft
<1>8. QED  BY <1>2, <1>6, <1>7

LEMMA UnpaddedDiffers ==
  ASSUME NEW s, IsText(s), NEW t, IsText(t), NEW w \in Nat, Len(s) # AtLeast(w, Len(t))
  PROVE  Reversed(s) # OnRight(t, w)
<1>1. Len(Reversed(s)) = Len(s)
  BY ReversedElements
<1>2. PICK n : n = Len(t)
  OBVIOUS
<1>3. Len(OnRight(t, w)) = AtLeast(w, n)
  BY <1>2, RightElements DEF IsOnRight
<1>4. QED  BY <1>1, <1>2, <1>3

LEMMA UnpaddedAgrees ==
  ASSUME NEW s, IsText(s), NEW w \in Nat, w <= Len(s)
  PROVE  Reversed(s) = OnRight(s, w)
  BY ReversedElements, NothingRepeated, JoinEmpty DEF AtLeast, IsText, OnRight

LEMMA FirstDiffers ==
  ASSUME NEW s, IsText(s), NEW t, IsText(t), NEW w \in Nat \ {0},
         Len(s) = w, Len(t) = w, s[w] # t[w]
  PROVE  Reversed(s) # OnRight(t, w)
<1>1. PICK x, y : x = Reversed(s) /\ y = Reversed(t)
  OBVIOUS
<1>2. Mirrors(x, s, w) /\ Mirrors(y, t, w)
  BY <1>1, Mirrored
<1>3. 1 \in 1..w /\ (w + 1) - 1 = w
  OBVIOUS
<1>4. x[1] = s[w] /\ y[1] = t[w]
  BY <1>2, <1>3 DEF Mirrors
<1>5. w <= w /\ w \in Nat
  OBVIOUS
<1>6. y = OnRight(t, w)
  BY <1>1, <1>5, UnpaddedAgrees
<1>7. QED  BY <1>1, <1>4, <1>6

(* A blank for the sign may as well be one of the width. *)
LEMMA BlankAgrees ==
  ASSUME NEW D, NEW k \in Nat, NEW z \in Nat, NEW w \in Nat, k + z < w
  PROVE  OnRight(Back(D, k, z, << >>), w) = OnRight(Back(D, k, z, <<"SP">>), w)
<1>1. PICK f, s, t : f = <<"SP">> /\ s = Back(D, k, z, << >>) /\ t = Back(D, k, z, f)
  OBVIOUS
<1>2. IsText(f) /\ Len(f) = 1 /\ f[1] = "SP"
  BY <1>1, OneIsText
<1>3. PICK m \in Nat, n \in Nat : m = k + z /\ n = m + 1
  OBVIOUS
<1>4. n = k + z + 1
  BY <1>3
<1>5. Reads(s, m, D, k, z, << >>) /\ Reads(t, n, D, k, z, f)
  BY <1>1, <1>2, <1>3, <1>4, PlainReads, BackReads
<1>6. PICK x, y : x = OnRight(s, w) /\ y = OnRight(t, w)
  OBVIOUS
<1>7. IsText(s) /\ Len(s) = m /\ IsText(t) /\ Len(t) = n
  BY <1>5 DEF Reads
<1>8. m <= w /\ n <= w /\ AtLeast(w, m) = w /\ AtLeast(w, n) = w
  BY <1>3 DEF AtLeast
<1>9. IsOnRight(x, s, m, w)
  BY <1>6, <1>7, RightElements
<1>10. IsOnRight(y, t, n, w)
  BY <1>6, <1>7, RightElements
<1>11. ASSUME NEW i \in 1..w PROVE x[i] = y[i]
  <2>1. PICK j : j = (w + 1) - i
    OBVIOUS
  <2>2. j \in 1..w /\ (w + 1) - j = i
    BY <2>1
  <2>3. CASE j <= m
    <3>1. j \in 1..m /\ j \in 1..n
      BY <1>3, <2>2, <2>3
    <3>2. s[j] = t[j]
      BY <1>3, <2>2, <2>3, <1>5, <3>1 DEF Reads
    <3>3. QED  BY <1>8, <1>9, <1>10, <2>2, <3>1, <3>2 DEF IsOnRight
  <2>4. CASE j = n
    <3>1. i \in 1..w - m /\ j \in 1..n
      BY <1>3, <2>1, <2>2, <2>4
    <3>2. k + z < j /\ j - (k + z) = 1
      BY <1>3, <2>4
    <3>3. t[j] = "SP"
      BY <1>2, <1>5, <3>1, <3>2 DEF Reads
    <3>4. QED  BY <1>8, <1>9, <1>10, <2>2, <3>1, <3>3 DEF IsOnRight
  <2>5. CASE n < j
    BY <1>3, <2>1, <2>2, <2>5, <1>8, <1>9, <1>10 DEF IsOnRight
  <2>6. QED  BY <1>3, <2>2, <2>3, <2>4, <2>5
<1>12. x = y
  BY <1>8, <1>9, <1>10, <1>11, EqualTexts DEF IsOnRight
<1>13. QED  BY <1>1, <1>6, <1>12

LEMMA BackText ==
  ASSUME NEW D, NEW k \in Nat, NEW z \in Nat, NEW f, IsText(f), NEW n, n = k + z + Len(f)
  PROVE  IsText(Back(D, k, z, f)) /\ Len(Back(D, k, z, f)) = n
<1>1. Reads(Back(D, k, z, f), n, D, k, z, f)
  BY BackReads
<1>2. QED  BY <1>1 DEF Reads

LEMMA PlainText ==
  ASSUME NEW D, NEW k \in Nat, NEW z \in Nat
  PROVE  IsText(Back(D, k, z, << >>)) /\ Len(Back(D, k, z, << >>)) = k + z
<1>1. PICK n : n = k + z
  OBVIOUS
<1>2. Reads(Back(D, k, z, << >>), n, D, k, z, << >>)
  BY <1>1, PlainReads
<1>3. QED  BY <1>1, <1>2 DEF Reads

(* The zeros that the code puts before j digits. *)
Padding(j, n) == AtLeast(AtMost(n, PRINTF_NTOA_BUFFER_SIZE) - j, 0)

LEMMA PaddingFacts ==
  ASSUME NEW j \in Nat, NEW n \in Nat
  PROVE  /\ Padding(j, n) \in Nat /\ (n <= j => Padding(j, n) = 0)
         /\ j < n /\ n <= PRINTF_NTOA_BUFFER_SIZE => Padding(j, n) = n - j
         /\ j <= PRINTF_NTOA_BUFFER_SIZE => j + Padding(j, n) <= PRINTF_NTOA_BUFFER_SIZE
         /\ j <= PRINTF_NTOA_BUFFER_SIZE /\ PRINTF_NTOA_BUFFER_SIZE <= n
              => j + Padding(j, n) = PRINTF_NTOA_BUFFER_SIZE
<1>1. PICK b \in Nat : b = PRINTF_NTOA_BUFFER_SIZE
  BY Numbers
<1>2. QED  BY <1>1 DEF Padding, AtLeast, AtMost

(* How far zeros go: to the width, to the precision, or not at all. *)
PaddedTo(prec, width, flags) ==
  IF "LEFT" \in flags THEN 0 ELSE IF "ZEROPAD" \in flags THEN width ELSE prec

LEMMA PaddedBack ==
  ASSUME NEW D, NEW j \in Nat, NEW prec \in Nat, NEW width \in Nat, NEW flags,
         "ZEROPAD" \in flags => prec = 0,
         NEW y, y = Padding(j, PaddedTo(prec, width, flags))
  PROVE  PadZeros(Back(D, j, 0, << >>), prec, width, flags) = Back(D, j, y, << >>) /\ y \in Nat
<1>1. PICK s : s = Back(D, j, 0, << >>)
  OBVIOUS
<1>2. ASSUME NEW n \in Nat
      PROVE  ZerosUpTo(s, n) = Back(D, j, Padding(j, n), << >>) /\ Padding(j, n) \in Nat
  <2>1. PICK x \in Nat : x = Padding(j, n)
    BY PaddingFacts
  <2>2. PICK z \in Nat : z = 0
    OBVIOUS
  <2>3. x = AtLeast(AtMost(n, PRINTF_NTOA_BUFFER_SIZE) - (j + z), 0)
    BY <2>2, <2>1 DEF Padding
  <2>4. PICK u : Totals(u, z, x)
    BY DEF Totals
  <2>5. ZerosUpTo(Back(D, j, z, << >>), n) = Back(D, j, u, << >>)
    BY <2>1, <2>3, <2>4, ZerosBehind
  <2>6. u = x
    BY <2>1, <2>2, <2>4 DEF Totals
  <2>7. QED  BY <1>1, <2>1, <2>2, <2>5, <2>6
<1>3. CASE "LEFT" \in flags
  BY <1>3, PaddingFacts, <1>1 DEF PaddedTo, PadZeros
<1>4. CASE "LEFT" \notin flags /\ "ZEROPAD" \in flags
  <2>1. ZerosUpTo(s, 0) = s
    BY PaddingFacts, <1>1, <1>2
  <2>2. {"LEFT", "ZEROPAD"} \cap flags = {"ZEROPAD"}
    BY <1>4
  <2>3. PadZeros(s, prec, width, flags) = ZerosUpTo(s, width)
    BY <1>4, <2>1, <2>2 DEF PadZeros
  <2>4. y = Padding(j, width)
    BY <1>4 DEF PaddedTo
  <2>5. QED  BY <1>1, <1>2, <2>3, <2>4
<1>5. CASE "LEFT" \notin flags /\ "ZEROPAD" \notin flags
  BY <1>5, <1>1, <1>2 DEF PadZeros, PaddedTo
<1>6. QED  BY <1>3, <1>4, <1>5

(* A sign goes to the buffer if it fits. *)
Fits(D, j, y, f) ==
  IF j + y + Len(f) <= PRINTF_NTOA_BUFFER_SIZE THEN Back(D, j, y, f) ELSE Back(D, j, y, << >>)

IsSign(f, c) == f = << >> \/ f = <<c>>

PutBefore(x, D, j, y, f, c) ==
  x = IF f = << >> THEN Back(D, j, y, << >>) ELSE AppendChar(Back(D, j, y, << >>), c)

LEMMA SignedBack ==
  ASSUME NEW D, NEW j \in Nat, NEW y \in Nat, NEW c,
         NEW f, IsSign(f, c), NEW x, PutBefore(x, D, j, y, f, c),
         j + y <= PRINTF_NTOA_BUFFER_SIZE
  PROVE  IsText(f) /\ x = Fits(D, j, y, f)
<1>1. PICK b \in Nat : b = PRINTF_NTOA_BUFFER_SIZE
  BY Numbers
<1>0. PICK h : h = Len(f)
  OBVIOUS
<1> SUFFICES /\ IsText(f)
             /\ x = IF j + y + h <= PRINTF_NTOA_BUFFER_SIZE THEN Back(D, j, y, f)
                    ELSE Back(D, j, y, << >>)
  BY <1>0 DEF Fits
<1>2. CASE f = << >>
  BY <1>0, <1>2, EmptyIsText DEF PutBefore
<1>3. CASE f = <<c>>
  <2>1. h = 1 /\ IsText(f) /\ f # << >>
    BY <1>0, <1>3, OneIsText, EmptyIsText
  <2>2. PICK n \in Nat : n = j + y
    OBVIOUS
  <2>3. CASE n < b
    BY <1>1, <2>1, <2>2, <2>3, <1>3, AppendFirst DEF PutBefore
  <2>4. CASE ~(n < b)
    BY <1>1, <2>1, <2>2, <2>4, PlainText DEF AppendChar, PutBefore
  <2>5. QED  BY <2>3, <2>4
<1>4. QED  BY <1>2, <1>3 DEF IsSign

(* The prefix takes room from the number, and goes to the buffer as far as *)
(* it fits.                                                                *)
Letter(base, flags) ==
  IF base = 2 THEN "b" ELSE IF "UPPERCASE" \in flags THEN "X" ELSE "x"

Dropped(n, base, prec, width, flags) ==
  IF "PRECISION" \notin flags /\ n > 0 /\ n \in {prec, width}
  THEN IF base = 16 /\ n > 1 THEN 2 ELSE 1
  ELSE 0

WithPrefix(D, k, z, base, flags) ==
  LET b == PRINTF_NTOA_BUFFER_SIZE
      c == Letter(base, flags)
  IN  IF base = 8
      THEN IF k + z < b THEN Back(D, k, z, <<"0">>) ELSE Back(D, k, z, << >>)
      ELSE IF k + z + 1 < b THEN Back(D, k, z, <<c, "0">>)
           ELSE IF k + z + 1 = b THEN Back(D, k, z, <<c>>)
           ELSE Back(D, k, z, << >>)

Shortened(s, D, j, y, l, c, base, flags) ==
  \E k, z \in Nat :
    /\ k + z = l - c /\ k <= j /\ z <= y /\ (k < j => z = 0)
    /\ s = WithPrefix(D, k, z, base, flags)

LEMMA PrefixedBack ==
  ASSUME NEW D, NEW j \in Nat, NEW y \in Nat, NEW base \in {2, 8, 16},
         NEW prec, NEW width, NEW flags, "HASH" \in flags,
         NEW n, Totals(n, j, y), n <= PRINTF_NTOA_BUFFER_SIZE
  PROVE  Shortened(PutPrefix(Back(D, j, y, << >>), base, prec, width, flags),
                   D, j, y, n, Dropped(n, base, prec, width, flags), base, flags)
<1>0. PICK c : c = Dropped(n, base, prec, width, flags)
  OBVIOUS
<1> USE DEF Totals
<1>1. PICK b \in Nat : b = PRINTF_NTOA_BUFFER_SIZE
  BY Numbers
<1>2. PICK s : s = Back(D, j, y, << >>)
  OBVIOUS
<1>3. IsText(s) /\ Len(s) = n /\ n \in Nat
  BY <1>2, PlainText
<1>4. c \in {0, 1, 2} /\ c <= n
  BY <1>0, <1>3 DEF Dropped
<1>5. PICK e \in Nat : e = n - c
  BY <1>3, <1>4
<1>6. PICK k \in Nat, z \in Nat : k + z = e /\ k <= j /\ z <= y /\ (k < j => z = 0)
  <2>1. CASE e <= j
    BY <2>1
  <2>2. CASE j < e
    BY <1>4, <1>5, <2>2
  <2>3. QED  BY <2>1, <2>2
<1>7. PICK kept : kept = Back(D, k, z, << >>)
  OBVIOUS
<1>8. SubSeq(s, 1, n - c) = kept
  <2>2. k <= j /\ z <= y /\ (k < j => z = 0)
    BY <1>6
  <2>3. Kept(Back(D, j, y, << >>), e) = Back(D, k, z, << >>)
    <3>1. k \in Nat /\ z \in Nat /\ Totals(e, k, z)
      BY <1>6 DEF Totals
    <3> HIDE DEF Totals
    <3>2. QED  BY <2>2, <3>1, CutBehind
  <2>4. SubSeq(s, 1, e) = kept
    BY <1>2, <1>7, <2>3 DEF Kept
  <2>5. QED  BY <1>5, <2>4
<1>9. IsText(kept) /\ Len(kept) = k + z
  BY <1>7, PlainText
<1>10. PICK a : a = Letter(base, flags)
  OBVIOUS
<1>11. PICK lettered : lettered = IF base = 8 THEN kept ELSE AppendChar(kept, a)
  OBVIOUS
<1>12. PutPrefix(s, base, prec, width, flags) = AppendChar(lettered, "0")
  <2>1. PutPrefix(s, base, prec, width, flags) =
          AppendChar(CASE base = 16 -> AppendChar(kept, IF "UPPERCASE" \in flags THEN "X" ELSE "x")
                       [] base = 2 -> AppendChar(kept, "b")
                       [] OTHER -> kept, "0")
    BY <1>0, <1>3, <1>8 DEF PutPrefix, Dropped
  <2>2. CASE base = 2
    BY <1>10, <1>11, <2>1, <2>2 DEF Letter
  <2>3. CASE base = 8
    BY <1>11, <2>1, <2>3
  <2>4. CASE base = 16
    BY <1>10, <1>11, <2>1, <2>4 DEF Letter
  <2>5. QED  BY <2>2, <2>3, <2>4
<1>13. AppendChar(lettered, "0") = WithPrefix(D, k, z, base, flags)
  <2>1. k + z \in Nat /\ k + z <= b
    BY <1>1, <1>3, <1>4, <1>5, <1>6
  <2>2. CASE base = 8
    <3>1. CASE k + z < b
      BY <1>1, <1>7, <3>1, AppendFirst, <1>11, <2>2 DEF WithPrefix
    <3>2. CASE ~(k + z < b)
      BY <1>1, <1>9, <3>2, <1>7, <1>11, <2>2 DEF AppendChar, WithPrefix
    <3>3. QED  BY <3>1, <3>2
  <2>3. CASE base # 8
    <3>1. CASE k + z + 1 < b
      <4>1. k + z < PRINTF_NTOA_BUFFER_SIZE /\ k + z + 1 < PRINTF_NTOA_BUFFER_SIZE
        BY <1>1, <2>1, <3>1
      <4>2. AppendChar(kept, a) = Back(D, k, z, <<a>>)
        BY <1>7, <4>1, AppendFirst
      <4>3. AppendChar(Back(D, k, z, <<a>>), "0") = Back(D, k, z, <<a, "0">>)
        BY <4>1, AppendSecond
      <4>4. QED  BY <1>10, <1>11, <2>3, <4>1, <4>2, <4>3 DEF WithPrefix
    <3>2. CASE k + z + 1 = b
      <4>1. k + z < PRINTF_NTOA_BUFFER_SIZE /\ ~(k + z + 1 < PRINTF_NTOA_BUFFER_SIZE)
        BY <1>1, <2>1, <3>2
      <4>2. AppendChar(kept, a) = Back(D, k, z, <<a>>)
        BY <1>7, <4>1, AppendFirst
      <4>3. Len(Back(D, k, z, <<a>>)) = b
        <5>1. PICK f : f = <<a>>
          OBVIOUS
        <5>2. IsText(f) /\ Len(f) = 1
          BY <5>1, OneIsText
        <5>3. k \in Nat /\ z \in Nat
          BY <1>6
        <5>4. b = k + z + Len(f)
          BY <3>2, <5>2
        <5>5. Len(Back(D, k, z, f)) = b
          <6>1. IsText(f)
            BY <5>2
          <6>2. QED  BY <5>3, <5>4, <6>1, BackText
        <5>6. QED  BY <5>1, <5>5
      <4>4. AppendChar(Back(D, k, z, <<a>>), "0") = Back(D, k, z, <<a>>)
        BY <1>1, <4>3 DEF AppendChar
      <4>5. QED  BY <1>1, <1>10, <1>11, <2>3, <3>2, <4>1, <4>2, <4>4 DEF WithPrefix
    <3>3. CASE k + z = b
      BY <1>1, <2>1, <3>3, <1>9, <1>7, <1>11, <2>3 DEF AppendChar, WithPrefix
    <3>4. QED  BY <2>1, <3>1, <3>2, <3>3
  <2>4. QED  BY <2>2, <2>3
<1>14. QED  BY <1>0, <1>2, <1>5, <1>6, <1>12, <1>13 DEF Shortened
-----------------------------------------------------------------------------
(* The digits that the code and that C write. *)

Digits(m, b, upper) == [i \in Nat \ {0} |-> DigitAt(m, b, upper, i)]

LEMMA DigitIs ==
  ASSUME NEW m, NEW b, NEW upper, NEW i \in Nat \ {0}
  PROVE  Digits(m, b, upper)[i] = HexDigits(upper)[((m \div Pow(b, i - 1)) % b) + 1]
  BY DEF Digits, DigitAt

LEMMA BackOfDigits ==
  ASSUME NEW D, NEW j \in Nat, NEW s, IsText(s), Len(s) = j,
         \A i \in 1..j : s[i] = D[i]
  PROVE  s = Back(D, j, 0, << >>)
<1>1. PICK z \in Nat : z = 0
  OBVIOUS
<1>2. PICK t : t = Back(D, j, z, << >>)
  OBVIOUS
<1>3. j = j + z
  BY <1>1
<1>4. Reads(t, j, D, j, z, << >>)
  BY <1>2, <1>3, PlainReads
<1>5. IsText(t) /\ Len(t) = j /\ \A i \in 1..j : t[i] = D[i]
  BY <1>4 DEF Reads
<1>6. s = t
  BY <1>5, EqualTexts
<1>7. QED  BY <1>1, <1>2, <1>6

LEMMA DigitsReversedBack ==
  ASSUME NEW m, NEW b, NEW n, HasDigits(m, b, n), NEW flags, NEW upper,
         upper = ("UPPERCASE" \in flags), NEW j, j = AtMost(n, PRINTF_NTOA_BUFFER_SIZE)
  PROVE  DigitsReversed(m, b, flags) = Back(Digits(m, b, upper), j, 0, << >>) /\ j \in Nat
<1> DEFINE C == CHOOSE k \in 1..PRINTF_NTOA_BUFFER_SIZE :
                  /\ k = PRINTF_NTOA_BUFFER_SIZE \/ m \div b^k = 0
                  /\ \A i \in 1..k - 1 : m \div b^i # 0
           Stop(k) == /\ k \in 1..PRINTF_NTOA_BUFFER_SIZE
                      /\ k = PRINTF_NTOA_BUFFER_SIZE \/ m \div Pow(b, k) = 0
                      /\ \A i \in 1..k - 1 : m \div Pow(b, i) # 0
<1>1. PICK size \in Nat \ {0} : size = PRINTF_NTOA_BUFFER_SIZE
  BY Numbers
<1>2. /\ n \in Nat \ {0} /\ m \div Pow(b, n) = 0
      /\ \A k \in 1..n - 1 : m \div Pow(b, k) # 0
  BY DEF HasDigits
<1>3. j \in Nat \ {0} /\ j <= n /\ j <= size /\ (j = n \/ j = size)
  BY <1>1, <1>2 DEF AtMost
<1>4. Stop(j)
  BY <1>2, <1>3, <1>1
<1>5. ASSUME NEW c, Stop(c) PROVE c = j
  <2>1. c \in Nat /\ c >= 1 /\ c <= size
    BY <1>1, <1>5
  <2>2. ~(j < c)
    <3> SUFFICES ASSUME j < c PROVE FALSE
      OBVIOUS
    <3>1. j \in 1..c - 1 /\ j # size
      BY <1>3, <2>1
    <3>2. j = n
      BY <1>3, <3>1
    <3>3. QED  BY <1>2, <1>5, <3>1, <3>2
  <2>3. ~(c < j)
    <3> SUFFICES ASSUME c < j PROVE FALSE
      OBVIOUS
    <3>1. c \in 1..n - 1 /\ c # size
      BY <1>2, <1>3, <2>1
    <3>2. m \div Pow(b, c) = 0
      BY <1>1, <1>5, <3>1
    <3>3. QED  BY <1>2, <3>1, <3>2
  <2>4. QED  BY <1>3, <2>1, <2>2, <2>3
<1>6. PICK c : c = CHOOSE k : Stop(k)
  OBVIOUS
<1>7. C = CHOOSE k : Stop(k)
  BY DEF Pow
<1> HIDE DEF Stop
<1>8. Stop(c)
  BY <1>4, <1>6
<1>9. C = j
  BY <1>5, <1>6, <1>7, <1>8
<1>10. PICK s : s = DigitsReversed(m, b, flags)
  OBVIOUS
<1>11. s = [i \in 1..C |-> HexDigits(upper)[((m \div b^(i - 1)) % b) + 1]]
  BY <1>10 DEF DigitsReversed, HexDigits
<1> HIDE DEF C
<1>12. s = [i \in 1..j |-> HexDigits(upper)[((m \div Pow(b, i - 1)) % b) + 1]]
  BY <1>9, <1>11 DEF Pow
<1>13. DOMAIN s = 1..j /\ s = [i \in 1..j |-> s[i]] /\ j \in Nat
  BY <1>3, <1>12
<1>14. IsText(s) /\ Len(s) = j
  BY <1>13, FunctionIsText
<1>15. PICK D : D = Digits(m, b, upper)
  OBVIOUS
<1>16. ASSUME NEW i \in 1..j PROVE s[i] = D[i]
  BY <1>3, <1>12, <1>15, DigitIs
<1>17. s = Back(D, j, 0, << >>)
  BY <1>13, <1>14, <1>16, BackOfDigits
<1>18. QED  BY <1>10, <1>13, <1>15, <1>17

LEMMA CDigitsBack ==
  ASSUME NEW m, NEW b, NEW n, HasDigits(m, b, n), NEW upper \in BOOLEAN
  PROVE  CDigits(m, b, upper) = Reversed(Back(Digits(m, b, upper), n, 0, << >>)) /\ n \in Nat
<1> DEFINE C == CHOOSE k \in 1..LongBits : m \div b^k = 0 /\ \A i \in 1..k - 1 : m \div b^i # 0
           Stop(k) == /\ k \in 1..LongBits /\ m \div Pow(b, k) = 0
                      /\ \A i \in 1..k - 1 : m \div Pow(b, i) # 0
<1>1. PICK size \in Nat \ {0} : size = LongBits
  BY Numbers
<1>2. /\ n \in Nat \ {0} /\ n <= size /\ m \div Pow(b, n) = 0
      /\ \A k \in 1..n - 1 : m \div Pow(b, k) # 0
  BY <1>1 DEF HasDigits
<1>3. Stop(n)
  BY <1>1, <1>2
<1>4. ASSUME NEW c, Stop(c) PROVE c = n
  <2>1. c \in Nat /\ c >= 1
    BY <1>1, <1>4
  <2>2. ~(n < c)
    <3> SUFFICES ASSUME n < c PROVE FALSE
      OBVIOUS
    <3>1. n \in 1..c - 1
      BY <1>2, <2>1
    <3>2. QED  BY <1>2, <1>4, <3>1
  <2>3. ~(c < n)
    <3> SUFFICES ASSUME c < n PROVE FALSE
      OBVIOUS
    <3>1. c \in 1..n - 1
      BY <1>2, <2>1
    <3>2. QED  BY <1>2, <1>4, <3>1
  <2>4. QED  BY <1>2, <2>1, <2>2, <2>3
<1>5. PICK c : c = CHOOSE k : Stop(k)
  OBVIOUS
<1>6. C = CHOOSE k : Stop(k)
  BY DEF Pow
<1> HIDE DEF Stop
<1>7. Stop(c)
  BY <1>3, <1>5
<1>8. C = n
  BY <1>4, <1>5, <1>6, <1>7
<1>9. PICK s : s = CDigits(m, b, upper)
  OBVIOUS
<1>10. s = [i \in 1..C |-> HexDigits(upper)[((m \div b^(C - i)) % b) + 1]]
  BY <1>9 DEF CDigits, HexDigits
<1> HIDE DEF C
<1>11. s = [i \in 1..n |-> HexDigits(upper)[((m \div Pow(b, n - i)) % b) + 1]]
  BY <1>8, <1>10 DEF Pow
<1>12. DOMAIN s = 1..n /\ s = [i \in 1..n |-> s[i]] /\ n \in Nat
  BY <1>2, <1>11
<1>13. IsText(s) /\ Len(s) = n
  BY <1>12, FunctionIsText
<1>14. PICK D : D = Digits(m, b, upper)
  OBVIOUS
<1>15. PICK z \in Nat : z = 0
  OBVIOUS
<1>16. PICK t : t = Back(D, n, z, << >>)
  OBVIOUS
<1>17. n = n + z
  BY <1>12, <1>15
<1>18. Reads(t, n, D, n, z, << >>)
  BY <1>12, <1>15, <1>16, <1>17, PlainReads
<1>19. IsText(t) /\ Len(t) = n
  BY <1>18 DEF Reads
<1>20. PICK r : r = Reversed(t)
  OBVIOUS
<1>21. Mirrors(r, t, n)
  BY <1>19, <1>20, Mirrored
<1>22. ASSUME NEW i \in 1..n PROVE s[i] = r[i]
  <2>1. PICK k : k = (n + 1) - i
    OBVIOUS
  <2>2. k \in 1..n /\ k \in Nat \ {0} /\ k - 1 = n - i
    BY <1>12, <2>1
  <2>3. r[i] = t[k]
    BY <1>21, <2>1 DEF Mirrors
  <2>4. t[k] = D[k]
    BY <1>18, <2>2 DEF Reads
  <2>5. D[k] = HexDigits(upper)[((m \div Pow(b, k - 1)) % b) + 1]
    BY <1>14, <2>2, DigitIs
  <2>6. s[i] = HexDigits(upper)[((m \div Pow(b, n - i)) % b) + 1]
    BY <1>11
  <2>7. QED  BY <2>2, <2>3, <2>4, <2>5, <2>6
<1>23. s = r
  BY <1>13, <1>21, <1>22, EqualTexts DEF Mirrors
<1>24. QED  BY <1>9, <1>12, <1>14, <1>15, <1>16, <1>20, <1>23
-----------------------------------------------------------------------------
(* Where the texts agree.  A sign or prefix is left out if it does not fit *)
(* the buffer of the conversion.                                           *)

NoBlanks(D, k) == \A i \in 1..k : D[i] # "SP"

HasLen(f, h) == IsText(f) /\ Len(f) = h
Sized(s, n, h) ==
  IsText(s) /\ Len(s) = IF n + h <= PRINTF_NTOA_BUFFER_SIZE THEN n + h ELSE n

LEMMA FitsFacts ==
  ASSUME NEW D, NEW j \in Nat, NEW y \in Nat, NEW f, NEW h, HasLen(f, h),
         NEW n, Totals(n, j, y)
  PROVE  Sized(Fits(D, j, y, f), n, h)
<1>0. PICK s : s = Fits(D, j, y, f)
  OBVIOUS
<1>1. n = j + y /\ n \in Nat /\ h \in Nat /\ IsText(f) /\ Len(f) = h
  BY DEF Totals, HasLen, IsText
<1>2. PICK x \in Nat : x = n + h
  BY <1>1
<1>3. x = j + y + Len(f)
  BY <1>1, <1>2
<1>4. CASE x <= PRINTF_NTOA_BUFFER_SIZE
  BY <1>0, <1>3, <1>4, <1>1, BackText, <1>2 DEF Fits, Sized
<1>5. CASE ~(x <= PRINTF_NTOA_BUFFER_SIZE)
  BY <1>0, <1>3, <1>5, PlainText, <1>1, <1>2 DEF Fits, Sized
<1>6. QED  BY <1>4, <1>5

(* A number of e characters, the first h of which are f.                   *)
Solid(t, e, n, h, f) ==
  /\ IsText(t) /\ Len(t) = e
  /\ n > 0 => t[1] # "SP" /\ t[n] # "SP"
  /\ h > 0 => t[e] = f[h]

LEMMA Ends ==
  ASSUME NEW D, NEW k \in Nat, NoBlanks(D, k), NEW z \in Nat, NEW f, NEW h, HasLen(f, h),
         NEW n, Totals(n, k, z), NEW e, Totals(e, n, h)
  PROVE  Solid(Back(D, k, z, f), e, n, h, f)
<1>0. PICK t : t = Back(D, k, z, f)
  OBVIOUS
<1>1. h \in Nat /\ n = k + z /\ n \in Nat /\ e = n + h /\ IsText(f) /\ Len(f) = h
  BY DEF IsText, Totals, HasLen
<1>2. e = k + z + Len(f)
  BY <1>1
<1>3. Reads(t, e, D, k, z, f)
  BY <1>0, <1>1, <1>2, BackReads
<1>4. IsText(t) /\ Len(t) = e
  BY <1>3 DEF Reads
<1>5. ASSUME NEW i \in 1..n PROVE t[i] # "SP"
  <2>1. i \in 1..e /\ i \in Nat
    BY <1>1
  <2>2. CASE i <= k
    BY <1>3, <2>1, <2>2 DEF Reads, NoBlanks
  <2>3. CASE k < i
    BY <1>1, <2>1, <1>3, <2>3 DEF Reads
  <2>4. QED  BY <2>1, <2>2, <2>3
<1>6. n > 0 => t[1] # "SP" /\ t[n] # "SP"
  BY <1>1, <1>5
<1>7. ASSUME h > 0 PROVE t[e] = f[h]
  BY <1>1, <1>7, <1>3 DEF Reads
<1>8. QED  BY <1>0, <1>4, <1>6, <1>7 DEF Solid

(* A number that has lost something. *)
Loses(s, t) == IsText(s) /\ IsText(t) /\ Len(s) < Len(t)

LEMMA LosesOnLeft ==
  ASSUME NEW s, NEW t, Loses(s, t), t[1] # "SP", NEW w \in Nat
  PROVE  OnLeft(s, w) # OnLeft(t, w)
  BY LeftDiffers DEF Loses

LEMMA LosesOnRight ==
  ASSUME NEW s, NEW t, Loses(s, t), NEW e, e = Len(t), t[e] # "SP", NEW w \in Nat
  PROVE  OnRight(s, w) # OnRight(t, w) /\ OnRight(t, w) # OnRight(s, w)
  BY RightDiffers DEF Loses, IsText

(* Without prefix, on the left.  No zeros are put there. *)
LEMMA PlainLeft ==
  ASSUME NEW D, NEW k \in Nat, NoBlanks(D, k), NEW z \in Nat, NEW f,
         NEW h \in {0, 1}, HasLen(f, h), NEW w \in Nat,
         NEW j, j = AtMost(k, PRINTF_NTOA_BUFFER_SIZE),
         NEW s, s = Fits(D, j, 0, f), NEW t, t = Back(D, k, z, f)
  PROVE  OnLeft(s, w) = OnLeft(t, w) <=> z = 0 /\ k + h <= PRINTF_NTOA_BUFFER_SIZE
<1>1. PICK b \in Nat \ {0} : b = PRINTF_NTOA_BUFFER_SIZE
  BY Numbers
<1>2. j \in Nat /\ j <= k /\ j <= b /\ (k <= b => j = k)
  BY <1>1 DEF AtMost
<1>3. CASE z = 0 /\ k + h <= b
  <2>1. k <= b
    BY <1>3
  <2>2. j + 0 + Len(f) <= PRINTF_NTOA_BUFFER_SIZE
    BY <1>1, <1>2, <1>3, <2>1 DEF HasLen
  <2>3. s = Back(D, j, 0, f)
    BY <2>2 DEF Fits
  <2>4. s = t
    BY <1>2, <1>3, <2>1, <2>3
  <2>5. QED  BY <1>1, <1>3, <2>4
<1>4. CASE ~(z = 0 /\ k + h <= b)
  <2>1. PICK n : Totals(n, k, z)
    BY DEF Totals
  <2>2. PICK e : Totals(e, n, h)
    BY DEF Totals
  <2>3. /\ IsText(t) /\ Len(t) = e
        /\ n > 0 => t[1] # "SP"
    BY <2>1, <2>2, Ends DEF Solid
  <2>4. PICK y \in Nat : y = 0
    OBVIOUS
  <2>5. IsText(s) /\ Len(s) = IF j + h <= PRINTF_NTOA_BUFFER_SIZE THEN j + h ELSE j
    <3>1. Totals(j, j, y)
      BY <1>2, <2>4 DEF Totals
    <3>2. Sized(Fits(D, j, y, f), j, h)
      BY <1>2, <2>4, <3>1, FitsFacts
    <3>3. QED  BY <2>4, <3>2 DEF Sized
  <2>6. Len(s) < e /\ n > 0
    BY <2>1, <2>2, <1>1, <2>5, <1>2, <1>4 DEF Totals
  <2>7. Loses(s, t)
    BY <2>3, <2>5, <2>6 DEF Loses
  <2>8. OnLeft(s, w) # OnLeft(t, w)
    BY <2>3, <2>6, <2>7, LosesOnLeft
  <2>9. QED  BY <1>1, <1>4, <2>8
<1>5. QED  BY <1>3, <1>4

LEMMA PlainRight ==
  ASSUME NEW D, NEW k \in Nat, NoBlanks(D, k), NEW p \in Nat, NEW z, z = AtLeast(p - k, 0),
         NEW c, NEW f, IsSign(f, c), NEW h, HasLen(f, h), NEW w \in Nat,
         NEW j, j = AtMost(k, PRINTF_NTOA_BUFFER_SIZE), NEW y, y = Padding(j, p),
         NEW s, s = Fits(D, j, y, f), NEW t, t = Back(D, k, z, f)
  PROVE  OnRight(s, w) = OnRight(t, w)
           <=> \/ k + z + h <= PRINTF_NTOA_BUFFER_SIZE
               \/ /\ k + z + h = PRINTF_NTOA_BUFFER_SIZE + 1 /\ f = <<"SP">>
                  /\ w > PRINTF_NTOA_BUFFER_SIZE
<1>1. PICK b \in Nat \ {0} : b = PRINTF_NTOA_BUFFER_SIZE
  BY Numbers
<1>2. j \in Nat /\ j <= k /\ j <= b /\ (k <= b => j = k) /\ (b <= k => j = b)
  BY <1>1 DEF AtMost
<1>3. z \in Nat /\ (p <= k => z = 0) /\ (k <= p => z = p - k)
  BY DEF AtLeast
<1>4. /\ y \in Nat /\ j + y <= b
      /\ p <= j => y = 0
      /\ j < p /\ p <= b => y = p - j
      /\ b <= p => j + y = b
  BY <1>2, PaddingFacts, <1>1
<1>5. Len(f) = h /\ h \in {0, 1} /\ (f = <<"SP">> => h = 1)
      /\ (h = 1 => f = <<c>> /\ f[1] = c)
  <2>1. Len(f) = h
    BY DEF HasLen
  <2>2. CASE f = << >>
    BY <2>1, <2>2
  <2>3. CASE f = <<c>>
    BY <2>1, <2>3
  <2>4. QED  BY <2>2, <2>3 DEF IsSign
<1>6. PICK n : Totals(n, k, z) /\ n = k + z /\ n \in Nat
  BY <1>3 DEF Totals
<1>7. PICK e : Totals(e, n, h)
  BY DEF Totals
<1>8. e = n + h /\ e \in Nat
  BY <1>5, <1>6, <1>7 DEF Totals
<1>9. /\ IsText(t) /\ Len(t) = e
      /\ n > 0 => t[n] # "SP"
      /\ h > 0 => t[e] = f[h]
  BY <1>3, <1>6, <1>7, Ends DEF Solid
<1>10. PICK m : Totals(m, j, y)
  BY DEF Totals
<1>11. m = j + y /\ m \in Nat /\ m <= b
  BY <1>2, <1>4, <1>10 DEF Totals
<1>12. IsText(s) /\ Len(s) = IF m + h <= b THEN m + h ELSE m
  BY <1>2, <1>4, <1>10, FitsFacts, <1>1 DEF Sized
<1>13. n <= b => j = k /\ y = z
  BY <1>2, <1>3, <1>4, <1>6
<1>14. CASE e <= b
  BY <1>5, <1>6, <1>8, <1>14, <1>1, <1>13 DEF Fits
<1>15. CASE e = b + 1 /\ f = <<"SP">> /\ w > b
  <2>1. n = b /\ h = 1
    BY <1>5, <1>6, <1>8, <1>15
  <2>2. j = k /\ y = z
    BY <1>13, <2>1
  <2>3. ~(j + y + Len(f) <= PRINTF_NTOA_BUFFER_SIZE)
    BY <1>1, <1>5, <1>6, <2>1, <2>2
  <2>4. s = Back(D, k, z, << >>)
    BY <2>2, <2>3 DEF Fits
  <2>5. t = Back(D, k, z, <<"SP">>) /\ k + z < w
    BY <1>6, <1>15, <2>1
  <2>6. OnRight(s, w) = OnRight(t, w)
    BY <1>3, <2>4, <2>5, BlankAgrees
  <2>7. QED  BY <1>1, <1>6, <1>8, <1>15, <2>6
<1>16. CASE e > b /\ ~(e = b + 1 /\ f = <<"SP">> /\ w > b)
  <2>1. Len(s) <= b /\ Loses(s, t)
    BY <1>5, <1>8, <1>9, <1>11, <1>12, <1>16 DEF Loses
  <2>2. n > 0
    BY <1>1, <1>5, <1>6, <1>8, <1>16
  <2>0. t[e] = "SP" => h = 1
    BY <1>6, <1>8, <1>9, <2>2, <1>5
  <2>3. CASE t[e] # "SP"
    BY <1>9, <2>1, <2>3, LosesOnRight, <1>1, <1>6, <1>8, <1>16
  <2>4. CASE t[e] = "SP" /\ e > b + 1
    <3>1. h = 1 /\ e = n + 1
      BY <1>8, <2>0, <2>4
    <3>2. n \in Len(s) + 1..Len(t) /\ t[n] # "SP"
      <4>1. PICK l \in Nat : l = Len(s)
        BY <1>12 DEF IsText
      <4>2. l <= b /\ e > b + 1
        BY <2>1, <2>4, <4>1
      <4>3. n \in l + 1..e
        BY <1>1, <1>6, <1>8, <3>1, <4>1, <4>2
      <4>4. QED  BY <1>9, <2>2, <4>1, <4>3
    <3>3. \E i \in Len(s) + 1..Len(t) : t[i] # "SP"
      BY <3>2
    <3>4. OnRight(s, w) # OnRight(t, w)
      BY <1>9, <1>12, <2>1, <3>3, RightDiffers DEF Loses
    <3>5. QED  BY <1>1, <1>6, <1>8, <1>16, <3>4
  <2>5. CASE t[e] = "SP" /\ e = b + 1
    <3>1. f = <<"SP">>
      BY <2>0, <2>5, <1>5, <1>9
    <3>2. w < Len(t)
      BY <1>9, <1>16, <2>5, <3>1
    <3>3. OnRight(s, w) # OnRight(t, w)
      BY <1>9, <1>12, <2>1, <3>2, RightDiffers DEF Loses
    <3>4. QED  BY <1>1, <1>6, <1>8, <1>16, <3>3
  <2>6. QED  BY <1>8, <1>16, <2>3, <2>4, <2>5
<1>17. QED  BY <1>8, <1>14, <1>15, <1>16

(* Zeros up to the width, less a place for the sign. *)
LEMMA PlainZero ==
  ASSUME NEW D, NEW k \in Nat, NoBlanks(D, k), NEW f,
         NEW h \in {0, 1}, HasLen(f, h), NEW w \in Nat,
         NEW z, z = AtLeast(w - (h + k), 0), NEW v, v = (IF h = 1 /\ w > 0 THEN w - 1 ELSE w),
         NEW j, j = AtMost(k, PRINTF_NTOA_BUFFER_SIZE), NEW y, y = Padding(j, v),
         NEW s, s = Fits(D, j, y, f), NEW t, t = Back(D, k, z, f)
  PROVE  Reversed(s) = OnRight(t, w) <=> k + z + h <= PRINTF_NTOA_BUFFER_SIZE
<1>1. PICK b \in Nat \ {0} : b = PRINTF_NTOA_BUFFER_SIZE
  BY Numbers
<1>2. j \in Nat /\ j <= k /\ j <= b /\ (k <= b => j = k)
  BY <1>1 DEF AtMost
<1>3. z \in Nat /\ (w <= h + k => z = 0) /\ (h + k <= w => z = w - (h + k))
  BY DEF AtLeast
<1>4. v \in Nat /\ (w > 0 => v = w - h) /\ (w = 0 => v = 0)
  OBVIOUS
<1>5. /\ y \in Nat /\ j + y <= b
      /\ v <= j => y = 0
      /\ j < v /\ v <= b => y = v - j
  BY <1>2, <1>4, PaddingFacts, <1>1
<1>6. PICK n : Totals(n, k, z) /\ n = k + z /\ n \in Nat
  BY <1>3 DEF Totals
<1>7. PICK e : Totals(e, n, h)
  BY DEF Totals
<1>8. e = n + h /\ e \in Nat /\ w <= e
  BY <1>3, <1>6, <1>7 DEF Totals
<1>9. IsText(t) /\ Len(t) = e
  BY <1>3, <1>6, <1>7, Ends DEF Solid
<1>10. PICK m : Totals(m, j, y)
  BY DEF Totals
<1>11. m = j + y /\ m \in Nat /\ m <= b
  BY <1>2, <1>5, <1>10 DEF Totals
<1>12. IsText(s) /\ Len(s) = IF m + h <= b THEN m + h ELSE m
  BY <1>2, <1>5, <1>10, FitsFacts, <1>1 DEF Sized
<1>13. CASE e <= b
  <2>1. j = k /\ y = z
    BY <1>2, <1>3, <1>4, <1>5, <1>6, <1>8, <1>13
  <2>2. j + y + Len(f) <= PRINTF_NTOA_BUFFER_SIZE
    BY <1>1, <1>6, <1>8, <1>13, <2>1 DEF HasLen
  <2>3. s = t
    BY <2>1, <2>2 DEF Fits
  <2>4. Reversed(s) = OnRight(t, w)
    BY <1>8, <1>9, <2>3, UnpaddedAgrees
  <2>5. QED  BY <1>1, <1>6, <1>8, <1>13, <2>4
<1>14. CASE e > b
  BY <1>8, <1>9, <1>11, <1>12, <1>14, UnpaddedDiffers, <1>1, <1>6 DEF AtLeast
<1>15. QED  BY <1>8, <1>13, <1>14

(* With a prefix of two characters. *)

LEMMA TwoCharacters ==
  ASSUME NEW a, NEW c
  PROVE  /\ HasLen(<<a>>, 1) /\ <<a>>[1] = a
         /\ HasLen(<<a, c>>, 2) /\ <<a, c>>[1] = a /\ <<a, c>>[2] = c
<1>1. PICK f, g : f = <<a>> /\ g = <<a, c>>
  OBVIOUS
<1>2. IsText(f) /\ Len(f) = 1 /\ f[1] = a
  BY <1>1, OneIsText
<1>3. g \in Seq({a, c}) /\ Len(g) = 2 /\ g[1] = a /\ g[2] = c
  BY <1>1
<1>4. IsText(g)
  BY <1>3, SeqIsText
<1>5. QED  BY <1>1, <1>2, <1>3, <1>4 DEF HasLen

IsPrefixed(s, a, D, k, z, base, flags) ==
  a = Letter(base, flags) /\ s = WithPrefix(D, k, z, base, flags)

LetterSize(n) ==
  IF n + 2 <= PRINTF_NTOA_BUFFER_SIZE THEN n + 2
  ELSE IF n + 1 = PRINTF_NTOA_BUFFER_SIZE THEN n + 1 ELSE n

LetterText(s, n, D, k, z, a) ==
  /\ IsText(s) /\ Len(s) = LetterSize(n)
  /\ n + 2 <= PRINTF_NTOA_BUFFER_SIZE => s = Back(D, k, z, <<a, "0">>)
  /\ n + 1 = PRINTF_NTOA_BUFFER_SIZE => s[n + 1] = a

LEMMA LetterFacts ==
  ASSUME NEW D, NEW k \in Nat, NEW z \in Nat, NEW base \in {2, 16}, NEW flags,
         NEW n, Totals(n, k, z), NEW a, NEW s, IsPrefixed(s, a, D, k, z, base, flags)
  PROVE  LetterText(s, n, D, k, z, a)
<1>1. PICK b \in Nat \ {0} : b = PRINTF_NTOA_BUFFER_SIZE
  BY Numbers
<1>2. n = k + z /\ n \in Nat /\ base # 8
  BY DEF Totals
<1>0. a = Letter(base, flags) /\ s = WithPrefix(D, k, z, base, flags)
  BY DEF IsPrefixed
<1>3. PICK f, g : f = <<a>> /\ g = <<a, "0">>
  OBVIOUS
<1>4. IsText(f) /\ Len(f) = 1 /\ f[1] = a /\ IsText(g) /\ Len(g) = 2
  BY <1>3, TwoCharacters DEF HasLen
<1>5. CASE n + 2 <= b
  <2>1. k + z + 1 < b
    BY <1>2, <1>5
  <2>2. s = Back(D, k, z, g)
    BY <1>0, <1>1, <1>2, <1>3, <2>1 DEF WithPrefix
  <2>3. PICK m : m = n + 2
    OBVIOUS
  <2>4. m = k + z + Len(g)
    BY <1>2, <1>4, <2>3
  <2>5. IsText(s) /\ Len(s) = m
    <3>1. IsText(g)
      BY <1>4
    <3>2. QED  BY <2>2, <2>4, <3>1, BackText
  <2>6. n + 1 # b
    BY <1>2, <1>5
  <2>7. QED  BY <1>1, <1>3, <1>5, <2>2, <2>3, <2>5, <2>6 DEF LetterSize, LetterText
<1>6. CASE n + 1 = b
  <2>1. ~(k + z + 1 < b) /\ k + z + 1 = b /\ ~(n + 2 <= b)
    BY <1>1, <1>2, <1>6
  <2>2. s = Back(D, k, z, f)
    BY <1>0, <1>1, <1>2, <1>3, <2>1 DEF WithPrefix
  <2>3. b = k + z + Len(f)
    BY <1>4, <2>1
  <2>4. Reads(s, b, D, k, z, f)
    BY <1>4, <2>2, <2>3, BackReads
  <2>5. IsText(s) /\ Len(s) = b
    BY <2>4 DEF Reads
  <2>6. s[b] = a
    BY <1>1, <1>2, <1>6, <2>4, <1>4 DEF Reads
  <2>7. QED  BY <1>1, <1>6, <2>1, <2>5, <2>6 DEF LetterSize, LetterText
<1>7. CASE ~(n + 2 <= b) /\ n + 1 # b
  BY <1>1, <1>2, <1>7, <1>0, PlainText DEF WithPrefix, LetterSize, LetterText
<1>8. QED  BY <1>5, <1>6, <1>7

LEMMA DroppedFacts ==
  ASSUME NEW l \in Nat \ {0}, NEW base, NEW p, NEW w, NEW flags,
         "PRECISION" \notin flags => p = 0
  PROVE  /\ "PRECISION" \in flags \/ l # w => Dropped(l, base, p, w, flags) = 0
         /\ "PRECISION" \notin flags /\ l = w =>
              Dropped(l, base, p, w, flags) = IF base = 16 /\ l > 1 THEN 2 ELSE 1
  BY DEF Dropped

(* Aligned: with zeros up to the precision, but none on the left. *)
Pads(n, p, left, j, y, z) ==
  /\ j = AtMost(n, PRINTF_NTOA_BUFFER_SIZE) /\ y = (IF left THEN 0 ELSE Padding(j, p))
  /\ z = AtLeast(p - n, 0)

LEMMA AlignedPadding ==
  ASSUME NEW n \in Nat \ {0}, NEW p \in Nat, NEW left \in BOOLEAN,
         NEW j, NEW y, NEW z, Pads(n, p, left, j, y, z)
  PROVE  /\ j \in Nat \ {0} /\ j <= n /\ j <= PRINTF_NTOA_BUFFER_SIZE
         /\ n <= PRINTF_NTOA_BUFFER_SIZE => j = n
         /\ y \in Nat /\ j + y <= PRINTF_NTOA_BUFFER_SIZE
         /\ z \in Nat /\ (p <= n => z = 0) /\ (n <= p => z = p - n)
         /\ left => y = 0
         /\ p = 0 => y = 0 /\ z = 0
         /\ ~left /\ n + z <= PRINTF_NTOA_BUFFER_SIZE => y = z
<1>1. PICK b \in Nat \ {0} : b = PRINTF_NTOA_BUFFER_SIZE
  BY Numbers
<1>2. j \in Nat \ {0} /\ j <= n /\ j <= b /\ (n <= b => j = n)
  BY <1>1 DEF AtMost, Pads
<1>3. z \in Nat /\ (p <= n => z = 0) /\ (n <= p => z = p - n)
  BY DEF AtLeast, Pads
<1>4. PICK q : q = Padding(j, p)
  OBVIOUS
<1>5. /\ q \in Nat /\ (p <= j => q = 0) /\ j + q <= b
      /\ j < p /\ p <= b => q = p - j
  BY <1>2, <1>4, PaddingFacts, <1>1
<1>6. CASE left
  BY <1>6, <1>1, <1>2, <1>3 DEF Pads
<1>7. CASE ~left
  <2>1. y = q
    BY <1>4, <1>7 DEF Pads
  <2>2. p = 0 => y = 0 /\ z = 0
    BY <1>2, <1>3, <1>5, <2>1
  <2>3. n + z <= b => y = z
    BY <1>2, <1>3, <1>5, <2>1
  <2>4. y \in Nat /\ j + y <= b
    BY <1>5, <2>1
  <2>5. QED  BY <1>1, <1>2, <1>3, <1>7, <2>2, <2>3, <2>4
<1>8. QED  BY <1>6, <1>7

IsLettered(t, size, D, n, z, a) == t = Back(D, n, z, <<a, "0">>) /\ size = n + z + 2

LEMMA LetterAligned ==
  ASSUME NEW D, NEW n \in Nat \ {0}, NoBlanks(D, n), NEW base \in {2, 16}, NEW flags,
         NEW p \in Nat, "PRECISION" \notin flags => p = 0, NEW w \in Nat, NEW left \in BOOLEAN,
         NEW j, NEW y, NEW z, Pads(n, p, left, j, y, z), NEW l, Totals(l, j, y),
         NEW s, Shortened(s, D, j, y, l, Dropped(l, base, p, w, flags), base, flags),
         NEW t, NEW size, IsLettered(t, size, D, n, z, Letter(base, flags))
  PROVE  IF /\ (left => z = 0) /\ size <= PRINTF_NTOA_BUFFER_SIZE
            /\ "PRECISION" \in flags \/ w # n
         THEN s = t
         ELSE Loses(s, t) /\ t[1] # "SP" /\ t[size] # "SP" /\ Len(t) = size
<1>0. PICK a : a = Letter(base, flags) /\ t = Back(D, n, z, <<a, "0">>) /\ size = n + z + 2
  BY DEF IsLettered
<1>1. PICK b \in Nat \ {0} : b = PRINTF_NTOA_BUFFER_SIZE
  BY Numbers
<1>2. /\ j \in Nat \ {0} /\ j <= n /\ j <= b
      /\ n <= b => j = n
      /\ y \in Nat /\ j + y <= b
      /\ z \in Nat
      /\ left => y = 0
      /\ p = 0 => y = 0 /\ z = 0
      /\ ~left /\ n + z <= b => y = z
  BY <1>1, AlignedPadding
<1>3. l = j + y /\ l \in Nat \ {0} /\ l <= b
  BY <1>2 DEF Totals
<1>4. PICK c : c = Dropped(l, base, p, w, flags)
  OBVIOUS
<1>5. /\ "PRECISION" \in flags \/ l # w => c = 0
      /\ "PRECISION" \notin flags /\ l = w => c = IF base = 16 /\ l > 1 THEN 2 ELSE 1
  BY <1>3, <1>4, DroppedFacts
<1>6. PICK k \in Nat, x \in Nat :
        /\ k + x = l - c /\ k <= j /\ x <= y /\ (k < j => x = 0)
        /\ s = WithPrefix(D, k, x, base, flags)
  BY <1>4 DEF Shortened
<1>7. PICK m : Totals(m, k, x) /\ m = l - c /\ m = k + x /\ m \in Nat
  BY <1>6 DEF Totals
<1>8. /\ IsText(s) /\ Len(s) = LetterSize(m)
      /\ m + 2 <= PRINTF_NTOA_BUFFER_SIZE => s = Back(D, k, x, <<a, "0">>)
  <2>1. IsPrefixed(s, a, D, k, x, base, flags)
    BY <1>0, <1>6 DEF IsPrefixed
  <2>2. LetterText(s, m, D, k, x, a)
    BY <1>6, <1>7, <2>1, LetterFacts
  <2>3. QED  BY <2>2 DEF LetterText
<1>9. /\ IsText(t) /\ Len(t) = size /\ t[1] # "SP" /\ t[size] = "0" /\ size \in Nat
  <2>1. PICK f : f = <<a, "0">>
    OBVIOUS
  <2>2. HasLen(f, 2) /\ f[2] = "0"
    BY <2>1, TwoCharacters
  <2>3. PICK q : Totals(q, n, z) /\ q = n + z
    BY DEF Totals
  <2>4. Totals(size, q, 2) /\ size \in Nat /\ q > 0
    BY <1>0, <1>2, <2>3 DEF Totals
  <2>5. Solid(Back(D, n, z, f), size, q, 2, f)
    BY <1>2, <2>2, <2>3, <2>4, Ends
  <2>6. QED  BY <1>0, <2>1, <2>2, <2>4, <2>5 DEF Solid
<1>10. CASE (left => z = 0) /\ size <= b /\ ("PRECISION" \in flags \/ w # n)
  <2>1. j = n /\ y = z
    BY <1>0, <1>2, <1>10
  <2>2. c = 0
    <3>1. CASE "PRECISION" \in flags
      BY <1>5, <3>1
    <3>2. CASE "PRECISION" \notin flags
      BY <1>2, <1>3, <2>1, <3>2, <1>5, <1>10
    <3>3. QED  BY <3>1, <3>2
  <2>3. k = n /\ x = z
    BY <1>2, <1>3, <1>6, <2>1, <2>2
  <2>4. m + 2 <= b
    BY <1>0, <1>2, <1>7, <1>10, <2>3
  <2>5. s = t
    BY <1>0, <1>1, <1>8, <2>3, <2>4
  <2>6. QED  BY <1>1, <1>10, <2>5
<1>11. CASE ~((left => z = 0) /\ size <= b /\ ("PRECISION" \in flags \/ w # n))
  <2>0. Len(s) <= b /\ Len(s) <= m + 2 /\ m <= l
    BY <1>5, <1>3, <1>7, <1>1, <1>8 DEF LetterSize
  <2>1. CASE size > b
    BY <1>0, <1>1, <1>8, <1>9, <2>0, <2>1, <1>7, <1>11 DEF LetterSize, Loses
  <2>2. CASE left /\ z # 0
    <3>1. m <= n /\ size > n + 2
      BY <1>0, <1>2, <1>3, <1>7, <2>0, <2>2
    <3>2. PICK q \in Nat : q = Len(s)
      BY <1>8 DEF IsText
    <3>3. q < size
      BY <1>7, <1>9, <2>0, <3>1, <3>2
    <3>4. Len(s) < Len(t)
      BY <1>9, <3>2, <3>3
    <3>5. QED  BY <1>1, <1>8, <1>9, <1>11, <3>4 DEF Loses
  <2>3. CASE size <= b /\ "PRECISION" \notin flags /\ w = n
    <3>1. p = 0 /\ y = 0 /\ z = 0 /\ j = n
      BY <1>0, <1>2, <2>3
    <3>2. l = w /\ c \in {1, 2}
      BY <1>3, <1>5, <2>3, <3>1
    <3>3. Len(s) < Len(t)
      BY <1>0, <1>1, <1>3, <1>7, <1>8, <1>9, <2>3, <3>1, <3>2 DEF LetterSize
    <3>4. QED  BY <1>1, <1>8, <1>9, <1>11, <3>3 DEF Loses
  <2>4. QED  BY <1>9, <1>11, <2>1, <2>2, <2>3
<1>12. QED  BY <1>10, <1>11

(* With zeros up to the width, which leave room for the prefix. *)
PadsWidth(n, w, room, j, y, z) ==
  /\ j = AtMost(n, PRINTF_NTOA_BUFFER_SIZE) /\ y = Padding(j, w)
  /\ z = AtLeast(w - (n + room), 0)

LEMMA WidthPadding ==
  ASSUME NEW n \in Nat \ {0}, NEW w \in Nat, NEW room \in Nat,
         NEW j, NEW y, NEW z, PadsWidth(n, w, room, j, y, z)
  PROVE  /\ j \in Nat \ {0} /\ j <= n /\ j <= PRINTF_NTOA_BUFFER_SIZE
         /\ n <= PRINTF_NTOA_BUFFER_SIZE => j = n
         /\ y \in Nat /\ j + y <= PRINTF_NTOA_BUFFER_SIZE
         /\ n <= PRINTF_NTOA_BUFFER_SIZE /\ w <= PRINTF_NTOA_BUFFER_SIZE =>
              (w <= n => y = 0) /\ (n <= w => y = w - n)
         /\ z \in Nat /\ (w <= n + room => z = 0) /\ (n + room <= w => z = w - (n + room))
<1>1. PICK b \in Nat \ {0} : b = PRINTF_NTOA_BUFFER_SIZE
  BY Numbers
<1>2. j \in Nat \ {0} /\ j <= n /\ j <= b /\ (n <= b => j = n)
  BY <1>1 DEF AtMost, PadsWidth
<1>3. z \in Nat /\ (w <= n + room => z = 0) /\ (n + room <= w => z = w - (n + room))
  BY DEF AtLeast, PadsWidth
<1>4. y = Padding(j, w)
  BY DEF PadsWidth
<1>5. /\ y \in Nat /\ (w <= j => y = 0) /\ j + y <= b
      /\ j < w /\ w <= b => y = w - j
  BY <1>2, <1>4, PaddingFacts, <1>1
<1>6. n <= b /\ w <= b => (w <= n => y = 0) /\ (n <= w => y = w - n)
  BY <1>2, <1>5
<1>7. QED  BY <1>1, <1>2, <1>3, <1>5, <1>6

LEMMA LetterPadded ==
  ASSUME NEW D, NEW n \in Nat \ {0}, NoBlanks(D, n), NEW base \in {2, 16}, NEW flags,
         "PRECISION" \notin flags, NEW w \in Nat,
         NEW j, NEW y, NEW z, PadsWidth(n, w, 2, j, y, z), NEW l, Totals(l, j, y),
         NEW s, Shortened(s, D, j, y, l, Dropped(l, base, 0, w, flags), base, flags),
         NEW t, NEW size, IsLettered(t, size, D, n, z, Letter(base, flags))
  PROVE  Reversed(s) = OnRight(t, w)
           <=> /\ size <= PRINTF_NTOA_BUFFER_SIZE
               /\ w # n /\ (base = 16 => w # n + 1) /\ (base = 2 => w <= n + 1)
<1>0. PICK a : a = Letter(base, flags) /\ t = Back(D, n, z, <<a, "0">>) /\ size = n + z + 2
  BY DEF IsLettered
<1>1. PICK b \in Nat \ {0} : b = PRINTF_NTOA_BUFFER_SIZE
  BY Numbers
<1>2. /\ j \in Nat \ {0} /\ j <= n /\ j <= b
      /\ n <= b => j = n
      /\ y \in Nat /\ j + y <= b
      /\ n <= b /\ w <= b => (w <= n => y = 0) /\ (n <= w => y = w - n)
      /\ z \in Nat /\ (w <= n + 2 => z = 0) /\ (n + 2 <= w => z = w - (n + 2))
  BY <1>1, WidthPadding
<1>3. l = j + y /\ l \in Nat \ {0} /\ l <= b
  BY <1>2 DEF Totals
<1>4. PICK c : c = Dropped(l, base, 0, w, flags)
  OBVIOUS
<1>5. /\ l # w => c = 0
      /\ l = w => c = IF base = 16 /\ l > 1 THEN 2 ELSE 1
  BY <1>3, <1>4, DroppedFacts
<1>6. PICK k \in Nat, x \in Nat :
        /\ k + x = l - c /\ k <= j /\ x <= y /\ (k < j => x = 0)
        /\ s = WithPrefix(D, k, x, base, flags)
  BY <1>4 DEF Shortened
<1>7. PICK m : Totals(m, k, x) /\ m = l - c /\ m = k + x /\ m \in Nat
  BY <1>6 DEF Totals
<1>8. /\ IsText(s) /\ Len(s) = LetterSize(m)
      /\ m + 2 <= PRINTF_NTOA_BUFFER_SIZE => s = Back(D, k, x, <<a, "0">>)
      /\ m + 1 = PRINTF_NTOA_BUFFER_SIZE => s[m + 1] = a
  <2>1. IsPrefixed(s, a, D, k, x, base, flags)
    BY <1>0, <1>6 DEF IsPrefixed
  <2>2. LetterText(s, m, D, k, x, a)
    BY <1>6, <1>7, <2>1, LetterFacts
  <2>3. QED  BY <2>2 DEF LetterText
<1>9. IsText(t) /\ Len(t) = size /\ t[size] = "0" /\ size \in Nat \ {0} /\ w <= size
  <2>1. PICK f : f = <<a, "0">>
    OBVIOUS
  <2>2. HasLen(f, 2) /\ f[2] = "0"
    BY <2>1, TwoCharacters
  <2>3. PICK q : Totals(q, n, z) /\ q = n + z
    BY DEF Totals
  <2>4. Totals(size, q, 2) /\ size \in Nat \ {0} /\ w <= size
    BY <1>0, <1>2, <2>3 DEF Totals
  <2>5. Solid(Back(D, n, z, f), size, q, 2, f)
    BY <1>2, <2>2, <2>3, <2>4, Ends
  <2>6. QED  BY <1>0, <2>1, <2>2, <2>4, <2>5 DEF Solid
<1>10. PICK q : q = Len(s)
  OBVIOUS
<1>11. q = LetterSize(m) /\ q \in Nat /\ q <= b /\ q <= m + 2
  <2>1. c \in {0, 1, 2}
    BY <1>5
  <2>2. m <= b /\ m <= l
    BY <1>1, <1>3, <1>7, <2>1
  <2>3. q = LetterSize(m)
    BY <1>8, <1>10
  <2>4. QED  BY <1>1, <1>7, <2>2, <2>3 DEF LetterSize
<1>12. ASSUME q # size PROVE Reversed(s) # OnRight(t, w)
  BY <1>9, <1>10, <1>12, <1>8, UnpaddedDiffers DEF AtLeast
<1>13. ASSUME s = t PROVE Reversed(s) = OnRight(t, w)
  BY <1>9, <1>13, UnpaddedAgrees
<1>14. CASE size > b
  BY <1>9, <1>11, <1>14, <1>1, <1>12
<1>15. CASE size <= b
  <2>1. j = n /\ w <= b /\ (w <= n => y = 0) /\ (n <= w => y = w - n) /\ n + 2 <= b
    BY <1>0, <1>2, <1>9, <1>15
  <2>2. CASE w < n
    <3>1. c = 0 /\ k = n /\ x = 0 /\ z = 0
      BY <1>0, <1>2, <1>3, <1>5, <1>6, <2>1, <2>2
    <3>2. s = t
      BY <1>0, <1>1, <1>7, <1>8, <2>1, <3>1
    <3>3. QED  BY <1>0, <1>1, <1>13, <1>15, <2>2, <3>2
  <2>3. CASE w = n
    BY <1>0, <1>2, <1>3, <1>5, <2>1, <2>3, <1>7, <1>11, <1>12
  <2>4. CASE w = n + 1 /\ base = 16
    BY <1>0, <1>2, <1>3, <2>1, <2>4, <1>5, <1>7, <1>11, <1>12
  <2>5. CASE w = n + 1 /\ base = 2
    <3>1. l = w /\ c = 1 /\ z = 0
      BY <1>0, <1>2, <1>3, <1>5, <2>1, <2>5
    <3>2. k = n /\ x = 0 /\ m = n
      BY <1>0, <1>2, <1>3, <1>6, <1>7, <2>1, <2>5, <3>1
    <3>3. s = t
      BY <1>0, <1>1, <1>8, <2>1, <3>1, <3>2
    <3>4. w # n /\ base # 16 /\ w <= n + 1
      BY <2>5
    <3>5. QED  BY <1>0, <1>1, <1>13, <1>15, <3>3, <3>4
  <2>6. CASE w > n + 1 /\ base = 16
    <3>1. l = w /\ l > 1
      BY <1>0, <1>3, <2>1, <2>6
    <3>2. c = 2 /\ z = w - (n + 2)
      BY <1>0, <1>2, <1>5, <2>6, <3>1
    <3>3. k = n /\ x = z
      BY <1>0, <1>2, <1>3, <1>6, <2>1, <2>6, <3>1, <3>2
    <3>4. m + 2 <= b
      BY <1>0, <1>7, <2>1, <2>6, <3>1, <3>2
    <3>5. s = t
      BY <1>0, <1>1, <1>8, <3>3, <3>4
    <3>6. w # n /\ w # n + 1 /\ base # 2
      BY <2>6
    <3>7. QED  BY <1>0, <1>1, <1>13, <1>15, <3>5, <3>6
  <2>7. CASE w > n + 1 /\ base = 2
    <3>1. l = w /\ c = 1 /\ z = w - (n + 2) /\ size = w
      BY <1>0, <1>2, <1>3, <1>5, <2>1, <2>7
    <3>2. m = w - 1
      BY <1>0, <1>7, <3>1
    <3>3. CASE w < b
      BY <1>0, <1>1, <1>11, <2>7, <3>2, <3>3, <1>12, <3>1 DEF LetterSize
    <3>4. CASE w = b
      <4>1. q = w /\ m + 1 = PRINTF_NTOA_BUFFER_SIZE /\ m + 1 = w
        BY <1>0, <1>1, <1>11, <2>7, <3>2, <3>4 DEF LetterSize
      <4>2. s[w] = a
        BY <1>0, <1>8, <4>1
      <4>3. a # "0"
        BY <1>0, <2>7 DEF Letter
      <4>4. w \in Nat \ {0}
        BY <2>7
      <4>5. Reversed(s) # OnRight(t, w)
        BY <1>0, <1>8, <1>9, <1>10, <3>1, <4>1, <4>2, <4>3, <4>4, FirstDiffers
      <4>6. ~(w <= n + 1) /\ base = 2
        BY <2>7
      <4>7. QED  BY <4>5, <4>6
    <3>5. QED  BY <2>1, <3>3, <3>4
  <2>8. QED  BY <2>2, <2>3, <2>4, <2>5, <2>6, <2>7
<1>16. QED  BY <1>0, <1>9, <1>14, <1>15

(* The octal prefix is one more zero. *)
LEMMA OctalFacts ==
  ASSUME NEW D, NEW k \in Nat, NEW z \in Nat, NEW flags, NEW n, Totals(n, k, z),
         NEW y, y = (IF n < PRINTF_NTOA_BUFFER_SIZE THEN z + 1 ELSE z)
  PROVE  WithPrefix(D, k, z, 8, flags) = Back(D, k, y, << >>) /\ y \in Nat
<1>1. PICK s : s = WithPrefix(D, k, z, 8, flags)
  OBVIOUS
<1>2. n = k + z
  BY DEF Totals
<1>3. CASE n < PRINTF_NTOA_BUFFER_SIZE
  BY <1>1, <1>2, <1>3, ZeroInFront DEF WithPrefix
<1>4. CASE ~(n < PRINTF_NTOA_BUFFER_SIZE)
  BY <1>1, <1>2, <1>4 DEF WithPrefix
<1>5. QED  BY <1>3, <1>4

LEMMA PlainEnds ==
  ASSUME NEW D, NEW k \in Nat, NoBlanks(D, k), NEW z \in Nat, NEW n, Totals(n, k, z)
  PROVE  Solid(Back(D, k, z, << >>), n, n, 0, << >>)
<1>1. PICK f : f = << >>
  OBVIOUS
<1>2. HasLen(f, 0)
  BY <1>1, EmptyIsText DEF HasLen
<1>3. Totals(n, n, 0)
  BY DEF Totals
<1>4. Solid(Back(D, k, z, f), n, n, 0, f)
  BY <1>2, <1>3, Ends
<1>5. QED  BY <1>1, <1>4

IsOctal(t, z, size, D, n, x) ==
  z = (IF x = 0 THEN 1 ELSE x) /\ t = Back(D, n, z, << >>) /\ Totals(size, n, z)

LEMMA OctalAligned ==
  ASSUME NEW D, NEW n \in Nat \ {0}, NoBlanks(D, n), NEW flags,
         NEW p \in Nat, "PRECISION" \notin flags => p = 0, NEW w \in Nat, NEW left \in BOOLEAN,
         NEW j, NEW y, NEW x, Pads(n, p, left, j, y, x), NEW l, Totals(l, j, y),
         NEW s, Shortened(s, D, j, y, l, Dropped(l, 8, p, w, flags), 8, flags),
         NEW z, NEW t, NEW size, IsOctal(t, z, size, D, n, x)
  PROVE  IF /\ size <= PRINTF_NTOA_BUFFER_SIZE /\ ("PRECISION" \in flags \/ w # n)
            /\ IF left THEN p <= n + 1 ELSE p <= n \/ p >= PRINTF_NTOA_BUFFER_SIZE
         THEN s = t
         ELSE \/ Loses(s, t) /\ t[1] # "SP" /\ t[size] # "SP" /\ Len(t) = size
              \/ ~left /\ Loses(t, s) /\ s[Len(s)] # "SP"
<1>0. z = (IF x = 0 THEN 1 ELSE x) /\ t = Back(D, n, z, << >>) /\ Totals(size, n, z)
  BY DEF IsOctal
<1>1. PICK b \in Nat \ {0} : b = PRINTF_NTOA_BUFFER_SIZE
  BY Numbers
<1>2. /\ j \in Nat \ {0} /\ j <= n /\ j <= b
      /\ n <= b => j = n
      /\ y \in Nat /\ j + y <= b
      /\ x \in Nat /\ (p <= n => x = 0) /\ (n <= p => x = p - n)
      /\ left => y = 0
      /\ p = 0 => y = 0 /\ x = 0
      /\ ~left /\ n + x <= b => y = x
  BY <1>1, AlignedPadding
<1>3. l = j + y /\ l \in Nat \ {0} /\ l <= b
  BY <1>2 DEF Totals
<1>4. PICK c : c = Dropped(l, 8, p, w, flags)
  OBVIOUS
<1>5. /\ "PRECISION" \in flags \/ l # w => c = 0
      /\ "PRECISION" \notin flags /\ l = w => c = 1
  BY <1>3, <1>4, DroppedFacts
<1>6. PICK k \in Nat, v \in Nat :
        /\ k + v = l - c /\ k <= j /\ v <= y /\ (k < j => v = 0)
        /\ s = WithPrefix(D, k, v, 8, flags)
  BY <1>4 DEF Shortened
<1>7. PICK m : Totals(m, k, v) /\ m = l - c /\ m = k + v /\ m \in Nat
  BY <1>6 DEF Totals
<1>8. PICK u \in Nat : u = IF m < PRINTF_NTOA_BUFFER_SIZE THEN v + 1 ELSE v
  BY <1>6
<1>9. s = Back(D, k, u, << >>)
  BY <1>6, <1>7, <1>8, OctalFacts
<1>10. PICK q : Totals(q, k, u)
  BY DEF Totals
<1>11. q = k + u /\ q \in Nat /\ q <= b /\ q <= m + 1 /\ (m < b => q = m + 1) /\ m <= l
  BY <1>1, <1>3, <1>5, <1>6, <1>7, <1>8, <1>10 DEF Totals
<1>12. NoBlanks(D, k)
  BY <1>2, <1>6 DEF NoBlanks
<1>13. IsText(s) /\ Len(s) = q /\ (q > 0 => s[q] # "SP")
  BY <1>6, <1>8, <1>9, <1>10, <1>12, PlainEnds DEF Solid
<1>14. z \in Nat \ {0} /\ size = n + z /\ size \in Nat \ {0}
  BY <1>0, <1>2 DEF Totals
<1>15. IsText(t) /\ Len(t) = size /\ t[1] # "SP" /\ t[size] # "SP"
  BY <1>0, <1>14, PlainEnds DEF Solid
<1>16. ASSUME q < size PROVE Loses(s, t)
  BY <1>0, <1>13, <1>15, <1>16 DEF Loses
<1>17. CASE size > b
  BY <1>0, <1>11, <1>14, <1>16, <1>17, <1>1, <1>15
<1>18. CASE size <= b /\ "PRECISION" \notin flags /\ w = n
  BY <1>0, <1>2, <1>14, <1>18, <1>3, <1>5, <1>7, <1>11, <1>16, <1>15
<1>19. CASE size <= b /\ left /\ p > n + 1 /\ ("PRECISION" \in flags \/ w # n)
  <2>1. x = p - n /\ z = x /\ y = 0
    BY <1>0, <1>2, <1>19
  <2>2. l <= n /\ z > 1 /\ size = n + z
    BY <1>0, <1>2, <1>3, <1>14, <1>19, <2>1
  <2>3. q <= l + 1
    BY <1>0, <1>3, <1>7, <1>11
  <2>4. q < size
    BY <1>0, <1>3, <1>11, <1>14, <2>2, <2>3
  <2>5. QED  BY <1>0, <1>15, <1>16, <1>19, <2>4
<1>20. CASE size <= b /\ ~left /\ n < p /\ p < b /\ ("PRECISION" \in flags \/ w # n)
  <2>1. x = p - n /\ z = x /\ y = x /\ j = n /\ size = p
    BY <1>0, <1>2, <1>14, <1>20
  <2>2. c = 0 /\ m = p
    BY <1>0, <1>3, <1>5, <1>7, <1>20, <2>1
  <2>3. size < q /\ q > 0
    BY <1>0, <1>11, <1>14, <1>20, <2>1, <2>2
  <2>4. Loses(t, s) /\ s[Len(s)] # "SP"
    BY <1>0, <1>13, <1>15, <2>3 DEF Loses
  <2>5. ~(p <= n \/ p >= b)
    BY <1>0, <1>20
  <2>6. QED  BY <1>0, <1>1, <1>20, <2>4, <2>5
<1>21. CASE /\ size <= b /\ ("PRECISION" \in flags \/ w # n)
            /\ IF left THEN p <= n + 1 ELSE p <= n \/ p >= b
  <2>1. CASE left \/ p <= n
    <3>1. z = 1 /\ y = 0 /\ j = n /\ n < b
      BY <1>0, <1>2, <1>21, <2>1, <1>14
    <3>2. l = n
      BY <1>0, <1>3, <3>1
    <3>3. c = 0
      BY <1>0, <1>5, <1>21, <3>2
    <3>4. k = n /\ v = 0 /\ m = n
      BY <1>0, <1>6, <1>7, <3>1, <3>2, <3>3
    <3>5. u = 1
      BY <1>0, <1>1, <1>8, <3>1, <3>4
    <3>6. s = t
      BY <1>0, <1>9, <3>1, <3>4, <3>5
    <3>7. QED  BY <1>0, <1>1, <1>21, <3>6
  <2>2. CASE ~left /\ p > n
    <3>1. x = p - n /\ z = x /\ size = p /\ p = b
      BY <1>0, <1>2, <1>14, <1>21, <2>2
    <3>2. j = n /\ y = x /\ l = b
      BY <1>0, <1>2, <1>3, <2>2, <3>1
    <3>3. c = 0
      BY <1>0, <1>5, <2>2
    <3>4. k = n /\ v = x /\ m = b
      BY <1>0, <1>2, <1>6, <1>7, <3>1, <3>2, <3>3
    <3>5. u = v
      BY <1>0, <1>1, <1>8, <3>4
    <3>6. s = t
      BY <1>0, <1>9, <3>1, <3>4, <3>5
    <3>7. QED  BY <1>0, <1>1, <1>21, <3>6
  <2>3. QED  BY <2>1, <2>2
<1>22. QED  BY <1>0, <1>14, <1>17, <1>18, <1>19, <1>20, <1>21

LEMMA OctalPadded ==
  ASSUME NEW D, NEW n \in Nat \ {0}, NoBlanks(D, n), NEW flags, "PRECISION" \notin flags,
         NEW w \in Nat, NEW j, NEW y, NEW x, PadsWidth(n, w, 1, j, y, x),
         NEW l, Totals(l, j, y),
         NEW s, Shortened(s, D, j, y, l, Dropped(l, 8, 0, w, flags), 8, flags),
         NEW z, z = x + 1, NEW t, t = Back(D, n, z, << >>), NEW size, Totals(size, n, z)
  PROVE  Reversed(s) = OnRight(t, w) <=> size <= PRINTF_NTOA_BUFFER_SIZE /\ w # n
<1>1. PICK b \in Nat \ {0} : b = PRINTF_NTOA_BUFFER_SIZE
  BY Numbers
<1>2. /\ j \in Nat \ {0} /\ j <= n /\ j <= b
      /\ n <= b => j = n
      /\ y \in Nat /\ j + y <= b
      /\ n <= b /\ w <= b => (w <= n => y = 0) /\ (n <= w => y = w - n)
      /\ x \in Nat /\ (w <= n + 1 => x = 0) /\ (n + 1 <= w => x = w - (n + 1))
  BY <1>1, WidthPadding
<1>3. l = j + y /\ l \in Nat \ {0} /\ l <= b
  BY <1>2 DEF Totals
<1>4. PICK c : c = Dropped(l, 8, 0, w, flags)
  OBVIOUS
<1>5. (l # w => c = 0) /\ (l = w => c = 1)
  BY <1>3, <1>4, DroppedFacts
<1>6. PICK k \in Nat, v \in Nat :
        /\ k + v = l - c /\ k <= j /\ v <= y /\ (k < j => v = 0)
        /\ s = WithPrefix(D, k, v, 8, flags)
  BY <1>4 DEF Shortened
<1>7. PICK m : Totals(m, k, v) /\ m = l - c /\ m = k + v /\ m \in Nat
  BY <1>6 DEF Totals
<1>8. PICK u \in Nat : u = IF m < PRINTF_NTOA_BUFFER_SIZE THEN v + 1 ELSE v
  BY <1>6
<1>9. s = Back(D, k, u, << >>)
  BY <1>6, <1>7, <1>8, OctalFacts
<1>10. PICK q : Totals(q, k, u)
  BY DEF Totals
<1>11. q = k + u /\ q \in Nat /\ q <= b /\ q <= m + 1 /\ m <= l
  BY <1>1, <1>3, <1>5, <1>6, <1>7, <1>8, <1>10 DEF Totals
<1>12. NoBlanks(D, k)
  BY <1>2, <1>6 DEF NoBlanks
<1>13. IsText(s) /\ Len(s) = q
  BY <1>6, <1>8, <1>9, <1>10, <1>12, PlainEnds DEF Solid
<1>14. z \in Nat \ {0} /\ size = n + z /\ size \in Nat \ {0} /\ w <= size
  BY <1>2 DEF Totals
<1>15. IsText(t) /\ Len(t) = size
  BY <1>14, PlainEnds DEF Solid
<1>16. ASSUME q # size PROVE Reversed(s) # OnRight(t, w)
  BY <1>13, <1>14, <1>15, <1>16, UnpaddedDiffers DEF AtLeast
<1>17. ASSUME s = t PROVE Reversed(s) = OnRight(t, w)
  BY <1>14, <1>15, <1>17, UnpaddedAgrees
<1>18. CASE size > b
  BY <1>11, <1>14, <1>18, <1>1, <1>16
<1>19. CASE size <= b
  <2>1. j = n /\ w <= b /\ (w <= n => y = 0) /\ (n <= w => y = w - n) /\ n < b
    BY <1>2, <1>14, <1>19
  <2>2. CASE w < n
    <3>1. c = 0 /\ k = n /\ v = 0 /\ z = 1 /\ m = n
      BY <1>2, <1>3, <1>5, <1>6, <1>7, <2>1, <2>2
    <3>2. s = t
      BY <1>1, <1>8, <1>9, <2>1, <3>1
    <3>3. QED  BY <1>1, <1>17, <1>19, <2>2, <3>2
  <2>3. CASE w = n
    BY <1>2, <1>3, <1>5, <2>1, <2>3, <1>7, <1>11, <1>14, <1>16
  <2>4. CASE w > n
    <3>1. l = w /\ c = 1 /\ z = w - n
      BY <1>2, <1>3, <1>5, <2>1, <2>4
    <3>2. k = n /\ v = w - 1 - n /\ m = w - 1 /\ m < b
      BY <1>2, <1>6, <1>7, <2>1, <2>4, <3>1
    <3>3. u = z
      BY <1>1, <1>8, <3>1, <3>2
    <3>4. s = t
      BY <1>9, <3>2, <3>3
    <3>5. QED  BY <1>1, <1>17, <1>19, <2>4, <3>4
  <2>5. QED  BY <2>2, <2>3, <2>4
<1>20. QED  BY <1>14, <1>18, <1>19
-----------------------------------------------------------------------------
(* A conversion of an integer: what the directive is, and its flags.       *)

TakesInteger(d) ==
  /\ d.spec \in IntegerSpecs /\ d.width \in Nat /\ d.prec \in Nat
  /\ "PRECISION" \notin d.flags => d.prec = 0
  /\ "UPPERCASE" \notin d.flags

IsSigned(d) == d.spec \in {"d", "i"}

LEMMA BaseFacts10 ==
  ASSUME NEW spec \in IntegerSpecs
  PROVE  /\ Base(spec) \in Bases
         /\ Base(spec) = 10 <=> spec \in {"d", "i", "u"}
         /\ Base(spec) = 8 <=> spec = "o"
         /\ Base(spec) = 2 <=> spec = "b"
         /\ Base(spec) = 16 <=> spec \in {"x", "X"}
<1>1. spec \in {"d", "i", "u", "x", "X", "o", "b"}
  BY DEF IntegerSpecs
<1>2. CASE spec \in {"x", "X"}
  BY <1>2 DEF Base, Bases
<1>3. CASE spec = "o"
  BY <1>3 DEF Base, Bases
<1>4. CASE spec = "b"
  BY <1>4 DEF Base, Bases
<1>5. CASE spec \in {"d", "i", "u"}
  BY <1>5 DEF Base, Bases
<1>6. QED  BY <1>1, <1>2, <1>3, <1>4, <1>5

LEMMA FlagsKept ==
  ASSUME NEW d, TakesInteger(d)
  PROVE  LET f == IntegerFlags(d)
         IN  /\ "LEFT" \in f <=> "LEFT" \in d.flags
             /\ "PRECISION" \in f <=> "PRECISION" \in d.flags
             /\ "ZEROPAD" \in f <=> "ZEROPAD" \in d.flags /\ "PRECISION" \notin d.flags
             /\ "HASH" \in f <=> "HASH" \in d.flags /\ Base(d.spec) # 10
             /\ "PLUS" \in f <=> "PLUS" \in d.flags /\ IsSigned(d)
             /\ "SPACE" \in f <=> "SPACE" \in d.flags /\ IsSigned(d)
             /\ "UPPERCASE" \in f <=> d.spec = "X"
<1>1. PICK b : b = Base(d.spec)
  OBVIOUS
<1>2. PICK c : c = d.flags
  OBVIOUS
<1>3. PICK s : s = d.spec
  OBVIOUS
<1>4. PICK f : f = (c \cup (IF s = "X" THEN {"UPPERCASE"} ELSE {}))
                     \ ((IF b = 10 THEN {"HASH"} ELSE {})
                        \cup (IF s \in {"d", "i"} THEN {} ELSE {"PLUS", "SPACE"})
                        \cup (IF "PRECISION" \in c THEN {"ZEROPAD"} ELSE {}))
  OBVIOUS
<1>5. f = IntegerFlags(d)
  BY <1>1, <1>2, <1>3, <1>4 DEF IntegerFlags
<1>6. "UPPERCASE" \notin c
  BY <1>2 DEF TakesInteger
<1>7. "LEFT" \in f <=> "LEFT" \in c
  BY <1>4
<1>8. "PRECISION" \in f <=> "PRECISION" \in c
  BY <1>4
<1>9. "ZEROPAD" \in f <=> "ZEROPAD" \in c /\ "PRECISION" \notin c
  BY <1>4
<1>10. "HASH" \in f <=> "HASH" \in c /\ b # 10
  BY <1>4
<1>11. "PLUS" \in f <=> "PLUS" \in c /\ s \in {"d", "i"}
  BY <1>4
<1>12. "SPACE" \in f <=> "SPACE" \in c /\ s \in {"d", "i"}
  BY <1>4
<1>13. "UPPERCASE" \in f <=> s = "X"
  BY <1>4, <1>6
<1>14. QED
  BY <1>1, <1>2, <1>3, <1>5, <1>7, <1>8, <1>9, <1>10, <1>11, <1>12, <1>13 DEF IsSigned

(* The code's magnitude is C's: it fits the type. *)
LEMMA MagnitudeFacts ==
  ASSUME NEW d, NEW arg \in Int
  PROVE  /\ CValue(d, arg) \in Int
         /\ CMagnitude(d, arg) \in 0..SizeMax
         /\ Magnitude(CValue(d, arg), BitsOf(d.flags)) = CMagnitude(d, arg)
         /\ CMagnitude(d, arg) = 0 <=> CValue(d, arg) = 0
         /\ CValue(d, arg) < 0 => IsSigned(d)
<1>1. PICK v : v = CValue(d, arg)
  OBVIOUS
<1>2. PICK bits : bits = BitsOf(d.flags)
  OBVIOUS
<1>3. bits \in {CharBits, ShortBits, IntBits, LongBits}
  BY <1>2 DEF BitsOf
<1>4. PICK p \in Nat \ {0} : p = 2^bits
  BY <1>3, Numbers
<1>5. PICK h \in Nat \ {0} : h = 2^(bits - 1)
  BY <1>3, PowersAssumption
<1>6. SizeMax \in Nat /\ p <= SizeMax + 1
  <2>1. PICK l \in Nat \ {0} : l = 2^LongBits
    BY Numbers
  <2>2. p <= l
    BY <1>3, <1>4, <2>1, PowersAssumption
  <2>3. QED  BY <2>1, <2>2 DEF SizeMax
<1>7. PICK low : low = arg % p
  OBVIOUS
<1>8. low \in 0..p - 1
  BY <1>7, QuotientBounds
<1>9. v = IF IsSigned(d) THEN (IF low < h THEN low ELSE low - p) ELSE low
  BY <1>1, <1>2, <1>4, <1>5, <1>7 DEF CValue, IsSigned, Signed, Unsigned
<1>10. /\ v \in Int /\ (v < 0 => IsSigned(d)) /\ v < p /\ v <= SizeMax
       /\ v < 0 => -v \in 1..p - 1
  BY <1>6, <1>8, <1>9
<1>11. PICK m : m = IF v < 0 THEN -v ELSE v
  OBVIOUS
<1>12. m = CMagnitude(d, arg)
  BY <1>1, <1>11 DEF CMagnitude
<1>13. m \in 0..SizeMax /\ (m = 0 <=> v = 0)
  BY <1>6, <1>10, <1>11
<1>14. Magnitude(v, bits) = m
  <2>1. CASE v < 0
    <3>1. PICK q : q = -v
      OBVIOUS
    <3>2. q \in 0..p - 1 /\ q = p * 0 + q /\ 0 \in Int
      BY <1>10, <2>1, <3>1
    <3>3. q % p = q
      BY <3>2, Divided
    <3>4. QED  BY <1>4, <1>11, <2>1, <3>1, <3>3 DEF Magnitude, Unsigned
  <2>2. CASE ~(v < 0)
    BY <1>11, <2>2 DEF Magnitude
  <2>3. QED  BY <2>1, <2>2
<1>15. QED  BY <1>1, <1>2, <1>10, <1>12, <1>13, <1>14

(* m has n digits, D, last one first. *)
IsNumber(d, m, n, D) ==
  /\ m \in 0..SizeMax /\ n \in Nat \ {0} /\ HasDigits(m, Base(d.spec), n)
  /\ D = Digits(m, Base(d.spec), d.spec = "X")
  /\ NoBlanks(D, n)
  /\ m # 0 => D[n] # "0"
  /\ m = 0 => n = 1 /\ D[1] = "0"

LEMMA NumberExists ==
  ASSUME NEW d, TakesInteger(d), NEW m \in 0..SizeMax
  PROVE  \E n, D : IsNumber(d, m, n, D)
<1>1. PICK b \in Bases : b = Base(d.spec)
  BY BaseFacts10 DEF TakesInteger
<1>2. PICK upper \in BOOLEAN : upper = (d.spec = "X")
  OBVIOUS
<1>3. PICK n \in Nat :
        /\ HasDigits(m, b, n)
        /\ \A k \in 0..n - 1 : Pow(b, k) \in Nat \ {0}
        /\ m # 0 => (m \div Pow(b, n - 1)) % b # 0
        /\ m = 0 => n = 1
  BY NumberOfDigits
<1>4. PICK D : D = Digits(m, b, upper)
  OBVIOUS
<1>5. n \in Nat \ {0} /\ m \in Nat
  BY <1>3, Numbers DEF HasDigits
<1>6. ASSUME NEW i \in 1..n
      PROVE  /\ D[i] # "SP"
             /\ D[i] = "0" <=> (m \div Pow(b, i - 1)) % b = 0
  <2>1. i \in Nat \ {0} /\ i - 1 \in 0..n - 1
    BY <1>5
  <2>2. Pow(b, i - 1) \in Nat \ {0}
    BY <1>3, <2>1
  <2>3. /\ DigitAt(m, b, upper, i) # "SP"
        /\ DigitAt(m, b, upper, i) = "0" <=> (m \div Pow(b, i - 1)) % b = 0
    BY <1>5, <2>1, <2>2, DigitsOfBase
  <2>4. D[i] = DigitAt(m, b, upper, i)
    BY <1>4, <2>1 DEF Digits
  <2>5. QED  BY <2>3, <2>4
<1>7. NoBlanks(D, n)
  BY <1>6 DEF NoBlanks
<1>8. n \in 1..n
  BY <1>5
<1>9. m # 0 => D[n] # "0"
  BY <1>3, <1>6, <1>8
<1>10. m = 0 => n = 1 /\ D[1] = "0"
  <2> SUFFICES ASSUME m = 0 PROVE n = 1 /\ D[1] = "0"
    OBVIOUS
  <2>1. n = 1
    BY <1>3
  <2>2. b \in Nat \ {0} /\ Pow(b, 0) = 1
    BY BasePowers DEF Bases
  <2>3. m \div 1 = 0
    BY ZeroQuotient
  <2>4. 0 % b = 0
    BY <2>2, Divided
  <2>5. n - 1 = 0
    BY <2>1
  <2>6. (m \div Pow(b, n - 1)) % b = 0
    BY <2>2, <2>3, <2>4, <2>5
  <2>7. D[n] = "0"
    BY <1>6, <1>8, <2>6
  <2>8. QED  BY <2>1, <2>7
<1>11. QED  BY <1>1, <1>2, <1>3, <1>4, <1>5, <1>7, <1>9, <1>10 DEF IsNumber
-----------------------------------------------------------------------------
(* What the code writes. *)

Out(s, w, flags) ==
  IF "LEFT" \in flags THEN OnLeft(s, w)
  ELSE IF "ZEROPAD" \in flags THEN Reversed(s) ELSE OnRight(s, w)

(* The digits shown, the sign, and the width that is left for the rest. *)
Shown(d, m, n) == IF "PRECISION" \in d.flags /\ m = 0 THEN 0 ELSE n

SignText(d, negative) ==
  IF negative THEN <<"-">>
  ELSE IF IsSigned(d) /\ "PLUS" \in d.flags THEN <<"+">>
  ELSE IF IsSigned(d) /\ "SPACE" \in d.flags THEN <<"SP">> ELSE << >>

WidthFor(d, f) ==
  IF /\ "LEFT" \notin IntegerFlags(d) /\ "ZEROPAD" \in IntegerFlags(d)
     /\ d.width > 0 /\ f # << >>
  THEN d.width - 1 ELSE d.width

Prefixed(d, m) == "HASH" \in d.flags /\ Base(d.spec) # 10 /\ m # 0

(* The number in the conversion buffer before the sign: j digits, y zeros. *)
InBuffer(d, m, n, negative, j, y) ==
  /\ j = AtMost(Shown(d, m, n), PRINTF_NTOA_BUFFER_SIZE)
  /\ y = Padding(j, PaddedTo(d.prec, WidthFor(d, SignText(d, negative)), IntegerFlags(d)))

LEMMA SignFacts ==
  ASSUME NEW d, NEW negative \in BOOLEAN
  PROVE  \E c : /\ SignText(d, negative) \in {<< >>, <<c>>} /\ <<c>> # << >>
                /\ c = "SP" <=> SignText(d, negative) = <<"SP">>
                /\ c \in {"-", "+", "SP", "none"}
<1>1. PICK c : c = IF negative THEN "-"
                   ELSE IF IsSigned(d) /\ "PLUS" \in d.flags THEN "+"
                   ELSE IF IsSigned(d) /\ "SPACE" \in d.flags THEN "SP" ELSE "none"
  OBVIOUS
<1>2. <<c>> # << >> /\ << >> # <<"SP">>
  OBVIOUS
<1>3. SignText(d, negative) \in {<< >>, <<c>>} /\ c \in {"-", "+", "SP", "none"}
  BY <1>1 DEF SignText
<1>4. c = "SP" <=> SignText(d, negative) = <<"SP">>
  <2>1. CASE c = "none"
    BY <1>1, <1>2, <2>1 DEF SignText
  <2>2. CASE c # "none"
    BY <1>1, <2>2 DEF SignText
  <2>3. QED  BY <2>1, <2>2
<1>5. QED  BY <1>2, <1>3, <1>4

(* The flags that reach _ntoa_format: zero has no prefix. *)
FlagsFor(d, m) == IF m = 0 THEN IntegerFlags(d) \ {"HASH"} ELSE IntegerFlags(d)

Converting(d, m, negative) ==
  ntoa_long(m, negative, Base(d.spec), d.prec, d.width, IntegerFlags(d))

Prepared(d, m, negative, buf) ==
  LET w == WidthFor(d, SignText(d, negative))
      f == FlagsFor(d, m)
  IN  out_rev(PutSign(PutPrefix(buf, Base(d.spec), d.prec, w, f), negative, f), w, f)

LEMMA FlagsForFacts ==
  ASSUME NEW d, TakesInteger(d), NEW m
  PROVE  /\ "LEFT" \in FlagsFor(d, m) <=> "LEFT" \in IntegerFlags(d)
         /\ "ZEROPAD" \in FlagsFor(d, m) <=> "ZEROPAD" \in IntegerFlags(d)
         /\ "PRECISION" \in FlagsFor(d, m) <=> "PRECISION" \in d.flags
         /\ "HASH" \in FlagsFor(d, m) <=> Prefixed(d, m)
         /\ "PLUS" \in FlagsFor(d, m) <=> "PLUS" \in d.flags /\ IsSigned(d)
         /\ "SPACE" \in FlagsFor(d, m) <=> "SPACE" \in d.flags /\ IsSigned(d)
         /\ "UPPERCASE" \in FlagsFor(d, m) <=> d.spec = "X"
         /\ "ZEROPAD" \in FlagsFor(d, m) => d.prec = 0
<1>1. PICK f, g : f = IntegerFlags(d) /\ g = FlagsFor(d, m)
  OBVIOUS
<1>2. \A x : x # "HASH" => (x \in g <=> x \in f)
  BY <1>1 DEF FlagsFor
<1>3. "HASH" \in g <=> "HASH" \in f /\ m # 0
  BY <1>1 DEF FlagsFor
<1>4. /\ "LEFT" \in g <=> "LEFT" \in f
      /\ "ZEROPAD" \in g <=> "ZEROPAD" \in f
      /\ "PRECISION" \in g <=> "PRECISION" \in f
      /\ "PLUS" \in g <=> "PLUS" \in f
      /\ "SPACE" \in g <=> "SPACE" \in f
      /\ "UPPERCASE" \in g <=> "UPPERCASE" \in f
  BY <1>2
<1>5. /\ "PRECISION" \in f <=> "PRECISION" \in d.flags
      /\ "ZEROPAD" \in f <=> "ZEROPAD" \in d.flags /\ "PRECISION" \notin d.flags
      /\ "HASH" \in f <=> "HASH" \in d.flags /\ Base(d.spec) # 10
      /\ "PLUS" \in f <=> "PLUS" \in d.flags /\ IsSigned(d)
      /\ "SPACE" \in f <=> "SPACE" \in d.flags /\ IsSigned(d)
      /\ "UPPERCASE" \in f <=> d.spec = "X"
  BY <1>1, FlagsKept
<1>6. "ZEROPAD" \in g => d.prec = 0
  BY <1>4, <1>5 DEF TakesInteger
<1>7. "HASH" \in g <=> Prefixed(d, m)
  BY <1>3, <1>5 DEF Prefixed
<1>8. QED  BY <1>1, <1>4, <1>5, <1>6, <1>7

LEMMA NothingBack ==
  ASSUME NEW D PROVE Back(D, 0, 0, << >>) = << >>
<1>1. PICK s : s = << >>
  OBVIOUS
<1>2. IsText(s) /\ Len(s) = 0
  BY <1>1, EmptyIsText
<1>3. \A i \in 1..0 : s[i] = D[i]
  OBVIOUS
<1>4. s = Back(D, 0, 0, << >>)
  BY <1>2, <1>3, BackOfDigits
<1>5. QED  BY <1>1, <1>4

LEMMA WidthForFacts ==
  ASSUME NEW d, TakesInteger(d), NEW f
  PROVE  /\ WidthFor(d, f) \in Nat
         /\ "LEFT" \in IntegerFlags(d) \/ "ZEROPAD" \notin IntegerFlags(d) => WidthFor(d, f) = d.width
         /\ "LEFT" \notin IntegerFlags(d) /\ "ZEROPAD" \in IntegerFlags(d) =>
              WidthFor(d, f) = IF f # << >> /\ d.width > 0 THEN d.width - 1 ELSE d.width
<1>1. PICK w \in Nat : w = d.width
  BY DEF TakesInteger
<1>2. w > 0 => w - 1 \in Nat
  OBVIOUS
<1>3. QED  BY <1>1, <1>2 DEF WidthFor

LEMMA PreparedDigits ==
  ASSUME NEW d, TakesInteger(d), NEW m, NEW n, NEW D, IsNumber(d, m, n, D),
         NEW negative \in BOOLEAN, negative => IsSigned(d),
         NEW j, NEW y, InBuffer(d, m, n, negative, j, y)
  PROVE  /\ Converting(d, m, negative) = Prepared(d, m, negative, Back(D, j, y, << >>))
         /\ j \in Nat /\ y \in Nat /\ j + y <= PRINTF_NTOA_BUFFER_SIZE
<1>1. PICK f, g : f = IntegerFlags(d) /\ g = FlagsFor(d, m)
  OBVIOUS
<1>2. PICK b : b = Base(d.spec)
  OBVIOUS
<1>3. PICK w \in Nat : w = WidthFor(d, SignText(d, negative))
  BY WidthForFacts
<1>4. PICK prec \in Nat, width \in Nat : prec = d.prec /\ width = d.width
  BY DEF TakesInteger
<1>5. PICK buf : buf = IF "PRECISION" \in f /\ m = 0 THEN << >> ELSE DigitsReversed(m, b, f)
  OBVIOUS
<1>6. buf = Back(D, j, 0, << >>) /\ j \in Nat /\ j <= PRINTF_NTOA_BUFFER_SIZE
  <2>1. "PRECISION" \in f <=> "PRECISION" \in d.flags
    BY <1>1, FlagsKept
  <2>2. PICK size \in Nat \ {0} : size = PRINTF_NTOA_BUFFER_SIZE
    BY Numbers
  <2>3. CASE "PRECISION" \in f /\ m = 0
    BY <2>1, <2>2, <2>3, <1>5, NothingBack DEF InBuffer, Shown, AtMost
  <2>4. CASE ~("PRECISION" \in f /\ m = 0)
    <3>1. PICK upper \in BOOLEAN : upper = (d.spec = "X")
      OBVIOUS
    <3>2. upper = ("UPPERCASE" \in f)
      BY <1>1, <3>1, FlagsKept
    <3>3. j = AtMost(n, PRINTF_NTOA_BUFFER_SIZE)
      BY <2>1, <2>4 DEF InBuffer, Shown
    <3>4. HasDigits(m, b, n) /\ D = Digits(m, b, upper)
      BY <1>2, <3>1 DEF IsNumber
    <3>5. DigitsReversed(m, b, f) = Back(Digits(m, b, upper), j, 0, << >>) /\ j \in Nat
      BY <3>2, <3>3, <3>4, DigitsReversedBack
    <3>6. buf = DigitsReversed(m, b, f)
      BY <1>5, <2>4
    <3>7. j <= PRINTF_NTOA_BUFFER_SIZE
      BY <2>2, <3>3 DEF AtMost, IsNumber
    <3>8. QED  BY <3>4, <3>5, <3>6, <3>7
  <2>5. QED  BY <2>3, <2>4
<1>7. y = Padding(j, PaddedTo(prec, w, g))
  BY <1>1, FlagsForFacts, <1>3, <1>4 DEF PaddedTo, InBuffer
<1>8. PadZeros(Back(D, j, 0, << >>), prec, w, g) = Back(D, j, y, << >>) /\ y \in Nat
  <2>1. "ZEROPAD" \in g => prec = 0
    BY <1>1, <1>4, FlagsForFacts
  <2>2. QED  BY <1>6, <1>7, <2>1, PaddedBack
<1>9. j + y <= PRINTF_NTOA_BUFFER_SIZE
  BY <1>6, <1>7, PaddingFacts DEF PaddedTo
<1>10. Converting(d, m, negative) = ntoa_format(buf, negative, b, prec, width, g)
  BY <1>1, <1>2, <1>4, <1>5 DEF Converting, ntoa_long, FlagsFor
<1>11. w = IF /\ "LEFT" \notin g /\ "ZEROPAD" \in g /\ width > 0
              /\ negative \/ (g \cap {"PLUS", "SPACE"} # {})
           THEN width - 1 ELSE width
  <2>1. negative \/ (g \cap {"PLUS", "SPACE"} # {}) <=> SignText(d, negative) # << >>
    <3>1. "PLUS" \in g <=> "PLUS" \in d.flags /\ IsSigned(d)
      BY <1>1, FlagsForFacts
    <3>2. "SPACE" \in g <=> "SPACE" \in d.flags /\ IsSigned(d)
      BY <1>1, FlagsForFacts
    <3>3. g \cap {"PLUS", "SPACE"} # {} <=> "PLUS" \in g \/ "SPACE" \in g
      OBVIOUS
    <3>4. <<"-">> # << >> /\ <<"+">> # << >> /\ <<"SP">> # << >>
      OBVIOUS
    <3>5. QED  BY <3>1, <3>2, <3>3, <3>4 DEF SignText
  <2>2. ("LEFT" \in g <=> "LEFT" \in f) /\ ("ZEROPAD" \in g <=> "ZEROPAD" \in f)
    BY <1>1, FlagsForFacts
  <2>3. QED  BY <1>1, <1>3, <1>4, <2>1, <2>2 DEF WidthFor
<1>12. ntoa_format(buf, negative, b, prec, width, g)
         = out_rev(PutSign(PutPrefix(PadZeros(buf, prec, w, g), b, prec, w, g), negative, g), w, g)
  BY <1>11 DEF ntoa_format
<1>13. QED
  BY <1>1, <1>2, <1>3, <1>4, <1>6, <1>8, <1>9, <1>10, <1>12 DEF Prepared

LEMMA OutText ==
  ASSUME NEW d, TakesInteger(d), NEW m, NEW s, IsText(s), NEW f
  PROVE  out_rev(s, WidthFor(d, f), FlagsFor(d, m)) = Out(s, d.width, IntegerFlags(d))
<1>1. PICK w \in Nat : w = WidthFor(d, f)
  BY WidthForFacts
<1>2. PICK g, h : g = FlagsFor(d, m) /\ h = IntegerFlags(d)
  OBVIOUS
<1>3. ("LEFT" \in g <=> "LEFT" \in h) /\ ("ZEROPAD" \in g <=> "ZEROPAD" \in h)
  BY <1>2, FlagsForFacts
<1>4. out_rev(s, w, g) = IF "LEFT" \in g THEN OnLeft(s, w)
                         ELSE IF "ZEROPAD" \in g THEN Reversed(s) ELSE OnRight(s, w)
  BY CodeText
<1>5. "LEFT" \in h \/ "ZEROPAD" \notin h => w = d.width
  BY <1>1, <1>2, WidthForFacts
<1>6. QED  BY <1>1, <1>2, <1>3, <1>4, <1>5 DEF Out

LEMMA CodePlain ==
  ASSUME NEW d, TakesInteger(d), NEW m, NEW n, NEW D, IsNumber(d, m, n, D),
         NEW negative \in BOOLEAN, negative => IsSigned(d),
         NEW j, NEW y, InBuffer(d, m, n, negative, j, y), ~Prefixed(d, m)
  PROVE  Converting(d, m, negative)
           = Out(Fits(D, j, y, SignText(d, negative)), d.width, IntegerFlags(d))
<1>1. /\ Converting(d, m, negative) = Prepared(d, m, negative, Back(D, j, y, << >>))
      /\ j \in Nat /\ y \in Nat /\ j + y <= PRINTF_NTOA_BUFFER_SIZE
  BY PreparedDigits
<1>2. PICK buf : buf = Back(D, j, y, << >>)
  OBVIOUS
<1>3. PICK g, w, f : /\ g = FlagsFor(d, m) /\ f = SignText(d, negative) /\ w = WidthFor(d, f)
  OBVIOUS
<1>4. PutPrefix(buf, Base(d.spec), d.prec, w, g) = buf
  BY <1>3, FlagsForFacts DEF PutPrefix
<1>5. PICK c : f \in {<< >>, <<c>>} /\ <<c>> # << >>
  BY <1>3, SignFacts
<1>6. PICK x : x = PutSign(buf, negative, g)
  OBVIOUS
<1>7. PutBefore(x, D, j, y, f, c)
  <2> SUFFICES x = IF f = << >> THEN buf ELSE AppendChar(buf, c)
    BY <1>2 DEF PutBefore
  <2>1. ("PLUS" \in g <=> "PLUS" \in d.flags /\ IsSigned(d))
        /\ ("SPACE" \in g <=> "SPACE" \in d.flags /\ IsSigned(d))
    BY <1>3, FlagsForFacts
  <2>2. CASE negative
    BY <1>3, <1>6, <2>2, <1>5 DEF PutSign, SignText
  <2>3. CASE ~negative /\ "PLUS" \in g
    BY <1>6, <2>3, <1>3, <2>1, <1>5 DEF PutSign, SignText
  <2>4. CASE ~negative /\ "PLUS" \notin g /\ "SPACE" \in g
    BY <1>6, <2>4, <1>3, <2>1, <1>5 DEF PutSign, SignText
  <2>5. CASE ~negative /\ "PLUS" \notin g /\ "SPACE" \notin g
    BY <1>6, <2>5, <1>3, <2>1 DEF PutSign, SignText
  <2>6. QED  BY <2>2, <2>3, <2>4, <2>5
<1>8. IsText(f) /\ x = Fits(D, j, y, f)
  BY <1>5, <1>1, <1>7, SignedBack DEF IsSign
<1>11. IsText(x)
  <2>1. IsText(Back(D, j, y, << >>))
    BY <1>1, PlainText
  <2>2. PICK e : e = j + y + Len(f)
    OBVIOUS
  <2>3. IsText(Back(D, j, y, f))
    BY <1>1, <1>8, <2>2, BackText
  <2>4. QED  BY <1>8, <2>1, <2>3 DEF Fits
<1>12. Prepared(d, m, negative, buf) = out_rev(x, w, g)
  BY <1>3, <1>4, <1>6 DEF Prepared
<1>13. out_rev(x, w, g) = Out(x, d.width, IntegerFlags(d))
  BY <1>3, <1>11, OutText
<1>14. QED  BY <1>1, <1>2, <1>3, <1>8, <1>12, <1>13

LEMMA PrefixedIsUnsigned ==
  ASSUME NEW d, TakesInteger(d), NEW m, Prefixed(d, m)
  PROVE  /\ ~IsSigned(d) /\ SignText(d, FALSE) = << >> /\ WidthFor(d, << >>) = d.width
         /\ FlagsFor(d, m) = IntegerFlags(d) /\ Base(d.spec) \in {2, 8, 16}
<1>1. Base(d.spec) # 10 /\ m # 0
  BY DEF Prefixed
<1>2. ~IsSigned(d)
  BY <1>1, BaseFacts10 DEF IsSigned, TakesInteger
<1>3. SignText(d, FALSE) = << >>
  BY <1>2 DEF SignText
<1>4. WidthFor(d, << >>) = d.width
  BY DEF WidthFor
<1>5. Base(d.spec) \in {2, 8, 16}
  BY <1>1, BaseFacts10 DEF TakesInteger, Bases
<1>6. FlagsFor(d, m) = IntegerFlags(d)
  BY <1>1 DEF FlagsFor
<1>7. QED  BY <1>2, <1>3, <1>4, <1>5, <1>6

LEMMA CodePrefixed ==
  ASSUME NEW d, TakesInteger(d), NEW m, NEW n, NEW D, IsNumber(d, m, n, D),
         NEW j, NEW y, InBuffer(d, m, n, FALSE, j, y), Prefixed(d, m),
         NEW l, Totals(l, j, y), NEW flags, flags = IntegerFlags(d)
  PROVE  \E s : /\ Shortened(s, D, j, y, l, Dropped(l, Base(d.spec), d.prec, d.width, flags),
                             Base(d.spec), flags)
                /\ Converting(d, m, FALSE) = Out(s, d.width, flags)
<1>1. /\ Converting(d, m, FALSE) = Prepared(d, m, FALSE, Back(D, j, y, << >>))
      /\ j \in Nat /\ y \in Nat /\ j + y <= PRINTF_NTOA_BUFFER_SIZE
  BY PreparedDigits
<1>2. PICK b \in {2, 8, 16} : b = Base(d.spec)
  BY PrefixedIsUnsigned
<1>3. PICK prec \in Nat, w \in Nat : prec = d.prec /\ w = d.width
  BY DEF TakesInteger
<1>4. PICK buf : buf = Back(D, j, y, << >>)
  OBVIOUS
<1>5. PICK x : x = PutPrefix(buf, b, prec, w, flags)
  OBVIOUS
<1>6. "HASH" \in flags /\ "PLUS" \notin flags /\ "SPACE" \notin flags
  BY PrefixedIsUnsigned, FlagsForFacts, FlagsKept
<1>7. l <= PRINTF_NTOA_BUFFER_SIZE
  BY <1>1 DEF Totals
<1>10. Shortened(x, D, j, y, l, Dropped(l, b, prec, w, flags), b, flags)
  BY <1>1, <1>4, <1>5, <1>6, <1>7, PrefixedBack
<1>11. Prepared(d, m, FALSE, buf) = out_rev(PutSign(x, FALSE, flags), w, flags)
  BY <1>3, PrefixedIsUnsigned, <1>2, <1>5 DEF Prepared
<1>12. PutSign(x, FALSE, flags) = x
  BY <1>6 DEF PutSign
<1>13. IsText(x)
  BY <1>1, <1>4, PlainText, <1>5, PrefixedIsText
<1>14. out_rev(x, w, flags) = Out(x, d.width, flags)
  BY <1>3, PrefixedIsUnsigned, <1>13, OutText
<1>15. Converting(d, m, FALSE) = Out(x, d.width, flags)
  BY <1>1, <1>4, <1>11, <1>12, <1>14
<1>16. QED  BY <1>2, <1>3, <1>10, <1>15
-----------------------------------------------------------------------------
(* What C prescribes. *)

LEMMA JoinTwice ==
  ASSUME NEW a, NEW b, NEW c, IsText(a), IsText(b), IsText(c)
  PROVE  (a \o b) \o c = a \o (b \o c)
<1>1. PICK S : S = {a[i] : i \in 1..Len(a)} \cup {b[i] : i \in 1..Len(b)}
                   \cup {c[i] : i \in 1..Len(c)}
  OBVIOUS
<1>2. a \in Seq(S)
  BY <1>1 DEF IsText
<1>3. b \in Seq(S)
  BY <1>1 DEF IsText
<1>4. c \in Seq(S)
  BY <1>1 DEF IsText
<1>5. QED  BY <1>2, <1>3, <1>4, ConcatAssociative

(* A character in front of others comes last in the reversed text. *)
LEMMA OneReversed ==
  ASSUME NEW c PROVE Reversed(<<c>>) = <<c>>
<1>1. PICK s : s = <<c>>
  OBVIOUS
<1>2. IsText(s) /\ Len(s) = 1 /\ s[1] = c
  BY <1>1, OneIsText
<1>3. PICK r : r = Reversed(s)
  OBVIOUS
<1>4. IsText(r) /\ Len(r) = 1 /\ \A i \in 1..1 : r[i] = s[(1 + 1) - i]
  BY <1>2, <1>3, ReversedElements
<1>5. r[1] = c
  BY <1>2, <1>4
<1>6. r = <<c>>
  BY <1>2, <1>5, <1>4, EqualTexts, <1>1
<1>7. QED  BY <1>1, <1>3, <1>6

LEMMA NothingReversed == Reversed(<< >>) = << >>
<1>1. PICK s : s = << >>
  OBVIOUS
<1>2. IsText(s) /\ Len(s) = 0
  BY <1>1, EmptyIsText
<1>3. PICK r : r = Reversed(s)
  OBVIOUS
<1>4. IsText(r) /\ Len(r) = 0
  BY <1>2, <1>3, ReversedElements
<1>5. s = r
  BY <1>2, <1>4, EqualTexts
<1>6. QED  BY <1>1, <1>3, <1>5

LEMMA TwoReversed ==
  ASSUME NEW a, NEW b PROVE Reversed(<<a, b>>) = <<b, a>>
<1>1. PICK s, t : s = <<a, b>> /\ t = <<b, a>>
  OBVIOUS
<1>2. IsText(s) /\ Len(s) = 2 /\ s[1] = a /\ s[2] = b
  <2>1. s \in Seq({a, b}) /\ Len(s) = 2 /\ s[1] = a /\ s[2] = b
    BY <1>1
  <2>2. QED  BY <2>1, SeqIsText
<1>3. IsText(t) /\ Len(t) = 2 /\ t[1] = b /\ t[2] = a
  <2>1. t \in Seq({a, b}) /\ Len(t) = 2 /\ t[1] = b /\ t[2] = a
    BY <1>1
  <2>2. QED  BY <2>1, SeqIsText
<1>4. PICK r : r = Reversed(s)
  OBVIOUS
<1>5. IsText(r) /\ Len(r) = 2 /\ \A i \in 1..2 : r[i] = s[(2 + 1) - i]
  <2>1. /\ IsText(r) /\ Len(r) = Len(s)
        /\ \A i \in 1..Len(s) : r[i] = s[Len(s) + 1 - i]
    BY <1>2, <1>4, ReversedElements
  <2>2. PICK n : n = Len(s)
    OBVIOUS
  <2>3. n = 2 /\ Len(r) = n /\ \A i \in 1..n : r[i] = s[n + 1 - i]
    BY <1>2, <2>1, <2>2
  <2>4. QED  BY <2>1, <2>3
<1>6. r[1] = b /\ r[2] = a
  BY <1>5, <1>2
<1>7. \A i \in 1..Len(r) : r[i] = t[i]
  BY <1>3, <1>5, <1>6
<1>8. r = t
  BY <1>3, <1>5, <1>7, EqualTexts
<1>9. QED  BY <1>1, <1>4, <1>8

(* The parts of CNumber. *)
CPadded(d, arg) ==
  Repeat("0", AtLeast(d.prec - Len(CDigitsOf(d, arg)), 0)) \o CDigitsOf(d, arg)

CBody(d, arg) ==
  IF "HASH" \in d.flags /\ d.spec = "o" /\ (CPadded(d, arg) = << >> \/ CPadded(d, arg)[1] # "0")
  THEN <<"0">> \o CPadded(d, arg) ELSE CPadded(d, arg)

CFront(d, arg) ==
  LET v == CValue(d, arg)
      has(f) == f \in d.flags
  IN  CASE v < 0 -> <<"-">>
        [] d.spec \in {"d", "i"} /\ v >= 0 /\ has("PLUS") -> <<"+">>
        [] d.spec \in {"d", "i"} /\ v >= 0 /\ has("SPACE") /\ ~has("PLUS") -> <<"SP">>
        [] has("HASH") /\ v # 0 /\ d.spec \in {"x", "X", "b"} -> <<"0", d.spec>>
        [] OTHER -> << >>

ZeroPadded(d) == "ZEROPAD" \in IntegerFlags(d) /\ "LEFT" \notin IntegerFlags(d)

CZeros(d, l) == IF ZeroPadded(d) THEN AtLeast(d.width - l, 0) ELSE 0

LEMMA CNumberParts ==
  ASSUME NEW d, TakesInteger(d), NEW arg
  PROVE  CNumber(d, arg)
           = CFront(d, arg) \o Repeat("0", CZeros(d, Len(CFront(d, arg) \o CBody(d, arg))))
             \o CBody(d, arg)
<1>1. ZeroPadded(d) <=> "ZEROPAD" \in d.flags /\ "LEFT" \notin d.flags /\ "PRECISION" \notin d.flags
  BY FlagsKept DEF ZeroPadded
<1>2. CNumber(d, arg) =
        CFront(d, arg)
        \o Repeat("0", IF "ZEROPAD" \in d.flags /\ ~("LEFT" \in d.flags) /\ ~("PRECISION" \in d.flags)
                       THEN AtLeast(d.width - Len(CFront(d, arg) \o CBody(d, arg)), 0) ELSE 0)
        \o CBody(d, arg)
  BY Zenon DEF CNumber, CFront, CBody, CPadded
<1>3. QED  BY <1>1, <1>2 DEF CZeros

(* Digits and zeros, one kind after the other, behind a front. *)
IsNumberText(f, h, k, y, l, z, zeros) ==
  HasLen(f, h) /\ l = h + (k + y) /\ z = y + zeros

LEMMA CNumberBack ==
  ASSUME NEW d, TakesInteger(d), NEW arg, NEW D, NEW k \in Nat, NEW y \in Nat, NEW f, NEW h,
         CFront(d, arg) = Reversed(f), CBody(d, arg) = Reversed(Back(D, k, y, << >>)),
         NEW l, NEW z, IsNumberText(f, h, k, y, l, z, CZeros(d, l))
  PROVE  CNumber(d, arg) = Reversed(Back(D, k, z, f)) /\ z \in Nat
<1>1. IsText(f) /\ Len(f) = h /\ h \in Nat /\ l = h + (k + y) /\ l \in Nat
  BY DEF IsNumberText, HasLen, IsText
<1>2. PICK front, body : front = Reversed(f) /\ body = Reversed(Back(D, k, y, << >>))
  OBVIOUS
<1>3. IsText(front) /\ Len(front) = h
  BY <1>1, <1>2, ReversedElements
<1>4. IsText(body) /\ Len(body) = k + y
  <2>1. PICK s : s = Back(D, k, y, << >>)
    OBVIOUS
  <2>2. IsText(s) /\ Len(s) = k + y
    BY <2>1, PlainText
  <2>3. QED  BY <1>2, <2>1, <2>2, ReversedElements
<1>5. Len(front \o body) = l
  BY <1>3, <1>4, Joined, <1>1 DEF Joins
<1>6. PICK n : n = CZeros(d, l)
  OBVIOUS
<1>7. n \in Nat /\ z = y + n
  BY <1>1, <1>6 DEF CZeros, AtLeast, TakesInteger, IsNumberText
<1>8. CNumber(d, arg) = (front \o Repeat("0", n)) \o body
  BY <1>2, <1>5, <1>6, CNumberParts
<1>9. (front \o Repeat("0", n)) \o body = front \o (Repeat("0", n) \o body)
  <2>1. PICK r : r = Repeat("0", n)
    OBVIOUS
  <2>2. IsText(r)
    BY <1>7, <2>1, RepeatIsText
  <2>3. IsText(front) /\ IsText(body)
    BY <1>3, <1>4
  <2>4. (front \o r) \o body = front \o (r \o body)
    BY <2>2, <2>3, JoinTwice, SMTT(30)
  <2>5. QED  BY <2>1, <2>4
<1>10. Repeat("0", n) \o body = Reversed(Back(D, k, z, << >>))
  BY <1>2, <1>7, ZerosBefore
<1>11. z \in Nat
  BY <1>7
<1>12. front \o Reversed(Back(D, k, z, << >>)) = Reversed(Back(D, k, z, f))
  <2>1. Reversed(f) \o Reversed(Back(D, k, z, << >>)) = Reversed(Back(D, k, z, f))
    <3>1. IsText(f)
      BY <1>1
    <3>2. QED  BY <1>11, <3>1, FrontBefore
  <2>2. QED  BY <1>2, <2>1
<1>13. QED  BY <1>8, <1>9, <1>10, <1>11, <1>12

(* The digits with the zeros of the precision: zero has no digit of its    *)
(* own if there is a precision.                                            *)
Digitless(d, m) == "PRECISION" \in d.flags /\ d.prec = 0 /\ m = 0

LEMMA CDigitsOfBack ==
  ASSUME NEW d, TakesInteger(d), NEW arg, NEW m, m = CMagnitude(d, arg),
         NEW n, NEW D, IsNumber(d, m, n, D)
  PROVE  /\ ~Digitless(d, m) => /\ CDigitsOf(d, arg) = Reversed(Back(D, n, 0, << >>))
                                /\ Len(CDigitsOf(d, arg)) = n
         /\ Digitless(d, m) => CDigitsOf(d, arg) = Reversed(Back(D, 0, 0, << >>))
<1>1. PICK b, upper : b = Base(d.spec) /\ upper = (d.spec = "X")
  OBVIOUS
<1>2. upper \in BOOLEAN /\ HasDigits(m, b, n) /\ D = Digits(m, b, upper) /\ n \in Nat \ {0}
  BY <1>1 DEF IsNumber
<1>3. CDigitsOf(d, arg) = IF Digitless(d, m) THEN << >> ELSE CDigits(m, b, upper)
  BY <1>1 DEF CDigitsOf, Digitless
<1>4. CDigits(m, b, upper) = Reversed(Back(D, n, 0, << >>))
  BY <1>2, CDigitsBack
<1>5. Len(Reversed(Back(D, n, 0, << >>))) = n
  <2>1. PICK s : s = Back(D, n, 0, << >>)
    OBVIOUS
  <2>2. IsText(s) /\ Len(s) = n + 0
    BY <1>2, <2>1, PlainText
  <2>3. Len(Reversed(s)) = n
    BY <1>2, <2>2, ReversedElements
  <2>4. QED  BY <2>1, <2>3
<1>6. << >> = Reversed(Back(D, 0, 0, << >>))
  BY NothingBack, NothingReversed
<1>7. QED  BY <1>3, <1>4, <1>5, <1>6

LEMMA CPaddedBack ==
  ASSUME NEW d, TakesInteger(d), NEW arg, NEW m, m = CMagnitude(d, arg),
         NEW n, NEW D, IsNumber(d, m, n, D),
         NEW k, k = Shown(d, m, n), NEW y, y = AtLeast(d.prec - k, 0)
  PROVE  CPadded(d, arg) = Reversed(Back(D, k, y, << >>)) /\ k \in Nat /\ y \in Nat
<1>1. PICK p \in Nat : p = d.prec
  BY DEF TakesInteger
<1>2. k \in Nat /\ n \in Nat \ {0} /\ y \in Nat
  BY <1>1 DEF IsNumber, Shown, AtLeast
<1>3. PICK c \in Nat : c = IF Digitless(d, m) THEN 0 ELSE n
  BY <1>2
<1>4. CDigitsOf(d, arg) = Reversed(Back(D, c, 0, << >>)) /\ Len(CDigitsOf(d, arg)) = c
  <2>1. CASE ~Digitless(d, m)
    BY <1>3, <2>1, CDigitsOfBack
  <2>2. CASE Digitless(d, m)
    BY <1>3, <2>2, CDigitsOfBack, NothingBack, NothingReversed, EmptyIsText
  <2>3. QED  BY <2>1, <2>2
<1>5. PICK x \in Nat : x = AtLeast(p - c, 0)
  BY <1>1, <1>3 DEF AtLeast
<1>6. CPadded(d, arg) = Reversed(Back(D, c, x, << >>))
  <2>1. CPadded(d, arg) = Repeat("0", x) \o Reversed(Back(D, c, 0, << >>))
    BY <1>1, <1>4, <1>5 DEF CPadded
  <2>2. Repeat("0", x) \o Reversed(Back(D, c, 0, << >>)) = Reversed(Back(D, c, 0 + x, << >>))
    <3>1. c \in Nat /\ 0 \in Nat /\ x \in Nat
      BY <1>3, <1>5
    <3>2. QED  BY <3>1, ZerosBefore
  <2>3. 0 + x = x
    BY <1>5
  <2>4. QED  BY <2>1, <2>2, <2>3
<1>7. Back(D, c, x, << >>) = Back(D, k, y, << >>)
  <2>1. CASE c = k
    BY <1>1, <1>5, <2>1
  <2>2. CASE c # k
    <3>1. "PRECISION" \in d.flags /\ m = 0 /\ p # 0 /\ c = n /\ k = 0
      BY <1>1, <1>3, <2>2 DEF Shown, Digitless
    <3>2. c = 1 /\ D[1] = "0"
      BY <3>1 DEF IsNumber
    <3>3. y = p /\ x = p - 1 /\ y = x + 1
      BY <1>1, <1>5, <3>1, <3>2 DEF AtLeast
    <3>4. Back(D, 1, x, << >>) = Back(D, 0, x + 1, << >>)
      BY <3>2, ZeroIsDigit
    <3>5. QED  BY <3>1, <3>2, <3>3, <3>4
  <2>3. QED  BY <2>1, <2>2
<1>8. QED  BY <1>2, <1>6, <1>7

(* The first character of a number without a front. *)
LEMMA FirstOfBack ==
  ASSUME NEW D, NEW k \in Nat, NEW y \in Nat
  PROVE  LET s == Reversed(Back(D, k, y, << >>))
         IN  /\ k + y = 0 => s = << >>
             /\ k + y > 0 => s # << >> /\ s[1] = IF y > 0 THEN "0" ELSE D[k]
<1>1. PICK n \in Nat : n = k + y
  OBVIOUS
<1>2. PICK t : t = Back(D, k, y, << >>)
  OBVIOUS
<1>3. IsText(t) /\ Len(t) = n
  BY <1>1, <1>2, PlainText
<1>4. PICK s : s = Reversed(t)
  OBVIOUS
<1>5. IsText(s) /\ Len(s) = n /\ (n > 0 => s[1] = t[n])
  <2>1. /\ IsText(s) /\ Len(s) = Len(t)
        /\ \A i \in 1..Len(t) : s[i] = t[Len(t) + 1 - i]
    BY <1>3, <1>4, ReversedElements
  <2>2. Len(s) = n /\ \A i \in 1..n : s[i] = t[n + 1 - i]
    BY <1>3, <2>1
  <2>3. n > 0 => 1 \in 1..n /\ n + 1 - 1 = n
    OBVIOUS
  <2>4. n > 0 => s[1] = t[n]
    BY <2>2, <2>3
  <2>5. QED  BY <2>1, <2>2, <2>4
<1>6. CASE n = 0
  <2>1. s = << >>
    <3>1. PICK e : e = << >>
      OBVIOUS
    <3>2. IsText(e) /\ Len(e) = 0
      BY <3>1, EmptyIsText
    <3>3. s = e
      BY <1>5, <1>6, <3>2, EqualTexts
    <3>4. QED  BY <3>1, <3>3
  <2>2. QED  BY <1>1, <1>2, <1>4, <1>6, <2>1
<1>7. CASE n > 0
  <2>1. s # << >>
    BY <1>5, <1>7, EmptyIsText
  <2>2. Reads(t, n, D, k, y, << >>)
    BY <1>1, <1>2, PlainReads
  <2>3. n \in 1..n
    BY <1>7
  <2>4. /\ n <= k => t[n] = D[n]
        /\ k < n /\ n <= k + y => t[n] = "0"
    BY <2>2, <2>3 DEF Reads
  <2>5. t[n] = IF y > 0 THEN "0" ELSE D[k]
    BY <1>1, <2>4
  <2>6. QED  BY <1>1, <1>2, <1>4, <1>5, <1>7, <2>1, <2>5
<1>8. QED  BY <1>6, <1>7

LEMMA CFrontSign ==
  ASSUME NEW d, TakesInteger(d), NEW arg \in Int, NEW m, m = CMagnitude(d, arg),
         ~Prefixed(d, m) \/ d.spec = "o",
         NEW negative \in BOOLEAN, negative = (CValue(d, arg) < 0)
  PROVE  CFront(d, arg) = Reversed(SignText(d, negative))
<1>1. PICK v \in Int : v = CValue(d, arg)
  BY MagnitudeFacts
<1>2. (m = 0 <=> v = 0) /\ (v < 0 => IsSigned(d))
  BY <1>1, MagnitudeFacts
<1>3. ~(("HASH" \in d.flags) /\ v # 0 /\ d.spec \in {"x", "X", "b"})
  <2> SUFFICES ASSUME "HASH" \in d.flags, v # 0, d.spec \in {"x", "X", "b"} PROVE FALSE
    OBVIOUS
  <2>1. Base(d.spec) # 10
    BY BaseFacts10 DEF TakesInteger
  <2>2. Prefixed(d, m)
    BY <1>2, <2>1 DEF Prefixed
  <2>3. QED  BY <2>2
<1>4. PICK plus, space : plus = ("PLUS" \in d.flags) /\ space = ("SPACE" \in d.flags)
  OBVIOUS
<1>5. CFront(d, arg) = SignText(d, negative)
  <2>1. CFront(d, arg) =
          CASE v < 0 -> <<"-">>
            [] IsSigned(d) /\ v >= 0 /\ "PLUS" \in d.flags -> <<"+">>
            [] IsSigned(d) /\ v >= 0 /\ "SPACE" \in d.flags /\ ~("PLUS" \in d.flags) -> <<"SP">>
            [] "HASH" \in d.flags /\ v # 0 /\ d.spec \in {"x", "X", "b"} -> <<"0", d.spec>>
            [] OTHER -> << >>
    BY <1>1, Zenon DEF CFront, IsSigned
  <2>2. negative <=> v < 0
    BY <1>1
  <2>3. v >= 0 <=> ~(v < 0)
    BY <1>1
  <2>4. CASE v < 0
    BY <2>1, <2>3, <2>4, <1>3, <2>2 DEF SignText
  <2>5. CASE ~(v < 0) /\ IsSigned(d) /\ "PLUS" \in d.flags
    BY <1>3, <2>1, <2>3, <2>5, <2>2 DEF SignText
  <2>6. CASE ~(v < 0) /\ IsSigned(d) /\ "PLUS" \notin d.flags /\ "SPACE" \in d.flags
    BY <1>3, <2>1, <2>3, <2>6, <2>2 DEF SignText
  <2>7. CASE ~(v < 0) /\ ~(IsSigned(d) /\ ("PLUS" \in d.flags \/ "SPACE" \in d.flags))
    BY <1>3, <2>1, <2>3, <2>7, <2>2 DEF SignText
  <2>8. QED  BY <2>4, <2>5, <2>6, <2>7
<1>6. Reversed(SignText(d, negative)) = SignText(d, negative)
  <2>1. PICK c : SignText(d, negative) \in {<< >>, <<c>>}
    BY SignFacts
  <2>2. QED  BY <2>1, OneReversed, NothingReversed
<1>7. QED  BY <1>5, <1>6

LEMMA CFrontLetter ==
  ASSUME NEW d, TakesInteger(d), NEW arg \in Int, NEW m, m = CMagnitude(d, arg),
         Prefixed(d, m), d.spec # "o"
  PROVE  /\ CFront(d, arg) = Reversed(<<Letter(Base(d.spec), IntegerFlags(d)), "0">>)
         /\ Base(d.spec) \in {2, 16}
<1>1. PICK v \in Int : v = CValue(d, arg)
  BY MagnitudeFacts
<1>2. (m = 0 <=> v = 0) /\ (v < 0 => IsSigned(d))
  BY <1>1, MagnitudeFacts
<1>3. "HASH" \in d.flags /\ m # 0 /\ ~IsSigned(d) /\ Base(d.spec) \in {2, 8, 16}
  BY PrefixedIsUnsigned DEF Prefixed
<1>4. d.spec \in {"x", "X", "b"} /\ Base(d.spec) \in {2, 16}
  BY BaseFacts10, <1>3 DEF TakesInteger
<1>5. CFront(d, arg) = <<"0", d.spec>>
  <2>1. CFront(d, arg) =
          CASE v < 0 -> <<"-">>
            [] IsSigned(d) /\ v >= 0 /\ "PLUS" \in d.flags -> <<"+">>
            [] IsSigned(d) /\ v >= 0 /\ "SPACE" \in d.flags /\ ~("PLUS" \in d.flags) -> <<"SP">>
            [] "HASH" \in d.flags /\ v # 0 /\ d.spec \in {"x", "X", "b"} -> <<"0", d.spec>>
            [] OTHER -> << >>
    BY <1>1, Zenon DEF CFront, IsSigned
  <2>2. ~(v < 0) /\ v # 0
    BY <1>2, <1>3
  <2>3. QED  BY <1>3, <1>4, <2>1, <2>2
<1>6. Letter(Base(d.spec), IntegerFlags(d)) = d.spec
  BY FlagsKept, BaseFacts10, <1>4 DEF TakesInteger, Letter
<1>7. Reversed(<<d.spec, "0">>) = <<"0", d.spec>>
  BY TwoReversed
<1>8. QED  BY <1>4, <1>5, <1>6, <1>7

(* C's octal prefix stands in front of no zero, and of nothing. *)
LEMMA CBodyPlain ==
  ASSUME NEW d, TakesInteger(d), NEW arg, NEW m, m = CMagnitude(d, arg),
         NEW n, NEW D, IsNumber(d, m, n, D),
         NEW k, k = Shown(d, m, n), NEW y, y = AtLeast(d.prec - k, 0),
         ~("HASH" \in d.flags /\ d.spec = "o" /\ (m # 0 \/ Digitless(d, m)))
  PROVE  CBody(d, arg) = Reversed(Back(D, k, y, << >>))
<1>1. CPadded(d, arg) = Reversed(Back(D, k, y, << >>)) /\ k \in Nat /\ y \in Nat
  BY CPaddedBack
<1>2. CASE ~("HASH" \in d.flags /\ d.spec = "o")
  BY <1>1, <1>2 DEF CBody
<1>3. CASE "HASH" \in d.flags /\ d.spec = "o"
  <2>1. m = 0 /\ ~Digitless(d, m)
    BY <1>3
  <2>2. n = 1 /\ D[1] = "0"
    BY <2>1 DEF IsNumber
  <2>3. CASE k = 0
    <3>1. d.prec # 0 /\ d.prec \in Nat
      BY <2>1, <2>2, <2>3 DEF Shown, Digitless, TakesInteger
    <3>2. y > 0
      BY <2>3, <3>1 DEF AtLeast
    <3>3. k + y > 0
      BY <1>1, <3>2
    <3>4. CPadded(d, arg) # << >> /\ CPadded(d, arg)[1] = "0"
      BY <1>1, <3>2, <3>3, FirstOfBack
    <3>5. QED  BY <1>1, <3>4 DEF CBody
  <2>4. CASE k # 0
    BY <2>2, <2>4, <1>1, FirstOfBack DEF Shown, CBody
  <2>5. QED  BY <2>3, <2>4
<1>4. QED  BY <1>2, <1>3

LEMMA OneZero ==
  ASSUME NEW D, NEW k \in Nat
  PROVE  <<"0">> \o Reversed(Back(D, k, 0, << >>)) = Reversed(Back(D, k, 1, << >>))
<1>1. <<"0">> = Repeat("0", 1)
  <2>1. PICK r, s : r = Repeat("0", 1) /\ s = <<"0">>
    OBVIOUS
  <2>2. IsText(r) /\ Len(r) = 1 /\ \A i \in 1..1 : r[i] = "0"
    BY <2>1, RepeatElements
  <2>3. IsText(s) /\ Len(s) = 1 /\ s[1] = "0"
    BY <2>1, OneIsText
  <2>4. \A i \in 1..Len(s) : s[i] = r[i]
    BY <2>2, <2>3
  <2>5. s = r
    BY <2>2, <2>3, <2>4, EqualTexts
  <2>6. QED  BY <2>1, <2>5
<1>2. PICK none \in Nat, one \in Nat : none = 0 /\ one = 1
  OBVIOUS
<1>3. Repeat("0", one) \o Reversed(Back(D, k, none, << >>))
        = Reversed(Back(D, k, none + one, << >>))
  <2>1. none \in Nat /\ one \in Nat
    BY <1>2
  <2>2. QED  BY <2>1, ZerosBefore
<1>4. none + one = 1
  BY <1>2
<1>5. QED  BY <1>1, <1>2, <1>3, <1>4

LEMMA CBodyOctal ==
  ASSUME NEW d, TakesInteger(d), NEW arg, NEW m, m = CMagnitude(d, arg),
         NEW n, NEW D, IsNumber(d, m, n, D), NEW x, x = AtLeast(d.prec - n, 0),
         NEW y, y = (IF x = 0 THEN 1 ELSE x), Prefixed(d, m), d.spec = "o"
  PROVE  CBody(d, arg) = Reversed(Back(D, n, y, << >>))
<1>1. "HASH" \in d.flags /\ m # 0
  BY DEF Prefixed
<1>2. n \in Nat \ {0} /\ D[n] # "0"
  BY <1>1 DEF IsNumber
<1>3. n = Shown(d, m, n)
  BY <1>1 DEF Shown
<1>4. CPadded(d, arg) = Reversed(Back(D, n, x, << >>)) /\ x \in Nat
  BY <1>3, CPaddedBack
<1>5. CASE x = 0
  <2>1. n + x > 0 /\ ~(x > 0)
    BY <1>2, <1>5
  <2>2. CPadded(d, arg)[1] = D[n]
    BY <1>2, <1>4, <2>1, FirstOfBack
  <2>3. CBody(d, arg) = <<"0">> \o CPadded(d, arg)
    BY <1>1, <1>2, <2>2 DEF CBody
  <2>4. CPadded(d, arg) = Reversed(Back(D, n, 0, << >>))
    BY <1>4, <1>5
  <2>5. <<"0">> \o Reversed(Back(D, n, 0, << >>)) = Reversed(Back(D, n, 1, << >>))
    BY <1>2, OneZero
  <2>6. QED  BY <1>5, <2>3, <2>4, <2>5
<1>6. CASE x # 0
  BY <1>2, <1>4, <1>6, FirstOfBack DEF CBody
<1>7. QED  BY <1>5, <1>6

LEMMA CodeInteger ==
  ASSUME NEW d, NEW arg \in Int, NEW m, m = CMagnitude(d, arg),
         NEW negative, negative = (CValue(d, arg) < 0)
  PROVE  IntegerText(d, arg) = Converting(d, m, negative)
<1>1. PICK v, bits : v = CValue(d, arg) /\ bits = BitsOf(d.flags)
  OBVIOUS
<1>2. Magnitude(v, bits) = m
  BY <1>1, MagnitudeFacts
<1>3. IntegerText(d, arg) =
        IF "LONG_LONG" \in d.flags
        THEN ntoa_long_long(Magnitude(v, bits), v < 0, Base(d.spec), d.prec, d.width, IntegerFlags(d))
        ELSE ntoa_long(Magnitude(v, bits), v < 0, Base(d.spec), d.prec, d.width, IntegerFlags(d))
  BY <1>1 DEF IntegerText, CValue
<1>4. negative = (v < 0)
  BY <1>1
<1>5. QED  BY <1>2, <1>3, <1>4 DEF ntoa_long_long, Converting

LEMMA CTextIs ==
  ASSUME NEW d, TakesInteger(d), NEW arg, NEW t, IsText(t), CNumber(d, arg) = Reversed(t)
  PROVE  CText(d, arg) = IF "LEFT" \in d.flags THEN OnLeft(t, d.width) ELSE OnRight(t, d.width)
  BY JustifiedText DEF CText, TakesInteger, IntegerSpecs
-----------------------------------------------------------------------------
(* The exceptions, by what they say of the number. *)

LEMMA CutIs ==
  ASSUME NEW d, NEW arg, NEW t, IsText(t), CNumber(d, arg) = Reversed(t), NEW size, size = Len(t)
  PROVE  CutToBuffer(d, arg) <=>
           /\ size > PRINTF_NTOA_BUFFER_SIZE
           /\ ~(/\ size = PRINTF_NTOA_BUFFER_SIZE + 1 /\ t[size] = "SP"
                /\ d.width > PRINTF_NTOA_BUFFER_SIZE
                /\ "LEFT" \notin IntegerFlags(d) /\ "ZEROPAD" \notin IntegerFlags(d))
<1>1. PICK b \in Nat \ {0} : b = PRINTF_NTOA_BUFFER_SIZE
  BY Numbers
<1>2. PICK r : r = Reversed(t)
  OBVIOUS
<1>3. size \in Nat /\ Len(r) = size /\ (size > 0 => r[1] = t[size])
  <2>1. size \in Nat
    BY DEF IsText
  <2>2. /\ IsText(r) /\ Len(r) = Len(t)
        /\ \A i \in 1..Len(t) : r[i] = t[Len(t) + 1 - i]
    BY <1>2, ReversedElements
  <2>3. Len(r) = size /\ \A i \in 1..size : r[i] = t[size + 1 - i]
    BY <2>2
  <2>4. size > 0 => 1 \in 1..size /\ size + 1 - 1 = size
    BY <2>1
  <2>5. size > 0 => r[1] = t[size]
    BY <2>3, <2>4
  <2>6. QED  BY <2>1, <2>3, <2>5
<1>4. PICK f : f = IntegerFlags(d)
  OBVIOUS
<1>5. {"LEFT", "ZEROPAD"} \cap f = {} <=> "LEFT" \notin f /\ "ZEROPAD" \notin f
  OBVIOUS
<1>6. size > b => size > 0
  BY <1>1, <1>3
<1>7. CutToBuffer(d, arg) <=>
        /\ Len(r) > b
        /\ ~(/\ Len(r) = b + 1 /\ r[1] = "SP" /\ d.width > b
             /\ {"LEFT", "ZEROPAD"} \cap f = {})
  BY <1>1, <1>2, <1>4 DEF CutToBuffer
<1>8. QED  BY <1>1, <1>3, <1>4, <1>5, <1>6, <1>7

LEMMA PlainExceptional ==
  ASSUME NEW d, TakesInteger(d), NEW arg, NEW m, m = CMagnitude(d, arg),
         NEW n, NEW D, IsNumber(d, m, n, D), NEW k, k = Shown(d, m, n), ~Prefixed(d, m),
         ~(d.spec = "o" /\ "HASH" \in d.flags /\ Digitless(d, m))
  PROVE  Exceptional(d, arg) <=>
           \/ CutToBuffer(d, arg)
           \/ "LEFT" \in d.flags /\ "PRECISION" \in d.flags /\ d.prec > k
<1>1. n \in Nat \ {0} /\ d.spec \in IntegerSpecs
  BY DEF IsNumber, TakesInteger
<1>2. ~DigitsLostToPrefix(d, arg)
  BY DEF DigitsLostToPrefix, Prefixed
<1>3. ~BinaryOneTooWide(d, arg)
  <2> SUFFICES ASSUME BinaryOneTooWide(d, arg) PROVE FALSE
    OBVIOUS
  <2>1. d.spec = "b" /\ m # 0
    BY DEF BinaryOneTooWide
  <2>2. PICK c : c = d.flags
    OBVIOUS
  <2>3. {"HASH", "LEFT", "ZEROPAD", "PRECISION"} \cap c = {"HASH", "ZEROPAD"}
    BY <2>2 DEF BinaryOneTooWide
  <2>4. "HASH" \in c
    BY <2>3
  <2>5. Base(d.spec) # 10
    BY <1>1, <2>1, BaseFacts10
  <2>6. QED  BY <2>1, <2>2, <2>4, <2>5 DEF Prefixed
<1>4. ~OctalZero(d, arg)
  <2> SUFFICES ASSUME OctalZero(d, arg) PROVE FALSE
    OBVIOUS
  <2>1. PICK c : c = d.flags
    OBVIOUS
  <2>2. {"HASH", "PRECISION"} \subseteq c
    BY <2>1 DEF OctalZero
  <2>3. "HASH" \in c /\ "PRECISION" \in c
    BY <2>2
  <2>4. d.spec = "o" /\ (m # 0 \/ (d.prec = 0 /\ m = 0))
    BY DEF OctalZero
  <2>5. Base(d.spec) # 10
    BY <1>1, <2>4, BaseFacts10
  <2>6. QED  BY <2>1, <2>3, <2>4, <2>5 DEF Prefixed, Digitless
<1>5. PrecisionLostWhenLeft(d, arg) <=>
        "LEFT" \in d.flags /\ "PRECISION" \in d.flags /\ d.prec > k
  <2>1. PICK c : c = d.flags
    OBVIOUS
  <2>2. {"LEFT", "PRECISION"} \subseteq c <=> "LEFT" \in c /\ "PRECISION" \in c
    OBVIOUS
  <2>3. ~(d.spec = "o" /\ "HASH" \in c /\ m # 0)
    BY <1>1, BaseFacts10, <2>1 DEF Prefixed
  <2>4. m # 0 => Len(CDigitsOf(d, arg)) = n
    BY CDigitsOfBack DEF Digitless
  <2>5. PICK x : x = IF m = 0 THEN 0 ELSE Len(CDigitsOf(d, arg))
    OBVIOUS
  <2>6. x \in Nat /\ x + 0 = x
    BY <1>1, <2>4, <2>5
  <2>7. PrecisionLostWhenLeft(d, arg) <=> {"LEFT", "PRECISION"} \subseteq c /\ d.prec > x
    BY <2>1, <2>3, <2>5, <2>6 DEF PrecisionLostWhenLeft
  <2>8. "PRECISION" \in c => x = k
    BY <2>1, <2>4, <2>5 DEF Shown
  <2>9. QED  BY <2>1, <2>2, <2>7, <2>8
<1>6. QED  BY <1>1, <1>2, <1>3, <1>4, <1>5 DEF Exceptional

LEMMA PrefixedExceptional ==
  ASSUME NEW d, TakesInteger(d), NEW arg, NEW m, m = CMagnitude(d, arg),
         NEW n, NEW D, IsNumber(d, m, n, D), Prefixed(d, m),
         NEW left, left = ("LEFT" \in d.flags),
         NEW padded, padded = ("ZEROPAD" \in d.flags /\ ~left)
  PROVE  Exceptional(d, arg) <=>
           \/ CutToBuffer(d, arg)
           \/ IF "PRECISION" \in d.flags
              THEN \/ left /\ d.spec # "o" /\ d.prec > n
                   \/ left /\ d.spec = "o" /\ d.prec > n + 1
                   \/ ~left /\ d.spec = "o" /\ d.prec > n /\ d.prec < PRINTF_NTOA_BUFFER_SIZE
              ELSE \/ d.width = n
                   \/ Base(d.spec) = 16 /\ d.width = n + 1 /\ padded
                   \/ d.spec = "b" /\ padded /\ d.width > n + 1
<1>1. n \in Nat \ {0} /\ d.spec \in IntegerSpecs /\ m # 0 /\ "HASH" \in d.flags /\ Base(d.spec) # 10
  BY DEF IsNumber, TakesInteger, Prefixed
<1>2. Len(CDigitsOf(d, arg)) = n
  BY <1>1, CDigitsOfBack DEF Digitless
<1>3. PICK c : c = d.flags
  OBVIOUS
<1>4. PICK precise : precise = ("PRECISION" \in c)
  OBVIOUS
<1>5. {"LEFT", "PRECISION"} \subseteq c <=> left /\ precise
  BY <1>3, <1>4
<1>6. {"LEFT", "ZEROPAD"} \cap c = {"ZEROPAD"} <=> padded
  <2>1. {"LEFT", "ZEROPAD"} \cap c = {"ZEROPAD"} <=> "ZEROPAD" \in c /\ "LEFT" \notin c
    OBVIOUS
  <2>2. padded <=> "ZEROPAD" \in c /\ "LEFT" \notin c
    BY <1>3, Zenon
  <2>3. QED  BY <2>1, <2>2, Zenon
<1>7. {"HASH", "LEFT", "ZEROPAD", "PRECISION"} \cap c = {"HASH", "ZEROPAD"} <=> padded /\ ~precise
  <2>1. "HASH" \in c
    BY <1>1, <1>3
  <2>2. {"HASH", "LEFT", "ZEROPAD", "PRECISION"} \cap c = {"HASH", "ZEROPAD"}
          <=> "ZEROPAD" \in c /\ "LEFT" \notin c /\ "PRECISION" \notin c
    BY <2>1
  <2>3. padded <=> "ZEROPAD" \in c /\ "LEFT" \notin c
    BY <1>3, Zenon
  <2>4. precise <=> "PRECISION" \in c
    BY <1>4, Zenon
  <2>5. QED  BY <2>2, <2>3, <2>4, Zenon
<1>8. {"HASH", "PRECISION"} \subseteq c <=> precise
  BY <1>1, <1>3, <1>4
<1>9. PrecisionLostWhenLeft(d, arg) <=>
        left /\ precise /\ d.prec > n + (IF d.spec = "o" THEN 1 ELSE 0)
  BY <1>1, <1>2, <1>3, <1>5 DEF PrecisionLostWhenLeft
<1>10. DigitsLostToPrefix(d, arg) <=>
         ~precise /\ (d.width = n \/ (Base(d.spec) = 16 /\ d.width = n + 1 /\ padded))
  BY <1>1, <1>2, <1>3, <1>4, <1>6 DEF DigitsLostToPrefix
<1>11. BinaryOneTooWide(d, arg) <=> d.spec = "b" /\ padded /\ ~precise /\ d.width > n + 1
  BY <1>1, <1>2, <1>3, <1>7 DEF BinaryOneTooWide
<1>12. OctalZero(d, arg) <=>
         d.spec = "o" /\ precise /\ d.prec > n /\ d.prec < PRINTF_NTOA_BUFFER_SIZE /\ ~left
  BY <1>1, <1>2, <1>3, <1>8 DEF OctalZero
<1>13. n + 0 = n
  BY <1>1
<1>14. PrecisionLostWhenLeft(d, arg) <=>
         precise /\ ((left /\ d.spec # "o" /\ d.prec > n) \/ (left /\ d.spec = "o" /\ d.prec > n + 1))
  BY <1>9, <1>13
<1>15. QED
  BY <1>1, <1>3, <1>4, <1>10, <1>11, <1>12, <1>14 DEF Exceptional

(* An octal number that C writes as its prefix, and the code not at all.   *)
LEMMA DigitlessExceptional ==
  ASSUME NEW d, TakesInteger(d), NEW arg, NEW m, m = CMagnitude(d, arg),
         d.spec = "o", "HASH" \in d.flags, Digitless(d, m)
  PROVE  Exceptional(d, arg)
<1>1. PICK c : c = d.flags
  OBVIOUS
<1>2. "PRECISION" \in c /\ d.prec = 0 /\ m = 0
  BY <1>1 DEF Digitless
<1>3. {"HASH", "PRECISION"} \subseteq c
  BY <1>1, <1>2
<1>4. OctalZero(d, arg)
  BY <1>1, <1>2, <1>3 DEF OctalZero
<1>5. QED  BY <1>4 DEF Exceptional, TakesInteger
-----------------------------------------------------------------------------
(* Where the two texts are the same. *)

(* A number with a sign at most: what C writes, t, and what the code has   *)
(* in its buffer, s.                                                       *)
PlainTexts(d, k, f, h, z, w) ==
  /\ k \in Nat /\ z \in Nat /\ w \in Nat /\ w = d.width /\ h \in {0, 1} /\ HasLen(f, h)
  /\ ~ZeroPadded(d) => z = AtLeast(d.prec - k, 0)
  /\ ZeroPadded(d) => z = AtLeast(d.width - (h + k), 0)

SignParts(d, arg, m, n, negative, k, f, h) ==
  /\ negative \in BOOLEAN /\ negative = (CValue(d, arg) < 0)
  /\ k = Shown(d, m, n) /\ f = SignText(d, negative) /\ HasLen(f, h)

LEMMA PlainCNumber ==
  ASSUME NEW d, TakesInteger(d), NEW arg \in Int, NEW m, m = CMagnitude(d, arg),
         NEW n, NEW D, IsNumber(d, m, n, D), ~Prefixed(d, m),
         ~(d.spec = "o" /\ "HASH" \in d.flags /\ Digitless(d, m)),
         NEW negative, NEW k, NEW f, NEW h, SignParts(d, arg, m, n, negative, k, f, h)
  PROVE  \E z : PlainTexts(d, k, f, h, z, d.width) /\ CNumber(d, arg) = Reversed(Back(D, k, z, f))
<1>0. /\ negative \in BOOLEAN /\ negative = (CValue(d, arg) < 0)
      /\ k = Shown(d, m, n) /\ f = SignText(d, negative) /\ HasLen(f, h)
  BY DEF SignParts
<1>1. PICK w \in Nat, p \in Nat : w = d.width /\ p = d.prec
  BY DEF TakesInteger
<1>2. k \in Nat
  BY <1>0 DEF IsNumber, Shown
<1>3. PICK c : IsSign(f, c)
  BY <1>0, SignFacts DEF IsSign
<1>4. h \in {0, 1}
  BY <1>0, <1>3, EmptyIsText, OneIsText DEF IsSign, HasLen
<1>5. PICK y \in Nat : y = AtLeast(p - k, 0)
  BY <1>1, <1>2 DEF AtLeast
<1>6. CBody(d, arg) = Reversed(Back(D, k, y, << >>))
  <2>1. ~("HASH" \in d.flags /\ d.spec = "o" /\ (m # 0 \/ Digitless(d, m)))
    BY BaseFacts10 DEF TakesInteger, Prefixed
  <2>2. y = AtLeast(d.prec - k, 0)
    BY <1>1, <1>5
  <2>3. QED  BY <1>0, <2>1, <2>2, CBodyPlain
<1>7. CFront(d, arg) = Reversed(f)
  BY <1>0, CFrontSign
<1>8. PICK l \in Nat : l = h + (k + y)
  BY <1>2, <1>4, <1>5
<1>9. PICK z : z = y + CZeros(d, l)
  OBVIOUS
<1>10. IsNumberText(f, h, k, y, l, z, CZeros(d, l))
  BY <1>0, <1>8, <1>9 DEF IsNumberText
<1>11. CNumber(d, arg) = Reversed(Back(D, k, z, f)) /\ z \in Nat
  BY <1>2, <1>5, <1>6, <1>7, <1>10, CNumberBack
<1>12. CASE ~ZeroPadded(d)
  BY <1>5, <1>9, <1>12, <1>1, <1>2, <1>4, <1>11, <1>0 DEF CZeros, PlainTexts
<1>13. CASE ZeroPadded(d)
  <2>1. p = 0
    BY <1>1, <1>13, FlagsKept DEF ZeroPadded, TakesInteger
  <2>2. y = 0
    BY <1>2, <1>5, <2>1 DEF AtLeast
  <2>3. z = AtLeast(w - l, 0) /\ l = h + k
    BY <1>1, <1>2, <1>4, <1>8, <1>9, <1>13, <2>2 DEF CZeros, AtLeast
  <2>4. QED  BY <1>1, <1>2, <1>4, <1>11, <1>13, <1>0, <2>3 DEF PlainTexts
<1>14. QED  BY <1>12, <1>13

(* Cut, for such a number. *)
LEMMA PlainCut ==
  ASSUME NEW d, TakesInteger(d), NEW arg, NEW D, NEW k, NoBlanks(D, k), NEW f, NEW h, NEW z, NEW w,
         PlainTexts(d, k, f, h, z, w), NEW t, t = Back(D, k, z, f), CNumber(d, arg) = Reversed(t),
         NEW c, IsSign(f, c)
  PROVE  CutToBuffer(d, arg) <=>
           /\ k + z + h > PRINTF_NTOA_BUFFER_SIZE
           /\ ~(/\ k + z + h = PRINTF_NTOA_BUFFER_SIZE + 1 /\ f = <<"SP">>
                /\ w > PRINTF_NTOA_BUFFER_SIZE
                /\ "LEFT" \notin d.flags /\ ~ZeroPadded(d))
<1>1. k \in Nat /\ z \in Nat /\ w = d.width /\ h \in {0, 1} /\ HasLen(f, h)
  BY DEF PlainTexts
<1>2. PICK b \in Nat \ {0} : b = PRINTF_NTOA_BUFFER_SIZE
  BY Numbers
<1>3. PICK n : Totals(n, k, z) /\ n = k + z /\ n \in Nat
  BY <1>1 DEF Totals
<1>4. PICK e : Totals(e, n, h) /\ e = n + h /\ e \in Nat
  BY <1>1, <1>3 DEF Totals
<1>5. Solid(t, e, n, h, f)
  BY <1>1, <1>3, <1>4, Ends
<1>6. IsText(t) /\ Len(t) = e /\ (n > 0 => t[n] # "SP") /\ (h > 0 => t[e] = f[h])
  BY <1>5 DEF Solid
<1>7. h = 1 => f = <<c>> /\ f[1] = c
  <2>1. CASE f = << >>
    BY <1>1, <2>1, EmptyIsText DEF HasLen
  <2>2. CASE f = <<c>>
    BY <2>2
  <2>3. QED  BY <2>1, <2>2 DEF IsSign
<1>8. f = <<"SP">> => h = 1
  BY <1>1, OneIsText DEF HasLen
<1>9. e > b => (t[e] = "SP" <=> f = <<"SP">>)
  <2>1. CASE h = 0
    BY <1>3, <1>4, <1>8, <2>1, <1>2, <1>6
  <2>2. CASE h = 1
    BY <1>6, <1>7, <2>2
  <2>3. QED  BY <1>1, <2>1, <2>2
<1>10. CutToBuffer(d, arg) <=>
         /\ e > b
         /\ ~(/\ e = b + 1 /\ t[e] = "SP" /\ d.width > b
              /\ "LEFT" \notin IntegerFlags(d) /\ "ZEROPAD" \notin IntegerFlags(d))
  BY <1>2, <1>6, CutIs
<1>11. /\ "LEFT" \in IntegerFlags(d) <=> "LEFT" \in d.flags
       /\ "LEFT" \notin IntegerFlags(d) => (ZeroPadded(d) <=> "ZEROPAD" \in IntegerFlags(d))
  BY FlagsKept DEF ZeroPadded
<1>12. e = k + z + h
  BY <1>3, <1>4
<1>13. QED  BY <1>1, <1>2, <1>9, <1>10, <1>11, <1>12

LEMMA PlainAgrees ==
  ASSUME NEW d, TakesInteger(d), NEW arg \in Int, NEW m, m = CMagnitude(d, arg),
         NEW n, NEW D, IsNumber(d, m, n, D), ~Prefixed(d, m),
         ~(d.spec = "o" /\ "HASH" \in d.flags /\ Digitless(d, m))
  PROVE  IntegerText(d, arg) = CText(d, arg) <=> ~Exceptional(d, arg)
<1>1. PICK negative \in BOOLEAN : negative = (CValue(d, arg) < 0)
  <2>1. PICK v \in Int : v = CValue(d, arg)
    BY MagnitudeFacts
  <2>2. (v < 0) \in BOOLEAN
    BY <2>1
  <2>3. QED  BY <2>1, <2>2
<1>2. negative => IsSigned(d)
  BY <1>1, MagnitudeFacts
<1>3. PICK k, f : k = Shown(d, m, n) /\ f = SignText(d, negative)
  OBVIOUS
<1>4. PICK c : IsSign(f, c)
  BY <1>3, SignFacts DEF IsSign
<1>5. PICK h : HasLen(f, h)
  BY <1>4, EmptyIsText, OneIsText DEF IsSign, HasLen
<1>6. PICK z : PlainTexts(d, k, f, h, z, d.width) /\ CNumber(d, arg) = Reversed(Back(D, k, z, f))
  <2>1. SignParts(d, arg, m, n, negative, k, f, h)
    BY <1>1, <1>3, <1>5 DEF SignParts
  <2>2. QED  BY <2>1, PlainCNumber
<1>7. PICK w : w = d.width
  OBVIOUS
<1>8. PICK p : p = d.prec
  OBVIOUS
<1>9. /\ k \in Nat /\ z \in Nat /\ w \in Nat /\ h \in {0, 1} /\ p \in Nat
      /\ ~ZeroPadded(d) => z = AtLeast(p - k, 0)
      /\ ZeroPadded(d) => z = AtLeast(w - (h + k), 0)
      /\ "PRECISION" \notin d.flags => p = 0
  BY <1>6, <1>7, <1>8 DEF PlainTexts, TakesInteger
<1>10. NoBlanks(D, k)
  BY <1>3, <1>9 DEF IsNumber, Shown, NoBlanks
<1>11. PICK t : t = Back(D, k, z, f)
  OBVIOUS
<1>12. PICK j, y : InBuffer(d, m, n, negative, j, y)
  BY DEF InBuffer
<1>13. PICK s : s = Fits(D, j, y, f)
  OBVIOUS
<1>14. PICK b \in Nat \ {0} : b = PRINTF_NTOA_BUFFER_SIZE
  BY Numbers
<1>15. IntegerText(d, arg) = Out(s, w, IntegerFlags(d))
  <2>1. IntegerText(d, arg) = Converting(d, m, negative)
    BY <1>1, CodeInteger
  <2>2. Converting(d, m, negative)
          = Out(Fits(D, j, y, SignText(d, negative)), d.width, IntegerFlags(d))
    BY <1>2, <1>12, CodePlain
  <2>3. QED  BY <1>3, <1>7, <1>13, <2>1, <2>2
<1>16. IsText(t)
  <2>1. IsText(f)
    BY <1>5 DEF HasLen
  <2>2. PICK e : e = k + z + Len(f)
    OBVIOUS
  <2>3. QED  BY <1>9, <1>11, <2>1, <2>2, BackText
<1>17. CText(d, arg) = IF "LEFT" \in d.flags THEN OnLeft(t, w) ELSE OnRight(t, w)
  BY <1>6, <1>11, <1>7, <1>16, CTextIs
<1>18. CutToBuffer(d, arg) <=>
         /\ k + z + h > b
         /\ ~(/\ k + z + h = b + 1 /\ f = <<"SP">> /\ w > b
              /\ "LEFT" \notin d.flags /\ ~ZeroPadded(d))
  BY <1>6, <1>7, <1>11, <1>4, <1>10, <1>14, PlainCut
<1>19. Exceptional(d, arg) <=>
         \/ CutToBuffer(d, arg)
         \/ "LEFT" \in d.flags /\ "PRECISION" \in d.flags /\ p > k
  BY <1>3, <1>8, PlainExceptional
<1>20. j = AtMost(k, PRINTF_NTOA_BUFFER_SIZE)
  BY <1>3, <1>12 DEF InBuffer
<1>21. y = Padding(j, PaddedTo(p, WidthFor(d, f), IntegerFlags(d)))
  BY <1>3, <1>8, <1>12 DEF InBuffer
<1>22. /\ "LEFT" \in IntegerFlags(d) <=> "LEFT" \in d.flags
       /\ ZeroPadded(d) <=> "ZEROPAD" \in IntegerFlags(d) /\ "LEFT" \notin d.flags
  BY FlagsKept DEF ZeroPadded
<1>23. CASE "LEFT" \in d.flags
  <2>1. IntegerText(d, arg) = OnLeft(s, w) /\ CText(d, arg) = OnLeft(t, w)
    BY <1>15, <1>17, <1>22, <1>23 DEF Out
  <2>2. z = AtLeast(p - k, 0)
    BY <1>9, <1>22, <1>23
  <2>3. y = 0
    BY <1>21, <1>22, <1>23, <1>9, <1>14, <1>20, PaddingFacts DEF PaddedTo, AtMost
  <2>4. s = Fits(D, j, 0, f)
    BY <1>13, <2>3
  <2>5. OnLeft(s, w) = OnLeft(t, w) <=> z = 0 /\ k + h <= b
    BY <1>5, <1>9, <1>10, <1>11, <1>14, <1>20, <2>4, PlainLeft
  <2>6. z = 0 <=> ~(p > k)
    BY <1>9, <2>2 DEF AtLeast
  <2>7. p > k => "PRECISION" \in d.flags
    BY <1>9
  <2>8. z = 0 => k + z + h = k + h
    BY <1>9
  <2>9. QED  BY <1>9, <1>14, <1>18, <1>19, <1>23, <2>1, <2>5, <2>6, <2>7, <2>8
<1>24. CASE "LEFT" \notin d.flags /\ ~ZeroPadded(d)
  <2>1. IntegerText(d, arg) = OnRight(s, w) /\ CText(d, arg) = OnRight(t, w)
    BY <1>15, <1>17, <1>22, <1>24 DEF Out
  <2>2. z = AtLeast(p - k, 0)
    BY <1>9, <1>24
  <2>3. y = Padding(j, p)
    BY <1>21, <1>22, <1>24 DEF PaddedTo
  <2>4. OnRight(s, w) = OnRight(t, w)
          <=> k + z + h <= b \/ (k + z + h = b + 1 /\ f = <<"SP">> /\ w > b)
    BY <1>4, <1>5, <1>9, <1>10, <1>11, <1>13, <1>14, <1>20, <2>2, <2>3, PlainRight
  <2>5. QED  BY <1>9, <1>14, <1>18, <1>19, <1>24, <2>1, <2>4
<1>25. CASE "LEFT" \notin d.flags /\ ZeroPadded(d)
  <2>1. IntegerText(d, arg) = Reversed(s) /\ CText(d, arg) = OnRight(t, w)
    BY <1>15, <1>17, <1>22, <1>25 DEF Out
  <2>2. z = AtLeast(w - (h + k), 0)
    BY <1>9, <1>25
  <2>3. PICK v : v = IF h = 1 /\ w > 0 THEN w - 1 ELSE w
    OBVIOUS
  <2>4. WidthFor(d, f) = v
    <3>1. f # << >> <=> h = 1
      <4>1. CASE f = << >>
        BY <1>5, <4>1, EmptyIsText DEF HasLen
      <4>2. CASE f = <<c>>
        BY <1>5, <4>2, OneIsText, EmptyIsText DEF HasLen
      <4>3. QED  BY <1>4, <4>1, <4>2 DEF IsSign
    <3>2. QED  BY <1>7, <1>22, <1>25, <2>3, <3>1 DEF WidthFor
  <2>5. y = Padding(j, v)
    BY <1>21, <1>22, <1>25, <2>4 DEF PaddedTo
  <2>6. Reversed(s) = OnRight(t, w) <=> k + z + h <= b
    BY <1>5, <1>9, <1>10, <1>11, <1>13, <1>14, <1>20, <2>2, <2>3, <2>5, PlainZero
  <2>7. QED  BY <1>9, <1>14, <1>18, <1>19, <1>25, <2>1, <2>6
<1>26. QED  BY <1>23, <1>24, <1>25

(* A number behind "0x" or "0b". *)
LetterTexts(d, n, z, w, p) ==
  /\ n \in Nat \ {0} /\ z \in Nat /\ w \in Nat /\ w = d.width /\ p \in Nat /\ p = d.prec
  /\ "PRECISION" \notin d.flags => p = 0
  /\ ~ZeroPadded(d) => z = AtLeast(p - n, 0)
  /\ ZeroPadded(d) => z = AtLeast(w - (n + 2), 0)

LEMMA LetterNumber ==
  ASSUME NEW d, TakesInteger(d), NEW arg \in Int, NEW m, m = CMagnitude(d, arg),
         NEW n, NEW D, IsNumber(d, m, n, D), Prefixed(d, m), d.spec # "o"
  PROVE  \E z : /\ LetterTexts(d, n, z, d.width, d.prec)
                /\ CNumber(d, arg)
                     = Reversed(Back(D, n, z, <<Letter(Base(d.spec), IntegerFlags(d)), "0">>))
<1>1. PICK w \in Nat, p \in Nat : w = d.width /\ p = d.prec
  BY DEF TakesInteger
<1>2. n \in Nat \ {0} /\ n = Shown(d, m, n)
  BY DEF IsNumber, Shown, Prefixed
<1>3. PICK a, f : a = Letter(Base(d.spec), IntegerFlags(d)) /\ f = <<a, "0">>
  OBVIOUS
<1>4. IsText(f) /\ Len(f) = 2 /\ CFront(d, arg) = Reversed(f)
  <2>1. f \in Seq({a, "0"}) /\ Len(f) = 2
    BY <1>3
  <2>2. IsText(f)
    BY <2>1, SeqIsText
  <2>3. CFront(d, arg) = Reversed(f)
    BY <1>3, CFrontLetter
  <2>4. QED  BY <2>1, <2>2, <2>3
<1>5. PICK y \in Nat : y = AtLeast(p - n, 0)
  BY <1>1, <1>2 DEF AtLeast
<1>6. CBody(d, arg) = Reversed(Back(D, n, y, << >>))
  BY <1>1, <1>5, <1>2, CBodyPlain
<1>7. PICK l \in Nat, h \in Nat : h = 2 /\ l = h + (n + y)
  BY <1>2, <1>5
<1>8. PICK z : z = y + CZeros(d, l)
  OBVIOUS
<1>9. IsNumberText(f, h, n, y, l, z, CZeros(d, l))
  BY <1>4, <1>7, <1>8 DEF IsNumberText, HasLen
<1>10. CNumber(d, arg) = Reversed(Back(D, n, z, f)) /\ z \in Nat
  BY <1>2, <1>4, <1>5, <1>6, <1>9, CNumberBack
<1>11. "PRECISION" \notin d.flags => p = 0
  BY <1>1 DEF TakesInteger
<1>12. CASE ~ZeroPadded(d)
  BY <1>5, <1>8, <1>12, <1>1, <1>2, <1>3, <1>10, <1>11 DEF CZeros, LetterTexts
<1>13. CASE ZeroPadded(d)
  <2>1. p = 0
    BY <1>1, <1>13, FlagsKept DEF ZeroPadded, TakesInteger
  <2>2. y = 0
    BY <1>2, <1>5, <2>1 DEF AtLeast
  <2>3. z = AtLeast(w - (n + 2), 0)
    BY <1>1, <1>2, <1>7, <1>8, <1>13, <2>2 DEF CZeros, AtLeast
  <2>4. QED  BY <1>1, <1>2, <1>3, <1>10, <1>11, <1>13, <2>3 DEF LetterTexts
<1>14. QED  BY <1>12, <1>13

(* Cut, for a number that does not begin with a blank. *)
LEMMA SolidCut ==
  ASSUME NEW d, NEW arg, NEW t, IsText(t), CNumber(d, arg) = Reversed(t),
         NEW size \in Nat, Len(t) = size, t[size] # "SP"
  PROVE  CutToBuffer(d, arg) <=> size > PRINTF_NTOA_BUFFER_SIZE
  BY CutIs

LEMMA LetterIsText ==
  ASSUME NEW D, NEW n \in Nat \ {0}, NoBlanks(D, n), NEW z \in Nat, NEW a,
         NEW t, NEW size, IsLettered(t, size, D, n, z, a)
  PROVE  HasLen(t, size) /\ t[size] # "SP" /\ size \in Nat
<1>0. t = Back(D, n, z, <<a, "0">>) /\ size = n + z + 2
  BY DEF IsLettered
<1>1. PICK f, h : f = <<a, "0">> /\ h = 2
  OBVIOUS
<1>2. IsText(f) /\ Len(f) = h /\ f[h] = "0"
  <2>1. f \in Seq({a, "0"}) /\ Len(f) = h /\ f[h] = "0"
    BY <1>1
  <2>2. QED  BY <2>1, SeqIsText
<1>3. HasLen(f, h)
  BY <1>2 DEF HasLen
<1>4. PICK k : Totals(k, n, z) /\ k = n + z
  BY DEF Totals
<1>5. Totals(size, k, h) /\ size \in Nat
  BY <1>0, <1>1, <1>4 DEF Totals
<1>6. Solid(Back(D, n, z, f), size, k, h, f)
  BY <1>3, <1>4, <1>5, Ends
<1>7. QED  BY <1>0, <1>1, <1>2, <1>5, <1>6 DEF Solid, HasLen

LEMMA LetterAgrees ==
  ASSUME NEW d, TakesInteger(d), NEW arg \in Int, NEW m, m = CMagnitude(d, arg),
         NEW n, NEW D, IsNumber(d, m, n, D), Prefixed(d, m), d.spec # "o"
  PROVE  IntegerText(d, arg) = CText(d, arg) <=> ~Exceptional(d, arg)
<1>1. PICK b \in Nat \ {0} : b = PRINTF_NTOA_BUFFER_SIZE
  BY Numbers
<1>2. PICK base \in {2, 16} : base = Base(d.spec)
  BY CFrontLetter
<1>3. PICK flags : flags = IntegerFlags(d)
  OBVIOUS
<1>4. PICK a : a = Letter(base, flags)
  OBVIOUS
<1>5. PICK w, p : w = d.width /\ p = d.prec
  OBVIOUS
<1>6. PICK z : LetterTexts(d, n, z, w, p) /\ CNumber(d, arg) = Reversed(Back(D, n, z, <<a, "0">>))
  BY <1>2, <1>3, <1>4, <1>5, LetterNumber
<1>7. /\ n \in Nat \ {0} /\ z \in Nat /\ w \in Nat /\ p \in Nat
      /\ "PRECISION" \notin d.flags => p = 0
      /\ ~ZeroPadded(d) => z = AtLeast(p - n, 0)
      /\ ZeroPadded(d) => z = AtLeast(w - (n + 2), 0)
  BY <1>6 DEF LetterTexts
<1>8. NoBlanks(D, n)
  BY DEF IsNumber
<1>9. PICK t, size : t = Back(D, n, z, <<a, "0">>) /\ size = n + z + 2
  OBVIOUS
<1>10. IsText(t) /\ Len(t) = size /\ t[size] # "SP" /\ size \in Nat
  <2>1. IsLettered(t, size, D, n, z, a)
    BY <1>9 DEF IsLettered
  <2>2. HasLen(t, size) /\ t[size] # "SP" /\ size \in Nat
    BY <1>7, <1>8, <2>1, LetterIsText
  <2>3. QED  BY <2>2 DEF HasLen
<1>11. CutToBuffer(d, arg) <=> size > b
  BY <1>6, <1>9, <1>1, <1>10, SolidCut
<1>12. CText(d, arg) = IF "LEFT" \in d.flags THEN OnLeft(t, w) ELSE OnRight(t, w)
  BY <1>6, <1>9, <1>5, <1>10, CTextIs
<1>13. PICK j, y : InBuffer(d, m, n, FALSE, j, y)
  BY DEF InBuffer
<1>14. /\ j = AtMost(n, PRINTF_NTOA_BUFFER_SIZE)
       /\ y = Padding(j, PaddedTo(p, w, flags))
  BY <1>5, PrefixedIsUnsigned, <1>3, <1>13 DEF Shown, Prefixed, InBuffer
<1>15. PICK l : Totals(l, j, y)
  BY DEF Totals
<1>16. PICK s : /\ Shortened(s, D, j, y, l, Dropped(l, base, p, w, flags), base, flags)
                /\ Converting(d, m, FALSE) = Out(s, w, flags)
  BY <1>2, <1>3, <1>5, <1>13, <1>15, CodePrefixed
<1>17. IntegerText(d, arg) = Out(s, w, flags)
  <2>1. PICK v \in Int : v = CValue(d, arg)
    BY MagnitudeFacts
  <2>2. ~(v < 0)
    BY <2>1, MagnitudeFacts, PrefixedIsUnsigned
  <2>3. FALSE = (CValue(d, arg) < 0)
    BY <2>1, <2>2
  <2>4. IntegerText(d, arg) = Converting(d, m, FALSE)
    BY <2>3, CodeInteger
  <2>5. QED  BY <1>16, <2>4
<1>18. /\ "LEFT" \in flags <=> "LEFT" \in d.flags
       /\ "PRECISION" \in flags <=> "PRECISION" \in d.flags
       /\ ZeroPadded(d) <=> "ZEROPAD" \in flags /\ "LEFT" \notin d.flags
       /\ ZeroPadded(d) <=> /\ "ZEROPAD" \in d.flags /\ "LEFT" \notin d.flags
                            /\ "PRECISION" \notin d.flags
  BY <1>3, FlagsKept DEF ZeroPadded
<1>19. PICK left \in BOOLEAN : left = ("LEFT" \in d.flags)
  <2>1. ("LEFT" \in d.flags) \in BOOLEAN
    OBVIOUS
  <2>2. QED  BY <2>1, Zenon
<1>20. PICK padded \in BOOLEAN : padded = ("ZEROPAD" \in d.flags /\ ~left)
  <2>1. ("ZEROPAD" \in d.flags /\ ~left) \in BOOLEAN
    OBVIOUS
  <2>2. QED  BY <2>1, Zenon
<1>21. Exceptional(d, arg) <=>
         \/ size > b
         \/ "PRECISION" \in d.flags /\ left /\ p > n
         \/ /\ "PRECISION" \notin d.flags
            /\ \/ w = n
               \/ base = 16 /\ w = n + 1 /\ padded
               \/ base = 2 /\ padded /\ w > n + 1
  BY <1>19, <1>20, PrefixedExceptional, <1>2, BaseFacts10, <1>5, <1>11 DEF TakesInteger
<1>22. "PRECISION" \notin flags => p = 0
  BY <1>7, <1>18
<1>23. ~ZeroPadded(d) =>
         IF /\ (left => z = 0) /\ size <= b /\ ("PRECISION" \in flags \/ w # n)
         THEN s = t
         ELSE Loses(s, t) /\ t[1] # "SP" /\ t[size] # "SP" /\ Len(t) = size
  <2> SUFFICES ASSUME ~ZeroPadded(d)
               PROVE  IF /\ (left => z = 0) /\ size <= b /\ ("PRECISION" \in flags \/ w # n)
                      THEN s = t
                      ELSE Loses(s, t) /\ t[1] # "SP" /\ t[size] # "SP" /\ Len(t) = size
    OBVIOUS
  <2>1. y = IF left THEN 0 ELSE Padding(j, p)
    <3>1. CASE "LEFT" \in d.flags
      <4>1. y = Padding(j, 0)
        BY <1>14, <1>18, <3>1 DEF PaddedTo
      <4>2. j \in Nat
        BY <1>1, <1>7, <1>14 DEF AtMost
      <4>3. y = 0
        BY <4>1, <4>2, PaddingFacts
      <4>4. QED  BY <1>19, <3>1, <4>3
    <3>2. CASE "LEFT" \notin d.flags
      BY <1>14, <1>18, <3>2, <1>19 DEF PaddedTo
    <3>3. QED  BY <3>1, <3>2
  <2>2. Pads(n, p, left, j, y, z)
    BY <1>7, <1>14, <2>1 DEF Pads
  <2>3. IsLettered(t, size, D, n, z, Letter(base, flags))
    BY <1>4, <1>9 DEF IsLettered
  <2>4. IF /\ (left => z = 0) /\ size <= PRINTF_NTOA_BUFFER_SIZE
            /\ ("PRECISION" \in flags \/ w # n)
        THEN s = t
        ELSE Loses(s, t) /\ t[1] # "SP" /\ t[size] # "SP" /\ Len(t) = size
    <3>1. Shortened(s, D, j, y, l, Dropped(l, base, p, w, flags), base, flags)
      BY <1>16
    <3>2. n \in Nat \ {0} /\ w \in Nat /\ p \in Nat
      BY <1>7
    <3>3. left \in BOOLEAN /\ base \in {2, 16}
      BY <1>2, <1>19
    <3>4. QED
      BY <1>8, <1>15, <1>22, <2>2, <2>3, <3>1, <3>2, <3>3, LetterAligned
  <2>5. QED  BY <1>1, <2>4
<1>24. CASE ~ZeroPadded(d)
  <2>1. IntegerText(d, arg) = IF left THEN OnLeft(s, w) ELSE OnRight(s, w)
    BY <1>18, <1>19, <1>24, <1>17 DEF Out
  <2>2. CText(d, arg) = IF left THEN OnLeft(t, w) ELSE OnRight(t, w)
    BY <1>12, <1>19
  <2>3. PICK good \in BOOLEAN : good <=> /\ (left => z = 0) /\ size <= b
                                       /\ ("PRECISION" \in d.flags \/ w # n)
    <3>1. (/\ (left => z = 0) /\ size <= b
           /\ ("PRECISION" \in d.flags \/ w # n)) \in BOOLEAN
      OBVIOUS
    <3>2. QED  BY <3>1, Zenon
  <2>4. (good => s = t)
        /\ (~good => Loses(s, t) /\ t[1] # "SP" /\ t[size] # "SP" /\ Len(t) = size)
    BY <1>18, <1>23, <1>24, <2>3
  <2>5. IntegerText(d, arg) = CText(d, arg) <=> good
    <3>1. CASE good
      BY <2>1, <2>2, <2>4, <3>1
    <3>2. CASE ~good
      BY <2>4, <3>2, <1>7, LosesOnLeft, LosesOnRight, <2>1, <2>2
    <3>3. QED  BY <3>1, <3>2
  <2>6. Exceptional(d, arg) <=> ~good
    <3>1. z = 0 <=> ~(p > n)
      BY <1>7, <1>24 DEF AtLeast
    <3>2. CASE "PRECISION" \in d.flags
      BY <1>1, <1>10, <1>21, <2>3, <3>1, <3>2
    <3>3. CASE "PRECISION" \notin d.flags
      <4>1. ~padded
        BY <1>18, <1>19, <1>20, <1>24, <3>3
      <4>2. z = 0
        BY <1>7, <3>1, <3>3
      <4>3. QED  BY <1>1, <1>10, <1>21, <2>3, <3>3, <4>1, <4>2
    <3>4. QED  BY <3>2, <3>3
  <2>7. QED  BY <2>5, <2>6
<1>25. CASE ZeroPadded(d)
  <2>1. ~left /\ padded /\ "PRECISION" \notin flags /\ "PRECISION" \notin d.flags
    BY <1>18, <1>19, <1>20, <1>25
  <2>2. IntegerText(d, arg) = Reversed(s) /\ CText(d, arg) = OnRight(t, w)
    BY <1>18, <1>25, <1>12, <1>17 DEF Out
  <2>3. PadsWidth(n, w, 2, j, y, z)
    BY <1>18, <1>25, <1>7, <1>14 DEF PaddedTo, PadsWidth
  <2>4. Shortened(s, D, j, y, l, Dropped(l, base, 0, w, flags), base, flags)
    BY <1>22, <2>1, <1>16
  <2>5. Reversed(s) = OnRight(t, w)
          <=> /\ size <= PRINTF_NTOA_BUFFER_SIZE
              /\ w # n /\ (base = 16 => w # n + 1) /\ (base = 2 => w <= n + 1)
    <3>1. IsLettered(t, size, D, n, z, Letter(base, flags))
      BY <1>4, <1>9 DEF IsLettered
    <3>2. n \in Nat \ {0} /\ w \in Nat
      BY <1>7
    <3>3. base \in {2, 16}
      BY <1>2
    <3>4. QED  BY <1>8, <1>15, <2>1, <2>3, <2>4, <3>1, <3>2, <3>3, LetterPadded
  <2>6. QED  BY <1>1, <1>2, <1>7, <1>10, <1>21, <2>1, <2>2, <2>5
<1>26. QED  BY <1>24, <1>25

(* An octal number with its prefix, one more zero. *)
OctalTexts(d, n, x, z, w, p) ==
  /\ n \in Nat \ {0} /\ x \in Nat /\ z \in Nat \ {0} /\ w \in Nat /\ w = d.width
  /\ p \in Nat /\ p = d.prec
  /\ "PRECISION" \notin d.flags => p = 0
  /\ ~ZeroPadded(d) => x = AtLeast(p - n, 0) /\ z = (IF x = 0 THEN 1 ELSE x)
  /\ ZeroPadded(d) => x = AtLeast(w - (n + 1), 0) /\ z = x + 1

LEMMA OctalNumber ==
  ASSUME NEW d, TakesInteger(d), NEW arg \in Int, NEW m, m = CMagnitude(d, arg),
         NEW n, NEW D, IsNumber(d, m, n, D), Prefixed(d, m), d.spec = "o"
  PROVE  \E x, z : /\ OctalTexts(d, n, x, z, d.width, d.prec)
                   /\ CNumber(d, arg) = Reversed(Back(D, n, z, << >>))
<1>1. PICK w \in Nat, p \in Nat : w = d.width /\ p = d.prec
  BY DEF TakesInteger
<1>2. n \in Nat \ {0}
  BY DEF IsNumber
<1>3. PICK f : f = << >>
  OBVIOUS
<1>4. IsText(f) /\ Len(f) = 0 /\ CFront(d, arg) = Reversed(f)
  <2>1. PICK v \in Int : v = CValue(d, arg)
    BY MagnitudeFacts
  <2>2. ~(v < 0)
    BY <2>1, MagnitudeFacts, PrefixedIsUnsigned
  <2>3. FALSE = (CValue(d, arg) < 0)
    BY <2>1, <2>2
  <2>4. CFront(d, arg) = Reversed(SignText(d, FALSE))
    BY <2>3, CFrontSign
  <2>5. SignText(d, FALSE) = << >>
    BY PrefixedIsUnsigned
  <2>6. QED  BY <1>3, <2>4, <2>5, EmptyIsText
<1>5. PICK u \in Nat : u = AtLeast(p - n, 0)
  BY <1>1, <1>2 DEF AtLeast
<1>6. PICK y \in Nat \ {0} : y = IF u = 0 THEN 1 ELSE u
  BY <1>5
<1>7. CBody(d, arg) = Reversed(Back(D, n, y, << >>))
  BY <1>1, <1>5, <1>6, CBodyOctal
<1>8. PICK l \in Nat, h \in Nat : h = 0 /\ l = h + (n + y)
  BY <1>2, <1>6
<1>9. PICK z : z = y + CZeros(d, l)
  OBVIOUS
<1>10. CNumber(d, arg) = Reversed(Back(D, n, z, f)) /\ z \in Nat
  <2>1. IsNumberText(f, h, n, y, l, z, CZeros(d, l))
    BY <1>4, <1>8, <1>9 DEF IsNumberText, HasLen
  <2>2. QED  BY <1>2, <1>4, <1>6, <1>7, <2>1, CNumberBack
<1>11. "PRECISION" \notin d.flags => p = 0
  BY <1>1 DEF TakesInteger
<1>12. CASE ~ZeroPadded(d)
  <2>1. z = y
    BY <1>6, <1>9, <1>12 DEF CZeros
  <2>2. OctalTexts(d, n, u, z, d.width, d.prec)
    BY <1>1, <1>2, <1>5, <1>6, <1>11, <1>12, <2>1 DEF OctalTexts
  <2>3. QED  BY <1>3, <1>10, <2>2
<1>13. CASE ZeroPadded(d)
  <2>1. p = 0
    BY <1>1, <1>13, FlagsKept DEF ZeroPadded, TakesInteger
  <2>2. y = 1 /\ l = n + 1
    BY <1>2, <1>5, <1>6, <1>8, <2>1 DEF AtLeast
  <2>3. PICK x \in Nat : x = AtLeast(w - (n + 1), 0)
    BY <1>1, <1>2 DEF AtLeast
  <2>4. z = x + 1
    BY <1>1, <1>2, <1>9, <1>13, <2>2, <2>3 DEF CZeros
  <2>5. OctalTexts(d, n, x, z, d.width, d.prec)
    BY <1>1, <1>2, <1>11, <1>13, <2>3, <2>4 DEF OctalTexts
  <2>6. QED  BY <1>3, <1>10, <2>5
<1>14. QED  BY <1>12, <1>13

LEMMA OctalAgrees ==
  ASSUME NEW d, TakesInteger(d), NEW arg \in Int, NEW m, m = CMagnitude(d, arg),
         NEW n, NEW D, IsNumber(d, m, n, D), Prefixed(d, m), d.spec = "o"
  PROVE  IntegerText(d, arg) = CText(d, arg) <=> ~Exceptional(d, arg)
<1>1. PICK b \in Nat \ {0} : b = PRINTF_NTOA_BUFFER_SIZE
  BY Numbers
<1>2. Base(d.spec) = 8
  BY BaseFacts10 DEF TakesInteger
<1>3. PICK flags : flags = IntegerFlags(d)
  OBVIOUS
<1>5. PICK w, p : w = d.width /\ p = d.prec
  OBVIOUS
<1>6. PICK x, z : OctalTexts(d, n, x, z, w, p) /\ CNumber(d, arg) = Reversed(Back(D, n, z, << >>))
  BY <1>5, OctalNumber
<1>7. /\ n \in Nat \ {0} /\ x \in Nat /\ z \in Nat \ {0} /\ w \in Nat /\ p \in Nat
      /\ "PRECISION" \notin d.flags => p = 0
      /\ ~ZeroPadded(d) => x = AtLeast(p - n, 0) /\ z = (IF x = 0 THEN 1 ELSE x)
      /\ ZeroPadded(d) => x = AtLeast(w - (n + 1), 0) /\ z = x + 1
  BY <1>6 DEF OctalTexts
<1>8. NoBlanks(D, n)
  BY DEF IsNumber
<1>9. PICK t, size : t = Back(D, n, z, << >>) /\ Totals(size, n, z) /\ size = n + z
  BY DEF Totals
<1>10. IsText(t) /\ Len(t) = size /\ t[size] # "SP" /\ size \in Nat \ {0}
  BY <1>7, <1>9, <1>8, PlainEnds DEF Solid
<1>11. CutToBuffer(d, arg) <=> size > b
  BY <1>6, <1>9, <1>1, <1>10, SolidCut
<1>12. CText(d, arg) = IF "LEFT" \in d.flags THEN OnLeft(t, w) ELSE OnRight(t, w)
  BY <1>6, <1>9, <1>5, <1>10, CTextIs
<1>13. PICK j, y : InBuffer(d, m, n, FALSE, j, y)
  BY DEF InBuffer
<1>14. /\ j = AtMost(n, PRINTF_NTOA_BUFFER_SIZE)
       /\ y = Padding(j, PaddedTo(p, w, flags))
  BY <1>5, PrefixedIsUnsigned, <1>3, <1>13 DEF Shown, Prefixed, InBuffer
<1>15. PICK l : Totals(l, j, y)
  BY DEF Totals
<1>16. PICK s : /\ Shortened(s, D, j, y, l, Dropped(l, 8, p, w, flags), 8, flags)
                /\ Converting(d, m, FALSE) = Out(s, w, flags)
  <2>1. PICK base : base = Base(d.spec)
    OBVIOUS
  <2>2. PICK s : /\ Shortened(s, D, j, y, l, Dropped(l, base, p, w, flags), base, flags)
                 /\ Converting(d, m, FALSE) = Out(s, w, flags)
    BY <1>3, <1>5, <1>13, <1>15, <2>1, CodePrefixed
  <2>3. QED  BY <1>2, <2>1, <2>2
<1>17. IntegerText(d, arg) = Out(s, w, flags)
  <2>1. PICK v \in Int : v = CValue(d, arg)
    BY MagnitudeFacts
  <2>2. ~(v < 0)
    BY <2>1, MagnitudeFacts, PrefixedIsUnsigned
  <2>3. FALSE = (CValue(d, arg) < 0)
    BY <2>1, <2>2
  <2>4. IntegerText(d, arg) = Converting(d, m, FALSE)
    BY <2>3, CodeInteger
  <2>5. QED  BY <1>16, <2>4
<1>18. /\ "LEFT" \in flags <=> "LEFT" \in d.flags
       /\ "PRECISION" \in flags <=> "PRECISION" \in d.flags
       /\ ZeroPadded(d) <=> "ZEROPAD" \in flags /\ "LEFT" \notin d.flags
       /\ ZeroPadded(d) <=> /\ "ZEROPAD" \in d.flags /\ "LEFT" \notin d.flags
                            /\ "PRECISION" \notin d.flags
  BY <1>3, FlagsKept DEF ZeroPadded
<1>19. PICK left \in BOOLEAN : left = ("LEFT" \in d.flags)
  <2>1. ("LEFT" \in d.flags) \in BOOLEAN
    OBVIOUS
  <2>2. QED  BY <2>1, Zenon
<1>20. PICK padded \in BOOLEAN : padded = ("ZEROPAD" \in d.flags /\ ~left)
  <2>1. ("ZEROPAD" \in d.flags /\ ~left) \in BOOLEAN
    OBVIOUS
  <2>2. QED  BY <2>1, Zenon
<1>21. Exceptional(d, arg) <=>
         \/ size > b
         \/ "PRECISION" \in d.flags /\ left /\ p > n + 1
         \/ "PRECISION" \in d.flags /\ ~left /\ p > n /\ p < b
         \/ "PRECISION" \notin d.flags /\ w = n
  BY <1>19, <1>20, PrefixedExceptional, <1>1, <1>2, <1>5, <1>11
<1>22. "PRECISION" \notin flags => p = 0
  BY <1>7, <1>18
<1>24. CASE ~ZeroPadded(d)
  <2>1. IntegerText(d, arg) = IF left THEN OnLeft(s, w) ELSE OnRight(s, w)
    BY <1>18, <1>19, <1>24, <1>17 DEF Out
  <2>2. CText(d, arg) = IF left THEN OnLeft(t, w) ELSE OnRight(t, w)
    BY <1>12, <1>19
  <2>3. y = IF left THEN 0 ELSE Padding(j, p)
    <3>1. CASE "LEFT" \in d.flags
      <4>1. y = Padding(j, 0)
        BY <1>14, <1>18, <3>1 DEF PaddedTo
      <4>2. j \in Nat
        BY <1>1, <1>7, <1>14 DEF AtMost
      <4>3. y = 0
        BY <4>1, <4>2, PaddingFacts
      <4>4. QED  BY <1>19, <3>1, <4>3
    <3>2. CASE "LEFT" \notin d.flags
      BY <1>18, <1>24, <3>2, <1>14, <1>19 DEF PaddedTo
    <3>3. QED  BY <3>1, <3>2
  <2>4. Pads(n, p, left, j, y, x)
    BY <1>7, <1>14, <1>24, <2>3 DEF Pads
  <2>5. z = (IF x = 0 THEN 1 ELSE x)
    BY <1>7, <1>24
  <2>6. IF /\ size <= PRINTF_NTOA_BUFFER_SIZE /\ ("PRECISION" \in flags \/ w # n)
           /\ IF left THEN p <= n + 1 ELSE p <= n \/ p >= PRINTF_NTOA_BUFFER_SIZE
        THEN s = t
        ELSE \/ Loses(s, t) /\ t[1] # "SP" /\ t[size] # "SP" /\ Len(t) = size
             \/ ~left /\ Loses(t, s) /\ s[Len(s)] # "SP"
    <3>1. Shortened(s, D, j, y, l, Dropped(l, 8, p, w, flags), 8, flags)
      BY <1>16
    <3>2. n \in Nat \ {0} /\ w \in Nat /\ p \in Nat
      BY <1>7
    <3>3. left \in BOOLEAN
      BY <1>19
    <3>4. IsOctal(t, z, size, D, n, x)
      BY <1>9, <2>5 DEF IsOctal
    <3>5. QED
      BY <1>8, <1>15, <1>22, <2>4, <3>1, <3>2, <3>3, <3>4, OctalAligned
  <2>7. PICK good \in BOOLEAN :
          good <=> /\ size <= b /\ ("PRECISION" \in d.flags \/ w # n)
                   /\ IF left THEN p <= n + 1 ELSE p <= n \/ p >= b
    <3>1. (/\ size <= b /\ ("PRECISION" \in d.flags \/ w # n)
           /\ IF left THEN p <= n + 1 ELSE p <= n \/ p >= b) \in BOOLEAN
      OBVIOUS
    <3>2. QED  BY <3>1, Zenon
  <2>8. /\ good => s = t
        /\ ~good => \/ Loses(s, t) /\ t[1] # "SP" /\ t[size] # "SP" /\ Len(t) = size
                    \/ ~left /\ Loses(t, s) /\ s[Len(s)] # "SP"
    BY <1>1, <1>18, <2>6, <2>7
  <2>9. IntegerText(d, arg) = CText(d, arg) <=> good
    <3>1. CASE good
      BY <2>1, <2>2, <2>8, <3>1
    <3>2. CASE ~good /\ Loses(s, t) /\ t[1] # "SP" /\ t[size] # "SP" /\ Len(t) = size
      BY <1>7, <3>2, LosesOnLeft, LosesOnRight, <2>1, <2>2
    <3>3. CASE ~good /\ ~left /\ Loses(t, s) /\ s[Len(s)] # "SP"
      <4>1. PICK e : e = Len(s) /\ s[e] # "SP"
        BY <3>3
      <4>2. OnRight(s, w) # OnRight(t, w)
        BY <1>7, <3>3, <4>1, LosesOnRight
      <4>3. QED  BY <2>1, <2>2, <3>3, <4>2
    <3>4. QED  BY <2>8, <3>1, <3>2, <3>3
  <2>10. Exceptional(d, arg) <=> ~good
    <3>2. CASE "PRECISION" \in d.flags
      BY <1>1, <1>7, <1>10, <1>21, <2>7, <3>2
    <3>3. CASE "PRECISION" \notin d.flags
      BY <1>7, <3>3, <1>1, <1>10, <1>21, <2>7
    <3>4. QED  BY <3>2, <3>3
  <2>11. QED  BY <2>9, <2>10
<1>25. CASE ZeroPadded(d)
  <2>1. ~left /\ "PRECISION" \notin flags /\ "PRECISION" \notin d.flags
    BY <1>18, <1>19, <1>25
  <2>2. IntegerText(d, arg) = Reversed(s) /\ CText(d, arg) = OnRight(t, w)
    BY <1>18, <1>25, <1>12, <1>17 DEF Out
  <2>3. PadsWidth(n, w, 1, j, y, x)
    BY <1>18, <1>25, <1>7, <1>14 DEF PaddedTo, PadsWidth
  <2>4. Shortened(s, D, j, y, l, Dropped(l, 8, 0, w, flags), 8, flags)
    BY <1>22, <2>1, <1>16
  <2>5. Reversed(s) = OnRight(t, w) <=> size <= PRINTF_NTOA_BUFFER_SIZE /\ w # n
    BY <1>7, <1>9, <1>25, <1>8, <1>15, <2>1, <2>3, <2>4, OctalPadded
  <2>6. QED  BY <1>1, <1>7, <1>10, <1>21, <2>1, <2>2, <2>5
<1>26. QED  BY <1>24, <1>25

(* Zero with a precision of zero: C writes the octal prefix, the code      *)
(* nothing.                                                                *)
LEMMA DigitlessAgrees ==
  ASSUME NEW d, TakesInteger(d), NEW arg \in Int, NEW m, m = CMagnitude(d, arg),
         NEW n, NEW D, IsNumber(d, m, n, D),
         d.spec = "o", "HASH" \in d.flags, Digitless(d, m)
  PROVE  IntegerText(d, arg) = CText(d, arg) <=> ~Exceptional(d, arg)
<1>1. PICK w \in Nat : w = d.width
  BY DEF TakesInteger
<1>2. m = 0 /\ d.prec = 0 /\ "PRECISION" \in d.flags /\ ~IsSigned(d)
  BY DEF Digitless, IsSigned
<1>3. FALSE = (CValue(d, arg) < 0)
  <2>1. PICK v \in Int : v = CValue(d, arg)
    BY MagnitudeFacts
  <2>2. ~(v < 0)
    BY <1>2, <2>1, MagnitudeFacts
  <2>3. QED  BY <2>1, <2>2
<1>4. ~Prefixed(d, m) /\ Shown(d, m, n) = 0 /\ SignText(d, FALSE) = << >>
  BY <1>2 DEF Prefixed, Shown, SignText
<1>5. ~ZeroPadded(d) /\ "ZEROPAD" \notin IntegerFlags(d)
      /\ ("LEFT" \in IntegerFlags(d) <=> "LEFT" \in d.flags)
  BY <1>2, FlagsKept DEF ZeroPadded
<1>6. PICK s : s = << >>
  OBVIOUS
<1>7. IsText(s) /\ Len(s) = 0
  BY <1>6, EmptyIsText
<1>8. IntegerText(d, arg) = Out(s, w, IntegerFlags(d))
  <2>1. PICK j, y : InBuffer(d, m, n, FALSE, j, y)
    BY DEF InBuffer
  <2>2. j = 0
    BY <1>4, <2>1, Numbers DEF InBuffer, AtMost
  <2>3. y = 0
    BY <1>2, <1>5, <2>1, <2>2, PaddingFacts DEF PaddedTo, InBuffer
  <2>4. Converting(d, m, FALSE)
          = Out(Fits(D, j, y, SignText(d, FALSE)), d.width, IntegerFlags(d))
    <3>1. PICK negative : negative = FALSE
      OBVIOUS
    <3>2. negative \in BOOLEAN /\ (negative => IsSigned(d))
      BY <3>1, Zenon
    <3>3. ~Prefixed(d, m) /\ InBuffer(d, m, n, negative, j, y)
      BY <1>4, <2>1, <3>1, Zenon
    <3>4. Converting(d, m, negative)
            = Out(Fits(D, j, y, SignText(d, negative)), d.width, IntegerFlags(d))
      BY <3>2, <3>3, CodePlain
    <3>5. QED  BY <3>1, <3>4, Zenon
  <2>5. Fits(D, 0, 0, << >>) = s
    BY <1>6, NothingBack DEF Fits
  <2>6. Fits(D, j, y, SignText(d, FALSE)) = s
    BY <1>4, <2>2, <2>3, <2>5
  <2>7. IntegerText(d, arg) = Converting(d, m, FALSE)
    BY <1>3, CodeInteger
  <2>8. QED  BY <1>1, <2>4, <2>6, <2>7
<1>9. PICK t : t = Back(D, 0, 1, << >>)
  OBVIOUS
<1>10. IsText(t) /\ Len(t) = 1 /\ t[1] # "SP"
  <2>1. PICK none \in Nat, one \in Nat : none = 0 /\ one = 1
    OBVIOUS
  <2>2. NoBlanks(D, none) /\ Totals(one, none, one)
    BY <2>1 DEF NoBlanks, Totals
  <2>3. Solid(Back(D, none, one, << >>), one, one, 0, << >>)
    BY <2>2, PlainEnds
  <2>4. QED  BY <1>9, <2>1, <2>3 DEF Solid
<1>11. CNumber(d, arg) = Reversed(t)
  <2>1. CPadded(d, arg) = << >>
    <3>1. PICK y : y = AtLeast(d.prec - 0, 0)
      OBVIOUS
    <3>2. CPadded(d, arg) = Reversed(Back(D, 0, y, << >>))
      BY <1>4, <3>1, CPaddedBack
    <3>3. y = 0
      BY <1>2, <3>1 DEF AtLeast
    <3>4. QED  BY <3>2, <3>3, NothingBack, NothingReversed
  <2>2. <<"0">> \o Reversed(Back(D, 0, 0, << >>)) = Reversed(t)
    <3>1. PICK none \in Nat : none = 0
      OBVIOUS
    <3>2. <<"0">> \o Reversed(Back(D, none, 0, << >>)) = Reversed(Back(D, none, 1, << >>))
      BY OneZero
    <3>3. QED  BY <1>9, <3>1, <3>2
  <2>3. CBody(d, arg) = Reversed(t)
    BY NothingBack, NothingReversed, <2>1, <2>2 DEF CBody
  <2>4. CFront(d, arg) = Reversed(<< >>)
    BY <1>3, <1>4, CFrontSign
  <2>5. PICK none, one, f : /\ none \in Nat /\ one \in Nat
                            /\ none = 0 /\ one = 1 /\ f = << >>
    OBVIOUS
  <2>6. PICK l : l = none + (none + one)
    OBVIOUS
  <2>7. PICK z : z = one + CZeros(d, l)
    OBVIOUS
  <2>8. IsNumberText(f, none, none, one, l, z, CZeros(d, l))
    BY <2>5, <2>6, <2>7, EmptyIsText DEF IsNumberText, HasLen
  <2>9. CNumber(d, arg) = Reversed(Back(D, none, z, f))
    BY <1>9, <2>3, <2>4, <2>5, <2>8, CNumberBack
  <2>10. z = 1
    BY <1>5, <2>5, <2>7 DEF CZeros
  <2>11. QED  BY <1>9, <2>5, <2>9, <2>10
<1>12. CText(d, arg) = IF "LEFT" \in d.flags THEN OnLeft(t, w) ELSE OnRight(t, w)
  BY <1>1, <1>10, <1>11, CTextIs
<1>13. Loses(s, t)
  BY <1>7, <1>10 DEF Loses
<1>14. OnLeft(s, w) # OnLeft(t, w)
  BY <1>10, <1>13, LosesOnLeft
<1>15. OnRight(s, w) # OnRight(t, w)
  <2>1. PICK e : e = Len(t)
    OBVIOUS
  <2>2. t[e] # "SP"
    BY <1>10, <2>1
  <2>3. QED  BY <1>13, <2>1, <2>2, LosesOnRight
<1>16. IntegerText(d, arg) # CText(d, arg)
  BY <1>5, <1>8, <1>12, <1>14, <1>15 DEF Out
<1>17. QED  BY <1>16, DigitlessExceptional

(* Every conversion of an integer gives C's text, but for the exceptions.  *)
LEMMA IntegerAgrees ==
  ASSUME NEW d, TakesInteger(d), NEW arg \in Int
  PROVE  IntegerText(d, arg) = CText(d, arg) <=> ~Exceptional(d, arg)
<1>1. PICK m \in 0..SizeMax : m = CMagnitude(d, arg)
  BY MagnitudeFacts
<1>2. PICK n, D : IsNumber(d, m, n, D)
  BY NumberExists
<1>3. CASE Prefixed(d, m) /\ d.spec # "o"
  BY <1>1, <1>2, <1>3, LetterAgrees
<1>4. CASE Prefixed(d, m) /\ d.spec = "o"
  BY <1>1, <1>2, <1>4, OctalAgrees
<1>5. CASE d.spec = "o" /\ "HASH" \in d.flags /\ Digitless(d, m)
  BY <1>1, <1>2, <1>5, DigitlessAgrees
<1>6. CASE ~Prefixed(d, m) /\ ~(d.spec = "o" /\ "HASH" \in d.flags /\ Digitless(d, m))
  BY <1>1, <1>2, <1>6, PlainAgrees
<1>7. QED  BY <1>3, <1>4, <1>5, <1>6
-----------------------------------------------------------------------------
(* An integer whose precision was negative: to C it has none.              *)

(* A precision that the code takes for zero and C for none.  The code's    *)
(* number fits its buffer; on the right it has blanks, where C may have    *)
(* zeros.                                                                  *)

Short(s) == IsText(s) /\ Len(s) <= PRINTF_NTOA_BUFFER_SIZE

LEMMA AppendIsShort ==
  ASSUME NEW s, Short(s), NEW c PROVE Short(AppendChar(s, c))
<1>1. IsText(AppendChar(s, c))
  BY AppendIsText DEF Short
<1>2. CASE Len(s) < PRINTF_NTOA_BUFFER_SIZE
  <2>1. PICK S : S = {s[i] : i \in 1..Len(s)} \cup {c}
    OBVIOUS
  <2>2. Len(s) \in Nat /\ s = [i \in 1..Len(s) |-> s[i]]
    BY DEF Short, IsText
  <2>3. \A i \in 1..Len(s) : s[i] \in S
    BY <2>1
  <2>4. s \in Seq(S) /\ c \in S
    BY <2>1, <2>2, <2>3
  <2>5. Len(Append(s, c)) = Len(s) + 1
    BY <2>4
  <2>6. AppendChar(s, c) = Append(s, c)
    BY <1>2 DEF AppendChar
  <2>7. Len(s) + 1 <= PRINTF_NTOA_BUFFER_SIZE
    BY <1>2, <2>2, Numbers
  <2>8. QED  BY <1>1, <2>5, <2>6, <2>7 DEF Short
<1>3. CASE ~(Len(s) < PRINTF_NTOA_BUFFER_SIZE)
  BY <1>3 DEF AppendChar
<1>4. QED  BY <1>2, <1>3

LEMMA CutIsShort ==
  ASSUME NEW s, Short(s), NEW m \in 0..Len(s) PROVE Short(SubSeq(s, 1, m))
<1>1. Len(s) \in Nat /\ IsText(s) /\ Len(s) <= PRINTF_NTOA_BUFFER_SIZE
  BY DEF Short, IsText
<1>2. PICK r : r = SubSeq(s, 1, m)
  OBVIOUS
<1>3. s \in Seq({s[i] : i \in 1..Len(s)})
  BY <1>1, TextIsSeq
<1>4. Len(r) = m
  BY <1>1, <1>2, <1>3, SubSeqProperties
<1>5. m <= PRINTF_NTOA_BUFFER_SIZE
  BY <1>1, Numbers
<1>6. IsText(r)
  BY <1>1, <1>2, CutIsText
<1>7. QED  BY <1>2, <1>4, <1>5, <1>6 DEF Short

LEMMA PrefixedIsShort ==
  ASSUME NEW buf, Short(buf), NEW base, NEW prec, NEW width, NEW flags
  PROVE  Short(PutPrefix(buf, base, prec, width, flags))
<1> DEFINE n == Len(buf)
           cut == IF "PRECISION" \notin flags /\ n > 0 /\ n \in {prec, width}
                  THEN IF base = 16 /\ n > 1 THEN 2 ELSE 1
                  ELSE 0
           kept == SubSeq(buf, 1, n - cut)
           lettered == CASE base = 16 -> AppendChar(kept, IF "UPPERCASE" \in flags THEN "X" ELSE "x")
                         [] base = 2 -> AppendChar(kept, "b")
                         [] OTHER -> kept
<1>1. n - cut \in 0..Len(buf)
  BY DEF Short, IsText
<1> HIDE DEF cut
<1>2. Short(kept)
  BY <1>1, CutIsShort
<1> HIDE DEF kept
<1>3. Short(lettered)
  <2>1. \A c : Short(AppendChar(kept, c))
    BY <1>2, AppendIsShort
  <2>2. CASE base = 16
    BY <2>1, <2>2
  <2>3. CASE base = 2 /\ base # 16
    BY <2>1, <2>3
  <2>4. CASE base # 2 /\ base # 16
    BY <1>2, <2>4
  <2>5. QED  BY <2>2, <2>3, <2>4
<1> HIDE DEF lettered
<1>4. Short(AppendChar(lettered, "0"))
  BY <1>3, AppendIsShort
<1>5. PutPrefix(buf, base, prec, width, flags)
        = IF "HASH" \in flags THEN AppendChar(lettered, "0") ELSE buf
  BY DEF PutPrefix, lettered, kept, cut
<1>6. QED  BY <1>4, <1>5

LEMMA SignedIsShort ==
  ASSUME NEW buf, Short(buf), NEW negative \in BOOLEAN, NEW flags
  PROVE  Short(PutSign(buf, negative, flags))
<1>1. Short(AppendChar(buf, "-")) /\ Short(AppendChar(buf, "+")) /\ Short(AppendChar(buf, "SP"))
  BY AppendIsShort
<1>2. CASE negative
  BY <1>1, <1>2 DEF PutSign
<1>3. CASE ~negative /\ "PLUS" \in flags
  BY <1>1, <1>3 DEF PutSign
<1>4. CASE ~negative /\ "PLUS" \notin flags /\ "SPACE" \in flags
  BY <1>1, <1>4 DEF PutSign
<1>5. CASE ~negative /\ "PLUS" \notin flags /\ "SPACE" \notin flags
  BY <1>1, <1>5 DEF PutSign
<1>6. QED  BY <1>2, <1>3, <1>4, <1>5

(* The code's number before its blanks is no longer than the buffer. *)
LEMMA CodeInBuffer ==
  ASSUME NEW d, TakesInteger(d), NEW arg \in Int
  PROVE  \E s : Short(s) /\ IntegerText(d, arg) = Out(s, d.width, IntegerFlags(d))
<1>1. PICK m \in 0..SizeMax : m = CMagnitude(d, arg)
  BY MagnitudeFacts
<1>2. PICK n, D : IsNumber(d, m, n, D)
  BY NumberExists
<1>3. (CValue(d, arg) < 0) \in BOOLEAN
  OBVIOUS
<1>4. PICK negative \in BOOLEAN : negative = (CValue(d, arg) < 0)
  BY <1>3, Zenon
<1>5. negative => IsSigned(d)
  BY <1>4, MagnitudeFacts
<1>6. PICK j, y : InBuffer(d, m, n, negative, j, y)
  BY DEF InBuffer
<1>7. PICK buf : buf = Back(D, j, y, << >>)
  OBVIOUS
<1>8. /\ Converting(d, m, negative) = Prepared(d, m, negative, buf)
      /\ j \in Nat /\ y \in Nat /\ j + y <= PRINTF_NTOA_BUFFER_SIZE
  BY <1>2, <1>5, <1>6, <1>7, PreparedDigits
<1>9. Short(buf)
  BY <1>7, <1>8, PlainText DEF Short
<1>10. PICK w, f, g : /\ f = SignText(d, negative) /\ w = WidthFor(d, f) /\ g = FlagsFor(d, m)
  OBVIOUS
<1>11. PICK s : s = PutSign(PutPrefix(buf, Base(d.spec), d.prec, w, g), negative, g)
  OBVIOUS
<1>12. Short(s)
  BY <1>9, <1>11, PrefixedIsShort, SignedIsShort
<1>13. Prepared(d, m, negative, buf) = out_rev(s, w, g)
  BY <1>10, <1>11 DEF Prepared
<1>14. out_rev(s, w, g) = Out(s, d.width, IntegerFlags(d))
  BY <1>10, <1>12, OutText DEF Short
<1>15. IntegerText(d, arg) = Converting(d, m, negative)
  BY <1>1, <1>4, CodeInteger
<1>16. QED  BY <1>8, <1>12, <1>13, <1>14, <1>15

(* Without its precision a directive is the same otherwise. *)
LEMMA SameOtherwise ==
  ASSUME NEW d, TakesInteger(d), NEW c, WithoutPrecision(d, c), NEW arg
  PROVE  /\ TakesInteger(c)
         /\ "LEFT" \in c.flags <=> "LEFT" \in d.flags
         /\ "ZEROPAD" \in c.flags <=> "ZEROPAD" \in d.flags
         /\ "PRECISION" \notin c.flags /\ "PRECISION" \in d.flags
         /\ CValue(c, arg) = CValue(d, arg) /\ CMagnitude(c, arg) = CMagnitude(d, arg)
         /\ CFront(c, arg) = CFront(d, arg)
         /\ \A m, n, D : IsNumber(d, m, n, D) => IsNumber(c, m, n, D)
         /\ \A negative : SignText(c, negative) = SignText(d, negative)
<1>1. /\ c.spec = d.spec /\ c.width = d.width /\ c.prec = d.prec /\ d.prec = 0
      /\ \A x : x # "PRECISION" => (x \in c.flags <=> x \in d.flags)
      /\ "PRECISION" \notin c.flags /\ "PRECISION" \in d.flags
  BY DEF WithoutPrecision
<1>2. TakesInteger(c)
  BY <1>1 DEF TakesInteger
<1>3. /\ "LEFT" \in c.flags <=> "LEFT" \in d.flags
      /\ "ZEROPAD" \in c.flags <=> "ZEROPAD" \in d.flags
      /\ "LONG" \in c.flags <=> "LONG" \in d.flags
      /\ "CHAR" \in c.flags <=> "CHAR" \in d.flags
      /\ "SHORT" \in c.flags <=> "SHORT" \in d.flags
      /\ "PLUS" \in c.flags <=> "PLUS" \in d.flags
      /\ "SPACE" \in c.flags <=> "SPACE" \in d.flags
      /\ "HASH" \in c.flags <=> "HASH" \in d.flags
  BY <1>1
<1>4. BitsOf(c.flags) = BitsOf(d.flags)
  BY <1>3 DEF BitsOf
<1>5. CValue(c, arg) = CValue(d, arg)
  BY <1>1, <1>4 DEF CValue
<1>6. CMagnitude(c, arg) = CMagnitude(d, arg)
  BY <1>5 DEF CMagnitude
<1>7. CFront(c, arg) = CFront(d, arg)
  BY <1>1, <1>3, <1>5, Zenon DEF CFront
<1>8. ASSUME NEW m, NEW n, NEW D, IsNumber(d, m, n, D) PROVE IsNumber(c, m, n, D)
  BY <1>1, <1>8 DEF IsNumber
<1>9. ASSUME NEW negative PROVE SignText(c, negative) = SignText(d, negative)
  BY <1>1, <1>3 DEF SignText, IsSigned
<1>10. QED  BY <1>1, <1>2, <1>3, <1>5, <1>6, <1>7, <1>8, <1>9

(* A number that is not zero: n digits, y zeros in the code, z in C, and   *)
(* what stands in front; that is a blank at most by itself.                *)
FrontText(f, h) == HasLen(f, h) /\ (h > 0 => f[h] # "SP" \/ f = <<"SP">>)

TwoNumbers(d, c, arg, D, n, y, z, f, h, l) ==
  /\ FrontText(f, h) /\ n \in Nat \ {0} /\ y \in Nat /\ z \in Nat /\ NoBlanks(D, n)
  /\ l = h + (n + y) /\ z = y + CZeros(c, l)
  /\ CNumber(d, arg) = Reversed(Back(D, n, y, f))
  /\ CNumber(c, arg) = Reversed(Back(D, n, z, f))

LEMMA SignIsFront ==
  ASSUME NEW d, NEW negative \in BOOLEAN
  PROVE  \E h : FrontText(SignText(d, negative), h)
<1>1. PICK f : f = SignText(d, negative)
  OBVIOUS
<1>2. PICK ch : f \in {<< >>, <<ch>>}
  BY <1>1, SignFacts
<1>3. CASE f = << >>
  <2>1. PICK h : h = 0
    OBVIOUS
  <2>2. HasLen(f, h)
    BY <1>3, <2>1, EmptyIsText DEF HasLen
  <2>3. QED  BY <1>1, <2>1, <2>2 DEF FrontText
<1>4. CASE f = <<ch>>
  <2>1. PICK h : h = 1
    OBVIOUS
  <2>2. IsText(f) /\ Len(f) = 1 /\ f[1] = ch
    BY <1>4, OneIsText
  <2>3. HasLen(f, h) /\ (f[h] # "SP" \/ f = <<"SP">>)
    BY <1>4, <2>1, <2>2 DEF HasLen
  <2>4. QED  BY <1>1, <2>3 DEF FrontText
<1>5. QED  BY <1>2, <1>3, <1>4

LEMMA FrontAndBody ==
  ASSUME NEW d, TakesInteger(d), d.prec = 0, NEW arg \in Int, NEW m, m = CMagnitude(d, arg),
         m # 0, NEW n, NEW D, IsNumber(d, m, n, D)
  PROVE  \E f, h, y : /\ FrontText(f, h) /\ y \in Nat /\ CFront(d, arg) = Reversed(f)
                      /\ CBody(d, arg) = Reversed(Back(D, n, y, << >>))
<1>1. n \in Nat \ {0}
  BY DEF IsNumber
<1>2. n = Shown(d, m, n)
  BY DEF Shown
<1>3. PICK x : x = AtLeast(d.prec - n, 0)
  OBVIOUS
<1>4. x = 0
  BY <1>1, <1>3 DEF AtLeast
<1>5. (CValue(d, arg) < 0) \in BOOLEAN
  OBVIOUS
<1>6. PICK negative \in BOOLEAN : negative = (CValue(d, arg) < 0)
  BY <1>5, Zenon
<1>7. PICK h : FrontText(SignText(d, negative), h)
  BY SignIsFront
<1>8. CASE Prefixed(d, m) /\ d.spec = "o"
  <2>1. CFront(d, arg) = Reversed(SignText(d, negative))
    BY <1>6, <1>8, CFrontSign
  <2>2. PICK y \in Nat : y = IF x = 0 THEN 1 ELSE x
    BY <1>4
  <2>3. CBody(d, arg) = Reversed(Back(D, n, y, << >>))
    BY <1>3, <1>8, <2>2, CBodyOctal
  <2>4. QED  BY <1>7, <2>1, <2>2, <2>3
<1>9. CASE ~(Prefixed(d, m) /\ d.spec = "o")
  <2>1. ~("HASH" \in d.flags /\ d.spec = "o" /\ (m # 0 \/ Digitless(d, m)))
    BY BaseFacts10, <1>9 DEF TakesInteger, Prefixed
  <2>2. CBody(d, arg) = Reversed(Back(D, n, x, << >>))
    BY <1>2, <1>3, <2>1, CBodyPlain
  <2>3. x \in Nat
    BY <1>4
  <2>4. CASE Prefixed(d, m)
    <3>1. PICK a : a = Letter(Base(d.spec), IntegerFlags(d))
      OBVIOUS
    <3>2. CFront(d, arg) = Reversed(<<a, "0">>)
      BY <1>9, <2>4, <3>1, CFrontLetter
    <3>3. PICK f, two : f = <<a, "0">> /\ two = 2
      OBVIOUS
    <3>4. IsText(f) /\ Len(f) = 2 /\ f[2] = "0"
      <4>1. f \in Seq({a, "0"}) /\ Len(f) = 2 /\ f[2] = "0"
        BY <3>3
      <4>2. QED  BY <4>1, SeqIsText
    <3>5. FrontText(f, two)
      BY <3>3, <3>4 DEF FrontText, HasLen
    <3>6. QED  BY <2>2, <2>3, <3>2, <3>3, <3>5
  <2>5. CASE ~Prefixed(d, m)
    BY <1>6, <2>5, CFrontSign, <1>7, <2>2, <2>3
  <2>6. QED  BY <2>4, <2>5
<1>10. QED  BY <1>8, <1>9

LEMMA TwoNumbersExist ==
  ASSUME NEW d, TakesInteger(d), NEW c, WithoutPrecision(d, c), NEW arg \in Int,
         NEW m, m = CMagnitude(d, arg), m # 0
  PROVE  \E D, n, y, z, f, h, l : TwoNumbers(d, c, arg, D, n, y, z, f, h, l)
<1>1. m \in 0..SizeMax
  BY MagnitudeFacts
<1>2. PICK n, D : IsNumber(d, m, n, D)
  BY <1>1, NumberExists
<1>3. d.prec = 0 /\ "PRECISION" \in d.flags
  BY DEF WithoutPrecision
<1>4. PICK f, h, y : /\ FrontText(f, h) /\ y \in Nat /\ CFront(d, arg) = Reversed(f)
                     /\ CBody(d, arg) = Reversed(Back(D, n, y, << >>))
  BY <1>2, <1>3, FrontAndBody
<1>5. n \in Nat \ {0} /\ n \in Nat /\ NoBlanks(D, n)
  BY <1>2 DEF IsNumber
<1>6. TakesInteger(c) /\ CFront(c, arg) = CFront(d, arg) /\ CMagnitude(c, arg) = m
  BY SameOtherwise
<1>7. CBody(c, arg) = CBody(d, arg)
  BY <1>6 DEF WithoutPrecision, CDigitsOf, CPadded, CBody
<1>8. HasLen(f, h) /\ h \in Nat
  BY <1>4 DEF FrontText, HasLen, IsText
<1>9. PICK l \in Nat : l = h + (n + y)
  BY <1>4, <1>5, <1>8
<1>10. PICK z : z = y + CZeros(c, l)
  OBVIOUS
<1>11. CNumber(c, arg) = Reversed(Back(D, n, z, f)) /\ z \in Nat
  <2>1. IsNumberText(f, h, n, y, l, z, CZeros(c, l))
    BY <1>8, <1>9, <1>10 DEF IsNumberText
  <2>2. CFront(c, arg) = Reversed(f) /\ CBody(c, arg) = Reversed(Back(D, n, y, << >>))
    BY <1>4, <1>6, <1>7
  <2>3. QED  BY <1>4, <1>5, <1>6, <2>1, <2>2, CNumberBack
<1>12. CNumber(d, arg) = Reversed(Back(D, n, y, f))
  <2>1. ~ZeroPadded(d)
    BY <1>3, FlagsKept DEF ZeroPadded
  <2>2. y = y + CZeros(d, l)
    BY <1>4, <2>1 DEF CZeros
  <2>3. IsNumberText(f, h, n, y, l, y, CZeros(d, l))
    BY <1>8, <1>9, <2>2 DEF IsNumberText
  <2>4. QED  BY <1>4, <1>5, <2>3, CNumberBack
<1>13. TwoNumbers(d, c, arg, D, n, y, z, f, h, l)
  BY <1>4, <1>5, <1>9, <1>10, <1>11, <1>12 DEF TwoNumbers
<1>14. QED  BY <1>13

LEMMA OnlyCut ==
  ASSUME NEW d, TakesInteger(d), d.prec = 0, "PRECISION" \in d.flags,
         NEW arg \in Int, CMagnitude(d, arg) # 0
  PROVE  Exceptional(d, arg) <=> CutToBuffer(d, arg)
<1>1. PICK m \in 0..SizeMax : m = CMagnitude(d, arg)
  BY MagnitudeFacts
<1>2. PICK n, D : IsNumber(d, m, n, D)
  BY NumberExists
<1>3. ~Digitless(d, m) /\ n \in Nat \ {0}
  BY <1>1, <1>2 DEF Digitless, IsNumber
<1>4. Len(CDigitsOf(d, arg)) = n
  BY <1>1, <1>2, <1>3, CDigitsOfBack
<1>5. ~PrecisionLostWhenLeft(d, arg)
  <2>1. PICK a, b : /\ a = (IF CMagnitude(d, arg) = 0 THEN 0 ELSE Len(CDigitsOf(d, arg)))
                    /\ b = (IF d.spec = "o" /\ "HASH" \in d.flags /\ CMagnitude(d, arg) # 0
                            THEN 1 ELSE 0)
    OBVIOUS
  <2>2. a \in Nat /\ b \in Nat
    BY <1>3, <1>4, <2>1
  <2>3. ~(0 > a + b)
    BY <2>2
  <2>4. PrecisionLostWhenLeft(d, arg) => d.prec > a + b
    BY <2>1, Zenon DEF PrecisionLostWhenLeft
  <2>5. QED  BY <2>3, <2>4
<1>6. ~DigitsLostToPrefix(d, arg) /\ ~BinaryOneTooWide(d, arg)
  BY DEF DigitsLostToPrefix, BinaryOneTooWide
<1>7. ~OctalZero(d, arg)
  BY <1>3, <1>4 DEF OctalZero
<1>8. d.spec \in IntegerSpecs
  BY DEF TakesInteger
<1>9. QED  BY <1>5, <1>6, <1>7, <1>8, Zenon DEF Exceptional

(* C's number is as long as the code's, unless C pads it with zeros. *)
LEMMA NumberLength ==
  ASSUME NEW d, NEW c, NEW arg, NEW D, NEW n, NEW y, NEW z, NEW f, NEW h, NEW l,
         TwoNumbers(d, c, arg, D, n, y, z, f, h, l)
  PROVE  /\ Len(CNumber(d, arg)) = l /\ l \in Nat
         /\ IsText(Back(D, n, y, f)) /\ Len(Back(D, n, y, f)) = l
         /\ IsText(Back(D, n, z, f)) /\ Len(Back(D, n, z, f)) = n + z + h
         /\ IsText(f) /\ Len(f) = h /\ h \in Nat
<1>1. /\ IsText(f) /\ Len(f) = h /\ h \in Nat /\ n \in Nat /\ y \in Nat /\ z \in Nat
      /\ l = h + (n + y)
  BY DEF TwoNumbers, FrontText, HasLen, IsText
<1>2. PICK a, b : a = n + y + Len(f) /\ b = n + z + Len(f)
  OBVIOUS
<1>3. a = l /\ b = n + z + h /\ l \in Nat
  BY <1>1, <1>2
<1>4. IsText(Back(D, n, y, f)) /\ Len(Back(D, n, y, f)) = a
  BY <1>1, <1>2, BackText
<1>5. IsText(Back(D, n, z, f)) /\ Len(Back(D, n, z, f)) = b
  BY <1>1, <1>2, BackText
<1>6. CNumber(d, arg) = Reversed(Back(D, n, y, f))
  BY DEF TwoNumbers
<1>7. Len(CNumber(d, arg)) = l
  BY <1>3, <1>4, <1>6, ReversedElements
<1>8. QED  BY <1>1, <1>3, <1>4, <1>5, <1>7

PadsInC(d, arg) ==
  {"LEFT", "ZEROPAD"} \cap d.flags = {"ZEROPAD"} /\ d.width > Len(CNumber(d, arg))

LEMMA NotPaddedInC ==
  ASSUME NEW d, TakesInteger(d), NEW c, WithoutPrecision(d, c), NEW arg \in Int,
         CMagnitude(d, arg) # 0, ~PadsInC(d, arg)
  PROVE  CText(c, arg) = CText(d, arg)
<1>1. PICK m : m = CMagnitude(d, arg)
  OBVIOUS
<1>2. PICK D, n, y, z, f, h, l : TwoNumbers(d, c, arg, D, n, y, z, f, h, l)
  BY <1>1, TwoNumbersExist
<1>3. Len(CNumber(d, arg)) = l /\ l \in Nat
  BY <1>2, NumberLength
<1>4. y \in Nat /\ z = y + CZeros(c, l)
  BY <1>2 DEF TwoNumbers
<1>5. /\ TakesInteger(c) /\ c.width = d.width /\ c.spec = d.spec /\ d.width \in Nat
      /\ "LEFT" \in c.flags <=> "LEFT" \in d.flags
      /\ "ZEROPAD" \in c.flags <=> "ZEROPAD" \in d.flags
      /\ d.spec \in IntegerSpecs
  BY SameOtherwise DEF WithoutPrecision, TakesInteger
<1>6. CZeros(c, l) = 0
  <2>1. ZeroPadded(c) => "ZEROPAD" \in d.flags /\ "LEFT" \notin d.flags
    BY <1>5, FlagsKept DEF ZeroPadded
  <2>2. ZeroPadded(c) => {"LEFT", "ZEROPAD"} \cap d.flags = {"ZEROPAD"}
    BY <2>1
  <2>3. ZeroPadded(c) => ~(d.width > l)
    BY <1>3, <2>2 DEF PadsInC
  <2>4. ZeroPadded(c) => AtLeast(d.width - l, 0) = 0
    BY <1>3, <1>5, <2>3 DEF AtLeast
  <2>5. QED  BY <1>5, <2>4 DEF CZeros
<1>7. z = y
  BY <1>4, <1>6
<1>8. CNumber(c, arg) = CNumber(d, arg)
  BY <1>2, <1>7 DEF TwoNumbers
<1>9. CText(c, arg) = Justified(CNumber(c, arg), c)
  BY <1>5 DEF CText, IntegerSpecs
<1>10. CText(d, arg) = Justified(CNumber(d, arg), d)
  BY <1>5 DEF CText, IntegerSpecs
<1>11. QED  BY <1>5, <1>8, <1>9, <1>10 DEF Justified

(* The code's text has a blank where C's has its front or a zero. *)
LEMMA BlanksInCode ==
  ASSUME NEW d, TakesInteger(d), NEW c, WithoutPrecision(d, c), NEW arg \in Int,
         CMagnitude(d, arg) # 0, PadsInC(d, arg), NEW w, w = d.width,
         NEW D, NEW n, NEW y, NEW z, NEW f, NEW h, NEW l,
         TwoNumbers(d, c, arg, D, n, y, z, f, h, l)
  PROVE  \E s : /\ IsText(s) /\ IntegerText(d, arg) = OnRight(s, w)
                /\ Len(s) < w /\ (f = <<"SP">> => Len(s) < w - 1)
<1>1. /\ Len(CNumber(d, arg)) = l /\ l \in Nat
      /\ IsText(Back(D, n, y, f)) /\ Len(Back(D, n, y, f)) = l
      /\ IsText(f) /\ Len(f) = h /\ h \in Nat
  BY NumberLength
<1>2. w \in Nat /\ l < w
  BY <1>1 DEF PadsInC, TakesInteger
<1>3. "LEFT" \notin d.flags /\ "PRECISION" \in d.flags /\ d.prec = 0
  BY DEF PadsInC, WithoutPrecision
<1>4. "LEFT" \notin IntegerFlags(d) /\ "ZEROPAD" \notin IntegerFlags(d)
  BY <1>3, FlagsKept
<1>5. CASE CutToBuffer(d, arg)
  <2>1. PICK s : Short(s) /\ IntegerText(d, arg) = Out(s, d.width, IntegerFlags(d))
    BY CodeInBuffer
  <2>2. IntegerText(d, arg) = OnRight(s, w)
    BY <1>4, <2>1 DEF Out
  <2>3. l > PRINTF_NTOA_BUFFER_SIZE
    BY <1>1, <1>5 DEF CutToBuffer
  <2>4. IsText(s) /\ Len(s) \in Nat /\ Len(s) <= PRINTF_NTOA_BUFFER_SIZE
    BY <2>1 DEF Short, IsText
  <2>5. Len(s) < w - 1
    BY <1>1, <1>2, <2>3, <2>4, Numbers
  <2>6. Len(s) < w
    BY <1>2, <2>4, <2>5
  <2>7. QED  BY <2>2, <2>4, <2>5, <2>6
<1>6. CASE ~CutToBuffer(d, arg)
  <2>1. IntegerText(d, arg) = CText(d, arg)
    BY <1>3, <1>6, OnlyCut, IntegerAgrees
  <2>2. CNumber(d, arg) = Reversed(Back(D, n, y, f)) /\ n \in Nat /\ y \in Nat /\ l = h + (n + y)
    BY DEF TwoNumbers
  <2>3. CText(d, arg) = OnRight(Back(D, n, y, f), w)
    BY <1>1, <1>3, <2>2, CTextIs
  <2>4. CASE f = <<"SP">>
    <3>1. h = 1
      BY <1>1, <2>4
    <3>2. n + y < w /\ n + y < w - 1
      BY <1>2, <2>2, <3>1
    <3>3. OnRight(Back(D, n, y, << >>), w) = OnRight(Back(D, n, y, <<"SP">>), w)
      BY <1>2, <2>2, <3>2, BlankAgrees
    <3>4. IsText(Back(D, n, y, << >>)) /\ Len(Back(D, n, y, << >>)) = n + y
      BY <2>2, PlainText
    <3>5. PICK s : s = Back(D, n, y, << >>)
      OBVIOUS
    <3>6. IntegerText(d, arg) = OnRight(s, w)
      BY <2>1, <2>3, <2>4, <3>3, <3>5
    <3>7. QED  BY <3>2, <3>4, <3>5, <3>6
  <2>5. CASE f # <<"SP">>
    BY <1>1, <1>2, <2>1, <2>3, <2>5
  <2>6. QED  BY <2>4, <2>5
<1>7. QED  BY <1>5, <1>6

LEMMA PaddedInC ==
  ASSUME NEW d, TakesInteger(d), NEW c, WithoutPrecision(d, c), NEW arg \in Int,
         CMagnitude(d, arg) # 0, PadsInC(d, arg)
  PROVE  IntegerText(d, arg) # CText(c, arg)
<1>1. PICK m, w : m = CMagnitude(d, arg) /\ w = d.width
  OBVIOUS
<1>2. PICK D, n, y, z, f, h, l : TwoNumbers(d, c, arg, D, n, y, z, f, h, l)
  BY <1>1, TwoNumbersExist
<1>3. PICK s : /\ IsText(s) /\ IntegerText(d, arg) = OnRight(s, w)
               /\ Len(s) < w /\ (f = <<"SP">> => Len(s) < w - 1)
  BY <1>1, <1>2, BlanksInCode
<1>4. PICK t : t = Back(D, n, z, f)
  OBVIOUS
<1>5. /\ Len(CNumber(d, arg)) = l /\ l \in Nat /\ IsText(t) /\ Len(t) = n + z + h
      /\ IsText(f) /\ Len(f) = h /\ h \in Nat
  BY <1>2, <1>4, NumberLength
<1>6. /\ n \in Nat \ {0} /\ y \in Nat /\ z \in Nat /\ l = h + (n + y) /\ z = y + CZeros(c, l)
      /\ CNumber(c, arg) = Reversed(t) /\ (h > 0 => f[h] # "SP" \/ f = <<"SP">>)
  BY <1>2, <1>4 DEF TwoNumbers, FrontText
<1>7. w \in Nat /\ l < w
  BY <1>1, <1>5 DEF PadsInC, TakesInteger
<1>8. "ZEROPAD" \in d.flags /\ "LEFT" \notin d.flags
  BY DEF PadsInC
<1>9. /\ TakesInteger(c) /\ "LEFT" \notin c.flags /\ "ZEROPAD" \in c.flags
      /\ "PRECISION" \notin c.flags /\ c.width = w
  BY <1>1, <1>8, SameOtherwise DEF WithoutPrecision
<1>10. CZeros(c, l) = w - l
  BY <1>9, FlagsKept, <1>5, <1>7 DEF ZeroPadded, AtLeast, CZeros
<1>11. Len(t) = w /\ z > 0
  BY <1>5, <1>6, <1>7, <1>10
<1>12. CText(c, arg) = OnRight(t, w)
  BY <1>5, <1>6, <1>9, CTextIs
<1>13. Reads(t, w, D, n, z, f)
  BY <1>5, <1>11, <1>4, <1>6, BackReads
<1>14. Len(s) \in Nat
  BY <1>3 DEF IsText
<1>15. \E j \in Len(s) + 1..w : t[j] # "SP"
  <2>1. CASE h = 0
    BY <1>5, <1>6, <1>7, <1>11, <2>1, <1>13, <1>3, <1>14 DEF Reads
  <2>2. CASE f = <<"SP">>
    <3>1. h = 1
      BY <1>5, <2>2
    <3>2. w - 1 \in 1..w /\ n < w - 1 /\ w - 1 <= n + z
      BY <1>5, <1>6, <1>7, <1>11, <3>1
    <3>3. t[w - 1] = "0"
      BY <1>13, <3>2 DEF Reads
    <3>4. w - 1 \in Len(s) + 1..w
      BY <1>3, <1>7, <1>14, <2>2
    <3>5. QED  BY <3>3, <3>4
  <2>3. CASE h # 0 /\ f # <<"SP">>
    <3>1. h > 0 /\ f[h] # "SP"
      BY <1>5, <1>6, <2>3
    <3>2. w \in 1..w /\ n + z < w /\ w - (n + z) = h
      BY <1>5, <1>6, <1>7, <1>11, <3>1
    <3>3. t[w] = f[w - (n + z)]
      BY <1>13, <3>2 DEF Reads
    <3>4. t[w] # "SP"
      BY <3>1, <3>2, <3>3
    <3>5. w \in Len(s) + 1..w
      BY <1>3, <1>7, <1>14
    <3>6. QED  BY <3>4, <3>5
  <2>4. QED  BY <2>1, <2>2, <2>3
<1>16. OnRight(s, w) # OnRight(t, w)
  BY <1>3, <1>11, <1>15, <1>5, <1>7, RightDiffers
<1>17. QED  BY <1>3, <1>12, <1>16

(* The number zero: the code writes no digit, C one. *)
LEMMA ZeroWithoutDigit ==
  ASSUME NEW d, TakesInteger(d), d.prec = 0, "PRECISION" \in d.flags,
         NEW arg \in Int, CMagnitude(d, arg) = 0
  PROVE  \E f, h : /\ FrontText(f, h) /\ h <= 1 /\ CFront(d, arg) = Reversed(f)
                   /\ IntegerText(d, arg) = Out(f, d.width, IntegerFlags(d))
<1>1. PICK m \in 0..SizeMax : m = CMagnitude(d, arg)
  BY MagnitudeFacts
<1>2. PICK n, D : IsNumber(d, m, n, D)
  BY NumberExists
<1>3. (CValue(d, arg) < 0) \in BOOLEAN
  OBVIOUS
<1>4. PICK negative \in BOOLEAN : negative = (CValue(d, arg) < 0)
  BY <1>3, Zenon
<1>5. negative => IsSigned(d)
  BY <1>4, MagnitudeFacts
<1>6. m = 0 /\ ~Prefixed(d, m) /\ Shown(d, m, n) = 0
  BY <1>1 DEF Prefixed, Shown
<1>7. PICK f : f = SignText(d, negative)
  OBVIOUS
<1>8. PICK h : FrontText(f, h)
  BY <1>7, SignIsFront
<1>9. HasLen(f, h) /\ h \in Nat /\ h <= 1
  <2>1. IsText(f) /\ Len(f) = h /\ h \in Nat
    BY <1>8 DEF FrontText, HasLen, IsText
  <2>2. PICK ch : f \in {<< >>, <<ch>>}
    BY <1>7, SignFacts
  <2>3. Len(<< >>) = 0 /\ Len(<<ch>>) = 1
    OBVIOUS
  <2>4. QED  BY <2>1, <2>2, <2>3 DEF HasLen
<1>10. CFront(d, arg) = Reversed(f)
  BY <1>1, <1>4, <1>6, <1>7, CFrontSign
<1>11. PICK j, y : InBuffer(d, m, n, negative, j, y)
  BY DEF InBuffer
<1>12. j = 0
  BY <1>6, <1>11, Numbers DEF InBuffer, AtMost
<1>13. y = 0
  <2>1. "ZEROPAD" \notin IntegerFlags(d)
    BY FlagsKept
  <2>2. PaddedTo(d.prec, WidthFor(d, SignText(d, negative)), IntegerFlags(d)) = 0
    BY <2>1 DEF PaddedTo
  <2>3. y = Padding(j, 0)
    BY <1>11, <2>2 DEF InBuffer
  <2>4. j \in Nat
    BY <1>12
  <2>5. QED  BY <2>3, <2>4, PaddingFacts
<1>14. Converting(d, m, negative) = Out(Fits(D, j, y, f), d.width, IntegerFlags(d))
  BY <1>2, <1>5, <1>6, <1>7, <1>11, CodePlain
<1>15. Fits(D, j, y, f) = f
  <2>1. PICK t : t = Back(D, j, y, f)
    OBVIOUS
  <2>2. j \in Nat /\ y \in Nat /\ h = j + y + Len(f) /\ IsText(f)
    BY <1>9, <1>12, <1>13 DEF HasLen
  <2>3. Reads(t, h, D, j, y, f)
    BY <2>1, <2>2, BackReads
  <2>4. IsText(t) /\ Len(t) = Len(f) /\ Len(f) = h
    BY <1>9, <2>3 DEF Reads, HasLen
  <2>5. ASSUME NEW i \in 1..h PROVE t[i] = f[i]
    BY <1>12, <1>13, <2>3 DEF Reads
  <2>6. t = f
    BY <2>2, <2>4, <2>5, EqualTexts
  <2>7. j + y + Len(f) <= PRINTF_NTOA_BUFFER_SIZE
    BY <1>9, <2>2, Numbers
  <2>8. QED  BY <2>1, <2>6, <2>7 DEF Fits
<1>16. IntegerText(d, arg) = Converting(d, m, negative)
  BY <1>1, <1>4, CodeInteger
<1>17. QED  BY <1>8, <1>9, <1>10, <1>14, <1>15, <1>16

LEMMA ZeroWithDigit ==
  ASSUME NEW c, TakesInteger(c), "PRECISION" \notin c.flags,
         NEW arg \in Int, CMagnitude(c, arg) = 0,
         NEW f, NEW h, HasLen(f, h), CFront(c, arg) = Reversed(f)
  PROVE  \E D, one, z : /\ one = 1 /\ z \in Nat /\ D[1] = "0" /\ NoBlanks(D, one)
                        /\ CNumber(c, arg) = Reversed(Back(D, one, z, f))
<1>1. PICK m \in 0..SizeMax : m = CMagnitude(c, arg)
  BY MagnitudeFacts
<1>2. PICK n, D : IsNumber(c, m, n, D)
  BY NumberExists
<1>3. m = 0 /\ ~Digitless(c, m) /\ n = Shown(c, m, n)
  BY <1>1 DEF Digitless, Shown
<1>4. n = 1 /\ D[1] = "0" /\ NoBlanks(D, n)
  BY <1>2, <1>3 DEF IsNumber
<1>5. c.prec = 0
  BY DEF TakesInteger
<1>6. PICK y \in Nat : y = AtLeast(c.prec - n, 0)
  BY <1>4, <1>5 DEF AtLeast
<1>7. CBody(c, arg) = Reversed(Back(D, n, y, << >>))
  BY <1>1, <1>2, <1>3, <1>6, CBodyPlain
<1>8. h \in Nat
  BY DEF HasLen, IsText
<1>9. PICK l \in Nat : l = h + (n + y)
  BY <1>4, <1>8
<1>10. PICK z : z = y + CZeros(c, l)
  OBVIOUS
<1>11. IsNumberText(f, h, n, y, l, z, CZeros(c, l))
  BY <1>9, <1>10 DEF IsNumberText
<1>12. n \in Nat
  BY <1>4
<1>13. CNumber(c, arg) = Reversed(Back(D, n, z, f)) /\ z \in Nat
  BY <1>7, <1>11, <1>12, CNumberBack
<1>14. QED  BY <1>4, <1>13

LEMMA ZeroInC ==
  ASSUME NEW d, TakesInteger(d), NEW c, WithoutPrecision(d, c), NEW arg \in Int,
         CMagnitude(d, arg) = 0
  PROVE  IntegerText(d, arg) # CText(c, arg)
<1>1. PICK w \in Nat : w = d.width
  BY DEF TakesInteger
<1>2. d.prec = 0 /\ "PRECISION" \in d.flags /\ c.width = w
  BY <1>1 DEF WithoutPrecision
<1>3. PICK f, h : /\ FrontText(f, h) /\ h <= 1 /\ CFront(d, arg) = Reversed(f)
                  /\ IntegerText(d, arg) = Out(f, d.width, IntegerFlags(d))
  BY <1>2, ZeroWithoutDigit
<1>4. /\ TakesInteger(c) /\ "PRECISION" \notin c.flags /\ CMagnitude(c, arg) = 0
      /\ CFront(c, arg) = Reversed(f) /\ ("LEFT" \in c.flags <=> "LEFT" \in d.flags)
  BY <1>3, SameOtherwise
<1>5. HasLen(f, h) /\ IsText(f) /\ Len(f) = h /\ h \in Nat /\ h \in {0, 1}
      /\ (h > 0 => f[h] # "SP" \/ f = <<"SP">>)
  BY <1>3 DEF FrontText, HasLen, IsText
<1>6. PICK D, one, z : /\ one = 1 /\ z \in Nat /\ D[1] = "0" /\ NoBlanks(D, one)
                       /\ CNumber(c, arg) = Reversed(Back(D, one, z, f))
  BY <1>4, <1>5, ZeroWithDigit
<1>7. PICK t : t = Back(D, one, z, f)
  OBVIOUS
<1>8. PICK e \in Nat : e = one + z + Len(f) /\ e = h + z + 1
  BY <1>5, <1>6
<1>9. Reads(t, e, D, one, z, f)
  BY <1>5, <1>6, <1>7, <1>8, BackReads
<1>10. IsText(t) /\ Len(t) = e /\ t[1] = "0"
  BY <1>6, <1>8, <1>5, <1>9 DEF Reads
<1>11. CText(c, arg) = IF "LEFT" \in d.flags THEN OnLeft(t, w) ELSE OnRight(t, w)
  BY <1>2, <1>4, <1>6, <1>7, <1>10, CTextIs
<1>12. Len(f) < Len(t) /\ t[1] # "SP"
  BY <1>5, <1>6, <1>8, <1>10
<1>13. CASE "LEFT" \in d.flags
  BY <1>5, <1>10, <1>12, LeftDiffers, <1>13, FlagsKept, <1>1, <1>3, <1>11 DEF Out
<1>14. CASE "LEFT" \notin d.flags
  <2>1. "LEFT" \notin IntegerFlags(d) /\ "ZEROPAD" \notin IntegerFlags(d)
    BY <1>2, <1>14, FlagsKept
  <2>2. IntegerText(d, arg) = OnRight(f, w)
    BY <1>1, <1>3, <2>1 DEF Out
  <2>3. \E s : /\ IsText(s) /\ OnRight(f, w) = OnRight(s, w) /\ Len(s) < Len(t)
               /\ (w < Len(t) \/ \E j \in Len(s) + 1..Len(t) : t[j] # "SP")
    <3>1. CASE h = 0
      BY <1>5, <1>6, <1>8, <1>10, <3>1, <1>12
    <3>2. CASE f = <<"SP">> /\ w > 0
      <4>1. PICK none, s : none = 0 /\ s = Back(D, none, none, << >>)
        OBVIOUS
      <4>2. none \in Nat /\ none + none < w
        BY <3>2, <4>1
      <4>3. OnRight(s, w) = OnRight(Back(D, none, none, <<"SP">>), w)
        BY <1>1, <4>1, <4>2, BlankAgrees
      <4>4. Back(D, none, none, <<"SP">>) = f
        <5>1. PICK r : r = Back(D, none, none, f)
          OBVIOUS
        <5>2. h = none + none + Len(f)
          BY <1>5, <4>1
        <5>3. Reads(r, h, D, none, none, f)
          BY <1>5, <4>2, <5>1, <5>2, BackReads
        <5>4. ASSUME NEW i \in 1..h PROVE r[i] = f[i]
          BY <4>1, <5>3 DEF Reads
        <5>5. IsText(r) /\ Len(r) = h
          BY <5>3 DEF Reads
        <5>6. r = f
          BY <1>5, <5>4, <5>5, EqualTexts
        <5>7. QED  BY <3>2, <5>1, <5>6
      <4>5. IsText(s) /\ Len(s) = 0
        BY <4>1, <4>2, PlainText
      <4>6. Len(s) < Len(t) /\ 1 \in Len(s) + 1..Len(t)
        BY <1>5, <1>6, <1>8, <1>10, <4>5
      <4>7. QED  BY <1>12, <4>3, <4>4, <4>5, <4>6
    <3>3. CASE w = 0
      BY <1>5, <1>6, <1>8, <1>10, <1>12, <3>3
    <3>4. CASE h # 0 /\ f # <<"SP">>
      <4>1. h > 0 /\ f[h] # "SP"
        BY <1>5, <3>4
      <4>2. e \in 1..e /\ one + z < e /\ e - (one + z) = h
        BY <1>5, <1>6, <1>8, <4>1
      <4>3. t[e] = f[e - (one + z)]
        BY <1>9, <4>2 DEF Reads
      <4>4. t[e] # "SP"
        BY <4>1, <4>2, <4>3
      <4>5. e \in Len(f) + 1..Len(t)
        BY <1>5, <1>6, <1>8, <1>10
      <4>6. QED  BY <1>5, <1>12, <4>4, <4>5
    <3>5. QED  BY <1>1, <3>1, <3>2, <3>3, <3>4
  <2>4. PICK s : /\ IsText(s) /\ OnRight(f, w) = OnRight(s, w) /\ Len(s) < Len(t)
                 /\ (w < Len(t) \/ \E j \in Len(s) + 1..Len(t) : t[j] # "SP")
    BY <2>3
  <2>5. OnRight(s, w) # OnRight(t, w)
    BY <1>1, <1>10, <2>4, RightDiffers
  <2>6. QED  BY <1>11, <1>14, <2>2, <2>4, <2>5
<1>15. QED  BY <1>13, <1>14

(* An integer whose precision C may read otherwise. *)
LEMMA IntegerReadAs ==
  ASSUME NEW d, TakesInteger(d), NEW c, ReadAs(c, d), NEW arg \in Int
  PROVE  IntegerText(d, arg) = CText(c, arg)
         <=> ~Exceptional(d, arg) /\ ~NegativeIsZero(d, c, arg)
<1>1. CASE c = d
  BY <1>1, IntegerAgrees DEF NegativeIsZero
<1>2. CASE WithoutPrecision(d, c)
  <2>1. d.spec \in IntegerSpecs /\ d.spec # "s"
    BY DEF TakesInteger, IntegerSpecs
  <2>2. "PRECISION" \in d.flags \ c.flags /\ d.prec = 0 /\ "PRECISION" \in d.flags
    BY <1>2 DEF WithoutPrecision
  <2>3. NegativeIsZero(d, c, arg) <=> CMagnitude(d, arg) = 0 \/ PadsInC(d, arg)
    BY <2>1, <2>2, Zenon DEF NegativeIsZero, PadsInC
  <2>4. CASE CMagnitude(d, arg) = 0
    BY <1>2, <2>3, <2>4, ZeroInC
  <2>5. CASE CMagnitude(d, arg) # 0 /\ PadsInC(d, arg)
    BY <1>2, <2>3, <2>5, PaddedInC
  <2>6. CASE CMagnitude(d, arg) # 0 /\ ~PadsInC(d, arg)
    BY <1>2, <2>6, NotPaddedInC, IntegerAgrees, <2>3
  <2>7. QED  BY <2>4, <2>5, <2>6
<1>3. QED  BY <1>1, <1>2 DEF ReadAs

-----------------------------------------------------------------------------
(* The other conversions, and the state of a call.                         *)

(* The characters that C prescribes for a string, and those the code takes.*)
CTaken(d, p, n) ==
  /\ ("PRECISION" \in d.flags /\ n = d.prec) \/ p[n + 1] = "NUL"
  /\ \A k \in 1..n : p[k] # "NUL" /\ ("PRECISION" \in d.flags => k <= d.prec)

LEMMA TakenOnce ==
  ASSUME NEW d, d.prec \in Nat, NEW p,
         NEW a \in Nat, CTaken(d, p, a), NEW b \in Nat, CTaken(d, p, b)
  PROVE  ~(a < b)
<1> SUFFICES ASSUME a < b PROVE FALSE
  OBVIOUS
<1>1. a + 1 \in 1..b
  OBVIOUS
<1>2. p[a + 1] # "NUL" /\ ("PRECISION" \in d.flags => a + 1 <= d.prec)
  BY <1>1 DEF CTaken
<1>3. "PRECISION" \in d.flags /\ a = d.prec
  BY <1>2 DEF CTaken
<1>4. a + 1 <= a
  BY <1>2, <1>3
<1>5. QED  BY <1>4

LEMMA CStringIs ==
  ASSUME NEW c, c.prec \in Nat, c.spec = "s", NEW p, NEW m \in Nat, m = Len(p),
         NEW n \in 0..m, CTaken(c, p, n)
  PROVE  CText(c, p) = Justified(SubSeq(p, 1, n), c)
<1>1. PICK k : k = CHOOSE i \in 0..m : CTaken(c, p, i)
  OBVIOUS
<1>2. k \in 0..m /\ CTaken(c, p, k)
  BY <1>1
<1>3. k = n
  BY <1>2, TakenOnce
<1>4. CText(c, p) =
        LET n_1 == CHOOSE n_1 \in 0..Len(p) :
                     /\ ("PRECISION" \in c.flags /\ n_1 = c.prec) \/ p[n_1 + 1] = "NUL"
                     /\ \A k_1 \in 1..n_1 : p[k_1] # "NUL" /\ ("PRECISION" \in c.flags => k_1 <= c.prec)
        IN  Justified(SubSeq(p, 1, n_1), c)
  BY DEF CText, IntegerSpecs
<1>5. CText(c, p) = Justified(SubSeq(p, 1, k), c)
  BY <1>1, <1>4 DEF CTaken
<1>6. QED  BY <1>3, <1>5

(* The text x is s, n characters of it, behind b blanks and before others. *)
Blanked(x, s, n, w, b) ==
  /\ IsText(x) /\ Len(x) = AtLeast(w, n) /\ b \in Nat /\ b + n <= AtLeast(w, n)
  /\ \A i \in 1..AtLeast(w, n) :
       x[i] = IF b < i /\ i <= b + n THEN s[i - b] ELSE "SP"

LEMMA JustifiedReads ==
  ASSUME NEW d, NEW w \in Nat, w = d.width, NEW s, IsText(s), NEW n, n = Len(s)
  PROVE  \E b : Blanked(Justified(s, d), s, n, w, b)
<1>1. n \in Nat
  BY DEF IsText
<1>2. PICK a \in Nat : a = AtLeast(w - n, 0)
  BY <1>1 DEF AtLeast
<1>3. PICK u : u = Repeat("SP", a)
  OBVIOUS
<1>4. IsText(u) /\ Len(u) = a /\ \A i \in 1..a : u[i] = "SP"
  BY <1>3, RepeatElements
<1>5. a + n = AtLeast(w, n) /\ n + a = AtLeast(w, n)
  BY <1>1, <1>2 DEF AtLeast
<1>6. CASE "LEFT" \in d.flags
  <2>1. PICK x, b : x = s \o u /\ b = 0
    OBVIOUS
  <2>2. x = Justified(s, d)
    BY <1>2, <1>3, <1>6, <2>1 DEF Justified
  <2>3. Parts(x, s, n, u, a)
    BY <1>4, <2>1, JoinedParts
  <2>4. ASSUME NEW i \in 1..n + a
        PROVE  x[i] = IF b < i /\ i <= b + n THEN s[i - b] ELSE "SP"
    <3>1. CASE i <= n
      BY <1>1, <2>1, <2>3, <3>1 DEF Parts
    <3>2. CASE ~(i <= n)
      BY <1>1, <2>1, <2>3, <3>2, <1>4 DEF Parts
    <3>3. QED  BY <3>1, <3>2
  <2>5. IsText(x) /\ Len(x) = n + a /\ b \in Nat /\ b + n <= n + a
    BY <1>1, <2>1, <2>3 DEF Parts
  <2>6. Blanked(x, s, n, w, b)
    BY <1>5, <2>4, <2>5 DEF Blanked
  <2>7. QED  BY <2>2, <2>6
<1>7. CASE "LEFT" \notin d.flags
  <2>1. PICK x : x = u \o s
    OBVIOUS
  <2>2. x = Justified(s, d)
    BY <1>2, <1>3, <1>7, <2>1 DEF Justified
  <2>3. Parts(x, u, a, s, n)
    BY <1>4, <2>1, JoinedParts
  <2>4. ASSUME NEW i \in 1..a + n
        PROVE  x[i] = IF a < i /\ i <= a + n THEN s[i - a] ELSE "SP"
    <3>1. CASE i <= a
      BY <2>3, <3>1, <1>4 DEF Parts
    <3>2. CASE ~(i <= a)
      BY <2>3, <3>2 DEF Parts
    <3>3. QED  BY <3>1, <3>2
  <2>5. IsText(x) /\ Len(x) = a + n /\ a + n <= a + n
    BY <1>1, <2>3 DEF Parts
  <2>6. Blanked(x, s, n, w, a)
    BY <1>5, <2>4, <2>5 DEF Blanked
  <2>7. QED  BY <2>2, <2>6
<1>8. QED  BY <1>6, <1>7

(* Blanks alone are not seen beside blanks. *)
IsWidth(w, d, c) == w = d.width /\ w = c.width

LEMMA BlanksAlone ==
  ASSUME NEW d, NEW c, NEW w \in Nat, IsWidth(w, d, c),
         NEW e, HasLen(e, 0), NEW s, NEW n, HasLen(s, n)
  PROVE  Justified(e, d) = Justified(s, c) <=> n <= w /\ \A i \in 1..n : s[i] = "SP"
<1>1. n \in Nat
  BY DEF HasLen, IsText
<1>2. PICK none : none = 0 /\ none = Len(e)
  BY DEF HasLen
<1>3. PICK x, a : x = Justified(e, d) /\ Blanked(x, e, none, w, a)
  BY <1>2, JustifiedReads DEF HasLen, IsWidth
<1>4. PICK y, b : y = Justified(s, c) /\ Blanked(y, s, n, w, b)
  BY JustifiedReads DEF HasLen, IsWidth
<1>5. AtLeast(w, none) = w
  BY <1>2 DEF AtLeast
<1>6. IsText(x) /\ Len(x) = w /\ \A i \in 1..w : x[i] = "SP"
  <2>1. ASSUME NEW i \in 1..w PROVE x[i] = "SP"
    BY <1>2, <1>3, <1>5 DEF Blanked
  <2>2. QED  BY <1>3, <1>5, <2>1 DEF Blanked
<1>7. ASSUME n <= w, \A i \in 1..n : s[i] = "SP" PROVE x = y
  <2>1. AtLeast(w, n) = w
    BY <1>1, <1>7 DEF AtLeast
  <2>2. IsText(y) /\ Len(y) = w
    BY <1>4, <2>1 DEF Blanked
  <2>3. ASSUME NEW i \in 1..w PROVE y[i] = "SP"
    BY <1>4, <2>1, <1>1, <1>7 DEF Blanked
  <2>4. QED  BY <1>6, <2>2, <2>3, EqualTexts
<1>8. ASSUME x = y PROVE n <= w /\ \A i \in 1..n : s[i] = "SP"
  <2>1. AtLeast(w, n) = w
    BY <1>4, <1>6, <1>8 DEF Blanked
  <2>2. n <= w
    BY <1>1, <2>1 DEF AtLeast
  <2>3. ASSUME NEW i \in 1..n PROVE s[i] = "SP"
    <3>1. b \in Nat /\ b + n <= w
      BY <1>4, <2>1 DEF Blanked
    <3>2. PICK k : k = b + i
      OBVIOUS
    <3>3. k \in 1..w /\ b < k /\ k <= b + n /\ k - b = i
      BY <1>1, <3>1, <3>2
    <3>4. y[k] = s[k - b]
      BY <1>4, <2>1, <3>3 DEF Blanked
    <3>5. QED  BY <1>6, <1>8, <3>3, <3>4
  <2>4. QED  BY <2>2, <2>3
<1>9. QED  BY <1>3, <1>4, <1>7, <1>8

LEMMA CutElements ==
  ASSUME NEW s, IsText(s), NEW m \in 0..Len(s)
  PROVE  /\ IsText(SubSeq(s, 1, m)) /\ Len(SubSeq(s, 1, m)) = m
         /\ \A i \in 1..m : SubSeq(s, 1, m)[i] = s[i]
<1>1. Len(s) \in Nat
  BY DEF IsText
<1>2. s \in Seq({s[i] : i \in 1..Len(s)})
  BY TextIsSeq
<1>3. PICK r : r = SubSeq(s, 1, m)
  OBVIOUS
<1>4. Len(r) = m /\ \A i \in 1..m : r[i] = s[i]
  BY <1>1, <1>2, <1>3, SubSeqProperties
<1>5. QED  BY <1>3, <1>4, CutIsText

LEMMA StringWithoutPrecision ==
  ASSUME NEW d, d.width \in Nat, d.spec = "s", NEW c, WithoutPrecision(d, c),
         NEW p, IsString(p, d.prec)
  PROVE  StringText(d, p) = CText(c, p) <=> ~NegativeIsZero(d, c, p)
<1>1. PICK w \in Nat : w = d.width /\ w = c.width
  BY DEF WithoutPrecision
<1>2. /\ d.prec = 0 /\ d.prec \in Nat /\ "PRECISION" \in d.flags /\ c.spec = "s" /\ c.prec \in Nat
      /\ "PRECISION" \notin c.flags /\ "PRECISION" \in d.flags \ c.flags
  BY DEF WithoutPrecision
<1>3. PICK m \in Nat : m = Len(p)
  BY <1>2, StringShape
<1>4. IsText(p) /\ \E k \in 1..m : p[k] = "NUL"
  BY <1>2, <1>3, StringShape
<1>5. PICK a : a = CharsRead(p, LengthLimit(d))
  OBVIOUS
<1>6. a \in 1..m + 1 /\ p[a] = "NUL" /\ \A k \in 1..a - 1 : p[k] # "NUL"
  BY <1>2, <1>3, <1>5, LengthReads DEF EndsWith
<1>7. a <= m
  <2>1. PICK k \in 1..m : p[k] = "NUL"
    BY <1>4
  <2>2. ~(k \in 1..a - 1)
    BY <1>6, <2>1
  <2>3. QED  BY <1>3, <1>6, <2>1, <2>2
<1>8. PICK n \in 0..m : n = a - 1 /\ a = n + 1
  BY <1>3, <1>6, <1>7
<1>9. CTaken(c, p, n)
  BY <1>2, <1>6, <1>8 DEF CTaken
<1>10. PICK e, s : e = SubSeq(p, 1, 0) /\ s = SubSeq(p, 1, n)
  OBVIOUS
<1>11. CText(c, p) = Justified(s, c)
  BY <1>2, <1>3, <1>8, <1>9, <1>10, CStringIs
<1>12. StringText(d, p) = Justified(e, d)
  BY <1>5, <1>8, <1>2, <1>10 DEF strnlen_s, AtMost, StringText
<1>13. IsText(e) /\ Len(e) = 0
  <2>1. PICK none \in 0..m : none = 0 /\ e = SubSeq(p, 1, none)
    BY <1>10
  <2>2. IsText(e) /\ Len(e) = none
    BY <1>3, <1>4, <2>1, CutElements
  <2>3. QED  BY <2>1, <2>2
<1>14. IsText(s) /\ Len(s) = n /\ \A i \in 1..n : s[i] = p[i]
  BY <1>3, <1>4, <1>8, <1>10, CutElements
<1>15. Justified(e, d) = Justified(s, c) <=> n <= w /\ \A i \in 1..n : s[i] = "SP"
  <2>1. HasLen(e, 0) /\ HasLen(s, n) /\ IsWidth(w, d, c)
    BY <1>1, <1>13, <1>14 DEF HasLen, IsWidth
  <2>2. Justified(e, d) = Justified(s, c) <=> n <= w /\ \A i \in 1..n : s[i] = "SP"
    BY <1>1, <2>1, BlanksAlone
  <2>3. QED  BY <2>2
<1>16. NegativeIsZero(d, c, p)
       <=> \E k \in 1..m : (\A i \in 1..k : p[i] # "NUL") /\ (p[k] # "SP" \/ k > w)
  BY <1>1, <1>2, <1>3 DEF IntegerSpecs, NegativeIsZero
<1>17. ASSUME NEW k \in 1..m PROVE (\A i \in 1..k : p[i] # "NUL") <=> k <= n
  <2>1. CASE k <= n
    BY <1>8, <2>1, <1>6
  <2>2. CASE ~(k <= n)
    BY <1>8, <2>2, <1>6
  <2>3. QED  BY <2>1, <2>2
<1>18. NegativeIsZero(d, c, p) <=> \E k \in 1..n : p[k] # "SP" \/ k > w
  <2>1. ASSUME NEW k \in 1..m, k <= n PROVE k \in 1..n
    BY <2>1, <1>8
  <2>2. ASSUME NEW k \in 1..n PROVE k \in 1..m /\ k <= n
    BY <1>8
  <2>3. QED  BY <1>16, <1>17, <2>1, <2>2
<1>19. (\E k \in 1..n : p[k] # "SP" \/ k > w) <=> ~(n <= w /\ \A i \in 1..n : p[i] = "SP")
  <2>1. ASSUME ~(n <= w) PROVE n \in 1..n /\ n > w
    BY <1>8, <2>1
  <2>2. ASSUME n <= w, NEW k \in 1..n PROVE ~(k > w)
    BY <1>8, <2>2
  <2>3. QED  BY <2>1, <2>2
<1>20. QED  BY <1>11, <1>12, <1>14, <1>15, <1>18, <1>19

LEMMA StringAgrees ==
  ASSUME NEW d, d.prec \in Nat, "PRECISION" \notin d.flags => d.prec = 0, d.spec = "s",
         NEW p, IsString(p, d.prec)
  PROVE  StringText(d, p) = CText(d, p)
<1>1. PICK prec \in Nat : prec = d.prec
  OBVIOUS
<1>2. PICK m \in Nat : m = Len(p)
  BY <1>1, StringShape
<1>3. PICK c : c = CharsRead(p, LengthLimit(d))
  OBVIOUS
<1>4. /\ c \in 1..m + 1
      /\ (prec # 0 /\ c = prec + 1) \/ p[c] = "NUL"
      /\ \A k \in 1..c - 1 : p[k] # "NUL" /\ (prec # 0 => k <= prec)
  BY <1>1, <1>2, <1>3, LengthReads DEF EndsWith
<1>5. PICK l \in 0..m : l = c - 1 /\ c = l + 1
  BY <1>2, <1>4
<1>6. PICK n : n = IF "PRECISION" \in d.flags THEN AtMost(l, prec) ELSE l
  OBVIOUS
<1>7. n \in 0..m /\ CTaken(d, p, n)
  <2>1. CASE "PRECISION" \notin d.flags
    BY <1>1, <1>6, <2>1, <1>4, <1>5 DEF CTaken
  <2>2. CASE "PRECISION" \in d.flags /\ prec = 0
    BY <1>5, <1>6, <2>2, <1>1 DEF AtMost, CTaken
  <2>3. CASE "PRECISION" \in d.flags /\ prec # 0
    <3>1. l <= prec
      <4>1. CASE l = 0
        BY <1>1, <4>1
      <4>2. CASE l # 0
        BY <1>5, <4>2, <1>4, <2>3
      <4>3. QED  BY <4>1, <4>2
    <3>2. n = l
      BY <1>5, <1>6, <2>3, <3>1 DEF AtMost
    <3>3. n = prec \/ p[n + 1] = "NUL"
      BY <1>4, <1>5, <3>2
    <3>4. \A k \in 1..n : p[k] # "NUL" /\ k <= prec
      BY <1>4, <1>5, <2>3, <3>2
    <3>5. QED  BY <1>1, <1>5, <2>3, <3>2, <3>3, <3>4 DEF CTaken
  <2>4. QED  BY <2>1, <2>2, <2>3
<1>8. CText(d, p) = Justified(SubSeq(p, 1, n), d)
  BY <1>2, <1>7, CStringIs
<1>9. StringText(d, p) = Justified(SubSeq(p, 1, n), d)
  BY <1>1, <1>3, <1>5, <1>6 DEF StringText, strnlen_s
<1>10. QED  BY <1>8, <1>9

LEMMA StringReadAs ==
  ASSUME NEW d, d.width \in Nat, d.prec \in Nat, "PRECISION" \notin d.flags => d.prec = 0,
         d.spec = "s", NEW c, ReadAs(c, d), NEW p, IsString(p, d.prec)
  PROVE  StringText(d, p) = CText(c, p) <=> ~Exceptional(d, p) /\ ~NegativeIsZero(d, c, p)
<1>1. ~Exceptional(d, p)
  BY DEF Exceptional, IntegerSpecs
<1>2. CASE c = d
  BY <1>1, <1>2, StringAgrees DEF NegativeIsZero
<1>3. CASE WithoutPrecision(d, c)
  BY <1>1, <1>3, StringWithoutPrecision
<1>4. QED  BY <1>2, <1>3 DEF ReadAs
-----------------------------------------------------------------------------
LEMMA ArgumentAgrees ==
  ASSUME NEW d, IsText(d.args), d.args # << >>, NEW c, c = CDirective,
         NEW text, Converted(d, text, Tail(d.args)), d.spec # "%",
         d.spec \in IntegerSpecs \cup {"c", "s"} =>
           (text = CText(c, d.args[1])
            <=> ~Exceptional(d, d.args[1]) /\ ~NegativeIsZero(d, c, d.args[1]))
  PROVE  AgreesWithC'
<1>1. PICK rest : rest = Tail(d.args)
  OBVIOUS
<1>2. rest # d.args
  <2>1. PICK s : s = d.args
    OBVIOUS
  <2>2. Tail(s) # s
    BY <2>1, TailFacts
  <2>3. QED  BY <1>1, <2>1, <2>2
<1>3. Converted(d, text, rest)
  BY <1>1
<1>4. last' = [d |-> d, c |-> c, arg |-> d.args[1], text |-> text,
               read |-> IF d.spec = "s" THEN StringRead(d, d.args[1]) ELSE 0]
  BY <1>2, <1>3 DEF Converted
<1>5. last'.d = d /\ last'.c = c /\ last'.arg = d.args[1] /\ last'.text = text
  BY <1>4
<1>6. QED  BY <1>5 DEF AgreesWithC

LEMMA NextAgrees ==
  ASSUME Inv, ArgumentsMatch, AgreesWithC, [Next]_vars PROVE AgreesWithC'
<1>1. ASSUME UNCHANGED last PROVE AgreesWithC'
  BY <1>1 DEF AgreesWithC
<1>2. CASE UNCHANGED vars
  BY <1>1, <1>2 DEF vars
<1>3. CASE PutLiteral
  BY <1>1, <1>3 DEF PutLiteral
<1>4. CASE Terminate
  BY <1>1, <1>4 DEF Terminate
<1>5. PICK d, c : d = Directive /\ c = CDirective
  OBVIOUS
<1>6. ASSUME AtDirective
      PROVE  /\ d.width \in Nat /\ d.prec \in Nat /\ IsText(d.args) /\ ReadAs(c, d)
             /\ "PRECISION" \notin d.flags => d.prec = 0
             /\ "UPPERCASE" \notin d.flags
  BY <1>6, <1>5, DirectiveFacts, CDirectiveFacts, DirectiveFlags DEF Inv, AtDirective, Running,
     DirectiveOK
<1>7. ReadAs(c, d) => c.spec = d.spec
  BY DEF ReadAs, WithoutPrecision
<1>8. CASE ConvertInteger
  <2>1. /\ AtDirective /\ d.spec \in IntegerSpecs
        /\ Converted(d, IntegerText(d, d.args[1]), Tail(d.args))
    BY <1>5, <1>8 DEF ConvertInteger
  <2>2. d.args # << >> /\ d.args[1] \in Int
    BY <1>5, <2>1 DEF ArgumentsMatch
  <2>3. TakesInteger(d)
    BY <1>6, <2>1 DEF TakesInteger
  <2>4. PICK arg \in Int : arg = d.args[1]
    BY <2>2
  <2>5. IntegerText(d, arg) = CText(c, arg) <=> ~Exceptional(d, arg) /\ ~NegativeIsZero(d, c, arg)
    BY <1>6, <2>1, <2>3, IntegerReadAs
  <2>6. d.spec # "%"
    BY <2>1 DEF IntegerSpecs
  <2>7. PICK text : text = IntegerText(d, arg)
    OBVIOUS
  <2>8. Converted(d, text, Tail(d.args))
    BY <2>1, <2>4, <2>7
  <2>9. QED  BY <1>5, <1>6, <2>1, <2>2, <2>4, <2>5, <2>6, <2>7, <2>8, ArgumentAgrees
<1>9. CASE ConvertPointer
  BY <1>5, <1>9, <1>6, ArgumentAgrees DEF ConvertPointer, ArgumentsMatch, IntegerSpecs
<1>10. CASE ConvertChar
  <2>1. /\ AtDirective /\ d.spec = "c"
        /\ Converted(d, Justified(<<d.args[1]>>, d), Tail(d.args))
    BY <1>5, <1>10 DEF ConvertChar
  <2>2. d.args # << >>
    BY <1>5, <2>1 DEF ArgumentsMatch
  <2>3. d.spec # "%" /\ d.spec \notin IntegerSpecs
    BY <2>1 DEF IntegerSpecs
  <2>4. PICK arg : arg = d.args[1]
    OBVIOUS
  <2>5. CText(c, arg) = Justified(<<arg>>, d)
    BY <1>6, <1>7, <2>1, <2>3 DEF ReadAs, WithoutPrecision, CText, Justified
  <2>6. ~Exceptional(d, arg) /\ ~NegativeIsZero(d, c, arg)
    BY <2>1, <2>3 DEF Exceptional, NegativeIsZero
  <2>7. PICK text : text = Justified(<<arg>>, d)
    OBVIOUS
  <2>8. Converted(d, text, Tail(d.args))
    BY <2>1, <2>4, <2>7
  <2>9. text = CText(c, d.args[1])
        <=> ~Exceptional(d, d.args[1]) /\ ~NegativeIsZero(d, c, d.args[1])
    BY <2>4, <2>5, <2>6, <2>7
  <2>10. QED  BY <1>5, <1>6, <2>1, <2>2, <2>3, <2>8, <2>9, ArgumentAgrees
<1>11. CASE ConvertString
  <2>1. /\ AtDirective /\ d.spec = "s"
        /\ Converted(d, StringText(d, d.args[1]), Tail(d.args))
    BY <1>5, <1>11 DEF ConvertString
  <2>2. d.args # << >> /\ IsString(d.args[1], d.prec)
    BY <1>5, <2>1 DEF ArgumentsMatch
  <2>3. d.spec # "%"
    BY <2>1
  <2>4. PICK arg : arg = d.args[1]
    OBVIOUS
  <2>5. StringText(d, arg) = CText(c, arg) <=> ~Exceptional(d, arg) /\ ~NegativeIsZero(d, c, arg)
    BY <1>6, <2>1, <2>2, <2>4, StringReadAs
  <2>6. PICK text : text = StringText(d, arg)
    OBVIOUS
  <2>7. Converted(d, text, Tail(d.args))
    BY <2>1, <2>4, <2>6
  <2>8. QED  BY <1>5, <1>6, <2>1, <2>2, <2>3, <2>4, <2>5, <2>6, <2>7, ArgumentAgrees
<1>12. CASE ConvertOther
  <2>1. /\ AtDirective /\ d.spec \notin IntegerSpecs \cup {"p", "c", "s"}
        /\ Converted(d, <<d.spec>>, d.args)
    BY <1>5, <1>12 DEF ConvertOther
  <2>2. last'.d = d /\ last'.c = c /\ last'.text = <<d.spec>>
    BY <1>5, <2>1 DEF Converted
  <2>3. PICK arg : arg = last'.arg
    OBVIOUS
  <2>4. ASSUME d.spec = "%"
        PROVE  CText(c, arg) = <<"%">> /\ ~Exceptional(d, arg) /\ ~NegativeIsZero(d, c, arg)
    BY <1>6, <1>7, <2>1, <2>4 DEF CText, Exceptional, NegativeIsZero
  <2>5. QED  BY <2>1, <2>2, <2>3, <2>4 DEF AgreesWithC
<1>13. QED
  BY <1>2, <1>3, <1>4, <1>8, <1>9, <1>10, <1>11, <1>12 DEF Next

(* As long as the caller's arguments fit the format, the text of every     *)
(* conversion is C's text for the directive and the arguments as the       *)
(* caller wrote them, a negative precision included, unless it is one of   *)
(* the six exceptions that the properties name, and then it is not         *)
(* (_vsnprintf, _ntoa_format, _out_rev): whatever the number, the flags,   *)
(* the width, the precision and the length of the type.                    *)
THEOREM ConversionsAreC == LibrarySpec /\ []ArgumentsMatch => []AgreesWithC
<1>1. LibraryInit => AgreesWithC
  BY DEF Init, FormatterIdle, AgreesWithC, LibraryInit
<1>2. /\ AgreesWithC /\ (Inv \/ FormatterIdle) /\ ArgumentsMatch
      /\ [LibraryNext]_<<vars, memVars>>
      => AgreesWithC'
  BY IdleStays, NextAgrees DEF FormatterIdle, AgreesWithC, LibraryNext
<1>3. QED  BY <1>1, <1>2, FormatterHolds, PTL DEF LibrarySpec
-----------------------------------------------------------------------------
(* What formatsize writes.  A digit is no point. *)
LEMMA NoPoint ==
  ASSUME NEW v \in 0..SizeMax
  PROVE  /\ IsText(InDecimal(v)) /\ Len(InDecimal(v)) \in Nat \ {0}
         /\ \A i \in 1..Len(InDecimal(v)) : InDecimal(v)[i] # "."
<1>1. PICK b \in Bases : b = 10
  BY DEF Bases
<1>2. PICK n \in Nat : HasDigits(v, b, n) /\ \A k \in 0..n - 1 : Pow(b, k) \in Nat \ {0}
  BY NumberOfDigits
<1>3. n \in Nat \ {0} /\ IsCount(v, n, LongBits)
  BY <1>1, <1>2, Numbers DEF HasDigits, IsCount, Pow, Ten
<1>4. PICK D : D = InDecimal(v)
  OBVIOUS
<1>5. D = [i \in 1..n |-> LowerHex[((v \div Ten(n - i)) % 10) + 1]]
  BY <1>3, <1>4, CDigitsAre DEF DigitsOf
<1>6. IsText(D) /\ Len(D) = n
  BY <1>3, <1>5, FunctionIsText
<1>7. ASSUME NEW i \in 1..n PROVE D[i] # "."
  <2>1. n - i \in 0..n - 1
    OBVIOUS
  <2>2. PICK p \in Nat \ {0} : p = Ten(n - i)
    BY <1>1, <1>2, <2>1 DEF Pow, Ten
  <2>3. PICK x : x = (v \div p) % 10
    OBVIOUS
  <2>4. x \in {0, 1, 2, 3, 4, 5, 6, 7, 8, 9}
    BY <2>3
  <2>5. LowerHex[x + 1] # "."
    BY <2>4 DEF LowerHex, Decimal
  <2>6. QED  BY <1>5, <2>2, <2>3, <2>5
<1>8. QED  BY <1>3, <1>4, <1>6, <1>7

(* n tenths are v and t tenths. *)
InTens(n, v, t) == n \div 10 = v /\ n % 10 = t

(* Where the point stands in the text x of t tenths behind k digits. *)
SizeReads(x, k, t) ==
  /\ t = 0 => Len(x) = k + 1 /\ \A i \in 1..k : x[i] # "."
  /\ t # 0 => Len(x) = k + 3 /\ x[k + 1] = "." /\ x[k + 2] = Decimal[t + 1]

LEMMA SizeRead ==
  ASSUME NEW n, NEW v \in 0..SizeMax, NEW t \in 0..9, InTens(n, v, t), NEW u
  PROVE  SizeReads(SizeText(n, u), Len(InDecimal(v)), t)
<1>1. PICK D, k : D = InDecimal(v) /\ k = Len(D)
  OBVIOUS
<1>2. IsText(D) /\ k \in Nat \ {0} /\ \A i \in 1..k : D[i] # "."
  BY <1>1, NoPoint
<1>3. PICK p, e : /\ p = (IF t = 0 THEN << >> ELSE <<".", Decimal[t + 1]>>)
                  /\ e = <<Units[u + 1]>>
  OBVIOUS
<1>4. IsText(p) /\ IsText(e) /\ Len(e) = 1 /\ (t = 0 => Len(p) = 0)
      /\ (t # 0 => Len(p) = 2 /\ p[1] = "." /\ p[2] = Decimal[t + 1])
  BY <1>3 DEF IsText
<1>5. PICK x, y : y = D \o p /\ x = y \o e
  OBVIOUS
<1>6. Joins(y, D, p) /\ Joins(x, y, e)
  BY <1>2, <1>4, <1>5, Joined DEF Joins
<1>7. x = SizeText(n, u)
  BY <1>1, <1>3, <1>5 DEF SizeText, InTens, InDecimal
<1>8. CASE t = 0
  BY <1>1, <1>2, <1>4, <1>6, <1>8, <1>7 DEF Joins, SizeReads
<1>9. CASE t # 0
  <2>1. Len(y) = k + 2 /\ Len(x) = k + 3 /\ y[k + 1] = p[1] /\ y[k + 2] = p[2]
    <3>1. Len(p) = 2 /\ Len(e) = 1
      BY <1>4, <1>9
    <3>2. \A i \in 1..Len(y) : y[i] = IF i <= k THEN D[i] ELSE p[i - k]
      BY <1>1, <1>6 DEF Joins
    <3>3. Len(y) = k + 2 /\ Len(x) = k + 3
      BY <1>1, <1>2, <1>6, <3>1 DEF Joins
    <3>4. (k + 1) - k = 1 /\ (k + 2) - k = 2 /\ {k + 1, k + 2} \subseteq 1..k + 2
      BY <1>2
    <3>5. QED  BY <1>2, <3>2, <3>3, <3>4
  <2>2. x[k + 1] = y[k + 1] /\ x[k + 2] = y[k + 2]
    BY <1>2, <1>6, <2>1 DEF Joins
  <2>3. QED  BY <1>1, <1>4, <1>7, <1>9, <2>1, <2>2 DEF SizeReads
<1>10. QED  BY <1>8, <1>9

LEMMA OneMoreTenth ==
  ASSUME NEW n \in Nat, NEW v \in 0..SizeMax, v + 1 <= SizeMax, NEW t \in 0..9,
         InTens(n, v, t), NEW u
  PROVE  SizeText(n, u) # SizeText(n + 1, u)
<1>1. PICK x, y, k, l : /\ x = SizeText(n, u) /\ y = SizeText(n + 1, u)
                        /\ k = Len(InDecimal(v)) /\ l = Len(InDecimal(v + 1))
  OBVIOUS
<1>2. SizeReads(x, k, t) /\ k \in Nat
  BY <1>1, SizeRead, NoPoint
<1>3. CASE t = 9
  <2>1. PICK w \in 0..SizeMax, s \in 0..9 : w = v + 1 /\ s = 0
    BY Numbers
  <2>2. InTens(n + 1, w, s)
    BY <1>3, <2>1 DEF InTens
  <2>3. SizeReads(y, l, s) /\ l \in Nat
    BY <1>1, <2>1, <2>2, SizeRead, NoPoint
  <2>4. Len(y) = l + 1 /\ (\A i \in 1..l : y[i] # ".") /\ Len(x) = k + 3 /\ x[k + 1] = "."
    BY <1>2, <1>3, <2>1, <2>3 DEF SizeReads
  <2>5. x # y
    BY <1>2, <2>3, <2>4
  <2>6. QED  BY <1>1, <2>5
<1>4. CASE t # 9
  <2>1. PICK s \in 0..9 : s = t + 1
    BY <1>4
  <2>2. InTens(n + 1, v, s)
    BY <1>4, <2>1 DEF InTens
  <2>3. SizeReads(y, k, s)
    BY <1>1, <2>2, SizeRead
  <2>4. Len(y) = k + 3 /\ y[k + 2] = Decimal[s + 1]
    BY <2>1, <2>3 DEF SizeReads
  <2>5. x # y
    <3>1. CASE t = 0
      BY <1>2, <2>4, <3>1 DEF SizeReads
    <3>2. CASE t # 0
      <4>1. x[k + 2] = Decimal[t + 1]
        BY <1>2, <3>2 DEF SizeReads
      <4>2. t \in {1, 2, 3, 4, 5, 6, 7, 8} /\ s = t + 1
        BY <1>4, <2>1, <3>2
      <4>3. Decimal[t + 1] # Decimal[s + 1]
        BY <4>2 DEF Decimal
      <4>4. QED  BY <2>4, <4>1, <4>3
    <3>3. QED  BY <3>1, <3>2
  <2>6. QED  BY <1>1, <2>5
<1>5. QED  BY <1>3, <1>4

LEMMA RoomAbove ==
  ASSUME NEW b \in 0..SizeMax, NEW a \in Nat \ {0}, (b * 10) % a # 0,
         NEW w \in 0..SizeMax, w = b \div a
  PROVE  w + 1 <= SizeMax
<1>1. PICK M \in Nat : M = SizeMax /\ M >= 9
  BY NineFits, Numbers
<1>2. a # 1
  BY <1>1
<1>3. PICK x \in Nat : x = a - 2
  BY <1>2
<1>4. x * w \in Nat
  BY <1>1, <1>3, ProductSign
<1>5. b = a * w + (b % a) /\ b % a \in 0..a - 1
  BY <1>1, QuotientBounds
<1>6. a * w = 2 * w + x * w
  BY <1>1, <1>3
<1>7. 2 * w <= M
  BY <1>1, <1>4, <1>5, <1>6
<1>8. QED  BY <1>1, <1>7

(* What is to be printed. *)
LEMMA SizeTextWritten ==
  ASSUME call \in Calls, call.fn = "formatsize", SizeProgress(call.count), Format[pos] = "NUL"
  PROVE  FormatSize
<1>1. PICK b \in 0..SizeMax : b = call.count
  BY SizeCount
<1>2. PICK w, t, u : w = Whole(b) /\ t = Tenth(b) /\ u = UnitName(b)
  OBVIOUS
<1>3. w \in 0..SizeMax /\ t \in 0..9
  BY <1>2, TenthFacts
<1>4. PICK point : point = IF t = 0 THEN << >> ELSE <<".", Decimal[t + 1]>>
  OBVIOUS
<1>5. full = (InDecimal(w) \o point) \o <<u>>
  <2>1. IsText(InDecimal(w))
    BY <1>3, PlainNumber
  <2>2. CASE u = "B"
    <3>1. t = 0
      <4>1. Unit(b) = 0
        <5>1. b \in Nat /\ UnitName(b) = "B"
          BY <1>2, <2>2
        <5>2. QED  BY <5>1, UnitIsB
      <4>2. KiloTo(Unit(b)) = 1
        BY <4>1, KiloFacts
      <4>3. (b * 10) \div 1 = b * 10
        OBVIOUS
      <4>4. (b * 10) % 10 = 0
        OBVIOUS
      <4>5. QED  BY <1>2, <4>2, <4>3, <4>4, TenthFacts
    <3>2. InBytes(w)
      BY <1>1, <1>2, <2>2 DEF SizeProgress
    <3>3. full = InDecimal(w) \o <<"B">>
      <4>1. PICK f : f = Format
        OBVIOUS
      <4>2. f = <<"%", "z", "u", "B", "NUL">>
        BY <3>2, <4>1 DEF InBytes
      <4>3. f[1] # "NUL" /\ f[4] # "NUL"
        BY <4>2
      <4>4. pos # 1 /\ pos # 4
        BY <4>1, <4>3
      <4>5. QED  BY <3>2, <4>4, Zenon DEF InBytes
    <3>4. InDecimal(w) \o point = InDecimal(w)
      BY <1>4, <2>1, <3>1, JoinEmpty
    <3>5. QED  BY <2>2, <3>3, <3>4
  <2>3. CASE u # "B" /\ t = 0
    <3>1. InUnits(w, u)
      BY <1>1, <1>2, <2>3 DEF SizeProgress
    <3>2. full = InDecimal(w) \o <<u>>
      <4>1. PICK f : f = Format
        OBVIOUS
      <4>2. f = <<"%", "z", "u", "%", "c", "NUL">>
        BY <3>1, <4>1 DEF InUnits
      <4>3. f[1] # "NUL" /\ f[4] # "NUL"
        BY <4>2
      <4>4. pos # 1 /\ pos # 4
        BY <4>1, <4>3
      <4>5. QED  BY <3>1, <4>4, Zenon DEF InUnits
    <3>3. InDecimal(w) \o point = InDecimal(w)
      BY <1>4, <2>1, <2>3, JoinEmpty
    <3>4. QED  BY <3>2, <3>3
  <2>4. CASE u # "B" /\ t # 0
    <3>1. InTenths(w, t, u)
      BY <1>1, <1>2, <2>4 DEF SizeProgress
    <3>2. full = ((InDecimal(w) \o <<".">>) \o InDecimal(t)) \o <<u>>
      <4>1. PICK f : f = Format
        OBVIOUS
      <4>2. f = <<"%", "z", "u", ".", "%", "z", "u", "%", "c", "NUL">>
        BY <3>1, <4>1 DEF InTenths
      <4>3. f[1] # "NUL" /\ f[4] # "NUL" /\ f[5] # "NUL" /\ f[8] # "NUL"
        BY <4>2
      <4>4. pos # 1 /\ pos # 4 /\ pos # 5 /\ pos # 8
        BY <4>1, <4>3
      <4>5. QED  BY <3>1, <4>4, Zenon DEF InTenths
    <3>3. (InDecimal(w) \o <<".">>) \o InDecimal(t) = InDecimal(w) \o point
      BY <1>3, <1>4, <2>1, <2>4, OneDigit, PointAndDigit
    <3>4. QED  BY <3>2, <3>3
  <2>5. QED  BY <2>2, <2>3, <2>4
<1>6. PICK v : v = CHOOSE k : IsUnit(call.count, k)
  OBVIOUS
<1>7. v = Unit(b)
  <2>1. IsUnit(b, Unit(b))
    BY UnitFacts
  <2>2. IsUnit(b, v)
    <3>1. IsUnit(call.count, Unit(b))
      BY <1>1, <2>1, Zenon
    <3>2. IsUnit(call.count, v)
      BY <1>6, <3>1, Zenon
    <3>3. QED  BY <1>1, <3>2, Zenon
  <2>3. QED  BY <2>1, <2>2, OneUnit
<1> DEFINE V == CHOOSE k \in 0..6 :
                  (k = 0 \/ Kilo^k <= call.count) /\ (k = 6 \/ call.count < Kilo^(k + 1))
           Tenths == (call.count * 10) \div Kilo^V
<1>8. V = v
  BY <1>6 DEF IsUnit, KiloTo
<1> HIDE DEF V
<1>9. Tenths = (b * 10) \div KiloTo(Unit(b))
  BY <1>1, <1>7, <1>8 DEF KiloTo
<1> HIDE DEF Tenths
<1>10. Tenths \div 10 = w /\ Tenths % 10 = t
  BY <1>2, <1>9, TenthFacts
<1>11. Units[V + 1] = u
  BY <1>2, <1>7, <1>8 DEF UnitName
<1>12. full = SizeText(Tenths, V)
  <2>1. point = IF Tenths % 10 = 0 THEN << >> ELSE <<".", Decimal[(Tenths % 10) + 1]>>
    BY <1>4, <1>10, Zenon
  <2>2. InDecimal(w) = CDigits(Tenths \div 10, 10, FALSE)
    BY <1>10, Zenon DEF InDecimal
  <2>3. QED  BY <1>5, <1>11, <2>1, <2>2, Zenon DEF SizeText
<1> DEFINE Exact == (call.count * 10) % Kilo^V = 0
<1>13. ASSUME ~Exact PROVE full # SizeText(Tenths + 1, V)
  <2>1. PICK a \in Nat \ {0} : a = KiloTo(Unit(b))
    <3>1. b \in Nat
      OBVIOUS
    <3>2. Unit(b) \in 0..6
      BY <3>1, UnitFacts DEF IsUnit
    <3>3. QED  BY <3>2, KiloFacts
  <2>2. (b * 10) % a # 0 /\ Tenths = (b * 10) \div a /\ w = b \div a
    BY <1>1, <1>2, <1>7, <1>8, <1>9, <1>13, <2>1 DEF KiloTo, Whole
  <2>3. w + 1 <= SizeMax
    BY <1>3, <2>1, <2>2, RoomAbove
  <2>4. Tenths \in Nat
    BY <2>1, <2>2
  <2>5. InTens(Tenths, w, t)
    BY <1>10 DEF InTens
  <2>6. SizeText(Tenths, V) # SizeText(Tenths + 1, V)
    BY <1>3, <2>3, <2>4, <2>5, OneMoreTenth
  <2>7. QED  BY <1>12, <2>6
<1>14. Exact \in BOOLEAN
  OBVIOUS
<1> DEFINE Documented == IF Exact THEN Tenths ELSE Tenths + 1
<1>15. full = SizeText(Documented, V) <=> Exact
  <2> HIDE DEF Exact
  <2>1. CASE Exact
    BY <1>12, <2>1
  <2>2. CASE ~Exact
    BY <1>13, <2>2
  <2>3. QED  BY <2>1, <2>2
<1>16. QED  BY <1>12, <1>15 DEF FormatSize, Exact, Documented, Tenths, V

(* The call has ended only where its format does. *)
EndsAtNul == status = "returned" => Format[pos] = "NUL"

LEMMA EndsAtNulNext == EndsAtNul /\ [Next]_vars => EndsAtNul'
<1> SUFFICES ASSUME EndsAtNul, [Next]_vars PROVE EndsAtNul'
  OBVIOUS
<1>1. CASE UNCHANGED vars
  BY <1>1 DEF vars, EndsAtNul, Format
<1>2. CASE Terminate
  BY <1>2 DEF Terminate, EndsAtNul, Format
<1>3. CASE Next /\ ~Terminate
  BY <1>3 DEF Next, PutLiteral, ConvertInteger, ConvertPointer, ConvertChar, ConvertString,
              ConvertOther, AtDirective, Running, EndsAtNul
<1>4. QED  BY <1>1, <1>2, <1>3

(* formatsize writes every size that a size_t can hold in the largest unit *)
(* it reaches, with one decimal: no step overflows and no digit is lost    *)
(* (memory.c:72).  The decimal is cut where memory.h:18 documents one that *)
(* is rounded up, so that the text is the documented one for the sizes     *)
(* that are a whole number of tenths and for no other.                     *)
THEOREM SizesAreRight == LibrarySpec => []FormatSize
<1> DEFINE I == SizeInv /\ EndsAtNul
<1>1. LibraryInit => I
  <2>1. Init => I
    BY SizeInvInit DEF Init, EndsAtNul
  <2>2. FormatterIdle => I
    <3> SUFFICES ASSUME FormatterIdle PROVE I
      OBVIOUS
    <3>1. call = NoCall /\ pos = 1
      BY DEF FormatterIdle
    <3>2. call.fn = "none" /\ call.format[1] = "NUL"
      BY <3>1 DEF NoCall
    <3>3. QED  BY <3>1, <3>2 DEF SizeInv, EndsAtNul, Format
  <2>3. QED  BY <2>1, <2>2 DEF LibraryInit
<1>2. I /\ [LibraryNext]_<<vars, memVars>> => I'
  BY SizeInvNext, EndsAtNulNext DEF LibraryNext
<1>3. I => FormatSize
  <2> SUFFICES ASSUME I, status = "returned", call.fn = "formatsize" PROVE FormatSize
    BY DEF FormatSize
  <2>1. Format[pos] = "NUL" /\ call \in Calls /\ SizeProgress(call.count)
    BY DEF EndsAtNul, SizeInv
  <2>2. QED  BY <2>1, SizeTextWritten
<1>4. QED  BY <1>1, <1>2, <1>3, PTL DEF LibrarySpec

(* The kernel's Kilo is 1024, and of the size that memory.h:18 documents   *)
(* formatsize makes 2.1K and not 2.2K.                                     *)
CutTo21K ==
  status = "returned" /\ call.fn = "formatsize" /\ call.count = 2200
  => full = <<"2", ".", "1", "K">>

LEMMA FourCharacters ==
  ASSUME NEW a, NEW b, NEW c, NEW d
  PROVE  <<a>> \o <<b, c>> \o <<d>> = <<a, b, c, d>>
<1>1. PICK p, q, e, g : p = <<a>> /\ q = <<b, c>> /\ e = <<d>> /\ g = <<a, b, c, d>>
  OBVIOUS
<1>2. /\ IsText(p) /\ Len(p) = 1 /\ p[1] = a /\ IsText(e) /\ Len(e) = 1 /\ e[1] = d
      /\ IsText(q) /\ Len(q) = 2 /\ q[1] = b /\ q[2] = c
  BY <1>1 DEF IsText
<1>3. IsText(g) /\ Len(g) = 4 /\ g[1] = a /\ g[2] = b /\ g[3] = c /\ g[4] = d
  BY <1>1 DEF IsText
<1>4. PICK f, h : f = p \o q /\ h = f \o e
  OBVIOUS
<1>5. Joins(f, p, q)
  BY <1>2, <1>4, Joined
<1>6. IsText(f) /\ Len(f) = 3 /\ f[1] = a /\ f[2] = b /\ f[3] = c
  BY <1>2, <1>5 DEF Joins
<1>7. Joins(h, f, e)
  BY <1>2, <1>4, <1>6, Joined
<1>8. IsText(h) /\ Len(h) = 4 /\ h[1] = a /\ h[2] = b /\ h[3] = c /\ h[4] = d
  BY <1>2, <1>6, <1>7 DEF Joins
<1>9. \A i \in 1..4 : h[i] = g[i]
  BY <1>3, <1>8
<1>10. h = g
  BY <1>3, <1>8, <1>9, EqualTexts
<1>11. QED  BY <1>1, <1>4, <1>10

LEMMA UnitOf2200 == ASSUME Kilo = 1024, NEW k, k = 1, NEW b, b = 2200 PROVE IsUnit(b, k)
<1>1. KiloTo(1) = 1024 /\ KiloTo(2) = 1024 * 1024
  BY KiloFacts
<1>2. QED  BY <1>1 DEF IsUnit

THEOREM DocumentedSizeIsCut == ASSUME Kilo = 1024 PROVE LibrarySpec => []CutTo21K
<1>1. ASSUME FormatSize, status = "returned", call.fn = "formatsize", call.count = 2200
      PROVE  full = <<"2", ".", "1", "K">>
  <2>1. PICK b \in Nat, k \in Nat : b = 2200 /\ k = 1
    OBVIOUS
  <2>2. IsUnit(b, k)
    BY <2>1, UnitOf2200
  <2>3. PICK v : v = CHOOSE i : IsUnit(call.count, i)
    OBVIOUS
  <2>4. v = k
    <3>1. call.count = b
      BY <1>1, <2>1
    <3>2. IsUnit(call.count, k)
      BY <2>2, <3>1, Zenon
    <3>3. IsUnit(call.count, v)
      BY <2>3, <3>2, Zenon
    <3>4. IsUnit(b, v)
      BY <3>1, <3>3, Zenon
    <3>5. QED  BY <2>1, <2>2, <3>4, OneUnit
  <2> DEFINE V == CHOOSE u \in 0..6 :
                    (u = 0 \/ Kilo^u <= call.count) /\ (u = 6 \/ call.count < Kilo^(u + 1))
  <2>5. V = v
    BY <2>3 DEF IsUnit, KiloTo
  <2>6. full = SizeText((call.count * 10) \div Kilo^V, V)
    BY <1>1 DEF FormatSize
  <2> HIDE DEF V
  <2>7. PICK n, m : n = (call.count * 10) \div Kilo^V /\ m = V + 1
    OBVIOUS
  <2>8. n = 21 /\ m = 2
    <3>1. Kilo^V = Kilo /\ V = 1
      BY KiloFacts, <2>1, <2>4, <2>5 DEF KiloTo
    <3>2. 22000 \div 1024 = 21
      OBVIOUS
    <3>3. QED  BY <1>1, <2>7, <3>1, <3>2
  <2>9. PICK w \in 0..9, t \in 0..9 : w = n \div 10 /\ t = n % 10 /\ w = 2 /\ t = 1
    BY <2>8
  <2>10. CDigits(w, 10, FALSE) = <<Decimal[w + 1]>>
    BY OneDigit DEF InDecimal
  <2>11. full = SizeText(n, V)
    BY <2>6, <2>7
  <2>12. full = <<Decimal[w + 1]>> \o <<".", Decimal[t + 1]>> \o <<Units[m]>>
    <3>1. (IF n % 10 = 0 THEN << >> ELSE <<".", Decimal[(n % 10) + 1]>>) = <<".", Decimal[t + 1]>>
      BY <2>9
    <3>2. CDigits(n \div 10, 10, FALSE) = <<Decimal[w + 1]>>
      BY <2>9, <2>10, Zenon
    <3>3. Units[V + 1] = Units[m]
      BY <2>7
    <3>4. QED  BY <2>11, <3>1, <3>2, <3>3, Zenon DEF SizeText
  <2>13. full = <<Decimal[w + 1], ".", Decimal[t + 1], Units[m]>>
    BY <2>12, FourCharacters
  <2>14. Decimal[w + 1] = "2" /\ Decimal[t + 1] = "1" /\ Units[m] = "K"
    BY <2>8, <2>9 DEF Decimal, Units
  <2>15. QED  BY <2>13, <2>14
<1>2. FormatSize => CutTo21K
  BY <1>1 DEF CutTo21K
<1>3. QED  BY <1>2, SizesAreRight, PTL
=============================================================================
