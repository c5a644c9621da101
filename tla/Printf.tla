------------------------------- MODULE Printf -------------------------------
(***************************************************************************)
(* Formatted output, kernel/src/utils/printf.c, and formatsize of memory.c *)
(* which calls it.                                                         *)
(*                                                                         *)
(* A character is a string, a format a sequence of them that ends in       *)
(* "NUL", and va_arg takes the next element of va: an integer, as the      *)
(* 64-bit register that holds it, or an array of characters.  A step is    *)
(* one round of the loop in _vsnprintf: a character copied or a directive  *)
(* read and converted.  %f, %e and %g are not compiled (SFLOAT is defined  *)
(* nowhere), so they are unknown directives.  long long is as wide as long.*)
(***************************************************************************)
EXTENDS Integers, Sequences

CONSTANTS
  CharBits, ShortBits, IntBits, LongBits,  \* widths of the integer types
  PRINTF_NTOA_BUFFER_SIZE,
  Kilo,      \* formatsize's 1024
  MemSize,   \* bytes of memory that start with the caller's buffer
  Calls      \* the calls to study: [fn, format, va, count]

VARIABLES
  call,    \* the call in progress
  pos,     \* index in the format of the next character
  va,      \* arguments not taken yet
  idx,     \* characters produced so far
  mem,     \* the memory that starts with the buffer
  shown,   \* characters given to _putchar, or to fctprintf's function
  status,  \* "running", "returned", or "overrun": beyond the format
  last,    \* the last conversion as the code and as C read it, and its
           \* text                                        (for properties)
  full     \* all the characters produced                (for properties)

vars == <<call, pos, va, idx, mem, shown, status, last, full>>

SizeMax == 2^LongBits - 1
IntegerSpecs == {"d", "i", "u", "x", "X", "o", "b"}
Decimal == <<"0", "1", "2", "3", "4", "5", "6", "7", "8", "9">>
LowerHex == Decimal \o <<"a", "b", "c", "d", "e", "f">>
UpperHex == Decimal \o <<"A", "B", "C", "D", "E", "F">>
IsDigit == {Decimal[i] : i \in 1..10}
DigitValue(c) == (CHOOSE i \in 1..10 : Decimal[i] = c) - 1
Flag == [c \in {"0", "-", "+", "SP", "#"} |->
           CASE c = "0" -> "ZEROPAD" [] c = "-" -> "LEFT" [] c = "+" -> "PLUS"
             [] c = "SP" -> "SPACE" [] c = "#" -> "HASH"]

Repeat(c, n) == [i \in 1..n |-> c]
Reversed(s) == [i \in DOMAIN s |-> s[Len(s) + 1 - i]]
AtMost(a, b) == IF a < b THEN a ELSE b
AtLeast(a, b) == IF a > b THEN a ELSE b

Signed(n, bits) ==
  LET low == n % 2^bits IN IF low < 2^(bits - 1) THEN low ELSE low - 2^bits
Unsigned(n, bits) == n % 2^bits

(* A format is an array of characters with a NUL, its va_list an array,    *)
(* and a count a size_t.  That powers of two are positive is stated here   *)
(* because the prover knows no powers.                                     *)
ASSUME PrintfAssumption ==
  /\ {PRINTF_NTOA_BUFFER_SIZE, LongBits} \subseteq Nat \ {0} /\ MemSize \in Nat
  /\ {2^CharBits, 2^ShortBits, 2^IntBits, 2^LongBits} \subseteq Nat \ {0}
  /\ \A c \in Calls :
       /\ c.format \in Seq(STRING) /\ c.format # << >>
       /\ c.format[Len(c.format)] = "NUL"
       /\ Len(c.va) \in Nat /\ c.va = [k \in 1..Len(c.va) |-> c.va[k]]
       /\ c.fn \in {"snprintf", "vsnprintf"} => c.count \in 0..SizeMax
-----------------------------------------------------------------------------
(* Variants with one plausible mistake each, never used below. *)
Terminator_NotClamped(i, maxlen) == i
AppendChar_Unchecked(buf, c) == Append(buf, c)
GoesOn_PrecisionIgnored(p, k, maxsize) == k <= Len(p) /\ p[k] # "NUL"
Unit_Late(bytes) ==
  CHOOSE u \in 0..6 :
    /\ u = 6 \/ bytes \div Kilo^u <= Kilo
    /\ \A k \in 0..u - 1 : bytes \div Kilo^k > Kilo
-----------------------------------------------------------------------------
(* Reading a directive.                                                    *)

Format == call.format

(* First position from i on whose character is not in S. *)
SkipAll(i, S) ==
  CHOOSE j \in i..Len(Format) :
    Format[j] \notin S /\ \A k \in i..j - 1 : Format[k] \in S

(* _atoi of the characters from i to j - 1, in an unsigned int. *)
atoi(i, j) ==
  LET value[k \in i - 1..j - 1] ==
        IF k < i THEN 0
        ELSE (value[k - 1] * 10 + DigitValue(Format[k])) % 2^IntBits
  IN  value[j - 1]

(* A width is digits, or "*" for the next argument; a negative argument    *)
(* means left-justified.                                                   *)
WidthField(i, args) ==
  IF Format[i] = "*"
  THEN LET w == Signed(args[1], IntBits)
       IN  [n |-> IF w < 0 THEN -w ELSE w, next |-> i + 1, args |-> Tail(args),
            flags |-> IF w < 0 THEN {"LEFT"} ELSE {}]
  ELSE LET j == SkipAll(i, IsDigit)
       IN  [n |-> atoi(i, j), next |-> j, args |-> args, flags |-> {}]

(* A precision is a dot and the same, but a negative one counts as zero. *)
PrecisionField(i, args) ==
  IF Format[i] # "." THEN [n |-> 0, next |-> i, args |-> args, flags |-> {}]
  ELSE IF Format[i + 1] = "*"
       THEN [n |-> AtLeast(Signed(args[1], IntBits), 0), next |-> i + 2,
             args |-> Tail(args), flags |-> {"PRECISION"}]
       ELSE LET j == SkipAll(i + 1, IsDigit)
            IN  [n |-> atoi(i + 1, j), next |-> j, args |-> args,
                 flags |-> {"PRECISION"}]

(* l, ll, h, hh; t, j and z are as wide as long. *)
LengthField(i) ==
  LET twice == Format[i + 1] = Format[i]
  IN  CASE Format[i] = "l" ->
             [flags |-> {"LONG"} \cup (IF twice THEN {"LONG_LONG"} ELSE {}),
              next |-> IF twice THEN i + 2 ELSE i + 1]
        [] Format[i] = "h" ->
             [flags |-> {"SHORT"} \cup (IF twice THEN {"CHAR"} ELSE {}),
              next |-> IF twice THEN i + 2 ELSE i + 1]
        [] Format[i] \in {"t", "j", "z"} -> [flags |-> {"LONG"}, next |-> i + 1]
        [] OTHER -> [flags |-> {}, next |-> i]

(* The directive that begins behind the percent sign at pos. *)
Directive ==
  LET j == SkipAll(pos + 1, DOMAIN Flag)
      w == WidthField(j, va)
      p == PrecisionField(w.next, w.args)
      l == LengthField(p.next)
  IN  [flags |-> {Flag[Format[k]] : k \in pos + 1..j - 1}
                 \cup w.flags \cup p.flags \cup l.flags,
       width |-> w.n, prec |-> p.n, args |-> p.args,
       at |-> l.next, spec |-> Format[l.next]]

(* What it is to C, where a negative precision counts as none (7.21.6.1):  *)
(* only the properties look at that.                                       *)
PrecisionIsNegative ==
  LET w == WidthField(SkipAll(pos + 1, DOMAIN Flag), va)
  IN  Format[w.next] = "." /\ Format[w.next + 1] = "*" /\ Signed(w.args[1], IntBits) < 0

CDirective ==
  IF PrecisionIsNegative THEN [Directive EXCEPT !.flags = @ \ {"PRECISION"}] ELSE Directive
-----------------------------------------------------------------------------
(* Converting an integer.  The buffer of PRINTF_NTOA_BUFFER_SIZE holds its *)
(* characters in reverse.                                                  *)

(* buf[len++] = c where the code checks len first. *)
AppendChar(buf, c) ==
  IF Len(buf) < PRINTF_NTOA_BUFFER_SIZE THEN Append(buf, c) ELSE buf

(* The loops that append zeros while len is below n. *)
ZerosUpTo(buf, n) ==
  buf \o Repeat("0", AtLeast(AtMost(n, PRINTF_NTOA_BUFFER_SIZE) - Len(buf), 0))

(* _out_rev: spaces in front, the buffer reversed, spaces behind. *)
Widening(len, width, flags) ==
  IF {"LEFT", "ZEROPAD"} \cap flags # {} THEN 0 ELSE AtLeast(width - len, 0)

out_rev(buf, width, flags) ==
  LET front == Repeat("SP", Widening(Len(buf), width, flags)) \o Reversed(buf)
  IN  IF "LEFT" \in flags
      THEN front \o Repeat("SP", AtLeast(width - Len(front), 0)) ELSE front

(* The zeros of the precision and of a zero-padded width. *)
PadZeros(buf, prec, width, flags) ==
  CASE "LEFT" \in flags -> buf
    [] {"LEFT", "ZEROPAD"} \cap flags = {"ZEROPAD"} -> ZerosUpTo(ZerosUpTo(buf, prec), width)
    [] OTHER -> ZerosUpTo(buf, prec)

(* Room for the prefix is made by dropping one or two of the last          *)
(* characters when they fill the precision or the width exactly.           *)
PutPrefix(buf, base, prec, width, flags) ==
  LET n == Len(buf)
      cut == IF "PRECISION" \notin flags /\ n > 0 /\ n \in {prec, width}
             THEN IF base = 16 /\ n > 1 THEN 2 ELSE 1
             ELSE 0
      kept == SubSeq(buf, 1, n - cut)
      lettered == CASE base = 16 -> AppendChar(kept, IF "UPPERCASE" \in flags THEN "X" ELSE "x")
                    [] base = 2 -> AppendChar(kept, "b")
                    [] OTHER -> kept
  IN  IF "HASH" \in flags THEN AppendChar(lettered, "0") ELSE buf

PutSign(buf, negative, flags) ==
  CASE negative -> AppendChar(buf, "-")
    [] ~negative /\ "PLUS" \in flags -> AppendChar(buf, "+")
    [] ~negative /\ "PLUS" \notin flags /\ "SPACE" \in flags -> AppendChar(buf, "SP")
    [] OTHER -> buf

ntoa_format(buf, negative, base, prec, width, flags) ==
  LET narrowed == IF /\ "LEFT" \notin flags /\ "ZEROPAD" \in flags /\ width > 0
                     /\ negative \/ (flags \cap {"PLUS", "SPACE"} # {})
                  THEN width - 1 ELSE width
      prefixed == PutPrefix(PadZeros(buf, prec, narrowed, flags), base, prec, narrowed, flags)
  IN  out_rev(PutSign(prefixed, negative, flags), narrowed, flags)

(* The digits of value, last one first, as many as the buffer takes. *)
DigitsReversed(value, base, flags) ==
  LET n == CHOOSE n \in 1..PRINTF_NTOA_BUFFER_SIZE :
             /\ n = PRINTF_NTOA_BUFFER_SIZE \/ value \div base^n = 0
             /\ \A k \in 1..n - 1 : value \div base^k # 0
      digit == IF "UPPERCASE" \in flags THEN UpperHex ELSE LowerHex
  IN  [i \in 1..n |-> digit[((value \div base^(i - 1)) % base) + 1]]

ntoa_long(value, negative, base, prec, width, flags) ==
  ntoa_format(
    IF "PRECISION" \in flags /\ value = 0 THEN << >>
    ELSE DigitsReversed(value, base, flags),
    negative, base, prec, width, IF value = 0 THEN flags \ {"HASH"} ELSE flags)

ntoa_long_long(value, negative, base, prec, width, flags) ==
  ntoa_long(value, negative, base, prec, width, flags)

(* What va_arg and the casts make of an argument.  Negating the least      *)
(* integer gives that integer again in every build, which is its           *)
(* magnitude once unsigned.                                                *)
BitsOf(flags) ==
  IF "LONG" \in flags THEN LongBits
  ELSE IF "CHAR" \in flags THEN CharBits
  ELSE IF "SHORT" \in flags THEN ShortBits ELSE IntBits

Magnitude(v, bits) == IF v < 0 THEN Unsigned(-v, bits) ELSE v

Base(spec) == CASE spec \in {"x", "X"} -> 16 [] spec = "o" -> 8 [] spec = "b" -> 2 [] OTHER -> 10

IntegerFlags(d) ==
  (d.flags \cup (IF d.spec = "X" THEN {"UPPERCASE"} ELSE {}))
  \ ((IF Base(d.spec) = 10 THEN {"HASH"} ELSE {})
     \cup (IF d.spec \in {"d", "i"} THEN {} ELSE {"PLUS", "SPACE"})
     \cup (IF "PRECISION" \in d.flags THEN {"ZEROPAD"} ELSE {}))

IntegerText(d, arg) ==
  LET bits == BitsOf(d.flags)
      v == IF d.spec \in {"d", "i"} THEN Signed(arg, bits) ELSE Unsigned(arg, bits)
      ntoa(m) == IF "LONG_LONG" \in d.flags
                 THEN ntoa_long_long(m, v < 0, Base(d.spec), d.prec, d.width, IntegerFlags(d))
                 ELSE ntoa_long(m, v < 0, Base(d.spec), d.prec, d.width, IntegerFlags(d))
  IN  ntoa(Magnitude(v, bits))

(* %p: a fixed width of two digits a byte, in capitals, without prefix. *)
PointerText(d, arg) ==
  ntoa_long_long(Unsigned(arg, LongBits), FALSE, 16, d.prec, LongBits \div 4,
                 d.flags \cup {"ZEROPAD", "UPPERCASE"})

(* Spaces before or behind a character or a string of n characters. *)
Justified(text, d) ==
  LET spaces == Repeat("SP", AtLeast(d.width - Len(text), 0))
  IN  IF "LEFT" \in d.flags THEN text \o spaces ELSE spaces \o text

(* The two loops over a string look at a character and then at how many    *)
(* are left of maxsize, and go on unless it is the NUL or none is left.    *)
GoesOn(p, k, maxsize) == k <= Len(p) /\ p[k] # "NUL" /\ k <= maxsize

CharsRead(p, maxsize) ==
  LET stop[k \in 1..Len(p) + 1] == IF GoesOn(p, k, maxsize) THEN stop[k + 1] ELSE k
  IN  stop[1]

strnlen_s(p, maxsize) == CharsRead(p, maxsize) - 1

(* A precision of zero does not limit the length, but it does the copy. *)
LengthLimit(d) == IF d.prec # 0 THEN d.prec ELSE SizeMax
CopyLimit(d) == IF "PRECISION" \in d.flags THEN d.prec ELSE SizeMax

StringText(d, p) ==
  LET l == strnlen_s(p, LengthLimit(d))
  IN  Justified(SubSeq(p, 1, IF "PRECISION" \in d.flags THEN AtMost(l, d.prec) ELSE l), d)

(* The length and the copy each read the string from its first character. *)
StringRead(d, p) == AtLeast(CharsRead(p, LengthLimit(d)), CharsRead(p, CopyLimit(d)))
-----------------------------------------------------------------------------
(* Output.                                                                 *)

ToBuffer == call.fn \in {"sprintf", "snprintf", "vsnprintf", "formatsize"}
ToScreen == call.fn \in {"printf", "vprintf", "fctprintf"}

(* The wrappers pass count, or the largest size_t. *)
MaxLen == IF call.fn \in {"snprintf", "vsnprintf"} THEN call.count ELSE SizeMax

(* _out_buffer writes only below maxlen.  snprintf_ with a null buffer     *)
(* goes through _out_null.                                                 *)
out_buffer(i, maxlen) == i < maxlen

Put(text) ==
  /\ idx' = idx + Len(text)
  /\ full' = full \o text
  /\ mem' = [i \in DOMAIN mem |->
               IF ToBuffer /\ i \in idx..idx + Len(text) - 1 /\ out_buffer(i, MaxLen)
               THEN text[i - idx + 1] ELSE mem[i]]
  /\ shown' = IF ToScreen
              THEN shown \o SelectSeq(text, LAMBDA c : c # "NUL") ELSE shown

Running == status = "running"

(* A character other than the percent sign is copied. *)
CopiedAsIs(c) == c \notin {"%", "NUL"}

PutLiteral ==
  /\ Running /\ CopiedAsIs(Format[pos])
  /\ Put(<<Format[pos]>>)
  /\ pos' = pos + 1
  /\ UNCHANGED <<call, va, status, last>>

AtDirective == Running /\ Format[pos] = "%"

(* The text of the directive d, which took the arguments before rest. *)
Converted(d, text, rest) ==
  /\ Put(text)
  /\ pos' = d.at + 1
  /\ va' = rest
  /\ last' = [d |-> d, c |-> CDirective,
              arg |-> IF rest = d.args THEN 0 ELSE d.args[1], text |-> text,
              read |-> IF d.spec = "s" THEN StringRead(d, d.args[1]) ELSE 0]
  /\ UNCHANGED call

ConvertInteger ==
  /\ AtDirective /\ Directive.spec \in IntegerSpecs
  /\ Converted(Directive, IntegerText(Directive, Directive.args[1]), Tail(Directive.args))
  /\ UNCHANGED status

ConvertPointer ==
  /\ AtDirective /\ Directive.spec = "p"
  /\ Converted(Directive, PointerText(Directive, Directive.args[1]), Tail(Directive.args))
  /\ UNCHANGED status

ConvertChar ==
  /\ AtDirective /\ Directive.spec = "c"
  /\ Converted(Directive, Justified(<<Directive.args[1]>>, Directive), Tail(Directive.args))
  /\ UNCHANGED status

ConvertString ==
  /\ AtDirective /\ Directive.spec = "s"
  /\ Converted(Directive, StringText(Directive, Directive.args[1]), Tail(Directive.args))
  /\ UNCHANGED status

(* %% and an unknown directive print their last character; when the format *)
(* ends inside a directive that is the NUL, and the loop goes on behind it.*)
ConvertOther ==
  /\ AtDirective /\ Directive.spec \notin IntegerSpecs \cup {"p", "c", "s"}
  /\ Converted(Directive, <<Directive.spec>>, Directive.args)
  /\ status' = IF Directive.spec = "NUL" THEN "overrun" ELSE status

(* The NUL goes behind the text, or over the last place of the buffer. *)
Terminator(i, maxlen) == IF i < maxlen THEN i ELSE (maxlen - 1) % (SizeMax + 1)

Terminate ==
  /\ Running /\ Format[pos] = "NUL"
  /\ LET end == Terminator(idx, MaxLen)
     IN  mem' = [i \in DOMAIN mem |->
                   IF ToBuffer /\ i = end /\ out_buffer(end, MaxLen) THEN "NUL" ELSE mem[i]]
  /\ status' = "returned"
  /\ UNCHANGED <<call, pos, va, idx, shown, last, full>>
-----------------------------------------------------------------------------
(* formatsize divides by 1024 until less is left; the last unit is E. *)
Units == <<"B", "K", "M", "G", "T", "P", "E">>

Unit(bytes) ==
  CHOOSE u \in 0..6 :
    /\ u = 6 \/ bytes \div Kilo^u < Kilo
    /\ \A k \in 0..u - 1 : bytes \div Kilo^k >= Kilo

(* The call of sprintf_ that formatsize(to, bytes) makes. *)
formatsize(bytes) ==
  LET divisor == Kilo^Unit(bytes)
      whole == bytes \div divisor
      tenth == (((bytes % divisor) * 10) % (SizeMax + 1)) \div divisor
      unit == Units[Unit(bytes) + 1]
  IN  [fn |-> "formatsize", count |-> bytes,
       format |-> CASE unit = "B" -> <<"%", "z", "u", "B", "NUL">>
                    [] unit # "B" /\ tenth = 0 -> <<"%", "z", "u", "%", "c", "NUL">>
                    [] OTHER -> <<"%", "z", "u", ".", "%", "z", "u", "%", "c", "NUL">>,
       va |-> CASE unit = "B" -> <<bytes>>
                [] unit # "B" /\ tenth = 0 -> <<whole, unit>>
                [] OTHER -> <<whole, tenth, unit>>]

(* formatsize gets a size_t.  One of those is not too long for the buffer  *)
(* of a conversion, and takes ten times the largest unit, as with 64 bits  *)
(* and 1024.  Powers are as they are, which the prover does not know.      *)
ASSUME SizeAssumption ==
  /\ \A c \in Calls :
       c.fn = "formatsize" => c.count \in 0..SizeMax /\ c = formatsize(c.count)
  /\ Kilo \in Nat /\ Kilo > 1 /\ Kilo^0 = 1 /\ 10^0 = 1 /\ 10^1 = 10
  /\ \A u \in 0..6 : Kilo^u \in Nat \ {0} /\ Kilo^(u + 1) = Kilo * Kilo^u
  /\ 10 * Kilo^6 <= SizeMax + 1
  /\ \E n \in 1..AtMost(LongBits, PRINTF_NTOA_BUFFER_SIZE) :
       10^n \in Nat /\ 10^n > SizeMax

(* Every integer type has a sign bit and is no wider than long, and the    *)
(* digits of a long are no more than its bits, as are those of C.          *)
ASSUME PowersAssumption ==
  /\ \A bits \in {CharBits, ShortBits, IntBits, LongBits} :
       2^(bits - 1) \in Nat \ {0} /\ 2^bits <= 2^LongBits
  /\ \A base \in {2, 8, 10, 16} :
       /\ base^0 = 1
       /\ \E n \in 1..LongBits :
            /\ base^n \in Nat /\ base^n > SizeMax
            /\ \A k \in 0..n - 1 : base^k \in Nat \ {0} /\ base^(k + 1) = base * base^k

Init ==
  /\ call \in Calls
  /\ pos = 1
  /\ va = call.va
  /\ idx = 0
  /\ mem = [i \in 0..MemSize - 1 |-> "old"]
  /\ shown = << >>
  /\ status = "running"
  /\ last = << >>
  /\ full = << >>

Next ==
  \/ PutLiteral
  \/ ConvertInteger
  \/ ConvertPointer
  \/ ConvertChar
  \/ ConvertString
  \/ ConvertOther
  \/ Terminate

Spec == Init /\ [][Next]_vars
-----------------------------------------------------------------------------
(* What the attribute on the declarations asks of callers (printf.h:64):   *)
(* each directive finds the arguments that it takes, a string ends with a  *)
(* NUL or is as long as the precision, and no longer than a size_t counts. *)
IsString(p, limit) ==
  /\ p \in Seq(STRING) /\ Len(p) <= SizeMax
  /\ (\E k \in DOMAIN p : p[k] = "NUL") \/ (limit # 0 /\ limit <= Len(p))

ArgumentsMatch ==
  AtDirective =>
    LET IsInteger(args) == args # << >> /\ args[1] \in Int
        j == SkipAll(pos + 1, DOMAIN Flag)
        w == WidthField(j, va)
        d == Directive
    IN  /\ Format[j] = "*" => IsInteger(va)
        /\ Format[w.next] = "." /\ Format[w.next + 1] = "*" => IsInteger(w.args)
        /\ d.spec \in IntegerSpecs \cup {"p"} => IsInteger(d.args)
        /\ d.spec = "c" => d.args # << >>
        /\ d.spec = "s" => d.args # << >> /\ IsString(d.args[1], d.prec)

(* The variables keep their types, the arguments are those the directives  *)
(* take, and the format is not read behind its end while the call runs.    *)
TypeOK ==
  /\ ArgumentsMatch /\ Len(va) <= Len(call.va)
  /\ status \in {"running", "returned", "overrun"}
  /\ status # "overrun" => pos \in DOMAIN Format
  /\ idx = Len(full)
  /\ DOMAIN mem = 0..MemSize - 1

(* snprintf_ writes no byte at or behind count, whatever the format and    *)
(* however the conversions pad (printf.h:173).                             *)
NothingBeyondCount == \A i \in DOMAIN mem : i >= MaxLen => mem[i] = "old"

(* At every moment nothing is written at or behind count.  When the call   *)
(* returns, the buffer holds the beginning of the whole text, as much as   *)
(* fits before a NUL, and nothing else was written; the result is the      *)
(* length of the whole text, so that a caller can notice.                  *)
TruncatedLikeC ==
  /\ TypeOK
  /\ NothingBeyondCount
  /\ status = "returned" /\ ToBuffer /\ MaxLen > 0 =>
       LET n == AtMost(Len(full), MaxLen - 1)
       IN  \A i \in DOMAIN mem :
             mem[i] = CASE i < n -> full[i + 1] [] i = n -> "NUL" [] i > n -> "old"

(* %s reads what C lets it read of its string, to the NUL or as many       *)
(* characters as the precision that C sees, unless the precision comes     *)
(* first.  Then it reads one character too many, which an array of just    *)
(* that size does not have; and if the precision is zero, all up to a NUL. *)
ReadsLikeC ==
  last # << >> /\ last.d.spec = "s" =>
    LET p == last.arg
        cut == "PRECISION" \in last.c.flags /\ \A k \in 1..last.c.prec : p[k] # "NUL"
    IN  IF cut /\ last.c.prec # 0 THEN last.read = last.c.prec + 1
        ELSE p[last.read] = "NUL" /\ \A k \in 1..last.read - 1 : p[k] # "NUL"

(* What the C standard says of an integer conversion, with b for binary    *)
(* as in C23.                                                              *)
CDigits(m, base, upper) ==
  LET n == CHOOSE n \in 1..LongBits : m \div base^n = 0 /\ \A k \in 1..n - 1 : m \div base^k # 0
      digit == IF upper THEN UpperHex ELSE LowerHex
  IN  [i \in 1..n |-> digit[((m \div base^(n - i)) % base) + 1]]

(* formatsize writes the size in the largest unit it reaches, with one     *)
(* decimal that is left out when it is zero.  memory.h:18 has "2200        *)
(* becomes 2.2K", that is, 2.148K rounded up; the code cuts the decimal    *)
(* and writes 2.1K, so that its text is the documented one just for the    *)
(* sizes that are a whole number of tenths.                                *)
SizeText(tenths, u) ==
  CDigits(tenths \div 10, 10, FALSE)
  \o (IF tenths % 10 = 0 THEN << >> ELSE <<".", Decimal[(tenths % 10) + 1]>>)
  \o <<Units[u + 1]>>

FormatSize ==
  status = "returned" /\ call.fn = "formatsize" =>
    LET bytes == call.count
        u == CHOOSE u \in 0..6 :
               /\ u = 0 \/ Kilo^u <= bytes
               /\ u = 6 \/ bytes < Kilo^(u + 1)
        cut == (bytes * 10) \div Kilo^u
        exact == (bytes * 10) % Kilo^u = 0
        documented == IF exact THEN cut ELSE cut + 1
    IN  /\ full = SizeText(cut, u)
        /\ full = SizeText(documented, u) <=> exact

CValue(d, arg) ==
  IF d.spec \in {"d", "i"} THEN Signed(arg, BitsOf(d.flags)) ELSE Unsigned(arg, BitsOf(d.flags))
CMagnitude(d, arg) == LET v == CValue(d, arg) IN IF v < 0 THEN -v ELSE v
CDigitsOf(d, arg) ==
  LET m == CMagnitude(d, arg)
  IN  IF "PRECISION" \in d.flags /\ d.prec = 0 /\ m = 0 THEN << >>
      ELSE CDigits(m, Base(d.spec), d.spec = "X")

(* The number with its sign, prefix and zeros, without spaces. *)
CNumber(d, arg) ==
  LET has(f) == f \in d.flags
      v == CValue(d, arg)
      digits == CDigitsOf(d, arg)
      padded == Repeat("0", AtLeast(d.prec - Len(digits), 0)) \o digits
      body == IF has("HASH") /\ d.spec = "o" /\ (padded = << >> \/ padded[1] # "0")
              THEN <<"0">> \o padded ELSE padded
      front == CASE v < 0 -> <<"-">>
                 [] d.spec \in {"d", "i"} /\ v >= 0 /\ has("PLUS") -> <<"+">>
                 [] d.spec \in {"d", "i"} /\ v >= 0 /\ has("SPACE") /\ ~has("PLUS") -> <<"SP">>
                 [] has("HASH") /\ v # 0 /\ d.spec \in {"x", "X", "b"} -> <<"0", d.spec>>
                 [] OTHER -> << >>
      zeros == IF has("ZEROPAD") /\ ~has("LEFT") /\ ~has("PRECISION")
               THEN AtLeast(d.width - Len(front \o body), 0) ELSE 0
  IN  front \o Repeat("0", zeros) \o body

CText(d, arg) ==
  CASE d.spec \in IntegerSpecs -> Justified(CNumber(d, arg), d)
    [] d.spec = "c" -> Justified(<<arg>>, d)
    [] d.spec = "s" ->
         LET n == CHOOSE n \in 0..Len(arg) :
                    /\ ("PRECISION" \in d.flags /\ n = d.prec) \/ arg[n + 1] = "NUL"
                    /\ \A k \in 1..n : arg[k] # "NUL" /\ ("PRECISION" \in d.flags => k <= d.prec)
         IN  Justified(SubSeq(arg, 1, n), d)
    [] d.spec = "%" -> <<"%">>

(* The integer conversions whose text is not C's: the number is longer     *)
(* than the conversion buffer and loses its front.  That does not show if  *)
(* all it loses is the blank for the sign, and the width gives it back.    *)
CutToBuffer(d, arg) ==
  LET number == CNumber(d, arg)
      restored == /\ Len(number) = PRINTF_NTOA_BUFFER_SIZE + 1 /\ number[1] = "SP"
                  /\ d.width > PRINTF_NTOA_BUFFER_SIZE
                  /\ {"LEFT", "ZEROPAD"} \cap IntegerFlags(d) = {}
  IN  Len(number) > PRINTF_NTOA_BUFFER_SIZE /\ ~restored

(* Left-justified numbers miss the zeros of the precision; an octal prefix *)
(* stands in for one of them.                                              *)
PrecisionLostWhenLeft(d, arg) ==
  LET m == CMagnitude(d, arg)
      n == IF m = 0 THEN 0 ELSE Len(CDigitsOf(d, arg))
      prefix == IF d.spec = "o" /\ "HASH" \in d.flags /\ m # 0 THEN 1 ELSE 0
  IN  {"LEFT", "PRECISION"} \subseteq d.flags /\ d.prec > n + prefix

(* The room for a prefix is taken from the number's own digits. *)
DigitsLostToPrefix(d, arg) ==
  LET n == Len(CDigitsOf(d, arg))
  IN  /\ "HASH" \in d.flags /\ "PRECISION" \notin d.flags
      /\ Base(d.spec) # 10 /\ CMagnitude(d, arg) # 0
      /\ \/ d.width = n
         \/ Base(d.spec) = 16 /\ d.width = n + 1 /\ {"LEFT", "ZEROPAD"} \cap d.flags = {"ZEROPAD"}

(* A zero-padded binary number leaves room for one character of "0b". *)
BinaryOneTooWide(d, arg) ==
  /\ d.spec = "b" /\ {"HASH", "LEFT", "ZEROPAD", "PRECISION"} \cap d.flags = {"HASH", "ZEROPAD"}
  /\ CMagnitude(d, arg) # 0 /\ d.width > Len(CDigitsOf(d, arg)) + 1

(* An octal prefix is put before zeros, if it fits, but not before nothing. *)
OctalZero(d, arg) ==
  /\ d.spec = "o" /\ {"HASH", "PRECISION"} \subseteq d.flags
  /\ \/ /\ d.prec > Len(CDigitsOf(d, arg)) /\ d.prec < PRINTF_NTOA_BUFFER_SIZE
        /\ CMagnitude(d, arg) # 0
        /\ "LEFT" \notin d.flags
     \/ d.prec = 0 /\ CMagnitude(d, arg) = 0

Exceptional(d, arg) ==
  /\ d.spec \in IntegerSpecs
  /\ \/ CutToBuffer(d, arg) \/ PrecisionLostWhenLeft(d, arg) \/ DigitsLostToPrefix(d, arg)
     \/ BinaryOneTooWide(d, arg) \/ OctalZero(d, arg)

(* A precision from a negative argument counts as zero and not as omitted: *)
(* the number zero has no digit then, others are not padded with zeros,    *)
(* and of a string nothing is printed, which shows unless all of it is     *)
(* blanks that the width gives back.                                       *)
NegativeIsZero(d, c, arg) ==
  /\ "PRECISION" \in d.flags \ c.flags
  /\ \/ d.spec \in IntegerSpecs /\ CMagnitude(d, arg) = 0
     \/ /\ d.spec \in IntegerSpecs /\ {"LEFT", "ZEROPAD"} \cap d.flags = {"ZEROPAD"}
        /\ d.width > Len(CNumber(d, arg))
     \/ /\ d.spec = "s"
        /\ \E n \in 1..Len(arg) :
             (\A k \in 1..n : arg[k] # "NUL") /\ (arg[n] # "SP" \/ n > d.width)

(* Every conversion of an integer, a character or a string yields the text *)
(* the C standard prescribes for the directive and arguments as the caller *)
(* wrote them, except in the six cases above, where it always differs      *)
(* (printf.h:121, 143 and 166).                                            *)
AgreesWithC ==
  last # << >> /\ last.d.spec \in IntegerSpecs \cup {"c", "s", "%"} =>
    (last.text = CText(last.c, last.arg)
     <=> ~Exceptional(last.d, last.arg) /\ ~NegativeIsZero(last.d, last.c, last.arg))
=============================================================================
