------------------------------ MODULE MemUtils ------------------------------
(***************************************************************************)
(* memset, memcpy and strlen of kernel/src/utils/memory.c, which work on   *)
(* whole words once an address is aligned.  Memory is a function from      *)
(* addresses to bytes; address zero is the null pointer.  A call is one    *)
(* step: nothing else runs while it does.  formatsize is in Printf.        *)
(***************************************************************************)
EXTENDS Integers

CONSTANTS
  WordSize,  \* sizeof(long), sizeof(uintptr_t)
  ByteBits,
  Jobs       \* the calls to study: [fn, dest, src, c, n, bytes]

VARIABLES
  job,      \* the call, with the memory it starts from
  bytes,    \* the memory
  result,   \* what strlen returns
  touched,  \* the addresses strlen reads
  done

memVars == <<job, bytes, result, touched, done>>

(* Words are as long as the code provides for; powers of two are as they   *)
(* are, which is stated because the prover knows none.                     *)
ASSUME WordAssumption ==
  /\ WordSize \in {4, 8} /\ ByteBits \in Nat \ {0}
  /\ 2^0 = 1 /\ 2^(ByteBits - 1) \in Nat \ {0} /\ 2^ByteBits = 2 * 2^(ByteBits - 1)
  /\ \A j, k \in 0..WordSize : j + k <= WordSize =>
       2^(ByteBits * (j + k)) = 2^(ByteBits * j) * 2^(ByteBits * k)

(* What C asks of a call: memory consists of whole words of bytes, ranges  *)
(* are in it, those of memcpy do not overlap, and a string has an end.     *)
ASSUME JobsAssumption ==
  \A j \in Jobs :
    LET Memory == DOMAIN j.bytes
        to == j.dest..j.dest + j.n - 1
        from == j.src..j.src + j.n - 1
    IN  /\ {j.dest, j.src, j.n} \cup Memory \subseteq Nat /\ j.c \in Int
        /\ j.bytes \in [Memory -> 0..2^ByteBits - 1]
        /\ \A a \in Memory, k \in 0..WordSize - 1 : a - (a % WordSize) + k \in Memory
        /\ j.fn = "memset" => to \subseteq Memory
        /\ j.fn = "memcpy" /\ j.dest # 0 /\ j.src # 0 =>
             to \cup from \subseteq Memory /\ to \cap from = {}
        /\ j.fn = "strlen" =>
             \E end \in Memory : j.src..end \subseteq Memory /\ j.src <= end /\ j.bytes[end] = 0

WordBits == ByteBits * WordSize
ByteOf(word, k) == (word \div 2^(ByteBits * k)) % 2^ByteBits
WordAt(m, p) ==  \* the word at p, little-endian
  LET upTo[k \in 0..WordSize] ==
        IF k = 0 THEN 0 ELSE upTo[k - 1] + m[p + k - 1] * 2^(ByteBits * (k - 1))
  IN  upTo[WordSize]
-----------------------------------------------------------------------------
(* Variants with one plausible mistake each, never used below. *)
word_value_OneDoubling(c) == (c % 2^ByteBits) * (1 + 2^ByteBits)
HasZero_AnyHighBit(v) ==
  \E k \in 0..WordSize - 1 :
    ByteOf((v - (2^WordBits - 1) \div (2^ByteBits - 1)) % 2^WordBits, k) >= 2^(ByteBits - 1)
-----------------------------------------------------------------------------
(* The bytes to handle one by one before p is aligned. *)
ToAligned(p) == (-p) % WordSize

(* The byte c in every byte of a word, by doubling. *)
word_value(c) ==
  LET one == c % 2^ByteBits
      two == one + one * 2^ByteBits
      four == two + two * 2^(2 * ByteBits)
  IN  IF WordSize = 8 THEN four + four * 2^(4 * ByteBits) ELSE four

SetBytes(m, p, c, n) ==
  [a \in DOMAIN m |-> IF a \in p..p + n - 1 THEN c % 2^ByteBits ELSE m[a]]

SetWords(m, p, v, words) ==
  [a \in DOMAIN m |->
     IF a \in p..p + words * WordSize - 1 THEN ByteOf(v, (a - p) % WordSize) ELSE m[a]]

memset(m, s, c, n) ==
  LET head == IF n < ToAligned(s) THEN n ELSE ToAligned(s)
      words == (n - head) \div WordSize
      tail == s + head + words * WordSize
  IN  SetBytes(SetWords(SetBytes(m, s, c, head), s + head, word_value(c), words),
               tail, c, s + n - tail)

(* Source and destination do not overlap (C leaves that undefined). *)
CopyBytes(m, d, s, n) ==
  [a \in DOMAIN m |-> IF a \in d..d + n - 1 THEN m[s + (a - d)] ELSE m[a]]

CopyWords(m, d, s, words) ==
  [a \in DOMAIN m |->
     IF a \in d..d + words * WordSize - 1
     THEN LET k == (a - d) \div WordSize
          IN  ByteOf(WordAt(m, s + k * WordSize), (a - d) % WordSize)
     ELSE m[a]]

(* Only the destination is aligned, and only if a whole word is to be      *)
(* copied; a null pointer on either side copies nothing.                   *)
memcpy(m, d, s, n) ==
  LET head == IF n >= WordSize THEN ToAligned(d) ELSE 0
      words == (n - head) \div WordSize
      copied == head + words * WordSize
  IN  IF d = 0 \/ s = 0 \/ n = 0 THEN m
      ELSE CopyBytes(CopyWords(CopyBytes(m, d, s, head), d + head, s + head, words),
                     d + copied, s + copied, n - copied)

(* (v - low_bits) & ~v & high_bits: is any byte of the word v zero?        *)
HasZero(v) ==
  LET low_bits == (2^WordBits - 1) \div (2^ByteBits - 1)
      less == (v - low_bits) % 2^WordBits
      High(w, k) == ByteOf(w, k) >= 2^(ByteBits - 1)
  IN  \E k \in 0..WordSize - 1 : High(less, k) /\ ~High(v, k)

(* The first word that has a zero, and its first zero byte; the last byte  *)
(* of the word is not looked at but must be the one.                       *)
strlen(m, str) ==
  LET base == str + ToAligned(str)
      early == {a \in str..base - 1 : m[a] = 0}
      first == CHOOSE a \in early : \A b \in early : a <= b
      words == {w \in DOMAIN m : base <= w /\ w % WordSize = 0}
      hit == CHOOSE w \in words :
               HasZero(WordAt(m, w)) /\ \A u \in words : u < w => ~HasZero(WordAt(m, u))
      byte == CHOOSE b \in 0..WordSize - 1 :
                /\ b = WordSize - 1 \/ m[hit + b] = 0
                /\ \A c \in 0..b - 1 : m[hit + c] # 0
  IN  IF early # {} THEN [len |-> first - str, read |-> str..first]
      ELSE [len |-> hit + byte - str, read |-> str..hit + WordSize - 1]

MemInit ==
  /\ job \in Jobs
  /\ bytes = job.bytes
  /\ result = 0
  /\ touched = {}
  /\ done = FALSE

CallMemset ==
  /\ ~done /\ job.fn = "memset"
  /\ bytes' = memset(bytes, job.dest, job.c, job.n)
  /\ done' = TRUE
  /\ UNCHANGED <<job, result, touched>>

CallMemcpy ==
  /\ ~done /\ job.fn = "memcpy"
  /\ bytes' = memcpy(bytes, job.dest, job.src, job.n)
  /\ done' = TRUE
  /\ UNCHANGED <<job, result, touched>>

CallStrlen ==
  /\ ~done /\ job.fn = "strlen"
  /\ result' = strlen(bytes, job.src).len
  /\ touched' = strlen(bytes, job.src).read
  /\ done' = TRUE
  /\ UNCHANGED <<job, bytes>>

MemNext == CallMemset \/ CallMemcpy \/ CallStrlen
-----------------------------------------------------------------------------
(* Whatever the alignments and the length, memset and memcpy leave memory  *)
(* as setting or copying byte by byte would: no byte is missed between the *)
(* parts, and none outside the range is written.                           *)
MemoryAsByBytes ==
  done => bytes = [a \in DOMAIN bytes |->
    CASE job.fn = "memset" /\ a \in job.dest..job.dest + job.n - 1 -> job.c % 2^ByteBits
      [] job.fn = "memcpy" /\ job.dest # 0 /\ job.src # 0
         /\ a \in job.dest..job.dest + job.n - 1 -> job.bytes[job.src + (a - job.dest)]
      [] OTHER -> job.bytes[a]]

(* strlen reads behind the end of a string, but only in the word in which  *)
(* the string ends, so never on a page that the string is not on.          *)
StrlenStaysInWords ==
  \A a \in touched :
    \E k \in 0..result : a \div WordSize = (job.src + k) \div WordSize

(* strlen finds the first zero byte: the test on words misses none and     *)
(* takes no other byte for one, bytes with the high bit included, and it   *)
(* reads no other word than those of the string.                           *)
StrlenExact ==
  done /\ job.fn = "strlen" =>
    /\ bytes[job.src + result] = 0
    /\ \A k \in 0..result - 1 : bytes[job.src + k] # 0
    /\ StrlenStaysInWords
=============================================================================
