------------------------------- MODULE MCText -------------------------------
(***************************************************************************)
(* Instance of Library for model checking.  The integer types have 4, 8,   *)
(* 12 and 24 bits: an int in binary fills the conversion buffer exactly    *)
(* and a long does not fit, as with 32, 64 and a buffer of 32.  formatsize *)
(* divides by 8, so that every unit up to E is reached, with more than one *)
(* digit in E, as with 1024 and 64 bits.  A word has four bytes of 4 bits. *)
(***************************************************************************)
EXTENDS Library

Optional(fields) == {<< >>} \cup fields

Call(fn, count, format, args) ==
  [fn |-> fn, count |-> count, format |-> format \o <<"NUL">>, va |-> args]

(* One directive with flags, a width, a precision, a length. *)
FlagFields == Optional({<<"0">>, <<"-">>, <<"+">>, <<"SP">>, <<"#">>, <<"#", "0">>,
                        <<"0", "+">>, <<"-", "#">>})
WidthFields == Optional({<<"3">>, <<"4">>, <<"1", "4">>})
PrecFields == Optional({<<".">>, <<".", "3">>, <<".", "1", "3">>})
Numbers == {0, 7, 9 + 10 * 16, -8, -2048, 2^24 - 1, 2^23}

IntegerCalls ==
  {Call("sprintf", 0, <<"%">> \o f \o w \o p \o l \o <<s>>, <<n>>) :
     f \in FlagFields, w \in WidthFields, p \in PrecFields,
     l \in Optional({<<"l">>}), s \in {"d", "x", "X", "o", "b"}, n \in Numbers}

(* Numbers that fill the conversion buffer, and their signs and prefixes. *)
BufferCalls ==
  {Call("sprintf", 0, <<"%">> \o f \o w \o <<".", "1", "2", s>>, <<n>>) :
     f \in FlagFields \cup {<<"SP", "0">>, <<"SP", "-">>}, w \in Optional({<<"1", "2">>, <<"1", "4">>}),
     s \in {"d", "o"}, n \in Numbers}

Strings == {<<"NUL">>, <<"a", "NUL">>, <<"a", "b", "c", "NUL">>}
BlankStrings == {<<"SP", "NUL">>, <<"SP", "SP", "SP", "SP", "NUL">>, <<"SP", "a", "SP", "NUL">>}

(* Every length, and widths and precisions taken from the arguments. *)
LengthCalls ==
  {Call("sprintf", 0, <<"%">> \o l \o <<s>>, <<n>>) :
     l \in Optional({<<"h", "h">>, <<"h">>, <<"l">>, <<"l", "l">>, <<"z">>, <<"t">>, <<"j">>}),
     s \in {"i", "u", "x"}, n \in Numbers}

StarCalls ==
  {Call("sprintf", 0, <<"%">> \o f \o <<"*", ".", "*", s>>, <<w, p, n>>) :
     f \in Optional({<<"0">>, <<"#", "0">>, <<"SP", "0">>}), w \in {5, -4, 13, 14, 15},
     p \in {-1, 0, 1, 2}, s \in {"d", "x", "o", "b"}, n \in {0, 7, -8, 159, 2^12 - 1}}
  \cup {Call("sprintf", 0, <<"%">> \o f \o <<"*", ".", "*", "l", "b">>, <<w, p, n>>) :
     f \in Optional({<<"0">>, <<"#", "0">>}), w \in {5, -4, 13, 14, 15}, p \in {-1, 0},
     n \in {2^12, 2^13 - 1, 2^24 - 1}}
  \cup {Call("sprintf", 0, <<"%", "*", ".", "*", s>>, <<w, p, t>>) :
     w \in {3, -3}, p \in {-1, 0, 2}, s \in {"s"}, t \in Strings \cup BlankStrings}
  \cup {Call("sprintf", 0, <<"%", ".", "*", "c">>, <<p, "a">>) : p \in {-1, 0}}

TextCalls ==
  {Call("sprintf", 0, <<"%">> \o f \o w \o p \o <<"s">>, <<t>>) :
     f \in Optional({<<"-">>}), w \in Optional({<<"4">>}),
     p \in Optional({<<".">>, <<".", "1">>, <<".", "2">>}), t \in Strings}
  \cup {Call("sprintf", 0, <<"%", ".", "2", "s">>, <<t>>) : t \in {<<"a", "b">>, <<"a", "b", "c", "d">>}}
  \cup {Call("sprintf", 0, <<"%">> \o f \o w \o <<"c">>, <<c>>) :
     f \in Optional({<<"-">>}), w \in Optional({<<"1">>, <<"3">>}), c \in {"a", "NUL"}}
  \cup {Call("sprintf", 0, <<"%">> \o f \o p \o <<"p">>, <<n>>) :
     f \in FlagFields, p \in PrecFields, n \in {0, 2^24 - 1, 4096}}

(* A whole format, cut at every count, and formats that end too early. *)
Mixed == <<"a", "%", "4", "d", "%", "%", "%", "s", "%", "y">>
MixedArgs == <<-7, <<"o", "k", "NUL">>>>

CutCalls ==
  {Call(fn, n, Mixed, MixedArgs) : fn \in {"snprintf", "vsnprintf"}, n \in 0..11}
  \cup {Call("snprintf_null", n, Mixed, MixedArgs) : n \in {0, 3}}
  \cup {Call("snprintf", n, << >>, << >>) : n \in 0..1}
  \cup {Call(fn, 0, Mixed \o <<"%", "c">>, MixedArgs \o <<"NUL">>) :
          fn \in {"printf", "vprintf", "fctprintf"}}
  \cup {Call("sprintf", 0, <<"a", "%">> \o f, << >>) :
          f \in Optional({<<"-", "4">>, <<"l">>, <<"h", "h">>, <<".">>})}

Sizes == {0, 1, 7, 8, 9, 63, 64, 65, 512, 600, 4096, 5000, 8^5 - 1, 8^5,
          8^6 - 1, 8^6, 8^6 + 8^5, 10 * 8^6, 2^24 - 1}

MCCalls ==
  IntegerCalls \cup BufferCalls \cup LengthCalls \cup StarCalls \cup TextCalls \cup CutCalls
  \cup {formatsize(n) : n \in Sizes}

(* Every alignment and length of memset and memcpy, null pointers, and     *)
(* strings around a word of all combinations of zero, one, two, the high   *)
(* bit alone and all bits.                                                 *)
Memory == [a \in 0..31 |-> a % 16]

MCJobs ==
  {[fn |-> "memset", dest |-> d, src |-> 0, c |-> c, n |-> n, bytes |-> Memory] :
     d \in 4..8, n \in 0..11, c \in {0, 5, 19, -1}}
  \cup {[fn |-> "memcpy", dest |-> d, src |-> s, c |-> 0, n |-> n, bytes |-> Memory] :
     d \in (18..21) \cup {0}, s \in 4..7, n \in 0..11}
  \cup {[fn |-> "memcpy", dest |-> 4, src |-> 0, c |-> 0, n |-> 4, bytes |-> Memory]}
  \cup {[fn |-> "strlen", dest |-> 0, src |-> p, c |-> 0, n |-> 0,
         bytes |-> [a \in 0..15 |-> CASE a \in 8..11 -> w[a - 7]
                                      [] a \in 12..14 -> 8 [] a = 15 -> 0 [] OTHER -> 1]] :
     p \in 4..9, w \in [1..4 -> {0, 1, 2, 8, 15}]}
=============================================================================
