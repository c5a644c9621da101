----------------------------- MODULE MCConsole -----------------------------
(***************************************************************************)
(* Instance of Console for model checking: a font of 2 x 2 pixels on a     *)
(* framebuffer of 7 x 7 in rows of 10, so that three lines of three        *)
(* characters leave a strip to the right and one below, and a tab leads to *)
(* the invisible columns.  Every tab is followed by a character, which     *)
(* bounds the column.                                                      *)
(***************************************************************************)
EXTENDS Console

MCGlyph == [c \in {"a", "[", "]", "ok", "error"} |->
              CASE c = "a" -> {<<0, 0>>, <<1, 1>>}
                [] c \in {"[", "]"} -> {<<0, 1>>, <<1, 1>>}
                [] OTHER -> {<<0, 0>>, <<0, 1>>, <<1, 0>>}]
MCLevelColor == [l \in {"ok", "error"} |-> IF l = "ok" THEN "green" ELSE "red"]
MCTexts == {<<"a">>, <<"NL">>, <<"TAB", "a">>, <<"TAB", "TAB", "a">>, <<"a", "CR">>}
=============================================================================
