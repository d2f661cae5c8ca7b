--------------------------- MODULE MCStreamEngine ---------------------------
(* All valid UTF-8 texts of at most MaxBytes bytes over newline, an ASCII  *)
(* letter and runes of two and three bytes; the sizes are scaled so that   *)
(* every buffer overflows.                                                 *)
EXTENDS StreamEngine

CONSTANT MaxBytes

Chars == {<<"nl">>, <<"a">>, <<"l2", "c">>, <<"l3", "c", "c">>}

TextsOf(length) ==
    LET texts[n \in 0..length] ==
            IF n = 0 THEN {<<>>}
            ELSE UNION {{t \o c : t \in texts[n - Len(c)]} : c \in {c \in Chars : Len(c) <= n}}
    IN  texts[length]

MCTexts == UNION {TextsOf(n) : n \in 0..MaxBytes}

(* A line, so that the token form is chosen, and then every text of five   *)
(* or six bytes: the cut of a last chunk of one byte is in them.           *)
MCAfterLine == {<<"a", "a", "a", "a", "nl">> \o t : t \in TextsOf(5) \union TextsOf(6)}

(* One long text of short lines, to see that the buffers stay bounded.     *)
MCLong == {[i \in 1..40 |-> IF i % 2 = 0 THEN "nl" ELSE "a"]}

(* Bytes that are no UTF-8.                                                *)
MCBroken == [1..5 -> {"nl", "l2", "c"}]

MCStreams == MCTexts \union MCAfterLine \union MCBroken \union MCLong

(* A line, then a value and a rune of two bytes at places of a second and  *)
(* a third line, and a last line of one byte.                              *)
MCCuts ==
    {<<"a", "a", "a", "a", "nl">> \o x \o y \o <<"nl">> :
        x \in {<<"a", "a", "s", "s", "nl">>, <<"a", "s", "s", "a", "nl">>},
        y \in {<<"a", "a", "a", "l2", "c">>, <<"a", "l2", "c", "a", "a">>}}
=============================================================================
