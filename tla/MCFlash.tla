------------------------------ MODULE MCFlash ------------------------------
(* Instances of FlashW25Q: two sectors of two pages of two bytes.          *)
EXTENDS FlashW25Q, Sequences

CONSTANTS a, b, ff, junk

\* Page p blank, full, or with a blank tail.
Full == [i \in Offsets |-> a]
Part == [i \in Offsets |-> IF i = 0 THEN a ELSE ff]
MCFormats == {[p \in Pages |-> Full], [p \in Pages |-> IF p = 1 THEN Part ELSE Blank]}

\* A byte, or a page and a byte: the same as Full, another value, or a hole.
D(s) == [i \in 0 .. Len(s) - 1 |-> s[i + 1]]
MCDatas == {D(s) : s \in {<<a>>, <<b>>, <<b, b, a>>, <<a, a, b>>, <<ff, a, a>>}}

MCLists == {{0}, {1, 2}, {0, 1, 2, 3}}
=============================================================================
