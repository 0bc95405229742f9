----------------------------- MODULE MCFlashDma -----------------------------
(* Instances of FlashDma: two sectors of three pages of two bytes.          *)
EXTENDS FlashDma

CONSTANTS a, b, ff, junk

C(x) == [i \in Offsets |-> x]

\* One blank page, the others written
MCFormats == {[p \in Pages |-> IF p = 0 THEN Blank ELSE C(a)]}

\* One page, and two pages on both sides of a sector's end
MCWrites == {[addr |-> 4, data |-> <<C(b)>>], [addr |-> 2, data |-> <<C(a), C(b)>>]}

\* A page with two neighbours, and pages of two sectors
MCErases == {<<4>>, <<2, 3>>}

MCReads == {[addr |-> 2, len |-> 2]}
=============================================================================
