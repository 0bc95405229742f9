----------------------------- MODULE FlashChip -----------------------------
(***************************************************************************)
(* The W25Q memory chip as both drivers in src/StorageDriver/w25qxx see    *)
(* it: pages of bytes gathered in sectors.  A sector erase turns every     *)
(* byte of the sector into 0xFF (Erased); a page program can only clear    *)
(* bits, so it writes a byte faithfully over an erased byte or over the    *)
(* same value and leaves Garbage otherwise.                                *)
(*                                                                         *)
(* The bytes the program stores are abstracted to the set Bytes, a page to *)
(* PageSize of them (256 in the chip), a sector to PagesPerSector pages    *)
(* (16 in the chip).                                                       *)
(***************************************************************************)
EXTENDS Naturals

CONSTANTS
    Sectors,         \* number of sectors
    PagesPerSector,  \* W25Q_SECTOR_SIZE / W25Q_PAGE_SIZE
    PageSize,        \* W25Q_PAGE_SIZE
    Bytes,           \* byte values other than 0xFF
    Erased,          \* 0xFF
    Garbage          \* a byte nobody wrote

ASSUME FlashChipAssumption ==
    /\ Sectors \in Nat \ {0}
    /\ PagesPerSector \in Nat \ {0}
    /\ PageSize \in Nat \ {0}
    /\ Erased \notin Bytes
    /\ Garbage \notin Bytes
    /\ Erased # Garbage

Pages == 0 .. Sectors * PagesPerSector - 1

Offsets == 0 .. PageSize - 1

Content == [Offsets -> Bytes \cup {Erased, Garbage}]

Blank == [i \in Offsets |-> Erased]

\* address / W25Q_SECTOR_SIZE
SectorOf(p) == p \div PagesPerSector

Neighbours(p) == {q \in Pages : SectorOf(q) = SectorOf(p)}

\* One byte programmed: bits only go from 1 to 0.
Burnt(old, new) ==
    IF new = Erased THEN old
    ELSE IF old \in {Erased, new} THEN new ELSE Garbage

\* The first n bytes of data programmed into a page that holds c.
Programmed(c, data, n) ==
    [i \in Offsets |-> IF i < n /\ i \in DOMAIN data THEN Burnt(c[i], data[i]) ELSE c[i]]

Holds(c, data) == \A i \in DOMAIN data : c[i] = data[i]
=============================================================================
