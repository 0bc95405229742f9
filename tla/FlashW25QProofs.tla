-------------------------- MODULE FlashW25QProofs --------------------------
(***************************************************************************)
(* The synchronous driver of the W25Q flash implements FlashStore and      *)
(* never programs a byte over a different one, for every size of the chip  *)
(* and every write and erase.                                              *)
(***************************************************************************)
EXTENDS FlashW25Q, FiniteSetTheorems, WellFoundedInduction, TLAPS

Running == {"write", "erase", "chip"}
SectorSteps == {"load", "erase", "restore", "checkRestore"}
WriteSteps == {"compare", "scan", "program", "check"} \cup SectorSteps

WriteCall ==
    /\ call.kind = "write"
    /\ call.addr \in 0 .. Size - 1 /\ call.len \in Nat \ {0}
    /\ call.addr + call.len <= Size
    /\ call.data \in [0 .. call.len - 1 -> Bytes \cup {Erased}]

EraseCall == call.kind = "erase" /\ call.list \in SUBSET Pages /\ call.list # {}

CallOK ==
    \/ pc = "idle" /\ call = NoCall
    \/ pc = "chip" /\ call.kind = "chip"
    \/ pc \in WriteSteps /\ WriteCall
    \/ pc \in SectorSteps /\ EraseCall

-----------------------------------------------------------------------------
(* Constants and arithmetic                                                *)

LEMMA MinIn ==
  ASSUME NEW S \in SUBSET Nat, S # {}
  PROVE  Min(S) \in S
<1>1. PICK e \in S : \A f \in S : <<f, e>> \notin OpToRel(<, Nat)
  BY WFMin, NatLessThanWellFounded
<1>2. ASSUME NEW f \in S PROVE e <= f
  <2>1. f \in Nat /\ e \in Nat
    OBVIOUS
  <2>2. ~(f < e)
    BY <1>1, <2>1 DEF OpToRel
  <2> QED
    BY <2>1, <2>2
<1> QED
  BY <1>2 DEF Min

LEMMA Sizes ==
  /\ Sectors * PagesPerSector \in Nat \ {0}
  /\ Pages \subseteq Nat /\ 0 \in Pages
  /\ Size = (Sectors * PagesPerSector) * PageSize
  /\ PageSize \in Nat \ {0}
<1>1. \A m, n \in Nat \ {0} : m * n \in Nat \ {0}
  OBVIOUS
<1>2. Sectors * PagesPerSector \in Nat \ {0} /\ PageSize \in Nat \ {0}
  BY <1>1, FlashChipAssumption
<1> DEFINE n == Sectors * PagesPerSector
<1>3. Cardinality(0 .. n - 1) = n
  <2> HIDE DEF n
  <2>1. n \in Nat \ {0}
    BY <1>2 DEF n
  <2> QED
    BY <2>1, FS_Interval, 0 \in Int, n - 1 \in Int
<1>4. Pages = 0 .. n - 1
  BY DEF Pages
<1> HIDE DEF n
<1> QED
  BY <1>2, <1>3, <1>4 DEF Size, n

LEMMA Divides ==
  ASSUME NEW d \in Nat \ {0}, NEW n \in Nat, NEW x \in Nat, NEW y \in Nat, x <= y, y < n * d
  PROVE  x \div d \in Nat /\ x \div d <= y \div d /\ y \div d < n
<1>1. x \div d \in Nat /\ y \div d \in Nat
  OBVIOUS
<1>2. /\ x = d * (x \div d) + (x % d) /\ x % d \in 0 .. d - 1
      /\ y = d * (y \div d) + (y % d) /\ y % d \in 0 .. d - 1
  OBVIOUS
<1> DEFINE q == x \div d
           r == y \div d
<1>3. q \in Nat /\ r \in Nat /\ d * q <= y /\ y < d * r + d /\ d * r <= y
  BY <1>1, <1>2
<1> HIDE DEF q, r
<1>4. q <= r
  <2> SUFFICES ASSUME r + 1 <= q PROVE FALSE
    BY <1>3
  <2>1. d * (r + 1) <= d * q
    BY <1>3
  <2> QED
    BY <2>1, <1>3
<1>5. r < n
  <2> SUFFICES ASSUME n <= r PROVE FALSE
    BY <1>3
  <2>1. n * d <= d * r
    BY <1>3
  <2> QED
    BY <2>1, <1>3
<1> QED
  BY <1>1, <1>4, <1>5 DEF q, r

LEMMA WriteRange ==
  ASSUME WriteCall
  PROVE  First \in Pages /\ Last \in Pages /\ First <= Last
<1>1. call.addr \in Nat /\ call.addr + call.len - 1 \in Nat /\ call.addr <= call.addr + call.len - 1
      /\ call.addr + call.len - 1 < (Sectors * PagesPerSector) * PageSize
  BY Sizes DEF WriteCall
<1> DEFINE n == Sectors * PagesPerSector
<1>2. n \in Nat /\ Pages = 0 .. n - 1
  BY Sizes DEF Pages
<1> HIDE DEF n
<1>3. First \in Nat /\ First <= Last /\ Last < n
  BY <1>1, <1>2, Sizes, Divides DEF First, Last, n
<1>4. Last \in Nat
  BY <1>1, Sizes DEF Last
<1> QED
  BY <1>2, <1>3, <1>4

LEMMA SliceType ==
  ASSUME WriteCall, NEW p \in First .. Last
  PROVE  DOMAIN Slice(p) \subseteq Offsets /\ \A i \in DOMAIN Slice(p) : Slice(p)[i] \in Bytes \cup {Erased}
<1> DEFINE off == (p - First) * PageSize
           size == Least(PageSize, call.len - off)
<1>1. First \in Nat /\ Last \in Nat
  BY WriteRange, Sizes
<1>2. p - First \in Nat
  BY <1>1
<1>3. off \in Nat
  BY <1>2, Sizes
<1>4. Slice(p) = [i \in 0 .. size - 1 |-> call.data[off + i]]
  BY DEF Slice
<1> HIDE DEF off
<1>5. size \in Int /\ size <= PageSize /\ size <= call.len - off
  BY <1>3, Sizes DEF Least, WriteCall
<1> HIDE DEF size
<1>6. DOMAIN Slice(p) \subseteq Offsets
  BY <1>4, <1>5, Sizes DEF Offsets
<1>7. ASSUME NEW i \in 0 .. size - 1 PROVE call.data[off + i] \in Bytes \cup {Erased}
  BY <1>3, <1>5 DEF WriteCall
<1> QED
  BY <1>4, <1>6, <1>7

\* What the transactions leave in a page
LEMMA ProgrammedIs ==
  ASSUME NEW c \in Content, NEW data, NEW n \in Nat, DOMAIN data \subseteq Offsets,
         \A i \in DOMAIN data : data[i] \in Bytes \cup {Erased, Garbage}
  PROVE  /\ Programmed(c, data, n) \in Content
         /\ \A i \in Offsets \ DOMAIN data : Programmed(c, data, n)[i] = c[i]
         /\ \A i \in Offsets : Programmed(c, data, n)[i] = Garbage =>
               \/ c[i] = Garbage
               \/ i \in DOMAIN data /\ data[i] = Garbage
               \/ i \in DOMAIN data /\ c[i] \notin {Erased, data[i]}
<1> QED
  BY FlashChipAssumption DEF Programmed, Burnt, Content

-----------------------------------------------------------------------------
(* The inductive invariant                                                 *)

Rewritten == Neighbours(Min(group))

\* A page as FlashStore allows it to be outside the risk
Fine(p, c) == c \in IF p \in DOMAIN Aim THEN Aim[p] \cup {before[p], Blank} ELSE {before[p]}

Clean(p, c) == \A i \in Offsets : c[i] = Garbage => before[p][i] = Garbage

\* The data of a write can be programmed over c.
Open(p, c) == \A i \in DOMAIN Slice(p) : c[i] \in {Erased, Slice(p)[i]}

\* Pages the write has come past, or has not programmed yet: they are open
Wanted ==
    CASE pc = "scan" -> (First .. page - 1) \ (IF differ THEN group ELSE {})
      [] pc \in SectorSteps -> (First .. page) \ group
      [] pc \in {"program", "check"} -> page + 1 .. Last
      [] OTHER -> {}

Good(p, c) ==
    /\ c \in Content /\ Fine(p, c) /\ Clean(p, c)
    /\ call.kind = "erase" /\ p \in call.list \ (left \cup group) => c = Blank
    /\ call.kind = "write" /\ p \in Wanted => Open(p, c)

LocalsOK ==
    /\ page \in Pages /\ group \subseteq Pages /\ left \subseteq Pages /\ todo \subseteq Pages
    /\ differ \in BOOLEAN
    /\ call.kind = "write" /\ pc # "compare" => page \in First .. Last
    /\ call.kind = "write" => group \subseteq First .. page
    /\ call.kind = "write" /\ pc = "scan" => page \notin group /\ \A p \in group : SectorOf(p) = SectorOf(page)
    /\ call.kind = "write" /\ pc = "scan" /\ ~differ => \A p \in group : p < page
    /\ call.kind = "erase" => left \subseteq call.list /\ group \subseteq call.list
    /\ pc \in SectorSteps => group # {} /\ group \subseteq Rewritten
    /\ pc \in {"idle", "compare", "chip"} => group = {}

\* The pages while no sector is being rewritten
WholeOK == pc \in {"compare", "scan", "load", "erase"} => \A p \in Pages : Good(p, mem[p])

\* The sector on its way through the buffer
BufferOK ==
    /\ pc \in {"erase", "restore", "checkRestore"} =>
          \A p \in Rewritten : p \notin group => Good(p, buf[p])
    /\ pc = "erase" => \A p \in Rewritten : buf[p] = mem[p]

RestoreOK ==
    pc \in {"restore", "checkRestore"} =>
        /\ todo \subseteq Rewritten \ group
        /\ \A p \in Pages \ Rewritten : Good(p, mem[p])
        /\ \A p \in group : mem[p] = Blank
        /\ \A p \in Rewritten \ (group \cup todo) : mem[p] = buf[p]
        /\ \A p \in todo : mem[p] = Blank \/ (pc = "checkRestore" /\ p = Min(todo) /\ Clean(p, mem[p]))
        /\ pc = "checkRestore" => todo # {}

\* The page that is programmed keeps what the data does not cover.
TailKept(p, c) ==
    \/ \A i \in Offsets \ DOMAIN Slice(p) : c[i] = before[p][i]
    \/ \A i \in Offsets \ DOMAIN Slice(p) : c[i] = Erased

ProgramOK ==
    pc \in {"program", "check"} =>
        /\ \A p \in Pages \ {page} : Good(p, mem[p])
        /\ \A p \in First .. page - 1 : mem[p] \in Aim[p]
        /\ TailKept(page, mem[page]) /\ Clean(page, mem[page])
        /\ pc = "program" => Open(page, mem[page])

PlainOK ==
    /\ mem \in [Pages -> Content] /\ before \in [Pages -> Content]
    /\ calls \in 0 .. MaxCalls
    /\ ready \in BOOLEAN /\ memErr \in BOOLEAN
    /\ status \in {"none", "write", "erase", "chip"} \X {"running", "FLASH_OK", "FLASH_ERROR", "FLASH_OOM"}
    /\ pc # "idle" => status = <<call.kind, "running">>
    /\ pc = "chip" => mem = before

IndInv ==
    /\ CallOK /\ PlainOK /\ LocalsOK
    /\ WholeOK /\ BufferOK /\ RestoreOK /\ ProgramOK

-----------------------------------------------------------------------------
(* Pages                                                                   *)

LEMMA BlankIs == Blank \in Content /\ \A i \in Offsets : Blank[i] = Erased /\ Blank[i] # Garbage
BY FlashChipAssumption DEF Blank, Content

\* What a call may leave
LEMMA AimIs ==
  /\ WriteCall => DOMAIN Aim = First .. Last
  /\ EraseCall => Aim = [p \in call.list |-> {Blank}]
  /\ call.kind = "chip" => Aim = [p \in Pages |-> {Blank}]
  /\ call = NoCall => Aim = <<>>
BY DEF Aim, WriteCall, EraseCall, NoCall

LEMMA AimOfPage ==
  ASSUME WriteCall, NEW p \in First .. Last, NEW c \in Content
  PROVE  c \in Aim[p] <=> Holds(c, Slice(p)) /\ TailKept(p, c)
<1> DEFINE Mix(tail) == [i \in Offsets |-> IF i \in DOMAIN Slice(p) THEN Slice(p)[i] ELSE tail[i]]
<1>1. Aim[p] = {Mix(tail) : tail \in {before[p], Blank}}
  BY DEF Aim, WriteCall
<1>2. c = [i \in Offsets |-> c[i]]
  BY DEF Content
<1>3. DOMAIN Slice(p) \subseteq Offsets
  BY SliceType
<1>4. ASSUME NEW tail PROVE c = Mix(tail) <=> Holds(c, Slice(p)) /\ \A i \in Offsets \ DOMAIN Slice(p) : c[i] = tail[i]
  BY <1>2, <1>3 DEF Holds
<1>5. c \in Aim[p] <=> c = Mix(before[p]) \/ c = Mix(Blank)
  BY <1>1
<1> HIDE DEF Mix
<1> QED
  BY <1>4, <1>5, BlankIs DEF TailKept

LEMMA FineKeepsTail ==
  ASSUME WriteCall, NEW p \in First .. Last, NEW c \in Content, Fine(p, c)
  PROVE  TailKept(p, c)
<1>1. CASE c \in Aim[p]
  BY <1>1, AimOfPage
<1>2. CASE c = before[p]
  BY <1>2 DEF TailKept
<1>3. CASE c = Blank
  BY <1>3, BlankIs DEF TailKept
<1> QED
  BY <1>1, <1>2, <1>3, AimIs DEF Fine

LEMMA HeldIsOpen ==
  ASSUME NEW p, NEW c, Holds(c, Slice(p))
  PROVE  Open(p, c)
BY DEF Holds, Open

\* A blank page that the call aims at is as FlashStore allows, and open.
LEMMA BlankIsGood ==
  ASSUME NEW p \in DOMAIN Aim
  PROVE  Fine(p, Blank) /\ Clean(p, Blank) /\ (WriteCall /\ p \in First .. Last => Open(p, Blank))
<1>1. Fine(p, Blank)
  BY DEF Fine
<1>2. Clean(p, Blank)
  BY BlankIs DEF Clean
<1>3. WriteCall /\ p \in First .. Last => Open(p, Blank)
  BY BlankIs, SliceType DEF Open
<1> QED
  BY <1>1, <1>2, <1>3

\* As long as the call goes on, so does what it may leave.
LEMMA SameCall ==
  ASSUME UNCHANGED <<call, before>>
  PROVE  /\ Aim' = Aim /\ First' = First /\ Last' = Last
         /\ \A p : Slice(p)' = Slice(p)
         /\ WriteCall => WriteCall'
         /\ EraseCall => EraseCall'
BY DEF Aim, First, Last, Slice, WriteCall, EraseCall

LEMMA SameGood ==
  ASSUME UNCHANGED <<call, before>>, NEW p, NEW c
  PROVE  /\ Fine(p, c)' <=> Fine(p, c)
         /\ Clean(p, c)' <=> Clean(p, c)
         /\ Open(p, c)' <=> Open(p, c)
         /\ TailKept(p, c)' <=> TailKept(p, c)
BY SameCall DEF Fine, Clean, Open, TailKept

LEMMA GroupAimed ==
  ASSUME IndInv, pc \in SectorSteps
  PROVE  group \subseteq DOMAIN Aim /\ group \subseteq Pages
<1>1. CASE WriteCall
  <2>1. page \in First .. Last /\ group \subseteq First .. page
    BY <1>1 DEF IndInv, LocalsOK, WriteCall, SectorSteps
  <2>2. First \in Nat /\ Last \in Nat
    BY <1>1, WriteRange, Sizes
  <2> QED
    BY <1>1, <2>1, <2>2, AimIs DEF IndInv, LocalsOK
<1>2. CASE EraseCall
  BY <1>2, AimIs DEF IndInv, LocalsOK, EraseCall
<1> QED
  BY <1>1, <1>2 DEF IndInv, CallOK, SectorSteps

-----------------------------------------------------------------------------
(* The invariant is inductive: steps that end a call                       *)

LEMMA IdleInv ==
  ASSUME pc' = "idle", call' = NoCall, PlainOK', group' = {}, page' \in Pages, left' \subseteq Pages,
         todo' \subseteq Pages, differ' \in BOOLEAN
  PROVE  IndInv'
<1>1. CallOK'
  BY DEF CallOK
<1>2. LocalsOK'
  BY DEF LocalsOK, NoCall, SectorSteps
<1>3. WholeOK' /\ BufferOK' /\ RestoreOK' /\ ProgramOK'
  BY DEF WholeOK, BufferOK, RestoreOK, ProgramOK
<1> QED
  BY <1>1, <1>2, <1>3 DEF IndInv

LEMMA ReturnInv ==
  ASSUME IndInv, NEW s \in {"FLASH_OK", "FLASH_ERROR"}, Return(s),
         mem' \in [Pages -> Content], ready' \in BOOLEAN, memErr' \in BOOLEAN
  PROVE  IndInv'
<1>1. call.kind \in {"none", "write", "erase", "chip"}
  BY DEF IndInv, CallOK, WriteCall, EraseCall, NoCall
<1>2. /\ pc' = "idle" /\ call' = NoCall /\ status' = <<call.kind, s>>
      /\ before' = mem' /\ calls' = calls
  BY DEF Return
<1>3. page' = 0 /\ group' = {} /\ left' = {} /\ differ' = FALSE /\ todo' = {}
  BY DEF Return, ClearLocals
<1>4. PlainOK'
  BY <1>1, <1>2 DEF PlainOK, IndInv
<1> QED
  BY <1>2, <1>3, <1>4, IdleInv, Sizes

-----------------------------------------------------------------------------
(* Steps that begin one                                                    *)

LEMMA BeginPlain ==
  ASSUME IndInv, NEW label, NEW c, c.kind \in Running, Begin(label, c), label = "chip" => c.kind = "chip"
  PROVE  PlainOK'
<1>1. /\ calls < MaxCalls /\ calls' = calls + 1 /\ call' = c /\ status' = <<c.kind, "running">>
      /\ before' = mem /\ UNCHANGED <<mem, ready, memErr>>
  BY DEF Begin
<1>2. calls' \in 0 .. MaxCalls
  BY <1>1, DriverAssumption DEF IndInv, PlainOK
<1>3. status' \in {"none", "write", "erase", "chip"} \X {"running", "FLASH_OK", "FLASH_ERROR", "FLASH_OOM"}
  BY <1>1 DEF Running
<1> QED
  BY <1>1, <1>2, <1>3 DEF IndInv, PlainOK

\* Whatever a page holds when a call begins is as FlashStore allows.
LEMMA FreshIsGood ==
  ASSUME NEW p \in Pages, mem' = mem, before' = mem, mem \in [Pages -> Content]
  PROVE  mem'[p] \in Content /\ Fine(p, mem[p])' /\ Clean(p, mem[p])'
BY DEF Fine, Clean

LEMMA WriteInv ==
  ASSUME IndInv, Write
  PROVE  IndInv'
<1>1. PICK addr \in 0 .. Size - 1, data \in Datas :
        /\ addr + Cardinality(DOMAIN data) <= Size
        /\ Begin("compare", [kind |-> "write", addr |-> addr, len |-> Cardinality(DOMAIN data), data |-> data])
  BY DEF Write
<1> DEFINE len == Cardinality(DOMAIN data)
<1>2. len \in Nat \ {0} /\ data \in [0 .. len - 1 -> Bytes \cup {Erased}]
  <2>1. len \in Nat
    BY FS_CardinalityType, DriverAssumption
  <2>2. data \in [0 .. len - 1 -> Bytes \cup {Erased}] /\ DOMAIN data # {}
    BY DriverAssumption
  <2> HIDE DEF len
  <2>3. 0 .. len - 1 # {}
    BY <2>2
  <2>4. len # 0
    BY <2>1, <2>3
  <2> QED
    BY <2>1, <2>2, <2>4
<1>3. /\ pc' = "compare" /\ mem' = mem /\ before' = mem
      /\ call' = [kind |-> "write", addr |-> addr, len |-> len, data |-> data]
      /\ UNCHANGED locals
  BY <1>1 DEF Begin, Write
<1> HIDE DEF len
<1>4. WriteCall'
  BY <1>1, <1>2, <1>3 DEF WriteCall, len
<1>5. PlainOK'
  BY <1>1, BeginPlain DEF Running
<1>6. group = {} /\ page \in Pages
  BY DEF IndInv, LocalsOK, Write
<1>7. LocalsOK'
  BY <1>3, <1>6 DEF IndInv, LocalsOK, locals, SectorSteps
<1>8. WholeOK'
  BY <1>3, <1>5, FreshIsGood DEF WholeOK, Good, Wanted, PlainOK, IndInv, SectorSteps
<1>9. CallOK' /\ BufferOK' /\ RestoreOK' /\ ProgramOK'
  BY <1>3, <1>4 DEF CallOK, WriteSteps, BufferOK, RestoreOK, ProgramOK
<1> QED
  BY <1>5, <1>7, <1>8, <1>9 DEF IndInv

LEMMA FirstGroupIs ==
  ASSUME NEW S \in SUBSET Pages, S # {}
  PROVE  /\ FirstGroup(S) # {} /\ FirstGroup(S) \subseteq S
         /\ FirstGroup(S) \subseteq Neighbours(Min(FirstGroup(S)))
<1>1. Min(S) \in S
  BY MinIn, Sizes
<1>2. Min(S) \in FirstGroup(S) /\ FirstGroup(S) \subseteq S
  BY <1>1 DEF FirstGroup
<1>3. Min(FirstGroup(S)) \in FirstGroup(S)
  BY <1>2, MinIn, Sizes
<1>4. \A p \in FirstGroup(S) : SectorOf(p) = SectorOf(Min(S))
  BY DEF FirstGroup
<1> HIDE DEF FirstGroup
<1> QED
  BY <1>2, <1>3, <1>4 DEF Neighbours

LEMMA EraseAddressesInv ==
  ASSUME IndInv, EraseAddresses
  PROVE  IndInv'
<1>1. PICK list \in Lists :
        /\ Begin("load", [kind |-> "erase", list |-> list])
        /\ group' = FirstGroup(list)
        /\ left' = list \ FirstGroup(list)
  BY DEF EraseAddresses
<1>2. list \in SUBSET Pages /\ list # {}
  BY DriverAssumption
<1>3. /\ pc' = "load" /\ mem' = mem /\ before' = mem /\ call' = [kind |-> "erase", list |-> list]
      /\ UNCHANGED <<page, differ, buf, todo>>
  BY <1>1 DEF Begin, EraseAddresses
<1>4. group' # {} /\ group' \subseteq list /\ group' \subseteq Rewritten'
  BY <1>1, <1>2, FirstGroupIs DEF Rewritten
<1>5. EraseCall' /\ CallOK'
  BY <1>2, <1>3 DEF EraseCall, CallOK, SectorSteps
<1>6. PlainOK'
  BY <1>1, BeginPlain DEF Running
<1>7. left' \subseteq list /\ list \subseteq left' \cup group'
  BY <1>1
<1>8. LocalsOK'
  BY <1>2, <1>3, <1>4, <1>7 DEF IndInv, LocalsOK, SectorSteps
<1>9. WholeOK'
  BY <1>3, <1>6, <1>7, FreshIsGood DEF WholeOK, Good, PlainOK, IndInv
<1>10. BufferOK' /\ RestoreOK' /\ ProgramOK'
  BY <1>3 DEF BufferOK, RestoreOK, ProgramOK
<1> QED
  BY <1>5, <1>6, <1>8, <1>9, <1>10 DEF IndInv

LEMMA EraseChipInv ==
  ASSUME IndInv, EraseChip
  PROVE  IndInv'
<1>1. Begin("chip", [kind |-> "chip"]) /\ pc = "idle"
  BY DEF EraseChip
<1>2. pc' = "chip" /\ call' = [kind |-> "chip"] /\ UNCHANGED locals
  BY <1>1 DEF Begin, EraseChip
<1>3. PlainOK'
  BY <1>1, BeginPlain DEF Running
<1>4. LocalsOK'
  BY <1>1, <1>2 DEF IndInv, LocalsOK, locals, SectorSteps
<1>5. CallOK' /\ WholeOK' /\ BufferOK' /\ RestoreOK' /\ ProgramOK'
  BY <1>2 DEF CallOK, WholeOK, BufferOK, RestoreOK, ProgramOK
<1> QED
  BY <1>3, <1>4, <1>5 DEF IndInv

LEMMA InitDriverInv ==
  ASSUME IndInv, InitDriver \/ Refuse
  PROVE  IndInv'
<1>1. pc' = "idle" /\ pc = "idle" /\ call' = call /\ call = NoCall
  BY DEF InitDriver, Refuse, IndInv, CallOK, WriteSteps, SectorSteps
<1>2. UNCHANGED locals
  BY DEF InitDriver, Refuse
<1>3. PlainOK'
  <2>1. CASE InitDriver
    BY <2>1, <1>1 DEF InitDriver, PlainOK, IndInv
  <2>2. CASE Refuse
    BY <2>2, <1>1 DEF Refuse, PlainOK, IndInv
  <2> QED
    BY <2>1, <2>2
<1> QED
  BY <1>1, <1>2, <1>3, IdleInv DEF IndInv, LocalsOK, locals

-----------------------------------------------------------------------------
(* Steps of a running call                                                 *)

LEMMA GoPlain ==
  ASSUME IndInv, NEW label, label \notin {"idle", "chip"}, pc # "idle", Go(label),
         mem' \in [Pages -> Content], ready' \in BOOLEAN, memErr' \in BOOLEAN
  PROVE  PlainOK' /\ UNCHANGED <<call, before>> /\ pc' = label
BY DEF Go, IndInv, PlainOK

\* A page stays good when the pages that must be blank or open agree.
LEMMA GoodAgain ==
  ASSUME UNCHANGED <<call, before>>, NEW p,
         mem'[p] \in Content, Fine(p, mem'[p]), Clean(p, mem'[p]),
         call.kind = "erase" /\ p \in call.list \ (left' \cup group') => mem'[p] = Blank,
         call.kind = "write" /\ p \in Wanted' => Open(p, mem'[p])
  PROVE  Good(p, mem[p])'
BY SameCall DEF Good, Fine, Clean, Open

LEMMA GoodBuffer ==
  ASSUME UNCHANGED <<call, before>>, NEW p,
         buf'[p] \in Content, Fine(p, buf'[p]), Clean(p, buf'[p]),
         call.kind = "erase" /\ p \in call.list \ (left' \cup group') => buf'[p] = Blank,
         call.kind = "write" /\ p \in Wanted' => Open(p, buf'[p])
  PROVE  Good(p, buf[p])'
BY SameCall DEF Good, Fine, Clean, Open

\* A write that has come past a page, and its sector when that is over
LEMMA NextPageInv ==
  ASSUME IndInv, WriteCall, pc # "compare", pc # "idle", NextPage, group' = {}, differ' = FALSE,
         left' \subseteq Pages, todo' \subseteq Pages, UNCHANGED <<mem, ready, memErr>>,
         \A p \in Pages : Fine(p, mem[p]) /\ Clean(p, mem[p]),
         \A p \in First .. page : Open(p, mem[p])
  PROVE  IndInv'
<1>1. /\ page \in First .. Last /\ First \in Nat /\ Last \in Nat /\ First .. Last \subseteq Pages
  <2>1. page \in First .. Last
    BY DEF IndInv, LocalsOK, WriteCall
  <2>2. First \in Pages /\ Last \in Pages
    BY WriteRange
  <2> QED
    BY <2>1, <2>2, Sizes DEF Pages
<1>2. \A p \in Pages : mem[p] \in Content
  BY DEF IndInv, PlainOK
<1>3. CASE page = Last
  <2>1. Go("program") /\ page' = First
    BY <1>3 DEF NextPage
  <2>2. PlainOK' /\ UNCHANGED <<call, before>> /\ pc' = "program"
    BY <2>1, GoPlain DEF IndInv, PlainOK
  <2>3. WriteCall' /\ First' = First /\ Last' = Last
    BY <2>2, SameCall
  <2>4. CallOK'
    BY <2>2, <2>3 DEF CallOK, WriteSteps
  <2>5. LocalsOK'
    <3>1. page' \in First' .. Last' /\ page' \in Pages
      BY <1>1, <2>1, <2>3
    <3> QED
      BY <2>2, <2>3, <3>1 DEF LocalsOK, SectorSteps, WriteCall
  <2>6. \A p \in Pages : Good(p, mem[p])'
    <3> SUFFICES ASSUME NEW p \in Pages PROVE Good(p, mem[p])'
      OBVIOUS
    <3>1. p \in Wanted' => p \in First .. page
      BY <1>1, <1>3, <2>1, <2>2, <2>3 DEF Wanted, SectorSteps
    <3> QED
      BY <1>2, <2>2, <3>1, GoodAgain DEF WriteCall
  <2>7. TailKept(First, mem[First]) /\ Clean(First, mem[First]) /\ Open(First, mem[First])
    BY <1>1, <1>2, FineKeepsTail
  <2>8. ProgramOK'
    BY <1>1, <2>1, <2>2, <2>3, <2>6, <2>7, SameGood DEF ProgramOK
  <2>9. WholeOK' /\ BufferOK' /\ RestoreOK'
    BY <2>2 DEF WholeOK, BufferOK, RestoreOK
  <2> QED
    BY <2>2, <2>4, <2>5, <2>8, <2>9 DEF IndInv
<1>4. CASE page # Last
  <2>1. Go("scan") /\ page' = page + 1
    BY <1>4 DEF NextPage
  <2>2. PlainOK' /\ UNCHANGED <<call, before>> /\ pc' = "scan"
    BY <2>1, GoPlain DEF IndInv, PlainOK
  <2>3. WriteCall' /\ First' = First /\ Last' = Last
    BY <2>2, SameCall
  <2>4. CallOK'
    BY <2>2, <2>3 DEF CallOK, WriteSteps
  <2>5. page' \in First .. Last /\ page' \in Pages
    BY <1>1, <1>4, <2>1
  <2>6. LocalsOK'
    BY <2>2, <2>3, <2>5 DEF LocalsOK, SectorSteps, WriteCall
  <2>7. WholeOK'
    <3> SUFFICES ASSUME NEW p \in Pages PROVE Good(p, mem[p])'
      BY DEF WholeOK
    <3>1. p \in Wanted' => p \in First .. page
      BY <1>1, <2>1, <2>2, <2>3 DEF Wanted, SectorSteps
    <3> QED
      BY <1>2, <2>2, <3>1, GoodAgain DEF WriteCall
  <2>8. BufferOK' /\ RestoreOK' /\ ProgramOK'
    BY <2>2 DEF BufferOK, RestoreOK, ProgramOK
  <2> QED
    BY <2>2, <2>4, <2>6, <2>7, <2>8 DEF IndInv
<1> QED
  BY <1>3, <1>4

LEMMA CompareInv ==
  ASSUME IndInv, Compare
  PROVE  IndInv'
<1>1. WriteCall /\ pc = "compare" /\ UNCHANGED <<mem, ready, memErr>>
  BY DEF Compare, IndInv, CallOK, SectorSteps
<1>2. mem \in [Pages -> Content] /\ ready \in BOOLEAN /\ memErr \in BOOLEAN
  BY DEF IndInv, PlainOK
<1>3. CASE Return("FLASH_ERROR") \/ Return("FLASH_OK")
  BY <1>1, <1>2, <1>3, ReturnInv
<1>4. CASE Go("scan") /\ page' = First /\ UNCHANGED <<group, left, differ, buf, todo>>
  <2>1. PlainOK' /\ UNCHANGED <<call, before>> /\ pc' = "scan"
    BY <1>1, <1>2, <1>4, GoPlain
  <2>2. WriteCall' /\ First' = First /\ Last' = Last
    BY <1>1, <2>1, SameCall
  <2>3. First \in First .. Last /\ First \in Pages /\ First \in Nat
    BY <1>1, WriteRange, Sizes DEF Pages
  <2>4. group = {}
    BY <1>1 DEF IndInv, LocalsOK
  <2>5. LocalsOK'
    BY <1>4, <2>1, <2>2, <2>3, <2>4 DEF IndInv, LocalsOK, SectorSteps, WriteCall
  <2>6. \A p : p \notin Wanted'
    <3>1. First' .. page' - 1 = {}
      BY <1>4, <2>2, <2>3
    <3> QED
      BY <2>1, <3>1 DEF Wanted, SectorSteps
  <2>7. WholeOK'
    <3> SUFFICES ASSUME NEW p \in Pages PROVE Good(p, mem[p])'
      BY DEF WholeOK
    <3>1. Good(p, mem[p])
      BY <1>1 DEF IndInv, WholeOK
    <3> QED
      BY <1>1, <2>1, <2>6, <3>1, GoodAgain DEF Good, WriteCall
  <2>8. CallOK' /\ BufferOK' /\ RestoreOK' /\ ProgramOK'
    BY <2>1, <2>2 DEF CallOK, WriteSteps, BufferOK, RestoreOK, ProgramOK
  <2> QED
    BY <2>1, <2>5, <2>7, <2>8 DEF IndInv
<1> QED
  BY <1>3, <1>4 DEF Compare

\* The group of a sector begins at its own sector.
LEMMA SectorOfGroup ==
  ASSUME NEW G \in SUBSET Pages, G # {}, NEW s, \A p \in G : SectorOf(p) = s
  PROVE  G \subseteq Neighbours(Min(G)) /\ SectorOf(Min(G)) = s
<1>1. Min(G) \in G
  BY MinIn, Sizes
<1> QED
  BY <1>1 DEF Neighbours

LEMMA ScanInv ==
  ASSUME IndInv, Scan
  PROVE  IndInv'
<1>1. WriteCall /\ pc = "scan" /\ UNCHANGED <<mem, ready, memErr>>
  BY DEF Scan, IndInv, CallOK, SectorSteps
<1>2. mem \in [Pages -> Content] /\ ready \in BOOLEAN /\ memErr \in BOOLEAN /\ differ \in BOOLEAN
      /\ left \subseteq Pages /\ todo \subseteq Pages /\ group \subseteq Pages /\ page \in Pages
  BY DEF IndInv, PlainOK, LocalsOK
<1>3. /\ page \in First .. Last /\ First \in Nat /\ Last \in Nat /\ First .. Last \subseteq Pages
  <2>1. page \in First .. Last
    BY <1>1 DEF IndInv, LocalsOK, WriteCall
  <2>2. First \in Pages /\ Last \in Pages
    BY <1>1, WriteRange
  <2> QED
    BY <2>1, <2>2, Sizes DEF Pages
<1>4. \A p \in Pages : Good(p, mem[p])
  BY <1>1 DEF IndInv, WholeOK
<1>5. /\ group \subseteq First .. page /\ page \notin group
      /\ \A p \in group : SectorOf(p) = SectorOf(page)
  BY <1>1 DEF IndInv, LocalsOK, WriteCall
<1>6. \A p \in First .. page - 1 : p \notin group \/ ~differ => Open(p, mem[p])
  BY <1>1, <1>3, <1>4 DEF Good, Wanted, WriteCall, SectorSteps
<1>7. CASE Return("FLASH_ERROR")
  BY <1>1, <1>2, <1>7, ReturnInv
<1>8. CASE ~Return("FLASH_ERROR")
  <2>1. PICK got \in IF differ THEN {mem[page]} ELSE SpiRead(page) :
          /\ got # NoData
          /\ UNCHANGED <<left, buf, todo>>
          /\ IF ~EndOfGroup
             THEN NextPage /\ differ' = EraseNeed(got) /\ group' = group \cup {page}
             ELSE IF EraseNeed(got)
             THEN Go("load") /\ differ' = TRUE /\ group' = group \cup {page} /\ UNCHANGED page
             ELSE NextPage /\ differ' = FALSE /\ group' = {}
    BY <1>8 DEF Scan
  <2>2. got = mem[page]
    BY <2>1 DEF SpiRead
  <2> DEFINE need == EraseNeed(got)
  <2>3. need \in BOOLEAN /\ (~need => ~differ /\ Open(page, mem[page]))
    BY <1>2, <2>2, HeldIsOpen DEF EraseNeed
  <2> HIDE DEF need
  <2>4. CASE ~EndOfGroup
    <3>1. page # Last /\ SectorOf(page + 1) = SectorOf(page)
      BY <2>4 DEF EndOfGroup
    <3>2. Go("scan") /\ page' = page + 1 /\ differ' = need /\ group' = group \cup {page}
      BY <2>1, <2>4, <3>1 DEF NextPage, need
    <3>3. PlainOK' /\ UNCHANGED <<call, before>> /\ pc' = "scan"
      BY <1>1, <1>2, <3>2, GoPlain
    <3>4. WriteCall' /\ First' = First /\ Last' = Last
      BY <1>1, <3>3, SameCall
    <3>5. page' \in First' .. Last' /\ page' \in Pages
      BY <1>3, <3>1, <3>2, <3>4
    <3>6. group' \subseteq First' .. page' /\ page' \notin group' /\ \A p \in group' : p < page'
      BY <1>3, <1>5, <3>2, <3>4
    <3>7. \A p \in group' : SectorOf(p) = SectorOf(page')
      BY <1>5, <3>1, <3>2
    <3>8. group' \subseteq Pages /\ differ' \in BOOLEAN /\ left' \subseteq Pages /\ todo' \subseteq Pages
      BY <1>2, <1>3, <2>1, <2>3, <3>2
    <3>9. LocalsOK'
      BY <3>3, <3>4, <3>5, <3>6, <3>7, <3>8 DEF LocalsOK, SectorSteps, WriteCall
    <3>10. WholeOK'
      <4> SUFFICES ASSUME NEW p \in Pages PROVE Good(p, mem[p])'
        BY DEF WholeOK
      <4>1. p \in Wanted' => p \in First .. page /\ (p \notin group \cup {page} \/ ~need)
        BY <1>3, <3>2, <3>3, <3>4 DEF Wanted, SectorSteps
      <4>2. p \in Wanted' => Open(p, mem[p])
        <5>1. CASE p = page
          BY <2>3, <4>1, <5>1
        <5>2. CASE p # page
          <6>1. p \in First .. page => p \in First .. page - 1
            BY <1>3, <5>2
          <6> QED
            BY <1>6, <2>3, <4>1, <6>1
        <5> QED
          BY <5>1, <5>2
      <4> QED
        BY <1>1, <1>4, <3>3, <4>2, GoodAgain DEF Good, WriteCall
    <3>11. CallOK' /\ BufferOK' /\ RestoreOK' /\ ProgramOK'
      BY <3>3, <3>4 DEF CallOK, WriteSteps, BufferOK, RestoreOK, ProgramOK
    <3> QED
      BY <3>3, <3>9, <3>10, <3>11 DEF IndInv
  <2>5. CASE EndOfGroup /\ need
    <3>1. Go("load") /\ differ' = TRUE /\ group' = group \cup {page} /\ page' = page
      BY <2>1, <2>5 DEF need
    <3>2. PlainOK' /\ UNCHANGED <<call, before>> /\ pc' = "load"
      BY <1>1, <1>2, <3>1, GoPlain
    <3>3. WriteCall' /\ First' = First /\ Last' = Last
      BY <1>1, <3>2, SameCall
    <3>4. group' \subseteq First' .. page' /\ group' \subseteq Pages /\ group' # {}
      BY <1>2, <1>3, <1>5, <3>1, <3>3
    <3>5. group' \subseteq Rewritten'
      BY <1>5, <3>1, <3>4, SectorOfGroup DEF Rewritten
    <3>6. left' \subseteq Pages /\ todo' \subseteq Pages /\ page' \in Pages /\ page' \in First' .. Last'
      BY <1>2, <1>3, <2>1, <3>1, <3>3
    <3>7. LocalsOK'
      BY <3>1, <3>2, <3>3, <3>4, <3>5, <3>6 DEF LocalsOK, SectorSteps, WriteCall
    <3>8. WholeOK'
      <4> SUFFICES ASSUME NEW p \in Pages PROVE Good(p, mem[p])'
        BY DEF WholeOK
      <4>1. p \in Wanted' => p \in First .. page - 1 /\ p \notin group
        BY <1>3, <3>1, <3>2, <3>3 DEF Wanted, SectorSteps
      <4> QED
        BY <1>1, <1>4, <1>6, <3>2, <4>1, GoodAgain DEF Good, WriteCall
    <3>9. CallOK' /\ BufferOK' /\ RestoreOK' /\ ProgramOK'
      BY <3>2, <3>3 DEF CallOK, WriteSteps, SectorSteps, BufferOK, RestoreOK, ProgramOK
    <3> QED
      BY <3>2, <3>7, <3>8, <3>9 DEF IndInv
  <2>6. CASE EndOfGroup /\ ~need
    <3>1. NextPage /\ differ' = FALSE /\ group' = {}
      BY <2>1, <2>6 DEF need
    <3>2. \A p \in First .. page : Open(p, mem[p])
      <4> TAKE p \in First .. page
      <4>1. CASE p = page
        BY <2>3, <2>6, <4>1
      <4>2. CASE p # page
        <5>1. p \in First .. page - 1
          BY <1>3, <4>2
        <5> QED
          BY <1>6, <2>3, <2>6, <5>1
      <4> QED
        BY <4>1, <4>2
    <3>3. \A p \in Pages : Fine(p, mem[p]) /\ Clean(p, mem[p])
      BY <1>4 DEF Good
    <3> QED
      BY <1>1, <1>2, <2>1, <3>1, <3>2, <3>3, NextPageInv
  <2> QED
    BY <2>3, <2>4, <2>5, <2>6
<1> QED
  BY <1>7, <1>8

-----------------------------------------------------------------------------
(* Steps of a sector                                                       *)

\* What every step of a sector knows
LEMMA SectorFacts ==
  ASSUME IndInv, pc \in SectorSteps
  PROVE  /\ WriteCall \/ EraseCall
         /\ mem \in [Pages -> Content] /\ ready \in BOOLEAN /\ memErr \in BOOLEAN
         /\ page \in Pages /\ left \subseteq Pages /\ todo \subseteq Pages /\ differ \in BOOLEAN
         /\ group # {} /\ group \subseteq Rewritten /\ group \subseteq Pages /\ group \subseteq DOMAIN Aim
         /\ Rewritten \subseteq Pages
<1>1. WriteCall \/ EraseCall
  BY DEF IndInv, CallOK, SectorSteps
<1>2. mem \in [Pages -> Content] /\ ready \in BOOLEAN /\ memErr \in BOOLEAN
  BY DEF IndInv, PlainOK
<1>3. /\ page \in Pages /\ left \subseteq Pages /\ todo \subseteq Pages /\ differ \in BOOLEAN
      /\ group # {} /\ group \subseteq Rewritten
  BY DEF IndInv, LocalsOK
<1> QED
  BY <1>1, <1>2, <1>3, GroupAimed DEF Rewritten, Neighbours

\* The group is blank and every other page good: on to the next sector, or out.
LEMMA EndOfSectorInv ==
  ASSUME IndInv, pc \in SectorSteps, EndOfSector, UNCHANGED <<mem, ready, memErr>>,
         \A p \in group : mem[p] = Blank,
         \A p \in Pages \ group : Good(p, mem[p])
  PROVE  IndInv'
<1>1. /\ WriteCall \/ EraseCall
      /\ mem \in [Pages -> Content] /\ ready \in BOOLEAN /\ memErr \in BOOLEAN
      /\ group \subseteq DOMAIN Aim /\ pc \notin {"idle", "compare"}
      /\ page \in Pages /\ left \subseteq Pages /\ todo \subseteq Pages /\ differ \in BOOLEAN
  BY SectorFacts DEF SectorSteps
<1>2. \A p \in Pages : mem[p] \in Content /\ Fine(p, mem[p]) /\ Clean(p, mem[p])
  <2> TAKE p \in Pages
  <2>1. CASE p \in group
    BY <1>1, <2>1, BlankIs, BlankIsGood
  <2>2. CASE p \notin group
    BY <2>2 DEF Good
  <2> QED
    BY <2>1, <2>2
<1>3. CASE WriteCall
  <2>1. \A p \in First .. page : Open(p, mem[p])
    <3> TAKE p \in First .. page
    <3>1. p \in Pages /\ p \in First .. Last
      <4>1. page \in First .. Last /\ First \in Pages /\ Last \in Pages
        BY <1>1, <1>3, WriteRange DEF IndInv, LocalsOK, WriteCall
      <4> QED
        BY <4>1, Sizes DEF Pages
    <3>2. CASE p \in group
      BY <1>1, <1>3, <3>1, <3>2, BlankIsGood
    <3>3. CASE p \notin group
      BY <1>3, <3>1, <3>3 DEF Good, Wanted, SectorSteps, WriteCall
    <3> QED
      BY <3>2, <3>3
  <2>2. NextPage /\ group' = {} /\ differ' = FALSE /\ left' = {} /\ todo' = {}
    BY <1>3 DEF EndOfSector, WriteCall
  <2> QED
    BY <1>1, <1>2, <1>3, <2>1, <2>2, NextPageInv
<1>4. CASE EraseCall /\ left = {}
  <2>1. Return("FLASH_OK")
    BY <1>4 DEF EndOfSector, EraseCall
  <2> QED
    BY <1>1, <2>1, ReturnInv
<1>5. CASE EraseCall /\ left # {}
  <2>1. /\ Go("load") /\ group' = FirstGroup(left) /\ left' = left \ FirstGroup(left)
        /\ todo' = {} /\ UNCHANGED <<page, differ>>
    BY <1>5 DEF EndOfSector, EraseCall
  <2>2. PlainOK' /\ UNCHANGED <<call, before>> /\ pc' = "load"
    BY <1>1, <2>1, GoPlain
  <2>3. EraseCall' /\ left \subseteq call.list
    BY <1>5, <2>2, SameCall DEF IndInv, LocalsOK, EraseCall
  <2>4. group' # {} /\ group' \subseteq left /\ group' \subseteq Rewritten'
    BY <1>1, <1>5, <2>1, FirstGroupIs DEF Rewritten
  <2>5. left' \subseteq left /\ left' \cup group' = left
    BY <2>1, <2>4
  <2>6. LocalsOK'
    BY <1>1, <2>1, <2>2, <2>3, <2>4, <2>5 DEF LocalsOK, EraseCall, SectorSteps
  <2>7. WholeOK'
    <3> SUFFICES ASSUME NEW p \in Pages PROVE Good(p, mem[p])'
      BY DEF WholeOK
    <3>1. p \in call.list \ (left' \cup group') => mem[p] = Blank
      BY <1>5, <2>5 DEF Good, EraseCall
    <3> QED
      BY <1>2, <1>5, <2>2, <3>1, GoodAgain DEF EraseCall
  <2>8. CallOK' /\ BufferOK' /\ RestoreOK' /\ ProgramOK'
    BY <2>2, <2>3 DEF CallOK, SectorSteps, BufferOK, RestoreOK, ProgramOK
  <2> QED
    BY <2>2, <2>6, <2>7, <2>8 DEF IndInv
<1> QED
  BY <1>1, <1>3, <1>4, <1>5

\* A step within a sector keeps the place in it.
LEMMA SameSector ==
  ASSUME IndInv, pc \in SectorSteps, NEW label, label \in SectorSteps, Go(label),
         UNCHANGED <<page, group, left, differ>>, todo' \subseteq Pages,
         mem' \in [Pages -> Content], ready' \in BOOLEAN, memErr' \in BOOLEAN
  PROVE  /\ CallOK' /\ PlainOK' /\ LocalsOK' /\ ProgramOK' /\ Rewritten' = Rewritten
         /\ \A p : Good(p, mem[p]) /\ mem'[p] = mem[p] => Good(p, mem[p])'
         /\ \A p : Good(p, buf[p]) /\ buf'[p] = buf[p] => Good(p, buf[p])'
<1>1. PlainOK' /\ UNCHANGED <<call, before>> /\ pc' = label /\ pc' \notin {"idle", "chip", "compare", "scan", "program", "check"}
  BY GoPlain DEF SectorSteps
<1>2. First' = First /\ Last' = Last /\ (WriteCall => WriteCall') /\ (EraseCall => EraseCall')
  BY <1>1, SameCall
<1>3. CallOK'
  BY <1>1, <1>2, SectorFacts DEF CallOK, WriteSteps
<1>4. Rewritten' = Rewritten
  BY DEF Rewritten
<1>5. LocalsOK'
  <2>1. pc # "compare"
    BY DEF SectorSteps
  <2> QED
    BY <1>1, <1>2, <1>4, <2>1 DEF IndInv, LocalsOK
<1>6. ProgramOK'
  BY <1>1 DEF ProgramOK
<1>7. Wanted' = Wanted
  BY <1>1, <1>2 DEF Wanted, SectorSteps
<1>8. ASSUME NEW p, Good(p, mem[p]), mem'[p] = mem[p] PROVE Good(p, mem[p])'
  BY <1>1, <1>7, <1>8, GoodAgain DEF Good
<1>9. ASSUME NEW p, Good(p, buf[p]), buf'[p] = buf[p] PROVE Good(p, buf[p])'
  BY <1>1, <1>7, <1>9, GoodBuffer DEF Good
<1> QED
  BY <1>1, <1>3, <1>4, <1>5, <1>6, <1>8, <1>9

LEMMA LoadInv ==
  ASSUME IndInv, Load
  PROVE  IndInv'
<1>1. pc = "load" /\ pc \in SectorSteps /\ UNCHANGED <<mem, ready, memErr>>
  BY DEF Load, SectorSteps
<1>2. \A p \in Pages : Good(p, mem[p])
  BY <1>1 DEF IndInv, WholeOK
<1>3. CASE Return("FLASH_ERROR")
  BY <1>1, <1>3, SectorFacts, ReturnInv
<1>4. CASE EndOfSector /\ \A p \in group : mem[p] = Blank
  BY <1>1, <1>2, <1>4, EndOfSectorInv
<1>5. CASE /\ Go("erase") /\ buf' = [p \in Rewritten |-> mem[p]]
           /\ UNCHANGED <<page, group, left, differ, todo>>
  <2>1. "erase" \in SectorSteps
    BY DEF SectorSteps
  <2>2. pc' = "erase"
    BY <1>5 DEF Go
  <2>3. /\ CallOK' /\ PlainOK' /\ LocalsOK' /\ ProgramOK' /\ Rewritten' = Rewritten
        /\ \A p : Good(p, mem[p]) /\ mem'[p] = mem[p] => Good(p, mem[p])'
    BY <1>1, <1>5, <2>1, SectorFacts, SameSector
  <2>4. WholeOK'
    BY <1>1, <1>2, <2>3 DEF WholeOK
  <2>5. \A p \in Rewritten : buf'[p] = mem[p] /\ p \in Pages
    BY <1>1, <1>5, SectorFacts
  <2>6. \A p \in Rewritten : Good(p, buf[p])'
    <3> TAKE p \in Rewritten
    <3>1. Good(p, mem[p]) /\ Good(p, mem[p])' /\ mem'[p] = buf'[p]
      BY <1>1, <1>2, <2>3, <2>5
    <3> QED
      BY <3>1 DEF Good, Fine, Clean, Open
  <2>7. BufferOK'
    BY <1>1, <2>2, <2>3, <2>5, <2>6 DEF BufferOK
  <2>8. RestoreOK'
    BY <2>2 DEF RestoreOK
  <2> QED
    BY <2>3, <2>4, <2>7, <2>8 DEF IndInv
<1> QED
  BY <1>3, <1>4, <1>5 DEF Load, Rewritten

\* An erase that is reported done is done.
LEMMA EraseTrue ==
  ASSUME NEW r \in SpiErase, r[2]
  PROVE  r[1]
<1>1. r = <<TRUE, TRUE>> => r[1]
  OBVIOUS
<1>2. r = <<TRUE, FALSE>> => r[1]
  OBVIOUS
<1>3. CASE r = <<FALSE, FALSE>>
  <2>1. ~r[2]
    BY <1>3
  <2> QED
    BY <2>1
<1> QED
  BY <1>1, <1>2, <1>3, Zenon DEF SpiErase

LEMMA EraseInv ==
  ASSUME IndInv, Erase
  PROVE  IndInv'
<1>1. pc = "erase" /\ pc \in SectorSteps /\ UNCHANGED <<ready, memErr>>
  BY DEF Erase, SectorSteps
<1>2. PICK r \in SpiErase, free \in BOOLEAN :
        /\ mem' = IF r[1] THEN ErasedSector(Sector) ELSE mem
        /\ IF r[2] /\ free
           THEN Go("restore") /\ todo' = Restorable /\ UNCHANGED <<page, group, left, differ, buf>>
           ELSE Return("FLASH_ERROR")
  BY DEF Erase
<1>3. ErasedSector(Sector) = [p \in Pages |-> IF p \in Rewritten THEN Blank ELSE mem[p]]
  BY DEF ErasedSector, Rewritten, Neighbours, Sector
<1>4. mem' \in [Pages -> Content]
  BY <1>1, <1>2, <1>3, SectorFacts, BlankIs
<1>5. CASE r[2] /\ free
  <2>1. r[1]
    BY <1>5, EraseTrue
  <2>2. Go("restore") /\ todo' = Restorable /\ UNCHANGED <<page, group, left, differ, buf>>
    BY <1>2, <1>5
  <2>3. "restore" \in SectorSteps /\ pc' = "restore"
    BY <2>2 DEF SectorSteps, Go
  <2>4. todo' \subseteq Rewritten \ group /\ todo' \subseteq Pages
    BY <1>1, <2>2, SectorFacts DEF Restorable, Rewritten
  <2>5. /\ CallOK' /\ PlainOK' /\ LocalsOK' /\ ProgramOK' /\ Rewritten' = Rewritten
        /\ \A p : Good(p, mem[p]) /\ mem'[p] = mem[p] => Good(p, mem[p])'
        /\ \A p : Good(p, buf[p]) /\ buf'[p] = buf[p] => Good(p, buf[p])'
    BY <1>1, <1>4, <2>2, <2>3, <2>4, SectorFacts, SameSector
  <2>6. \A p \in Rewritten : p \notin group => Good(p, buf[p])
    BY <1>1 DEF IndInv, BufferOK
  <2>7. BufferOK'
    BY <2>2, <2>3, <2>5, <2>6 DEF BufferOK
  <2>8. \A p \in Pages : Good(p, mem[p])
    BY <1>1 DEF IndInv, WholeOK
  <2>9. RestoreOK'
    <3>1. \A p \in Pages \ Rewritten : Good(p, mem[p])'
      BY <1>2, <1>3, <2>1, <2>5, <2>8
    <3>2. \A p \in Rewritten : mem'[p] = Blank
      BY <1>1, <1>2, <1>3, <2>1, SectorFacts
    <3>3. \A p \in Rewritten \ (group \cup todo') : buf[p] = Blank
      BY <2>2 DEF Restorable, Rewritten
    <3> QED
      BY <1>1, <2>2, <2>3, <2>4, <2>5, <3>1, <3>2, <3>3, SectorFacts DEF RestoreOK
  <2>10. WholeOK'
    BY <2>3 DEF WholeOK
  <2> QED
    BY <2>5, <2>7, <2>9, <2>10 DEF IndInv
<1>6. CASE ~(r[2] /\ free)
  BY <1>1, <1>2, <1>4, <1>6, SectorFacts, ReturnInv
<1> QED
  BY <1>5, <1>6

\* The page that is put back next
LEMMA NextRestored ==
  ASSUME IndInv, pc \in {"restore", "checkRestore"}, todo # {}
  PROVE  /\ Min(todo) \in todo /\ Min(todo) \in Rewritten /\ Min(todo) \notin group /\ Min(todo) \in Pages
         /\ Good(Min(todo), buf[Min(todo)])
<1>1. todo \subseteq Pages /\ todo \subseteq Rewritten \ group
  BY DEF IndInv, LocalsOK, RestoreOK
<1>2. Min(todo) \in todo
  BY <1>1, MinIn, Sizes
<1> QED
  BY <1>1, <1>2 DEF IndInv, BufferOK

\* A page that is put back gets no byte that nobody wrote.
LEMMA RestorePage ==
  ASSUME IndInv, pc = "restore", todo # {}, NEW n \in 0 .. PageSize
  PROVE  LET c == Programmed(mem[Min(todo)], buf[Min(todo)], n)
         IN  c \in Content /\ Clean(Min(todo), c)
<1> DEFINE p == Min(todo)
<1>1. Good(p, buf[p]) /\ mem[p] = Blank
  BY NextRestored DEF IndInv, RestoreOK
<1>2. n \in Nat /\ buf[p] \in Content /\ Clean(p, buf[p])
  BY <1>1, Sizes DEF Good
<1>3. DOMAIN buf[p] = Offsets /\ \A i \in Offsets : buf[p][i] \in Bytes \cup {Erased, Garbage}
  BY <1>2 DEF Content
<1> HIDE DEF p
<1>4. LET c == Programmed(mem[p], buf[p], n) IN c \in Content /\ Clean(p, c)
  BY <1>1, <1>2, <1>3, BlankIs, ProgrammedIs DEF Clean
<1> QED
  BY <1>4 DEF p

LEMMA RestoreInv ==
  ASSUME IndInv, Restore
  PROVE  IndInv'
<1> DEFINE p == Min(todo)
<1>1. pc = "restore" /\ pc \in SectorSteps /\ todo # {} /\ UNCHANGED <<ready, memErr>>
  BY DEF Restore, SectorSteps
<1>2. p \in todo /\ p \in Rewritten /\ p \notin group /\ p \in Pages /\ Good(p, buf[p]) /\ mem[p] = Blank
  BY <1>1, NextRestored DEF IndInv, RestoreOK
<1>3. PICK n \in 0 .. PageSize, ok \in BOOLEAN :
        /\ mem' = [mem EXCEPT ![p] = Programmed(mem[p], buf[p], n)]
        /\ IF ok THEN Go("checkRestore") /\ UNCHANGED locals ELSE Return("FLASH_ERROR")
  <2>1. PICK r \in SpiProgram(p, buf[p]) :
          /\ mem' = [mem EXCEPT ![p] = r[1]]
          /\ IF r[2] THEN Go("checkRestore") /\ UNCHANGED locals ELSE Return("FLASH_ERROR")
    BY DEF Restore
  <2>2. PICK n \in 0 .. PageSize, ok \in BOOLEAN : r = <<Programmed(mem[p], buf[p], n), ok>>
    BY DEF SpiProgram
  <2>3. r[1] = Programmed(mem[p], buf[p], n) /\ r[2] = ok
    BY <2>2
  <2> HIDE DEF p
  <2> QED
    BY <2>1, <2>3
<1>4. Programmed(mem[p], buf[p], n) \in Content /\ Clean(p, Programmed(mem[p], buf[p], n))
  BY <1>1, RestorePage
<1> HIDE DEF p
<1>5. mem' \in [Pages -> Content] /\ \A q \in Pages \ {p} : mem'[q] = mem[q]
  BY <1>1, <1>3, <1>4, SectorFacts
<1>6. CASE ok
  <2>1. Go("checkRestore") /\ UNCHANGED <<page, group, left, differ, buf, todo>>
    BY <1>3, <1>6 DEF locals
  <2>2. "checkRestore" \in SectorSteps /\ pc' = "checkRestore"
    BY <2>1 DEF SectorSteps, Go
  <2>3. /\ CallOK' /\ PlainOK' /\ LocalsOK' /\ ProgramOK' /\ Rewritten' = Rewritten
        /\ \A q : Good(q, mem[q]) /\ mem'[q] = mem[q] => Good(q, mem[q])'
        /\ \A q : Good(q, buf[q]) /\ buf'[q] = buf[q] => Good(q, buf[q])'
    BY <1>1, <1>5, <2>1, <2>2, SectorFacts, SameSector
  <2>4. BufferOK'
    BY <1>1, <2>1, <2>2, <2>3 DEF IndInv, BufferOK
  <2>5. Clean(p, mem[p])'
    <3>1. mem'[p] = Programmed(mem[p], buf[p], n)
      BY <1>1, <1>2, <1>3, SectorFacts
    <3>2. before' = before /\ p' = p
      BY <2>1 DEF Go, p
    <3> QED
      BY <1>4, <3>1, <3>2 DEF Clean
  <2>6. RestoreOK'
    <3>1. \A q \in Pages \ Rewritten : Good(q, mem[q])'
      BY <1>1, <1>2, <1>5, <2>3 DEF IndInv, RestoreOK
    <3>2. \A q \in group : mem'[q] = Blank
      BY <1>1, <1>2, <1>5, SectorFacts DEF IndInv, RestoreOK
    <3>3. \A q \in Rewritten \ (group \cup todo) : mem'[q] = buf[q]
      BY <1>1, <1>2, <1>5, SectorFacts DEF IndInv, RestoreOK
    <3>4. \A q \in todo : q # p => mem'[q] = Blank
      BY <1>1, <1>5, SectorFacts DEF IndInv, RestoreOK
    <3>5. todo \subseteq Rewritten \ group
      BY <1>1 DEF IndInv, RestoreOK
    <3> QED
      BY <1>1, <2>1, <2>2, <2>3, <2>5, <3>1, <3>2, <3>3, <3>4, <3>5 DEF RestoreOK, p
  <2>7. WholeOK'
    BY <2>2 DEF WholeOK
  <2> QED
    BY <2>3, <2>4, <2>6, <2>7 DEF IndInv
<1>7. CASE ~ok
  BY <1>1, <1>3, <1>5, <1>7, SectorFacts, ReturnInv
<1> QED
  BY <1>6, <1>7

LEMMA CheckRestoreInv ==
  ASSUME IndInv, CheckRestore
  PROVE  IndInv'
<1> DEFINE p == Min(todo)
<1>1. pc = "checkRestore" /\ pc \in SectorSteps /\ todo # {} /\ UNCHANGED <<mem, ready>>
  BY DEF CheckRestore, SectorSteps, IndInv, RestoreOK
<1>2. p \in todo /\ p \in Rewritten /\ p \notin group /\ p \in Pages
  BY <1>1, NextRestored
<1>3. PICK got \in SpiRead(p) :
          IF got = NoData THEN Return("FLASH_ERROR") /\ UNCHANGED memErr
          ELSE IF got # buf[p] THEN Return("FLASH_ERROR") /\ memErr' = TRUE
          ELSE /\ Go("restore") /\ memErr' = FALSE
               /\ todo' = todo \ {p}
               /\ UNCHANGED <<page, group, left, differ, buf>>
  BY DEF CheckRestore
<1> HIDE DEF p
<1>4. CASE Return("FLASH_ERROR")
  <2>1. memErr' \in BOOLEAN
    BY <1>1, <1>3, SectorFacts DEF Go, Return
  <2> QED
    BY <1>1, <1>4, <2>1, SectorFacts, ReturnInv
<1>5. CASE ~Return("FLASH_ERROR")
  <2>1. /\ mem[p] = buf[p] /\ Go("restore") /\ memErr' = FALSE
        /\ todo' = todo \ {p} /\ UNCHANGED <<page, group, left, differ, buf>>
    BY <1>3, <1>5 DEF SpiRead
  <2>2. "restore" \in SectorSteps /\ pc' = "restore"
    BY <2>1 DEF SectorSteps, Go
  <2>3. /\ CallOK' /\ PlainOK' /\ LocalsOK' /\ ProgramOK' /\ Rewritten' = Rewritten
        /\ \A q : Good(q, mem[q]) /\ mem'[q] = mem[q] => Good(q, mem[q])'
        /\ \A q : Good(q, buf[q]) /\ buf'[q] = buf[q] => Good(q, buf[q])'
    BY <1>1, <2>1, <2>2, SectorFacts, SameSector
  <2>4. BufferOK'
    BY <1>1, <2>1, <2>2, <2>3 DEF IndInv, BufferOK
  <2>5. RestoreOK'
    <3>1. \A q \in Pages \ Rewritten : Good(q, mem[q])'
      BY <1>1, <2>3 DEF IndInv, RestoreOK
    <3>2. /\ \A q \in group : mem[q] = Blank
          /\ \A q \in Rewritten \ (group \cup todo) : mem[q] = buf[q]
          /\ \A q \in todo : q # p => mem[q] = Blank
          /\ todo \subseteq Rewritten \ group
      BY <1>1 DEF IndInv, RestoreOK, p
    <3> QED
      BY <1>1, <2>1, <2>2, <2>3, <3>1, <3>2 DEF RestoreOK
  <2>6. WholeOK'
    BY <2>2 DEF WholeOK
  <2> QED
    BY <2>3, <2>4, <2>5, <2>6 DEF IndInv
<1> QED
  BY <1>4, <1>5

LEMMA RestoredInv ==
  ASSUME IndInv, Restored
  PROVE  IndInv'
<1>1. pc = "restore" /\ pc \in SectorSteps /\ todo = {} /\ UNCHANGED <<mem, ready, memErr>> /\ EndOfSector
  BY DEF Restored, SectorSteps
<1>2. \A p \in group : mem[p] = Blank
  BY <1>1 DEF IndInv, RestoreOK
<1>3. ASSUME NEW p \in Pages \ group PROVE Good(p, mem[p])
  <2>1. CASE p \in Rewritten
    <3>1. mem[p] = buf[p] /\ Good(p, buf[p])
      BY <1>1, <1>3, <2>1 DEF IndInv, RestoreOK, BufferOK
    <3> QED
      BY <3>1
  <2>2. CASE p \notin Rewritten
    BY <1>1, <1>3, <2>2 DEF IndInv, RestoreOK
  <2> QED
    BY <2>1, <2>2
<1> QED
  BY <1>1, <1>2, <1>3, EndOfSectorInv

-----------------------------------------------------------------------------
(* Steps of the write loop                                                 *)

LEMMA WriteFacts ==
  ASSUME IndInv, pc \in {"program", "check"}
  PROVE  /\ WriteCall /\ mem \in [Pages -> Content] /\ ready \in BOOLEAN /\ memErr \in BOOLEAN
         /\ page \in First .. Last /\ page \in Pages /\ First \in Nat /\ Last \in Nat /\ First .. Last \subseteq Pages
         /\ \A p \in Pages \ {page} : Good(p, mem[p])
         /\ \A p \in First .. page - 1 : mem[p] \in Aim[p]
         /\ TailKept(page, mem[page]) /\ Clean(page, mem[page])
         /\ pc = "program" => Open(page, mem[page])
<1>1. WriteCall
  BY DEF IndInv, CallOK, SectorSteps
<1>2. page \in First .. Last
  BY <1>1 DEF IndInv, LocalsOK, WriteCall
<1>3. First \in Nat /\ Last \in Nat /\ First .. Last \subseteq Pages
  <2>1. First \in Pages /\ Last \in Pages
    BY <1>1, WriteRange
  <2> QED
    BY <2>1, Sizes DEF Pages
<1> QED
  BY <1>1, <1>2, <1>3 DEF IndInv, PlainOK, ProgramOK

\* A programmed page keeps its tail and gets no byte that nobody wrote.
LEMMA ProgramPage ==
  ASSUME IndInv, pc = "program", NEW n \in 0 .. PageSize
  PROVE  LET c == Programmed(mem[page], Slice(page), n)
         IN  c \in Content /\ TailKept(page, c) /\ Clean(page, c)
<1> DEFINE c == Programmed(mem[page], Slice(page), n)
           data == Slice(page)
<1>1. mem[page] \in Content /\ n \in Nat
  BY WriteFacts, Sizes
<1>2. DOMAIN data \subseteq Offsets /\ \A i \in DOMAIN data : data[i] \in Bytes \cup {Erased}
  BY WriteFacts, SliceType
<1>3. Open(page, mem[page]) /\ TailKept(page, mem[page]) /\ Clean(page, mem[page])
  BY WriteFacts
<1>4. /\ c \in Content
      /\ \A i \in Offsets \ DOMAIN data : c[i] = mem[page][i]
      /\ \A i \in Offsets : c[i] = Garbage =>
            \/ mem[page][i] = Garbage
            \/ i \in DOMAIN data /\ data[i] = Garbage
            \/ i \in DOMAIN data /\ mem[page][i] \notin {Erased, data[i]}
  <2> HIDE DEF data
  <2> QED
    BY <1>1, <1>2, ProgrammedIs DEF data
<1> HIDE DEF c
<1>5. TailKept(page, c)
  BY <1>3, <1>4 DEF TailKept
<1>6. Clean(page, c)
  BY <1>2, <1>3, <1>4, FlashChipAssumption DEF Clean, Open
<1> QED
  BY <1>4, <1>5, <1>6 DEF c

LEMMA ProgramInv ==
  ASSUME IndInv, Program
  PROVE  IndInv'
<1>1. pc = "program" /\ UNCHANGED <<ready, memErr>>
  BY DEF Program
<1>2. PICK n \in 0 .. PageSize, ok \in BOOLEAN :
        /\ mem' = [mem EXCEPT ![page] = Programmed(mem[page], Slice(page), n)]
        /\ IF ok THEN Go("check") /\ UNCHANGED locals ELSE Return("FLASH_ERROR")
  <2>1. PICK r \in SpiProgram(page, Slice(page)) :
          /\ mem' = [mem EXCEPT ![page] = r[1]]
          /\ IF r[2] THEN Go("check") /\ UNCHANGED locals ELSE Return("FLASH_ERROR")
    BY DEF Program
  <2>2. PICK n \in 0 .. PageSize, ok \in BOOLEAN : r = <<Programmed(mem[page], Slice(page), n), ok>>
    BY DEF SpiProgram
  <2>3. r[1] = Programmed(mem[page], Slice(page), n) /\ r[2] = ok
    BY <2>2
  <2> QED
    BY <2>1, <2>3
<1> DEFINE c == Programmed(mem[page], Slice(page), n)
<1>3. c \in Content /\ TailKept(page, c) /\ Clean(page, c)
  BY <1>1, ProgramPage
<1> HIDE DEF c
<1>4. mem' \in [Pages -> Content] /\ mem'[page] = c /\ \A p \in Pages \ {page} : mem'[p] = mem[p]
  BY <1>1, <1>2, <1>3, WriteFacts DEF c
<1>5. CASE ok
  <2>1. Go("check") /\ UNCHANGED <<page, group, left, differ, buf, todo>>
    BY <1>2, <1>5 DEF locals
  <2>2. PlainOK' /\ UNCHANGED <<call, before>> /\ pc' = "check"
    BY <1>1, <1>4, <2>1, WriteFacts, GoPlain
  <2>3. WriteCall' /\ First' = First /\ Last' = Last /\ Aim' = Aim
    BY <1>1, <2>2, WriteFacts, SameCall
  <2>4. LocalsOK'
    BY <1>1, <2>1, <2>2, <2>3, WriteFacts DEF IndInv, LocalsOK, WriteCall, SectorSteps
  <2>5. \A p \in Pages \ {page} : Good(p, mem[p])'
    <3> TAKE p \in Pages \ {page}
    <3>1. Good(p, mem[p]) /\ Wanted' = Wanted
      BY <1>1, <2>1, <2>2, <2>3, WriteFacts DEF Wanted, SectorSteps
    <3> QED
      BY <1>1, <1>4, <2>2, <3>1, WriteFacts, GoodAgain DEF Good, WriteCall
  <2>6. (TailKept(page, mem[page]) /\ Clean(page, mem[page]))'
    BY <1>3, <1>4, <2>1, <2>2, SameCall DEF TailKept, Clean
  <2>7. \A p \in First .. page - 1 : mem'[p] \in Aim[p]
    <3> TAKE p \in First .. page - 1
    <3>1. p \in Pages \ {page} /\ mem[p] \in Aim[p]
      <4>1. p \in First .. Last /\ p # page /\ mem[p] \in Aim[p]
        BY <1>1, WriteFacts
      <4> QED
        BY <1>1, <4>1, WriteFacts
    <3> QED
      BY <1>4, <3>1
  <2>8. ProgramOK'
    BY <2>1, <2>2, <2>3, <2>5, <2>6, <2>7 DEF ProgramOK
  <2>9. CallOK' /\ WholeOK' /\ BufferOK' /\ RestoreOK'
    BY <2>2, <2>3 DEF CallOK, WriteSteps, WholeOK, BufferOK, RestoreOK
  <2> QED
    BY <2>2, <2>4, <2>8, <2>9 DEF IndInv
<1>6. CASE ~ok
  BY <1>1, <1>2, <1>4, <1>6, WriteFacts, ReturnInv
<1> QED
  BY <1>5, <1>6

\* A page that was read back as the data is as wanted.
LEMMA PageDone ==
  ASSUME IndInv, pc = "check", Holds(mem[page], Slice(page))
  PROVE  \A p \in First .. page : mem[p] \in Aim[p]
<1> TAKE p \in First .. page
<1>1. CASE p = page
  <2>1. mem[page] \in Content
    BY WriteFacts
  <2> QED
    BY <1>1, <2>1, WriteFacts, AimOfPage
<1>2. CASE p # page
  <2>1. p \in First .. page - 1
    BY <1>2, WriteFacts
  <2> QED
    BY <2>1, WriteFacts
<1> QED
  BY <1>1, <1>2

LEMMA CheckInv ==
  ASSUME IndInv, Check
  PROVE  IndInv'
<1>1. pc = "check" /\ UNCHANGED <<mem, ready>>
  BY DEF Check
<1>2. PICK got \in SpiRead(page) :
          IF got = NoData THEN Return("FLASH_ERROR") /\ UNCHANGED memErr
          ELSE IF ~Holds(got, Slice(page)) THEN Return("FLASH_ERROR") /\ memErr' = TRUE
          ELSE /\ memErr' = FALSE
               /\ IF page = Last
                  THEN Return("FLASH_OK")
                  ELSE Go("program") /\ page' = page + 1 /\ UNCHANGED <<group, left, differ, buf, todo>>
  BY DEF Check
<1>3. memErr' \in BOOLEAN
  BY <1>1, <1>2, WriteFacts
<1>4. CASE Return("FLASH_ERROR") \/ Return("FLASH_OK")
  BY <1>1, <1>3, <1>4, WriteFacts, ReturnInv
<1>5. CASE ~Return("FLASH_ERROR") /\ ~Return("FLASH_OK")
  <2>1. /\ Holds(mem[page], Slice(page)) /\ page # Last
        /\ Go("program") /\ page' = page + 1 /\ UNCHANGED <<group, left, differ, buf, todo>>
    BY <1>2, <1>5 DEF SpiRead
  <2>2. PlainOK' /\ UNCHANGED <<call, before>> /\ pc' = "program"
    BY <1>1, <1>3, <2>1, WriteFacts, GoPlain
  <2>3. WriteCall' /\ First' = First /\ Last' = Last /\ Aim' = Aim
    BY <1>1, <2>2, WriteFacts, SameCall
  <2>4. page' \in First .. Last /\ page' \in Pages
    BY <1>1, <2>1, WriteFacts
  <2>5. group \subseteq First .. page'
    BY <1>1, <2>1, WriteFacts DEF IndInv, LocalsOK, WriteCall
  <2>6. LocalsOK'
    BY <2>1, <2>2, <2>3, <2>4, <2>5 DEF IndInv, LocalsOK, WriteCall, SectorSteps
  <2>7. \A p \in First .. page : mem[p] \in Aim[p]
    BY <1>1, <2>1, PageDone
  <2>8. Wanted' = page' + 1 .. Last /\ Wanted = page + 1 .. Last
    BY <1>1, <2>2, <2>3 DEF Wanted, SectorSteps
  <2>9. Good(page', mem[page']) /\ page' \in Wanted
    BY <1>1, <2>1, <2>4, <2>8, WriteFacts
  <2>10. \A p \in Pages \ {page'} : Good(p, mem[p])'
    <3> TAKE p \in Pages \ {page'}
    <3>1. CASE p = page
      <4>1. Fine(p, mem[p]) /\ Clean(p, mem[p]) /\ mem[p] \in Content
        BY <1>1, <2>7, <3>1, AimIs, WriteFacts DEF Fine
      <4>2. p \notin Wanted'
        BY <1>1, <2>1, <2>8, <3>1, WriteFacts
      <4> QED
        BY <1>1, <2>2, <4>1, <4>2, WriteFacts, GoodAgain DEF WriteCall
    <3>2. CASE p # page
      <4>1. Good(p, mem[p])
        BY <1>1, <3>2, WriteFacts
      <4>2. p \in Wanted' => p \in Wanted
        BY <1>1, <2>1, <2>4, <2>8, WriteFacts
      <4> QED
        BY <1>1, <2>2, <4>1, <4>2, WriteFacts, GoodAgain DEF Good, WriteCall
    <3> QED
      BY <3>1, <3>2
  <2>11. TailKept(page', mem[page']) /\ Clean(page', mem[page']) /\ Open(page', mem[page'])
    BY <1>1, <2>4, <2>9, WriteFacts, FineKeepsTail DEF Good, WriteCall
  <2>12. (TailKept(page, mem[page]) /\ Clean(page, mem[page]) /\ Open(page, mem[page]))'
    BY <1>1, <2>2, <2>11, SameCall DEF TailKept, Clean, Open
  <2>13. \A p \in First' .. page' - 1 : mem'[p] \in Aim'[p]
    BY <1>1, <2>1, <2>3, <2>7, WriteFacts
  <2>14. ProgramOK'
    BY <2>2, <2>10, <2>12, <2>13 DEF ProgramOK
  <2>15. CallOK' /\ WholeOK' /\ BufferOK' /\ RestoreOK'
    BY <2>2, <2>3 DEF CallOK, WriteSteps, WholeOK, BufferOK, RestoreOK
  <2> QED
    BY <2>2, <2>6, <2>14, <2>15 DEF IndInv
<1> QED
  BY <1>4, <1>5

-----------------------------------------------------------------------------
(* The chip erase, power loss, and all steps                               *)

LEMMA ChipErasedInv ==
  ASSUME IndInv, ChipErased
  PROVE  IndInv'
<1>1. /\ mem' = [p \in Pages |-> Blank] \/ mem' = mem
      /\ UNCHANGED memErr /\ ready' \in {ready, FALSE}
      /\ Return("FLASH_OK") \/ Return("FLASH_ERROR")
  <2>1. PICK unlocked, enabled, free, sent, disabled, locked \in BOOLEAN :
          LET tried == unlocked /\ enabled /\ free
              main  == ChipStatus(unlocked, enabled, free, sent)
          IN
          /\ \/ mem' = [p \in Pages |-> Blank] /\ tried
             \/ mem' = mem /\ ~(tried /\ sent)
          /\ IF ~disabled /\ main # "FLASH_OK"
             THEN Return(main) /\ UNCHANGED ready
             ELSE IF locked
             THEN Return("FLASH_OK") /\ ready' = FALSE
             ELSE Return(IF disabled THEN main ELSE "FLASH_ERROR") /\ UNCHANGED ready
    BY DEF ChipErased
  <2> DEFINE main == ChipStatus(unlocked, enabled, free, sent)
  <2>2. main \in {"FLASH_OK", "FLASH_ERROR"}
    BY DEF ChipStatus
  <2> HIDE DEF main
  <2>3. UNCHANGED memErr
    BY DEF ChipErased
  <2>4. mem' = [p \in Pages |-> Blank] \/ mem' = mem
    BY <2>1
  <2>5. CASE Return(main) /\ UNCHANGED ready
    BY <2>2, <2>3, <2>4, <2>5
  <2>6. CASE Return("FLASH_OK") /\ ready' = FALSE
    BY <2>3, <2>4, <2>6
  <2>7. CASE Return(IF disabled THEN main ELSE "FLASH_ERROR") /\ UNCHANGED ready
    BY <2>2, <2>3, <2>4, <2>7
  <2> QED
    BY <2>1, <2>5, <2>6, <2>7 DEF main
<1>2. mem' \in [Pages -> Content] /\ ready' \in BOOLEAN /\ memErr' \in BOOLEAN
  BY <1>1, BlankIs DEF IndInv, PlainOK
<1> QED
  BY <1>1, <1>2, ReturnInv

LEMMA SpoiltIs == Spoilt \in Content
BY DEF Spoilt, Content

LEMMA CutProgramIs ==
  ASSUME NEW c \in Content, NEW data, DOMAIN data \subseteq Offsets,
         \A i \in DOMAIN data : data[i] \in Bytes \cup {Erased, Garbage},
         NEW x \in CutProgram(c, data)
  PROVE  x \in Content
<1>1. \A n \in Nat : Programmed(c, data, n) \in Content
  BY ProgrammedIs
<1>2. CASE \E n \in 0 .. PageSize : x = Programmed(c, data, n)
  BY <1>1, <1>2, Sizes
<1>3. CASE \E n \in DOMAIN data : x = [Programmed(c, data, n) EXCEPT ![n] = Garbage]
  <2>1. PICK n \in DOMAIN data : x = [Programmed(c, data, n) EXCEPT ![n] = Garbage]
    BY <1>3
  <2>2. Programmed(c, data, n) \in Content
    BY <1>1, Sizes DEF Offsets
  <2> QED
    BY <2>1, <2>2 DEF Content
<1> QED
  BY <1>2, <1>3 DEF CutProgram

\* The power costs only pages at risk.
LEMMA CutKeeps ==
  ASSUME IndInv, NEW m \in CutMemories
  PROVE  m \in [Pages -> Content] /\ \A p \in Pages \ Risk : m[p] = mem[p]
<1>1. mem \in [Pages -> Content]
  BY DEF IndInv, PlainOK
<1>2. CASE pc = "erase"
  <2>1. PICK kept \in SUBSET Neighbours(Min(group)), blank \in SUBSET Neighbours(Min(group)) :
          m = [p \in Pages |-> IF SectorOf(p) # Sector \/ p \in kept THEN mem[p]
                               ELSE IF p \in blank THEN Blank ELSE Spoilt]
    BY <1>2 DEF CutMemories
  <2>2. Risk = Neighbours(Min(group))
    BY <1>2 DEF Risk
  <2>3. \A p \in Pages : m[p] \in {mem[p], Blank, Spoilt}
    BY <2>1
  <2> QED
    BY <1>1, <2>1, <2>2, <2>3, BlankIs, SpoiltIs DEF Neighbours, Sector
<1>3. CASE pc = "restore" /\ todo # {}
  <2> DEFINE p == Min(todo)
  <2>1. p \in Pages /\ p \in Rewritten /\ buf[p] \in Content
    BY <1>3, NextRestored DEF Good
  <2>2. PICK c \in CutProgram(mem[p], buf[p]) : m = [mem EXCEPT ![p] = c]
    BY <1>3 DEF CutMemories
  <2>3. Risk = Rewritten
    BY <1>3 DEF Risk, Rewritten
  <2> HIDE DEF p
  <2>4. DOMAIN buf[p] = Offsets /\ \A i \in Offsets : buf[p][i] \in Bytes \cup {Erased, Garbage}
    BY <2>1 DEF Content
  <2>5. c \in Content
    BY <1>1, <2>1, <2>2, <2>4, CutProgramIs
  <2> QED
    BY <1>1, <2>1, <2>2, <2>3, <2>5
<1>4. CASE pc = "program"
  <2>1. page \in Pages /\ WriteCall /\ page \in First .. Last
    BY <1>4, WriteFacts
  <2>2. PICK c \in CutProgram(mem[page], Slice(page)) : m = [mem EXCEPT ![page] = c]
    BY <1>4 DEF CutMemories
  <2>3. Risk = {page}
    BY <1>4 DEF Risk
  <2>4. DOMAIN Slice(page) \subseteq Offsets /\ \A i \in DOMAIN Slice(page) : Slice(page)[i] \in Bytes \cup {Erased}
    BY <2>1, SliceType
  <2>5. c \in Content
    BY <1>1, <2>1, <2>2, <2>4, CutProgramIs
  <2> QED
    BY <1>1, <2>1, <2>2, <2>3, <2>5
<1>5. CASE pc = "chip"
  <2>1. m \in {mem, [p \in Pages |-> Blank], [p \in Pages |-> Spoilt]}
    BY <1>5 DEF CutMemories
  <2>2. Risk = Pages
    BY <1>5 DEF Risk
  <2> QED
    BY <1>1, <2>1, <2>2, BlankIs, SpoiltIs
<1>6. CASE pc \notin {"erase", "program", "chip"} /\ ~(pc = "restore" /\ todo # {})
  <2>1. m = mem
    BY <1>6 DEF CutMemories
  <2> QED
    BY <1>1, <2>1
<1> QED
  BY <1>2, <1>3, <1>4, <1>5, <1>6

LEMMA PowerLossInv ==
  ASSUME IndInv, PowerLoss
  PROVE  IndInv'
<1>1. mem' \in [Pages -> Content] /\ ready' = FALSE /\ memErr' = FALSE /\ Return("FLASH_ERROR")
  BY CutKeeps DEF PowerLoss
<1> QED
  BY <1>1, ReturnInv

LEMMA InitInv == Init => IndInv
<1> SUFFICES ASSUME Init PROVE IndInv
  OBVIOUS
<1>1. CallOK /\ WholeOK /\ BufferOK /\ RestoreOK /\ ProgramOK
  BY DEF Init, CallOK, WholeOK, BufferOK, RestoreOK, ProgramOK
<1>2. PlainOK
  <2>1. mem \in [Pages -> Content] /\ before \in [Pages -> Content]
    BY DriverAssumption DEF Init
  <2>2. calls \in 0 .. MaxCalls
    BY DriverAssumption DEF Init
  <2> QED
    BY <2>1, <2>2 DEF Init, PlainOK
<1>3. LocalsOK
  BY Sizes DEF Init, LocalsOK, NoCall, SectorSteps
<1> QED
  BY <1>1, <1>2, <1>3 DEF IndInv

LEMMA StutterInv ==
  ASSUME IndInv, UNCHANGED vars
  PROVE  IndInv'
<1>1. /\ First' = First /\ Last' = Last /\ Aim' = Aim /\ Rewritten' = Rewritten /\ Wanted' = Wanted
      /\ WriteCall' = WriteCall /\ EraseCall' = EraseCall
  BY DEF vars, First, Last, Aim, Slice, Rewritten, Wanted, WriteCall, EraseCall
<1>2. \A p : /\ Good(p, mem[p])' <=> Good(p, mem[p])
             /\ Good(p, buf[p])' <=> Good(p, buf[p])
  BY <1>1, SameCall DEF vars, Good, Fine, Clean, Open
<1>3. CallOK'
  BY <1>1 DEF vars, IndInv, CallOK
<1>4. PlainOK'
  BY DEF vars, IndInv, PlainOK
<1>5. LocalsOK'
  BY <1>1 DEF vars, IndInv, LocalsOK
<1>6. WholeOK' /\ BufferOK'
  BY <1>1, <1>2 DEF vars, IndInv, WholeOK, BufferOK
<1>7. RestoreOK'
  BY <1>1, <1>2 DEF vars, IndInv, RestoreOK, Clean
<1>8. ProgramOK'
  BY <1>1, <1>2, SameCall DEF vars, IndInv, ProgramOK, TailKept, Clean, Open
<1> QED
  BY <1>3, <1>4, <1>5, <1>6, <1>7, <1>8 DEF IndInv

LEMMA NextInv == IndInv /\ [Next]_vars => IndInv'
<1> SUFFICES ASSUME IndInv, [Next]_vars PROVE IndInv'
  OBVIOUS
<1>1. CASE InitDriver \/ Refuse
  BY <1>1, InitDriverInv
<1>2. CASE Write
  BY <1>2, WriteInv
<1>3. CASE EraseAddresses
  BY <1>3, EraseAddressesInv
<1>4. CASE EraseChip
  BY <1>4, EraseChipInv
<1>5. CASE Compare
  BY <1>5, CompareInv
<1>6. CASE Scan
  BY <1>6, ScanInv
<1>7. CASE Program
  BY <1>7, ProgramInv
<1>8. CASE Check
  BY <1>8, CheckInv
<1>9. CASE Load
  BY <1>9, LoadInv
<1>10. CASE Erase
  BY <1>10, EraseInv
<1>11. CASE Restore
  BY <1>11, RestoreInv
<1>12. CASE CheckRestore
  BY <1>12, CheckRestoreInv
<1>13. CASE Restored
  BY <1>13, RestoredInv
<1>14. CASE ChipErased
  BY <1>14, ChipErasedInv
<1>15. CASE PowerLoss
  BY <1>15, PowerLossInv
<1>16. CASE UNCHANGED vars
  BY <1>16, StutterInv
<1> QED
  BY <1>1, <1>2, <1>3, <1>4, <1>5, <1>6, <1>7, <1>8, <1>9, <1>10, <1>11, <1>12, <1>13, <1>14, <1>15, <1>16
     DEF Next, Step

\* The driver keeps its invariant, whatever fails and whenever the power goes.
THEOREM FlashInv == Spec => []IndInv
BY InitInv, NextInv, PTL DEF Spec

\* Pages, arguments and locals of the driver keep their types, for every size
\* of the chip.
THEOREM FlashTypeOK == Spec => []TypeOK
<1>1. IndInv => TypeOK
  BY DEF IndInv, PlainOK, LocalsOK, TypeOK
<1> QED
  BY <1>1, FlashInv, PTL

-----------------------------------------------------------------------------
(* No byte is spoilt while the power holds                                 *)

LEMMA CleanNow ==
  ASSUME IndInv, pc # "idle", NEW p \in Pages
  PROVE  Clean(p, mem[p])
<1>1. CASE pc \in {"compare", "scan", "load", "erase"}
  BY <1>1 DEF IndInv, WholeOK, Good
<1>2. CASE pc \in {"restore", "checkRestore"}
  <2>1. CASE p \notin Rewritten
    BY <1>2, <2>1 DEF IndInv, RestoreOK, Good
  <2>2. CASE p \in group
    BY <1>2, <2>2, BlankIs DEF IndInv, RestoreOK, Clean
  <2>3. CASE p \in todo
    BY <1>2, <2>3, BlankIs DEF IndInv, RestoreOK, Clean
  <2>4. CASE p \in Rewritten \ (group \cup todo)
    <3>1. mem[p] = buf[p] /\ Good(p, buf[p])
      BY <1>2, <2>4 DEF IndInv, RestoreOK, BufferOK
    <3> QED
      BY <3>1 DEF Good
  <2> QED
    BY <2>1, <2>2, <2>3, <2>4
<1>3. CASE pc \in {"program", "check"}
  <2>1. CASE p = page
    BY <1>3, <2>1, WriteFacts
  <2>2. CASE p # page
    BY <1>3, <2>2, WriteFacts DEF Good
  <2> QED
    BY <2>1, <2>2
<1>4. CASE pc = "chip"
  BY <1>4 DEF IndInv, PlainOK, Clean
<1> QED
  BY <1>1, <1>2, <1>3, <1>4 DEF IndInv, CallOK, WriteSteps, SectorSteps

\* What a step of a running call does to the pages
LEMMA StepClean ==
  ASSUME IndInv, Step, NEW p \in Pages
  PROVE  Clean(p, mem'[p]) /\ (mem'[p] = mem[p] \/ p \in Risk)
<1>1. pc # "idle"
  BY DEF Step, Compare, Scan, Program, Check, Load, Erase, Restore, CheckRestore, Restored, ChipErased
<1>2. Clean(p, mem[p]) /\ mem \in [Pages -> Content]
  BY <1>1, CleanNow DEF IndInv, PlainOK
<1>3. CASE Program
  <2>1. PICK r \in SpiProgram(page, Slice(page)) : mem' = [mem EXCEPT ![page] = r[1]]
    BY <1>3 DEF Program
  <2>2. PICK n \in 0 .. PageSize : r[1] = Programmed(mem[page], Slice(page), n)
    BY DEF SpiProgram
  <2>3. pc = "program" /\ Risk = {page}
    BY <1>3 DEF Program, Risk
  <2>4. Clean(page, r[1])
    BY <2>2, <2>3, ProgramPage
  <2> QED
    BY <1>2, <2>1, <2>3, <2>4
<1>4. CASE Restore
  <2> DEFINE q == Min(todo)
  <2>1. PICK r \in SpiProgram(q, buf[q]) : mem' = [mem EXCEPT ![q] = r[1]]
    BY <1>4 DEF Restore
  <2>2. PICK n \in 0 .. PageSize : r[1] = Programmed(mem[q], buf[q], n)
    BY DEF SpiProgram
  <2>3. pc = "restore" /\ todo # {} /\ Risk = Rewritten
    BY <1>4 DEF Restore, Risk, Rewritten
  <2>4. Clean(q, r[1]) /\ q \in Rewritten
    BY <2>2, <2>3, RestorePage, NextRestored
  <2> HIDE DEF q
  <2> QED
    BY <1>2, <2>1, <2>3, <2>4
<1>5. CASE Erase
  <2>1. mem' = mem \/ mem' = ErasedSector(Sector)
    BY <1>5 DEF Erase
  <2>2. Risk = Neighbours(Min(group))
    BY <1>5 DEF Erase, Risk
  <2>3. mem'[p] = mem[p] \/ (mem'[p] = Blank /\ p \in Risk)
    BY <2>1, <2>2 DEF ErasedSector, Neighbours, Sector
  <2> QED
    BY <1>2, <2>3, BlankIs DEF Clean
<1>6. CASE ChipErased
  <2>1. mem' = mem \/ mem' = [q \in Pages |-> Blank]
    BY <1>6 DEF ChipErased
  <2>2. Risk = Pages
    BY <1>6 DEF ChipErased, Risk
  <2> QED
    BY <1>2, <2>1, <2>2, BlankIs DEF Clean
<1>7. CASE Compare \/ Scan \/ Check \/ Load \/ CheckRestore \/ Restored
  <2>1. mem' = mem
    BY <1>7 DEF Compare, Scan, Check, Load, CheckRestore, Restored
  <2> QED
    BY <1>2, <2>1
<1> QED
  BY <1>3, <1>4, <1>5, <1>6, <1>7 DEF Step

\* The driver never programs a byte over a different one, for every size of
\* the chip and every data: a spoilt byte needs a power loss.
THEOREM FlashNeverSpoils == Spec => NeverSpoils
<1> DEFINE Kept == pc # "idle" /\ (\E p \in Pages, i \in Offsets : before[p][i] # Garbage /\ mem'[p][i] = Garbage)
                      => ~ready'
<1>1. IndInv /\ [Next]_vars => [Kept]_vars
  <2> SUFFICES ASSUME IndInv, Next, pc # "idle" PROVE Kept
    BY DEF Kept
  <2>1. CASE Step
    BY <2>1, StepClean DEF Clean
  <2>2. CASE PowerLoss
    BY <2>2 DEF PowerLoss
  <2>3. CASE InitDriver \/ Refuse \/ Write \/ EraseAddresses \/ EraseChip
    BY <2>3 DEF InitDriver, Refuse, Write, EraseAddresses, EraseChip
  <2> QED
    BY <2>1, <2>2, <2>3 DEF Next
<1> QED
  BY <1>1, FlashInv, PTL DEF Spec, NeverSpoils

-----------------------------------------------------------------------------
(* The driver implements FlashStore                                        *)

\* The terms of FlashStore, said of the driver
LEMMA StoreIs ==
  /\ Store!Aims = DOMAIN Aim
  /\ Store!Pages = Pages /\ Store!Content = Content
  /\ \A p : Store!Settled(p) <=> Fine(p, mem[p])
  /\ \A R : Store!Limited(R) <=> \/ R = {}
                                 \/ \E p \in DOMAIN Aim : R = {p} \/ R = Neighbours(p)
                                 \/ DOMAIN Aim = Pages /\ R = Pages
<1>1. Store!Aims = DOMAIN Aim
  BY DEF Store!Aims
<1>2. Store!Pages = Pages /\ Store!Content = Content /\ Store!Blank = Blank
  BY DEF Store!Pages, Pages, Store!Content, Content, Store!Offsets, Offsets, Store!Blank, Blank
<1>3. \A p : Store!Neighbours(p) = Neighbours(p)
  BY <1>2 DEF Store!Neighbours, Neighbours, Store!SectorOf, SectorOf
<1>4. \A p : Store!Settled(p) <=> Fine(p, mem[p])
  BY <1>1, <1>2 DEF Store!Settled, Fine
<1> QED
  BY <1>1, <1>2, <1>3, <1>4 DEF Store!Limited

\* A call aims at some pages of the chip, and has no result while it runs.
LEMMA RunningIs ==
  IndInv /\ pc # "idle" => DOMAIN Aim # {} /\ DOMAIN Aim \subseteq Pages /\ ~Told /\ call.kind \in Running
<1> SUFFICES ASSUME IndInv, pc # "idle"
             PROVE  DOMAIN Aim # {} /\ DOMAIN Aim \subseteq Pages /\ ~Told /\ call.kind \in Running
  OBVIOUS
<1>1. WriteCall \/ EraseCall \/ call.kind = "chip"
  BY DEF IndInv, CallOK
<1>2. DOMAIN Aim # {} /\ DOMAIN Aim \subseteq Pages
  <2>1. CASE WriteCall
    <3>1. First \in First .. Last /\ First .. Last \subseteq Pages
      BY <2>1, WriteRange, Sizes DEF Pages
    <3> QED
      BY <2>1, <3>1, AimIs
  <2>2. CASE EraseCall
    BY <2>2, AimIs DEF EraseCall
  <2>3. CASE call.kind = "chip"
    BY <2>3, AimIs, Sizes
  <2> QED
    BY <1>1, <2>1, <2>2, <2>3
<1>3. ~Told
  BY DEF IndInv, PlainOK, Told
<1> QED
  BY <1>1, <1>2, <1>3 DEF Running, WriteCall, EraseCall

LEMMA IdleIs ==
  ASSUME pc = "idle", call = NoCall
  PROVE  DOMAIN Aim = {} /\ Aim = <<>> /\ Risk = {}
BY AimIs DEF Risk

LEMMA RiskSmall == IndInv => Store!RiskIsSmall
<1> SUFFICES ASSUME IndInv PROVE Store!RiskIsSmall
  OBVIOUS
<1>1. CASE pc \in {"erase", "restore", "checkRestore"}
  <2>1. Risk = Neighbours(Min(group)) /\ pc \in SectorSteps
    BY <1>1 DEF Risk, SectorSteps
  <2>2. Min(group) \in group
    BY <2>1, SectorFacts, Sizes, MinIn
  <2> QED
    BY <2>1, <2>2, SectorFacts, StoreIs DEF Store!RiskIsSmall
<1>2. CASE pc \in {"program", "check"}
  BY <1>2, WriteFacts, AimIs, StoreIs DEF Risk, Store!RiskIsSmall
<1>3. CASE pc = "chip"
  BY <1>3, AimIs, StoreIs DEF Risk, Store!RiskIsSmall, IndInv, CallOK, WriteSteps, SectorSteps
<1>4. CASE pc \notin {"erase", "restore", "checkRestore", "program", "check", "chip"}
  BY <1>4, StoreIs DEF Risk, Store!RiskIsSmall
<1> QED
  BY <1>1, <1>2, <1>3, <1>4

LEMMA InitMaps == Init => Store!Init
BY StoreIs, InitInv, AimIs DEF Init, Store!Init, IndInv, PlainOK, Risk, Told

LEMMA BeginMaps ==
  ASSUME IndInv, IndInv', pc = "idle", pc' # "idle", mem' = mem, before' = mem
  PROVE  Store!Begin
<1>1. call = NoCall
  BY DEF IndInv, CallOK, WriteSteps, SectorSteps
<1>2. (IndInv /\ pc # "idle")' => (DOMAIN Aim # {} /\ DOMAIN Aim \subseteq Pages /\ ~Told)'
  BY RunningIs, PTL
<1>3. Store!RiskIsSmall'
  BY RiskSmall, PTL
<1>4. Store!Aims' = DOMAIN Aim' /\ Told' \in BOOLEAN
  BY DEF Store!Aims, Told
<1>5. Told' = FALSE
  BY <1>2, <1>4
<1> QED
  BY <1>1, <1>2, <1>3, <1>4, <1>5, IdleIs, StoreIs DEF Store!Begin

\* A step that only moves the risk, from pages that are settled
LEMMA MoveMaps ==
  ASSUME IndInv, IndInv', pc # "idle", pc' # "idle", UNCHANGED <<mem, call, before>>,
         Risk' = Risk \/ \A p \in Risk : Fine(p, mem[p])
  PROVE  [Store!Next]_(Store!vars)
<1>1. Aim' = Aim
  BY SameCall
<1>2. ~Told /\ DOMAIN Aim # {}
  BY RunningIs
<1>3. (IndInv /\ pc # "idle")' => ~Told'
  BY RunningIs, PTL
<1>4. Told' = Told
  BY <1>2, <1>3 DEF Told
<1>5. CASE Risk' = Risk
  BY <1>1, <1>4, <1>5 DEF Store!vars
<1>6. CASE \A p \in Risk : Fine(p, mem[p])
  <2>1. Store!RiskIsSmall'
    BY RiskSmall, PTL
  <2>2. Store!Aims' = Store!Aims
    BY <1>1 DEF Store!Aims
  <2>3. Store!Limited(Risk')
    BY <2>1, <2>2 DEF Store!RiskIsSmall, Store!Limited
  <2> QED
    BY <1>1, <1>2, <1>4, <1>6, <2>3, StoreIs DEF Store!Move, Store!Next
<1> QED
  BY <1>5, <1>6

\* A step that changes pages at risk
LEMMA ChangeMaps ==
  ASSUME IndInv, IndInv', pc # "idle", pc' # "idle", UNCHANGED <<call, before>>, Risk' = Risk,
         \A p \in Pages : mem'[p] = mem[p] \/ p \in Risk
  PROVE  [Store!Next]_(Store!vars)
<1>1. Aim' = Aim
  BY SameCall
<1>2. ~Told /\ DOMAIN Aim # {}
  BY RunningIs
<1>3. (IndInv /\ pc # "idle")' => ~Told'
  BY RunningIs, PTL
<1>4. Told' = Told
  BY <1>2, <1>3 DEF Told
<1>5. mem' \in [Pages -> Content]
  BY DEF IndInv, PlainOK
<1> QED
  BY <1>1, <1>2, <1>4, <1>5, StoreIs DEF Store!Change, Store!Next

LEMMA ReturnMaps ==
  ASSUME NEW s, Return(s)
  PROVE  /\ Aim' = <<>> /\ Risk' = {} /\ before' = mem'
         /\ Told' = (call.kind \in {"write", "erase"} /\ s = "FLASH_OK")
<1>1. pc' = "idle" /\ call' = NoCall /\ status' = <<call.kind, s>> /\ before' = mem'
  BY DEF Return
<1>2. Aim' = <<>> /\ Risk' = {}
  BY <1>1 DEF Aim, Risk, NoCall
<1>3. Told' <=> (call.kind \in {"write", "erase"} /\ s = "FLASH_OK")
  BY <1>1 DEF Told
<1> QED
  BY <1>1, <1>2, <1>3 DEF Told

\* A call that ends without success, or is cut
LEMMA AbortMaps ==
  ASSUME NEW s, Return(s), s # "FLASH_OK" \/ call.kind \notin {"write", "erase"},
         mem' \in [Pages -> Content], \A p \in Pages : mem'[p] = mem[p] \/ p \in Risk
  PROVE  [Store!Next]_(Store!vars)
BY ReturnMaps, StoreIs DEF Store!Abort, Store!Next

LEMMA SucceedMaps ==
  ASSUME IndInv, pc # "idle", call.kind \in {"write", "erase"}, Return("FLASH_OK"), mem' = mem,
         \A p \in DOMAIN Aim : mem[p] \in Aim[p],
         \A p \in Risk : Fine(p, mem[p])
  PROVE  [Store!Next]_(Store!vars)
<1>1. Aim' = <<>> /\ Risk' = {} /\ before' = mem' /\ Told' = TRUE
  BY ReturnMaps
<1> QED
  BY <1>1, RunningIs, StoreIs DEF Store!Succeed, Store!Next

LEMMA CompareMaps ==
  ASSUME IndInv, IndInv', Compare
  PROVE  [Store!Next]_(Store!vars)
<1>1. WriteCall /\ pc = "compare" /\ mem' = mem /\ Risk = {} /\ mem \in [Pages -> Content]
  BY DEF Compare, IndInv, CallOK, PlainOK, SectorSteps, EraseCall, Risk
<1>2. CASE Return("FLASH_ERROR")
  BY <1>1, <1>2, AbortMaps
<1>3. CASE (\A p \in First .. Last : Holds(mem[p], Slice(p))) /\ Return("FLASH_OK")
  <2>1. ASSUME NEW p \in First .. Last PROVE mem[p] \in Aim[p]
    <3>1. p \in Pages
      BY <1>1, WriteRange, Sizes DEF Pages
    <3>2. Fine(p, mem[p]) /\ mem[p] \in Content
      BY <1>1, <3>1 DEF IndInv, WholeOK, Good
    <3> QED
      BY <1>1, <1>3, <3>2, FineKeepsTail, AimOfPage
  <2> QED
    BY <1>1, <1>3, <2>1, AimIs, SucceedMaps DEF WriteCall
<1>4. CASE Go("scan")
  BY <1>1, <1>4, MoveMaps DEF Go
<1> QED
  BY <1>2, <1>3, <1>4 DEF Compare

LEMMA ScanMaps ==
  ASSUME IndInv, IndInv', Scan
  PROVE  [Store!Next]_(Store!vars)
<1>1. pc = "scan" /\ mem' = mem /\ Risk = {} /\ mem \in [Pages -> Content]
  BY DEF Scan, IndInv, PlainOK, Risk
<1>2. CASE Return("FLASH_ERROR")
  BY <1>1, <1>2, AbortMaps
<1>3. CASE Go("program") \/ Go("scan") \/ Go("load")
  BY <1>1, <1>3, MoveMaps DEF Go
<1> QED
  BY <1>2, <1>3 DEF Scan, NextPage

LEMMA ProgramMaps ==
  ASSUME IndInv, IndInv', Program
  PROVE  [Store!Next]_(Store!vars)
<1>1. pc = "program" /\ \A p \in Pages : mem'[p] = mem[p] \/ p \in Risk
  BY StepClean DEF Program, Step
<1>2. mem' \in [Pages -> Content]
  BY DEF IndInv, PlainOK
<1>3. CASE Go("check") /\ UNCHANGED locals
  <2>1. Risk' = Risk
    BY <1>1, <1>3 DEF Risk, Go, locals
  <2> QED
    BY <1>1, <1>3, <2>1, ChangeMaps DEF Go
<1>4. CASE Return("FLASH_ERROR")
  BY <1>1, <1>2, <1>4, AbortMaps
<1> QED
  BY <1>3, <1>4 DEF Program

LEMMA CheckMaps ==
  ASSUME IndInv, IndInv', Check
  PROVE  [Store!Next]_(Store!vars)
<1>1. /\ pc = "check" /\ mem' = mem /\ Risk = {page} /\ mem \in [Pages -> Content]
      /\ WriteCall /\ page \in First .. Last /\ DOMAIN Aim = First .. Last
  BY WriteFacts, AimIs DEF Check, Risk
<1>2. CASE Return("FLASH_ERROR")
  BY <1>1, <1>2, AbortMaps
<1>3. CASE Holds(mem[page], Slice(page)) /\ ((Return("FLASH_OK") /\ page = Last) \/ Go("program"))
  <2>1. \A p \in First .. page : mem[p] \in Aim[p]
    BY <1>1, <1>3, PageDone
  <2>2. mem[page] \in Aim[page]
    BY <1>1, <2>1, WriteFacts
  <2>3. \A p \in Risk : Fine(p, mem[p])
    BY <1>1, <2>2 DEF Fine
  <2>4. CASE Return("FLASH_OK") /\ page = Last
    BY <1>1, <2>1, <2>3, <2>4, SucceedMaps DEF WriteCall
  <2>5. CASE Go("program")
    BY <1>1, <2>3, <2>5, MoveMaps DEF Go
  <2> QED
    BY <1>3, <2>4, <2>5
<1> QED
  BY <1>1, <1>2, <1>3 DEF Check, SpiRead

LEMMA EndOfSectorMaps ==
  ASSUME IndInv, IndInv', pc \in SectorSteps, EndOfSector, mem' = mem,
         \A p \in group : mem[p] = Blank,
         \A p \in Pages \ group : Good(p, mem[p])
  PROVE  [Store!Next]_(Store!vars)
<1>1. /\ WriteCall \/ EraseCall
      /\ group \subseteq Pages /\ group \subseteq DOMAIN Aim
  BY SectorFacts
<1>2. Risk \subseteq Pages
  BY SectorFacts, WriteFacts DEF Risk, SectorSteps, Neighbours
<1>3. \A p \in Risk : Fine(p, mem[p])
  BY <1>1, <1>2, BlankIsGood DEF Good
<1>4. CASE Go("program") \/ Go("scan") \/ Go("load")
  BY <1>3, <1>4, MoveMaps DEF Go, SectorSteps
<1>5. CASE EraseCall /\ left = {} /\ Return("FLASH_OK")
  <2>1. \A p \in call.list : mem[p] = Blank
    BY <1>5 DEF Good, EraseCall
  <2>2. \A p \in DOMAIN Aim : mem[p] \in Aim[p]
    BY <1>5, <2>1, AimIs
  <2> QED
    BY <1>3, <1>5, <2>2, SucceedMaps DEF EraseCall, SectorSteps
<1> QED
  BY <1>1, <1>4, <1>5 DEF EndOfSector, NextPage, WriteCall, EraseCall

LEMMA LoadMaps ==
  ASSUME IndInv, IndInv', Load
  PROVE  [Store!Next]_(Store!vars)
<1>1. /\ pc = "load" /\ pc \in SectorSteps /\ mem' = mem /\ Risk = {} /\ mem \in [Pages -> Content]
  BY DEF Load, SectorSteps, IndInv, PlainOK, Risk
<1>2. CASE Return("FLASH_ERROR")
  BY <1>1, <1>2, AbortMaps
<1>3. CASE (\A p \in group : mem[p] = Blank) /\ EndOfSector
  BY <1>1, <1>3, EndOfSectorMaps DEF IndInv, WholeOK
<1>4. CASE Go("erase")
  BY <1>1, <1>4, MoveMaps DEF Go
<1> QED
  BY <1>2, <1>3, <1>4 DEF Load

\* The steps between the erase of a sector and its last page
LEMMA RewriteMaps ==
  ASSUME IndInv, IndInv', Erase \/ Restore \/ CheckRestore
  PROVE  [Store!Next]_(Store!vars)
<1>1. pc \in {"erase", "restore", "checkRestore"} /\ \A p \in Pages : mem'[p] = mem[p] \/ p \in Risk
  BY StepClean DEF Erase, Restore, CheckRestore, Step
<1>2. mem' \in [Pages -> Content]
  BY DEF IndInv, PlainOK
<1>3. CASE (Go("restore") \/ Go("checkRestore")) /\ group' = group
  <2>1. Risk' = Risk
    BY <1>1, <1>3 DEF Risk, Go
  <2> QED
    BY <1>1, <1>3, <2>1, ChangeMaps DEF Go
<1>4. CASE Return("FLASH_ERROR")
  BY <1>1, <1>2, <1>4, AbortMaps
<1> QED
  BY <1>3, <1>4 DEF Erase, Restore, CheckRestore, locals

LEMMA RestoredMaps ==
  ASSUME IndInv, IndInv', Restored
  PROVE  [Store!Next]_(Store!vars)
<1>1. pc = "restore" /\ pc \in SectorSteps /\ todo = {} /\ mem' = mem /\ EndOfSector
  BY DEF Restored, SectorSteps
<1>2. \A p \in group : mem[p] = Blank
  BY <1>1 DEF IndInv, RestoreOK
<1>3. ASSUME NEW p \in Pages \ group PROVE Good(p, mem[p])
  <2>1. CASE p \notin Rewritten
    BY <1>1, <1>3, <2>1 DEF IndInv, RestoreOK
  <2>2. CASE p \in Rewritten
    <3>1. mem[p] = buf[p]
      BY <1>1, <1>3, <2>2 DEF IndInv, RestoreOK
    <3>2. Good(p, buf[p])
      BY <1>1, <1>3, <2>2 DEF IndInv, BufferOK
    <3> QED
      BY <3>1, <3>2
  <2> QED
    BY <2>1, <2>2
<1> QED
  BY <1>1, <1>2, <1>3, EndOfSectorMaps

LEMMA ChipErasedMaps ==
  ASSUME IndInv, IndInv', ChipErased
  PROVE  [Store!Next]_(Store!vars)
<1>1. pc = "chip" /\ \A p \in Pages : mem'[p] = mem[p] \/ p \in Risk
  BY StepClean DEF ChipErased, Step
<1>2. mem' \in [Pages -> Content]
  BY DEF IndInv, PlainOK
<1>3. \E s : Return(s)
  BY DEF ChipErased
<1>4. call.kind = "chip"
  BY <1>1 DEF IndInv, CallOK, WriteSteps, SectorSteps
<1> QED
  BY <1>1, <1>2, <1>3, <1>4, AbortMaps

LEMMA NextMaps == IndInv /\ IndInv' /\ [Next]_vars => [Store!Next]_(Store!vars)
<1> SUFFICES ASSUME IndInv, IndInv', [Next]_vars PROVE [Store!Next]_(Store!vars)
  OBVIOUS
<1>1. CASE UNCHANGED vars \/ InitDriver
  <2>1. UNCHANGED <<mem, before, pc, call, status, page, group>>
    BY <1>1 DEF vars, InitDriver, locals
  <2>2. Aim' = Aim /\ Risk' = Risk /\ Told' = Told
    BY <2>1, SameCall DEF Risk, Told
  <2> QED
    BY <2>1, <2>2 DEF Store!vars
<1>2. CASE Refuse
  <2>1. UNCHANGED <<mem, before, pc, call, page, group>> /\ pc = "idle" /\ call = NoCall
    BY <1>2 DEF Refuse, locals, IndInv, CallOK, WriteSteps, SectorSteps
  <2>2. Aim' = Aim /\ Risk' = Risk /\ DOMAIN Aim = {}
    BY <2>1, SameCall, IdleIs DEF Risk
  <2>3. status'[2] \in {"FLASH_ERROR", "FLASH_OOM"}
    BY <1>2 DEF Refuse
  <2>4. Told' = FALSE
    BY <2>3 DEF Told
  <2> QED
    BY <2>1, <2>2, <2>4, StoreIs DEF Store!Refuse, Store!Next
<1>3. CASE Write \/ EraseAddresses \/ EraseChip
  <2>1. pc = "idle" /\ pc' # "idle" /\ mem' = mem /\ before' = mem
    BY <1>3 DEF Write, EraseAddresses, EraseChip, Begin
  <2> QED
    BY <2>1, BeginMaps DEF Store!Next
<1>4. CASE PowerLoss
  BY <1>4, CutKeeps, AbortMaps DEF PowerLoss
<1>5. CASE Step
  BY <1>5, CompareMaps, ScanMaps, ProgramMaps, CheckMaps, LoadMaps, RewriteMaps, RestoredMaps, ChipErasedMaps DEF Step
<1> QED
  BY <1>1, <1>2, <1>3, <1>4, <1>5 DEF Next

\* Whatever fails and whenever the power goes, the driver gives what
\* FlashStore promises, for every size of the chip and every write and erase.
THEOREM FlashImplementsStore == Spec => KeepsPromise
<1>1. Init => Store!Init
  BY InitMaps
<1>2. IndInv /\ IndInv' /\ [Next]_vars => [Store!Next]_(Store!vars)
  BY NextMaps
<1> QED
  BY <1>1, <1>2, FlashInv, PTL DEF Spec, KeepsPromise, Store!Spec
=============================================================================
