------------------------------ MODULE FlashW25Q ------------------------------
(***************************************************************************)
(* The synchronous driver of the W25Q flash, src/StorageDriver/w25qxx/     *)
(* w25qxx.c.  A page of the chip can only be written after its whole       *)
(* sector was erased, so w25qxx_write reads the sector, erases it, puts    *)
(* the neighbours back and programs the new pages, each page followed by   *)
(* a read back.  One action here is one SPI transaction that reads or      *)
(* changes the chip.  Every transaction may fail; the power may go between *)
(* any two of them, and inside one that changes the chip.                  *)
(*                                                                         *)
(* FlashStore says what remains true of the stored pages: see Store.       *)
(***************************************************************************)
EXTENDS FlashChip, FiniteSets, FiniteSetsExt

CONSTANTS
    Datas,    \* bound: data of a write, functions on 0 .. len - 1
    Lists,    \* bound: lists of pages passed to an erase
    MaxCalls, \* bound: calls of a behaviour
    Formats   \* bound: contents of the chip when the model starts

\* What the caller owes the driver.  Addresses are natural numbers: addr + len
\* does not wrap 32 bits, as it may in the checks of w25qxx.c:333, 814 and 966.
\* A list to erase has pages of the chip, each once, the pages of a sector next
\* to each other and the sectors in order: w25qxx_erase_addresses checks neither
\* that an address is that of a page nor that it is in the chip
\* (w25qxx.c:530-611).
ASSUME DriverAssumption ==
    /\ MaxCalls \in Nat
    /\ Formats \subseteq [Pages -> Content]
    /\ \A data \in Datas :
          /\ IsFiniteSet(DOMAIN data) /\ DOMAIN data # {}
          /\ data \in [0 .. Cardinality(DOMAIN data) - 1 -> Bytes \cup {Erased}]
    /\ \A list \in Lists : list # {} /\ list \subseteq Pages

VARIABLES
    mem,      \* the chip's pages
    ready,    \* w25q.initialized
    memErr,   \* status EXPECTED_MEMORY_ERROR of soul.c
    pc,       \* where the running call is; "idle" between calls
    call,     \* arguments of the running or the last call
    page,     \* page the loop of w25qxx_write is at
    group,    \* addresses to erase in the current sector
    left,     \* addresses w25qxx_erase_addresses has not come to yet
    differ,   \* erase_need: a page of the group differs from the data
    buf,      \* sector_buf
    todo,     \* pages of the sector that are still to be restored
    status,   \* the last call, and its result when it has returned
    calls,    \* calls begun, counted for the bound
    before    \* history: the pages when the call began

vars == <<mem, ready, memErr, pc, call, page, group, left, differ, buf, todo, status, calls, before>>

NoCall == [kind |-> "none"]

NoData == <<>>

Size == Cardinality(Pages) * PageSize

\* The bytes of the write that belong to page p, from the page's first byte.
First == call.addr \div PageSize
Last  == (call.addr + call.len - 1) \div PageSize
Least(a, b) == IF a < b THEN a ELSE b
Slice(p) ==
    LET off == (p - First) * PageSize
    IN  [i \in 0 .. Least(PageSize, call.len - off) - 1 |-> call.data[off + i]]

\* _w25q_read: the page, or a failure.
SpiRead(p) == {mem[p], NoData}

\* _w25q_write: a failed transfer leaves the first n bytes programmed; the
\* result is that of the commands sent AFTER the data, so every n goes with
\* success and with failure.
SpiProgram(p, data) == {<<Programmed(mem[p], data, n), ok>> : n \in 0 .. PageSize, ok \in BOOLEAN}

\* _w25q_erase_sector: success means erased, failure means nothing.
SpiErase == {<<TRUE, TRUE>>, <<TRUE, FALSE>>, <<FALSE, FALSE>>}

ErasedSector(s) == [p \in Pages |-> IF SectorOf(p) = s THEN Blank ELSE mem[p]]

locals == <<page, group, left, differ, buf, todo>>

ClearLocals == page' = 0 /\ group' = {} /\ left' = {} /\ differ' = FALSE /\ buf' = <<>> /\ todo' = {}

Begin(label, c) ==
    /\ calls < MaxCalls /\ calls' = calls + 1
    /\ pc' = label /\ call' = c
    /\ status' = <<c.kind, "running">>
    /\ before' = mem
    /\ UNCHANGED <<mem, ready, memErr>>

Go(label) == pc' = label /\ UNCHANGED <<call, calls, status, before>>

\* Back to the caller: the driver's variables go out of scope.
Return(s) ==
    /\ pc' = "idle" /\ call' = NoCall
    /\ status' = <<call.kind, s>>
    /\ before' = mem'
    /\ UNCHANGED calls
    /\ ClearLocals

\* The sector that is being rewritten, and what has to be put back.
Sector == SectorOf(Min(group))
Restorable == {p \in Neighbours(Min(group)) \ group : buf[p] # Blank}

FirstGroup(list) == {p \in list : SectorOf(p) = SectorOf(Min(list))}

-----------------------------------------------------------------------------
(* Calls                                                                   *)

\* w25qxx_init.  A command to the chip takes effect whatever the chip select
\* does around it: _w25q_set_protect_block sends 0x50 and 0x01 within one
\* frame (w25qxx.c:1230-1261), which a real W25Q would not execute.
InitDriver ==
    /\ pc = "idle" /\ ~ready
    /\ ready' \in BOOLEAN
    /\ UNCHANGED <<mem, memErr, pc, call, calls, status, before, locals>>

\* Not initialized, an address inside a page, or one beyond the chip.  The
\* refusals are the only FLASH_OOM here.  FLASH_BUSY, and the FLASH_OOM of a
\* nested call, stand as FLASH_ERROR: StorageDriver hands them on under names of
\* its own (StorageDriver.cpp:155-160), and nothing beyond it tells failures apart.
Refuse ==
    /\ pc = "idle"
    /\ \E addr \in 0 .. Size, data \in Datas :
          \/ /\ ~ready \/ addr % PageSize # 0
             /\ status' = <<"write", "FLASH_ERROR">>
          \/ /\ ready /\ addr % PageSize = 0 /\ addr + Cardinality(DOMAIN data) > Size
             /\ status' = <<"write", "FLASH_OOM">>
    /\ UNCHANGED <<mem, ready, memErr, pc, call, calls, before, locals>>

\* w25qxx_write, arguments accepted
Write ==
    /\ pc = "idle" /\ ready
    /\ \E addr \in 0 .. Size - 1, data \in Datas :
          LET len == Cardinality(DOMAIN data) IN
          /\ addr % PageSize = 0
          /\ addr + len <= Size
          /\ Begin("compare", [kind |-> "write", addr |-> addr, len |-> len, data |-> data])
    /\ UNCHANGED locals

\* w25qxx_erase_addresses; w25qxx_erase_sector passes all pages of a sector.
EraseAddresses ==
    /\ pc = "idle" /\ ready
    /\ \E list \in Lists :
          /\ Begin("load", [kind |-> "erase", list |-> list])
          /\ group' = FirstGroup(list)
          /\ left' = list \ FirstGroup(list)
    /\ UNCHANGED <<page, differ, buf, todo>>

\* w25qxx_erase_chip
EraseChip ==
    /\ pc = "idle"
    /\ Begin("chip", [kind |-> "chip"])
    /\ UNCHANGED locals

-----------------------------------------------------------------------------
(* w25qxx_write                                                            *)

\* The whole range is compared first; nothing is done when it is there.
Compare ==
    /\ pc = "compare"
    /\ UNCHANGED <<mem, ready, memErr>>
    /\ \/ Return("FLASH_ERROR")
       \/ /\ \A p \in First .. Last : Holds(mem[p], Slice(p))
          /\ Return("FLASH_OK")
       \/ /\ \E p \in First .. Last : ~Holds(mem[p], Slice(p))
          /\ Go("scan") /\ page' = First
          /\ UNCHANGED <<group, left, differ, buf, todo>>

\* On to the next page of the erase loop, or to the write loop.
NextPageLate ==
    IF page = Last + 1
    THEN Go("program") /\ page' = First
    ELSE Go("scan") /\ page' = page + 1
NextPage ==
    IF page = Last
    THEN Go("program") /\ page' = First
    ELSE Go("scan") /\ page' = page + 1

\* erase_need
EraseNeedLast(got) == ~Holds(got, Slice(page))
EraseNeed(got) == differ \/ ~Holds(got, Slice(page))

EndOfGroup == page = Last \/ SectorOf(page + 1) # SectorOf(page)

\* One page of the erase loop: it joins the group, and the sector is erased
\* at its end when a page of it differs.
Scan ==
    /\ pc = "scan"
    /\ UNCHANGED <<mem, ready, memErr>>
    /\ \E got \in IF differ THEN {mem[page]} ELSE SpiRead(page) :
          IF got = NoData
          THEN Return("FLASH_ERROR")
          ELSE LET need == EraseNeed(got) IN
               /\ UNCHANGED <<left, buf, todo>>
               /\ IF ~EndOfGroup
                  THEN NextPage /\ differ' = need /\ group' = group \cup {page}
                  ELSE IF need
                  THEN Go("load") /\ differ' = TRUE /\ group' = group \cup {page} /\ UNCHANGED page
                  ELSE NextPage /\ differ' = FALSE /\ group' = {}

\* _w25q_write of the page's data
Program ==
    /\ pc = "program"
    /\ UNCHANGED <<ready, memErr>>
    /\ \E r \in SpiProgram(page, Slice(page)) :
          /\ mem' = [mem EXCEPT ![page] = r[1]]
          /\ IF r[2] THEN Go("check") /\ UNCHANGED locals ELSE Return("FLASH_ERROR")

\* The page is read back and compared.
CheckReadOnly ==
    /\ pc = "check"
    /\ UNCHANGED <<mem, ready>>
    /\ \E got \in SpiRead(page) :
          IF got = NoData THEN Return("FLASH_ERROR") /\ UNCHANGED memErr
          ELSE /\ memErr' = FALSE
               /\ IF page = Last
                  THEN Return("FLASH_OK")
                  ELSE Go("program") /\ page' = page + 1 /\ UNCHANGED <<group, left, differ, buf, todo>>
Check ==
    /\ pc = "check"
    /\ UNCHANGED <<mem, ready>>
    /\ \E got \in SpiRead(page) :
          IF got = NoData THEN Return("FLASH_ERROR") /\ UNCHANGED memErr
          ELSE IF ~Holds(got, Slice(page)) THEN Return("FLASH_ERROR") /\ memErr' = TRUE
          ELSE /\ memErr' = FALSE
               /\ IF page = Last
                  THEN Return("FLASH_OK")
                  ELSE Go("program") /\ page' = page + 1 /\ UNCHANGED <<group, left, differ, buf, todo>>

-----------------------------------------------------------------------------
(* w25qxx_erase_addresses, one sector at a time                            *)

\* The sector is done: back to the write, on to the next sector, or out.
EndOfSector ==
    IF call.kind = "write"
    THEN NextPage /\ group' = {} /\ differ' = FALSE /\ left' = {} /\ buf' = <<>> /\ todo' = {}
    ELSE IF left = {}
    THEN Return("FLASH_OK")
    ELSE /\ Go("load")
         /\ group' = FirstGroup(left)
         /\ left' = left \ FirstGroup(left)
         /\ buf' = <<>> /\ todo' = {}
         /\ UNCHANGED <<page, differ>>

\* The sector is read; it is left alone when the pages listed are blank.
Load ==
    /\ pc = "load"
    /\ UNCHANGED <<mem, ready, memErr>>
    /\ \/ Return("FLASH_ERROR")
       \/ IF \A p \in group : mem[p] = Blank
          THEN EndOfSector
          ELSE /\ Go("erase")
               /\ buf' = [p \in Neighbours(Min(group)) |-> mem[p]]
               /\ UNCHANGED <<page, group, left, differ, todo>>

Erase ==
    /\ pc = "erase"
    /\ UNCHANGED <<ready, memErr>>
    /\ \E r \in SpiErase, free \in BOOLEAN :
          /\ mem' = IF r[1] THEN ErasedSector(Sector) ELSE mem
          /\ IF r[2] /\ free
             THEN Go("restore") /\ todo' = Restorable /\ UNCHANGED <<page, group, left, differ, buf>>
             ELSE Return("FLASH_ERROR")

\* The next page that was not listed and not blank is put back.
Restore ==
    /\ pc = "restore" /\ todo # {}
    /\ UNCHANGED <<ready, memErr>>
    /\ LET p == Min(todo) IN
       \E r \in SpiProgram(p, buf[p]) :
          /\ mem' = [mem EXCEPT ![p] = r[1]]
          /\ IF r[2] THEN Go("checkRestore") /\ UNCHANGED locals ELSE Return("FLASH_ERROR")

CheckRestoreAgain ==
    /\ pc = "checkRestore"
    /\ UNCHANGED <<mem, ready>>
    /\ LET p == Min(todo) IN
       \E got \in {mem[p]} :
          IF got # buf[p] THEN Return("FLASH_ERROR") /\ memErr' = TRUE
          ELSE Go("restore") /\ memErr' = FALSE /\ UNCHANGED locals
CheckRestore ==
    /\ pc = "checkRestore"
    /\ UNCHANGED <<mem, ready>>
    /\ LET p == Min(todo) IN
       \E got \in SpiRead(p) :
          IF got = NoData THEN Return("FLASH_ERROR") /\ UNCHANGED memErr
          ELSE IF got # buf[p] THEN Return("FLASH_ERROR") /\ memErr' = TRUE
          ELSE /\ Go("restore") /\ memErr' = FALSE
               /\ todo' = todo \ {p}
               /\ UNCHANGED <<page, group, left, differ, buf>>

Restored ==
    /\ pc = "restore" /\ todo = {}
    /\ UNCHANGED <<mem, ready, memErr>>
    /\ EndOfSector

-----------------------------------------------------------------------------
(* w25qxx_erase_chip                                                       *)

\* Result of the commands up to the erase: a wait for the chip that times
\* out leaves the status of the command before it.
ChipStatus(unlocked, enabled, free, sent) ==
    IF ~unlocked \/ ~enabled \/ (free /\ ~sent) THEN "FLASH_ERROR" ELSE "FLASH_OK"

\* The block protection is set again at the end, and its success replaces
\* the status.
ChipErased ==
    /\ pc = "chip"
    /\ UNCHANGED memErr
    /\ \E unlocked, enabled, free, sent, disabled, locked \in BOOLEAN :
          LET tried == unlocked /\ enabled /\ free
              main  == ChipStatus(unlocked, enabled, free, sent)
          IN
          /\ \/ mem' = [p \in Pages |-> Blank] /\ tried
             \/ mem' = mem /\ ~(tried /\ sent)
          /\ IF ~disabled /\ main # "FLASH_OK"
             THEN Return(main) /\ UNCHANGED ready
             ELSE IF locked
             THEN Return("FLASH_OK") /\ ready' = FALSE
             ELSE Return(IF disabled THEN main ELSE "FLASH_ERROR") /\ UNCHANGED ready

-----------------------------------------------------------------------------
(* Power loss                                                              *)

Spoilt == [i \in Offsets |-> Garbage]

\* A program that is cut leaves a prefix, and perhaps a spoilt byte.
CutProgram(c, data) ==
    {Programmed(c, data, n) : n \in 0 .. PageSize}
    \cup {[Programmed(c, data, n) EXCEPT ![n] = Garbage] : n \in DOMAIN data}

\* The memories that a power loss may leave.
CutMemories ==
    LET Hit(p, cs) == {[mem EXCEPT ![p] = c] : c \in cs}
    IN  CASE pc = "erase" ->
                 {[p \in Pages |-> IF SectorOf(p) # Sector \/ p \in kept THEN mem[p]
                                   ELSE IF p \in blank THEN Blank ELSE Spoilt] :
                     kept \in SUBSET Neighbours(Min(group)), blank \in SUBSET Neighbours(Min(group))}
          [] pc = "restore" /\ todo # {} -> Hit(Min(todo), CutProgram(mem[Min(todo)], buf[Min(todo)]))
          [] pc = "program" -> Hit(page, CutProgram(mem[page], Slice(page)))
          [] pc = "chip" -> {mem, [p \in Pages |-> Blank], [p \in Pages |-> Spoilt]}
          [] OTHER -> {mem}

PowerLoss ==
    /\ mem' \in CutMemories
    /\ ready' = FALSE /\ memErr' = FALSE
    /\ Return("FLASH_ERROR")

-----------------------------------------------------------------------------

Init ==
    /\ mem \in Formats
    /\ ready = FALSE /\ memErr = FALSE
    /\ pc = "idle" /\ status = <<"none", "FLASH_ERROR">>
    /\ call = NoCall /\ calls = 0
    /\ page = 0 /\ group = {} /\ left = {} /\ differ = FALSE /\ buf = <<>> /\ todo = {}
    /\ before = mem

Step ==
    \/ Compare \/ Scan \/ Program \/ Check
    \/ Load \/ Erase \/ Restore \/ CheckRestore \/ Restored
    \/ ChipErased

Next ==
    \/ InitDriver \/ Refuse \/ Write \/ EraseAddresses \/ EraseChip
    \/ Step
    \/ PowerLoss

\* A call runs to its end: every loop of the driver is bounded, every wait
\* has a timeout.
Spec == Init /\ [][Next]_vars /\ WF_vars(Step)

-----------------------------------------------------------------------------
(* Properties                                                              *)

TypeOK ==
    /\ mem \in [Pages -> Content] /\ before \in [Pages -> Content]
    /\ calls \in 0 .. MaxCalls
    /\ ready \in BOOLEAN /\ memErr \in BOOLEAN /\ differ \in BOOLEAN
    /\ page \in Pages /\ group \subseteq Pages /\ left \subseteq Pages /\ todo \subseteq Pages
    /\ status \in {"none", "write", "erase", "chip"} \X {"running", "FLASH_OK", "FLASH_ERROR", "FLASH_OOM"}

\* The abstract state: what the call may leave in each page it writes.  The
\* last page of a write keeps its tail, or loses it with the erase.
Aim ==
    CASE call.kind = "write" ->
             [p \in First .. Last |->
                 {[i \in Offsets |-> IF i \in DOMAIN Slice(p) THEN Slice(p)[i] ELSE tail[i]] :
                     tail \in {before[p], Blank}}]
      [] call.kind = "erase" -> [p \in call.list |-> {Blank}]
      [] call.kind = "chip"  -> [p \in Pages |-> {Blank}]
      [] OTHER -> <<>>

Risk ==
    CASE pc \in {"erase", "restore", "checkRestore"} -> Neighbours(Min(group))
      [] pc \in {"program", "check"} -> {page}
      [] pc = "chip" -> Pages
      [] OTHER -> {}

\* Success of w25qxx_erase_chip promises nothing: see ChipEraseClears.
Told == status \in {"write", "erase"} \X {"FLASH_OK"}

Store == INSTANCE FlashStore WITH aim <- Aim, risk <- Risk, told <- Told

\* Whatever fails and whenever the power goes, the driver gives what
\* FlashStore promises: success means the bytes are there and nothing else
\* changed, failure damages one sector or one page at most
\* (w25qxx_write and w25qxx_erase_addresses, w25qxx.c:322-788).
KeepsPromise == Store!Spec

\* The driver never programs a byte over a different one: as long as the
\* power holds, no page is spoilt, also after failed calls (the erase group
\* of w25qxx.c:382-453 covers every page that has to change).
NeverSpoils ==
    [][pc # "idle" /\ (\E p \in Pages, i \in Offsets : before[p][i] # Garbage /\ mem'[p][i] = Garbage)
          => ~ready']_vars

\* Every call returns.
CallsReturn == (pc # "idle") ~> (pc = "idle")

\* "Completely clears the W25Q memory. @return Result status."
\* (w25qxx.h:69-72)
ChipEraseClears ==
    [][pc = "chip" /\ status' = <<"chip", "FLASH_OK">> => \A p \in Pages : mem'[p] = Blank]_vars
=============================================================================
