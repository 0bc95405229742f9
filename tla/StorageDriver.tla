---------------------------- MODULE StorageDriver ----------------------------
(***************************************************************************)
(* src/StorageDriver/StorageDriver.cpp: what StorageAT, and through it the *)
(* settings, sees of the memory.  The driver buffers the page it read      *)
(* last, counts how long accesses have been failing, and refuses to work   *)
(* while the memory watchdog calls the memory broken.                      *)
(*                                                                         *)
(* The flash's driver is taken from what FlashStore promises: success is   *)
(* true, a failed call spoils at most the sector of a page it aimed at.    *)
(* The EEPROM's driver, at24cm01.c, is one transfer.  A page is one value. *)
(***************************************************************************)
EXTENDS Naturals, FiniteSets, Sequences

CONSTANTS
    Modes,      \* the builds checked: "flash", "eeprom"
    Pages,      \* pages of the memory
    SectorSets, \* the flash's sectors: a partition of Pages
    FirstPage,  \* page at address 0
    Vals,       \* what a page may be written with
    Blank,      \* an erased page
    Junk,       \* a page that a failed call spoilt
    Spans       \* bound: what a write covers, sequences of pages

ASSUME StorageAssumption ==
    /\ Modes \subseteq {"flash", "eeprom"}
    /\ FirstPage \in Pages
    /\ UNION SectorSets = Pages
    /\ Blank \notin Vals /\ Junk \notin Vals /\ Blank # Junk
    /\ \A span \in Spans : span # <<>> /\ \A i \in DOMAIN span : span[i] \in Pages

VARIABLES
    mode,         \* GSYSTEM_FLASH_MODE or GSYSTEM_EEPROM_MODE
    mem,          \* the memory
    hasBuffer, bufferPage, lastAddress,
    hasError,     \* an access failed, and none succeeded since
    waiting,      \* ERROR_TIMEOUT_MS has not passed since then
    readFault, writeFault, \* statuses MEMORY_READ_FAULT, MEMORY_WRITE_FAULT
    memError,     \* error MEMORY_ERROR
    expected,     \* error EXPECTED_MEMORY_ERROR
    initialized,  \* status MEMORY_INITIALIZED
    chipReady,    \* w25q.initialized
    doubt         \* history: the buffered page changed behind the buffer, see ReadsStored

bufferVars == <<hasBuffer, bufferPage, lastAddress>>
errorVars  == <<hasError, waiting>>
faultVars  == <<readFault, writeFault>>
soulVars   == <<memError, expected, initialized, chipReady>>
driverVars == <<mode, mem, bufferVars, errorVars, faultVars, soulVars, doubt>>

SectorMates(p) == UNION {S \in SectorSets : p \in S}

\* Calls are refused while MEMORY_ERROR is set.  POWER_ERROR does the same; as
\* nothing forces a call, it is left out.
Refused == memError

\* hasError starts the timer; only when it has run out a fault is reported.
CountError(ok) ==
    /\ hasError' = ~ok
    /\ waiting' = IF ok THEN FALSE ELSE IF hasError THEN waiting ELSE TRUE

Persisting == hasError /\ ~waiting

-----------------------------------------------------------------------------
(* The memory's driver                                                     *)

\* The pages of a write.  eeprom_write sends all of it in one transfer, and the
\* chip comes back to the start of the page when it has reached its end.
Covered(span) == IF mode = "eeprom" THEN {span[1]} ELSE {span[i] : i \in DOMAIN span}

Touched(p) == IF mode = "eeprom" THEN {p} ELSE SectorMates(p)

Stored(pages, v) == [p \in Pages |-> IF p \in pages THEN v ELSE mem[p]]

CutShort(lost, blank, done, v) ==
    [p \in Pages |-> IF p \in lost THEN Junk ELSE IF p \in blank THEN Blank ELSE Stored(done, v)[p]]

\* What a failed call leaves: pages of one sector, or the page of an EEPROM,
\* are spoilt; of the others it aimed at some are as wanted, some are erased
\* and some are as they were.
Failed(pages, v) ==
    {CutShort(lost, blank, done, v) :
        lost \in UNION {SUBSET Touched(p) : p \in pages},
        blank \in SUBSET (IF mode = "flash" THEN pages ELSE {}),
        done \in SUBSET pages}

\* A read back that differs sets EXPECTED_MEMORY_ERROR, one that agrees
\* clears it.
Verified(ok) ==
    /\ expected' \in IF mode = "eeprom" THEN {expected} ELSE IF ok THEN {expected, FALSE} ELSE {expected, TRUE}
    /\ UNCHANGED <<memError, initialized, chipReady>>

\* An access: the flash's driver refuses it until it has been initialized.
Access(ok) == ok => chipReady \/ mode = "eeprom"

-----------------------------------------------------------------------------
(* StorageDriver                                                           *)

Hit(p, whole) == hasBuffer /\ lastAddress = p /\ whole

\* The page is kept when another one was buffered before.
FillBuffer(p, whole, v) ==
    IF lastAddress # p /\ whole
    THEN bufferPage' = v /\ lastAddress' = p /\ hasBuffer' = TRUE /\ doubt' = FALSE
    ELSE UNCHANGED <<bufferVars, doubt>>

\* read: whole when len is STORAGE_PAGE_SIZE
Read(p, whole) ==
    /\ ~Refused
    /\ \E ok \in IF Hit(p, whole) THEN {TRUE} ELSE BOOLEAN :
          /\ Access(ok) \/ Hit(p, whole)
          /\ CountError(ok)
          /\ readFault' = (~ok /\ (readFault \/ Persisting))
          /\ LET v == IF Hit(p, whole) THEN bufferPage ELSE mem[p] IN
             IF ok THEN FillBuffer(p, whole, v) ELSE UNCHANGED <<bufferVars, doubt>>
    /\ UNCHANGED <<mode, mem, writeFault, soulVars>>

\* Only the page at the address itself leaves the buffer, also when the write
\* failed.
DropOnSuccess(p, ok) == hasBuffer' = (hasBuffer /\ (lastAddress # p \/ ~ok))
Drop(p, ok) == hasBuffer' = (hasBuffer /\ lastAddress # p)

Mutate(ok, pages, v) ==
    /\ Access(ok)
    /\ CountError(ok)
    /\ writeFault' = (~ok /\ (writeFault \/ Persisting))
    /\ Verified(ok)
    /\ mem' \in IF ok THEN {Stored(pages, v)} ELSE Failed(pages, v)

ChangedBehind == mem'[lastAddress] # mem[lastAddress]

\* write of one page or more
Write(span, v) ==
    /\ ~Refused
    /\ \E ok \in BOOLEAN :
          /\ Mutate(ok, Covered(span), v)
          /\ Drop(span[1], ok)
          /\ doubt' = (doubt \/ (lastAddress # span[1] /\ ChangedBehind))
    /\ UNCHANGED <<mode, bufferPage, lastAddress, readFault>>

\* erase: nothing to do on an EEPROM
Erase(pages) ==
    /\ ~Refused /\ mode = "flash"
    /\ \E ok \in BOOLEAN : Mutate(ok, pages, Blank)
    /\ doubt' = (doubt \/ ChangedBehind)
    /\ UNCHANGED <<mode, bufferVars, readFault>>

\* w25qxx_erase_chip, which an application calls beside the storage driver: the
\* driver has to be initialized again after it, also when it failed, but for
\* two early returns.
EraseChip ==
    /\ mode = "flash"
    /\ mem' \in {CutShort(lost, blank, {}, Blank) : lost \in SUBSET Pages, blank \in SUBSET Pages}
    /\ \E ends \in BOOLEAN : chipReady' = (chipReady /\ ~ends)
    /\ doubt' = (doubt \/ ChangedBehind)
    /\ UNCHANGED <<mode, bufferVars, errorVars, faultVars, memError, expected, initialized>>

ErrorTimerEnds ==
    /\ waiting /\ waiting' = FALSE
    /\ UNCHANGED <<mode, mem, bufferVars, hasError, faultVars, soulVars, doubt>>

\* What a boot sets
DriverBoots ==
    /\ hasBuffer' = FALSE /\ bufferPage' = Junk /\ lastAddress' = FirstPage
    /\ hasError' = FALSE /\ waiting' = FALSE
    /\ readFault' = FALSE /\ writeFault' = FALSE
    /\ memError' = FALSE /\ expected' = FALSE
    /\ initialized' = FALSE /\ chipReady' = FALSE
    /\ doubt' = FALSE

DriverInit ==
    /\ mode \in Modes
    /\ mem \in {[p \in Pages |-> v] : v \in Vals \cup {Blank}}
    /\ hasBuffer = FALSE /\ bufferPage = Junk /\ lastAddress = FirstPage
    /\ hasError = FALSE /\ waiting = FALSE
    /\ readFault = FALSE /\ writeFault = FALSE
    /\ memError = FALSE /\ expected = FALSE
    /\ initialized = FALSE /\ chipReady = FALSE
    /\ doubt = FALSE

DriverNext ==
    \/ \E p \in Pages, whole \in BOOLEAN : Read(p, whole)
    \/ \E span \in Spans, v \in Vals : Write(span, v)
    \/ \E span \in Spans : Erase({span[i] : i \in DOMAIN span})
    \/ EraseChip
    \/ ErrorTimerEnds

DriverTypeOK ==
    /\ mode \in Modes
    /\ mem \in [Pages -> Vals \cup {Blank, Junk}]
    /\ bufferPage \in Vals \cup {Blank, Junk} /\ lastAddress \in Pages
    /\ \A flag \in {hasBuffer, hasError, waiting, readFault, writeFault,
                    memError, expected, initialized, chipReady, doubt} : flag \in BOOLEAN
=============================================================================
