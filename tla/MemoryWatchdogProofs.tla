------------------------- MODULE MemoryWatchdogProofs -------------------------
(***************************************************************************)
(* Proofs about MemoryWatchdog and the StorageDriver it contains, for any  *)
(* memory and any width of the counter of errors.                          *)
(***************************************************************************)
EXTENDS MemoryWatchdog, TLAPS

FlagsOK ==
    /\ hasBuffer \in BOOLEAN /\ hasError \in BOOLEAN /\ waiting \in BOOLEAN
    /\ readFault \in BOOLEAN /\ writeFault \in BOOLEAN /\ memError \in BOOLEAN
    /\ expected \in BOOLEAN /\ initialized \in BOOLEAN /\ chipReady \in BOOLEAN
    /\ doubt \in BOOLEAN
    /\ timerStarted \in BOOLEAN /\ timerRan \in BOOLEAN /\ handled \in BOOLEAN

PagesOK ==
    /\ mode \in Modes
    /\ mem \in [Pages -> Vals \cup {Blank, Junk}]
    /\ bufferPage \in Vals \cup {Blank, Junk} /\ lastAddress \in Pages

\* Each failed test counts at most twice.
CountOK ==
    /\ errors \in 0 .. Wrap - 1 /\ failed \in 0 .. Proof
    /\ errors <= 2 * failed \/ failed = Proof
    /\ memError => failed = Proof

BufferOK == hasBuffer /\ ~doubt => bufferPage = mem[lastAddress]

IndInv == FlagsOK /\ PagesOK /\ CountOK /\ BufferOK

-----------------------------------------------------------------------------
(* Constants                                                               *)

LEMMA ProofType == Proof \in Nat /\ 2 * Proof > ErrorsMax
BY WatchdogAssumption DEF Proof

LEMMA Twice ==
  ASSUME NEW n \in Nat, NEW all \in Nat, n <= 2 * all, NEW by \in {1, 2}
  PROVE  n + by <= 2 * (all + 1)
OBVIOUS

LEMMA Wrapped ==
  ASSUME NEW n \in Nat
  PROVE  n % Wrap \in 0 .. Wrap - 1 /\ n % Wrap <= n
BY WatchdogAssumption

LEMMA Enough ==
  ASSUME NEW n \in Nat, NEW all \in 0 .. Proof, n <= 2 * all, n > ErrorsMax
  PROVE  all = Proof
BY WatchdogAssumption DEF Proof

-----------------------------------------------------------------------------
(* The storage driver                                                      *)

LEMMA ReadStep ==
  ASSUME FlagsOK, PagesOK, BufferOK, NEW p \in Pages, NEW whole \in BOOLEAN, Read(p, whole)
  PROVE  PagesOK' /\ BufferOK' /\ UNCHANGED soulVars
         /\ hasBuffer' \in BOOLEAN /\ hasError' \in BOOLEAN /\ waiting' \in BOOLEAN
         /\ readFault' \in BOOLEAN /\ writeFault' \in BOOLEAN /\ doubt' \in BOOLEAN
<1>1. PICK ok \in BOOLEAN :
        /\ CountError(ok)
        /\ readFault' = (~ok /\ (readFault \/ Persisting))
        /\ IF ok THEN FillBuffer(p, whole, IF Hit(p, whole) THEN bufferPage ELSE mem[p])
           ELSE UNCHANGED <<bufferVars, doubt>>
  BY DEF Read
<1>2. UNCHANGED <<mode, mem, writeFault>> /\ UNCHANGED soulVars
  BY DEF Read
<1>3. hasError' \in BOOLEAN /\ waiting' \in BOOLEAN /\ readFault' \in BOOLEAN /\ writeFault' \in BOOLEAN
  BY <1>1, <1>2 DEF CountError, FlagsOK, Persisting
<1>4. CASE UNCHANGED <<bufferVars, doubt>>
  BY <1>2, <1>3, <1>4 DEF bufferVars, PagesOK, BufferOK, FlagsOK
<1>5. CASE ~UNCHANGED <<bufferVars, doubt>>
  <2>1. lastAddress # p /\ ~Hit(p, whole)
    BY <1>1, <1>5 DEF FillBuffer, Hit
  <2>2. bufferPage' = mem[p] /\ lastAddress' = p /\ hasBuffer' = TRUE /\ doubt' = FALSE
    BY <1>1, <1>5, <2>1 DEF FillBuffer
  <2> QED
    BY <1>2, <1>3, <2>2 DEF PagesOK, BufferOK
<1> QED
  BY <1>4, <1>5

LEMMA StoredType ==
  ASSUME PagesOK, NEW pages, NEW v \in Vals \cup {Blank}
  PROVE  Stored(pages, v) \in [Pages -> Vals \cup {Blank, Junk}]
BY DEF Stored, PagesOK

LEMMA CutShortType ==
  ASSUME PagesOK, NEW lost, NEW blank, NEW done, NEW v \in Vals \cup {Blank}
  PROVE  CutShort(lost, blank, done, v) \in [Pages -> Vals \cup {Blank, Junk}]
BY StoredType DEF CutShort

LEMMA MutateStep ==
  ASSUME FlagsOK, PagesOK, NEW ok \in BOOLEAN, NEW pages, NEW v \in Vals \cup {Blank}, Mutate(ok, pages, v)
  PROVE  /\ mem' \in [Pages -> Vals \cup {Blank, Junk}]
         /\ hasError' \in BOOLEAN /\ waiting' \in BOOLEAN /\ writeFault' \in BOOLEAN
         /\ expected' \in BOOLEAN /\ UNCHANGED <<memError, initialized, chipReady>>
<1>1. Stored(pages, v) \in [Pages -> Vals \cup {Blank, Junk}]
  BY StoredType
<1>2. \A m \in Failed(pages, v) : m \in [Pages -> Vals \cup {Blank, Junk}]
  BY CutShortType DEF Failed
<1>3. mem' \in [Pages -> Vals \cup {Blank, Junk}]
  BY <1>1, <1>2 DEF Mutate
<1>4. expected' \in BOOLEAN /\ UNCHANGED <<memError, initialized, chipReady>>
  BY DEF Mutate, Verified, FlagsOK
<1>5. hasError' \in BOOLEAN /\ waiting' \in BOOLEAN /\ writeFault' \in BOOLEAN
  BY DEF Mutate, CountError, FlagsOK, Persisting
<1> QED
  BY <1>3, <1>4, <1>5

LEMMA WriteStep ==
  ASSUME FlagsOK, PagesOK, BufferOK, NEW span \in Spans, NEW v \in Vals, Write(span, v)
  PROVE  PagesOK' /\ BufferOK' /\ UNCHANGED <<memError, initialized, chipReady>> /\ expected' \in BOOLEAN
         /\ hasBuffer' \in BOOLEAN /\ hasError' \in BOOLEAN /\ waiting' \in BOOLEAN
         /\ readFault' \in BOOLEAN /\ writeFault' \in BOOLEAN /\ doubt' \in BOOLEAN
<1>1. PICK ok \in BOOLEAN :
        /\ Mutate(ok, Covered(span), v)
        /\ Drop(span[1], ok)
        /\ doubt' = (doubt \/ (lastAddress # span[1] /\ ChangedBehind))
  BY DEF Write
<1>2. /\ mem' \in [Pages -> Vals \cup {Blank, Junk}]
      /\ hasError' \in BOOLEAN /\ waiting' \in BOOLEAN /\ writeFault' \in BOOLEAN
      /\ expected' \in BOOLEAN /\ UNCHANGED <<memError, initialized, chipReady>>
  BY <1>1, MutateStep
<1>3. UNCHANGED <<mode, bufferPage, lastAddress, readFault>>
  BY DEF Write
<1>4. hasBuffer' \in BOOLEAN /\ doubt' \in BOOLEAN /\ readFault' \in BOOLEAN
  BY <1>1, <1>3 DEF Drop, FlagsOK, ChangedBehind
<1>5. BufferOK'
  BY <1>1, <1>3 DEF Drop, ChangedBehind, BufferOK
<1> QED
  BY <1>2, <1>3, <1>4, <1>5 DEF PagesOK

LEMMA EraseStep ==
  ASSUME FlagsOK, PagesOK, BufferOK, NEW pages, Erase(pages)
  PROVE  PagesOK' /\ BufferOK' /\ UNCHANGED <<memError, initialized, chipReady>> /\ expected' \in BOOLEAN
         /\ hasBuffer' \in BOOLEAN /\ hasError' \in BOOLEAN /\ waiting' \in BOOLEAN
         /\ readFault' \in BOOLEAN /\ writeFault' \in BOOLEAN /\ doubt' \in BOOLEAN
<1>1. PICK ok \in BOOLEAN : Mutate(ok, pages, Blank)
  BY DEF Erase
<1>2. /\ mem' \in [Pages -> Vals \cup {Blank, Junk}]
      /\ hasError' \in BOOLEAN /\ waiting' \in BOOLEAN /\ writeFault' \in BOOLEAN
      /\ expected' \in BOOLEAN /\ UNCHANGED <<memError, initialized, chipReady>>
  BY <1>1, MutateStep
<1>3. /\ UNCHANGED <<mode, bufferPage, lastAddress, hasBuffer, readFault>>
      /\ doubt' = (doubt \/ ChangedBehind)
  BY DEF Erase, bufferVars
<1>4. hasBuffer' \in BOOLEAN /\ doubt' \in BOOLEAN /\ readFault' \in BOOLEAN
  BY <1>3 DEF FlagsOK, ChangedBehind
<1>5. BufferOK'
  BY <1>3 DEF ChangedBehind, BufferOK
<1> QED
  BY <1>2, <1>3, <1>4, <1>5 DEF PagesOK

LEMMA EraseChipStep ==
  ASSUME FlagsOK, PagesOK, BufferOK, EraseChip
  PROVE  /\ PagesOK' /\ BufferOK' /\ chipReady' \in BOOLEAN /\ doubt' \in BOOLEAN
         /\ UNCHANGED <<hasBuffer, hasError, waiting, readFault, writeFault, memError, expected, initialized>>
<1>1. mem' \in [Pages -> Vals \cup {Blank, Junk}]
  BY CutShortType DEF EraseChip
<1>2. /\ UNCHANGED <<mode, bufferPage, lastAddress>>
      /\ UNCHANGED <<hasBuffer, hasError, waiting, readFault, writeFault, memError, expected, initialized>>
      /\ doubt' = (doubt \/ ChangedBehind)
  BY DEF EraseChip, bufferVars, errorVars, faultVars
<1>3. chipReady' \in BOOLEAN /\ doubt' \in BOOLEAN
  <2>1. chipReady' \in BOOLEAN
    BY DEF EraseChip, FlagsOK
  <2>2. doubt' \in BOOLEAN
    BY <1>2 DEF FlagsOK, ChangedBehind
  <2> QED
    BY <2>1, <2>2, Zenon
<1>4. BufferOK'
  BY <1>2 DEF ChangedBehind, BufferOK
<1> QED
  BY <1>1, <1>2, <1>3, <1>4 DEF PagesOK

LEMMA DriverStep ==
  ASSUME IndInv, DriverNext, UNCHANGED watchdogVars
  PROVE  IndInv'
<1> USE DEF IndInv
<1>0. UNCHANGED <<errors, timerStarted, timerRan, handled, failed>>
  BY DEF watchdogVars
<1>1. CASE \E p \in Pages, whole \in BOOLEAN : Read(p, whole)
  <2>1. PICK p \in Pages, whole \in BOOLEAN : Read(p, whole)
    BY <1>1
  <2>2. PagesOK' /\ BufferOK' /\ UNCHANGED soulVars
    BY <2>1, ReadStep
  <2>3. FlagsOK'
    BY <1>0, <2>1, ReadStep DEF FlagsOK, soulVars
  <2>4. CountOK'
    BY <1>0, <2>2 DEF CountOK, soulVars, Proof
  <2> QED
    BY <2>2, <2>3, <2>4
<1>2. CASE \E span \in Spans, v \in Vals : Write(span, v)
  <2>1. PICK span \in Spans, v \in Vals : Write(span, v)
    BY <1>2
  <2>2. PagesOK' /\ BufferOK' /\ UNCHANGED <<memError, initialized, chipReady>>
    BY <2>1, WriteStep
  <2>3. FlagsOK'
    BY <1>0, <2>1, WriteStep DEF FlagsOK
  <2>4. CountOK'
    BY <1>0, <2>2 DEF CountOK, Proof
  <2> QED
    BY <2>2, <2>3, <2>4
<1>3. CASE \E span \in Spans : Erase({span[i] : i \in DOMAIN span})
  <2>1. PICK span \in Spans : Erase({span[i] : i \in DOMAIN span})
    BY <1>3
  <2>2. PagesOK' /\ BufferOK' /\ UNCHANGED <<memError, initialized, chipReady>>
    BY <2>1, EraseStep
  <2>3. FlagsOK'
    BY <1>0, <2>1, EraseStep DEF FlagsOK
  <2>4. CountOK'
    BY <1>0, <2>2 DEF CountOK, Proof
  <2> QED
    BY <2>2, <2>3, <2>4
<1>4. CASE ErrorTimerEnds
  <2>1. /\ UNCHANGED <<mode, mem, bufferVars, hasError, faultVars, soulVars, doubt>>
        /\ waiting' = FALSE
    BY <1>4 DEF ErrorTimerEnds
  <2>2. PagesOK' /\ BufferOK'
    BY <2>1 DEF PagesOK, BufferOK, bufferVars
  <2>3. FlagsOK'
    BY <1>0, <2>1 DEF FlagsOK, bufferVars, faultVars, soulVars
  <2>4. CountOK'
    BY <1>0, <2>1 DEF CountOK, soulVars, Proof
  <2> QED
    BY <2>2, <2>3, <2>4
<1>5. CASE EraseChip
  <2>1. PagesOK' /\ BufferOK' /\ UNCHANGED memError
    BY <1>5, EraseChipStep
  <2>2. FlagsOK'
    BY <1>0, <1>5, EraseChipStep DEF FlagsOK
  <2>3. CountOK'
    BY <1>0, <2>1 DEF CountOK, Proof
  <2> QED
    BY <2>1, <2>2, <2>3
<1> QED
  BY <1>1, <1>2, <1>3, <1>4, <1>5 DEF DriverNext

-----------------------------------------------------------------------------
(* The watchdog                                                            *)

LEMMA JudgeStep ==
  ASSUME FlagsOK, NEW errs \in Nat, NEW started \in BOOLEAN, Judge(errs, started)
  PROVE  /\ errors' = errs /\ memError' = (errs > ErrorsMax) /\ memError' \in BOOLEAN
         /\ timerStarted' \in BOOLEAN /\ timerRan' \in BOOLEAN /\ handled' \in BOOLEAN
BY DEF Judge, FlagsOK

LEMMA TestStep ==
  ASSUME IndInv, Test
  PROVE  IndInv'
<1>1. PICK ready \in BOOLEAN, read \in BOOLEAN, write \in BOOLEAN :
        LET passes == TestPasses(read, write) IN
        /\ Ready(ready, read)
        /\ readFault' = (readFault /\ ~read)
        /\ writeFault' = (writeFault /\ ~passes)
        /\ expected' = (expected /\ ~(passes /\ mode = "flash"))
        /\ Judge(Counted(passes, read), timerStarted /\ ~passes)
        /\ failed' = IF passes THEN 0 ELSE IF failed < Proof THEN failed + 1 ELSE failed
  BY DEF Test
<1> DEFINE passes == TestPasses(read, write)
           errs == Counted(passes, read)
<1>2. UNCHANGED <<mode, mem, bufferVars, errorVars, doubt>>
  BY DEF Test
<1>3. PagesOK' /\ BufferOK'
  BY <1>2 DEF IndInv, PagesOK, BufferOK, bufferVars
<1>4. errors \in Nat /\ failed \in 0 .. Proof /\ Proof \in Nat
  BY ProofType DEF IndInv, CountOK
<1>5. /\ errs \in 0 .. Wrap - 1
      /\ errs <= 2 * failed' \/ failed' = Proof
      /\ failed' \in 0 .. Proof
  <2>1. CASE passes
    BY <1>1, <1>4, <2>1, WatchdogAssumption DEF Counted
  <2>2. CASE ~passes
    <3>1. PICK by \in {1, 2} : errs = (errors + by) % Wrap
      BY <2>2 DEF Counted
    <3>2. errs \in 0 .. Wrap - 1 /\ errs <= errors + by
      BY <1>4, <3>1, Wrapped
    <3>3. CASE failed < Proof
      <4>1. failed' = failed + 1
        BY <1>1, <2>2, <3>3
      <4>2. errors <= 2 * failed
        BY <1>4, <3>3 DEF IndInv, CountOK
      <4>3. errors + by <= 2 * (failed + 1)
        BY <1>4, <4>2, Twice
      <4>4. errs <= 2 * failed'
        BY <1>4, <3>2, <4>1, <4>3
      <4> QED
        BY <1>4, <3>2, <3>3, <4>1, <4>4
    <3>4. CASE failed = Proof
      <4>1. failed' = Proof
        BY <1>1, <1>4, <2>2, <3>4
      <4> QED
        BY <1>4, <3>2, <4>1
    <3> QED
      BY <1>4, <3>3, <3>4
  <2> QED
    BY <2>1, <2>2
<1>6. /\ errors' = errs /\ memError' = (errs > ErrorsMax) /\ memError' \in BOOLEAN
      /\ timerStarted' \in BOOLEAN /\ timerRan' \in BOOLEAN /\ handled' \in BOOLEAN
  BY <1>1 DEF IndInv, FlagsOK, Judge
<1>7. CountOK'
  <2>1. errs > ErrorsMax => failed' = Proof
    BY <1>5, Enough
  <2> QED
    BY <1>5, <1>6, <2>1 DEF CountOK, Proof
<1>8. initialized' \in BOOLEAN /\ chipReady' \in BOOLEAN
  BY <1>1 DEF Ready, IndInv, FlagsOK
<1>9. FlagsOK'
  BY <1>1, <1>2, <1>6, <1>8 DEF IndInv, FlagsOK, bufferVars, errorVars
<1> QED
  BY <1>3, <1>7, <1>9 DEF IndInv

LEMMA NothingStep ==
  ASSUME IndInv, NothingToTest
  PROVE  IndInv'
<1>1. /\ Judge(errors, timerStarted)
      /\ initialized' = TRUE
      /\ UNCHANGED <<mode, mem, bufferVars, errorVars, faultVars, expected, chipReady, doubt, failed>>
  BY DEF NothingToTest
<1>2. PagesOK' /\ BufferOK'
  BY <1>1 DEF IndInv, PagesOK, BufferOK, bufferVars
<1>3. /\ errors' = errors /\ memError' = (errors > ErrorsMax) /\ memError' \in BOOLEAN
      /\ timerStarted' \in BOOLEAN /\ timerRan' \in BOOLEAN /\ handled' \in BOOLEAN
  BY <1>1 DEF IndInv, FlagsOK, Judge
<1>4. CountOK'
  <2>1. errors > ErrorsMax => failed = Proof
    BY Enough DEF IndInv, CountOK
  <2> QED
    BY <1>1, <1>3, <2>1 DEF IndInv, CountOK, Proof
<1>5. FlagsOK'
  BY <1>1, <1>3 DEF IndInv, FlagsOK, bufferVars, errorVars, faultVars
<1> QED
  BY <1>2, <1>4, <1>5 DEF IndInv

LEMMA InitializeStep ==
  ASSUME IndInv, Initialize
  PROVE  IndInv'
<1>1. initialized' \in BOOLEAN /\ chipReady' \in BOOLEAN
  BY DEF Initialize, IndInv, FlagsOK
<1> QED
  BY <1>1 DEF Initialize, IndInv, FlagsOK, PagesOK, CountOK, BufferOK, bufferVars, errorVars, faultVars, watchdogVars

LEMMA ResetStep ==
  ASSUME IndInv, Reset
  PROVE  IndInv'
<1>1. FlagsOK'
  BY DEF Reset, DriverBoots, FlagsOK
<1>2. PagesOK' /\ BufferOK'
  BY StorageAssumption DEF Reset, DriverBoots, PagesOK, BufferOK, IndInv
<1>3. CountOK'
  BY ProofType, WatchdogAssumption DEF Reset, DriverBoots, CountOK, Proof
<1> QED
  BY <1>1, <1>2, <1>3 DEF IndInv

LEMMA InitInv == Init => IndInv
<1> SUFFICES ASSUME Init PROVE IndInv
  OBVIOUS
<1>1. FlagsOK
  BY DEF Init, DriverInit, FlagsOK
<1>2. PagesOK /\ BufferOK
  BY StorageAssumption DEF Init, DriverInit, PagesOK, BufferOK
<1>3. CountOK
  BY ProofType, WatchdogAssumption DEF Init, DriverInit, CountOK
<1> QED
  BY <1>1, <1>2, <1>3 DEF IndInv

LEMMA Inductive == IndInv /\ [Next]_vars => IndInv'
<1> SUFFICES ASSUME IndInv, [Next]_vars PROVE IndInv'
  OBVIOUS
<1>1. CASE UNCHANGED vars
  BY <1>1 DEF vars, driverVars, bufferVars, errorVars, faultVars, soulVars, watchdogVars,
              IndInv, FlagsOK, PagesOK, CountOK, BufferOK
<1>2. CASE TimerEnds
  BY <1>2 DEF TimerEnds, driverVars, bufferVars, errorVars, faultVars, soulVars,
              IndInv, FlagsOK, PagesOK, CountOK, BufferOK
<1> QED
  BY <1>1, <1>2, DriverStep, TestStep, NothingStep, InitializeStep, ResetStep DEF Next, Watchdog

-----------------------------------------------------------------------------
\* The invariant behind the theorems.
THEOREM WatchdogInv == Spec => []IndInv
BY InitInv, Inductive, PTL DEF Spec

\* The memory, the buffer, the counts and the flags keep their types.
THEOREM WatchdogTypeOK == Spec => []TypeOK
<1>1. IndInv => TypeOK
  BY DEF IndInv, FlagsOK, PagesOK, CountOK, TypeOK, DriverTypeOK
<1> QED
  BY <1>1, WatchdogInv, PTL

\* No memory is called broken before enough tests in a row have failed, however
\* they count and however the count wraps.
THEOREM WatchdogErrorEarned == Spec => []MemoryErrorEarned
<1>1. IndInv => MemoryErrorEarned
  BY ProofType DEF IndInv, CountOK, MemoryErrorEarned
<1> QED
  BY <1>1, WatchdogInv, PTL

\* The buffer of the storage driver is what the memory holds, but for the three
\* cases that doubt records.
THEOREM WatchdogReadsStored == Spec => []ReadsStored
<1>1. IndInv => ReadsStored
  BY DEF IndInv, BufferOK, ReadsStored, Hit
<1> QED
  BY <1>1, WatchdogInv, PTL
=============================================================================
