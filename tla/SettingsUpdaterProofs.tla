------------------------- MODULE SettingsUpdaterProofs -------------------------
(***************************************************************************)
(* The safety of the settings updater for every set of contents, every     *)
(* bound and every interleaving of edits, resets and failed rewrites.      *)
(***************************************************************************)
EXTENDS SettingsUpdater, TLAPS

(***************************************************************************)
(* What the operators on images and on the two copies guarantee, for every *)
(* value of the constants.                                                 *)
(***************************************************************************)

\* Repairing an image whose header is the firmware's gives an image with that
\* header and contents the application accepts (g_settings.c:95).
LEMMA RepairIsValid ==
  ASSUME NEW img \in Image
  PROVE  /\ GRepair(img) \in Image
         /\ GRepair(img).val \in Valid
         /\ img.ver = Cur => GRepair(img).ver = Cur
<1>1. Repaired[img.ver][img.val] \in Vals
  BY SettingsAssumption DEF Image
<1>2. CASE Repaired[img.ver][img.val] \in Valid
  BY <1>1, <1>2, SettingsAssumption DEF GRepair, Image
<1>3. CASE Repaired[img.ver][img.val] \notin Valid
  BY <1>3, SettingsAssumption DEF GRepair, Image
<1> QED BY <1>2, <1>3

\* Computing the CRC changes nothing else, and makes acceptable contents under
\* the firmware's header pass the check (g_settings.c:61).
LEMMA BeforeSaveChecks ==
  ASSUME NEW img \in Image
  PROVE  /\ BeforeSave(img) \in Image
         /\ BeforeSave(img).val = img.val
         /\ BeforeSave(img).ver = img.ver
         /\ img.ver = Cur /\ img.val \in Valid => GCheck(BeforeSave(img))
BY DEF BeforeSave, Image, Crc, GCheck

\* An image that checks is not touched by SettingsDB::check.
LEMMA CheckedIsKept ==
  ASSUME NEW img, GCheck(img)
  PROVE  DbChecked(img) = img
BY DEF DbChecked

\* SettingsDB::check leaves an image in its buffer.
LEMMA DbCheckedType ==
  ASSUME NEW img \in Image
  PROVE  DbChecked(img) \in Image
BY RepairIsValid DEF DbChecked

\* load() brings back nothing but a good copy (SettingsDB.cpp:66).
LEMMA LoadIsGood ==
  ASSUME FlashType, NEW a \in AnswerPairs, LoadResult(a) # NoImage
  PROVE  /\ LoadResult(a) \in Image
         /\ GCheck(LoadResult(a))
         /\ \E i \in Copies : GoodCopy(i) /\ LoadResult(a) = DbChecked(flash[i])
<1>1. CASE Usable(1, a[1])
  BY <1>1, DbCheckedType DEF LoadResult, Usable, GoodCopy, Copies
<1>2. CASE ~Usable(1, a[1]) /\ Usable(2, a[2])
  BY <1>2, DbCheckedType DEF LoadResult, Usable, GoodCopy, Copies
<1>3. CASE ~Usable(1, a[1]) /\ ~Usable(2, a[2])
  BY <1>3 DEF LoadResult
<1> QED BY <1>1, <1>2, <1>3

\* Without read errors load() brings back exactly what a boot restores.
LEMMA LoadIsBootImage ==
  ASSUME ~ReadFaults, NEW a \in AnswerPairs
  PROVE  LoadResult(a) = BootImage
<1>1. \A i \in Copies : flash[i] \in Image => a[i] = "data"
  <2>1. \A i \in Copies : a[i] \in ReadAnswers(i)
    BY DEF AnswerPairs
  <2>2. \A i \in Copies : flash[i] \in Image => flash[i] # Torn /\ flash[i] # Absent
    BY StoreAssumption
  <2> QED BY <2>1, <2>2 DEF ReadAnswers
<1>2. \A i \in Copies : Usable(i, a[i]) <=> GoodCopy(i)
  BY <1>1 DEF Usable, GoodCopy
<1>3. 1 \in Copies /\ 2 \in Copies
  BY DEF Copies
<1> QED BY <1>2, <1>3 DEF LoadResult, BootImage

\* The contract of the application: it stores nothing settings_check rejects.
AppContract == UserVals \subseteq Valid

USE DEF Copies, Handler, Running, fsmVars, statVars, boundVars, histVars

\* A save that starts from a checked image of RAM establishes SaveSound, and an
\* image that failed the check is repaired first (g_settings_updater.cpp:94).
LEMMA StngCheckedValid ==
  ASSUME NEW img \in Image, img.ver = Cur
  PROVE  /\ StngChecked(img) \in Image
         /\ StngChecked(img).ver = Cur
         /\ StngChecked(img).val \in Valid
BY RepairIsValid DEF StngChecked, GCheck

\* A checked image in RAM is a good copy once it is written (SettingsDB.cpp:172).
LEMMA WrittenIsGood ==
  ASSUME NEW i \in Copies, flash[i] \in Image, GCheck(flash[i])
  PROVE  GoodCopy(i) /\ ValueAt(i) = flash[i].val
BY CheckedIsKept DEF GoodCopy, ValueAt

\* The change hash of an image is one of the hashes (g_settings_updater.cpp:105).
LEMMA HashType ==
  ASSUME NEW img \in Image
  PROVE  NewHash(img) \in Hashes
BY DEF Image, NewHash, Hashes

\* The copies, as the properties read them, depend on flash alone.
LEMMA CopiesUnchanged ==
  ASSUME flash' = flash
  PROVE  /\ FlashType => FlashType'
         /\ \A i \in Copies : GoodCopy(i)' = GoodCopy(i) /\ ValueAt(i)' = ValueAt(i)
         /\ OneGood' = OneGood
         /\ BootImage' = BootImage
BY DEF FlashType, GoodCopy, ValueAt, OneGood, BootImage

\* Both copies as an earlier run left them carry the header and its CRC.
LEMMA StoredImage ==
  \A ver \in Vers, v \in Vals :
    StoredCopies(ver, v) = [i \in Copies |-> [ver |-> ver, val |-> v, crc |-> <<ver, v>>]]
BY DEF StoredCopies, Crc

\* A new, a used and an updated device start with IndInv.
LEMMA InitIndInv == AppContract /\ Init => IndInv
<1> SUFFICES ASSUME AppContract, Init PROVE IndInv
  OBVIOUS
<1> USE SettingsAssumption, UpdaterAssumption DEF Init, FactoryImage
<1>1. FlashType
  BY StoredImage DEF FlashType, Record, Image
<1>2. TypeOK
  <2>1. DataType
    BY <1>1 DEF DataType, Image
  <2>2. ControlType
    BY DEF ControlType, States
  <2>3. StatusType
    BY Zenon DEF StatusType
  <2>4. CountType
    BY DEF CountType
  <2> QED BY <2>1, <2>2, <2>3, <2>4 DEF TypeOK
<1>3. RamSound /\ SaveSound
  BY DEF RamSound, SaveSound
<1>4. hurt = 0 => \A i \in Copies : flash[i] \in Image /\ GCheck(flash[i])
  BY StoredImage DEF Image, GCheck, Crc
<1>5. CopiesSound
  BY <1>4, WrittenIsGood DEF CopiesSound
<1> QED BY <1>2, <1>3, <1>5 DEF IndInv

\* Steps that leave the copies alone keep what is known about them.
LEMMA CopiesKept ==
  ASSUME CopiesSound, flash' = flash, hurt' = hurt
  PROVE  CopiesSound'
BY CopiesUnchanged DEF CopiesSound

\* The transitions of stng_fsm_table keep IndInv.
LEMMA DispatchInd == AppContract /\ IndInv /\ Dispatch => IndInv'
<1> SUFFICES ASSUME AppContract, IndInv, Dispatch PROVE IndInv'
  OBVIOUS
<1> USE DEF Dispatch, IndInv
<1>1. TypeOK'
  <2>1. DataType'
    BY HashType DEF TypeOK, DataType, UpdateHash, FlashType
  <2>2. ControlType'
    BY DEF TypeOK, ControlType, States, Table
  <2>3. StatusType'
    BY Zenon DEF TypeOK, StatusType
  <2>4. CountType'
    BY DEF TypeOK, CountType
  <2> QED BY <2>1, <2>2, <2>3, <2>4 DEF TypeOK
<1>2. RamSound'
  BY DEF RamSound
<1>3. SaveSound'
  BY DEF SaveSound
<1>4. CopiesSound'
  BY CopiesKept
<1> QED BY <1>1, <1>2, <1>3, <1>4

\* _stng_init_s loads checked settings or repairs what it is about to save.
LEMMA StngInitInd == AppContract /\ IndInv /\ StngInit => IndInv'
<1> SUFFICES ASSUME AppContract, IndInv, StngInit PROVE IndInv'
  OBVIOUS
<1> USE DEF StngInit, IndInv
<1>1. CopiesSound'
  BY CopiesKept
<1>2. CASE \E a \in AnswerPairs : LoadResult(a) # NoImage /\ Accept(LoadResult(a))
                                 /\ InitDone /\ UNCHANGED pc
  <2> PICK a \in AnswerPairs : /\ LoadResult(a) # NoImage
                              /\ Accept(LoadResult(a)) /\ InitDone /\ UNCHANGED pc
    BY <1>2
  <2>1. LoadResult(a) \in Image /\ GCheck(LoadResult(a))
    BY LoadIsGood DEF TypeOK, DataType
  <2>2. DataType'
    BY <2>1, SettingsAssumption DEF TypeOK, DataType, FlashType, Accept, GCheck
  <2>3. ControlType'
    BY DEF TypeOK, ControlType, States, InitDone
  <2>4. StatusType'
    BY Zenon DEF TypeOK, StatusType, InitDone
  <2>5. CountType'
    BY DEF TypeOK, CountType
  <2>6. RamSound'
    BY <2>1 DEF RamSound, Accept, GCheck, InitDone
  <2>7. SaveSound'
    BY DEF SaveSound
  <2> QED BY <1>1, <2>2, <2>3, <2>4, <2>5, <2>6, <2>7 DEF TypeOK
<1>3. CASE ram' = BeforeSave(GRepair(ram)) /\ pc' = "write1"
           /\ UNCHANGED <<ev, statVars, softReady, accepted>>
  <2>1. ram' \in Image /\ GCheck(ram') /\ ram'.ver = Cur /\ ram'.val \in Valid
    BY <1>3, RepairIsValid, BeforeSaveChecks DEF TypeOK, DataType, RamSound
  <2>2. DataType'
    BY <1>3, <2>1 DEF TypeOK, DataType, FlashType
  <2>3. ControlType'
    BY <1>3 DEF TypeOK, ControlType, States
  <2>4. StatusType'
    BY <1>3, Zenon DEF TypeOK, StatusType
  <2>5. CountType'
    BY <1>3 DEF TypeOK, CountType
  <2>6. RamSound'
    BY <1>3, <2>1 DEF RamSound
  <2>7. SaveSound'
    BY <1>3, <2>1 DEF SaveSound
  <2> QED BY <1>1, <2>2, <2>3, <2>4, <2>5, <2>6, <2>7 DEF TypeOK
<1> QED BY <1>2, <1>3

\* _stng_idle_s only queues events.
LEMMA StngIdleInd == AppContract /\ IndInv /\ StngIdle => IndInv'
<1> SUFFICES ASSUME AppContract, IndInv, StngIdle PROVE IndInv'
  OBVIOUS
<1> USE DEF StngIdle, IndInv
<1>1. DataType'
  BY DEF TypeOK, DataType, FlashType
<1>2. ControlType'
  BY DEF TypeOK, ControlType, States
<1>3. StatusType'
  BY Zenon DEF TypeOK, StatusType, HasNewSettings, SaveNeeded
<1>4. CountType'
  BY DEF TypeOK, CountType
<1>5. RamSound'
  BY DEF RamSound
<1>6. SaveSound'
  BY DEF SaveSound
<1>7. CopiesSound'
  BY CopiesKept
<1> QED BY <1>1, <1>2, <1>3, <1>4, <1>5, <1>6, <1>7 DEF TypeOK

\* _stng_check at the end of a save leaves RAM acceptable.
LEMMA SaveDoneInd ==
  ASSUME AppContract, IndInv, NEW img \in Image, img.ver = Cur, st = "save",
         SaveDone(img), UNCHANGED softReady, pc' = "none", accepted' \subseteq Vals,
         UNCHANGED <<flash, st, oldHash, saveWait, memInit, boundVars, hurt, calm>>
  PROVE  IndInv'
<1> USE DEF SaveDone, IndInv
<1>0. ram' \in Image /\ ram'.ver = Cur /\ ram'.val \in Valid
  BY StngCheckedValid
<1>1. DataType'
  BY <1>0 DEF TypeOK, DataType, FlashType
<1>2. ControlType'
  BY DEF TypeOK, ControlType, States
<1>3. StatusType'
  BY Zenon DEF TypeOK, StatusType
<1>4. CountType'
  BY DEF TypeOK, CountType
<1>5. RamSound'
  BY <1>0 DEF RamSound
<1>6. SaveSound'
  BY DEF SaveSound
<1>7. CopiesSound'
  BY CopiesKept
<1> QED BY <1>1, <1>2, <1>3, <1>4, <1>5, <1>6, <1>7 DEF TypeOK

\* _stng_save_s hands SettingsDB::save an image that checks.
LEMMA StngSaveInd == AppContract /\ IndInv /\ StngSave => IndInv'
<1> SUFFICES ASSUME AppContract, IndInv, StngSave PROVE IndInv'
  OBVIOUS
<1> USE DEF StngSave, IndInv
<1>0. ram \in Image /\ ram.ver = Cur /\ ram.val \in Valid /\ st = "save"
  BY DEF TypeOK, DataType, RamSound
<1>1. CASE HasNewSettings
  <2> DEFINE img == BeforeSave(ram)
  <2>1. img \in Image /\ GCheck(img) /\ img.ver = Cur /\ img.val \in Valid
    BY <1>0, BeforeSaveChecks
  <2>2. ram' = img /\ pc' = "write1"
    BY <1>1, <2>1 DEF StngChecked
  <2>3. DataType'
    BY <2>1, <2>2 DEF TypeOK, DataType, FlashType
  <2>4. ControlType'
    BY <1>1 DEF TypeOK, ControlType, States
  <2>5. StatusType'
    BY <1>1, <2>1, Zenon DEF TypeOK, StatusType
  <2>6. CountType'
    BY DEF TypeOK, CountType
  <2>7. RamSound'
    BY <1>1, <2>1, <2>2 DEF RamSound
  <2>8. SaveSound'
    BY <1>1, <2>1, <2>2 DEF SaveSound
  <2>9. CopiesSound'
    BY CopiesKept
  <2> QED BY <2>3, <2>4, <2>5, <2>6, <2>7, <2>8, <2>9 DEF TypeOK
<1>2. CASE ~HasNewSettings
  <2>1. accepted' \subseteq Vals
    BY DEF TypeOK, DataType
  <2> QED BY <1>0, <1>2, <2>1, SaveDoneInd
<1> QED BY <1>1, <1>2

\* _stng_load_s loads checked settings.
LEMMA StngLoadInd == AppContract /\ IndInv /\ StngLoad => IndInv'
<1> SUFFICES ASSUME AppContract, IndInv, StngLoad PROVE IndInv'
  OBVIOUS
<1> USE DEF StngLoad, IndInv
<1>1. CopiesSound'
  BY CopiesKept
<1>2. ControlType'
  BY DEF TypeOK, ControlType, States
<1>3. StatusType'
  BY Zenon DEF TypeOK, StatusType
<1>4. CountType'
  BY DEF TypeOK, CountType
<1>5. SaveSound'
  BY DEF SaveSound
<1>6. initialized
  BY DEF RamSound
<1>7. \/ ram' = ram /\ accepted' = accepted
      \/ ram' \in Image /\ GCheck(ram') /\ accepted' = {ram'.val}
  BY LoadIsGood DEF Accept, TypeOK, DataType
<1>8. DataType'
  BY <1>7, SettingsAssumption DEF TypeOK, DataType, FlashType, GCheck
<1>9. RamSound'
  BY <1>6, <1>7 DEF RamSound, GCheck
<1> QED BY <1>1, <1>2, <1>3, <1>4, <1>5, <1>8, <1>9 DEF TypeOK

\* The first rewrite of save() leaves a good first copy.
LEMMA WriteFirstInd == AppContract /\ IndInv /\ WriteFirst => IndInv'
<1> SUFFICES ASSUME AppContract, IndInv, WriteFirst PROVE IndInv'
  OBVIOUS
<1> USE DEF WriteFirst, IndInv, SaveVars
<1>1. ram \in Image /\ GCheck(ram) /\ ram.val \in Vals
  BY DEF SaveSound, TypeOK, DataType, Image
<1>2. flash' \in [Copies -> Record] /\ flash'[1] = ram /\ flash'[2] = flash[2]
  BY <1>1 DEF TypeOK, DataType, FlashType, Record
<1>3. DataType'
  BY <1>1, <1>2 DEF TypeOK, DataType, FlashType
<1>4. ControlType'
  BY DEF TypeOK, ControlType, States
<1>5. StatusType'
  BY Zenon DEF TypeOK, StatusType
<1>6. CountType'
  BY DEF TypeOK, CountType
<1>7. RamSound'
  BY DEF RamSound
<1>8. SaveSound'
  BY <1>2 DEF SaveSound
<1>9. CopiesSound'
  BY <1>1, <1>2, CheckedIsKept DEF CopiesSound, OneGood, GoodCopy
<1> QED BY <1>3, <1>4, <1>5, <1>6, <1>7, <1>8, <1>9 DEF TypeOK

\* The second rewrite of save() leaves two good copies.
LEMMA WriteSecondInd == AppContract /\ IndInv /\ WriteSecond => IndInv'
<1> SUFFICES ASSUME AppContract, IndInv, WriteSecond PROVE IndInv'
  OBVIOUS
<1> USE DEF WriteSecond, IndInv, SaveVars
<1>1. ram \in Image /\ GCheck(ram) /\ ram.val \in Vals
  BY DEF SaveSound, TypeOK, DataType, Image
<1>2. flash' \in [Copies -> Record] /\ flash'[1] = ram /\ flash'[2] = ram
  BY <1>1 DEF TypeOK, DataType, FlashType, Record, SaveSound
<1>3. DataType'
  BY <1>1, <1>2 DEF TypeOK, DataType, FlashType
<1>4. ControlType'
  BY DEF TypeOK, ControlType, States
<1>5. StatusType'
  BY Zenon DEF TypeOK, StatusType
<1>6. CountType'
  BY DEF TypeOK, CountType
<1>7. RamSound'
  BY DEF RamSound
<1>8. SaveSound'
  BY <1>2 DEF SaveSound
<1>9. CopiesSound'
  BY <1>1, <1>2, CheckedIsKept DEF CopiesSound, OneGood, GoodCopy
<1> QED BY <1>3, <1>4, <1>5, <1>6, <1>7, <1>8, <1>9 DEF TypeOK

\* Cutting one rewrite short costs at most the copy that was being rewritten:
\* the first was good already, or the second still is.
LEMMA CutShortInd ==
  ASSUME IndInv, NEW i \in Copies, CutShort(i),
         pc = IF i = 1 THEN "write1" ELSE "write2"
  PROVE  /\ FlashType' /\ accepted' \subseteq Vals /\ hurt' \in 0..2
         /\ CopiesSound'
<1> USE DEF CutShort, HurtMore, IndInv
<1>1. ram \in Image /\ GCheck(ram) /\ ram.val \in Vals
  BY DEF SaveSound, TypeOK, DataType, Image
<1>2. flash' \in [Copies -> Record] /\ \A j \in Copies : j # i => flash'[j] = flash[j]
  BY <1>1 DEF TypeOK, DataType, FlashType, Record, AfterFailedRewrite
<1>3. accepted' \subseteq Vals /\ hurt' \in 0..2
  BY <1>1 DEF TypeOK, DataType, CountType
<1>4. hurt' = 0 => FALSE
  BY DEF TypeOK, CountType
<1>5. ASSUME hurt' = 1 PROVE \E j \in Copies : GoodCopy(j)'
  <2>1. hurt = 0
    BY <1>5 DEF TypeOK, CountType
  <2>2. \A j \in Copies : GoodCopy(j)
    BY <2>1 DEF CopiesSound
  <2>3. PICK j \in Copies : j # i
    OBVIOUS
  <2> QED BY <1>2, <2>2, <2>3 DEF GoodCopy
<1> QED BY <1>2, <1>3, <1>4, <1>5 DEF CopiesSound, FlashType, OneGood

\* A rewrite that answers an error ends save() with what CutShortInd leaves.
LEMMA WriteFailsInd == AppContract /\ IndInv /\ WriteFails => IndInv'
<1> SUFFICES ASSUME AppContract, IndInv, WriteFails PROVE IndInv'
  OBVIOUS
<1> USE DEF WriteFails, IndInv, SaveVars, SaveFailed
<1>1. FlashType' /\ accepted' \subseteq Vals /\ hurt' \in 0..2 /\ CopiesSound'
  BY CutShortInd
<1>2. DataType'
  BY <1>1 DEF TypeOK, DataType
<1>3. ControlType'
  BY DEF TypeOK, ControlType, States
<1>4. StatusType'
  BY Zenon DEF TypeOK, StatusType
<1>5. CountType'
  BY <1>1, UpdaterAssumption DEF TypeOK, CountType
<1>6. st = "init" \/ st = "save"
  BY DEF SaveSound
<1>7. RamSound'
  BY <1>6 DEF RamSound, SaveSound
<1>8. SaveSound'
  BY DEF SaveSound
<1> QED BY <1>1, <1>2, <1>3, <1>4, <1>5, <1>7, <1>8 DEF TypeOK

\* A save that finds no address leaves the copies as they are.
LEMMA NoAddressInd == AppContract /\ IndInv /\ NoAddress => IndInv'
<1> SUFFICES ASSUME AppContract, IndInv, NoAddress PROVE IndInv'
  OBVIOUS
<1> USE DEF NoAddress, IndInv, SaveVars, SaveFailed, HurtMore
<1>1. flash' = flash /\ accepted' = accepted /\ hurt' \in 0..2 /\ hurt' >= hurt /\ (hurt' = 1 => hurt \in {0, 1})
  BY DEF TypeOK, CountType
<1>2. CopiesSound'
  BY <1>1 DEF CopiesSound, GoodCopy, OneGood, TypeOK, CountType, Copies
<1>3. DataType'
  BY <1>1 DEF TypeOK, DataType, FlashType
<1>4. ControlType'
  BY DEF TypeOK, ControlType, States
<1>5. StatusType'
  BY Zenon DEF TypeOK, StatusType
<1>6. CountType'
  BY <1>1, UpdaterAssumption DEF TypeOK, CountType
<1>7. st = "init" \/ st = "save"
  BY DEF SaveSound
<1>8. RamSound'
  BY <1>7 DEF RamSound, SaveSound
<1>9. SaveSound'
  BY DEF SaveSound
<1> QED BY <1>2, <1>3, <1>4, <1>5, <1>6, <1>8, <1>9 DEF TypeOK

\* The load() that ends save() keeps IndInv, whatever it answers.
LEMMA VerifyInd == AppContract /\ IndInv /\ Verify => IndInv'
<1> SUFFICES ASSUME AppContract, IndInv, Verify PROVE IndInv'
  OBVIOUS
<1> USE DEF Verify, IndInv
<1>0. st = "init" \/ st = "save"
  BY DEF SaveSound
<1>1. PICK a \in AnswerPairs :
         LET img == LoadResult(a) IN
         \/ /\ img # NoImage /\ ~NeedResave(a)
            /\ accepted' = {img.val}
            /\ pc' = "none"
            /\ IF st = "init" THEN ram' = img /\ InitDone
                             ELSE SaveDone(img) /\ UNCHANGED softReady
         \/ /\ img # NoImage /\ NeedResave(a)
            /\ Accept(img)
            /\ SaveFailed
         \/ /\ img = NoImage
            /\ SaveFailed
            /\ UNCHANGED <<ram, accepted>>
  OBVIOUS
<1> DEFINE img == LoadResult(a)
<1>2. img # NoImage => /\ img \in Image /\ img.ver = Cur /\ img.val \in Valid
                       /\ {img.val} \subseteq Vals
  BY LoadIsGood, SettingsAssumption DEF TypeOK, DataType, GCheck
<1>3. CopiesSound'
  BY CopiesKept
<1>4. CASE img # NoImage /\ ~NeedResave(a) /\ st = "save"
  BY <1>1, <1>2, <1>4, SaveDoneInd
<1>5. CASE ~(img # NoImage /\ ~NeedResave(a) /\ st = "save")
  <2>1. \/ ram' = ram /\ accepted' = accepted /\ SaveFailed
        \/ /\ img \in Image /\ img.ver = Cur /\ img.val \in Valid
           /\ ram' = img /\ accepted' = {img.val} /\ {img.val} \subseteq Vals
           /\ SaveFailed \/ (st = "init" /\ InitDone)
    BY <1>0, <1>1, <1>2, <1>5 DEF Accept
  <2>2. pc' = "none"
    BY <1>0, <1>1, <1>5 DEF SaveFailed
  <2>3. DataType'
    BY <2>1 DEF TypeOK, DataType, FlashType
  <2>4. ControlType'
    BY <2>1, <2>2 DEF TypeOK, ControlType, States, SaveFailed, InitDone
  <2>5. StatusType'
    BY <2>1, Zenon DEF TypeOK, StatusType, SaveFailed, InitDone
  <2>6. CountType'
    BY DEF TypeOK, CountType
  <2>7. RamSound'
    BY <1>0, <2>1 DEF RamSound, SaveFailed, InitDone, SaveSound
  <2>8. SaveSound'
    BY <2>2 DEF SaveSound
  <2> QED BY <1>3, <2>3, <2>4, <2>5, <2>6, <2>7, <2>8 DEF TypeOK
<1> QED BY <1>0, <1>4, <1>5

\* Edits, requests, the timer and the memory watchdog touch no copy.
LEMMA EnvironmentInd ==
  ASSUME AppContract, IndInv,
         \/ MemoryReady \/ ErrorCheck \/ UserRequest \/ SaveTimerExpires
         \/ \E v \in UserVals : UserEdit(v)
  PROVE  IndInv'
<1> USE DEF MemoryReady, ErrorCheck, UserRequest, SaveTimerExpires, UserEdit, IndInv, AppContract
<1>1. \/ ram' = ram
      \/ \E v \in Valid : ram' = [ram EXCEPT !.val = v]
  OBVIOUS
<1>2. /\ flash' = flash /\ hurt' = hurt /\ accepted' = accepted
      /\ st' = st /\ ev' = ev /\ pc' = pc /\ pc = "none" /\ oldHash' = oldHash
      /\ initialized' = initialized
  OBVIOUS
<1>3. DataType'
  BY <1>1, <1>2, SettingsAssumption DEF TypeOK, DataType, FlashType, Image
<1>4. ControlType'
  BY <1>2 DEF TypeOK, ControlType, States
<1>5. StatusType'
  BY Zenon DEF TypeOK, StatusType
<1>6. CountType'
  BY UpdaterAssumption DEF TypeOK, CountType
<1>7. RamSound'
  BY <1>1, <1>2 DEF RamSound, TypeOK, DataType, Image
<1>8. SaveSound'
  BY <1>2 DEF SaveSound
<1>9. CopiesSound'
  BY <1>2, CopiesKept
<1> QED BY <1>3, <1>4, <1>5, <1>6, <1>7, <1>8, <1>9 DEF TypeOK

\* A reset costs at most the copy that was being rewritten.
LEMMA CrashInd == AppContract /\ IndInv /\ Crash => IndInv'
<1> SUFFICES ASSUME AppContract, IndInv, Crash PROVE IndInv'
  OBVIOUS
<1> USE DEF Crash, IndInv
<1>1. FlashType' /\ accepted' \subseteq Vals /\ hurt' \in 0..2 /\ CopiesSound'
  <2>1. CASE pc = "write1" \/ pc = "write2"
    BY <2>1, CutShortInd
  <2>2. CASE ~(pc = "write1" \/ pc = "write2")
    <3>1. flash' = flash /\ hurt' = hurt /\ accepted' = accepted
      BY <2>2
    <3> QED BY <3>1, CopiesKept DEF TypeOK, DataType, CountType, FlashType
  <2> QED BY <2>1, <2>2
<1>2. DataType'
  BY <1>1, SettingsAssumption DEF TypeOK, DataType, FactoryImage, Image
<1>3. ControlType'
  BY DEF TypeOK, ControlType, States
<1>4. StatusType'
  BY Zenon DEF TypeOK, StatusType
<1>5. CountType'
  BY <1>1, UpdaterAssumption DEF TypeOK, CountType
<1>6. RamSound'
  BY DEF RamSound, FactoryImage
<1>7. SaveSound'
  BY DEF SaveSound
<1> QED BY <1>1, <1>2, <1>3, <1>4, <1>5, <1>6, <1>7 DEF TypeOK

\* A step of another part of the device keeps IndInv.
LEMMA StutterInd == IndInv /\ UNCHANGED vars => IndInv'
BY CopiesKept DEF vars, IndInv, TypeOK, DataType, ControlType, StatusType,
   CountType, FlashType, RamSound, SaveSound

\* The updater's state is well formed and its copies are as IndInv says, in
\* every behaviour of g_settings_updater.cpp and SettingsDB.cpp.
THEOREM UpdaterIndInv == AppContract => (Spec => []IndInv)
<1>1. AppContract /\ Init => IndInv
  BY InitIndInv
<1>2. AppContract /\ IndInv /\ [Next]_vars => IndInv'
  BY DispatchInd, StngInitInd, StngIdleInd, StngSaveInd, StngLoadInd,
     WriteFirstInd, WriteSecondInd, WriteFailsInd, NoAddressInd, VerifyInd, EnvironmentInd,
     CrashInd, StutterInd DEF Next, Tick, Save
<1>3. AppContract => []AppContract
  BY DEF AppContract
<1> QED BY <1>1, <1>2, <1>3, PTL DEF Spec

\* Every variable keeps its type.
THEOREM UpdaterTypeOK == AppContract => (Spec => []TypeOK)
<1>1. IndInv => TypeOK
  BY DEF IndInv
<1> QED BY <1>1, UpdaterIndInv, PTL

\* One rewrite cut short since the last complete save never costs both copies
\* (SettingsDB.cpp:153).
THEOREM UpdaterKeepsACopy == AppContract => (Spec => []OneInterruptionKeepsACopy)
<1>1. IndInv => OneInterruptionKeepsACopy
  BY DEF IndInv, CopiesSound, OneInterruptionKeepsACopy, OneGood, TypeOK, CountType
<1> QED BY <1>1, UpdaterIndInv, PTL
-----------------------------------------------------------------------------
(***************************************************************************)
(* What a boot restores.  The storage must answer every read of a sound    *)
(* record here: a read that fails at boot lets the second copy, or the     *)
(* defaults, take over what was stored.                                    *)
(***************************************************************************)
\* The initial copies hold the value the last run left behind.
LEMMA InitAccepted == Init => AcceptedSound
<1> SUFFICES ASSUME Init PROVE AcceptedSound
  OBVIOUS
<1> USE DEF Init, AcceptedSound
<1>1. CASE hurt = 2
  BY <1>1
<1>2. CASE \E v \in Valid : /\ flash = StoredCopies(Cur, v)
                           /\ hurt = 0 /\ accepted = {v}
  <2> PICK v \in Valid : /\ flash = StoredCopies(Cur, v)
                         /\ hurt = 0 /\ accepted = {v}
    BY <1>2
  <2>1. \A i \in Copies : flash[i] \in Image /\ GCheck(flash[i]) /\ flash[i].val = v
    BY StoredImage, SettingsAssumption DEF Image, GCheck, Crc
  <2>2. ValueAt(1) = v /\ ValueAt(2) = v
    BY <2>1, WrittenIsGood
  <2> QED BY <2>2
<1> QED BY <1>1, <1>2

\* Steps that touch neither the copies nor what is accepted keep AcceptedSound.
LEMMA AcceptedKept ==
  ASSUME AcceptedSound, UNCHANGED <<flash, hurt, accepted>>,
         pc = "write2" => pc' = "write2",
         pc' \in {"write2", "verify"} => pc' = pc /\ ram' = ram
  PROVE  AcceptedSound'
BY CopiesUnchanged DEF AcceptedSound

\* A load makes its result the accepted value, and all good copies agree on it
\* while no rewrite is under way (SettingsDB.cpp:66).
LEMMA AcceptedLoad ==
  ASSUME ~ReadFaults, IndInv, AcceptedSound, NEW a \in AnswerPairs,
         LoadResult(a) # NoImage, accepted' = {LoadResult(a).val},
         UNCHANGED <<flash, hurt>>, pc # "write2", pc' \notin {"write2", "verify"}
  PROVE  AcceptedSound'
<1>1. LoadResult(a) = BootImage
  BY LoadIsBootImage
<1>2. hurt = 0 => BootImage.val = ValueAt(1)
  BY DEF IndInv, CopiesSound, BootImage, ValueAt
<1>3. hurt = 0 => ValueAt(1) = ValueAt(2)
  BY DEF AcceptedSound
<1> QED BY <1>1, <1>2, <1>3, CopiesUnchanged DEF AcceptedSound

\* A rewrite leaves the image of RAM in its copy, and RAM holds good settings.
LEMMA AcceptedWrite ==
  ASSUME IndInv, AcceptedSound, WriteFirst \/ WriteSecond
  PROVE  AcceptedSound'
<1> USE DEF IndInv, Copies
<1>1. ram \in Image /\ GCheck(ram) /\ DbChecked(ram) = ram /\ ram' = ram
  BY CheckedIsKept DEF SaveSound, TypeOK, DataType, WriteFirst, WriteSecond, SaveVars
<1>2. CASE WriteFirst
  <2>1. flash'[1] = ram /\ flash'[2] = flash[2]
    BY <1>2 DEF WriteFirst, TypeOK, DataType, FlashType
  <2>2. ValueAt(1)' = ram.val /\ ValueAt(2)' = ValueAt(2) /\ BootImage' = ram
    BY <1>1, <2>1 DEF ValueAt, BootImage, GoodCopy
  <2> QED BY <1>1, <1>2, <2>2 DEF AcceptedSound, WriteFirst
<1>3. CASE WriteSecond
  <2>1. flash'[1] = ram /\ flash'[2] = ram
    BY <1>3 DEF WriteSecond, TypeOK, DataType, FlashType, SaveSound
  <2>2. ValueAt(1)' = ram.val /\ ValueAt(2)' = ram.val
    BY <1>1, <2>1 DEF ValueAt
  <2> QED BY <1>1, <1>3, <2>2 DEF AcceptedSound, WriteSecond
<1> QED BY <1>2, <1>3

\* A rewrite cut short leaves one of: the old value, the other copy's, RAM's.
LEMMA AcceptedCutShort ==
  ASSUME IndInv, AcceptedSound, NEW i \in Copies, CutShort(i),
         pc = IF i = 1 THEN "write1" ELSE "write2",
         pc' = "none"
  PROVE  AcceptedSound'
<1> USE DEF IndInv, Copies
<1>1. ram \in Image /\ GCheck(ram) /\ DbChecked(ram) = ram
  BY CheckedIsKept DEF SaveSound, TypeOK, DataType
<1>2. hurt' # 0
  BY DEF CutShort, HurtMore, TypeOK, CountType
<1>3. ASSUME hurt' = 1 PROVE BootImage'.val \in accepted'
  <2>1. hurt = 0 /\ accepted' = accepted \cup {ram.val}
    BY <1>3 DEF CutShort, HurtMore, TypeOK, CountType
  <2>2. GoodCopy(1) /\ GoodCopy(2) /\ ValueAt(1) \in accepted /\ ValueAt(2) \in accepted
    BY <2>1 DEF CopiesSound, AcceptedSound
  <2>3. Torn \notin Image
    BY StoreAssumption
  <2>4. CASE i = 1
    <3>1. flash'[2] = flash[2] /\ flash'[1] \in {flash[1], Torn, ram}
      BY <2>4 DEF CutShort, AfterFailedRewrite, TypeOK, DataType, FlashType
    <3>2. GoodCopy(2)' /\ DbChecked(flash[2])' = DbChecked(flash[2])
      BY <2>2, <3>1 DEF GoodCopy
    <3> QED BY <1>1, <2>1, <2>2, <2>3, <3>1, <3>2 DEF BootImage, GoodCopy, ValueAt
  <2>5. CASE i = 2
    <3>1. flash'[1] = ram
      BY <2>5 DEF CutShort, TypeOK, DataType, FlashType, SaveSound
    <3> QED BY <1>1, <2>1, <3>1 DEF BootImage, GoodCopy
  <2> QED BY <2>4, <2>5
<1> QED BY <1>2, <1>3 DEF AcceptedSound

\* A save that finds no address for the second copy leaves the first one as it wrote it.
LEMMA AcceptedNoAddress ==
  ASSUME ~ReadFaults, IndInv, AcceptedSound, NoAddress
  PROVE  AcceptedSound'
<1>1. flash' = flash /\ ram' = ram /\ accepted' = accepted /\ pc' = "none"
  BY DEF NoAddress, SaveVars, SaveFailed
<1>2. /\ GoodCopy(1)' = GoodCopy(1) /\ GoodCopy(2)' = GoodCopy(2)
      /\ ValueAt(1)' = ValueAt(1) /\ ValueAt(2)' = ValueAt(2)
      /\ BootImage' = BootImage
  BY <1>1 DEF GoodCopy, ValueAt, BootImage
<1>3. CASE pc = "write1"
  BY <1>1, <1>2, <1>3 DEF NoAddress, AcceptedSound
<1>4. CASE pc = "write2"
  <2>1. flash[1] = ram /\ GCheck(ram) /\ ram \in Image /\ ram.val \in accepted
    BY <1>4 DEF IndInv, SaveSound, AcceptedSound, TypeOK, DataType
  <2>2. DbChecked(ram) = ram
    BY <2>1, CheckedIsKept
  <2>3. BootImage = ram
    BY <2>1, <2>2 DEF BootImage, GoodCopy
  <2>4. hurt' # 0
    BY <1>4 DEF NoAddress, HurtMore, IndInv, TypeOK, CountType
  <2> QED BY <1>1, <1>2, <2>1, <2>3, <2>4 DEF AcceptedSound
<1> QED BY <1>3, <1>4 DEF NoAddress

\* Every step of the device keeps AcceptedSound.
LEMMA AcceptedInd ==
  ASSUME ~ReadFaults, IndInv, AcceptedSound, [Next]_vars
  PROVE  AcceptedSound'
<1>1. CASE Dispatch \/ StngIdle \/ StngSave
  BY <1>1, AcceptedKept DEF Dispatch, StngIdle, StngSave, SaveDone
<1>2. CASE StngInit \/ StngLoad
  BY <1>2, AcceptedKept, AcceptedLoad DEF StngInit, StngLoad, Accept
<1>3. CASE WriteFirst \/ WriteSecond
  BY <1>3, AcceptedWrite
<1>4. CASE Verify
  BY <1>4, AcceptedKept, AcceptedLoad DEF Verify, Accept, SaveFailed
<1>5. CASE WriteFails
  BY <1>5, AcceptedCutShort DEF WriteFails, SaveFailed
<1>6. CASE \/ MemoryReady \/ ErrorCheck \/ UserRequest \/ SaveTimerExpires
           \/ \E v \in UserVals : UserEdit(v)
  BY <1>6, AcceptedKept DEF MemoryReady, ErrorCheck, UserRequest, SaveTimerExpires, UserEdit
<1>7. CASE Crash
  <2>1. CASE pc = "write1" \/ pc = "write2"
    BY <1>7, <2>1, AcceptedCutShort DEF Crash
  <2>2. CASE ~(pc = "write1" \/ pc = "write2")
    BY <1>7, <2>2, AcceptedKept DEF Crash
  <2> QED BY <2>1, <2>2
<1>8. CASE UNCHANGED vars
  BY <1>8, AcceptedKept DEF vars
<1>9. CASE NoAddress
  BY <1>9, AcceptedNoAddress
<1> QED BY <1>1, <1>2, <1>3, <1>4, <1>5, <1>6, <1>7, <1>8, <1>9 DEF Next, Tick, Save

\* After at most one interruption a boot restores what the application last
\* loaded or saved, or the value whose save was interrupted (SettingsDB.cpp:66).
THEOREM UpdaterBootRestoresAccepted ==
  AppContract /\ ~ReadFaults => (Spec => []BootRestoresAccepted)
<1>1. IndInv /\ AcceptedSound => BootRestoresAccepted
  <2> SUFFICES ASSUME IndInv, AcceptedSound, hurt < 2 PROVE BootImage.val \in accepted
    BY DEF BootRestoresAccepted
  <2>1. CASE hurt = 0
    BY <2>1 DEF IndInv, CopiesSound, AcceptedSound, BootImage, ValueAt
  <2>2. CASE hurt = 1
    BY <2>2 DEF AcceptedSound
  <2> QED BY <2>1, <2>2 DEF IndInv, TypeOK, CountType
<1>2. ~ReadFaults /\ IndInv /\ AcceptedSound /\ [Next]_vars => AcceptedSound'
  BY AcceptedInd
<1>3. ~ReadFaults => []~ReadFaults
  OBVIOUS
<1> QED BY <1>1, <1>2, <1>3, InitAccepted, UpdaterIndInv, PTL DEF Spec
-----------------------------------------------------------------------------
(***************************************************************************)
(* What the updater calls stored.                                          *)
(***************************************************************************)
\* With answers to every read, what a load brings is what a boot would bring,
\* and one good copy is enough for it.
LEMMA LoadStored ==
  ASSUME ~ReadFaults, IndInv, NEW a \in AnswerPairs
  PROVE  /\ LoadResult(a) = BootImage
         /\ LoadResult(a) # NoImage => OneGood
         /\ pc = "verify" => LoadResult(a) # NoImage /\ ~NeedResave(a)
<1>1. LoadResult(a) = BootImage
  BY LoadIsBootImage
<1>2. BootImage # NoImage => OneGood
  BY DEF BootImage, OneGood
<1>3. ASSUME pc = "verify" PROVE BootImage # NoImage /\ ~NeedResave(a)
  <2>1. flash[1] = ram /\ flash[2] = ram /\ ram \in Image /\ GCheck(ram)
    BY <1>3 DEF IndInv, SaveSound, TypeOK, DataType
  <2>2. BootImage # NoImage
    BY <2>1, CheckedIsKept, StoreAssumption DEF BootImage, GoodCopy
  <2>3. \A i \in Copies : a[i] = "data"
    BY <2>1, StoreAssumption DEF AnswerPairs, ReadAnswers
  <2> QED BY <2>2, <2>3 DEF NeedResave
<1> QED BY <1>1, <1>2, <1>3

\* Steps that leave the copies, RAM, the state and the hash alone.
LEMMA StoredKept ==
  ASSUME StoredSound, UNCHANGED <<flash, ram, st, ev, oldHash, statVars>>, calm' => calm
  PROVE  StoredSound'
BY CopiesUnchanged DEF StoredSound

\* The transitions carry the stored hash into idle (g_settings_updater.cpp:214).
LEMMA StoredDispatch ==
  ASSUME IndInv, StoredSound, Dispatch
  PROVE  StoredSound'
<1> USE DEF Dispatch, StoredSound
<1>1. OneGood' = OneGood /\ BootImage' = BootImage /\ ram' = ram /\ calm' = calm
      /\ needSave' = needSave /\ needLoad' = needLoad /\ loadErr' = loadErr
  BY CopiesUnchanged
<1>2. st # "init" => initialized
  BY DEF IndInv, RamSound
<1>3. \/ st = "init" /\ ev = "updated" /\ st' = "idle"
      \/ st = "idle" /\ st' \in {"load", "save"} /\ oldHash' = oldHash
      \/ st = "load" /\ ev = "updated" /\ st' = "idle"
      \/ st = "save" /\ ev = "saved" /\ st' = "load" /\ oldHash' = oldHash
  BY DEF Table
<1>4. ASSUME calm, st' = "idle" PROVE oldHash' = NewHash(BootImage)
  BY <1>1, <1>2, <1>3, <1>4 DEF UpdateHash, SettingsReady
<1> QED BY <1>1, <1>3, <1>4

\* Loading or saving at the boot brings to RAM what is stored.
LEMMA StoredInit ==
  ASSUME ~ReadFaults, IndInv, StoredSound, StngInit
  PROVE  StoredSound'
<1> USE DEF StngInit, StoredSound
<1>1. OneGood' = OneGood /\ BootImage' = BootImage /\ calm' = calm /\ st = "init" /\ st' = "init"
      /\ needSave' = needSave /\ needLoad' = needLoad /\ ev = "none"
  BY CopiesUnchanged DEF InitDone
<1>2. PICK a \in AnswerPairs :
       \/ LoadResult(a) # NoImage /\ Accept(LoadResult(a)) /\ InitDone
       \/ UNCHANGED <<ev, statVars>>
  OBVIOUS
<1>3. CASE LoadResult(a) # NoImage /\ Accept(LoadResult(a)) /\ InitDone
  BY <1>1, <1>3, LoadStored DEF Accept, InitDone
<1>4. CASE UNCHANGED <<ev, statVars>>
  BY <1>1, <1>4
<1> QED BY <1>2, <1>3, <1>4

\* Idling queues events and forgets a request that has nothing to save.
LEMMA StoredIdle ==
  ASSUME StoredSound, StngIdle
  PROVE  StoredSound'
BY CopiesUnchanged DEF StoredSound, StngIdle

\* A load brings to RAM what is stored (g_settings_updater.cpp:192).
LEMMA StoredLoad ==
  ASSUME ~ReadFaults, IndInv, StoredSound, StngLoad
  PROVE  StoredSound'
<1> USE DEF StngLoad, StoredSound
<1>1. OneGood' = OneGood /\ BootImage' = BootImage /\ calm' = calm /\ st = "load" /\ st' = "load"
      /\ needSave' = needSave /\ oldHash' = oldHash /\ ev = "none"
  BY CopiesUnchanged
<1>2. PICK a \in AnswerPairs :
       \/ /\ LoadResult(a) # NoImage /\ Accept(LoadResult(a))
          /\ loadErr' = FALSE /\ needLoad' = FALSE
       \/ ev' = ev
  OBVIOUS
<1>3. CASE /\ LoadResult(a) # NoImage /\ Accept(LoadResult(a))
           /\ loadErr' = FALSE /\ needLoad' = FALSE
  BY <1>1, <1>3, LoadStored DEF Accept
<1>4. CASE ev' = ev
  BY <1>1, <1>4
<1> QED BY <1>2, <1>3, <1>4

\* A save up to its first rewrite, or one that finds nothing to save.
LEMMA StoredSave ==
  ASSUME StoredSound, StngSave
  PROVE  StoredSound'
<1> USE DEF StngSave, StoredSound
<1>1. OneGood' = OneGood /\ calm' = calm /\ st = "save" /\ st' = "save" /\ ev = "none"
  BY CopiesUnchanged
<1>2. ev' = "none" \/ ~needSave'
  BY DEF SaveDone
<1> QED BY <1>1, <1>2

\* Each rewrite leaves a good copy, and the load that follows finds it.
LEMMA StoredWrite ==
  ASSUME ~ReadFaults, IndInv, StoredSound, WriteFirst \/ WriteSecond \/ Verify
  PROVE  StoredSound'
<1>1. pc # "none" /\ st \in {"init", "save"} /\ ev = "none" /\ ram \in Image /\ GCheck(ram)
  BY DEF IndInv, SaveSound, TypeOK, DataType, WriteFirst, WriteSecond, Verify
<1>2. CASE WriteFirst \/ WriteSecond
  <2>1. UNCHANGED <<st, ev, statVars, calm>>
    BY <1>2 DEF WriteFirst, WriteSecond, SaveVars
  <2>2. flash'[1] = ram \/ flash'[2] = ram
    BY <1>2 DEF WriteFirst, WriteSecond, IndInv, TypeOK, DataType, FlashType
  <2>3. OneGood'
    BY <1>1, <2>2, CheckedIsKept DEF OneGood, GoodCopy
  <2> QED BY <1>1, <2>1, <2>3 DEF StoredSound
<1>3. CASE Verify
  <2>1. PICK a \in AnswerPairs :
          /\ LoadResult(a) # NoImage
          /\ IF st = "init" THEN ram' = LoadResult(a) /\ InitDone ELSE SaveDone(LoadResult(a))
    BY <1>3, LoadStored DEF Verify
  <2>2. OneGood' /\ BootImage' = BootImage /\ st' = st /\ calm' = calm
    BY <1>3, <2>1, LoadStored, CopiesUnchanged DEF Verify
  <2>3. CASE st = "init"
    BY <2>1, <2>2, <2>3, LoadStored DEF StoredSound, InitDone
  <2>4. CASE st = "save"
    BY <2>1, <2>2, <2>4 DEF StoredSound, SaveDone
  <2> QED BY <1>1, <2>3, <2>4
<1> QED BY <1>2, <1>3

\* The application's edits and requests, the timer and the watchdogs.
LEMMA StoredEnvironment ==
  ASSUME StoredSound,
         \/ MemoryReady \/ ErrorCheck \/ UserRequest \/ SaveTimerExpires
         \/ \E v \in UserVals : UserEdit(v)
  PROVE  StoredSound'
<1>1. CASE MemoryReady \/ ErrorCheck \/ SaveTimerExpires
  BY <1>1, StoredKept DEF MemoryReady, ErrorCheck, SaveTimerExpires
<1>2. CASE UserRequest \/ \E v \in UserVals : UserEdit(v)
  <2>1. /\ UNCHANGED <<flash, st, ev, oldHash>>
        /\ calm' => calm /\ st = "idle"
    BY <1>2 DEF UserRequest, UserEdit
  <2> QED BY <2>1, CopiesUnchanged DEF StoredSound
<1> QED BY <1>1, <1>2

\* Every step of the device keeps StoredSound.
LEMMA StoredInd ==
  ASSUME ~ReadFaults, IndInv, StoredSound, [Next]_vars
  PROVE  StoredSound'
<1>1. CASE WriteFails
  BY <1>1 DEF WriteFails, StoredSound
<1>2. CASE Crash
  BY <1>2 DEF Crash, StoredSound
<1>3. CASE UNCHANGED vars
  BY <1>3, StoredKept DEF vars
<1>4. CASE NoAddress
  BY <1>4 DEF NoAddress, StoredSound
<1> QED BY <1>1, <1>2, <1>3, <1>4, StoredDispatch, StoredInit, StoredIdle, StoredLoad, StoredSave,
         StoredWrite, StoredEnvironment DEF Next, Tick, Save

\* Settings reported ready and unchanged are those a reset brings back, in
\* every behaviour whose reads of sound records succeed
\* (g_settings_updater.cpp:105-225).
THEOREM UpdaterReadyMeansStored ==
  AppContract /\ ~ReadFaults => (Spec => []ReadyMeansStored)
<1>1. Init => StoredSound
  BY DEF Init, StoredSound
<1>2. IndInv /\ StoredSound => ReadyMeansStored
  BY DEF StoredSound, ReadyMeansStored, Settled, HasNewSettings
<1>3. ~ReadFaults /\ IndInv /\ StoredSound /\ [Next]_vars => StoredSound'
  BY StoredInd
<1>4. ~ReadFaults => []~ReadFaults
  OBVIOUS
<1> QED BY <1>1, <1>2, <1>3, <1>4, UpdaterIndInv, PTL DEF Spec
=============================================================================
