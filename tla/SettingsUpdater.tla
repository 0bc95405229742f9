--------------------------- MODULE SettingsUpdater ---------------------------
(***************************************************************************)
(* device_settings/g_settings_updater.cpp: the state machine the scheduler *)
(* ticks (settings_update) to load, watch and save the settings, together  *)
(* with the application that edits them in RAM between two ticks and with  *)
(* resets that may cut any step short.                                     *)
(***************************************************************************)
EXTENDS SettingsDB

CONSTANTS
  UserVals,       \* contents the application writes
  NoHash,         \* old_hash before it is computed
  MaxEdits,       \* bound on the application's edits and requests
  MaxCrashes,     \* bound on resets
  MaxFailures     \* bound on saves that fail before they have written both copies

ASSUME UpdaterAssumption ==
  /\ UserVals \subseteq Vals
  /\ NoHash \notin Hashes
  /\ MaxEdits \in Nat /\ MaxCrashes \in Nat /\ MaxFailures \in Nat

VARIABLES
  ram,          \* device_settings_storage
  st,           \* current state of stng_fsm
  ev,           \* the event queued in stng_fsm
  pc,           \* where inside SettingsDB::save the updater is, "none" outside
  oldHash,      \* old_hash
  saveWait,     \* saveTimer.wait()
  loadErr,      \* SETTINGS_LOAD_ERROR
  needSave,     \* NEED_SAVE_SETTINGS
  needLoad,     \* NEED_LOAD_SETTINGS
  stopped,      \* SETTINGS_STOPPED
  initialized,  \* SETTINGS_INITIALIZED
  softReady,    \* SYSTEM_SOFTWARE_READY
  memInit,      \* MEMORY_INITIALIZED
  edits, crashes, failures,
                \* what the bounds count
  hurt,         \* history: saves cut short since both copies were written
  accepted,     \* history: what the application may take for stored
  calm          \* history: since the boot the application edited and requested only
                \* while the updater idled with no event queued, and no rewrite failed

fsmVars   == <<st, ev, oldHash, saveWait>>
statVars  == <<loadErr, needSave, needLoad, stopped, initialized>>
boundVars == <<edits, crashes, failures>>
histVars  == <<hurt, accepted, calm>>
vars == <<flash, ram, pc, fsmVars, statVars, softReady, memInit, boundVars, histVars>>

States == {"init", "idle", "save", "load"}

DataType ==
  /\ FlashType
  /\ ram \in Image
  /\ oldHash \in Hashes \cup {NoHash}
  /\ accepted \subseteq Vals

ControlType ==
  /\ st \in States
  /\ ev \in {"none", "saved", "updated"}
  /\ pc \in {"none", "write1", "write2", "verify"}

StatusType ==
  /\ saveWait \in BOOLEAN /\ loadErr \in BOOLEAN /\ needSave \in BOOLEAN
  /\ needLoad \in BOOLEAN /\ stopped \in BOOLEAN
  /\ initialized \in BOOLEAN /\ softReady \in BOOLEAN /\ memInit \in BOOLEAN
  /\ calm \in BOOLEAN

CountType ==
  /\ edits \in 0..MaxEdits /\ crashes \in 0..MaxCrashes
  /\ failures \in 0..MaxFailures
  /\ hurt \in 0..2

TypeOK == DataType /\ ControlType /\ StatusType /\ CountType

SettingsReady == ~loadErr /\ ~needSave /\ ~needLoad /\ initialized

HasNewSettings == oldHash # NewHash(ram)

\* Both copies as a firmware with header ver left them.
StoredCopies(ver, v) ==
  LET img == [ver |-> ver, val |-> v, crc |-> NoCrc]
  IN  [i \in Copies |-> [img EXCEPT !.crc = Crc(img)]]

\* A new device, one that ran this firmware before, or one just updated to it.
Init ==
  /\ ram = FactoryImage
  /\ st = "init" /\ ev = "none" /\ pc = "none"
  /\ oldHash = NoHash
  /\ saveWait = FALSE
  /\ loadErr = FALSE /\ needSave = FALSE /\ needLoad = FALSE
  /\ stopped = FALSE /\ initialized = FALSE
  /\ softReady = FALSE /\ memInit = FALSE
  /\ \/ flash = [i \in Copies |-> Absent] /\ hurt = 2 /\ accepted = {}
     \/ \E v \in Valid :
          flash = StoredCopies(Cur, v) /\ hurt = 0 /\ accepted = {v}
     \/ \E v \in Valid, ver \in Vers \ {Cur} :
          flash = StoredCopies(ver, v) /\ hurt = 2 /\ accepted = {}
  /\ edits = 0 /\ crashes = 0 /\ failures = 0 /\ calm = TRUE
-----------------------------------------------------------------------------
(***************************************************************************)
(* One settings_update() call either dispatches the queued event or runs   *)
(* the handler of the current state; a handler queues at most one event.   *)
(***************************************************************************)
Running == pc = "none"
Handler(s) == Running /\ ev = "none" /\ st = s

\* stng_fsm_table: current state, event, next state
Table == {<<"init", "updated", "idle">>,
          <<"idle", "saved",   "load">>,
          <<"idle", "updated", "save">>,
          <<"load", "updated", "idle">>,
          <<"save", "saved",   "load">>}

\* _stng_update_hash_a, the action of the two transitions into idle
UpdateHash ==
  oldHash' = IF SettingsReady \/ ~initialized THEN NewHash(ram) ELSE oldHash

Dispatch ==
  /\ Running /\ ev # "none"
  /\ \E row \in Table : row[1] = st /\ row[2] = ev /\ st' = row[3]
  /\ ev' = "none"
  /\ IF st' = "idle" THEN UpdateHash ELSE UNCHANGED oldHash
  /\ UNCHANGED <<flash, ram, pc, saveWait, statVars, softReady, memInit, boundVars, histVars>>

\* load() brought img to RAM: from here on the application sees it as stored.
Accept(img) == ram' = img /\ accepted' = {img.val}

\* _stng_init_s once the settings are in RAM and stored
InitDone ==
  /\ loadErr' = FALSE /\ initialized' = TRUE /\ softReady' = TRUE
  /\ ev' = "updated"
  /\ UNCHANGED <<needSave, needLoad, stopped>>

\* _stng_init_s: load, or fall back on repaired settings and save them
StngInit ==
  /\ Handler("init") /\ memInit
  /\ \E a \in AnswerPairs :
       \/ /\ LoadResult(a) # NoImage
          /\ Accept(LoadResult(a))
          /\ InitDone
          /\ UNCHANGED pc
       \/ /\ LoadResult(a) = NoImage
          /\ ram' = BeforeSave(GRepair(ram))
          /\ pc' = "write1"
          /\ UNCHANGED <<ev, statVars, softReady, accepted>>
  /\ UNCHANGED <<flash, st, oldHash, saveWait, memInit, boundVars, hurt, calm>>

\* _stng_idle_s
SaveNeeded == HasNewSettings /\ ~stopped

\* Mistake: with the timer the hash is renewed, also while saving is stopped.
StngIdleForgets ==
  /\ Handler("idle")
  /\ needSave' = (needSave /\ HasNewSettings)
  /\ saveWait' = (saveWait \/ ~SaveNeeded)
  /\ ev' = IF SaveNeeded /\ (needSave \/ ~saveWait) THEN "updated"
           ELSE IF needLoad THEN "saved" ELSE "none"
  /\ softReady' = (softReady /\ ev' = "none")
  /\ oldHash' = IF SaveNeeded THEN oldHash ELSE NewHash(ram)
  /\ UNCHANGED <<flash, ram, st, pc, loadErr, needLoad, stopped,
                 initialized, memInit, boundVars, histVars>>

StngIdle ==
  /\ Handler("idle")
  /\ needSave' = (needSave /\ HasNewSettings)
  /\ saveWait' = (saveWait \/ ~SaveNeeded)
  /\ ev' = IF SaveNeeded /\ (needSave \/ ~saveWait) THEN "updated"
           ELSE IF needLoad THEN "saved" ELSE "none"
  /\ softReady' = (softReady /\ ev' = "none")
  /\ UNCHANGED <<flash, ram, st, pc, oldHash, loadErr, needLoad, stopped,
                 initialized, memInit, boundVars, histVars>>

\* _stng_check on the image in RAM
StngChecked(img) == IF GCheck(img) THEN img ELSE GRepair(img)

\* _stng_save_s after save() answered OK, or when there was nothing to save
SaveDone(img) ==
  /\ ram' = StngChecked(img)
  /\ loadErr' = FALSE /\ needSave' = FALSE
  /\ ev' = "saved"
  /\ UNCHANGED <<needLoad, stopped, initialized>>

\* _stng_save_s up to the first rewrite
StngSave ==
  /\ Handler("save")
  /\ IF HasNewSettings
     THEN LET img == BeforeSave(ram)
          IN  /\ ram' = StngChecked(img)
              /\ loadErr' = ~GCheck(img)
              /\ needSave' = (needSave \/ ~GCheck(img))
              /\ pc' = "write1"
              /\ UNCHANGED <<ev, needLoad, stopped, initialized>>
     ELSE SaveDone(ram) /\ UNCHANGED pc
  /\ UNCHANGED <<flash, st, oldHash, saveWait, softReady, memInit, boundVars, histVars>>

\* Mistake: the event that leads back to idle is not queued.
StngLoadStays ==
  /\ Handler("load")
  /\ \E a \in AnswerPairs :
       /\ LoadResult(a) # NoImage
       /\ Accept(LoadResult(a))
       /\ loadErr' = FALSE /\ needLoad' = FALSE /\ softReady' = TRUE
  /\ UNCHANGED <<flash, st, ev, pc, oldHash, saveWait, needSave, stopped,
                 initialized, memInit, boundVars, hurt, calm>>

\* _stng_load_s: on an error it stays here and tries again at the next tick.
StngLoad ==
  /\ Handler("load")
  /\ \E a \in AnswerPairs :
       \/ /\ LoadResult(a) # NoImage
          /\ Accept(LoadResult(a))
          /\ loadErr' = FALSE /\ needLoad' = FALSE /\ softReady' = TRUE
          /\ ev' = "updated"
       \/ /\ LoadResult(a) = NoImage
          /\ UNCHANGED <<ram, accepted, loadErr, needLoad, softReady, ev>>
  /\ UNCHANGED <<flash, st, pc, oldHash, saveWait, needSave, stopped,
                 initialized, memInit, boundVars, hurt, calm>>
-----------------------------------------------------------------------------
(***************************************************************************)
(* SettingsDB::save, one action per storage operation that a reset or an   *)
(* error can separate from the next.                                       *)
(***************************************************************************)
\* save() answered an error: the init handler reports it, the save handler
\* goes on to load what is stored.
SaveFailed ==
  /\ pc' = "none"
  /\ IF st = "init" THEN loadErr' = TRUE /\ UNCHANGED ev
                    ELSE ev' = "saved" /\ UNCHANGED loadErr
  /\ UNCHANGED <<needSave, needLoad, stopped, initialized, softReady>>

\* Two copies that differ, or of which one is hurt, count as one interruption more.
HurtMore == hurt' = IF hurt < 2 THEN hurt + 1 ELSE 2

\* A rewrite of copy i was cut short, leaving the old record, the new one or
\* neither.
CutShort(i) ==
  /\ \E r \in AfterFailedRewrite(i, ram) : flash' = [flash EXCEPT ![i] = r]
  /\ HurtMore
  /\ accepted' = accepted \cup {ram.val}

SaveVars == <<ram, st, oldHash, saveWait, memInit, edits, crashes>>

WriteFirst ==
  /\ pc = "write1"
  /\ flash' = [flash EXCEPT ![1] = ram]
  /\ pc' = "write2"
  /\ accepted' = accepted \cup {ram.val}
  /\ UNCHANGED <<SaveVars, ev, statVars, softReady, failures, hurt, calm>>

WriteSecond ==
  /\ pc = "write2"
  /\ flash' = [flash EXCEPT ![2] = ram]
  /\ pc' = "verify"
  /\ hurt' = 0
  /\ accepted' = {ram.val}
  /\ UNCHANGED <<SaveVars, ev, statVars, softReady, failures, calm>>

WriteFails ==
  /\ failures < MaxFailures
  /\ failures' = failures + 1
  /\ \/ pc = "write1" /\ CutShort(1)
     \/ pc = "write2" /\ CutShort(2)
  /\ SaveFailed
  /\ calm' = FALSE
  /\ UNCHANGED SaveVars

\* No address for the next rewrite: save() gives up and the storage stays as it is.
NoAddress ==
  /\ failures < MaxFailures
  /\ failures' = failures + 1
  /\ \/ pc = "write1" /\ MayFindNoAddress(1) /\ UNCHANGED hurt
     \/ pc = "write2" /\ MayFindNoAddress(2) /\ HurtMore
  /\ SaveFailed
  /\ calm' = FALSE
  /\ UNCHANGED <<flash, accepted, SaveVars>>

\* The load() that ends save(), and what the caller makes of its answer.
Verify ==
  /\ pc = "verify"
  /\ \E a \in AnswerPairs :
       LET img == LoadResult(a) IN
       \/ /\ img # NoImage /\ ~NeedResave(a)
          /\ accepted' = {img.val}
          /\ pc' = "none"
          /\ IF st = "init" THEN ram' = img /\ InitDone
                               ELSE SaveDone(img) /\ UNCHANGED softReady
       \/ /\ img # NoImage /\ NeedResave(a)
          /\ Accept(img)
          /\ SaveFailed
       \/ /\ img = NoImage
          /\ SaveFailed
          /\ UNCHANGED <<ram, accepted>>
  /\ UNCHANGED <<flash, st, oldHash, saveWait, memInit, boundVars, hurt, calm>>
-----------------------------------------------------------------------------
(***************************************************************************)
(* The rest of the device.                                                 *)
(***************************************************************************)
\* memory_watchdog_check found the flash.
MemoryReady ==
  /\ Running /\ ~memInit
  /\ memInit' = TRUE
  /\ UNCHANGED <<flash, ram, pc, fsmVars, statVars, softReady, boundVars, histVars>>

\* Scheduler::error_check finds the hardware ready and says the same of the
\* software, whatever the updater is doing.
ErrorCheck ==
  /\ Running /\ ~softReady
  /\ softReady' = TRUE
  /\ UNCHANGED <<flash, ram, pc, fsmVars, statVars, memInit, boundVars, histVars>>

\* The application writes through get_settings().
UserEdit(v) ==
  /\ Running /\ edits < MaxEdits /\ v # ram.val
  /\ calm' = (calm /\ Handler("idle"))
  /\ ram' = [ram EXCEPT !.val = v]
  /\ edits' = edits + 1
  /\ UNCHANGED <<flash, pc, fsmVars, statVars, softReady, memInit, crashes, failures,
                 hurt, accepted>>

\* The application sets the statuses the updater obeys, at any time.
UserRequest ==
  /\ Running /\ edits < MaxEdits
  /\ calm' = (calm /\ Handler("idle"))
  /\ edits' = edits + 1
  /\ \/ ~needSave /\ needSave' = TRUE /\ UNCHANGED <<needLoad, stopped>>
     \/ ~needLoad /\ needLoad' = TRUE /\ UNCHANGED <<needSave, stopped>>
     \/ stopped' = ~stopped /\ UNCHANGED <<needSave, needLoad>>
  /\ UNCHANGED <<flash, ram, pc, fsmVars, loadErr, initialized, softReady, memInit,
                 crashes, failures, hurt, accepted>>

\* SAVE_DELAY_MS passed since saveTimer was last started.
SaveTimerExpires ==
  /\ Running /\ saveWait
  /\ saveWait' = FALSE
  /\ UNCHANGED <<flash, ram, pc, st, ev, oldHash, statVars, softReady, memInit,
                 boundVars, histVars>>

\* A reset or a power loss, also in the middle of a rewrite.
Crash ==
  /\ crashes < MaxCrashes
  /\ crashes' = crashes + 1
  /\ CASE pc = "write1" -> CutShort(1)
       [] pc = "write2" -> CutShort(2)
       [] OTHER -> UNCHANGED <<flash, hurt, accepted>>
  /\ ram' = FactoryImage
  /\ st' = "init" /\ ev' = "none" /\ pc' = "none"
  /\ oldHash' = NoHash
  /\ saveWait' = FALSE
  /\ loadErr' = FALSE /\ needSave' = FALSE /\ needLoad' = FALSE
  /\ stopped' = FALSE /\ initialized' = FALSE
  /\ softReady' = FALSE /\ memInit' = FALSE
  /\ calm' = TRUE
  /\ UNCHANGED <<edits, failures>>

Tick == Dispatch \/ StngInit \/ StngIdle \/ StngSave \/ StngLoad
Save == WriteFirst \/ WriteSecond \/ Verify

Next ==
  \/ Tick
  \/ Save
  \/ WriteFails \/ NoAddress
  \/ MemoryReady
  \/ ErrorCheck
  \/ \E v \in UserVals : UserEdit(v)
  \/ UserRequest
  \/ SaveTimerExpires
  \/ Crash

Spec == Init /\ [][Next]_vars

\* The scheduler keeps ticking the updater, the watchdog finds the flash and
\* time passes; nobody has to edit, request or crash.
Fairness ==
  /\ WF_vars(Tick) /\ WF_vars(Save)
  /\ WF_vars(MemoryReady) /\ WF_vars(SaveTimerExpires)

FairSpec == Spec /\ Fairness
-----------------------------------------------------------------------------
(***************************************************************************)
(* Properties.                                                             *)
(***************************************************************************)
\* One rewrite cut short since the last complete save, by a reset or by an
\* error, never costs both copies, whatever record it leaves behind.
OneInterruptionKeepsACopy == hurt < 2 => OneGood

\* And what the copies then bring back is what the application last loaded or
\* saved, or the value whose save was cut short: nothing older.
BootRestoresAccepted == hurt < 2 => BootImage.val \in accepted

\* The updater idles, has nothing queued and sees nothing to save.
Settled == Handler("idle") /\ ~HasNewSettings

\* When the updater reports the settings ready and unchanged, a reset would
\* bring back what RAM holds, as far as the change hash can tell, unless the
\* application edited while the updater was at work, or a rewrite failed.
ReadyMeansStored ==
  calm /\ Settled /\ SettingsReady => OneGood /\ NewHash(BootImage) = NewHash(ram)

\* The updater comes to rest again and again with the software reported ready,
\* unless the application stopped it or two interruptions destroyed both copies.
SettlesAgain == []<>((Settled /\ softReady) \/ stopped \/ ~OneGood)

\* A device whose firmware was just updated starts with the stored settings as
\* settings_repair updates them, provided settings_check accepts the outcome.
UpdateLogicKept ==
  \A v \in Valid, ver \in Vers \ {Cur} :
    flash = StoredCopies(ver, v) /\ Repaired[ver][v] \in Valid
      => [](initialized /\ edits = 0 => ram.val = Repaired[ver][v])
-----------------------------------------------------------------------------
(***************************************************************************)
(* The inductive invariant behind the two safety properties.  It holds as  *)
(* long as the application writes nothing its own settings_check rejects.  *)
(***************************************************************************)
\* RAM carries the firmware's header, and acceptable settings once loaded.
RamSound ==
  /\ ram.ver = Cur
  /\ st # "init" \/ ev # "none" => initialized
  /\ initialized => ram.val \in Valid

\* What save() writes checks, and the copies it has written hold it.
SaveSound ==
  /\ pc # "none" => GCheck(ram) /\ st \in {"init", "save"} /\ ev = "none"
  /\ pc \in {"write2", "verify"} => flash[1] = ram
  /\ pc = "verify" => flash[2] = ram

CopiesSound ==
  /\ hurt = 0 => GoodCopy(1) /\ GoodCopy(2)
  /\ hurt = 1 => OneGood

IndInv == TypeOK /\ RamSound /\ SaveSound /\ CopiesSound

\* What the copies bring back, for a storage that answers every read.
ValueAt(i) == DbChecked(flash[i]).val
AcceptedSound ==
  /\ hurt = 0 => ValueAt(1) \in accepted /\ ValueAt(2) \in accepted
  /\ hurt = 0 /\ pc # "write2" => ValueAt(1) = ValueAt(2)
  /\ hurt = 1 => BootImage.val \in accepted
  /\ pc \in {"write2", "verify"} => ram.val \in accepted

\* While nobody disturbs the updater, the hash it compares with in idle is that
\* of what a boot would bring back, and on its way there it holds just that.
StoredSound ==
  calm =>
    /\ st \in {"idle", "load", "save"} => OneGood
    /\ st = "init" => ~needSave /\ ~needLoad
    /\ st = "init" /\ ev = "updated" => OneGood /\ ~loadErr /\ initialized
    /\ st = "save" /\ ev = "saved" => ~needSave
    /\ st = "load" /\ needSave => oldHash = NewHash(BootImage)
    /\ st = "load" /\ ev = "updated" => ~loadErr /\ ~needLoad
    /\ st \in {"init", "load"} /\ ev = "updated" => NewHash(ram) = NewHash(BootImage)
    /\ st = "idle" => oldHash = NewHash(BootImage)
=============================================================================
