------------------------------ MODULE SettingsDB ------------------------------
(***************************************************************************)
(* device_settings/SettingsDB.cpp over StorageAT: two records hold the     *)
(* settings image, load() takes the first one that checks, save() rewrites *)
(* the first, then the second, then loads again to verify.                 *)
(***************************************************************************)
EXTENDS SettingsImage

CONSTANTS
  Absent,     \* no record with this prefix and id
  Torn,       \* a record whose rewrite was cut short
  NoImage,    \* load() found nothing
  ReadFaults  \* may find() and load() of a sound record fail?

ASSUME StoreAssumption ==
  /\ ReadFaults \in BOOLEAN
  /\ Absent # Torn
  /\ {Absent, Torn, NoImage} \cap Image = {}

VARIABLE flash   \* flash[i]: the record with prefix "STG" and id i

Copies == {1, 2}
Record == Image \cup {Absent, Torn}
FlashType == flash \in [Copies -> Record]

(***************************************************************************)
(* What find(FIND_MODE_EQUAL) followed by load() of copy i may answer.  A  *)
(* torn record is either not found or fails StorageAT's own checksum.      *)
(***************************************************************************)
Answers == {"data", "find_err", "load_err"}
ReadAnswers(i) ==
  {a \in Answers :
     \/ flash[i] \in Image /\ (a = "data" \/ ReadFaults)
     \/ flash[i] = Torn /\ a # "data"
     \/ flash[i] = Absent /\ (a = "find_err" \/ (a = "load_err" /\ ReadFaults))}

\* Copy i holds settings that load() can bring back.
GoodCopy(i) == flash[i] \in Image /\ GCheck(DbChecked(flash[i]))
Usable(i, answer) == answer = "data" /\ GoodCopy(i)

\* Mistake: the second copy is tried first.
LoadSecondFirst(a) ==
  IF Usable(2, a[2]) THEN DbChecked(flash[2])
  ELSE IF Usable(1, a[1]) THEN DbChecked(flash[1])
  ELSE NoImage

\* SettingsDB::load: the image copied to RAM, or NoImage for G_SETTINGS_ERROR
LoadResult(a) ==
  IF Usable(1, a[1]) THEN DbChecked(flash[1])
  ELSE IF Usable(2, a[2]) THEN DbChecked(flash[2])
  ELSE NoImage

\* SettingsDB::needSave after load(): some record was not even found
NeedResave(a) == \E i \in Copies : a[i] = "find_err"

AnswerPairs == {a \in [Copies -> Answers] : \A i \in Copies : a[i] \in ReadAnswers(i)}

\* save() looks for copy i's own record, without one for an empty place, and without that
\* for the next record of any name; it gives up when all three are missing or one of the
\* searches fails.  A record that is there is found, unless a read fails.  (Which address
\* StorageAT answers with is its own affair: here it is never one of the other copy.)
MayFindNoAddress(i) == flash[i] \notin Image \/ ReadFaults

\* The record after a rewrite that failed or was cut short by a reset.
AfterFailedRewrite(i, img) == {flash[i], Torn, img}

OneGood == \E i \in Copies : GoodCopy(i)

\* What a boot without read errors restores.
BootImage ==
  IF GoodCopy(1) THEN DbChecked(flash[1])
  ELSE IF GoodCopy(2) THEN DbChecked(flash[2])
  ELSE NoImage
=============================================================================
