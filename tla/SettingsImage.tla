---------------------------- MODULE SettingsImage ----------------------------
(***************************************************************************)
(* The settings image of device_settings/g_settings.c: a header (start     *)
(* code, device type, settings and firmware version), the application's    *)
(* settings_t and a CRC16 over both.  The header is abstracted to one      *)
(* version, the settings to a value, the CRC to the content it was         *)
(* computed over.                                                          *)
(***************************************************************************)
EXTENDS Naturals

CONSTANTS
  Vals,       \* contents of settings_t
  Valid,      \* the contents the application's settings_check accepts
  Default,    \* the content settings_reset writes
  Zero,       \* the all-zero content the firmware image starts with
  Vers,       \* header versions that may be met in the storage
  Cur,        \* the header of the running firmware
  Repaired,   \* Repaired[ver][val]: what settings_repair makes of val
  HashPart,   \* HashPart[val]: the part of val the change hash covers
  NoCrc       \* the CRC field before anything computed it

ASSUME SettingsAssumption ==
  /\ Valid \subseteq Vals
  /\ Default \in Valid
  /\ Zero \in Vals
  /\ Cur \in Vers
  /\ Repaired \in [Vers -> [Vals -> Vals]]
  /\ NoCrc \notin Vers \X Vals

\* device_settings_storage_t
Image == [ver: Vers, val: Vals, crc: (Vers \X Vals) \cup {NoCrc}]

\* device_settings_storage as the firmware image initialises it
FactoryImage == [ver |-> Cur, val |-> Zero, crc |-> NoCrc]

\* Mistake: the CRC covers the settings without the header.
CrcOfSettings(img) == <<img.val>>

\* _get_settings_hash: over the header and the settings
Crc(img) == <<img.ver, img.val>>

\* _g_settings_check
GCheck(img) ==
  /\ img.ver = Cur
  /\ img.crc = Crc(img)
  /\ img.val \in Valid

\* _g_settings_repair: the header is renewed only when settings_repair
\* produced something settings_check accepts; the CRC is never renewed.
GRepair(img) ==
  LET v == Repaired[img.ver][img.val]
  IN  IF v \in Valid THEN [img EXCEPT !.val = v, !.ver = Cur]
                     ELSE [img EXCEPT !.val = Default]

\* Mistake: the CRC is not renewed.
BeforeSaveNoCrc(img) == img

\* _g_settings_before_save, with the weak (empty) settings_before_save
BeforeSave(img) == [img EXCEPT !.crc = Crc(img)]

\* SettingsDB::check repairs the buffer it is given before it gives up on it.
DbChecked(img) == IF GCheck(img) THEN img ELSE GRepair(img)

\* _get_new_hash takes sizeof(settings_t) bytes from the start of the header,
\* so the last sizeof(header) bytes of the settings are not part of it.
NewHash(img) == <<img.ver, HashPart[img.val]>>
Hashes == Vers \X {HashPart[v] : v \in Vals}
=============================================================================
