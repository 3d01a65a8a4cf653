------------------------------ MODULE Vb1Boot ------------------------------
(***************************************************************************
 The first half of a vboot1 boot, over many boots: VbInit()
 (vboot_api_init.c), VbSelectFirmware() (vboot_api_firmware.c) and
 LoadFirmware() (vboot_firmware.c) over NV storage (vboot_nvstorage.c), its
 backup in the TPM (vboot_nvstorage_rollback.c) and the firmware version in
 the TPM.  The operating system reaches NV storage through crossystem.c.

 NV storage and the TPM are written at different times, so a step ends where
 one of them is written; power may fail between steps, and NV storage may
 lose its contents while the machine is off.  The inside of
 RollbackFirmwareSetup() is the subject of RollbackIndex.
 ***************************************************************************)
EXTENDS Integers, Sequences, FiniteSetsExt

CONSTANTS Boards,      \* machines: sets of the flags below
          Qualities,   \* firmware images the updater may install
          Versions,    \* and their versions
          Width,       \* number of values of a 16-bit half of a version
          MaxTryB,     \* largest try count the updater sets
          MaxFaults, MaxUpdates

Slots == {"A", "B"}

(* Calling firmware and GBB: virt: VIRTUAL_DEV_SWITCH; ro_normal:
   RO_NORMAL_SUPPORT; oprom: OPROM_MATTERS; before: BEFORE_OPROM_LOAD; nofail:
   NOFAIL_BOOT; no_rollback: GBB_FLAG_DISABLE_FW_ROLLBACK_CHECK; reports: a hung
   boot is reported as PREVIOUS_BOOT_FAIL.  updater, settings, default and
   sleeps say which parts of the operating system are active. *)
BoardFlags == {"virt", "ro_normal", "oprom", "before", "nofail", "no_rollback", "reports",
               "updater", "settings", "default", "sleeps"}

(* What is wrong with an image, if anything.  "hangs" verifies and then never
   gets to a kernel; "dev_key" and "no_rec0" name key block flags. *)
AllQualities == {"good", "hangs", "dev_key", "no_rec0", "bad_keyblock", "bad_data_key",
                 "bad_preamble", "unreadable", "wrong_size", "bad_body", "ro_normal",
                 "big_subkey", "ro_big_subkey"}

ASSUME Vb1Assumption ==
    /\ Boards \subseteq SUBSET BoardFlags /\ Qualities \subseteq AllQualities
    /\ Width \in Nat \ {0} /\ Versions \subseteq 0..((Width + 1) * (Width + 1) - 1)
    /\ MaxTryB \in 1..15 /\ MaxFaults \in Nat /\ MaxUpdates \in Nat

VARIABLES board,
          nv,       \* NV storage
          tpm,      \* firmware version, virtual dev switch, NV backup, locks
          flash,    \* the image in each slot
          ap,       \* this boot: VbNvContext, VbSharedData, what the call returns
          pc,
          user,     \* the hardware dev switch; did the last boot hang, and is it reported?
          faults,   \* history: what failed
          updates,
          hist      \* history: dev flags set since a normal boot, cause of recovery, S3 resumes

vars == <<board, nv, tpm, flash, ap, pc, user, faults, updates, hist>>

(* Recovery reasons; 16 to 31 are the checks of LoadFirmware(). *)
NotRequested == 0
RoManual     == 2
CheckMin     == 16
RoFirmware   == 32
RoTpmReboot  == 33
Unspecified  == 63
TpmSetup     == 80
TpmWrite     == 81
TpmLock      == 82
TpmBootMode  == 83
OsRequest    == 193

----------------------------------------------------------------------------
(* NV storage.  usb stands for the dev_boot_* flags, def for dev_default_boot,
   loc for the fields that are backed up and never cleared. *)
NvDefaults ==
    [recovery |-> NotRequested, try_b |-> 0, debug |-> FALSE, usb |-> FALSE, def |-> FALSE,
     loc |-> FALSE, req |-> FALSE, oprom |-> FALSE, lost |-> FALSE]

(* VbNvSetup(): a bad CRC means defaults. *)
VbNvSetup(n) == IF n.lost THEN NvDefaults ELSE n

BadBackup == [bad |-> TRUE, usb |-> FALSE, def |-> FALSE, loc |-> FALSE]
Backup(n) == [bad |-> FALSE, usb |-> n.usb, def |-> n.def, loc |-> n.loc]

RestoreNvFromBackup(n) ==
    IF tpm.backup.bad THEN n
    ELSE [n EXCEPT !.usb = tpm.backup.usb, !.def = tpm.backup.def, !.loc = tpm.backup.loc]

IdleAp == [vnc |-> NvDefaults, lost |-> FALSE, reason |-> NotRequested, s3 |-> FALSE,
           hw |-> FALSE, dev |-> FALSE, loaded |-> FALSE, safety |-> FALSE, retval |-> "ok",
           version |-> 0, start |-> 0, index |-> "none", readonly |-> FALSE]

Image(q, v) == [q |-> q, ver |-> v]
GoodVersion == CHOOSE v \in Versions : TRUE

Init ==
    /\ board \in Boards
    /\ nv = NvDefaults
    /\ tpm = [version |-> 0, dev |-> FALSE, backup |-> BadBackup, pp_locked |-> FALSE]
    /\ flash = [s \in Slots |-> Image("good", GoodVersion)]
    /\ ap = IdleAp /\ pc = "off" /\ user = [hw |-> FALSE, failed |-> FALSE]
    /\ faults = <<>> /\ updates = 0
    /\ hist = [set |-> {}, cause |-> FALSE, slept |-> FALSE]

(* One failure goes with updates or S3 resumes, MaxFaults with everything else. *)
FaultBound   == IF board \cap {"updater", "sleeps"} # {} THEN Min({1, MaxFaults}) ELSE MaxFaults
Fails(what)  == Len(faults) < FaultBound /\ faults' = Append(faults, what)
NoFault      == UNCHANGED faults
Failed(what) == \E i \in 1..Len(faults) : faults[i] = what
Recovering   == ap.reason # NotRequested

----------------------------------------------------------------------------
(* VbInit() *)

(* From the entry up to the TPM: S3 debug reset, recovery request, previous
   failure, recovery button. *)
TakeRequest(n, s3) == IF s3 THEN n ELSE [n EXCEPT !.recovery = NotRequested]

VbInit ==
    /\ pc \in {"off", "asleep"}
    /\ \E button \in BOOLEAN :
        LET read   == VbNvSetup(nv)
            s3     == pc = "asleep" /\ ~read.debug
            asked  == IF s3 THEN NotRequested ELSE read.recovery
            reason == IF button THEN RoManual
                      ELSE IF asked = NotRequested /\ user.failed THEN RoFirmware ELSE asked
            vnc    == [TakeRequest(read, s3) EXCEPT !.debug = FALSE]
        IN /\ ap' = [IdleAp EXCEPT !.vnc = vnc, !.lost = nv.lost, !.reason = reason, !.s3 = s3,
                                   !.hw = user.hw, !.loaded = "oprom" \in board /\ read.oprom]
           /\ hist' = [hist EXCEPT !.cause = @ \/ button \/ user.failed]
    /\ pc' = "tpm_setup"
    /\ tpm' = [tpm EXCEPT !.pp_locked = @ /\ pc = "asleep"]
    /\ user' = [user EXCEPT !.failed = FALSE]
    /\ NoFault /\ UNCHANGED <<board, nv, flash, updates>>

Step(next, a) ==
    /\ pc' = next /\ ap' = a
    /\ UNCHANGED <<board, nv, tpm, flash, user, updates, hist>>

(* VbInit_exit: is a backup wanted? *)
InitExit(a) == IF a.vnc.req \/ a.safety THEN "backup" ELSE "save_init"

Leave(a, rv, vnc) == LET b == [a EXCEPT !.retval = rv, !.vnc = vnc] IN Step(InitExit(b), b)

Request(vnc, reason) == [vnc EXCEPT !.recovery = reason]

(* RollbackS3Resume() or RollbackFirmwareSetup().  Recovery mode goes on when
   the TPM does not, and asks for at most one reboot. *)
RollbackSetup ==
    /\ pc = "tpm_setup"
    /\ \/ /\ NoFault
          /\ Step("flags", IF ap.s3 THEN ap
                           ELSE [ap EXCEPT !.version = tpm.version, !.start = tpm.version,
                                           !.dev = ap.hw \/ ("virt" \in board /\ tpm.dev)])
       \/ /\ ap.s3 /\ Fails("s3_resume") /\ Step("flags", [ap EXCEPT !.retval = "s3_resume"])
       \/ /\ ~ap.s3 /\ Fails("must_reboot")
          /\ IF ~Recovering THEN Leave(ap, "tpm_reboot", ap.vnc)
             ELSE IF ap.reason # RoTpmReboot
             THEN Leave(ap, "tpm_reboot", Request(ap.vnc, RoTpmReboot))
             ELSE Step("flags", [ap EXCEPT !.dev = ap.hw])
       \/ /\ ~ap.s3 /\ Fails("tpm_setup")
          /\ IF ~Recovering THEN Leave(ap, "tpm_setup", Request(ap.vnc, TpmSetup))
             ELSE Step("flags", [ap EXCEPT !.dev = ap.hw])

(* The option ROM is wanted in developer mode and not in normal mode. *)
OpromWrong(a) == "oprom" \in board /\ a.loaded # a.dev

Oprom(a) ==
    IF ~OpromWrong(a) THEN a
    ELSE [a EXCEPT !.vnc.oprom = a.dev,
                   !.retval = IF "before" \in board THEN @ ELSE "oprom_mismatch"]

ClearDevFlags(n) == [n EXCEPT !.usb = FALSE, !.def = FALSE]

Changed(a, n) == a.lost \/ n # nv

(* Normal mode: the dev_boot_* flags go, in the backup as well. *)
NormalMode_NoBackup(a) == [a EXCEPT !.vnc = ClearDevFlags(@)]
NormalMode(a) ==
    LET n == ClearDevFlags(a.vnc) IN [a EXCEPT !.vnc = n, !.safety = Changed(a, n)]

SetFlags ==
    /\ pc = "flags"
    /\ \E restore \in BOOLEAN :
        LET a == IF ap.lost /\ restore
                 THEN [ap EXCEPT !.vnc = RestoreNvFromBackup(@)] ELSE ap
            b == IF Recovering THEN a ELSE IF a.dev THEN Oprom(a) ELSE Oprom(NormalMode(a))
        IN /\ IF restore THEN NoFault ELSE ap.lost /\ Fails("restore")
           /\ Step(InitExit(b), b)

(* SaveNvToBackup() *)
SaveNvToBackup ==
    /\ pc = "backup" /\ pc' = "save_init"
    /\ \/ Fails("backup") /\ UNCHANGED <<tpm, ap>>
       \/ /\ NoFault
          /\ LET done == Backup(ap.vnc) = tpm.backup \/ ~tpm.pp_locked
             IN /\ tpm' = IF done THEN [tpm EXCEPT !.backup = Backup(ap.vnc)] ELSE tpm
                /\ ap'  = IF done THEN [ap EXCEPT !.vnc.req = FALSE] ELSE ap
    /\ UNCHANGED <<board, nv, flash, user, updates, hist>>

(* VbNvTeardown() and VbExNvStorageWrite(); an error means a reboot, an S3
   resume goes back to the OS. *)
Normal == ~Recovering /\ ~ap.dev /\ ~ap.s3

SaveInit ==
    /\ pc = "save_init" /\ NoFault
    /\ nv' = ap.vnc
    /\ pc' = IF ap.retval # "ok" THEN "off" ELSE IF ap.s3 /\ ~Recovering THEN "os" ELSE "select"
    /\ ap' = IF ap.retval # "ok" THEN IdleAp ELSE ap
    /\ hist' = [set   |-> IF Normal /\ ap.retval \in {"ok", "oprom_mismatch"} THEN {} ELSE hist.set,
                cause |-> hist.cause \/ ap.retval = "tpm_setup",
                slept |-> hist.slept \/ ap.s3]
    /\ UNCHANGED <<board, tpm, flash, user, updates>>

----------------------------------------------------------------------------
(* LoadFirmware() *)

KeyVersion(f)   == f.ver \div (Width + 1)
FwVersion(f)    == f.ver % (Width + 1)
CheckRollback   == "no_rollback" \notin board

(* key_version << 16 | firmware_version & 0xFFFF, in 32 bits *)
Combined(f) == (KeyVersion(f) % Width) * Width + (FwVersion(f) % Width)

(* The header checks, by the value they leave in check_fw_x_result. *)
HeaderFails(f, version, check) ==
    CASE check = 1 -> f.q = "dev_key" /\ ~ap.dev
      [] check = 2 -> f.q = "no_rec0"
      [] check = 3 -> f.q = "bad_keyblock"
      [] check = 4 -> /\ CheckRollback
                      /\ \/ KeyVersion(f) < version \div Width
                         \/ KeyVersion(f) > Width - 1
      [] check = 5 -> f.q = "bad_data_key"
      [] check = 6 -> f.q = "bad_preamble"
      [] check = 7 -> CheckRollback /\ Combined(f) < version

HeaderValid == 8
Valid       == 12

HeaderCheck(f, version) ==
    LET bad == {c \in 1..7 : HeaderFails(f, version, c)} IN IF bad = {} THEN HeaderValid ELSE Min(bad)

UsesRo(f) == f.q \in {"ro_normal", "ro_big_subkey"}

BodyCheck(f) ==
    CASE UsesRo(f)          -> IF "ro_normal" \in board THEN Valid ELSE 13
      [] f.q = "unreadable" -> 9
      [] f.q = "wrong_size" -> 10
      [] f.q = "bad_body"   -> 11
      [] OTHER              -> Valid

(* One turn of the loop.  The header of the second slot counts for the lowest
   version even when the first is going to boot. *)
Lowest_GoodOnly(a, f) == IF a.good = "none" THEN Min({a.lowest, Combined(f)}) ELSE a.lowest
Lowest(a, f) == Min({a.lowest, Combined(f)})

CheckSlot_HeaderOnly(a, s) ==
    LET h == HeaderCheck(flash[s], ap.version)
        b == [a EXCEPT !.check[s] = h]
    IN IF h # HeaderValid THEN b
       ELSE [b EXCEPT !.lowest = Lowest(a, flash[s]), !.good = IF @ = "none" THEN s ELSE @]
CheckSlot(a, s) ==
    LET f == flash[s]
        h == HeaderCheck(f, ap.version)
        b == [a EXCEPT !.check[s] = HeaderValid, !.lowest = Lowest(a, f)]
        c == [b EXCEPT !.check[s] = BodyCheck(f),
                       !.ro = @ \/ (UsesRo(f) /\ BodyCheck(f) = Valid)]
    IN IF h # HeaderValid THEN [a EXCEPT !.check[s] = h]
       ELSE IF a.good # "none" THEN b
       ELSE IF BodyCheck(f) # Valid \/ f.q \in {"big_subkey", "ro_big_subkey"} THEN c
       ELSE [c EXCEPT !.good = s]

NoVersion == Width * Width

(* Both slots, B first while it is on trial; a first slot with just the version
   of the TPM ends the search. *)
Search(try_b) ==
    LET first  == IF try_b > 0 THEN "B" ELSE "A"
        second == IF try_b > 0 THEN "A" ELSE "B"
        one == CheckSlot([good |-> "none", lowest |-> NoVersion, ro |-> FALSE,
                          check |-> [s \in Slots |-> 0]], first)
    IN IF one.good # "none" /\ Combined(flash[first]) = ap.version THEN one
       ELSE CheckSlot(one, second)

CountDown_Never(vnc) == vnc
CountDown(vnc) ==
    IF vnc.try_b > 0 /\ "nofail" \notin board THEN [vnc EXCEPT !.try_b = @ - 1] ELSE vnc

----------------------------------------------------------------------------
(* VbSelectFirmware() *)

NewVersion(found) == Max({ap.version, found.lowest})

LoadFirmware ==
    LET vnc   == CountDown(nv)
        found == Search(nv.try_b)
        worst == CheckMin + Max({found.check[s] : s \in Slots})
    IN IF found.good = "none"
       THEN Step("save_select",
                 [ap EXCEPT !.vnc = Request(vnc, worst), !.retval = "load_firmware"])
       ELSE Step(IF NewVersion(found) > ap.start THEN "write_version" ELSE "lock",
                 [ap EXCEPT !.vnc = Request(vnc, NotRequested), !.index = found.good,
                            !.readonly = found.ro, !.version = NewVersion(found)])

VbSelectFirmware ==
    /\ pc = "select"
    /\ \/ Recovering /\ NoFault /\ Step("boot_mode", [ap EXCEPT !.vnc = nv])
       \/ ~Recovering /\ NoFault /\ LoadFirmware
       \/ /\ ~Recovering /\ Fails("gbb_header")
          /\ Step("save_select", [ap EXCEPT !.vnc = nv, !.retval = "invalid_gbb"])
       \/ /\ ~Recovering /\ Fails("root_key")
          /\ Step("save_select", [ap EXCEPT !.vnc = Request(nv, Unspecified),
                                            !.retval = "invalid_gbb"])

SelectFails(reason, rv) ==
    Step("save_select", [ap EXCEPT !.vnc = Request(@, reason), !.retval = rv])

RollbackFirmwareWrite ==
    /\ pc = "write_version"
    /\ \/ Fails("write") /\ SelectFails(TpmWrite, "tpm_write")
       \/ /\ NoFault /\ tpm' = [tpm EXCEPT !.version = ap.version]
          /\ pc' = "lock" /\ UNCHANGED <<board, nv, flash, ap, user, updates, hist>>

RollbackFirmwareLock ==
    /\ pc = "lock"
    /\ \/ Fails("lock") /\ SelectFails(TpmLock, "tpm_lock")
       \/ NoFault /\ Step("boot_mode", ap)

SetTPMBootModeState ==
    /\ pc = "boot_mode"
    /\ \/ NoFault /\ Step("save_select", ap)
       \/ /\ Fails("boot_mode")
          /\ IF Recovering THEN Step("save_select", ap)
             ELSE SelectFails(TpmBootMode, "tpm_boot_mode")

SaveSelect ==
    /\ pc = "save_select" /\ NoFault
    /\ nv' = ap.vnc
    /\ pc' = IF ap.retval # "ok" THEN "off" ELSE IF Recovering THEN "recovery" ELSE "firmware"
    /\ ap' = IF ap.retval # "ok" THEN IdleAp ELSE ap
    /\ hist' = [hist EXCEPT !.cause = @ \/ ap.retval # "ok"]
    /\ UNCHANGED <<board, tpm, flash, user, updates>>

----------------------------------------------------------------------------
(* The rest of the machine *)

(* The selected firmware finds a kernel and locks the TPM, or hangs. *)
StartOs ==
    /\ pc = "firmware" /\ NoFault
    /\ IF ~ap.readonly /\ flash[ap.index].q = "hangs"
       THEN pc' = "hung" /\ UNCHANGED <<tpm, ap, hist>>
       ELSE /\ pc' = "os" /\ tpm' = [tpm EXCEPT !.pp_locked = TRUE]
            /\ ap' = [IdleAp EXCEPT !.index = ap.index]
            /\ hist' = [hist EXCEPT !.cause = FALSE]
    /\ UNCHANGED <<board, nv, flash, user, updates>>

PowerCycle ==
    /\ pc = "hung" /\ pc' = "off" /\ ap' = IdleAp
    /\ user' = [user EXCEPT !.failed = "reports" \in board]
    /\ NoFault /\ UNCHANGED <<board, nv, tpm, flash, updates, hist>>

(* The user leaves the recovery screen, perhaps by turning developer mode on. *)
LeaveRecovery ==
    /\ pc = "recovery" /\ pc' = "off" /\ ap' = IdleAp
    /\ tpm' \in {tpm, [tpm EXCEPT !.dev = "virt" \in board]}
    /\ hist' = [hist EXCEPT !.cause = FALSE]
    /\ NoFault /\ UNCHANGED <<board, nv, flash, user, updates>>

PowerFail ==
    /\ pc \notin {"off", "hung"} /\ Fails(IF pc = "os_request" THEN "os_request" ELSE "power")
    /\ pc' = "off" /\ ap' = IdleAp
    /\ UNCHANGED <<board, nv, tpm, flash, user, updates, hist>>

NvLoses ==
    /\ pc = "off" /\ Fails("nv") /\ nv' = [NvDefaults EXCEPT !.lost = TRUE]
    /\ UNCHANGED <<board, tpm, flash, ap, pc, user, updates, hist>>

(* VbSetNvStorage_WithBackup(): the value and the request for a backup are two
   writes of NV storage. *)
OsSets ==
    /\ pc = "os" /\ "settings" \in board /\ pc' = "os_request"
    /\ \/ nv' = [nv EXCEPT !.loc = ~@] /\ UNCHANGED hist
       \/ /\ nv' = [nv EXCEPT !.usb = ~@]
          /\ hist' = [hist EXCEPT !.set = @ \cup {"usb"}]
    /\ NoFault /\ UNCHANGED <<board, tpm, flash, ap, user, updates>>

OsRequestsBackup ==
    /\ pc = "os_request" /\ pc' = "os" /\ nv' = [nv EXCEPT !.req = TRUE]
    /\ NoFault /\ UNCHANGED <<board, tpm, flash, ap, user, updates, hist>>

(* dev_default_boot is written without a request. *)
OsSetsDefaultBoot ==
    /\ pc = "os" /\ "default" \in board /\ nv' = [nv EXCEPT !.def = ~@]
    /\ hist' = [hist EXCEPT !.set = @ \cup {"def"}]
    /\ NoFault /\ UNCHANGED <<board, tpm, flash, ap, pc, user, updates>>

OsRequestsRecovery ==
    /\ pc = "os" /\ "updater" \in board /\ nv' = [nv EXCEPT !.recovery = OsRequest]
    /\ hist' = [hist EXCEPT !.cause = TRUE]
    /\ NoFault /\ UNCHANGED <<board, tpm, flash, ap, pc, user, updates>>

OsRequestsDebugReset ==
    /\ pc = "os" /\ "sleeps" \in board /\ nv' = [nv EXCEPT !.debug = TRUE]
    /\ NoFault /\ UNCHANGED <<board, tpm, flash, ap, pc, user, updates, hist>>

(* The updater writes the slot that is not running and puts B on trial; an
   image that got as far as this is copied from B to A. *)
OsUpdates ==
    /\ pc = "os" /\ "updater" \in board /\ updates < MaxUpdates /\ updates' = updates + 1
    /\ \/ /\ ap.index = "A" /\ nv' = [nv EXCEPT !.try_b = MaxTryB]
          /\ \E q \in Qualities, v \in Versions : flash' = [flash EXCEPT !["B"] = Image(q, v)]
       \/ ap.index = "B" /\ flash' = [flash EXCEPT !["A"] = flash["B"]] /\ UNCHANGED nv
    /\ NoFault /\ UNCHANGED <<board, tpm, ap, pc, user, hist>>

OsStops ==
    /\ pc = "os" /\ NoFault
    /\ \/ /\ pc' = "off" /\ ap' = IdleAp
          /\ \E hw \in BOOLEAN : user' = [user EXCEPT !.hw = hw]
       \/ pc' = "asleep" /\ "sleeps" \in board /\ UNCHANGED <<ap, user>>
    /\ UNCHANGED <<board, nv, tpm, flash, updates, hist>>

Firmware ==
    \/ VbInit \/ RollbackSetup \/ SetFlags \/ SaveNvToBackup \/ SaveInit \/ VbSelectFirmware
    \/ RollbackFirmwareWrite \/ RollbackFirmwareLock \/ SetTPMBootModeState \/ SaveSelect
    \/ StartOs

Os == OsSets \/ OsRequestsBackup \/ OsSetsDefaultBoot \/ OsRequestsRecovery
      \/ OsRequestsDebugReset \/ OsUpdates \/ OsStops

Next == Firmware \/ PowerCycle \/ LeaveRecovery \/ PowerFail \/ NvLoses \/ Os

Spec == Init /\ [][Next]_vars
FairSpec == Spec /\ WF_vars(Firmware) /\ WF_vars(PowerCycle)

----------------------------------------------------------------------------
TypeOK ==
    /\ board \in Boards
    /\ nv.try_b \in 0..MaxTryB /\ nv.recovery \in 0..255
    /\ tpm.version \in 0..(Width * Width - 1)
    /\ flash \in [Slots -> [q : AllQualities, ver : Versions]]
    /\ ap.version \in 0..(Width * Width - 1) /\ ap.index \in Slots \cup {"none"}
    /\ updates \in 0..MaxUpdates /\ Len(faults) <= MaxFaults

(* The firmware VbSelectFirmware() hands over to has passed every check, is not
   older than the TPM's version, which is in step with it, and takes the
   read-only path exactly when its preamble says so.  (The flag sticks when a
   slot with that preamble is dropped for its kernel subkey.) *)
BootsVerified ==
    pc = "firmware" =>
        LET f == flash[ap.index]
        IN /\ HeaderCheck(f, tpm.version) = HeaderValid /\ BodyCheck(f) = Valid
           /\ f.q \notin {"big_subkey", "ro_big_subkey"}
           /\ tpm.version = ap.version
           /\ ap.readonly = UsesRo(f) \/ \E s \in Slots : flash[s].q = "ro_big_subkey"

(* LoadFirmware() raises the TPM's version only as far as both slots allow: a
   slot with a valid header before still has one afterwards, so an update that
   turns out bad can fall back. *)
NeverLocksOut ==
    [][tpm'.version # tpm.version =>
        /\ tpm'.version > tpm.version
        /\ \A s \in Slots : HeaderCheck(flash[s], tpm.version) = HeaderValid
                             => HeaderCheck(flash[s], tpm'.version) = HeaderValid]_vars

(* Recovery mode has a cause since the last time a screen or an OS came up: the
   request is consumed by the boot that honours it, over all reboots. *)
RecoveryHasCause == pc = "recovery" => hist.cause

(* Whatever comes up was entitled to: firmware by its signatures, recovery by
   a request or a failure. *)
OutcomeJustified == BootsVerified /\ RecoveryHasCause

(* Leaving developer mode forgets the dev_boot_* flags, even when NV storage
   loses its contents later: a developer boot only sees what an OS set since
   the last normal boot.  What breaks this is a failed write of the backup, a
   power failure between the two writes of crossystem, a VbInit() that left
   early with NV storage lost, or an S3 resume (its backup meets a locked TPM). *)
DevFlagsForgotten ==
    pc = "select" /\ ap.dev /\ nv.usb =>
        \/ "usb" \in hist.set \/ hist.slept
        \/ \E what \in {"backup", "os_request", "must_reboot", "tpm_setup"} : Failed(what)

(* backup_nvram_request is a dirty bit: without it the backup in the TPM agrees
   with NV storage, over power failures in VbInit() and lost NV storage. *)
BackupCurrent ==
    pc \in {"off", "asleep", "firmware", "os", "recovery"} /\ ~nv.lost /\ ~nv.req
    /\ (\A what \in {"os_request", "restore", "must_reboot", "tpm_setup"} : ~Failed(what))
        => tpm.backup.loc = nv.loc

(* What the backup in the TPM is for: it follows NV storage, and brings nothing
   back that was cleared. *)
BackupKept == BackupCurrent /\ DevFlagsForgotten

(* While slot A is sound, bad updates, hangs, failures and the reboots for the
   TPM or the option ROM come to an end in an OS or the recovery screen.  (With
   NOFAIL_BOOT the trial of B is never counted down.) *)
Settles ==
    []<>(pc \in {"os", "os_request", "recovery"} \/ "nofail" \in board \/ flash["A"].q # "good")
=============================================================================
