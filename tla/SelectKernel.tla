---------------------------- MODULE SelectKernel ----------------------------
(***************************************************************************
 VbSelectAndLoadKernel(): the second half of a vboot1 boot, in which a user
 may be present.  The normal path with its rule for a firmware B on trial,
 the developer screen with its countdown, the recovery screens, the
 confirmation dialogue behind both, the keys that change the language, and
 fastboot's entry points (vboot_api_kernel.c, vboot_audio.c, vboot_display.c).

 An action is one call or one turn of a polling loop, with what the polled
 devices answer chosen by \E.  Power may fail between any two.  VbInit() is
 reduced to what it hands over (Vb1Boot has all of it), EC software sync to
 its outcome (EcSync), LoadKernel() to its result for a disk (LoadKernel).

 A board is the set of its hardware and GBB flags.  Firmware A is signed to
 load kernel 1, firmware B to load kernel 2, until the OS keeps B.
 ***************************************************************************)
EXTENDS Integers, FiniteSets, FiniteSetsExt

CONSTANTS
    Boards,      \* the boards of a run, each a set of flags
    Locales,     \* number of languages of the GBB
    NoteCount, NoteLength,   \* the developer screen's tune
    MaxInputs,   \* what users do before they let the machine be
    MaxFaults,   \* calls that fail
    MaxTryB      \* boots given to a firmware on trial

VARIABLES
    board,
    nv,          \* NV storage
    vnc,         \* the firmware's copy of it, written back by VbNvCommit()
    tpm,         \* kernel version, virtual developer switch and by what means it
                 \* was turned on, physical presence lock
    disk,        \* kernels on the fixed disk, firmware the machine falls back to
    usb,         \* what is plugged in
    shared,      \* VbSharedData and the version LoadKernel() found
    ui,          \* screen, dialogue, recovery button, turn of the inner loop
    audio,       \* context of the tune
    pc, retval, os,
    inputs, faults

vars == <<board, nv, vnc, tpm, disk, usb, shared, ui, audio, pc, retval, os, inputs, faults>>
world == <<board, disk, usb>>

NoRequest == "NOT_REQUESTED"
Has(flag) == flag \in board

NvInit(b) == [recovery |-> NoRequest, subcode |-> NoRequest, disable_dev |-> FALSE,
              usb |-> "usb" \in b, legacy |-> "legacy" \in b, cap |-> "cap" \in b,
              default |-> IF "default_usb" \in b THEN "USB"
                          ELSE IF "default_legacy" \in b THEN "LEGACY" ELSE "DISK",
              locale |-> Locales, backup |-> FALSE, tryb |-> 0]
Nobody   == [kind |-> "none", ver |-> 0]
BlankUi  == [screen |-> "BLANK", ask |-> "none", button |-> FALSE, turn |-> 0]
Silent   == [now |-> 0, until |-> 0, next |-> 0, held |-> FALSE, freed |-> FALSE]
NoShared == [reason |-> NoRequest, dev |-> FALSE, rec |-> FALSE, tried |-> FALSE, start |-> 0, ver |-> 0]

Init ==
    /\ board \in Boards
    /\ nv = NvInit(board) /\ vnc = nv
    /\ tpm = [ver |-> 1, dev |-> "dev" \in board, by |-> "maker", locked |-> FALSE]
    /\ disk = [kernels |-> {1}, fw |-> 1] /\ usb = "none"
    /\ shared = NoShared /\ ui = BlankUi /\ audio = Silent
    /\ pc = "off" /\ retval = "SUCCESS" /\ os = Nobody
    /\ inputs = 0 /\ faults = 0

Ok     == UNCHANGED faults
Fails  == faults < MaxFaults /\ faults' = faults + 1
User   == inputs < MaxInputs /\ inputs' = inputs + 1
NoUser == UNCHANGED inputs

----------------------------------------------------------------------------
(* A reset, with what VbInit() and VbSelectFirmware() hand over. *)
CountDown_Never(n) == n
CountDown(n) == [n EXCEPT !.tryb = IF @ > 0 THEN @ - 1 ELSE 0]

VbInit ==
    /\ pc = "off" /\ pc' = "start"
    /\ \E rec \in BOOLEAN :
        LET off == nv.disable_dev
            dev == \/ Has("hw_dev") \/ Has("force_dev")
                   \/ Has("virt") /\ tpm.dev /\ ~off
            reason == IF rec THEN "RO_MANUAL" ELSE nv.recovery
            n == [nv EXCEPT !.recovery = NoRequest, !.disable_dev = @ /\ ~off]
        IN /\ IF rec THEN User ELSE NoUser
           /\ tpm' = [tpm EXCEPT !.locked = FALSE, !.dev = @ /\ ~off]
           /\ shared' = [NoShared EXCEPT !.reason = reason, !.dev = dev, !.rec = rec,
                                         !.tried = reason = NoRequest /\ nv.tryb > 0]
           /\ nv' = IF reason # NoRequest THEN n
                    ELSE IF dev THEN CountDown(n)
                    ELSE [CountDown(n) EXCEPT !.usb = FALSE, !.legacy = FALSE,
                                              !.cap = FALSE, !.default = "DISK"]
    /\ ui' = BlankUi /\ audio' = Silent /\ retval' = "SUCCESS" /\ os' = Nobody
    /\ Ok /\ UNCHANGED <<world, vnc>>

----------------------------------------------------------------------------
(* VbSelectAndLoadKernel() up to the choice of the boot path *)
Request(reason) == [vnc EXCEPT !.recovery = reason]
Leave(r) == pc' = "exit" /\ retval' = r

Recovering == shared.reason # NoRequest

Path == IF Recovering THEN "recovery" ELSE IF shared.dev THEN "developer" ELSE "normal"

ReadNv ==
    /\ pc = "start" /\ vnc' = nv
    /\ \/ Ok /\ pc' = "kernel_read" /\ UNCHANGED retval
       \/ Fails /\ \E r \in {"INVALID_GBB", "EC_REBOOT_REQUIRED"} : Leave(r)
    /\ NoUser /\ UNCHANGED <<world, nv, tpm, shared, ui, audio, os>>

RollbackKernelRead ==
    /\ pc = "kernel_read"
    /\ \/ /\ Ok /\ pc' = Path
          /\ shared' = [shared EXCEPT !.start = tpm.ver, !.ver = tpm.ver]
          /\ UNCHANGED <<vnc, retval>>
       \/ /\ Fails /\ UNCHANGED shared
          /\ IF Recovering THEN pc' = Path /\ UNCHANGED <<vnc, retval>>
             ELSE Leave("TPM_READ_KERNEL") /\ vnc' = Request("RW_TPM_R_ERROR")
    /\ NoUser /\ UNCHANGED <<world, nv, tpm, ui, audio, os>>

----------------------------------------------------------------------------
(* VbTryLoadKernel(): result, recovery request, version for the TPM.
   Developer mode takes any kernel, normal mode the ones its firmware is
   signed to load and the TPM's version admits. *)
Firmware == IF shared.tried THEN 2 ELSE disk.fw
Loadable == IF shared.dev THEN disk.kernels
            ELSE {k \in disk.kernels : k = Firmware /\ k >= shared.start}

Result(r, req, ver) == [ret |-> r, req |-> req, ver |-> ver]
Missing == Result("NO_DISK_FOUND", "RW_NO_DISK", shared.ver)
Invalid == Result("INVALID_KERNEL_FOUND", "RW_NO_KERNEL", shared.ver)

VbTryLoadKernel(kind, working) ==
    IF ~working \/ (kind = "REMOVABLE" /\ usb = "none") THEN Missing
    ELSE IF kind = "REMOVABLE"
    THEN IF usb = "good" THEN Result("SUCCESS", NoRequest, shared.ver) ELSE Invalid
    ELSE IF Loadable = {} THEN Invalid
    ELSE Result("SUCCESS", NoRequest, IF shared.dev THEN shared.ver ELSE Min(Loadable))

TriesDisk(working) == IF working THEN Ok ELSE Fails
Boots(kind) == [kind |-> kind, ver |-> IF kind = "fixed" /\ Loadable # {} THEN Max(Loadable) ELSE 0]

----------------------------------------------------------------------------
(* The normal path.  A firmware B on trial neither advances the TPM nor asks
   for recovery when every kernel is invalid. *)
OnTrial_Never == FALSE
OnTrial == shared.tried

NormalResult(found) ==
    IF OnTrial /\ found.ret = "INVALID_KERNEL_FOUND" THEN [found EXCEPT !.req = NoRequest] ELSE found

VbBootNormal ==
    /\ pc = "normal"
    /\ \E working \in BOOLEAN :
        LET found == NormalResult(VbTryLoadKernel("FIXED", working))
        IN /\ TriesDisk(working)
           /\ vnc' = Request(found.req)
           /\ shared' = [shared EXCEPT !.ver = found.ver]
           /\ retval' = found.ret
           /\ os' = IF found.ret = "SUCCESS" THEN Boots("fixed") ELSE Nobody
           /\ pc' = IF ~OnTrial /\ found.ver > shared.start THEN "advance"
                    ELSE IF found.ret = "SUCCESS" THEN "lock" ELSE "exit"
    /\ NoUser /\ UNCHANGED <<world, nv, tpm, ui, audio>>

RollbackKernelWrite ==
    /\ pc = "advance"
    /\ \/ /\ Ok /\ tpm' = [tpm EXCEPT !.ver = shared.ver]
          /\ pc' = IF retval = "SUCCESS" THEN "lock" ELSE "exit"
          /\ UNCHANGED <<vnc, retval>>
       \/ /\ Fails /\ UNCHANGED tpm
          /\ Leave("TPM_WRITE_KERNEL") /\ vnc' = Request("RW_TPM_W_ERROR")
    /\ NoUser /\ UNCHANGED <<world, nv, shared, ui, audio, os>>

(* The boot path found a kernel: RollbackKernelLock(), which recovery skips. *)
Lock ==
    /\ pc = "lock"
    /\ \/ /\ Ok /\ pc' = "exit"
          /\ tpm' = [tpm EXCEPT !.locked = @ \/ ~Recovering]
          /\ UNCHANGED <<vnc, retval>>
       \/ /\ Fails /\ ~Recovering /\ ~tpm.locked /\ UNCHANGED tpm
          /\ Leave("TPM_LOCK_KERNEL") /\ vnc' = Request("RW_TPM_L_ERROR")
    /\ NoUser /\ UNCHANGED <<world, nv, shared, ui, audio, os>>

----------------------------------------------------------------------------
(* Screens.  With bitmaps in the GBB, VbDisplayScreen() brings a language the
   GBB does not have back to 0, unless the screen is already up. *)
Clipped(v) == IF v.locale >= Locales THEN [v EXCEPT !.locale = 0, !.backup = TRUE] ELSE v

Drawn(v, screen, force) ==
    IF Has("bitmaps") /\ screen # "BLANK" /\ (force \/ ui.screen # screen) THEN Clipped(v) ELSE v

(* VbCheckDisplayKey(): arrows change the language, any key but the silent
   ones redraws.  Without bitmaps there is no count of languages. *)
NewLocale(key) ==
    IF ~Has("bitmaps") THEN 0
    ELSE IF key = "right" THEN IF vnc.locale < Locales - 1 THEN vnc.locale + 1 ELSE 0
    ELSE IF vnc.locale > 0 THEN vnc.locale - 1 ELSE Locales - 1

DisplayKeys == {"none", "tab", "left", "right"}
Pressed(key) == IF key = "none" THEN NoUser ELSE User

VbCheckDisplayKey(key) ==
    LET set == IF key \in {"left", "right"}
               THEN [vnc EXCEPT !.locale = NewLocale(key), !.backup = TRUE] ELSE vnc
    IN /\ Pressed(key)
       /\ vnc' = IF key = "none" THEN vnc ELSE Drawn(set, ui.screen, TRUE)
       /\ nv'  = IF key \in {"left", "right"} /\ Has("save_locale") THEN set ELSE nv

(* VbWantShutdown() *)
VbWantShutdown(button) == button = "power" \/ (button = "lid" /\ ~Has("ignore_lid"))
Shutdown == User /\ \E button \in {"power", "lid"} : VbWantShutdown(button)

(* VbBootDeveloper() or VbBootRecovery() returns r; the screen goes blank. *)
Return(r) ==
    /\ retval' = r /\ pc' = IF r = "SUCCESS" THEN "lock" ELSE "exit"
    /\ ui' = BlankUi

----------------------------------------------------------------------------
(* The developer screen and its tune (vboot_audio.c).  The clock starts with
   VbAudioOpen(); the note after the first `next' is due at `until'.
   VbAudioClose() leaves the pointer to notes it has freed: their lengths are
   then whatever the memory holds (any up to StaleLength). *)
StaleLength == NoteLength + 1
NoteLengths ==
    IF audio.freed THEN [1..NoteCount -> 0..StaleLength] ELSE [1..NoteCount -> {NoteLength}]

VbAudioOpen  == [now |-> 0, until |-> 0, next |-> 0, held |-> Has("custom_notes"), freed |-> FALSE]
VbAudioClose == [audio EXCEPT !.freed = audio.held]

VbBootDeveloper ==
    /\ pc = "developer" /\ pc' = "dev_loop"
    /\ vnc' = Drawn(vnc, "DEVELOPER_WARNING", FALSE)
    /\ ui' = [ui EXCEPT !.screen = "DEVELOPER_WARNING"]
    /\ audio' = VbAudioOpen
    /\ Ok /\ NoUser /\ UNCHANGED <<world, nv, tpm, shared, retval, os>>

Until(n, msec) == audio.until + SumFunctionOnSet(msec, (audio.next + 1)..n)
NextNote(now, msec) == Min({n \in audio.next..NoteCount : n = NoteCount \/ now < Until(n, msec)})

VbAudioLooping ==
    /\ pc = "dev_tick"
    /\ \E now \in audio.now..(audio.now + 2), msec \in NoteLengths :
        LET next == NextNote(now, msec)
        IN  /\ audio' = [audio EXCEPT !.now = now, !.next = next, !.until = Until(next, msec)]
            /\ pc' = IF now < audio'.until THEN "dev_loop" ELSE "default_legacy"
    /\ Ok /\ NoUser /\ UNCHANGED <<world, nv, vnc, tpm, shared, ui, retval, os>>

AllowUsb    == vnc.usb \/ Has("force_usb")
AllowLegacy == vnc.legacy \/ Has("force_legacy")
UseLegacy   == vnc.default = "LEGACY" \/ Has("use_legacy")
UseUsb      == vnc.default = "USB" /\ ~Has("use_legacy")

(* VbTryLegacy() comes back to next unless the legacy firmware starts. *)
VbTryLegacy_Unlocked(allowed, next) ==
    /\ UNCHANGED tpm
    /\ \/ Ok /\ pc' = next /\ UNCHANGED os
       \/ allowed /\ Ok /\ pc' = "os" /\ os' = Boots("legacy")
VbTryLegacy(allowed, next) ==
    \/ ~allowed /\ Ok /\ pc' = next /\ UNCHANGED <<tpm, os>>
    \/ allowed /\ ~tpm.locked /\ Fails /\ pc' = next /\ UNCHANGED <<tpm, os>>
    \/ /\ allowed /\ Ok /\ tpm' = [tpm EXCEPT !.locked = TRUE]
       /\ \/ pc' = next /\ UNCHANGED os
          \/ pc' = "os" /\ os' = Boots("legacy")

(* VbTryUsb() forgets the recovery request of a failed attempt. *)
VbTryUsb_Remember(v, found) == [v EXCEPT !.recovery = found.req]
VbTryUsb(v, found) == [v EXCEPT !.recovery = NoRequest]

DevKey(key) ==
    /\ pc = "dev_loop" /\ Ok
    /\ VbCheckDisplayKey(key)
    /\ pc' = "dev_tick"
    /\ UNCHANGED <<world, tpm, shared, ui, audio, retval, os>>

DevShutdown ==
    /\ pc = "dev_loop" /\ Ok /\ Shutdown
    /\ audio' = VbAudioClose
    /\ Return("SHUTDOWN_REQUESTED")
    /\ UNCHANGED <<world, nv, vnc, tpm, shared, os>>

(* Space, or Enter where the GBB says so: leave developer mode through the
   dialogue, or go to recovery where the switch is a real one. *)
DevLeave ==
    /\ pc = "dev_loop" /\ Ok /\ User
    /\ \E key \in {"space"} \cup (IF Has("enter_tonorm") THEN {"enter"} ELSE {}) :
        /\ audio' = VbAudioClose
        /\ IF ~Has("virt")
           THEN Return("LOAD_KERNEL_RECOVERY") /\ vnc' = Request("RW_DEV_SCREEN")
           ELSE IF Has("force_dev") THEN pc' = "dev_tick" /\ UNCHANGED <<vnc, ui, retval>>
           ELSE /\ pc' = "confirm" /\ UNCHANGED retval
                /\ vnc' = Drawn(vnc, "DEVELOPER_TO_NORM", FALSE)
                /\ ui' = [ui EXCEPT !.screen = "DEVELOPER_TO_NORM", !.ask = "to_norm", !.button = FALSE]
    /\ UNCHANGED <<world, nv, tpm, shared, os>>

CtrlD ==
    /\ pc = "dev_loop" /\ Ok /\ User /\ pc' = "dev_fixed"
    /\ UNCHANGED <<world, nv, vnc, tpm, shared, ui, audio, retval, os>>

CtrlL ==
    /\ pc = "dev_loop" /\ User
    /\ VbTryLegacy(AllowLegacy, "dev_tick")
    /\ UNCHANGED <<world, nv, vnc, shared, ui, audio, retval>>

(* Ctrl+U blanks the screen, tries the stick and puts the warning back. *)
BackToWarning(v) == /\ vnc' = Drawn(v, "DEVELOPER_WARNING", TRUE) /\ UNCHANGED ui

CtrlU ==
    /\ pc = "dev_loop" /\ User
    /\ \/ ~AllowUsb /\ Ok /\ pc' = "dev_tick" /\ UNCHANGED <<vnc, ui, audio, retval, os>>
       \/ /\ AllowUsb
          /\ \E working \in BOOLEAN :
              LET found == VbTryLoadKernel("REMOVABLE", working)
                  v     == VbTryUsb(vnc, found)
              IN /\ TriesDisk(working)
                 /\ IF found.ret = "SUCCESS"
                    THEN Return("SUCCESS") /\ audio' = VbAudioClose /\ os' = Boots("usb") /\ vnc' = v
                    ELSE BackToWarning(v) /\ pc' = "dev_tick" /\ UNCHANGED <<audio, retval, os>>
    /\ UNCHANGED <<world, nv, tpm, shared>>

(* The countdown has ended: the default device, then the fixed disk. *)
DefaultLegacy ==
    /\ pc = "default_legacy" /\ NoUser
    /\ \/ UseLegacy /\ VbTryLegacy(AllowLegacy, "default_usb")
       \/ ~UseLegacy /\ Ok /\ pc' = "default_usb" /\ UNCHANGED <<tpm, os>>
    /\ UNCHANGED <<world, nv, vnc, shared, ui, audio, retval>>

TriesDefaultUsb == UseUsb /\ AllowUsb

DefaultUsb ==
    /\ pc = "default_usb" /\ NoUser
    /\ \/ ~TriesDefaultUsb /\ Ok /\ pc' = "dev_fixed" /\ UNCHANGED <<vnc, ui, audio, retval, os>>
       \/ /\ TriesDefaultUsb
          /\ \E working \in BOOLEAN :
              LET found == VbTryLoadKernel("REMOVABLE", working)
              IN /\ TriesDisk(working)
                 /\ vnc' = VbTryUsb(vnc, found)
                 /\ IF found.ret = "SUCCESS"
                    THEN Return("SUCCESS") /\ audio' = VbAudioClose /\ os' = Boots("usb")
                    ELSE pc' = "dev_fixed" /\ UNCHANGED <<ui, audio, retval, os>>
    /\ UNCHANGED <<world, nv, tpm, shared>>

DevFixed ==
    /\ pc = "dev_fixed" /\ NoUser
    /\ audio' = VbAudioClose
    /\ \E working \in BOOLEAN :
        LET found == VbTryLoadKernel("FIXED", working)
        IN /\ TriesDisk(working) /\ Return(found.ret)
           /\ vnc' = Request(found.req)
           /\ os' = IF found.ret = "SUCCESS" THEN Boots("fixed") ELSE Nobody
    /\ UNCHANGED <<world, nv, tpm, shared>>

----------------------------------------------------------------------------
(* VbUserConfirms(), one turn: answers "yes", "no", "shutdown" or "wait".  A
   real recovery button answers yes when it is let go. *)
Trusted_Any(trusted) == TRUE
Trusted(trusted) == ui.ask = "to_dev" => trusted

Answer(key, trusted, button) ==
    CASE key = "enter" -> IF Trusted(trusted) THEN "yes" ELSE "wait"
      [] key = "space" -> IF ui.ask = "to_dev" THEN "no" ELSE "wait"
      [] key = "esc"   -> "no"
      [] OTHER -> IF ~Has("rec_virtual") /\ ui.button /\ ~button THEN "yes" ELSE "wait"

ConfirmWaits ==
    /\ pc = "confirm" /\ Ok
    /\ \E key \in DisplayKeys, button \in BOOLEAN :
        /\ Answer(key, FALSE, button) = "wait"
        /\ \/ button = ui.button /\ VbCheckDisplayKey(key)
           \/ key = "none" /\ button /\ ~ui.button /\ User /\ UNCHANGED <<nv, vnc>>
        /\ ui' = [ui EXCEPT !.button = @ \/ (button /\ ~Has("rec_virtual"))]
    /\ UNCHANGED <<world, tpm, shared, audio, pc, retval, os>>

AnswerKeys == {"none", "enter", "space", "esc"}
Asked(answer) == \E key \in AnswerKeys, trusted, button \in BOOLEAN :
                     Answer(key, trusted, button) = answer
Means(key, trusted) == IF key # "enter" THEN "button" ELSE IF trusted THEN "trusted key" ELSE "any key"

StayDev == audio' = VbAudioOpen

ToNorm ==
    /\ pc = "confirm" /\ ui.ask = "to_norm" /\ Ok /\ User
    /\ \/ /\ Asked("yes")
          /\ vnc' = [Drawn(vnc, "TO_NORM_CONFIRMED", FALSE) EXCEPT !.disable_dev = TRUE]
          /\ Return("TPM_REBOOT_REQUIRED") /\ UNCHANGED audio
       \/ /\ Asked("no") /\ pc' = "dev_tick"
          /\ vnc' = Drawn(vnc, "DEVELOPER_WARNING", FALSE)
          /\ ui' = [ui EXCEPT !.screen = "DEVELOPER_WARNING", !.ask = "none", !.button = FALSE]
          /\ StayDev /\ UNCHANGED retval
    /\ UNCHANGED <<world, nv, tpm, shared, os>>

ToDev ==
    /\ pc = "confirm" /\ ui.ask = "to_dev" /\ User
    /\ \/ /\ Ok
          /\ \E key \in AnswerKeys, trusted, button \in BOOLEAN :
              /\ Answer(key, trusted, button) = "yes"
              /\ tpm' = [tpm EXCEPT !.dev = TRUE, !.by = Means(key, trusted)]
          /\ vnc' = [vnc EXCEPT !.usb = @ \/ Has("allow_usb")]
          /\ Return("TPM_REBOOT_REQUIRED")
       \/ /\ Asked("yes") /\ Fails /\ UNCHANGED <<tpm, vnc>>
          /\ Return("TPM_SET_BOOT_MODE_STATE")
       \/ /\ Asked("no") /\ Ok /\ pc' = "rec_keys"
          /\ ui' = [ui EXCEPT !.ask = "none", !.button = FALSE, !.turn = 1]
          /\ UNCHANGED <<tpm, vnc, retval>>
    /\ UNCHANGED <<world, nv, shared, audio, os>>

ConfirmShutdown ==
    /\ pc = "confirm" /\ Ok /\ Shutdown
    /\ Return("SHUTDOWN_REQUESTED")
    /\ UNCHANGED <<world, nv, vnc, tpm, shared, audio, os>>

----------------------------------------------------------------------------
(* VbBootRecovery(): the broken screen, or a scan for media every so many
   turns of the key loop. *)
Turns == 2

VbBootRecovery ==
    /\ pc = "recovery" /\ Ok /\ NoUser
    /\ IF shared.dev \/ shared.rec
       THEN pc' = "rec_scan" /\ UNCHANGED <<nv, vnc, ui>>
       ELSE LET saved == [vnc EXCEPT !.subcode = shared.reason]
            IN /\ pc' = "broken" /\ nv' = saved
               /\ vnc' = Drawn(saved, "OS_BROKEN", FALSE)
               /\ ui' = [ui EXCEPT !.screen = "OS_BROKEN"]
    /\ UNCHANGED <<world, tpm, shared, audio, retval, os>>

Broken ==
    /\ pc = "broken" /\ Ok
    /\ \E key \in DisplayKeys : VbCheckDisplayKey(key)
    /\ UNCHANGED <<world, tpm, shared, ui, audio, pc, retval, os>>

BrokenShutdown ==
    /\ pc = "broken" /\ Ok /\ Shutdown /\ Return("SHUTDOWN_REQUESTED")
    /\ UNCHANGED <<world, nv, vnc, tpm, shared, audio, os>>

RecoveryScan ==
    /\ pc = "rec_scan" /\ NoUser
    /\ \E working \in BOOLEAN :
        LET found  == VbTryLoadKernel("REMOVABLE", working)
            screen == IF found.ret = "NO_DISK_FOUND" THEN "RECOVERY_INSERT" ELSE "RECOVERY_NO_GOOD"
            clear  == Request(NoRequest)
        IN /\ TriesDisk(working)
           /\ IF found.ret = "SUCCESS"
              THEN Return("SUCCESS") /\ os' = Boots("usb") /\ vnc' = clear
              ELSE /\ pc' = "rec_keys" /\ ui' = [ui EXCEPT !.screen = screen, !.turn = 0]
                   /\ vnc' = Drawn(clear, screen, FALSE) /\ UNCHANGED <<retval, os>>
    /\ UNCHANGED <<world, nv, tpm, shared, audio>>

NextTurn == IF ui.turn + 1 < Turns THEN pc' = pc /\ ui' = [ui EXCEPT !.turn = @ + 1]
            ELSE pc' = "rec_scan" /\ ui' = [ui EXCEPT !.turn = 0]

RecoveryKey ==
    /\ pc = "rec_keys" /\ Ok /\ NextTurn
    /\ \E key \in DisplayKeys : VbCheckDisplayKey(key)
    /\ UNCHANGED <<world, tpm, shared, audio, retval, os>>

RecoveryShutdown ==
    /\ pc = "rec_keys" /\ Ok /\ Shutdown /\ Return("SHUTDOWN_REQUESTED")
    /\ UNCHANGED <<world, nv, vnc, tpm, shared, audio, os>>

(* Ctrl+D: only where the switch is virtual and off, the user forced recovery
   and the EC is trusted; not while a real recovery button is down. *)
MayAskForDev == Has("virt") /\ ~shared.dev /\ shared.rec

RecoveryCtrlD ==
    /\ pc = "rec_keys" /\ Ok /\ User
    /\ \E trust, button \in BOOLEAN :
        IF ~MayAskForDev \/ ~trust \/ (button /\ ~Has("rec_virtual"))
        THEN NextTurn /\ UNCHANGED vnc
        ELSE /\ pc' = "confirm" /\ vnc' = Drawn(vnc, "RECOVERY_TO_DEV", FALSE)
             /\ ui' = [ui EXCEPT !.screen = "RECOVERY_TO_DEV", !.ask = "to_dev", !.button = FALSE]
    /\ UNCHANGED <<world, nv, tpm, shared, audio, retval, os>>

----------------------------------------------------------------------------
(* VbSelectAndLoadKernel_exit, and the caller: it starts the OS, powers down,
   or resets. *)
VbNvCommit ==
    /\ pc = "exit" /\ Ok /\ NoUser
    /\ nv' = vnc
    /\ pc' = IF retval = "SUCCESS" THEN "os"
             ELSE IF retval = "SHUTDOWN_REQUESTED" THEN "down" ELSE "off"
    /\ os' = IF retval = "SUCCESS" THEN os ELSE Nobody
    /\ UNCHANGED <<world, vnc, tpm, shared, ui, audio, retval>>

(* Fastboot: VbUnlockDevice(), VbLockDevice() and VbVerifyMemoryBootImage(),
   for an image with a set of defects. *)
Fastboot == Has("fastboot") /\ pc = "start" /\ User

VbUnlockDevice ==
    /\ Fastboot /\ pc' = "off"
    /\ \/ Ok /\ tpm' = [tpm EXCEPT !.dev = TRUE, !.by = "fastboot"]
       \/ Fails /\ UNCHANGED tpm
    /\ UNCHANGED <<world, nv, vnc, shared, ui, audio, retval, os>>

VbLockDevice ==
    /\ Fastboot /\ pc' = "off" /\ Ok
    /\ nv' = [nv EXCEPT !.disable_dev = TRUE] /\ vnc' = nv'
    /\ UNCHANGED <<world, tpm, shared, ui, audio, retval, os>>

Defects == {"signature", "hash", "dev_flag", "rec_flag", "key", "preamble", "body"}
HashOnly == shared.dev /\ (nv.cap \/ Has("force_cap"))

(* KeyBlockVerify() checks the hash in the one case, the signature in the other. *)
Waived == IF HashOnly THEN {"signature", "dev_flag", "rec_flag"} ELSE {"hash"}

VbVerifyMemoryBootImage ==
    /\ Fastboot
    /\ \E defects \in SUBSET Defects :
        /\ Cardinality(defects) <= 2
        /\ Ok /\ vnc' = nv
        /\ IF defects \subseteq Waived
           THEN /\ pc' = "os"
                /\ os' = [kind |-> IF "signature" \in defects THEN "hash only" ELSE "memory", ver |-> 0]
           ELSE pc' = "off" /\ UNCHANGED os
    /\ UNCHANGED <<world, nv, tpm, shared, ui, audio, retval>>

----------------------------------------------------------------------------
(* The OS and the user *)
OsUpdates ==
    /\ pc = "os" /\ os.kind = "fixed" /\ ~shared.dev /\ disk.fw = 1 /\ os.ver = 1 /\ User /\ Ok
    /\ \E kernels \in {{1}, {1, 2}} : disk' = [disk EXCEPT !.kernels = kernels]
    /\ nv' = [nv EXCEPT !.tryb = MaxTryB]
    /\ UNCHANGED <<board, usb, vnc, tpm, shared, ui, audio, pc, retval, os>>

OsKeeps ==
    /\ pc = "os" /\ os.kind = "fixed" /\ shared.tried /\ disk.fw = 1 /\ User /\ Ok
    /\ \E kernels \in {{2}, {1, 2}} : disk' = [kernels |-> kernels, fw |-> 2]
    /\ nv' = [nv EXCEPT !.tryb = 0]
    /\ UNCHANGED <<board, usb, vnc, tpm, shared, ui, audio, pc, retval, os>>

OsStops ==
    /\ pc = "os" /\ User /\ Ok /\ pc' = "off"
    /\ \E asked \in {nv.recovery, "US_TEST"} : nv' = [nv EXCEPT !.recovery = asked]
    /\ os' = Nobody
    /\ UNCHANGED <<world, vnc, tpm, shared, ui, audio, retval>>

PowerOn ==
    /\ pc = "down" /\ User /\ Ok /\ pc' = "off"
    /\ UNCHANGED <<world, nv, vnc, tpm, shared, ui, audio, retval, os>>

PlugIn ==
    /\ User /\ Ok /\ \E stick \in {"none", "bad", "good"} \ {usb} : usb' = stick
    /\ UNCHANGED <<board, disk, nv, vnc, tpm, shared, ui, audio, pc, retval, os>>

PowerFail ==
    /\ pc \notin {"off", "down"} /\ Fails /\ NoUser /\ pc' = "off" /\ os' = Nobody
    /\ UNCHANGED <<world, nv, vnc, tpm, shared, ui, audio, retval>>

Computes ==
    \/ VbInit \/ ReadNv \/ RollbackKernelRead \/ VbBootNormal \/ RollbackKernelWrite \/ Lock
    \/ VbBootDeveloper \/ VbAudioLooping \/ DefaultLegacy \/ DefaultUsb \/ DevFixed
    \/ VbBootRecovery \/ RecoveryScan \/ VbNvCommit
Polls == (\E key \in DisplayKeys : DevKey(key)) \/ ConfirmWaits \/ Broken \/ RecoveryKey
Users ==
    \/ DevShutdown \/ DevLeave \/ CtrlD \/ CtrlL \/ CtrlU \/ ToNorm \/ ToDev \/ ConfirmShutdown
    \/ BrokenShutdown \/ RecoveryShutdown \/ RecoveryCtrlD
    \/ VbUnlockDevice \/ VbLockDevice \/ VbVerifyMemoryBootImage
    \/ OsUpdates \/ OsKeeps \/ OsStops \/ PowerOn \/ PlugIn

Next == Computes \/ Polls \/ Users \/ PowerFail

(* The firmware runs; a polling loop turns and its clock advances. *)
Spec == Init /\ [][Next]_vars
        /\ WF_vars(Computes) /\ WF_vars(Polls)
        /\ SF_vars(VbAudioLooping /\ audio'.now > audio.now)
----------------------------------------------------------------------------
(* Properties *)

Pcs == {"off", "down", "start", "kernel_read", "normal", "advance", "lock", "exit", "os",
        "developer", "dev_loop", "dev_tick", "default_legacy", "default_usb", "dev_fixed",
        "recovery", "broken", "rec_scan", "rec_keys", "confirm"}
NvOk(n) == n.locale \in 0..Locales /\ n.tryb \in 0..MaxTryB
           /\ {n.disable_dev, n.usb, n.legacy, n.cap, n.backup} \subseteq BOOLEAN

(* Types.  The language, which VbCheckDisplayKey() counts up and down without
   a sign, stays within the languages there are. *)
TypeOK ==
    /\ pc \in Pcs /\ NvOk(nv) /\ NvOk(vnc)
    /\ tpm.ver \in 1..2 /\ shared.ver \in 0..2
    /\ audio.next \in 0..NoteCount /\ {audio.now, audio.until} \subseteq 0..(NoteCount * StaleLength + 2)
    /\ ui.turn \in 0..Turns /\ inputs \in 0..MaxInputs /\ faults \in 0..MaxFaults

(* What starts is what the mode allows.  Legacy firmware and USB need their
   developer setting (or recovery, for USB); recovery never starts the fixed
   disk; normal mode starts a kernel its firmware signs for and the TPM's
   version admits; an image in memory that only hashes well needs developer
   mode and the fastboot capability. *)
OnlyAllowedOs ==
    pc = "os" =>
        /\ os.kind # "none"
        /\ os.kind = "legacy" => shared.dev /\ ~Recovering /\ (nv.legacy \/ Has("force_legacy"))
        /\ os.kind = "usb" => Recovering \/ (shared.dev /\ (nv.usb \/ Has("force_usb")))
        /\ os.kind = "fixed" =>
            /\ ~Recovering
            /\ shared.dev \/ (os.ver = Firmware /\ os.ver >= shared.start)
        /\ os.kind = "hash only" => shared.dev /\ (nv.cap \/ Has("force_cap"))

(* A machine that its user shuts down at a developer or recovery screen does
   not come up in recovery mode, whatever failed to load before: VbTryUsb()
   and VbBootRecovery() take the request back before anything can write it. *)
ShutdownLeavesNoRequest == pc \in {"down", "broken", "confirm", "rec_keys", "dev_tick"}
                               => nv.recovery = NoRequest

(* The kernel versions in the TPM can still be written under two kinds of OS
   only: the recovery OS, and an image that fastboot verified in memory, for
   VbVerifyMemoryBootImage() returns without RollbackKernelLock().  Every
   kernel from a disk and all legacy firmware start behind the lock. *)
KernelLocked == pc = "os" /\ ~tpm.locked => Recovering \/ os.kind \in {"memory", "hash only"}

(* The OS that starts is one the mode allows and, unless it is a recovery OS
   or an image of fastboot's, cannot raise its own limits. *)
OsAllowed == OnlyAllowedOs /\ KernelLocked

(* As long as the OS has not kept a firmware on trial, the firmware it would
   fall back to can still load its kernel past the TPM's version. *)
FallbackKept == tpm.ver <= disk.fw

(* Kernels that fail under a firmware on trial never end in recovery mode
   while the old firmware has a kernel to load. *)
TrialNeverRecovers ==
    pc \in {"recovery", "broken"} /\ shared.reason = "RW_NO_KERNEL" => disk.fw \notin disk.kernels

(* A firmware on trial cannot take the old one's way to boot away. *)
TrialSafe == FallbackKept /\ TrialNeverRecovers

(* Developer mode is turned on by someone in front of the machine: recovery
   forced with its button, the question on the screen, and Enter on a trusted
   keyboard or the recovery button let go (or by fastboot). *)
DevModeNeedsUser ==
    [][~tpm.dev /\ tpm.dev' =>
        \/ tpm'.by = "fastboot"
        \/ /\ shared.rec /\ ~shared.dev /\ ui.screen = "RECOVERY_TO_DEV"
           /\ tpm'.by \in {"trusted key"} \cup (IF Has("rec_virtual") THEN {} ELSE {"button"})]_vars

(* While the countdown runs the warning is on the screen, while the dialogue
   waits its question is, and an OS starts on a blank one; with bitmaps in
   the GBB the language of every screen is one of its languages. *)
ScreenTells ==
    /\ pc \in {"dev_loop", "dev_tick"} => ui.screen = "DEVELOPER_WARNING"
    /\ pc = "confirm" => ui.screen = IF ui.ask = "to_norm" THEN "DEVELOPER_TO_NORM" ELSE "RECOVERY_TO_DEV"
    /\ pc = "os" /\ os.kind # "legacy" => ui.screen = "BLANK"
    /\ Has("bitmaps") /\ ui.screen # "BLANK" => vnc.locale < Locales

(* Without Ctrl+D the developer screen lasts for the whole tune, as long as
   the notes are not freed. *)
FullDelay ==
    pc \in {"default_legacy", "default_usb"} => audio.freed \/ audio.now >= NoteCount * NoteLength

(* The tune's notes are neither played nor freed again once they are freed,
   with one exception: where the GBB forces developer mode and has a tune of
   its own, VbBootDeveloper() frees the notes before it refuses to leave
   developer mode, and the countdown goes on with them. *)
NotesHeld ==
    pc \in {"dev_loop", "dev_tick", "default_legacy", "default_usb", "dev_fixed"} /\ audio.freed
        => Has("force_dev") /\ Has("custom_notes")

(* What a user at the screens relies on. *)
ScreensTrue == ShutdownLeavesNoRequest /\ ScreenTells /\ FullDelay /\ NotesHeld

(* Left alone, the machine comes to rest: an OS runs, it is switched off, or
   a screen waits for its user.  Trials run out, countdowns end, and no error
   reboots for ever. *)
AtRest == pc \in {"os", "down", "broken", "confirm", "rec_scan", "rec_keys"}
Settles == <>[]AtRest
=============================================================================
