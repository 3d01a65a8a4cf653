--------------------------- MODULE RollbackIndex ---------------------------
(***************************************************************************
 The rollback spaces of the TPM over many boots (rollback_index.c, with the
 calls VbInit(), VbSelectFirmware(), VbSelectAndLoadKernel() and
 VbBootRecovery() make into it).  A step is one TPM command, or one group of
 commands that leaves the TPM's non-volatile state alone; the power may fail
 between any two steps and any command may return an error.

 The firmware space holds a version and the two mode flags.  `owner' is the
 TPM owner: "none", or the mode of the OS that took ownership.
 ***************************************************************************)
EXTENDS Integers

CONSTANTS MaxVersion,   \* bound on firmware and kernel versions
          MaxFaults     \* bound on power failures and TPM errors

ASSUME RollbackAssumption == MaxVersion \in Nat /\ MaxFaults \in Nat

Versions == 0..MaxVersion
Modes    == {"normal", "dev"}

(* A space is undefined, defined but never written (its bytes are 0xFF, and
   fail the CRC), written and good, or garbled. *)
SpaceStates == {"undefined", "unwritten", "good", "garbled"}

VARIABLES
    (* the TPM, non-volatile *)
    fw, kernel,          \* state of FIRMWARE_NV_INDEX and KERNEL_NV_INDEX
    fw_versions, kernel_versions,
    flag_dev, flag_virt, \* FLAG_LAST_BOOT_DEVELOPER, FLAG_VIRTUAL_DEV_MODE_ON
    pp_final, nvLocked,  \* permanent flags
    disable, deactivated,
    owner,
    (* the TPM, until the next reset *)
    bGlobalLock, pp_locked,
    (* VbNv *)
    recovery_request, disable_dev_request, clear_owner_request, clear_owner_done,
    (* the boot in progress *)
    pc, stage,           \* stage: "setup", "boot" or "recovery"
    after_clear,         \* where TPMClearAndReenable() returns to
    retried,             \* has SafeWrite()/SafeDefineSpace() cleared the TPM already?
    target,              \* version to be written
    recovery,            \* recovery reason of this boot
    is_hw_dev,           \* the hardware developer switch
    setup_ok,            \* did RollbackFirmwareSetup() succeed?
    rsf_dev, rsf_virt,   \* the flags in RAM
    developer_mode,
    faults

spaceVars == <<fw, kernel, fw_versions, kernel_versions, flag_dev, flag_virt>>
permVars  == <<pp_final, nvLocked>>
flagVars  == <<disable, deactivated>>
lockVars  == <<bGlobalLock, pp_locked>>
nvVars    == <<recovery_request, disable_dev_request, clear_owner_request, clear_owner_done>>
rsfVars   == <<rsf_dev, rsf_virt, developer_mode>>
bootVars  == <<recovery, is_hw_dev, setup_ok>>
ctlVars   == <<stage, after_clear, retried, target>>
vars == <<spaceVars, permVars, flagVars, lockVars, nvVars, rsfVars, bootVars, ctlVars, owner,
          pc, faults>>

(* A TPM from the factory. *)
Init ==
    /\ fw = "undefined" /\ kernel = "undefined"
    /\ fw_versions = 0 /\ kernel_versions = 0
    /\ flag_dev = FALSE /\ flag_virt = FALSE
    /\ pp_final \in BOOLEAN /\ nvLocked = FALSE
    /\ disable \in BOOLEAN /\ deactivated \in BOOLEAN
    /\ owner \in {"none", "normal"}
    /\ bGlobalLock = FALSE /\ pp_locked = FALSE
    /\ recovery_request = "none" /\ clear_owner_done = FALSE
    /\ disable_dev_request = FALSE /\ clear_owner_request = FALSE
    /\ pc = "off" /\ stage = "setup" /\ after_clear = "off" /\ retried = FALSE /\ target = 0
    /\ recovery = "none" /\ is_hw_dev = FALSE
    /\ setup_ok = FALSE /\ rsf_dev = FALSE /\ rsf_virt = FALSE /\ developer_mode = FALSE
    /\ faults = 0

Fault   == faults < MaxFaults /\ faults' = faults + 1
NoFault == UNCHANGED faults

(***************************************************************************
 Power
 ***************************************************************************)
PowerOn ==
    /\ pc = "off"
    /\ pc' = "startup" /\ stage' = "setup" /\ retried' = FALSE
    /\ is_hw_dev' \in BOOLEAN
    /\ \E button \in BOOLEAN : recovery' = IF button THEN "manual" ELSE recovery_request
    /\ bGlobalLock' = FALSE /\ pp_locked' = FALSE
    /\ setup_ok' = FALSE
    /\ NoFault
    /\ UNCHANGED <<spaceVars, permVars, flagVars, nvVars, rsfVars, owner, after_clear, target>>

PowerFail ==
    /\ pc # "off" /\ pc' = "off"
    /\ Fault
    /\ UNCHANGED <<spaceVars, permVars, flagVars, lockVars, nvVars, rsfVars, bootVars, ctlVars,
                   owner>>

(***************************************************************************
 Errors
 ***************************************************************************)
Request(r) == /\ pc' = "off" /\ recovery_request' = r
              /\ UNCHANGED <<disable_dev_request, clear_owner_request, clear_owner_done>>

(* In VbInit() an error requests recovery and reboots, unless recovery mode
   goes on without the TPM; later on it requests recovery; in the recovery
   screens it only ends the boot. *)
Err == \/ stage = "setup" /\ recovery = "none" /\ Request("tpm_error")
       \/ stage = "setup" /\ recovery # "none" /\ pc' = "init_exit" /\ UNCHANGED nvVars
       \/ stage = "boot" /\ Request("rw_error")
       \/ stage = "recovery" /\ pc' = "off" /\ UNCHANGED nvVars

(* TPM_E_MUST_REBOOT: reboot into the mode we are in, but only once when that
   is recovery mode. *)
MustReboot ==
    \/ recovery = "none" /\ pc' = "off" /\ UNCHANGED nvVars
    \/ recovery \notin {"none", "tpm_reboot"} /\ Request("tpm_reboot")
    \/ recovery = "tpm_reboot" /\ pc' = "init_exit" /\ UNCHANGED nvVars

(* The places where a TPM command is about to be sent. *)
CommandPcs == {"startup", "get_flags", "set_enable", "set_deactivated", "read_firmware",
               "self_test", "finalize_pp", "nv_lock", "clear", "clear_enable", "clear_activate",
               "define_backup", "define_kernel", "write_kernel", "define_firmware",
               "write_firmware", "flush", "firmware_write", "firmware_lock", "kernel_read",
               "kernel_write", "kernel_lock", "set_dev"}

(* A command returns an error and changes nothing. *)
CommandFails ==
    /\ pc \in CommandPcs
    /\ Fault /\ Err
    /\ UNCHANGED <<spaceVars, permVars, flagVars, lockVars, rsfVars, bootVars, ctlVars, owner>>

(***************************************************************************
 TPMClearAndReenable
 ***************************************************************************)
Clear(next)          == pc' = "clear" /\ after_clear' = next

ForceClear ==
    /\ pc = "clear" /\ pc' = "clear_enable"
    /\ owner' = "none" /\ disable' = TRUE /\ deactivated' = TRUE
    /\ NoFault
    /\ UNCHANGED <<spaceVars, permVars, lockVars, nvVars, rsfVars, bootVars, ctlVars>>

ClearEnable ==
    /\ pc = "clear_enable" /\ pc' = "clear_activate"
    /\ disable' = FALSE
    /\ NoFault
    /\ UNCHANGED <<spaceVars, permVars, deactivated, lockVars, nvVars, rsfVars, bootVars, ctlVars,
                   owner>>

ClearActivate ==
    /\ pc = "clear_activate" /\ pc' = after_clear
    /\ deactivated' = FALSE
    /\ NoFault
    /\ UNCHANGED <<spaceVars, permVars, disable, lockVars, nvVars, rsfVars, bootVars, ctlVars,
                   owner>>

(* SafeWrite() and SafeDefineSpace() meet TPM_E_MAXNVWRITES, which a TPM
   returns only while it has no owner: clear it and try once more. *)
MaxNvWrites ==
    /\ pc \in {"define_backup", "define_kernel", "write_kernel", "define_firmware",
               "write_firmware", "flush", "firmware_write", "kernel_write", "set_dev"}
    /\ owner = "none" /\ ~retried
    /\ retried' = TRUE /\ Clear(pc)
    /\ Fault
    /\ UNCHANGED <<spaceVars, permVars, flagVars, lockVars, nvVars, rsfVars, bootVars, stage, target,
                   owner>>

(***************************************************************************
 WriteSpaceFirmware and WriteSpaceKernel: up to three times, write and read
 back.  What is read back decides the result; what is stored when all three
 fail is the data, or bytes garbled on the way out.
 ***************************************************************************)
WriteSpaceFirmware(v, dev, virt, next) ==
    /\ ~bGlobalLock /\ fw # "undefined"
    /\ fw_versions' = v /\ flag_dev' = dev /\ flag_virt' = virt
    /\ \/ fw' = "good" /\ pc' = next /\ UNCHANGED nvVars /\ NoFault
       \/ fw' \in {"good", "garbled"} /\ Err /\ Fault
    /\ UNCHANGED <<kernel, kernel_versions>>

WriteSpaceKernel(v, next) ==
    /\ ~pp_locked /\ kernel # "undefined"
    /\ kernel_versions' = v
    /\ \/ kernel' = "good" /\ pc' = next /\ UNCHANGED nvVars /\ NoFault
       \/ kernel' \in {"good", "garbled"} /\ Err /\ Fault
    /\ UNCHANGED <<fw, fw_versions, flag_dev, flag_virt>>

(***************************************************************************
 SetupTPM
 ***************************************************************************)
(* TlclLibInit, TlclStartup and asserting physical presence. *)
Startup ==
    /\ pc = "startup" /\ pc' = "get_flags"
    /\ NoFault
    /\ UNCHANGED <<spaceVars, permVars, flagVars, lockVars, nvVars, rsfVars, bootVars, ctlVars,
                   owner>>

GetFlags ==
    /\ pc = "get_flags"
    /\ pc' = IF disable \/ deactivated THEN "set_enable" ELSE "read_firmware"
    /\ NoFault
    /\ UNCHANGED <<spaceVars, permVars, flagVars, lockVars, nvVars, rsfVars, bootVars, ctlVars,
                   owner>>

SetEnable ==
    /\ pc = "set_enable" /\ pc' = "set_deactivated"
    /\ disable' = FALSE
    /\ NoFault
    /\ UNCHANGED <<spaceVars, permVars, deactivated, lockVars, nvVars, rsfVars, bootVars, ctlVars,
                   owner>>

SetDeactivated_NoEffect ==
    /\ pc = "set_deactivated"
    /\ MustReboot
    /\ NoFault
    /\ UNCHANGED <<spaceVars, permVars, flagVars, lockVars, rsfVars, bootVars, ctlVars, owner>>

SetDeactivated ==
    /\ pc = "set_deactivated"
    /\ deactivated' = FALSE
    /\ MustReboot
    /\ NoFault
    /\ UNCHANGED <<spaceVars, permVars, disable, lockVars, rsfVars, bootVars, ctlVars, owner>>

ReadFirmware_ReinitGarbled ==
    /\ pc = "read_firmware"
    /\ pc' = IF fw = "good" THEN "modes" ELSE "self_test"
    /\ NoFault
    /\ UNCHANGED <<spaceVars, permVars, flagVars, lockVars, nvVars, rsfVars, bootVars, ctlVars,
                   owner>>

ReadFirmware ==
    /\ pc = "read_firmware"
    /\ \/ fw = "undefined" /\ pc' = "self_test" /\ UNCHANGED nvVars
       \/ fw \in {"unwritten", "garbled"} /\ Err
       \/ fw = "good" /\ pc' = "modes" /\ UNCHANGED nvVars
    /\ NoFault
    /\ UNCHANGED <<spaceVars, permVars, flagVars, lockVars, rsfVars, bootVars, ctlVars, owner>>

(* Developer mode has changed since the last boot, or clearing was asked for. *)
MustClear_OnRequest == clear_owner_request
MustClear == developer_mode' # flag_dev \/ clear_owner_request

(* The flags to be written back, and whether the owner is to be cleared first. *)
DecideMode ==
    /\ pc = "modes"
    /\ rsf_virt' = (flag_virt /\ ~disable_dev_request)
    /\ developer_mode' = (is_hw_dev \/ rsf_virt')
    /\ rsf_dev' = developer_mode'
    /\ IF MustClear
       THEN Clear("flush")
       ELSE pc' = "flush" /\ UNCHANGED after_clear
    /\ NoFault
    /\ UNCHANGED <<spaceVars, permVars, flagVars, lockVars, nvVars, bootVars, stage, retried, target,
                   owner>>

Flush ==
    /\ pc = "flush"
    /\ IF rsf_dev = flag_dev /\ rsf_virt = flag_virt
       THEN pc' = "setup_done" /\ NoFault /\ UNCHANGED <<spaceVars, nvVars>>
       ELSE WriteSpaceFirmware(fw_versions, rsf_dev, rsf_virt, "setup_done")
    /\ retried' = FALSE
    /\ UNCHANGED <<permVars, flagVars, lockVars, rsfVars, bootVars, stage, after_clear, target,
                   owner>>

(***************************************************************************
 OneTimeInitializeTPM
 ***************************************************************************)
(* Self test and permanent flags. *)
SelfTest ==
    /\ pc = "self_test"
    /\ pc' = IF ~pp_final THEN "finalize_pp" ELSE IF ~nvLocked THEN "nv_lock" ELSE "clear"
    /\ after_clear' = "define_backup"
    /\ NoFault
    /\ UNCHANGED <<spaceVars, permVars, flagVars, lockVars, nvVars, rsfVars, bootVars, stage,
                   retried, target, owner>>

FinalizePhysicalPresence ==
    /\ pc = "finalize_pp"
    /\ pp_final' = TRUE
    /\ pc' = IF ~nvLocked THEN "nv_lock" ELSE "clear"
    /\ NoFault
    /\ UNCHANGED <<spaceVars, nvLocked, flagVars, lockVars, nvVars, rsfVars, bootVars, ctlVars,
                   owner>>

SetNvLocked ==
    /\ pc = "nv_lock"
    /\ nvLocked' = TRUE /\ pc' = "clear"
    /\ NoFault
    /\ UNCHANGED <<spaceVars, pp_final, flagVars, lockVars, nvVars, rsfVars, bootVars, ctlVars,
                   owner>>

(* Defining a space that exists replaces it. *)
DefineSpace ==
    /\ \/ pc = "define_backup" /\ pc' = "define_kernel" /\ UNCHANGED <<fw, kernel>>
       \/ pc = "define_kernel" /\ pc' = "write_kernel" /\ kernel' = "unwritten" /\ UNCHANGED fw
       \/ pc = "define_firmware" /\ pc' = "write_firmware" /\ fw' = "unwritten"
          /\ UNCHANGED kernel
    /\ retried' = FALSE
    /\ NoFault
    /\ UNCHANGED <<fw_versions, kernel_versions, flag_dev, flag_virt, permVars, flagVars, lockVars,
                   nvVars, rsfVars, bootVars, stage, after_clear, target, owner>>

InitKernel ==
    /\ pc = "write_kernel"
    /\ WriteSpaceKernel(0, "define_firmware")
    /\ retried' = FALSE
    /\ UNCHANGED <<permVars, flagVars, lockVars, rsfVars, bootVars, stage, after_clear, target,
                   owner>>

(* The last write of the initialisation; SetupTPM() then goes on with the
   flags just written. *)
InitFirmware ==
    /\ pc = "write_firmware"
    /\ WriteSpaceFirmware(0, FALSE, FALSE, "modes")
    /\ retried' = FALSE
    /\ UNCHANGED <<permVars, flagVars, lockVars, rsfVars, bootVars, stage, after_clear, target,
                   owner>>

(***************************************************************************
 VbInit's exit: NV storage is written once, at the end
 ***************************************************************************)
VbInitExit ==
    /\ pc \in {"setup_done", "init_exit"}
    /\ setup_ok' = (pc = "setup_done")
    /\ recovery_request' = "none"
    /\ disable_dev_request' = (disable_dev_request /\ setup_ok' /\ rsf_virt)
    /\ clear_owner_request' = FALSE
    /\ clear_owner_done' = (clear_owner_done \/ clear_owner_request)
    /\ IF recovery = "none" THEN pc' = "select" /\ stage' = "boot"
       ELSE pc' = "recovery" /\ stage' = "recovery"
    /\ NoFault
    /\ UNCHANGED <<spaceVars, permVars, flagVars, lockVars, rsfVars, recovery, is_hw_dev, retried,
                   after_clear, target, owner>>

(* VBSD_BOOT_DEV_SWITCH_ON *)
is_dev == is_hw_dev \/ (setup_ok /\ rsf_virt)

(***************************************************************************
 VbSelectFirmware and VbSelectAndLoadKernel
 ***************************************************************************)
(* The lowest version among the valid firmware headers decides whether the
   TPM is advanced. *)
SelectFirmware ==
    /\ pc = "select"
    /\ target' \in {v \in Versions : v >= fw_versions}
    /\ pc' = IF target' > fw_versions THEN "firmware_write" ELSE "firmware_lock"
    /\ NoFault
    /\ UNCHANGED <<spaceVars, permVars, flagVars, lockVars, nvVars, rsfVars, bootVars, stage,
                   after_clear, retried, owner>>

RollbackFirmwareWrite ==
    /\ pc = "firmware_write"
    /\ WriteSpaceFirmware(target, flag_dev, flag_virt, "firmware_lock")
    /\ retried' = FALSE
    /\ UNCHANGED <<permVars, flagVars, lockVars, rsfVars, bootVars, stage, after_clear, target,
                   owner>>

RollbackFirmwareLock ==
    /\ pc = "firmware_lock" /\ pc' = "kernel_read"
    /\ bGlobalLock' = TRUE
    /\ NoFault
    /\ UNCHANGED <<spaceVars, permVars, flagVars, pp_locked, nvVars, rsfVars, bootVars, ctlVars,
                   owner>>

(* Only a normal boot that is not trying firmware B advances the version. *)
RollbackKernelRead ==
    /\ pc = "kernel_read"
    /\ IF kernel # "good" THEN Err /\ UNCHANGED target
       ELSE /\ target' \in {v \in Versions : v >= kernel_versions}
            /\ pc' = IF target' > kernel_versions /\ ~is_dev THEN "kernel_write" ELSE "kernel_lock"
            /\ UNCHANGED nvVars
    /\ NoFault
    /\ UNCHANGED <<spaceVars, permVars, flagVars, lockVars, rsfVars, bootVars, stage, after_clear,
                   retried, owner>>

RollbackKernelWrite ==
    /\ pc = "kernel_write"
    /\ WriteSpaceKernel(target, "kernel_lock")
    /\ retried' = FALSE
    /\ UNCHANGED <<permVars, flagVars, lockVars, rsfVars, bootVars, stage, after_clear, target,
                   owner>>

RollbackKernelLock ==
    /\ pc = "kernel_lock" /\ pc' = "os"
    /\ pp_locked' = TRUE
    /\ NoFault
    /\ UNCHANGED <<spaceVars, permVars, flagVars, bGlobalLock, nvVars, rsfVars, bootVars, ctlVars,
                   owner>>

(***************************************************************************
 Recovery mode: the user may turn on the virtual developer switch
 ***************************************************************************)
Recovery ==
    /\ pc = "recovery"
    /\ \/ recovery = "manual" /\ ~is_dev /\ fw = "good" /\ pc' = "set_dev"
       \/ pc' = "off"
    /\ NoFault
    /\ UNCHANGED <<spaceVars, permVars, flagVars, lockVars, nvVars, rsfVars, bootVars, ctlVars,
                   owner>>

SetVirtualDevMode ==
    /\ pc = "set_dev"
    /\ WriteSpaceFirmware(fw_versions, flag_dev, TRUE, "off")
    /\ retried' = FALSE
    /\ UNCHANGED <<permVars, flagVars, lockVars, rsfVars, bootVars, stage, after_clear, target,
                   owner>>

(***************************************************************************
 The running OS (outside the firmware)
 ***************************************************************************)
OsTakesOwnership ==
    /\ pc = "os" /\ owner = "none"
    /\ owner' = IF is_dev THEN "dev" ELSE "normal"
    /\ NoFault
    /\ UNCHANGED <<spaceVars, permVars, flagVars, lockVars, nvVars, rsfVars, bootVars, ctlVars, pc>>

OsShutdown ==
    /\ pc = "os" /\ pc' = "off"
    /\ disable_dev_request' \in BOOLEAN /\ clear_owner_request' \in BOOLEAN
    /\ clear_owner_done' = FALSE
    /\ NoFault
    /\ UNCHANGED <<spaceVars, permVars, flagVars, lockVars, recovery_request, rsfVars, bootVars,
                   ctlVars, owner>>

BootStep ==
    \/ PowerOn \/ Startup \/ GetFlags \/ SetEnable \/ SetDeactivated \/ ReadFirmware
    \/ DecideMode \/ Flush \/ ForceClear \/ ClearEnable \/ ClearActivate
    \/ SelfTest \/ FinalizePhysicalPresence \/ SetNvLocked \/ DefineSpace
    \/ InitKernel \/ InitFirmware \/ VbInitExit
    \/ SelectFirmware \/ RollbackFirmwareWrite \/ RollbackFirmwareLock
    \/ RollbackKernelRead \/ RollbackKernelWrite \/ RollbackKernelLock
    \/ Recovery \/ SetVirtualDevMode \/ OsShutdown

Next == BootStep \/ PowerFail \/ CommandFails \/ MaxNvWrites \/ OsTakesOwnership

Spec == Init /\ [][Next]_vars

(* Firmware runs until it hands over; the user of a running or recovering
   machine turns it off some day. *)
FairSpec == Spec /\ WF_vars(BootStep)

(***************************************************************************
 Properties
 ***************************************************************************)
TypeOK ==
    /\ fw \in SpaceStates /\ kernel \in SpaceStates
    /\ fw_versions \in Versions /\ kernel_versions \in Versions /\ target \in Versions
    /\ flag_dev \in BOOLEAN /\ flag_virt \in BOOLEAN
    /\ pp_final \in BOOLEAN /\ nvLocked \in BOOLEAN
    /\ disable \in BOOLEAN /\ deactivated \in BOOLEAN
    /\ owner \in Modes \cup {"none"}
    /\ bGlobalLock \in BOOLEAN /\ pp_locked \in BOOLEAN
    /\ recovery_request \in {"none", "tpm_error", "tpm_reboot", "rw_error"}
    /\ recovery \in {"none", "tpm_error", "tpm_reboot", "rw_error", "manual"}
    /\ disable_dev_request \in BOOLEAN /\ clear_owner_request \in BOOLEAN
    /\ clear_owner_done \in BOOLEAN
    /\ pc \in CommandPcs \cup {"off", "modes", "setup_done", "init_exit", "select", "recovery", "os"}
    /\ stage \in {"setup", "boot", "recovery"}
    /\ after_clear \in CommandPcs \cup {"off"} /\ retried \in BOOLEAN
    /\ is_hw_dev \in BOOLEAN /\ setup_ok \in BOOLEAN
    /\ rsf_dev \in BOOLEAN /\ rsf_virt \in BOOLEAN /\ developer_mode \in BOOLEAN
    /\ faults \in 0..MaxFaults

(* An OS never meets a TPM owned by an OS of the other mode: SetupTPM()
   clears the owner on every change of mode, before it records the new mode,
   so neither a power failure nor a failed command in between lets ownership
   cross. *)
OwnerMatchesMode ==
    pc = "os" => owner \in {"none", IF is_dev THEN "dev" ELSE "normal"}

(* Neither rollback version ever goes back, whatever fails and whenever the
   power goes: in particular a one-time initialisation that is run again
   never resets a kernel version that had been advanced. *)
VersionsNeverDecrease ==
    [][fw_versions' >= fw_versions /\ kernel_versions' >= kernel_versions]_vars

(* Whatever path led to it, a verified OS runs with both spaces readable and
   locked, and with a TPM that enforces the locks (nvLocked) and whose
   physical presence can no longer be reconfigured. *)
RootOfTrust ==
    pc = "os" => /\ fw = "good" /\ kernel = "good"
                 /\ bGlobalLock /\ pp_locked
                 /\ nvLocked /\ pp_final

(* An OS starts with a TPM that it can build on: locked, enforcing its locks,
   and owned by nobody of the other mode, whatever failed on the way. *)
SafeAtBoot == OwnerMatchesMode /\ RootOfTrust

(* VbInit() never loops over TPM reboots and recovery requests: a machine
   that is switched on gets to an OS or to the recovery screens, again and
   again; and an initialisation cut short before it defines the firmware space
   is run again until it has. *)
BootsAgain ==
    /\ []<>(pc \in {"os", "recovery"})
    /\ fw = "undefined" ~> fw # "undefined"

(* rollback_index.c:320 says the firmware space is done last "so we retry if
   we don't get this far": a firmware space without contents does not stay. *)
InitIsRetried == fw = "unwritten" ~> fw # "unwritten"
=============================================================================
