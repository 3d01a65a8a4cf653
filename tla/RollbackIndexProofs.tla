------------------------ MODULE RollbackIndexProofs ------------------------
(***************************************************************************
 Proofs about RollbackIndex, for every MaxVersion and every number of faults.

 The inductive invariant follows the position of the boot.  While
 TPMClearAndReenable() runs, the position that counts is the one it returns
 to.  The argument has three parts: where the versions may still be written
 from (VersionInv), who may own the TPM (ModeInv), and which locks are set by
 then (LockInv).
 ***************************************************************************)
EXTENDS RollbackIndex, TLAPS

ClearPcs  == {"clear", "clear_enable", "clear_activate"}
At        == IF pc \in ClearPcs THEN after_clear ELSE pc

DefinePcs == {"define_backup", "define_kernel", "write_kernel", "define_firmware"}
InitPcs   == {"self_test", "finalize_pp", "nv_lock"} \cup DefinePcs
KernelPcs == {"kernel_read", "kernel_write", "kernel_lock", "os"}
BootPcs   == {"select", "firmware_write", "firmware_lock"} \cup KernelPcs
ReadyPcs  == {"modes", "flush", "setup_done", "set_dev"} \cup BootPcs
ReturnPcs == DefinePcs \cup {"write_firmware", "flush", "firmware_write", "kernel_write",
                             "set_dev"}

(* TPMClearAndReenable() returns to a write or a definition. *)
ReturnInv == /\ pc \in ClearPcs => after_clear \in ReturnPcs
             /\ pc \in {"finalize_pp", "nv_lock"} => after_clear = "define_backup"

(* The spaces are initialised only while the firmware space does not exist,
   and as long as it has no contents no version has been advanced. *)
VersionInv ==
    /\ fw \in {"undefined", "unwritten"} => fw_versions = 0 /\ kernel_versions = 0
    /\ At \in InitPcs => fw = "undefined"
    /\ At = "write_firmware" => fw = "unwritten"
    /\ At \in ReadyPcs => fw = "good"
    /\ At = "firmware_write" => target > fw_versions
    /\ At = "kernel_write" => target > kernel_versions

(* The owner, if any, is of the mode on record; the record changes only while
   there is none. *)
ModeInv ==
    /\ fw = "good" => owner \in {"none", IF flag_dev THEN "dev" ELSE "normal"}
    /\ pc \in {"clear_enable", "clear_activate", "write_firmware"} \cup DefinePcs
          => owner = "none"
    /\ pc = "flush" => rsf_dev = flag_dev \/ owner = "none"
    /\ At \in BootPcs \cup {"flush", "setup_done"} => rsf_dev = (is_hw_dev \/ rsf_virt)
    /\ At \in BootPcs \cup {"setup_done"} => flag_dev = rsf_dev
    /\ At \in BootPcs => setup_ok
    /\ pc = "init_exit" => recovery # "none"

(* What is locked, permanently or for this boot, by the time it is relied on. *)
LockInv ==
    /\ fw # "undefined" \/ At \in DefinePcs => nvLocked /\ pp_final
    /\ pc = "nv_lock" => pp_final
    /\ At \in KernelPcs => bGlobalLock
    /\ At \in KernelPcs \ {"kernel_read"} => kernel = "good"
    /\ pc = "os" => pp_locked

IInv == TypeOK /\ ReturnInv /\ VersionInv /\ ModeInv /\ LockInv

----------------------------------------------------------------------------
(* The flags, and the rest of the type invariant. *)
FlagsTyped ==
    /\ flag_dev \in BOOLEAN /\ flag_virt \in BOOLEAN
    /\ pp_final \in BOOLEAN /\ nvLocked \in BOOLEAN
    /\ disable \in BOOLEAN /\ deactivated \in BOOLEAN
    /\ bGlobalLock \in BOOLEAN /\ pp_locked \in BOOLEAN
    /\ disable_dev_request \in BOOLEAN /\ clear_owner_request \in BOOLEAN
    /\ clear_owner_done \in BOOLEAN
    /\ retried \in BOOLEAN /\ is_hw_dev \in BOOLEAN /\ setup_ok \in BOOLEAN
    /\ rsf_dev \in BOOLEAN /\ rsf_virt \in BOOLEAN /\ developer_mode \in BOOLEAN

RestTyped ==
    /\ fw \in SpaceStates /\ kernel \in SpaceStates
    /\ fw_versions \in Versions /\ kernel_versions \in Versions /\ target \in Versions
    /\ owner \in Modes \cup {"none"}
    /\ recovery_request \in {"none", "tpm_error", "tpm_reboot", "rw_error"}
    /\ recovery \in {"none", "tpm_error", "tpm_reboot", "rw_error", "manual"}
    /\ pc \in CommandPcs \cup {"off", "modes", "setup_done", "init_exit", "select", "recovery", "os"}
    /\ stage \in {"setup", "boot", "recovery"}
    /\ after_clear \in CommandPcs \cup {"off"}
    /\ faults \in 0..MaxFaults

LEMMA InitInv == Init => IInv
<1> SUFFICES ASSUME Init PROVE IInv
  OBVIOUS
<1>1. FlagsTyped
  BY Zenon DEF Init, FlagsTyped
<1>2. RestTyped
  BY RollbackAssumption DEF Init, RestTyped, SpaceStates, Versions, Modes, CommandPcs
<1>3. TypeOK
  BY <1>1, <1>2 DEF TypeOK, FlagsTyped, RestTyped
<1>4. ReturnInv /\ VersionInv /\ ModeInv /\ LockInv
  BY DEF Init, ReturnInv, VersionInv, ModeInv, LockInv, At, ClearPcs, DefinePcs, InitPcs,
         KernelPcs, BootPcs, ReadyPcs
<1> QED
  BY <1>3, <1>4 DEF IInv

(* An error or a reboot that the code asks for ends the boot, or takes VbInit()
   to its exit in recovery mode; NV storage keeps its type. *)
Stops ==
    /\ pc' = "off" \/ (pc' = "init_exit" /\ recovery # "none")
    /\ recovery_request' \in {"none", "tpm_error", "tpm_reboot", "rw_error"}
    /\ disable_dev_request' \in BOOLEAN /\ clear_owner_request' \in BOOLEAN
    /\ clear_owner_done' \in BOOLEAN

LEMMA ErrStops == TypeOK /\ Err => Stops
  BY DEF TypeOK, Err, Request, Stops, nvVars

LEMMA MustRebootStops == TypeOK /\ MustReboot => Stops
  BY DEF TypeOK, MustReboot, Request, Stops, nvVars

LEMMA FaultCounted == TypeOK /\ (Fault \/ NoFault) => faults' \in 0..MaxFaults
  BY RollbackAssumption DEF TypeOK, Fault, NoFault

(* Every step, a fault included, keeps the invariant. *)
LEMMA NextInv == IInv /\ [Next]_vars => IInv'
<1> SUFFICES ASSUME IInv, [Next]_vars PROVE IInv'
  OBVIOUS
<1> USE DEF spaceVars, permVars, flagVars, lockVars, nvVars, rsfVars, bootVars, ctlVars,
            At, ClearPcs, DefinePcs, InitPcs, KernelPcs, BootPcs, ReadyPcs, ReturnPcs, CommandPcs,
            Versions, SpaceStates, Modes
<1>1. CASE PowerOn
  <2>1. TypeOK'
    <3>1. /\ retried' \in BOOLEAN /\ bGlobalLock' \in BOOLEAN
          /\ pp_locked' \in BOOLEAN /\ setup_ok' \in BOOLEAN
      BY <1>1, Zenon DEF PowerOn
    <3>2. FlagsTyped'
      BY <1>1, <3>1 DEF IInv, TypeOK, FlagsTyped, PowerOn
    <3>3. RestTyped'
      BY <1>1, RollbackAssumption, FaultCounted DEF IInv, TypeOK, RestTyped, PowerOn, ReturnInv
    <3> QED
      BY <3>2, <3>3 DEF TypeOK, FlagsTyped, RestTyped
  <2>2. ReturnInv'
    BY <1>1 DEF IInv, ReturnInv, PowerOn
  <2>3. VersionInv'
    BY <1>1 DEF IInv, TypeOK, ReturnInv, VersionInv, PowerOn
  <2>4. ModeInv'
    BY <1>1 DEF IInv, TypeOK, ReturnInv, VersionInv, ModeInv, PowerOn
  <2>5. LockInv'
    BY <1>1 DEF IInv, TypeOK, ReturnInv, VersionInv, LockInv, PowerOn
  <2> QED
    BY <2>1, <2>2, <2>3, <2>4, <2>5 DEF IInv
<1>2. CASE Startup
  <2>1. TypeOK'
    BY <1>2, FaultCounted DEF IInv, TypeOK, Startup, ReturnInv
  <2>2. ReturnInv'
    BY <1>2 DEF IInv, ReturnInv, Startup
  <2>3. VersionInv'
    BY <1>2 DEF IInv, TypeOK, ReturnInv, VersionInv, Startup
  <2>4. ModeInv'
    BY <1>2 DEF IInv, TypeOK, ReturnInv, VersionInv, ModeInv, Startup
  <2>5. LockInv'
    BY <1>2 DEF IInv, TypeOK, ReturnInv, VersionInv, LockInv, Startup
  <2> QED
    BY <2>1, <2>2, <2>3, <2>4, <2>5 DEF IInv
<1>3. CASE GetFlags
  <2>1. TypeOK'
    BY <1>3, FaultCounted DEF IInv, TypeOK, GetFlags, ReturnInv
  <2>2. ReturnInv'
    BY <1>3 DEF IInv, ReturnInv, GetFlags
  <2>3. VersionInv'
    BY <1>3 DEF IInv, TypeOK, ReturnInv, VersionInv, GetFlags
  <2>4. ModeInv'
    BY <1>3 DEF IInv, TypeOK, ReturnInv, VersionInv, ModeInv, GetFlags
  <2>5. LockInv'
    BY <1>3 DEF IInv, TypeOK, ReturnInv, VersionInv, LockInv, GetFlags
  <2> QED
    BY <2>1, <2>2, <2>3, <2>4, <2>5 DEF IInv
<1>4. CASE SetEnable
  <2>1. TypeOK'
    <3>1. disable' \in BOOLEAN
      BY <1>4, Zenon DEF SetEnable
    <3>2. FlagsTyped'
      BY <1>4, <3>1 DEF IInv, TypeOK, FlagsTyped, SetEnable
    <3>3. RestTyped'
      BY <1>4, RollbackAssumption, FaultCounted DEF IInv, TypeOK, RestTyped, SetEnable, ReturnInv
    <3> QED
      BY <3>2, <3>3 DEF TypeOK, FlagsTyped, RestTyped
  <2>2. ReturnInv'
    BY <1>4 DEF IInv, ReturnInv, SetEnable
  <2>3. VersionInv'
    BY <1>4 DEF IInv, TypeOK, ReturnInv, VersionInv, SetEnable
  <2>4. ModeInv'
    BY <1>4 DEF IInv, TypeOK, ReturnInv, VersionInv, ModeInv, SetEnable
  <2>5. LockInv'
    BY <1>4 DEF IInv, TypeOK, ReturnInv, VersionInv, LockInv, SetEnable
  <2> QED
    BY <2>1, <2>2, <2>3, <2>4, <2>5 DEF IInv
<1>5. CASE SetDeactivated
  <2>1. TypeOK'
    <3>1. deactivated' \in BOOLEAN
      BY <1>5, Zenon DEF SetDeactivated
    <3>2. FlagsTyped'
      BY <1>5, <3>1, MustRebootStops DEF IInv, TypeOK, FlagsTyped, Stops, SetDeactivated
    <3>3. RestTyped'
      BY <1>5, RollbackAssumption, FaultCounted, MustRebootStops
      DEF IInv, TypeOK, RestTyped, SetDeactivated, Stops, ReturnInv
    <3> QED
      BY <3>2, <3>3 DEF TypeOK, FlagsTyped, RestTyped
  <2>2. ReturnInv'
    BY <1>5, MustRebootStops DEF IInv, ReturnInv, SetDeactivated, Stops
  <2>3. VersionInv'
    BY <1>5, MustRebootStops DEF IInv, TypeOK, ReturnInv, VersionInv, SetDeactivated, Stops
  <2>4. ModeInv'
    BY <1>5, MustRebootStops
    DEF IInv, TypeOK, ReturnInv, VersionInv, ModeInv, SetDeactivated, Stops
  <2>5. LockInv'
    BY <1>5, MustRebootStops
    DEF IInv, TypeOK, ReturnInv, VersionInv, LockInv, SetDeactivated, Stops
  <2> QED
    BY <2>1, <2>2, <2>3, <2>4, <2>5 DEF IInv
<1>6. CASE ReadFirmware
  <2>1. TypeOK'
    BY <1>6, FaultCounted, ErrStops DEF IInv, TypeOK, ReadFirmware, Stops, ReturnInv
  <2>2. ReturnInv'
    BY <1>6, ErrStops DEF IInv, ReturnInv, ReadFirmware, Stops
  <2>3. VersionInv'
    BY SMTT(30), SMTT(60), <1>6, ErrStops DEF IInv, TypeOK, ReturnInv, VersionInv, ReadFirmware, Stops
  <2>4. ModeInv'
    BY <1>6, ErrStops DEF IInv, TypeOK, ReturnInv, VersionInv, ModeInv, ReadFirmware, Stops
  <2>5. LockInv'
    BY <1>6, ErrStops DEF IInv, TypeOK, ReturnInv, VersionInv, LockInv, ReadFirmware, Stops
  <2> QED
    BY <2>1, <2>2, <2>3, <2>4, <2>5 DEF IInv
<1>7. CASE DecideMode
  <2>1. TypeOK'
    BY <1>7, FaultCounted DEF IInv, TypeOK, DecideMode, Clear, MustClear, ReturnInv
  <2>2. ReturnInv'
    BY <1>7 DEF IInv, ReturnInv, DecideMode, Clear, MustClear
  <2>3. VersionInv'
    BY <1>7 DEF IInv, TypeOK, ReturnInv, VersionInv, DecideMode, Clear, MustClear
  <2>4. ModeInv'
    BY <1>7 DEF IInv, TypeOK, ReturnInv, VersionInv, ModeInv, DecideMode, Clear, MustClear
  <2>5. LockInv'
    BY <1>7 DEF IInv, TypeOK, ReturnInv, VersionInv, LockInv, DecideMode, Clear, MustClear
  <2> QED
    BY <2>1, <2>2, <2>3, <2>4, <2>5 DEF IInv
<1>8. CASE Flush
  <2>1. TypeOK'
    <3>1. retried' \in BOOLEAN
      BY <1>8, Zenon DEF Flush, WriteSpaceFirmware
    <3>2. FlagsTyped'
      BY SMTT(30), SMTT(60), <1>8, <3>1, ErrStops DEF IInv, TypeOK, FlagsTyped, Stops, Flush, WriteSpaceFirmware
    <3>3. RestTyped'
      BY <1>8, RollbackAssumption, FaultCounted, ErrStops
      DEF IInv, TypeOK, RestTyped, Flush, WriteSpaceFirmware, Stops, ReturnInv
    <3> QED
      BY <3>2, <3>3 DEF TypeOK, FlagsTyped, RestTyped
  <2>2. ReturnInv'
    BY <1>8, ErrStops DEF IInv, ReturnInv, Flush, WriteSpaceFirmware, Stops
  <2>3. VersionInv'
    BY SMTT(30), SMTT(60), <1>8, ErrStops DEF IInv, TypeOK, ReturnInv, VersionInv, Flush, WriteSpaceFirmware, Stops
  <2>4. ModeInv'
    BY SMTT(30), SMTT(60), <1>8, ErrStops
    DEF IInv, TypeOK, ReturnInv, VersionInv, ModeInv, Flush, WriteSpaceFirmware, Stops
  <2>5. LockInv'
    BY <1>8, ErrStops
    DEF IInv, TypeOK, ReturnInv, VersionInv, LockInv, Flush, WriteSpaceFirmware, Stops
  <2> QED
    BY <2>1, <2>2, <2>3, <2>4, <2>5 DEF IInv
<1>9. CASE ForceClear
  <2>1. TypeOK'
    BY <1>9, FaultCounted DEF IInv, TypeOK, ForceClear, ReturnInv
  <2>2. ReturnInv'
    BY <1>9 DEF IInv, ReturnInv, ForceClear
  <2>3. VersionInv'
    BY SMTT(30), SMTT(60), <1>9 DEF IInv, TypeOK, ReturnInv, VersionInv, ForceClear
  <2>4. ModeInv'
    BY <1>9 DEF IInv, TypeOK, ReturnInv, VersionInv, ModeInv, ForceClear
  <2>5. LockInv'
    BY <1>9 DEF IInv, TypeOK, ReturnInv, VersionInv, LockInv, ForceClear
  <2> QED
    BY <2>1, <2>2, <2>3, <2>4, <2>5 DEF IInv
<1>10. CASE ClearEnable
  <2>1. TypeOK'
    <3>1. disable' \in BOOLEAN
      BY <1>10, Zenon DEF ClearEnable
    <3>2. FlagsTyped'
      BY <1>10, <3>1 DEF IInv, TypeOK, FlagsTyped, ClearEnable
    <3>3. RestTyped'
      BY <1>10, RollbackAssumption, FaultCounted
      DEF IInv, TypeOK, RestTyped, ClearEnable, ReturnInv
    <3> QED
      BY <3>2, <3>3 DEF TypeOK, FlagsTyped, RestTyped
  <2>2. ReturnInv'
    BY <1>10 DEF IInv, ReturnInv, ClearEnable
  <2>3. VersionInv'
    BY <1>10 DEF IInv, TypeOK, ReturnInv, VersionInv, ClearEnable
  <2>4. ModeInv'
    BY <1>10 DEF IInv, TypeOK, ReturnInv, VersionInv, ModeInv, ClearEnable
  <2>5. LockInv'
    BY <1>10 DEF IInv, TypeOK, ReturnInv, VersionInv, LockInv, ClearEnable
  <2> QED
    BY <2>1, <2>2, <2>3, <2>4, <2>5 DEF IInv
<1>11. CASE ClearActivate
  <2>1. TypeOK'
    <3>1. deactivated' \in BOOLEAN
      BY <1>11, Zenon DEF ClearActivate
    <3>2. FlagsTyped'
      BY SMTT(30), SMTT(60), <1>11, <3>1 DEF IInv, TypeOK, FlagsTyped, ClearActivate
    <3>3. RestTyped'
      BY <1>11, RollbackAssumption, FaultCounted
      DEF IInv, TypeOK, RestTyped, ClearActivate, ReturnInv
    <3> QED
      BY <3>2, <3>3 DEF TypeOK, FlagsTyped, RestTyped
  <2>2. ReturnInv'
    BY <1>11 DEF IInv, ReturnInv, ClearActivate
  <2>3. VersionInv'
    BY <1>11 DEF IInv, TypeOK, ReturnInv, VersionInv, ClearActivate
  <2>4. ModeInv'
    BY <1>11 DEF IInv, TypeOK, ReturnInv, VersionInv, ModeInv, ClearActivate
  <2>5. LockInv'
    BY SMTT(30), SMTT(60), <1>11 DEF IInv, TypeOK, ReturnInv, VersionInv, LockInv, ClearActivate
  <2> QED
    BY <2>1, <2>2, <2>3, <2>4, <2>5 DEF IInv
<1>12. CASE SelfTest
  <2>1. TypeOK'
    BY <1>12, FaultCounted DEF IInv, TypeOK, SelfTest, ReturnInv
  <2>2. ReturnInv'
    BY <1>12 DEF IInv, ReturnInv, SelfTest
  <2>3. VersionInv'
    BY SMTT(30), SMTT(60), <1>12 DEF IInv, TypeOK, ReturnInv, VersionInv, SelfTest
  <2>4. ModeInv'
    BY <1>12 DEF IInv, TypeOK, ReturnInv, VersionInv, ModeInv, SelfTest
  <2>5. LockInv'
    BY SMTT(30), SMTT(60), <1>12 DEF IInv, TypeOK, ReturnInv, VersionInv, LockInv, SelfTest
  <2> QED
    BY <2>1, <2>2, <2>3, <2>4, <2>5 DEF IInv
<1>13. CASE FinalizePhysicalPresence
  <2>1. TypeOK'
    BY <1>13, FaultCounted DEF IInv, TypeOK, FinalizePhysicalPresence, ReturnInv
  <2>2. ReturnInv'
    BY <1>13 DEF IInv, ReturnInv, FinalizePhysicalPresence
  <2>3. VersionInv'
    BY SMTT(30), SMTT(60), <1>13 DEF IInv, TypeOK, ReturnInv, VersionInv, FinalizePhysicalPresence
  <2>4. ModeInv'
    BY <1>13 DEF IInv, TypeOK, ReturnInv, VersionInv, ModeInv, FinalizePhysicalPresence
  <2>5. LockInv'
    BY SMTT(30), SMTT(60), <1>13 DEF IInv, TypeOK, ReturnInv, VersionInv, LockInv, FinalizePhysicalPresence
  <2> QED
    BY <2>1, <2>2, <2>3, <2>4, <2>5 DEF IInv
<1>14. CASE SetNvLocked
  <2>1. TypeOK'
    BY <1>14, FaultCounted DEF IInv, TypeOK, SetNvLocked, ReturnInv
  <2>2. ReturnInv'
    BY <1>14 DEF IInv, ReturnInv, SetNvLocked
  <2>3. VersionInv'
    BY SMTT(30), SMTT(60), <1>14 DEF IInv, TypeOK, ReturnInv, VersionInv, SetNvLocked
  <2>4. ModeInv'
    BY SMTT(30), SMTT(60), <1>14 DEF IInv, TypeOK, ReturnInv, VersionInv, ModeInv, SetNvLocked
  <2>5. LockInv'
    BY <1>14 DEF IInv, TypeOK, ReturnInv, VersionInv, LockInv, SetNvLocked
  <2> QED
    BY <2>1, <2>2, <2>3, <2>4, <2>5 DEF IInv
<1>15. CASE DefineSpace
  <2>1. TypeOK'
    <3>1. retried' \in BOOLEAN
      BY <1>15, Zenon DEF DefineSpace
    <3>2. FlagsTyped'
      BY SMTT(30), SMTT(60), <1>15, <3>1 DEF IInv, TypeOK, FlagsTyped, DefineSpace
    <3>3. RestTyped'
      BY <1>15, RollbackAssumption, FaultCounted
      DEF IInv, TypeOK, RestTyped, DefineSpace, ReturnInv
    <3> QED
      BY <3>2, <3>3 DEF TypeOK, FlagsTyped, RestTyped
  <2>2. ReturnInv'
    BY SMTT(30), SMTT(60), <1>15 DEF IInv, ReturnInv, DefineSpace
  <2>3. VersionInv'
    BY SMTT(30), SMTT(60), <1>15 DEF IInv, TypeOK, ReturnInv, VersionInv, DefineSpace
  <2>4. ModeInv'
    BY SMTT(30), SMTT(60), <1>15 DEF IInv, TypeOK, ReturnInv, VersionInv, ModeInv, DefineSpace
  <2>5. LockInv'
    BY <1>15 DEF IInv, TypeOK, ReturnInv, VersionInv, LockInv, DefineSpace
  <2> QED
    BY <2>1, <2>2, <2>3, <2>4, <2>5 DEF IInv
<1>16. CASE InitKernel
  <2>1. TypeOK'
    <3>1. retried' \in BOOLEAN
      BY <1>16, Zenon DEF InitKernel, WriteSpaceKernel
    <3>2. FlagsTyped'
      BY SMTT(30), SMTT(60), <1>16, <3>1, ErrStops DEF IInv, TypeOK, FlagsTyped, Stops, InitKernel, WriteSpaceKernel
    <3>3. RestTyped'
      BY <1>16, RollbackAssumption, FaultCounted, ErrStops
      DEF IInv, TypeOK, RestTyped, InitKernel, WriteSpaceKernel, Stops, ReturnInv
    <3> QED
      BY <3>2, <3>3 DEF TypeOK, FlagsTyped, RestTyped
  <2>2. ReturnInv'
    BY SMTT(30), SMTT(60), <1>16, ErrStops
    DEF IInv, ReturnInv, InitKernel, WriteSpaceKernel, Stops
  <2>3. VersionInv'
    BY SMTT(30), SMTT(60), <1>16, ErrStops
    DEF IInv, TypeOK, ReturnInv, VersionInv, InitKernel, WriteSpaceKernel, Stops
  <2>4. ModeInv'
    BY SMTT(30), SMTT(60), <1>16, ErrStops
    DEF IInv, TypeOK, ReturnInv, VersionInv, ModeInv, InitKernel, WriteSpaceKernel, Stops
  <2>5. LockInv'
    BY <1>16, ErrStops
    DEF IInv, TypeOK, ReturnInv, VersionInv, LockInv, InitKernel, WriteSpaceKernel, Stops
  <2> QED
    BY <2>1, <2>2, <2>3, <2>4, <2>5 DEF IInv
<1>17. CASE InitFirmware
  <2>1. TypeOK'
    <3>1. retried' \in BOOLEAN /\ flag_dev' \in BOOLEAN /\ flag_virt' \in BOOLEAN
      BY <1>17, Zenon DEF InitFirmware, WriteSpaceFirmware
    <3>2. FlagsTyped'
      BY SMTT(30), SMTT(60), <1>17, <3>1, ErrStops
      DEF IInv, TypeOK, FlagsTyped, Stops, InitFirmware, WriteSpaceFirmware
    <3>3. RestTyped'
      BY <1>17, RollbackAssumption, FaultCounted, ErrStops
      DEF IInv, TypeOK, RestTyped, InitFirmware, WriteSpaceFirmware, Stops, ReturnInv
    <3> QED
      BY <3>2, <3>3 DEF TypeOK, FlagsTyped, RestTyped
  <2>2. ReturnInv'
    BY SMTT(30), SMTT(60), <1>17, ErrStops
    DEF IInv, ReturnInv, InitFirmware, WriteSpaceFirmware, Stops
  <2>3. VersionInv'
    BY SMTT(30), SMTT(60), <1>17, ErrStops
    DEF IInv, TypeOK, ReturnInv, VersionInv, InitFirmware, WriteSpaceFirmware, Stops
  <2>4. ModeInv'
    BY SMTT(30), SMTT(60), <1>17, ErrStops
    DEF IInv, TypeOK, ReturnInv, VersionInv, ModeInv, InitFirmware, WriteSpaceFirmware, Stops
  <2>5. LockInv'
    BY <1>17, ErrStops
    DEF IInv, TypeOK, ReturnInv, VersionInv, LockInv, InitFirmware, WriteSpaceFirmware, Stops
  <2> QED
    BY <2>1, <2>2, <2>3, <2>4, <2>5 DEF IInv
<1>18. CASE VbInitExit
  <2>1. TypeOK'
    <3>1. /\ setup_ok' \in BOOLEAN /\ disable_dev_request' \in BOOLEAN
          /\ clear_owner_request' \in BOOLEAN /\ clear_owner_done' \in BOOLEAN
      BY <1>18, Zenon DEF VbInitExit
    <3>2. FlagsTyped'
      BY SMTT(30), SMTT(60), <1>18, <3>1 DEF IInv, TypeOK, FlagsTyped, VbInitExit
    <3>3. RestTyped'
      BY SMTT(30), SMTT(60), <1>18, RollbackAssumption, FaultCounted
      DEF IInv, TypeOK, RestTyped, VbInitExit, ReturnInv
    <3> QED
      BY <3>2, <3>3 DEF TypeOK, FlagsTyped, RestTyped
  <2>2. ReturnInv'
    BY SMTT(30), SMTT(60), <1>18 DEF IInv, ReturnInv, ModeInv, VbInitExit
  <2>3. VersionInv'
    BY SMTT(30), SMTT(60), <1>18 DEF IInv, TypeOK, ReturnInv, VersionInv, ModeInv, VbInitExit
  <2>4. ModeInv'
    BY ZenonT(40), <1>18 DEF IInv, TypeOK, ReturnInv, VersionInv, ModeInv, VbInitExit
  <2>5. LockInv'
    BY <1>18 DEF IInv, TypeOK, ReturnInv, VersionInv, ModeInv, LockInv, VbInitExit
  <2> QED
    BY <2>1, <2>2, <2>3, <2>4, <2>5 DEF IInv
<1>19. CASE SelectFirmware
  <2>1. TypeOK'
    BY <1>19, FaultCounted DEF IInv, TypeOK, SelectFirmware, ReturnInv
  <2>2. ReturnInv'
    BY <1>19 DEF IInv, ReturnInv, SelectFirmware
  <2>3. VersionInv'
    BY SMTT(30), SMTT(60), <1>19 DEF IInv, TypeOK, ReturnInv, VersionInv, SelectFirmware
  <2>4. ModeInv'
    BY SMTT(30), SMTT(60), <1>19 DEF IInv, TypeOK, ReturnInv, VersionInv, ModeInv, SelectFirmware
  <2>5. LockInv'
    BY <1>19 DEF IInv, TypeOK, ReturnInv, VersionInv, LockInv, SelectFirmware
  <2> QED
    BY <2>1, <2>2, <2>3, <2>4, <2>5 DEF IInv
<1>20. CASE RollbackFirmwareWrite
  <2>1. TypeOK'
    <3>1. retried' \in BOOLEAN
      BY <1>20, Zenon DEF RollbackFirmwareWrite, WriteSpaceFirmware
    <3>2. FlagsTyped'
      BY SMTT(30), SMTT(60), <1>20, <3>1, ErrStops
      DEF IInv, TypeOK, FlagsTyped, Stops, RollbackFirmwareWrite, WriteSpaceFirmware
    <3>3. RestTyped'
      BY <1>20, RollbackAssumption, FaultCounted, ErrStops
      DEF IInv, TypeOK, RestTyped, RollbackFirmwareWrite, WriteSpaceFirmware, Stops, ReturnInv
    <3> QED
      BY <3>2, <3>3 DEF TypeOK, FlagsTyped, RestTyped
  <2>2. ReturnInv'
    BY SMTT(30), SMTT(60), <1>20, ErrStops
    DEF IInv, ReturnInv, RollbackFirmwareWrite, WriteSpaceFirmware, Stops
  <2>3. VersionInv'
    BY SMTT(30), SMTT(60), <1>20, ErrStops
    DEF IInv, TypeOK, ReturnInv, VersionInv, RollbackFirmwareWrite, WriteSpaceFirmware, Stops
  <2>4. ModeInv'
    BY SMTT(30), SMTT(60), <1>20, ErrStops
    DEF IInv, TypeOK, ReturnInv, VersionInv, ModeInv, RollbackFirmwareWrite,
        WriteSpaceFirmware, Stops
  <2>5. LockInv'
    BY SMTT(30), SMTT(60), <1>20, ErrStops
    DEF IInv, TypeOK, ReturnInv, VersionInv, LockInv, RollbackFirmwareWrite,
        WriteSpaceFirmware, Stops
  <2> QED
    BY <2>1, <2>2, <2>3, <2>4, <2>5 DEF IInv
<1>21. CASE RollbackFirmwareLock
  <2>1. TypeOK'
    BY <1>21, FaultCounted DEF IInv, TypeOK, RollbackFirmwareLock, ReturnInv
  <2>2. ReturnInv'
    BY SMTT(30), SMTT(60), <1>21 DEF IInv, ReturnInv, RollbackFirmwareLock
  <2>3. VersionInv'
    BY SMTT(30), SMTT(60), <1>21 DEF IInv, TypeOK, ReturnInv, VersionInv, RollbackFirmwareLock
  <2>4. ModeInv'
    BY SMTT(30), SMTT(60), <1>21 DEF IInv, TypeOK, ReturnInv, VersionInv, ModeInv, RollbackFirmwareLock
  <2>5. LockInv'
    BY SMTT(30), SMTT(60), <1>21 DEF IInv, TypeOK, ReturnInv, VersionInv, LockInv, RollbackFirmwareLock
  <2> QED
    BY <2>1, <2>2, <2>3, <2>4, <2>5 DEF IInv
<1>22. CASE RollbackKernelRead
  <2>1. TypeOK'
    BY <1>22, FaultCounted, ErrStops
    DEF IInv, TypeOK, RollbackKernelRead, is_dev, Stops, ReturnInv
  <2>2. ReturnInv'
    BY SMTT(30), SMTT(60), <1>22, ErrStops DEF IInv, ReturnInv, RollbackKernelRead, is_dev, Stops
  <2>3. VersionInv'
    BY SMTT(30), SMTT(60), <1>22, ErrStops DEF IInv, TypeOK, ReturnInv, VersionInv, RollbackKernelRead, is_dev, Stops
  <2>4. ModeInv'
    BY SMTT(30), SMTT(60), <1>22, ErrStops
    DEF IInv, TypeOK, ReturnInv, VersionInv, ModeInv, RollbackKernelRead, is_dev, Stops
  <2>5. LockInv'
    BY <1>22, ErrStops
    DEF IInv, TypeOK, ReturnInv, VersionInv, LockInv, RollbackKernelRead, is_dev, Stops
  <2> QED
    BY <2>1, <2>2, <2>3, <2>4, <2>5 DEF IInv
<1>23. CASE RollbackKernelWrite
  <2>1. TypeOK'
    <3>1. retried' \in BOOLEAN
      BY <1>23, Zenon DEF RollbackKernelWrite, WriteSpaceKernel
    <3>2. FlagsTyped'
      BY SMTT(30), SMTT(60), <1>23, <3>1, ErrStops
      DEF IInv, TypeOK, FlagsTyped, Stops, RollbackKernelWrite, WriteSpaceKernel
    <3>3. RestTyped'
      BY SMTT(30), SMTT(60), <1>23, RollbackAssumption, FaultCounted, ErrStops
      DEF IInv, TypeOK, RestTyped, RollbackKernelWrite, WriteSpaceKernel, Stops, ReturnInv
    <3> QED
      BY <3>2, <3>3 DEF TypeOK, FlagsTyped, RestTyped
  <2>2. ReturnInv'
    BY SMTT(30), SMTT(60), <1>23, ErrStops
    DEF IInv, ReturnInv, RollbackKernelWrite, WriteSpaceKernel, Stops
  <2>3. VersionInv'
    BY SMTT(30), SMTT(60), <1>23, ErrStops
    DEF IInv, TypeOK, ReturnInv, VersionInv, RollbackKernelWrite, WriteSpaceKernel, Stops
  <2>4. ModeInv'
    BY SMTT(30), SMTT(60), <1>23, ErrStops
    DEF IInv, TypeOK, ReturnInv, VersionInv, ModeInv, RollbackKernelWrite, WriteSpaceKernel,
        Stops
  <2>5. LockInv'
    BY SMTT(30), SMTT(60), <1>23, ErrStops
    DEF IInv, TypeOK, ReturnInv, VersionInv, LockInv, RollbackKernelWrite, WriteSpaceKernel,
        Stops
  <2> QED
    BY <2>1, <2>2, <2>3, <2>4, <2>5 DEF IInv
<1>24. CASE RollbackKernelLock
  <2>1. TypeOK'
    BY <1>24, FaultCounted DEF IInv, TypeOK, RollbackKernelLock, ReturnInv
  <2>2. ReturnInv'
    BY SMTT(30), SMTT(60), <1>24 DEF IInv, ReturnInv, RollbackKernelLock
  <2>3. VersionInv'
    BY SMTT(30), SMTT(60), <1>24 DEF IInv, TypeOK, ReturnInv, VersionInv, RollbackKernelLock
  <2>4. ModeInv'
    BY SMTT(30), SMTT(60), <1>24 DEF IInv, TypeOK, ReturnInv, VersionInv, ModeInv, RollbackKernelLock
  <2>5. LockInv'
    BY SMTT(30), SMTT(60), <1>24 DEF IInv, TypeOK, ReturnInv, VersionInv, LockInv, RollbackKernelLock
  <2> QED
    BY <2>1, <2>2, <2>3, <2>4, <2>5 DEF IInv
<1>25. CASE Recovery
  <2>1. TypeOK'
    BY <1>25, FaultCounted DEF IInv, TypeOK, Recovery, is_dev, ReturnInv
  <2>2. ReturnInv'
    BY SMTT(30), SMTT(60), <1>25 DEF IInv, ReturnInv, Recovery, is_dev
  <2>3. VersionInv'
    BY SMTT(30), SMTT(60), <1>25 DEF IInv, TypeOK, ReturnInv, VersionInv, Recovery, is_dev
  <2>4. ModeInv'
    BY SMTT(30), SMTT(60), <1>25 DEF IInv, TypeOK, ReturnInv, VersionInv, ModeInv, Recovery, is_dev
  <2>5. LockInv'
    BY <1>25 DEF IInv, TypeOK, ReturnInv, VersionInv, LockInv, Recovery, is_dev
  <2> QED
    BY <2>1, <2>2, <2>3, <2>4, <2>5 DEF IInv
<1>26. CASE SetVirtualDevMode
  <2>1. TypeOK'
    <3>1. retried' \in BOOLEAN
      BY <1>26, Zenon DEF SetVirtualDevMode, WriteSpaceFirmware
    <3>2. FlagsTyped'
      BY SMTT(30), SMTT(60), <1>26, <3>1, ErrStops
      DEF IInv, TypeOK, FlagsTyped, Stops, SetVirtualDevMode, WriteSpaceFirmware
    <3>3. RestTyped'
      BY SMTT(30), SMTT(60), <1>26, RollbackAssumption, FaultCounted, ErrStops
      DEF IInv, TypeOK, RestTyped, SetVirtualDevMode, WriteSpaceFirmware, Stops, ReturnInv
    <3> QED
      BY <3>2, <3>3 DEF TypeOK, FlagsTyped, RestTyped
  <2>2. ReturnInv'
    BY SMTT(30), SMTT(60), <1>26, ErrStops
    DEF IInv, ReturnInv, SetVirtualDevMode, WriteSpaceFirmware, Stops
  <2>3. VersionInv'
    BY SMTT(30), SMTT(60), <1>26, ErrStops
    DEF IInv, TypeOK, ReturnInv, VersionInv, SetVirtualDevMode, WriteSpaceFirmware, Stops
  <2>4. ModeInv'
    BY SMTT(30), SMTT(60), <1>26, ErrStops
    DEF IInv, TypeOK, ReturnInv, VersionInv, ModeInv, SetVirtualDevMode, WriteSpaceFirmware,
        Stops
  <2>5. LockInv'
    BY <1>26, ErrStops
    DEF IInv, TypeOK, ReturnInv, VersionInv, LockInv, SetVirtualDevMode, WriteSpaceFirmware,
        Stops
  <2> QED
    BY <2>1, <2>2, <2>3, <2>4, <2>5 DEF IInv
<1>27. CASE OsShutdown
  <2>1. TypeOK'
    <3>1. clear_owner_done' \in BOOLEAN
      BY <1>27, Zenon DEF OsShutdown
    <3>2. FlagsTyped'
      BY SMTT(30), SMTT(60), <1>27, <3>1 DEF IInv, TypeOK, FlagsTyped, OsShutdown
    <3>3. RestTyped'
      BY <1>27, RollbackAssumption, FaultCounted
      DEF IInv, TypeOK, RestTyped, OsShutdown, ReturnInv
    <3> QED
      BY <3>2, <3>3 DEF TypeOK, FlagsTyped, RestTyped
  <2>2. ReturnInv'
    BY SMTT(30), SMTT(60), <1>27 DEF IInv, ReturnInv, OsShutdown
  <2>3. VersionInv'
    BY SMTT(30), SMTT(60), <1>27 DEF IInv, TypeOK, ReturnInv, VersionInv, OsShutdown
  <2>4. ModeInv'
    BY SMTT(30), SMTT(60), <1>27 DEF IInv, TypeOK, ReturnInv, VersionInv, ModeInv, OsShutdown
  <2>5. LockInv'
    BY SMTT(30), SMTT(60), <1>27 DEF IInv, TypeOK, ReturnInv, VersionInv, LockInv, OsShutdown
  <2> QED
    BY <2>1, <2>2, <2>3, <2>4, <2>5 DEF IInv
<1>28. CASE PowerFail
  <2>1. TypeOK'
    BY <1>28, FaultCounted DEF IInv, TypeOK, PowerFail, ReturnInv
  <2>2. ReturnInv'
    BY SMTT(30), SMTT(60), <1>28 DEF IInv, ReturnInv, PowerFail
  <2>3. VersionInv'
    BY SMTT(30), SMTT(60), <1>28 DEF IInv, TypeOK, ReturnInv, VersionInv, PowerFail
  <2>4. ModeInv'
    BY SMTT(30), SMTT(60), <1>28 DEF IInv, TypeOK, ReturnInv, VersionInv, ModeInv, PowerFail
  <2>5. LockInv'
    BY SMTT(30), SMTT(60), <1>28 DEF IInv, TypeOK, ReturnInv, VersionInv, LockInv, PowerFail
  <2> QED
    BY <2>1, <2>2, <2>3, <2>4, <2>5 DEF IInv
<1>29. CASE CommandFails
  <2>1. TypeOK'
    BY <1>29, FaultCounted, ErrStops DEF IInv, TypeOK, CommandFails, Stops, ReturnInv
  <2>2. ReturnInv'
    BY SMTT(30), SMTT(60), <1>29, ErrStops DEF IInv, ReturnInv, CommandFails, Stops
  <2>3. VersionInv'
    BY SMTT(30), SMTT(60), <1>29, ErrStops DEF IInv, TypeOK, ReturnInv, VersionInv, CommandFails, Stops
  <2>4. ModeInv'
    BY SMTT(30), SMTT(60), <1>29, ErrStops DEF IInv, TypeOK, ReturnInv, VersionInv, ModeInv, CommandFails, Stops
  <2>5. LockInv'
    BY SMTT(30), SMTT(60), <1>29, ErrStops DEF IInv, TypeOK, ReturnInv, VersionInv, LockInv, CommandFails, Stops
  <2> QED
    BY <2>1, <2>2, <2>3, <2>4, <2>5 DEF IInv
<1>30. CASE MaxNvWrites
  <2>1. TypeOK'
    BY <1>30, FaultCounted DEF IInv, TypeOK, MaxNvWrites, Clear, ReturnInv
  <2>2. ReturnInv'
    BY SMTT(30), SMTT(60), <1>30 DEF IInv, ReturnInv, MaxNvWrites, Clear
  <2>3. VersionInv'
    BY SMTT(30), SMTT(60), <1>30 DEF IInv, TypeOK, ReturnInv, VersionInv, MaxNvWrites, Clear
  <2>4. ModeInv'
    BY SMTT(30), SMTT(60), <1>30 DEF IInv, TypeOK, ReturnInv, VersionInv, ModeInv, MaxNvWrites, Clear
  <2>5. LockInv'
    BY SMTT(30), SMTT(60), <1>30 DEF IInv, TypeOK, ReturnInv, VersionInv, LockInv, MaxNvWrites, Clear
  <2> QED
    BY <2>1, <2>2, <2>3, <2>4, <2>5 DEF IInv
<1>31. CASE OsTakesOwnership
  <2>1. TypeOK'
    BY <1>31, FaultCounted DEF IInv, TypeOK, OsTakesOwnership, is_dev, ReturnInv
  <2>2. ReturnInv'
    BY SMTT(30), SMTT(60), <1>31 DEF IInv, ReturnInv, OsTakesOwnership, is_dev
  <2>3. VersionInv'
    BY SMTT(30), SMTT(60), <1>31 DEF IInv, TypeOK, ReturnInv, VersionInv, OsTakesOwnership, is_dev
  <2>4. ModeInv'
    BY SMTT(30), SMTT(60), <1>31 DEF IInv, TypeOK, ReturnInv, VersionInv, ModeInv, OsTakesOwnership, is_dev
  <2>5. LockInv'
    BY SMTT(30), SMTT(60), <1>31 DEF IInv, TypeOK, ReturnInv, VersionInv, LockInv, OsTakesOwnership, is_dev
  <2> QED
    BY <2>1, <2>2, <2>3, <2>4, <2>5 DEF IInv
<1>32. CASE UNCHANGED vars
  <2>1. TypeOK'
    BY <1>32, FaultCounted DEF IInv, TypeOK, vars, ReturnInv
  <2>2. ReturnInv'
    BY SMTT(30), SMTT(60), <1>32 DEF IInv, ReturnInv, vars
  <2>3. VersionInv'
    BY SMTT(30), SMTT(60), <1>32 DEF IInv, TypeOK, ReturnInv, VersionInv, vars
  <2>4. ModeInv'
    BY SMTT(30), SMTT(60), <1>32 DEF IInv, TypeOK, ReturnInv, VersionInv, ModeInv, vars
  <2>5. LockInv'
    BY <1>32 DEF IInv, TypeOK, ReturnInv, VersionInv, LockInv, vars
  <2> QED
    BY <2>1, <2>2, <2>3, <2>4, <2>5 DEF IInv
<1> QED
  BY <1>1, <1>2, <1>3, <1>4, <1>5, <1>6, <1>7, <1>8, <1>9, <1>10, <1>11, <1>12, <1>13, <1>14, <1>15, <1>16, <1>17, <1>18, <1>19, <1>20, <1>21, <1>22, <1>23, <1>24, <1>25, <1>26, <1>27, <1>28, <1>29, <1>30, <1>31, <1>32
  DEF Next, BootStep

LEMMA AlwaysInv == Spec => []IInv
  BY InitInv, NextInv, PTL DEF Spec

(* Every variable keeps its type, for any bound on versions and faults. *)
THEOREM RollbackTypeCorrect == Spec => []TypeOK
<1>1. IInv => TypeOK
  BY SMTT(30), SMTT(60) DEF IInv
<1> QED
  BY <1>1, AlwaysInv, PTL

(* An OS never meets a TPM owned by an OS of the other mode, whatever command
   fails and whenever the power goes (SetupTPM()). *)
THEOREM OwnerSafety == Spec => []OwnerMatchesMode
<1>1. IInv => OwnerMatchesMode
  BY DEF IInv, TypeOK, ModeInv, VersionInv, OwnerMatchesMode, is_dev, At, ClearPcs, BootPcs,
         KernelPcs, ReadyPcs
<1> QED
  BY <1>1, AlwaysInv, PTL

(* A verified OS runs with both spaces good and locked and with the TPM's
   permanent locks set, whatever path led to it. *)
THEOREM RootOfTrustHolds == Spec => []RootOfTrust
<1>1. IInv => RootOfTrust
  BY DEF IInv, VersionInv, LockInv, RootOfTrust, At, ClearPcs, BootPcs, KernelPcs, ReadyPcs
<1> QED
  BY <1>1, AlwaysInv, PTL

(* Both at once, as a boot needs them when it takes the mode of the machine and
   its versions from the TPM: the owner is cleared when the mode changed, and
   the TPM is locked before anything unverified runs. *)
THEOREM BootIsSafe == Spec => []SafeAtBoot
  BY OwnerSafety, RootOfTrustHolds, PTL DEF SafeAtBoot

(* Neither rollback version ever goes back: what is written is larger than
   what is there, or the spaces are being initialised and both are still 0. *)
THEOREM VersionsMonotone == Spec => VersionsNeverDecrease
<1>1. ASSUME IInv, [Next]_vars
      PROVE  fw_versions' >= fw_versions /\ kernel_versions' >= kernel_versions
  <2> USE DEF spaceVars, IInv, TypeOK, Versions
  <2>1. CASE UNCHANGED <<fw_versions, kernel_versions>>
    BY SMTT(30), SMTT(60), <1>1, <2>1, RollbackAssumption
  <2>2. CASE Flush
    BY SMTT(30), SMTT(60), <1>1, <2>2, RollbackAssumption DEF Flush, WriteSpaceFirmware
  <2>3. CASE InitKernel
    BY SMTT(30), SMTT(60), <1>1, <2>3, RollbackAssumption
    DEF InitKernel, WriteSpaceKernel, VersionInv, At, ClearPcs, InitPcs, DefinePcs
  <2>4. CASE InitFirmware
    BY SMTT(30), SMTT(60), <1>1, <2>4, RollbackAssumption DEF InitFirmware, WriteSpaceFirmware, VersionInv, At, ClearPcs
  <2>5. CASE RollbackFirmwareWrite
    BY SMTT(30), SMTT(60), <1>1, <2>5, RollbackAssumption
    DEF RollbackFirmwareWrite, WriteSpaceFirmware, VersionInv, At, ClearPcs
  <2>6. CASE RollbackKernelWrite
    BY SMTT(30), SMTT(60), <1>1, <2>6, RollbackAssumption
    DEF RollbackKernelWrite, WriteSpaceKernel, VersionInv, At, ClearPcs
  <2>7. CASE SetVirtualDevMode
    BY SMTT(30), SMTT(60), <1>1, <2>7, RollbackAssumption DEF SetVirtualDevMode, WriteSpaceFirmware
  <2>8. \/ UNCHANGED <<fw_versions, kernel_versions>>
        \/ Flush \/ InitKernel \/ InitFirmware
        \/ RollbackFirmwareWrite \/ RollbackKernelWrite \/ SetVirtualDevMode
    BY Zenon, <1>1
    DEF Next, BootStep, vars, PowerOn, Startup, GetFlags, SetEnable, SetDeactivated, ReadFirmware,
        DecideMode, ForceClear, ClearEnable, ClearActivate, SelfTest, FinalizePhysicalPresence,
        SetNvLocked, DefineSpace, VbInitExit, SelectFirmware, RollbackFirmwareLock,
        RollbackKernelRead, RollbackKernelLock, Recovery, OsShutdown, PowerFail, CommandFails,
        MaxNvWrites, OsTakesOwnership
  <2> QED
    BY <1>1, <2>1, <2>2, <2>3, <2>4, <2>5, <2>6, <2>7, <2>8
<1>2. IInv /\ [Next]_vars
        => [fw_versions' >= fw_versions /\ kernel_versions' >= kernel_versions]_vars
  BY <1>1
<1> QED
  BY <1>2, AlwaysInv, PTL DEF Spec, VersionsNeverDecrease
=============================================================================
