----------------------------- MODULE CrosSystem -----------------------------
(***************************************************************************)
(* Processes running the crossystem utility (utility/crossystem.c) over    *)
(* the host library (host/lib/crossystem.c) and the architecture's access  *)
(* to the non-volatile settings (host/arch/{x86,arm,mips}/lib).            *)
(*                                                                         *)
(* A process reads its arguments in order: `name=value` sets a property,   *)
(* `name?value` compares it, `name` prints it.  Every read and every write *)
(* of the settings is a step of its own, since nothing locks them between  *)
(* a process's read and its write, and the library keeps the block it read *)
(* first (cached_vnc) until it writes one itself.                          *)
(*                                                                         *)
(* A block is a record of the settings of NvLayout.  `lost` marks a block  *)
(* whose settings were started over by VbNvSetup; nothing reads it.        *)
(***************************************************************************)
EXTENDS NvLayout

CONSTANTS
  Procs,        \* the processes
  Scenarios     \* [arch, args : [Procs -> Seq(argument)], f : settings, faults]

VARIABLES
  env,      \* the scenario
  nv,       \* the stored block
  cmos,     \* the CMOS reboot field: the set of its masks that are set
  file,     \* what .need_firmware_update holds; 0: no such file
  faults,   \* reads and writes that may still fail
  proc,     \* the processes
  begun,    \* [process -> the settings when it started]
  quiet     \* the processes whose settings only they have written

vars == <<env, nv, cmos, file, faults, proc, begun, quiet>>

Error == -1

(***************************************************************************)
(* The block, with its check byte abstracted to `good`.                    *)
(***************************************************************************)
Defaults ==
  [param \in Params |->
     IF param \in {"firmware_settings_reset", "kernel_settings_reset"} THEN 1 ELSE 0]

NvSetup(block) ==
  IF block.good THEN block ELSE [good |-> TRUE, f |-> Defaults, lost |-> TRUE]

\* VbNvSet between VbNvSetup and VbNvTeardown: a value that differs from the one stored is
\* written, fitted to its field.
NvSet(block, param, value) ==
  IF block.f[param] = value THEN block
  ELSE [block EXCEPT !.f[param] = VbNvFit(param, value)]

(***************************************************************************)
(* The parameters of the utility and the properties of the library.        *)
(***************************************************************************)
Writable ==
  {"backup_nvram_request", "block_devmode", "clear_tpm_owner_request",
   "clear_tpm_owner_done", "dbg_reset", "dev_boot_usb", "dev_boot_legacy",
   "dev_boot_signed_only", "dev_default_boot", "disable_dev_request", "fwb_tries",
   "fwupdate_tries", "fw_try_count", "fw_try_next", "fw_result", "loc_idx",
   "nvram_cleared", "oprom_needed", "recovery_request", "recovery_subcode", "tpm_attack",
   "wipeout_request"}

IsString == {"dev_default_boot", "fw_try_next", "fw_tried", "fw_result", "fw_prev_tried",
             "fw_prev_result"}

\* The setting behind a property, where it has its own.
SettingOf ==
  [nvram_cleared |-> "kernel_settings_reset", recovery_request |-> "recovery_request",
   recovery_subcode |-> "recovery_subcode", dbg_reset |-> "debug_reset_mode",
   disable_dev_request |-> "disable_dev_request",
   clear_tpm_owner_request |-> "clear_tpm_owner_request",
   clear_tpm_owner_done |-> "clear_tpm_owner_done", fwb_tries |-> "try_count",
   fw_try_count |-> "try_count", oprom_needed |-> "oprom_needed",
   wipeout_request |-> "req_wipeout", backup_nvram_request |-> "backup_nvram_request",
   loc_idx |-> "localization_index", dev_boot_usb |-> "dev_boot_usb",
   dev_boot_legacy |-> "dev_boot_legacy", dev_boot_signed_only |-> "dev_boot_signed_only",
   try_ro_sync |-> "try_ro_sync", tpm_rebooted |-> "tpm_requested_reboot",
   kern_nv |-> "kernel_field", fw_try_next |-> "fw_try_next", fw_tried |-> "fw_tried",
   fw_result |-> "fw_result", fw_prev_tried |-> "fw_prev_tried",
   fw_prev_result |-> "fw_prev_result", dev_default_boot |-> "dev_default_boot"]

\* Properties inside kern_nv: the bits of a field, and the field with them replaced.
InKernNv == {"fwupdate_tries", "block_devmode", "tpm_attack"}

KernNvGet(name, kern_nv) ==
  CASE name = "fwupdate_tries" -> kern_nv % 16
    [] name = "block_devmode"  -> (kern_nv \div 16) % 2
    [] name = "tpm_attack"     -> (kern_nv \div 32) % 2

KernNvWith(name, kern_nv, value) ==
  CASE name = "fwupdate_tries" -> kern_nv - KernNvGet(name, kern_nv) + (value % 16)
    [] name = "block_devmode"  ->
         kern_nv + 16 * ((IF value # 0 THEN 1 ELSE 0) - KernNvGet(name, kern_nv))
    [] name = "tpm_attack"     ->
         kern_nv + 32 * ((IF value # 0 THEN 1 ELSE 0) - KernNvGet(name, kern_nv))

ClearOnly == {"nvram_cleared", "clear_tpm_owner_done", "wipeout_request"}

WithBackup == {"loc_idx", "dev_boot_usb", "dev_boot_legacy", "dev_boot_signed_only"} \cup InKernNv

fw_results == <<"unknown", "trying", "success", "failure">>
default_boot == <<"disk", "usb", "legacy">>

Slot(value) == IF value # 0 THEN "B" ELSE "A"

Named(names, value) == IF value \in 0 .. Len(names) - 1 THEN names[value + 1] ELSE "unknown"

\* The value a string stands for, as VbSetSystemPropertyString finds it in its list.
Parsed(names, value) == {i \in 0 .. Len(names) - 1 : names[i + 1] = value}

StringValues(name, value) ==
  CASE name = "fw_try_next"      -> Parsed(<<"A", "B">>, value)
    [] name = "fw_result"        -> Parsed(fw_results, value)
    [] name = "dev_default_boot" -> Parsed(default_boot, value)

(***************************************************************************)
(* Reading and writing the stored block: /dev/nvram at the offset the ACPI *)
(* tables give (x86), a sector of the eMMC or the mosys utility (arm),     *)
(* nothing (mips).                                                         *)
(***************************************************************************)
HasNvStorage == env.arch \in {"x86", "arm_disk", "arm_mosys"}

IsX86 == env.arch \in {"x86", "x86_legacy"}

Garbage == [good |-> FALSE, f |-> Defaults, lost |-> FALSE]

\* VbReadNvStorage_disk does not look at what read() returned: a failed read leaves in the
\* block what the stack held, such as the sector the process read before.
FailedReads(s) ==
  IF env.arch = "arm_disk"
  THEN {[ok |-> TRUE, block |-> b, fault |-> 1] : b \in {Garbage, s.sector}}
  ELSE {[ok |-> FALSE, block |-> Garbage, fault |-> 1]}

VbReadNvStorage(s) ==
  IF ~HasNvStorage THEN {[ok |-> FALSE, block |-> Garbage, fault |-> 0]}
  ELSE {[ok |-> TRUE, block |-> nv, fault |-> 0]}
         \cup (IF faults > 0 THEN FailedReads(s) ELSE {})

\* What a failed write leaves: on x86 the bytes go out in fclose(), whose result is not
\* looked at; on an eMMC the flush may fail after the write.
FailedWrites(block) ==
  CASE env.arch = "x86"      -> {[ok |-> ok, nv |-> nv, fault |-> 1] : ok \in BOOLEAN}
    [] env.arch = "arm_disk" -> {[ok |-> FALSE, nv |-> b, fault |-> 1] : b \in {nv, block}}
    [] OTHER                 -> {[ok |-> FALSE, nv |-> nv, fault |-> 1]}

VbWriteNvStorage(block) ==
  {[ok |-> TRUE, nv |-> block, fault |-> 0]}
    \cup (IF faults > 0 THEN FailedWrites(block) ELSE {})

\* VbGetNvStorage: the block of the process, read once and kept.
VbGetNvStorage(s) ==
  IF s.vnc_read THEN {[ok |-> TRUE, s |-> s, fault |-> 0]}
  ELSE {[ok |-> r.ok, fault |-> r.fault,
         s |-> IF r.ok THEN [s EXCEPT !.vnc_read = TRUE, !.cached_vnc = NvSetup(r.block),
                                      !.sector = r.block]
               ELSE s] : r \in VbReadNvStorage(s)}

(***************************************************************************)
(* Getting a property, from the block of the process.                      *)
(***************************************************************************)
CmosMask == [recovery_request |-> "CMOSRF_RECOVERY", dbg_reset |-> "CMOSRF_DEBUG_RESET",
             fwb_tries |-> "CMOSRF_TRY_B"]

NvValue(g, param) == IF g.ok THEN g.s.cached_vnc.f[param] ELSE Error

VbGetArchPropertyInt(name, g) ==
  CASE IsX86 /\ name \in DOMAIN CmosMask ->
         IF g.ok THEN NvValue(g, SettingOf[name])
         ELSE IF CmosMask[name] \in cmos THEN 1 ELSE 0
    [] IsX86 /\ name = "fwupdate_tries" -> IF g.ok THEN Error ELSE file
    [] OTHER -> Error

VbGetSystemPropertyInt(name, g) ==
  IF VbGetArchPropertyInt(name, g) # Error THEN VbGetArchPropertyInt(name, g)
  ELSE IF name \notin InKernNv THEN NvValue(g, SettingOf[name])
  ELSE IF g.ok THEN KernNvGet(name, NvValue(g, "kernel_field"))
  ELSE Error

VbGetSystemPropertyString(name, g) ==
  LET v == NvValue(g, SettingOf[name]) IN
  CASE name \in {"fw_try_next", "fw_tried", "fw_prev_tried"} -> Slot(v)
    [] name \in {"fw_result", "fw_prev_result"}              -> Named(fw_results, v)
    [] name = "dev_default_boot"                             -> Named(default_boot, v)

(***************************************************************************)
(* main: one argument after the other, up to the first error.              *)
(***************************************************************************)
Arg(p) == env.args[p][proc[p].i]

Finish(p, s, rv) ==
  [s EXCEPT !.pc = IF rv = 0 /\ s.i < Len(env.args[p]) THEN "arg" ELSE "exit",
            !.i = @ + 1, !.rv = rv]

\* VbSetNvStorage(param, value) is about to run; `after` is who called it.
CallSet(s, param, value, after) ==
  [s EXCEPT !.pc = "set_read", !.set = [param |-> param, value |-> value, after |-> after]]

\* VbSetSystemPropertyInt, once the architecture has not handled the property.
GenericSet(p, s) ==
  LET a == Arg(p) IN
  CallSet(s, SettingOf[a.name], IF a.name \in ClearOnly THEN 0 ELSE a.value,
          IF a.name \in WithBackup THEN "with_backup" ELSE "plain")

SetReturned_Retry(p, s, ok) ==
  CASE s.set.after = "arch" /\ ~ok       -> [s EXCEPT !.pc = "cmos_read"]
    [] s.set.after = "with_backup" /\ ok -> CallSet(s, "backup_nvram_request", 1, "backup")
    [] s.set.after = "plain" /\ ~ok      -> [s EXCEPT !.pc = "set_read"]
    [] s.set.after = "backup"            -> Finish(p, s, 0)
    [] OTHER                             -> Finish(p, s, IF ok THEN 0 ELSE 1)

\* VbSetNvStorage returns to its caller.
SetReturned(p, s, ok) ==
  CASE s.set.after = "arch" /\ ~ok       -> [s EXCEPT !.pc = "cmos_read"]
    [] s.set.after = "with_backup" /\ ok -> CallSet(s, "backup_nvram_request", 1, "backup")
    [] s.set.after = "backup"            -> Finish(p, s, 0)
    [] OTHER                             -> Finish(p, s, IF ok THEN 0 ELSE 1)

\* Process p now is s; what it wrote (if it wrote) and a fault end the quiet of others.
Becomes(p, s, wrote, fault) ==
  /\ proc' = [proc EXCEPT ![p] = s]
  /\ faults' = faults - fault
  /\ quiet' = IF fault > 0 THEN {} ELSE IF wrote THEN quiet \cap {p} ELSE quiet
  /\ UNCHANGED <<env, begun>>

Step(p, s, fault) == Becomes(p, s, FALSE, fault) /\ UNCHANGED <<nv, cmos, file>>

Start(p) ==
  /\ proc[p].pc = "start"
  /\ proc' = [proc EXCEPT ![p].pc = "arg"]
  /\ begun' = [begun EXCEPT ![p] = [nv |-> NvSetup(nv), cmos |-> cmos, file |-> file]]
  /\ quiet' = quiet \cup {p}
  /\ UNCHANGED <<env, nv, cmos, file, faults>>

\* PrintParam and CheckParam.
Show(p) ==
  LET a == Arg(p) IN
  /\ proc[p].pc = "arg" /\ a.op \in {"print", "check"}
  /\ \E g \in VbGetNvStorage(proc[p]) :
       LET v   == IF a.name \in IsString THEN VbGetSystemPropertyString(a.name, g)
                  ELSE VbGetSystemPropertyInt(a.name, g)
           bad == (a.name \notin IsString /\ v = Error) \/ (a.op = "check" /\ v # a.value)
           s   == IF bad \/ a.op = "check" THEN g.s ELSE [g.s EXCEPT !.out = Append(@, v)]
       IN  Step(p, Finish(p, s, IF bad THEN 1 ELSE 0), g.fault)

\* SetParam, up to the first read of the settings that VbSetNvStorage does.
SetString(p) ==
  LET a == Arg(p) vs == StringValues(a.name, a.value) IN
  /\ a.name \in IsString
  /\ \/ vs = {} /\ Step(p, Finish(p, proc[p], 1), 0)
     \/ \E v \in vs : Step(p, CallSet(proc[p], SettingOf[a.name], v, "plain"), 0)

SetKernNv_Unchecked(p) ==
  LET a == Arg(p) IN
  /\ a.name \in InKernNv
  /\ \E g \in VbGetNvStorage(proc[p]) :
       \/ /\ g.ok \/ ~(IsX86 /\ a.name = "fwupdate_tries")
          /\ Step(p, CallSet(g.s, "kernel_field",
                             KernNvWith(a.name, NvValue(g, "kernel_field") % 2 ^ 30, a.value),
                             "with_backup"), g.fault)
       \/ /\ ~g.ok /\ IsX86 /\ a.name = "fwupdate_tries"
          /\ file' = a.value
          /\ Becomes(p, Finish(p, g.s, 0), TRUE, g.fault)
          /\ UNCHANGED <<nv, cmos>>

SetKernNv(p) ==
  LET a == Arg(p) IN
  /\ a.name \in InKernNv
  /\ \E g \in VbGetNvStorage(proc[p]) :
       \/ /\ g.ok
          /\ Step(p, CallSet(g.s, "kernel_field",
                             KernNvWith(a.name, NvValue(g, "kernel_field"), a.value),
                             "with_backup"), g.fault)
       \/ /\ ~g.ok /\ IsX86 /\ a.name = "fwupdate_tries"
          /\ file' = a.value
          /\ Becomes(p, Finish(p, g.s, 0), TRUE, g.fault)
          /\ UNCHANGED <<nv, cmos>>
       \/ /\ ~g.ok /\ ~(IsX86 /\ a.name = "fwupdate_tries")
          /\ Step(p, Finish(p, g.s, 1), g.fault)

SetPlain(p) ==
  LET a == Arg(p) IN
  /\ a.name \notin IsString \cup InKernNv
  /\ Step(p, IF IsX86 /\ a.name \in DOMAIN CmosMask
             THEN CallSet(proc[p], SettingOf[a.name], a.value, "arch")
             ELSE GenericSet(p, proc[p]), 0)

SetParam(p) ==
  /\ proc[p].pc = "arg" /\ Arg(p).op = "set"
  /\ \/ Arg(p).name \notin Writable /\ Step(p, Finish(p, proc[p], 1), 0)
     \/ Arg(p).name \in Writable /\ (SetString(p) \/ SetKernNv(p) \/ SetPlain(p))

(***************************************************************************)
(* VbSetNvStorage: read the block afresh, change it, write it back.        *)
(***************************************************************************)
SetRead(p) ==
  LET s == proc[p] IN
  /\ s.pc = "set_read"
  /\ \E r \in VbReadNvStorage(s) :
       LET block   == NvSetup(r.block)
           changed == ~r.block.good \/ block.f[s.set.param] # s.set.value
           read    == [s EXCEPT !.sector = r.block]
       IN  Step(p, IF ~r.ok THEN SetReturned(p, s, FALSE)
                   ELSE IF ~changed THEN SetReturned(p, read, TRUE)
                   ELSE [read EXCEPT !.pc = "set_write",
                                     !.vnc = NvSet(block, s.set.param, s.set.value)], r.fault)

Forget_Not(s) == s

\* The block the process keeps is out of date once it writes another one.
Forget(s) == [s EXCEPT !.vnc_read = FALSE]

SetWrite(p) ==
  LET s == proc[p] IN
  /\ s.pc = "set_write"
  /\ \E w \in VbWriteNvStorage(s.vnc) :
       /\ nv' = w.nv
       /\ Becomes(p, SetReturned(p, Forget(s), w.ok), TRUE, w.fault)
       /\ UNCHANGED <<cmos, file>>

(***************************************************************************)
(* VbSetCmosRebootField: read the byte, set or clear the mask, write it.   *)
(* When it fails VbSetSystemPropertyInt tries the settings once more.      *)
(***************************************************************************)
CmosFailed(p) == faults > 0 /\ Step(p, GenericSet(p, proc[p]), 1)

CmosRead(p) ==
  /\ proc[p].pc = "cmos_read"
  /\ \/ Step(p, [proc[p] EXCEPT !.pc = "cmos_write", !.nvbyte = cmos], 0)
     \/ CmosFailed(p)

MaskSet(nvbyte, mask, value) == IF value # 0 THEN nvbyte \cup {mask} ELSE nvbyte \ {mask}

CmosWrite(p) ==
  /\ proc[p].pc = "cmos_write"
  /\ \/ /\ cmos' = MaskSet(proc[p].nvbyte, CmosMask[Arg(p).name], Arg(p).value)
        /\ Becomes(p, Finish(p, proc[p], 0), TRUE, 0)
        /\ UNCHANGED <<nv, file>>
     \/ CmosFailed(p)

(***************************************************************************)
(* Power is lost: a block that was being written is the old one, the new   *)
(* one or neither; the firmware of the next boot sets it up.               *)
(***************************************************************************)
PowerLoss ==
  /\ faults > 0 /\ faults' = faults - 1
  /\ \E p \in Procs : proc[p].pc # "exit"
  /\ \E b \in {nv} \cup UNION {{proc[p].vnc, Garbage} :
                                 p \in {q \in Procs : proc[q].pc = "set_write"}} :
       nv' = NvSetup(b)
  /\ proc' = [p \in Procs |-> [proc[p] EXCEPT !.pc = "exit"]]
  /\ quiet' = {}
  /\ UNCHANGED <<env, cmos, file, begun>>

Exited == /\ \A p \in Procs : proc[p].pc = "exit"
          /\ UNCHANGED vars

Unset == [param |-> "backup_nvram_request", value |-> 0, after |-> "plain"]

NewProc == [pc |-> "start", i |-> 1, vnc_read |-> FALSE, cached_vnc |-> Garbage,
            sector |-> Garbage, vnc |-> Garbage, set |-> Unset, nvbyte |-> {},
            rv |-> 0, out |-> << >>]

Init ==
  /\ env \in Scenarios
  /\ nv = [good |-> env.good, f |-> env.f, lost |-> FALSE]
  /\ cmos = {} /\ file = 0
  /\ faults = env.faults
  /\ proc = [p \in Procs |-> NewProc]
  /\ begun = [p \in Procs |-> [nv |-> nv, cmos |-> {}, file |-> 0]]
  /\ quiet = {}

Next ==
  \/ \E p \in Procs :
       Start(p) \/ Show(p) \/ SetParam(p) \/ SetRead(p) \/ SetWrite(p)
         \/ CmosRead(p) \/ CmosWrite(p)
  \/ PowerLoss
  \/ Exited

Spec == Init /\ [][Next]_vars /\ WF_vars(Next)

-----------------------------------------------------------------------------
(***************************************************************************)
(* Properties                                                              *)
(***************************************************************************)
Blocks == [good : BOOLEAN, f : [Params -> Nat], lost : BOOLEAN]

(* The types of the stored block, of the reboot field and of the processes *)
(* over every step of the utility.                                         *)
TypeOK ==
  /\ nv \in Blocks
  /\ cmos \subseteq {CmosMask[name] : name \in DOMAIN CmosMask}
  /\ file \in Nat /\ faults \in Nat /\ quiet \subseteq Procs
  /\ \A p \in Procs :
       /\ proc[p].pc \in {"start", "arg", "set_read", "set_write", "cmos_read", "cmos_write",
                          "exit"}
       /\ {proc[p].cached_vnc, proc[p].vnc, proc[p].sector} \subseteq Blocks
       /\ proc[p].rv \in {0, 1}

\* What one argument does to the settings, run in one piece.
Stored(st, param, value, backup) ==
  LET f == [st.f EXCEPT ![param] = VbNvFit(param, value)] IN
  IF ~HasNvStorage THEN [st EXCEPT !.rv = 1]
  ELSE [st EXCEPT !.f = IF backup THEN [f EXCEPT !["backup_nvram_request"] = 1] ELSE f]

AfterSet(st, a) ==
  CASE a.name \notin Writable -> [st EXCEPT !.rv = 1]
    [] a.name \in IsString ->
         IF StringValues(a.name, a.value) = {} THEN [st EXCEPT !.rv = 1]
         ELSE Stored(st, SettingOf[a.name], CHOOSE v \in StringValues(a.name, a.value) : TRUE,
                     FALSE)
    [] a.name = "fwupdate_tries" /\ env.arch = "x86_legacy" -> [st EXCEPT !.file = a.value]
    [] a.name \in DOMAIN CmosMask /\ env.arch = "x86_legacy" ->
         [st EXCEPT !.cmos = MaskSet(@, CmosMask[a.name], a.value)]
    [] a.name = "fwupdate_tries" ->
         Stored(st, "kernel_field",
                (st.f["kernel_field"] \div 16) * 16 + (a.value % 16), TRUE)
    [] a.name = "block_devmode" ->
         Stored(st, "kernel_field",
                (st.f["kernel_field"] \div 32) * 32 + (IF a.value # 0 THEN 16 ELSE 0)
                  + (st.f["kernel_field"] % 16), TRUE)
    [] a.name \in ClearOnly -> Stored(st, SettingOf[a.name], 0, FALSE)
    [] OTHER -> Stored(st, SettingOf[a.name], a.value, a.name \in WithBackup)

Shown(st, name) ==
  LET held(v) == IF HasNvStorage THEN v ELSE Error IN
  CASE env.arch = "x86_legacy" /\ name = "fwupdate_tries"   -> st.file
    [] env.arch = "x86_legacy" /\ name = "recovery_request" ->
         IF "CMOSRF_RECOVERY" \in st.cmos THEN 1 ELSE 0
    [] name = "loc_idx"          -> held(st.f["localization_index"])
    [] name = "kern_nv"          -> held(st.f["kernel_field"])
    [] name = "fwupdate_tries"   -> held(st.f["kernel_field"] % 16)
    [] name = "recovery_request" -> held(st.f["recovery_request"])
    [] name = "nvram_cleared"    -> held(st.f["kernel_settings_reset"])
    [] name = "fw_result"        -> Named(fw_results, held(st.f["fw_result"]))

AfterArg(st, a) ==
  CASE st.rv # 0    -> st
    [] a.op = "set" -> AfterSet(st, a)
    [] a.name \notin IsString /\ Shown(st, a.name) = Error -> [st EXCEPT !.rv = 1]
    [] a.op = "print" -> [st EXCEPT !.out = Append(@, Shown(st, a.name))]
    [] OTHER -> IF Shown(st, a.name) = a.value THEN st ELSE [st EXCEPT !.rv = 1]

AfterArgs(p) ==
  LET after[i \in 0 .. Len(env.args[p])] ==
        IF i = 0
        THEN [f |-> begun[p].nv.f, cmos |-> begun[p].cmos, file |-> begun[p].file,
              out |-> << >>, rv |-> 0]
        ELSE AfterArg(after[i - 1], env.args[p][i])
  IN  after[Len(env.args[p])]

(* A process that alone wrote the settings while it ran, without a fault,  *)
(* leaves them as if its arguments had been carried out one after the      *)
(* other up to the first error, each on the whole block: it prints what it *)
(* has just set, keeps every other setting and every other bit of kern_nv, *)
(* and leaves the backup requested exactly when it set something that is   *)
(* backed up.                                                              *)
AsIfInOnePiece ==
  \A p \in quiet :
    proc[p].pc = "exit" =>
      LET st == AfterArgs(p) IN
      /\ NvSetup(nv).f = st.f /\ cmos = st.cmos /\ file = st.file
      /\ proc[p].rv = st.rv /\ proc[p].out = st.out

Asked(name) ==
  UNION {{env.args[p][i].value : i \in {j \in 1 .. Len(env.args[p]) :
            env.args[p][j].op = "set" /\ env.args[p][j].name = name}} : p \in Procs}

(* Whatever the processes interleave, and whatever read or write fails, a  *)
(* property only ever holds what it held at first, what some process asked *)
(* for, or its default; in kern_nv that goes for each property in it, and  *)
(* the bits no property uses stay as they were or are lost with the rest.  *)
NothingInvented ==
  LET fits(param, name) == {env.f[param], 0} \cup {VbNvFit(param, v) : v \in Asked(name)}
      kern_nv == nv.f["kernel_field"]
  IN
  /\ nv.f["localization_index"] \in fits("localization_index", "loc_idx")
  /\ nv.f["recovery_request"] \in fits("recovery_request", "recovery_request")
  /\ \A name \in InKernNv :
       KernNvGet(name, kern_nv) \in {KernNvGet(name, env.f["kernel_field"]), 0}
                                      \cup {v % 16 : v \in Asked(name)}
  /\ kern_nv \div 64 \in {env.f["kernel_field"] \div 64, 0}

(* Settings are never lost in silence: after VbNvSetup has started them    *)
(* over nvram_cleared reads 1, until some process clears it.               *)
LossIsFlagged ==
  nv.lost => nv.f["kernel_settings_reset"] = 1 \/ Asked("nvram_cleared") # {}

(* No fault and no interleaving invents a setting or hides a loss. *)
SettingsHonest == NothingInvented /\ LossIsFlagged

(* Every invocation comes to its end, with its fallbacks and its retries.  *)
EveryoneExits == <>(\A p \in Procs : proc[p].pc = "exit")
=============================================================================
