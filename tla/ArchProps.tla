----------------------------- MODULE ArchProps ------------------------------
(***************************************************************************)
(* The read-only properties of crossystem: what the host library makes of  *)
(* the tables the firmware left (host/lib/crossystem.c, host/arch/*/lib).  *)
(*                                                                         *)
(* A file of /sys or of the device tree that cannot be read is Error.      *)
(***************************************************************************)
EXTENDS Integers, Sequences, FiniteSets, TLC

Error == -1

First(s, Test(_)) ==
  LET hits == {i \in 1 .. Len(s) : Test(s[i])}
  IN  IF hits = {} THEN 0 ELSE CHOOSE i \in hits : \A j \in hits : i <= j

(***************************************************************************)
(* GPIO controllers.  chips is /sys/class/gpio in the order readdir() has  *)
(* it: the number in the name of each gpiochip directory, its label, its   *)
(* uid.  A finder returns whether it found the controller, the number it   *)
(* left in *offset, and the pin relative to the controller.                *)
(***************************************************************************)
Found(ok, offset, gpio_num) == [ok |-> ok, offset |-> offset, gpio_num |-> gpio_num]

\* *offset after sscanf() has read every entry.
LastOffset(chips) == IF chips = << >> THEN 0 ELSE chips[Len(chips)].offset

FindGpioChipOffset(chips, gpio_num, name) ==
  Found(Len(chips) = 1, LastOffset(chips), gpio_num)

FindGpioChipOffsetByLabel(chips, gpio_num, name) ==
  Found(Cardinality({i \in 1 .. Len(chips) : chips[i].label = name}) = 1,
        LastOffset(chips), gpio_num)

\* The first range of the table, which descends to 0, that the number is in.
BankOf(data, gpio_num) == First(data, LAMBDA m : gpio_num >= m.base)

FindGpioChipOffsetByNumber(chips, gpio_num, data) ==
  LET m == data[BankOf(data, gpio_num)]
      i == First(chips, LAMBDA c : c.uid = m.uid)
  IN  IF m.uid = 0 \/ i = 0 THEN Found(FALSE, 0, gpio_num - m.base)
      ELSE Found(TRUE, chips[i].offset, gpio_num - m.base)

Basemapping(base, uid) == [base |-> base, uid |-> uid]

BraswellFindGpioChipOffset(chips, gpio_num, name) ==
  FindGpioChipOffsetByNumber(chips, gpio_num,
    <<Basemapping(131072, 0), Basemapping(98304, 4), Basemapping(65536, 3),
      Basemapping(32768, 2), Basemapping(0, 1)>>)

BayTrailFindGpioChipOffset(chips, gpio_num, name) ==
  FindGpioChipOffsetByNumber(chips, gpio_num,
    <<Basemapping(12288, 0), Basemapping(8192, 3), Basemapping(4096, 2), Basemapping(0, 1)>>)

OnlyChip == {"NM10", "CougarPoint", "PantherPoint", "LynxPoint", "PCH-LP"}
ByLabel  == {"INT3437:00", "INT344B:00"}

ChipOffsetAndGpioNumber(name, chips, gpio_num) ==
  CASE name \in OnlyChip  -> FindGpioChipOffset(chips, gpio_num, name)
    [] name \in ByLabel   -> FindGpioChipOffsetByLabel(chips, gpio_num, name)
    [] name = "BayTrail"  -> BayTrailFindGpioChipOffset(chips, gpio_num, name)
    [] name = "Braswell"  -> BraswellFindGpioChipOffset(chips, gpio_num, name)
    [] OTHER              -> Found(FALSE, 0, gpio_num)

\* The value of a pin, exported first where it is not yet.
PinValue(t, pin) ==
  IF pin \in t.exported \/ (t.can_export /\ pin \in t.pins) THEN t.level[pin] ELSE Error

\* ReadGpio, on the tables t: gpios is the ACPI table (type, active_high 0 or 1, num, name).
ReadGpio(t, signal_type) ==
  LET i == First(t.gpios, LAMBDA g : g.type = signal_type) IN
  IF i = 0 THEN Error
  ELSE LET g == t.gpios[i]
           c == ChipOffsetAndGpioNumber(g.name, t.chips, g.num)
       IN  IF g.num = Error \/ ~c.ok THEN Error
           ELSE IF PinValue(t, c.offset + c.gpio_num) = Error THEN Error
           ELSE IF (PinValue(t, c.offset + c.gpio_num) # 0) <=> (g.active_high = 1) THEN 1
           ELSE 0

(***************************************************************************)
(* VbSharedData: got is the bytes that were found, v1 and full the sizes   *)
(* of the two versions of its header.                                      *)
(***************************************************************************)
NoData == [struct_version |-> Error]

VbSharedDataRead(sh, sizes) ==
  LET expect_size == IF sh.struct_version = 1 THEN sizes.v1 ELSE sizes.full
  IN  IF sh.got < expect_size THEN NoData
      ELSE [sh EXCEPT !.data_size = IF @ > sh.got THEN sh.got ELSE @]

V1Flags == [tried_fwb |-> "FWB_TRIED", kernkey_vfy |-> "KERNEL_KEY_VERIFIED",
            fw_vboot2 |-> "BOOT_FIRMWARE_VBOOT2"]

V2Flags == [devsw_boot |-> "BOOT_DEV_SWITCH_ON", devsw_virtual |-> "HONOR_VIRT_DEV_SWITCH",
            recoverysw_boot |-> "BOOT_REC_SWITCH_ON", wpsw_boot |-> "BOOT_FIRMWARE_WP_ENABLED",
            sw_wpsw_boot |-> "BOOT_FIRMWARE_SW_WP_ENABLED"]

IsSet(f, flags) == IF f \in flags THEN 1 ELSE 0

GetVdatInt(sh, field) ==
  CASE sh.struct_version = Error       -> Error
    [] field = "header_version"        -> sh.struct_version
    [] field \in DOMAIN V1Flags        -> IsSet(V1Flags[field], sh.flags)
    [] sh.struct_version < 2           -> Error
    [] field \in DOMAIN V2Flags        -> IsSet(V2Flags[field], sh.flags)
    [] field = "recovery_reason"       -> sh.recovery_reason
    [] OTHER                           -> Error

VbSharedDataVersion(sh) == GetVdatInt(sh, "header_version")

(***************************************************************************)
(* The x86 fallbacks of machines whose firmware has no VbSharedData, or an *)
(* old one: the CHSW flags and the BINF codes of the ACPI tables.          *)
(***************************************************************************)
BINF0_NORMAL == 1
BINF0_DEVELOPER == 2
RecoveryCodes == 3 .. 8
BINF0_RECOVERY_TPM_ERROR == 11

VbReadMainFwType(t) ==
  CASE t.binf3 \in 0 .. 3 -> <<"recovery", "normal", "developer", "netboot">>[t.binf3 + 1]
    [] t.binf0 = Error           -> "nonchrome"
    [] t.binf0 = BINF0_NORMAL    -> "normal"
    [] t.binf0 = BINF0_DEVELOPER -> "developer"
    [] t.binf0 \in RecoveryCodes \cup {BINF0_RECOVERY_TPM_ERROR} -> "recovery"
    [] OTHER -> "none"

LegacyReason == [c \in RecoveryCodes |->
                   (3 :> 2 @@ 4 :> 65 @@ 5 :> 3 @@ 6 :> 66 @@ 7 :> 67 @@ 8 :> 1)[c]]

VbGetRecoveryReason(t) ==
  CASE t.binf4 # Error             -> t.binf4
    [] t.binf0 \in {BINF0_NORMAL, BINF0_DEVELOPER} -> 0
    [] t.binf0 \in RecoveryCodes   -> LegacyReason[t.binf0]
    [] OTHER                       -> Error

ReadFileBit(word, mask) == IF word = {"unreadable"} THEN Error ELSE IsSet(mask, word)

\* Mario reports its write protect switch backwards.
FlipOnMario(t, value) == IF value # Error /\ t.mario THEN 1 - value ELSE value

OldSwitch(t, name) ==
  CASE name = "devsw_boot"      -> ReadFileBit(t.chsw, "CHSW_DEV_BOOT")
    [] name = "recoverysw_boot" -> ReadFileBit(t.chsw, "CHSW_RECOVERY_BOOT")
    [] name = "wpsw_boot"       -> FlipOnMario(t, ReadFileBit(t.chsw, "CHSW_WP_BOOT"))
    [] name = "recovery_reason" -> VbGetRecoveryReason(t)
    [] OTHER                    -> Error

\* VbGetSystemPropertyInt of a switch or a reason: the architecture first, then VbSharedData.
X86Property(t, sh, name) ==
  LET arch == IF VbSharedDataVersion(sh) < 2 THEN OldSwitch(t, name) ELSE Error
  IN  IF arch # Error THEN arch ELSE GetVdatInt(sh, name)

\* devsw_cur and wpsw_cur.
DevswCur(t, sh) ==
  IF GetVdatInt(sh, "header_version") # Error /\ "HONOR_VIRT_DEV_SWITCH" \in sh.flags
  THEN X86Property(t, sh, "devsw_boot")
  ELSE ReadGpio(t, "dev")

WpswCur(t) == FlipOnMario(t, ReadGpio(t, "wp"))

(***************************************************************************)
(* Whether the kernel command line or the developer switch allows debug.   *)
(***************************************************************************)
VbScanBuildOption(cmdline) ==
  LET i == First(cmdline, LAMBDA w : w \in {"cros_debug", "cros_nodebug"})
  IN  IF i = 0 THEN "unknown" ELSE cmdline[i]

VbGetCrosDebug(cmdline, devsw_boot) ==
  CASE VbScanBuildOption(cmdline) = "cros_debug"   -> 1
    [] VbScanBuildOption(cmdline) = "cros_nodebug" -> 0
    [] OTHER -> IF devsw_boot = 1 THEN 1 ELSE 0

(***************************************************************************)
(* The trace of LoadKernel() calls in VbSharedData: LoadKernel writes it,  *)
(* GetVdatLoadKernelDebug prints it.  history[c] is the number of kernel   *)
(* partitions call c looked at; an entry of the trace is named by its call *)
(* and, for a partition, its place in the call.                            *)
(***************************************************************************)
VBSD_MAX_KERNEL_CALLS == 4
VBSD_MAX_KERNEL_PARTS == 8

NoCall == [call |-> 0, kernel_parts_found |-> 0, parts |-> << >>]

\* The partitions of one call, as LoadKernel tracks them.
TrackParts(call, n) ==
  LET shpart[k \in 0 .. n] ==
        IF k = 0 THEN [i \in 0 .. VBSD_MAX_KERNEL_PARTS - 1 |-> <<0, 0>>]
        ELSE [shpart[k - 1] EXCEPT ![(k - 1) % VBSD_MAX_KERNEL_PARTS] = <<call, k>>]
  IN  shpart[n]

CallSlot(lk_call_count) == lk_call_count % VBSD_MAX_KERNEL_CALLS

\* sh->lk_calls after the calls of history.
TrackCalls(history) ==
  LET lk_calls[k \in 0 .. Len(history)] ==
        IF k = 0 THEN [i \in 0 .. VBSD_MAX_KERNEL_CALLS - 1 |-> NoCall]
        ELSE [lk_calls[k - 1] EXCEPT ![CallSlot(k - 1)] =
                [call |-> k, kernel_parts_found |-> history[k],
                 parts |-> TrackParts(k, history[k])]]
  IN  lk_calls[Len(history)]

FirstTracked(count, max) == IF count > max THEN count - max ELSE 0

\* The paragraphs GetVdatLoadKernelDebug prints.
Paragraphs(lk_calls, lk_call_count) ==
  LET Call(call) ==
        LET shc   == lk_calls[call % VBSD_MAX_KERNEL_CALLS]
            first == FirstTracked(shc.kernel_parts_found, VBSD_MAX_KERNEL_PARTS)
        IN  <<<<shc.call>>>> \o [i \in 1 .. shc.kernel_parts_found - first |->
               shc.parts[(first + i - 1) % VBSD_MAX_KERNEL_PARTS]]
      first == FirstTracked(lk_call_count, VBSD_MAX_KERNEL_CALLS)
      Text[call \in first .. lk_call_count] ==
        IF call = lk_call_count THEN << >> ELSE Call(call) \o Text[call + 1]
  IN  <<<< >>>> \o Text[first]

\* The paragraphs into a buffer of size bytes; width[k] is the length of a paragraph whose
\* name has k parts, TRUNCATED the length of the warning.  used is what all would take;
\* snprintf() writes up to one byte short of its limit.
GetVdatLoadKernelDebug(lk_calls, lk_call_count, size, width, TRUNCATED) ==
  LET ps   == Paragraphs(lk_calls, lk_call_count)
      room == size - (TRUNCATED + 1)
      Put[k \in 1 .. Len(ps) + 1, used \in Nat] ==
        IF k > Len(ps) \/ used > room THEN [used |-> used, printed |-> SubSeq(ps, 1, k - 1)]
        ELSE Put[k + 1, used + width[Len(ps[k])]]
      out  == Put[1, 0]
      text == IF out.used >= room THEN room - 1 ELSE out.used
  IN  [ok        |-> room >= 0,
       printed   |-> out.printed,
       lost      |-> out.used - text,
       truncated |-> out.used > room,
       length    |-> IF out.used > room THEN text + TRUNCATED ELSE text]
=============================================================================
