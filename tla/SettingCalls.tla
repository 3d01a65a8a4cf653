---------------------------- MODULE SettingCalls ----------------------------
(***************************************************************************)
(* Calls of NvLayout (the settings in NV storage) and of ArchProps (the    *)
(* read-only properties of crossystem) on bounded inputs.                  *)
(***************************************************************************)
EXTENDS StructCalls, TLC

L == INSTANCE NvLayout

Block(header, boot, dev, boot2, kern) ==
  L!WithCrc(<<header, boot, 5, 1, dev, 7, 9, boot2, 5, 0, 0>> \o kern \o <<0>>)

NvBlocks ==
  {Block(64, 0, 0, 0, <<0, 0, 0, 0>>), Block(120, 255, 63, 127, <<255, 1, 2, 127>>),
   Block(80, 163, 21, 90, <<33, 0, 128, 3>>)}

NvValues == {0, 1, 2, 3, 4, 15, 16, 255, 256, 65793}

NvSets == [fn : {"nv_set"}, raw : NvBlocks, param : L!Params, value : NvValues]

\* One byte of a consistent block is changed by the bits of a mask.
NvSetups == [fn : {"nv_setup"}, raw : NvBlocks, at : 1 .. L!VBNV_BLOCK_SIZE,
             bits : {0, 1, 7, 64, 128, 129, 255}]

NvInputs == call \in NvSets \cup NvSetups

Damaged == [call.raw EXCEPT ![call.at] = L!Xor[@, call.bits]]

NvSet ==
  Return("nv_set",
         [vb1 |-> L!VbNvTeardown(L!VbNvSet(L!VbNvSetup(call.raw), call.param, call.value)),
          vb2 |-> L!vb2_nv_set(L!vb2_nv_init(call.raw), call.param, call.value)])

NvSetup ==
  Return("nv_setup", [vb1 |-> L!VbNvTeardown(L!VbNvSetup(Damaged)),
                      vb2 |-> L!vb2_nv_init(Damaged)])

NvNext == call.fn \in {"nv_set", "nv_setup"} /\ (NvSet \/ NvSetup)

(* The two libraries write the same bytes for the same setting, agree on   *)
(* whether they changed any and read every setting alike: "These constants *)
(* must match the equivalent constants in 2lib/2nvstorage.c."              *)
NvLibrariesAgree ==
  Returned("nv_set") \/ Returned("nv_setup") =>
    /\ result.vb1.raw = result.vb2.raw
    /\ result.vb1.raw_changed = result.vb2.changed
    /\ \A q \in L!Params : L!VbNvGet(result.vb1.raw, q) = L!vb2_nv_get(result.vb1.raw, q)

\* What a setting holds after a value was stored in it.
Held(param, value) ==
  LET width == L!VbNvLayout[param].width IN
  CASE width = 32 -> value
    [] width = 1  -> IF value = 0 THEN 0 ELSE 1
    [] value < 2 ^ width -> value
    [] param = "try_count" -> 15
    [] param = "recovery_request" -> L!RECOVERY_LEGACY
    [] param = "recovery_subcode" -> value % 256
    [] OTHER -> 0

(* Storing a setting changes that setting alone, to the value or to what   *)
(* stands for a value that does not fit, and leaves a consistent block.    *)
NvSetIsolated ==
  Returned("nv_set") =>
    /\ \A q \in L!Params :
         L!vb2_nv_get(result.vb2.raw, q) =
           IF q = call.param THEN Held(q, call.value) ELSE L!vb2_nv_get(call.raw, q)
    /\ L!vb2_nv_check_crc(result.vb2.raw)

(* Damage within one byte never goes unnoticed: the block is started over, *)
(* with both reset flags up and every other setting zero, and it is        *)
(* consistent again.                                                       *)
NvDamageNoticed ==
  Returned("nv_setup") =>
    LET raw == result.vb1.raw IN
    /\ L!vb2_nv_check_crc(raw)
    /\ IF call.bits = 0 THEN raw = call.raw
       ELSE \A q \in L!Params :
              L!VbNvGet(raw, q) =
                IF q \in {"firmware_settings_reset", "kernel_settings_reset"} THEN 1 ELSE 0

A == INSTANCE ArchProps

(***************************************************************************)
(* GPIO: the chips of a machine in each order a directory may list them,   *)
(* and a pin of the ACPI table.                                            *)
(***************************************************************************)
Chip(offset, label, uid) == [offset |-> offset, label |-> label, uid |-> uid]

ChipOrders ==
  LET lp  == Chip(100, "INT3437:00", 1)
      ec  == Chip(20, "cros_ec", 2)
      aux == Chip(300, "aux", 3)
      top == Chip(400, "top", 4)
  IN  {<< >>, <<lp>>, <<ec, lp>>, <<lp, ec>>, <<ec, aux, lp>>, <<aux, top, ec, lp>>,
       <<lp, ec, aux, top>>}

Pins == {0, 6, 15}

GpioNumbers(name) ==
  CASE name = "BayTrail" -> {b * 4096 + p : b \in 0 .. 3, p \in Pins}
    [] name = "Braswell" -> {b * 32768 + p : b \in 0 .. 4, p \in Pins}
    [] OTHER             -> Pins

GpioReads ==
  UNION {[fn : {"gpio"}, name : {n}, num : GpioNumbers(n) \cup {A!Error}, chips : ChipOrders,
          asserted : BOOLEAN, active_high : {0, 1}, exported : BOOLEAN] :
         n \in {"PantherPoint", "INT3437:00", "BayTrail", "Braswell", "unlisted"}}

BankSize(name) == IF name = "BayTrail" THEN 4096 ELSE 32768

\* Whether a chip carries the pin of the call, by the comments of the finders, and its number.
Carries(c) ==
  CASE call.name = "PantherPoint" -> Len(call.chips) = 1
    [] call.name = "INT3437:00"   -> c.label = call.name
    [] call.name = "unlisted"     -> FALSE
    [] call.name = "BayTrail"     -> c.uid < 4 /\ c.uid = call.num \div BankSize(call.name) + 1
    [] OTHER                      -> c.uid = call.num \div BankSize(call.name) + 1

Carrier == A!First(call.chips, Carries)

Pin == IF Carrier = 0 \/ call.num = A!Error THEN A!Error
       ELSE call.chips[Carrier].offset + (call.num % BankSize(call.name))

\* The machine: the pin has the level that asserts it or not, every other pin the opposite.
GpioTables ==
  LET level == IF call.asserted THEN call.active_high ELSE 1 - call.active_high
      pins  == (0 .. 450) \cup {Pin}
  IN  [gpios |-> <<[type |-> "recovery", active_high |-> 0, num |-> 3, name |-> call.name],
                   [type |-> "wp", active_high |-> call.active_high, num |-> call.num,
                    name |-> call.name]>>,
       chips |-> call.chips, pins |-> pins, can_export |-> TRUE,
       exported |-> IF call.exported THEN pins ELSE {},
       level |-> [p \in pins |-> IF p = Pin THEN level ELSE 1 - level]]

ReadGpio == Return("gpio", A!ReadGpio(GpioTables, "wp"))

(* ReadGpio answers with the pin the ACPI table means and its polarity, or *)
(* with an error when no controller carries that pin.  The controllers     *)
(* found by label are the exception: FindGpioChipOffsetByLabel() leaves    *)
(* the offset of the last chip the directory lists, whichever chip has the *)
(* label, so that the answer is that of a pin of the last chip.            *)
GpioPinExact ==
  Returned("gpio") =>
    result = IF Pin = A!Error THEN A!Error
             ELSE IF call.asserted # (call.name \in A!ByLabel /\ Carrier # Len(call.chips)) THEN 1 ELSE 0

(***************************************************************************)
(* Switches: the firmware of a generation records how they stood at boot.  *)
(* Mario has the CHSW flags only; the next ones have VbSharedData version  *)
(* 1 beside them; version 2 holds the switches itself.                     *)
(***************************************************************************)
HeaderSizes == [v1 |-> 10, full |-> 12]

SwitchReads ==
  [fn : {"switches"}, gen : {"mario", "v1", "v2"}, dev : BOOLEAN, rec : BOOLEAN, wp : BOOLEAN,
   virtual : BOOLEAN, reason : {0, 2, 65}, tail : {0, 5}]

Reasons == 0 :> 1 @@ 2 :> 3 @@ 65 :> 4

When(b, f) == IF b THEN {f} ELSE {}

Chsw ==
  When(call.dev, "CHSW_DEV_BOOT") \cup When(call.rec, "CHSW_RECOVERY_BOOT")
    \cup When(call.wp # (call.gen = "mario"), "CHSW_WP_BOOT")

Recorded ==
  CASE call.gen = "mario" -> [struct_version |-> 1, got |-> 0]
    [] call.gen = "v1"    -> [struct_version |-> 1, got |-> HeaderSizes.v1, data_size |-> HeaderSizes.v1,
                              flags |-> {"KERNEL_KEY_VERIFIED"}]
    [] OTHER ->
         [struct_version |-> 2, got |-> HeaderSizes.full, data_size |-> HeaderSizes.full + call.tail,
          recovery_reason |-> call.reason,
          flags |-> When(call.dev, "BOOT_DEV_SWITCH_ON") \cup When(call.rec, "BOOT_REC_SWITCH_ON")
                      \cup When(call.wp, "BOOT_FIRMWARE_WP_ENABLED")
                      \cup When(call.virtual, "HONOR_VIRT_DEV_SWITCH")]

\* The pins read as they stand now: a virtual developer switch has none.
BootTables ==
  LET binf == call.gen = "mario"
      wire == IF call.wp # (call.gen = "mario") THEN 1 ELSE 0
  IN  [chsw |-> Chsw, mario |-> call.gen = "mario",
       binf0 |-> IF binf THEN Reasons[call.reason] ELSE A!Error,
       binf3 |-> A!Error,
       binf4 |-> IF binf \/ call.gen = "v2" THEN A!Error ELSE call.reason,
       gpios |-> <<[type |-> "wp", active_high |-> 1, num |-> 1, name |-> "NM10"]>>
                   \o (IF call.virtual /\ call.gen = "v2" THEN << >>
                       ELSE <<[type |-> "dev", active_high |-> 0, num |-> 2, name |-> "NM10"]>>),
       chips |-> <<Chip(10, "NM10", 1)>>, pins |-> {11, 12}, can_export |-> TRUE,
       exported |-> {},
       level |-> 11 :> wire @@ 12 :> IF call.dev THEN 0 ELSE 1]

SwitchProperties == {"devsw_boot", "recoverysw_boot", "wpsw_boot", "recovery_reason"}

ReadSwitches ==
  LET sh == A!VbSharedDataRead(Recorded, HeaderSizes) IN
  Return("switches",
         [boot |-> [p \in SwitchProperties |-> A!X86Property(BootTables, sh, p)],
          dev  |-> A!DevswCur(BootTables, sh), wp |-> A!WpswCur(BootTables),
          type |-> A!VbReadMainFwType(BootTables),
          debug |-> A!VbGetCrosDebug(<<"root=/dev/dm-0">>, A!X86Property(BootTables, sh, "devsw_boot"))])

Bit(b) == IF b THEN 1 ELSE 0

(* Whatever generation of firmware recorded them, the switches at boot and *)
(* the recovery reason read back as they were, and the current developer   *)
(* and write protect switches as they stand: Mario's inverted wire and the *)
(* missing pin of a virtual switch make no difference, and debugging is    *)
(* allowed exactly with the developer switch where nothing else decides.   *)
SwitchesExact ==
  Returned("switches") =>
    /\ result.boot = [p \in SwitchProperties |->
          CASE p = "devsw_boot"      -> Bit(call.dev)
            [] p = "recoverysw_boot" -> Bit(call.rec)
            [] p = "wpsw_boot"       -> Bit(call.wp)
            [] OTHER                 -> call.reason]
    /\ result.dev = Bit(call.dev) /\ result.wp = Bit(call.wp)
    /\ result.debug = Bit(call.dev)
    /\ call.gen = "mario" => (result.type = "recovery") = (call.reason # 0)

(***************************************************************************)
(* The trace of LoadKernel() calls.                                        *)
(***************************************************************************)
Width == 0 :> 4 @@ 1 :> 6 @@ 2 :> 5
Warning == 3

Histories == UNION {[1 .. n -> {0, 1}] : n \in 0 .. 6} \cup
             UNION {[1 .. n -> {7, 8, 9, 17}] : n \in 0 .. 2} \cup {<<9, 0, 8, 1, 17>>}

DebugReads == [fn : {"lk_debug"}, history : Histories, size : {5, 9, 14, 30, 31, 34, 400}]

LoadKernelDebug ==
  Return("lk_debug",
         A!GetVdatLoadKernelDebug(A!TrackCalls(call.history), Len(call.history),
                                  call.size, Width, Warning))

\* What there is to tell: the last calls, each with its last partitions.
Told ==
  LET n == Len(call.history)
      Latest(m, k) == {i \in 1 .. m : i > m - k}
      Names == {<<c>> : c \in Latest(n, 4)} \cup
               UNION {{<<c, p>> : p \in Latest(call.history[c], 8)} : c \in Latest(n, 4)}
      Rank(e) == e[1] * 100 + (IF Len(e) = 1 THEN 0 ELSE e[2])
  IN  [i \in 1 .. Cardinality(Names) |->
         CHOOSE e \in Names : Cardinality({f \in Names : Rank(f) < Rank(e)}) = i - 1]

(* The report of the LoadKernel() calls tells the last four calls and the  *)
(* last eight partitions of each, oldest first, however often the trace    *)
(* wrapped; it stays inside the caller's buffer, and what does not fit is  *)
(* announced, but for a single final character.                            *)
LkDebugExact ==
  Returned("lk_debug") /\ result.ok =>
    LET all == <<<< >>>> \o Told IN
    /\ result.printed = SubSeq(all, 1, Len(result.printed))
    /\ Len(result.printed) = Len(all) \/ result.truncated
    /\ result.lost > 1 => result.truncated
    /\ call.size > Warning + 1 => result.length < call.size

ArchInputs == call \in GpioReads \cup SwitchReads \cup DebugReads

ArchNext ==
  call.fn \in {"gpio", "switches", "lk_debug"} /\ (ReadGpio \/ ReadSwitches \/ LoadKernelDebug)
=============================================================================
