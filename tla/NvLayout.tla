------------------------------ MODULE NvLayout ------------------------------
(***************************************************************************)
(* The 16 bytes of non-volatile storage and the two libraries that read    *)
(* and write them: firmware/lib/vboot_nvstorage.c (vboot1, and the host's  *)
(* crossystem) and firmware/2lib/2nvstorage.c (vboot2).  Each has its own  *)
(* table of where a setting lives and its own rule for values that do not  *)
(* fit.  raw[i + 1] is the byte at offset i.                               *)
(***************************************************************************)
EXTENDS Integers, Sequences

VBNV_BLOCK_SIZE == 16
CRC_OFFSET == 15

\* A setting of `width` bits from bit `low` of the byte at offset `off`.
At(off, low, width) == [off |-> off, low |-> low, width |-> width]

Bit(off, low) == At(off, low, 1)

(***************************************************************************)
(* The constants of vboot_nvstorage.c.                                     *)
(***************************************************************************)
VbNvLayout ==
  [firmware_settings_reset |-> Bit(0, 5), kernel_settings_reset |-> Bit(0, 4),
   req_wipeout |-> Bit(0, 3), debug_reset_mode |-> Bit(1, 7),
   disable_dev_request |-> Bit(1, 6), oprom_needed |-> Bit(1, 5),
   backup_nvram_request |-> Bit(1, 4), try_count |-> At(1, 0, 4),
   recovery_request |-> At(2, 0, 8), localization_index |-> At(3, 0, 8),
   dev_boot_usb |-> Bit(4, 0), dev_boot_signed_only |-> Bit(4, 1),
   dev_boot_legacy |-> Bit(4, 2), dev_boot_fastboot_full_cap |-> Bit(4, 3),
   dev_default_boot |-> At(4, 4, 2), clear_tpm_owner_request |-> Bit(5, 0),
   clear_tpm_owner_done |-> Bit(5, 1), tpm_requested_reboot |-> Bit(5, 2),
   recovery_subcode |-> At(6, 0, 8), fw_result |-> At(7, 0, 2),
   fw_tried |-> Bit(7, 2), fw_try_next |-> Bit(7, 3),
   fw_prev_result |-> At(7, 4, 2), fw_prev_tried |-> Bit(7, 6),
   fastboot_unlock_in_fw |-> Bit(8, 0), boot_on_ac_detect |-> Bit(8, 1),
   try_ro_sync |-> Bit(8, 2), kernel_field |-> At(11, 0, 32)]

(***************************************************************************)
(* The constants of 2nvstorage_fields.h, in its order.                     *)
(***************************************************************************)
vb2_nv_layout ==
  [req_wipeout |-> Bit(0, 3), kernel_settings_reset |-> Bit(0, 4),
   firmware_settings_reset |-> Bit(0, 5), try_count |-> At(1, 0, 4),
   backup_nvram_request |-> Bit(1, 4), oprom_needed |-> Bit(1, 5),
   disable_dev_request |-> Bit(1, 6), debug_reset_mode |-> Bit(1, 7),
   fw_result |-> At(7, 0, 2), fw_tried |-> Bit(7, 2), fw_try_next |-> Bit(7, 3),
   fw_prev_result |-> At(7, 4, 2), fw_prev_tried |-> Bit(7, 6),
   dev_boot_usb |-> Bit(4, 0), dev_boot_signed_only |-> Bit(4, 1),
   dev_boot_legacy |-> Bit(4, 2), dev_boot_fastboot_full_cap |-> Bit(4, 3),
   dev_default_boot |-> At(4, 4, 2), clear_tpm_owner_request |-> Bit(5, 0),
   clear_tpm_owner_done |-> Bit(5, 1), tpm_requested_reboot |-> Bit(5, 2),
   fastboot_unlock_in_fw |-> Bit(8, 0), boot_on_ac_detect |-> Bit(8, 1),
   try_ro_sync |-> Bit(8, 2), recovery_request |-> At(2, 0, 8),
   localization_index |-> At(3, 0, 8), recovery_subcode |-> At(6, 0, 8),
   kernel_field |-> At(11, 0, 32)]

Params == DOMAIN VbNvLayout

RECOVERY_LEGACY == 1
DEV_DEFAULT_BOOT_DISK == 0
FW_RESULT_UNKNOWN == 0

(***************************************************************************)
(* The check byte (crc8.c and 2crc8.c): CRC-8 with polynomial x^8+x^2+x+1, *)
(* in the high byte of a 16-bit register.                                  *)
(***************************************************************************)
Xor[a \in Nat, b \in Nat] ==
  IF a = 0 /\ b = 0 THEN 0
  ELSE 2 * Xor[a \div 2, b \div 2] + (IF a % 2 = b % 2 THEN 0 ELSE 1)

\* if (crc & 0x8000) crc ^= (0x1070 << 3); crc <<= 1
CrcBit(crc) == (2 * (IF crc >= 32768 THEN Xor[crc, 33664] ELSE crc)) % 65536

CrcBits[n \in 0 .. 8, crc \in 0 .. 65535] ==
  IF n = 0 THEN crc ELSE CrcBits[n - 1, CrcBit(crc)]

Crc8(data) ==
  LET from[j \in 1 .. Len(data) + 1, crc \in 0 .. 65535] ==
        IF j > Len(data) THEN crc \div 256
        ELSE from[j + 1, CrcBits[8, Xor[crc, data[j] * 256]]]
  IN  from[1, 0]

vb2_crc8(data) == Crc8(data)

Covered(raw) == SubSeq(raw, 1, CRC_OFFSET)

WithCrc(raw) == Append(Covered(raw), Crc8(Covered(raw)))

(***************************************************************************)
(* Setup and teardown.  A context holds the bytes and the flags of the     *)
(* library; the settings of inconsistent data start over, marked as lost.  *)
(***************************************************************************)
HeaderOk(raw) == raw[1] \div 64 = 1

Lost == <<112>> \o [i \in 1 .. VBNV_BLOCK_SIZE - 1 |-> 0]

VbNvSetup(raw) ==
  LET bad == ~HeaderOk(raw) \/ Crc8(Covered(raw)) # raw[CRC_OFFSET + 1]
  IN  [raw |-> IF bad THEN Lost ELSE raw, regenerate_crc |-> bad, raw_changed |-> FALSE]

VbNvTeardown(c) ==
  IF c.regenerate_crc
  THEN [raw |-> WithCrc(c.raw), regenerate_crc |-> FALSE, raw_changed |-> TRUE]
  ELSE c

vb2_nv_check_crc(raw) == HeaderOk(raw) /\ vb2_crc8(Covered(raw)) = raw[CRC_OFFSET + 1]

vb2_nv_init(raw) ==
  IF vb2_nv_check_crc(raw) THEN [raw |-> raw, changed |-> FALSE]
  ELSE [raw |-> WithCrc(Lost), changed |-> TRUE]

(***************************************************************************)
(* Reading and writing one setting.                                        *)
(***************************************************************************)
Read(raw, at) ==
  IF at.width = 32
  THEN raw[at.off + 1] + 256 * (raw[at.off + 2] + 256 * (raw[at.off + 3] + 256 * raw[at.off + 4]))
  ELSE (raw[at.off + 1] \div 2 ^ at.low) % 2 ^ at.width

Store(raw, at, value) ==
  IF at.width = 32
  THEN SubSeq(raw, 1, at.off)
         \o [i \in 1 .. 4 |-> (value \div 256 ^ (i - 1)) % 256]
         \o SubSeq(raw, at.off + 5, Len(raw))
  ELSE [raw EXCEPT ![at.off + 1] = @ + (value - Read(raw, at)) * 2 ^ at.low]

\* A flag is set by any value but 0; a number that does not fit is clipped, mapped to a
\* default, or (the subcode) truncated.
VbNvFit(param, value) ==
  CASE param = "try_count"          -> IF value > 15  THEN 15 ELSE value
    [] param = "recovery_request"   -> IF value > 255 THEN RECOVERY_LEGACY ELSE value
    [] param = "recovery_subcode"   -> value % 256
    [] param = "localization_index" -> IF value > 255 THEN 0 ELSE value
    [] param = "kernel_field"       -> value
    [] param = "dev_default_boot"   -> IF value > 3 THEN DEV_DEFAULT_BOOT_DISK ELSE value
    [] param \in {"fw_result", "fw_prev_result"} ->
                                       IF value > 3 THEN FW_RESULT_UNKNOWN ELSE value
    [] OTHER                        -> IF value # 0 THEN 1 ELSE 0

vb2_nv_fit(param, value) ==
  CASE param = "try_count"          -> IF value > 15 THEN 15 ELSE value
    [] param \in {"fw_result", "fw_prev_result"} ->
                                       IF value > 3 THEN FW_RESULT_UNKNOWN ELSE value
    [] param = "recovery_request"   -> IF value > 255 THEN RECOVERY_LEGACY ELSE value
    [] param = "recovery_subcode"   -> value % 256
    [] param = "localization_index" -> IF value > 255 THEN 0 ELSE value
    [] param = "kernel_field"       -> value
    [] param = "dev_default_boot"   -> IF value > 3 THEN DEV_DEFAULT_BOOT_DISK ELSE value
    [] OTHER                        -> IF value # 0 THEN 1 ELSE 0

VbNvGet(raw, param) == Read(raw, VbNvLayout[param])

VbNvSet(c, param, value) ==
  IF VbNvGet(c.raw, param) = value THEN c
  ELSE [c EXCEPT !.raw = Store(@, VbNvLayout[param], VbNvFit(param, value)),
                 !.regenerate_crc = TRUE]

vb2_nv_get(raw, param) == Read(raw, vb2_nv_layout[param])

vb2_nv_set(c, param, value) ==
  IF vb2_nv_get(c.raw, param) = value THEN c
  ELSE [raw |-> WithCrc(Store(c.raw, vb2_nv_layout[param], vb2_nv_fit(param, value))),
        changed |-> TRUE]
=============================================================================
