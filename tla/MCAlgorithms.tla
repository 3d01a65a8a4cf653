---------------------------- MODULE MCAlgorithms ----------------------------
(***************************************************************************)
(* One call of one of the sequential algorithms of the library.            *)
(***************************************************************************)
EXTENDS StructCalls, CryptoCalls, SettingCalls, CgptCalls, TpmCalls, FutilCalls

Init ==
  /\ done = FALSE
  /\ result = [vb1 |-> FALSE, vb2 |-> FALSE]
  /\ StructInputs \/ CryptoInputs \/ NvInputs \/ ArchInputs \/ CgptInputs \/ IlaInputs
     \/ TlclInputs \/ FutilInputs \/ KpartInputs

Next == StructNext \/ CryptoNext \/ NvNext \/ ArchNext \/ CgptNext \/ IlaNext \/ TlclNext
        \/ FutilNext \/ KpartNext

Spec == Init /\ [][Next]_vars

----------------------------------------------------------------------------
(* The test that a member lies inside its structure is exact in both         *)
(* libraries (VerifyMemberInside(), vb2_verify_member_inside()).  A key      *)
(* block or a preamble that a verifier accepts has all its members inside    *)
(* and under its signature (KeyBlockVerify(), VerifyFirmwarePreamble(),      *)
(* vb2_verify_keyblock(), vb2_verify_fw_preamble() ...); what vb2 accepts,    *)
(* vboot1 accepts too; and both accept what the host library creates.        *)
StructuresExact ==
  /\ MemberInsideExact /\ Vb2MemberInside /\ KeyBlockCovered /\ PreambleCovered
  /\ BootloaderInBody /\ ReadersAgree /\ HostAccepted /\ HostKeyRoundTrip
  /\ Keyblock21Covered /\ Preamble21Covered /\ Host21Accepted

(* Digests do not depend on how the data is fed, the Montgomery arithmetic   *)
(* computes the power it stands for with every limb and carry at its limits, *)
(* a signature is accepted exactly when its padding is complete, and a boot  *)
(* descriptor block exactly when all of it is covered (2sha*.c, 2rsa.c,      *)
(* rsa.c, bdb.c).                                                            *)
CryptographyExact ==
  /\ DigestExact /\ ChunkedDigestExact /\ MontgomeryExact /\ SignatureExact
  /\ BdbSignatureExact /\ KeyBufferExact /\ BdbCovered /\ BdbCreateAccepted

(* What the host reads of the platform is what is there: the two layouts of  *)
(* NV storage, the GPIOs and switches behind crossystem, the TPM command     *)
(* library with its generator and tpmc, and the TPM models for the           *)
(* instruction-level abstraction.                                            *)
PlatformExact ==
  /\ NvLibrariesAgree /\ NvSetIsolated /\ NvDamageNoticed
  /\ GpioPinExact /\ SwitchesExact /\ LkDebugExact
  /\ GeneratorAgrees /\ TlclCallExact /\ TpmcExact /\ IlaAnswers /\ IlaDeviceExact

(* The cgpt commands leave a table that the firmware accepts and that says   *)
(* what was asked for, but for the end of a label that is too long, and find *)
(* exactly the partitions asked for (cgpt_add.c, cgpt_prioritize.c,          *)
(* cgpt_create.c, cgpt_find.c, cgpt_common.c, cgpt_nor.c).                   *)
CgptExact ==
  /\ AddKeepsLegal /\ AttributesReadBack /\ PrioritizeKeepsOrder /\ CreateAccepted
  /\ FindExact /\ LabelExact /\ NorExact

(* futility does what it was asked to the file it was asked to write, and    *)
(* what it signs or packs verifies if it fits.  What signing a firmware      *)
(* image leaves behind when one slot fails, when the new blocks do not fit   *)
(* and when the file is cut short is stated exactly (cmd_gbb_utility.c,      *)
(* file_type_bios.c, cmd_sign.c, cmd_show.c, vb1_helper.c).                  *)
FutilityExact ==
  /\ GbbSetExact /\ GbbCreateExact /\ BiosSignExact /\ BiosVerifyExact
  /\ SignTouchesOutputOnly /\ ShowLooksAtAll /\ KernelPackExact /\ KernelResignExact
=============================================================================
