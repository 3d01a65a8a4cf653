# TLA+ models of verified boot

This directory specifies the verified-boot firmware of the repository, its host
tools and its TPM stack, checks small instances with TLC and proves the central
safety properties with TLAPS. Paths below are relative to `src/`; `V/` stands for
`_vboot_reference/firmware/` and `H/` for `_vboot_reference/`.

## The system and its parts

A boot runs in this order.

1. Read-only firmware calls `VbInit()` and `VbSelectFirmware()` (`V/lib`), or the
   phases of vboot2 (`V/2lib`, `V/lib20`, `V/lib21`). It decides on recovery and
   developer mode, sets up the TPM and picks a read-write firmware slot.
2. The TPM keeps two version numbers and the mode flags
   (`V/lib/rollback_index.c`). The firmware reaches it through `tlcl`
   (`V/lib/tpm_lite`) and a register-level driver (`CBMC/tpm-fw.c`, against the
   device of `CBMC/tpm-c` or the synthesized one of `ILA/`).
3. Read-write firmware calls `VbSelectAndLoadKernel()`: it brings the embedded
   controllers (ECs) to the code of the chosen firmware, shows the developer and
   recovery screens, and calls `LoadKernel()`, which scans the partition table
   (`V/lib/cgptlib`, `V/lib/gpt_misc.c`) for a kernel, counts its tries and lets
   the kernel version roll forward.
4. The operating system takes ownership of the TPM, marks kernels and slots as
   good, installs updates (`cgpt`, `futility`) and leaves requests in NV storage
   (`crossystem`).

What goes wrong sits between these steps: power fails, a TPM command or a disk
write returns an error, NV storage is lost, an update is half done, two
processes overlap. `PROJECT.json` lists every component with its status, maps
every definition to its source lines, and lists each hazard with the properties
aimed at it.

## Modules

State machines, one action per operation or per step that touches shared state:

| Module | Models | State and actions |
|---|---|---|
| `TpmFifo` | `CBMC/tpm-c/` | The FIFO arrays, counters and PCRs; one action per register access. |
| `TpmDriver` | `CBMC/tpm-fw.c`, `TlclSendReceiveNoRetry()` | `send()`, `recv()`, `recv_helper()` as a program counter over register accesses, composed with `TpmFifo`. |
| `TpmRpc` | what a TPM call promises | A request is run at most once, as a whole; its answer is the answer to it. |
| `RollbackIndex` | `rollback_index.c` and its callers | The TPM's spaces, flags, locks and owner; one action per TPM command, over many boots. |
| `Vb1Boot` | `vboot_api_init.c`, `vboot_api_firmware.c`, `vboot_firmware.c`, `vboot_nvstorage_rollback.c` | NV storage, its backup in the TPM, two slots; a step ends where NV storage or the TPM is written. |
| `SelectKernel` | `vboot_api_kernel.c`, `vboot_audio.c`, `vboot_display.c` | Mode flags, screens, countdown, keys and buttons; an action is one call or one turn of a polling loop. |
| `EcSync` | `VbEcSoftwareSync()`, `EcUpdateImage()`, `EcProtect()` | Flash, running image and locks of each EC; one action per call that changes an EC. |
| `LoadKernel` | `vboot_kernel.c`, `cgptlib.c`, `VbTryLoadKernel()` | Kernel entries, images, TPM version; one action per candidate of the scan. |
| `GptRegister` | what the two copies of the GPT promise | One table, replaced as a whole. |
| `GptDisk` | `gpt_misc.c`, checks and repair of `cgptlib_internal.c` | Two headers and two arrays of entries on disk and in memory; each write is a step. |
| `CgptDisk` | `H/cgpt/` commands that write, `cgpt_wrapper.c` | `GptDisk` with cgpt processes on the same disk. |
| `Vb2Boot` | `2api.c`, `2misc.c`, `2secdata.c`, `lib20/api.c`, `lib20/misc.c` | NV storage, secure data, two slots; one action per API call, plus its caller, updates and faults. |
| `Vb2WorkBuf` | work buffer of `2common.c`, `lib20`, `lib21`, `V/lib20/kernel.c` | Offsets and sizes in the work buffer; an action is one vboot2 call or one allocation and read. |
| `CrosSystem` | `H/utility/crossystem.c`, `H/host/lib/crossystem.c`, `H/host/arch/` | Processes and the settings they share; every read and write of the settings is a step. |

Sequential algorithms, as operators and functions compared with reference
definitions:

| Module | Models | Called by |
|---|---|---|
| `VbStructs`, `Vb2Objects` | readers and writers of key blocks and preambles, vboot 1, 2.0 and 2.1 | `StructCalls` |
| `Digest`, `Rsa`, `Bdb` | message digests, RSA, the boot descriptor block | `CryptoCalls` |
| `NvLayout`, `ArchProps` | bytes of NV storage, the properties crossystem reads | `SettingCalls` |
| `CgptTable` | what cgpt writes into the table, labels, NOR image | `CgptCalls` |
| `Tlcl`, `IlaFifo` | TPM command library, generator and `tpmc`; the ILA simulator and its exported C | `TpmCalls` |
| `FutilBios`, `FutilKernel` | futility on firmware images and on kernel partitions | `FutilCalls` |

`MCAlgorithms` makes one behaviour of each call. `MCTpmDriver`, `MCLoadKernel`,
`MCVb2Boot`, `MCVb2WorkBuf` and `MCCrosSystem` hold the constants of the small
instances. `TpmDriverProofs`, `RollbackIndexProofs`, `GptDiskProofs`,
`Vb2BootInv`, `Vb2BootProofs`, `EcSyncInv`, `EcSyncProofs` and
`LoadKernelProofs` hold the theorems.

How they compose: `TpmDriver` contains `TpmFifo` and implements `TpmRpc`, whose
atomic command is the step of `RollbackIndex`. `GptDisk` and `CgptDisk` implement
`GptRegister`, and `LoadKernel` takes its table to be that register. `Vb1Boot`
hands its slot to `SelectKernel`, which treats EC sync and the kernel scan as
outcomes that `EcSync` and `LoadKernel` model in full. `Vb2Boot` and `Vb2WorkBuf`
are two views of one boot: its storages and its memory.

A definition named `X_Suffix` is a faulty variant of `X`, kept to show that a
property notices it.

### Abstractions

- A signature, hash or CRC check is an outcome attached to an image or a piece
  of data. A piece of the GPT is a table or `Bad`; a header of one table does not
  match the entries of another, because it holds their CRC.
- Hash compression functions are parameters: SHA-1 in `TpmFifo`, and in `Digest`
  a chaining value is the sequence of blocks compressed so far. Buffering, length
  fields and padding are kept. RSA runs on words of a few bits.
- A TPM space is undefined, unwritten, good or garbled. Writing one up to three
  times with a read-back is one step, with both outcomes of a failure.
- NV storage of vboot1 is written where `VbInit()`, `VbSelectFirmware()` and
  `VbSelectAndLoadKernel()` end; of vboot2 when the caller saves it.
- A structure in memory is the chain of records a reader finds at the offsets it
  computes; the arithmetic on those offsets keeps its width.
- Drawing is reduced to which screen is shown, sounds to their place in the
  countdown.
- The operating system, the user, the ECs, the disk and the caller of vboot2 are
  the environment, modelled from how the code uses them.

## Runs

| Run | Question | Properties |
|---|---|---|
| `tpm_driver` | Do driver and device together implement a call? | `BuffersSafe`, `CommandArrived`, `ImplementsRpc` (refinement of `TpmRpc`), `EveryCallReturns` |
| `rollback` | Is the TPM in order whenever an OS runs? | `SafeAtBoot`, `VersionsNeverDecrease`, `BootsAgain` |
| `rollback_init_retry` | Is an interrupted initialisation retried? | `InitIsRetried` (violated) |
| `vb1_firmware` | Do faults, updates and settings keep a vboot1 machine bootable, and recovery justified? | `OutcomeJustified`, `BackupKept`, `NeverLocksOut`, `Settles` |
| `select_kernel` | What may start, with a user at the keyboard? | `OsAllowed`, `TrialSafe`, `ScreensTrue`, `DevModeNeedsUser`, `Settles` |
| `ec_sync` | Do the ECs end up with the right code, protected? | `SyncedAtExit`, `FailuresContained`, `FlashDiscipline`, `Settles` |
| `load_kernel` | Does a bad update ever need recovery, or cost the fallback? | `FallbackReached`, `KeepsFallbacks`, `ReachesOs` |
| `gpt_disk` | Is the partition table ever lost or mixed? | `TableKept`, `ReplacedAsAWhole` (refinement of `GptRegister`), `OldOrNewTable` |
| `vb2_boot` | Can updates, faults or changes of mode brick or loop a vboot2 machine? | `RollForwardSafe`, `OwnerMatchesMode`, `StorageDiscipline`, `NoRebootLoop` |
| `vb2_work_buffer` | Do the users of the work buffer leave each other alone? | `BufferShared`, `KernelEarned` |
| `crossystem` | What do overlapping processes do to the settings? | `AsIfInOnePiece`, `SettingsHonest`, `EveryoneExits` |
| `algorithms` | Do the sequential algorithms compute what they should? | `StructuresExact`, `CryptographyExact`, `PlatformExact`, `CgptExact`, `FutilityExact` |

All but one pass. What the properties say is stated above each of them; several
are conjunctions of named parts, each with its own comment. Some that need a word
here:

- `StorageDiscipline` speaks of a recovery request that is newly made: a request
  left by a failed resume may be saved again by a boot that asks for a reboot.
- `OldOrNewTable` has one exception, which the code has: `GptSave()` writes both
  headers before either array, so a process killed exactly between them leaves no
  table (`"lost"` in `CgptDisk`).
- `AsIfInOnePiece` is about a process that runs alone. Overlapping processes
  write back the whole block each of them read, so the later one can undo a
  setting of the earlier one; `SettingsHonest` says what then still holds.
- `KeepsFallbacks` leaves out a kernel whose header could not be read in the boot
  that rolls forward, because the scan cannot know its version.
- `OutcomeJustified` wants the flag for the read-only path to match the slot that
  boots, unless a slot with that preamble was dropped for its kernel subkey after
  the flag was set (`vboot_firmware.c:227`).
- `OsAllowed` wants the kernel versions locked under every OS but two: the recovery
  OS, and an image fastboot verified in memory, since
  `VbVerifyMemoryBootImage()` has no `RollbackKernelLock()`.
- `ScreensTrue` has one exception for the notes of the developer tune:
  `vboot_api_kernel.c:354` frees them before it sees that the GBB forces developer
  mode, and the countdown goes on with them. `SelectKernel` then lets every note
  have any length, so nothing is claimed of the delay.
- `PlatformExact` and `CgptExact` state what the code does where it differs from
  its comments or its sibling: exit codes of `tpmc`, the GPIO chip found by its
  label, a register read of `ila_tpm.c`, labels that are too long. The last
  section lists them.
- `FutilityExact` does not say that signing a firmware image is all or nothing,
  which it is not. `BiosSignExact` states what is written when one slot cannot be
  signed (the other is, and the exit code is not 0), when the new blocks are longer
  than the area (they run on into what follows, exit code 0) and when the file
  lacks the end of an area. `BiosVerifyExact` says that `futility verify` refuses
  the last two.

`rollback_init_retry` shows where the code and a comment differ: "Do the firmware
space last, so we retry if we don't get this far" (`rollback_index.c:320`). If
power is lost after the space is defined and before it is written, every later
boot finds a space with a wrong CRC and ends in recovery.

To repeat a run: `tlc -config X.cfg M`, with the module and configuration that
`PROJECT.json` names. The five `TypeOK`s that no configuration lists and no
proof uses document the variables of their modules; they hold in the same
instances.

### Bounds

- `tpm_driver`: digests of two bytes, two PCRs and a FIFO of 20 let requests fall
  short of, fill and overflow the FIFO; response buffers are one byte too small,
  exact and larger; the burst count of 9 splits a request; three calls show state
  left over from two others.
- `rollback`: versions 0 and 1 and two faults, which suffice to fail once and to
  fail again during the repair. The proofs remove both bounds.
- `vb1_firmware`: seven boards (which of updates, settings, option ROM, resume,
  hangs reporting and GBB flags they have), slots of 13 qualities, composite
  versions of two digits (`Width` 2) that include one too large for its field,
  two updates, two faults, two tries.
- `select_kernel`: nine boards, one of which forces developer mode and has notes of
  its own, two locales, two notes of two units (a freed one reads as 0 to three),
  two faults, two tries, and four inputs of a user: enough to reach the
  confirmation dialogue, answer it and be asked again.
- `ec_sync`: two ECs, two images, one update, two failures, five boards. The
  second failure may hit the repair of the first.
- `load_kernel`: two partitions with updates, power failures and eight kinds of
  image; three partitions with every boot mode and unreadable partitions; two
  priorities, versions of one digit each for key and kernel, up to two tries.
- `gpt_disk`: three tables distinguish old, new and a third. The proofs hold for
  any set of tables.
- `vb2_boot`: three scenarios (updates, hangs, mode changes) with up to two tries,
  two updates and two faults.
- `vb2_work_buffer`: an alignment of 4 with sizes just below, at and above it,
  data keys smaller and larger than root keys, buffers that fit everything,
  one kernel or nothing, and up to three kernels.
- `crossystem`: two processes with up to three arguments, five platforms,
  consistent and inconsistent contents, at most one fault. Two processes are what
  a lost update needs.
- `algorithms`: inputs of a few bytes or words around every boundary the code
  tests for; the bound is given with each set of calls. Firmware images have areas
  of two or three bytes, key blocks that leave room, fit exactly and are one byte
  too long, files cut within each area, and a key or an allocation that fails in
  either slot.

### Fairness

Firmware is one thread that runs until it hands over, so weak fairness of its
steps is what the hardware gives: `Firmware` in `EcSync` and `Vb1Boot`,
`BootStep` in `RollbackIndex`, `Computes` and `Polls` in `SelectKernel`. In
`RollbackIndex` it includes that a machine on the recovery screen or in an OS is
some day switched off, in `Vb1Boot` and `LoadKernel` that a machine that hangs is
reset. `Vb2Boot` and `LoadKernel` state it without `ENABLED`: an OS runs again and
again, or firmware steps do. `SelectKernel` has strong fairness of the clock: the
countdown polls the timer and the timer moves. In `TpmDriver` and `CrosSystem`
the device and each process go on by themselves (weak fairness of `Next`).
Faults are counted where liveness is checked, so they end; in `LoadKernel` and
`GptDisk` a boot completes between two interruptions. No fairness is assumed of
updates, requests, users or faults.

Deadlock is checked except where the modelled activity ends: one call
(`algorithms`), three calls (`tpm_driver`), one boot (`vb2_work_buffer`), a
machine switched off after its inputs are used up (`select_kernel`).

## Proofs

TLAPS checks the following for all values of the constants that satisfy the named
assumptions. `PROJECT.json` lists them with the run property each one states; 16
of the 40 properties of the passing runs are proved. Except for the two
refinements and the action properties, the shape is the usual one: an inductive
invariant, one lemma per action that it is kept, and the property from it. Some
leaves name a solver twice (`SMTT(30), SMTT(60)`): the second is a new attempt
where the translation to SMT may run out of time on a busy machine.

**TPM driver and device** (`TpmDriverProofs`; `FifoAssumption`,
`DriverAssumption`). `FifoIndexSafety` is about the device under an arbitrary
host: index safety is not inductive, because the input count stops at the size of
the FIFO only if the full state is left together with a reset. `DriverInv` then
follows the driver: what of the request is in the FIFO while it sends
(`SendInv`), what an answer looks like (`AnswerInv`), how far recv() is and how
much room is left (`RecvInv`), and which state a call leaves for the next one
(`CallInv`). From it: `BuffersStaySafe`, `CommandArrives` and
`DriverImplementsRpc`, the refinement of `TpmRpc`. The assumptions say that a
request has its length in its size field, as every request of `tlcl` does, and
that a response buffer holds a header.

**Rollback spaces** (`RollbackIndexProofs`; `RollbackAssumption`: both bounds are
natural numbers). The invariant follows the position of the boot, taking the
return point of `TPMClearAndReenable()` while it runs (`ReturnInv`).
`VersionInv`: initialisation runs only while the firmware space does not exist,
and both versions are then 0. `ModeInv`: the owner has the recorded mode, and the
record changes only while there is none. `LockInv`: which locks are set by then.
From it: `OwnerSafety`, `RootOfTrustHolds`, their conjunction `BootIsSafe`, and
`VersionsMonotone`.

**vboot2 boot** (`Vb2BootInv`, `Vb2BootProofs`; `Vb2Assumption`: the scenarios
are records of their type). The invariant ties the context of a boot to what the
storages keep. `CtxInv`: what the context has been through at each call.
`OwnerInv`: the owner has the mode of secdata until a call clears it. `ProvenInv`:
a result of success stands for a slot an OS reported as good. `UsableInv`: the
slot an OS runs from stays new enough while the other is written. `ClearInv`: a
report of a cleared owner is true. `AttemptInv`: a result of failure stands for
the last attempt counted. From it: `OwnerFollowsMode`, `RollForwardIsSafe`,
`StorageIsDisciplined`.

**EC software sync** (`EcSyncInv`, `EcSyncProofs`; `EcSyncAssumption`: one or two
ECs, at least one image, boards with the known flags). The invariant says, for
each position of `VbEcSoftwareSync()`, what is known of the EC it deals with
(`Updating`, `Protecting`, `Writing`), what it left in the ECs before
(`Earlier`, `Finished`), how a recovery request came about (`Causes`), and how a
torn RO region is accounted for (`RoKept`). From it: `SyncLeavesEcsRight` and
`FailuresStayContained`, for boards with a precomputed EC hash, and
`FlashIsDisciplined` for every board. The restriction is the code's: on a board
without one, `EcUpdateImage()` compares the written image with a hash at address
0, so what the comparison says of the flash is open.

**Kernel selection** (`LoadKernelProofs`; `LoadKernelAssumption`). At each step
of the scan the partitions are divided into those passed and those still ahead.
The invariant says that the entries ahead are untouched and that the lowest
version met bounds every kernel passed (`RollForwardKeepsFallbacks`); that the
partitions seen are the bootable ones passed, in order (`SeenInv`, from which
`ScanIsInOrder`); and that some partition is always marked successful and holds a
signed, whole kernel not below the TPM's version, which the scan leaves alone and
does not pass without having found a good kernel (`EntryInv`, `SureInv`, from
which `FallbackIsReached`). The last theorem has the hypothesis
`Dependable`: a scenario either allows partitions that cannot be read, of which
nothing is claimed, or boots in normal mode with a buffer given by the caller and
is delivered with good kernels. `MCLoadKernel` assumes `Dependable` of its
scenarios, so TLC evaluates it.

**Partition table** (`GptDiskProofs`; `GptAssumption`: `Bad` is not a table;
`CgptAssumption`: an empty and a clipped table are tables). The firmware's
invariant says that outside a write one copy is intact; during a write that may
still be cut short, the unwritten pieces hold one old table and are a tail of the
order h1, e1, h2, e2 unless old and new are equal. `TornIntact` and `OldOrNew`
draw the consequence for a torn write. For cgpt, `CgptInv` adds that the disk of
before the command was intact (`OpenedInv`), which table the command's copy holds
(`AimInv`), and which pieces of it are on the media (`SavedInv`, `SaveInv`). From
it: `TableIsKept`, `CopiesImplementRegister` (the refinement of `GptRegister`)
and `CommandsAreWhole`, all of the composed system `CgptSpec`.

Only model-checked:

- all liveness: fairness and `ENABLED` are beyond the prover;
- the algorithms: they recurse over data, and induction over data is beyond it;
- `Vb1Boot`, `SelectKernel`, `CrosSystem` and `Vb2WorkBuf`. Their invariants need
  much of the state of a whole boot (histories of settings and faults, ghost
  copies of the settings, buffer contents), and their bounds on inputs and faults
  already exceed what one failure and its repair need.

## What the results do not cover

Assumptions of the models:

- `GptDisk`, `CgptDisk` and `LoadKernel` let a boot write its table in full
  between two failures; with two torn writes in a row both copies can be bad. In
  legacy mode failures are excluded, and `cgpt legacy` and `cgpt legacy -e` are
  not cut short. `cgpt repair` is not run on a disk in legacy mode.
- `Vb2WorkBuf` takes sizes to be below 2^32 minus the alignment.
- `TpmDriver` sends requests with a right size field and at least six bytes.
  `test_tpm.c:5` also allows shorter ones, for which the assertion at
  `CBMC/tpm-fw.c:121` does not hold.
- `Tlcl` scales `OPEN_RETRY_MAX_NUM` from 500 to 3.
- An EC, a disk, NV storage and a TPM fail in the ways their interfaces report,
  or lose power; they do not lie.

One hazard in `PROJECT.json` has no property (`gpt_misc.c:140`); its note says
why. Components that are not modelled are listed there with the reason: the QEMU
driver (its device is outside the repository), option parsing and printing,
constant tables, stubs, scripts and the test suite.

### Behaviour of the code that the models reproduce

The models follow the code in these places, where a comment, a document or a
sibling implementation suggests something else. The properties are stated so that
they hold with this behaviour.

vboot1:

- The NV backup's comment speaks of three fields (`vboot_api_init.c:331`); six
  are treated so.
  `dev_default_boot` is written without a request for a backup.
- `VbInit()` in recovery mode acknowledges the owner-clear request although
  clearing failed (`vboot_api_init.c:253-257`).
- `VbTryLoadKernel()` replaces the reason its comment at line 180 says is kept.
- With a NULL buffer the first candidate's header decides where a later kernel is
  loaded (`vboot_api_kernel.c:1161`).
- Two places compare the answer of `VbExEcRunningRW()` with 1, although
  `vboot_api.h:878` allows any non-zero value.
- The external-GPT flag of a disk stays set for the disks after it
  (`vboot_api_kernel.c:155`).

vboot2:

- `vb2_select_fw_slot()` keeps `TRY_NEXT` when the count runs out (`2misc.c:389`,
  against `2nvstorage.h:31`). With the NOFAIL flag tries are never counted down.
- The developer-disable request is cleared before the owner is; if clearing the
  owner then fails, the request is gone (`2nvstorage.h:61`).
- Kernels in recovery mode are still subject to the rollback check. After running
  out of kernels, phase 3 uses the last one's version if roll-forward is allowed.
- `V/lib20/kernel.c:293` sizes the kernel preamble's header by
  `vb2_fw_preamble`. Created key blocks and preambles of vboot 2.1 take their
  minor version from the major one. `VerifyKernelPreamble()` does not compare the preamble's size with
  that of its signed data; `vb2_verify_keyblock_hash()` not the hash's size.

TPM stack:

- `COMMAND_READY` does not reset the device's command size. A command the device
  rejects is answered without an error code, and `tlcl` reads success
  (`tlcl.c:139-142` asserts otherwise). `TlclRead()` copies as many bytes as the
  response says.
- The exported ILA function differs from its simulator on FIFO reads, on GO and on
  READY with output pending, and does not become full; `ila_tpm.c` uses `=` for
  `==` and returns no value for delegated accesses; its malformed answer begins
  with 0xFF at index 1, that of `tpm_run_cmd.c` with 0. The `=`
  makes every read of the FIFO or of the burst count leave the device sending.
  `IlaFifo` models each as written.
- `HexStringToUint8()` cuts 64 bits to 32 and reads an empty string as 0.
- `tpmc` does not always exit with 255 for an error that is not the TPM's
  (`tpmc.c:8-9`): the stub ends the process with 1 unless `TPM_NO_EXIT` is set, and
  a request for too many random bytes gives 31.

Partition table and cgpt:

- `cgpt prioritize` copies the primary array over the secondary one even if only
  the latter was valid. `legacy -e` recomputes the CRC over the zeroed array.
- `CgptSetAttributes()` and `CgptGetPartitionDetails()` refuse the last partition.
- `UTF8ToUTF16()` and `UTF16ToUTF8()` truncate and return `CGPT_OK`, against
  their comments (`cgpt_common.c:436-437`, `525-526`), so `cgpt add` stores the
  beginning of a label that is too long. A label that cannot be converted ends the search of
  its drive. A boot number lookup also matches unused entries with old GUIDs.

crossystem:

- Flags that "can only be cleared" can come back from the block an overlapping
  process read earlier.
- A failed NV write on x86 falls back to CMOS and succeeds, and a later get reads
  NV. Errors of `fclose()` and of reading the disk on ARM are ignored.
- `FindGpioChipOffsetByLabel()` returns the offset of the last chip it looked at,
  not of the one with the label (`crossystem_arch.c:478`).
- Settings such as `fw_try_next` read an error as "B"; every failed set is
  reported as read-only; the `0xFFFFFFFF` kernel field looks like an error.

futility and bdb:

- `PickApartVmlinuz()` looks for "--" in the configuration before it is copied
  (`vb1_helper.c:189` and `705`). `get-vmlinuz` writes the header and the whole
  blob. `--repack` ignores `--flags` when the preamble has flags, `sign` does not.
- `fmap_limit_area()` writes 0 into the mapped FMAP of a truncated image, although
  `file_type_bios.c:404` says nothing is changed, and a VBLOCK that is lacking is
  written at the start of the image; the loop with the comment "abort on error"
  (line 485) goes on. `sign_bios_at_end()` goes on after a slot that failed, and
  `write_new_preamble()` does not compare sizes with the area.
- Signing with the output named as the input loses the file; a type that cannot be
  signed leaves a copy in the output. `write_to_file` truncates before it writes.
- A GBB created without a hardware id has no digest until one is set.
- The digests keep the length of a message in bits in 32 bits (except the SHA-1
  of cryptolib); Montgomery exponentiation needs a modulus whose top bit is set.
