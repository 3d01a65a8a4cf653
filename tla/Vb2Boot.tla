------------------------------ MODULE Vb2Boot ------------------------------
(***************************************************************************
 Firmware selection of vboot 2 over many boots: vb2api_fw_phase1(), phase2(),
 phase3() and the body hash (2api.c, 2misc.c, lib20), run by a caller that
 saves nvdata and secdata after each call as 2api.h asks, with two firmware
 slots that the running OS updates.  Power may fail between any two steps.

 Each vb2_ function is an operator from a context to a context; an API call
 is one action.  Versions are the composite 32-bit versions.
 ***************************************************************************)
EXTENDS Integers

CONSTANT Scenarios   \* what may happen in the behaviours of a run, a set of records

AllFlags == {"WANTS_REBOOT", "FORCE_RECOVERY", "FORCE_DEV", "DISABLE_DEV", "NOFAIL"}
AllFaults == {"power", "nv", "sec_torn", "sec_read", "gbb", "clear", "flash", "early"}
AllQualities == {"good", "corrupt", "bad_body", "rw_fails", "hangs"}

ASSUME Vb2Assumption ==
    Scenarios \subseteq [version : Nat, tries : 1..15, updates : Nat, faults : Nat,
                         kinds : SUBSET AllFaults, qualities : SUBSET AllQualities,
                         flags : SUBSET AllFlags, requests : SUBSET {"disable_dev", "clear_request"},
                         gbb : SUBSET {"force_dev", "no_rollback"}]

Slots    == {0, 1}           \* A and B
Results  == {"unknown", "trying", "success", "failure"}
Reasons  == {"none", "early", "tpm_reboot", "secdata_init", "gbb_header", "clear_owner",
             "dev_switch", "invalid_rw", "rw_firmware", "manual"}

VARIABLES
    env,       \* the scenario of this behaviour
    nv,        \* nvdata in its storage
    sec,       \* secdata in its storage
    owner,     \* TPM owner: "none" or the mode of the OS that took it
    slots,     \* the firmware slots
    pc,
    ctx,       \* vb2_context and vb2_shared_data of this boot
    proven,    \* history: versions an OS booted and reported as good
    attempts,  \* history: the last two attempts to boot a slot, latest last
    updates, faults

vars == <<env, nv, sec, owner, slots, pc, ctx, proven, attempts, updates, faults>>

MaxTries    == env.tries       \* bound on the try count an update asks for
MaxUpdates  == env.updates     \* bound on updates
MaxFaults   == env.faults      \* bound on faults
Versions    == 0..env.version  \* the firmware versions
FaultKinds  == env.kinds       \* the faults that may happen
Qualities   == env.qualities   \* what an update may leave in a slot
CallerFlags == env.flags       \* the context flags a caller may set
Requests    == env.requests    \* what the OS may request through nvdata
GbbFlags    == env.gbb         \* the flags of the GBB

BadNv == [valid |-> FALSE]   \* wrong header or CRC

(* vb2_nv_init() on inconsistent data. *)
NvDefaults ==
    [try_next |-> 0, try_count |-> 0, tried |-> 0, result |-> "unknown",
     prev_tried |-> 0, prev_result |-> "unknown", recovery |-> "none", subcode |-> "none",
     rebooted |-> FALSE, disable_dev |-> FALSE, clear_request |-> FALSE, clear_done |-> FALSE]

(* The context at power on: nvdata and secdata as read, shared data all zero. *)
Context(n, s, flags) ==
    [nv |-> n, sec |-> s, flags |-> flags, changed |-> {}, status |-> {}, slot |-> 0,
     last_slot |-> 0, last_result |-> "unknown", reason |-> "none", gbb |-> {},
     sec_version |-> 0, cleared |-> FALSE, ok |-> TRUE]

Init ==
    /\ env \in Scenarios
    /\ nv = NvDefaults
    /\ sec \in [valid : {TRUE}, dev : {FALSE}, last_dev : {FALSE}, version : {0}]
    /\ owner = "none"
    /\ slots = [s \in Slots |-> [quality |-> "good", version |-> 0]]
    /\ pc = "off" /\ ctx = Context(nv, sec, {})
    /\ proven = {0}
    /\ attempts = <<[slot |-> 0, failed |-> FALSE], [slot |-> 0, failed |-> FALSE]>>
    /\ updates = 0 /\ faults = 0

Fault(kind) == kind \in FaultKinds /\ faults < MaxFaults /\ faults' = faults + 1
NoFault     == UNCHANGED faults
MayFault(kind, ok) == IF ok THEN NoFault ELSE Fault(kind)

(***************************************************************************
 The functions of 2misc.c
 ***************************************************************************)
vb2_nv_init(c) ==
    [c EXCEPT !.nv = IF @ = BadNv THEN NvDefaults ELSE @, !.status = @ \cup {"NV_INIT"}]

(* Was the other slot tried in the last boot, and did it fail? *)
OtherFailed_NoResult(c) == c.last_slot = 1 - c.slot
OtherFailed(c) == c.last_slot = 1 - c.slot /\ c.last_result = "failure"

NextSlot(c)       == 1 - c.slot

vb2_fail(c0, reason) ==
    LET c == IF "NV_INIT" \in c0.status THEN c0 ELSE vb2_nv_init(c0)
        chose == "CHOSE_SLOT" \in c.status
        n == IF chose THEN [c.nv EXCEPT !.result = "failure", !.try_count = 0,
                                        !.try_next = NextSlot(c)]
             ELSE c.nv
    IN [c EXCEPT !.ok = FALSE,
                 !.nv = IF (chose /\ ~OtherFailed(c)) \/ n.recovery # "none" THEN n
                        ELSE [n EXCEPT !.recovery = reason, !.subcode = "code"]]

vb2_secdata_init(c) ==
    IF c.sec.valid
    THEN [c EXCEPT !.status = @ \cup {"SECDATA_INIT"}, !.sec_version = c.sec.version]
    ELSE vb2_fail(c, "secdata_init")

vb2_fw_parse_gbb(c, gbb_ok) ==
    IF gbb_ok THEN [c EXCEPT !.gbb = GbbFlags] ELSE vb2_fail(c, "gbb_header")

(* A subcode without a request was left by the 'broken' screen. *)
vb2_check_recovery(c) ==
    LET requested == c.nv.recovery
        reason == IF "FORCE_RECOVERY" \notin c.flags THEN requested
                  ELSE IF requested = "none" /\ c.nv.subcode # "none" THEN c.nv.subcode
                  ELSE "manual"
    IN [c EXCEPT !.reason = reason, !.nv.recovery = "none", !.nv.subcode = "none",
                 !.status = IF reason = "none" THEN @ ELSE @ \cup {"RECOVERY_MODE"}]

RecoveryMode(c) == "RECOVERY_MODE" \in c.status
DevMode(c)      == "DEVELOPER_MODE" \in c.status

(* Clearing the owner comes before the new flags are kept. *)
SetDevFlags_Always(c, dev, last_dev, clear_ok) ==
    [c EXCEPT !.sec.dev = dev, !.sec.last_dev = last_dev, !.cleared = clear_ok]
SetDevFlags(c, dev, last_dev, clear_ok) ==
    IF clear_ok
    THEN [c EXCEPT !.sec.dev = dev, !.sec.last_dev = last_dev, !.cleared = TRUE]
    ELSE vb2_fail(c, "clear_owner")

vb2_check_dev_switch(c0, clear_ok) ==
    LET c == [c0 EXCEPT !.ok = TRUE]
        use_secdata == "SECDATA_INIT" \in c.status
        old_dev  == use_secdata /\ c.sec.dev
        old_last == use_secdata /\ c.sec.last_dev
        disable  == use_secdata /\ c.nv.disable_dev
        dev      == old_dev /\ ~disable /\ "DISABLE_DEV" \notin c.flags
        is_dev   == dev \/ "FORCE_DEV" \in c.flags \/ "force_dev" \in c.gbb
        d == [c EXCEPT !.nv.disable_dev = @ /\ ~disable,
                       !.status = IF is_dev THEN @ \cup {"DEVELOPER_MODE"} ELSE @]
    IN IF ~use_secdata /\ ~RecoveryMode(c) THEN [c EXCEPT !.ok = FALSE]
       ELSE IF dev = old_dev /\ is_dev = old_last THEN d
       ELSE IF use_secdata THEN SetDevFlags(d, dev, is_dev, clear_ok)
       ELSE [d EXCEPT !.cleared = clear_ok]

vb2_check_tpm_clear(c, clear_ok) ==
    LET d == [c EXCEPT !.nv.clear_request = FALSE]
    IN IF ~c.nv.clear_request THEN c
       ELSE IF clear_ok THEN [d EXCEPT !.nv.clear_done = TRUE, !.cleared = TRUE]
       ELSE vb2_fail(d, "clear_owner")

(* The last try was used up by a boot that never reported back. *)
OutOfTries(n) == n.result = "trying" /\ n.tried = n.try_next /\ n.try_count = 0

vb2_select_fw_slot(c) ==
    LET n == c.nv
        slot == IF OutOfTries(n) THEN 1 - n.try_next ELSE n.try_next
        tries == IF "NOFAIL" \in c.flags \/ n.try_count = 0 THEN n.try_count ELSE n.try_count - 1
    IN [c EXCEPT !.last_slot = n.tried, !.last_result = n.result, !.slot = slot,
                 !.status = @ \cup {"CHOSE_SLOT"},
                 !.nv = [n EXCEPT !.prev_tried = n.tried, !.prev_result = n.result,
                                  !.result = IF n.try_count > 0 THEN "trying" ELSE "unknown",
                                  !.try_next = slot, !.try_count = tries, !.tried = slot]]

(***************************************************************************
 The API calls.  A call returns a context, marks what the caller has to
 save, and is followed by `next', or by a reboot when it failed.
 ***************************************************************************)
Saved == ctx.changed = {}

Return(c, next) ==
    /\ ctx' = [c EXCEPT !.changed = {d \in {"nv", "sec"} : c[d] # ctx[d]}]
    /\ owner' = IF c.cleared /\ ~ctx.cleared THEN "none" ELSE owner
    /\ pc' = next
    /\ UNCHANGED <<nv, sec, slots, proven, updates>>

(* Errors before the start of vboot are reported first. *)
vb2api_fail_early ==
    /\ pc = "phase1" /\ Saved /\ Fault("early")
    /\ Return([vb2_fail(ctx, "early") EXCEPT !.ok = TRUE], "phase1")
    /\ UNCHANGED attempts

RebootLoop_Ignored(c) == FALSE
RebootLoop(c) == "WANTS_REBOOT" \in c.flags /\ c.nv.rebooted
FirstReboot(c) == "WANTS_REBOOT" \in c.flags /\ ~RebootLoop(c)

vb2api_fw_phase1 ==
    /\ pc = "phase1" /\ Saved
    /\ \E gbb_ok, clear_ok \in BOOLEAN :
        LET c0 == vb2_nv_init(ctx)
            c1 == IF RebootLoop(c0) THEN vb2_fail(c0, "tpm_reboot")
                  ELSE [c0 EXCEPT !.nv.rebooted = FALSE]
            c2 == vb2_check_recovery(vb2_fw_parse_gbb(vb2_secdata_init(c1), gbb_ok))
            c3 == vb2_check_dev_switch(c2, clear_ok)
        IN /\ gbb_ok \/ clear_ok
           /\ MayFault(IF gbb_ok THEN "clear" ELSE "gbb", gbb_ok /\ clear_ok)
           /\ \/ FirstReboot(c0) /\ Return([c0 EXCEPT !.nv.rebooted = TRUE], "reboot")
              \/ ~FirstReboot(c0) /\ RecoveryMode(c3) /\ Return(c3, "recovery")
              \/ ~FirstReboot(c0) /\ ~RecoveryMode(c3) /\ ~c3.ok
                 /\ Return(vb2_fail(c3, "dev_switch"), "reboot")
              \/ ~FirstReboot(c0) /\ ~RecoveryMode(c3) /\ c3.ok /\ Return(c3, "phase2")
    /\ UNCHANGED attempts

(* Resuming from S3 stays with the slot of the last boot and does not count
   as an attempt. *)
vb2api_fw_phase2 ==
    /\ pc = "phase2" /\ Saved
    /\ \/ /\ "S3_RESUME" \in ctx.flags
          /\ NoFault
          /\ Return([ctx EXCEPT !.slot = ctx.nv.tried], "phase3")
       \/ /\ "S3_RESUME" \notin ctx.flags
          /\ \E clear_ok \in BOOLEAN :
               LET c == vb2_check_tpm_clear(ctx, clear_ok)
               IN /\ MayFault("clear", clear_ok)
                  /\ IF c.ok THEN Return(vb2_select_fw_slot(c), "phase3")
                     ELSE Return(c, "reboot")
    /\ UNCHANGED attempts

Attempt(failed) ==
    attempts' = IF "CHOSE_SLOT" \notin ctx.status THEN attempts
                ELSE <<attempts[2], [slot |-> ctx.slot, failed |-> failed]>>

AttemptFailed ==
    attempts' = IF "CHOSE_SLOT" \notin ctx.status THEN attempts
                ELSE <<attempts[1], [attempts[2] EXCEPT !.failed = TRUE]>>

TooOld(c, version) == version < c.sec_version /\ "no_rollback" \notin c.gbb

(* The version in secdata follows a newer slot that was the last one to boot
   successfully. *)
MayRollForward_AnyResult(c, version) == version > c.sec_version /\ c.last_slot = c.slot
MayRollForward(c, version) ==
    version > c.sec_version /\ c.last_slot = c.slot /\ c.last_result = "success"

RollForward(c, version) ==
    IF MayRollForward(c, version)
    THEN [c EXCEPT !.sec_version = version, !.sec.version = version] ELSE c

(* Keyblock and preamble, of the slot the context names. *)
vb2api_fw_phase3 ==
    /\ pc = "phase3" /\ Saved
    /\ \E read_ok \in BOOLEAN :
        LET fw == slots[ctx.slot]
            good == read_ok /\ fw.quality # "corrupt" /\ ~TooOld(ctx, fw.version)
        IN /\ MayFault("flash", read_ok)
           /\ Attempt(~good)
           /\ IF good THEN Return(RollForward(ctx, fw.version), "hash")
              ELSE Return(vb2_fail(ctx, "invalid_rw"), "reboot")

vb2api_check_hash ==
    /\ pc = "hash" /\ Saved
    /\ \E read_ok \in BOOLEAN :
        /\ MayFault("flash", read_ok)
        /\ IF read_ok /\ slots[ctx.slot].quality # "bad_body"
           THEN Return(ctx, "rw") /\ UNCHANGED attempts
           ELSE Return(vb2_fail(ctx, "invalid_rw"), "reboot") /\ AttemptFailed

(* The RW firmware selects and starts a kernel, or reports its failure. *)
vb2api_fail ==
    /\ pc = "rw" /\ slots[ctx.slot].quality = "rw_fails"
    /\ Return(vb2_fail(ctx, "rw_firmware"), "reboot") /\ AttemptFailed
    /\ NoFault

(***************************************************************************
 The caller and the RW firmware (outside this library)
 ***************************************************************************)
PowerOn ==
    /\ pc \in {"off", "s3"}
    /\ \E sec_ok \in BOOLEAN, flags \in SUBSET CallerFlags :
        /\ MayFault("sec_read", sec_ok)
        /\ pc = "s3" => flags \cap {"FORCE_DEV"} = ctx.flags \cap {"FORCE_DEV"}
        /\ ctx' = Context(nv, [sec EXCEPT !.valid = @ /\ sec_ok],
                          IF pc = "s3" THEN flags \cup {"S3_RESUME"} ELSE flags)
    /\ pc' = "phase1"
    /\ UNCHANGED <<nv, sec, owner, slots, proven, attempts, updates>>

SaveNv ==
    /\ pc # "off" /\ "nv" \in ctx.changed
    /\ \/ nv' = ctx.nv /\ ctx' = [ctx EXCEPT !.changed = @ \ {"nv"}] /\ NoFault /\ UNCHANGED pc
       \/ nv' = BadNv /\ pc' = "off" /\ Fault("nv") /\ UNCHANGED ctx
    /\ UNCHANGED <<sec, owner, slots, proven, attempts, updates>>

SaveSec ==
    /\ pc # "off" /\ "sec" \in ctx.changed
    /\ \/ sec' = ctx.sec /\ ctx' = [ctx EXCEPT !.changed = @ \ {"sec"}] /\ NoFault /\ UNCHANGED pc
       \/ sec' = [ctx.sec EXCEPT !.valid = FALSE] /\ pc' = "off" /\ Fault("sec_torn")
          /\ UNCHANGED ctx
    /\ UNCHANGED <<nv, owner, slots, proven, attempts, updates>>

Goto(from, to) ==
    /\ pc = from /\ Saved /\ pc' = to
    /\ NoFault
    /\ UNCHANGED <<nv, sec, owner, slots, ctx, proven, attempts, updates>>

Reboot == Goto("reboot", "off")

StartOs == slots[ctx.slot].quality = "good" /\ Goto("rw", "os")

(* The RW firmware hangs until someone holds the power button. *)
Hang == slots[ctx.slot].quality = "hangs" /\ Goto("rw", "off")

PowerFail ==
    /\ pc # "off" /\ pc' = "off" /\ Fault("power")
    /\ UNCHANGED <<nv, sec, owner, slots, ctx, proven, attempts, updates>>

(* The battery of the NV storage fails. *)
NvLost ==
    /\ pc = "off" /\ nv' = BadNv /\ Fault("nv")
    /\ UNCHANGED <<sec, owner, slots, pc, ctx, proven, attempts, updates>>

(* VbBootRecovery(): the 'broken' screen leaves the reason for a manual
   recovery to find; the screen of a manual recovery may turn on the virtual
   developer switch. *)
RecoveryScreen ==
    /\ pc = "recovery" /\ Saved /\ pc' = "off"
    /\ \/ /\ "FORCE_RECOVERY" \notin ctx.flags
          /\ nv' = [nv EXCEPT !.subcode = ctx.reason] /\ UNCHANGED sec
       \/ /\ "FORCE_RECOVERY" \in ctx.flags
          /\ \/ UNCHANGED sec
             \/ ~DevMode(ctx) /\ sec.valid /\ sec' = [sec EXCEPT !.dev = TRUE]
          /\ UNCHANGED nv
    /\ NoFault
    /\ UNCHANGED <<owner, slots, ctx, proven, attempts, updates>>

(***************************************************************************
 The running OS (outside this library)
 ***************************************************************************)
OsUnchanged == pc = "os" /\ UNCHANGED <<sec, pc, ctx, attempts, faults>>

OsMarksGood ==
    /\ OsUnchanged
    /\ nv' = [nv EXCEPT !.result = "success"]
    /\ proven' = proven \cup {slots[ctx.slot].version}
    /\ UNCHANGED <<owner, slots, updates>>

(* An update goes to the slot that is not running, and is then tried. *)
OsWritesSlot ==
    /\ OsUnchanged
    /\ updates < MaxUpdates /\ updates' = updates + 1
    /\ \E q \in Qualities, v \in Versions :
        slots' = [slots EXCEPT ![1 - ctx.slot] = [quality |-> q, version |-> v]]
    /\ UNCHANGED <<nv, owner, proven>>

OsTriesSlot ==
    /\ OsUnchanged
    /\ updates > 0 /\ nv.try_next = ctx.slot
    /\ \E n \in 1..MaxTries : nv' = [nv EXCEPT !.try_next = 1 - ctx.slot, !.try_count = n]
    /\ UNCHANGED <<owner, slots, proven, updates>>

OsRequests ==
    /\ OsUnchanged
    /\ \E r \in Requests : nv' = [nv EXCEPT ![r] = TRUE, !.clear_done = FALSE]
    /\ UNCHANGED <<owner, slots, proven, updates>>

OsTakesOwnership ==
    /\ OsUnchanged
    /\ owner = "none" /\ owner' = IF DevMode(ctx) THEN "dev" ELSE "normal"
    /\ UNCHANGED <<nv, slots, proven, updates>>

OsStops == Goto("os", "off") \/ Goto("os", "s3")

Firmware ==
    \/ PowerOn \/ vb2api_fw_phase1 \/ vb2api_fw_phase2 \/ vb2api_fw_phase3
    \/ vb2api_check_hash \/ vb2api_fail \/ SaveNv \/ SaveSec \/ Reboot \/ StartOs
    \/ Hang \/ RecoveryScreen

Os == OsMarksGood \/ OsWritesSlot \/ OsTriesSlot \/ OsRequests \/ OsTakesOwnership \/ OsStops

Next == (Firmware \/ Os \/ vb2api_fail_early \/ PowerFail \/ NvLost) /\ UNCHANGED env

Spec == Init /\ [][Next]_vars

(* The firmware does not stop, and a user leaves the recovery screen.  Some
   step of the firmware is enabled whenever no OS runs, so this is weak
   fairness of Firmware, written without ENABLED. *)
FairSpec == Spec /\ ([]<>(pc = "os") \/ []<><<Firmware>>_vars)

(***************************************************************************
 Properties
 ***************************************************************************)
TypeOK ==
    /\ nv \in [try_next : Slots, try_count : 0..MaxTries, tried : Slots, result : Results,
               prev_tried : Slots, prev_result : Results, recovery : Reasons, subcode : Reasons \cup {"code"},
               rebooted : BOOLEAN, disable_dev : BOOLEAN, clear_request : BOOLEAN,
               clear_done : BOOLEAN] \cup {BadNv}
    /\ sec \in [valid : BOOLEAN, dev : BOOLEAN, last_dev : BOOLEAN, version : Versions]
    /\ owner \in {"none", "normal", "dev"}
    /\ slots \in [Slots -> [quality : Qualities \cup {"good"}, version : Versions]]
    /\ pc \in {"off", "phase1", "phase2", "phase3", "hash", "rw", "os", "s3", "recovery", "reboot"}
    /\ ctx.slot \in Slots /\ ctx.last_result \in Results /\ ctx.reason \in Reasons
    /\ updates \in 0..MaxUpdates /\ faults \in 0..MaxFaults

(* Rolling the version forward never locks out both slots: at any time, power
   failures and half-done updates included, some working slot is new enough
   for the version in secdata. *)
NeverBricked ==
    \E s \in Slots : /\ slots[s].quality = "good"
                     /\ slots[s].version >= sec.version \/ "no_rollback" \in GbbFlags

(* vb2_load_fw_preamble() moves the version in secdata to nothing but a
   version that an OS has run from and reported as good. *)
RollForwardProven == sec.version \in proven

(* Rolling forward is safe: it follows a proven version and keeps a way back. *)
RollForwardSafe == NeverBricked /\ RollForwardProven

(* The version in secdata never goes back. *)
VersionNeverDecreases == sec'.version >= sec.version

BothFailed == /\ attempts[1].failed /\ attempts[2].failed
              /\ attempts[1].slot # attempts[2].slot

(* vb2_fail() newly asks for recovery because of RW firmware only when the last
   two attempts were the two slots and both failed (a failed resume is not an
   attempt): one bad slot, or one slot failing twice, never ends in
   recovery. *)
RecoveryNeedsBothSlots ==
    /\ nv' # BadNv /\ nv'.recovery \in {"invalid_rw", "rw_firmware"}
    /\ nv = BadNv \/ nv.recovery # nv'.recovery
    /\ "S3_RESUME" \notin ctx.flags
    => BothFailed

(* Whatever updates leave in the other slot, and whatever transient errors
   happened, the machine gets back to an OS again and again, unless its user
   keeps holding the recovery button. *)
ReachesOs == "FORCE_RECOVERY" \in env.flags \/ []<>(pc = "os")

(* With slots that hang, secdata that always asks for a reboot or a recovery
   button held down the firmware still never cycles for ever without an OS or
   a recovery screen; and without those it gets to an OS. *)
NoRebootLoop == []<>(pc \in {"os", "recovery"}) /\ ReachesOs

(* An OS never meets a TPM owned by an OS of the other mode:
   vb2_check_dev_switch() keeps the new flags only after the owner is
   cleared, and the caller saves them later. *)
OwnerMatchesMode == pc = "os" => owner \in {"none", IF DevMode(ctx) THEN "dev" ELSE "normal"}

(* vb2_check_tpm_clear() reports the owner as cleared only in a boot that has
   cleared it. *)
DoneMeansCleared ==
    nv # BadNv /\ nv' # BadNv /\ ~nv.clear_done /\ nv'.clear_done => ctx.cleared

(* What no step of vboot does to what it keeps over reboots: take the version
   back, ask for recovery for one bad slot, or report an owner cleared that was
   not. *)
StorageDiscipline == [][VersionNeverDecreases /\ RecoveryNeedsBothSlots /\ DoneMeansCleared]_vars
=============================================================================
