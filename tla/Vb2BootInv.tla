---------------------------- MODULE Vb2BootInv -------------------------------
(***************************************************************************
 Proofs about Vb2Boot, for every set of scenarios: any number of versions,
 tries, updates and faults.

 The inductive invariant ties what a boot holds in its context to what the
 storages keep.  The owner is of the mode that secdata remembers, and stays so
 until a call clears it (OwnerInv).  A result of success in nvdata stands for
 a slot an OS reported as good (ProvenInv), so the version secdata moves to is
 that of a slot still in place, and the slot an OS runs from stays new enough
 while it writes the other one (UsableInv).  A result of failure stands for
 the last attempt counted (AttemptInv).  The rest says what the context has
 been through at each call (CtxInv).  There is one lemma per action: those of
 vb2api_fw_phase1() and vb2api_fw_phase2() are here, the others and the
 theorems in Vb2BootProofs.
 ***************************************************************************)
EXTENDS Vb2Boot, TLAPS

Causes    == Reasons \cup {"code"}
BootFlags == AllFlags \cup {"S3_RESUME"}
Status    == {"NV_INIT", "SECDATA_INIT", "RECOVERY_MODE", "DEVELOPER_MODE", "CHOSE_SLOT"}

(* nvdata with a header and CRC that are right, secdata, and contexts. *)
NvType ==
    [try_next : Slots, try_count : Nat, tried : Slots, result : Results,
     prev_tried : Slots, prev_result : Results, recovery : Causes, subcode : Causes,
     rebooted : BOOLEAN, disable_dev : BOOLEAN, clear_request : BOOLEAN, clear_done : BOOLEAN]

SecType == [valid : BOOLEAN, dev : BOOLEAN, last_dev : BOOLEAN, version : Nat]

Contexts ==
    [nv : NvType \cup {BadNv}, sec : SecType, flags : SUBSET BootFlags, changed : SUBSET {"nv", "sec"},
     status : SUBSET Status, slot : Slots, last_slot : Slots, last_result : Results,
     reason : Causes, gbb : SUBSET {"force_dev", "no_rollback"}, sec_version : Nat, cleared : BOOLEAN, ok : BOOLEAN]

SlotType    == [quality : AllQualities, version : Nat]
AttemptType == [slot : Slots, failed : BOOLEAN]
Pcs == {"off", "phase1", "phase2", "phase3", "hash", "rw", "os", "s3", "recovery", "reboot"}

TypeInv ==
    /\ env \in Scenarios
    /\ nv \in NvType \cup {BadNv} /\ sec \in SecType
    /\ owner \in {"none", "normal", "dev"}
    /\ slots \in [Slots -> SlotType]
    /\ pc \in Pcs /\ ctx \in Contexts
    /\ attempts \in AttemptType \X AttemptType
    /\ proven \subseteq Nat

(* The firmware holds a context that it works on. *)
Booting == pc \notin {"off", "os", "s3"}
Chosen  == "CHOSE_SLOT" \in ctx.status

(* What the context knows at each call, and how it stands to the storages. *)
CtxInv ==
    /\ Booting /\ (pc # "phase1" \/ "NV_INIT" \in ctx.status) => ctx.nv \in NvType
    /\ Booting /\ "nv" \notin ctx.changed => nv = ctx.nv
    /\ pc # "off" /\ "sec" \notin ctx.changed =>
          (sec.last_dev <=> ctx.sec.last_dev) /\ sec.version = ctx.sec.version
    /\ pc \in {"rw", "os", "s3"} => ctx.changed = {}
    /\ pc \in {"os", "s3"} => nv \in NvType /\ nv.tried = ctx.slot
    /\ pc \in {"phase3", "hash", "rw"} => ctx.nv.tried = ctx.slot
    /\ pc = "phase1" => ctx.status \subseteq {"NV_INIT"} /\ ~ctx.cleared
    /\ pc \in {"phase1", "phase2"} => ~Chosen /\ ctx.last_result = "unknown"
    /\ pc \in {"phase2", "phase3", "hash", "rw", "os"} =>
          /\ DevMode(ctx) <=> ctx.sec.last_dev
          /\ ctx.sec_version = ctx.sec.version
    /\ pc \in {"phase1", "phase2", "phase3", "hash", "rw", "os"} => ctx.gbb \subseteq GbbFlags
    /\ pc \in {"phase2", "phase3", "hash", "rw"} => ctx.nv.recovery = "none"
    /\ pc \in {"phase3", "hash", "rw"} =>
          IF Chosen THEN ctx.nv.result \in {"trying", "unknown"}
          ELSE "S3_RESUME" \in ctx.flags /\ ctx.last_result = "unknown"

(* The owner is of the mode remembered in secdata; a boot that remembers
   another one has cleared it. *)
OwnerInv ==
    owner # "none" => /\ owner = "dev" <=> sec.last_dev
                      /\ pc # "off" => (ctx.sec.last_dev <=> sec.last_dev)

(* Only a slot an OS reported as good has a result of success. *)
Good(s) == slots[s].quality = "good" /\ slots[s].version \in proven
Earned(n) == n.result = "success" => Good(n.tried)
ProvenInv ==
    /\ sec.version \in proven
    /\ pc # "off" => ctx.sec.version \in proven /\ ctx.sec.version >= sec.version
    /\ nv \in NvType => Earned(nv)
    /\ Booting /\ ctx.nv \in NvType => Earned(ctx.nv)
    /\ pc = "phase3" /\ ctx.last_result = "success" => Good(ctx.last_slot)
    /\ pc = "os" => slots[ctx.slot].quality = "good"

(* There is a working slot new enough for the version kept, and for the one
   about to be kept. *)
NewEnough(s, v) == slots[s].version >= v \/ "no_rollback" \in GbbFlags
Usable(v) == \E s \in Slots : slots[s].quality = "good" /\ NewEnough(s, v)
UsableInv ==
    /\ Usable(sec.version)
    /\ pc # "off" => Usable(ctx.sec.version)
    /\ pc \in {"hash", "rw", "os"} => NewEnough(ctx.slot, ctx.sec.version)

(* A report that the owner was cleared comes from a boot that cleared it. *)
ClearInv ==
    Booting /\ nv \in NvType /\ ctx.nv \in NvType /\ ~nv.clear_done /\ ctx.nv.clear_done
        => ctx.cleared

(* A result of failure is the outcome of the last attempt. *)
FailedAt(a, s) == a.failed /\ a.slot = s
Counted(n) == n.result = "failure" => FailedAt(attempts[2], n.tried)
AttemptInv ==
    /\ nv \in NvType => Counted(nv)
    /\ Booting /\ ctx.nv \in NvType => Counted(ctx.nv)
    /\ pc = "phase3" /\ Chosen /\ ctx.last_result = "failure" => FailedAt(attempts[2], ctx.last_slot)
    /\ pc \in {"hash", "rw"} /\ Chosen =>
          /\ attempts[2].slot = ctx.slot
          /\ ctx.last_result = "failure" => FailedAt(attempts[1], ctx.last_slot)
    /\ /\ Booting /\ ctx.nv \in NvType /\ ctx.nv.recovery \in {"invalid_rw", "rw_firmware"}
       /\ nv = BadNv \/ nv.recovery # ctx.nv.recovery
       /\ "S3_RESUME" \notin ctx.flags
       => BothFailed

IInv == TypeInv /\ CtxInv /\ OwnerInv /\ ProvenInv /\ UsableInv /\ ClearInv /\ AttemptInv

----------------------------------------------------------------------------
(* What the functions of 2misc.c keep of a context. *)
Keeps(c, d) ==
    /\ d.sec = c.sec /\ d.flags = c.flags /\ d.slot = c.slot /\ d.changed = c.changed
    /\ d.last_slot = c.last_slot /\ d.last_result = c.last_result
    /\ d.sec_version = c.sec_version /\ d.cleared = c.cleared

(* nvdata without its header and CRC is no set of fields. *)
LEMMA BadNvIsBad == BadNv \notin NvType
<1> SUFFICES ASSUME BadNv \in NvType PROVE FALSE
  OBVIOUS
<1>1. "valid" \in DOMAIN BadNv
  BY DEF BadNv
<1>2. "valid" \notin DOMAIN BadNv
  BY DEF NvType
<1> QED
  BY <1>1, <1>2

LEMMA DefaultsTyped ==
    /\ NvDefaults \in NvType
    /\ NvDefaults.result = "unknown" /\ NvDefaults.recovery = "none" /\ ~NvDefaults.clear_done
<1>1. NvDefaults \in NvType
  BY DEF NvDefaults, NvType, Slots, Results, Causes, Reasons
<1>2. NvDefaults.result = "unknown" /\ NvDefaults.recovery = "none"
  BY DEF NvDefaults
<1>3. ~NvDefaults.clear_done
  BY DEF NvDefaults
<1> QED
  BY <1>1, <1>2, <1>3

LEMMA NvInit ==
    ASSUME NEW c \in Contexts
    PROVE  LET d == vb2_nv_init(c)
           IN /\ d \in Contexts /\ Keeps(c, d) /\ d.nv \in NvType
              /\ d.nv = IF c.nv = BadNv THEN NvDefaults ELSE c.nv
              /\ d.status = c.status \cup {"NV_INIT"} /\ d.gbb = c.gbb /\ d.ok = c.ok
              /\ d.reason = c.reason
<1> DEFINE d == vb2_nv_init(c)
<1>1. d.nv = IF c.nv = BadNv THEN NvDefaults ELSE c.nv
  BY DEF vb2_nv_init, Contexts
<1>2. d.status = c.status \cup {"NV_INIT"} /\ d.gbb = c.gbb /\ d.ok = c.ok /\ d.reason = c.reason
  BY DEF vb2_nv_init, Contexts
<1>3. Keeps(c, d)
  BY DEF vb2_nv_init, Contexts, Keeps
<1>4. d.nv \in NvType
  BY <1>1, DefaultsTyped DEF Contexts
<1>5. d \in Contexts
  BY Zenon, <1>4, DefaultsTyped DEF vb2_nv_init, Contexts, Status
<1> QED
  BY <1>1, <1>2, <1>3, <1>4, <1>5

(* vb2_fail() touches the request, and the result and the next slot of the
   slot that was chosen; the request is made only when the other slot failed
   too or none was chosen. *)
Fields(c) == IF c.nv = BadNv THEN NvDefaults ELSE c.nv
Failed(c, reason, d) ==
    /\ d \in Contexts /\ Keeps(c, d) /\ d.nv \in NvType
    /\ d.status = c.status \cup {"NV_INIT"} /\ d.gbb = c.gbb /\ d.reason = c.reason
    /\ d.ok = FALSE
    /\ d.nv.tried = Fields(c).tried /\ d.nv.clear_done = Fields(c).clear_done
    /\ d.nv.result = IF "CHOSE_SLOT" \in c.status THEN "failure" ELSE Fields(c).result
    /\ d.nv.recovery = IF ("CHOSE_SLOT" \in c.status /\ ~OtherFailed(c)) \/ Fields(c).recovery # "none"
                       THEN Fields(c).recovery ELSE reason

LEMMA Fail ==
    ASSUME NEW c \in Contexts, NEW reason \in Reasons,
           c.nv \in NvType \/ "NV_INIT" \notin c.status
    PROVE  Failed(c, reason, vb2_fail(c, reason))
<1> DEFINE b == IF "NV_INIT" \in c.status THEN c ELSE vb2_nv_init(c)
           n == Fields(c)
           chose == "CHOSE_SLOT" \in b.status
           m == IF chose THEN [b.nv EXCEPT !.result = "failure", !.try_count = 0,
                                           !.try_next = NextSlot(b)]
                ELSE b.nv
           d == vb2_fail(c, reason)
<1>1. /\ b \in Contexts /\ Keeps(c, b) /\ b.nv \in NvType /\ b.nv = n
      /\ b.status = c.status \cup {"NV_INIT"} /\ b.gbb = c.gbb /\ b.reason = c.reason
  BY NvInit, BadNvIsBad DEF Keeps, Contexts, Fields
<1>2. d = [b EXCEPT !.ok = FALSE,
                    !.nv = IF (chose /\ ~OtherFailed(b)) \/ m.recovery # "none" THEN m
                           ELSE [m EXCEPT !.recovery = reason, !.subcode = "code"]]
  BY DEF vb2_fail
<1> HIDE DEF b, n
<1>3. chose <=> "CHOSE_SLOT" \in c.status
  BY <1>1
<1>4. OtherFailed(b) <=> OtherFailed(c)
  BY <1>1 DEF OtherFailed, Keeps
<1>5. /\ m \in NvType /\ m.tried = n.tried /\ m.clear_done = n.clear_done
      /\ m.result = IF chose THEN "failure" ELSE n.result
      /\ m.recovery = n.recovery
  <2>1. 1 - b.slot \in Slots
    BY <1>1 DEF Contexts, Slots
  <2>2. m \in NvType
    BY Zenon, <1>1, <2>1 DEF NvType, Results, NextSlot
  <2>3. m.tried = n.tried /\ m.result = (IF chose THEN "failure" ELSE n.result) /\ m.recovery = n.recovery
    BY <1>1 DEF NvType
  <2>4. m.clear_done = n.clear_done
    BY <1>1 DEF NvType
  <2> QED
    BY <2>2, <2>3, <2>4
<1> HIDE DEF m, chose
<1>6. d.nv = IF (chose /\ ~OtherFailed(b)) \/ m.recovery # "none" THEN m
             ELSE [m EXCEPT !.recovery = reason, !.subcode = "code"]
  BY <1>1, <1>2 DEF Contexts
<1>7. /\ d.nv \in NvType /\ d.nv.tried = m.tried /\ d.nv.clear_done = m.clear_done
      /\ d.nv.result = m.result
      /\ d.nv.recovery = IF (chose /\ ~OtherFailed(b)) \/ m.recovery # "none" THEN m.recovery ELSE reason
  <2>1. d.nv \in NvType
    BY ZenonT(40), <1>5, <1>6 DEF NvType, Causes
  <2>2. d.nv.clear_done = m.clear_done
    BY <1>5, <1>6 DEF NvType
  <2>3. /\ d.nv.tried = m.tried /\ d.nv.result = m.result
        /\ d.nv.recovery = IF (chose /\ ~OtherFailed(b)) \/ m.recovery # "none"
                           THEN m.recovery ELSE reason
    BY <1>5, <1>6 DEF NvType
  <2> QED
    BY <2>1, <2>2, <2>3
<1>8. /\ d.status = b.status /\ d.gbb = b.gbb /\ d.reason = b.reason /\ d.ok = FALSE /\ Keeps(b, d)
  BY <1>1, <1>2 DEF Contexts, Keeps
<1>9. d \in Contexts
  BY ZenonT(40), <1>1, <1>2, <1>6, <1>7 DEF Contexts
<1> QED
  BY <1>1, <1>3, <1>4, <1>5, <1>7, <1>8, <1>9 DEF Keeps, Failed, n

(* The context an API call hands back, as Return() leaves it. *)
LEMMA Returned ==
    ASSUME NEW c \in Contexts, ctx \in Contexts, NEW next, Return(c, next)
    PROVE  /\ ctx' \in Contexts
           /\ ctx'.nv = c.nv /\ ctx'.sec = c.sec /\ ctx'.flags = c.flags /\ ctx'.status = c.status
           /\ ctx'.slot = c.slot /\ ctx'.last_slot = c.last_slot /\ ctx'.last_result = c.last_result
           /\ ctx'.gbb = c.gbb /\ ctx'.sec_version = c.sec_version /\ ctx'.cleared = c.cleared
           /\ "nv" \in ctx'.changed <=> c.nv # ctx.nv
           /\ "sec" \in ctx'.changed <=> c.sec # ctx.sec
           /\ pc' = next /\ UNCHANGED <<nv, sec, slots, proven, updates>>
           /\ owner' = IF c.cleared /\ ~ctx.cleared THEN "none" ELSE owner
<1> DEFINE changed == {d \in {"nv", "sec"} : c[d] # ctx[d]}
<1>1. ctx' = [c EXCEPT !.changed = changed]
  BY DEF Return
<1>2. changed \in SUBSET {"nv", "sec"}
  OBVIOUS
<1>3. ("nv" \in changed <=> c.nv # ctx.nv) /\ ("sec" \in changed <=> c.sec # ctx.sec)
  BY DEF Contexts
<1> HIDE DEF changed
<1>4. ctx' \in Contexts
  BY <1>1, <1>2 DEF Contexts
<1>5. ctx'.changed = changed /\ ctx'.nv = c.nv /\ ctx'.sec = c.sec /\ ctx'.flags = c.flags /\ ctx'.status = c.status
  BY <1>1 DEF Contexts
<1>6. /\ ctx'.slot = c.slot /\ ctx'.last_slot = c.last_slot /\ ctx'.last_result = c.last_result
      /\ ctx'.gbb = c.gbb /\ ctx'.sec_version = c.sec_version
  BY <1>1 DEF Contexts
<1>7. ctx'.cleared = c.cleared
  BY <1>1 DEF Contexts
<1> QED
  BY <1>3, <1>4, <1>5, <1>6, <1>7 DEF Return

(* What vb2api_fw_phase1() has not touched when it comes to the developer
   switch. *)
Early(c, d) ==
    /\ d \in Contexts /\ d.nv \in NvType
    /\ d.sec = c.sec /\ d.flags = c.flags /\ d.slot = c.slot
    /\ d.last_slot = c.last_slot /\ d.last_result = c.last_result /\ d.cleared = c.cleared
    /\ d.nv.tried = c.nv.tried /\ d.nv.clear_done = c.nv.clear_done /\ d.nv.result = c.nv.result
    /\ d.nv.recovery \in {c.nv.recovery} \cup (Reasons \ {"invalid_rw", "rw_firmware"})
    /\ d.status \cap {"CHOSE_SLOT", "DEVELOPER_MODE"} = {}
    /\ "SECDATA_INIT" \in d.status => d.sec_version = d.sec.version
    /\ d.gbb \in {c.gbb, GbbFlags}

LEMMA EarlyFail ==
    ASSUME NEW c, NEW d, Early(c, d), NEW reason \in Reasons \ {"invalid_rw", "rw_firmware"}
    PROVE  Early(c, vb2_fail(d, reason))
<1> DEFINE f == vb2_fail(d, reason)
<1>1. d \in Contexts /\ d.nv \in NvType /\ reason \in Reasons
  BY DEF Early
<1>2. Failed(d, reason, f)
  BY <1>1, Fail
<1>3. Fields(d) = d.nv
  BY <1>1, BadNvIsBad DEF Fields
<1> HIDE DEF f
<1>4. f \in Contexts /\ f.nv \in NvType
  BY <1>2 DEF Failed
<1>5. f.nv.clear_done = c.nv.clear_done
  BY <1>2, <1>3 DEF Failed, Early
<1>6. f.cleared = c.cleared
  BY <1>2 DEF Failed, Early, Keeps
<1>7. f.nv.tried = c.nv.tried /\ f.nv.result = c.nv.result
  BY <1>2, <1>3 DEF Failed, Early
<1>8. f.nv.recovery \in {c.nv.recovery} \cup (Reasons \ {"invalid_rw", "rw_firmware"})
  BY <1>2, <1>3 DEF Failed, Early
<1>9. f.status = d.status \cup {"NV_INIT"} /\ f.gbb = d.gbb /\ Keeps(d, f)
  BY <1>2 DEF Failed
<1> QED
  BY <1>4, <1>5, <1>6, <1>7, <1>8, <1>9 DEF Early, Keeps, f

(* Everything up to vb2_check_recovery(). *)
RebootFlag(c) == IF RebootLoop(c) THEN vb2_fail(c, "tpm_reboot") ELSE [c EXCEPT !.nv.rebooted = FALSE]

LEMMA EarlyReboot ==
    ASSUME NEW c \in Contexts, c.nv \in NvType, c.status \subseteq {"NV_INIT"}
    PROVE  Early(c, RebootFlag(c))
<1>1. Early(c, c)
  BY DEF Early, Contexts
<1>2. CASE RebootLoop(c)
  BY <1>1, <1>2, EarlyFail DEF Reasons, RebootFlag
<1>3. CASE ~RebootLoop(c)
  <2> DEFINE d == RebootFlag(c)
  <2>1. d = [c EXCEPT !.nv.rebooted = FALSE]
    BY <1>3 DEF RebootFlag
  <2> HIDE DEF d
  <2>2. d.nv = [c.nv EXCEPT !.rebooted = FALSE]
    BY <2>1 DEF Contexts
  <2>3. d.nv \in NvType
    BY Zenon, <2>2 DEF NvType
  <2>4. d.nv.tried = c.nv.tried /\ d.nv.result = c.nv.result /\ d.nv.recovery = c.nv.recovery
    BY <2>2 DEF NvType
  <2>5. d.nv.clear_done = c.nv.clear_done
    BY <2>2 DEF NvType
  <2>6. d \in Contexts
    BY Zenon, <2>1, <2>2, <2>3 DEF Contexts
  <2>7. Keeps(c, d) /\ d.status = c.status /\ d.gbb = c.gbb
    BY <2>1 DEF Contexts, Keeps
  <2>8. Early(c, d)
    BY <1>1, <2>3, <2>4, <2>5, <2>6, <2>7 DEF Early, Keeps
  <2> QED
    BY <2>8 DEF d
<1> QED
  BY <1>2, <1>3

LEMMA EarlySecdata ==
    ASSUME NEW c, NEW b, Early(c, b)
    PROVE  Early(c, vb2_secdata_init(b))
<1> DEFINE d == vb2_secdata_init(b)
<1>1. CASE b.sec.valid
  <2>1. d = [b EXCEPT !.status = @ \cup {"SECDATA_INIT"}, !.sec_version = b.sec.version]
    BY <1>1 DEF vb2_secdata_init
  <2> HIDE DEF d
  <2>2. b \in Contexts
    BY DEF Early
  <2>3. b.sec.version \in Nat
    BY <2>2 DEF Contexts, SecType
  <2>4. b.status \cup {"SECDATA_INIT"} \in SUBSET Status
    BY <2>2 DEF Contexts, Status
  <2>5. d \in Contexts
    BY Zenon, <2>1, <2>2, <2>3, <2>4 DEF Contexts
  <2>6. /\ d.nv = b.nv /\ d.sec = b.sec /\ d.flags = b.flags /\ d.slot = b.slot
        /\ d.last_slot = b.last_slot /\ d.last_result = b.last_result
        /\ d.gbb = b.gbb /\ d.status = b.status \cup {"SECDATA_INIT"}
        /\ d.sec_version = b.sec.version
    BY <2>1, <2>2 DEF Contexts
  <2>7. d.cleared = b.cleared
    BY <2>1, <2>2 DEF Contexts
  <2>8. Early(c, d)
    BY <2>5, <2>6, <2>7 DEF Early
  <2> QED
    BY <2>8 DEF d
<1>2. CASE ~b.sec.valid
  BY <1>2, EarlyFail DEF vb2_secdata_init, Reasons
<1> QED
  BY <1>1, <1>2

LEMMA EarlyGbb ==
    ASSUME NEW c, NEW b, Early(c, b), NEW gbb_ok \in BOOLEAN, env \in Scenarios
    PROVE  Early(c, vb2_fw_parse_gbb(b, gbb_ok))
<1> DEFINE d == vb2_fw_parse_gbb(b, gbb_ok)
<1>1. CASE gbb_ok
  <2>1. d = [b EXCEPT !.gbb = GbbFlags]
    BY <1>1 DEF vb2_fw_parse_gbb
  <2> HIDE DEF d
  <2>2. b \in Contexts
    BY DEF Early
  <2>3. GbbFlags \in SUBSET {"force_dev", "no_rollback"}
    BY Vb2Assumption DEF GbbFlags
  <2>4. d \in Contexts
    BY <2>1, <2>2, <2>3 DEF Contexts
  <2>5. /\ d.nv = b.nv /\ d.sec = b.sec /\ d.flags = b.flags /\ d.slot = b.slot
        /\ d.last_slot = b.last_slot /\ d.last_result = b.last_result
        /\ d.gbb = GbbFlags /\ d.status = b.status /\ d.sec_version = b.sec_version
    BY <2>1, <2>2 DEF Contexts
  <2>6. d.cleared = b.cleared
    BY <2>1, <2>2 DEF Contexts
  <2>7. Early(c, d)
    BY <2>4, <2>5, <2>6 DEF Early
  <2> QED
    BY <2>7 DEF d
<1>2. CASE ~gbb_ok
  BY <1>2, EarlyFail DEF vb2_fw_parse_gbb, Reasons
<1> QED
  BY <1>1, <1>2

LEMMA EarlyRecovery ==
    ASSUME NEW c, NEW b, Early(c, b)
    PROVE  LET d == vb2_check_recovery(b) IN Early(c, d) /\ d.nv.recovery = "none"
<1> DEFINE reason == IF "FORCE_RECOVERY" \notin b.flags THEN b.nv.recovery
                     ELSE IF b.nv.recovery = "none" /\ b.nv.subcode # "none" THEN b.nv.subcode
                     ELSE "manual"
           status == IF reason = "none" THEN b.status ELSE b.status \cup {"RECOVERY_MODE"}
           d == vb2_check_recovery(b)
<1>1. b \in Contexts /\ b.nv \in NvType
  BY DEF Early
<1>2. reason \in Causes
  BY <1>1 DEF NvType, Causes, Reasons
<1>3. status \in SUBSET Status /\ b.status \subseteq status /\ status \subseteq b.status \cup {"RECOVERY_MODE"}
  BY <1>1 DEF Contexts, Status
<1>4. d = [b EXCEPT !.reason = reason, !.nv.recovery = "none", !.nv.subcode = "none", !.status = status]
  BY DEF vb2_check_recovery
<1> HIDE DEF reason, status, d
<1>5. d.nv = [b.nv EXCEPT !.recovery = "none", !.subcode = "none"]
  BY <1>1, <1>4 DEF Contexts, NvType
<1>6. d.nv \in NvType
  BY Zenon, <1>1, <1>5 DEF NvType, Causes, Reasons
<1>7. d.nv.tried = b.nv.tried /\ d.nv.result = b.nv.result /\ d.nv.recovery = "none"
  BY <1>1, <1>5 DEF NvType
<1>8. d.nv.clear_done = b.nv.clear_done
  BY <1>1, <1>5 DEF NvType
<1>9. d = [b EXCEPT !.reason = reason, !.nv = d.nv, !.status = status]
  BY Zenon, <1>1, <1>4, <1>5 DEF Contexts
<1>10. d \in Contexts
  BY ZenonT(40), <1>1, <1>2, <1>3, <1>6, <1>9 DEF Contexts
<1>11. /\ d.sec = b.sec /\ d.flags = b.flags /\ d.slot = b.slot
       /\ d.last_slot = b.last_slot /\ d.last_result = b.last_result
       /\ d.gbb = b.gbb /\ d.status = status /\ d.sec_version = b.sec_version
  BY Zenon, <1>1, <1>9 DEF Contexts
<1>12. d.cleared = b.cleared
  BY Zenon, <1>1, <1>9 DEF Contexts
<1>13. d.status \cap {"CHOSE_SLOT", "DEVELOPER_MODE"} = {} /\ ("SECDATA_INIT" \in d.status => d.sec_version = d.sec.version)
  BY <1>3, <1>11 DEF Early
<1>14. Early(c, d)
  BY <1>6, <1>7, <1>8, <1>10, <1>11, <1>12, <1>13 DEF Early, Reasons
<1> QED
  BY <1>7, <1>14 DEF d

(* After the developer switch: the flags in secdata differ from the ones read
   only when the owner was cleared, and unless the call failed they agree with
   the mode of this boot. *)
Switched(c, d) ==
    /\ d \in Contexts /\ d.nv \in NvType
    /\ d.flags = c.flags /\ d.slot = c.slot
    /\ d.last_slot = c.last_slot /\ d.last_result = c.last_result
    /\ d.nv.tried = c.nv.tried /\ d.nv.clear_done = c.nv.clear_done /\ d.nv.result = c.nv.result
    /\ d.nv.recovery \in {"none", "clear_owner"}
    /\ "CHOSE_SLOT" \notin d.status
    /\ d.gbb \in {c.gbb, GbbFlags}
    /\ d.sec.version = c.sec.version
    /\ d.cleared \/ (d.sec.last_dev <=> c.sec.last_dev)
    /\ d.ok /\ ~RecoveryMode(d) =>
          /\ DevMode(d) <=> d.sec.last_dev
          /\ d.sec_version = d.sec.version /\ d.nv.recovery = "none"

DevSet(c, last_dev, d) ==
    /\ d \in Contexts /\ d.cleared
    /\ d.nv = c.nv /\ d.flags = c.flags /\ d.slot = c.slot /\ d.status = c.status
    /\ d.last_slot = c.last_slot /\ d.last_result = c.last_result
    /\ d.gbb = c.gbb /\ d.sec_version = c.sec_version
    /\ d.sec.version = c.sec.version /\ (d.sec.last_dev <=> last_dev)

LEMMA SetDev ==
    ASSUME NEW c \in Contexts, NEW dev \in BOOLEAN, NEW last_dev \in BOOLEAN
    PROVE  DevSet(c, last_dev, SetDevFlags(c, dev, last_dev, TRUE))
<1> DEFINE d == SetDevFlags(c, dev, last_dev, TRUE)
<1>1. d = [c EXCEPT !.sec.dev = dev, !.sec.last_dev = last_dev, !.cleared = TRUE]
  BY DEF SetDevFlags
<1> HIDE DEF d
<1>2. d.sec = [c.sec EXCEPT !.dev = dev, !.last_dev = last_dev]
  BY <1>1 DEF Contexts, SecType
<1>3. d.sec \in SecType /\ d.sec.version = c.sec.version
  BY Zenon, <1>2 DEF SecType, Contexts
<1>4. d.sec.last_dev <=> last_dev
  BY <1>2 DEF SecType, Contexts
<1>5. d = [c EXCEPT !.sec = d.sec, !.cleared = TRUE]
  BY Zenon, <1>1, <1>2 DEF Contexts
<1>6. d \in Contexts
  BY ZenonT(40), <1>3, <1>5 DEF Contexts
<1>7. /\ d.nv = c.nv /\ d.flags = c.flags /\ d.slot = c.slot /\ d.status = c.status
      /\ d.last_slot = c.last_slot /\ d.last_result = c.last_result
      /\ d.gbb = c.gbb /\ d.sec_version = c.sec_version
  BY Zenon, <1>5 DEF Contexts
<1>8. d.cleared
  BY Zenon, <1>5 DEF Contexts
<1> QED
  BY Zenon, <1>3, <1>4, <1>6, <1>7, <1>8 DEF d, DevSet

LEMMA DevSwitch ==
    ASSUME NEW c, NEW b, Early(c, b), b.nv.recovery = "none", NEW clear_ok \in BOOLEAN
    PROVE  Switched(c, vb2_check_dev_switch(b, clear_ok))
<1> DEFINE use_secdata == "SECDATA_INIT" \in b.status
           old_dev  == use_secdata /\ b.sec.dev
           old_last == use_secdata /\ b.sec.last_dev
           disable  == use_secdata /\ b.nv.disable_dev
           dev      == old_dev /\ ~disable /\ "DISABLE_DEV" \notin b.flags
           is_dev   == dev \/ "FORCE_DEV" \in b.flags \/ "force_dev" \in b.gbb
           status   == IF is_dev THEN b.status \cup {"DEVELOPER_MODE"} ELSE b.status
           off      == b.nv.disable_dev /\ ~disable
           a == [b EXCEPT !.ok = TRUE]
           d == [a EXCEPT !.nv.disable_dev = off, !.status = status]
           r == vb2_check_dev_switch(b, clear_ok)
<1>1. b \in Contexts /\ b.nv \in NvType
  BY DEF Early
<1>2. /\ a \in Contexts /\ Keeps(b, a) /\ a.nv = b.nv /\ a.status = b.status /\ a.gbb = b.gbb
  BY Zenon, <1>1 DEF Contexts, Keeps
<1>3. r = IF ~use_secdata /\ ~RecoveryMode(a) THEN [a EXCEPT !.ok = FALSE]
          ELSE IF dev = old_dev /\ is_dev = old_last THEN d
          ELSE IF use_secdata THEN SetDevFlags(d, dev, is_dev, clear_ok)
          ELSE [d EXCEPT !.cleared = clear_ok]
  BY <1>2 DEF vb2_check_dev_switch, Keeps
<1>4. off \in BOOLEAN /\ dev \in BOOLEAN /\ is_dev \in BOOLEAN /\ old_last \in BOOLEAN /\ use_secdata \in BOOLEAN
  OBVIOUS
<1>5. use_secdata => (old_last <=> b.sec.last_dev)
  OBVIOUS
<1>6. /\ status \in SUBSET Status /\ b.status \subseteq status /\ "CHOSE_SLOT" \notin status
      /\ is_dev <=> "DEVELOPER_MODE" \in status
      /\ "RECOVERY_MODE" \in status <=> "RECOVERY_MODE" \in b.status
  BY <1>1 DEF Contexts, Status, Early
<1>7. b.sec_version = b.sec.version \/ ~use_secdata
  BY DEF Early
<1> HIDE DEF status, off, a, r, is_dev, dev, old_last
<1>8. d.nv = [b.nv EXCEPT !.disable_dev = off]
  BY <1>2 DEF Contexts, NvType
<1>9. d = [a EXCEPT !.nv = d.nv, !.status = status]
  BY <1>2, <1>8 DEF Contexts
<1> HIDE DEF d
<1>10. d.nv \in NvType
  BY <1>1, <1>4, <1>8 DEF NvType
<1>11. d.nv.tried = b.nv.tried /\ d.nv.result = b.nv.result /\ d.nv.recovery = "none"
  BY <1>1, <1>8 DEF NvType
<1>12. d.nv.clear_done = b.nv.clear_done
  BY <1>1, <1>8 DEF NvType
<1>13. d \in Contexts
  <2>1. a \in Contexts /\ status \in SUBSET Status
    BY <1>2, <1>6
  <2> QED
    BY ZenonT(40), <1>9, <1>10, <2>1 DEF Contexts
<1>14. Keeps(b, d) /\ d.status = status /\ d.gbb = b.gbb
  BY ZenonT(40), <1>2, <1>9 DEF Contexts, Keeps
<1>15. /\ b.flags = c.flags /\ b.slot = c.slot /\ b.last_slot = c.last_slot
       /\ b.last_result = c.last_result /\ b.gbb \in {c.gbb, GbbFlags} /\ b.sec = c.sec
       /\ b.nv.tried = c.nv.tried /\ b.nv.result = c.nv.result
       /\ "CHOSE_SLOT" \notin b.status
  BY DEF Early
<1>16. b.nv.clear_done = c.nv.clear_done
  BY DEF Early
<1>17. CASE ~use_secdata /\ ~RecoveryMode(a)
  <2>1. r = [a EXCEPT !.ok = FALSE]
    BY <1>3, <1>17
  <2>2. r \in Contexts /\ Keeps(a, r) /\ r.nv = a.nv /\ r.status = a.status /\ r.gbb = a.gbb
    BY Zenon, <1>2, <2>1 DEF Contexts, Keeps
  <2>3. ~r.ok
    BY <1>2, <2>1 DEF Contexts
  <2>4. r.nv.clear_done = c.nv.clear_done
    BY <1>2, <1>16, <2>2
  <2>5. Switched(c, r)
    BY <1>1, <1>2, <1>15, <2>2, <2>3, <2>4 DEF Switched, Keeps
  <2> QED
    BY <2>5 DEF r
<1>18. CASE ~(~use_secdata /\ ~RecoveryMode(a)) /\ dev = old_dev /\ is_dev = old_last
  <2>1. r = d
    BY <1>3, <1>18
  <2>2. DevMode(d) <=> is_dev
    BY <1>6, <1>14 DEF DevMode
  <2>3. RecoveryMode(d) <=> RecoveryMode(a)
    BY <1>2, <1>6, <1>14 DEF RecoveryMode
  <2>4. ~RecoveryMode(d) => (DevMode(d) <=> d.sec.last_dev) /\ d.sec_version = d.sec.version
    BY <1>5, <1>7, <1>14, <1>18, <2>2, <2>3 DEF Keeps
  <2>5. d.nv.clear_done = c.nv.clear_done
    BY <1>12, <1>16
  <2>6. Switched(c, d)
    BY <1>6, <1>10, <1>11, <1>13, <1>14, <1>15, <2>4, <2>5 DEF Switched, Keeps
  <2> QED
    BY <2>1, <2>6 DEF r
<1>19. CASE ~(~use_secdata /\ ~RecoveryMode(a)) /\ ~(dev = old_dev /\ is_dev = old_last) /\ use_secdata
  <2>1. r = SetDevFlags(d, dev, is_dev, clear_ok)
    BY <1>3, <1>19
  <2>2. CASE clear_ok
    <3>1. r = SetDevFlags(d, dev, is_dev, TRUE)
      BY <2>1, <2>2
    <3>2. DevSet(d, is_dev, r)
      BY Zenon, <1>4, <1>13, <3>1, SetDev
    <3>3. DevMode(r) <=> is_dev
      BY <1>6, <1>14, <3>2 DEF DevMode, DevSet
    <3>4. r.nv.clear_done = c.nv.clear_done
      BY <1>12, <1>16, <3>2 DEF DevSet
    <3>5. Switched(c, r)
      BY <1>6, <1>7, <1>10, <1>11, <1>14, <1>15, <1>19, <3>2, <3>3, <3>4 DEF Switched, Keeps, DevSet
    <3> QED
      BY <3>5 DEF r
  <2>3. CASE ~clear_ok
    <3>1. r = vb2_fail(d, "clear_owner")
      BY <2>1, <2>3 DEF SetDevFlags
    <3>2. Failed(d, "clear_owner", r)
      BY <1>10, <1>13, <3>1, Fail DEF Reasons
    <3>3. Fields(d) = d.nv
      BY <1>10, BadNvIsBad DEF Fields
    <3>4. r.nv.clear_done = c.nv.clear_done
      BY <1>12, <1>16, <3>2, <3>3 DEF Failed
    <3>5. ~r.ok
      BY <3>2 DEF Failed
    <3>6. Switched(c, r)
      BY <1>6, <1>11, <1>14, <1>15, <3>2, <3>3, <3>4, <3>5 DEF Switched, Keeps, Failed
    <3> QED
      BY <3>6 DEF r
  <2> QED
    BY <2>2, <2>3
<1>20. CASE ~(~use_secdata /\ ~RecoveryMode(a)) /\ ~(dev = old_dev /\ is_dev = old_last) /\ ~use_secdata
  <2>1. r = [d EXCEPT !.cleared = clear_ok]
    BY <1>3, <1>20
  <2>2. /\ r \in Contexts /\ r.nv = d.nv /\ r.sec = d.sec /\ r.flags = d.flags /\ r.slot = d.slot
        /\ r.status = d.status /\ r.last_slot = d.last_slot /\ r.last_result = d.last_result
        /\ r.gbb = d.gbb /\ r.sec_version = d.sec_version
    BY <1>13, <2>1 DEF Contexts
  <2>3. RecoveryMode(r)
    BY <1>2, <1>6, <1>14, <1>20, <2>2 DEF RecoveryMode
  <2>4. r.nv.clear_done = c.nv.clear_done
    BY <1>12, <1>16, <2>2
  <2>5. Switched(c, r)
    BY <1>6, <1>10, <1>11, <1>14, <1>15, <2>2, <2>3, <2>4 DEF Switched, Keeps
  <2> QED
    BY <2>5 DEF r
<1> QED
  BY <1>17, <1>18, <1>19, <1>20

----------------------------------------------------------------------------
(* What phase 1, or an error reported before it, leaves behind. *)
FirstDone(c, next) ==
    /\ c \in Contexts /\ c.nv \in NvType /\ c.flags = ctx.flags
    /\ c.nv.tried = Fields(ctx).tried /\ c.nv.result = Fields(ctx).result
    /\ c.nv.clear_done = Fields(ctx).clear_done
    /\ c.nv.recovery = Fields(ctx).recovery \/ c.nv.recovery \notin {"invalid_rw", "rw_firmware"}
    /\ "CHOSE_SLOT" \notin c.status /\ c.last_result = ctx.last_result
    /\ c.sec.version = ctx.sec.version
    /\ c.cleared \/ (c.sec.last_dev <=> ctx.sec.last_dev)
    /\ next \in {"phase1", "phase2", "reboot", "recovery"}
    /\ next \in {"phase1", "phase2"} => c.gbb \subseteq GbbFlags
    /\ next = "phase1" => c.status \subseteq {"NV_INIT"} /\ ~c.cleared
    /\ next = "phase2" => /\ DevMode(c) <=> c.sec.last_dev
                          /\ c.sec_version = c.sec.version /\ c.nv.recovery = "none"

LEMMA FirstKeepsInv ==
    ASSUME IInv, pc = "phase1", Saved, NEW c, NEW next, FirstDone(c, next), Return(c, next),
           UNCHANGED <<attempts, env>>
    PROVE  IInv'
<1>1. /\ ctx \in Contexts /\ c \in Contexts /\ c.nv \in NvType
      /\ nv \in NvType \cup {BadNv}
  BY DEF IInv, TypeInv, FirstDone
<1>2. /\ ctx' \in Contexts
      /\ ctx'.nv = c.nv /\ ctx'.sec = c.sec /\ ctx'.flags = c.flags /\ ctx'.status = c.status
      /\ ctx'.slot = c.slot /\ ctx'.last_slot = c.last_slot /\ ctx'.last_result = c.last_result
      /\ ctx'.gbb = c.gbb /\ ctx'.sec_version = c.sec_version
      /\ "nv" \in ctx'.changed <=> c.nv # ctx.nv
      /\ "sec" \in ctx'.changed <=> c.sec # ctx.sec
      /\ pc' = next /\ UNCHANGED <<nv, sec, slots, proven, updates>>
      /\ owner' = IF c.cleared /\ ~ctx.cleared THEN "none" ELSE owner
  BY <1>1, Returned
<1>3. ctx'.cleared <=> c.cleared
  BY <1>1, Returned
<1>4. /\ nv = ctx.nv /\ sec.version = ctx.sec.version
      /\ sec.last_dev <=> ctx.sec.last_dev
      /\ ctx.last_result = "unknown" /\ ~ctx.cleared
  BY DEF IInv, CtxInv, Booting, Saved
<1>5. Fields(ctx) = IF nv = BadNv THEN NvDefaults ELSE nv
  BY <1>4 DEF Fields
<1>6. TypeInv'
  BY <1>2 DEF IInv, TypeInv, FirstDone, Pcs
<1>7. CtxInv'
  BY SMTT(30), SMTT(60), <1>1, <1>2, <1>3, <1>4 DEF CtxInv, FirstDone, Booting, Chosen, GbbFlags, DevMode
<1>8. OwnerInv'
  BY SMTT(30), SMTT(60), <1>2, <1>3, <1>4 DEF IInv, OwnerInv, FirstDone
<1>9. Earned(c.nv) /\ Counted(c.nv)
  BY SMTT(30), SMTT(60), <1>1, <1>4, <1>5, DefaultsTyped DEF IInv, ProvenInv, AttemptInv, Earned, Counted, FirstDone, Good, Booting
<1>10. ProvenInv'
  BY <1>2, <1>4, <1>9 DEF IInv, ProvenInv, FirstDone, Earned, Good, TypeInv, SecType
<1>11. UsableInv'
  BY SMTT(30), SMTT(60), <1>2, <1>4 DEF IInv, UsableInv, FirstDone, Usable, NewEnough, GbbFlags
<1>12. ClearInv'
  BY SMTT(30), SMTT(60), <1>2, <1>4, <1>5, BadNvIsBad DEF ClearInv, FirstDone
<1>13. AttemptInv'
  BY <1>2, <1>4, <1>5, <1>9, DefaultsTyped DEF IInv, AttemptInv, FirstDone, Counted, FailedAt, BothFailed
<1> QED
  BY <1>6, <1>7, <1>8, <1>10, <1>11, <1>12, <1>13 DEF IInv

LEMMA FailEarlyKeepsInv ==
    ASSUME IInv, vb2api_fail_early, UNCHANGED env
    PROVE  IInv'
<1> DEFINE f == vb2_fail(ctx, "early")
           c == [f EXCEPT !.ok = TRUE]
<1>1. ctx \in Contexts /\ (ctx.nv \in NvType \/ "NV_INIT" \notin ctx.status)
  BY DEF IInv, TypeInv, CtxInv, Booting, vb2api_fail_early
<1>2. Failed(ctx, "early", f)
  BY <1>1, Fail DEF Reasons
<1>3. /\ ctx.status \subseteq {"NV_INIT"} /\ ctx.gbb \subseteq GbbFlags
      /\ pc = "phase1" /\ Saved
  BY DEF IInv, CtxInv, vb2api_fail_early
<1>4. ~ctx.cleared
  BY DEF IInv, CtxInv, vb2api_fail_early
<1>5. Return(c, "phase1") /\ UNCHANGED attempts
  BY DEF vb2api_fail_early
<1> HIDE DEF f
<1>6. f \in Contexts
  BY <1>2 DEF Failed
<1>7. /\ c \in Contexts /\ c.nv = f.nv /\ c.sec = f.sec /\ c.flags = f.flags /\ c.status = f.status
      /\ c.last_result = f.last_result /\ c.gbb = f.gbb
  BY Zenon, <1>6 DEF Contexts
<1>8. c.cleared <=> f.cleared
  BY <1>6 DEF Contexts
<1> HIDE DEF c
<1>9. c.nv.clear_done = Fields(ctx).clear_done
  BY <1>2, <1>7 DEF Failed
<1>10. ~c.cleared
  BY <1>2, <1>4, <1>8 DEF Failed, Keeps
<1>11. FirstDone(c, "phase1")
  BY <1>2, <1>3, <1>7, <1>9, <1>10 DEF FirstDone, Failed, Keeps
<1> QED
  BY <1>3, <1>5, <1>11, FirstKeepsInv

LEMMA Phase1KeepsInv ==
    ASSUME IInv, vb2api_fw_phase1, UNCHANGED env
    PROVE  IInv'
<1>1. PICK gbb_ok \in BOOLEAN, clear_ok \in BOOLEAN :
        LET c0 == vb2_nv_init(ctx)
            c2 == vb2_check_recovery(vb2_fw_parse_gbb(vb2_secdata_init(RebootFlag(c0)), gbb_ok))
            c3 == vb2_check_dev_switch(c2, clear_ok)
        IN \/ FirstReboot(c0) /\ Return([c0 EXCEPT !.nv.rebooted = TRUE], "reboot")
           \/ ~FirstReboot(c0) /\ RecoveryMode(c3) /\ Return(c3, "recovery")
           \/ ~FirstReboot(c0) /\ ~RecoveryMode(c3) /\ ~c3.ok
              /\ Return(vb2_fail(c3, "dev_switch"), "reboot")
           \/ ~FirstReboot(c0) /\ ~RecoveryMode(c3) /\ c3.ok /\ Return(c3, "phase2")
  BY DEF vb2api_fw_phase1, RebootFlag
<1> DEFINE c0 == vb2_nv_init(ctx)
           s  == vb2_secdata_init(RebootFlag(c0))
           g  == vb2_fw_parse_gbb(s, gbb_ok)
           c2 == vb2_check_recovery(g)
           c3 == vb2_check_dev_switch(c2, clear_ok)
<1>2. pc = "phase1" /\ Saved /\ UNCHANGED attempts
  BY DEF vb2api_fw_phase1
<1>3. /\ ctx \in Contexts /\ env \in Scenarios
      /\ ctx.status \subseteq {"NV_INIT"} /\ ctx.gbb \subseteq GbbFlags
  BY <1>2 DEF IInv, TypeInv, CtxInv
<1>4. ~ctx.cleared
  BY <1>2 DEF IInv, CtxInv
<1>5. /\ c0 \in Contexts /\ Keeps(ctx, c0) /\ c0.nv \in NvType /\ c0.nv = Fields(ctx)
      /\ c0.status = {"NV_INIT"} /\ c0.gbb = ctx.gbb
  BY <1>3, NvInit DEF Fields
<1> HIDE DEF c0
<1>6. Early(c0, RebootFlag(c0))
  BY <1>5, EarlyReboot
<1>7. Early(c0, s)
  BY <1>6, EarlySecdata
<1> HIDE DEF s
<1>8. Early(c0, g)
  BY <1>3, <1>7, EarlyGbb
<1> HIDE DEF g
<1>9. Early(c0, c2) /\ c2.nv.recovery = "none"
  BY <1>8, EarlyRecovery
<1> HIDE DEF c2
<1>10. Switched(c0, c3)
  BY <1>9, DevSwitch
<1> HIDE DEF c3
<1>11. CASE Return([c0 EXCEPT !.nv.rebooted = TRUE], "reboot")
  <2> DEFINE c == [c0 EXCEPT !.nv.rebooted = TRUE]
  <2>1. c.nv = [c0.nv EXCEPT !.rebooted = TRUE]
    BY <1>5 DEF Contexts
  <2>2. c = [c0 EXCEPT !.nv = c.nv]
    BY <1>5, <2>1 DEF Contexts
  <2> HIDE DEF c
  <2>3. c.nv \in NvType
    BY Zenon, <1>5, <2>1 DEF NvType
  <2>4. /\ c.nv.tried = c0.nv.tried /\ c.nv.result = c0.nv.result /\ c.nv.recovery = c0.nv.recovery
        /\ c.nv.clear_done = c0.nv.clear_done
    BY <1>5, <2>1 DEF NvType
  <2>5. c \in Contexts
    BY <1>5, <2>2, <2>3 DEF Contexts
  <2>6. Keeps(c0, c) /\ c.status = c0.status
    BY <1>5, <2>2 DEF Contexts, Keeps
  <2>7. FirstDone(c, "reboot")
    BY <1>5, <2>3, <2>4, <2>5, <2>6 DEF FirstDone, Keeps
  <2> QED
    BY <1>2, <1>11, <2>7, FirstKeepsInv DEF c
<1>12. c3.nv.clear_done = Fields(ctx).clear_done
  BY <1>5, <1>10 DEF Switched
<1>13. c3.cleared \/ (c3.sec.last_dev <=> ctx.sec.last_dev)
  BY <1>5, <1>10 DEF Switched, Keeps
<1>14. /\ c3 \in Contexts /\ c3.nv \in NvType /\ c3.flags = ctx.flags
       /\ c3.nv.tried = Fields(ctx).tried /\ c3.nv.result = Fields(ctx).result
       /\ c3.nv.recovery \in {"none", "clear_owner"}
       /\ "CHOSE_SLOT" \notin c3.status /\ c3.last_result = ctx.last_result
       /\ c3.sec.version = ctx.sec.version /\ c3.gbb \subseteq GbbFlags
  BY <1>3, <1>5, <1>10 DEF Switched, Keeps
<1>15. CASE Return(c3, "recovery")
  <2>1. FirstDone(c3, "recovery")
    BY <1>12, <1>13, <1>14 DEF FirstDone
  <2> QED
    BY <1>2, <1>15, <2>1, FirstKeepsInv
<1>16. CASE Return(vb2_fail(c3, "dev_switch"), "reboot")
  <2> DEFINE f == vb2_fail(c3, "dev_switch")
  <2>1. Failed(c3, "dev_switch", f)
    BY <1>14, Fail DEF Reasons
  <2>2. Fields(c3) = c3.nv
    BY <1>14, BadNvIsBad DEF Fields
  <2> HIDE DEF f
  <2>3. f.nv.clear_done = Fields(ctx).clear_done
    BY <1>12, <2>1, <2>2 DEF Failed
  <2>4. f.cleared \/ (f.sec.last_dev <=> ctx.sec.last_dev)
    BY SMTT(30), SMTT(60), <1>13, <2>1 DEF Failed, Keeps
  <2>5. FirstDone(f, "reboot")
    BY <1>14, <2>1, <2>2, <2>3, <2>4 DEF FirstDone, Failed, Keeps
  <2> QED
    BY <1>2, <1>16, <2>5, FirstKeepsInv DEF f
<1>17. CASE c3.ok /\ ~RecoveryMode(c3) /\ Return(c3, "phase2")
  <2>1. /\ DevMode(c3) <=> c3.sec.last_dev
        /\ c3.sec_version = c3.sec.version /\ c3.nv.recovery = "none"
    BY <1>10, <1>17 DEF Switched
  <2>2. FirstDone(c3, "phase2")
    BY <1>12, <1>13, <1>14, <2>1 DEF FirstDone
  <2> QED
    BY <1>2, <1>17, <2>2, FirstKeepsInv
<1> QED
  BY <1>1, <1>11, <1>15, <1>16, <1>17 DEF c0, s, g, c2, c3


----------------------------------------------------------------------------
(* vb2_select_fw_slot() *)
Selected(c, d) ==
    /\ d \in Contexts /\ d.nv \in NvType
    /\ d.sec = c.sec /\ d.flags = c.flags /\ d.sec_version = c.sec_version /\ d.gbb = c.gbb
    /\ d.cleared <=> c.cleared
    /\ d.status = c.status \cup {"CHOSE_SLOT"}
    /\ d.last_slot = c.nv.tried /\ d.last_result = c.nv.result
    /\ d.nv.tried = d.slot /\ d.nv.result \in {"trying", "unknown"}
    /\ d.nv.recovery = c.nv.recovery /\ d.nv.clear_done = c.nv.clear_done

LEMMA SelectSlot ==
    ASSUME NEW c \in Contexts, c.nv \in NvType
    PROVE  Selected(c, vb2_select_fw_slot(c))
<1> DEFINE n == c.nv
           slot == IF OutOfTries(n) THEN 1 - n.try_next ELSE n.try_next
           tries == IF "NOFAIL" \in c.flags \/ n.try_count = 0 THEN n.try_count ELSE n.try_count - 1
           result == IF n.try_count > 0 THEN "trying" ELSE "unknown"
           m == [n EXCEPT !.prev_tried = n.tried, !.prev_result = n.result, !.result = result,
                          !.try_next = slot, !.try_count = tries, !.tried = slot]
           d == vb2_select_fw_slot(c)
<1>1. slot \in Slots /\ tries \in Nat /\ result \in {"trying", "unknown"}
  BY DEF NvType, Slots
<1>2. d = [c EXCEPT !.last_slot = n.tried, !.last_result = n.result, !.slot = slot,
                    !.status = @ \cup {"CHOSE_SLOT"}, !.nv = m]
  BY DEF vb2_select_fw_slot
<1> HIDE DEF slot, tries, result, d
<1>3. m \in NvType
  BY Zenon, <1>1 DEF NvType, Results
<1>4. m.tried = slot /\ m.result = result /\ m.recovery = n.recovery
  BY DEF NvType
<1>5. m.clear_done = n.clear_done
  BY DEF NvType
<1> HIDE DEF m
<1>6. n.tried \in Slots /\ n.result \in Results /\ c.status \cup {"CHOSE_SLOT"} \in SUBSET Status
  BY DEF NvType, Contexts, Status
<1>7. d \in Contexts
  BY Zenon, <1>1, <1>2, <1>3, <1>6 DEF Contexts
<1>8. /\ d.nv = m /\ d.sec = c.sec /\ d.flags = c.flags /\ d.sec_version = c.sec_version /\ d.gbb = c.gbb
      /\ d.status = c.status \cup {"CHOSE_SLOT"}
      /\ d.last_slot = n.tried /\ d.last_result = n.result /\ d.slot = slot
  BY <1>2 DEF Contexts
<1>9. d.cleared <=> c.cleared
  BY <1>2 DEF Contexts
<1>10. Selected(c, d)
  BY <1>1, <1>3, <1>4, <1>5, <1>7, <1>8, <1>9 DEF Selected
<1> QED
  BY <1>10 DEF d

(* vb2_check_tpm_clear() *)
TpmCleared(c, d) ==
    /\ d \in Contexts /\ d.nv \in NvType
    /\ d.sec = c.sec /\ d.flags = c.flags /\ d.sec_version = c.sec_version /\ d.gbb = c.gbb
    /\ d.status \in {c.status, c.status \cup {"NV_INIT"}} /\ d.last_result = c.last_result
    /\ d.nv.tried = c.nv.tried /\ d.nv.result = c.nv.result
    /\ d.nv.recovery \in {c.nv.recovery, "clear_owner"}
    /\ d.ok => d.nv.recovery = c.nv.recovery
    /\ d.nv.clear_done => c.nv.clear_done \/ d.cleared

LEMMA TpmClear ==
    ASSUME NEW c \in Contexts, c.nv \in NvType, "CHOSE_SLOT" \notin c.status, NEW clear_ok \in BOOLEAN
    PROVE  TpmCleared(c, vb2_check_tpm_clear(c, clear_ok))
<1> DEFINE d == [c EXCEPT !.nv.clear_request = FALSE]
           r == vb2_check_tpm_clear(c, clear_ok)
<1>1. r = IF ~c.nv.clear_request THEN c
          ELSE IF clear_ok THEN [d EXCEPT !.nv.clear_done = TRUE, !.cleared = TRUE]
          ELSE vb2_fail(d, "clear_owner")
  BY DEF vb2_check_tpm_clear
<1> HIDE DEF r
<1>2. d.nv = [c.nv EXCEPT !.clear_request = FALSE]
  BY DEF Contexts
<1>3. d = [c EXCEPT !.nv = d.nv]
  BY <1>2 DEF Contexts
<1> HIDE DEF d
<1>4. d.nv \in NvType
  BY Zenon, <1>2 DEF NvType
<1>5. d.nv.tried = c.nv.tried /\ d.nv.result = c.nv.result /\ d.nv.recovery = c.nv.recovery
  BY <1>2 DEF NvType
<1>6. d.nv.clear_done <=> c.nv.clear_done
  BY <1>2 DEF NvType
<1>7. d \in Contexts
  BY <1>3, <1>4 DEF Contexts
<1>8. Keeps(c, d) /\ d.status = c.status /\ d.gbb = c.gbb
  BY <1>3 DEF Contexts, Keeps
<1>9. CASE ~c.nv.clear_request
  <2>1. TpmCleared(c, c)
    BY DEF TpmCleared
  <2> QED
    BY <1>1, <1>9, <2>1 DEF r
<1>10. CASE c.nv.clear_request /\ clear_ok
  <2>1. r = [d EXCEPT !.nv.clear_done = TRUE, !.cleared = TRUE]
    BY <1>1, <1>10
  <2>2. r.nv = [d.nv EXCEPT !.clear_done = TRUE]
    BY <1>7, <2>1 DEF Contexts
  <2>3. r.nv \in NvType
    BY Zenon, <1>4, <2>2 DEF NvType
  <2>4. r.nv.tried = d.nv.tried /\ r.nv.result = d.nv.result /\ r.nv.recovery = d.nv.recovery
    BY <1>4, <2>2 DEF NvType
  <2>5. r = [d EXCEPT !.nv = r.nv, !.cleared = TRUE]
    BY <1>7, <2>1, <2>2 DEF Contexts
  <2>6. r \in Contexts
    BY ZenonT(40), <1>7, <2>3, <2>5 DEF Contexts
  <2>7. /\ r.sec = d.sec /\ r.flags = d.flags /\ r.sec_version = d.sec_version /\ r.gbb = d.gbb
        /\ r.status = d.status /\ r.last_result = d.last_result
    BY Zenon, <1>7, <2>5 DEF Contexts
  <2>8. r.cleared
    BY Zenon, <1>7, <2>5 DEF Contexts
  <2>9. TpmCleared(c, r)
    BY <1>5, <1>8, <2>3, <2>4, <2>6, <2>7, <2>8 DEF TpmCleared, Keeps
  <2> QED
    BY <2>9 DEF r
<1>11. CASE c.nv.clear_request /\ ~clear_ok
  <2>1. r = vb2_fail(d, "clear_owner")
    BY <1>1, <1>11
  <2>2. Failed(d, "clear_owner", r)
    BY <1>4, <1>7, <2>1, Fail DEF Reasons
  <2>3. Fields(d) = d.nv
    BY <1>4, BadNvIsBad DEF Fields
  <2>4. r.nv.clear_done => c.nv.clear_done
    BY <1>6, <2>2, <2>3 DEF Failed
  <2>5. ~r.ok
    BY <2>2 DEF Failed
  <2>6. TpmCleared(c, r)
    BY <1>5, <1>8, <2>2, <2>3, <2>4, <2>5 DEF TpmCleared, Failed, Keeps
  <2> QED
    BY <2>6 DEF r
<1> QED
  BY <1>9, <1>10, <1>11

(* What phase 2 leaves behind: a slot chosen, the slot of the last boot, or a
   clear of the owner that failed. *)
SecondDone(c, next) ==
    /\ c \in Contexts /\ c.nv \in NvType /\ c.sec = ctx.sec /\ c.flags = ctx.flags
    /\ c.nv.clear_done => ctx.nv.clear_done \/ c.cleared
    /\ c.nv.recovery \in {"none", "clear_owner"}
    /\ \/ next = "reboot" /\ c.nv.tried = ctx.nv.tried /\ c.nv.result = ctx.nv.result
       \/ /\ next = "phase3" /\ c.sec_version = ctx.sec_version /\ c.gbb = ctx.gbb
          /\ DevMode(c) <=> DevMode(ctx)
          /\ c.nv.recovery = "none" /\ c.nv.tried = c.slot
          /\ \/ /\ "CHOSE_SLOT" \in c.status /\ c.nv.result \in {"trying", "unknown"}
                /\ c.last_slot = ctx.nv.tried /\ c.last_result = ctx.nv.result
             \/ /\ "CHOSE_SLOT" \notin c.status /\ "S3_RESUME" \in c.flags
                /\ c.nv = ctx.nv /\ c.last_result = "unknown"

LEMMA SecondKeepsInv ==
    ASSUME IInv, pc = "phase2", Saved, NEW c, NEW next, SecondDone(c, next), Return(c, next),
           UNCHANGED <<attempts, env>>
    PROVE  IInv'
<1>1. /\ ctx \in Contexts /\ c \in Contexts /\ c.nv \in NvType /\ ctx.nv \in NvType
  BY DEF IInv, TypeInv, CtxInv, Booting, SecondDone
<1>2. /\ ctx' \in Contexts
      /\ ctx'.nv = c.nv /\ ctx'.sec = c.sec /\ ctx'.flags = c.flags /\ ctx'.status = c.status
      /\ ctx'.slot = c.slot /\ ctx'.last_slot = c.last_slot /\ ctx'.last_result = c.last_result
      /\ ctx'.gbb = c.gbb /\ ctx'.sec_version = c.sec_version
      /\ "nv" \in ctx'.changed <=> c.nv # ctx.nv
      /\ "sec" \in ctx'.changed <=> c.sec # ctx.sec
      /\ pc' = next /\ UNCHANGED <<nv, sec, slots, proven, updates>>
      /\ owner' = IF c.cleared /\ ~ctx.cleared THEN "none" ELSE owner
  BY SMTT(30), SMTT(60), <1>1, Returned
<1>3. ctx'.cleared <=> c.cleared
  BY SMTT(30), SMTT(60), <1>1, Returned
<1>4. /\ nv = ctx.nv /\ sec.version = ctx.sec.version
      /\ sec.last_dev <=> ctx.sec.last_dev
      /\ ctx.last_result = "unknown"
      /\ Earned(ctx.nv) /\ Counted(ctx.nv)
  BY <1>1 DEF IInv, CtxInv, ProvenInv, AttemptInv, Booting, Saved
<1>5. /\ next \in {"reboot", "phase3"} /\ c.sec = ctx.sec
      /\ c.nv.clear_done => ctx.nv.clear_done \/ c.cleared
  BY DEF SecondDone
<1>6. TypeInv'
  BY SMTT(30), SMTT(60), <1>2, <1>5 DEF IInv, TypeInv, Pcs
<1>7. CtxInv'
  BY SMTT(30), SMTT(60), <1>1, <1>2, <1>3, <1>4 DEF IInv, CtxInv, SecondDone, Booting, Chosen, GbbFlags, DevMode
<1>8. OwnerInv'
  BY SMTT(30), SMTT(60), <1>2, <1>3, <1>4, <1>5 DEF IInv, OwnerInv
<1>9. Earned(c.nv) /\ Counted(c.nv)
  BY SMTT(30), SMTT(60), <1>4 DEF Earned, Counted, SecondDone
<1>10. ProvenInv'
  <2>1. /\ sec.version \in proven /\ ctx.sec.version \in proven
        /\ ctx.sec.version >= sec.version
    BY DEF IInv, ProvenInv
  <2>2. Earned(ctx.nv)' /\ Earned(nv)'
    BY <1>2, <1>4, <1>9 DEF Earned, Good
  <2>3. next = "phase3" /\ c.last_result = "success" => Good(c.last_slot)
    BY <1>4 DEF SecondDone, Earned
  <2>4. pc' = "phase3" /\ ctx'.last_result = "success" => Good(ctx.last_slot)'
    BY <1>2, <2>3 DEF Good
  <2> QED
    BY <1>2, <1>5, <2>1, <2>2, <2>4 DEF ProvenInv
<1>11. UsableInv'
  BY <1>2, <1>4, <1>5 DEF IInv, UsableInv, Usable, NewEnough, GbbFlags
<1>12. ClearInv'
  BY <1>2, <1>3, <1>4, <1>5 DEF ClearInv
<1>13. AttemptInv'
  BY <1>2, <1>4, <1>5, <1>9 DEF IInv, AttemptInv, SecondDone, Counted, FailedAt, BothFailed, Chosen
<1> QED
  BY <1>6, <1>7, <1>8, <1>10, <1>11, <1>12, <1>13 DEF IInv

LEMMA Phase2KeepsInv ==
    ASSUME IInv, vb2api_fw_phase2, UNCHANGED env
    PROVE  IInv'
<1>1. pc = "phase2" /\ Saved /\ UNCHANGED attempts
  BY DEF vb2api_fw_phase2
<1>2. /\ ctx \in Contexts /\ ctx.nv \in NvType /\ "CHOSE_SLOT" \notin ctx.status
      /\ ctx.last_result = "unknown" /\ ctx.nv.recovery = "none"
  BY <1>1 DEF IInv, TypeInv, CtxInv, Booting, Chosen
<1>3. CASE "S3_RESUME" \in ctx.flags /\ Return([ctx EXCEPT !.slot = ctx.nv.tried], "phase3")
  <2> DEFINE c == [ctx EXCEPT !.slot = ctx.nv.tried]
  <2>1. ctx.nv.tried \in Slots
    BY <1>2 DEF NvType
  <2>2. /\ c \in Contexts /\ c.nv = ctx.nv /\ c.sec = ctx.sec /\ c.flags = ctx.flags
        /\ c.sec_version = ctx.sec_version /\ c.gbb = ctx.gbb /\ c.status = ctx.status
        /\ c.last_result = ctx.last_result /\ c.slot = ctx.nv.tried
    BY <1>2, <2>1 DEF Contexts
  <2> HIDE DEF c
  <2>3. SecondDone(c, "phase3")
    BY <1>2, <1>3, <2>2 DEF SecondDone, DevMode
  <2> QED
    BY <1>1, <1>3, <2>3, SecondKeepsInv DEF c
<1>4. CASE "S3_RESUME" \notin ctx.flags
  <2>1. PICK clear_ok \in BOOLEAN :
          LET c == vb2_check_tpm_clear(ctx, clear_ok)
          IN IF c.ok THEN Return(vb2_select_fw_slot(c), "phase3") ELSE Return(c, "reboot")
    BY <1>4 DEF vb2api_fw_phase2
  <2> DEFINE c == vb2_check_tpm_clear(ctx, clear_ok)
  <2>2. TpmCleared(ctx, c)
    BY <1>2, TpmClear
  <2>3. CASE c.ok /\ Return(vb2_select_fw_slot(c), "phase3")
    <3> DEFINE d == vb2_select_fw_slot(c)
    <3> HIDE DEF c
    <3>1. c \in Contexts /\ c.nv \in NvType
      BY <2>2 DEF TpmCleared
    <3>2. Selected(c, d)
      BY <3>1, SelectSlot
    <3> HIDE DEF d
    <3>3. d.nv.clear_done => ctx.nv.clear_done \/ d.cleared
      BY <2>2, <3>2 DEF TpmCleared, Selected
    <3>4. DevMode(d) <=> DevMode(ctx)
      BY SMTT(30), SMTT(60), <2>2, <3>2 DEF TpmCleared, Selected, DevMode
    <3>5. SecondDone(d, "phase3")
      BY <1>2, <2>2, <2>3, <3>2, <3>3, <3>4 DEF SecondDone, TpmCleared, Selected
    <3> QED
      BY <1>1, <2>3, <3>5, SecondKeepsInv DEF d
  <2>4. CASE ~c.ok /\ Return(c, "reboot")
    <3> HIDE DEF c
    <3>1. c.nv.clear_done => ctx.nv.clear_done \/ c.cleared
      BY <2>2 DEF TpmCleared
    <3>2. SecondDone(c, "reboot")
      BY <1>2, <2>2, <3>1 DEF SecondDone, TpmCleared
    <3> QED
      BY <1>1, <2>4, <3>2, SecondKeepsInv
  <2> QED
    BY <2>1, <2>3, <2>4
<1> QED
  BY <1>3, <1>4 DEF vb2api_fw_phase2
=============================================================================
