---------------------------- MODULE Vb2BootProofs ----------------------------
(***************************************************************************
 The last calls of a boot and everything between two boots, the caller's
 saves, the screens, the OS and failing power, keep the invariant of
 Vb2BootInv; and what follows from it.
 ***************************************************************************)
EXTENDS Vb2BootInv

----------------------------------------------------------------------------
(* A slot that fails in phase 3, in the body hash or in the RW firmware. *)
LEMMA SlotFails ==
    ASSUME IInv, pc \in {"phase3", "hash", "rw"}, Saved,
           NEW reason \in {"invalid_rw", "rw_firmware"},
           Return(vb2_fail(ctx, reason), "reboot"), UNCHANGED env,
           IF pc = "phase3" THEN Attempt(TRUE) ELSE AttemptFailed
    PROVE  IInv'
<1> DEFINE f == vb2_fail(ctx, reason)
<1>1. /\ ctx \in Contexts /\ ctx.nv \in NvType /\ attempts \in AttemptType \X AttemptType
      /\ nv = ctx.nv /\ sec.version = ctx.sec.version
      /\ sec.last_dev <=> ctx.sec.last_dev
      /\ ctx.nv.recovery = "none" /\ ctx.nv.tried = ctx.slot
      /\ Earned(ctx.nv) /\ Counted(ctx.nv)
      /\ Chosen => ctx.nv.result \in {"trying", "unknown"}
      /\ ~Chosen => "S3_RESUME" \in ctx.flags
  BY SMTT(30), SMTT(60) DEF IInv, TypeInv, CtxInv, ProvenInv, AttemptInv, Booting, Saved
<1>2. Failed(ctx, reason, f)
  BY <1>1, Fail DEF Reasons
<1>3. Fields(ctx) = ctx.nv
  BY <1>1, BadNvIsBad DEF Fields
<1> HIDE DEF f
<1>4. f \in Contexts /\ f.nv \in NvType /\ f.sec = ctx.sec /\ f.flags = ctx.flags
  BY SMTT(30), SMTT(60), <1>2 DEF Failed, Keeps
<1>5. /\ ctx' \in Contexts
      /\ ctx'.nv = f.nv /\ ctx'.sec = f.sec /\ ctx'.flags = f.flags
      /\ "nv" \in ctx'.changed <=> f.nv # ctx.nv
      /\ "sec" \in ctx'.changed <=> f.sec # ctx.sec
      /\ pc' = "reboot" /\ UNCHANGED <<nv, sec, slots, proven, updates>>
      /\ owner' = IF f.cleared /\ ~ctx.cleared THEN "none" ELSE owner
  BY <1>1, <1>4, Returned DEF f
<1>6. /\ attempts' \in AttemptType \X AttemptType
      /\ ~Chosen => attempts' = attempts
      /\ Chosen => /\ FailedAt(attempts'[2], ctx.slot)
                   /\ ctx.last_result = "failure" => FailedAt(attempts'[1], ctx.last_slot)
  <2>1. CASE ~Chosen
    <3>1. attempts' = attempts
      BY <2>1 DEF Attempt, AttemptFailed, Chosen
    <3> QED
      BY <1>1, <2>1, <3>1
  <2>2. CASE Chosen /\ pc = "phase3"
    <3>1. attempts' = <<attempts[2], [slot |-> ctx.slot, failed |-> TRUE]>>
      BY <2>2 DEF Attempt, Chosen
    <3>2. ctx.slot \in Slots
      BY <1>1 DEF Contexts
    <3>3. ctx.last_result = "failure" => FailedAt(attempts[2], ctx.last_slot)
      BY <2>2 DEF IInv, AttemptInv
    <3> QED
      BY Zenon, <1>1, <2>2, <3>1, <3>2, <3>3 DEF AttemptType, FailedAt
  <2>3. CASE Chosen /\ pc # "phase3"
    <3>1. attempts' = <<attempts[1], [attempts[2] EXCEPT !.failed = TRUE]>>
      BY <2>3 DEF AttemptFailed, Chosen
    <3>2. /\ attempts[2].slot = ctx.slot
          /\ ctx.last_result = "failure" => FailedAt(attempts[1], ctx.last_slot)
      BY <2>3 DEF IInv, AttemptInv
    <3> QED
      BY ZenonT(40), <1>1, <2>3, <3>1, <3>2 DEF AttemptType, FailedAt
  <2> QED
    BY <2>1, <2>2, <2>3
<1>7. TypeInv'
  BY <1>5, <1>6 DEF IInv, TypeInv, Pcs
<1>8. CtxInv'
  BY <1>1, <1>4, <1>5 DEF CtxInv, Booting
<1>9. OwnerInv'
  BY SMTT(30), SMTT(60), <1>1, <1>4, <1>5 DEF IInv, OwnerInv
<1>10. f.nv.tried = ctx.slot /\ f.nv.result = IF Chosen THEN "failure" ELSE ctx.nv.result
  BY SMTT(30), SMTT(60), <1>1, <1>2, <1>3 DEF Failed, Chosen
<1>11. ProvenInv'
  <2>1. Earned(f.nv)
    BY <1>1, <1>10 DEF Earned
  <2> QED
    BY ZenonT(40), <1>1, <1>4, <1>5, <2>1 DEF IInv, ProvenInv, Earned, Good, TypeInv, SecType
<1>12. UsableInv'
  BY <1>1, <1>4, <1>5 DEF IInv, UsableInv, Usable, NewEnough, GbbFlags
<1>13. ClearInv'
  <2>1. f.nv.clear_done <=> ctx.nv.clear_done
    BY <1>2, <1>3 DEF Failed
  <2> QED
    BY <1>1, <1>5, <2>1 DEF ClearInv
<1>14. AttemptInv'
  <2>1. (nv \in NvType => Counted(nv))'
    BY SMTT(30), SMTT(60), <1>1, <1>5, <1>6 DEF Counted
  <2>2. Counted(ctx.nv)'
    BY <1>1, <1>5, <1>6, <1>10 DEF Counted
  <2>3. ASSUME f.nv.recovery \in {"invalid_rw", "rw_firmware"}, "S3_RESUME" \notin ctx.flags
        PROVE  BothFailed'
    <3>1. Chosen
      BY SMTT(30), SMTT(60), <1>1, <2>3
    <3>2. OtherFailed(ctx)
      BY <1>1, <1>2, <1>3, <2>3, <3>1 DEF Failed, Chosen
    <3>3. ctx.slot \in Slots
      BY <1>1 DEF Contexts
    <3> QED
      BY <1>6, <3>1, <3>2, <3>3 DEF BothFailed, FailedAt, OtherFailed, Slots
  <2> QED
    BY SMTT(30), SMTT(60), <1>4, <1>5, <2>1, <2>2, <2>3 DEF AttemptInv
<1> QED
  BY SMTT(30), SMTT(60), <1>7, <1>8, <1>9, <1>11, <1>12, <1>13, <1>14 DEF IInv

(* Rolling forward leaves everything but the version, which moves to the
   version of a slot that the last boot ran from and found good. *)
Rolled(c, version, d) ==
    /\ d \in Contexts /\ d.nv = c.nv /\ d.flags = c.flags /\ d.status = c.status /\ d.slot = c.slot
    /\ d.last_slot = c.last_slot /\ d.last_result = c.last_result /\ d.gbb = c.gbb
    /\ d.cleared <=> c.cleared
    /\ d.sec.last_dev <=> c.sec.last_dev
    /\ \/ d.sec_version = c.sec_version /\ d.sec = c.sec
       \/ /\ MayRollForward(c, version)
          /\ d.sec_version = version /\ d.sec.version = version

LEMMA RollsForward ==
    ASSUME NEW c \in Contexts, NEW version \in Nat
    PROVE  Rolled(c, version, RollForward(c, version))
<1> DEFINE d == RollForward(c, version)
<1>1. CASE MayRollForward(c, version)
  <2>1. d = [c EXCEPT !.sec_version = version, !.sec.version = version]
    BY <1>1 DEF RollForward
  <2> HIDE DEF d
  <2>2. d.sec = [c.sec EXCEPT !.version = version]
    BY <2>1 DEF Contexts
  <2>3. d.sec \in SecType /\ d.sec.version = version
    BY <2>2 DEF Contexts, SecType
  <2>4. d.sec.last_dev <=> c.sec.last_dev
    BY <2>2 DEF Contexts, SecType
  <2>5. d = [c EXCEPT !.sec_version = version, !.sec = d.sec]
    BY <2>1, <2>2 DEF Contexts
  <2>6. d \in Contexts
    BY Zenon, <2>3, <2>5 DEF Contexts
  <2>7. /\ d.nv = c.nv /\ d.flags = c.flags /\ d.status = c.status /\ d.slot = c.slot
        /\ d.last_slot = c.last_slot /\ d.last_result = c.last_result /\ d.gbb = c.gbb
        /\ d.sec_version = version
    BY Zenon, <2>5 DEF Contexts
  <2>8. d.cleared <=> c.cleared
    BY Zenon, <2>5 DEF Contexts
  <2>9. Rolled(c, version, d)
    BY <1>1, <2>3, <2>4, <2>6, <2>7, <2>8 DEF Rolled
  <2> QED
    BY <2>9 DEF d
<1>2. CASE ~MayRollForward(c, version)
  BY <1>2 DEF RollForward, Rolled
<1> QED
  BY <1>1, <1>2

LEMMA Phase3KeepsInv ==
    ASSUME IInv, vb2api_fw_phase3, UNCHANGED env
    PROVE  IInv'
<1> DEFINE fw == slots[ctx.slot]
           d == RollForward(ctx, fw.version)
<1>1. pc = "phase3" /\ Saved
  BY DEF vb2api_fw_phase3
<1>2. /\ \/ Attempt(TRUE) /\ Return(vb2_fail(ctx, "invalid_rw"), "reboot")
         \/ ~TooOld(ctx, fw.version) /\ Attempt(FALSE) /\ Return(d, "hash")
  <2>1. PICK read_ok \in BOOLEAN :
          LET good == read_ok /\ fw.quality # "corrupt" /\ ~TooOld(ctx, fw.version)
          IN /\ Attempt(~good)
             /\ IF good THEN Return(d, "hash") ELSE Return(vb2_fail(ctx, "invalid_rw"), "reboot")
    BY DEF vb2api_fw_phase3
  <2> DEFINE good == read_ok /\ fw.quality # "corrupt" /\ ~TooOld(ctx, fw.version)
  <2>2. CASE good
    BY Zenon, <2>1, <2>2 DEF Attempt
  <2>3. CASE ~good
    BY Zenon, <2>1, <2>3 DEF Attempt
  <2> QED
    BY Zenon, <2>2, <2>3
<1>3. CASE Attempt(TRUE) /\ Return(vb2_fail(ctx, "invalid_rw"), "reboot")
  BY <1>1, <1>3, SlotFails
<1>4. CASE ~TooOld(ctx, fw.version) /\ Attempt(FALSE) /\ Return(d, "hash")
  <2>1. /\ ctx \in Contexts /\ ctx.nv \in NvType /\ attempts \in AttemptType \X AttemptType
        /\ nv = ctx.nv /\ sec.version = ctx.sec.version
        /\ sec.last_dev <=> ctx.sec.last_dev
        /\ DevMode(ctx) <=> ctx.sec.last_dev
        /\ ctx.nv.recovery = "none" /\ ctx.nv.tried = ctx.slot
        /\ ctx.sec_version = ctx.sec.version /\ ctx.gbb \subseteq GbbFlags
        /\ Earned(ctx.nv) /\ Counted(ctx.nv)
        /\ Chosen => ctx.nv.result \in {"trying", "unknown"}
        /\ ~Chosen => "S3_RESUME" \in ctx.flags /\ ctx.last_result = "unknown"
    BY <1>1 DEF IInv, TypeInv, CtxInv, ProvenInv, AttemptInv, Booting, Saved
  <2>2. /\ ctx.slot \in Slots /\ fw \in SlotType /\ fw.version \in Nat
        /\ sec.version \in Nat /\ ctx.sec.version \in Nat
    BY SMTT(30), SMTT(60), <2>1 DEF IInv, TypeInv, Contexts, SlotType, SecType
  <2>3. Rolled(ctx, fw.version, d)
    BY SMTT(30), SMTT(60), <2>1, <2>2, RollsForward
  <2>4. MayRollForward(ctx, fw.version) => Good(ctx.slot) /\ fw.version > ctx.sec.version
    BY SMTT(30), SMTT(60), <1>1, <2>1 DEF IInv, ProvenInv, MayRollForward
  <2> HIDE DEF d
  <2>5. /\ ctx' \in Contexts
        /\ ctx'.nv = d.nv /\ ctx'.sec = d.sec /\ ctx'.flags = d.flags /\ ctx'.status = d.status
        /\ ctx'.slot = d.slot /\ ctx'.last_slot = d.last_slot /\ ctx'.last_result = d.last_result
        /\ ctx'.gbb = d.gbb /\ ctx'.sec_version = d.sec_version
        /\ "nv" \in ctx'.changed <=> d.nv # ctx.nv
        /\ "sec" \in ctx'.changed <=> d.sec # ctx.sec
        /\ pc' = "hash" /\ UNCHANGED <<nv, sec, slots, proven, updates>>
        /\ owner' = IF d.cleared /\ ~ctx.cleared THEN "none" ELSE owner
    BY <1>4, <2>1, <2>3, Returned DEF Rolled
  <2>6. /\ attempts' \in AttemptType \X AttemptType
        /\ ~Chosen => attempts' = attempts
        /\ Chosen => /\ attempts'[2].slot = ctx.slot
                     /\ ctx.last_result = "failure" => FailedAt(attempts'[1], ctx.last_slot)
    <3>1. CASE ~Chosen
      BY Zenon, <1>4, <2>1, <3>1 DEF Attempt, Chosen
    <3>2. CASE Chosen
      <4>1. attempts' = <<attempts[2], [slot |-> ctx.slot, failed |-> FALSE]>>
        BY Zenon, <1>4, <3>2 DEF Attempt, Chosen
      <4>2. ctx.last_result = "failure" => FailedAt(attempts[2], ctx.last_slot)
        BY <1>1, <3>2 DEF IInv, AttemptInv
      <4> QED
        BY Zenon, <2>1, <2>2, <3>2, <4>1, <4>2 DEF AttemptType
    <3> QED
      BY SMTT(30), SMTT(60), <3>1, <3>2
  <2>7. TypeInv'
    BY SMTT(30), SMTT(60), <2>5, <2>6 DEF IInv, TypeInv, Pcs
  <2>8. CtxInv'
    BY SMTT(30), SMTT(60), <2>1, <2>3, <2>5 DEF CtxInv, Booting, Chosen, Rolled, DevMode, GbbFlags
  <2>9. OwnerInv'
    BY SMTT(30), SMTT(60), <2>1, <2>3, <2>5 DEF IInv, OwnerInv, Rolled
  <2>10. /\ ctx'.sec.version \in proven /\ ctx'.sec.version >= sec.version
    BY SMTT(30), SMTT(60), <2>1, <2>2, <2>3, <2>4, <2>5 DEF IInv, ProvenInv, Rolled, Good
  <2>11. ProvenInv'
    BY SMTT(30), SMTT(60), <2>1, <2>3, <2>5, <2>10 DEF IInv, ProvenInv, Earned, Good, Rolled
  <2>12. NewEnough(ctx.slot, d.sec.version)
    BY SMTT(30), SMTT(60), <1>4, <2>1, <2>2, <2>3 DEF Rolled, NewEnough, TooOld
  <2>13. Usable(d.sec.version)
    BY SMTT(30), SMTT(60), <1>1, <2>2, <2>3, <2>4, <2>12 DEF IInv, UsableInv, Rolled, Usable, Good
  <2>14. UsableInv'
    BY SMTT(30), SMTT(60), <2>3, <2>5, <2>12, <2>13 DEF IInv, UsableInv, Usable, NewEnough, GbbFlags, Rolled
  <2>15. ClearInv'
    BY SMTT(30), SMTT(60), <2>1, <2>3, <2>5 DEF ClearInv, Rolled
  <2>16. AttemptInv'
    BY <2>1, <2>3, <2>5, <2>6 DEF AttemptInv, Rolled, Counted, Chosen
  <2> QED
    BY SMTT(30), SMTT(60), <2>7, <2>8, <2>9, <2>11, <2>14, <2>15, <2>16 DEF IInv
<1> QED
  BY Zenon, <1>2, <1>3, <1>4

LEMMA HashKeepsInv ==
    ASSUME IInv, vb2api_check_hash, UNCHANGED env
    PROVE  IInv'
<1>1. pc = "hash" /\ Saved
  BY DEF vb2api_check_hash
<1>2. \/ Return(vb2_fail(ctx, "invalid_rw"), "reboot") /\ AttemptFailed
      \/ Return(ctx, "rw") /\ UNCHANGED attempts
  BY DEF vb2api_check_hash
<1>3. CASE Return(vb2_fail(ctx, "invalid_rw"), "reboot") /\ AttemptFailed
  BY <1>1, <1>3, SlotFails
<1>4. CASE Return(ctx, "rw") /\ UNCHANGED attempts
  <2>1. ctx \in Contexts /\ ctx.changed = {}
    BY <1>1 DEF IInv, TypeInv, Saved
  <2>2. /\ ctx' \in Contexts
        /\ ctx'.nv = ctx.nv /\ ctx'.sec = ctx.sec /\ ctx'.flags = ctx.flags /\ ctx'.status = ctx.status
        /\ ctx'.slot = ctx.slot /\ ctx'.last_slot = ctx.last_slot /\ ctx'.last_result = ctx.last_result
        /\ ctx'.gbb = ctx.gbb /\ ctx'.sec_version = ctx.sec_version /\ ctx'.cleared = ctx.cleared
        /\ "nv" \notin ctx'.changed /\ "sec" \notin ctx'.changed
        /\ pc' = "rw" /\ UNCHANGED <<nv, sec, slots, proven, updates>>
        /\ owner' = owner
    BY <1>4, <2>1, Returned
  <2>3. ctx'.changed = {}
    BY SMTT(30), SMTT(60), <2>2 DEF Contexts
  <2>4. TypeInv'
    BY SMTT(30), SMTT(60), <1>4, <2>2 DEF IInv, TypeInv, Pcs
  <2>5. CtxInv'
    BY <1>1, <2>1, <2>2, <2>3 DEF IInv, CtxInv, Booting, Chosen, DevMode, GbbFlags
  <2>6. OwnerInv'
    BY SMTT(30), SMTT(60), <1>1, <2>2 DEF IInv, OwnerInv
  <2>7. ProvenInv'
    BY SMTT(30), SMTT(60), <1>1, <2>2 DEF IInv, ProvenInv, Booting, Earned, Good
  <2>8. UsableInv'
    BY SMTT(30), SMTT(60), <1>1, <2>2 DEF IInv, UsableInv, Usable, NewEnough, GbbFlags
  <2>9. ClearInv'
    BY SMTT(30), SMTT(60), <1>1, <2>2 DEF IInv, ClearInv, Booting
  <2>10. AttemptInv'
    BY <1>1, <1>4, <2>2 DEF IInv, AttemptInv, Booting, Counted, Chosen, BothFailed
  <2> QED
    BY <2>4, <2>5, <2>6, <2>7, <2>8, <2>9, <2>10 DEF IInv
<1> QED
  BY <1>2, <1>3, <1>4

LEMMA RwFailKeepsInv ==
    ASSUME IInv, vb2api_fail, UNCHANGED env
    PROVE  IInv'
<1>1. pc = "rw" /\ Return(vb2_fail(ctx, "rw_firmware"), "reboot") /\ AttemptFailed
  BY SMTT(30), SMTT(60) DEF vb2api_fail
<1>2. Saved
  BY <1>1 DEF IInv, CtxInv, Saved
<1> QED
  BY <1>1, <1>2, SlotFails

----------------------------------------------------------------------------
(* The machine goes off, whatever is left in its storage: what the invariant
   asks of the storage is what the next boot relies on. *)
LEMMA TurnsOff ==
    ASSUME IInv, pc' = "off", UNCHANGED <<env, owner, slots, ctx, proven, attempts>>,
           nv' \in NvType \cup {BadNv}, nv' \in NvType => Earned(nv') /\ Counted(nv'),
           sec' \in SecType, sec'.version \in {sec.version, ctx.sec.version},
           pc = "off" => sec' = sec,
           owner # "none" => (sec'.last_dev <=> sec.last_dev)
    PROVE  IInv'
<1>1. TypeInv'
  BY DEF IInv, TypeInv, Pcs
<1>2. CtxInv'
  BY SMTT(30), SMTT(60) DEF CtxInv, Booting
<1>3. OwnerInv'
  BY SMTT(30), SMTT(60) DEF IInv, OwnerInv
<1>4. ProvenInv'
  BY DEF IInv, ProvenInv, Booting, Earned, Good
<1>5. UsableInv'
  BY DEF IInv, UsableInv, Usable, NewEnough, GbbFlags
<1>6. ClearInv'
  BY SMTT(30), SMTT(60) DEF ClearInv, Booting
<1>7. AttemptInv'
  BY DEF AttemptInv, Booting, Counted
<1> QED
  BY <1>1, <1>2, <1>3, <1>4, <1>5, <1>6, <1>7 DEF IInv

LEMMA PowerLost ==
    ASSUME IInv, pc' = "off", UNCHANGED <<env, nv, sec, owner, slots, ctx, proven, attempts>>
    PROVE  IInv'
<1>1. nv \in NvType \cup {BadNv} /\ sec \in SecType
  BY DEF IInv, TypeInv
<1>2. nv' \in NvType => Earned(nv') /\ Counted(nv')
  BY DEF IInv, ProvenInv, AttemptInv
<1> QED
  BY <1>1, <1>2, TurnsOff

LEMMA NvLostKeepsInv ==
    ASSUME IInv, NvLost, UNCHANGED env
    PROVE  IInv'
<1>1. sec \in SecType /\ nv' = BadNv /\ pc' = "off"
  BY DEF IInv, TypeInv, NvLost
<1> QED
  BY <1>1, TurnsOff, BadNvIsBad DEF NvLost

LEMMA PowerOnKeepsInv ==
    ASSUME IInv, PowerOn, UNCHANGED env
    PROVE  IInv'
<1>1. PICK sec_ok \in BOOLEAN, flags \in SUBSET CallerFlags :
         ctx' = Context(nv, [sec EXCEPT !.valid = @ /\ sec_ok],
                        IF pc = "s3" THEN flags \cup {"S3_RESUME"} ELSE flags)
  BY Zenon DEF PowerOn
<1> DEFINE s == [sec EXCEPT !.valid = @ /\ sec_ok]
           f == IF pc = "s3" THEN flags \cup {"S3_RESUME"} ELSE flags
<1>2. pc' = "phase1" /\ UNCHANGED <<nv, sec, owner, slots, proven, attempts>>
  BY DEF PowerOn
<1>3. sec \in SecType /\ nv \in NvType \cup {BadNv}
  BY DEF IInv, TypeInv
<1>4. s \in SecType /\ s.version = sec.version
  BY <1>3 DEF SecType
<1>5. s.last_dev <=> sec.last_dev
  BY <1>3 DEF SecType
<1>6. env.flags \subseteq AllFlags
  BY Vb2Assumption DEF IInv, TypeInv
<1>7. f \subseteq BootFlags
  BY <1>6 DEF CallerFlags, BootFlags
<1>8. ctx' = Context(nv, s, f)
  BY <1>1
<1> HIDE DEF s, f
<1>9. ctx' \in Contexts
  BY <1>3, <1>4, <1>7, <1>8 DEF Context, Contexts, Slots, Results, Causes, Reasons, Status
<1>10. /\ ctx'.nv = nv /\ ctx'.sec = s /\ ctx'.changed = {} /\ ctx'.status = {} /\ ctx'.gbb = {}
       /\ ctx'.last_result = "unknown"
  BY <1>8 DEF Context
<1>11. ~ctx'.cleared
  BY <1>8 DEF Context
<1>12. TypeInv'
  BY <1>2, <1>9 DEF IInv, TypeInv, Pcs
<1>13. CtxInv'
  BY <1>2, <1>4, <1>5, <1>10, <1>11 DEF CtxInv, Booting, Chosen
<1>14. OwnerInv'
  BY SMTT(30), SMTT(60), <1>2, <1>5, <1>10 DEF IInv, OwnerInv
<1>15. ProvenInv'
  <2>1. sec.version \in Nat
    BY SMTT(30), SMTT(60), <1>3 DEF SecType
  <2> QED
    BY <1>2, <1>4, <1>10, <2>1 DEF IInv, ProvenInv, Earned, Good
<1>16. UsableInv'
  BY <1>2, <1>4, <1>10 DEF IInv, UsableInv, Usable, NewEnough, GbbFlags
<1>17. ClearInv'
  BY SMTT(30), SMTT(60), <1>2, <1>10 DEF ClearInv
<1>18. AttemptInv'
  BY <1>2, <1>10, BadNvIsBad DEF IInv, AttemptInv, Counted
<1> QED
  BY <1>12, <1>13, <1>14, <1>15, <1>16, <1>17, <1>18 DEF IInv

LEMMA SaveNvKeepsInv ==
    ASSUME IInv, SaveNv, UNCHANGED env
    PROVE  IInv'
<1>1. /\ pc # "off" /\ "nv" \in ctx.changed /\ ctx \in Contexts /\ sec \in SecType
      /\ UNCHANGED <<sec, owner, slots, proven, attempts>>
  BY SMTT(30), SMTT(60) DEF IInv, TypeInv, SaveNv
<1>2. Booting /\ pc # "rw"
  BY <1>1 DEF IInv, CtxInv, Booting
<1>3. CASE nv' = BadNv /\ pc' = "off" /\ UNCHANGED ctx
  BY <1>1, <1>3, BadNvIsBad, TurnsOff
<1>4. CASE nv' = ctx.nv /\ ctx' = [ctx EXCEPT !.changed = @ \ {"nv"}] /\ UNCHANGED pc
  <2>1. ctx' \in Contexts
    BY <1>1, <1>4 DEF Contexts
  <2>2. /\ ctx'.nv = ctx.nv /\ ctx'.sec = ctx.sec /\ ctx'.flags = ctx.flags /\ ctx'.status = ctx.status
        /\ ctx'.slot = ctx.slot /\ ctx'.last_slot = ctx.last_slot /\ ctx'.last_result = ctx.last_result
        /\ ctx'.gbb = ctx.gbb /\ ctx'.sec_version = ctx.sec_version
        /\ ctx'.changed = ctx.changed \ {"nv"}
    BY <1>1, <1>4 DEF Contexts
  <2>3. ctx'.cleared <=> ctx.cleared
    BY <1>1, <1>4 DEF Contexts
  <2>4. nv' \in NvType \cup {BadNv}
    BY <1>1, <1>4 DEF Contexts
  <2>5. TypeInv'
    BY <1>1, <1>4, <2>1, <2>4 DEF IInv, TypeInv
  <2>6. CtxInv'
    BY <1>1, <1>2, <1>4, <2>2, <2>3 DEF IInv, CtxInv, Booting, Chosen, DevMode, GbbFlags
  <2>7. OwnerInv'
    BY <1>1, <1>4, <2>2 DEF IInv, OwnerInv
  <2>8. ProvenInv'
    BY <1>1, <1>2, <1>4, <2>2 DEF IInv, ProvenInv, Booting, Earned, Good
  <2>9. UsableInv'
    BY <1>1, <1>4, <2>2 DEF IInv, UsableInv, Usable, NewEnough, GbbFlags
  <2>10. ClearInv'
    BY <1>4, <2>2 DEF ClearInv
  <2>11. AttemptInv'
    BY <1>1, <1>2, <1>4, <2>2, BadNvIsBad DEF IInv, AttemptInv, Booting, Counted, Chosen
  <2> QED
    BY <2>5, <2>6, <2>7, <2>8, <2>9, <2>10, <2>11 DEF IInv
<1> QED
  BY <1>3, <1>4 DEF SaveNv

LEMMA SaveSecKeepsInv ==
    ASSUME IInv, SaveSec, UNCHANGED env
    PROVE  IInv'
<1>1. /\ pc # "off" /\ "sec" \in ctx.changed /\ ctx \in Contexts /\ ctx.sec \in SecType
      /\ nv \in NvType \cup {BadNv}
      /\ UNCHANGED <<nv, owner, slots, proven, attempts>>
  BY DEF IInv, TypeInv, SaveSec, Contexts
<1>2. Booting /\ pc # "rw"
  BY <1>1 DEF IInv, CtxInv, Booting
<1>3. owner # "none" => (ctx.sec.last_dev <=> sec.last_dev)
  BY <1>1 DEF IInv, OwnerInv
<1>4. CASE sec' = [ctx.sec EXCEPT !.valid = FALSE] /\ pc' = "off" /\ UNCHANGED ctx
  <2>1. sec' \in SecType /\ sec'.version = ctx.sec.version
    BY Zenon, <1>1, <1>4 DEF SecType
  <2>2. sec'.last_dev <=> ctx.sec.last_dev
    BY <1>1, <1>4 DEF SecType
  <2>3. nv' \in NvType => Earned(nv') /\ Counted(nv')
    BY <1>1 DEF IInv, ProvenInv, AttemptInv
  <2> QED
    BY <1>1, <1>3, <1>4, <2>1, <2>2, <2>3, TurnsOff
<1>5. CASE sec' = ctx.sec /\ ctx' = [ctx EXCEPT !.changed = @ \ {"sec"}] /\ UNCHANGED pc
  <2>1. ctx' \in Contexts
    BY <1>1, <1>5 DEF Contexts
  <2>2. /\ ctx'.nv = ctx.nv /\ ctx'.sec = ctx.sec /\ ctx'.flags = ctx.flags /\ ctx'.status = ctx.status
        /\ ctx'.slot = ctx.slot /\ ctx'.last_slot = ctx.last_slot /\ ctx'.last_result = ctx.last_result
        /\ ctx'.gbb = ctx.gbb /\ ctx'.sec_version = ctx.sec_version
        /\ ctx'.changed = ctx.changed \ {"sec"}
    BY <1>1, <1>5 DEF Contexts
  <2>3. ctx'.cleared <=> ctx.cleared
    BY <1>1, <1>5 DEF Contexts
  <2>4. TypeInv'
    BY <1>1, <1>5, <2>1 DEF IInv, TypeInv
  <2>5. CtxInv'
    BY <1>1, <1>2, <1>5, <2>2, <2>3 DEF IInv, CtxInv, Booting, Chosen, DevMode, GbbFlags
  <2>6. OwnerInv'
    BY <1>1, <1>3, <1>5, <2>2 DEF IInv, OwnerInv
  <2>7. ctx.sec.version \in Nat
    BY <1>1 DEF SecType
  <2>8. ProvenInv'
    BY <1>1, <1>5, <2>2, <2>7 DEF IInv, ProvenInv, Booting, Earned, Good
  <2>9. UsableInv'
    BY <1>1, <1>5, <2>2 DEF IInv, UsableInv, Usable, NewEnough, GbbFlags
  <2>10. ClearInv'
    BY <1>1, <1>5, <2>2, <2>3 DEF IInv, ClearInv, Booting
  <2>11. AttemptInv'
    BY <1>1, <1>5, <2>2 DEF IInv, AttemptInv, Booting, Counted, Chosen, BothFailed
  <2> QED
    BY <2>4, <2>5, <2>6, <2>8, <2>9, <2>10, <2>11 DEF IInv
<1> QED
  BY <1>4, <1>5 DEF SaveSec

LEMMA RecoveryScreenKeepsInv ==
    ASSUME IInv, RecoveryScreen, UNCHANGED env
    PROVE  IInv'
<1>1. /\ pc = "recovery" /\ pc' = "off" /\ Saved
      /\ UNCHANGED <<owner, slots, ctx, proven, attempts>>
  BY SMTT(30), SMTT(60) DEF RecoveryScreen
<1>2. /\ nv \in NvType /\ nv = ctx.nv /\ sec \in SecType /\ ctx \in Contexts
      /\ Earned(nv) /\ Counted(nv)
  BY Zenon, <1>1 DEF IInv, TypeInv, CtxInv, ProvenInv, AttemptInv, Booting, Saved
<1>3. CASE nv' = [nv EXCEPT !.subcode = ctx.reason] /\ UNCHANGED sec
  <2>1. nv' \in NvType
    BY <1>2, <1>3 DEF NvType, Contexts
  <2>2. nv'.result = nv.result /\ nv'.tried = nv.tried
    BY <1>2, <1>3 DEF NvType
  <2>3. Earned(nv') /\ Counted(nv')
    BY <1>2, <2>2 DEF Earned, Counted
  <2> QED
    BY <1>1, <1>2, <1>3, <2>1, <2>3, TurnsOff
<1>4. CASE UNCHANGED <<nv, sec>>
  BY <1>1, <1>4, PowerLost
<1>5. CASE sec' = [sec EXCEPT !.dev = TRUE] /\ UNCHANGED nv
  <2>1. sec' \in SecType /\ sec'.version = sec.version
    BY Zenon, <1>2, <1>5 DEF SecType
  <2>2. sec'.last_dev <=> sec.last_dev
    BY <1>2, <1>5 DEF SecType
  <2> QED
    BY <1>1, <1>2, <1>5, <2>1, <2>2, TurnsOff
<1> QED
  BY <1>3, <1>4, <1>5 DEF RecoveryScreen

LEMMA StartOsKeepsInv ==
    ASSUME IInv, StartOs, UNCHANGED env
    PROVE  IInv'
<1>1. /\ pc = "rw" /\ pc' = "os" /\ Saved /\ slots[ctx.slot].quality = "good"
      /\ UNCHANGED <<nv, sec, owner, slots, ctx, proven, attempts>>
  BY DEF StartOs, Goto
<1>2. TypeInv'
  BY SMTT(30), SMTT(60), <1>1 DEF IInv, TypeInv, Pcs
<1>3. CtxInv'
  BY <1>1 DEF IInv, CtxInv, Booting, Chosen, DevMode, GbbFlags
<1>4. OwnerInv'
  BY <1>1 DEF IInv, OwnerInv
<1>5. ProvenInv'
  BY SMTT(30), SMTT(60), <1>1 DEF IInv, ProvenInv, Booting, Earned, Good
<1>6. UsableInv'
  BY <1>1 DEF IInv, UsableInv, Usable, NewEnough, GbbFlags
<1>7. ClearInv'
  BY SMTT(30), SMTT(60), <1>1 DEF ClearInv, Booting
<1>8. AttemptInv'
  BY <1>1 DEF IInv, AttemptInv, Booting, Counted
<1> QED
  BY <1>2, <1>3, <1>4, <1>5, <1>6, <1>7, <1>8 DEF IInv

LEMMA OsStopsKeepsInv ==
    ASSUME IInv, OsStops, UNCHANGED env
    PROVE  IInv'
<1>1. /\ pc = "os" /\ pc' \in {"off", "s3"}
      /\ UNCHANGED <<nv, sec, owner, slots, ctx, proven, attempts>>
  BY DEF OsStops, Goto
<1>2. CASE pc' = "off"
  BY <1>1, <1>2, PowerLost
<1>3. CASE pc' = "s3"
  <2>1. TypeInv'
    BY SMTT(30), SMTT(60), <1>1, <1>3 DEF IInv, TypeInv, Pcs
  <2>2. CtxInv'
    BY <1>1, <1>3 DEF IInv, CtxInv, Booting
  <2>3. OwnerInv'
    BY SMTT(30), SMTT(60), <1>1, <1>3 DEF IInv, OwnerInv
  <2>4. ProvenInv'
    BY SMTT(30), SMTT(60), <1>1, <1>3 DEF IInv, ProvenInv, Booting, Earned, Good
  <2>5. UsableInv'
    BY SMTT(30), SMTT(60), <1>1, <1>3 DEF IInv, UsableInv, Usable, NewEnough, GbbFlags
  <2>6. ClearInv' /\ AttemptInv'
    BY SMTT(30), SMTT(60), <1>1, <1>3 DEF IInv, ClearInv, AttemptInv, Booting, Counted
  <2> QED
    BY <2>1, <2>2, <2>3, <2>4, <2>5, <2>6 DEF IInv
<1> QED
  BY <1>1, <1>2, <1>3

----------------------------------------------------------------------------
(* The running OS changes fields of nvdata, but not the slot it was booted
   from; a result of success stands for that slot. *)
LEMMA OsSetsNv ==
    ASSUME IInv, OsUnchanged, UNCHANGED <<env, owner, slots>>,
           nv' \in NvType, nv'.tried = nv.tried,
           \/ nv'.result = nv.result /\ proven' = proven
           \/ nv'.result = "success" /\ proven' = proven \cup {slots[ctx.slot].version}
    PROVE  IInv'
<1>1. pc = "os" /\ UNCHANGED <<sec, pc, ctx, attempts>>
  BY SMTT(30), SMTT(60) DEF OsUnchanged
<1>2. /\ nv \in NvType /\ nv.tried = ctx.slot /\ ctx.slot \in Slots
      /\ slots[ctx.slot].quality = "good" /\ slots[ctx.slot].version \in Nat
  BY <1>1 DEF IInv, TypeInv, CtxInv, ProvenInv, Contexts, SlotType
<1>3. TypeInv'
  BY Zenon, <1>1, <1>2 DEF IInv, TypeInv
<1>4. CtxInv'
  BY <1>1, <1>2 DEF IInv, CtxInv, Booting, Chosen, DevMode, GbbFlags
<1>5. OwnerInv'
  BY <1>1 DEF IInv, OwnerInv
<1>6. Earned(nv)'
  BY SMTT(30), SMTT(60), <1>1, <1>2 DEF IInv, ProvenInv, Earned, Good
<1>7. ProvenInv'
  BY SMTT(30), SMTT(60), <1>1, <1>6 DEF IInv, ProvenInv, Booting
<1>8. UsableInv'
  BY SMTT(30), SMTT(60), <1>1 DEF IInv, UsableInv, Usable, NewEnough, GbbFlags
<1>9. ClearInv' /\ AttemptInv'
  BY <1>1, <1>2 DEF IInv, ClearInv, AttemptInv, Booting, Counted
<1> QED
  BY <1>3, <1>4, <1>5, <1>7, <1>8, <1>9 DEF IInv

LEMMA OsNvKeepsInv ==
    ASSUME IInv, OsMarksGood \/ OsTriesSlot \/ OsRequests, UNCHANGED env
    PROVE  IInv'
<1>1. OsUnchanged /\ UNCHANGED <<owner, slots>> /\ pc = "os"
  BY DEF OsMarksGood, OsTriesSlot, OsRequests, OsUnchanged
<1>2. nv \in NvType /\ ctx.slot \in Slots
  BY <1>1 DEF IInv, TypeInv, CtxInv, Contexts
<1>3. CASE OsMarksGood
  <2>1. nv' \in NvType /\ nv'.tried = nv.tried /\ nv'.result = "success"
    BY SMTT(30), SMTT(60), <1>2, <1>3 DEF OsMarksGood, NvType, Results
  <2> QED
    BY <1>1, <1>3, <2>1, OsSetsNv DEF OsMarksGood
<1>4. CASE OsTriesSlot
  <2>1. PICK n \in 1..MaxTries : nv' = [nv EXCEPT !.try_next = 1 - ctx.slot, !.try_count = n]
    BY Zenon, <1>4 DEF OsTriesSlot
  <2>2. n \in Nat
    BY Vb2Assumption DEF IInv, TypeInv, MaxTries
  <2>3. 1 - ctx.slot \in Slots
    BY <1>2 DEF Slots
  <2>4. nv' \in NvType /\ nv'.tried = nv.tried /\ nv'.result = nv.result
    BY Zenon, <1>2, <2>1, <2>2, <2>3 DEF NvType
  <2> QED
    BY ZenonT(40), <1>1, <1>4, <2>4, OsSetsNv DEF OsTriesSlot
<1>5. CASE OsRequests
  <2>1. PICK r \in Requests : nv' = [nv EXCEPT ![r] = TRUE, !.clear_done = FALSE]
    BY <1>5 DEF OsRequests
  <2>2. r \in {"disable_dev", "clear_request"}
    BY Vb2Assumption DEF IInv, TypeInv, Requests
  <2>3. \/ nv' = [nv EXCEPT !.disable_dev = TRUE, !.clear_done = FALSE]
        \/ nv' = [nv EXCEPT !.clear_request = TRUE, !.clear_done = FALSE]
    BY <2>1, <2>2
  <2>4. nv' \in NvType /\ nv'.tried = nv.tried /\ nv'.result = nv.result
    BY ZenonT(40), <1>2, <2>3 DEF NvType
  <2> QED
    BY <1>1, <1>5, <2>4, OsSetsNv DEF OsRequests
<1> QED
  BY <1>3, <1>4, <1>5

LEMMA OsWritesSlotKeepsInv ==
    ASSUME IInv, OsWritesSlot, UNCHANGED env
    PROVE  IInv'
<1>1. pc = "os" /\ UNCHANGED <<nv, sec, owner, pc, ctx, proven, attempts>>
  BY DEF OsWritesSlot, OsUnchanged
<1>2. PICK q \in Qualities, v \in Versions :
         slots' = [slots EXCEPT ![1 - ctx.slot] = [quality |-> q, version |-> v]]
  BY Zenon DEF OsWritesSlot
<1>3. q \in AllQualities /\ v \in Nat
  BY Vb2Assumption DEF IInv, TypeInv, Qualities, Versions
<1>4. /\ ctx.slot \in Slots /\ 1 - ctx.slot \in Slots /\ 1 - ctx.slot # ctx.slot
      /\ nv.tried = ctx.slot /\ sec.version = ctx.sec.version
      /\ slots \in [Slots -> SlotType]
  BY <1>1 DEF IInv, TypeInv, CtxInv, ProvenInv, Contexts, Slots
<1>5. slots' \in [Slots -> SlotType] /\ slots'[ctx.slot] = slots[ctx.slot]
  BY <1>2, <1>3, <1>4 DEF SlotType
<1>6. TypeInv'
  BY SMTT(30), SMTT(60), <1>1, <1>5 DEF IInv, TypeInv
<1>7. CtxInv'
  BY <1>1 DEF IInv, CtxInv, Booting, Chosen, DevMode, GbbFlags
<1>8. OwnerInv'
  BY SMTT(30), SMTT(60), <1>1 DEF IInv, OwnerInv
<1>9. ProvenInv'
  BY SMTT(30), SMTT(60), <1>1, <1>4, <1>5 DEF IInv, ProvenInv, Booting, Earned, Good
<1>10. slots[ctx.slot].quality = "good" /\ NewEnough(ctx.slot, sec.version)
  BY <1>1, <1>4 DEF IInv, ProvenInv, UsableInv
<1>11. NewEnough(ctx.slot, sec.version)'
  BY <1>1, <1>5, <1>10 DEF NewEnough, GbbFlags
<1>12. Usable(sec.version)'
  BY <1>1, <1>4, <1>5, <1>10, <1>11 DEF Usable
<1>13. UsableInv'
  BY SMTT(30), SMTT(60), <1>1, <1>4, <1>11, <1>12 DEF UsableInv
<1>14. ClearInv' /\ AttemptInv'
  BY <1>1 DEF IInv, ClearInv, AttemptInv, Booting, Counted
<1> QED
  BY <1>6, <1>7, <1>8, <1>9, <1>13, <1>14 DEF IInv

LEMMA OsTakesOwnershipKeepsInv ==
    ASSUME IInv, OsTakesOwnership, UNCHANGED env
    PROVE  IInv'
<1>1. /\ pc = "os" /\ UNCHANGED <<nv, sec, slots, pc, ctx, proven, attempts>>
      /\ owner' = IF DevMode(ctx) THEN "dev" ELSE "normal"
  BY SMTT(30), SMTT(60) DEF OsTakesOwnership, OsUnchanged
<1>2. (DevMode(ctx) <=> ctx.sec.last_dev) /\ (sec.last_dev <=> ctx.sec.last_dev)
  BY <1>1 DEF IInv, CtxInv
<1>3. TypeInv'
  BY SMTT(30), SMTT(60), <1>1 DEF IInv, TypeInv
<1>4. CtxInv'
  BY <1>1 DEF IInv, CtxInv, Booting, Chosen, DevMode, GbbFlags
<1>5. OwnerInv'
  BY SMTT(30), SMTT(60), <1>1, <1>2 DEF OwnerInv
<1>6. ProvenInv'
  BY SMTT(30), SMTT(60), <1>1 DEF IInv, ProvenInv, Booting, Earned, Good
<1>7. UsableInv'
  BY SMTT(30), SMTT(60), <1>1 DEF IInv, UsableInv, Usable, NewEnough, GbbFlags
<1>8. ClearInv' /\ AttemptInv'
  BY Zenon, <1>1 DEF IInv, ClearInv, AttemptInv, Booting, Counted
<1> QED
  BY <1>3, <1>4, <1>5, <1>6, <1>7, <1>8 DEF IInv

LEMMA StutterKeepsInv ==
    ASSUME IInv, UNCHANGED vars
    PROVE  IInv'
<1>1. TypeInv' /\ OwnerInv'
  BY SMTT(30), SMTT(60) DEF IInv, vars, TypeInv, OwnerInv
<1>2. CtxInv'
  BY SMTT(30), SMTT(60) DEF IInv, vars, CtxInv, Booting, Chosen, DevMode, GbbFlags
<1>3. ProvenInv' /\ ClearInv'
  BY SMTT(30), SMTT(60) DEF IInv, vars, ProvenInv, ClearInv, Booting, Earned, Good
<1>4. UsableInv'
  BY DEF IInv, vars, UsableInv, Usable, NewEnough, GbbFlags
<1>5. AttemptInv'
  BY Zenon DEF IInv, vars, AttemptInv, Booting, Chosen, Counted, BothFailed
<1> QED
  BY <1>1, <1>2, <1>3, <1>4, <1>5, Zenon DEF IInv

----------------------------------------------------------------------------
LEMMA InitInv == Init => IInv
<1> SUFFICES ASSUME Init PROVE IInv
  OBVIOUS
<1>1. nv \in NvType /\ nv.result = "unknown"
  BY DefaultsTyped DEF Init
<1>2. sec.version = 0
  BY DEF Init
<1>3. sec \in SecType
  <2>1. sec = [valid |-> TRUE, dev |-> FALSE, last_dev |-> FALSE, version |-> 0]
    BY Zenon DEF Init
  <2> QED
    BY <2>1 DEF SecType
<1>4. slots \in [Slots -> SlotType] /\ slots[0].quality = "good" /\ slots[0].version = 0
  BY SMTT(30), SMTT(60) DEF Init, Slots, SlotType, AllQualities
<1>5. ctx \in Contexts
  BY <1>1, <1>3 DEF Init, Context, Contexts, Slots, Results, Causes, Reasons, Status
<1>6. attempts \in AttemptType \X AttemptType
  BY Zenon DEF Init, AttemptType, Slots
<1>7. TypeInv
  BY SMTT(30), SMTT(60), <1>1, <1>3, <1>4, <1>5, <1>6 DEF Init, TypeInv, Pcs
<1>8. CtxInv
  BY DEF Init, CtxInv, Booting
<1>9. OwnerInv
  BY SMTT(30), SMTT(60) DEF Init, OwnerInv
<1>10. ProvenInv
  BY <1>1, <1>2 DEF Init, ProvenInv, Booting, Earned
<1>11. Usable(sec.version)
  BY SMTT(30), SMTT(60), <1>2, <1>4 DEF Usable, NewEnough, Slots
<1>12. UsableInv
  BY SMTT(30), SMTT(60), <1>11 DEF Init, UsableInv
<1>13. ClearInv /\ AttemptInv
  BY Zenon, <1>1 DEF Init, ClearInv, AttemptInv, Booting, Counted
<1> QED
  BY <1>7, <1>8, <1>9, <1>10, <1>12, <1>13 DEF IInv

LEMMA NextInv == IInv /\ [Next]_vars => IInv'
<1> SUFFICES ASSUME IInv, [Next]_vars PROVE IInv'
  OBVIOUS
<1>1. CASE UNCHANGED vars
  BY <1>1, StutterKeepsInv
<1>2. CASE Next
  <2>1. UNCHANGED env
    BY <1>2 DEF Next
  <2>2. CASE PowerOn
    BY <2>1, <2>2, PowerOnKeepsInv
  <2>3. CASE vb2api_fw_phase1
    BY SMTT(30), SMTT(60), <2>1, <2>3, Phase1KeepsInv
  <2>4. CASE vb2api_fw_phase2
    BY <2>1, <2>4, Phase2KeepsInv
  <2>5. CASE vb2api_fw_phase3
    BY <2>1, <2>5, Phase3KeepsInv
  <2>6. CASE vb2api_check_hash
    BY <2>1, <2>6, HashKeepsInv
  <2>7. CASE vb2api_fail
    BY <2>1, <2>7, RwFailKeepsInv
  <2>8. CASE vb2api_fail_early
    BY <2>1, <2>8, FailEarlyKeepsInv
  <2>9. CASE SaveNv
    BY <2>1, <2>9, SaveNvKeepsInv
  <2>10. CASE SaveSec
    BY <2>1, <2>10, SaveSecKeepsInv
  <2>11. CASE Reboot \/ Hang \/ PowerFail
    <3>1. pc' = "off" /\ UNCHANGED <<nv, sec, owner, slots, ctx, proven, attempts>>
      BY <2>11 DEF Reboot, Hang, PowerFail, Goto
    <3> QED
      BY SMTT(30), SMTT(60), <2>1, <3>1, PowerLost
  <2>12. CASE NvLost
    BY <2>1, <2>12, NvLostKeepsInv
  <2>13. CASE RecoveryScreen
    BY <2>1, <2>13, RecoveryScreenKeepsInv
  <2>14. CASE StartOs
    BY <2>1, <2>14, StartOsKeepsInv
  <2>15. CASE OsMarksGood \/ OsTriesSlot \/ OsRequests
    BY <2>1, <2>15, OsNvKeepsInv
  <2>16. CASE OsWritesSlot
    BY <2>1, <2>16, OsWritesSlotKeepsInv
  <2>17. CASE OsTakesOwnership
    BY <2>1, <2>17, OsTakesOwnershipKeepsInv
  <2>18. CASE OsStops
    BY <2>1, <2>18, OsStopsKeepsInv
  <2> QED
    BY SMTT(30), SMTT(60), <1>2, <2>2, <2>3, <2>4, <2>5, <2>6, <2>7, <2>8, <2>9, <2>10, <2>11, <2>12, <2>13,
       <2>14, <2>15, <2>16, <2>17, <2>18 DEF Next, Firmware, Os
<1> QED
  BY <1>1, <1>2

(* The inductive invariant holds in every reachable state. *)
THEOREM AlwaysInv == Spec => []IInv
<1> QED
  BY InitInv, NextInv, PTL DEF Spec

----------------------------------------------------------------------------
(* For all scenarios (any number of versions, updates and faults): an OS never
   meets a TPM owned by an OS of the other mode, because
   vb2_check_dev_switch() keeps new flags only after the owner is cleared. *)
THEOREM OwnerFollowsMode == Spec => []OwnerMatchesMode
<1>1. IInv => OwnerMatchesMode
  <2> SUFFICES ASSUME IInv, pc = "os", owner # "none"
               PROVE  owner = IF DevMode(ctx) THEN "dev" ELSE "normal"
    BY DEF OwnerMatchesMode
  <2>1. owner \in {"normal", "dev"} /\ (owner = "dev" <=> sec.last_dev)
    BY SMTT(30), SMTT(60) DEF IInv, TypeInv, OwnerInv
  <2>2. (DevMode(ctx) <=> ctx.sec.last_dev) /\ (sec.last_dev <=> ctx.sec.last_dev)
    BY SMTT(30), SMTT(60) DEF IInv, CtxInv
  <2> QED
    BY <2>1, <2>2
<1> QED
  BY <1>1, AlwaysInv, PTL

(* vb2_load_fw_preamble() moves the version in secdata only to a version that
   an OS ran from and reported as good, and a working slot new enough for it
   is always left, through updates cut short and failing power. *)
THEOREM RollForwardIsSafe == Spec => []RollForwardSafe
<1>1. IInv => ProvenInv /\ UsableInv
  BY DEF IInv
<1>2. ProvenInv => RollForwardProven
  BY DEF ProvenInv, RollForwardProven
<1>3. UsableInv => NeverBricked
  BY DEF UsableInv, Usable, NewEnough, NeverBricked
<1>4. IInv => RollForwardSafe
  BY Zenon, <1>1, <1>2, <1>3 DEF RollForwardSafe
<1> QED
  BY <1>4, AlwaysInv, PTL

----------------------------------------------------------------------------
(* The steps that write a storage. *)
LEMMA WritersOfSec ==
    ASSUME Next, sec' # sec
    PROVE  SaveSec \/ RecoveryScreen
BY ZenonT(40) DEF Next, Firmware, Os, PowerOn, vb2api_fw_phase1, vb2api_fw_phase2, vb2api_fw_phase3,
       vb2api_check_hash, vb2api_fail, vb2api_fail_early, Return, SaveNv, Reboot, StartOs, Hang,
       Goto, PowerFail, NvLost, OsMarksGood, OsWritesSlot, OsTriesSlot, OsRequests,
       OsTakesOwnership, OsStops, OsUnchanged

LEMMA WritersOfNv ==
    ASSUME Next, nv' # nv
    PROVE  SaveNv \/ NvLost \/ RecoveryScreen \/ OsMarksGood \/ OsTriesSlot \/ OsRequests
BY ZenonT(40) DEF Next, Firmware, Os, PowerOn, vb2api_fw_phase1, vb2api_fw_phase2, vb2api_fw_phase3,
       vb2api_check_hash, vb2api_fail, vb2api_fail_early, Return, SaveSec, Reboot, StartOs, Hang,
       Goto, PowerFail, OsWritesSlot, OsTakesOwnership, OsStops, OsUnchanged

(* What reaches nvdata is what the last call left in the context, or changes
   neither the request nor makes a report of a cleared owner. *)
LEMMA NvWritten ==
    ASSUME IInv, Next, nv' # nv, nv' # BadNv
    PROVE  \/ Booting /\ ctx.nv \in NvType /\ nv' = ctx.nv
           \/ nv \in NvType /\ nv'.recovery = nv.recovery /\ (nv'.clear_done => nv.clear_done)
<1>1. CASE SaveNv
  <2>1. nv' = ctx.nv /\ "nv" \in ctx.changed /\ pc # "off"
    BY <1>1 DEF SaveNv
  <2> QED
    BY <2>1 DEF IInv, TypeInv, CtxInv, Contexts, Booting
<1>2. CASE RecoveryScreen
  <2>1. nv \in NvType
    BY <1>2 DEF IInv, CtxInv, Booting, RecoveryScreen, Saved
  <2>2. nv' = [nv EXCEPT !.subcode = ctx.reason]
    BY <1>2 DEF RecoveryScreen
  <2>3. nv'.recovery = nv.recovery
    BY <2>1, <2>2 DEF NvType
  <2>4. nv'.clear_done <=> nv.clear_done
    BY SMTT(30), SMTT(60), <2>1, <2>2 DEF NvType
  <2> QED
    BY <2>1, <2>3, <2>4
<1>3. CASE OsMarksGood \/ OsTriesSlot
  <2>1. nv \in NvType
    BY ZenonT(40), <1>3 DEF IInv, CtxInv, OsMarksGood, OsTriesSlot, OsUnchanged
  <2>2. \/ nv' = [nv EXCEPT !.result = "success"]
        \/ \E n \in 1..MaxTries : nv' = [nv EXCEPT !.try_next = 1 - ctx.slot, !.try_count = n]
    BY ZenonT(40), <1>3 DEF OsMarksGood, OsTriesSlot
  <2>3. nv'.recovery = nv.recovery
    BY ZenonT(40), <2>1, <2>2 DEF NvType
  <2>4. nv'.clear_done <=> nv.clear_done
    BY Zenon, <2>1, <2>2 DEF NvType
  <2> QED
    BY <2>1, <2>3, <2>4
<1>4. CASE OsRequests
  <2>1. nv \in NvType
    BY <1>4 DEF IInv, CtxInv, OsRequests, OsUnchanged
  <2>2. PICK r \in Requests : nv' = [nv EXCEPT ![r] = TRUE, !.clear_done = FALSE]
    BY <1>4 DEF OsRequests
  <2>3. r \in {"disable_dev", "clear_request"}
    BY Vb2Assumption DEF IInv, TypeInv, Requests
  <2>4. nv'.recovery = nv.recovery
    BY <2>1, <2>2, <2>3 DEF NvType
  <2>5. ~nv'.clear_done
    BY <2>1, <2>2, <2>3 DEF NvType
  <2> QED
    BY <2>1, <2>4, <2>5
<1> QED
  BY SMTT(30), SMTT(60), <1>1, <1>2, <1>3, <1>4, WritersOfNv DEF NvLost

(* No step of vboot, and no failing power, takes the version in secdata back,
   asks for recovery for one bad slot, or reports an owner cleared that
   vb2_check_tpm_clear() did not clear. *)
THEOREM StorageIsDisciplined == Spec => StorageDiscipline
<1>1. IInv /\ Next => VersionNeverDecreases
  <2> SUFFICES ASSUME IInv, Next PROVE sec'.version >= sec.version
    BY DEF VersionNeverDecreases
  <2>1. sec \in SecType /\ ctx.sec \in SecType /\ sec.version \in Nat
    BY DEF IInv, TypeInv, Contexts, SecType
  <2>2. CASE sec' = sec
    BY <2>1, <2>2
  <2>3. CASE SaveSec
    <3>1. sec' = ctx.sec \/ sec' = [ctx.sec EXCEPT !.valid = FALSE]
      BY <2>3 DEF SaveSec
    <3>2. sec'.version = ctx.sec.version
      BY <2>1, <3>1 DEF SecType
    <3> QED
      BY <2>3, <3>2 DEF IInv, ProvenInv, SaveSec
  <2>4. CASE RecoveryScreen
    <3>1. sec' = sec \/ sec' = [sec EXCEPT !.dev = TRUE]
      BY <2>4 DEF RecoveryScreen
    <3>2. sec'.version = sec.version
      BY SMTT(30), SMTT(60), <2>1, <3>1 DEF SecType
    <3> QED
      BY <2>1, <3>2
  <2> QED
    BY <2>2, <2>3, <2>4, WritersOfSec
<1>2. IInv /\ Next => RecoveryNeedsBothSlots
  <2> SUFFICES ASSUME IInv, Next, nv' # BadNv, nv'.recovery \in {"invalid_rw", "rw_firmware"},
                      nv = BadNv \/ nv.recovery # nv'.recovery, "S3_RESUME" \notin ctx.flags
               PROVE  BothFailed
    BY DEF RecoveryNeedsBothSlots
  <2>1. nv' # nv
    OBVIOUS
  <2>2. Booting /\ ctx.nv \in NvType /\ nv' = ctx.nv
    BY <2>1, NvWritten, BadNvIsBad
  <2> QED
    BY <2>2 DEF IInv, AttemptInv
<1>3. IInv /\ Next => DoneMeansCleared
  <2> SUFFICES ASSUME IInv, Next, nv # BadNv, nv' # BadNv, ~nv.clear_done, nv'.clear_done
               PROVE  ctx.cleared
    BY DEF DoneMeansCleared
  <2>1. nv' # nv /\ nv \in NvType
    BY DEF IInv, TypeInv
  <2>2. Booting /\ ctx.nv \in NvType /\ nv' = ctx.nv
    BY <2>1, NvWritten
  <2> QED
    BY <2>1, <2>2 DEF IInv, ClearInv
<1>4. IInv /\ [Next]_vars => [VersionNeverDecreases /\ RecoveryNeedsBothSlots /\ DoneMeansCleared]_vars
  BY <1>1, <1>2, <1>3
<1> QED
  BY <1>4, AlwaysInv, PTL DEF Spec, StorageDiscipline
=============================================================================
