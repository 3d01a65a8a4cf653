---------------------------- MODULE EcSyncProofs ----------------------------
(***************************************************************************
 Proofs about EC software sync, for any images, boards and number of
 failures: which region of an EC is ever rewritten (FlashDiscipline), what
 every EC runs when VbEcSoftwareSync() is through (SyncedAtExit), and what a
 failed call may cost (FailuresContained).  All three follow from the
 invariant of EcSyncInv.
 ***************************************************************************)
EXTENDS EcSyncInv

USE DEF Slots, Regions

(* Writing a region changes this region of this EC. *)
LEMMA FlashedEc ==
    ASSUME TypeInv, NEW i \in Images \cup {Torn}
    PROVE  /\ Flashed(i) \in [Devices -> EcState]
           /\ \A d \in Devices : d = ap.dev \/ Flashed(i)[d] = ec[d]
           /\ Flashed(i)[ap.dev].flash[ap.region] = i
           /\ \A r \in Regions : r = ap.region \/ Flashed(i)[ap.dev].flash[r] = This.flash[r]
           /\ Flashed(i)[ap.dev].run = This.run /\ Flashed(i)[ap.dev].code = This.code
           /\ Flashed(i)[ap.dev].locked = This.locked
<1>1. /\ ap.dev \in Devices /\ ap.region \in Regions /\ This = ec[ap.dev] /\ This \in EcState
      /\ ec \in [Devices -> EcState]
  BY DEF TypeInv, ApState, This
<1> DEFINE e == [This EXCEPT !.flash[ap.region] = i]
<1>2. Flashed(i) = [ec EXCEPT ![ap.dev] = e]
  BY <1>1 DEF Flashed
<1>3. /\ e \in EcState /\ e.flash = [This.flash EXCEPT ![ap.region] = i]
      /\ e.run = This.run /\ e.code = This.code /\ e.locked = This.locked
  <2>1. [This.flash EXCEPT ![ap.region] = i] \in [Regions -> Images \cup {Torn}]
    BY <1>1 DEF EcState
  <2>2. e = [This EXCEPT !.flash = [This.flash EXCEPT ![ap.region] = i]]
    BY <1>1 DEF EcState
  <2>3. QED
    BY <1>1, <2>1, <2>2 DEF EcState
<1> HIDE DEF e
<1>4. Flashed(i)[ap.dev] = e /\ \A d \in Devices : d = ap.dev \/ Flashed(i)[d] = ec[d]
  BY <1>1, <1>2
<1>5. This.flash \in [Regions -> Images \cup {Torn}]
  BY <1>1 DEF EcState
<1>6. QED
  BY <1>1, <1>2, <1>3, <1>4, <1>5

LEMMA EcWriteKeeps == ASSUME IInv, EcWrite PROVE IInv'
<1>0. /\ pc = "write" /\ pc \in InUpdate /\ pc \in InSync
      /\ ap \in ApState /\ ap.dev \in Devices /\ ap.region \in Regions /\ ap.tries \in {0, 1}
      /\ This = ec[ap.dev] /\ This \in EcState /\ Expected \in Images
  BY DEF EcWrite, InUpdate, InSync, AfterCheck, IInv, TypeInv, ApState, This, Expected
<1>1. CASE ap.region \in This.locked /\ NoFault /\ UpdateFails("ec_reboot", ap.vnc)
  <2>1. Grown /\ GoodNv(ap.vnc, faults', asked)
    BY <1>1, FaultsStay, VncGood DEF IInv
  <2>2. ap.region = "RO" => RoSafe
    BY <1>0, <1>1, <2>1, NotSecondTry DEF SecondTry
  <2>3. QED
    BY SMTT(30), SMTT(60), <1>0, <1>1, <2>1, <2>2, UpdateFailsKeeps
<1>2. CASE /\ ap.region \notin This.locked
           /\ \/ Fault /\ ec' = Flashed(Torn) /\ pc' \in {"verify", "failed"}
              \/ NoFault /\ ec' = Flashed(Expected) /\ pc' \in {"verify", "rebooting"}
           /\ UNCHANGED <<board, nv, want, ap, updates, asked>>
  <2>1. PICK i \in Images \cup {Torn} :
          /\ ec' = Flashed(i)
          /\ \/ Fault /\ i = Torn /\ pc' \in {"verify", "failed"}
             \/ NoFault /\ i = Expected /\ pc' \in {"verify", "rebooting"}
    BY <1>0, <1>2
  <2>2. board' = board /\ nv' = nv /\ want' = want /\ ap' = ap /\ asked' = asked
    BY <1>2
  <2>3. /\ Grown
        /\ i = Torn => faults' # <<>> /\ Len(faults') = Len(faults) + 1
        /\ i # Torn => faults' = faults
    BY SMTT(30), SMTT(60), <1>0, <2>1, FaultsStay, FaultHere, Constants DEF IInv, NoFault
  <2>4. /\ ec' \in [Devices -> EcState]
        /\ \A d \in Devices : d = ap.dev \/ ec'[d] = ec[d]
        /\ ec'[ap.dev].flash[ap.region] = i
        /\ \A r \in Regions : r = ap.region \/ ec'[ap.dev].flash[r] = This.flash[r]
        /\ ec'[ap.dev].run = This.run /\ ec'[ap.dev].code = This.code
        /\ ec'[ap.dev].locked = This.locked
    BY <2>1, FlashedEc DEF IInv
  <2>5. ap.region = "RW" => This.run = "RO" /\ ~ap.in_rw
    BY SMTT(30), SMTT(60), <1>0 DEF IInv, Updating, AfterCheck, InUpdate, EcState
  <2>6. ec'[ap.dev].run = "RW" => ec'[ap.dev].code = ec'[ap.dev].flash["RW"]
    BY Zenon, <1>0, <2>4, <2>5 DEF IInv, CodeOfRw
  <2>7. ap.request # "none" => Excused(faults', asked)
    BY <2>3 DEF IInv, Causes, Excused, Grown
  <2>8. /\ TypeInv' /\ Causes' /\ CodeOfRw' /\ Earlier' /\ Finished'
        /\ Recovering' <=> Recovering
        /\ RoNormal' <=> RoNormal
        /\ Hashed' <=> Hashed
    <3>1. pc' \in InSync /\ GoodNv(ap.vnc, faults', asked)
      BY <2>1, <2>3, VncGood DEF InSync, InUpdate, AfterCheck
    <3>2. QED
      BY <1>0, <2>2, <2>3, <2>4, <2>6, <2>7, <3>1, StepKeeps
  <2>9. Protecting'
    BY <2>1 DEF Protecting
  <2>10. Updating'
    <3>1. RunsRw(ap.dev) => RunsRw(ap.dev)'
      BY <1>0, <2>2, <2>4, <2>8 DEF RunsRw
    <3>2. ~Recovering /\ ~RoNormal
      BY <1>0 DEF IInv, Updating
    <3>3. ap.region = "RO" => "wp" \notin board /\ "ro_sync" \in asked /\ RunsRw(ap.dev)
      BY <1>0 DEF IInv, Updating
    <3>4. This'.run = This.run
      BY <2>2, <2>4 DEF This
    <3>5. QED
      BY SMTT(30), SMTT(60), <1>0, <2>1, <2>2, <2>5, <2>8, <3>1, <3>2, <3>3, <3>4 DEF Updating
  <2>11. Writing'
    <3>1. ~NeedOprom /\ (NeedOprom' <=> NeedOprom)
      BY SMTT(30), SMTT(60), <1>0, <2>2 DEF IInv, Writing, AfterCheck, NeedOprom
    <3>2. i = Expected => Verified'
      BY <2>2, <2>4 DEF Verified, Expected, This
    <3>3. QED
      BY <2>1, <2>3, <3>1, <3>2 DEF Writing
  <2>12. RoKept'
    <3>1. CASE ap.region = "RW"
      BY SMTT(30), SMTT(60), <1>0, <2>2, <2>3, <2>4, <3>1, RoSafeElsewhere, RoStays
    <3>2. CASE ap.region = "RO"
      <4>1. ASSUME Hashed, NEW d \in Devices, d # ap.dev, ec[d].flash["RO"] = Torn
            PROVE  TwoFailures'
        BY <2>3, <4>1, TwoStay DEF IInv, RoKept, SecondTry
      <4>2. ASSUME Hashed, i = Torn PROVE TwoFailures' \/ SecondTry(ap.dev)'
        <5>1. ap.tries = 1 => faults # <<>>
          BY <1>0, <1>2, <3>2, <4>2 DEF IInv, Writing, AfterCheck, Needed, Verified
        <5>2. Len(faults) \in Nat /\ (faults # <<>> => Len(faults) > 0)
          BY DEF IInv, TypeInv
        <5>3. Len(faults') = 1 \/ Len(faults') > 1
          BY <2>3, <4>2, <5>2
        <5>4. ap.tries = 1 => Len(faults') > 1
          BY <2>3, <4>2, <5>1, <5>2
        <5>5. ap.tries = 0 /\ Len(faults') = 1 => SecondTry(ap.dev)'
          <6>1. pc' \in {"verify", "failed"}
            BY SMTT(30), SMTT(60), <1>0, <2>1, <4>2, Constants
          <6>2. ~NeedOprom'
            BY SMTT(30), SMTT(60), <1>0, <2>2 DEF IInv, Writing, AfterCheck, NeedOprom
          <6>3. "RO" \notin ec'[ap.dev].locked
            BY <1>2, <2>4, <3>2
          <6>4. QED
            BY <2>2, <3>2, <6>1, <6>2, <6>3 DEF SecondTry
        <5>6. QED
          BY SMTT(30), SMTT(60), <1>0, <5>3, <5>4, <5>5 DEF TwoFailures
      <4>3. QED
        BY <2>2, <2>4, <2>8, <3>2, <4>1, <4>2 DEF RoKept
    <3>3. QED
      BY SMTT(30), SMTT(60), <1>0, <3>1, <3>2
  <2>13. QED
    BY <2>8, <2>9, <2>10, <2>11, <2>12 DEF IInv
<1>3. QED
  BY SMTT(30), SMTT(60), <1>1, <1>2 DEF EcWrite

LEMMA EcJumpKeeps == ASSUME IInv, EcJump PROVE IInv'
<1> DEFINE try  == TryRo(ap.vnc)
           next == IF try
                   THEN [ap EXCEPT !.vnc.try_ro = FALSE, !.request = ap.vnc.recovery,
                                   !.region = "RO", !.tries = 0]
                   ELSE ap
           to   == IF try THEN "check" ELSE "protect_ro"
           e    == [This EXCEPT !.run = "RW", !.code = This.flash["RW"]]
<1>0. /\ pc = "jump" /\ pc \in InSync /\ ap.region = "RW"
      /\ ap \in ApState /\ ap.dev \in Devices /\ ap.vnc \in NvState
      /\ This = ec[ap.dev] /\ This \in EcState /\ ec \in [Devices -> EcState]
  BY DEF EcJump, InSync, IInv, TypeInv, ApState, This, Updating
<1>1. Grown /\ (Fault => faults' # <<>>)
  BY FaultsStay, FaultHere DEF EcJump, IInv
<1>2. RoSafe /\ GoodNv(ap.vnc, faults', asked)
  BY <1>0, <1>1, RoSafeElsewhere, VncGood
<1>3. CASE Exit("ec_reboot", ap.vnc)
  BY <1>1, <1>2, <1>3, ExitKeeps
<1>4. CASE Fault /\ Exit("ec_reboot", Request(ap.vnc, "ec_jump_rw"))
  <2>1. GoodNv(Request(ap.vnc, "ec_jump_rw"), faults', asked)
    BY <1>1, <1>2, <1>4, RequestGood DEF Excused, Reasons
  <2>2. QED
    BY <1>1, <1>2, <1>4, <2>1, ExitKeeps
<1>5. CASE /\ pc' = to /\ ap' = next
           /\ board' = board /\ nv' = nv /\ want' = want /\ asked' = asked
           /\ \/ ap.in_rw /\ ec' = ec
              \/ ec' = [ec EXCEPT ![ap.dev] = e]
  <2>1. /\ ec' \in [Devices -> EcState]
        /\ \A d \in Devices : d = ap.dev \/ ec'[d] = ec[d]
        /\ ec'[ap.dev].run = "RW" /\ ec'[ap.dev].code = ec'[ap.dev].flash["RW"]
        /\ ec'[ap.dev].flash = This.flash
    <3>1. CASE ap.in_rw /\ ec' = ec
      BY <1>0, <3>1 DEF IInv, Updating, CodeOfRw
    <3>2. CASE ec' = [ec EXCEPT ![ap.dev] = e]
      <4>1. e \in EcState /\ e.run = "RW" /\ e.flash = This.flash /\ e.code = This.flash["RW"]
        BY Zenon, <1>0 DEF EcState
      <4> HIDE DEF e
      <4>2. QED
        BY <1>0, <3>2, <4>1
    <3>3. QED
      BY <1>5, <3>1, <3>2
  <2>2. GoodNv(next.vnc, faults', asked) /\ (next.request # "none" => Excused(faults', asked))
    <3>1. CASE try
      <4>1. next.vnc = [ap.vnc EXCEPT !.try_ro = FALSE] /\ next.request = ap.vnc.recovery
        BY <1>0, <3>1 DEF ApState
      <4> DEFINE v == [ap.vnc EXCEPT !.try_ro = FALSE]
      <4>2. v \in NvState /\ v.recovery = ap.vnc.recovery
        BY Zenon, <1>0 DEF NvState
      <4>3. ~v.try_ro
        BY <1>0, Zenon DEF NvState
      <4>4. next.vnc = v
        BY <4>1
      <4> HIDE DEF v, next
      <4>5. QED
        BY <1>2, <4>1, <4>2, <4>3, <4>4 DEF GoodNv
    <3>2. CASE ~try
      BY <1>1, <1>2, <3>2 DEF IInv, Causes, Excused, Grown
    <3>3. QED
      BY <3>1, <3>2
  <2>3. /\ next.reason = ap.reason /\ next.slot = ap.slot /\ next.dev = ap.dev
        /\ next.mismatch = ap.mismatch
        /\ try => next.region = "RO" /\ next.tries = 0
    BY <1>0 DEF ApState
  <2>4. next \in ApState
    <3>1. CASE try
      <4>1. next = [ap EXCEPT !.vnc = [ap.vnc EXCEPT !.try_ro = FALSE],
                              !.request = ap.vnc.recovery, !.region = "RO", !.tries = 0]
        BY <1>0, <3>1 DEF ApState
      <4>2. [ap.vnc EXCEPT !.try_ro = FALSE] \in NvState /\ ap.vnc.recovery \in Reasons
        BY Zenon, <1>0 DEF NvState
      <4>3. QED
        BY <1>0, <4>1, <4>2, Zenon DEF ApState
    <3>2. QED
      BY <1>0, <3>1
  <2>5. pc' = (IF try THEN "check" ELSE "protect_ro") /\ ap' = next /\ pc' \in InSync
    BY <1>5 DEF InSync, InUpdate
  <2> HIDE DEF next, to
  <2>6. /\ TypeInv' /\ Causes' /\ CodeOfRw' /\ Earlier' /\ Finished'
        /\ Recovering' <=> Recovering
        /\ RoNormal' <=> RoNormal
        /\ Hashed' <=> Hashed
    BY <1>0, <1>1, <1>5, <2>1, <2>2, <2>3, <2>4, <2>5, StepKeeps
  <2>7. RunsRw(ap.dev)'
    <3>1. Hashed => This.flash["RW"] = want[ap.slot]
      BY <1>0 DEF IInv, Updating
    <3>2. QED
      BY <1>5, <2>1, <2>3, <2>5, <2>6, <3>1 DEF RunsRw
  <2>8. ~Recovering /\ ~RoNormal
    BY <1>0 DEF IInv, Updating
  <2>9. Protecting'
    BY <2>5, <2>6, <2>7, <2>8 DEF Protecting
  <2>10. Updating'
    <3>1. try => "wp" \notin board /\ "ro_sync" \in asked
      BY <1>2 DEF TryRo, GoodNv
    <3>2. QED
      BY <1>5, <2>3, <2>5, <2>6, <2>7, <2>8, <3>1 DEF Updating, InUpdate, AfterCheck
  <2>11. Writing'
    BY <2>3, <2>5 DEF Writing, AfterCheck
  <2>12. QED
    BY <1>2, <1>5, <2>1, <2>6, <2>9, <2>10, <2>11, RoStays, <1>0 DEF IInv
<1>6. QED
  <2>1. [ec EXCEPT ![ap.dev].run = "RW", ![ap.dev].code = This.flash["RW"]]
            = [ec EXCEPT ![ap.dev] = e]
    BY Zenon, <1>0 DEF EcState
  <2>2. \/ ap.in_rw /\ Go(to, next)
        \/ Exit("ec_reboot", ap.vnc)
        \/ Fault /\ Exit("ec_reboot", Request(ap.vnc, "ec_jump_rw"))
        \/ /\ ec' = [ec EXCEPT ![ap.dev].run = "RW", ![ap.dev].code = This.flash["RW"]]
           /\ pc' = to /\ ap' = next
           /\ UNCHANGED <<board, nv, want, updates, asked>>
    BY Zenon DEF EcJump
  <2>3. QED
    BY <1>3, <1>4, <1>5, <2>1, <2>2 DEF Go

(* EcProtect() locks a region of this EC. *)
LEMMA LockedEc ==
    ASSUME TypeInv, NEW region \in Regions
    PROVE  LET e == [ec EXCEPT ![ap.dev].locked = @ \cup {region}]
           IN /\ e \in [Devices -> EcState]
              /\ \A d \in Devices : d = ap.dev \/ e[d] = ec[d]
              /\ e[ap.dev].run = This.run /\ e[ap.dev].code = This.code
              /\ e[ap.dev].flash = This.flash /\ e[ap.dev].locked = This.locked \cup {region}
<1> DEFINE x == [This EXCEPT !.locked = This.locked \cup {region}]
<1>1. /\ ap.dev \in Devices /\ This = ec[ap.dev] /\ This \in EcState
      /\ ec \in [Devices -> EcState]
  BY DEF TypeInv, ApState, This
<1>2. [ec EXCEPT ![ap.dev].locked = @ \cup {region}] = [ec EXCEPT ![ap.dev] = x]
  BY <1>1 DEF EcState
<1>3. /\ x \in EcState /\ x.run = This.run /\ x.code = This.code /\ x.flash = This.flash
      /\ x.locked = This.locked \cup {region}
  BY <1>1 DEF EcState
<1> HIDE DEF x
<1>4. QED
  BY <1>1, <1>2, <1>3

(* The failures of EcProtect(), and its success. *)
LEMMA ProtectSteps ==
    ASSUME IInv, NEW region \in Regions, NEW next, EcProtect(region, next),
           pc \in {"protect_ro", "protect_rw"}, next \in {"protect_rw", "nojump"}
    PROVE  \/ IInv'
           \/ /\ TypeInv' /\ Causes' /\ CodeOfRw' /\ Earlier' /\ Finished' /\ RoKept'
              /\ Updating' /\ Writing'
              /\ Recovering' <=> Recovering
              /\ RoNormal' <=> RoNormal
              /\ Hashed' <=> Hashed
              /\ pc' = next /\ ap' = ap /\ want' = want
              /\ ec'[ap.dev].run = This.run /\ ec'[ap.dev].code = This.code
              /\ ec'[ap.dev].locked = This.locked \cup {region}
<1>0. /\ pc \in InSync /\ ap \in ApState /\ ap.dev \in Devices /\ This = ec[ap.dev]
  BY DEF InSync, IInv, TypeInv, ApState, This
<1>1. Grown /\ (Fault => faults' # <<>>)
  BY FaultsStay, FaultHere DEF EcProtect, IInv
<1>2. RoSafe /\ GoodNv(ap.vnc, faults', asked)
  BY SMTT(30), SMTT(60), <1>1, RoSafeElsewhere, VncGood
<1>3. CASE Fault /\ Exit("ec_reboot", ap.vnc)
  BY SMTT(30), SMTT(60), <1>1, <1>2, <1>3, ExitKeeps
<1>4. CASE Fault /\ Exit("error", Request(ap.vnc, "ec_protect"))
  <2>1. GoodNv(Request(ap.vnc, "ec_protect"), faults', asked)
    BY <1>1, <1>2, <1>4, RequestGood DEF Excused, Reasons
  <2>2. QED
    BY <1>1, <1>2, <1>4, <2>1, ExitKeeps
<1>5. CASE /\ NoFault
           /\ ec' = [ec EXCEPT ![ap.dev].locked = @ \cup {region}]
           /\ pc' = next
           /\ UNCHANGED <<board, nv, want, ap, updates, asked>>
  <2>1. /\ ec' \in [Devices -> EcState]
        /\ \A d \in Devices : d = ap.dev \/ ec'[d] = ec[d]
        /\ ec'[ap.dev].run = This.run /\ ec'[ap.dev].code = This.code
        /\ ec'[ap.dev].flash = This.flash /\ ec'[ap.dev].locked = This.locked \cup {region}
    BY SMTT(30), SMTT(60), <1>5, LockedEc DEF IInv
  <2>2. ec'[ap.dev].run = "RW" => ec'[ap.dev].code = ec'[ap.dev].flash["RW"]
    BY Zenon, <1>0, <2>1 DEF IInv, CodeOfRw
  <2>3. pc' \in InSync /\ (ap.request # "none" => Excused(faults', asked))
    BY <1>1, <1>5 DEF IInv, Causes, Excused, Grown, InSync
  <2>4. board' = board /\ nv' = nv /\ want' = want /\ ap' = ap /\ asked' = asked
    BY <1>5
  <2>5. /\ TypeInv' /\ Causes' /\ CodeOfRw' /\ Earlier' /\ Finished'
        /\ Recovering' <=> Recovering
        /\ RoNormal' <=> RoNormal
        /\ Hashed' <=> Hashed
    BY Zenon, <1>0, <1>1, <1>2, <2>1, <2>2, <2>3, <2>4, StepKeeps
  <2>6. Updating' /\ Writing'
    BY SMTT(30), SMTT(60), <1>5 DEF Updating, Writing, InUpdate, AfterCheck
  <2>7. RoKept'
    BY SMTT(30), SMTT(60), <1>0, <1>2, <2>1, <2>4, RoStays
  <2>8. QED
    BY SMTT(30), SMTT(60), <1>5, <2>1, <2>4, <2>5, <2>6, <2>7
<1>6. QED
  BY <1>3, <1>4, <1>5 DEF EcProtect

LEMMA ProtectRoKeeps == ASSUME IInv, ProtectRo PROVE IInv'
<1>1. pc = "protect_ro" /\ EcProtect("RO", "protect_rw") /\ "RO" \in Regions
  BY DEF ProtectRo
<1>2. ~Recovering /\ ~RoNormal /\ RunsRw(ap.dev) /\ This = ec[ap.dev]
  BY SMTT(30), SMTT(60), <1>1 DEF IInv, Protecting, This
<1>3. ASSUME /\ Recovering' <=> Recovering
             /\ RoNormal' <=> RoNormal
             /\ Hashed' <=> Hashed
             /\ pc' = "protect_rw" /\ ap' = ap /\ want' = want
             /\ ec'[ap.dev].run = This.run /\ ec'[ap.dev].code = This.code
             /\ ec'[ap.dev].locked = This.locked \cup {"RO"}
      PROVE  Protecting'
  <2>1. RunsRight(ap.dev)'
    BY SMTT(30), SMTT(60), <1>2, <1>3 DEF RunsRight, RunsRw
  <2>2. QED
    BY SMTT(30), SMTT(60), <1>2, <1>3, <2>1 DEF Protecting
<1>4. QED
  BY <1>1, <1>3, ProtectSteps DEF IInv

LEMMA ProtectRwKeeps == ASSUME IInv, ProtectRw PROVE IInv'
<1>1. pc = "protect_rw" /\ EcProtect("RW", "nojump") /\ "RW" \in Regions
  BY DEF ProtectRw
<1>2. ~Recovering /\ RunsRight(ap.dev) /\ This = ec[ap.dev]
  BY SMTT(30), SMTT(60), <1>1 DEF IInv, Protecting, This
<1>3. ASSUME /\ Recovering' <=> Recovering
             /\ RoNormal' <=> RoNormal
             /\ Hashed' <=> Hashed
             /\ pc' = "nojump" /\ ap' = ap /\ want' = want
             /\ ec'[ap.dev].run = This.run /\ ec'[ap.dev].code = This.code
             /\ ec'[ap.dev].locked = This.locked \cup {"RW"}
      PROVE  Protecting'
  <2>1. RunsRight(ap.dev)'
    BY <1>2, <1>3 DEF RunsRight, RunsRw
  <2>2. QED
    BY SMTT(30), SMTT(60), <1>2, <1>3, <2>1 DEF Protecting, This
<1>4. QED
  BY <1>1, <1>3, ProtectSteps DEF IInv

LEMMA EcDisableJumpKeeps == ASSUME IInv, EcDisableJump PROVE IInv'
<1>0. /\ pc = "nojump" /\ pc \in InSync /\ ap \in ApState /\ ap.dev \in Devices
      /\ This = ec[ap.dev] /\ This \in EcState /\ ec \in [Devices -> EcState]
  BY DEF EcDisableJump, InSync, IInv, TypeInv, ApState, This
<1>1. Grown /\ (Fault => faults' # <<>>)
  BY FaultsStay, FaultHere DEF EcDisableJump, IInv
<1>2. RoSafe /\ GoodNv(ap.vnc, faults', asked)
  BY <1>0, <1>1, RoSafeElsewhere, VncGood
<1>3. CASE Fault /\ Exit("ec_reboot", Request(ap.vnc, "ec_software_sync"))
  <2>1. GoodNv(Request(ap.vnc, "ec_software_sync"), faults', asked)
    BY <1>1, <1>2, <1>3, RequestGood DEF Excused, Reasons
  <2>2. QED
    BY <1>1, <1>2, <1>3, <2>1, ExitKeeps
<1>4. CASE /\ NoFault /\ ec' = [ec EXCEPT ![ap.dev].nojump = TRUE] /\ pc' = "synced"
           /\ UNCHANGED <<board, nv, want, ap, updates, asked>>
  <2> DEFINE e == [This EXCEPT !.nojump = TRUE]
  <2>1. ec' = [ec EXCEPT ![ap.dev] = e]
    BY <1>0, <1>4 DEF EcState
  <2>2. /\ e \in EcState /\ e.run = This.run /\ e.code = This.code /\ e.flash = This.flash
        /\ e.locked = This.locked
    BY Zenon, <1>0 DEF EcState
  <2>3. e.nojump
    BY <1>0, Zenon DEF EcState
  <2> HIDE DEF e
  <2>4. /\ ec' \in [Devices -> EcState] /\ ec'[ap.dev] = e
        /\ \A d \in Devices : d = ap.dev \/ ec'[d] = ec[d]
    BY <1>0, <2>1, <2>2
  <2>5. ec'[ap.dev].run = "RW" => ec'[ap.dev].code = ec'[ap.dev].flash["RW"]
    BY Zenon, <1>0, <2>2, <2>4 DEF IInv, CodeOfRw
  <2>6. pc' \in InSync /\ (ap.request # "none" => Excused(faults', asked))
    BY <1>1, <1>4 DEF IInv, Causes, Excused, Grown, InSync
  <2>7. board' = board /\ nv' = nv /\ want' = want /\ ap' = ap /\ asked' = asked
    BY <1>4
  <2>8. /\ TypeInv' /\ Causes' /\ CodeOfRw' /\ Earlier' /\ Finished'
        /\ Recovering' <=> Recovering
        /\ RoNormal' <=> RoNormal
        /\ Hashed' <=> Hashed
    BY <1>0, <1>1, <1>2, <2>4, <2>5, <2>6, <2>7, StepKeeps
  <2>9. Updating' /\ Writing'
    BY <1>4 DEF Updating, Writing, InUpdate, AfterCheck
  <2>10. Protecting'
    <3>1. ~Recovering /\ RunsRight(ap.dev) /\ "RW" \in This.locked
      BY SMTT(30), SMTT(60), <1>0 DEF IInv, Protecting
    <3>2. RunsRight(ap.dev)'
      BY <1>0, <2>2, <2>4, <2>7, <2>8, <3>1 DEF RunsRight, RunsRw
    <3>3. QED
      BY <1>4, <2>2, <2>3, <2>4, <2>7, <2>8, <3>1, <3>2 DEF Protecting, This
  <2>11. RoKept'
    BY <1>0, <1>2, <2>2, <2>4, <2>7, RoStays
  <2>12. QED
    BY <2>8, <2>9, <2>10, <2>11 DEF IInv
<1>5. QED
  BY <1>3, <1>4 DEF EcDisableJump

LEMMA EcSyncedKeeps == ASSUME IInv, EcSynced PROVE IInv'
<1>1. pc = "synced" /\ pc \in InSync /\ Grown /\ This = ec[ap.dev]
  BY FaultsStay DEF EcSynced, IInv, InSync, This
<1>2. RoSafe /\ GoodNv(ap.vnc, faults', asked)
  BY <1>1, RoSafeElsewhere, VncGood
<1>3. HandledNow(ap.dev)
  BY <1>1 DEF IInv, Protecting, HandledNow
<1>4. CASE DeviceDone(ap.vnc, FALSE)
  BY Zenon, <1>1, <1>2, <1>3, <1>4, DeviceDoneKeeps
<1> DEFINE v == [ap.vnc EXCEPT !.oprom = FALSE]
<1>5. CASE DeviceDone(v, TRUE)
  <2>1. ap.vnc \in NvState
    BY <1>2 DEF GoodNv
  <2>2. v \in NvState /\ v.recovery = ap.vnc.recovery /\ v.try_ro = ap.vnc.try_ro
    BY Zenon, <2>1 DEF NvState
  <2> HIDE DEF v
  <2>3. GoodNv(v, faults', asked)
    BY <1>2, <2>2 DEF GoodNv
  <2>4. QED
    BY Zenon, <1>1, <1>2, <1>3, <1>5, <2>3, DeviceDoneKeeps
<1>6. QED
  BY Zenon, <1>4, <1>5 DEF EcSynced

LEMMA VbootDoneKeeps == ASSUME IInv, VbootDone PROVE IInv'
<1>1. pc = "done" /\ Grown
  BY FaultsStay, FaultHere DEF VbootDone, IInv
<1>2. RoSafe /\ GoodNv(ap.vnc, faults', asked)
  BY <1>1, RoSafeElsewhere, VncGood
<1>3. CASE Fault /\ Exit("error", ap.vnc)
  BY <1>1, <1>2, <1>3, ExitKeeps
<1>4. CASE /\ NoFault /\ nv' = ap.vnc
           /\ pc' = IF Recovering THEN "recovery" ELSE "os"
           /\ UNCHANGED <<board, ec, want, ap, updates, asked>>
  <2>1. /\ nv' = ap.vnc /\ pc' = (IF Recovering THEN "recovery" ELSE "os") /\ faults' = faults
        /\ board' = board /\ ec' = ec /\ want' = want /\ ap' = ap /\ asked' = asked
    BY <1>4 DEF NoFault
  <2>2. TypeInv'
    BY SMTT(30), SMTT(60), <1>2, <2>1 DEF IInv, TypeInv, PCs, GoodNv
  <2>3. Causes' /\ CodeOfRw'
    BY <2>1 DEF IInv, Causes, CodeOfRw, GoodNv, Excused, Hashed
  <2>4. Finished'
    <3>1. \A d \in Devices : Handled(d)' <=> Handled(d)
      BY SMTT(30), SMTT(60), <2>1 DEF Handled, Recovering, RunsRight, RunsRw, RoNormal, Hashed, Failed
    <3>2. QED
      BY SMTT(30), SMTT(60), <1>1, <2>1, <3>1 DEF IInv, Finished, Recovering
  <2>5. Earlier' /\ Updating' /\ Protecting' /\ Writing'
    BY Zenon, <2>1 DEF Earlier, Updating, Protecting, Writing, InSync, InUpdate, AfterCheck
  <2>6. RoKept'
    BY <1>2, <2>1, RoStays
  <2>7. QED
    BY <2>2, <2>3, <2>4, <2>5, <2>6 DEF IInv
<1>5. QED
  BY <1>3, <1>4 DEF VbootDone

----------------------------------------------------------------------------
(* Power, the operating system, and the whole *)

LEMMA PowerFailKeeps == ASSUME IInv, PowerFail PROVE IInv'
<1> DEFINE e == IF pc = "write" /\ ap.region \notin This.locked THEN Flashed(Torn) ELSE ec
<1>1. /\ ec' = [d \in Devices |-> EcReset(e[d])] /\ pc' \in {"off", "dead"} /\ ap' = IdleAp
      /\ board' = board /\ nv' = nv /\ want' = want /\ asked' = asked
  BY Zenon DEF PowerFail
<1>2. Grown /\ Failed("power")'
  BY SMTT(30), SMTT(60), FaultsGrow DEF PowerFail, IInv
<1>3. e \in [Devices -> EcState]
  BY FlashedEc DEF IInv, TypeInv
<1> HIDE DEF e
<1>4. ec' \in [Devices -> EcState] /\ \A d \in Devices : ec'[d].run = "RO"
  <2>1. ASSUME NEW d \in Devices PROVE ec'[d] \in EcState /\ ec'[d].run = "RO"
    BY <1>1, <1>3, ResetEc
  <2>2. QED
    BY <1>1, <2>1
<1>5. nv \in NvState /\ IdleAp \in ApState
  BY Zenon, IdleType DEF IInv, TypeInv
<1>6. TypeInv'
  BY <1>1, <1>2, <1>4, <1>5 DEF IInv, TypeInv, PCs, Grown
<1>7. Causes'
  <2>1. GoodNv(nv, faults', asked')
    BY <1>1, <1>2, NvStays DEF IInv, Causes
  <2>2. IdleAp.vnc = nv /\ IdleAp.reason = "none" /\ IdleAp.request = "none"
    BY DEF IdleAp
  <2>3. QED
    BY <1>1, <2>1, <2>2 DEF Causes, GoodNv, Excused, Hashed
<1>8. CodeOfRw'
  BY <1>4 DEF CodeOfRw
<1>9. RoKept'
  BY <1>2 DEF RoKept, TwoFailures
<1>10. QED
  BY SMTT(30), SMTT(60), <1>1, <1>6, <1>7, <1>8, <1>9, AtRest DEF IInv

LEMMA RestartKeeps == ASSUME IInv, Restart PROVE IInv'
<1>1. /\ pc \in {"os", "recovery"} /\ pc' \in {"off", "dead"} /\ ap' = IdleAp
      /\ ec' = ec \/ ec' = AllReset
      /\ board' = board /\ nv' = nv /\ want' = want /\ asked' = asked
  BY DEF Restart
<1>2. Grown /\ RoSafe
  BY SMTT(30), SMTT(60), <1>1, FaultsStay, RoSafeElsewhere DEF Restart, IInv
<1>3. /\ ec' \in [Devices -> EcState]
      /\ \A d \in Devices : ec'[d].flash = ec[d].flash /\ (ec'[d] = ec[d] \/ ec'[d].run = "RO")
  BY <1>1, ResetAll DEF IInv, TypeInv
<1>4. nv \in NvState /\ IdleAp \in ApState
  BY Zenon, IdleType DEF IInv, TypeInv
<1>5. TypeInv'
  BY <1>1, <1>2, <1>3, <1>4 DEF IInv, TypeInv, PCs, Grown
<1>6. Causes'
  <2>1. GoodNv(nv, faults', asked')
    BY <1>1, <1>2, NvStays DEF IInv, Causes
  <2>2. IdleAp.vnc = nv /\ IdleAp.reason = "none" /\ IdleAp.request = "none"
    BY DEF IdleAp
  <2>3. QED
    BY <1>1, <2>1, <2>2 DEF Causes, GoodNv, Excused, Hashed
<1>7. CodeOfRw'
  BY <1>3 DEF IInv, CodeOfRw
<1>8. RoKept'
  BY <1>1, <1>2, <1>3, RoStays
<1>9. QED
  BY <1>1, <1>5, <1>6, <1>7, <1>8, AtRest DEF IInv

(* The OS leaves the ECs and the slot that booted alone. *)
LEMMA OsKeeps == ASSUME IInv, OsUpdates \/ OsAsksForRoSync PROVE IInv'
<1>1. /\ pc = "os" /\ pc' = pc /\ ap' = ap /\ ec' = ec /\ board' = board /\ faults' = faults
      /\ asked \subseteq asked' /\ ap \in ApState /\ ap.slot \in Slots /\ nv \in NvState
  BY DEF OsUpdates, OsAsksForRoSync, NoFault, IInv, TypeInv, ApState
<1>2. Grown /\ RoSafe
  BY <1>1, FaultsStay, RoSafeElsewhere DEF IInv, NoFault
<1>3. want' \in [Slots \cup {"RO"} -> Images] /\ want'[ap.slot] = want[ap.slot]
  <2>1. CASE OsUpdates
    <3>1. PICK s \in Slots \ {ap.slot}, i \in Images, ro \in Images :
            want' = [want EXCEPT ![s] = i, !["RO"] = ro]
      BY Zenon, <2>1 DEF OsUpdates
    <3>2. QED
      BY <1>1, <3>1 DEF IInv, TypeInv
  <2>2. CASE OsAsksForRoSync
    BY <2>2 DEF OsAsksForRoSync, IInv, TypeInv
  <2>3. QED
    BY <2>1, <2>2
<1>4. GoodNv(nv', faults, asked')
  <2>1. GoodNv(nv, faults, asked)
    BY DEF IInv, Causes
  <2>2. CASE OsUpdates
    <3>1. PICK s \in Slots : nv' = [nv EXCEPT !.slot = s]
      BY <2>2 DEF OsUpdates
    <3>2. nv' \in NvState /\ nv'.recovery = nv.recovery /\ nv'.try_ro = nv.try_ro
      BY <1>1, <3>1 DEF NvState
    <3>3. QED
      BY <2>1, <2>2, <3>2 DEF GoodNv, OsUpdates
  <2>3. CASE OsAsksForRoSync
    <3>1. nv' = [nv EXCEPT !.try_ro = TRUE] /\ asked' = asked \cup {"ro_sync"}
      BY <2>3 DEF OsAsksForRoSync
    <3>2. nv' \in NvState /\ nv'.recovery = nv.recovery
      BY Zenon, <1>1, <3>1 DEF NvState
    <3>3. QED
      BY <2>1, <3>1, <3>2 DEF GoodNv, Excused
  <2>4. QED
    BY <2>2, <2>3
<1>5. TypeInv'
  BY <1>1, <1>3, <1>4 DEF IInv, TypeInv, GoodNv
<1>6. Causes'
  <2>1. GoodNv(ap.vnc, faults, asked')
    BY <1>1 DEF IInv, Causes, GoodNv, Excused
  <2>2. ap.reason # "none" \/ ap.request # "none" => Excused(faults, asked')
    BY SMTT(30), SMTT(60), <1>1 DEF IInv, Causes, Excused
  <2>3. QED
    BY <1>1, <1>4, <2>1, <2>2 DEF Causes, GoodNv, Excused, Hashed
<1>7. CodeOfRw'
  BY <1>1 DEF IInv, CodeOfRw
<1>8. Finished'
  <2>1. \A d \in Devices : Handled(d)' <=> Handled(d)
    BY SMTT(30), SMTT(60), <1>1, <1>3 DEF Handled, Recovering, RunsRight, RunsRw, RoNormal, Hashed, Failed
  <2>2. QED
    BY SMTT(30), SMTT(60), <1>1, <2>1 DEF IInv, Finished, Recovering
<1>9. Earlier' /\ Updating' /\ Protecting' /\ Writing'
  BY ZenonT(40), <1>1 DEF Earlier, Updating, Protecting, Writing, InSync, InUpdate, AfterCheck
<1>10. RoKept'
  BY Zenon, <1>1, <1>2, RoStays
<1>11. QED
  BY <1>5, <1>6, <1>7, <1>8, <1>9, <1>10 DEF IInv

LEMMA StutterKeeps == ASSUME IInv, UNCHANGED vars PROVE IInv'
<1>1. /\ board' = board /\ nv' = nv /\ ec' = ec /\ want' = want /\ ap' = ap /\ pc' = pc
      /\ faults' = faults /\ asked' = asked
  BY SMTT(30), SMTT(60) DEF vars
<1>2. TypeInv' /\ Causes' /\ CodeOfRw'
  BY <1>1 DEF IInv, TypeInv, Causes, CodeOfRw, GoodNv, Excused, Hashed
<1>3. /\ Recovering' <=> Recovering
      /\ RoNormal' <=> RoNormal
      /\ Hashed' <=> Hashed
      /\ This' = This /\ Expected' = Expected
      /\ Failed("sync")' <=> Failed("sync")
      /\ Failed("power")' <=> Failed("power")
  BY <1>1 DEF Recovering, RoNormal, Hashed, This, Expected, Failed
<1>4. \A d \in Devices : (RunsRw(d)' <=> RunsRw(d)) /\ (RunsRight(d)' <=> RunsRight(d))
  BY <1>1, <1>3 DEF RunsRight, RunsRw
<1>5. Earlier' /\ Finished'
  <2>1. \A d \in Devices : Handled(d)' <=> Handled(d)
    BY SMTT(30), SMTT(60), <1>1, <1>3, <1>4 DEF Handled
  <2>2. QED
    BY SMTT(30), SMTT(60), <1>1, <1>3, <2>1 DEF IInv, Earlier, Finished
<1>6. Updating' /\ Protecting'
  <2>1. (RunsRw(ap.dev)' <=> RunsRw(ap.dev)) /\ (RunsRight(ap.dev)' <=> RunsRight(ap.dev))
    BY SMTT(30), SMTT(60), <1>1, <1>3 DEF RunsRight, RunsRw
  <2>2. Updating'
    BY <1>1, <1>3, <2>1 DEF IInv, Updating
  <2>3. Protecting'
    BY <1>1, <1>3, <2>1 DEF IInv, Protecting
  <2>4. QED
    BY <2>2, <2>3
<1>7. (NeedOprom' <=> NeedOprom) /\ (Verified' <=> Verified) /\ (Needed' <=> Needed)
  BY SMTT(30), SMTT(60), <1>1, <1>3 DEF NeedOprom, Verified, Needed
<1>8. Writing'
  BY SMTT(30), SMTT(60), <1>1, <1>3, <1>7 DEF IInv, Writing
<1>9. RoKept'
  <2>1. \A d \in Devices : SecondTry(d)' <=> SecondTry(d)
    BY <1>1, <1>7 DEF SecondTry
  <2>2. TwoFailures' <=> TwoFailures
    BY <1>1, <1>3 DEF TwoFailures
  <2>3. QED
    BY SMTT(30), SMTT(60), <1>1, <1>3, <2>1, <2>2 DEF IInv, RoKept
<1>10. QED
  BY <1>2, <1>5, <1>6, <1>8, <1>9 DEF IInv

LEMMA InitInv == Init => IInv
<1> SUFFICES ASSUME Init PROVE IInv
  OBVIOUS
<1> DEFINE e == [run |-> "RO", code |-> FirstImage, locked |-> {}, nojump |-> FALSE,
                 flash |-> [r \in Regions |-> FirstImage]]
<1>1. FirstImage \in Images
  BY SMTT(30), SMTT(60), EcSyncAssumption DEF FirstImage
<1>2. e \in EcState /\ e.run = "RO" /\ e.flash["RO"] = FirstImage
  <2>1. [r \in Regions |-> FirstImage] \in [Regions -> Images \cup {Torn}]
    BY <1>1
  <2>2. e \in EcState
    BY <1>1, <2>1, Zenon DEF EcState
  <2>3. QED
    BY <2>2
<1> HIDE DEF e
<1>3. ec \in [Devices -> EcState] /\ \A d \in Devices : ec[d] = e
  BY <1>2 DEF Init, e
<1>4. nv \in NvState
  <2>1. nv = [recovery |-> "none", try_ro |-> FALSE, oprom |-> FALSE, slot |-> "A"]
    BY DEF Init
  <2>2. QED
    BY <2>1, Zenon DEF NvState, Reasons
<1>5. ap \in ApState /\ ap.vnc = nv /\ ap.reason = "none" /\ ap.request = "none"
  <2>1. ap = IdleAp
    BY DEF Init
  <2>2. IdleAp.vnc = nv /\ IdleAp.reason = "none" /\ IdleAp.request = "none"
    BY DEF IdleAp
  <2>3. QED
    BY ZenonT(40), <1>4, <2>1, <2>2, IdleType
<1>6. TypeInv
  <2>1. want \in [Slots \cup {"RO"} -> Images]
    BY SMTT(30), SMTT(60), <1>1 DEF Init
  <2>2. board \in Boards /\ pc \in PCs /\ faults \in Seq(PCs \cup {"slot", "power"})
    BY DEF Init, PCs
  <2>3. QED
    BY <1>3, <1>4, <1>5, <2>1, <2>2 DEF TypeInv
<1>7. Causes
  <2>1. nv.recovery = "none" /\ ~nv.try_ro
    BY DEF Init
  <2>2. QED
    BY SMTT(30), SMTT(60), <1>4, <1>5, <2>1 DEF Causes, GoodNv
<1>8. CodeOfRw
  BY SMTT(30), SMTT(60), <1>2, <1>3 DEF CodeOfRw
<1>9. Earlier /\ Finished /\ Updating /\ Protecting /\ Writing
  <2>1. pc = "off"
    BY DEF Init
  <2>2. Earlier /\ Finished /\ Protecting
    BY <2>1 DEF Earlier, Finished, Protecting, InSync, InUpdate, AfterCheck
  <2>3. Updating /\ Writing
    BY <2>1 DEF Updating, Writing, InUpdate, AfterCheck
  <2>4. QED
    BY <2>2, <2>3
<1>10. RoKept
  BY <1>1, <1>2, <1>3, Constants DEF RoKept
<1>11. QED
  BY <1>6, <1>7, <1>8, <1>9, <1>10 DEF IInv

LEMMA NextInv == ASSUME IInv, [Next]_vars PROVE IInv'
  BY VbInitKeeps, SyncKeeps, EcCheckKeeps, EcWriteKeeps, EcWriteReturnsKeeps, EcVerifyKeeps,
     EcJumpKeeps, ProtectRoKeeps, ProtectRwKeeps, EcDisableJumpKeeps, EcSyncedKeeps,
     VbootDoneKeeps, PowerFailKeeps, RestartKeeps, OsKeeps, StutterKeeps
  DEF Next, Firmware, Stopped

(* The invariant holds however calls fail and power is cut. *)
THEOREM AlwaysInv == Spec => []IInv
  BY InitInv, NextInv, PTL DEF Spec

(* On boards with a precomputed EC hash: when VbSelectAndLoadKernel() goes on
   to a kernel every EC runs and has protected the code that belongs to the
   selected firmware, and the recovery screen comes up over RO code. *)
THEOREM SyncLeavesEcsRight ==
    ASSUME \A b \in Boards : "from_image" \notin b
    PROVE  Spec => []SyncedAtExit
<1>1. IInv => SyncedAtExit
  <2> SUFFICES ASSUME IInv PROVE SyncedAtExit
    OBVIOUS
  <2>1. Hashed
    BY SMTT(30), SMTT(60) DEF IInv, TypeInv, Hashed
  <2>2. SyncedAtBoot
    BY SMTT(30), SMTT(60), <2>1 DEF IInv, Finished, SyncedAtBoot, Handled, RunsRight, RunsRw
  <2>3. RecoveryInRo
    BY SMTT(30), SMTT(60) DEF IInv, Finished, RecoveryInRo, Handled
  <2>4. QED
    BY <2>2, <2>3 DEF SyncedAtExit
<1>2. QED
  BY <1>1, AlwaysInv, PTL

(* On the same boards: a boot asks for recovery only after a failed call or on
   the user's wish, and it takes a power failure or two failed calls to lose
   the RO code of an EC. *)
THEOREM FailuresStayContained ==
    ASSUME \A b \in Boards : "from_image" \notin b
    PROVE  Spec => []FailuresContained
<1>1. IInv => FailuresContained
  <2> SUFFICES ASSUME IInv PROVE FailuresContained
    OBVIOUS
  <2>1. Hashed
    BY DEF IInv, TypeInv, Hashed
  <2>2. NoNeedlessRecovery
    BY <2>1 DEF IInv, Causes, GoodNv, Excused, NoNeedlessRecovery, Recovering
  <2>3. OneFailureKeepsRo
    BY <2>1 DEF IInv, RoKept, OneFailureKeepsRo, Dead, SecondTry, TwoFailures
  <2>4. QED
    BY <2>2, <2>3 DEF FailuresContained
<1>2. QED
  BY <1>1, AlwaysInv, PTL

----------------------------------------------------------------------------
(* Who writes the flash of an EC: the update, and a power failure during it. *)

FlashKept == \A d \in Devices : ec'[d].flash = ec[d].flash

LEMMA ExitFlash ==
    ASSUME IInv, NEW rv, NEW vnc, Exit(rv, vnc) \/ DeviceDone(vnc, TRUE) \/ DeviceDone(vnc, FALSE)
    PROVE  FlashKept
<1>1. ec' = AllReset \/ ec' = ec
  BY DEF Exit, DeviceDone
<1>2. QED
  BY <1>1, ResetAll DEF IInv, FlashKept

LEMMA UpdateFlash ==
    ASSUME IInv, NEW rv, NEW vnc, UpdateFails(rv, vnc) \/ UpdateOk
    PROVE  FlashKept
<1>1. Exit(rv, vnc) \/ DeviceDone(vnc, TRUE) \/ ec' = ec
  BY Zenon DEF UpdateFails, UpdateOk, Go
<1>2. QED
  BY Zenon, <1>1, ExitFlash DEF FlashKept

(* The region being written, and what is known about it by then. *)
Rewrites == pc = "write" /\ ap.region \notin This.locked /\ \E i \in Images \cup {Torn} :
    \A d \in Devices : ec'[d].flash = Flashed(i)[d].flash

LEMMA WhoWrites == ASSUME IInv, [Next]_vars PROVE FlashKept \/ Rewrites
<1>1. CASE VbInit \/ OsUpdates \/ OsAsksForRoSync \/ Stopped \/ UNCHANGED vars
  BY Zenon, <1>1 DEF VbInit, OsUpdates, OsAsksForRoSync, Stopped, vars, FlashKept
<1>2. CASE VbEcSoftwareSync
  <2>1. PICK vnc : \/ \E rv \in {"ec_reboot"} : Exit(rv, vnc)
                   \/ DeviceDone(vnc, FALSE)
                   \/ ec' = ec
    BY <1>2, Zenon DEF VbEcSoftwareSync, Go
  <2>2. QED
    BY ZenonT(40), <2>1, ExitFlash DEF FlashKept
<1>3. CASE EcCheck
  <2>1. PICK vnc : \/ \E rv \in {"ec_reboot", "oprom_mismatch"} : UpdateFails(rv, vnc)
                   \/ UpdateOk
                   \/ ec' = ec
    BY <1>3, Zenon DEF EcCheck, Go
  <2>2. QED
    BY <2>1, UpdateFlash DEF FlashKept
<1>4. CASE EcWrite
  <2>1. CASE UpdateFails("ec_reboot", ap.vnc)
    BY <2>1, UpdateFlash
  <2>2. CASE ap.region \notin This.locked /\ (ec' = Flashed(Torn) \/ ec' = Flashed(Expected))
    <3>1. Expected \in Images
      BY DEF IInv, TypeInv, ApState, Expected
    <3>2. QED
      BY <1>4, <2>2, <3>1 DEF EcWrite, Rewrites
  <2>3. QED
    BY <1>4, <2>1, <2>2 DEF EcWrite
<1>5. CASE EcWriteReturns \/ EcVerify
  <2>1. PICK vnc : UpdateFails("ec_reboot", vnc) \/ UpdateOk
    BY <1>5, Zenon DEF EcWriteReturns, EcVerify
  <2>2. QED
    BY <2>1, UpdateFlash
<1>6. CASE EcJump \/ ProtectRo \/ ProtectRw \/ EcDisableJump
  <2>1. ap.dev \in Devices /\ ec \in [Devices -> EcState] /\ This = ec[ap.dev]
    BY DEF IInv, TypeInv, ApState, This
  <2>2. \/ \E rv \in {"ec_reboot", "error"}, vnc \in {ap.vnc, Request(ap.vnc, "ec_jump_rw"),
                Request(ap.vnc, "ec_protect"), Request(ap.vnc, "ec_software_sync")} : Exit(rv, vnc)
        \/ ec' = ec
        \/ ec' = [ec EXCEPT ![ap.dev].run = "RW", ![ap.dev].code = This.flash["RW"]]
        \/ \E region \in Regions : ec' = [ec EXCEPT ![ap.dev].locked = @ \cup {region}]
        \/ ec' = [ec EXCEPT ![ap.dev].nojump = TRUE]
    BY <1>6, Zenon DEF EcJump, ProtectRo, ProtectRw, EcProtect, EcDisableJump, Go
  <2>3. CASE ec' = [ec EXCEPT ![ap.dev].run = "RW", ![ap.dev].code = This.flash["RW"]]
    BY <2>1, <2>3 DEF FlashKept, EcState
  <2>4. ASSUME NEW region \in Regions, ec' = [ec EXCEPT ![ap.dev].locked = @ \cup {region}]
        PROVE  FlashKept
    BY <2>1, <2>4 DEF FlashKept, EcState
  <2>5. CASE ec' = [ec EXCEPT ![ap.dev].nojump = TRUE]
    BY <2>1, <2>5 DEF FlashKept, EcState
  <2>6. CASE ec' = ec
    BY <2>6 DEF FlashKept
  <2>7. QED
    BY Zenon, <2>2, <2>3, <2>4, <2>5, <2>6, ExitFlash
<1>7. CASE EcSynced
  BY Zenon, <1>7, ExitFlash DEF EcSynced
<1>8. CASE VbootDone
  BY ZenonT(40), <1>8, ExitFlash DEF VbootDone, FlashKept
<1>9. CASE Restart
  BY <1>9, ResetAll DEF Restart, IInv, FlashKept
<1>10. CASE PowerFail
  <2> DEFINE e == IF pc = "write" /\ ap.region \notin This.locked THEN Flashed(Torn) ELSE ec
  <2>1. ec' = [d \in Devices |-> EcReset(e[d])]
    BY SMTT(30), SMTT(60), <1>10 DEF PowerFail
  <2>2. e \in [Devices -> EcState]
    BY SMTT(30), SMTT(60), FlashedEc DEF IInv, TypeInv
  <2>3. \/ e = ec
        \/ pc = "write" /\ ap.region \notin This.locked /\ e = Flashed(Torn)
    BY Zenon
  <2> HIDE DEF e
  <2>4. \A d \in Devices : ec'[d].flash = e[d].flash
    BY <2>1, <2>2, ResetEc
  <2>5. QED
    BY <2>3, <2>4 DEF FlashKept, Rewrites
<1>11. QED
  BY <1>1, <1>2, <1>3, <1>4, <1>5, <1>6, <1>7, <1>8, <1>9, <1>10 DEF Next, Firmware

(* On every board: an EC rewrites its RW code only while it runs RO code, its
   RO code only when the OS asked for it and write protect is off, and neither
   once it was told to protect it. *)
THEOREM FlashIsDisciplined == Spec => FlashDiscipline
<1> DEFINE Careful(d) ==
        /\ ec'[d].flash["RW"] # ec[d].flash["RW"] => ec[d].run = "RO" /\ "RW" \notin ec[d].locked
        /\ ec'[d].flash["RO"] # ec[d].flash["RO"] =>
               "wp" \notin board /\ "ro_sync" \in asked /\ "RO" \notin ec[d].locked
<1>1. ASSUME IInv, [Next]_vars, NEW d \in Devices PROVE Careful(d)
  <2>1. CASE FlashKept
    BY SMTT(30), SMTT(60), <2>1 DEF FlashKept
  <2>2. CASE Rewrites
    <3>1. PICK i \in Images \cup {Torn} : \A x \in Devices : ec'[x].flash = Flashed(i)[x].flash
      BY SMTT(30), SMTT(60), <2>2 DEF Rewrites
    <3>2. /\ d = ap.dev \/ ec'[d].flash = ec[d].flash
          /\ \A r \in Regions : r = ap.region \/ ec'[ap.dev].flash[r] = This.flash[r]
      BY SMTT(30), SMTT(60), <1>1, <3>1, FlashedEc DEF IInv, TypeInv, ApState
    <3>3. pc = "write" /\ ap.region \notin This.locked /\ This = ec[ap.dev]
      BY SMTT(30), SMTT(60), <2>2 DEF Rewrites, This
    <3>4. ap.region = "RW" => This.run = "RO"
      BY SMTT(30), SMTT(60), <1>1, <3>3 DEF IInv, Updating, AfterCheck, InUpdate, TypeInv, ApState, EcState
    <3>5. ap.region = "RO" => "wp" \notin board /\ "ro_sync" \in asked
      BY SMTT(30), SMTT(60), <1>1, <3>3 DEF IInv, Updating, AfterCheck, InUpdate
    <3>6. CASE d = ap.dev
      BY <3>2, <3>3, <3>4, <3>5, <3>6
    <3>7. CASE ec'[d].flash = ec[d].flash
      BY <3>7
    <3>8. QED
      BY <3>2, <3>6, <3>7
  <2>3. QED
    BY SMTT(30), SMTT(60), <1>1, <2>1, <2>2, WhoWrites
<1>2. IInv /\ [Next]_vars => [\A d \in Devices : Careful(d)]_vars
  BY <1>1
<1>3. QED
  BY <1>2, AlwaysInv, PTL DEF Spec, FlashDiscipline
=============================================================================
