------------------------------ MODULE EcSyncInv ------------------------------
(***************************************************************************
 The inductive invariant of EC software sync, IInv, and that the steps up to
 the verification of an update preserve it; EcSyncProofs has the other steps
 and what follows.  Its heart is what VbEcSoftwareSync() knows at each of its
 steps about the EC it deals with (Updating, Protecting, Writing), what it
 leaves behind in the ECs it has dealt with (Earlier, Finished), and how a
 torn RO region is accounted for (RoKept).
 ***************************************************************************)
EXTENDS EcSync, TLAPS

(* A board without a precomputed EC hash compares with whatever is at address
   0, so nothing can be said of what a write left behind. *)
Hashed == "from_image" \notin board

PCs == {"off", "sync", "check", "write", "failed", "rebooting", "verify", "jump",
        "protect_ro", "protect_rw", "nojump", "synced", "done", "os", "recovery", "dead"}

AfterCheck == {"write", "failed", "rebooting", "verify"}
InUpdate   == AfterCheck \cup {"check"}
InSync     == InUpdate \cup {"sync", "jump", "protect_ro", "protect_rw", "nojump", "synced"}

Reasons == {"none", "manual", "ec_hash_failed", "ec_hash_size", "ec_expected_hash",
            "ec_expected_image", "ec_hash_mismatch", "ec_update", "ec_unknown_image",
            "ec_jump_rw", "ec_protect", "ec_software_sync"}

NvState == [recovery : Reasons, try_ro : BOOLEAN, oprom : BOOLEAN, slot : Slots]
EcState == [run : Regions, code : Images \cup {Torn}, locked : SUBSET Regions,
            nojump : BOOLEAN, flash : [Regions -> Images \cup {Torn}]]
ApState == [reason : Reasons, slot : Slots, loaded : BOOLEAN, vnc : NvState, dev : Devices,
            in_rw : BOOLEAN, region : Regions, updated : BOOLEAN, tries : {0, 1},
            request : Reasons, mismatch : BOOLEAN]

TypeInv ==
    /\ board \in Boards /\ nv \in NvState /\ ec \in [Devices -> EcState]
    /\ want \in [Slots \cup {"RO"} -> Images]
    /\ ap \in ApState /\ pc \in PCs
    /\ faults \in Seq(PCs \cup {"slot", "power"})

(* A recovery request has a cause, a request for an RO sync came from the OS. *)
Excused(f, a) == Hashed => f # <<>> \/ "recovery" \in a
GoodNv(v, f, a) ==
    /\ v \in NvState
    /\ v.try_ro => "ro_sync" \in a
    /\ v.recovery # "none" => Excused(f, a)
Causes ==
    /\ GoodNv(nv, faults, asked) /\ GoodNv(ap.vnc, faults, asked)
    /\ ap.reason # "none" \/ ap.request # "none" => Excused(faults, asked)

CodeOfRw == \A d \in Devices : ec[d].run = "RW" => ec[d].code = ec[d].flash["RW"]

(* What an EC runs after the jump, and when it was left. *)
RunsRw(d) == ec[d].run = "RW" /\ (Hashed => ec[d].code = want[ap.slot])
RunsRight(d) == IF RoNormal THEN ec[d].run = "RO" ELSE RunsRw(d) /\ "RO" \in ec[d].locked
Handled(d) ==
    IF Recovering THEN Failed("sync") \/ ec[d].run = "RO"
    ELSE RunsRight(d) /\ "RW" \in ec[d].locked /\ ec[d].nojump

Earlier == pc \in InSync /\ ~ap.mismatch => \A d \in Devices : d < ap.dev => Handled(d)
Finished ==
    /\ pc \in {"done", "os", "recovery"} => \A d \in Devices : Handled(d)
    /\ pc = "os" => ~Recovering
    /\ pc = "recovery" => Recovering

(* The EC being dealt with, step by step. *)
Updating ==
    /\ pc \in InUpdate \cup {"jump"} => ~Recovering /\ ~RoNormal
    /\ pc \in InUpdate \cup {"jump"} /\ ap.region = "RW" => (ap.in_rw <=> This.run = "RW")
    /\ pc \in AfterCheck /\ ap.region = "RW" => ~ap.in_rw
    /\ pc \in InUpdate /\ ap.region = "RO" =>
           "wp" \notin board /\ "ro_sync" \in asked /\ RunsRw(ap.dev)
    /\ pc = "jump" => ap.region = "RW" /\ (Hashed => This.flash["RW"] = want[ap.slot])
Protecting ==
    /\ pc = "protect_ro" => ~Recovering /\ ~RoNormal /\ RunsRw(ap.dev)
    /\ pc \in {"protect_rw", "nojump", "synced"} => ~Recovering /\ RunsRight(ap.dev)
    /\ pc \in {"nojump", "synced"} => "RW" \in This.locked
    /\ pc = "synced" => This.nojump

(* The writes and their failures. *)
Writing ==
    /\ pc \in AfterCheck => ~NeedOprom
    /\ pc = "failed" => faults # <<>>
    /\ pc = "verify" => Verified \/ faults # <<>>
    /\ pc = "rebooting" => Verified
    /\ pc = "write" => Needed
    /\ pc \in {"check", "write"} /\ ap.region = "RO" /\ ap.tries = 1 =>
           faults # <<>> \/ NeedOprom \/ "RO" \in This.locked \/ Verified \/ ~Hashed

TwoFailures == Failed("power") \/ Len(faults) > 1
SecondTry(d) ==
    /\ d = ap.dev /\ ap.region = "RO" /\ "RO" \notin ec[d].locked /\ ~NeedOprom
    /\ Len(faults) = 1
    /\ \/ pc \in {"verify", "failed"} /\ ap.tries = 0
       \/ pc \in {"check", "write"} /\ ap.tries = 1
RoKept == Hashed => \A d \in Devices : ec[d].flash["RO"] = Torn => TwoFailures \/ SecondTry(d)

IInv == /\ TypeInv /\ Causes /\ CodeOfRw
        /\ Earlier /\ Finished /\ Updating /\ Protecting /\ Writing /\ RoKept

----------------------------------------------------------------------------
(* Lemmas on the pieces the steps are made of *)

USE DEF Slots, Regions

LEMMA Constants == 0 \in Devices /\ Devices \subseteq {0, 1} /\ Torn \notin Images
  BY EcSyncAssumption

(* The history of failures only grows. *)
Grown ==
    /\ faults' \in Seq(PCs \cup {"slot", "power"})
    /\ Len(faults) \in Nat /\ Len(faults') \in Nat /\ Len(faults') >= Len(faults)
    /\ faults # <<>> => faults' # <<>>
    /\ Failed("sync") => Failed("sync")'
    /\ Failed("power") => Failed("power")'

LEMMA FaultsStay == ASSUME TypeInv, NoFault PROVE Grown
  BY DEF TypeInv, NoFault, Grown, Failed

LEMMA FaultsGrow ==
    ASSUME TypeInv, NEW x \in PCs \cup {"slot", "power"}, Fails(x)
    PROVE  Grown /\ faults' # <<>> /\ Len(faults') = Len(faults) + 1 /\ Failed(x)'
<1> DEFINE F == PCs \cup {"slot", "power"}
<1>1. faults \in Seq(F) /\ faults' = Append(faults, x) /\ x \in F
  BY DEF TypeInv, Fails
<1> HIDE DEF F
<1>2. /\ faults' \in Seq(F) /\ Len(faults) \in Nat /\ Len(faults') = Len(faults) + 1
      /\ faults'[Len(faults')] = x
      /\ \A i \in 1..Len(faults) : faults'[i] = faults[i]
  BY <1>1
<1>3. faults' # <<>>
  BY <1>2
<1>4. Failed(x)'
  BY <1>2 DEF Failed
<1>5. ASSUME NEW y, Failed(y) PROVE Failed(y)'
  BY <1>2, <1>5 DEF Failed
<1>6. QED
  BY <1>2, <1>3, <1>4, <1>5 DEF Grown, F

LEMMA FaultHere ==
    ASSUME TypeInv, Fault
    PROVE  /\ Grown /\ faults' # <<>> /\ Len(faults') = Len(faults) + 1
           /\ pc = "sync" => Failed("sync")'
<1>1. pc \in PCs \cup {"slot", "power"} /\ Fails(pc)
  BY DEF TypeInv, Fault
<1>2. QED
  BY <1>1, FaultsGrow

(* An EC that resets runs RO code and keeps its flash. *)
LEMMA ResetEc ==
    ASSUME NEW e \in EcState
    PROVE  EcReset(e) \in EcState /\ EcReset(e).run = "RO" /\ EcReset(e).flash = e.flash
  BY Zenon DEF EcState, EcReset

LEMMA ResetAll ==
    ASSUME TypeInv
    PROVE  /\ AllReset \in [Devices -> EcState]
           /\ \A d \in Devices : AllReset[d].run = "RO" /\ AllReset[d].flash = ec[d].flash
<1>1. ASSUME NEW d \in Devices
      PROVE  AllReset[d] \in EcState /\ AllReset[d].run = "RO" /\ AllReset[d].flash = ec[d].flash
  <2>1. ec[d] \in EcState /\ AllReset[d] = EcReset(ec[d])
    BY DEF TypeInv, AllReset
  <2>2. QED
    BY <2>1, ResetEc
<1>2. QED
  BY <1>1 DEF AllReset

LEMMA IdleType ==
    ASSUME nv \in NvState, NEW vnc \in NvState
    PROVE  /\ IdleAp \in ApState
           /\ [IdleAp EXCEPT !.vnc = vnc] \in ApState
           /\ [IdleAp EXCEPT !.vnc = vnc].vnc = vnc
           /\ [IdleAp EXCEPT !.vnc = vnc].reason = "none"
           /\ [IdleAp EXCEPT !.vnc = vnc].request = "none"
<1>1. IdleAp \in ApState
  BY Constants, Zenon DEF IdleAp, ApState, Reasons
<1>2. [IdleAp EXCEPT !.vnc = vnc] \in ApState
  BY <1>1, Zenon DEF ApState
<1>3. QED
  BY <1>1, <1>2 DEF IdleAp

(* When the sync is over nothing is left to be done for any EC. *)
LEMMA AtRest ==
    ASSUME pc' \in {"off", "dead"}
    PROVE  Earlier' /\ Finished' /\ Updating' /\ Protecting' /\ Writing'
  BY DEF Earlier, Finished, Updating, Protecting, Writing, InSync, InUpdate, AfterCheck

(* No EC has lost its RO code to a single failed call. *)
RoSafe == Hashed => \A d \in Devices : ec[d].flash["RO"] = Torn => TwoFailures'

LEMMA TwoStay == ASSUME Grown, TwoFailures PROVE TwoFailures'
  BY DEF Grown, TwoFailures

(* A GoodNv stays one while the histories grow. *)
LEMMA NvStays ==
    ASSUME TypeInv, Grown, board' = board, asked \subseteq asked',
           NEW v, GoodNv(v, faults, asked)
    PROVE  GoodNv(v, faults', asked')
  BY DEF GoodNv, Excused, Grown, Hashed

(* Leaving VbSelectAndLoadKernel(). *)
LEMMA ExitKeeps ==
    ASSUME IInv, Grown, RoSafe, NEW rv, NEW vnc, GoodNv(vnc, faults', asked), Exit(rv, vnc)
    PROVE  IInv'
<1>1. /\ nv' = vnc /\ vnc \in NvState /\ pc' \in {"off", "dead"}
      /\ ap' = [IdleAp EXCEPT !.vnc = vnc]
      /\ ec' = AllReset \/ ec' = ec
      /\ board' = board /\ want' = want /\ asked' = asked
  BY DEF Exit, GoodNv
<1>2. /\ ec' \in [Devices -> EcState]
      /\ \A d \in Devices : ec'[d].flash = ec[d].flash /\ (ec'[d] = ec[d] \/ ec'[d].run = "RO")
  BY <1>1, ResetAll DEF IInv, TypeInv
<1>3. ap' \in ApState /\ ap'.vnc = vnc /\ ap'.reason = "none" /\ ap'.request = "none"
  BY <1>1, IdleType DEF IInv, TypeInv
<1>4. TypeInv'
  BY <1>1, <1>2, <1>3 DEF IInv, TypeInv, PCs, Grown
<1>5. Causes'
  BY <1>1, <1>3 DEF Causes, GoodNv, Excused, Hashed
<1>6. CodeOfRw'
  BY <1>2 DEF IInv, CodeOfRw
<1>7. RoKept'
  BY <1>1, <1>2 DEF RoSafe, RoKept, Hashed
<1>8. QED
  BY <1>1, <1>4, <1>5, <1>6, <1>7, AtRest DEF IInv

(* What VbEcSoftwareSync() leaves when it is done with an EC. *)
HandledNow(d) ==
    IF Recovering THEN Failed("sync")' \/ ec[d].run = "RO"
    ELSE RunsRight(d) /\ "RW" \in ec[d].locked /\ ec[d].nojump

LEMMA DeviceDoneKeeps ==
    ASSUME IInv, Grown, RoSafe, pc \in InSync,
           NEW vnc, GoodNv(vnc, faults', asked),
           NEW mismatch \in BOOLEAN, mismatch \/ HandledNow(ap.dev),
           DeviceDone(vnc, mismatch)
    PROVE  IInv'
<1> DEFINE more == (ap.dev + 1) \in Devices
           bad  == ap.mismatch \/ mismatch
           dev  == IF more THEN IdleAp.dev + 1 ELSE 0
           a    == [IdleAp EXCEPT !.reason = ap.reason, !.slot = ap.slot, !.loaded = ap.loaded,
                                  !.dev = dev,
                                  !.mismatch = bad, !.vnc = vnc]
<1>1. CASE ~more /\ bad
  <2>1. Exit("oprom_mismatch", vnc)
    BY <1>1 DEF DeviceDone
  <2>2. QED
    BY <2>1, ExitKeeps
<1>2. CASE ~(~more /\ bad)
  <2>1. /\ ap' = a /\ pc' = IF more THEN "sync" ELSE "done"
        /\ board' = board /\ nv' = nv /\ ec' = ec /\ want' = want /\ asked' = asked
    BY <1>2 DEF DeviceDone
  <2>2. ap \in ApState /\ ap.dev \in Devices /\ ap.mismatch \in BOOLEAN /\ vnc \in NvState
    BY DEF IInv, TypeInv, ApState, GoodNv
  <2>3. /\ more => ap.dev = 0 /\ 1 \in Devices
        /\ ~more => \A d \in Devices : d = ap.dev \/ d < ap.dev
    <3>1. CASE ap.dev = 0
      <4>1. more <=> 1 \in Devices
        BY <3>1
      <4>2. QED
        BY <3>1, <4>1, Constants
    <3>2. CASE ap.dev = 1
      BY <3>2, Constants
    <3>3. QED
      BY Zenon, <2>2, <3>1, <3>2, Constants
  <2>4. /\ a.reason = ap.reason /\ a.slot = ap.slot /\ a.loaded = ap.loaded /\ a.vnc = vnc
        /\ a.request = "none" /\ a.region = "RW" /\ a.tries = 0
        /\ a.dev = IF more THEN 1 ELSE 0
    BY DEF IdleAp
  <2>5. a.mismatch <=> bad
    BY Zenon DEF IdleAp
  <2>6. a \in ApState
    <3>1. dev \in Devices /\ bad \in BOOLEAN
      BY <2>2, <2>3, Constants DEF IdleAp
    <3>2. IdleAp \in ApState
      BY Zenon, <2>2, IdleType DEF IInv, TypeInv
    <3> HIDE DEF dev, bad
    <3>3. QED
      BY <2>2, <3>1, <3>2, Zenon DEF ApState
  <2> HIDE DEF a
  <2>7. TypeInv'
    BY <2>1, <2>6 DEF IInv, TypeInv, PCs, Grown
  <2>8. Causes'
    <3>1. GoodNv(nv, faults', asked')
      BY <2>1, NvStays DEF IInv, Causes
    <3>2. ap.reason # "none" => Excused(faults', asked)
      BY DEF IInv, Causes, Excused, Grown
    <3>3. QED
      BY <2>1, <2>4, <3>1, <3>2 DEF Causes, GoodNv, Excused, Hashed
  <2>9. CodeOfRw'
    BY <2>1 DEF IInv, CodeOfRw
  <2>10. ASSUME ~bad, NEW d \in Devices, d < ap.dev \/ d = ap.dev
         PROVE  Handled(d)'
    <3>1. HandledNow(d)
      BY <2>10 DEF IInv, Earlier, Handled, HandledNow, Grown
    <3>2. Recovering' <=> Recovering
      BY <2>1, <2>4 DEF Recovering
    <3>3. RunsRight(d)' <=> RunsRight(d)
      BY <2>1, <2>4 DEF RunsRight, RunsRw, RoNormal, Hashed
    <3>4. QED
      BY <2>1, <3>1, <3>2, <3>3 DEF Handled, HandledNow
  <2>11. Earlier'
    <3>1. ASSUME pc' \in InSync, ~ap'.mismatch, NEW d \in Devices, d < ap'.dev
          PROVE  Handled(d)'
      <4>1. more
        BY <2>1, <3>1 DEF InSync, InUpdate, AfterCheck
      <4>2. d = ap.dev
        BY <2>1, <2>3, <2>4, <3>1, <4>1, Constants
      <4>3. QED
        BY <2>1, <2>5, <2>10, <3>1, <4>2
    <3>2. QED
      BY <2>1, <3>1 DEF Earlier
  <2>12. Finished'
    <3>1. ASSUME pc' = "done", NEW d \in Devices PROVE Handled(d)'
      <4>1. ~more
        BY <2>1, <3>1
      <4>2. d = ap.dev \/ d < ap.dev
        BY <2>3, <4>1
      <4>3. QED
        BY <1>2, <2>10, <4>1, <4>2
    <3>2. QED
      BY <2>1, <3>1 DEF Finished
  <2>13. Updating' /\ Protecting' /\ Writing'
    BY <2>1 DEF Updating, Protecting, Writing, InUpdate, AfterCheck
  <2>14. RoKept'
    BY <2>1 DEF RoSafe, RoKept, Hashed
  <2>15. QED
    BY <2>7, <2>8, <2>9, <2>11, <2>12, <2>13, <2>14 DEF IInv
<1>3. QED
  BY <1>1, <1>2

(* Outside the two tries of the RO update no EC is in the middle of one. *)
LEMMA RoSafeElsewhere ==
    ASSUME IInv, Grown,
           \/ pc \notin {"verify", "failed", "check", "write"}
           \/ ap.region = "RW"
    PROVE  RoSafe
<1>1. ap.region = "RW" => ap.region # "RO"
  OBVIOUS
<1>2. ASSUME Hashed, NEW d \in Devices, ec[d].flash["RO"] = Torn PROVE TwoFailures'
  <2>1. TwoFailures \/ SecondTry(d)
    BY <1>2 DEF IInv, RoKept
  <2>2. ~SecondTry(d)
    BY DEF SecondTry
  <2>3. QED
    BY <2>1, <2>2, TwoStay
<1>3. QED
  BY <1>2 DEF RoSafe

(* A step on the EC being dealt with leaves the rest of the machine alone. *)
LEMMA StepKeeps ==
    ASSUME IInv, Grown, pc \in InSync, pc' \in InSync,
           board' = board, nv' = nv, want' = want, asked' = asked,
           ap' \in ApState, ap'.reason = ap.reason, ap'.slot = ap.slot, ap'.dev = ap.dev,
           ap'.mismatch = ap.mismatch,
           GoodNv(ap'.vnc, faults', asked), ap'.request # "none" => Excused(faults', asked),
           ec' \in [Devices -> EcState], \A d \in Devices : d = ap.dev \/ ec'[d] = ec[d],
           ec'[ap.dev].run = "RW" => ec'[ap.dev].code = ec'[ap.dev].flash["RW"]
    PROVE  /\ TypeInv' /\ Causes' /\ CodeOfRw' /\ Earlier' /\ Finished'
           /\ Recovering' <=> Recovering
           /\ RoNormal' <=> RoNormal
           /\ Hashed' <=> Hashed
<1>1. TypeInv'
  BY DEF IInv, TypeInv, PCs, InSync, InUpdate, AfterCheck, Grown
<1>2. Causes'
  <2>1. GoodNv(nv, faults', asked')
    BY NvStays DEF IInv, Causes
  <2>2. ap.reason # "none" => Excused(faults', asked)
    BY DEF IInv, Causes, Excused, Grown
  <2>3. QED
    BY <2>1, <2>2 DEF Causes, GoodNv, Excused, Hashed
<1>3. CodeOfRw'
  BY DEF IInv, CodeOfRw
<1>4. /\ Recovering' <=> Recovering
      /\ RoNormal' <=> RoNormal
      /\ Hashed' <=> Hashed
  BY DEF Recovering, RoNormal, Hashed
<1>5. Earlier'
  <2>1. ASSUME ~ap'.mismatch, NEW d \in Devices, d < ap'.dev PROVE Handled(d)'
    <3>1. d # ap.dev
      BY <2>1, Constants DEF IInv, TypeInv, ApState
    <3>2. Handled(d)
      BY <2>1 DEF IInv, Earlier
    <3>3. RunsRight(d)' <=> RunsRight(d)
      BY <1>4, <3>1 DEF RunsRight, RunsRw
    <3>4. QED
      BY <1>4, <3>1, <3>2, <3>3 DEF Handled, Grown
  <2>2. QED
    BY <2>1 DEF Earlier
<1>6. Finished'
  BY DEF Finished, InSync, InUpdate, AfterCheck
<1>7. QED
  BY <1>1, <1>2, <1>3, <1>4, <1>5, <1>6

LEMMA RoStays ==
    ASSUME RoSafe, board' = board,
           \A d \in Devices : ec'[d].flash["RO"] = ec[d].flash["RO"]
    PROVE  RoKept'
  BY DEF RoSafe, RoKept, Hashed

(* The recovery request of a failed call. *)
LEMMA RequestGood ==
    ASSUME NEW v, NEW f, NEW r \in Reasons, GoodNv(v, f, asked), r # "none" => Excused(f, asked)
    PROVE  GoodNv(Request(v, r), f, asked)
<1>1. v \in NvState
  BY DEF GoodNv
<1>2. /\ Request(v, r) \in NvState
      /\ Request(v, r).recovery = r /\ Request(v, r).try_ro = v.try_ro
  BY <1>1 DEF Request, NvState
<1>3. QED
  BY <1>2 DEF GoodNv

(* NV storage as this boot holds it, when a call has failed or not. *)
LEMMA VncGood ==
    ASSUME IInv, Grown
    PROVE  GoodNv(ap.vnc, faults', asked)
  BY DEF IInv, Causes, GoodNv, Excused, Grown

(* EcUpdateImage() failed: the caller gives up, or tries RO again. *)
LEMMA UpdateFailsKeeps ==
    ASSUME IInv, Grown, pc \in InUpdate,
           NEW rv, NEW vnc, GoodNv(vnc, faults', asked),
           ap.region = "RO" /\ ap.tries = 1 => RoSafe,
           ap.region = "RO" /\ ap.tries = 0 =>
               faults' # <<>> \/ NeedOprom \/ "RO" \in This.locked \/ Verified \/ ~Hashed,
           UpdateFails(rv, vnc)
    PROVE  IInv'
<1>0. ap \in ApState /\ ap.region \in Regions /\ ap.tries \in {0, 1} /\ vnc \in NvState
  BY DEF IInv, TypeInv, ApState, GoodNv
<1>1. CASE ap.region = "RW" \/ ap.tries = 1
  <2>1. RoSafe
    BY <1>0, <1>1, RoSafeElsewhere
  <2>2. DeviceDone(vnc, TRUE) \/ Exit(rv, vnc)
    <3>1. ap.region = "RW" \/ ~(ap.tries = 0)
      BY <1>1
    <3>2. QED
      BY <3>1, Zenon DEF UpdateFails
  <2>3. pc \in InSync
    BY DEF InSync
  <2>4. QED
    BY Zenon, <2>1, <2>2, <2>3, ExitKeeps, DeviceDoneKeeps
<1>2. CASE ap.region = "RO" /\ ap.tries = 0
  <2> DEFINE a == [ap EXCEPT !.tries = 1, !.vnc = vnc]
  <2>1. /\ pc' = "check" /\ ap' = a
        /\ board' = board /\ nv' = nv /\ ec' = ec /\ want' = want /\ asked' = asked
    BY <1>2 DEF UpdateFails, Go
  <2>2. /\ a.reason = ap.reason /\ a.slot = ap.slot /\ a.loaded = ap.loaded /\ a.vnc = vnc
        /\ a.request = ap.request /\ a.region = "RO" /\ a.tries = 1 /\ a.dev = ap.dev
        /\ a.mismatch = ap.mismatch
    BY <1>0, <1>2 DEF ApState
  <2>3. a \in ApState
    BY <1>0, Zenon DEF ApState
  <2> HIDE DEF a
  <2>4. This' = This /\ (NeedOprom' <=> NeedOprom) /\ (Verified' <=> Verified)
    BY <1>2, <2>1, <2>2 DEF This, NeedOprom, Verified, Expected
  <2>5. /\ TypeInv' /\ Causes' /\ CodeOfRw' /\ Earlier' /\ Finished'
        /\ Recovering' <=> Recovering
        /\ RoNormal' <=> RoNormal
        /\ Hashed' <=> Hashed
    <3>1. pc \in InSync /\ pc' \in InSync
      BY <2>1 DEF InSync, InUpdate
    <3>2. ap.request # "none" => Excused(faults', asked)
      BY DEF IInv, Causes, Excused, Grown
    <3>3. /\ ec' \in [Devices -> EcState]
          /\ ec'[ap.dev].run = "RW" => ec'[ap.dev].code = ec'[ap.dev].flash["RW"]
      BY <1>0, <2>1 DEF IInv, TypeInv, CodeOfRw, ApState
    <3>4. QED
      BY <2>1, <2>2, <2>3, <3>1, <3>2, <3>3, StepKeeps
  <2>6. Protecting'
    BY <2>1 DEF Protecting
  <2>7. Updating'
    <3>1. ~Recovering /\ ~RoNormal /\ "wp" \notin board /\ "ro_sync" \in asked /\ RunsRw(ap.dev)
      BY <1>2 DEF IInv, Updating
    <3>2. RunsRw(ap.dev)'
      BY <2>1, <2>2, <2>5, <3>1 DEF RunsRw
    <3>3. QED
      BY <2>1, <2>2, <2>5, <3>1, <3>2 DEF Updating, AfterCheck
  <2>8. Writing'
    BY <1>2, <2>1, <2>2, <2>4, <2>5 DEF Writing, AfterCheck
  <2>9. RoKept'
    <3>1. ASSUME Hashed, NEW d \in Devices, ec[d].flash["RO"] = Torn
          PROVE  TwoFailures' \/ SecondTry(d)'
      <4>1. CASE TwoFailures
        BY <4>1, TwoStay
      <4>2. CASE SecondTry(d)
        <5>1. d = ap.dev /\ "RO" \notin ec[d].locked /\ ~NeedOprom
          BY <4>2 DEF SecondTry
        <5>2. Len(faults) = 1
          BY <4>2 DEF SecondTry
        <5>3. Len(faults) \in Nat /\ Len(faults') \in Nat /\ Len(faults') >= Len(faults)
          BY DEF Grown
        <5>4. Len(faults') = 1 \/ Len(faults') > 1
          <6>1. \A m, n \in Nat : m = 1 /\ n >= m => n = 1 \/ n > 1
            OBVIOUS
          <6>2. QED
            BY <5>2, <5>3, <6>1, Zenon
        <5>5. QED
          BY <2>1, <2>2, <2>4, <5>1, <5>4 DEF SecondTry, TwoFailures
      <4>3. QED
        BY <3>1, <4>1, <4>2 DEF IInv, RoKept
    <3>2. QED
      BY <2>1, <2>5, <3>1 DEF RoKept
  <2>10. QED
    BY <2>5, <2>6, <2>7, <2>8, <2>9 DEF IInv
<1>3. QED
  BY <1>0, <1>1, <1>2

(* EcUpdateImage() succeeded. *)
LEMMA UpdateOkKeeps ==
    ASSUME IInv, NoFault, pc \in {"check", "verify"}, Hashed => Verified, UpdateOk
    PROVE  IInv'
<1>0. ap \in ApState /\ ap.region \in Regions /\ ap.dev \in Devices
  BY DEF IInv, TypeInv, ApState
<1>1. Grown /\ faults' = faults
  BY FaultsStay DEF IInv, NoFault
<1>2. PICK a : /\ a = IF ap.region = "RW" THEN ap
                      ELSE [ap EXCEPT !.vnc = IF ap.tries > 0 THEN Request(@, ap.request) ELSE @]
  BY Zenon
<1>3. /\ pc' = (IF ap.region = "RW" THEN "jump" ELSE "protect_ro") /\ ap' = a
      /\ board' = board /\ nv' = nv /\ ec' = ec /\ want' = want /\ asked' = asked
  BY <1>2 DEF UpdateOk, Go
<1>4. /\ a.reason = ap.reason /\ a.slot = ap.slot /\ a.loaded = ap.loaded
      /\ a.request = ap.request /\ a.region = ap.region /\ a.tries = ap.tries /\ a.dev = ap.dev
      /\ a.mismatch = ap.mismatch /\ a.in_rw = ap.in_rw
  BY <1>0, <1>2 DEF ApState
<1>5. GoodNv(a.vnc, faults, asked)
  <2>1. GoodNv(ap.vnc, faults, asked)
    BY DEF IInv, Causes
  <2>2. GoodNv(Request(ap.vnc, ap.request), faults, asked)
    BY <1>0, <2>1, RequestGood DEF ApState, IInv, Causes
  <2>3. a.vnc = ap.vnc \/ a.vnc = Request(ap.vnc, ap.request)
    BY <1>0, <1>2 DEF ApState
  <2>4. QED
    BY <2>1, <2>2, <2>3
<1>6. a \in ApState
  <2>1. a.vnc \in NvState
    BY <1>5 DEF GoodNv
  <2>2. a = ap \/ a = [ap EXCEPT !.vnc = a.vnc]
    BY <1>0, <1>2 DEF ApState
  <2>3. QED
    BY <1>0, <2>1, <2>2 DEF ApState
<1>7. This' = This
  BY SMTT(30), SMTT(60), <1>3, <1>4 DEF This
<1>8. /\ TypeInv' /\ Causes' /\ CodeOfRw' /\ Earlier' /\ Finished'
      /\ Recovering' <=> Recovering
      /\ RoNormal' <=> RoNormal
      /\ Hashed' <=> Hashed
  <2>1. pc \in InSync /\ pc' \in InSync
    BY <1>3 DEF InSync, InUpdate, AfterCheck
  <2>2. ap.request # "none" => Excused(faults, asked)
    BY DEF IInv, Causes
  <2>3. /\ ec' \in [Devices -> EcState]
        /\ ec'[ap.dev].run = "RW" => ec'[ap.dev].code = ec'[ap.dev].flash["RW"]
    BY <1>0, <1>3 DEF IInv, TypeInv, CodeOfRw
  <2>4. QED
    BY <1>1, <1>3, <1>4, <1>5, <1>6, <2>1, <2>2, <2>3, StepKeeps
<1>9. Writing'
  BY <1>3 DEF Writing, AfterCheck
<1>10. ~Recovering /\ ~RoNormal
  BY DEF IInv, Updating, InUpdate, AfterCheck
<1>11. Updating'
  <2>1. CASE ap.region = "RW"
    <3>1. ap.in_rw <=> This.run = "RW"
      BY <2>1 DEF IInv, Updating, InUpdate, AfterCheck
    <3>2. Hashed => This.flash["RW"] = want[ap.slot]
      BY <2>1 DEF Verified, Expected
    <3>3. QED
      BY <1>3, <1>4, <1>7, <1>8, <1>10, <2>1, <3>1, <3>2 DEF Updating, InUpdate, AfterCheck
  <2>2. CASE ap.region # "RW"
    BY <1>3, <2>2 DEF Updating, InUpdate, AfterCheck
  <2>3. QED
    BY <2>1, <2>2
<1>12. Protecting'
  <2>1. ap.region = "RO" => RunsRw(ap.dev)
    BY DEF IInv, Updating, InUpdate, AfterCheck
  <2>2. ap.region = "RO" => RunsRw(ap.dev)'
    BY <1>3, <1>4, <1>8, <2>1 DEF RunsRw
  <2>3. QED
    BY <1>0, <1>3, <1>8, <1>10, <2>2 DEF Protecting
<1>13. RoKept'
  <2>1. ASSUME Hashed, NEW d \in Devices, ec[d].flash["RO"] = Torn PROVE TwoFailures
    <3>1. want["RO"] # Torn
      BY Constants DEF IInv, TypeInv
    <3>2. ~SecondTry(d)
      BY <2>1, <3>1 DEF SecondTry, Verified, Expected, This
    <3>3. QED
      BY <2>1, <3>2 DEF IInv, RoKept
  <2>2. QED
    BY <1>1, <1>3, <1>8, <2>1, TwoStay DEF RoKept
<1>14. QED
  BY <1>8, <1>9, <1>11, <1>12, <1>13 DEF IInv

----------------------------------------------------------------------------
(* One lemma for each step of the firmware *)

LEMMA VbInitKeeps == ASSUME IInv, VbInit PROVE IInv'
<1>1. PICK button \in BOOLEAN, slot \in Slots :
        /\ IF slot = nv.slot THEN NoFault ELSE Fails("slot")
        /\ LET reason == IF button THEN "manual" ELSE nv.recovery
               loaded == "oprom" \in board /\ nv.oprom
               wrong  == /\ reason = "none" /\ "oprom" \in board
                         /\ loaded # ("dev" \in board)
               n == [nv EXCEPT !.recovery = "none", !.oprom = IF wrong THEN ~loaded ELSE @,
                               !.slot = slot]
           IN /\ nv' = n
              /\ asked' = IF button THEN asked \cup {"recovery"} ELSE asked
              /\ IF wrong /\ "before" \notin board
                 THEN ap' = [IdleAp EXCEPT !.vnc = n] /\ UNCHANGED pc
                 ELSE /\ ap' = [IdleAp EXCEPT !.reason = reason, !.slot = slot,
                                              !.loaded = loaded, !.vnc = n]
                      /\ pc' = "sync"
  BY Zenon DEF VbInit
<1> DEFINE reason == IF button THEN "manual" ELSE nv.recovery
           loaded == "oprom" \in board /\ nv.oprom
           wrong  == reason = "none" /\ "oprom" \in board /\ loaded # ("dev" \in board)
           oprom  == IF wrong THEN ~loaded ELSE nv.oprom
           n == [nv EXCEPT !.recovery = "none", !.oprom = oprom, !.slot = slot]
           a == [IdleAp EXCEPT !.reason = reason, !.slot = slot, !.loaded = loaded, !.vnc = n]
<1>2. /\ pc = "off" /\ board' = board /\ ec' = ec /\ want' = want /\ nv' = n
      /\ asked' = IF button THEN asked \cup {"recovery"} ELSE asked
      /\ \/ ap' = [IdleAp EXCEPT !.vnc = n] /\ pc' = pc
         \/ ap' = a /\ pc' = "sync"
  BY Zenon, <1>1 DEF VbInit
<1>3. Grown
  BY <1>1, FaultsStay, FaultsGrow DEF IInv
<1>4. nv \in NvState /\ nv.oprom \in BOOLEAN /\ reason \in Reasons
  BY DEF IInv, TypeInv, NvState, Reasons
<1>5. n \in NvState /\ n.recovery = "none" /\ n.try_ro = nv.try_ro
  <2>1. oprom \in BOOLEAN /\ "none" \in Reasons
    BY Zenon, <1>4 DEF Reasons
  <2> HIDE DEF oprom
  <2>2. n \in NvState
    BY <1>4, <2>1, Zenon DEF NvState
  <2>3. QED
    BY <1>4, <2>2 DEF NvState
<1>6. reason # "none" => Excused(faults', asked')
  BY <1>2, <1>3 DEF IInv, Causes, GoodNv, Excused, Grown
<1> HIDE DEF n
<1>7. /\ a.reason = reason /\ a.request = "none" /\ a.vnc = n /\ a.dev = 0 /\ a.region = "RW"
      /\ a \in ApState
  <2>1. loaded \in BOOLEAN /\ IdleAp \in ApState
    BY Zenon, <1>4, <1>5, IdleType
  <2> HIDE DEF loaded, reason
  <2>2. a \in ApState
    BY <1>4, <1>5, <2>1, Zenon DEF ApState
  <2>3. QED
    BY <2>2 DEF IdleAp
<1> HIDE DEF a
<1>8. /\ ap' \in ApState /\ ap'.vnc = n /\ ap'.request = "none"
      /\ ap'.reason # "none" => Excused(faults', asked')
  BY ZenonT(40), <1>2, <1>4, <1>5, <1>6, <1>7, IdleType
<1>9. TypeInv'
  BY <1>2, <1>3, <1>5, <1>8 DEF IInv, TypeInv, PCs, Grown
<1>10. Causes'
  <2>1. GoodNv(n, faults', asked')
    BY <1>2, <1>5 DEF IInv, Causes, GoodNv
  <2>2. QED
    BY <1>2, <1>8, <2>1 DEF Causes, GoodNv, Excused, Hashed
<1>11. CodeOfRw'
  BY <1>2 DEF IInv, CodeOfRw
<1>12. RoKept'
  BY <1>2, <1>3, RoSafeElsewhere, RoStays
<1>13. CASE pc' = "off"
  BY <1>9, <1>10, <1>11, <1>12, <1>13, AtRest DEF IInv
<1>14. CASE pc' = "sync" /\ ap' = a
  <2>1. Earlier'
    BY <1>7, <1>14, Constants DEF Earlier
  <2>2. Finished' /\ Updating' /\ Protecting' /\ Writing'
    BY <1>14 DEF Finished, Updating, Protecting, Writing, InUpdate, AfterCheck
  <2>3. QED
    BY <1>9, <1>10, <1>11, <1>12, <2>1, <2>2 DEF IInv
<1>15. QED
  BY SMTT(30), SMTT(60), <1>2, <1>13, <1>14

LEMMA SyncKeeps == ASSUME IInv, VbEcSoftwareSync PROVE IInv'
<1>1. PICK ok \in BOOLEAN :
        LET rw == This.run = "RW"
        IN /\ IF ok THEN NoFault ELSE Fault
           /\ IF Recovering
              THEN IF DefinitelyRw(ok) THEN Exit("ec_reboot", Request(ap.vnc, ap.reason))
                   ELSE DeviceDone(ap.vnc, FALSE)
              ELSE IF ~ok THEN Exit("ec_reboot", Request(ap.vnc, "ec_unknown_image"))
              ELSE IF RoNormal
              THEN IF rw THEN Exit("ec_reboot", ap.vnc) ELSE Go("protect_rw", ap)
              ELSE Go("check", [ap EXCEPT !.in_rw = rw, !.region = "RW"])
  BY Zenon DEF VbEcSoftwareSync
<1>2. pc = "sync" /\ pc \in InSync
  BY DEF VbEcSoftwareSync, InSync
<1>3. Grown /\ (~ok => faults' # <<>> /\ Failed("sync")')
  BY <1>1, <1>2, FaultsStay, FaultHere DEF IInv
<1>4. RoSafe /\ GoodNv(ap.vnc, faults', asked)
  BY <1>2, <1>3, RoSafeElsewhere, VncGood
<1>5. ap \in ApState /\ ap.dev \in Devices /\ ap.reason \in Reasons /\ This \in EcState
  BY DEF IInv, TypeInv, ApState, This
<1>6. CASE Recovering
  <2>1. ap.reason # "none" => Excused(faults', asked)
    BY <1>3 DEF IInv, Causes, Excused, Grown
  <2>2. GoodNv(Request(ap.vnc, ap.reason), faults', asked)
    BY <1>4, <1>5, <2>1, RequestGood
  <2>3. CASE DefinitelyRw(ok)
    BY <1>1, <1>3, <1>4, <1>6, <2>2, <2>3, ExitKeeps
  <2>4. CASE ~DefinitelyRw(ok)
    <3>1. HandledNow(ap.dev)
      BY <1>3, <1>5, <1>6, <2>4 DEF HandledNow, DefinitelyRw, EcState, This
    <3>2. DeviceDone(ap.vnc, FALSE)
      BY Zenon, <1>1, <1>6, <2>4
    <3>3. QED
      BY Zenon, <1>2, <1>3, <1>4, <3>1, <3>2, DeviceDoneKeeps
  <2>5. QED
    BY <2>3, <2>4
<1>7. CASE ~Recovering /\ ~ok
  <2>1. GoodNv(Request(ap.vnc, "ec_unknown_image"), faults', asked)
    BY <1>3, <1>4, <1>7, RequestGood DEF Reasons, Excused
  <2>2. Exit("ec_reboot", Request(ap.vnc, "ec_unknown_image"))
    BY <1>1, <1>7
  <2>3. QED
    BY <1>3, <1>4, <2>1, <2>2, ExitKeeps
<1>8. CASE ~Recovering /\ ok /\ RoNormal /\ This.run = "RW"
  BY <1>1, <1>3, <1>4, <1>8, ExitKeeps
<1>9. CASE ~Recovering /\ ok /\ RoNormal /\ This.run # "RW"
  <2>1. /\ pc' = "protect_rw" /\ ap' = ap
        /\ board' = board /\ nv' = nv /\ ec' = ec /\ want' = want /\ asked' = asked
    BY <1>1, <1>9 DEF Go
  <2>2. /\ ec' \in [Devices -> EcState] /\ pc' \in InSync
        /\ ec'[ap.dev].run = "RW" => ec'[ap.dev].code = ec'[ap.dev].flash["RW"]
    BY <1>5, <2>1 DEF IInv, TypeInv, CodeOfRw, InSync
  <2>3. ap.request # "none" => Excused(faults', asked)
    BY SMTT(30), SMTT(60), <1>3 DEF IInv, Causes, Excused, Grown
  <2>4. /\ TypeInv' /\ Causes' /\ CodeOfRw' /\ Earlier' /\ Finished'
        /\ Recovering' <=> Recovering
        /\ RoNormal' <=> RoNormal
        /\ Hashed' <=> Hashed
    BY SMTT(30), SMTT(60), <1>2, <1>3, <1>4, <1>5, <2>1, <2>2, <2>3, StepKeeps
  <2>5. Updating' /\ Writing'
    BY <2>1 DEF Updating, Writing, InUpdate, AfterCheck
  <2>6. Protecting'
    BY SMTT(30), SMTT(60), <1>5, <1>9, <2>1, <2>4 DEF Protecting, RunsRight, EcState, This
  <2>7. QED
    BY <1>4, <2>1, <2>4, <2>5, <2>6, RoStays DEF IInv
<1>10. CASE ~Recovering /\ ok /\ ~RoNormal
  <2> DEFINE rw == This.run = "RW"
             a  == [ap EXCEPT !.in_rw = rw, !.region = "RW"]
  <2>1. /\ pc' = "check" /\ ap' = a
        /\ board' = board /\ nv' = nv /\ ec' = ec /\ want' = want /\ asked' = asked
    BY <1>1, <1>10 DEF Go
  <2>2. /\ ec' \in [Devices -> EcState] /\ pc' \in InSync
        /\ ec'[ap.dev].run = "RW" => ec'[ap.dev].code = ec'[ap.dev].flash["RW"]
    BY <1>5, <2>1 DEF IInv, TypeInv, CodeOfRw, InSync, InUpdate
  <2>3. ap.request # "none" => Excused(faults', asked)
    BY <1>3 DEF IInv, Causes, Excused, Grown
  <2>4. /\ a.reason = ap.reason /\ a.slot = ap.slot /\ a.dev = ap.dev
        /\ a.mismatch = ap.mismatch /\ a.vnc = ap.vnc /\ a.request = ap.request
        /\ a.region = "RW"
    BY <1>5 DEF ApState
  <2>5. (a.in_rw <=> This.run = "RW") /\ a \in ApState
    BY <1>5, Zenon DEF ApState
  <2> HIDE DEF a
  <2>6. /\ TypeInv' /\ Causes' /\ CodeOfRw' /\ Earlier' /\ Finished'
        /\ Recovering' <=> Recovering
        /\ RoNormal' <=> RoNormal
        /\ Hashed' <=> Hashed
    BY SMTT(30), SMTT(60), <1>2, <1>3, <1>4, <1>5, <2>1, <2>2, <2>3, <2>4, <2>5, StepKeeps
  <2>7. Protecting' /\ Writing'
    BY <2>1, <2>4 DEF Protecting, Writing, AfterCheck
  <2>8. Updating'
    BY <1>10, <2>1, <2>4, <2>5, <2>6 DEF Updating, AfterCheck, This
  <2>9. QED
    BY <1>4, <2>1, <2>6, <2>7, <2>8, RoStays DEF IInv
<1>11. QED
  BY <1>1, <1>6, <1>7, <1>8, <1>9, <1>10

(* The failed second try of an RO update is a second failure. *)
LEMMA FaultIsSecond ==
    ASSUME IInv, Fault, ap.tries = 1
    PROVE  RoSafe
<1>1. Grown /\ Len(faults') = Len(faults) + 1
  BY FaultHere DEF IInv
<1>2. ASSUME Hashed, NEW d \in Devices, ec[d].flash["RO"] = Torn PROVE TwoFailures'
  <2>1. CASE TwoFailures
    BY <1>1, <2>1, TwoStay
  <2>2. CASE SecondTry(d)
    <3>1. Len(faults) = 1
      BY <2>2 DEF SecondTry
    <3>2. Len(faults') > 1
      BY <1>1, <3>1
    <3>3. QED
      BY <3>2 DEF TwoFailures
  <2>3. QED
    BY <1>2, <2>1, <2>2 DEF IInv, RoKept
<1>3. QED
  BY <1>2 DEF RoSafe

(* Without one the second try is not on its way. *)
LEMMA NotSecondTry ==
    ASSUME IInv, Grown, \A d \in Devices : ~SecondTry(d)
    PROVE  RoSafe
  BY TwoStay DEF IInv, RoKept, RoSafe

(* An image that differs is to be written. *)
LEMMA EcCheckNeeded ==
    ASSUME IInv, pc = "check", NoFault, Needed, ~InPlace, ~NeedOprom, Go("write", NoteNeed)
    PROVE  IInv'
<1>0. /\ pc \in InUpdate /\ pc \in InSync
      /\ ap \in ApState /\ ap.dev \in Devices /\ ap.vnc \in NvState
  BY DEF InUpdate, InSync, IInv, TypeInv, ApState
<1>1. Grown /\ faults' = faults
  BY FaultsStay DEF IInv, NoFault
<1> DEFINE a == NoteNeed
<1>2. /\ pc' = "write" /\ ap' = a
      /\ board' = board /\ nv' = nv /\ ec' = ec /\ want' = want /\ asked' = asked
  BY DEF Go
<1>3. /\ a.reason = ap.reason /\ a.slot = ap.slot /\ a.dev = ap.dev /\ a.loaded = ap.loaded
      /\ a.mismatch = ap.mismatch /\ a.vnc = ap.vnc /\ a.request = ap.request
      /\ a.region = ap.region /\ a.tries = ap.tries /\ a.in_rw = ap.in_rw
  BY <1>0 DEF NoteNeed, ApState
<1>4. a \in ApState
  <2>1. Needed \in BOOLEAN
    BY DEF Needed
  <2>2. QED
    BY <1>0, <2>1, Zenon DEF NoteNeed, ApState
<1> HIDE DEF a
<1>5. /\ ec' \in [Devices -> EcState] /\ pc' \in InSync
      /\ ec'[ap.dev].run = "RW" => ec'[ap.dev].code = ec'[ap.dev].flash["RW"]
  BY <1>0, <1>2 DEF IInv, TypeInv, CodeOfRw, InSync, InUpdate, AfterCheck
<1>6. GoodNv(ap.vnc, faults', asked) /\ (ap.request # "none" => Excused(faults', asked))
  BY SMTT(30), SMTT(60), <1>1 DEF IInv, Causes
<1>7. /\ TypeInv' /\ Causes' /\ CodeOfRw' /\ Earlier' /\ Finished'
      /\ Recovering' <=> Recovering
      /\ RoNormal' <=> RoNormal
      /\ Hashed' <=> Hashed
  <2>1. /\ ap' \in ApState /\ ap'.reason = ap.reason /\ ap'.slot = ap.slot /\ ap'.dev = ap.dev
        /\ ap'.mismatch = ap.mismatch /\ ap'.vnc = ap.vnc /\ ap'.request = ap.request
    BY <1>2, <1>3, <1>4
  <2>2. QED
    BY <1>0, <1>1, <1>2, <1>5, <1>6, <2>1, StepKeeps
<1>8. /\ This' = This /\ (NeedOprom' <=> NeedOprom) /\ (Verified' <=> Verified)
      /\ Needed' <=> Needed
  BY <1>2, <1>3 DEF This, NeedOprom, Verified, Needed, Expected
<1>9. Protecting'
  BY SMTT(30), SMTT(60), <1>2 DEF Protecting
<1>10. Updating'
  <2>1. ap.region = "RW" => ~ap.in_rw
    BY SMTT(30), SMTT(60) DEF InPlace
  <2>2. RunsRw(ap.dev) => RunsRw(ap.dev)'
    BY SMTT(30), SMTT(60), <1>2, <1>3, <1>7 DEF RunsRw
  <2>3. QED
    BY <1>0, <1>2, <1>3, <1>7, <1>8, <2>1, <2>2 DEF IInv, Updating
<1>11. Writing'
  BY SMTT(30), SMTT(60), <1>0, <1>1, <1>2, <1>3, <1>7, <1>8 DEF IInv, Writing
<1>12. RoKept'
  <2>1. \A d \in Devices : SecondTry(d) => SecondTry(d)'
    BY <1>0, <1>1, <1>2, <1>3, <1>8 DEF SecondTry
  <2>2. QED
    BY SMTT(30), SMTT(60), <1>1, <1>2, <1>7, <2>1, TwoStay DEF IInv, RoKept
<1>13. QED
  BY <1>7, <1>9, <1>10, <1>11, <1>12 DEF IInv

LEMMA EcCheckKeeps == ASSUME IInv, EcCheck PROVE IInv'
<1>0. /\ pc = "check" /\ pc \in InUpdate /\ pc \in InSync
      /\ ap \in ApState /\ ap.dev \in Devices /\ ap.vnc \in NvState
  BY SMTT(30), SMTT(60) DEF EcCheck, InUpdate, InSync, IInv, TypeInv, ApState
<1>1. ASSUME Fault, NEW r \in CheckErrors, UpdateFails("ec_reboot", Request(ap.vnc, r))
      PROVE  IInv'
  <2>1. Grown /\ faults' # <<>>
    BY <1>1, FaultHere DEF IInv
  <2>2. r \in Reasons
    BY DEF CheckErrors, Reasons
  <2>3. GoodNv(Request(ap.vnc, r), faults', asked)
    BY <2>1, <2>2, VncGood, RequestGood DEF Excused
  <2>4. ap.region = "RO" /\ ap.tries = 1 => RoSafe
    BY <1>1, FaultIsSecond
  <2>5. QED
    BY <1>0, <1>1, <2>1, <2>3, <2>4, UpdateFailsKeeps
<1> DEFINE vnc == IF NeedOprom THEN [ap.vnc EXCEPT !.oprom = TRUE] ELSE ap.vnc
<1>2. CASE NoFault
  <2>1. Grown /\ faults' = faults
    BY <1>2, FaultsStay DEF IInv, NoFault
  <2>2. GoodNv(vnc, faults', asked)
    <3>1. GoodNv(ap.vnc, faults', asked)
      BY <2>1, VncGood
    <3>2. /\ [ap.vnc EXCEPT !.oprom = TRUE] \in NvState
          /\ [ap.vnc EXCEPT !.oprom = TRUE].recovery = ap.vnc.recovery
          /\ [ap.vnc EXCEPT !.oprom = TRUE].try_ro = ap.vnc.try_ro
      BY Zenon, <1>0 DEF NvState
    <3>3. QED
      BY <3>1, <3>2 DEF GoodNv
  <2> HIDE DEF vnc
  <2>3. CASE ~Needed /\ UpdateOk
    <3>1. Verified
      BY <2>3 DEF Needed, Verified
    <3>2. QED
      BY <1>0, <1>2, <2>3, <3>1, UpdateOkKeeps
  <2>4. CASE InPlace /\ UpdateFails("ec_reboot", vnc)
    <3>1. ap.region # "RO"
      BY <2>4 DEF InPlace
    <3>2. QED
      BY <1>0, <2>1, <2>2, <2>4, <3>1, UpdateFailsKeeps
  <2>5. CASE NeedOprom /\ UpdateFails("oprom_mismatch", vnc)
    <3>1. RoSafe
      BY <2>1, <2>5, NotSecondTry DEF SecondTry
    <3>2. QED
      BY <1>0, <2>1, <2>2, <2>5, <3>1, UpdateFailsKeeps
  <2>6. CASE Needed /\ ~InPlace /\ ~NeedOprom /\ Go("write", NoteNeed)
    BY <1>0, <1>2, <2>6, EcCheckNeeded
  <2>7. \/ ~Needed /\ UpdateOk
        \/ InPlace /\ UpdateFails("ec_reboot", vnc)
        \/ NeedOprom /\ UpdateFails("oprom_mismatch", vnc)
        \/ Needed /\ ~InPlace /\ ~NeedOprom /\ Go("write", NoteNeed)
        \/ \E r \in CheckErrors : Fault /\ UpdateFails("ec_reboot", Request(ap.vnc, r))
    BY Zenon DEF EcCheck, vnc
  <2>8. QED
    BY <1>1, <2>3, <2>4, <2>5, <2>6, <2>7, Zenon
<1>3. QED
  BY <1>1, <1>2, Zenon DEF EcCheck

LEMMA EcWriteReturnsKeeps == ASSUME IInv, EcWriteReturns PROVE IInv'
<1>1. Grown /\ faults' = faults /\ GoodNv(ap.vnc, faults', asked)
  BY FaultsStay, VncGood DEF EcWriteReturns, IInv, NoFault
<1>2. CASE pc = "failed" /\ UpdateFails("ec_reboot", Request(ap.vnc, "ec_update"))
  <2>1. faults' # <<>> /\ pc \in InUpdate
    BY <1>1, <1>2 DEF IInv, Writing, InUpdate, AfterCheck
  <2>2. GoodNv(Request(ap.vnc, "ec_update"), faults', asked)
    BY <1>1, <2>1, RequestGood DEF Excused, Reasons
  <2>3. ap.tries = 1 => RoSafe
    BY <1>1, <1>2, NotSecondTry DEF SecondTry
  <2>4. QED
    BY <1>1, <1>2, <2>1, <2>2, <2>3, UpdateFailsKeeps
<1>3. CASE pc = "rebooting" /\ UpdateFails("ec_reboot", ap.vnc)
  <2>1. Verified /\ pc \in InUpdate
    BY <1>3 DEF IInv, Writing, InUpdate, AfterCheck
  <2>2. RoSafe
    BY <1>1, <1>3, RoSafeElsewhere
  <2>3. QED
    BY <1>1, <1>3, <2>1, <2>2, UpdateFailsKeeps
<1>4. QED
  BY <1>2, <1>3 DEF EcWriteReturns

LEMMA EcVerifyKeeps == ASSUME IInv, EcVerify PROVE IInv'
<1>0. pc = "verify" /\ pc \in InUpdate
  BY DEF EcVerify, InUpdate, AfterCheck
<1>1. ASSUME Fault, NEW r \in {"ec_hash_failed", "ec_hash_size"},
             UpdateFails("ec_reboot", Request(ap.vnc, r))
      PROVE  IInv'
  <2>1. Grown /\ faults' # <<>>
    BY <1>1, FaultHere DEF IInv
  <2>2. GoodNv(Request(ap.vnc, r), faults', asked)
    <3>1. r \in Reasons
      BY DEF Reasons
    <3>2. QED
      BY <2>1, <3>1, VncGood, RequestGood DEF Excused
  <2>3. ap.tries = 1 => RoSafe
    BY <1>1, FaultIsSecond
  <2>4. QED
    BY <1>0, <1>1, <2>1, <2>2, <2>3, UpdateFailsKeeps
<1>2. CASE NoFault /\ (Verified \/ "from_image" \in board) /\ UpdateOk
  BY <1>0, <1>2, UpdateOkKeeps DEF Hashed
<1>3. CASE /\ NoFault /\ (~Verified \/ "from_image" \in board)
           /\ UpdateFails("ec_reboot", Request(ap.vnc, "ec_update"))
  <2>1. Grown /\ faults' = faults
    BY <1>3, FaultsStay DEF IInv, NoFault
  <2>2. faults' # <<>> \/ ~Hashed
    BY <1>0, <1>3, <2>1 DEF IInv, Writing, Hashed
  <2>3. GoodNv(Request(ap.vnc, "ec_update"), faults', asked)
    BY <2>1, <2>2, VncGood, RequestGood DEF Excused, Reasons
  <2>4. ap.tries = 1 => RoSafe
    BY <1>0, <2>1, NotSecondTry DEF SecondTry
  <2>5. QED
    BY <1>0, <1>3, <2>1, <2>2, <2>3, <2>4, UpdateFailsKeeps
<1>4. QED
  BY <1>1, <1>2, <1>3, Zenon DEF EcVerify
=============================================================================
