------------------------------- MODULE EcSync -------------------------------
(***************************************************************************
 EC software sync: VbEcSoftwareSync(), EcUpdateImage() and EcProtect()
 (vboot_api_kernel.c), called by VbSelectAndLoadKernel() for each embedded
 controller, over many boots.  The second actor is the EC: it keeps running
 while the application processor (AP) reboots, and what it was told to
 protect stays protected until it reboots itself.

 A call to the EC that changes the EC is one step; power may fail between
 steps.  An EC image is a model value; Torn is a region whose last write was
 not finished.  VbInit() contributes the recovery request and the option ROM.
 ***************************************************************************)
EXTENDS Integers, FiniteSets, Sequences

CONSTANTS Devices,    \* 0 is the EC, 1 the PD controller (PD_SYNC)
          Images,     \* EC images
          Torn,
          Boards,     \* board properties, fixed for a machine
          MaxFaults, MaxUpdates

Slots   == {"A", "B"}
Regions == {"RO", "RW"}

(* dev: developer switch on; wp: write protect on; slow: VBSD_EC_SLOW_UPDATE;
   oprom: VBSD_OPROM_MATTERS; before: VB_INIT_FLAG_BEFORE_OPROM_LOAD;
   from_image: the board has no precomputed EC hash; ro_normal: the
   preamble of slot B asks for the read-only normal path. *)
BoardFlags == {"dev", "wp", "slow", "oprom", "before", "from_image", "ro_normal"}

ASSUME EcSyncAssumption ==
    /\ Devices \subseteq {0, 1} /\ 0 \in Devices
    /\ Torn \notin Images /\ Images # {}
    /\ Boards \subseteq SUBSET BoardFlags
    /\ MaxFaults \in Nat /\ MaxUpdates \in Nat

VARIABLES board,
          nv,       \* NV storage: recovery request, TRY_RO_SYNC, OPROM_NEEDED, slot
          ec,       \* the embedded controllers
          want,     \* the EC images the AP firmware carries
          ap,       \* this boot of the AP: shared data and the loop of the sync
          pc,
          faults,   \* history: where something failed
          updates,
          asked     \* history: did the user or the OS ask for recovery or RO sync?

vars == <<board, nv, ec, want, ap, pc, faults, updates, asked>>

FirstImage == CHOOSE i \in Images : TRUE

(* An EC that has just reset runs its RO code and has forgotten its locks. *)
EcReset(e) == [e EXCEPT !.run = "RO", !.code = e.flash["RO"], !.locked = {}, !.nojump = FALSE]

IdleAp ==
    [reason |-> "none", slot |-> "A", loaded |-> FALSE, vnc |-> nv, dev |-> 0,
     in_rw |-> FALSE, region |-> "RW", updated |-> FALSE, tries |-> 0,
     request |-> "none", mismatch |-> FALSE]

Init ==
    /\ board \in Boards
    /\ nv = [recovery |-> "none", try_ro |-> FALSE, oprom |-> FALSE, slot |-> "A"]
    /\ ec = [d \in Devices |-> [run |-> "RO", code |-> FirstImage, locked |-> {}, nojump |-> FALSE,
                                flash |-> [r \in Regions |-> FirstImage]]]
    /\ want = [s \in Slots \cup {"RO"} |-> FirstImage]
    /\ ap = IdleAp /\ pc = "off"
    /\ faults = <<>> /\ updates = 0 /\ asked = {}

Fails(what) == Len(faults) < MaxFaults /\ faults' = Append(faults, what)
Fault       == Fails(pc)
NoFault     == UNCHANGED faults

Failed(what) == \E i \in 1..Len(faults) : faults[i] = what

----------------------------------------------------------------------------
(* VbInit(): the recovery request is read and cleared; the option ROM was
   loaded when NV storage asked for it, and a normal boot wants it gone.
   VbSelectFirmware() takes the slot NV storage says, or falls back for good. *)
RoNormal   == "ro_normal" \in board /\ ap.slot = "B"
Recovering == ap.reason # "none"

VbInit ==
    /\ pc = "off"
    /\ \E button \in BOOLEAN, slot \in Slots :
        /\ IF slot = nv.slot THEN NoFault ELSE Fails("slot")
        /\ LET reason == IF button THEN "manual" ELSE nv.recovery
               loaded == "oprom" \in board /\ nv.oprom
               wrong  == /\ reason = "none" /\ "oprom" \in board
                         /\ loaded # ("dev" \in board)
               n == [nv EXCEPT !.recovery = "none", !.oprom = IF wrong THEN ~loaded ELSE @,
                               !.slot = slot]
           IN /\ nv' = n
              /\ asked' = IF button THEN asked \cup {"recovery"} ELSE asked
              /\ IF wrong /\ "before" \notin board
                 THEN ap' = [IdleAp EXCEPT !.vnc = n] /\ UNCHANGED pc
                 ELSE /\ ap' = [IdleAp EXCEPT !.reason = reason, !.slot = slot,
                                              !.loaded = loaded, !.vnc = n]
                      /\ pc' = "sync"
    /\ UNCHANGED <<board, ec, want, updates>>

----------------------------------------------------------------------------
(* Leaving VbSelectAndLoadKernel(): NV storage is written; after
   VBERROR_EC_REBOOT_TO_RO_REQUIRED the board reboots the EC as well. *)
Dead(e) == \E d \in Devices : e[d].flash["RO"] = Torn

AllReset == [d \in Devices |-> EcReset(ec[d])]

Exit_NoReset(rv, vnc) ==
    /\ nv' = vnc /\ ec' = ec /\ pc' = "off" /\ ap' = [IdleAp EXCEPT !.vnc = vnc]
    /\ UNCHANGED <<board, want, updates, asked>>
Exit(rv, vnc) ==
    /\ nv' = vnc
    /\ ec' = IF rv = "ec_reboot" THEN AllReset ELSE ec
    /\ pc' = IF rv = "ec_reboot" /\ Dead(ec) THEN "dead" ELSE "off"
    /\ ap' = [IdleAp EXCEPT !.vnc = vnc]
    /\ UNCHANGED <<board, want, updates, asked>>

Request(vnc, reason) == [vnc EXCEPT !.recovery = reason]

(* The next device, or, when one of them met the wrong option ROM state, the
   reboot that was put off until all are done. *)
DeviceDone(vnc, mismatch) ==
    LET more == (ap.dev + 1) \in Devices
        bad  == ap.mismatch \/ mismatch
    IN IF ~more /\ bad THEN Exit("oprom_mismatch", vnc)
       ELSE /\ ap' = [IdleAp EXCEPT !.reason = ap.reason, !.slot = ap.slot, !.loaded = ap.loaded,
                                    !.dev = IF more THEN @ + 1 ELSE 0,
                                    !.mismatch = bad, !.vnc = vnc]
            /\ pc' = IF more THEN "sync" ELSE "done"
            /\ UNCHANGED <<board, nv, ec, want, updates, asked>>

Go(next, a) ==
    /\ pc' = next /\ ap' = a
    /\ UNCHANGED <<board, nv, ec, want, updates, asked>>

This == ec[ap.dev]

----------------------------------------------------------------------------
(* EcUpdateImage() *)

Expected == want[IF ap.region = "RO" THEN "RO" ELSE ap.slot]
Needed_Never == FALSE
Needed == This.flash[ap.region] # Expected

(* What may go wrong before the image is written. *)
CheckErrors ==
    {"ec_hash_failed", "ec_hash_size", "ec_expected_hash"}
    \cup (IF Needed \/ "from_image" \in board THEN {"ec_expected_image"} ELSE {})
    \cup (IF Needed /\ "from_image" \notin board THEN {"ec_hash_mismatch"} ELSE {})

NeedOprom == {"slow", "oprom"} \subseteq board /\ ~ap.loaded

(* Success and failure of an update are for the caller: RW is tried once, RO
   twice, and a second RO try that works takes the recovery request back. *)
UpdateOk ==
    IF ap.region = "RW" THEN Go("jump", ap)
    ELSE Go("protect_ro", [ap EXCEPT !.vnc = IF ap.tries > 0 THEN Request(@, ap.request) ELSE @])

UpdateFails_OneTry(rv, vnc) ==
    IF rv = "oprom_mismatch" THEN DeviceDone(vnc, TRUE) ELSE Exit(rv, vnc)
UpdateFails(rv, vnc) ==
    IF ap.region = "RW"
    THEN IF rv = "oprom_mismatch" THEN DeviceDone(vnc, TRUE) ELSE Exit(rv, vnc)
    ELSE IF ap.tries = 0 THEN Go("check", [ap EXCEPT !.tries = 1, !.vnc = vnc])
    ELSE IF rv = "oprom_mismatch" THEN DeviceDone(vnc, TRUE) ELSE Exit(rv, vnc)

NoteNeed == IF ap.region = "RW" THEN [ap EXCEPT !.updated = Needed] ELSE ap

(* An EC that runs the wrong RW code is rebooted first. *)
InPlace_Write == FALSE
InPlace == ap.in_rw /\ ap.region = "RW"

EcCheck ==
    /\ pc = "check"
    /\ \/ Fault /\ \E r \in CheckErrors : UpdateFails("ec_reboot", Request(ap.vnc, r))
       \/ /\ NoFault
          /\ LET vnc == IF NeedOprom THEN [ap.vnc EXCEPT !.oprom = TRUE] ELSE ap.vnc
             IN IF ~Needed THEN UpdateOk
                ELSE IF InPlace THEN UpdateFails("ec_reboot", vnc)
                ELSE IF NeedOprom THEN UpdateFails("oprom_mismatch", vnc)
                ELSE Go("write", NoteNeed)

Flashed(image) == [ec EXCEPT ![ap.dev].flash[ap.region] = image]

(* VbExEcUpdateImage(): a protected region needs a reboot first, and an EC may
   also want one afterwards.  A failed write leaves the region torn, whether
   the EC notices or not. *)
EcWrite ==
    /\ pc = "write"
    /\ \/ /\ ap.region \in This.locked
          /\ NoFault /\ UpdateFails("ec_reboot", ap.vnc)
       \/ /\ ap.region \notin This.locked
          /\ \/ Fault /\ ec' = Flashed(Torn) /\ pc' \in {"verify", "failed"}
             \/ NoFault /\ ec' = Flashed(Expected) /\ pc' \in {"verify", "rebooting"}
          /\ UNCHANGED <<board, nv, want, ap, updates, asked>>

EcWriteReturns ==
    /\ NoFault
    /\ \/ pc = "failed" /\ UpdateFails("ec_reboot", Request(ap.vnc, "ec_update"))
       \/ pc = "rebooting" /\ UpdateFails("ec_reboot", ap.vnc)

(* After a write the EC's hash is compared with `hash', which is NULL on a
   board without a precomputed one: the comparison reads address 0. *)
Verified == This.flash[ap.region] = Expected

EcVerify ==
    /\ pc = "verify"
    /\ \/ Fault /\ \E r \in {"ec_hash_failed", "ec_hash_size"} :
              UpdateFails("ec_reboot", Request(ap.vnc, r))
       \/ NoFault /\ (Verified \/ "from_image" \in board) /\ UpdateOk
       \/ /\ NoFault /\ (~Verified \/ "from_image" \in board)
          /\ UpdateFails("ec_reboot", Request(ap.vnc, "ec_update"))

----------------------------------------------------------------------------
(* VbEcSoftwareSync() *)

(* Only an EC that is known to run its RW code is rebooted for recovery. *)
DefinitelyRw(ok) == ok /\ This.run = "RW"

(* VbExEcRunningRW() and what follows from it. *)
VbEcSoftwareSync ==
    /\ pc = "sync"
    /\ \E ok \in BOOLEAN :
        LET rw == This.run = "RW"
        IN /\ IF ok THEN NoFault ELSE Fault
           /\ IF Recovering
              THEN IF DefinitelyRw(ok) THEN Exit("ec_reboot", Request(ap.vnc, ap.reason))
                   ELSE DeviceDone(ap.vnc, FALSE)
              ELSE IF ~ok THEN Exit("ec_reboot", Request(ap.vnc, "ec_unknown_image"))
              ELSE IF RoNormal
              THEN IF rw THEN Exit("ec_reboot", ap.vnc) ELSE Go("protect_rw", ap)
              ELSE Go("check", [ap EXCEPT !.in_rw = rw, !.region = "RW"])

(* Should the RO image be synced too? *)
TryRo(vnc) == ap.dev = 0 /\ vnc.try_ro /\ "wp" \notin board

EcJump ==
    /\ pc = "jump"
    /\ LET next == IF TryRo(ap.vnc)
                   THEN [ap EXCEPT !.vnc.try_ro = FALSE, !.request = ap.vnc.recovery,
                                   !.region = "RO", !.tries = 0]
                   ELSE ap
           to   == IF TryRo(ap.vnc) THEN "check" ELSE "protect_ro"
       IN \/ ap.in_rw /\ NoFault /\ Go(to, next)
          \/ ~ap.in_rw /\ This.nojump /\ NoFault /\ Exit("ec_reboot", ap.vnc)
          \/ ~ap.in_rw /\ Fault /\ Exit("ec_reboot", Request(ap.vnc, "ec_jump_rw"))
          \/ /\ ~ap.in_rw /\ ~This.nojump /\ NoFault
             /\ ec' = [ec EXCEPT ![ap.dev].run = "RW", ![ap.dev].code = This.flash["RW"]]
             /\ pc' = to /\ ap' = next
             /\ UNCHANGED <<board, nv, want, updates, asked>>

(* EcProtect(): an EC that needs a reboot is no error, anything else is. *)
EcProtect(region, next) ==
    \/ Fault /\ Exit("ec_reboot", ap.vnc)
    \/ Fault /\ Exit("error", Request(ap.vnc, "ec_protect"))
    \/ /\ NoFault
       /\ ec' = [ec EXCEPT ![ap.dev].locked = @ \cup {region}]
       /\ pc' = next
       /\ UNCHANGED <<board, nv, want, ap, updates, asked>>

ProtectRo == pc = "protect_ro" /\ EcProtect("RO", "protect_rw")
ProtectRw == pc = "protect_rw" /\ EcProtect("RW", "nojump")

(* VbExEcDisableJump(); after a slow update in a normal boot the option ROM
   has to go. *)
UnloadOprom ==
    /\ ~RoNormal /\ ap.updated /\ "dev" \notin board
    /\ {"slow", "oprom"} \subseteq board /\ ap.loaded

EcDisableJump ==
    /\ pc = "nojump"
    /\ \/ Fault /\ Exit("ec_reboot", Request(ap.vnc, "ec_software_sync"))
       \/ /\ NoFault
          /\ ec' = [ec EXCEPT ![ap.dev].nojump = TRUE] /\ pc' = "synced"
          /\ UNCHANGED <<board, nv, want, ap, updates, asked>>

EcSynced ==
    /\ pc = "synced" /\ NoFault
    /\ IF UnloadOprom THEN DeviceDone([ap.vnc EXCEPT !.oprom = FALSE], TRUE)
       ELSE DeviceDone(ap.vnc, FALSE)

(* VbExEcVbootDone(), then the boot goes on. *)
VbootDone ==
    /\ pc = "done"
    /\ \/ Fault /\ Exit("error", ap.vnc)
       \/ /\ NoFault /\ nv' = ap.vnc
          /\ pc' = IF Recovering THEN "recovery" ELSE "os"
          /\ UNCHANGED <<board, ec, want, ap, updates, asked>>

----------------------------------------------------------------------------
(* Power and the operating system *)

PowerFail ==
    /\ pc \notin {"off", "dead"} /\ Fails("power")
    /\ LET e == IF pc = "write" /\ ap.region \notin This.locked THEN Flashed(Torn) ELSE ec
       IN /\ ec' = [d \in Devices |-> EcReset(e[d])]
          /\ pc' = IF Dead(e) THEN "dead" ELSE "off"
    /\ ap' = IdleAp
    /\ UNCHANGED <<board, nv, want, updates, asked>>

(* The AP restarts: alone, or with the EC. *)
Restart ==
    /\ pc \in {"os", "recovery"} /\ NoFault
    /\ \/ ec' = ec /\ pc' = "off"
       \/ ec' = AllReset /\ pc' = IF Dead(ec) THEN "dead" ELSE "off"
    /\ ap' = IdleAp
    /\ UNCHANGED <<board, nv, want, updates, asked>>

(* An update brings new EC images with the AP firmware of the other slot, which
   is tried next. *)
OsUpdates ==
    /\ pc = "os" /\ updates < MaxUpdates /\ updates' = updates + 1
    /\ \E s \in Slots \ {ap.slot}, i, ro \in Images :
        /\ want' = [want EXCEPT ![s] = i, !["RO"] = ro]
        /\ nv' = [nv EXCEPT !.slot = s]
    /\ NoFault /\ UNCHANGED <<board, ec, ap, pc, asked>>

OsAsksForRoSync ==
    /\ pc = "os" /\ ~nv.try_ro
    /\ nv' = [nv EXCEPT !.try_ro = TRUE] /\ asked' = asked \cup {"ro_sync"}
    /\ NoFault /\ UNCHANGED <<board, ec, want, ap, pc, updates>>

Firmware ==
    \/ VbInit \/ VbEcSoftwareSync \/ EcCheck \/ EcWrite \/ EcWriteReturns \/ EcVerify
    \/ EcJump \/ ProtectRo \/ ProtectRw \/ EcDisableJump \/ EcSynced \/ VbootDone

(* A machine whose EC lost its RO code stays dead. *)
Stopped == pc = "dead" /\ UNCHANGED vars

Next == Firmware \/ PowerFail \/ Restart \/ OsUpdates \/ OsAsksForRoSync \/ Stopped

Spec == Init /\ [][Next]_vars
FairSpec == Spec /\ WF_vars(Firmware)

----------------------------------------------------------------------------
(* When VbSelectAndLoadKernel() goes on to a kernel, every EC runs the code
   that the selected AP firmware carries (its RO code on the read-only normal
   path), whatever earlier boots, updates and failures left behind, and can
   neither jump nor have that code rewritten. *)
SyncedAtBoot ==
    pc = "os" => \A d \in Devices :
        /\ ec[d].nojump /\ "RW" \in ec[d].locked
        /\ IF RoNormal THEN ec[d].run = "RO"
           ELSE ec[d].run = "RW" /\ ec[d].code = want[ap.slot] /\ "RO" \in ec[d].locked

(* The recovery screen comes up with every EC in its RO code, except one that
   could not say what it runs: VbEcSoftwareSync() keeps the reason over the
   reboot. *)
RecoveryInRo ==
    pc = "recovery" /\ ~Failed("sync") => \A d \in Devices : ec[d].run = "RO"

(* However VbEcSoftwareSync() ends, every EC runs what it should. *)
SyncedAtExit == SyncedAtBoot /\ RecoveryInRo

(* The EC never rewrites the code it runs, never a region it was told to
   protect, and its RO code only when the OS asked and write protect is off. *)
FlashDiscipline ==
    [][\A d \in Devices :
        /\ ec'[d].flash["RW"] # ec[d].flash["RW"] => ec[d].run = "RO" /\ "RW" \notin ec[d].locked
        /\ ec'[d].flash["RO"] # ec[d].flash["RO"] =>
               "wp" \notin board /\ "ro_sync" \in asked /\ "RO" \notin ec[d].locked]_vars

(* Without an error the sync never asks for recovery: a locked region, a
   disabled jump or a missing option ROM is settled by rebooting. *)
NoNeedlessRecovery ==
    nv.recovery # "none" \/ Recovering => faults # <<>> \/ "recovery" \in asked

(* A single failed call never costs an EC its RO code: the second try of the RO
   update writes it again before anything can reboot the EC.  It takes a power
   failure in the middle of the write, or both tries. *)
OneFailureKeepsRo == Dead(ec) /\ pc \in {"off", "dead", "os"} => Failed("power") \/ Len(faults) > 1

(* A failure costs no more than it must. *)
FailuresContained == NoNeedlessRecovery /\ OneFailureKeepsRo

(* The reboots for the EC, the option ROM and failed calls come to an end: the
   machine gets to an OS or to the recovery screen again and again. *)
Settles == []<>(pc \in {"os", "recovery", "dead"})
=============================================================================
