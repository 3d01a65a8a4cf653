------------------------------ MODULE CgptDisk ------------------------------
(***************************************************************************
 The firmware of GptDisk and the operating system's cgpt on one disk.  A cgpt
 command reads the table (DriveOpen), changes its copy, and writes the pieces
 it marked as modified (GptSave): header 1, header 2, entries 1, entries 2.
 It goes on after a write that fails.  On a machine whose table is in NOR
 flash, cgpt_wrapper runs the command on a copy of the flash and writes that
 back in two halves (WriteNorFlash).

 A command changes entries to some other table of Tables; CgptTable has what
 each command writes into them.  `disk' is the disk outside a command, `media'
 the disk while one is writing.

 What is assumed: a command runs to its end or its process is killed between
 two writes, prioritize and legacy are not run on a table that a failure has
 left with one copy, and at most one write fails, or one process is killed,
 before the table is whole again (Undisturbed).  A command that sets or clears
 the legacy signature is not cut short.
 ***************************************************************************)
EXTENDS GptDisk

CONSTANTS Empty,           \* the table without partitions
          Clipped          \* a table whose first sector was zeroed

ASSUME CgptAssumption ==
    Empty \in Tables /\ Clipped \in Tables

VARIABLES nor,       \* is the table in NOR flash, behind cgpt_wrapper?
          command,   \* the command that is writing, or "none"
          drive,     \* struct drive: cgpt's copy of the four pieces
          saving,    \* the pieces still to be written
          media,     \* the four pieces while a command is writing
          failed     \* has a write of this command failed?

cgptVars == <<nor, command, drive, saving, media, failed>>
allVars  == <<vars, cgptVars>>

CgptInit ==
    /\ Init /\ nor \in BOOLEAN
    /\ command = "none" /\ drive = gpt /\ saving = {} /\ media = disk /\ failed = FALSE

----------------------------------------------------------------------------
(* What the commands do to their copy g of the table. *)

(* DriveOpen(): GptLoad() reads both headers and the arrays of valid ones. *)
Loaded == AllocAndReadGptData(disk, "none")
Whole  == GptSanityCheck(Loaded) /\ Good(Loaded) = Pieces

(* RepairEntries(MASK_PRIMARY), RepairHeader(MASK_PRIMARY) and UpdateCrc():
   the primary copy over the secondary one.  With the legacy signature the
   arrays are left alone, and the primary header's CRC is kept. *)
UpdateAllEntries(g) ==
    IF legacy THEN [g EXCEPT !["h2"] = g["e2"]] ELSE AllPieces(g["e1"])

Changed(t) == UpdateAllEntries([Loaded EXCEPT !["e1"] = t])

(* The command starts to write its copy.  cgpt_wrapper writes all of the image
   back, or nothing if its digest did not change. *)
Save(cmd, g, modifiedPieces) ==
    LET image == [p \in Pieces |-> IF p \in modifiedPieces THEN g[p] ELSE disk[p]]
    IN /\ pc = "running" /\ (command = "none" \/ (command = "lost" /\ cmd = "create"))
       /\ command' = cmd /\ drive' = image /\ media' = disk /\ failed' = FALSE
       /\ saving' = IF ~nor THEN modifiedPieces ELSE IF image = disk THEN {} ELSE Pieces
       /\ UNCHANGED <<nor, disk, gpt, modified, todo, interrupted, pc>>

(* cgpt add, refused unless all four pieces are valid, and when CheckEntries()
   rejects the result. *)
CgptAdd(t) ==
    /\ Whole
    /\ CheckEntries(Changed(t)["e1"], Changed(t)["h1"])
    /\ Save("add", Changed(t), Pieces) /\ UNCHANGED legacy

(* CgptSetAttributes() of the host library does not check the result. *)
CgptSetAttributes(t) ==
    /\ Whole
    /\ Save("set", Changed(t), Pieces) /\ UNCHANGED legacy

(* cgpt prioritize takes the primary array, valid or not. *)
CgptPrioritize(t) ==
    /\ GptSanityCheck(Loaded) /\ Loaded["h1"] # Bad /\ ~interrupted
    /\ Save("prioritize", Changed(IF Loaded["e1"] = Bad THEN Bad ELSE t), Pieces)
    /\ UNCHANGED legacy

(* Of a disk that is not in legacy mode: there, repair fills in the primary
   array, which the firmware reads from then on and never writes. *)
CgptRepair ==
    /\ GptSanityCheck(Loaded) /\ ~legacy
    /\ Save("repair", GptRepair(Loaded, Good(Loaded)), Pieces \ Good(Loaded))
    /\ UNCHANGED legacy

CgptCreate ==
    /\ Save("create", AllPieces(Empty), Pieces) /\ legacy' = FALSE

(* cgpt legacy: both signatures, and zeros in the first sector of the primary
   array, which then does not match the CRC of a table with a partition there
   (as in GptDisk, Bad stands for that array). *)
CgptLegacy ==
    /\ Loaded["h1"] # Bad /\ Loaded["e1"] # Clipped /\ ~interrupted
    /\ Save("legacy", [Loaded EXCEPT !["e1"] = Bad], {"h1", "h2", "e1"})
    /\ legacy' = TRUE

(* cgpt legacy -e: the signatures again.  GptSanityCheck() was not called, so
   that RepairEntries() trusts no header and copies nothing; UpdateCrc() then
   takes the primary array as it is. *)
CgptEfipart ==
    LET array == IF legacy /\ Loaded["e1"] = Bad THEN Clipped ELSE Loaded["e1"]
    IN
    /\ Loaded["h1"] # Bad /\ ~interrupted
    /\ Save("efipart", [Loaded EXCEPT !["e1"] = array, !["h1"] = array], {"h1", "h2", "e1"})
    /\ legacy' = FALSE

----------------------------------------------------------------------------
(* GptSave() and WriteNorFlash(). *)
SaveOrder_EntriesFirst(p) == IF p \in Headers THEN (IF p = "h1" THEN 3 ELSE 4)
                             ELSE (IF p = "e1" THEN 1 ELSE 2)
SaveOrder(p) == IF p \in Headers THEN (IF p = "h1" THEN 1 ELSE 2)
                ELSE (IF p = "e1" THEN 3 ELSE 4)

(* The pieces the next write covers: one, or half of the flash. *)
NextWrite ==
    IF nor THEN (IF "h1" \in saving THEN {"h1", "e1"} ELSE {"h2", "e2"})
    ELSE {CHOOSE p \in saving : \A q \in saving : SaveOrder(p) <= SaveOrder(q)}

SaveNext ==
    /\ saving # {}
    /\ media' = [p \in Pieces |-> IF p \in NextWrite THEN drive[p] ELSE media[p]]
    /\ saving' = saving \ NextWrite
    /\ UNCHANGED <<vars, nor, command, drive, failed>>

(* A write fails; the next one is tried. *)
SaveFails ==
    /\ saving # {} /\ Undisturbed /\ command \notin {"legacy", "efipart"}
    /\ \E torn \in SUBSET NextWrite :
         media' = [p \in Pieces |-> IF p \in torn THEN Bad ELSE media[p]]
    /\ saving' = saving \ NextWrite
    /\ failed' = TRUE /\ interrupted' = TRUE
    /\ UNCHANGED <<legacy, disk, gpt, modified, todo, pc, nor, command, drive>>

(* The command is over: d is on the disk, and the machine runs on with it. *)
Ends(d, damaged) ==
    /\ command' = "none" /\ saving' = {} /\ failed' = FALSE
    /\ disk' = d /\ gpt' = AllPieces(TableOn(d))
    /\ media' = d /\ drive' = gpt'
    /\ interrupted' = damaged
    /\ UNCHANGED <<legacy, modified, todo, pc, nor>>

(* After legacy -e the copies may differ, as after a failed write. *)
DriveClose ==
    /\ command \notin {"none", "lost"} /\ saving = {}
    /\ Ends(media, failed \/ (~legacy /\ media["h1"] # media["h2"]))

(* The process is killed.  If no header and array of what it has written match,
   the table is lost until the disk is partitioned anew; `disk' keeps what was
   there before the command. *)
Killed ==
    /\ command \notin {"none", "lost", "legacy", "efipart"} /\ Undisturbed
    /\ saving # {}
    /\ \/ TableOn(media) # Bad /\ Ends(media, TRUE)
       \/ TableOn(media) = Bad /\ command' = "lost" /\ saving' = {} /\ failed' = FALSE
          /\ UNCHANGED <<vars, nor, drive, media>>

CgptNext ==
    \/ Next /\ command = "none" /\ UNCHANGED <<nor, command, saving, failed>>
            /\ media' = disk' /\ drive' = gpt'
    \/ \E t \in Tables : CgptAdd(t) \/ CgptSetAttributes(t) \/ CgptPrioritize(t)
    \/ CgptRepair \/ CgptCreate \/ CgptLegacy \/ CgptEfipart
    \/ SaveNext \/ SaveFails \/ DriveClose \/ Killed

CgptSpec == CgptInit /\ [][CgptNext]_allVars

----------------------------------------------------------------------------
(* The table a command means to leave.  In legacy mode it is the one that was
   there: what cgpt writes to the primary array then is not looked at. *)
Meant == IF legacy THEN TableOn(disk) ELSE drive["e1"]

(* Whatever a command goes through, the table of before or the one it meant to
   leave is found: when its process is killed between two writes (GptSave()),
   and when half of the flash cannot be written ("It might still be okay" of
   WriteNorFlash()).  Only when it is killed with both headers written and
   neither array is no table left.  A command that runs to its end leaves the
   table it meant to, though one of its writes failed: GptSave() goes on to the
   pieces of the other copy, and the next boot finds that one (in NOR flash
   both halves must be written). *)
OldOrNewTable ==
    [][/\ command # "none" /\ command' = "none" => TableOn(disk') \in {TableOn(disk), Meant}
       /\ command # "none" /\ command' = "none" /\ saving = {} /\ ~(nor /\ failed)
              => TableOn(disk') = Meant
       /\ command' = "lost" => command = "lost" \/ (~nor /\ saving = Entries)]_allVars
=============================================================================
