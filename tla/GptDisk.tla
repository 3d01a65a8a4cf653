------------------------------- MODULE GptDisk -------------------------------
(***************************************************************************
 The GUID partition table on the disk, and how LoadKernel() reads, repairs
 and rewrites it: AllocAndReadGptData() and WriteAndFreeGptData() of
 gpt_misc.c, GptInit(), GptSanityCheck(), GptRepair() and GptModified() of
 cgptlib.  The disk has two copies, each a header sector and an array of
 entries.  A header is represented by the table its entries_crc32 stands for,
 an array by the table it holds; Bad is a header that CheckHeader() rejects
 and an array no header's CRC matches.

 The power may fail, and a disk operation may fail, at any step.  A write that
 does not complete leaves the old sectors, or sectors that are neither old nor
 new (Bad).  `Undisturbed' states what is assumed of them.
 ***************************************************************************)
EXTENDS Integers

CONSTANTS Tables,   \* possible contents of the entries
          Bad

ASSUME GptAssumption == Bad \notin Tables

Headers == {"h1", "h2"}
Entries == {"e1", "e2"}
Pieces  == Headers \cup Entries

VARIABLES legacy,       \* do the headers carry GPT_HEADER_SIGNATURE2?
          disk,         \* the four pieces on the disk
          gpt,          \* GptData: the four pieces in memory
          modified,     \* GptData.modified: the pieces to be written back
          todo,         \* the writes WriteAndFreeGptData() has still to do
          interrupted,  \* has anything failed since the last completed boot?
          pc

vars == <<legacy, disk, gpt, modified, todo, interrupted, pc>>

----------------------------------------------------------------------------
(* The library.  An operator takes and gives the four pieces in memory. *)

CheckEntries(entries, header) == entries # Bad /\ entries = header

MatchingEntries(g, header) == {e \in Entries : CheckEntries(g[e], header)}

ValidHeaders(g) == {h \in Headers : g[h] # Bad}

RetryHeader2_Never(g) == FALSE
RetryHeader2(g) ==
    /\ ValidHeaders(g) = Headers
    /\ MatchingEntries(g, g["h1"]) = {}

ValidEntries(g) ==
    IF ValidHeaders(g) = {} THEN {}
    ELSE MatchingEntries(g, IF "h1" \in ValidHeaders(g) /\ ~RetryHeader2(g) THEN g["h1"] ELSE g["h2"])

(* valid_headers after the check: header 1 loses to header 2 when only the
   latter describes the entries, else header 2 must agree with header 1. *)
GoodHeaders(g) ==
    IF RetryHeader2(g) THEN {"h2"}
    ELSE IF ValidHeaders(g) = Headers /\ g["h1"] # g["h2"] THEN {"h1"}
    ELSE ValidHeaders(g)

OtherCopy(p) == IF p \in Headers THEN (IF p = "h1" THEN "h2" ELSE "h1")
                ELSE (IF p = "e1" THEN "e2" ELSE "e1")

(* The piece a repair copies over piece p: p itself when it is good. *)
RepairedFrom(p, good) == IF p \in good THEN p ELSE OtherCopy(p)

GptRepair(g, good) == [p \in Pieces |-> g[RepairedFrom(p, good)]]

Good(g) == GoodHeaders(g) \cup ValidEntries(g)

GptSanityCheck(g) == ValidEntries(g) # {}

(* What AllocAndReadGptData() leaves in memory when reading piece `fail'
   fails.  Entries are read only if their own header is valid; a buffer that
   is not filled matches no CRC. *)
HeaderOf(e) == IF e = "e1" THEN "h1" ELSE "h2"

ReadHeader(d, h, fail) == IF h = fail THEN Bad ELSE d[h]

AllocAndReadGptData(d, fail) ==
    [p \in Pieces |->
        IF p \in Headers THEN ReadHeader(d, p, fail)
        ELSE IF p = fail \/ ReadHeader(d, HeaderOf(p), fail) = Bad THEN Bad
        ELSE d[p]]

(* The table a boot finds on disk d, Bad if it finds none. *)
TableOn(d) ==
    LET g == AllocAndReadGptData(d, "none")
    IN IF GptSanityCheck(g) THEN GptRepair(g, Good(g))["e1"] ELSE Bad

----------------------------------------------------------------------------
AllPieces(t) == [p \in Pieces |-> t]

(* cgpt legacy zeroes the primary entries and keeps the header's CRC. *)
FreshDisk(t) == [p \in Pieces |-> IF legacy /\ p = "e1" THEN Bad ELSE t]

Init ==
    /\ legacy \in BOOLEAN
    /\ \E t \in Tables : disk = FreshDisk(t)
    /\ gpt = AllPieces(Bad)
    /\ modified = {} /\ todo = {} /\ interrupted = FALSE /\ pc = "off"

(* Something may fail if nothing has failed since the last boot that wrote
   back all it had to.  In legacy mode there is one good copy only, and nothing
   is promised when writing it fails. *)
Undisturbed == ~legacy /\ ~interrupted

(* LoadKernel() reads the table: AllocAndReadGptData() and GptInit(). *)
GptInit(fail) ==
    LET g == AllocAndReadGptData(disk, fail)
    IN /\ pc = "off"
       /\ fail # "none" => Undisturbed
       /\ IF GptSanityCheck(g)
          THEN /\ gpt' = GptRepair(g, Good(g))
               /\ modified' = Pieces \ Good(g)
               /\ pc' = "scan"
          ELSE /\ gpt' = g /\ modified' = {} /\ pc' = "failed"
       /\ UNCHANGED <<legacy, disk, todo, interrupted>>

(* GptModified(): a kernel entry of the primary copy was changed. *)
GptModified(t) ==
    /\ pc = "scan"
    /\ gpt' = GptRepair([gpt EXCEPT !["e1"] = t, !["h1"] = t], {"h1", "e1"})
    /\ modified' = Pieces
    /\ UNCHANGED <<legacy, disk, todo, interrupted, pc>>

(* WriteAndFreeGptData() writes header 1, entries 1, header 2, entries 2. *)
WriteOrder_HeadersFirst(p) == IF p \in Headers THEN (IF p = "h1" THEN 1 ELSE 2)
                              ELSE (IF p = "e1" THEN 3 ELSE 4)
WriteOrder(p) == IF p \in Headers THEN (IF p = "h1" THEN 1 ELSE 3)
                 ELSE (IF p = "e1" THEN 2 ELSE 4)

FirstOf(p, S) == p \in S /\ \A q \in S : WriteOrder(p) <= WriteOrder(q)

(* The scan is over; WriteAndFreeGptData() starts. *)
StartWrite ==
    /\ pc = "scan" /\ pc' = "write"
    /\ todo' = IF legacy THEN modified \ {"h1", "e1"} ELSE modified
    /\ UNCHANGED <<legacy, disk, gpt, modified, interrupted>>

WritePiece(p) ==
    /\ pc = "write" /\ FirstOf(p, todo)
    /\ disk' = [disk EXCEPT ![p] = gpt[p]]
    /\ todo' = todo \ {p}
    /\ UNCHANGED <<legacy, gpt, modified, interrupted, pc>>

(* All written.  LoadKernel() goes on, and the machine with it. *)
WriteDone ==
    /\ pc = "write" /\ todo = {} /\ pc' = "running"
    /\ interrupted' = FALSE
    /\ UNCHANGED <<legacy, disk, gpt, modified, todo>>

(* VbExDiskWrite() fails, and WriteAndFreeGptData() gives up; LoadKernel()
   does not look at its result. *)
WriteFails(p) ==
    /\ pc = "write" /\ FirstOf(p, todo) /\ Undisturbed
    /\ disk' \in {disk, [disk EXCEPT ![p] = Bad]}
    /\ todo' = {} /\ interrupted' = TRUE /\ pc' = "running"
    /\ UNCHANGED <<legacy, gpt, modified>>

(* The power fails, between two writes or while piece p is written. *)
PowerFails ==
    /\ pc \in {"scan", "write"} /\ Undisturbed
    /\ \/ UNCHANGED disk
       \/ \E p \in todo : FirstOf(p, todo) /\ disk' = [disk EXCEPT ![p] = Bad]
    /\ todo' = {} /\ interrupted' = TRUE /\ pc' = "off"
    /\ UNCHANGED <<legacy, gpt, modified>>

(* The operating system rewrites the table with cgpt, undisturbed. *)
OsInstalls(t) ==
    /\ pc = "running"
    /\ disk' = FreshDisk(t) /\ gpt' = AllPieces(t)
    /\ interrupted' = FALSE
    /\ UNCHANGED <<legacy, modified, todo, pc>>

Reboot ==
    /\ pc = "running" /\ pc' = "off"
    /\ UNCHANGED <<legacy, disk, gpt, modified, todo, interrupted>>

Next ==
    \/ \E fail \in Pieces \cup {"none"} : GptInit(fail)
    \/ \E t \in Tables : GptModified(t) \/ OsInstalls(t)
    \/ \E p \in Pieces : WritePiece(p) \/ WriteFails(p)
    \/ StartWrite \/ WriteDone \/ PowerFails \/ Reboot

Spec == Init /\ [][Next]_vars

----------------------------------------------------------------------------
(* Every variable keeps its type; while a boot works on the table, the four
   pieces it holds in memory are the same good table (GptRepair()). *)
TypeOK ==
    /\ legacy \in BOOLEAN
    /\ disk \in [Pieces -> Tables \cup {Bad}]
    /\ gpt  \in [Pieces -> Tables \cup {Bad}]
    /\ pc \in {"scan", "write", "running"} => \E t \in Tables : gpt = AllPieces(t)
    /\ modified \in SUBSET Pieces
    /\ todo \in SUBSET Pieces
    /\ interrupted \in BOOLEAN
    /\ pc \in {"off", "scan", "write", "running", "failed"}

(* GptInit() always finds a table: no failure that leaves the sectors of one
   write undefined makes both copies unusable, provided a boot completes
   before the next failure (gpt_misc.c, the order of WriteAndFreeGptData();
   cgptlib_internal.c, the second look at header 2). *)
NeverLosesTable == pc # "failed"

(* Once the firmware has written back what it changed, that is what the next
   boot finds: no update is lost, in legacy mode too, where the primary copy is
   never written (WriteAndFreeGptData()). *)
UpdatesKept == pc = "running" /\ ~interrupted => TableOn(disk) = gpt["e1"]

(* Between them: whatever is cut short, the firmware finds a table, and after a
   complete boot it is the one that boot left. *)
TableKept == NeverLosesTable /\ UpdatesKept

(* The table the next boot will find.  A write that nothing can cut short
   any more counts as done. *)
NextTable == IF pc = "write" /\ ~Undisturbed THEN gpt["e1"] ELSE TableOn(disk)
Holding   == IF pc \in {"scan", "write", "running"} THEN gpt["e1"] ELSE Bad
Register  == INSTANCE GptRegister WITH table <- NextTable, wanted <- Holding, Off <- Bad

(* The two copies implement one table that is only ever replaced as a whole,
   by the one the firmware holds (GptSanityCheck() with GptRepair() and the
   order of the writes). *)
ReplacedAsAWhole == Register!RegisterSpec
=============================================================================
