---------------------------- MODULE GptDiskProofs ----------------------------
(***************************************************************************
 That the partition table survives, for every set of tables.  The inductive
 invariant of the firmware (IInv) says that one of the two copies is always
 intact, except while a boot that nothing can interrupt any more writes back
 its repairs.  While a command of cgpt is writing, CgptInv says that the disk
 of before was intact, what the command's own copy holds, and how much of it is
 on the media.
 ***************************************************************************)
EXTENDS CgptDisk, TLAPS

(* A copy is intact when its header describes its own entries. *)
Copy1(d)  == d["h1"] \in Tables /\ d["e1"] = d["h1"]
Copy2(d)  == d["h2"] \in Tables /\ d["e2"] = d["h2"]
Intact(d) == Copy1(d) \/ Copy2(d)

PieceMap == [Pieces -> Tables \cup {Bad}]

(* The table an intact disk holds: copy 1 wins. *)
IntactTable(d) == IF Copy1(d) THEN d["h1"] ELSE d["h2"]

----------------------------------------------------------------------------
(* An intact copy in memory passes GptSanityCheck(), and the repair spreads
   it over all four pieces. *)
LEMMA RepairIntact ==
    ASSUME NEW g \in PieceMap, Intact(g)
    PROVE  /\ GptSanityCheck(g)
           /\ GptRepair(g, Good(g)) = AllPieces(IntactTable(g))
           /\ IntactTable(g) \in Tables
           /\ \A p \in Good(g) : g[p] = IntactTable(g)
<1>1. IntactTable(g) \in Tables
  BY DEF Intact, IntactTable, Copy1, Copy2
<1>2. CASE Copy1(g)
  <2>1. MatchingEntries(g, g["h1"]) = {e \in Entries : g[e] = g["h1"]}
    BY <1>2, GptAssumption DEF MatchingEntries, CheckEntries, Copy1, PieceMap, Pieces, Entries
  <2>2. "e1" \in MatchingEntries(g, g["h1"]) /\ "h1" \in ValidHeaders(g)
    BY <1>2, <2>1, GptAssumption DEF Copy1, Entries, ValidHeaders, Headers
  <2>3. ~RetryHeader2(g)
    BY <2>2 DEF RetryHeader2
  <2>4. ValidEntries(g) = {e \in Entries : g[e] = g["h1"]}
    BY <2>1, <2>2, <2>3 DEF ValidEntries
  <2>5. \A h \in GoodHeaders(g) : g[h] = g["h1"]
    BY <2>2, <2>3 DEF GoodHeaders, ValidHeaders, Headers
  <2>6. "h1" \in GoodHeaders(g) /\ "e1" \in ValidEntries(g)
    BY <1>2, <2>2, <2>3, <2>4 DEF GoodHeaders, Copy1, Entries
  <2>7. \A p \in Good(g) : g[p] = g["h1"]
    BY <2>4, <2>5 DEF Good
  <2>8. \A p \in Pieces : g[RepairedFrom(p, Good(g))] = g["h1"]
    BY <2>6, <2>7 DEF RepairedFrom, OtherCopy, Good, Pieces, Headers, Entries
  <2> QED
    BY <1>1, <1>2, <2>6, <2>7, <2>8 DEF GptSanityCheck, GptRepair, AllPieces, IntactTable
<1>3. CASE ~Copy1(g) /\ Copy2(g)
  <2>1. "h2" \in ValidHeaders(g) /\ ValidHeaders(g) # {}
    BY <1>3, GptAssumption DEF Copy2, ValidHeaders, Headers
  <2>2. "e2" \in MatchingEntries(g, g["h2"])
    BY <1>3, GptAssumption DEF Copy2, MatchingEntries, CheckEntries, Entries
  <2>3. CASE "h1" \notin ValidHeaders(g)
    <3>1. ~RetryHeader2(g) /\ GoodHeaders(g) = {"h2"}
      BY <2>1, <2>3 DEF RetryHeader2, GoodHeaders, ValidHeaders, Headers
    <3>2. ValidEntries(g) = MatchingEntries(g, g["h2"])
      BY <2>1, <2>3 DEF ValidEntries
    <3>3. \A p \in Good(g) : g[p] = g["h2"]
      BY <3>1, <3>2 DEF Good, MatchingEntries, CheckEntries
    <3>4. \A p \in Pieces : g[RepairedFrom(p, Good(g))] = g["h2"]
      BY <2>2, <3>1, <3>2, <3>3 DEF RepairedFrom, OtherCopy, Good, Pieces, Headers, Entries
    <3> QED
      BY <1>1, <1>3, <2>2, <3>2, <3>3, <3>4 DEF GptSanityCheck, GptRepair, AllPieces, IntactTable
  <2>4. CASE "h1" \in ValidHeaders(g) /\ RetryHeader2(g)
    <3>1. GoodHeaders(g) = {"h2"}
      BY <2>4 DEF GoodHeaders
    <3>2. ValidEntries(g) = MatchingEntries(g, g["h2"])
      BY <2>1, <2>4 DEF ValidEntries
    <3>3. \A p \in Good(g) : g[p] = g["h2"]
      BY <3>1, <3>2 DEF Good, MatchingEntries, CheckEntries
    <3>4. \A p \in Pieces : g[RepairedFrom(p, Good(g))] = g["h2"]
      BY <2>2, <3>1, <3>2, <3>3 DEF RepairedFrom, OtherCopy, Good, Pieces, Headers, Entries
    <3> QED
      BY <1>1, <1>3, <2>2, <3>2, <3>3, <3>4 DEF GptSanityCheck, GptRepair, AllPieces, IntactTable
  <2>5. CASE "h1" \in ValidHeaders(g) /\ ~RetryHeader2(g)
    <3>1. ValidHeaders(g) = Headers
      BY <2>1, <2>5 DEF ValidHeaders, Headers
    <3>2. ValidEntries(g) = MatchingEntries(g, g["h1"]) /\ ValidEntries(g) # {}
      BY <2>1, <2>5, <3>1 DEF ValidEntries, RetryHeader2
    <3>3. g["h1"] \in Tables
      BY <2>5 DEF ValidHeaders, Headers, PieceMap, Pieces
    <3>4. ValidEntries(g) = {"e2"} /\ g["e2"] = g["h1"]
      BY <1>3, <3>2, <3>3 DEF MatchingEntries, CheckEntries, Entries, Copy1
    <3>5. g["h1"] = g["h2"]
      BY <1>3, <3>4 DEF Copy2
    <3>6. GoodHeaders(g) = Headers
      BY <2>5, <3>1, <3>5 DEF GoodHeaders
    <3>7. \A p \in Good(g) : g[p] = g["h2"]
      BY <3>4, <3>5, <3>6 DEF Good, Headers
    <3>8. \A p \in Pieces : g[RepairedFrom(p, Good(g))] = g["h2"]
      BY <3>4, <3>6, <3>7 DEF RepairedFrom, OtherCopy, Good, Pieces, Headers, Entries
    <3> QED
      BY <1>1, <1>3, <3>2, <3>7, <3>8 DEF GptSanityCheck, GptRepair, AllPieces, IntactTable
  <2> QED
    BY <2>3, <2>4, <2>5
<1> QED
  BY <1>2, <1>3 DEF Intact

----------------------------------------------------------------------------
(* What is still to be written is a tail of the order of the writes. *)
IsTail(S) == S \in {Pieces, {"e1", "h2", "e2"}, {"h2", "e2"}, {"e2"}, {}}

LegacyInv ==
    legacy => /\ ~interrupted
              /\ disk["e1"] = Bad /\ disk["h1"] \in Tables
              /\ todo \subseteq {"h2", "e2"}
              /\ pc # "write" => Copy2(disk)

CopiesInv ==
    /\ ~legacy /\ pc # "write" => Intact(disk)
    /\ ~legacy /\ pc # "write" /\ ~interrupted => \E t \in Tables : disk = AllPieces(t)
    /\ pc = "running" /\ ~interrupted => Copy2(disk) /\ disk["h2"] = gpt["e1"]

WriteInv ==
    /\ pc # "write" => todo = {}
    /\ pc = "scan" => \A p \in Pieces \ modified : disk[p] = gpt[p]
    /\ pc = "write" => \A p \in Pieces \ todo : disk[p] = gpt[p] \/ (legacy /\ p \in {"h1", "e1"})
    /\ pc = "write" /\ Undisturbed =>
          \E old \in Tables : /\ \A p \in todo : disk[p] = old
                              /\ old = gpt["e1"] \/ IsTail(todo)

IInv == TypeOK /\ NeverLosesTable /\ LegacyInv /\ CopiesInv /\ WriteInv

(* Reading an intact disk, or a clean one with one read failing, gives an
   intact copy in memory; what is good there is as on the disk. *)
LEMMA ReadIntact ==
    ASSUME NEW d \in PieceMap, NEW fail \in Pieces \cup {"none"},
           \/ Intact(d) /\ fail = "none"
           \/ \E t \in Tables : d = AllPieces(t)
    PROVE  LET g == AllocAndReadGptData(d, fail)
           IN /\ g \in PieceMap /\ Intact(g)
              /\ \A p \in Pieces : g[p] # Bad => g[p] = d[p]
              /\ fail = "none" => IntactTable(g) = IntactTable(d)
<1> DEFINE g == AllocAndReadGptData(d, fail)
<1>1. g \in PieceMap /\ \A p \in Pieces : g[p] # Bad => g[p] = d[p]
  BY DEF AllocAndReadGptData, ReadHeader, PieceMap
<1>2. /\ g["h1"] = IF fail = "h1" THEN Bad ELSE d["h1"]
      /\ g["h2"] = IF fail = "h2" THEN Bad ELSE d["h2"]
      /\ g["e1"] = IF fail = "e1" \/ g["h1"] = Bad THEN Bad ELSE d["e1"]
      /\ g["e2"] = IF fail = "e2" \/ g["h2"] = Bad THEN Bad ELSE d["e2"]
  BY DEF AllocAndReadGptData, ReadHeader, HeaderOf, Pieces, Headers, Entries
<1>3. CASE Intact(d) /\ fail = "none"
  <2>1. Copy1(d) => Copy1(g)
    BY <1>2, <1>3, GptAssumption DEF Copy1
  <2>2. Copy2(d) => Copy2(g)
    BY <1>2, <1>3, GptAssumption DEF Copy2
  <2>3. Copy1(g) => Copy1(d)
    BY <1>2, <1>3, GptAssumption DEF Copy1
  <2> QED
    BY <1>1, <1>2, <1>3, <2>1, <2>2, <2>3 DEF Intact, IntactTable
<1>4. CASE \E t \in Tables : d = AllPieces(t)
  <2>1. PICK t \in Tables : d = AllPieces(t)
    BY <1>4
  <2>2. \A p \in Pieces : d[p] = t
    BY <2>1 DEF AllPieces
  <2>3. Intact(g)
    BY <1>2, <2>2, GptAssumption DEF Intact, Copy1, Copy2, Pieces, Headers, Entries
  <2>4. fail = "none" => IntactTable(g) = IntactTable(d)
    BY <1>2, <2>2, GptAssumption DEF IntactTable, Copy1, Pieces, Headers, Entries
  <2> QED
    BY <1>1, <2>3, <2>4
<1> QED
  BY <1>3, <1>4

(* The table a boot finds on an intact disk. *)
LEMMA TableOnIntact ==
    ASSUME NEW d \in PieceMap, Intact(d)
    PROVE  TableOn(d) = IntactTable(d) /\ TableOn(d) \in Tables
<1> DEFINE g == AllocAndReadGptData(d, "none")
<1>1. g \in PieceMap /\ Intact(g) /\ IntactTable(g) = IntactTable(d)
  BY ReadIntact
<1>2. /\ GptSanityCheck(g) /\ IntactTable(g) \in Tables
      /\ GptRepair(g, Good(g)) = AllPieces(IntactTable(g))
  BY <1>1, RepairIntact
<1> QED
  BY <1>1, <1>2 DEF TableOn, AllPieces, Pieces, Entries

LEMMA InitInv == Init => IInv
<1> SUFFICES ASSUME Init PROVE IInv
  OBVIOUS
<1>1. PICK t \in Tables : disk = FreshDisk(t)
  BY DEF Init
<1>2. TypeOK
  BY Zenon, <1>1 DEF Init, TypeOK, FreshDisk, AllPieces
<1>3. LegacyInv
  BY <1>1 DEF Init, LegacyInv, FreshDisk, Copy2, Pieces, Headers, Entries
<1>4. ~legacy => disk = AllPieces(t)
  BY <1>1 DEF FreshDisk, AllPieces
<1>5. CopiesInv
  BY <1>4 DEF Init, CopiesInv, Intact, Copy1, AllPieces, Pieces, Headers, Entries
<1> QED
  BY <1>2, <1>3, <1>5 DEF Init, IInv, NeverLosesTable, WriteInv

(* GptInit() finds a table, and leaves it in all four pieces in memory. *)
LEMMA GptInitFinds ==
    ASSUME IInv, NEW fail \in Pieces \cup {"none"}, GptInit(fail)
    PROVE  /\ pc' = "scan"
           /\ gpt' = AllPieces(TableOn(disk)) /\ TableOn(disk) \in Tables
           /\ \A p \in Pieces \ modified' : disk[p] = gpt'[p]
           /\ modified' \in SUBSET Pieces
<1> DEFINE g == AllocAndReadGptData(disk, fail)
<1>1. pc = "off" /\ disk \in PieceMap
  BY DEF GptInit, IInv, TypeOK, PieceMap
<1>2. Intact(disk)
  BY <1>1 DEF IInv, LegacyInv, CopiesInv, Intact
<1>3. \/ fail = "none"
      \/ \E t \in Tables : disk = AllPieces(t)
  BY <1>1 DEF GptInit, Undisturbed, IInv, CopiesInv
<1>4. /\ g \in PieceMap /\ Intact(g)
      /\ \A p \in Pieces : g[p] # Bad => g[p] = disk[p]
      /\ fail = "none" => IntactTable(g) = IntactTable(disk)
  BY <1>1, <1>2, <1>3, ReadIntact
<1>5. /\ GptSanityCheck(g) /\ IntactTable(g) \in Tables
      /\ GptRepair(g, Good(g)) = AllPieces(IntactTable(g))
      /\ \A p \in Good(g) : g[p] = IntactTable(g)
  BY <1>4, RepairIntact
<1>6. Good(g) \subseteq Pieces
  BY DEF Good, GoodHeaders, ValidHeaders, ValidEntries, MatchingEntries, Pieces, Headers, Entries
<1>7. IntactTable(g) = IntactTable(disk)
  <2>1. CASE fail = "none"
    BY <1>4, <2>1
  <2>2. CASE \E t \in Tables : disk = AllPieces(t)
    <3>1. PICK t \in Tables : disk = AllPieces(t)
      BY <2>2
    <3>2. IntactTable(disk) = t
      BY <3>1 DEF IntactTable, AllPieces, Pieces, Headers, Entries
    <3>3. IntactTable(g) = t
      BY <1>4, <1>5, <3>1, GptAssumption DEF IntactTable, AllPieces, Pieces, Headers, Entries
    <3> QED
      BY <3>2, <3>3
  <2> QED
    BY <1>3, <2>1, <2>2
<1>8. TableOn(disk) = IntactTable(g) /\ TableOn(disk) \in Tables
  BY <1>1, <1>2, <1>7, TableOnIntact
<1>9. /\ pc' = "scan" /\ gpt' = AllPieces(IntactTable(g)) /\ modified' = Pieces \ Good(g)
  BY <1>5 DEF GptInit
<1>10. \A p \in Good(g) : disk[p] = IntactTable(g)
  BY <1>4, <1>5, <1>6, GptAssumption
<1> QED
  BY <1>6, <1>8, <1>9, <1>10 DEF AllPieces

(* Whatever write of WriteAndFreeGptData() is cut short, before it starts or
   while it leaves its piece undefined, one copy of the table is intact: the
   order h1, e1, h2, e2 never has both copies in the making. *)
LEMMA TornIntact ==
    ASSUME IInv, pc = "write", Undisturbed,
           NEW d, d = disk \/ \E p \in todo : FirstOf(p, todo) /\ d = [disk EXCEPT ![p] = Bad]
    PROVE  Intact(d)
<1> USE DEF Pieces, Headers, Entries
<1>1. /\ disk \in PieceMap /\ todo \in SUBSET Pieces
      /\ \A p \in Pieces \ todo : disk[p] = gpt[p]
  BY DEF IInv, TypeOK, WriteInv, Undisturbed, PieceMap
<1>2. PICK t \in Tables : gpt = AllPieces(t)
  BY DEF IInv, TypeOK
<1>3. PICK old \in Tables : /\ \A p \in todo : disk[p] = old
                            /\ old = gpt["e1"] \/ IsTail(todo)
  BY DEF IInv, WriteInv
<1>4. CASE old = gpt["e1"]
  <2>1. \A p \in Pieces : disk[p] = t
    BY <1>1, <1>2, <1>3, <1>4 DEF AllPieces
  <2> QED
    BY <1>1, <2>1 DEF Intact, Copy1, Copy2, PieceMap
<1>5. CASE IsTail(todo)
  <2>1. CASE todo = Pieces
    BY <1>1, <1>3, <2>1 DEF Intact, Copy1, Copy2, PieceMap, FirstOf, WriteOrder
  <2>2. CASE todo = {"e1", "h2", "e2"}
    BY <1>1, <1>3, <2>2 DEF Intact, Copy1, Copy2, PieceMap, FirstOf, WriteOrder
  <2>3. CASE todo \in {{"h2", "e2"}, {"e2"}, {}}
    <3>1. disk["h1"] = t /\ disk["e1"] = t
      BY <1>1, <1>2, <2>3 DEF AllPieces
    <3> QED
      BY <1>1, <2>3, <3>1 DEF Intact, Copy1, PieceMap
  <2> QED
    BY <1>5, <2>1, <2>2, <2>3 DEF IsTail
<1> QED
  BY <1>3, <1>4, <1>5

(* Every step of a boot, a failure included, keeps the invariant. *)
LEMMA NextInv == IInv /\ [Next]_vars => IInv'
<1> SUFFICES ASSUME IInv, [Next]_vars PROVE IInv'
  OBVIOUS
<1> USE DEF IInv
<1>1. ASSUME NEW fail \in Pieces \cup {"none"}, GptInit(fail) PROVE IInv'
  <2>1. /\ pc' = "scan"
        /\ gpt' = AllPieces(TableOn(disk)) /\ TableOn(disk) \in Tables
        /\ \A p \in Pieces \ modified' : disk[p] = gpt'[p]
        /\ modified' \in SUBSET Pieces
    BY <1>1, GptInitFinds
  <2>2. pc = "off" /\ UNCHANGED <<legacy, disk, todo, interrupted>>
    BY <1>1 DEF GptInit
  <2>3. TypeOK'
    BY <2>1, <2>2 DEF TypeOK, AllPieces
  <2>4. LegacyInv'
    BY <2>1, <2>2 DEF LegacyInv, Copy2
  <2>5. CopiesInv'
    BY <2>1, <2>2 DEF CopiesInv, Intact, Copy1, Copy2, AllPieces
  <2>6. WriteInv'
    BY <2>1, <2>2 DEF WriteInv
  <2> QED
    BY <2>1, <2>3, <2>4, <2>5, <2>6 DEF NeverLosesTable
<1>2. ASSUME NEW t \in Tables, GptModified(t) PROVE IInv'
  <2>1. gpt' = AllPieces(t)
    <3>1. gpt \in [Pieces -> Tables \cup {Bad}]
      BY DEF TypeOK
    <3>2. \A p \in Pieces : [gpt EXCEPT !["e1"] = t, !["h1"] = t][RepairedFrom(p, {"h1", "e1"})] = t
      BY <3>1 DEF RepairedFrom, OtherCopy, Pieces, Headers, Entries
    <3> QED
      BY Zenon, <1>2, <3>2 DEF GptModified, GptRepair, AllPieces
  <2>2. /\ pc = "scan" /\ pc' = "scan" /\ modified' = Pieces
        /\ UNCHANGED <<legacy, disk, todo, interrupted>>
    BY <1>2 DEF GptModified
  <2>3. TypeOK'
    BY <2>1, <2>2 DEF TypeOK, AllPieces
  <2>4. LegacyInv'
    BY <2>2 DEF LegacyInv, Copy2
  <2>5. CopiesInv'
    BY <2>2 DEF CopiesInv, Intact, Copy1, Copy2, AllPieces
  <2>6. WriteInv'
    BY <2>2 DEF WriteInv
  <2> QED
    BY <2>2, <2>3, <2>4, <2>5, <2>6 DEF NeverLosesTable
<1>3. ASSUME NEW t \in Tables, OsInstalls(t) PROVE IInv'
  <2>1. /\ pc = "running" /\ pc' = "running" /\ interrupted' = FALSE
        /\ disk' = FreshDisk(t) /\ gpt' = AllPieces(t)
        /\ UNCHANGED <<legacy, modified, todo>>
    BY <1>3 DEF OsInstalls
  <2>2. TypeOK'
    BY Zenon, <2>1 DEF TypeOK, AllPieces, FreshDisk
  <2>3. LegacyInv'
    BY <2>1 DEF LegacyInv, Copy2, FreshDisk, Pieces, Headers, Entries
  <2>4. ~legacy => disk' = AllPieces(t)
    BY <2>1 DEF FreshDisk, AllPieces
  <2>5. Copy2(disk') /\ disk'["h2"] = gpt'["e1"]
    BY <2>1 DEF Copy2, FreshDisk, AllPieces, Pieces, Headers, Entries
  <2>6. CopiesInv'
    BY <2>1, <2>4, <2>5 DEF CopiesInv, Intact, Copy2, AllPieces
  <2>7. WriteInv'
    BY <2>1 DEF WriteInv
  <2> QED
    BY <2>1, <2>2, <2>3, <2>6, <2>7 DEF NeverLosesTable
<1>4. ASSUME StartWrite PROVE IInv'
  <2>1. /\ pc = "scan" /\ pc' = "write"
        /\ todo' = IF legacy THEN modified \ {"h1", "e1"} ELSE modified
        /\ UNCHANGED <<legacy, disk, gpt, modified, interrupted>>
    BY <1>4 DEF StartWrite
  <2>2. modified \subseteq Pieces
    BY DEF TypeOK
  <2>3. TypeOK'
    BY <2>1 DEF TypeOK, AllPieces
  <2>4. LegacyInv'
    BY <2>1, <2>2 DEF LegacyInv, Copy2, Pieces, Headers, Entries
  <2>5. CopiesInv'
    BY <2>1 DEF CopiesInv
  <2>6. \A p \in Pieces \ todo' : disk[p] = gpt[p] \/ (legacy /\ p \in {"h1", "e1"})
    BY <2>1 DEF WriteInv
  <2>7. ASSUME Undisturbed
        PROVE \E old \in Tables : /\ \A p \in todo' : disk[p] = old
                                  /\ old = gpt["e1"] \/ IsTail(todo')
    <3>1. PICK old \in Tables : disk = AllPieces(old)
      BY <2>1, <2>7 DEF CopiesInv, Undisturbed
    <3>2. PICK t \in Tables : gpt = AllPieces(t)
      BY <2>1 DEF TypeOK
    <3>3. todo' = modified
      BY <2>1, <2>7 DEF Undisturbed
    <3>4. old = gpt["e1"] \/ IsTail(todo')
      <4>1. CASE modified = Pieces
        BY <3>3, <4>1 DEF IsTail
      <4>2. CASE modified # Pieces
        <5>1. PICK p \in Pieces : p \notin modified
          BY <2>2, <4>2
        <5>2. disk[p] = gpt[p]
          BY <2>1, <5>1 DEF WriteInv
        <5> QED
          BY <3>1, <3>2, <5>2 DEF AllPieces, Pieces, Headers, Entries
      <4> QED
        BY <4>1, <4>2
    <3>5. \A p \in todo' : disk[p] = old
      BY <2>2, <3>1, <3>3 DEF AllPieces
    <3> QED
      BY <3>4, <3>5
  <2>8. Undisturbed' = Undisturbed
    BY <2>1 DEF Undisturbed
  <2>9. WriteInv'
    BY <2>1, <2>6, <2>7, <2>8 DEF WriteInv, IsTail
  <2> QED
    BY <2>1, <2>3, <2>4, <2>5, <2>9 DEF NeverLosesTable
<1>5. ASSUME NEW p \in Pieces, WritePiece(p) PROVE IInv'
  <2>1. /\ pc = "write" /\ pc' = "write" /\ FirstOf(p, todo)
        /\ disk' = [disk EXCEPT ![p] = gpt[p]] /\ todo' = todo \ {p}
        /\ UNCHANGED <<legacy, gpt, modified, interrupted>>
    BY <1>5 DEF WritePiece
  <2>2. disk \in PieceMap /\ gpt \in PieceMap /\ todo \in SUBSET Pieces
    BY DEF TypeOK, PieceMap
  <2>3. TypeOK'
    BY <2>1 DEF TypeOK, AllPieces
  <2>4. LegacyInv'
    BY <2>1, <2>2 DEF LegacyInv, FirstOf, PieceMap, Pieces, Headers, Entries
  <2>5. CopiesInv'
    BY <2>1 DEF CopiesInv
  <2>6. \A q \in Pieces \ todo' : disk'[q] = gpt[q] \/ (legacy /\ q \in {"h1", "e1"})
    BY <2>1, <2>2 DEF WriteInv, PieceMap
  <2>7. ASSUME Undisturbed
        PROVE \E old \in Tables : /\ \A q \in todo' : disk'[q] = old
                                  /\ old = gpt["e1"] \/ IsTail(todo')
    <3>1. PICK old \in Tables : /\ \A q \in todo : disk[q] = old
                                /\ old = gpt["e1"] \/ IsTail(todo)
      BY <2>1, <2>7 DEF WriteInv
    <3>2. \A q \in todo' : disk'[q] = old
      BY <2>1, <2>2, <3>1 DEF PieceMap
    <3>3. IsTail(todo) => IsTail(todo')
      BY <2>1 DEF IsTail, FirstOf, WriteOrder, Pieces, Headers, Entries
    <3> QED
      BY <3>1, <3>2, <3>3
  <2>8. Undisturbed' = Undisturbed
    BY <2>1 DEF Undisturbed
  <2>9. WriteInv'
    BY <2>1, <2>6, <2>7, <2>8 DEF WriteInv, IsTail
  <2> QED
    BY <2>1, <2>3, <2>4, <2>5, <2>9 DEF NeverLosesTable
<1>6. ASSUME NEW p \in Pieces, WriteFails(p) PROVE IInv'
  <2>1. /\ pc = "write" /\ pc' = "running" /\ FirstOf(p, todo) /\ Undisturbed
        /\ disk' = disk \/ disk' = [disk EXCEPT ![p] = Bad]
        /\ todo' = {} /\ interrupted' = TRUE
        /\ UNCHANGED <<legacy, gpt, modified>>
    BY <1>6 DEF WriteFails
  <2>2. Intact(disk')
    BY <2>1, TornIntact DEF FirstOf
  <2>3. TypeOK'
    BY <2>1 DEF TypeOK, AllPieces
  <2>4. LegacyInv' /\ CopiesInv' /\ WriteInv'
    BY <2>1, <2>2 DEF LegacyInv, CopiesInv, WriteInv, Intact, Copy1, Copy2, Undisturbed
  <2> QED
    BY <2>1, <2>3, <2>4 DEF NeverLosesTable
<1>7. CASE WriteDone
  <2>1. /\ pc = "write" /\ pc' = "running" /\ todo = {} /\ interrupted' = FALSE
        /\ UNCHANGED <<legacy, disk, gpt, modified, todo>>
    BY <1>7 DEF WriteDone
  <2>2. PICK t \in Tables : gpt = AllPieces(t)
    BY <2>1 DEF TypeOK
  <2>3. disk \in PieceMap
    BY DEF TypeOK, PieceMap
  <2>4. \A p \in Pieces : disk[p] = t \/ (legacy /\ p \in {"h1", "e1"})
    BY <2>1, <2>2 DEF WriteInv, AllPieces
  <2>5. Copy2(disk) /\ disk["h2"] = gpt["e1"]
    BY <2>2, <2>4 DEF Copy2, AllPieces, Pieces, Headers, Entries
  <2>6. ~legacy => disk = AllPieces(t)
    BY <2>3, <2>4 DEF AllPieces, PieceMap
  <2>7. TypeOK'
    BY Zenon, <2>1 DEF TypeOK, AllPieces
  <2>8. LegacyInv' /\ CopiesInv' /\ WriteInv'
    BY <2>1, <2>5, <2>6 DEF LegacyInv, CopiesInv, WriteInv, Intact, Copy1, Copy2, AllPieces
  <2> QED
    BY <2>1, <2>7, <2>8 DEF NeverLosesTable
<1>8. CASE PowerFails
  <2>1. /\ pc \in {"scan", "write"} /\ pc' = "off" /\ Undisturbed
        /\ \/ disk' = disk
           \/ \E p \in todo : FirstOf(p, todo) /\ disk' = [disk EXCEPT ![p] = Bad]
        /\ todo' = {} /\ interrupted' = TRUE
        /\ UNCHANGED <<legacy, gpt, modified>>
    BY <1>8 DEF PowerFails
  <2>2. Intact(disk')
    <3>1. CASE pc = "write"
      BY <2>1, <3>1, TornIntact
    <3>2. CASE pc = "scan"
      BY <2>1, <3>2 DEF WriteInv, CopiesInv, Undisturbed, FirstOf
    <3> QED
      BY <2>1, <3>1, <3>2
  <2>3. TypeOK'
    BY <2>1 DEF TypeOK, AllPieces
  <2>4. LegacyInv' /\ CopiesInv' /\ WriteInv'
    BY <2>1, <2>2 DEF LegacyInv, CopiesInv, WriteInv, Intact, Copy1, Copy2, Undisturbed
  <2> QED
    BY <2>1, <2>3, <2>4 DEF NeverLosesTable
<1>9. CASE Reboot
  BY <1>9 DEF Reboot, TypeOK, NeverLosesTable, LegacyInv, CopiesInv, WriteInv,
              Intact, Copy1, Copy2, AllPieces
<1>10. CASE UNCHANGED vars
  BY <1>10 DEF vars, TypeOK, NeverLosesTable, LegacyInv, CopiesInv, WriteInv,
               Undisturbed, Intact, Copy1, Copy2, IsTail, AllPieces
<1> QED
  BY <1>1, <1>2, <1>3, <1>4, <1>5, <1>6, <1>7, <1>8, <1>9, <1>10 DEF Next

LEMMA AlwaysInv == Spec => []IInv
  BY InitInv, NextInv, PTL DEF Spec

(* The table the firmware has written back is the one the next boot finds. *)
LEMMA UpdatesSurvive == IInv => UpdatesKept
<1>1. ASSUME IInv, pc = "running", ~interrupted PROVE TableOn(disk) = gpt["e1"]
  <2>1. disk \in PieceMap /\ Copy2(disk) /\ disk["h2"] = gpt["e1"]
    BY <1>1 DEF IInv, TypeOK, CopiesInv, PieceMap
  <2>2. Intact(disk)
    BY <2>1 DEF Intact
  <2>3. IntactTable(disk) = disk["h2"]
    <3>1. CASE legacy
      BY <1>1, <2>1, <3>1, GptAssumption DEF IInv, LegacyInv, IntactTable, Copy1
    <3>2. CASE ~legacy
      <4>1. PICK t \in Tables : disk = AllPieces(t)
        BY <1>1, <3>2 DEF IInv, CopiesInv
      <4> QED
        BY <4>1 DEF IntactTable, AllPieces, Pieces, Headers, Entries
    <3> QED
      BY <3>1, <3>2
  <2> QED
    BY <2>1, <2>2, <2>3, TableOnIntact
<1> QED
  BY <1>1 DEF UpdatesKept

(* The firmware by itself: whatever LoadKernel()'s repair and write-back go
   through, the table is found, and after a complete boot it is the one that
   boot left. *)
THEOREM FirmwareKeepsTable == Spec => []TableKept
<1>1. IInv => TableKept
  BY UpdatesSurvive DEF IInv, TableKept
<1> QED
  BY <1>1, AlwaysInv, PTL

----------------------------------------------------------------------------
(* One write, torn, failed or done, leaves the table a boot would find as it
   was, or makes it the one in memory: nothing else. *)
LEMMA OldOrNew ==
    ASSUME IInv, pc = "write", Undisturbed, NEW d,
           \/ d = disk
           \/ \E p \in todo : FirstOf(p, todo) /\ d \in {[disk EXCEPT ![p] = Bad],
                                                         [disk EXCEPT ![p] = gpt[p]]}
    PROVE  TableOn(d) \in {TableOn(disk), gpt["e1"]}
<1> USE DEF Pieces, Headers, Entries
<1>1. /\ disk \in PieceMap /\ todo \in SUBSET Pieces
      /\ \A p \in Pieces \ todo : disk[p] = gpt[p]
  BY DEF IInv, TypeOK, WriteInv, Undisturbed, PieceMap
<1>2. PICK t \in Tables : gpt = AllPieces(t)
  BY DEF IInv, TypeOK
<1>3. PICK old \in Tables : /\ \A p \in todo : disk[p] = old
                            /\ old = gpt["e1"] \/ IsTail(todo)
  BY DEF IInv, WriteInv
<1>4. gpt["h1"] = t /\ gpt["e1"] = t /\ gpt["h2"] = t /\ gpt["e2"] = t
  BY <1>2 DEF AllPieces
<1>5. d \in PieceMap
  BY <1>1, <1>4 DEF PieceMap
<1>6. Intact(disk) /\ Intact(d) /\ IntactTable(d) \in {IntactTable(disk), t}
  <2>1. CASE old = t
    <3>1. \A p \in Pieces : disk[p] = t
      BY <1>1, <1>3, <1>4, <2>1
    <3> QED
      BY <1>1, <1>4, <3>1, GptAssumption DEF Intact, IntactTable, Copy1, Copy2, PieceMap
  <2>2. CASE todo = Pieces
    BY <1>1, <1>3, <1>4, <2>2, GptAssumption
    DEF Intact, IntactTable, Copy1, Copy2, PieceMap, FirstOf, WriteOrder
  <2>3. CASE todo = {"e1", "h2", "e2"}
    BY <1>1, <1>3, <1>4, <2>3, GptAssumption
    DEF Intact, IntactTable, Copy1, Copy2, PieceMap, FirstOf, WriteOrder
  <2>4. CASE todo \in {{"h2", "e2"}, {"e2"}, {}}
    <3>1. disk["h1"] = t /\ disk["e1"] = t /\ d["h1"] = t /\ d["e1"] = t
      BY <1>1, <1>4, <2>4 DEF PieceMap
    <3> QED
      BY <3>1 DEF Intact, IntactTable, Copy1
  <2> QED
    BY <1>3, <1>4, <2>1, <2>2, <2>3, <2>4 DEF IsTail
<1> QED
  BY <1>1, <1>4, <1>5, <1>6, TableOnIntact

(* There is always a table for the next boot. *)
LEMMA FindsTable ==
    ASSUME IInv
    PROVE  NextTable \in Tables
<1>1. CASE pc = "write" /\ ~Undisturbed
  BY <1>1, GptAssumption DEF NextTable, IInv, TypeOK, AllPieces, Pieces, Headers, Entries
<1>2. CASE ~(pc = "write" /\ ~Undisturbed)
  <2>1. disk \in PieceMap
    BY DEF IInv, TypeOK, PieceMap
  <2>2. Intact(disk)
    <3>1. CASE pc = "write"
      BY <1>2, <3>1, TornIntact
    <3>2. CASE pc # "write"
      BY <3>2 DEF IInv, LegacyInv, CopiesInv, Intact
    <3> QED
      BY <3>1, <3>2
  <2> QED
    BY <1>2, <2>1, <2>2, TableOnIntact DEF NextTable
<1> QED
  BY <1>1, <1>2

(* What is on the disk when all the pieces are written is what the firmware
   holds. *)
LEMMA DoneIsFound ==
    ASSUME IInv, pc = "write", todo = {}
    PROVE  TableOn(disk) = gpt["e1"]
<1> USE DEF Pieces, Headers, Entries
<1>1. disk \in PieceMap
  BY DEF IInv, TypeOK, PieceMap
<1>2. PICK t \in Tables : gpt = AllPieces(t)
  BY DEF IInv, TypeOK
<1>3. \A p \in Pieces : disk[p] = t \/ (legacy /\ p \in {"h1", "e1"})
  BY <1>2 DEF IInv, WriteInv, AllPieces
<1>4. Copy2(disk) /\ disk["h2"] = gpt["e1"] /\ Intact(disk)
  BY <1>2, <1>3 DEF Copy2, Intact, AllPieces
<1>5. IntactTable(disk) = disk["h2"]
  <2>1. CASE legacy
    BY <2>1, GptAssumption DEF IInv, LegacyInv, IntactTable, Copy1
  <2>2. CASE ~legacy
    BY <1>3, <2>2 DEF IntactTable
  <2> QED
    BY <2>1, <2>2
<1> QED
  BY <1>1, <1>4, <1>5, TableOnIntact

(* Every step of the two copies is a step of the register, or leaves it. *)
LEMMA StepRefines ==
    IInv /\ [Next]_vars => [Register!RegisterNext]_(Register!registerVars)
<1> SUFFICES ASSUME IInv, [Next]_vars
             PROVE  Register!RegisterNext \/ UNCHANGED <<NextTable, Holding>>
  BY DEF Register!registerVars
<1> USE DEF Register!RegisterNext
<1>0. pc \in {"scan", "write", "running"} => gpt["e1"] \in Tables /\ gpt["e1"] # Bad
  BY GptAssumption DEF IInv, TypeOK, AllPieces, Pieces, Headers, Entries
<1>1. ASSUME NEW fail \in Pieces \cup {"none"}, GptInit(fail) PROVE Register!Boot
  <2>1. /\ pc' = "scan" /\ gpt'["e1"] = TableOn(disk)
    BY <1>1, GptInitFinds DEF AllPieces, Pieces, Headers, Entries
  <2>2. pc = "off" /\ disk' = disk
    BY <1>1 DEF GptInit
  <2> QED
    BY <2>1, <2>2 DEF Register!Boot, NextTable, Holding
<1>2. ASSUME NEW t \in Tables, GptModified(t) PROVE Register!Choose
  <2>1. pc = "scan" /\ pc' = "scan" /\ disk' = disk
    BY <1>2 DEF GptModified
  <2>2. IInv'
    BY NextInv
  <2>3. gpt'["e1"] \in Tables
    BY <2>1, <2>2 DEF IInv, TypeOK, AllPieces, Pieces, Headers, Entries
  <2> QED
    BY <1>0, <2>1, <2>3 DEF Register!Choose, NextTable, Holding
<1>3. ASSUME NEW t \in Tables, OsInstalls(t) PROVE Register!Install
  <2>1. pc = "running" /\ pc' = "running" /\ disk' = FreshDisk(t) /\ gpt'["e1"] = t
    BY <1>3 DEF OsInstalls, AllPieces, Pieces, Headers, Entries
  <2>2. FreshDisk(t) \in PieceMap /\ Copy2(FreshDisk(t)) /\ IntactTable(FreshDisk(t)) = t
    BY GptAssumption
    DEF FreshDisk, PieceMap, Copy1, Copy2, IntactTable, Pieces, Headers, Entries
  <2>3. TableOn(FreshDisk(t)) = t
    BY <2>2, TableOnIntact DEF Intact
  <2> QED
    BY <1>0, <2>1, <2>3 DEF Register!Install, NextTable, Holding
<1>4. CASE StartWrite
  <2>1. /\ pc = "scan" /\ pc' = "write" /\ disk' = disk /\ gpt' = gpt
        /\ Undisturbed' = Undisturbed
    BY <1>4 DEF StartWrite, Undisturbed
  <2>2. CASE Undisturbed
    BY <2>1, <2>2 DEF NextTable, Holding
  <2>3. CASE ~Undisturbed
    BY <1>0, <2>1, <2>3 DEF Register!Replace, NextTable, Holding
  <2> QED
    BY <2>2, <2>3
<1>5. ASSUME NEW p \in Pieces, WritePiece(p)
      PROVE  Register!Replace \/ UNCHANGED <<NextTable, Holding>>
  <2>1. /\ pc = "write" /\ pc' = "write" /\ gpt' = gpt /\ Undisturbed' = Undisturbed
        /\ p \in todo /\ FirstOf(p, todo) /\ disk' = [disk EXCEPT ![p] = gpt[p]]
    BY <1>5 DEF WritePiece, Undisturbed, FirstOf
  <2>2. CASE Undisturbed
    <3>1. TableOn(disk') \in {TableOn(disk), gpt["e1"]}
      BY Zenon, <2>1, <2>2, OldOrNew
    <3> QED
      BY <1>0, <2>1, <2>2, <3>1 DEF Register!Replace, NextTable, Holding
  <2>3. CASE ~Undisturbed
    BY <2>1, <2>3 DEF NextTable, Holding
  <2> QED
    BY <2>2, <2>3
<1>6. ASSUME NEW p \in Pieces, WriteFails(p)
      PROVE  Register!Replace \/ UNCHANGED <<NextTable, Holding>>
  <2>1. /\ pc = "write" /\ pc' = "running" /\ gpt' = gpt /\ Undisturbed
        /\ p \in todo /\ FirstOf(p, todo)
        /\ disk' = disk \/ disk' = [disk EXCEPT ![p] = Bad]
    BY <1>6 DEF WriteFails, FirstOf
  <2>2. TableOn(disk') \in {TableOn(disk), gpt["e1"]}
    BY <2>1, OldOrNew
  <2> QED
    BY <1>0, <2>1, <2>2 DEF Register!Replace, NextTable, Holding
<1>7. CASE WriteDone
  <2>1. pc = "write" /\ pc' = "running" /\ todo = {} /\ disk' = disk /\ gpt' = gpt
    BY <1>7 DEF WriteDone
  <2>2. TableOn(disk) = gpt["e1"]
    BY <2>1, DoneIsFound
  <2> QED
    BY <2>1, <2>2 DEF NextTable, Holding
<1>8. CASE PowerFails
  <2>1. /\ pc \in {"scan", "write"} /\ pc' = "off" /\ Undisturbed
        /\ \/ disk' = disk
           \/ \E p \in todo : FirstOf(p, todo) /\ disk' = [disk EXCEPT ![p] = Bad]
    BY <1>8 DEF PowerFails
  <2>2. pc = "scan" => todo = {}
    BY DEF IInv, WriteInv
  <2>3. TableOn(disk') \in {TableOn(disk), gpt["e1"]}
    <3>1. CASE pc = "write"
      BY <2>1, <3>1, OldOrNew
    <3>2. CASE pc = "scan"
      BY <2>1, <2>2, <3>2
    <3> QED
      BY <2>1, <3>1, <3>2
  <2> QED
    BY <1>0, <2>1, <2>3 DEF Register!Stop, NextTable, Holding
<1>9. CASE Reboot
  BY <1>0, <1>9 DEF Reboot, Register!Stop, NextTable, Holding
<1>10. CASE UNCHANGED vars
  <2>1. disk' = disk /\ gpt' = gpt /\ pc' = pc /\ Undisturbed' = Undisturbed
    BY <1>10 DEF vars, Undisturbed
  <2> QED
    BY <2>1 DEF NextTable, Holding
<1> QED
  BY <1>1, <1>2, <1>3, <1>4, <1>5, <1>6, <1>7, <1>8, <1>9, <1>10 DEF Next

----------------------------------------------------------------------------
(* The commands of cgpt.  While one is writing, `disk' is still the table of
   before; the invariant says what the command's own copy holds (AimInv) and
   which pieces of it are on the media (SavedInv). *)
Half1 == {"h1", "e1"}
Half2 == {"h2", "e2"}

(* What is still to be saved is a tail of the order of GptSave(). *)
IsSaveTail(S) == S \in {Pieces, {"h2", "e1", "e2"}, Entries, {"e2"}, {}}

OpenedInv ==
    /\ pc = "running" /\ todo = {} /\ TypeOK /\ Intact(disk)
    /\ ~interrupted => /\ Copy2(disk) /\ disk["e1"] \in {Bad, disk["h2"]}
                       /\ disk["h2"] = gpt["e1"]

AimInv ==
    IF legacy THEN /\ drive["e1"] = Bad /\ drive["h1"] \in Tables
                   /\ Copy2(drive) /\ drive["h2"] = TableOn(disk)
    ELSE IF command = "efipart" THEN Copy1(drive) /\ Copy2(drive)
    ELSE \E t \in Tables : drive = AllPieces(t)

SavedInv ==
    /\ ~failed => \A p \in Pieces : media[p] = IF p \in saving THEN disk[p] ELSE drive[p]
    /\ failed /\ ~nor =>
          \E torn \in Pieces : \A p \in Pieces \ saving : p # torn => media[p] = drive[p]
    /\ failed /\ nor =>
          \E half \in {Half1, Half2} :
             /\ half \cap saving = {}
             /\ \A p \in half : media[p] \in {disk[p], Bad}
             /\ \A p \in Pieces \ saving : p \notin half => media[p] = drive[p]

SaveInv ==
    /\ media \in PieceMap /\ drive \in PieceMap
    /\ failed => ~legacy /\ interrupted /\ command # "efipart"
    /\ saving \in SUBSET Pieces
    /\ nor => saving \in {Pieces, Half2, {}}
    /\ ~nor /\ Undisturbed /\ command # "efipart" => IsSaveTail(saving)
    /\ AimInv /\ SavedInv

CgptInv ==
    /\ nor \in BOOLEAN /\ failed \in BOOLEAN
    /\ command = "none" => IInv
    /\ command # "none" => OpenedInv
    /\ command = "lost" => ~legacy
    /\ IF command \in {"none", "lost"} THEN saving = {} ELSE SaveInv

(* DriveOpen() reads an intact disk as it is. *)
LEMMA DriveOpens ==
    ASSUME disk \in PieceMap, Intact(disk)
    PROVE  /\ Loaded \in PieceMap /\ Intact(Loaded)
           /\ \A p \in Pieces : Loaded[p] # Bad => Loaded[p] = disk[p]
           /\ IntactTable(Loaded) = IntactTable(disk)
           /\ Loaded["h1"] = disk["h1"] /\ Loaded["h2"] = disk["h2"]
           /\ Loaded["e1"] = (IF disk["h1"] = Bad THEN Bad ELSE disk["e1"])
           /\ Loaded["e2"] = (IF disk["h2"] = Bad THEN Bad ELSE disk["e2"])
<1>1. /\ Loaded["h1"] = disk["h1"] /\ Loaded["h2"] = disk["h2"]
      /\ Loaded["e1"] = (IF disk["h1"] = Bad THEN Bad ELSE disk["e1"])
      /\ Loaded["e2"] = (IF disk["h2"] = Bad THEN Bad ELSE disk["e2"])
  BY DEF Loaded, AllocAndReadGptData, ReadHeader, HeaderOf, Pieces, Headers, Entries
<1> QED
  BY <1>1, ReadIntact DEF Loaded

(* Where a command may start. *)
LEMMA MayStart ==
    ASSUME CgptInv, pc = "running", command \in {"none", "lost"}
    PROVE  /\ OpenedInv /\ disk \in PieceMap /\ Intact(disk)
           /\ command = "none" /\ ~legacy /\ ~interrupted => \E t \in Tables : disk = AllPieces(t)
           /\ command = "none" /\ legacy => /\ disk["e1"] = Bad /\ disk["h1"] \in Tables
                                            /\ Copy2(disk) /\ TableOn(disk) = disk["h2"]
<1>1. CASE command = "none"
  <2>1. TypeOK /\ LegacyInv /\ CopiesInv /\ WriteInv
    BY <1>1 DEF CgptInv, IInv
  <2>2. disk \in PieceMap /\ todo = {}
    BY <2>1 DEF TypeOK, PieceMap, WriteInv
  <2>3. Intact(disk)
    BY <2>1 DEF LegacyInv, CopiesInv, Intact
  <2>4. ~legacy /\ ~interrupted => \E t \in Tables : disk = AllPieces(t)
    BY <2>1 DEF CopiesInv
  <2>5. ASSUME legacy
        PROVE  /\ disk["e1"] = Bad /\ disk["h1"] \in Tables
               /\ Copy2(disk) /\ TableOn(disk) = disk["h2"]
    <3>1. disk["e1"] = Bad /\ disk["h1"] \in Tables /\ Copy2(disk)
      BY <2>1, <2>5 DEF LegacyInv
    <3> QED
      BY <2>2, <2>3, <3>1, TableOnIntact, GptAssumption DEF IntactTable, Copy1
  <2>6. ~interrupted => /\ Copy2(disk) /\ disk["h2"] = gpt["e1"]
                        /\ disk["e1"] \in {Bad, disk["h2"]}
    <3>1. ~interrupted => Copy2(disk) /\ disk["h2"] = gpt["e1"]
      BY <2>1 DEF CopiesInv
    <3>2. ~interrupted => disk["e1"] \in {Bad, disk["h2"]}
      BY <2>4, <2>5 DEF AllPieces, Pieces, Headers, Entries
    <3> QED
      BY <3>1, <3>2
  <2> QED
    BY <1>1, <2>1, <2>2, <2>3, <2>4, <2>5, <2>6 DEF OpenedInv
<1>2. CASE command = "lost"
  BY <1>2 DEF CgptInv, OpenedInv, TypeOK, PieceMap
<1> QED
  BY <1>1, <1>2

(* A command that has its copy ready starts to save it. *)
LEMMA SaveStarts ==
    ASSUME CgptInv, NEW cmd, cmd \notin {"none", "lost"}, NEW g \in PieceMap,
           NEW S \in SUBSET Pieces, Save(cmd, g, S), legacy' \in BOOLEAN, AimInv',
           ~nor /\ Undisturbed' /\ cmd # "efipart" => IsSaveTail(S)
    PROVE  CgptInv'
<1> DEFINE image == [p \in Pieces |-> IF p \in S THEN g[p] ELSE disk[p]]
<1>1. /\ pc = "running" /\ command \in {"none", "lost"}
      /\ command' = cmd /\ drive' = image /\ media' = disk /\ failed' = FALSE
      /\ saving' = IF ~nor THEN S ELSE IF image = disk THEN {} ELSE Pieces
      /\ UNCHANGED <<nor, disk, gpt, modified, todo, interrupted, pc>>
  BY DEF Save
<1>2. OpenedInv /\ disk \in PieceMap /\ Intact(disk)
  BY SMTT(30), SMTT(60), <1>1, MayStart
<1>3. TypeOK'
  BY <1>1, <1>2 DEF OpenedInv, TypeOK, AllPieces
<1>4. OpenedInv'
  BY <1>1, <1>2, <1>3 DEF OpenedInv, Intact, Copy1, Copy2
<1>5. drive' \in PieceMap /\ media' \in PieceMap
  BY <1>1, <1>2 DEF PieceMap
<1>6. SavedInv'
  <2>1. ASSUME NEW p \in Pieces PROVE disk[p] = IF p \in saving' THEN disk[p] ELSE drive'[p]
    <3>1. CASE p \in S
      BY <1>1, <2>1, <3>1
    <3>2. CASE p \notin S
      BY <1>1, <2>1, <3>2
    <3> QED
      BY <3>1, <3>2
  <2> QED
    BY SMTT(30), SMTT(60), <1>1, <2>1 DEF SavedInv
<1>7. SaveInv'
  BY <1>1, <1>5, <1>6 DEF SaveInv
<1> QED
  BY Zenon, <1>1, <1>4, <1>7 DEF CgptInv

(* cgpt add and CgptSetAttributes() of a whole table leave one table in all
   four pieces of their copy. *)
LEMMA WholeIsChanged ==
    ASSUME CgptInv, pc = "running", command = "none", Whole, NEW t \in Tables
    PROVE  ~legacy /\ Changed(t) = AllPieces(t)
<1>1. /\ Loaded \in PieceMap /\ Intact(Loaded)
      /\ legacy => disk["e1"] = Bad
      /\ \A p \in Pieces : Loaded[p] # Bad => Loaded[p] = disk[p]
  BY SMTT(30), SMTT(60), MayStart, DriveOpens
<1>2. \A p \in Pieces : Loaded[p] = IntactTable(Loaded) /\ IntactTable(Loaded) \in Tables
  BY SMTT(30), SMTT(60), <1>1, RepairIntact DEF Whole
<1>3. ~legacy
  BY <1>1, <1>2, GptAssumption DEF Pieces, Entries
<1> QED
  BY <1>1, <1>3 DEF Changed, UpdateAllEntries, PieceMap, Pieces, Headers, Entries

LEMMA AddInv ==
    ASSUME CgptInv, NEW t \in Tables, CgptAdd(t) \/ CgptSetAttributes(t)
    PROVE  CgptInv'
<1>1. PICK cmd \in {"add", "set"} : Whole /\ Save(cmd, Changed(t), Pieces) /\ legacy' = legacy
  BY DEF CgptAdd, CgptSetAttributes
<1>2. pc = "running" /\ command = "none"
  BY <1>1 DEF Save
<1>3. ~legacy /\ Changed(t) = AllPieces(t)
  BY <1>1, <1>2, WholeIsChanged
<1>4. drive' = AllPieces(t) /\ command' = cmd /\ ~legacy'
  BY <1>1, <1>3 DEF Save, AllPieces
<1>5. AimInv'
  BY <1>4 DEF AimInv
<1>6. Changed(t) \in PieceMap
  BY <1>3 DEF AllPieces, PieceMap
<1>7. IsSaveTail(Pieces) /\ legacy' \in BOOLEAN
  BY <1>1, <1>2, MayStart DEF IsSaveTail, OpenedInv, TypeOK
<1> QED
  BY <1>1, <1>5, <1>6, <1>7, SaveStarts

(* cgpt prioritize: in legacy mode it leaves the disk as it is. *)
LEMMA PrioritizeInv ==
    ASSUME CgptInv, NEW t \in Tables, CgptPrioritize(t)
    PROVE  CgptInv'
<1> USE DEF Pieces, Headers, Entries
<1> DEFINE u == IF Loaded["e1"] = Bad THEN Bad ELSE t
<1>1. /\ Save("prioritize", Changed(u), Pieces) /\ legacy' = legacy /\ ~interrupted
      /\ pc = "running" /\ command = "none" /\ disk' = disk /\ command' = "prioritize"
      /\ Loaded["h1"] # Bad
  BY DEF CgptPrioritize, Save
<1>2. /\ Loaded \in PieceMap /\ disk \in PieceMap
      /\ Loaded["h1"] = disk["h1"] /\ Loaded["h2"] = disk["h2"]
      /\ Loaded["e1"] = (IF disk["h1"] = Bad THEN Bad ELSE disk["e1"])
      /\ Loaded["e2"] = (IF disk["h2"] = Bad THEN Bad ELSE disk["e2"])
  BY <1>1, MayStart, DriveOpens
<1>3. u \in Tables \cup {Bad}
  OBVIOUS
<1>4. Changed(u) \in PieceMap
  BY <1>2, <1>3 DEF Changed, UpdateAllEntries, AllPieces, PieceMap
<1>5. drive' = Changed(u)
  BY <1>1, <1>4 DEF Save, PieceMap
<1>6. AimInv'
  <2>1. CASE legacy
    <3>1. /\ disk["e1"] = Bad /\ disk["h1"] \in Tables
          /\ Copy2(disk) /\ TableOn(disk) = disk["h2"]
      BY <1>1, <2>1, MayStart
    <3>2. /\ drive'["e1"] = Bad /\ drive'["h1"] = disk["h1"]
          /\ drive'["h2"] = disk["e2"] /\ drive'["e2"] = disk["e2"]
      BY SMTT(30), SMTT(60), <1>2, <1>5, <2>1, <3>1, GptAssumption
      DEF Changed, UpdateAllEntries, Copy2, PieceMap
    <3> QED
      BY SMTT(30), SMTT(60), <1>1, <2>1, <3>1, <3>2 DEF AimInv, Copy2
  <2>2. CASE ~legacy
    <3>1. PICK old \in Tables : disk = AllPieces(old)
      BY <1>1, <2>2, MayStart
    <3>2. u = t
      BY <1>2, <3>1, GptAssumption DEF AllPieces
    <3>3. drive' = AllPieces(t)
      BY <1>2, <1>5, <2>2, <3>2 DEF Changed, UpdateAllEntries, AllPieces, PieceMap
    <3> QED
      BY SMTT(30), SMTT(60), <1>1, <2>2, <3>3 DEF AimInv
  <2> QED
    BY SMTT(30), SMTT(60), <2>1, <2>2
<1>7. legacy' \in BOOLEAN
  BY <1>1, MayStart DEF OpenedInv, TypeOK
<1> QED
  BY <1>1, <1>4, <1>6, <1>7, SaveStarts DEF IsSaveTail

(* cgpt repair spreads the good copy. *)
LEMMA RepairInv ==
    ASSUME CgptInv, CgptRepair
    PROVE  CgptInv'
<1> DEFINE S == Pieces \ Good(Loaded)
           t == IntactTable(Loaded)
<1>1. /\ Save("repair", GptRepair(Loaded, Good(Loaded)), S) /\ legacy' = legacy /\ ~legacy
      /\ pc = "running" /\ command = "none" /\ command' = "repair"
      /\ interrupted' = interrupted
  BY DEF CgptRepair, Save
<1>2. /\ Loaded \in PieceMap /\ Intact(Loaded)
      /\ \A p \in Pieces : Loaded[p] # Bad => Loaded[p] = disk[p]
  BY <1>1, MayStart, DriveOpens
<1>3. /\ GptRepair(Loaded, Good(Loaded)) = AllPieces(t) /\ t \in Tables
      /\ \A p \in Good(Loaded) : Loaded[p] = t
  BY <1>2, RepairIntact
<1>4. drive' = AllPieces(t)
  <2>1. \A p \in Pieces \ S : disk[p] = t
    BY SMTT(30), SMTT(60), <1>2, <1>3, GptAssumption
  <2>2. drive' = [p \in Pieces |-> IF p \in S THEN AllPieces(t)[p] ELSE disk[p]]
    BY SMTT(30), SMTT(60), <1>1, <1>3 DEF Save
  <2> QED
    BY <2>1, <2>2 DEF AllPieces
<1>5. AimInv'
  BY <1>1, <1>3, <1>4 DEF AimInv
<1>6. ASSUME Undisturbed' PROVE IsSaveTail(S)
  <2>1. PICK old \in Tables : disk = AllPieces(old)
    BY <1>1, <1>6, MayStart DEF Undisturbed
  <2>2. \A p \in Pieces : Loaded[p] = old
    BY <1>1, <2>1, MayStart, DriveOpens, GptAssumption DEF AllPieces, Pieces, Headers, Entries
  <2>3. Good(Loaded) = Pieces
    BY <2>1, <2>2, GptAssumption
    DEF Good, GoodHeaders, ValidHeaders, ValidEntries, RetryHeader2, MatchingEntries,
        CheckEntries, Pieces, Headers, Entries
  <2> QED
    BY <2>3 DEF IsSaveTail
<1>7. GptRepair(Loaded, Good(Loaded)) \in PieceMap
  BY <1>3 DEF AllPieces, PieceMap
<1>8. legacy' \in BOOLEAN
  BY <1>1, MayStart DEF OpenedInv, TypeOK
<1> QED
  BY SMTT(30), SMTT(60), <1>1, <1>5, <1>6, <1>7, <1>8, SaveStarts

LEMMA CreateInv ==
    ASSUME CgptInv, CgptCreate
    PROVE  CgptInv'
<1>1. Save("create", AllPieces(Empty), Pieces) /\ legacy' = FALSE /\ command' = "create"
  BY DEF CgptCreate, Save
<1>2. drive' = AllPieces(Empty) /\ AllPieces(Empty) \in PieceMap
  BY <1>1, CgptAssumption DEF Save, AllPieces, PieceMap
<1>3. AimInv'
  BY <1>1, <1>2, CgptAssumption DEF AimInv
<1> QED
  BY Zenon, <1>1, <1>2, <1>3, SaveStarts DEF IsSaveTail

(* cgpt legacy takes the primary array away and leaves the secondary copy. *)
LEMMA LegacyCommandInv ==
    ASSUME CgptInv, CgptLegacy
    PROVE  CgptInv'
<1> USE DEF Pieces, Headers, Entries
<1> DEFINE g == [Loaded EXCEPT !["e1"] = Bad]
           S == {"h1", "h2", "e1"}
<1>1. /\ Save("legacy", g, S) /\ legacy' = TRUE /\ ~interrupted
      /\ pc = "running" /\ command = "none" /\ command' = "legacy" /\ disk' = disk
  BY DEF CgptLegacy, Save
<1>2. /\ Loaded \in PieceMap /\ disk \in PieceMap /\ Intact(disk)
      /\ Loaded["h1"] = disk["h1"] /\ Loaded["h2"] = disk["h2"]
  BY <1>1, MayStart, DriveOpens
<1>3. g \in PieceMap
  BY <1>2 DEF PieceMap
<1>4. /\ drive'["h1"] = disk["h1"] /\ drive'["h2"] = disk["h2"]
      /\ drive'["e1"] = Bad /\ drive'["e2"] = disk["e2"]
  BY <1>1, <1>2 DEF Save, PieceMap
<1>5. Copy2(disk) /\ disk["h1"] \in Tables /\ TableOn(disk) = disk["h2"]
  <2>1. CASE legacy
    BY <1>1, <2>1, MayStart
  <2>2. CASE ~legacy
    <3>1. PICK t \in Tables : disk = AllPieces(t)
      BY <1>1, <2>2, MayStart
    <3>2. Copy2(disk) /\ disk["h1"] \in Tables /\ IntactTable(disk) = disk["h2"]
      BY SMTT(30), SMTT(60), <3>1 DEF AllPieces, Copy2, IntactTable
    <3> QED
      BY <1>2, <3>2, TableOnIntact
  <2> QED
    BY <2>1, <2>2
<1>6. AimInv'
  BY <1>1, <1>4, <1>5 DEF AimInv, Copy2
<1> QED
  BY <1>1, <1>3, <1>6, SaveStarts DEF Undisturbed

(* cgpt legacy -e leaves two copies, which may differ. *)
LEMMA EfipartInv ==
    ASSUME CgptInv, CgptEfipart
    PROVE  CgptInv'
<1> USE DEF Pieces, Headers, Entries
<1> DEFINE array == IF legacy /\ Loaded["e1"] = Bad THEN Clipped ELSE Loaded["e1"]
           g == [Loaded EXCEPT !["e1"] = array, !["h1"] = array]
           S == {"h1", "h2", "e1"}
<1>1. /\ Save("efipart", g, S) /\ legacy' = FALSE /\ ~interrupted
      /\ pc = "running" /\ command = "none" /\ command' = "efipart"
  BY SMTT(30), SMTT(60) DEF CgptEfipart, Save
<1>2. /\ Loaded \in PieceMap /\ disk \in PieceMap
      /\ Loaded["h2"] = disk["h2"]
      /\ Loaded["e1"] = (IF disk["h1"] = Bad THEN Bad ELSE disk["e1"])
  BY <1>1, MayStart, DriveOpens
<1>3. array \in Tables
  <2>1. CASE legacy
    BY <1>1, <1>2, <2>1, MayStart, CgptAssumption
  <2>2. CASE ~legacy
    <3>1. PICK t \in Tables : disk = AllPieces(t)
      BY <1>1, <2>2, MayStart
    <3> QED
      BY <1>2, <2>2, <3>1, GptAssumption DEF AllPieces
  <2> QED
    BY <2>1, <2>2
<1>4. g \in PieceMap
  BY SMTT(30), SMTT(60), <1>2, <1>3 DEF PieceMap
<1>5. Copy2(disk)
  BY SMTT(30), SMTT(60), <1>1, MayStart DEF OpenedInv
<1>6. /\ drive'["h1"] = array /\ drive'["e1"] = array
      /\ drive'["h2"] = disk["h2"] /\ drive'["e2"] = disk["e2"]
  BY SMTT(30), SMTT(60), <1>1, <1>2 DEF Save, PieceMap
<1>7. AimInv'
  BY <1>1, <1>3, <1>5, <1>6 DEF AimInv, Copy1, Copy2
<1> QED
  BY Zenon, <1>1, <1>4, <1>7, SaveStarts

(* GptSave() writes the pieces in its order, WriteNorFlash() the halves. *)
LEMMA NextPiece ==
    ASSUME saving \in SUBSET Pieces, saving # {}, ~nor
    PROVE  \E p \in saving : NextWrite = {p} /\ \A q \in saving : SaveOrder(p) <= SaveOrder(q)
<1>1. \E p \in saving : \A q \in saving : SaveOrder(p) <= SaveOrder(q)
  <2>1. PICK p \in Pieces : p \in saving /\ \/ p = "h1"
                                            \/ p = "h2" /\ "h1" \notin saving
                                            \/ p = "e1" /\ "h1" \notin saving /\ "h2" \notin saving
                                            \/ p = "e2" /\ saving = {"e2"}
    BY Zenon DEF Pieces, Headers, Entries
  <2> QED
    BY <2>1 DEF SaveOrder, Pieces, Headers, Entries
<1> QED
  BY Zenon, <1>1 DEF NextWrite

LEMMA NextHalf ==
    ASSUME saving \in {Pieces, Half2, {}}, saving # {}, nor
    PROVE  /\ NextWrite \in {Half1, Half2} /\ NextWrite \subseteq saving
           /\ saving \ NextWrite \in {Half2, {}}
  BY Zenon DEF NextWrite, Half1, Half2, Pieces, Headers, Entries

LEMMA NextWriteInside ==
    ASSUME SaveInv, saving # {}, nor \in BOOLEAN
    PROVE  /\ NextWrite \subseteq saving /\ NextWrite \subseteq Pieces
           /\ nor => NextWrite \in {Half1, Half2} /\ saving \ NextWrite \in {Half2, {}}
           /\ ~nor => \E p \in Pieces : NextWrite = {p}
           /\ ~nor /\ IsSaveTail(saving) => IsSaveTail(saving \ NextWrite)
<1>1. CASE nor
  BY <1>1, NextHalf DEF SaveInv
<1>2. CASE ~nor
  <2>1. saving \in SUBSET Pieces
    BY DEF SaveInv
  <2>2. PICK p \in saving : NextWrite = {p} /\ \A q \in saving : SaveOrder(p) <= SaveOrder(q)
    BY <1>2, <2>1, NextPiece
  <2>3. IsSaveTail(saving) => IsSaveTail(saving \ {p})
    BY <2>1, <2>2 DEF IsSaveTail, SaveOrder, Pieces, Headers, Entries
  <2> QED
    BY <1>2, <2>1, <2>2, <2>3
<1> QED
  BY <1>1, <1>2

LEMMA SaveNextInv ==
    ASSUME CgptInv, SaveNext
    PROVE  CgptInv'
<1>1. /\ saving # {} /\ saving' = saving \ NextWrite
      /\ media' = [p \in Pieces |-> IF p \in NextWrite THEN drive[p] ELSE media[p]]
      /\ UNCHANGED <<legacy, disk, gpt, modified, todo, interrupted, pc>>
      /\ UNCHANGED <<nor, command, drive, failed>>
  BY DEF SaveNext, vars
<1>2. command \notin {"none", "lost"} /\ OpenedInv /\ SaveInv /\ nor \in BOOLEAN
  BY <1>1 DEF CgptInv
<1>3. /\ NextWrite \subseteq saving /\ NextWrite \subseteq Pieces
      /\ nor => NextWrite \in {Half1, Half2} /\ saving \ NextWrite \in {Half2, {}}
      /\ ~nor /\ IsSaveTail(saving) => IsSaveTail(saving \ NextWrite)
  BY SMTT(30), SMTT(60), <1>1, <1>2, NextWriteInside
<1>4. OpenedInv'
  BY <1>1, <1>2 DEF OpenedInv, TypeOK, Intact, Copy1, Copy2, AllPieces
<1>5. AimInv'
  BY <1>1, <1>2 DEF SaveInv, AimInv, Copy1, Copy2
<1>6. media' \in PieceMap /\ saving \in SUBSET Pieces
  BY SMTT(30), SMTT(60), <1>1, <1>2 DEF SaveInv, PieceMap
<1>7. SavedInv'
  <2>1. ~failed => \A p \in Pieces : media'[p] = IF p \in saving' THEN disk[p] ELSE drive[p]
    BY SMTT(30), SMTT(60), <1>1, <1>2 DEF SaveInv, SavedInv
  <2>2. ASSUME failed, ~nor
        PROVE  \E torn \in Pieces : \A p \in Pieces \ saving' : p # torn => media'[p] = drive[p]
    BY <1>1, <1>2, <2>2 DEF SaveInv, SavedInv
  <2>3. ASSUME failed, nor
        PROVE  \E half \in {Half1, Half2} :
                  /\ half \cap saving' = {}
                  /\ \A p \in half : media'[p] \in {disk[p], Bad}
                  /\ \A p \in Pieces \ saving' : p \notin half => media'[p] = drive[p]
    <3>1. PICK half \in {Half1, Half2} :
             /\ half \cap saving = {}
             /\ \A p \in half : media[p] \in {disk[p], Bad}
             /\ \A p \in Pieces \ saving : p \notin half => media[p] = drive[p]
      BY <1>2, <2>3 DEF SaveInv, SavedInv
    <3>2. half \subseteq Pieces
      BY SMTT(30), SMTT(60) DEF Half1, Half2, Pieces, Headers, Entries
    <3>3. \A p \in half : media'[p] = media[p]
      BY <1>1, <1>3, <3>1, <3>2
    <3>4. half \cap saving' = {}
      BY <1>1, <3>1
    <3>5. \A p \in Pieces \ saving' : p \notin half => media'[p] = drive[p]
      BY SMTT(30), SMTT(60), <1>1, <3>1
    <3> QED
      BY SMTT(30), SMTT(60), <3>1, <3>3, <3>4, <3>5
  <2> QED
    BY SMTT(30), SMTT(60), <1>1, <2>1, <2>2, <2>3 DEF SavedInv
<1>8. SaveInv'
  BY <1>1, <1>2, <1>3, <1>5, <1>6, <1>7 DEF SaveInv, Undisturbed, IsSaveTail
<1> QED
  BY <1>1, <1>2, <1>4, <1>8 DEF CgptInv

(* A write that fails spoils one piece, or one half of the flash. *)
LEMMA SaveFailsInv ==
    ASSUME CgptInv, SaveFails
    PROVE  CgptInv'
<1>1. /\ saving # {} /\ Undisturbed /\ command # "efipart" /\ saving' = saving \ NextWrite
      /\ failed' = TRUE /\ interrupted' = TRUE
      /\ UNCHANGED <<legacy, disk, gpt, modified, todo, pc, nor, command, drive>>
  BY DEF SaveFails
<1>2. PICK torn \in SUBSET NextWrite :
         media' = [p \in Pieces |-> IF p \in torn THEN Bad ELSE media[p]]
  BY DEF SaveFails
<1>3. command \notin {"none", "lost"} /\ OpenedInv /\ SaveInv /\ nor \in BOOLEAN
  BY <1>1 DEF CgptInv
<1>4. /\ NextWrite \subseteq saving /\ NextWrite \subseteq Pieces
      /\ nor => NextWrite \in {Half1, Half2} /\ saving \ NextWrite \in {Half2, {}}
      /\ ~nor => \E p \in Pieces : NextWrite = {p}
  BY SMTT(30), SMTT(60), <1>1, <1>3, NextWriteInside
<1>5. \A p \in Pieces : media[p] = IF p \in saving THEN disk[p] ELSE drive[p]
  BY SMTT(30), SMTT(60), <1>1, <1>3 DEF CgptInv, SaveInv, SavedInv, Undisturbed
<1>6. TypeOK'
  BY SMTT(30), SMTT(60), <1>1, <1>3 DEF OpenedInv, TypeOK, AllPieces
<1>7. OpenedInv'
  BY SMTT(30), SMTT(60), <1>1, <1>3, <1>6 DEF OpenedInv, Intact, Copy1, Copy2
<1>8. AimInv'
  BY <1>1, <1>3 DEF SaveInv, AimInv, Copy1, Copy2
<1>9. media' \in PieceMap /\ saving \in SUBSET Pieces
  BY SMTT(30), SMTT(60), <1>2, <1>3 DEF SaveInv, PieceMap
<1>10. SavedInv'
  <2>1. ASSUME ~nor
        PROVE  \E one \in Pieces : \A p \in Pieces \ saving' : p # one => media'[p] = drive[p]
    BY SMTT(30), SMTT(60), <1>1, <1>2, <1>4, <1>5, <2>1
  <2>2. ASSUME nor
        PROVE  /\ NextWrite \in {Half1, Half2} /\ NextWrite \cap saving' = {}
               /\ \A p \in NextWrite : media'[p] \in {disk[p], Bad}
               /\ \A p \in Pieces \ saving' : p \notin NextWrite => media'[p] = drive[p]
    BY SMTT(30), SMTT(60), <1>1, <1>2, <1>4, <1>5, <2>2
  <2> QED
    BY Zenon, <1>1, <2>1, <2>2 DEF SavedInv
<1>11. SaveInv'
  BY SMTT(30), SMTT(60), <1>1, <1>3, <1>4, <1>8, <1>9, <1>10 DEF SaveInv, Undisturbed
<1> QED
  BY <1>1, <1>3, <1>7, <1>11 DEF CgptInv

(* A command that has run to its end leaves an intact copy, and the table it
   meant to leave unless half of the flash could not be written. *)
LEMMA Closes ==
    ASSUME CgptInv, command \notin {"none", "lost"}, saving = {}
    PROVE  /\ media \in PieceMap /\ Intact(media)
           /\ IntactTable(media) \in {TableOn(disk), Meant}
           /\ ~(nor /\ failed) => IntactTable(media) = Meant
           /\ legacy => /\ ~failed /\ media["e1"] = Bad /\ media["h1"] \in Tables
                        /\ Copy2(media)
           /\ ~legacy /\ ~failed /\ media["h1"] = media["h2"] =>
                 \E t \in Tables : media = AllPieces(t)
<1> USE DEF Pieces, Headers, Entries
<1>1. /\ media \in PieceMap /\ drive \in PieceMap /\ AimInv /\ SavedInv
      /\ failed => ~legacy /\ command # "efipart"
      /\ disk \in PieceMap /\ Intact(disk)
  BY SMTT(30), SMTT(60) DEF CgptInv, SaveInv, OpenedInv, TypeOK, PieceMap
<1>2. CASE ~failed
  <2>1. /\ media["h1"] = drive["h1"] /\ media["h2"] = drive["h2"]
        /\ media["e1"] = drive["e1"] /\ media["e2"] = drive["e2"]
    BY <1>1, <1>2 DEF SavedInv
  <2>2. CASE legacy
    <3>1. /\ drive["e1"] = Bad /\ drive["h1"] \in Tables
          /\ Copy2(drive) /\ drive["h2"] = TableOn(disk)
      BY <1>1, <2>2 DEF AimInv
    <3>2. Copy2(media) /\ ~Copy1(media)
      BY <2>1, <3>1, GptAssumption DEF Copy1, Copy2
    <3> QED
      BY <1>1, <1>2, <2>1, <2>2, <3>1, <3>2 DEF Intact, IntactTable, Meant
  <2>3. CASE ~legacy
    <3>1. Copy1(drive) /\ Copy2(drive)
      BY <1>1, <2>3 DEF AimInv, AllPieces, Copy1, Copy2
    <3>2. Copy1(media) /\ Copy2(media) /\ IntactTable(media) = drive["e1"]
      BY <2>1, <3>1 DEF Copy1, Copy2, IntactTable
    <3>3. media["h1"] = media["h2"] => media = AllPieces(media["h1"])
      BY SMTT(30), SMTT(60), <1>1, <3>2 DEF Copy1, Copy2, AllPieces, PieceMap
    <3> QED
      BY <1>1, <1>2, <2>3, <3>2, <3>3 DEF Intact, Copy1, Meant
  <2> QED
    BY <2>2, <2>3
<1>3. CASE failed
  <2>1. PICK t \in Tables : drive = AllPieces(t)
    BY <1>1, <1>3 DEF AimInv
  <2>2. \A p \in Pieces : drive[p] = t
    BY <2>1 DEF AllPieces
  <2>3. Meant = t
    BY <1>1, <1>3, <2>2 DEF Meant
  <2>4. CASE ~nor
    <3>1. PICK torn \in Pieces : \A p \in Pieces : p # torn => media[p] = t
      BY <1>1, <1>3, <2>2, <2>4 DEF SavedInv
    <3>2. Intact(media) /\ IntactTable(media) = t
      BY SMTT(30), SMTT(60), <3>1 DEF Intact, IntactTable, Copy1, Copy2
    <3> QED
      BY <1>1, <1>3, <2>3, <3>2
  <2>5. CASE nor
    <3>1. PICK half \in {Half1, Half2} :
             /\ \A p \in half : media[p] \in {disk[p], Bad}
             /\ \A p \in Pieces : p \notin half => media[p] = t
      BY <1>1, <1>3, <2>2, <2>5 DEF SavedInv
    <3>2. CASE half = Half2
      <4>1. Copy1(media) /\ media["h1"] = t
        BY <3>1, <3>2 DEF Copy1, Half2
      <4> QED
        BY <1>1, <1>3, <2>3, <2>5, <4>1 DEF Intact, IntactTable
    <3>3. CASE half = Half1
      <4>1. Copy2(media) /\ media["h2"] = t
        BY <3>1, <3>3 DEF Copy2, Half1
      <4>2. Copy1(media) => Copy1(disk) /\ disk["h1"] = media["h1"]
        BY <3>1, <3>3, GptAssumption DEF Copy1, Half1
      <4>3. IntactTable(media) \in {IntactTable(disk), t}
        BY <4>1, <4>2 DEF IntactTable
      <4>4. IntactTable(disk) = TableOn(disk)
        BY SMTT(30), SMTT(60), <1>1, TableOnIntact
      <4> QED
        BY <1>1, <1>3, <2>3, <2>5, <4>1, <4>3, <4>4 DEF Intact
    <3> QED
      BY <3>2, <3>3
  <2> QED
    BY <2>4, <2>5
<1> QED
  BY SMTT(30), SMTT(60), <1>2, <1>3

(* A command whose process is killed leaves the old table or the new one, or it
   has written both headers and neither array. *)
LEMMA CutShort ==
    ASSUME CgptInv, command \notin {"none", "lost", "efipart"}, Undisturbed, saving # {}
    PROVE  /\ media \in PieceMap
           /\ \/ Intact(media) /\ IntactTable(media) \in {TableOn(disk), Meant}
              \/ TableOn(media) = Bad /\ ~nor /\ saving = Entries
<1> USE DEF Pieces, Headers, Entries
<1>1. /\ media \in PieceMap /\ drive \in PieceMap /\ AimInv /\ SavedInv
      /\ ~failed /\ ~legacy /\ ~interrupted
      /\ nor => saving \in {Pieces, Half2, {}}
      /\ ~nor => IsSaveTail(saving)
  BY SMTT(30), SMTT(60) DEF CgptInv, SaveInv, Undisturbed
<1>2. /\ disk \in PieceMap /\ Intact(disk) /\ Copy2(disk) /\ disk["e1"] \in {Bad, disk["h2"]}
  BY <1>1 DEF CgptInv, OpenedInv, TypeOK, PieceMap
<1>3. TableOn(disk) = disk["h2"]
  BY <1>2, TableOnIntact, GptAssumption DEF IntactTable, Copy1
<1>4. PICK t \in Tables : drive = AllPieces(t)
  BY <1>1 DEF AimInv
<1>5. \A p \in Pieces : media[p] = IF p \in saving THEN disk[p] ELSE t
  BY <1>1, <1>4 DEF SavedInv, AllPieces
<1>6. Meant = t
  BY SMTT(30), SMTT(60), <1>1, <1>4 DEF Meant, AllPieces
<1>7. CASE saving = Pieces
  BY <1>1, <1>2, <1>3, <1>5, <1>7, GptAssumption DEF Intact, IntactTable, Copy1, Copy2
<1>8. CASE saving \in {Half2, {"e2"}}
  <2>1. Copy1(media) /\ media["h1"] = t
    BY SMTT(30), SMTT(60), <1>5, <1>8 DEF Copy1, Half2
  <2> QED
    BY <1>1, <1>6, <2>1 DEF Intact, IntactTable
<1>9. CASE saving = {"h2", "e1", "e2"}
  BY <1>1, <1>2, <1>3, <1>5, <1>6, <1>9, GptAssumption DEF Intact, IntactTable, Copy1, Copy2
<1>10. CASE saving = Entries /\ ~nor
  <2>1. /\ media["h1"] = t /\ media["h2"] = t
        /\ media["e1"] = disk["e1"] /\ media["e2"] = disk["h2"]
    BY <1>2, <1>5, <1>10 DEF Copy2
  <2>2. CASE disk["h2"] = t
    BY <1>1, <1>6, <2>1, <2>2 DEF Intact, IntactTable, Copy1, Copy2
  <2>3. CASE disk["h2"] # t
    <3> DEFINE g == AllocAndReadGptData(media, "none")
    <3>1. g["h1"] = t /\ g["h2"] = t /\ g["e1"] # t /\ g["e2"] # t
      BY SMTT(30), SMTT(60), <1>2, <2>1, <2>3, GptAssumption DEF AllocAndReadGptData, ReadHeader, HeaderOf
    <3>2. ValidEntries(g) = {}
      BY <3>1 DEF ValidEntries, MatchingEntries, CheckEntries
    <3>3. TableOn(media) = Bad
      BY SMTT(30), SMTT(60), <3>2 DEF TableOn, GptSanityCheck
    <3> QED
      BY SMTT(30), SMTT(60), <1>1, <1>10, <3>3
  <2> QED
    BY <2>2, <2>3
<1> QED
  BY <1>1, <1>7, <1>8, <1>9, <1>10 DEF IsSaveTail

(* A command ends with an intact copy on the disk, and the machine runs on. *)
LEMMA EndsInv ==
    ASSUME CgptInv, command \notin {"none", "lost"}, NEW damaged \in BOOLEAN, Ends(media, damaged),
           media \in PieceMap, Intact(media),
           legacy => /\ ~damaged /\ media["e1"] = Bad /\ media["h1"] \in Tables
                     /\ Copy2(media),
           ~legacy /\ ~damaged => \E t \in Tables : media = AllPieces(t)
    PROVE  CgptInv'
<1> USE DEF Pieces, Headers, Entries
<1>1. /\ command' = "none" /\ saving' = {} /\ failed' = FALSE
      /\ disk' = media /\ gpt' = AllPieces(TableOn(media)) /\ interrupted' = damaged
      /\ UNCHANGED <<legacy, modified, todo, pc, nor>>
  BY DEF Ends
<1>2. OpenedInv /\ nor \in BOOLEAN
  BY DEF CgptInv
<1>3. TableOn(media) = IntactTable(media) /\ TableOn(media) \in Tables
  BY SMTT(30), SMTT(60), TableOnIntact
<1>4. TypeOK'
  BY <1>1, <1>2, <1>3 DEF OpenedInv, TypeOK, AllPieces, PieceMap
<1>5. LegacyInv'
  BY Zenon, <1>1, <1>2 DEF OpenedInv, LegacyInv, Copy2
<1>6. ~damaged => Copy2(media) /\ media["h2"] = IntactTable(media)
  <2>1. CASE legacy
    BY <2>1, GptAssumption DEF IntactTable, Copy1
  <2>2. CASE ~legacy
    BY SMTT(30), SMTT(60), <2>2 DEF IntactTable, Copy2, AllPieces
  <2> QED
    BY <2>1, <2>2
<1>7. CopiesInv'
  BY SMTT(30), SMTT(60), <1>1, <1>3, <1>6 DEF CopiesInv, Intact, Copy1, Copy2, AllPieces
<1>8. WriteInv' /\ NeverLosesTable'
  BY SMTT(30), SMTT(60), <1>1, <1>2 DEF OpenedInv, WriteInv, NeverLosesTable
<1> QED
  BY ZenonT(40), <1>1, <1>2, <1>4, <1>5, <1>7, <1>8 DEF CgptInv, IInv

LEMMA DriveCloseInv ==
    ASSUME CgptInv, DriveClose
    PROVE  CgptInv'
<1> DEFINE damaged == failed \/ (~legacy /\ media["h1"] # media["h2"])
<1>1. command \notin {"none", "lost"} /\ saving = {} /\ Ends(media, damaged)
  BY DEF DriveClose
<1>2. failed \in BOOLEAN /\ legacy \in BOOLEAN
  BY <1>1 DEF CgptInv, OpenedInv, TypeOK
<1>3. damaged \in BOOLEAN
  BY <1>2
<1> QED
  BY Zenon, <1>1, <1>3, Closes, EndsInv

LEMMA KilledInv ==
    ASSUME CgptInv, Killed
    PROVE  CgptInv'
<1>1. /\ command \notin {"none", "lost", "legacy", "efipart"} /\ Undisturbed /\ saving # {}
  BY DEF Killed
<1>2. /\ media \in PieceMap
      /\ Intact(media) \/ TableOn(media) = Bad
  BY <1>1, CutShort
<1>3. CASE TableOn(media) # Bad /\ Ends(media, TRUE)
  BY Zenon, <1>1, <1>2, <1>3, EndsInv DEF Undisturbed
<1>4. CASE /\ TableOn(media) = Bad /\ command' = "lost" /\ saving' = {} /\ failed' = FALSE
           /\ UNCHANGED <<vars, nor, drive, media>>
  <2>1. OpenedInv /\ nor \in BOOLEAN
    BY SMTT(30), SMTT(60), <1>1 DEF CgptInv
  <2>2. OpenedInv'
    BY <1>4, <2>1 DEF OpenedInv, vars, TypeOK, Intact, Copy1, Copy2, AllPieces
  <2> QED
    BY Zenon, <1>1, <1>4, <2>1, <2>2 DEF CgptInv, Undisturbed, vars
<1> QED
  BY Zenon, <1>3, <1>4 DEF Killed

LEMMA CgptInitInv == CgptInit => CgptInv
  BY Zenon, InitInv DEF CgptInit, CgptInv

(* A step of the firmware, of a command or of a failure keeps the invariant. *)
LEMMA CgptNextInv == CgptInv /\ [CgptNext]_allVars => CgptInv'
<1> SUFFICES ASSUME CgptInv, [CgptNext]_allVars PROVE CgptInv'
  OBVIOUS
<1>1. CASE Next /\ command = "none" /\ UNCHANGED <<nor, command, saving, failed>>
  BY <1>1, NextInv DEF CgptInv
<1>2. ASSUME NEW t \in Tables, CgptAdd(t) \/ CgptSetAttributes(t) \/ CgptPrioritize(t)
      PROVE  CgptInv'
  BY <1>2, AddInv, PrioritizeInv
<1>3. CASE CgptRepair \/ CgptCreate \/ CgptLegacy \/ CgptEfipart
  BY <1>3, RepairInv, CreateInv, LegacyCommandInv, EfipartInv
<1>4. CASE SaveNext \/ SaveFails \/ DriveClose \/ Killed
  BY <1>4, SaveNextInv, SaveFailsInv, DriveCloseInv, KilledInv
<1>5. CASE UNCHANGED allVars
  <2>1. /\ UNCHANGED vars
        /\ UNCHANGED <<legacy, disk, gpt, modified, todo, interrupted, pc>>
        /\ UNCHANGED <<nor, command, drive, saving, media, failed>>
    BY <1>5 DEF allVars, vars, cgptVars
  <2>2. command = "none" => IInv'
    BY SMTT(30), SMTT(60), <2>1, NextInv DEF CgptInv
  <2>3. OpenedInv => OpenedInv'
    BY SMTT(30), SMTT(60), <2>1 DEF OpenedInv, TypeOK, Intact, Copy1, Copy2, AllPieces
  <2>4. SaveInv => SaveInv'
    BY Zenon, <2>1 DEF SaveInv, AimInv, SavedInv, Copy1, Copy2, Undisturbed, IsSaveTail
  <2> QED
    BY <2>1, <2>2, <2>3, <2>4 DEF CgptInv
<1> QED
  BY <1>1, <1>2, <1>3, <1>4, <1>5 DEF CgptNext

LEMMA CgptAlwaysInv == CgptSpec => []CgptInv
  BY CgptInitInv, CgptNextInv, PTL DEF CgptSpec

(* Whatever the firmware's write-back and the commands of cgpt go through, a
   boot finds a table; once the firmware or a command has written what it had
   to, it is that one. *)
THEOREM TableIsKept == CgptSpec => []TableKept
<1>1. ASSUME CgptInv, command = "none" PROVE TableKept
  BY <1>1, UpdatesSurvive DEF CgptInv, IInv, TableKept
<1>2. ASSUME CgptInv, command # "none" PROVE TableKept
  <2>1. /\ pc = "running" /\ disk \in PieceMap /\ Intact(disk)
        /\ ~interrupted => /\ Copy2(disk) /\ disk["e1"] \in {Bad, disk["h2"]}
                           /\ disk["h2"] = gpt["e1"]
    BY SMTT(30), SMTT(60), <1>2 DEF CgptInv, OpenedInv, TypeOK, PieceMap
  <2>2. ~interrupted => TableOn(disk) = disk["h2"]
    BY <2>1, TableOnIntact, GptAssumption DEF IntactTable, Copy1
  <2> QED
    BY SMTT(30), SMTT(60), <2>1, <2>2 DEF TableKept, NeverLosesTable, UpdatesKept
<1>3. CgptInv => TableKept
  BY <1>1, <1>2
<1> QED
  BY <1>3, CgptAlwaysInv, PTL

(* What a command leaves when it ends or is killed. *)
LEMMA CommandEnds ==
    ASSUME CgptInv, DriveClose \/ Killed
    PROVE  /\ command \notin {"none", "lost"} /\ pc = "running" /\ pc' = "running"
           /\ \/ /\ command' = "none" /\ TableOn(disk') \in {TableOn(disk), Meant}
                 /\ TableOn(disk') \in Tables /\ gpt'["e1"] = TableOn(disk')
                 /\ saving = {} /\ ~(nor /\ failed) => TableOn(disk') = Meant
              \/ command' = "lost" /\ ~nor /\ saving = Entries /\ UNCHANGED vars
<1>1. command \notin {"none", "lost"}
  BY Zenon DEF DriveClose, Killed
<1>2. pc = "running"
  BY <1>1 DEF CgptInv, OpenedInv
<1>3. CASE DriveClose
  <2>1. /\ saving = {} /\ command' = "none" /\ disk' = media /\ pc' = pc
        /\ gpt' = AllPieces(TableOn(disk'))
    BY <1>3 DEF DriveClose, Ends
  <2>2. TableOn(media) = IntactTable(media) /\ TableOn(media) \in Tables
    BY <1>1, <2>1, Closes, TableOnIntact
  <2>3. gpt'["e1"] = TableOn(disk')
    BY SMTT(30), SMTT(60), <2>1 DEF AllPieces, Pieces, Entries
  <2> QED
    BY <1>1, <1>2, <2>1, <2>2, <2>3, Closes
<1>4. CASE Killed
  <2>1. Undisturbed /\ saving # {} /\ command # "efipart"
    BY <1>4 DEF Killed
  <2>2. CASE TableOn(media) # Bad /\ Ends(media, TRUE)
    <3>1. command' = "none" /\ disk' = media /\ pc' = pc /\ gpt' = AllPieces(TableOn(disk'))
      BY <2>2 DEF Ends
    <3>2. /\ media \in PieceMap /\ Intact(media)
          /\ IntactTable(media) \in {TableOn(disk), Meant}
      BY <1>1, <2>1, <2>2, CutShort
    <3>3. TableOn(media) = IntactTable(media) /\ TableOn(media) \in Tables
      BY <3>2, TableOnIntact
    <3>4. gpt'["e1"] = TableOn(disk')
      BY <3>1 DEF AllPieces, Pieces, Entries
    <3> QED
      BY <1>1, <1>2, <2>1, <3>1, <3>2, <3>3, <3>4
  <2>3. CASE TableOn(media) = Bad /\ command' = "lost" /\ UNCHANGED vars
    <3>1. ~nor /\ saving = Entries
      <4>1. Intact(media) /\ media \in PieceMap => TableOn(media) # Bad
        BY TableOnIntact, GptAssumption
      <4> QED
        BY <1>1, <2>1, <2>3, <4>1, CutShort
    <3>2. pc' = pc
      BY <2>3 DEF vars
    <3> QED
      BY <1>1, <1>2, <2>3, <3>1, <3>2
  <2> QED
    BY Zenon, <1>4, <2>2, <2>3 DEF Killed
<1> QED
  BY <1>3, <1>4

(* A step of a command before it ends. *)
Starting ==
    \/ \E t \in Tables : CgptAdd(t) \/ CgptSetAttributes(t) \/ CgptPrioritize(t)
    \/ CgptRepair \/ CgptCreate \/ CgptLegacy \/ CgptEfipart

LEMMA CommandGoesOn ==
    ASSUME CgptInv, Starting \/ SaveNext \/ SaveFails
    PROVE  /\ pc = "running" /\ UNCHANGED <<disk, gpt, pc>>
           /\ command' \notin {"none", "lost"}
<1>1. CASE Starting
  BY Zenon, <1>1 DEF Starting, CgptAdd, CgptSetAttributes, CgptPrioritize, CgptRepair, CgptCreate,
              CgptLegacy, CgptEfipart, Save
<1>2. CASE SaveNext \/ SaveFails
  <2>1. saving # {} /\ UNCHANGED <<disk, gpt, pc, command>>
    BY Zenon, <1>2 DEF SaveNext, SaveFails, vars
  <2> QED
    BY SMTT(30), SMTT(60), <2>1 DEF CgptInv, OpenedInv
<1> QED
  BY SMTT(30), SMTT(60), <1>1, <1>2

(* GptSanityCheck(), GptRepair() and the order of the writes make the two
   copies one table that is only ever replaced as a whole, by the firmware and
   by the commands of cgpt: a boot finds the old table or the new one, whichever
   write a failure cuts short. *)
THEOREM CopiesImplementRegister == CgptSpec => ReplacedAsAWhole
<1>1. CgptInit => Register!RegisterInit
  <2> SUFFICES ASSUME CgptInit PROVE Register!RegisterInit
    OBVIOUS
  <2>1. NextTable \in Tables
    BY InitInv, FindsTable DEF CgptInit
  <2>2. pc = "off"
    BY DEF CgptInit, Init
  <2> QED
    BY <2>1, <2>2 DEF Register!RegisterInit, Holding
<1>2. CgptInv /\ [CgptNext]_allVars => [Register!RegisterNext]_(Register!registerVars)
  <2> SUFFICES ASSUME CgptInv, [CgptNext]_allVars
               PROVE  [Register!RegisterNext]_(Register!registerVars)
    OBVIOUS
  <2>1. CASE Next /\ command = "none"
    BY <2>1, StepRefines DEF CgptInv
  <2>2. CASE Starting \/ SaveNext \/ SaveFails
    <3>1. pc = "running" /\ UNCHANGED <<disk, gpt, pc>>
      BY <2>2, CommandGoesOn
    <3>2. UNCHANGED <<NextTable, Holding>>
      BY <3>1 DEF NextTable, Holding
    <3> QED
      BY <3>2 DEF Register!registerVars
  <2>3. CASE DriveClose \/ Killed
    <3>1. /\ pc = "running" /\ pc' = "running"
          /\ \/ TableOn(disk') \in Tables /\ gpt'["e1"] = TableOn(disk')
             \/ UNCHANGED vars
      BY SMTT(30), SMTT(60), <2>3, CommandEnds
    <3>2. gpt["e1"] # Bad
      BY ZenonT(40), <2>3, <3>1, CommandEnds, GptAssumption
      DEF CgptInv, OpenedInv, TypeOK, AllPieces, Pieces, Entries
    <3>3. CASE TableOn(disk') \in Tables /\ gpt'["e1"] = TableOn(disk')
      BY SMTT(30), SMTT(60), <3>1, <3>2, <3>3 DEF Register!RegisterNext, Register!Install, NextTable, Holding
    <3>4. CASE UNCHANGED vars
      <4>1. UNCHANGED <<NextTable, Holding>>
        BY <3>1, <3>4 DEF vars, NextTable, Holding
      <4> QED
        BY <4>1 DEF Register!registerVars
    <3> QED
      BY <3>1, <3>3, <3>4
  <2>4. CASE UNCHANGED allVars
    <3>1. disk' = disk /\ gpt' = gpt /\ pc' = pc /\ Undisturbed' = Undisturbed
      BY <2>4 DEF allVars, vars, Undisturbed
    <3>2. UNCHANGED <<NextTable, Holding>>
      BY <3>1 DEF NextTable, Holding
    <3> QED
      BY <3>2 DEF Register!registerVars
  <2> QED
    BY <2>1, <2>2, <2>3, <2>4 DEF CgptNext, Starting
<1> QED
  BY <1>1, <1>2, CgptAlwaysInv, PTL DEF CgptSpec, ReplacedAsAWhole, Register!RegisterSpec

(* A cgpt command leaves the table of before or the one it meant to, the latter
   when it runs to its end (but for a half of the flash that could not be
   written); a table is lost only when the process is killed with both headers
   and neither array written (GptSave(), WriteNorFlash()). *)
THEOREM CommandsAreWhole == CgptSpec => OldOrNewTable
<1> DEFINE Step ==
      /\ command # "none" /\ command' = "none" => TableOn(disk') \in {TableOn(disk), Meant}
      /\ command # "none" /\ command' = "none" /\ saving = {} /\ ~(nor /\ failed)
             => TableOn(disk') = Meant
      /\ command' = "lost" => command = "lost" \/ (~nor /\ saving = Entries)
<1>1. ASSUME CgptInv, [CgptNext]_allVars PROVE Step
  <2>1. CASE Next /\ command = "none" /\ UNCHANGED command
    BY <2>1
  <2>2. CASE Starting \/ SaveNext \/ SaveFails
    BY <1>1, <2>2, CommandGoesOn
  <2>3. CASE DriveClose \/ Killed
    BY <1>1, <2>3, CommandEnds
  <2>4. CASE UNCHANGED allVars
    BY <2>4 DEF allVars, cgptVars
  <2> QED
    BY <1>1, <2>1, <2>2, <2>3, <2>4 DEF CgptNext, Starting
<1>2. CgptInv /\ [CgptNext]_allVars => [Step]_allVars
  BY <1>1
<1> QED
  BY <1>2, CgptAlwaysInv, PTL DEF CgptSpec, OldOrNewTable
=============================================================================
