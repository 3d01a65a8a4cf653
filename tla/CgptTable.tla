----------------------------- MODULE CgptTable ------------------------------
(***************************************************************************)
(* What the cgpt commands write into the partition table: the entries a    *)
(* command adds or edits, the order cgpt prioritize gives the kernels, the *)
(* layout cgpt create chooses, the partition cgpt boot and cgpt find name; *)
(* and the conversions of cgpt: partition labels between UTF-8 and UTF-16, *)
(* the image of the table in NOR flash that cgpt_wrapper writes back in two*)
(* halves.  An entry is [type, unique, start, end, att, name]; a table is a*)
(* sequence of entries.  An option that is not given is Unset.             *)
(***************************************************************************)
EXTENDS Integers, Sequences, SequencesExt, FiniteSets

Unset == -1
Failed == [ok |-> FALSE]

(***************************************************************************)
(* cgptlib: the attributes of an entry and the check of a table            *)
(***************************************************************************)
\* gpt_att: priority in bits 0-3, tries in bits 4-7, successful in bit 8.
GetEntryPriority(e)   == e.att % 16
GetEntryTries(e)      == (e.att \div 16) % 16
GetEntrySuccessful(e) == (e.att \div 256) % 2

SetEntryPriority(e, v)   == [e EXCEPT !.att = @ + (v % 16) - (@ % 16)]
SetEntryTries(e, v)      == [e EXCEPT !.att = @ + 16 * ((v % 16) - ((@ \div 16) % 16))]
SetEntrySuccessful(e, v) == [e EXCEPT !.att = @ + 256 * ((IF v = 0 THEN 0 ELSE 1) - ((@ \div 256) % 2))]

IsUnused(e) == e.type = "unused"
IsKernel(e) == e.type = "kernel"

\* Entry e against entry f of the same table; the first error the loop meets.
Clash(e, f) ==
  CASE f.start <= e.start /\ e.start <= f.end -> "START_LBA_OVERLAP"
    [] f.start <= e.end /\ e.end <= f.end     -> "END_LBA_OVERLAP"
    [] OTHER -> IF e.unique = f.unique THEN "DUP_GUID" ELSE "SUCCESS"

InRegion(e, h) == h.first <= e.start /\ e.end <= h.last /\ e.start <= e.end

\* The errors in the order of the two loops, of which the first counts.
EntryErrors(entries, h, i) ==
  IF IsUnused(entries[i]) THEN <<>>
  ELSE IF ~InRegion(entries[i], h) THEN <<"OUT_OF_REGION">>
  ELSE SelectSeq([j \in 1..Len(entries) |->
                    IF j = i \/ IsUnused(entries[j]) THEN "SUCCESS" ELSE Clash(entries[i], entries[j])],
                 LAMBDA c : c # "SUCCESS")

CheckEntries(entries, h) ==
  LET errors == FlattenSeq([i \in 1..Len(entries) |-> EntryErrors(entries, h, i)])
  IN  IF errors = <<>> THEN "SUCCESS" ELSE errors[1]

(***************************************************************************)
(* cgpt add                                                                *)
(***************************************************************************)
Given(v, old) == IF v = Unset THEN old ELSE v

Attributes(e, p) ==
  IF p.raw # Unset THEN [e EXCEPT !.att = p.raw % 2^16]
  ELSE LET s == IF p.successful = Unset THEN e ELSE SetEntrySuccessful(e, p.successful)
           t == IF p.tries = Unset THEN s ELSE SetEntryTries(s, p.tries)
       IN  IF p.priority = Unset THEN t ELSE SetEntryPriority(t, p.priority)

\* New partitions must specify type, begin, and size.
MayBeNew(e, p) ==
  IsUnused(e) => p.begin # Unset /\ p.size # Unset /\ p.type \notin {"unset", "unused"}

\* The name field has 36 units: UTF8ToUTF16() makes "cut" of a label that is
\* longer, and reports no error.  A label it cannot convert is "bad".
Stored(label, old) ==
  CASE label = "unset" -> old
    [] label = "long"  -> "cut"
    [] OTHER           -> label

\* GenerateGuid() gives `fresh', a GUID no entry has, or fails (Unset).
GptSetEntryAttributes(e, p, fresh) ==
  LET start  == Given(p.begin, e.start)
      unique == IF p.unique # Unset THEN p.unique ELSE IF IsUnused(e) THEN fresh ELSE e.unique
  IN  IF unique = Unset \/ p.label = "bad" THEN Failed
      ELSE [ok |-> TRUE,
            entry |-> [e EXCEPT !.start = start,
                                !.end = IF p.size = Unset THEN @ ELSE start + p.size - 1,
                                !.unique = unique,
                                !.type = IF p.type = "unset" THEN @ ELSE p.type,
                                !.name = Stored(p.label, @)]]

\* The values cmd_add() lets through.
ParseAdd(p) ==
  p.successful \in {Unset, 0, 1} /\ p.tries \in {Unset} \cup 0..15 /\ p.priority \in {Unset} \cup 0..15

GptAdd(entries, h, p, i, fresh) ==
  LET set == GptSetEntryAttributes(Attributes(entries[i], p), p, fresh)
      new == [entries EXCEPT ![i] = set.entry]
  IN  IF ~MayBeNew(entries[i], p) \/ ~set.ok \/ CheckEntries(new, h) # "SUCCESS" THEN Failed
      ELSE [ok |-> TRUE, entries |-> new, partition |-> i]

\* The partition given, or the first unused one; 0 if there is none.
CgptGetUnusedPartition(entries, p) ==
  IF p.partition # 0 THEN (IF p.partition > Len(entries) THEN 0 ELSE p.partition)
  ELSE LET unused == {i \in 1..Len(entries) : IsUnused(entries[i])}
       IN  IF unused = {} THEN 0 ELSE CHOOSE i \in unused : \A j \in unused : i <= j

CgptAdd(entries, h, p, fresh) ==
  LET i == CgptGetUnusedPartition(entries, p)
  IN  IF ~ParseAdd(p) \/ i = 0 THEN Failed ELSE GptAdd(entries, h, p, i, fresh)

\* CgptSetAttributes() does not look at what SetEntryAttributes() returns, and
\* refuses the last partition.
CgptSetAttributes(entries, p) ==
  IF p.partition = 0 \/ p.partition >= Len(entries) THEN Failed
  ELSE [ok |-> TRUE, entries |-> [entries EXCEPT ![p.partition] = Attributes(@, p)]]

CgptGetPartitionDetails(entries, p) ==
  LET same == {i \in 1..Len(entries) : entries[i].unique = p.unique}
      i    == IF p.partition > 0 THEN p.partition ELSE CHOOSE k \in same : \A j \in same : k <= j
  IN  IF (p.partition > 0 /\ p.partition >= Len(entries)) \/ (p.partition = 0 /\ same = {}) THEN Failed
      ELSE [ok |-> TRUE, partition |-> i, begin |-> entries[i].start,
            size |-> entries[i].end - entries[i].start + 1, raw |-> entries[i].att,
            priority |-> GetEntryPriority(entries[i]), tries |-> GetEntryTries(entries[i]),
            successful |-> GetEntrySuccessful(entries[i])]

(***************************************************************************)
(* cgpt prioritize                                                         *)
(***************************************************************************)
\* A group is [priority, parts].  99 is above every priority.
AddToGroup(gl, priority, part) ==
  IF \E i \in 1..Len(gl) : gl[i].priority = priority
  THEN LET i == CHOOSE k \in 1..Len(gl) : gl[k].priority = priority
       IN  [gl EXCEPT ![i].parts = Append(@, part)]
  ELSE Append(gl, [priority |-> priority, parts |-> <<part>>])

ChangeGroup(gl, old, new) ==
  [i \in 1..Len(gl) |-> IF gl[i].priority = old THEN [gl[i] EXCEPT !.priority = new] ELSE gl[i]]

\* One round of the insertion sort: after the groups that are not lower.
Insert(gl, g) ==
  LET k == Len(SelectSeq(gl, LAMBDA x : x.priority >= g.priority))
  IN  SubSeq(gl, 1, k) \o <<g>> \o SubSeq(gl, k + 1, Len(gl))

SortGroups(gl) == FoldLeft(Insert, <<>>, gl)

Groups(entries, p) ==
  LET add(gl, i) == AddToGroup(gl, IF i = p.partition /\ ~p.friends THEN 99
                                   ELSE GetEntryPriority(entries[i]), i)
      gl == FoldLeft(add, <<>>, SelectSeq([i \in 1..Len(entries) |-> i], LAMBDA i : IsKernel(entries[i])))
  IN  SortGroups(IF p.partition # 0 /\ p.friends
                 THEN ChangeGroup(gl, GetEntryPriority(entries[p.partition]), 99) ELSE gl)

\* We'll never lower anything to zero, so the last group is left out if it is
\* at zero.
Ranked(gl) == IF gl[Len(gl)].priority = 0 THEN SubSeq(gl, 1, Len(gl) - 1) ELSE gl

\* The priority of the i-th group.
NewPriority(gl, p, i) ==
  LET top == IF p.max # 0 THEN p.max ELSE IF Len(gl) > 15 THEN 15 ELSE Len(gl)
  IN  IF top - (i - 1) > 1 THEN top - (i - 1) ELSE 1

Reprioritized(entries, p) ==
  LET gl == Ranked(Groups(entries, p))
  IN  [k \in 1..Len(entries) |->
         IF \E i \in 1..Len(gl) : Contains(gl[i].parts, k)
         THEN SetEntryPriority(entries[k],
                NewPriority(gl, p, CHOOSE i \in 1..Len(gl) : Contains(gl[i].parts, k)))
         ELSE entries[k]]

ParsePrioritize(p) == p.max \in 0..15 /\ (p.friends => p.partition # 0)

CgptPrioritize(entries, p) ==
  IF \/ ~ParsePrioritize(p)
     \/ p.partition # 0 /\ (p.partition > Len(entries) \/ ~IsKernel(entries[p.partition])) THEN Failed
  ELSE IF \E i \in 1..Len(entries) : IsKernel(entries[i])
       THEN [ok |-> TRUE, entries |-> Reprioritized(entries, p)]
       ELSE [ok |-> TRUE, entries |-> entries]

(***************************************************************************)
(* cgpt create.  A count of sectors wraps at W, which stands for 2^64.     *)
(***************************************************************************)
W == 2^20
SECTOR_SIZE == 512
SizeOfEntry == 128
MIN_NUMBER_OF_ENTRIES == 16
MAX_NUMBER_OF_ENTRIES == 128

CalculateEntriesSectors(n) == (n * SizeOfEntry + SECTOR_SIZE - 1) \div SECTOR_SIZE

\* d is [external, gpt, streaming]: the sectors of the device that holds the
\* table, and of the one that holds the partitions.
CheckParameters(d) ==
  /\ d.gpt # 0
  /\ ~d.external => d.gpt = d.streaming
  /\ d.gpt >= 1 + 2 * (1 + MIN_NUMBER_OF_ENTRIES \div (SECTOR_SIZE \div SizeOfEntry))

CheckHeader(h, secondary, d) ==
  LET sectors == CalculateEntriesSectors(h.n)
  IN  /\ MIN_NUMBER_OF_ENTRIES <= h.n /\ h.n <= MAX_NUMBER_OF_ENTRIES
      /\ ~d.external => h.n = MAX_NUMBER_OF_ENTRIES
      /\ IF secondary THEN h.my = (d.gpt - 1) % W /\ h.entries = (h.my - sectors) % W
         ELSE h.my = 1 /\ h.entries >= h.my + 1
      /\ h.first <= h.last
      /\ IF d.external THEN h.last < d.streaming
         ELSE h.first >= 2 + sectors /\ h.last < (d.streaming - 1 - sectors) % W

\* The entries that fit into half of a small device, 0 if too few do.
ScaledEntries(d) ==
  LET room == (d.gpt \div 2) * SECTOR_SIZE - 2 * SECTOR_SIZE
      most == room \div SizeOfEntry
  IN  IF room < MIN_NUMBER_OF_ENTRIES * SizeOfEntry THEN 0
      ELSE IF most < MAX_NUMBER_OF_ENTRIES THEN most ELSE MAX_NUMBER_OF_ENTRIES

PrimaryHeader(d, padding) ==
  LET n       == IF d.external THEN ScaledEntries(d) ELSE MAX_NUMBER_OF_ENTRIES
      sectors == CalculateEntriesSectors(n)
      entries == IF d.external THEN 2 ELSE (2 + padding) % W
  IN  [my |-> 1, n |-> n, entries |-> entries,
       first |-> IF d.external THEN padding ELSE (entries + sectors) % W,
       last |-> (d.streaming - 1 - (IF d.external THEN 0 ELSE sectors + 1)) % W]

\* RepairHeader(MASK_PRIMARY).
SecondaryHeader(h, d) ==
  [h EXCEPT !.my = (d.gpt - 1) % W, !.entries = (d.gpt - 1 - CalculateEntriesSectors(h.n)) % W]

GptCreate(d, padding) ==
  LET h == PrimaryHeader(d, padding)
  IN  IF d.external /\ ScaledEntries(d) = 0 THEN Failed
      ELSE [ok |-> TRUE, h1 |-> h, h2 |-> SecondaryHeader(h, d)]

(***************************************************************************)
(* cgpt boot and cgpt find                                                 *)
(***************************************************************************)
\* cgpt boot -i: the GUID it leaves in the PMBR; CgptGetBootPartitionNumber()
\* takes the first entry with that GUID, used or not.
CgptBoot(entries, partition) ==
  IF partition > Len(entries) THEN Failed ELSE [ok |-> TRUE, guid |-> entries[partition].unique]

CgptGetBootPartitionNumber(entries, guid) ==
  LET same == {i \in 1..Len(entries) : entries[i].unique = guid}
  IN  IF same = {} THEN 0 ELSE CHOOSE i \in same : \A j \in same : i <= j

\* The bytes matchoffset .. matchoffset + matchlen - 1 of the partition, of
\* which a sector holds `lba'; data is what the whole disk holds.
match_content_PastEnd(p, e, data, lba) ==
  \/ Len(p.match) = 0
  \/ LET from == lba * e.start + p.offset
     IN  from + Len(p.match) <= Len(data) /\ SubSeq(data, from + 1, from + Len(p.match)) = p.match
match_content(p, e, data, lba) ==
  \/ Len(p.match) = 0
  \/ LET from == lba * e.start + p.offset
     IN  /\ p.offset + Len(p.match) <= lba * (e.end - e.start + 1)
         /\ from + Len(p.match) <= Len(data)
         /\ SubSeq(data, from + 1, from + Len(p.match)) = p.match

\* A label that cannot be converted to UTF-8 ends the search.
Named(p, e) ==
  \/ p.unique # Unset /\ p.unique = e.unique
  \/ p.type # "unset" /\ p.type = e.type

gpt_search(p, entries, data, lba) ==
  LET step(s, i) ==
        IF s.aborted \/ IsUnused(entries[i]) THEN s
        ELSE IF ~Named(p, entries[i]) /\ p.label # "unset" /\ entries[i].name = "bad"
        THEN [s EXCEPT !.aborted = TRUE]
        ELSE IF /\ Named(p, entries[i]) \/ (p.label # "unset" /\ p.label = entries[i].name)
                /\ match_content(p, entries[i], data, lba)
        THEN [s EXCEPT !.hits = Append(@, i)]
        ELSE s
  IN  FoldLeft(step, [aborted |-> FALSE, hits |-> <<>>], [i \in 1..Len(entries) |-> i])

\* cmd_find() over several drives: hits add up, match_partnum is the first.
cmd_find(p, drives, lba) ==
  LET found == FlattenSeq([k \in 1..Len(drives) |-> gpt_search(p, drives[k].entries, drives[k].data, lba).hits])
  IN  IF p.unique = Unset /\ p.type = "unset" /\ p.label = "unset" THEN Failed
      ELSE [ok |-> found # <<>> /\ (p.oneonly => Len(found) = 1), hits |-> Len(found),
            partition |-> IF found = <<>> THEN 0 ELSE found[1]]

(***************************************************************************)
(* Labels.  A conversion has room for `max' units, the terminator          *)
(* included; its state is the loop's, `over' when the loop has been left.  *)
(***************************************************************************)
\* UTF-8 bytes of a code point.
Bytes(c) ==
  CASE c <= 127   -> <<c>>
    [] c <= 2047  -> <<192 + c \div 64, 128 + (c % 64)>>
    [] c <= 65535 -> <<224 + c \div 4096, 128 + ((c \div 64) % 64), 128 + (c % 64)>>
    [] OTHER      -> <<240 + c \div 262144, 128 + ((c \div 4096) % 64),
                       128 + ((c \div 64) % 64), 128 + (c % 64)>>

Emit8(s, c) ==
  IF Len(Bytes(c)) <= s.room
  THEN [s EXCEPT !.out = @ \o Bytes(c), !.room = @ - Len(Bytes(c)), !.ready = TRUE]
  ELSE [s EXCEPT !.ok = FALSE, !.over = TRUE]

\* One code unit: a surrogate pair takes two rounds.
Step8(s, u) ==
  IF s.over \/ u = 0 \/ s.room = 0 THEN [s EXCEPT !.over = TRUE]
  ELSE IF s.ready
  THEN IF 55296 <= u /\ u <= 56319 THEN [s EXCEPT !.ready = FALSE, !.high = (u % 1024) + 64]
       ELSE Emit8(s, u)
  ELSE IF 56320 <= u /\ u <= 57343 THEN Emit8(s, s.high * 1024 + (u % 1024))
       ELSE [s EXCEPT !.ok = FALSE, !.over = TRUE]

UTF16ToUTF8(units, max) ==
  IF units = <<>> \/ max = 0 THEN [ok |-> FALSE, out |-> <<>>]
  ELSE LET s == FoldLeft(Step8, [out |-> <<>>, room |-> max - 1, ready |-> TRUE, high |-> 0,
                                 ok |-> TRUE, over |-> FALSE], units)
       IN  [ok |-> s.ok, out |-> s.out]

\* UTF-16 units of a code point, none if it is a surrogate or too large.
Units(c) ==
  CASE c <= 55295 \/ (57344 <= c /\ c <= 65535) -> <<c>>
    [] 65536 <= c /\ c <= 1114111 -> <<55296 + c \div 1024 - 64, 56320 + (c % 1024)>>
    [] OTHER -> <<>>

\* The encoding must be the shortest one.
Shortest(c, n) == (n = 2 => c > 127) /\ (n = 3 => c > 2047) /\ (n = 4 => c > 65535)

Fail16(s) == [s EXCEPT !.ok = FALSE, !.over = TRUE]

Emit16(s) ==
  IF s.expected # s.decoded THEN s
  ELSE IF ~Shortest(s.cp, s.expected) \/ Units(s.cp) = <<>> \/ Len(Units(s.cp)) > s.room THEN Fail16(s)
  ELSE [s EXCEPT !.out = @ \o Units(s.cp), !.room = @ - Len(Units(s.cp))]

Head16(s, c, n) == Emit16([s EXCEPT !.cp = c, !.expected = n, !.decoded = 1])

Step16(s, b) ==
  IF s.over \/ b = 0 \/ s.room = 0 THEN [s EXCEPT !.over = TRUE]
  ELSE IF s.expected # s.decoded
  THEN IF b \div 64 = 2 THEN Emit16([s EXCEPT !.cp = @ * 64 + (b % 64), !.decoded = @ + 1])
       ELSE Fail16(s)
  ELSE CASE b <= 127                -> Head16(s, b, 1)
         [] 194 <= b /\ b <= 223    -> Head16(s, b % 32, 2)
         [] 224 <= b /\ b <= 239    -> Head16(s, b % 16, 3)
         [] 240 <= b /\ b <= 244    -> Head16(s, b % 8, 4)
         [] OTHER                   -> Fail16([s EXCEPT !.decoded = 1])

UTF8ToUTF16(bytes, max) ==
  IF max = 0 THEN [ok |-> FALSE, out |-> <<>>]
  ELSE LET s == FoldLeft(Step16, [out |-> <<>>, room |-> max - 1, cp |-> 0, expected |-> 1,
                                  decoded |-> 1, ok |-> TRUE, over |-> FALSE], bytes)
       IN  [ok |-> s.ok /\ s.expected = s.decoded, out |-> s.out]

(***************************************************************************)
(* NOR flash.  `reads' and `writes' say how much each read() and write()   *)
(* does, at most (a call that is short is repeated).                       *)
(***************************************************************************)
AtMost(limits, k, n) == IF k > Len(limits) \/ limits[k] > n THEN n ELSE limits[k]

\* The inner loop of read_write(): chunk to the file, in short writes.
WriteAll(chunk, writes) ==
  LET f[done \in 0..Len(chunk), k \in 1..(Len(chunk) + 1)] ==
        IF done = Len(chunk) THEN <<>>
        ELSE LET n == AtMost(writes, k, Len(chunk) - done)
             IN  SubSeq(chunk, done + 1, done + n) \o f[done + n, k + 1]
  IN  f[0, 1]

\* Bytes of `source' from `pos' on, in pieces of at most `bufsize' bytes: the
\* lengths the reads return, and what is written.
read_write(source, pos, size, bufsize, reads, writes) ==
  LET f[copied \in 0..size, k \in 1..(size + 1)] ==
        IF copied = size THEN <<>>
        ELSE LET n == AtMost(reads, k, IF size - copied > bufsize THEN bufsize ELSE size - copied)
             IN  WriteAll(SubSeq(source, pos + copied + 1, pos + copied + n), writes) \o f[copied + n, k + 1]
  IN  f[0, 1]

\* Both halves are read from one descriptor, the second where the first ended.
split_gpt(image, bufsize, reads, writes) ==
  LET half == Len(image) \div 2
  IN  IF Len(image) % 2 # 0 THEN <<>>
      ELSE <<read_write(image, 0, half, bufsize, reads, writes),
             read_write(image, half, half, bufsize, reads, writes)>>

\* WriteNorFlash(): flashrom writes each half, or fails and leaves `old'.
WriteNorFlash(old, image, flashrom, limits) ==
  LET halves == split_gpt(image, 2, limits, limits)
      half   == Len(image) \div 2
      piece(k) == IF flashrom[k] THEN halves[k] ELSE SubSeq(old, (k - 1) * half + 1, k * half)
  IN  IF halves = <<>> THEN [ret |-> 1, flash |-> old]
      ELSE [ret |-> IF flashrom[1] /\ flashrom[2] THEN 0 ELSE 2, flash |-> piece(1) \o piece(2)]

\* wrap_cgpt().  env: does reading the flash, taking its size, running cgpt,
\* digesting the file before and after succeed; what cgpt makes of the image.
wrap_cgpt(flash, env) ==
  IF ~env.read THEN [ret |-> 1, flash |-> flash]
  ELSE IF ~env.size THEN [ret |-> 2, flash |-> flash]
  ELSE IF ~env.cgpt THEN [ret |-> 3, flash |-> flash]
  ELSE IF ~env.digests THEN [ret |-> 4, flash |-> flash]
  ELSE IF env.image = flash THEN [ret |-> 0, flash |-> flash]
  ELSE WriteNorFlash(flash, env.image, env.flashrom, env.limits)
=============================================================================
