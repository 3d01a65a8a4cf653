----------------------------- MODULE CgptCalls ------------------------------
(***************************************************************************)
(* The cgpt commands on small tables, and its conversions.                 *)
(***************************************************************************)
EXTENDS StructCalls, TLC, SequencesExt

Gpt == INSTANCE CgptTable

(***************************************************************************)
(* Inputs                                                                  *)
(***************************************************************************)
Entry(type, unique, start, end, att, name) ==
  [type |-> type, unique |-> unique, start |-> start, end |-> end, att |-> att, name |-> name]
Free == Entry("unused", 0, 0, 0, 0, "")
Usable == [first |-> 2, last |-> 9]

\* Legal tables: with room between and behind, full, and with the entry of a
\* removed partition that kept its GUID.
PartitionTables ==
  {<<Entry("kernel", 1, 2, 4, 277, "a"), Entry("rootfs", 2, 7, 8, 0, "b"), Free>>,
   <<Free, Entry("kernel", 2, 5, 6, 31, "bad"), Free>>,
   <<Entry("unused", 3, 2, 2, 0, "a"), Entry("kernel", 1, 2, 3, 0, "b"), Entry("kernel", 3, 9, 9, 511, "a")>>}

AddAttributes ==
  {[priority |-> -1, tries |-> -1, successful |-> -1, raw |-> -1],
   [priority |-> 5, tries |-> 9, successful |-> 1, raw |-> -1],
   [priority |-> 16, tries |-> -1, successful |-> -1, raw |-> -1],
   [priority |-> 5, tries |-> -1, successful |-> 0, raw |-> 65799]}

Adds == [fn : {"cgpt_add"}, table : PartitionTables, partition : {0, 1, 3, 4}, begin : {-1, 1, 4, 9},
         size : {-1, 0, 1, 4}, type : {"unset", "unused", "kernel"}, unique : {-1, 3, 7},
         label : {"unset", "bad", "c", "long"}, attributes : AddAttributes, fresh : {-1, 9}]

Sets == [fn : {"cgpt_set"}, table : PartitionTables, partition : 0..4, unique : {-1, 1, 3},
         priority : {-1, 0, 15}, tries : {-1, 0, 6, 15}, successful : {-1, 0, 1}, raw : {-1, 0, 338}]

Checks == [fn : {"cgpt_check"}, table : {<<Entry("kernel", u, i[1], i[2], 0, ""), Free, Entry("rootfs", 2, j[1], j[2], 0, "")>> :
             u \in {1, 2}, i \in (1..10) \X (1..10), j \in {<<2, 9>>, <<4, 6>>, <<5, 5>>, <<9, 9>>, <<3, 10>>}}]

KernelTables ==
  {<<Entry("kernel", 1, 2, 2, a, ""), Entry("kernel", 2, 3, 3, 256 + b, ""), Entry("rootfs", 3, 4, 4, 3, ""),
     Entry("kernel", 4, 5, 5, c, ""), Entry("kernel", 5, 6, 6, d, "")>> :
     a \in {0, 1, 2, 15}, b \in {0, 1, 2, 15}, c \in {0, 1, 2, 15}, d \in {0, 1, 2, 15}}
  \cup {[i \in 1..18 |-> Entry("kernel", i, i + 1, i + 1, IF i = 18 THEN 7 ELSE i - 1, "")],
        <<Free, Entry("rootfs", 3, 4, 4, 3, "")>>}

Prioritizes == [fn : {"cgpt_prioritize"}, table : KernelTables, partition : {0, 1, 3, 4, 8, 17},
                friends : BOOLEAN, max : {0, 1, 2, 3, 15, 16}]

Creates ==
  [fn : {"cgpt_create"}, drive : [external : {FALSE}, gpt : {67, 68, 69, 100, 5000}, streaming : {67, 68, 69, 100, 5000}]
     \cup [external : {TRUE}, gpt : {5, 11, 12, 13, 14, 37, 67, 68, 69, 5000}, streaming : {1, 40, 5000}],
   padding : {0, 1, 2, 31, 32, 39, 40}]

\* Four bytes of content for each of the ten sectors.
Content == [i \in 1..40 |-> (i * i) % 7]
Finds == [fn : {"cgpt_find"}, tables : {<<t>> : t \in PartitionTables} \cup {<<t, u>> : t, u \in PartitionTables},
          by : {"unique", "type", "label", "none"}, partition : 1..3, offset : {0, 1, 8}, len : {0, 1, 4, 9},
          copied : {0, 9, 31}, oneonly : BOOLEAN]

Points == {1, 127, 128, 2047, 2048, 55295, 57344, 65535, 65536, 1114111}
Labels ==
  [fn : {"cgpt_label"}, points : {<<>>} \cup {<<a>> : a \in Points} \cup {<<a, b>> : a, b \in Points}
                                 \cup {<<a, b, 65>> : a, b \in Points}, max : 1..6]
RawBytes == {0, 65, 128, 143, 160, 191, 193, 194, 224, 237, 240, 244, 245}
RawLabels ==
  UNION {[fn : {"cgpt_bytes"}, bytes : [1..n -> RawBytes], max : {1, 4}] : n \in 0..3}
    \cup [fn : {"cgpt_bytes"}, bytes : [1..4 -> RawBytes \ {0, 65, 193, 194}], max : {4}]

Wraps ==
  [fn : {"cgpt_wrap"}, read : BOOLEAN, size : BOOLEAN, cgpt : BOOLEAN, digests : BOOLEAN,
   image : {<<1, 2, 3, 4, 5, 6>>, <<1, 2, 3, 7, 5, 6>>, <<9, 8, 7, 6, 5, 4>>, <<1, 2, 3, 4, 5>>},
   flashrom : BOOLEAN \X BOOLEAN, limits : {<<>>, <<1>>, <<2, 1>>, <<1, 1, 1>>}]
Flash == <<1, 2, 3, 4, 5, 6>>

CgptInputs ==
  \/ /\ call \in Adds
     /\ call.fresh = -1 => call.unique = -1
     /\ call.label \in {"bad", "long"} => call.attributes.priority = -1
  \/ call \in Sets \/ call \in Checks \/ call \in Prioritizes \/ call \in Creates
  \/ call \in Finds \/ call \in Labels \/ call \in RawLabels \/ call \in Wraps

(***************************************************************************)
(* Calls and what they return                                              *)
(***************************************************************************)
AddParams == call.attributes @@ call
CgptAdd == Return("cgpt_add", Gpt!CgptAdd(call.table, Usable, AddParams, call.fresh))
CheckEntries == Return("cgpt_check", Gpt!CheckEntries(call.table, Usable) = "SUCCESS")

\* A table as sets of sectors: each partition in the usable region, no two
\* with a sector or a GUID in common.
Legal(table) ==
  LET used == {i \in 1..Len(table) : table[i].type # "unused"}
      Sectors(i) == table[i].start..table[i].end
  IN  /\ \A i \in used : Sectors(i) # {} /\ Sectors(i) \subseteq Usable.first..Usable.last
      /\ \A i, j \in used : i # j => Sectors(i) \cap Sectors(j) = {} /\ table[i].unique # table[j].unique

(* CheckEntries() accepts exactly the tables whose partitions are disjoint,  *)
(* in the usable region and told apart by their GUID; and whatever options  *)
(* cgpt add is given, the table it writes is such a table, and differs from *)
(* the one it read in the one entry it was to change.  That entry says what *)
(* was asked for, with one exception: a label longer than the name field is *)
(* cut without an error (GptSetEntryAttributes()).                          *)
AddKeepsLegal ==
  /\ Returned("cgpt_check") => result = Legal(call.table)
  /\ Returned("cgpt_add") /\ result.ok =>
       /\ Legal(result.entries)
       /\ \A i \in 1..Len(call.table) : i # result.partition => result.entries[i] = call.table[i]
       /\ call.partition \in {0, result.partition}
       /\ call.partition = 0 => call.table[result.partition].type = "unused"
       /\ LET old == call.table[result.partition]
              new == result.entries[result.partition]
              a   == call.attributes
          IN  /\ new.start = IF call.begin = -1 THEN old.start ELSE call.begin
              /\ IF call.size = -1 THEN new.end = old.end ELSE new.end - new.start + 1 = call.size
              /\ new.type = IF call.type = "unset" THEN old.type ELSE call.type
              /\ call.unique # -1 => new.unique = call.unique
              /\ new.name = CASE call.label = "unset" -> old.name [] call.label = "long" -> "cut" [] OTHER -> call.label
              /\ IF a.raw # -1 THEN new.att = a.raw % 65536
                 ELSE a.priority # -1 => new.att % 16 = a.priority /\ (new.att \div 16) % 16 = a.tries

SetParams == [partition |-> call.partition, unique |-> call.unique, priority |-> call.priority,
              tries |-> call.tries, successful |-> call.successful, raw |-> call.raw]
SetAttributes ==
  LET set == Gpt!CgptSetAttributes(call.table, SetParams)
  IN  Return("cgpt_set", [set |-> set, details |-> Gpt!CgptGetPartitionDetails(IF set.ok THEN set.entries ELSE call.table, SetParams)])

(* The attributes CgptSetAttributes() writes are those that                 *)
(* CgptGetPartitionDetails() reads, and those not given keep their value:   *)
(* priority, tries and successful share one word of the entry.              *)
AttributesReadBack ==
  Returned("cgpt_set") /\ result.set.ok =>
    LET old(get(_)) == get(call.table[call.partition])
        want(v, get(_)) == IF call.raw # -1 THEN get([att |-> call.raw]) ELSE IF v = -1 THEN old(get) ELSE v
    IN  /\ result.details.ok
        /\ result.details.priority = want(call.priority, Gpt!GetEntryPriority)
        /\ result.details.tries = want(call.tries, Gpt!GetEntryTries)
        /\ result.details.successful = want(call.successful, Gpt!GetEntrySuccessful)

CgptPrioritize == Return("cgpt_prioritize", Gpt!CgptPrioritize(call.table, call))

(* cgpt prioritize puts the partition it is given (or all that share its    *)
(* priority) above the other active kernels, whose order it keeps; ranks are *)
(* merged only at the bottom, no active kernel is lowered to 0, no inactive  *)
(* one is raised, and nothing but priorities changes.                        *)
PrioritizeKeepsOrder ==
  Returned("cgpt_prioritize") /\ result.ok =>
    LET was(i) == call.table[i].att % 16
        is(i)  == result.entries[i].att % 16
        kernels == {i \in 1..Len(call.table) : call.table[i].type = "kernel"}
        chosen  == IF call.partition = 0 THEN {}
                   ELSE {i \in kernels : i = call.partition \/ (call.friends /\ was(i) = was(call.partition))}
        active  == {i \in kernels : was(i) > 0} \cup chosen
        rank(i) == IF i \in chosen THEN 99 ELSE was(i)
        levels  == {rank(i) : i \in active}
        top     == IF call.max # 0 THEN call.max ELSE IF Cardinality(levels) > 15 THEN 15 ELSE Cardinality(levels)
    IN  /\ \A i \in 1..Len(call.table) :
             result.entries[i] = [call.table[i] EXCEPT !.att = @ - was(i) + (IF i \in active THEN is(i) ELSE was(i))]
        /\ \A i \in active : 1 <= is(i) /\ is(i) <= top
        /\ \A i, j \in active :
             /\ rank(i) = rank(j) => is(i) = is(j)
             /\ rank(i) > rank(j) => is(i) > is(j) \/ (is(i) = 1 /\ is(j) = 1)
        /\ active # {} => \E i \in active : is(i) = top

CgptCreate == Return("cgpt_create", Gpt!GptCreate(call.drive, call.padding))

(* The headers cgpt create writes are headers that every reader of the table *)
(* accepts, on a device of any size that has room for them, and the two      *)
(* copies do not overlap: on a small separate device the number of entries   *)
(* is scaled down (GptCreate(), CheckHeader()).                              *)
CreateAccepted ==
  LET d == call.drive
      sectors == Gpt!CalculateEntriesSectors(result.h1.n)
      room == IF d.external THEN call.padding < d.streaming
              ELSE d.gpt = d.streaming /\ 68 + call.padding <= d.streaming
  IN  Returned("cgpt_create") =>
        /\ d.external /\ ~result.ok => d.gpt < 12
        /\ result.ok /\ room =>
             /\ Gpt!CheckParameters(d)
             /\ Gpt!CheckHeader(result.h1, FALSE, d) /\ Gpt!CheckHeader(result.h2, TRUE, d)
             /\ result.h1.entries + sectors <= result.h2.entries
             /\ ~d.external => /\ result.h1.first >= result.h1.entries + sectors
                               /\ result.h1.last < result.h2.entries

\* cgpt find for the partition that cgpt boot -i was given, and for content
\* copied from somewhere on the disk.
FindParams ==
  LET boot == Gpt!CgptBoot(call.tables[1], call.partition)
  IN  [unique |-> IF call.by = "unique" THEN boot.guid ELSE -1,
       type |-> IF call.by = "type" THEN "kernel" ELSE "unset",
       label |-> IF call.by = "label" THEN "a" ELSE "unset",
       offset |-> call.offset, match |-> SubSeq(Content, call.copied + 1, call.copied + call.len),
       oneonly |-> call.oneonly]
Drives == [k \in 1..Len(call.tables) |-> [entries |-> call.tables[k], data |-> Content]]

FindPartition ==
  Return("cgpt_find", [found |-> Gpt!cmd_find(FindParams, Drives, 4),
                       number |-> Gpt!CgptGetBootPartitionNumber(call.tables[1], FindParams.unique)])

\* A partition by itself, and whether it is one that is looked for.
PartitionData(e) == SubSeq(Content, 4 * e.start + 1, 4 * e.end + 4)
Sought(e) ==
  LET p == FindParams
      data == PartitionData(e)
  IN  /\ e.type # "unused"
      /\ e.unique = p.unique \/ e.type = p.type \/ e.name = p.label
      /\ Len(p.match) = 0 \/ (p.offset + Len(p.match) <= Len(data)
                               /\ SubSeq(data, p.offset + 1, p.offset + Len(p.match)) = p.match)

(* cgpt find reports the partitions of all drives that are sought, the       *)
(* content being compared inside the partition only; the number it returns   *)
(* is the first.  The partition whose GUID cgpt boot stored is found by it,   *)
(* unless the entry of a removed partition still has that GUID.  A label     *)
(* that is not UTF-16 ends the search of a drive.                            *)
FindExact ==
  Returned("cgpt_find") =>
    LET stop(t) == {i \in 1..3 : call.by = "label" /\ \E j \in 1..i : t[j].name = "bad" /\ t[j].type # "unused"}
        hits(k) == {i \in (1..3) \ stop(call.tables[k]) : Sought(call.tables[k][i])}
        number  == Cardinality({<<k, i>> \in (1..Len(call.tables)) \X (1..3) : i \in hits(k)})
    IN  IF call.by = "none" THEN ~result.found.ok
        ELSE /\ result.found.hits = number
             /\ result.found.ok = (number > 0 /\ (call.oneonly => number = 1))
             /\ hits(1) # {} => result.found.partition \in hits(1) /\ \A i \in hits(1) : result.found.partition <= i
             /\ call.by = "unique" =>
                  \/ result.number = call.partition
                  \/ call.tables[1][result.number].type = "unused"
                  \/ call.tables[1][call.partition].type = "unused"

\* The two encodings, from the tables of the Unicode standard.
Utf8Of ==
  (1 :> <<1>>) @@ (65 :> <<65>>) @@ (127 :> <<127>>) @@ (128 :> <<194, 128>>) @@ (2047 :> <<223, 191>>)
  @@ (2048 :> <<224, 160, 128>>) @@ (55295 :> <<237, 159, 191>>) @@ (57344 :> <<238, 128, 128>>)
  @@ (65535 :> <<239, 191, 191>>) @@ (65536 :> <<240, 144, 128, 128>>) @@ (1114111 :> <<244, 143, 191, 191>>)
Utf16Of == [c \in DOMAIN Utf8Of |->
  CASE c = 65536 -> <<55296, 56320>> [] c = 1114111 -> <<56319, 57343>> [] OTHER -> <<c>>]
Encoded(points, table) == FlattenSeq([i \in 1..Len(points) |-> table[points[i]]])

ConvertLabel ==
  Return("cgpt_label", [to16 |-> Gpt!UTF8ToUTF16(Encoded(call.points, Utf8Of), call.max),
                        to8 |-> Gpt!UTF16ToUTF8(Encoded(call.points, Utf16Of), call.max)])
ConvertBytes ==
  LET name == Gpt!UTF8ToUTF16(call.bytes, call.max)
  IN  Return("cgpt_bytes", [name |-> name, back |-> Gpt!UTF16ToUTF8(name.out, 20)])

\* A conversion with room for max units makes, of the first characters that
\* fit, what the table says, and fails if the next one leaves a gap.
Converted(r, table) ==
  LET first(k) == Encoded(SubSeq(call.points, 1, k), table)
      fit      == Max({k \in 0..Len(call.points) : Len(first(k)) < call.max})
  IN  r = [ok |-> fit = Len(call.points) \/ Len(first(fit)) = call.max - 1, out |-> first(fit)]

(* UTF8ToUTF16() and UTF16ToUTF8() give the encoding of each character, at   *)
(* the ends of the ranges too, and never write past their buffer.  What does *)
(* not fit is cut off between two characters.  The comments above both       *)
(* promise CGPT_FAILED then; both return CGPT_OK when the characters before  *)
(* the cut fill the buffer.  What UTF8ToUTF16() accepts is well formed: it   *)
(* converts back to the bytes it came from, all of them unless the buffer is *)
(* full.                                                                     *)
LabelExact ==
  /\ Returned("cgpt_label") =>
       /\ Converted(result.to16, Utf16Of)
       /\ call.points # <<>> => Converted(result.to8, Utf8Of)
  /\ Returned("cgpt_bytes") /\ result.name.ok /\ result.name.out # <<>> =>
       LET upto == IF Contains(call.bytes, 0) THEN SelectInSeq(call.bytes, LAMBDA b : b = 0) - 1
                   ELSE Len(call.bytes)
       IN  /\ result.back.ok
           /\ IsPrefix(result.back.out, SubSeq(call.bytes, 1, upto))
           /\ Len(result.name.out) < call.max - 1 => Len(result.back.out) = upto

WrapCgpt == Return("cgpt_wrap", Gpt!wrap_cgpt(Flash, call))

(* When cgpt on NOR flash reports success, the flash holds the table cgpt    *)
(* made, however short the reads and writes of the copies were; otherwise    *)
(* each half of the flash is the old or the new one.                         *)
NorExact ==
  Returned("cgpt_wrap") =>
    /\ result.ret = 0 => result.flash = call.image
    /\ Len(result.flash) = 6
    /\ result.flash # Flash =>
         \A k \in {0, 3} : SubSeq(result.flash, k + 1, k + 3) \in {SubSeq(Flash, k + 1, k + 3), SubSeq(call.image, k + 1, k + 3)}

CgptNext ==
  /\ call.fn \in {"cgpt_add", "cgpt_check", "cgpt_set", "cgpt_prioritize", "cgpt_create", "cgpt_find",
                  "cgpt_label", "cgpt_bytes", "cgpt_wrap"}
  /\ \/ CgptAdd \/ CheckEntries \/ SetAttributes \/ CgptPrioritize \/ CgptCreate
     \/ FindPartition \/ ConvertLabel \/ ConvertBytes \/ WrapCgpt
=============================================================================
