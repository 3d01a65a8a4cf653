----------------------------- MODULE FutilCalls -----------------------------
(***************************************************************************)
(* Calls of FutilBios and FutilKernel on bounded inputs.                   *)
(***************************************************************************)
EXTENDS StructCalls, TLC, SequencesExt

Fu == INSTANCE FutilBios

(***************************************************************************)
(* gbb_utility: one command on one file, or a command and then another on  *)
(* what it left.                                                           *)
(***************************************************************************)
Opt(o)      == [o |-> o, has |-> FALSE, file |-> "", num |-> <<>>]
From(o, f)  == [o |-> o, has |-> TRUE, file |-> f, num |-> <<>>]
With(o, v)  == [o |-> o, has |-> TRUE, file |-> "", num |-> v]

GbbHeader(hwid, rootkey, bmpfv, recovery, minor) ==
  [major_version |-> 1, minor_version |-> minor, header_size |-> 2, flags |-> 3,
   hwid         |-> [offset |-> 2, size |-> hwid],
   bmpfv        |-> [offset |-> 2 + hwid, size |-> bmpfv],
   rootkey      |-> [offset |-> 2 + hwid + bmpfv, size |-> rootkey],
   recovery_key |-> [offset |-> 2 + hwid + bmpfv + rootkey, size |-> recovery],
   hwid_digest  |-> Fu!Digest(<<4>>)]

\* The block at offset at of an image with a string for the HWID and other bytes elsewhere.
GbbImage(at, hdr, tail) ==
  LET n == at + hdr.recovery_key.offset + hdr.recovery_key.size
  IN  [Fu!Bytes([i \in 1 .. n + tail |->
          IF i = n + tail \/ i - at - 2 \in 2 .. hdr.hwid.size THEN 0 ELSE 3 + (i % 3)])
       EXCEPT !.gbb = (at :> hdr)]

Ryu(size, digest) ==
  [header_version_major |-> 1, struct_size |-> size, root_key_hash_digest |-> digest]

PlainGbb == GbbImage(2, GbbHeader(2, 2, 1, 2, 2), 5)
GbbFiles ==
  {PlainGbb, GbbImage(2, GbbHeader(3, 1, 0, 1, 1), 1), GbbImage(0, GbbHeader(0, 2, 1, 0, 2), 1),
   [PlainGbb EXCEPT !.ryu = (0 :> Ryu(2, Fu!Unset)) @@ (12 :> Ryu(2, <<7>>))],
   [PlainGbb EXCEPT !.ryu = (12 :> Ryu(3, Fu!Unset))],
   [PlainGbb EXCEPT !.ryu = (0 :> [Ryu(2, Fu!Unset) EXCEPT !.header_version_major = 2])],
   [PlainGbb EXCEPT !.gbb[2].major_version = 2], [PlainGbb EXCEPT !.gbb[2].recovery_key.size = 9],
   [PlainGbb EXCEPT !.gbb = @ @@ (11 :> GbbHeader(1, 0, 0, 0, 2))],
   [PlainGbb EXCEPT !.gbb = @ @@ (12 :> [GbbHeader(1, 0, 0, 0, 2) EXCEPT !.hwid.offset = 3])],
   Fu!Bytes(<<>>)}

NoFault == [name |-> "", at |-> "open", kept |-> 0]
GbbFaults == {NoFault, [name |-> "out", at |-> "open", kept |-> 0]}
             \union {[name |-> n, at |-> "write", kept |-> k] : n \in {"bios", "k"}, k \in 0 .. 1}

GbbSets ==
  {<<>>, <<From("bmpfv", "b")>>, <<From("recovery_key", "missing")>>, <<Opt("hwid")>>,
   <<From("rootkey", "k"), From("recovery_key", "b")>>}
  \union {<<With("hwid", h)>> : h \in {<<>>, <<6>>, <<6, 6>>}}
  \union {<<With("flags", <<f>>)>> : f \in {8, Fu!NotANumber}}
  \union {<<With("hwid", <<6>>), With("flags", <<f>>), From("bmpfv", "b"), From("rootkey", "k"),
            From("recovery_key", "b")>> : f \in {8, Fu!NotANumber}}

Getting ==
  <<Opt("g"), Opt("hwid"), Opt("flags"), Opt("digest"), Opt("roothash"),
    From("rootkey", "k"), From("bmpfv", "b"), From("recovery_key", "r")>>

GbbRuns(fault) ==
  {[opts |-> <<Opt("s")>> \o x, names |-> n, fault |-> fault] :
      x \in GbbSets, n \in {<<"bios">>, <<"bios", "out">>}}
  \union {[opts |-> x, names |-> <<"bios">>, fault |-> fault] :
      x \in {Getting, <<>>, <<With("hwid", <<6>>), Opt("s")>>, <<Opt("hwid"), Opt("s")>>,
             <<Opt("s"), From("rootkey", "k"), From("o", "out")>>}}
  \union {[opts |-> <<With("c", c)>>, names |-> <<"bios">>, fault |-> fault] :
      c \in {<<>>, <<1>>, <<2, 2, 1, 2>>, <<0, 1, 2, 1>>, <<2, Fu!NotANumber>>}}

Afterwards(r) ==
  [opts |-> Getting, fault |-> NoFault,
   names |-> IF "out" \in DOMAIN r THEN <<"out">> ELSE <<"bios">>]

GbbInputs ==
  \E bios \in GbbFiles, key \in {<<>>, <<9>>, <<9, 9, 9>>}, fault \in GbbFaults :
  \E first \in GbbRuns(fault) :
     /\ fault # NoFault => bios = PlainGbb
     /\ call = [fn |-> "gbb", first |-> first,
                files |-> ("bios" :> bios) @@ ("k" :> Fu!Bytes(key)) @@ ("b" :> Fu!Bytes(<<8>>))]

GbbCall ==
  call.fn = "gbb" /\
  LET run(r, files) == Fu!do_gbb_utility(r.opts, r.names, files, r.fault)
      once == run(call.first, call.files)
  IN  Return("gbb", [once |-> once, then |-> run(Afterwards(once.files), once.files)])

\* The offsets at which an image has a sound block.
GbbBlocks(img) ==
  {at \in DOMAIN img.gbb : at % 2 = 0 /\ Fu!futil_valid_gbb_header(img, at, Len(img.mem) - at)}

Chosen(o) == \E i \in DOMAIN call.first.opts :
               call.first.opts[i].o = o /\ call.first.opts[i].has
Choice(o) == Fu!Optarg(call.first.opts[CHOOSE i \in DOMAIN call.first.opts :
                                         call.first.opts[i].o = o])
Asks(o)   == \E i \in DOMAIN call.first.opts : call.first.opts[i].o = o
AreaNames == {"rootkey", "bmpfv", "recovery_key"}
ExportedTo == [rootkey |-> "k", bmpfv |-> "b", recovery_key |-> "r"]
Padded(b, n) == [i \in 1 .. n |-> IF i <= Len(b) THEN b[i] ELSE 0]

\* What the options ask for can be done.
Feasible(hdr) ==
  /\ Asks("hwid") => Chosen("hwid") /\ call.first.opts[1].o = "s"
                     /\ Len(Choice("hwid")) < hdr.hwid.size
  /\ Chosen("flags") => Choice("flags") # Fu!NotANumber
  /\ \A a \in AreaNames : Chosen(a) =>
       Choice(a) \in DOMAIN call.files /\ Len(call.files[Choice(a)].mem) <= hdr[a].size

Target == IF Chosen("o") THEN Choice("o")
          ELSE call.first.names[Len(call.first.names)]

(* gbb_utility --set either changes what it was asked to change and        *)
(* nothing else, or leaves every file as it was.  Reading the new image    *)
(* back shows the new HWID with a valid digest, the new flags, the new     *)
(* contents of each area padded with zeros (none of the old bytes), the    *)
(* old value of what was not named, and a root key hash that verifies; all *)
(* bytes outside the named areas, and the input file when another one is   *)
(* named, are as before.  It refuses an image with no block or with two    *)
(* (cmd_gbb_utility.c:521-626, 102-130).                                   *)
GbbSetExact ==
  Returned("gbb") /\ Asks("s") =>
    LET old  == call.files["bios"]
        at   == CHOOSE b \in GbbBlocks(old) : TRUE
        hdr  == old.gbb[at]
        once == result.once
        new  == once.files[Target]
        Cells(a) == at + a.offset + 1 .. at + a.offset + a.size
        Named == UNION ({Cells(hdr[a]) : a \in {x \in AreaNames : Chosen(x)}}
                        \union (IF Chosen("hwid") THEN {Cells(hdr.hwid)} ELSE {}))
    IN  IF Cardinality(GbbBlocks(old)) # 1 \/ ~Feasible(hdr)
        THEN once.exit = 1 /\ once.files = call.files
        ELSE /\ \A f \in DOMAIN call.files \ {Target} : once.files[f] = call.files[f]
             /\ once.exit = IF call.first.fault.name = Target THEN 1 ELSE 0
             /\ once.exit = 0 =>
                  /\ result.then.exit = 0
                  /\ \A i \in DOMAIN old.mem \ Named : new.mem[i] = old.mem[i]
                  /\ result.then.shown.hwid = IF Chosen("hwid") THEN Choice("hwid")
                                              ELSE IF hdr.hwid.size = 0 THEN <<>>
                                              ELSE Fu!String(old, at + hdr.hwid.offset)
                  /\ Chosen("hwid") => result.then.shown.digest
                  /\ result.then.shown.flags = IF Chosen("flags") THEN Choice("flags") ELSE hdr.flags
                  /\ \A a \in AreaNames :
                       result.then.files[ExportedTo[a]].mem =
                         IF Chosen(a) THEN Padded(call.files[Choice(a)].mem, hdr[a].size)
                         ELSE Fu!Area(old, at, hdr[a])
                  /\ Chosen("rootkey") => result.then.shown.roothash
                  /\ Len(new.mem) = Len(old.mem)

(* A block made by gbb_utility --create is the one block of its file, as   *)
(* large as the file, with the four areas of the sizes asked for one after *)
(* the other behind the header, all zero (cmd_gbb_utility.c:132-202,       *)
(* 628-650).                                                               *)
GbbCreateExact ==
  Returned("gbb") /\ Asks("c") /\ result.once.exit = 0 =>
    LET new == result.once.files["bios"]
        hdr == new.gbb[0]
        areas == <<hdr.hwid, hdr.rootkey, hdr.bmpfv, hdr.recovery_key>>
    IN  /\ GbbBlocks(new) = {0} /\ result.then.exit = 0
        /\ \A i \in 1 .. 4 : areas[i].size = (IF i \in DOMAIN Choice("c") THEN Choice("c")[i] ELSE 0)
        /\ areas[1].offset = 2
        /\ \A i \in 1 .. 3 : areas[i + 1].offset = areas[i].offset + areas[i].size
        /\ areas[4].offset + areas[4].size = Len(new.mem)
        /\ Fu!maxlen(hdr) = Len(new.mem)
        /\ result.then.shown.hwid = <<>> /\ result.then.shown.flags = 0

-----------------------------------------------------------------------------
(***************************************************************************)
(* Firmware images: sign one, do something to it, verify it.               *)
(***************************************************************************)
KeyBlock(key, root) == [size |-> 1, data_key |-> key, signer |-> root]
Longer(kb, n) == [kb EXCEPT !.size = n]
OldPreamble(minor, flags, size) ==
  [size |-> 1, minor |-> minor, firmware_version |-> 1, kernel_subkey |-> 5, signer |-> 2,
   flags |-> flags, body_signature |-> [key |-> 2, data |-> <<>>, data_size |-> size]]

\* Where the areas of the images are; a key block and a preamble fill two of a VBLOCK's
\* three bytes, unless the key block is Longer: with 2 bytes it fits exactly, with 3 not.
AreaStart == [GBB |-> 6, VBLOCK_A |-> 12, FW_MAIN_A |-> 15, VBLOCK_B |-> 17, FW_MAIN_B |-> 20]
AreaSize  == [GBB |-> 6, VBLOCK_A |-> 3, FW_MAIN_A |-> 2, VBLOCK_B |-> 3, FW_MAIN_B |-> 2]
BiosSize  == 22
AreaMap(names) ==
  [ver_major |-> 1,
   areas |-> [i \in 1 .. 5 |-> LET c == Fu!bios_component[i]
                               IN  [name |-> names[c], offset |-> AreaStart[c], size |-> AreaSize[c]]]]
NewNames == [c \in Fu!Components |-> c]

\* v: for A and B, what the VBLOCK holds ("signed", "none", "badkey", or "erased" behind
\* the key block) and the size of the body in its preamble; minor, flags: of A's preamble.
BiosImage(b, v, minor, flags, names) ==
  LET body == [i \in 1 .. BiosSize |->
                 IF i - 15 \in 1 .. 2 THEN i - 15
                 ELSE IF i - 20 \in 1 .. 2 THEN (IF i - 20 = 2 THEN b ELSE 1)
                 ELSE IF i \in {9, 11, 12} THEN 1
                 ELSE IF i - 13 \in {1, 6} THEN 9 ELSE 0]
      At(ab) == AreaStart["VBLOCK_" \o ab]
      Kb(ab) == {ab} \ {x \in {"A", "B"} : v[x].is = "none"}
  IN  [Fu!Bytes(body) EXCEPT
        !.fmap = (4 :> AreaMap(names)) @@ (2 :> AreaMap([c \in Fu!Components |-> "old"])),
        !.gbb = (6 :> GbbHeader(2, 1, 0, 1, 2)),
        !.keyblock = [o \in {At(ab) : ab \in Kb("A") \union Kb("B")} |->
                        KeyBlock(IF v[IF o = At("A") THEN "A" ELSE "B"].is = "badkey"
                                 THEN Fu!BadKey ELSE 2, 1)],
        !.preamble = [o \in {At(ab) + 1 : ab \in {x \in {"A", "B"} : v[x].is \in {"signed", "badkey"}}} |->
                        IF o = At("A") + 1 THEN OldPreamble(minor, flags, v["A"].size)
                                           ELSE OldPreamble(1, 4, v["B"].size)]]

Vblocks == {[is |-> "signed", size |-> n] : n \in 1 .. 3}
           \union {[is |-> w, size |-> 1] : w \in {"none", "badkey", "erased"}}
SlotFaults == {[unusable |-> {}, nomemory |-> {}]}
          \union {[unusable |-> {k}, nomemory |-> {}] : k \in {2, 3}}
          \union {[unusable |-> {}, nomemory |-> {ab}] : ab \in {"A", "B"}}
SignOptions ==
  {[signprivate |-> 2, keyblock |-> kb, devsignprivate |-> IF dev = Fu!NoKeyBlock THEN 0 ELSE 3,
    devkeyblock |-> dev, kernel_subkey |-> sub, version |-> 7, flags |-> f, loem |-> l # "no",
    loemfault |-> l] @@ fault :
     kb \in {KeyBlock(2, 1), KeyBlock(4, 1), KeyBlock(2, 8)}
           \union {Longer(KeyBlock(2, 1), n) : n \in {2, 3}},
     dev \in {Fu!NoKeyBlock, KeyBlock(3, 1)}, sub \in {5}, f \in {Fu!None, 0, 1},
     l \in {"no", "none", "B"}, fault \in SlotFaults}
Faulty(o) == o.unusable # {} \/ o.nomemory # {}
Ordinary(o) == o.keyblock = KeyBlock(2, 1) /\ o.loemfault = "no" /\ ~Faulty(o)

\* Bytes missing at the end of the image to be signed: of FW_MAIN_B, VBLOCK_B, FW_MAIN_A,
\* VBLOCK_A, and what is behind.
Cuts == {0, 1, 3, 6, 8}

\* What happens to the image that was signed: a byte overwritten, or the end cut off.
Harms == {[cut |-> 0, pos |-> 0]} \union {[cut |-> 0, pos |-> o] : o \in 3 .. BiosSize - 1}
         \union {[cut |-> n, pos |-> 0] : n \in 1 .. 6}
Harmed(img, harm) ==
  IF harm.cut > 0
  THEN LET n == Len(img.mem) - harm.cut
           Left(f) == Fu!Within(f, {o \in DOMAIN f : o < n})
       IN  [img EXCEPT !.mem = SubSeq(@, 1, n), !.keyblock = Left(@), !.preamble = Left(@)]
  ELSE IF harm.pos = 0 THEN img ELSE Fu!Overwrite(img, harm.pos, 1)

NoHarm == [cut |-> 0, pos |-> 0]
BiosInputs ==
  \E b \in {2, 3}, va \in Vblocks, opt \in SignOptions :
     /\ b = 3 => opt.flags # 0
     /\ Faulty(opt) => opt.keyblock = KeyBlock(2, 1) /\ (3 \in opt.unusable => b = 3)
     /\ ~Ordinary(opt) => va.is # "badkey" /\ opt.flags = Fu!None
     /\ \E vb \in (IF b = 3 \/ ~Ordinary(opt) THEN {va} ELSE Vblocks),
           names \in (IF Ordinary(opt) THEN {NewNames, Fu!fmap_oldname} ELSE {NewNames}) :
        /\ names # NewNames => va = vb
        /\ \E f \in (IF va = [is |-> "signed", size |-> 2] /\ vb = va
                     THEN {<<1, 0>>, <<1, 1>>, <<1, 2>>, <<0, 6>>} ELSE {<<1, 0>>}),
              harm \in (IF Ordinary(opt) /\ opt.flags # 1 /\ va = vb /\ names = NewNames
                        THEN Harms ELSE {NoHarm}),
              cut \in (IF opt.keyblock = KeyBlock(2, 1) /\ opt.flags = Fu!None /\ names = NewNames
                       THEN Cuts ELSE {0}) :
           /\ cut # 0 => f = <<1, 0>> /\ harm = NoHarm
           /\ call = [fn |-> "bios", opt |-> opt, harm |-> harm,
                      img |-> Harmed(BiosImage(b, ("A" :> va) @@ ("B" :> vb), f[1], f[2], names),
                                     [cut |-> cut, pos |-> 0])]

Verify == [k |-> Fu!NoKey, fv |-> <<>>, strict |-> TRUE]

BiosCall ==
  call.fn = "bios" /\
  LET signed == Fu!ft_sign_bios(call.img, call.opt)
      after  == Harmed(signed.img, call.harm)
      type   == Fu!ft_recognize_bios_image(after)
  IN  Return("bios", [img |-> signed.img, loem |-> signed.loem, retval |-> signed.s.retval,
                      type |-> type,
                      verify |-> IF type = "unknown" THEN 1
                                 ELSE Fu!ft_show_bios(after, Verify).retval])

\* An area that the image does not have all of: it counts as empty and as being at the start.
Missing(c) == AreaStart[c] + AreaSize[c] > Len(call.img.mem)
Begins(c)  == IF Missing(c) THEN 0 ELSE AreaStart[c]
Room(c)    == IF Missing(c) THEN 0 ELSE AreaSize[c]
Vblock(ab) == "VBLOCK_" \o ab
FwMain(ab) == "FW_MAIN_" \o ab

\* What of a body is signed: as much as the old preamble says, or all of the area.
HasKeyBlock(ab) == /\ ~Missing(Vblock(ab)) /\ Begins(Vblock(ab)) \in DOMAIN call.img.keyblock
                   /\ call.img.keyblock[Begins(Vblock(ab))].data_key # Fu!BadKey
OldPreambleOf(ab) == Fu!PreambleAt(call.img, Begins(Vblock(ab)) + 1)
BodySize(ab) == IF HasKeyBlock(ab) THEN OldPreambleOf(ab).body_signature.data_size
                                   ELSE Room(FwMain(ab))
Body(ab) == SubSeq(call.img.mem, Begins(FwMain(ab)) + 1, Begins(FwMain(ab)) + BodySize(ab))
BodiesFit == \A ab \in {"A", "B"} : BodySize(ab) <= Room(FwMain(ab))
UsesDevKeys == Body("A") # Body("B")
CanSign == BodiesFit /\ (UsesDevKeys => call.opt.devkeyblock # Fu!NoKeyBlock)
Flags == IF call.opt.flags # Fu!None THEN call.opt.flags
         ELSE IF HasKeyBlock("A") THEN OldPreambleOf("A").flags ELSE 0
SlotKey(ab) == IF ab = "A" /\ UsesDevKeys THEN call.opt.devsignprivate ELSE call.opt.signprivate
NewBlock(ab) == IF ab = "A" /\ UsesDevKeys THEN call.opt.devkeyblock ELSE call.opt.keyblock
SlotSigned(ab) == SlotKey(ab) \notin call.opt.unusable /\ ab \notin call.opt.nomemory
NewCells(ab) == IF SlotSigned(ab)
                THEN Begins(Vblock(ab)) .. Begins(Vblock(ab)) + NewBlock(ab).size ELSE {}

(* Signing a whole firmware image writes a key block and a preamble where  *)
(* each slot's VBLOCK area starts and changes nothing else.  It is refused *)
(* when an old preamble says there is more firmware than there is room     *)
(* for, and when A and B differ and no developer keys were given.          *)
(* Afterwards B carries the normal key block, A the developer one exactly  *)
(* if the two bodies differ, each covering as much of its body as the old  *)
(* preamble did, with the flags asked for or those A had, and the LOEM     *)
(* files are copies of the two areas (file_type_bios.c:40-49, 263-497).    *)
(*                                                                         *)
(* What is not promised: a slot that cannot be signed keeps its old        *)
(* preamble while the other gets a new one, and only the exit code tells;  *)
(* a key block and a preamble longer than the area run on into what        *)
(* follows it, with success; and when the file lacks the end of an area,   *)
(* its map entry is zeroed even in an image that is refused ("Not changing *)
(* anything", file_type_bios.c:404), and a VBLOCK that is lacking is       *)
(* written at the start of the image.                                      *)
BiosSignExact ==
  Returned("bios") =>
    LET new == result.img
        old == [call.img EXCEPT !.fmap[4].areas = [i \in DOMAIN @ |->
                  IF Missing(Fu!bios_component[i])
                  THEN [@[i] EXCEPT !.offset = 0, !.size = 0] ELSE @[i]]]
        cells == NewCells("A") \union NewCells("B")
        Kept(f) == Fu!Within(f, DOMAIN f \ cells)
        \* A's block is gone where B's took its place
        shown == {ab \in {"A", "B"} : SlotSigned(ab) /\ (ab = "A" => NewCells("B") # NewCells("A"))}
        At(ab) == Begins(Vblock(ab))
    IN  IF ~CanSign THEN new = old /\ result.retval # 0 /\ result.loem = Fu!NoStructures
        ELSE /\ (result.retval = 0) =
                  /\ \A ab \in {"A", "B"} : SlotSigned(ab)
                  /\ call.opt.loem => /\ call.opt.loemfault # "B"
                                      /\ \A ab \in {"A", "B"} : ~Missing(Vblock(ab))
             /\ \A i \in DOMAIN new.mem : i - 1 \notin cells => new.mem[i] = old.mem[i]
             /\ new.fmap = old.fmap /\ new.gbb = old.gbb
             /\ DOMAIN new.keyblock \intersect cells = {At(ab) : ab \in shown}
             /\ Kept(new.keyblock) = Kept(old.keyblock) /\ Kept(new.preamble) = Kept(old.preamble)
             /\ \A ab \in shown :
                  LET pre == new.preamble[At(ab) + NewBlock(ab).size]
                  IN  /\ new.keyblock[At(ab)] = NewBlock(ab)
                      /\ pre.signer = SlotKey(ab) /\ pre.firmware_version = 7
                      /\ pre.kernel_subkey = call.opt.kernel_subkey /\ pre.flags = Flags
                      /\ pre.body_signature = Fu!CalculateSignature(Body(ab), SlotKey(ab))
             /\ DOMAIN result.loem = IF call.opt.loem THEN {"A", "B"} \ {call.opt.loemfault} ELSE {}
             /\ \A ab \in DOMAIN result.loem :
                  /\ result.loem[ab].mem = SubSeq(new.mem, At(ab) + 1, At(ab) + Room(Vblock(ab)))
                  /\ \A o \in 0 .. Room(Vblock(ab)) - 1 :
                       /\ At(ab) + o \in DOMAIN new.keyblock =>
                            result.loem[ab].keyblock[o] = new.keyblock[At(ab) + o]
                       /\ At(ab) + o \in DOMAIN new.preamble =>
                            result.loem[ab].preamble[o] = new.preamble[At(ab) + o]

\* The bytes a change of which must not go unnoticed.
SignedPart(ab) == NewCells(ab)
              \union (IF Flags % 2 = 1 THEN {}
                      ELSE Begins(FwMain(ab)) .. Begins(FwMain(ab)) + BodySize(ab) - 1)
Guarded == 4 .. 7 \union {10, 11} \union SignedPart("A") \union SignedPart("B")

(* futility verify accepts a firmware image both slots of which were just  *)
(* signed exactly when the private key was that of the key block, the key  *)
(* block was signed with the root key in the GBB and, with the preamble,   *)
(* fits the area, and no area was missing: what signing did not refuse is  *)
(* refused here.  After that it accepts the image with one byte            *)
(* overwritten, or cut short, exactly when nothing that is signed, or      *)
(* needed to find it, was touched: not the flash map, the header and the   *)
(* keys of the GBB, the key blocks, the preambles, nor the bodies unless   *)
(* the preamble says the read-only firmware is to be run                   *)
(* (cmd_show.c:160-285, file_type_bios.c:54-239).                          *)
BiosVerifyExact ==
  Returned("bios") /\ CanSign /\ SlotSigned("A") /\ SlotSigned("B") =>
    (result.verify = 0) =
       (/\ call.opt.keyblock \in {Longer(KeyBlock(2, 1), n) : n \in 1 .. 2}
        /\ \A c \in Fu!Components : ~Missing(c)
        /\ call.harm.cut = 0 /\ call.harm.pos \notin Guarded)

-----------------------------------------------------------------------------
(***************************************************************************)
(* futility sign and futility show on named files.                         *)
(***************************************************************************)
Kp == INSTANCE FutilKernel

AnOption(o)  == [o |-> o, v |-> Kp!NoName, good |-> TRUE]
Unusable(o)  == [o |-> o, v |-> Kp!NoName, good |-> FALSE]
Naming(o, v) == [o |-> o, v |-> v, good |-> TRUE]
AFile(type, payload) == [kind |-> "file", type |-> type, payload |-> <<payload>>]

AllKeys == <<AnOption("signprivate"), AnOption("keyblock"), AnOption("kernelkey"), AnOption("version")>>
OptionLists ==
  {<<>>, AllKeys, <<AnOption("signprivate")>>, <<Unusable("signprivate")>>, <<AnOption("vblockonly")>>,
   <<AnOption("signprivate"), AnOption("vblockonly")>>, <<AnOption("help")>>, <<Unusable("flags")>>,
   <<AnOption("pem_signpriv")>>, <<AnOption("pem_signpriv"), AnOption("pem_algo")>>,
   <<AnOption("signprivate"), Unusable("signprivate")>>, <<AnOption("nonsense")>>,
   <<AnOption("prikey")>>, AllKeys \o <<Naming("type", "fwblob")>>, <<Unusable("type")>>,
   AllKeys \o <<AnOption("bootloader"), AnOption("config"), AnOption("arch")>>}
SignTypes == {"bios", "kernel", "pubkey", "unknown", "gbb", "rwsig", "usbpd1"}
SignFaults == {"none", "copy", "open", "map", "write", "sync", "sign"}

\* The input and the output, named by options or by their place, and a third name.
FileArgs ==
  {[in |-> "in", out |-> o, inopt |-> i, outopt |-> j, more |-> m] :
     o \in {Kp!NoName, "in", "out"}, i \in {"no", "infile", "fv"}, j \in BOOLEAN, m \in BOOLEAN}
  \union {[in |-> Kp!NoName, out |-> Kp!NoName, inopt |-> "no", outopt |-> FALSE, more |-> FALSE]}
OptionsOf(c) ==
  (IF c.args.inopt # "no" THEN <<Naming(c.args.inopt, c.args.in)>> ELSE <<>>) \o c.opts
  \o (IF c.args.outopt THEN <<Naming("outfile", c.args.out)>> ELSE <<>>)
NamesOf(a) ==
  (IF a.inopt = "no" /\ a.in # Kp!NoName THEN <<a.in>> ELSE <<>>)
  \o (IF ~a.outopt /\ a.out # Kp!NoName THEN <<a.out>> ELSE <<>>)
  \o (IF a.more THEN <<"third">> ELSE <<>>)

SignInputs ==
  \E args \in FileArgs, opts \in OptionLists, t \in SignTypes, fault \in SignFaults,
     kind \in {"file", "dir", "none"}, there \in BOOLEAN :
     /\ args.out = Kp!NoName => ~args.outopt /\ ~args.more
     /\ kind # "file" => t = "unknown" /\ fault = "none"
     /\ args.more \/ args.inopt = "fv" \/ t \in {"gbb", "usbpd1"} => fault = "none"
     /\ call = [fn |-> "sign", args |-> args, opts |-> opts, fault |-> fault,
                files |-> [n \in (IF kind = "none" THEN {} ELSE {"in"}) |->
                             [AFile(t, "new") EXCEPT !.kind = kind]]
                          @@ [n \in (IF there THEN {"out"} ELSE {}) |-> AFile("kernel", "old")]]

SignCall ==
  call.fn = "sign" /\
  Return("sign", Kp!do_sign(OptionsOf(call), NamesOf(call.args), call.files, call.fault))

UsableOption(o) == LET is == {i \in DOMAIN call.opts : call.opts[i].o = o}
             IN  is # {} /\ call.opts[CHOOSE i \in is : \A j \in is : j <= i].good
Given == {o \in {call.opts[i].o : i \in DOMAIN call.opts} : UsableOption(o)}
OptionsGood == \A i \in DOMAIN call.opts : call.opts[i].good /\ call.opts[i].o # "nonsense"

\* The type a file is signed as.
SignedAs ==
  IF UsableOption("type") THEN "fwblob"
  ELSE IF call.files["in"].type # "unknown" THEN call.files["in"].type
  ELSE IF "bootloader" \in Given THEN "vmlinuz"
  ELSE IF "kernelkey" \in Given \/ call.args.inopt = "fv" THEN "fwblob" ELSE "unknown"
NeedsOutput == SignedAs \in Kp!IntoNew \/ (SignedAs = "kernel" /\ "vblockonly" \in Given)
Suffices ==
  CASE SignedAs = "pubkey" -> /\ ("pem_signpriv" \in Given) = ("pem_algo" \in Given)
    [] SignedAs \in DOMAIN Kp!Required -> Kp!Required[SignedAs] \subseteq Given
    [] OTHER -> FALSE
Output == IF call.args.out = Kp!NoName THEN "in" ELSE call.args.out

(* futility sign leaves every file alone but its output.  With success the *)
(* output is the input, signed once; the input itself is changed only if   *)
(* it is the only file named.  With wrong or missing arguments nothing at  *)
(* all changes, and when a step fails in between no file but the output    *)
(* has been touched (cmd_sign.c:862-1048, misc.c:185-300).                 *)
SignTouchesOutputOnly ==
  Returned("sign") =>
    LET before == call.files
        after  == result.files
        ready  == /\ "in" \in DOMAIN before /\ call.args.in = "in" /\ OptionsGood
                  /\ before["in"].kind = "file"
                  /\ ~call.args.more /\ Suffices
                  /\ NeedsOutput => call.args.out # Kp!NoName
        named  == call.args.out # Kp!NoName
        toItself == call.args.out = "in" /\ SignedAs \notin Kp!IntoNew
                    /\ ~(SignedAs = "kernel" /\ "vblockonly" \in Given)
    IN  /\ \A n \in DOMAIN before \ {Output} : n \in DOMAIN after /\ after[n] = before[n]
        /\ DOMAIN after \subseteq DOMAIN before \union {Output}
        /\ UsableOption("help") => after = before
        /\ ~UsableOption("help") /\ call.fault = "none" =>
             (result.exit = 0) = (ready /\ ~toItself)
        /\ result.exit = 0 /\ ~UsableOption("help") =>
             after[Output] = [before["in"] EXCEPT !.payload = <<"new", "signed">>]
        /\ result.exit = 1 =>
             \/ after = before
             \/ ready /\ named
             \/ ready /\ call.fault = "sync"
             \/ OptionsGood /\ named /\ "in" \in DOMAIN before /\ SignedAs \notin Kp!Signable
                /\ after[Output] \in {before["in"], [before["in"] EXCEPT !.payload = <<"part">>]}

ShowInputs ==
  \E names \in UNION {[1 .. n -> {"a", "b", "c", "d"}] : n \in 0 .. 3}, bad \in SUBSET {"a", "b"},
     opts \in {<<>>, <<AnOption("t")>>, <<Naming("type", "kernel")>>, <<Unusable("k")>>} :
     call = [fn |-> "show", opts |-> opts, names |-> names, bad |-> bad]

\* d does not exist
ShowFiles == ("a" :> AFile("bios", "x")) @@ ("b" :> AFile("kernel", "y")) @@ ("c" :> AFile("unknown", "z"))
ShowCall ==
  call.fn = "show" /\ Return("show", Kp!do_show(call.opts, call.names, ShowFiles, call.bad))

(* futility show and verify look at every file named, the ones after a     *)
(* file that cannot be opened or does not verify too, and succeed exactly  *)
(* when there is a file and each one is of a known type and in order       *)
(* (cmd_show.c:564-620).                                                   *)
ShowLooksAtAll ==
  Returned("show") =>
    LET named == {call.names[i] : i \in DOMAIN call.names}
        known == IF call.opts = <<Naming("type", "kernel")>> THEN {"a", "b", "c"} ELSE {"a", "b"}
    IN  IF call.opts = <<Unusable("k")>> \/ named = {} THEN result.exit = 1 /\ result.shown = {}
        ELSE IF call.opts = <<AnOption("t")>>
             THEN (result.exit = 0) = ("d" \notin named) /\ result.shown = {}
        ELSE /\ result.shown = named \intersect known
             /\ (result.exit = 0) = (named \subseteq known \ call.bad)

-----------------------------------------------------------------------------
FutilInputs == GbbInputs \/ BiosInputs \/ SignInputs \/ ShowInputs
FutilNext == call.fn \in {"gbb", "bios", "sign", "show"} /\ (GbbCall \/ BiosCall \/ SignCall \/ ShowCall)

(***************************************************************************)
(* Kernel partitions.                                                      *)
(***************************************************************************)
KeyBlockOf(size, key, version) ==
  [size |-> size, data_key |-> key, key_version |-> version, signer |-> 1]
WriteFaults == {"none", "open", "write", "close"}

PackOptions ==
  [vmlinuz : {<<0, 5>>, <<1, 5, 6, 7, 8>>}, arch : {"x86", "arm"}, load : {100},
   config : {<<>>, <<97, 10, 98>>, <<45, 45, 32, 97>>, <<97, 97, 97, 97, 97, 97>>},
   bootloader : {<<>>, <<7, 7, 7>>}, keyblock : {KeyBlockOf(n, 2, 3) : n \in {1, 4}},
   signprivate : {2, 4}, version : {Kp!None, 5}, flags : {Kp!None, 1}, pad : {4, 8},
   vblockonly : BOOLEAN]

Usual == [vmlinuz |-> <<1, 5, 6, 7, 8>>, arch |-> "x86", load |-> 100, config |-> <<97, 32, 98>>,
          bootloader |-> <<7, 7, 7>>, keyblock |-> KeyBlockOf(1, 2, 3), signprivate |-> 2,
          version |-> 5, flags |-> 1, pad |-> 8, vblockonly |-> FALSE]
Lacking ==
  {[Usual EXCEPT !.vmlinuz = x] : x \in {<<2, 5>>, <<>>, Kp!Unread}}
  \union {[Usual EXCEPT !.config = Kp!Unread], [Usual EXCEPT !.bootloader = Kp!Unread],
          [Usual EXCEPT !.keyblock = Kp!NoKeyBlock], [Usual EXCEPT !.signprivate = 0],
          [Usual EXCEPT !.keyblock.data_key = Kp!BadKey]}

Readings == [pubkey : {0, 1, 8}, min_version : {0, 3 * 65536 + 5, 4 * 65536, 6},
             pad : {4, 8}]

KpackInputs ==
  \E o \in PackOptions \union Lacking, r \in Readings, f \in WriteFaults :
     /\ f # "none" => o \in Lacking \union {Usual}
     /\ o.vblockonly => o.pad = r.pad /\ o.flags = 1
     /\ o.bootloader = <<>> => o.flags = 1
     /\ r.pubkey # 0 => r.min_version = 0
     /\ o.signprivate = 4 => r.min_version = 0 /\ r.pubkey = 0
     /\ call = [fn |-> "kpack", o |-> o, r |-> r, fault |-> f]

Shown(kpart, pubkey, pad) ==
  Kp!ft_show_kernel_preamble(kpart, [k |-> pubkey, fv |-> <<>>, strict |-> pubkey # 0, padding |-> pad])

KpackCall ==
  call.fn = "kpack" /\
  LET p == Kp!Pack(call.o, call.fault)
      k == p.out.kpart
  IN  Return("kpack",
        IF p.out.is # "kpart" THEN [rv |-> p.rv, out |-> p.out]
        ELSE [rv |-> p.rv, out |-> p.out,
              raw |-> Kp!ft_sign_raw_kernel(call.o.vmlinuz,
                        [call.o EXCEPT !.config = Kp!ReadConfigFile(@)], call.fault),
              verify |-> Kp!Verify(k, call.r.pad, call.r.pubkey, call.r.min_version),
              show   |-> Shown(k, call.r.pubkey, call.r.pad),
              linux  |-> Kp!GetVmlinuz(k, call.r.pad, "none")])

OneLine(config) == [i \in DOMAIN config |-> IF config[i] = 10 THEN 32 ELSE config[i]]
BytesAt(blob, at, n) == SubSeq(blob, at + 1, at + n)

(* A kernel packed by vbutil_kernel is what its readers find: --verify and *)
(* futility show accept it exactly when the key that signed it is that of  *)
(* the key block, the key block was signed by the key asked for, neither   *)
(* version is below the minimum, and they look for the blob where it is;   *)
(* then both show the command line that was given, on one line.  The       *)
(* kernel, its header and the boot loader are where the preamble says, and *)
(* on x86 the boot parameters point to the command line.  futility sign    *)
(* makes the same partition from the same parts.  A packing that fails     *)
(* leaves no file behind but the old one (vb1_helper.c:152-216, 397-626,   *)
(* 629-716; cmd_vbutil_kernel.c:393-468, 544-643; cmd_sign.c:99-152).      *)
KernelPackExact ==
  Returned("kpack") =>
    LET o == call.o
        r == call.r
        start == IF o.arch = "x86" THEN o.vmlinuz[1] + 1 ELSE 0
        kernel == SubSeq(o.vmlinuz, start + 1, Len(o.vmlinuz))
        complete == /\ o \notin Lacking \/ o.keyblock.data_key = Kp!BadKey
                    /\ Len(o.config) < 6
        k   == result.out.kpart
        pre == k.preamble
        version == IF o.version = Kp!None THEN Kp!MaxVersion ELSE o.version
        good == /\ o.signprivate = o.keyblock.data_key
                /\ r.pubkey \in {0, 1}
        current == 3 >= r.min_version \div 65536 /\ version >= r.min_version % 65536
        vblock == IF o.keyblock.size + 2 > o.pad THEN o.keyblock.size + 2 ELSE o.pad
        found == vblock <= r.pad /\ r.pad <= vblock + Len(k.rest) /\ ~o.vblockonly
        At(addr) == addr - pre.body_load_address
    IN  /\ (result.rv = 0) = (complete /\ call.fault \in {"none", "close"})
        /\ ~complete => result.out.is = "untouched"
        /\ result.rv # 0 => result.out.is \in {"untouched", "removed"}
        /\ result.out.is = "kpart" =>
             /\ (result.verify.rv = 0) = (good /\ current /\ found)
             /\ (result.show.rv = 0) = (good /\ vblock = r.pad /\ ~o.vblockonly)
             /\ result.verify.rv = 0 => result.verify.config = OneLine(o.config)
             /\ result.show.rv = 0 => result.show.config = OneLine(o.config)
             /\ o.version # Kp!None => result.raw.out = result.out
             /\ result.verify.saved => r.pubkey \in {0, 1}
             /\ ~o.vblockonly =>
                  /\ BytesAt(k.rest, 0, Len(kernel)) = kernel
                  /\ BytesAt(k.rest, At(pre.bootloader_address), Len(o.bootloader)) = o.bootloader
                  /\ pre.bootloader_size >= Len(o.bootloader)
                  /\ start > 0 => /\ pre.vmlinuz_header_size = start
                                  /\ BytesAt(k.rest, At(pre.vmlinuz_header_address), start)
                                       = SubSeq(o.vmlinuz, 1, start)
                                  /\ k.rest[At(pre.bootloader_address) - 4 + 3]
                                       = pre.body_load_address + Kp!KernelCmdLineOffset(pre)
                  /\ (result.linux.rv = 0) = found
                  /\ found => result.linux.out.bytes = SubSeq(o.vmlinuz, 1, start) \o k.rest

-----------------------------------------------------------------------------
\* Partitions to be signed again: one of those packed, of an older version of the
\* preamble perhaps, perhaps with more bytes behind it or some missing.
Partitions ==
  {[kp EXCEPT !.preamble.minor = m, !.rest = @ \o tail] :
     kp \in {Kp!Pack([Usual EXCEPT !.pad = p, !.arch = a, !.keyblock.size = n], "none").out.kpart :
               p \in {4, 8}, a \in {"x86", "arm"}, n \in {1, 4}},
     m \in 0 .. 2, tail \in {<<>>, <<9, 9>>}}

SignAgain ==
  [config : {Kp!Unread, <<>>, <<99, 10>>, <<97, 97, 97, 97, 97, 97>>},
   keyblock : {Kp!NoKeyBlock} \union {KeyBlockOf(n, k, 4) : n \in {1, 3}, k \in {2, 3}},
   signprivate : {0, 2, 3}, version : {Kp!None, 6}, flags : {Kp!None, 2}, pad : {4, 8},
   vblockonly : {FALSE}]

KsignInputs ==
  \E k \in Partitions, o \in SignAgain, way \in {"repack", "sign", "inplace"}, f \in WriteFaults :
     /\ f # "none" => /\ o.keyblock.size = 1 /\ way # "inplace" /\ k.preamble.minor = 2
                    /\ o.flags = Kp!None /\ o.signprivate # 3
     /\ k.preamble.minor = 1 => o.config = Kp!Unread
     /\ Len(o.config) = 6 => way = "repack"
     /\ o.signprivate = 0 => way = "repack"
     /\ o.signprivate = 3 => k.preamble.minor = 2 /\ o.config = Kp!Unread
     /\ o.flags = 2 => o.version = 6
     /\ call = [fn |-> "ksign", kpart |-> k, o |-> o, way |-> way, fault |-> f]

KsignCall ==
  call.fn = "ksign" /\
  LET o == [call.o EXCEPT !.config = IF call.way = "repack" THEN @ ELSE Kp!ReadConfigFile(@)]
      p == IF call.way = "repack" THEN Kp!Repack(call.kpart, o, call.fault)
           ELSE Kp!ft_sign_kern_preamble(call.kpart, o, call.way = "sign", call.fault)
  IN  Return("ksign",
        IF p.out.is # "kpart" THEN [rv |-> p.rv, out |-> p.out]
        ELSE [rv |-> p.rv, out |-> p.out, verify |-> Kp!Verify(p.out.kpart, o.pad, 1, 0),
              show |-> Shown(p.out.kpart, 1, o.pad)])

(* Signing a kernel partition again changes the vblock, and the command    *)
(* line if a new one is given, and nothing else of the kernel.  Version    *)
(* and flags are those asked for or else those it had (vbutil_kernel keeps *)
(* the flags of the file even so).  The result verifies, with either       *)
(* reader, exactly when the signing key is that of the key block and the   *)
(* new vblock fits the padding and, for a partition changed in place, is   *)
(* as large as the old one was; what follows the blob in a partition       *)
(* changed in place stays (cmd_sign.c:154-241, cmd_vbutil_kernel.c:470-542,*)
(* vb1_helper.c:220-443).                                                  *)
KernelResignExact ==
  Returned("ksign") =>
    LET o   == call.o
        old == call.kpart
        oldv == old.keyblock.size + old.preamble.size
        n   == old.preamble.body_signature.data_size
        keyblock == IF o.keyblock = Kp!NoKeyBlock THEN old.keyblock ELSE o.keyblock
        newv == IF keyblock.size + 2 > o.pad THEN keyblock.size + 2 ELSE o.pad
        can == /\ oldv <= o.pad /\ Len(o.config) < 6
               /\ o.signprivate # 0
               /\ call.way = "repack" => oldv + Len(old.rest) >= o.pad
        k   == result.out.kpart
        pre == k.preamble
        hadflags == old.preamble.minor = 2
        config == IF o.config = Kp!Unread THEN <<97, 32, 98>> ELSE OneLine(o.config)
        Same == {i \in 1 .. n : i - Kp!KernelCmdLineOffset(old.preamble) \notin 1 .. 6}
        verifies == /\ o.signprivate = keyblock.data_key /\ newv <= o.pad
                    /\ call.way = "inplace" => newv = oldv
    IN  /\ (result.rv = 0) = (can /\ (call.fault \in {"none", "close"} \/ call.way = "inplace"))
        /\ ~can => result.out.is = "untouched"
        /\ result.out.is = "kpart" =>
             /\ (result.verify.rv = 0) = verifies /\ (result.show.rv = 0) = verifies
             /\ pre.kernel_version = IF o.version = Kp!None THEN 5 ELSE o.version
             /\ pre.flags = IF hadflags /\ (o.flags = Kp!None \/ call.way = "repack") THEN 1
                            ELSE IF o.flags = Kp!None THEN 0 ELSE o.flags
             /\ verifies =>
                  /\ result.verify.config = config /\ result.show.config = config
                  /\ \A i \in Same : k.rest[i] = old.rest[i]
                  /\ \A f \in {"body_load_address", "bootloader_address", "bootloader_size"} :
                       pre[f] = old.preamble[f]
                  /\ SubSeq(k.rest, n + 1, Len(k.rest)) =
                       IF call.way = "inplace" THEN SubSeq(old.rest, n + 1, Len(old.rest)) ELSE <<>>

-----------------------------------------------------------------------------
KpartInputs == KpackInputs \/ KsignInputs
KpartNext == call.fn \in {"kpack", "ksign"} /\ (KpackCall \/ KsignCall)
=============================================================================
