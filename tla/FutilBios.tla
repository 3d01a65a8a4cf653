----------------------------- MODULE FutilBios ------------------------------
(***************************************************************************)
(* Firmware images as futility finds its way in them, signs them and shows *)
(* them: the Google Binary Block (GBB) it reads, edits and creates         *)
(* (futility/cmd_gbb_utility.c, misc.c, ryu_root_header.c), the flash map, *)
(* the key blocks and the firmware preambles (host/lib/fmap.c,             *)
(* futility/file_type_bios.c, ft_show_fw_preamble of cmd_show.c).          *)
(*                                                                         *)
(* An image is its bytes and the structures found in it: mem holds the     *)
(* bytes (offset o is mem[o + 1]); gbb, ryu, keyblock, preamble and fmap   *)
(* are the headers by offset.  A key pair is a number; a signature names   *)
(* its key and holds what it covers.  Sizes are scaled down; files are far *)
(* below 2^32 bytes, so sums of sizes do not wrap.                         *)
(***************************************************************************)
EXTENDS Integers, Sequences, FiniteSets, SequencesExt, TLC

GBB_MAJOR_VER     == 1
GBB_MINOR_VER     == 2
GBB_HEADER_SIZE   == 2     \* 128 bytes
GBB_SEARCH_STRIDE == 2     \* 4 bytes
SEARCH_STRIDE     == 2     \* of the root key hash
EXPECTED_VB2_RYU_ROOT_KEY_HASH_SIZE == 2
None == -1

NoStructures == [i \in {} |-> 0]
Zeros(n) == [i \in 1 .. n |-> 0]
Bytes(s) == [mem |-> s, gbb |-> NoStructures, ryu |-> NoStructures,
             keyblock |-> NoStructures, preamble |-> NoStructures, fmap |-> NoStructures]
Size(img) == Len(img.mem)

(* SHA-256 as an injection; <<>> is a digest that was never set *)
Digest(s) == <<1>> \o s
Unset == <<>>

Area(img, at, a) == SubSeq(img.mem, at + a.offset + 1, at + a.offset + a.size)

(* memset of the area to 0, then a copy to its start *)
Refill(img, at, a, bytes) ==
  [img EXCEPT !.mem = [i \in DOMAIN @ |->
     LET k == i - at - a.offset
     IN IF k \in 1 .. Len(bytes) THEN bytes[k]
        ELSE IF k \in 1 .. a.size THEN 0 ELSE @[i]]]

(* The C string at an offset *)
String(img, pos) ==
  LET end == CHOOSE e \in pos + 1 .. Size(img) + 1 :
               /\ e = Size(img) + 1 \/ img.mem[e] = 0
               /\ \A i \in pos + 1 .. e - 1 : img.mem[i] # 0
  IN SubSeq(img.mem, pos + 1, end - 1)

is_null_terminated(s) == \E i \in DOMAIN s : s[i] = 0

futil_valid_gbb_header(img, at, len) ==
  LET gbb == img.gbb[at]
      Fits(a) == a.offset >= GBB_HEADER_SIZE /\ a.offset + a.size <= len
  IN /\ len >= GBB_HEADER_SIZE
     /\ gbb.major_version = GBB_MAJOR_VER
     /\ gbb.header_size = GBB_HEADER_SIZE
     /\ Fits(gbb.hwid)
     /\ gbb.hwid.size # 0 => is_null_terminated(Area(img, at, gbb.hwid))
     /\ Fits(gbb.rootkey) /\ Fits(gbb.bmpfv) /\ Fits(gbb.recovery_key)

(* maxlen_ptr of futil_valid_gbb_header *)
maxlen(gbb) ==
  LET ends == {gbb.header_size} \union
              {a.offset + a.size : a \in {gbb.hwid, gbb.rootkey, gbb.bmpfv, gbb.recovery_key}}
  IN CHOOSE m \in ends : \A e \in ends : e <= m

FindGbbHeader(img) ==
  LET found == {at \in DOMAIN img.gbb : /\ at % GBB_SEARCH_STRIDE = 0
                                        /\ at <= Size(img) - GBB_SEARCH_STRIDE
                                        /\ futil_valid_gbb_header(img, at, Size(img) - at)}
  IN IF Cardinality(found) = 1 THEN CHOOSE at \in found : TRUE ELSE None

HwidDigest(img, at) == Digest(String(img, at + img.gbb[at].hwid.offset))

(* The digest shown is the right one (or there is none before v1.2) *)
print_hwid_digest(img, at) ==
  img.gbb[at].minor_version < 2 \/ img.gbb[at].hwid_digest = HwidDigest(img, at)

update_hwid_digest(img, at) ==
  IF img.gbb[at].minor_version < 2 THEN img
  ELSE [img EXCEPT !.gbb[at].hwid_digest = HwidDigest(img, at)]

valid_ryu_root_header(hash, size) ==
  /\ hash.header_version_major = 1
  /\ hash.struct_size >= EXPECTED_VB2_RYU_ROOT_KEY_HASH_SIZE
  /\ hash.struct_size <= size

(* The first valid header; more than one is only warned about *)
find_ryu_root_header(img) ==
  LET found == {i \in DOMAIN img.ryu : /\ i % SEARCH_STRIDE = 0
                                       /\ i <= Size(img) - SEARCH_STRIDE
                                       /\ valid_ryu_root_header(img.ryu[i], Size(img) - i)}
  IN IF found = {} THEN None ELSE CHOOSE i \in found : \A j \in found : i <= j

calculate_root_key_hash(img, at) == Digest(Area(img, at, img.gbb[at].rootkey))

fill_ryu_root_header(img, at) ==
  LET h == find_ryu_root_header(img)
  IN IF h = None THEN img
     ELSE [img EXCEPT !.ryu[h].root_key_hash_digest = calculate_root_key_hash(img, at)]

verify_ryu_root_header(img, at) ==
  LET h == find_ryu_root_header(img)
  IN \/ h = None
     \/ img.ryu[h].root_key_hash_digest \in {Unset, calculate_root_key_hash(img, at)}

(* A size of the creation string that is not a number *)
NotANumber == -1

(* val[i], with 0 for the sizes that were not given *)
Val(sizes, i) == IF i \in DOMAIN sizes THEN sizes[i] ELSE 0

(* Where the k-th area starts: after the header and the areas before it *)
Offset(sizes, k) ==
  GBB_HEADER_SIZE + (IF k > 1 THEN Val(sizes, 1) ELSE 0) + (IF k > 2 THEN Val(sizes, 2) ELSE 0)
    + (IF k > 3 THEN Val(sizes, 3) ELSE 0)

create_gbb(sizes) ==
  LET Block(k) == [offset |-> Offset(sizes, k), size |-> Val(sizes, k)]
      size == GBB_HEADER_SIZE + Val(sizes, 1) + Val(sizes, 2) + Val(sizes, 3) + Val(sizes, 4)
  IN [Bytes(Zeros(size)) EXCEPT
        !.gbb = (0 :> [major_version |-> GBB_MAJOR_VER, minor_version |-> GBB_MINOR_VER,
                       header_size |-> GBB_HEADER_SIZE, flags |-> 0,
                       hwid |-> Block(1), rootkey |-> Block(2), bmpfv |-> Block(3),
                       recovery_key |-> Block(4), hwid_digest |-> Unset])]

-----------------------------------------------------------------------------
(* The files the command sees, by name, and the write that fails, if any:  *)
(* fault.name is opened for writing, and either cannot be (at = "open") or *)
(* keeps only the first fault.kept bytes (at = "write", the error reported *)
(* by fwrite or fclose).                                                   *)

Within(f, S) == [x \in DOMAIN f \intersect S |-> f[x]]
Prefix(img, n) ==
  [Bytes(SubSeq(img.mem, 1, n)) EXCEPT !.gbb = Within(img.gbb, 0 .. n - GBB_HEADER_SIZE),
     !.ryu = Within(img.ryu, 0 .. n - EXPECTED_VB2_RYU_ROOT_KEY_HASH_SIZE)]

(* fopen "wb" empties the file before anything is written *)
write_to_file(s, name, img, fault) ==
  IF fault.name # name THEN [s EXCEPT !.files = (name :> img) @@ @]
  ELSE IF fault.at = "open" THEN [s EXCEPT !.errorcnt = @ + 1]
  ELSE [s EXCEPT !.errorcnt = @ + 1, !.files = (name :> Prefix(img, fault.kept)) @@ @]

(* An empty file cannot be read: fread returns no item *)
read_entire_file(files, name) == name \in DOMAIN files /\ Size(files[name]) > 0

(* Into the area of the image, which keeps nothing of what it held *)
read_from_file(s, img, at, a, name) ==
  IF name \notin DOMAIN s.files \/ Size(s.files[name]) > a.size
  THEN [img |-> img, ok |-> FALSE]
  ELSE [img |-> Refill(img, at, a, s.files[name].mem), ok |-> TRUE]

(* getopt_long: --hwid and --flags take a value once -s was seen, and none *)
(* before it or after -g.  An option is [o, has, file, num]: its argument  *)
(* is the name of a file, a number, or a sequence of them.                 *)
Optarg(x) == CASE x.o = "flags" -> x.num[1]
               [] x.o \in {"hwid", "c"} -> x.num
               [] OTHER -> x.file

Options(opts) ==
  FoldLeft(LAMBDA p, x :
      CASE x.o = "g" -> [p EXCEPT !.mode = "get", !.takes = FALSE]
        [] x.o = "s" -> [p EXCEPT !.mode = "set", !.takes = TRUE]
        [] x.o = "c" -> [p EXCEPT !.mode = "create", !.val = (x.o :> Optarg(x)) @@ @]
        [] x.o \in {"hwid", "flags"} /\ x.has # p.takes -> [p EXCEPT !.errorcnt = @ + 1]
        [] OTHER -> [p EXCEPT !.sel = @ \union {x.o},
                              !.val = IF x.has THEN (x.o :> Optarg(x)) @@ @ ELSE @],
    [mode |-> "get", takes |-> FALSE, errorcnt |-> 0, sel |-> {}, val |-> NoStructures],
    opts)

Exports == <<"rootkey", "bmpfv", "recovery_key">>
NotShown == [hwid |-> <<>>, digest |-> TRUE, roothash |-> TRUE, flags |-> 0]
Exit(s) == [files |-> s.files, exit |-> IF s.errorcnt = 0 THEN 0 ELSE 1, shown |-> s.shown]
Fail(s) == Exit([s EXCEPT !.errorcnt = 1])

DO_GET(p, names, s, fault) ==
  IF names = <<>> \/ ~read_entire_file(s.files, names[1]) THEN Fail(s)
  ELSE
  LET inbuf == s.files[names[1]]
      at    == FindGbbHeader(inbuf)
      gbb   == inbuf.gbb[at]
      sel   == p.sel \union
               (IF p.sel \intersect {"rootkey", "bmpfv", "recovery_key", "flags", "digest"} = {}
                THEN {"hwid"} ELSE {})
      shown == [hwid |-> IF "hwid" \in sel /\ gbb.hwid.size # 0
                         THEN String(inbuf, at + gbb.hwid.offset) ELSE <<>>,
                digest   |-> "digest" \in sel => print_hwid_digest(inbuf, at),
                roothash |-> "roothash" \in sel => verify_ryu_root_header(inbuf, at),
                flags    |-> IF "flags" \in sel THEN gbb.flags ELSE 0]
  IN IF at = None THEN Fail(s)
     ELSE Exit(FoldLeft(LAMBDA t, x :
                 IF x \notin DOMAIN p.val THEN t
                 ELSE write_to_file(t, p.val[x], Bytes(Area(inbuf, at, gbb[x])), fault),
               [s EXCEPT !.shown = shown], Exports))

(* The HWID, then the flags, then the three areas, into a copy of the file *)
SetHwid(p, at, t) ==
  LET a == t.img.gbb[at].hwid
  IN IF "hwid" \notin DOMAIN p.val THEN t
     ELSE IF Len(p.val["hwid"]) + 1 > a.size THEN [t EXCEPT !.ok = FALSE]
     ELSE [t EXCEPT !.img = update_hwid_digest(Refill(@, at, a, p.val["hwid"]), at)]

SetFlags(p, at, t) ==
  IF "flags" \notin DOMAIN p.val THEN t
  ELSE IF p.val["flags"] = NotANumber THEN [t EXCEPT !.ok = FALSE]
  ELSE [t EXCEPT !.img.gbb[at].flags = p.val["flags"]]

SetArea(p, at, s, t, x) ==
  IF x \notin DOMAIN p.val THEN t
  ELSE LET r == read_from_file(s, t.img, at, t.img.gbb[at][x], p.val[x])
       IN [img |-> IF x = "rootkey" THEN fill_ryu_root_header(r.img, at) ELSE r.img,
           ok  |-> t.ok /\ r.ok]

(* Nothing is written when anything went wrong *)
DO_SET(p, names, s, fault) ==
  IF \/ names = <<>>
     \/ \E x \in {"hwid", "flags"} : x \in p.sel /\ x \notin DOMAIN p.val
     \/ ~read_entire_file(s.files, names[1])
  THEN Fail(s)
  ELSE
  LET outfile == IF "o" \in DOMAIN p.val THEN p.val["o"]
                 ELSE IF Len(names) = 1 THEN names[1] ELSE names[2]
      inbuf == s.files[names[1]]
      at    == FindGbbHeader(inbuf)
      t     == FoldLeft(LAMBDA u, x : SetArea(p, at, s, u, x),
                        SetFlags(p, at, SetHwid(p, at, [img |-> inbuf, ok |-> TRUE])), Exports)
  IN IF at = None \/ ~t.ok THEN Fail(s)
     ELSE Exit(write_to_file(s, outfile, t.img, fault))

DO_CREATE(p, names, s, fault) ==
  IF "o" \notin DOMAIN p.val /\ names = <<>> THEN Fail(s)
  ELSE IF \E i \in DOMAIN p.val["c"] : p.val["c"][i] = NotANumber THEN Fail(s)
  ELSE Exit(write_to_file(s, IF "o" \in DOMAIN p.val THEN p.val["o"] ELSE names[1],
                          create_gbb(p.val["c"]), fault))

do_gbb_utility(opts, names, files, fault) ==
  LET p == Options(opts)
      s == [files |-> files, errorcnt |-> 0, shown |-> NotShown]
  IN CASE p.errorcnt > 0      -> Fail(s)
       [] p.errorcnt = 0 /\ p.mode = "get"    -> DO_GET(p, names, s, fault)
       [] p.errorcnt = 0 /\ p.mode = "set"    -> DO_SET(p, names, s, fault)
       [] p.errorcnt = 0 /\ p.mode = "create" -> DO_CREATE(p, names, s, fault)

-----------------------------------------------------------------------------
(* A key of one byte, 0 when there is none *)
PublicKeyLooksOkay(key) == Len(key) = 1 /\ key[1] # 0

NoArea == [offset |-> 0, len |-> 0, is_valid |-> FALSE]

(* ft_show_gbb on the area of the image that starts at offset; state is    *)
(* what the walk over the image has found so far                           *)
ft_show_gbb(img, offset, len, state) ==
  IF len = 0 \/ offset \notin DOMAIN img.gbb \/ ~futil_valid_gbb_header(img, offset, len)
  THEN [state EXCEPT !.retval = @ + 1]
  ELSE
  LET gbb  == img.gbb[offset]
      Key(a) == IF PublicKeyLooksOkay(Area(img, offset, a))
                THEN [offset |-> offset + a.offset, len |-> a.size, is_valid |-> TRUE]
                ELSE NoArea
      good == Key(gbb.rootkey).is_valid /\ Key(gbb.recovery_key).is_valid
  IN [state EXCEPT !.rootkey = Key(gbb.rootkey), !.recovery_key = Key(gbb.recovery_key),
                   !.area["GBB"].is_valid = good,
                   !.retval = IF good THEN @ ELSE @ + 1]

(***************************************************************************)
(* Flash map, signing and showing.                                         *)
(***************************************************************************)
FMAP_SEARCH_STRIDE == 2      \* 4 bytes
FMAP_VER_MAJOR     == 1
SizeofFmap         == 2      \* the header and the area headers
NoKey  == 0
NoKeyBlock == [size |-> 0, data_key |-> NoKey, signer |-> NoKey]
BadKey == 9                  \* an algorithm that does not exist

is_fmap(img, pos) == pos \in DOMAIN img.fmap /\ img.fmap[pos].ver_major = FMAP_VER_MAJOR

(* Offsets with the largest alignment first *)
RECURSIVE FmapSearch(_, _, _)
FmapSearch(img, lim, align) ==
  LET hits == {o \in 1 .. lim : o % (2 * align) = align /\ is_fmap(img, o)}
  IN IF align < FMAP_SEARCH_STRIDE THEN None
     ELSE IF hits # {} THEN CHOOSE o \in hits : \A x \in hits : o <= x
     ELSE FmapSearch(img, lim, align \div 2)

RECURSIVE FirstAbove(_, _)
FirstAbove(align, lim) == IF align <= lim THEN FirstAbove(2 * align, lim) ELSE align

(* Every stride from the start *)
fmap_find_InOrder(img) ==
  LET lim  == Size(img) - SizeofFmap
      hits == {o \in 0 .. lim : o % FMAP_SEARCH_STRIDE = 0 /\ is_fmap(img, o)}
  IN IF hits = {} THEN None ELSE CHOOSE o \in hits : \A x \in hits : o <= x

fmap_find(img) ==
  LET lim == Size(img) - SizeofFmap
  IN IF lim >= 0 /\ is_fmap(img, 0) THEN 0
     ELSE FmapSearch(img, lim, FirstAbove(FMAP_SEARCH_STRIDE, lim))

(* The index of the first area of that name *)
fmap_find_by_name(fmap, name) ==
  LET found == {i \in DOMAIN fmap.areas : fmap.areas[i].name = name}
  IN IF found = {} THEN None ELSE CHOOSE i \in found : \A j \in found : i <= j

bios_component == <<"GBB", "FW_MAIN_A", "FW_MAIN_B", "VBLOCK_A", "VBLOCK_B">>
fmap_oldname == [GBB |-> "GBB Area", FW_MAIN_A |-> "Firmware A Data",
                 FW_MAIN_B |-> "Firmware B Data", VBLOCK_A |-> "Firmware A Key",
                 VBLOCK_B |-> "Firmware B Key"]
Components == {bios_component[i] : i \in DOMAIN bios_component}

ft_recognize_bios_image(img) ==
  LET fmap == img.fmap[fmap_find(img)]
  IN IF fmap_find(img) = None THEN "unknown"
     ELSE IF \A c \in Components : fmap_find_by_name(fmap, c) # None THEN "bios"
     ELSE IF \A c \in Components : fmap_find_by_name(fmap, fmap_oldname[c]) # None
          THEN "oldbios" ELSE "unknown"

(* An area that reaches past the end of the file is taken to be empty; its *)
(* entry in the map is overwritten                                         *)
fmap_limit_area(area, len) ==
  IF area.offset + area.size > len THEN [area EXCEPT !.offset = 0, !.size = 0] ELSE area

-----------------------------------------------------------------------------
(* Keys, key blocks and preambles (vboot_common.c and the host library,    *)
(* modelled in VbStructs)                                  *)

CalculateSignature(data, key) == [key |-> key, data |-> data, data_size |-> Len(data)]

VerifyData(data, sig, key) ==
  /\ sig.data_size <= Len(data)
  /\ sig.key = key /\ sig.data = SubSeq(data, 1, sig.data_size)

(* With no key only the hash is checked *)
KeyBlockVerify(img, pos, len, key) ==
  /\ pos \in DOMAIN img.keyblock /\ img.keyblock[pos].size <= len
  /\ key # NoKey => img.keyblock[pos].signer = key

CreateFirmwarePreamble(version, subkey, body_sig, key, flags) ==
  [size |-> 1, minor |-> 1, firmware_version |-> version, kernel_subkey |-> subkey,
   body_signature |-> body_sig, signer |-> key, flags |-> flags]

VerifyFirmwarePreamble(img, pos, len, key) ==
  /\ pos \in DOMAIN img.preamble /\ img.preamble[pos].size <= len
  /\ img.preamble[pos].signer = key

(* VB_FIRMWARE_PREAMBLE_USE_RO_NORMAL is bit 0 *)
RoNormal(flags) == flags % 2 = 1

(* A preamble of version 2.0 has no flags *)
VbGetFirmwarePreambleFlags(preamble) == IF preamble.minor < 1 THEN 0 ELSE preamble.flags

(* memcpy of n bytes to pos: structures that overlap them are gone *)
Overwrite(img, pos, n) ==
  LET Clear(f, size) == Within(f, {o \in DOMAIN f : o + size <= pos \/ o >= pos + n})
  IN [img EXCEPT !.mem = [i \in DOMAIN @ |-> IF i - pos \in 1 .. n THEN 0 ELSE @[i]],
                 !.gbb = Clear(@, GBB_HEADER_SIZE), !.fmap = Clear(@, SizeofFmap),
                 !.ryu = Clear(@, EXPECTED_VB2_RYU_ROOT_KEY_HASH_SIZE),
                 !.keyblock = Clear(@, 1), !.preamble = Clear(@, 1)]

Contents(img, area) == SubSeq(img.mem, area.offset + 1, area.offset + area.len)

-----------------------------------------------------------------------------
(* Showing.  opt: k, the key given (or NoKey); fv, the body given (or      *)
(* <<>>); strict, for futility verify.                                     *)

NoState == [c |-> "none", area |-> [c \in Components |-> NoArea], rootkey |-> NoArea,
            recovery_key |-> NoArea, retval |-> 0]

fmap_show_fw_main(state, len) ==
  IF len = 0 THEN [state EXCEPT !.retval = @ + 1]
             ELSE [state EXCEPT !.area[state.c].is_valid = TRUE]

BodyOf(c) == IF c = "VBLOCK_A" THEN "FW_MAIN_A" ELSE "FW_MAIN_B"

(* NoState stands for a file that is a firmware preamble and nothing else *)
ft_show_fw_preamble(img, pos, len, state, opt) ==
  LET standalone == state.c = "none"
      sign_key == IF opt.k = NoKey /\ state.rootkey.is_valid
                  THEN Contents(img, state.rootkey)[1] ELSE opt.k
      good_sig == sign_key # NoKey /\ KeyBlockVerify(img, pos, len, sign_key)
      kb       == img.keyblock[pos]
      rsa      == kb.data_key
      preamble == img.preamble[pos + kb.size]
      flags    == VbGetFirmwarePreambleFlags(preamble)
      area     == state.area[BodyOf(state.c)]
      fv       == IF ~standalone /\ area.is_valid THEN Contents(img, area) ELSE opt.fv
      bad      == (opt.strict /\ ~good_sig) \/ preamble.kernel_subkey = BadKey
      Result(r, valid) == [state EXCEPT !.retval = @ + r,
                             !.area = IF valid THEN [@ EXCEPT ![state.c].is_valid = TRUE] ELSE @]
  IN IF ~KeyBlockVerify(img, pos, len, NoKey) THEN Result(1, FALSE)
     ELSE IF \/ rsa = BadKey
             \/ ~VerifyFirmwarePreamble(img, pos + kb.size, len - kb.size, rsa)
          THEN Result(1, FALSE)
     ELSE IF ~RoNormal(flags) /\ fv = <<>>
          THEN Result(IF opt.strict THEN 1 ELSE 0, FALSE)
     ELSE IF /\ ~RoNormal(flags)
             /\ ~VerifyData(fv, preamble.body_signature, rsa)
          THEN Result(1, FALSE)
     ELSE Result(IF bad THEN 1 ELSE 0, ~standalone)

(* The areas in order, each by its name or by its old name; Look is what   *)
(* is done with one.  st.img is the image mapped, st.s the state.          *)
Visit(st, c, Look(_, _)) ==
  LET at   == fmap_find(st.img)
      fmap == st.img.fmap[at]
      i    == IF fmap_find_by_name(fmap, c) # None THEN fmap_find_by_name(fmap, c)
              ELSE fmap_find_by_name(fmap, fmap_oldname[c])
      area == fmap_limit_area(fmap.areas[i], Size(st.img))
  IN IF i = None THEN st
     ELSE Look([st EXCEPT !.img.fmap[at].areas[i] = area,
                          !.s.c = c,
                          !.s.area[c] = [offset |-> area.offset, len |-> area.size,
                                         is_valid |-> FALSE]], c)

ft_show_bios(img, opt) ==
  LET Look(st, c) ==
        LET a == st.s.area[c]
        IN [st EXCEPT !.s = CASE c = "GBB" -> ft_show_gbb(st.img, a.offset, a.len, st.s)
                              [] c \in {"FW_MAIN_A", "FW_MAIN_B"} -> fmap_show_fw_main(st.s, a.len)
                              [] OTHER -> ft_show_fw_preamble(st.img, a.offset, a.len, st.s, opt)]
      Step(st, c) == Visit(st, c, Look)
  IN FoldLeft(Step, [img |-> img, s |-> NoState], bios_component).s

-----------------------------------------------------------------------------
(* Signing.  opt: signprivate and keyblock, devsignprivate and devkeyblock *)
(* (NoKey when not given), kernel_subkey, version, flags (None when not    *)
(* given), loem (whether LOEM files are asked for), loemfault (the one     *)
(* that cannot be written), unusable (the private keys OpenSSL fails on),  *)
(* nomemory (the slots for whose preamble there is no memory).             *)

(* What is at the place of a preamble: the preamble or some bytes *)
PreambleAt(img, pos) ==
  IF pos \in DOMAIN img.preamble THEN img.preamble[pos]
  ELSE [flags |-> img.mem[pos + 1], body_signature |-> [data_size |-> img.mem[pos + 1]]]

fmap_sign_fw_main(st) == [st EXCEPT !.s.area[st.s.c].is_valid = TRUE]

fmap_sign_fw_preamble(st, opt) ==
  LET c     == st.s.c
      pos   == st.s.area[c].offset
      valid == [st EXCEPT !.s.area[c].is_valid = TRUE]
      kb    == st.img.keyblock[pos]
      preamble == PreambleAt(st.img, pos + kb.size)
      fw_size  == preamble.body_signature.data_size
      flags    == IF c = "VBLOCK_A" /\ opt.flags = None THEN preamble.flags ELSE st.flags
  IN IF ~KeyBlockVerify(st.img, pos, st.s.area[c].len, NoKey) \/ kb.data_key = BadKey
     THEN valid
     ELSE IF fw_size > st.s.area[BodyOf(c)].len
     THEN [st EXCEPT !.flags = flags, !.s.retval = @ + 1]
     ELSE [valid EXCEPT !.flags = flags, !.s.area[BodyOf(c)].len = fw_size]

(* The body cannot be signed with that key, or there is no memory for the  *)
(* preamble of that slot                                                   *)
CannotSign(ab, signkey, opt) == signkey \in opt.unusable \/ ab \in opt.nomemory

(* The new key block and preamble are copied over what is there; nothing   *)
(* compares their size with that of the area.  A slot that cannot be       *)
(* signed is left as it is.                                                *)
write_new_preamble(st, ab, signkey, keyblock, opt) ==
  LET pos == st.s.area["VBLOCK_" \o ab].offset
      sig == CalculateSignature(Contents(st.img, st.s.area["FW_MAIN_" \o ab]), signkey)
      preamble == CreateFirmwarePreamble(opt.version, opt.kernel_subkey, sig, signkey, st.flags)
      out == Overwrite(st.img, pos, keyblock.size + preamble.size)
  IN IF CannotSign(ab, signkey, opt) THEN [st EXCEPT !.failed = TRUE]
     ELSE [st EXCEPT !.img = [out EXCEPT !.keyblock = (pos :> keyblock) @@ @,
                                         !.preamble = (pos + keyblock.size :> preamble) @@ @]]

(* The file holds the area as the image has it; fwrite of no bytes fails   *)
(* and leaves the file empty                                               *)
write_loem(st, ab, opt) ==
  LET vblock == st.s.area["VBLOCK_" \o ab]
      Inside(f) == [o \in {o \in 0 .. vblock.len - 1 : vblock.offset + o \in DOMAIN f} |->
                      f[vblock.offset + o]]
      file == [Bytes(Contents(st.img, vblock)) EXCEPT !.keyblock = Inside(st.img.keyblock),
                                                      !.preamble = Inside(st.img.preamble)]
  IN IF ~opt.loem THEN st
     ELSE IF opt.loemfault = ab THEN [st EXCEPT !.failed = TRUE]
     ELSE [st EXCEPT !.loem = (ab :> file) @@ @, !.failed = @ \/ vblock.len = 0]

MustUseDevKeys(img, a, b) == a.len # b.len \/ Contents(img, a) # Contents(img, b)

(* A failure is remembered, and what is left to do is done all the same *)
sign_bios_at_end(st, opt) ==
  LET differ == MustUseDevKeys(st.img, st.s.area["FW_MAIN_A"], st.s.area["FW_MAIN_B"])
      one == IF differ THEN write_new_preamble(st, "A", opt.devsignprivate, opt.devkeyblock, opt)
                       ELSE write_new_preamble(st, "A", opt.signprivate, opt.keyblock, opt)
      two == write_new_preamble(one, "B", opt.signprivate, opt.keyblock, opt)
      end == write_loem(write_loem(two, "A", opt), "B", opt)
  IN IF \/ \E c \in Components \ {"GBB"} : ~st.s.area[c].is_valid
        \/ differ /\ (opt.devsignprivate = NoKey \/ opt.devkeyblock = NoKeyBlock)
     THEN [st EXCEPT !.s.retval = @ + 1]
     ELSE [end EXCEPT !.s.retval = IF end.failed THEN @ + 1 ELSE @]

ft_sign_bios(img, opt) ==
  LET Look(st, c) == CASE c = "GBB" -> st
                       [] c \in {"FW_MAIN_A", "FW_MAIN_B"} -> fmap_sign_fw_main(st)
                       [] OTHER -> fmap_sign_fw_preamble(st, opt)
      Step(st, c) == Visit(st, c, Look)
      start == [img |-> img, s |-> NoState, loem |-> NoStructures, failed |-> FALSE,
                flags |-> IF opt.flags = None THEN 0 ELSE opt.flags]
  IN sign_bios_at_end(FoldLeft(Step, start, bios_component), opt)
=============================================================================
