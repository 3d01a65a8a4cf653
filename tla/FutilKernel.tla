---------------------------- MODULE FutilKernel -----------------------------
(***************************************************************************)
(* Kernel partitions: futility packs, signs again, verifies and takes      *)
(* apart a key block, a kernel preamble and a kernel blob                  *)
(* (futility/vb1_helper.c, cmd_vbutil_kernel.c, and the kernel's part of   *)
(* cmd_sign.c and cmd_show.c).                                             *)
(*                                                                         *)
(* A partition is its key block, its preamble and the bytes that follow    *)
(* them; a signature names its key and holds what it covers.  A function   *)
(* that fails returns Error; files are at most a few bytes long.           *)
(*                                                                         *)
(* The second part is futility sign and futility show on named files of    *)
(* any type.                                                               *)
(***************************************************************************)
EXTENDS Integers, Sequences, FiniteSets, SequencesExt, TLC

CROS_ALIGN       == 2      \* 4096 bytes
CROS_CONFIG_SIZE == 6      \* 4096 bytes
CROS_PARAMS_SIZE == 4      \* 4096 bytes
SECTOR           == 1      \* 512 bytes of a vmlinuz
MaxVersion       == 1048576
NoKey  == 0
BadKey == 9
None   == -1
Error  == [error |-> TRUE]
Unread == <<-1>>           \* a file that was not given or cannot be read
NoKeyBlock == [size |-> 0, data_key |-> NoKey, key_version |-> 0, signer |-> NoKey]
NL     == 10
SPACE  == 32
DASH   == 45

Zeros(n) == [i \in 1 .. n |-> 0]
Put(bytes, at, part) ==
  [i \in DOMAIN bytes |-> IF i - at \in DOMAIN part THEN part[i - at] ELSE bytes[i]]
Cut(bytes, at, n) ==
  SubSeq(bytes, at + 1, IF at + n <= Len(bytes) THEN at + n ELSE Len(bytes))

(* The C string at an offset *)
CString(bytes, at) ==
  LET ends == {e \in at + 1 .. Len(bytes) : bytes[e] = 0}
  IN IF ends = {} THEN SubSeq(bytes, at + 1, Len(bytes))
     ELSE SubSeq(bytes, at + 1, (CHOOSE e \in ends : \A x \in ends : e <= x) - 1)

ReadConfigFile(config) ==
  IF CROS_CONFIG_SIZE <= Len(config) THEN Unread
  ELSE [i \in DOMAIN config |-> IF config[i] = NL THEN SPACE ELSE config[i]]

roundup(val, alignment) ==
  IF val % alignment # 0 THEN val + (alignment - (val % alignment)) ELSE val

find_cmdline_start(buf, max_len) ==
  LET At(i) == buf[i + 1]
      seps == {i \in 0 .. max_len - 2 :
                 /\ \A j \in 0 .. i : At(j) # 0
                 /\ At(i) = DASH /\ At(i + 1) = DASH
                 /\ i = 0 \/ At(i - 1) = SPACE
                 /\ i + 2 >= max_len \/ At(i + 2) = SPACE}
      start == IF seps = {} THEN 0 ELSE 2 + CHOOSE i \in seps : \A j \in seps : i <= j
  IN CHOOSE s \in start .. Len(buf) :
       /\ s = Len(buf) \/ At(s) # SPACE
       /\ \A j \in start .. s - 1 : At(j) = SPACE

KernelCmdLineOffset(preamble) ==
  preamble.bootloader_address - preamble.body_load_address - CROS_CONFIG_SIZE - CROS_PARAMS_SIZE

(* vmlinuz[1] is setup_sects *)
Kernel32Start(vmlinuz, arch) == IF arch = "x86" THEN (vmlinuz[1] + 1) * SECTOR ELSE 0

KernelSize(vmlinuz, arch) ==
  IF arch = "x86" /\ Kernel32Start(vmlinuz, arch) >= Len(vmlinuz) THEN None
  ELSE Len(vmlinuz) - Kernel32Start(vmlinuz, arch)

(* The parameters are setup_sects, type_of_loader, cmd_line_ptr and the    *)
(* number of e820 entries                                                  *)
PickApartVmlinuz(blob, vmlinuz, arch, load, config_at, param_at) ==
  LET size   == KernelSize(vmlinuz, arch)
      config == SubSeq(blob, config_at + 1, config_at + CROS_CONFIG_SIZE)
      params == IF arch = "x86"
                THEN <<vmlinuz[1], 255,
                       load + roundup(size, CROS_ALIGN)
                            + find_cmdline_start(config, CROS_CONFIG_SIZE), 2>>
                ELSE <<>>
  IN Put(Put(blob, param_at, params), 0,
         SubSeq(vmlinuz, Kernel32Start(vmlinuz, arch) + 1, Len(vmlinuz)))

ConfigAt(size) == roundup(size, CROS_ALIGN)

(* The blob and what the preamble says of its parts *)
CreateKernelBlob(vmlinuz, arch, load, config, bootloader) ==
  LET size   == KernelSize(vmlinuz, arch)
      boot_size == roundup(Len(bootloader), CROS_ALIGN)
      hdr_size  == Len(vmlinuz) - size
      config_at == ConfigAt(size)
      param_at  == config_at + CROS_CONFIG_SIZE
      boot_at   == param_at + CROS_PARAMS_SIZE
      hdr_at    == boot_at + boot_size
      blob == PickApartVmlinuz(Zeros(hdr_at + hdr_size), vmlinuz, arch, load, config_at, param_at)
  IN IF size = None THEN Error
     ELSE [blob |-> Put(Put(Put(blob, config_at, config), boot_at, bootloader), hdr_at,
                        SubSeq(vmlinuz, 1, hdr_size)),
           bootloader_address |-> load + boot_at, bootloader_size |-> boot_size,
           vmlinuz_header_address |-> IF hdr_size > 0 THEN load + hdr_at ELSE 0,
           vmlinuz_header_size |-> hdr_size]

-----------------------------------------------------------------------------
CalculateSignature(data, key) == [key |-> key, data |-> data, data_size |-> Len(data)]
VerifyData(data, sig, key) ==
  sig.data_size <= Len(data) /\ sig.key = key /\ sig.data = SubSeq(data, 1, sig.data_size)

KeyBlockVerify(keyblock, key) == key # NoKey => keyblock.signer = key
VerifyKernelPreamble(preamble, key) == preamble.signer = key

VbGetKernelVmlinuzHeader(preamble) ==
  IF preamble.minor > 0
  THEN [address |-> preamble.vmlinuz_header_address, size |-> preamble.vmlinuz_header_size]
  ELSE [address |-> 0, size |-> 0]
VbKernelHasFlags(preamble) == preamble.minor > 1

VerifyVmlinuzInsideKBlob(kblob, kblob_size, header, header_size) ==
  header >= kblob /\ header - kblob + header_size <= kblob_size

(* A partition: the bytes of its vblock are opaque *)
VblockSize(kpart) == kpart.keyblock.size + kpart.preamble.size
KPartSize(kpart)  == VblockSize(kpart) + Len(kpart.rest)
BytesFrom(kpart, at) ==
  Cut(Zeros(VblockSize(kpart)) \o kpart.rest, at, KPartSize(kpart))

(* What CreateKernelPreamble takes from the blob that was unpacked *)
Parts(preamble) ==
  [bootloader_address |-> preamble.bootloader_address,
   bootloader_size |-> preamble.bootloader_size,
   vmlinuz_header_address |-> VbGetKernelVmlinuzHeader(preamble).address,
   vmlinuz_header_size |-> VbGetKernelVmlinuzHeader(preamble).size]

(* The blob follows the vblock; data_size bytes of it are used, whether or *)
(* not the file has that many                                              *)
UnpackKPart(kpart, padding) ==
  IF \/ kpart.keyblock.size > KPartSize(kpart) \/ kpart.keyblock.size > padding
     \/ VblockSize(kpart) > KPartSize(kpart) \/ VblockSize(kpart) > padding
  THEN Error
  ELSE [blob |-> Cut(kpart.rest, 0, kpart.preamble.body_signature.data_size)]
       @@ Parts(kpart.preamble)

UpdateKernelBlobConfig(blob, preamble, config) ==
  Put(Put(blob, KernelCmdLineOffset(preamble), Zeros(CROS_CONFIG_SIZE)),
      KernelCmdLineOffset(preamble), config)

(* The size of a preamble with its signatures *)
PREAMBLE_SIZE == 2

SignKernelBlob(k, padding, version, load, keyblock, signkey, flags) ==
  LET min_size == IF padding > keyblock.size THEN padding - keyblock.size ELSE 0
  IN [keyblock |-> keyblock,
      preamble |->
        [size |-> IF PREAMBLE_SIZE < min_size THEN min_size ELSE PREAMBLE_SIZE,
         minor |-> 2, kernel_version |-> version, body_load_address |-> load,
         bootloader_address |-> k.bootloader_address, bootloader_size |-> k.bootloader_size,
         vmlinuz_header_address |-> k.vmlinuz_header_address,
         vmlinuz_header_size |-> k.vmlinuz_header_size,
         flags |-> flags, signer |-> signkey,
         body_signature |-> CalculateSignature(k.blob, signkey)]]

(* What a command leaves behind as its output file: nothing new, nothing   *)
(* at all, a partition, or a file of which some bytes were lost when it    *)
(* was closed                                                              *)
Untouched == [is |-> "untouched"]
Removed   == [is |-> "removed"]
Torn      == [is |-> "torn"]
File(kpart) == [is |-> "kpart", kpart |-> kpart]

(* fault: "none", "open", "write", or "close" (which is not looked at) *)
WriteSomeParts(kpart, fault) ==
  CASE fault = "open"  -> [rv |-> 1, out |-> Untouched]
    [] fault = "write" -> [rv |-> 1, out |-> Removed]
    [] fault = "close" -> [rv |-> 0, out |-> Torn]
    [] OTHER           -> [rv |-> 0, out |-> File(kpart)]

WithBody(vblock, blob, vblockonly) ==
  vblock @@ [rest |-> IF vblockonly THEN <<>> ELSE blob]

Failed == [rv |-> 1, out |-> Untouched]

(* vbutil_kernel --pack.  o: the options *)
Pack(o, fault) ==
  LET config == ReadConfigFile(o.config)
      k == CreateKernelBlob(o.vmlinuz, o.arch, o.load, config, o.bootloader)
      vblock == SignKernelBlob(k, o.pad, IF o.version = None THEN MaxVersion ELSE o.version,
                               o.load, o.keyblock, o.signprivate,
                               IF o.flags = None THEN 0 ELSE o.flags)
  IN IF \/ o.keyblock = NoKeyBlock \/ o.signprivate = NoKey \/ o.config = Unread
        \/ config = Unread \/ o.bootloader = Unread \/ o.vmlinuz \in {Unread, <<>>}
        \/ k = Error
     THEN Failed
     ELSE WriteSomeParts(WithBody(vblock, k.blob, o.vblockonly), fault)

ft_recognize_vblock1(kpart) ==
  IF kpart.keyblock.data_key # BadKey
     /\ VerifyKernelPreamble(kpart.preamble, kpart.keyblock.data_key)
  THEN "kernel" ELSE "keyblock"

(* A file must be as long as the padding *)
ReadOldKPartFromFileOrDie(kpart, pad) == KPartSize(kpart) >= pad

(* vbutil_kernel --repack *)
Repack(kpart, o, fault) ==
  LET k      == UnpackKPart(kpart, o.pad)
      pre    == kpart.preamble
      config == ReadConfigFile(o.config)
      blob   == IF o.config = Unread THEN k.blob ELSE UpdateKernelBlobConfig(k.blob, pre, config)
      vblock == SignKernelBlob([k EXCEPT !.blob = blob], o.pad,
                               IF o.version = None THEN pre.kernel_version ELSE o.version,
                               pre.body_load_address,
                               IF o.keyblock = NoKeyBlock THEN kpart.keyblock ELSE o.keyblock,
                               o.signprivate,
                               IF VbKernelHasFlags(pre) THEN pre.flags
                               ELSE IF o.flags = None THEN 0 ELSE o.flags)
  IN IF \/ o.signprivate = NoKey \/ ~ReadOldKPartFromFileOrDie(kpart, o.pad)
        \/ ft_recognize_vblock1(kpart) # "kernel" \/ k = Error
        \/ o.config # Unread /\ config = Unread
     THEN Failed
     ELSE WriteSomeParts(WithBody(vblock, blob, o.vblockonly), fault)

(* VerifyKernelBlob: rv, whether the key block was written out, and the    *)
(* command line shown                                                      *)
VerifyKernelBlob(kpart, blob, pubkey, min_version) ==
  LET kb == kpart.keyblock
      R(rv, saved, config) == [rv |-> rv, saved |-> saved, config |-> config]
  IN IF ~KeyBlockVerify(kb, pubkey) THEN R(1, FALSE, <<>>)
     ELSE IF \/ kb.key_version < min_version \div 65536
             \/ kb.data_key = BadKey
             \/ ~VerifyKernelPreamble(kpart.preamble, kb.data_key)
             \/ kpart.preamble.kernel_version < min_version % 65536
             \/ ~VerifyData(blob, kpart.preamble.body_signature, kb.data_key)
          THEN R(1, TRUE, <<>>)
     ELSE R(0, TRUE, CString(blob, KernelCmdLineOffset(kpart.preamble)))

(* vbutil_kernel --verify *)
Verify(kpart, pad, pubkey, min_version) ==
  IF ~ReadOldKPartFromFileOrDie(kpart, pad) \/ UnpackKPart(kpart, pad) = Error
  THEN [rv |-> 1, saved |-> FALSE, config |-> <<>>]
  ELSE VerifyKernelBlob(kpart, UnpackKPart(kpart, pad).blob, pubkey, min_version)

(* vbutil_kernel --get-vmlinuz: the header and then all of the blob *)
GetVmlinuz(kpart, pad, fault) ==
  LET k   == UnpackKPart(kpart, pad)
      hdr == VbGetKernelVmlinuzHeader(kpart.preamble)
      at  == hdr.address - kpart.preamble.body_load_address
  IN IF ~ReadOldKPartFromFileOrDie(kpart, pad) \/ k = Error \/ fault = "open"
     THEN [rv |-> 1, out |-> Untouched]
     ELSE IF \/ /\ hdr.size > 0
                /\ ~VerifyVmlinuzInsideKBlob(kpart.preamble.body_load_address,
                       kpart.preamble.body_signature.data_size, hdr.address, hdr.size)
             \/ fault = "write"
     THEN [rv |-> 1, out |-> Removed]
     ELSE [rv |-> 0, out |-> [is |-> "bytes", bytes |-> Cut(kpart.rest, at, hdr.size) \o k.blob]]

-----------------------------------------------------------------------------
(* futility sign and show *)

ft_sign_raw_kernel(vmlinuz, o, fault) ==
  LET k == CreateKernelBlob(vmlinuz, o.arch, o.load, o.config, o.bootloader)
      vblock == SignKernelBlob(k, o.pad, o.version, o.load, o.keyblock, o.signprivate,
                               IF o.flags = None THEN 0 ELSE o.flags)
  IN IF k = Error THEN Failed
     ELSE WriteSomeParts(WithBody(vblock, k.blob, o.vblockonly), fault)

(* A new vblock over the start of the file *)
CopyOver(kpart, vblock) ==
  vblock @@ [rest |-> BytesFrom(kpart, vblock.keyblock.size + vblock.preamble.size)]

SignFlags(pre, o) ==
  IF o.flags # None THEN o.flags ELSE IF VbKernelHasFlags(pre) THEN pre.flags ELSE 0

(* With no new file the partition is changed where it is *)
ft_sign_kern_preamble(kpart, o, create_new_outfile, fault) ==
  LET k   == UnpackKPart(kpart, o.pad)
      pre == kpart.preamble
      blob == IF o.config = Unread THEN k.blob ELSE UpdateKernelBlobConfig(k.blob, pre, o.config)
      vblock == SignKernelBlob([k EXCEPT !.blob = blob], o.pad,
                               IF o.version = None THEN pre.kernel_version ELSE o.version,
                               pre.body_load_address,
                               IF o.keyblock = NoKeyBlock THEN kpart.keyblock ELSE o.keyblock,
                               o.signprivate, SignFlags(pre, o))
      changed == [kpart EXCEPT !.rest = Put(@, 0, blob)]
  IN IF k = Error THEN Failed
     ELSE IF create_new_outfile
     THEN WriteSomeParts(WithBody(vblock, blob, o.vblockonly), fault)
     ELSE [rv |-> 0, out |-> File(CopyOver(changed, vblock))]

(* opt as in FutilBios, and the padding: the blob is sought there *)
ft_show_kernel_preamble(kpart, opt) ==
  LET kb == kpart.keyblock
      good_sig == opt.k # NoKey /\ KeyBlockVerify(kb, opt.k)
      blob == IF opt.fv # <<>> THEN opt.fv ELSE BytesFrom(kpart, opt.padding)
  IN IF \/ kb.data_key = BadKey \/ ~VerifyKernelPreamble(kpart.preamble, kb.data_key)
        \/ opt.fv = <<>> /\ KPartSize(kpart) <= opt.padding
        \/ ~VerifyData(blob, kpart.preamble.body_signature, kb.data_key)
     THEN [rv |-> 1, config |-> <<>>]
     ELSE [rv |-> IF opt.strict /\ ~good_sig THEN 1 ELSE 0,
           config |-> CString(blob, KernelCmdLineOffset(kpart.preamble))]

-----------------------------------------------------------------------------
(***************************************************************************)
(* futility sign and futility show: which files a command reads and        *)
(* writes, and when it refuses (do_sign of futility/cmd_sign.c, do_show of *)
(* cmd_show.c, file_type.c, the file helpers of misc.c).                   *)
(*                                                                         *)
(* A file is what it is recognized as and a payload; signing it is one     *)
(* operation here.  files maps the names that exist to files.              *)
(***************************************************************************)
NoName == "-"

(* The types with a function that signs them; those signed into a new file *)
Signable  == {"bios", "oldbios", "kernel", "pubkey", "fwblob", "vmlinuz", "rwsig", "usbpd1"}
IntoNew   == {"pubkey", "fwblob", "vmlinuz"}
Showable  == {"bios", "oldbios", "gbb", "fw_pre", "kernel", "keyblock", "pubkey", "prikey",
              "pubkey21", "prikey21", "pem", "rwsig", "usbpd1"}

-----------------------------------------------------------------------------
(* The options.  Each is a record: o, the option; v, a name or a type;     *)
(* good, whether its file could be read or its value parsed.               *)

sign_option ==
  [given |-> {}, inout_file_count |-> 0, infile |-> NoName, outfile |-> NoName,
   type |-> "unknown", errorcnt |-> 0, help |-> FALSE]

(* Options that read a file: the last one counts, NULL if it failed *)
ReadOption(s, a) ==
  [s EXCEPT !.given = IF a.good THEN @ \union {a.o} ELSE @ \ {a.o},
            !.errorcnt = IF a.good THEN @ ELSE @ + 1]

(* Options that are numbers or names: they count as given even when bad *)
ValueOption(s, a) ==
  [s EXCEPT !.given = @ \union {a.o}, !.errorcnt = IF a.good THEN @ ELSE @ + 1]

FileOption(s, a) ==
  IF a.o = "outfile" THEN [s EXCEPT !.outfile = a.v, !.inout_file_count = @ + 1]
  ELSE [s EXCEPT !.infile = a.v, !.inout_file_count = @ + 1,
                 !.given = IF a.o = "fv" THEN @ \union {"fv"} ELSE @]

TypeOption(s, a) ==
  IF a.good THEN [s EXCEPT !.type = a.v]
  ELSE [s EXCEPT !.type = "unknown", !.errorcnt = @ + 1]

ParseOptions(opts) ==
  LET Step(s, a) ==
        CASE a.o \in {"signprivate", "keyblock", "kernelkey", "devsign", "devkeyblock",
                      "bootloader", "config", "prikey"} -> ReadOption(s, a)
          [] a.o \in {"version", "flags", "kloadaddr", "pad", "pem_algo", "pem_signpriv",
                      "pem_external", "arch", "hash_alg", "vblockonly"} -> ValueOption(s, a)
          [] a.o \in {"infile", "fv", "outfile"} -> FileOption(s, a)
          [] a.o = "type" -> TypeOption(s, a)
          [] a.o = "help" -> [s EXCEPT !.help = TRUE]
          [] OTHER -> [s EXCEPT !.errorcnt = @ + 1]
  IN FoldLeft(Step, sign_option, opts)

(* futil_file_type: only regular files are looked into *)
futil_file_type(files, name) ==
  IF name \notin DOMAIN files \/ files[name].kind # "file"
  THEN [err |-> TRUE, type |-> "unknown"]
  ELSE [err |-> FALSE, type |-> files[name].type]

(* The type when the contents say nothing *)
Infer(given) ==
  IF given \intersect {"bootloader", "config", "arch"} # {} THEN "vmlinuz"
  ELSE IF given \intersect {"kernelkey", "fv"} # {} THEN "fwblob" ELSE "unknown"

no_opt_if(given, needed) == Cardinality(needed \ given)

Required == [bios |-> {"signprivate", "keyblock", "kernelkey"},
             kernel |-> {"signprivate"},
             fwblob |-> {"signprivate", "keyblock", "kernelkey", "version"},
             vmlinuz |-> {"signprivate", "keyblock", "version", "bootloader", "config", "arch"},
             usbpd1 |-> {"pem_signpriv"}, rwsig |-> {"prikey"}]

(* The number of errors in the options for a type *)
CheckArguments(type, given) ==
  LET Has(o) == o \in given
      One(b) == IF b THEN 1 ELSE 0
  IN CASE type = "pubkey" ->
            One(Has("signprivate") /\ Has("pem_signpriv"))
            + One(\/ Has("signprivate") /\ Has("pem_algo")
                  \/ Has("pem_signpriv") /\ ~Has("pem_algo"))
            + One(Has("pem_external") /\ ~Has("pem_signpriv"))
       [] type \in {"bios", "oldbios"} -> no_opt_if(given, Required["bios"])
       [] type \in DOMAIN Required -> no_opt_if(given, Required[type])
       [] OTHER -> 0

create_new_outfile(type, s) ==
  \/ type \in IntoNew
  \/ type = "kernel" /\ ("vblockonly" \in s.given \/ s.inout_file_count > 1)

-----------------------------------------------------------------------------
(* fault: "none"; "copy" (cp fails half way), "open" (of the output),      *)
(* "map", "write" (of a new file), "sync", "sign" (the signer refuses)     *)

Exit(files, n) == [exit |-> IF n > 0 THEN 1 ELSE 0, files |-> files]

(* What can be opened, mapped and copied *)
IsFile(files, name) == name \in DOMAIN files /\ files[name].kind = "file"

futil_copy_file_or_die(files, infile, outfile, fault) ==
  IF infile = outfile \/ ~IsFile(files, infile) THEN [files |-> files, died |-> TRUE]
  ELSE IF fault = "copy"
  THEN [files |-> (outfile :> [files[infile] EXCEPT !.payload = <<"part">>]) @@ files, died |-> TRUE]
  ELSE [files |-> (outfile :> files[infile]) @@ files, died |-> FALSE]

Signed(file) == [file EXCEPT !.payload = Append(@, "signed")]

(* Into a new file.  A kernel's body is read from the mapped input while   *)
(* the output is written, so an output that is the input is lost.          *)
SignInto(files, infile, s, type, fault) ==
  LET lost == type = "kernel" /\ infile = s.outfile /\ "vblockonly" \notin s.given
  IN CASE fault \in {"map", "sign", "open"} -> Exit(files, 1)
       [] fault = "write" \/ lost ->
            Exit([n \in DOMAIN files \ {s.outfile} |-> files[n]], 1)
       [] OTHER -> Exit((s.outfile :> Signed(files[infile])) @@ files, 0)

(* In place *)
SignHere(files, name, type, fault) ==
  IF ~IsFile(files, name) \/ fault \in {"open", "map", "sign"} \/ type \notin Signable
  THEN Exit(files, 1)
  ELSE Exit([files EXCEPT ![name] = Signed(@)], IF fault = "sync" THEN 1 ELSE 0)

(* The names: the input, then the output, unless options gave them; x holds  *)
(* the options and the names that are left.                                 *)
Input(x) ==
  IF x.s.infile # NoName \/ x.left = <<>> THEN x
  ELSE [s |-> [x.s EXCEPT !.infile = Head(x.left), !.inout_file_count = @ + 1], left |-> Tail(x.left)]

Output(x) ==
  IF x.s.outfile # NoName \/ x.left = <<>> THEN x
  ELSE [s |-> [x.s EXCEPT !.outfile = Head(x.left), !.inout_file_count = @ + 1], left |-> Tail(x.left)]

SignCopy(copied, name, type, fault) ==
  IF copied.died THEN Exit(copied.files, 1) ELSE SignHere(copied.files, name, type, fault)

SignFile(s, type, files, fault) ==
  CASE create_new_outfile(type, s) /\ IsFile(files, s.infile) -> SignInto(files, s.infile, s, type, fault)
    [] create_new_outfile(type, s) /\ ~IsFile(files, s.infile) -> Exit(files, 1)
    [] ~create_new_outfile(type, s) /\ s.inout_file_count > 1 ->
         SignCopy(futil_copy_file_or_die(files, s.infile, s.outfile, fault), s.outfile, type, fault)
    [] OTHER -> SignHere(files, IF s.outfile = NoName THEN s.infile ELSE s.outfile, type, fault)

SignChecked(s, left, type, files, fault) ==
  IF \/ s.infile = NoName
     \/ s.type = "unknown" /\ futil_file_type(files, s.infile).err
     \/ s.outfile = NoName /\ create_new_outfile(type, s)
     \/ s.errorcnt + CheckArguments(type, s.given) > 0 \/ left # <<>>
  THEN Exit(files, 1)
  ELSE SignFile(s, type, files, fault)

TypeToSign(s, look) ==
  IF s.type # "unknown" THEN s.type ELSE IF look.type # "unknown" THEN look.type ELSE Infer(s.given)

SignNamed(x, files, fault) ==
  SignChecked(x.s, x.left, TypeToSign(x.s, futil_file_type(files, x.s.infile)), files, fault)

SignParsed(s, names, files, fault) ==
  IF s.help THEN Exit(files, s.errorcnt)
  ELSE SignNamed(Output(Input([s |-> s, left |-> names])), files, fault)

do_sign(opts, names, files, fault) == SignParsed(ParseOptions(opts), names, files, fault)

-----------------------------------------------------------------------------
(* do_show: every file in turn, whatever became of the others.  opts as    *)
(* above; bad: the files whose contents do not verify.  The result is the  *)
(* exit code and the files shown.                                          *)

show_type(files, name) == IF futil_file_type(files, name).err THEN 1 ELSE 0

ShowNext(st, files, name, type, bad) ==
  LET t == IF type # NoName THEN type ELSE files[name].type
  IN IF name \notin DOMAIN files \/ files[name].kind # "file"
     THEN [st EXCEPT !.errorcnt = @ + 1]
     ELSE IF t \notin Showable THEN [st EXCEPT !.errorcnt = @ + 1]
     ELSE [errorcnt |-> st.errorcnt + (IF name \in bad THEN 1 ELSE 0),
           shown |-> st.shown \union {name}]

do_show(opts, names, files, bad) ==
  LET types == SelectSeq(opts, LAMBDA a : a.o = "type")
      type  == IF types = <<>> THEN NoName ELSE types[Len(types)].v
      wrong == \E i \in DOMAIN opts : ~opts[i].good
      ask   == \E i \in DOMAIN opts : opts[i].o = "t"
      Step(st, n) == IF ask THEN [st EXCEPT !.errorcnt = @ + show_type(files, n)]
                     ELSE ShowNext(st, files, n, type, bad)
      end   == FoldLeft(Step, [errorcnt |-> 0, shown |-> {}], names)
  IN IF wrong \/ names = <<>> THEN [exit |-> 1, shown |-> {}]
     ELSE [exit |-> IF end.errorcnt > 0 THEN 1 ELSE 0, shown |-> end.shown]
=============================================================================
