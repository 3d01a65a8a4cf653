-------------------------------- MODULE Tlcl --------------------------------
(***************************************************************************)
(* The TPM command library: the generator that lays out the requests, the  *)
(* header it generates, and the calls of tlcl.c that fill a request in,    *)
(* send it, wait for the self test and read the response; utility/tpmc.c,  *)
(* the command line in front of it; and the opening of the device in the   *)
(* stub.  32-bit values that come from a caller are kept as the four bytes *)
(* they are sent as.                                                       *)
(***************************************************************************)
EXTENDS Integers, Sequences, SequencesExt

TPM_LARGE_ENOUGH_COMMAND_SIZE == 256
TPM_PUBEK_SIZE                == 256
kTpmRequestHeaderLength       == 10
kTpmResponseHeaderLength      == 10
kTpmReadInfoLength            == 12
kEncAuthLength                == 20
kPcrDigestLength              == 20

TPM_SUCCESS              == 0
TPM_E_IOERROR            == 31
TPM_E_NEEDS_SELFTEST     == 2049
TPM_E_DOING_SELFTEST     == 2050
TPM_E_RESPONSE_TOO_LARGE == 20485

Zeros(n)       == [i \in 1 .. n |-> 0]
Bytes(v, size) == [i \in 1 .. size |-> (v \div 256 ^ (size - i)) % 256]
Value(b)       == ((b[1] * 256 + b[2]) * 256 + b[3]) * 256 + b[4]
Put(s, off, b) == [i \in DOMAIN s |-> IF i - off \in DOMAIN b THEN b[i - off] ELSE s[i]]
Take(s, off, n) == SubSeq(s, off + 1, off + n)

(***************************************************************************)
(* utility/tlcl_generator.c: packed structures of tss_constants.h, where   *)
(* TPM_PCR_SELECTION has a pointer of ptr bytes in place of its three      *)
(* bytes.                                                                  *)
(***************************************************************************)
TPM_PCR_INFO_SHORT(ptr) ==
  LET selection == 2 + ptr
  IN  [localityAtRelease |-> selection, sizeof |-> selection + 1 + 20]

TPM_NV_ATTRIBUTES == [tag |-> 0, attributes |-> 2, sizeof |-> 6]

TPM_NV_DATA_PUBLIC(ptr) ==
  LET write      == 6 + TPM_PCR_INFO_SHORT(ptr).sizeof
      permission == write + TPM_PCR_INFO_SHORT(ptr).sizeof
      dataSize   == permission + TPM_NV_ATTRIBUTES.sizeof + 3
  IN  [nvIndex |-> 2, pcrInfoRead |-> 6, pcrInfoWrite |-> write, permission |-> permission,
       dataSize |-> dataSize, sizeof |-> dataSize + 4]

PCR_SELECTION_FIX_None(ptr) == 0
PCR_SELECTION_FIX(ptr) == 3 - ptr

AddVisibleField(cmd, name, offset) ==
  [cmd EXCEPT !.fields = Append(@, [name |-> name, offset |-> offset, size |-> 0, value |-> 0])]

AddInitializedField(cmd, offset, size, value) ==
  [cmd EXCEPT !.fields = Append(@, [name |-> "", offset |-> offset, size |-> size,
                                    value |-> value])]

newCommand(code, size) ==
  LET empty == [size |-> size, max_size |-> 0, fields |-> << >>]
      tag   == AddInitializedField(empty, 0, 2, 193)
  IN  AddInitializedField(AddInitializedField(tag, 2, 4, size), 6, 4, code)

BuildDefineSpaceCommand(ptr) ==
  LET fix        == PCR_SELECTION_FIX(ptr)
      public     == TPM_NV_DATA_PUBLIC(ptr)
      at(field)  == kTpmRequestHeaderLength + field
      locality   == TPM_PCR_INFO_SHORT(ptr).localityAtRelease + fix
      read       == at(public.pcrInfoRead)
      write      == at(public.pcrInfoWrite) + fix
      permission == at(public.permission) + 2 * fix
      c0 == newCommand(204, at(public.sizeof) + 2 * fix + kEncAuthLength)
      c1 == AddVisibleField(c0, "index", at(public.nvIndex))
      c2 == AddVisibleField(c1, "perm", permission + TPM_NV_ATTRIBUTES.attributes)
      c3 == AddVisibleField(c2, "size", at(public.dataSize) + 2 * fix)
      c4 == AddInitializedField(c3, at(0), 2, 24)
      c5 == AddInitializedField(c4, read, 2, 3)
      c6 == AddInitializedField(c5, read + locality, 1, 31)
      c7 == AddInitializedField(c6, write, 2, 3)
      c8 == AddInitializedField(c7, write + locality, 1, 31)
  IN  AddInitializedField(c8, permission + TPM_NV_ATTRIBUTES.tag, 2, 23)

BuildWriteCommand ==
  LET cmd == [newCommand(205, 0) EXCEPT !.max_size = TPM_LARGE_ENOUGH_COMMAND_SIZE]
  IN  AddVisibleField(AddVisibleField(AddVisibleField(cmd,
        "index", kTpmRequestHeaderLength), "length", kTpmRequestHeaderLength + 8),
        "data", kTpmRequestHeaderLength + 12)

BuildReadCommand ==
  LET cmd == newCommand(207, kTpmRequestHeaderLength + kTpmReadInfoLength)
  IN  AddVisibleField(AddVisibleField(cmd, "index", kTpmRequestHeaderLength),
                      "length", kTpmRequestHeaderLength + 8)

Argument(code, size, name) ==
  AddVisibleField(newCommand(code, kTpmRequestHeaderLength + size), name, kTpmRequestHeaderLength)

Constant16(code, value) ==
  AddInitializedField(newCommand(code, kTpmRequestHeaderLength + 2),
                      kTpmRequestHeaderLength, 2, value)

PhysicalPresence(value) == Constant16(1073741834, value)
Plain(code)             == newCommand(code, kTpmRequestHeaderLength)

Capability(area) ==
  LET cmd == newCommand(101, kTpmRequestHeaderLength + 12)
  IN  AddInitializedField(AddInitializedField(cmd, kTpmRequestHeaderLength, 4, area),
                          kTpmRequestHeaderLength + 4, 4, 4)

BuildPCRReadCommand                == Argument(21, 4, "pcrNum")
BuildPPAssertCommand               == PhysicalPresence(8)
BuildPPEnableCommand               == PhysicalPresence(32)
BuildFinalizePPCommand             == PhysicalPresence(32 + 512 + 128)
BuildPPLockCommand                 == PhysicalPresence(4)
BuildStartupCommand                == Constant16(153, 1)
BuildSaveStateCommand              == Plain(152)
BuildResumeCommand                 == Constant16(153, 2)
BuildSelftestfullCommand           == Plain(80)
BuildContinueSelfTestCommand       == Plain(83)
BuildReadPubekCommand              == newCommand(124, kTpmRequestHeaderLength + 20)
BuildForceClearCommand             == Plain(93)
BuildPhysicalEnableCommand         == Plain(111)
BuildPhysicalDisableCommand        == Plain(112)
BuildPhysicalSetDeactivatedCommand == Argument(114, 1, "deactivated")
BuildGetFlagsCommand       == AddInitializedField(Capability(4), kTpmRequestHeaderLength + 8, 4, 264)
BuildGetSTClearFlagsCommand == AddInitializedField(Capability(4), kTpmRequestHeaderLength + 8, 4, 265)
BuildGetPermissionsCommand == AddVisibleField(Capability(17), "index", kTpmRequestHeaderLength + 8)
BuildGetOwnershipCommand   == AddInitializedField(Capability(5), kTpmRequestHeaderLength + 8, 4, 273)
BuildGetRandomCommand      == Argument(70, 4, "bytesRequested")

BuildExtendCommand ==
  AddVisibleField(Argument(20, 4 + kPcrDigestLength, "pcrNum"),
                  "inDigest", kTpmRequestHeaderLength + 4)

(* What the generator writes out: the bytes of the constant fields, zeros between them, and the
   offsets of the visible ones. *)
OutputBytes(cmd) ==
  FoldLeft(LAMBDA out, f : IF f.name # "" THEN out
                           ELSE out \o Zeros(f.offset - Len(out)) \o Bytes(f.value, f.size),
           << >>, cmd.fields)

OutputFieldPointers(cmd) ==
  LET visible == SelectSeq(cmd.fields, LAMBDA f : f.name # "")
      names   == {visible[i].name : i \in DOMAIN visible}
  IN  IF names = {} THEN [none |-> 0]
      ELSE [n \in names |-> visible[CHOOSE i \in DOMAIN visible : visible[i].name = n].offset]

Structure(size, bytes, offsets) ==
  [buffer |-> bytes \o Zeros(size - Len(bytes)), at |-> offsets]

Fixed(size, bytes) == Structure(size, bytes, [none |-> 0])

OutputCommands(cmd) ==
  Structure(IF cmd.size = 0 THEN cmd.max_size ELSE cmd.size, OutputBytes(cmd),
            OutputFieldPointers(cmd))

builders(ptr) ==
  [nv_definespace |-> BuildDefineSpaceCommand(ptr), nv_write |-> BuildWriteCommand,
   nv_read |-> BuildReadCommand, pcr_read |-> BuildPCRReadCommand,
   ppassert |-> BuildPPAssertCommand, ppenable |-> BuildPPEnableCommand,
   pplock |-> BuildPPLockCommand, finalizepp |-> BuildFinalizePPCommand,
   startup |-> BuildStartupCommand, savestate |-> BuildSaveStateCommand,
   resume |-> BuildResumeCommand, selftestfull |-> BuildSelftestfullCommand,
   continueselftest |-> BuildContinueSelfTestCommand, readpubek |-> BuildReadPubekCommand,
   forceclear |-> BuildForceClearCommand, physicaldisable |-> BuildPhysicalDisableCommand,
   physicalenable |-> BuildPhysicalEnableCommand,
   physicalsetdeactivated |-> BuildPhysicalSetDeactivatedCommand,
   getflags |-> BuildGetFlagsCommand, getstclearflags |-> BuildGetSTClearFlagsCommand,
   getpermissions |-> BuildGetPermissionsCommand, getownership |-> BuildGetOwnershipCommand,
   get_random |-> BuildGetRandomCommand, extend |-> BuildExtendCommand]

\* The whole output of the generator on a machine whose pointers have ptr bytes.
Generated(ptr) ==
  [commands |-> [n \in DOMAIN builders(ptr) |-> OutputCommands(builders(ptr)[n])],
   kWriteInfoLength |-> 12,
   kNvDataPublicPermissionsOffset |->
     TPM_NV_DATA_PUBLIC(ptr).permission + 2 * PCR_SELECTION_FIX(ptr)
       + TPM_NV_ATTRIBUTES.attributes]

(***************************************************************************)
(* tlcl_structures.h as it is in the tree, which is what tlcl.c is built   *)
(* with.                                                                   *)
(***************************************************************************)
tpm_cmd ==
  [extend |-> Structure(34, <<0, 193, 0, 0, 0, 34, 0, 0, 0, 20>>, [pcrNum |-> 10, inDigest |-> 14]),
   get_random |-> Structure(14, <<0, 193, 0, 0, 0, 14, 0, 0, 0, 70>>, [bytesRequested |-> 10]),
   getownership |-> Fixed(22, <<0, 193, 0, 0, 0, 22, 0, 0, 0, 101, 0, 0, 0, 5, 0, 0, 0, 4, 0, 0, 1, 17>>),
   getpermissions |-> Structure(22, <<0, 193, 0, 0, 0, 22, 0, 0, 0, 101, 0, 0, 0, 17, 0, 0, 0, 4>>, [index |-> 18]),
   getstclearflags |-> Fixed(22, <<0, 193, 0, 0, 0, 22, 0, 0, 0, 101, 0, 0, 0, 4, 0, 0, 0, 4, 0, 0, 1, 9>>),
   getflags |-> Fixed(22, <<0, 193, 0, 0, 0, 22, 0, 0, 0, 101, 0, 0, 0, 4, 0, 0, 0, 4, 0, 0, 1, 8>>),
   physicalsetdeactivated |-> Structure(11, <<0, 193, 0, 0, 0, 11, 0, 0, 0, 114>>, [deactivated |-> 10]),
   physicalenable |-> Fixed(10, <<0, 193, 0, 0, 0, 10, 0, 0, 0, 111>>),
   physicaldisable |-> Fixed(10, <<0, 193, 0, 0, 0, 10, 0, 0, 0, 112>>),
   forceclear |-> Fixed(10, <<0, 193, 0, 0, 0, 10, 0, 0, 0, 93>>),
   readpubek |-> Fixed(30, <<0, 193, 0, 0, 0, 30, 0, 0, 0, 124>>),
   continueselftest |-> Fixed(10, <<0, 193, 0, 0, 0, 10, 0, 0, 0, 83>>),
   selftestfull |-> Fixed(10, <<0, 193, 0, 0, 0, 10, 0, 0, 0, 80>>),
   resume |-> Fixed(12, <<0, 193, 0, 0, 0, 12, 0, 0, 0, 153, 0, 2>>),
   savestate |-> Fixed(10, <<0, 193, 0, 0, 0, 10, 0, 0, 0, 152>>),
   startup |-> Fixed(12, <<0, 193, 0, 0, 0, 12, 0, 0, 0, 153, 0, 1>>),
   finalizepp |-> Fixed(12, <<0, 193, 0, 0, 0, 12, 64, 0, 0, 10, 2, 160>>),
   pplock |-> Fixed(12, <<0, 193, 0, 0, 0, 12, 64, 0, 0, 10, 0, 4>>),
   ppenable |-> Fixed(12, <<0, 193, 0, 0, 0, 12, 64, 0, 0, 10, 0, 32>>),
   ppassert |-> Fixed(12, <<0, 193, 0, 0, 0, 12, 64, 0, 0, 10, 0, 8>>),
   pcr_read |-> Structure(14, <<0, 193, 0, 0, 0, 14, 0, 0, 0, 21>>, [pcrNum |-> 10]),
   nv_read |-> Structure(22, <<0, 193, 0, 0, 0, 22, 0, 0, 0, 207>>, [index |-> 10, length |-> 18]),
   nv_write |-> Structure(256, <<0, 193, 0, 0, 0, 0, 0, 0, 0, 205>>, [index |-> 10, length |-> 18, data |-> 22]),
   nv_definespace |-> Structure(101, <<0, 193, 0, 0, 0, 101, 0, 0, 0, 204, 0, 24, 0, 0, 0, 0, 0, 3, 0, 0, 0,
        31>> \o Zeros(21) \o <<3, 0, 0, 0, 31>> \o Zeros(21) \o <<23>>,
      [index |-> 12, perm |-> 70, size |-> 77])]

kWriteInfoLength               == 12
kNvDataPublicPermissionsOffset == 60

(***************************************************************************)
(* A request on its way.  A session s is the TPM as the calls see it:      *)
(*   build   how TlclSendReceive is compiled: "host", "once" or "poll"     *)
(*   tests   the self test: "needed", or how many more commands it rejects *)
(*   fail    the exchange that does not go through, and how                *)
(*   rc, reply   what the TPM answers to the command: code and body        *)
(*   ran     the requests it has executed                                  *)
(*   sent    the exchanges so far                                          *)
(* In the stub an exchange that fails ends the program, unless the         *)
(* environment told it otherwise (exit_on_failure).                        *)
(***************************************************************************)
CONTINUE  == Bytes(83, 4)
Header(tag, size, code) == Bytes(tag, 2) \o Bytes(size, 4) \o Bytes(code, 4)

\* External: the TPM, which runs its self test before it executes anything.
Tpm(s, request) ==
  LET ord == Take(request, 6, 4)
      act == IF ord = CONTINUE THEN [s EXCEPT !.tests = s.after]
             ELSE IF s.tests = 0 THEN [s EXCEPT !.ran = Append(@, request)]
             ELSE [s EXCEPT !.tests = IF @ > 0 THEN @ - 1 ELSE @]
      rc  == IF ord = CONTINUE THEN s.test_rc
             ELSE IF s.tests < 0 THEN TPM_E_NEEDS_SELFTEST
             ELSE IF s.tests > 0 THEN TPM_E_DOING_SELFTEST ELSE s.rc
      body == IF ord # CONTINUE /\ rc = TPM_SUCCESS THEN s.reply ELSE << >>
  IN  [s |-> act, response |-> Header(196, kTpmResponseHeaderLength + Len(body), rc) \o body]

TpmCommandSize(packet) == Value(Take(packet, 2, 4))
TpmReturnCode(packet)  == Value(Take(packet, 6, 4))

\* firmware/stub/tpm_lite_stub.c.  The bytes of the buffer the response does not reach are
\* whatever was there.
Failure(s, e) == [s |-> [s EXCEPT !.exited = ~s.no_exit], rc |-> e, response |-> << >>]

TpmResponse(s, response, max_length) ==
  IF s.fail = <<"read", s.sent - 1>> THEN Failure(s, 20490)
  ELSE IF Len(response) > max_length THEN Failure(s, TPM_E_RESPONSE_TOO_LARGE)
  ELSE [s |-> s, rc |-> 0,
        response |-> response \o [i \in 1 .. max_length - Len(response) |-> 170]]

TpmExchange(answer, max_length) ==
  TpmResponse([answer.s EXCEPT !.sent = @ + 1], answer.response, max_length)

TpmExecute(s, request, max_length) ==
  IF TpmCommandSize(request) <= 0 THEN Failure(s, 20487)
  ELSE IF s.fd < 0 THEN Failure(s, 20486)
  ELSE IF s.fail = <<"write", s.sent>> THEN Failure([s EXCEPT !.sent = @ + 1], 20488)
  ELSE TpmExchange(Tpm(s, Take(request, 0, TpmCommandSize(request))), max_length)

(***************************************************************************)
(* firmware/lib/tpm_lite/tlcl.c                                            *)
(***************************************************************************)
Received(x) ==
  [s |-> x.s, response |-> x.response,
   ret |-> IF x.rc # 0 THEN x.rc ELSE TpmReturnCode(x.response)]

TlclSendReceiveNoRetry(s, request, max_length) == Received(TpmExecute(s, request, max_length))

TlclContinueSelfTest(s) ==
  TlclSendReceiveNoRetry(s, tpm_cmd.continueselftest.buffer, TPM_LARGE_ENOUGH_COMMAND_SIZE)

RECURSIVE Poll(_, _, _)
Poll(s, request, max_length) ==
  LET x == TlclSendReceiveNoRetry(s, request, max_length)
  IN  IF x.ret = TPM_E_DOING_SELFTEST /\ ~x.s.exited THEN Poll(x.s, request, max_length) ELSE x

\* After the self test the request is sent again, once or until it is done.
Retry(test, request, max_length) ==
  IF test.s.exited \/ test.ret # TPM_SUCCESS THEN [test EXCEPT !.response = << >>]
  ELSE IF test.s.build = "once" THEN TlclSendReceiveNoRetry(test.s, request, max_length)
  ELSE Poll(test.s, request, max_length)

Checked(x, request, max_length) ==
  IF x.s.exited \/ x.s.build = "host"
       \/ x.ret \notin {TPM_E_NEEDS_SELFTEST, TPM_E_DOING_SELFTEST} THEN x
  ELSE Retry(TlclContinueSelfTest(x.s), request, max_length)

TlclSendReceive(s, request, max_length) ==
  Checked(TlclSendReceiveNoRetry(s, request, max_length), request, max_length)

\* A call returns its code and what it stored for its caller.
Result(x, out) == [s |-> x.s, ret |-> x.ret, out |-> IF x.ret = TPM_SUCCESS THEN out ELSE << >>]
Local(s, ret)  == [s |-> s, ret |-> ret, out |-> << >>]

Send(s, command) == Result(TlclSendReceive(s, command, TPM_LARGE_ENOUGH_COMMAND_SIZE), << >>)

\* The calls that only send a constant request.
TlclStartup(s)                   == Send(s, tpm_cmd.startup.buffer)
TlclSaveState(s)                 == Send(s, tpm_cmd.savestate.buffer)
TlclResume(s)                    == Send(s, tpm_cmd.resume.buffer)
TlclSelfTestFull(s)              == Send(s, tpm_cmd.selftestfull.buffer)
TlclAssertPhysicalPresence(s)    == Send(s, tpm_cmd.ppassert.buffer)
TlclPhysicalPresenceCMDEnable(s) == Send(s, tpm_cmd.ppenable.buffer)
TlclFinalizePhysicalPresence(s)  == Send(s, tpm_cmd.finalizepp.buffer)
TlclLockPhysicalPresence(s)      == Send(s, tpm_cmd.pplock.buffer)
TlclForceClear(s)                == Send(s, tpm_cmd.forceclear.buffer)
TlclSetEnable(s)                 == Send(s, tpm_cmd.physicalenable.buffer)
TlclClearEnable(s)               == Send(s, tpm_cmd.physicaldisable.buffer)

TlclDefineSpace(s, index, perm, size) ==
  LET c == tpm_cmd.nv_definespace
  IN  Send(s, Put(Put(Put(c.buffer, c.at.index, index), c.at.perm, perm), c.at.size, size))

TlclSetNvLocked(s) == TlclDefineSpace(s, <<255, 255, 255, 255>>, Zeros(4), Zeros(4))

\* The callers keep to total_length <= TPM_LARGE_ENOUGH_COMMAND_SIZE, which is asserted.
TlclWrite(s, index, data) ==
  LET c            == tpm_cmd.nv_write
      total_length == kTpmRequestHeaderLength + kWriteInfoLength + Len(data)
      sized        == Put(c.buffer, 2, Bytes(total_length, 4))
      request      == Put(Put(sized, c.at.index, index), c.at.length, Bytes(Len(data), 4))
  IN  Send(s, Put(request, c.at.data, data))

TlclWriteLock(s, index) == TlclWrite(s, index, << >>)
TlclSetGlobalLock(s)    == TlclWrite(s, Zeros(4), << >>)

ResponseLength(x) == Value(Take(x.response, kTpmResponseHeaderLength, 4))
SizedData(x)      == Take(x.response, kTpmResponseHeaderLength + 4, ResponseLength(x))

\* The bytes stored are as many as the response says.
ReadResult(x, length) == Result(x, IF length > 0 THEN SizedData(x) ELSE << >>)

TlclRead(s, index, length) ==
  LET c == tpm_cmd.nv_read
  IN  ReadResult(TlclSendReceive(s, Put(Put(c.buffer, c.at.index, index), c.at.length, Bytes(length, 4)),
                                 TPM_LARGE_ENOUGH_COMMAND_SIZE), length)

TlclReadLock(s, index) == TlclRead(s, index, 0)

DigestResult(x) == Result(x, Take(x.response, kTpmResponseHeaderLength, kPcrDigestLength))

TlclPCRRead(s, index, length) ==
  LET c == tpm_cmd.pcr_read
  IN  IF length < kPcrDigestLength THEN Local(s, TPM_E_IOERROR)
      ELSE DigestResult(TlclSendReceive(s, Put(c.buffer, c.at.pcrNum, index),
                                        TPM_LARGE_ENOUGH_COMMAND_SIZE))

\* Anything but success reads as "owned".
OwnedResult(x) == Local(x.s, IF x.ret = TPM_SUCCESS THEN 0 ELSE 1)

TlclIsOwned(s) ==
  OwnedResult(TlclSendReceive(s, tpm_cmd.readpubek.buffer,
                              TPM_LARGE_ENOUGH_COMMAND_SIZE + TPM_PUBEK_SIZE))

TlclSetDeactivated(s, flag) ==
  LET c == tpm_cmd.physicalsetdeactivated
  IN  Send(s, Put(c.buffer, c.at.deactivated, <<flag>>))

\* A GetCapability response: a size, then the value; the first n bytes of it from off are stored.
CapabilityResult(x, off, n) == Result(x, Take(x.response, kTpmResponseHeaderLength + 4 + off, n))

GetCapability(s, command, off, n) ==
  CapabilityResult(TlclSendReceive(s, command, TPM_LARGE_ENOUGH_COMMAND_SIZE), off, n)

PERMANENT_FLAGS == <<"disable", "ownership", "deactivated", "readPubek", "disableOwnerClear",
  "allowMaintenance", "physicalPresenceLifetimeLock", "physicalPresenceHWEnable",
  "physicalPresenceCMDEnable", "CEKPUsed", "TPMpost", "TPMpostLock", "FIPS", "Operator",
  "enableRevokeEK", "nvLocked", "readSRKPub", "tpmEstablished", "maintenanceDone",
  "disableFullDALogicInfo">>

STCLEAR_FLAGS == <<"deactivated", "disableForceClear", "physicalPresence",
  "physicalPresenceLock", "bGlobalLock">>

\* The structures hold a 16-bit tag and one byte a flag; the second has a byte of padding.
TlclGetPermanentFlags(s) ==
  GetCapability(s, tpm_cmd.getflags.buffer, 0, 2 + Len(PERMANENT_FLAGS))
TlclGetSTClearFlags(s) ==
  GetCapability(s, tpm_cmd.getstclearflags.buffer, 0, 2 + Len(STCLEAR_FLAGS) + 1)
Flag(flags, name, out) == out[2 + CHOOSE i \in DOMAIN flags : flags[i] = name]

ThreeFlags(x) ==
  Result(x, <<Flag(PERMANENT_FLAGS, "disable", x.out),
              Flag(PERMANENT_FLAGS, "deactivated", x.out),
              Flag(PERMANENT_FLAGS, "nvLocked", x.out)>>)

TlclGetFlags(s) == ThreeFlags(TlclGetPermanentFlags(s))

TlclExtend(s, pcr_num, in_digest) ==
  LET c == tpm_cmd.extend
  IN  DigestResult(TlclSendReceive(s, Put(Put(c.buffer, c.at.pcrNum, pcr_num), c.at.inDigest, in_digest),
                                   kTpmResponseHeaderLength + kPcrDigestLength))

TlclGetPermissions(s, index) ==
  LET c == tpm_cmd.getpermissions
  IN  GetCapability(s, Put(c.buffer, c.at.index, index), kNvDataPublicPermissionsOffset, 4)

TlclGetOwnership(s) == GetCapability(s, tpm_cmd.getownership.buffer, 0, 1)

RandomResult(x, length) ==
  IF x.ret = TPM_SUCCESS /\ ResponseLength(x) > length THEN Local(x.s, TPM_E_RESPONSE_TOO_LARGE)
  ELSE Result(x, SizedData(x))

TlclGetRandom(s, length) ==
  LET c == tpm_cmd.get_random
  IN  IF length > TPM_LARGE_ENOUGH_COMMAND_SIZE - kTpmResponseHeaderLength - 4
      THEN Local(s, TPM_E_IOERROR)
      ELSE RandomResult(TlclSendReceive(s, Put(c.buffer, c.at.bytesRequested, Bytes(length, 4)),
                                        TPM_LARGE_ENOUGH_COMMAND_SIZE), length)

(***************************************************************************)
(* tpmc.  A run starts from a session s and ends with an exit status and   *)
(* what was written to stdout.  An argument is [prefix, chars]: whether it *)
(* starts with "0x", and its further characters: a hex digit by its value, *)
(* Junk for any other that is not a blank or a sign.                       *)
(***************************************************************************)
OTHER_ERROR          == 255
TPM_MAX_COMMAND_SIZE == 4096
OPEN_RETRY_MAX_NUM   == 3     \* 500 in the source
Junk                 == 16

(***************************************************************************)
(* VbExTpmOpen: s.busy is how often open() fails with EBUSY before it      *)
(* succeeds (s.present) or fails for another reason.                       *)
(***************************************************************************)
VbExTpmOpen(s) ==
  IF s.fd >= 0 THEN s
  ELSE IF s.present /\ s.busy < OPEN_RETRY_MAX_NUM THEN [s EXCEPT !.fd = 3]
  ELSE [s EXCEPT !.exited = ~s.no_exit]

(***************************************************************************)
(* The arguments.                                                          *)
(***************************************************************************)
Digits(chars) ==
  IF Junk \in {chars[i] : i \in DOMAIN chars}
  THEN SubSeq(chars, 1, (CHOOSE i \in DOMAIN chars :
                           chars[i] = Junk /\ \A j \in 1 .. i - 1 : chars[j] # Junk) - 1)
  ELSE chars

\* Eight hex digits, with leading zeros, as four bytes.
Word(digits) ==
  LET d == Zeros(8 - Len(digits)) \o digits
  IN  [i \in 1 .. 4 |-> d[2 * i - 1] * 16 + d[2 * i]]

\* sscanf("%8x%s"): at most eight digits, and nothing may be left.
HexStringToUint32(arg) ==
  LET digits == Digits(arg.chars)
      n      == IF Len(digits) > 8 THEN 8 ELSE Len(digits)
  IN  [ok |-> n > 0 /\ n = Len(arg.chars), value |-> Word(SubSeq(digits, 1, n))]

\* strtoul() stops at the first character it cannot use; its 64-bit value is cut to 32 bits.
HexStringToUint8(arg) ==
  LET all == Digits(arg.chars) = arg.chars /\ (arg.prefix => arg.chars # << >>)
      low == SubSeq(arg.chars, IF Len(arg.chars) > 8 THEN Len(arg.chars) - 7 ELSE 1,
                    Len(arg.chars))
      saturated == \E i \in 1 .. Len(arg.chars) - 16 : arg.chars[i] # 0
  IN  [ok |-> all /\ ~saturated /\ SubSeq(Word(low), 1, 3) = <<0, 0, 0>>, value |-> Word(low)[4]]

\* Each pair is read with "%2hhx", which is satisfied with its first digit.
HexStringToArray(arg, num_bytes) ==
  LET c == arg.chars
  IN  [ok    |-> Len(c) = 2 * num_bytes /\ \A i \in 1 .. num_bytes : c[2 * i - 1] # Junk,
       value |-> [i \in 1 .. Len(c) \div 2 |-> IF c[2 * i] = Junk THEN c[2 * i - 1]
                                               ELSE c[2 * i - 1] * 16 + c[2 * i]]]

ErrorCheck(result) == IF result > OTHER_ERROR THEN OTHER_ERROR ELSE result

(***************************************************************************)
(* The handlers.                                                           *)
(***************************************************************************)
Exit(s)        == [s |-> s, exit |-> OTHER_ERROR, printed |-> << >>]
Finish(x)      == [s |-> x.s, exit |-> ErrorCheck(x.ret), printed |-> x.out]
Silent(x)      == Finish([x EXCEPT !.out = << >>])

\* Sizes: anything of 2^24 or more is as good as 2^24.
Size(b)        == IF b[1] > 0 THEN 16777216 ELSE Value(b)

HandlerDefineSpace(s, a) ==
  LET v == [i \in DOMAIN a |-> HexStringToUint32(a[i])]
  IN  IF Len(a) # 3 \/ \E i \in DOMAIN a : ~v[i].ok THEN Exit(s)
      ELSE Silent(TlclDefineSpace(s, v[1].value, v[3].value, v[2].value))

HandlerWrite(s, a) ==
  LET index == HexStringToUint32(a[1])
      bytes == [i \in 1 .. Len(a) - 1 |-> HexStringToUint8(a[i + 1])]
  IN  IF a = << >> \/ ~index.ok \/ Len(bytes) > TPM_MAX_COMMAND_SIZE
           \/ \E i \in DOMAIN bytes : ~bytes[i].ok THEN Exit(s)
      ELSE IF bytes = << >> /\ index.value = <<255, 255, 255, 255>> THEN Exit(s)
      ELSE Silent(TlclWrite(s, index.value, [i \in DOMAIN bytes |-> bytes[i].value]))

HandlerPCRRead(s, a) ==
  IF Len(a) # 1 \/ ~HexStringToUint32(a[1]).ok THEN Exit(s)
  ELSE Finish(TlclPCRRead(s, HexStringToUint32(a[1]).value, kPcrDigestLength))

HandlerPCRExtend(s, a) ==
  LET digest == HexStringToArray(a[2], kPcrDigestLength)
  IN  IF Len(a) # 2 \/ ~HexStringToUint32(a[1]).ok \/ ~digest.ok THEN Exit(s)
      ELSE Silent(TlclExtend(s, HexStringToUint32(a[1]).value, digest.value))

\* The whole buffer of the size asked for is printed.
WholeBuffer(x, size) ==
  LET rest == IF x.ret = 0 THEN size - Len(x.out) ELSE 0
  IN  Finish([x EXCEPT !.out = @ \o [i \in 1 .. rest |-> 170]])

HandlerRead(s, a) ==
  LET v    == [i \in DOMAIN a |-> HexStringToUint32(a[i])]
      size == Size(v[2].value)
  IN  IF Len(a) # 2 \/ \E i \in DOMAIN a : ~v[i].ok THEN Exit(s)
      ELSE IF size > 4096 THEN Exit(s)
      ELSE WholeBuffer(TlclRead(s, v[1].value, size), size)

HandlerGetPermissions(s, a) ==
  IF Len(a) # 1 \/ ~HexStringToUint32(a[1]).ok THEN Exit(s)
  ELSE Finish(TlclGetPermissions(s, HexStringToUint32(a[1]).value))

HandlerGetOwnership(s, a) == IF a # << >> THEN Exit(s) ELSE Finish(TlclGetOwnership(s))

HandlerGetRandom(s, a) ==
  IF Len(a) # 1 \/ ~HexStringToUint32(a[1]).ok THEN Exit(s)
  ELSE Finish(TlclGetRandom(s, Size(HexStringToUint32(a[1]).value)))

\* The flags are printed by name, from the bytes behind the tag.
PrintFlags(x, n) == Finish([x EXCEPT !.out = IF x.ret = 0 THEN SubSeq(@, 3, n + 2) ELSE @])
HandlerGetPermanentFlags(s) == PrintFlags(TlclGetPermanentFlags(s), Len(PERMANENT_FLAGS))
HandlerGetSTClearFlags(s)   == PrintFlags(TlclGetSTClearFlags(s), Len(STCLEAR_FLAGS))

\* The size field of a request shorter than six bytes is what was on the stack.
RawResult(x) ==
  LET size == IF x.response = << >> THEN 0 ELSE TpmCommandSize(x.response)
  IN  IF size < 10 \/ size > 4096 THEN Exit(x.s)
      ELSE Finish([s |-> x.s, ret |-> x.ret, out |-> Take(x.response, 0, size)])

HandlerSendRaw(s, a) ==
  LET bytes == [i \in DOMAIN a |-> HexStringToUint8(a[i])]
      data  == [i \in DOMAIN a |-> bytes[i].value]
      field == Take(data \o [i \in 1 .. 6 |-> 170], 2, 4)
  IN  IF a = << >> \/ (\E i \in DOMAIN a : ~bytes[i].ok) \/ field # Bytes(Len(a), 4) THEN Exit(s)
      ELSE RawResult(TlclSendReceive(s, data, 4096))

(***************************************************************************)
(* main: the commands by name and by abbreviation.                         *)
(***************************************************************************)
command_table ==
  <<<<"getflags", "getf">>, <<"startup", "sta">>, <<"selftestfull", "test">>,
    <<"continueselftest", "ctest">>, <<"assertphysicalpresence", "ppon">>,
    <<"physicalpresencecmdenable", "ppcmd">>, <<"enable", "ena">>, <<"disable", "dis">>,
    <<"activate", "act">>, <<"deactivate", "deact">>, <<"clear", "clr">>,
    <<"setnvlocked", "setnv">>, <<"lockphysicalpresence", "pplock">>,
    <<"setbgloballock", "block">>, <<"definespace", "def">>, <<"write", "write">>,
    <<"read", "read">>, <<"pcrread", "pcr">>, <<"pcrextend", "extend">>,
    <<"getownership", "geto">>, <<"getpermissions", "getp">>, <<"getpermanentflags", "getpf">>,
    <<"getrandom", "rand">>, <<"getstclearflags", "getvf">>, <<"resume", "res">>,
    <<"savestate", "save">>, <<"sendraw", "raw">>>>

Matches(cmd) == {i \in DOMAIN command_table : cmd \in {command_table[i][1], command_table[i][2]}}

handler(s, name, a) ==
  CASE name = "getflags"                  -> Finish(TlclGetFlags(s))
    [] name = "startup"                   -> Silent(TlclStartup(s))
    [] name = "selftestfull"              -> Silent(TlclSelfTestFull(s))
    [] name = "continueselftest"          -> Silent(Result(TlclContinueSelfTest(s), << >>))
    [] name = "assertphysicalpresence"    -> Silent(TlclAssertPhysicalPresence(s))
    [] name = "physicalpresencecmdenable" -> Silent(TlclPhysicalPresenceCMDEnable(s))
    [] name = "enable"                    -> Silent(TlclSetEnable(s))
    [] name = "disable"                   -> Silent(TlclClearEnable(s))
    [] name = "activate"                  -> Silent(TlclSetDeactivated(s, 0))
    [] name = "deactivate"                -> Silent(TlclSetDeactivated(s, 1))
    [] name = "clear"                     -> Silent(TlclForceClear(s))
    [] name = "setnvlocked"               -> Silent(TlclSetNvLocked(s))
    [] name = "lockphysicalpresence"      -> Silent(TlclLockPhysicalPresence(s))
    [] name = "setbgloballock"            -> Silent(TlclSetGlobalLock(s))
    [] name = "definespace"               -> HandlerDefineSpace(s, a)
    [] name = "write"                     -> HandlerWrite(s, a)
    [] name = "read"                      -> HandlerRead(s, a)
    [] name = "pcrread"                   -> HandlerPCRRead(s, a)
    [] name = "pcrextend"                 -> HandlerPCRExtend(s, a)
    [] name = "getownership"              -> HandlerGetOwnership(s, a)
    [] name = "getpermissions"            -> HandlerGetPermissions(s, a)
    [] name = "getpermanentflags"         -> HandlerGetPermanentFlags(s)
    [] name = "getrandom"                 -> HandlerGetRandom(s, a)
    [] name = "getstclearflags"           -> HandlerGetSTClearFlags(s)
    [] name = "resume"                    -> Silent(TlclResume(s))
    [] name = "savestate"                 -> Silent(TlclSaveState(s))
    [] name = "sendraw"                   -> HandlerSendRaw(s, a)

\* A program the stub ended has status 1.
Ended(x) == IF x.s.exited THEN [s |-> x.s, exit |-> 1, printed |-> << >>] ELSE x

main(s, cmd, a) ==
  LET opened == VbExTpmOpen(s)
      first  == CHOOSE i \in Matches(cmd) : \A j \in Matches(cmd) : i <= j
  IN  IF cmd = "help" THEN [s |-> s, exit |-> 0, printed |-> << >>]
      ELSE IF opened.exited \/ Matches(cmd) = {} THEN Ended(Exit(opened))
      ELSE Ended(handler(opened, command_table[first][1], a))
=============================================================================
