------------------------------ MODULE TpmCalls ------------------------------
(***************************************************************************)
(* Calls of IlaFifo (the exported and the simulated TPM device) and of Tlcl*)
(* (the command library, its generator and tpmc) on bounded inputs.        *)
(***************************************************************************)
EXTENDS StructCalls, TLC, SequencesExt

\* A hash: any function of its bytes that tells the inputs below apart.
Mix(bytes) == [k \in 1..20 |-> (bytes[k] + bytes[20 + k] + 3 * bytes[(k % 20) + 1] + k) % 256]

Ila == INSTANCE IlaFifo WITH SHA1 <- Mix

(***************************************************************************)
(* Inputs                                                                  *)
(***************************************************************************)
\* No access below reaches past the first 128 of the 256 bytes.
Device(junk) ==
  [state |-> 0, sts |-> 0, in_amt |-> 0, cmdsize |-> 0, indata |-> [k \in 0..127 |-> junk], out_amt |-> 0,
   outdata |-> [k \in 0..127 |-> junk], dataout |-> 0, pcr |-> [p \in 0..23 |-> [k \in 1..20 |-> 0]]]

PcrCommand(ord, pcr, first) ==
  <<0, 193, 0, 0, 0, IF ord = 20 THEN 34 ELSE 14, 0, 0, 0, ord, 0, 0, 0, pcr>>
  \o (IF ord = 20 THEN [k \in 1..20 |-> first + k] ELSE <<>>)
PcrCommands == {PcrCommand(ord, pcr, first) : ord \in {20, 21}, pcr \in {0, 23}, first \in {5}}

\* Commands one after the other; after a command only part of the answer may
\* be read.
IlaSessions ==
  [fn : {"ila_session"}, commands : {<<a>> : a \in PcrCommands} \cup {<<a, b>> : a, b \in PcrCommands},
   reads : {7, 30}, junk : {9}]

IlaAccesses ==
  [fn : {"ila_access"}, state : 0..4, out_amt : {0, 1, 30}, in_amt : {0, 125}, cmdsize : {0},
   sts : {136}, ord : {20, 21}, cmd : 0..2, addr : {1, 7, 24, 36}, data : {10, 32, 64}, unset : BOOLEAN]

IlaInputs == call \in IlaSessions \/ call \in IlaAccesses

Before == [Device(0) EXCEPT !.state = call.state, !.out_amt = call.out_amt, !.in_amt = call.in_amt,
                            !.cmdsize = call.cmdsize, !.sts = call.sts, !.indata[9] = call.ord, !.dataout = 5]
Access == [cmd |-> call.cmd, addr |-> call.addr, data |-> call.data]

\* The conditions update() may leave to chance, all of them or none.
Chance == Ila!Rest \cup Ila!StsReads \cup Ila!BurstAccepting
OneAccess ==
  Return("ila_access", [oracle |-> Ila!simulate(Before, Access),
                        ila |-> Ila!tpm_update(Before, Access, IF call.unset THEN Chance ELSE {})])

\* What the host does for the k-th access of a command: ready, the bytes, go,
\* the burst count, and as many reads as the session has.
HostAccess(command, k) ==
  CASE k = 1 -> [cmd |-> 2, addr |-> 36, data |-> 64]
    [] 1 < k /\ k <= Len(command) + 1 -> [cmd |-> 2, addr |-> 24, data |-> command[k - 1]]
    [] k = Len(command) + 2 -> [cmd |-> 2, addr |-> 36, data |-> 32]
    [] k = Len(command) + 3 -> [cmd |-> 1, addr |-> 1, data |-> 0]
    [] OTHER -> [cmd |-> 1, addr |-> 24, data |-> 0]

IlaSession ==
  /\ call.fn = "ila_session" /\ ~done
  /\ LET r == IF "command" \in DOMAIN result THEN result
              ELSE [command |-> 1, k |-> 1, oracle |-> Device(0), ila |-> Device(call.junk), ret |-> 0]
         command == call.commands[r.command]
         a == HostAccess(command, r.k)
         t == Ila!tpm_update(r.ila, a, Chance)
         ended == r.k = Len(command) + 3 + call.reads
     IN  /\ result' = [command |-> IF ended THEN r.command + 1 ELSE r.command, k |-> IF ended THEN 1 ELSE r.k + 1,
                       oracle |-> Ila!simulate(r.oracle, a), ila |-> t.dev, ret |-> t.ret]
         /\ done' = (ended /\ r.command = Len(call.commands))
  /\ UNCHANGED call

(* A host that sends PCR commands to the device of ila_tpm.c, one after the   *)
(* other and each answer read or abandoned, gets the size, tag and digest     *)
(* that the simulator gives, and the PCRs end up the same, although the       *)
(* synthesized function reads local variables it has not assigned and the     *)
(* memory of the device is not initialized.                                   *)
IlaAnswers ==
  call.fn = "ila_session" /\ "command" \in DOMAIN result =>
    LET last == IF result.k > 1 THEN result.k - 1 ELSE Len(call.commands[result.command - 1]) + 3 + call.reads
        read == last - Len(call.commands[IF result.k > 1 THEN result.command ELSE result.command - 1]) - 3
    IN  /\ result.ila.pcr = result.oracle.pcr
        /\ read \in {0, 2, 6} \cup 11..30 => result.ret = result.oracle.dataout

\* The registers of a device.
Registers(s) == [state |-> s.state, in_amt |-> s.in_amt, cmdsize |-> s.cmdsize, out_amt |-> s.out_amt,
                 indata |-> s.indata, pcr |-> s.pcr]

(* ila_tpm.c over the synthesized update() makes of every register access    *)
(* what the simulator makes of it: the accesses it does itself, and those it *)
(* passes on.  Left out are a status read (what else changes is then up to   *)
(* unassigned locals: only the value read is right), a malformed command,    *)
(* and the byte that fills the FIFO.  A read of the FIFO or of the burst     *)
(* count while nothing is to be sent is where the two part: tpm_update()     *)
(* assigns fifo_state where it means to test it, so that every such read     *)
(* leaves the device sending, and the output count one lower if it was not   *)
(* 0; the rest of the device stays as the simulator has it.                  *)
IlaDeviceExact ==
  Returned("ila_access") =>
    LET write == call.cmd = 2 /\ call.addr = 24
        go    == call.cmd = 2 /\ call.addr = 36 /\ call.data = 32
        read  == call.cmd = 1 /\ call.addr \in {1, 24}
        sts   == call.cmd = 1 /\ call.addr = 36
        passed == ~go /\ ~read /\ ~(call.cmd = 2 /\ call.addr = 36 /\ call.data = 64)
    IN  /\ /\ ~read
           /\ sts => ~call.unset
           /\ go => call.state = 1 /\ call.in_amt = call.cmdsize
           /\ write => call.in_amt < 125 /\ (call.state = 2 => call.in_amt # 5)
           => Registers(result.ila.dev) = Registers(result.oracle)
        /\ read => Registers(result.ila.dev) =
             [Registers(result.oracle) EXCEPT !.state = 3,
                !.out_amt = IF call.addr = 24 /\ call.out_amt > 0 THEN call.out_amt - 1 ELSE call.out_amt]
        /\ read /\ call.state = 3 /\ call.out_amt > 0 => result.ila.ret = result.oracle.dataout
        /\ passed /\ call.addr # 7 => result.ila.dev.dataout = result.oracle.dataout
        /\ passed /\ ~(sts /\ call.unset) /\ call.addr # 7 /\ ~(write /\ call.in_amt = 125) =>
             (result.ila.dev.sts >= 128) = (result.oracle.sts >= 128)

IlaNext == call.fn \in {"ila_session", "ila_access"} /\ (IlaSession \/ OneAccess)

Tl == INSTANCE Tlcl

(***************************************************************************)
(* The fields of each command behind the header, in the order of the       *)
(* specification, with their sizes; "rest" takes what is left.             *)
(***************************************************************************)
NvPublic ==
  <<<<"tag", 2>>, <<"nvIndex", 4>>,
    <<"readSelect", 2>>, <<"readMap", 3>>, <<"readLocality", 1>>, <<"readDigest", 20>>,
    <<"writeSelect", 2>>, <<"writeMap", 3>>, <<"writeLocality", 1>>, <<"writeDigest", 20>>,
    <<"attrTag", 2>>, <<"attributes", 4>>, <<"bReadSTClear", 1>>, <<"bWriteSTClear", 1>>,
    <<"bWriteDefine", 1>>, <<"dataSize", 4>>>>

Layout(ord) ==
  CASE ord = 204        -> NvPublic \o <<<<"encAuth", 20>>>>
    [] ord \in {205, 207} -> <<<<"nvIndex", 4>>, <<"offset", 4>>, <<"dataSize", 4>>>>
    [] ord = 20         -> <<<<"pcrNum", 4>>, <<"inDigest", 20>>>>
    [] ord = 21         -> <<<<"pcrNum", 4>>>>
    [] ord = 70         -> <<<<"bytesRequested", 4>>>>
    [] ord = 101        -> <<<<"capArea", 4>>, <<"subCapSize", 4>>, <<"subCap", 4>>>>
    [] ord = 114        -> <<<<"state", 1>>>>
    [] ord = 124        -> <<<<"antiReplay", 20>>>>
    [] ord = 153        -> <<<<"startupType", 2>>>>
    [] ord = 1073741834 -> <<<<"physicalPresence", 2>>>>
    [] OTHER            -> << >>

Start(layout, i) == FoldLeft(LAMBDA n, f : n + f[2], 0, SubSeq(layout, 1, i - 1))

\* The request as the TPM reads it: every field by name, and the bytes behind the last one.
Parsed(request) ==
  LET ord    == Tl!Value(Tl!Take(request, 6, 4))
      layout == Layout(ord)
      body   == SubSeq(request, 11, Len(request))
      end    == Start(layout, Len(layout) + 1)
      names  == {layout[i][1] : i \in DOMAIN layout}
      at(n)  == CHOOSE i \in DOMAIN layout : layout[i][1] = n
  IN  [ord |-> ord, sound |-> Tl!Take(request, 0, 2) = <<0, 193>>
                              /\ Tl!Take(request, 2, 4) = Tl!Bytes(Len(request), 4)
                              /\ Len(body) >= end,
       rest |-> SubSeq(body, end + 1, Len(body)),
       fields |-> [n \in names |-> Tl!Take(body, Start(layout, at(n)), layout[at(n)][2])]]

\* A structure of zeros but for the fields given.
Asked(ord, given) ==
  LET layout == Layout(ord)
      names  == {layout[i][1] : i \in DOMAIN layout}
      size(n) == layout[CHOOSE i \in DOMAIN layout : layout[i][1] = n][2]
  IN  [ord |-> ord, sound |-> TRUE, rest |-> << >>,
       fields |-> given @@ [n \in names |-> Tl!Zeros(size(n))]]

U32(n)  == Tl!Bytes(n, 4)
Data(n) == [i \in 1 .. n |-> (7 * i + 3) % 256]
Lock    == <<255, 255, 255, 255>>

(***************************************************************************)
(* What each call asks of the TPM.                                         *)
(***************************************************************************)
Presence(v)   == Asked(1073741834, [physicalPresence |-> v])
Cap(area, sub) == Asked(101, [capArea |-> U32(area), subCapSize |-> U32(4), subCap |-> sub])

Wanted(op, a) ==
  CASE op = "DefineSpace" ->
         Asked(204, [tag |-> <<0, 24>>, nvIndex |-> a[1], readSelect |-> <<0, 3>>,
                     readLocality |-> <<31>>, writeSelect |-> <<0, 3>>, writeLocality |-> <<31>>,
                     attrTag |-> <<0, 23>>, attributes |-> a[2], dataSize |-> a[3]])
    [] op = "Write"    -> [Asked(205, [nvIndex |-> a[1], dataSize |-> U32(Len(a[2]))])
                             EXCEPT !.rest = a[2]]
    [] op = "Read"     -> Asked(207, [nvIndex |-> a[1], dataSize |-> a[2]])
    [] op = "PCRRead"  -> Asked(21, [pcrNum |-> a[1]])
    [] op = "Extend"   -> Asked(20, [pcrNum |-> a[1], inDigest |-> a[2]])
    [] op = "PPAssert" -> Presence(<<0, 8>>)
    [] op = "PPEnable" -> Presence(<<0, 32>>)
    [] op = "PPLock"   -> Presence(<<0, 4>>)
    [] op = "PPFinal"  -> Presence(<<2, 160>>)
    [] op = "Startup"  -> Asked(153, [startupType |-> <<0, 1>>])
    [] op = "Resume"   -> Asked(153, [startupType |-> <<0, 2>>])
    [] op = "SaveState"   -> Asked(152, << >>)
    [] op = "SelfTest"    -> Asked(80, << >>)
    [] op = "ForceClear"  -> Asked(93, << >>)
    [] op = "Enable"      -> Asked(111, << >>)
    [] op = "Disable"     -> Asked(112, << >>)
    [] op = "IsOwned"     -> Asked(124, << >>)
    [] op = "Deactivated" -> Asked(114, [state |-> a[1]])
    [] op \in {"Flags", "PermanentFlags"} -> Cap(4, U32(264))
    [] op = "STClearFlags" -> Cap(4, U32(265))
    [] op = "Permissions"  -> Cap(17, a[1])
    [] op = "Ownership"    -> Cap(5, U32(273))
    [] op = "Random"       -> Asked(70, [bytesRequested |-> a[1]])

(***************************************************************************)
(* What the TPM sends back for it (behind the header), and what that means *)
(* to the caller.  Flag number hot is set.                                 *)
(***************************************************************************)
OneHot(n, hot) == [i \in 1 .. n |-> IF i = hot THEN 1 ELSE 0]
Sized(b)       == U32(Len(b)) \o b

\* The public data of a space, marshalled field by field.
PublicData(index, attributes) ==
  LET value(f) == CASE f[1] = "nvIndex" -> index [] f[1] = "attributes" -> attributes
                    [] OTHER -> [i \in 1 .. f[2] |-> 9]
  IN  FoldLeft(LAMBDA out, f : out \o value(f), << >>, NvPublic)

Reply(op, a, hot) ==
  CASE op = "Read"                -> Sized(Data(Tl!Value(a[2])))
    [] op \in {"PCRRead", "Extend"} -> Data(20)
    [] op \in {"Flags", "PermanentFlags"} -> Sized(<<0, 31>> \o OneHot(20, hot))
    [] op = "STClearFlags"        -> Sized(<<0, 32>> \o OneHot(5, hot))
    [] op = "Permissions"         -> Sized(PublicData(a[1], <<128, 1, 2, 3>>))
    [] op = "Ownership"           -> Sized(<<hot % 2>>)
    [] op = "Random"              -> Sized(Data(Tl!Value(a[1]) + hot - 1))
    [] OTHER                      -> << >>

Meant(op, a, hot) ==
  CASE op = "Read"                -> Data(Tl!Value(a[2]))
    [] op \in {"PCRRead", "Extend"} -> Data(20)
    [] op = "Flags"               -> <<OneHot(20, hot)[1], OneHot(20, hot)[3], OneHot(20, hot)[16]>>
    [] op = "PermanentFlags"      -> <<0, 31>> \o OneHot(20, hot)
    [] op = "STClearFlags"        -> <<0, 32>> \o OneHot(5, hot)
    [] op = "Permissions"         -> <<128, 1, 2, 3>>
    [] op = "Ownership"           -> <<hot % 2>>
    [] op = "Random"              -> Data(Tl!Value(a[1]))
    [] OTHER                      -> << >>

(***************************************************************************)
(* The calls.                                                              *)
(***************************************************************************)
Index == <<0, 0, 16, 8>>
High  == <<128, 0, 192, 1>>

Operations ==
  {<<op, << >>>> : op \in {"PPAssert", "PPEnable", "PPLock", "PPFinal", "Startup", "Resume",
     "SaveState", "SelfTest", "ForceClear", "Enable", "Disable", "IsOwned", "Flags",
     "PermanentFlags", "STClearFlags", "Ownership"}}
  \cup {<<"DefineSpace", a>> : a \in {<<Index, High, U32(13)>>, <<Lock, U32(0), U32(0)>>}}
  \cup {<<"Write", <<i, Data(n)>>>> : i \in {Index, U32(0)}, n \in {0, 1, 13, 234}}
  \cup {<<"Read", <<i, U32(n)>>>> : i \in {Index, High}, n \in {0, 1, 13, 242, 243}}
  \cup {<<"PCRRead", <<U32(7)>>>>, <<"Extend", <<U32(7), Data(20)>>>>,
        <<"Deactivated", <<<<0>>>>>>, <<"Deactivated", <<<<1>>>>>>,
        <<"Permissions", <<Index>>>>}
  \cup {<<"Random", <<U32(n)>>>> : n \in {0, 5, 241, 242, 243}}

Hots(op) == CASE op \in {"Flags", "PermanentFlags"} -> {1, 2, 3, 15, 16, 17, 20}
              [] op = "STClearFlags"                -> 1 .. 5
              [] op \in {"Ownership", "Random"}     -> {1, 2}
              [] OTHER                              -> {1}

\* Codes: success, TPM_E_BADINDEX, and TPM_E_RETRY, which does not fit in a byte.
Codes    == {0, 2, 2048}
Failures == {<<"none", 0>>, <<"write", 0>>, <<"read", 0>>, <<"read", 1>>, <<"write", 2>>}

Session(c) ==
  [build |-> c.build, tests |-> c.tests, after |-> c.after, test_rc |-> c.test_rc, fail |-> c.fail,
   rc |-> c.rc, reply |-> Reply(c.op[1], c.op[2], c.hot), no_exit |-> c.no_exit, fd |-> 3,
   exited |-> FALSE, ran |-> << >>, sent |-> 0]

TlclRuns ==
  UNION {[fn : {"tlcl"}, op : {o}, hot : Hots(o[1]), build : {"host", "once", "poll"},
          tests : {-1, 0, 2}, after : {0, 2}, test_rc : {0, 9}, fail : Failures, rc : {0, 2},
          no_exit : {TRUE}] : o \in Operations}

TlclCall(s, op, a) ==
  CASE op = "DefineSpace" /\ a[1] # Lock -> Tl!TlclDefineSpace(s, a[1], a[2], a[3])
    [] op = "DefineSpace" /\ a[1] = Lock -> Tl!TlclSetNvLocked(s)
    [] op = "Write" /\ a[2] # << >> -> Tl!TlclWrite(s, a[1], a[2])
    [] op = "Write" /\ a[2] = << >> -> IF a[1] = U32(0) THEN Tl!TlclSetGlobalLock(s)
                                       ELSE Tl!TlclWriteLock(s, a[1])
    [] op = "Read"      -> IF a[2] = U32(0) THEN Tl!TlclReadLock(s, a[1])
                           ELSE Tl!TlclRead(s, a[1], Tl!Value(a[2]))
    [] op = "PCRRead"   -> Tl!TlclPCRRead(s, a[1], 20)
    [] op = "Extend"    -> Tl!TlclExtend(s, a[1], a[2])
    [] op = "PPAssert"  -> Tl!TlclAssertPhysicalPresence(s)
    [] op = "PPEnable"  -> Tl!TlclPhysicalPresenceCMDEnable(s)
    [] op = "PPLock"    -> Tl!TlclLockPhysicalPresence(s)
    [] op = "PPFinal"   -> Tl!TlclFinalizePhysicalPresence(s)
    [] op = "Startup"   -> Tl!TlclStartup(s)
    [] op = "Resume"    -> Tl!TlclResume(s)
    [] op = "SaveState" -> Tl!TlclSaveState(s)
    [] op = "SelfTest"  -> Tl!TlclSelfTestFull(s)
    [] op = "ForceClear" -> Tl!TlclForceClear(s)
    [] op = "Enable"    -> Tl!TlclSetEnable(s)
    [] op = "Disable"   -> Tl!TlclClearEnable(s)
    [] op = "IsOwned"   -> Tl!TlclIsOwned(s)
    [] op = "Deactivated" -> Tl!TlclSetDeactivated(s, a[1][1])
    [] op = "Flags"     -> Tl!TlclGetFlags(s)
    [] op = "PermanentFlags" -> Tl!TlclGetPermanentFlags(s)
    [] op = "STClearFlags" -> Tl!TlclGetSTClearFlags(s)
    [] op = "Permissions"  -> Tl!TlclGetPermissions(s, a[1])
    [] op = "Ownership" -> Tl!TlclGetOwnership(s)
    [] op = "Random"    -> Tl!TlclGetRandom(s, Tl!Value(a[1]))

TlclDone == call.fn = "tlcl" /\ Return("tlcl", TlclCall(Session(call), call.op[1], call.op[2]))

(***************************************************************************)
(* The generator of utility/tlcl_generator.c lays out on a 32-bit and on a *)
(* 64-bit machine exactly the requests of tlcl_structures.h, although the  *)
(* structure it measures holds a pointer where the TPM expects three       *)
(* bytes.                                                                  *)
(***************************************************************************)
GeneratorRuns == [fn : {"tlcl_generator"}, ptr : {4, 8}]
GeneratorDone == call.fn = "tlcl_generator" /\ Return("tlcl_generator", Tl!Generated(call.ptr))

GeneratorAgrees ==
  Returned("tlcl_generator") =>
    /\ result.commands = Tl!tpm_cmd
    /\ result.kWriteInfoLength = Tl!kWriteInfoLength
    /\ result.kNvDataPublicPermissionsOffset = Tl!kNvDataPublicPermissionsOffset

(***************************************************************************)
(* A call of tlcl.c, with a self test in its way and an exchange that may  *)
(* be lost: the TPM executes nothing but what the call stands for, at most *)
(* once; a call that reports success was executed and returns what the TPM *)
(* said; and one that was executed with an answer reports that answer.     *)
(***************************************************************************)
TlclCallExact ==
  Returned("tlcl") =>
    LET op == call.op[1]
        a  == call.op[2]
        ran == result.s.ran
        n  == IF op = "Random" THEN Tl!Value(a[1]) ELSE 0
        ok == IF op = "IsOwned" THEN 0 ELSE Tl!TPM_SUCCESS
        lost == result.s.sent > 0 /\ call.fail = <<"read", result.s.sent - 1>>
        out  == IF op = "STClearFlags" /\ result.out # << >> THEN Front(result.out) ELSE result.out
        large == (op = "Read" /\ Tl!Value(a[2]) > 242) \/ (op = "Random" /\ call.hot > 1)
    IN  /\ Len(ran) <= 1
        /\ ran # << >> => Parsed(ran[1]) = Wanted(op, a)
        /\ result.ret = ok => ran # << >> /\ call.rc = 0 /\ out = Meant(op, a, call.hot)
        /\ ran # << >> /\ ~lost =>
              \/ op = "IsOwned" /\ result.ret = IF call.rc = 0 THEN 0 ELSE 1
              \/ op # "IsOwned" /\ result.ret = call.rc
              \/ large /\ call.rc = 0 /\ result.ret = Tl!TPM_E_RESPONSE_TOO_LARGE
        /\ ran = << >> /\ call.build = "poll" /\ call.fail[1] = "none" /\ call.test_rc = 0 =>
              n > 242 /\ result.ret = Tl!TPM_E_IOERROR

(***************************************************************************)
(* Runs of tpmc: the argument strings, and the number each stands for.     *)
(***************************************************************************)
Text(p, c)     == [prefix |-> p, chars |-> c]
Number(arg)    == LET d == [i \in 1 .. 8 |-> IF i + Len(arg.chars) <= 8 THEN 0
                                             ELSE arg.chars[i + Len(arg.chars) - 8]]
                  IN  [i \in 1 .. 4 |-> 16 * d[2 * i - 1] + d[2 * i]]
AllHex(arg)    == arg.chars # << >> /\ Tl!Junk \notin {arg.chars[i] : i \in DOMAIN arg.chars}
IsNumber(arg)  == AllHex(arg) /\ Len(arg.chars) <= 8
IsByte(arg)    == AllHex(arg) /\ Len(arg.chars) <= 2
Pairs(b)       == [i \in 1 .. 2 * Len(b) |-> IF i % 2 = 1 THEN b[(i + 1) \div 2] \div 16
                                              ELSE b[i \div 2] % 16]

Eights    == [i \in 1 .. 8 |-> 15]
Numbers   == {Text(p, c) : p \in BOOLEAN, c \in {<<1, 0, 0, 8>>, <<13>>, Eights, <<0>> \o Eights,
                                                 << >>, <<1, 16>>, <<16, 1>>}}
OneNumber == Text(TRUE, <<1, 0, 0, 8>>)
ByteTexts == {Text(p, c) : p \in BOOLEAN, c \in {<<7>>, <<15, 3>>, <<1, 0, 0>>, <<16>>}}
DigestText == Text(TRUE, Pairs(Data(20)))
RawText(r) == [i \in DOMAIN r |-> Text(FALSE, <<r[i] \div 16, r[i] % 16>>)]
RawRead    == Tl!tpm_cmd.pcr_read.buffer

Arguments(name) ==
  CASE name = "definespace" -> {<<x, y, OneNumber>> : x, y \in Numbers}
                               \cup {<<OneNumber, OneNumber>>, << >>}
    [] name = "write" -> {<<x>> : x \in Numbers} \cup {<<x, y>> : x \in Numbers, y \in ByteTexts}
                         \cup {<<OneNumber, x, y>> : x, y \in ByteTexts} \cup {<< >>}
    [] name = "read"  -> {<<OneNumber, x>> : x \in Numbers} \cup {<<OneNumber>>}
    [] name \in {"pcrread", "getpermissions", "getrandom"} -> {<<x>> : x \in Numbers} \cup {<< >>}
    [] name = "pcrextend" -> {<<x, DigestText>> : x \in Numbers}
                             \cup {<<OneNumber, Text(FALSE, Front(DigestText.chars))>>}
    [] name = "sendraw" -> {<< >>, RawText(RawRead), RawText(Front(RawRead)), <<Text(FALSE, <<1>>)>>}
    [] name = "getownership" -> {<< >>, <<OneNumber>>}
    [] OTHER          -> {<< >>}

\* What a command line asks for: a call and its arguments, or nothing.
Nothing == <<"nothing", << >>>>

LineMeans(cmd, a) ==
  LET named(names) == cmd \in names
      numbers(n)   == Len(a) = n /\ \A i \in DOMAIN a : IsNumber(a[i])
      plain(op)    == <<op, << >>>>
  IN CASE named({"getflags", "getf"})  -> plain("Flags")
       [] named({"startup", "sta"})    -> plain("Startup")
       [] named({"selftestfull", "test"}) -> plain("SelfTest")
       [] named({"assertphysicalpresence", "ppon"}) -> plain("PPAssert")
       [] named({"physicalpresencecmdenable", "ppcmd"}) -> plain("PPEnable")
       [] named({"enable", "ena"})     -> plain("Enable")
       [] named({"disable", "dis"})    -> plain("Disable")
       [] named({"activate", "act"})   -> <<"Deactivated", <<<<0>>>>>>
       [] named({"deactivate", "deact"}) -> <<"Deactivated", <<<<1>>>>>>
       [] named({"clear", "clr"})      -> plain("ForceClear")
       [] named({"setnvlocked", "setnv"}) -> <<"DefineSpace", <<Lock, U32(0), U32(0)>>>>
       [] named({"lockphysicalpresence", "pplock"}) -> plain("PPLock")
       [] named({"setbgloballock", "block"}) -> <<"Write", <<U32(0), << >>>>>>
       [] named({"definespace", "def"}) /\ numbers(3) ->
            <<"DefineSpace", <<Number(a[1]), Number(a[3]), Number(a[2])>>>>
       [] named({"write"}) /\ Len(a) > 0 /\ IsNumber(a[1]) /\ (\A i \in 2 .. Len(a) : IsByte(a[i]))
            /\ (Len(a) > 1 \/ Number(a[1]) # Lock) ->
            <<"Write", <<Number(a[1]), [i \in 1 .. Len(a) - 1 |-> Number(a[i + 1])[4]]>>>>
       [] named({"read"}) /\ numbers(2) /\ Number(a[2]) \in {U32(n) : n \in 0 .. 4096} ->
            <<"Read", <<Number(a[1]), Number(a[2])>>>>
       [] named({"pcrread", "pcr"}) /\ numbers(1) -> <<"PCRRead", <<Number(a[1])>>>>
       [] named({"pcrextend", "extend"}) /\ Len(a) = 2 /\ IsNumber(a[1]) /\ Len(a[2].chars) = 40 ->
            <<"Extend", <<Number(a[1]), Data(20)>>>>
       [] named({"getownership", "geto"}) /\ a = << >> -> plain("Ownership")
       [] named({"getpermissions", "getp"}) /\ numbers(1) -> <<"Permissions", <<Number(a[1])>>>>
       [] named({"getpermanentflags", "getpf"}) -> plain("PermanentFlags")
       [] named({"getrandom", "rand"}) /\ numbers(1) /\ Number(a[1]) \in {U32(n) : n \in 0 .. 242} ->
            <<"Random", <<Number(a[1])>>>>
       [] named({"getstclearflags", "getvf"}) -> plain("STClearFlags")
       [] named({"resume", "res"})     -> plain("Resume")
       [] named({"savestate", "save"}) -> plain("SaveState")
       [] named({"sendraw", "raw"}) /\ a = RawText(RawRead) -> <<"PCRRead", <<U32(0)>>>>
       [] OTHER -> Nothing

\* The device: there or not, busy for a while; the TPM: still testing itself, or answering.
DeviceWith(present, busy, no_exit, tests, fail) ==
  [present |-> present, busy |-> busy, no_exit |-> no_exit, tests |-> tests, fail |-> <<fail, 0>>]
Devices ==
  {DeviceWith(TRUE, b, e, 0, "none") : b \in {0, 2, 3}, e \in BOOLEAN}
  \cup {DeviceWith(FALSE, 0, e, 0, "none") : e \in BOOLEAN}
  \cup {DeviceWith(TRUE, 0, e, t, f) : e \in BOOLEAN, t \in {-1, 0}, f \in {"write", "read"}}

TpmcRuns ==
  UNION {UNION {[fn : {"tpmc"}, cmd : {l[1], l[2]}, args : {a}, rc : IF Len(a) > 1 THEN {0, 2048} ELSE Codes,
                 hot : IF l[1] \in {"getflags", "getpermanentflags"} THEN {1, 16} ELSE {1},
                 device : IF Len(a) > 1 THEN {d \in Devices : d.busy = 0} ELSE Devices] :
                a \in Arguments(l[1])} :
         l \in {Tl!command_table[i] : i \in DOMAIN Tl!command_table} \cup {<<"help", "bogus">>}}

TpmcSession(c) ==
  LET m == LineMeans(c.cmd, c.args)
  IN  c.device @@
      [build |-> "host", after |-> 0, test_rc |-> 0, rc |-> c.rc,
       reply |-> Reply(m[1], m[2], IF m[1] = "Random" THEN 1 ELSE c.hot),
       fd |-> -1, exited |-> FALSE, ran |-> << >>, sent |-> 0]

TpmcDone == call.fn = "tpmc" /\ Return("tpmc", Tl!main(TpmcSession(call), call.cmd, call.args))

\* The runs that no TPM answers, and their exit status.
Opens == call.device.present /\ call.device.busy < Tl!OPEN_RETRY_MAX_NUM
TooRandom == call.cmd \in {"getrandom", "rand"} /\ Len(call.args) = 1 /\ IsNumber(call.args[1])
TpmcUnanswered(m, test) == ~Opens \/ (m = Nothing /\ ~test) \/ (m # Nothing /\ call.device.fail[1] # "none")
TpmcOtherExit(m, test) ==
  LET asks == m # Nothing \/ test
  IN  IF (~Opens \/ (asks /\ call.device.fail[1] # "none")) /\ ~call.device.no_exit THEN 1
      ELSE IF m = Nothing /\ TooRandom THEN Tl!TPM_E_IOERROR
      ELSE Tl!OTHER_ERROR

(***************************************************************************)
(* tpmc has the TPM execute what the command line says, with the numbers   *)
(* as typed, or nothing; exit status 0 means it was executed,              *)
(* successfully, and that what is printed is what the TPM said; an         *)
(* answered command exits with the TPM's code, or 255 for codes that do    *)
(* not fit in a byte; and a well-formed line reaches a TPM that is there,  *)
(* tested, and busy for less than the time open() is retried.  The other   *)
(* exits are not all the 255 of the comment at the top of tpmc.c ("255 for *)
(* other errors"): it is 255 for a line that means nothing; but 1, from    *)
(* the exit() of the stub, for a device that cannot be opened, written or  *)
(* read, unless TPM_NO_EXIT is set (255 then); and TPM_E_IOERROR for more  *)
(* random bytes than a response holds, although no TPM was asked.          *)
(***************************************************************************)
TpmcExact ==
  Returned("tpmc") =>
    LET m     == LineMeans(call.cmd, call.args)
        ran   == result.s.ran
        test  == call.cmd \in {"continueselftest", "ctest"}
        hot   == IF m[1] = "Random" THEN 1 ELSE call.hot
        said  == CASE m[1] = "Extend" -> << >>
                   [] call.cmd \in {"sendraw", "raw"} -> Tl!Header(196, 30, 0) \o Data(20)
                   [] m[1] \in {"PermanentFlags", "STClearFlags"} ->
                        SubSeq(Meant(m[1], m[2], hot), 3, Len(Meant(m[1], m[2], hot)))
                   [] OTHER -> Meant(m[1], m[2], hot)
    IN  /\ Len(ran) <= 1
        /\ ran # << >> => m # Nothing /\ Parsed(ran[1]) = Wanted(m[1], m[2])
        /\ result.exit = 0 => \/ call.cmd = "help" \/ test
                              \/ ran # << >> /\ call.rc = 0 /\ result.printed = said
        /\ ran # << >> /\ call.device.fail[1] # "read" =>
              result.exit = IF call.rc > 255 THEN 255 ELSE call.rc
        /\ m # Nothing /\ call.device.present /\ call.device.busy < Tl!OPEN_RETRY_MAX_NUM
              /\ call.device.tests = 0 /\ call.device.fail[1] # "write" => ran # << >>
        /\ call.cmd # "help" /\ TpmcUnanswered(m, test) => result.exit = TpmcOtherExit(m, test)

TlclInputs ==
  \/ /\ call \in TlclRuns
     /\ call.tests = 0 => call.after = 0 /\ call.test_rc = 0
     /\ call.rc # 0 => call.fail[1] = "none"
  \/ call \in GeneratorRuns
  \/ call \in TpmcRuns /\ (call.device.fail[1] # "none" => call.rc \in {0, 2})
TlclNext   == call.fn \in {"tlcl", "tlcl_generator", "tpmc"} /\ (TlclDone \/ GeneratorDone \/ TpmcDone)
=============================================================================
