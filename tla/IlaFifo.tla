------------------------------ MODULE IlaFifo -------------------------------
(***************************************************************************)
(* The instruction-level abstraction of the TPM FIFO: the simulator that   *)
(* is its oracle (ILA/fifo_sim.py), the update function that was           *)
(* synthesized from it and exported to C (CBMC/tpm-c/tpm_export.c), and    *)
(* the device built on the exported function (ila_tpm.c).                  *)
(* A device is [state, sts, in_amt, cmdsize, indata, out_amt, outdata,     *)
(* dataout, pcr]; an access is [cmd, addr, data].                          *)
(***************************************************************************)
EXTENDS Integers, Sequences, FiniteSets

CONSTANT SHA1(_)

NOP == 0
RD  == 1
WR  == 2
IDLE == 0
ACCEPTING == 1
FULL == 2
SENDING == 3
WORKING == 4
STS_ADDR == 36
FIFO_ADDR == 24
BURST_ADDR == 1
FIFO_MAX_AMT == 126
STS_GO == 32
STS_COMMAND_READY == 64

Ordinal(s, ord) == s.indata[6] = 0 /\ s.indata[7] = 0 /\ s.indata[8] = 0 /\ s.indata[9] = ord
RightSize(s) == s.state = ACCEPTING /\ s.in_amt = s.cmdsize

\* Both kinds of device answer a PCR command alike: 30 bytes, last one first.
PcrAnswer(s, digest) ==
  [s EXCEPT !.out_amt = 30,
            !.outdata = [k \in DOMAIN @ |-> CASE k = 29 -> 196 [] k = 25 -> 30 [] k \in 1..20 -> digest[21 - k]
                                              [] OTHER -> @[k]]]

pcr_extend(s) ==
  LET i == s.indata[13]
      digest == SHA1(s.pcr[i] \o [k \in 1..20 |-> s.indata[13 + k]])
  IN  PcrAnswer([s EXCEPT !.pcr[i] = digest], digest)

pcr_read(s) == PcrAnswer(s, s.pcr[s.indata[13]])

(***************************************************************************)
(* The oracle                                                              *)
(***************************************************************************)
runCmd(s) ==
  IF RightSize(s) /\ Ordinal(s, 20) THEN [pcr_extend(s) EXCEPT !.state = SENDING]
  ELSE IF RightSize(s) /\ Ordinal(s, 21) THEN [pcr_read(s) EXCEPT !.state = SENDING]
  ELSE [s EXCEPT !.state = IDLE, !.in_amt = 0, !.out_amt = 0]

SimRead(s, a) ==
  CASE a.addr = STS_ADDR -> [s EXCEPT !.dataout = s.sts]
    [] a.addr = BURST_ADDR /\ s.state = ACCEPTING -> [s EXCEPT !.dataout = FIFO_MAX_AMT - s.in_amt]
    [] a.addr = BURST_ADDR /\ s.state = SENDING -> [s EXCEPT !.dataout = s.out_amt]
    [] a.addr = FIFO_ADDR /\ s.state = SENDING /\ s.out_amt > 0 ->
         [s EXCEPT !.dataout = s.outdata[s.out_amt], !.out_amt = @ - 1]
    [] OTHER -> [s EXCEPT !.dataout = 0]

SimWrite(s, a) ==
  CASE a.addr = STS_ADDR /\ a.data = STS_COMMAND_READY -> [s EXCEPT !.state = ACCEPTING, !.in_amt = 0, !.out_amt = 0]
    [] a.addr = STS_ADDR /\ a.data = STS_GO -> runCmd(s)
    [] a.addr = FIFO_ADDR /\ s.state # FULL ->
         [s EXCEPT !.cmdsize = IF s.in_amt = 5 THEN a.data ELSE @, !.indata[s.in_amt] = a.data, !.in_amt = @ + 1,
                   !.state = IF s.in_amt + 1 = FIFO_MAX_AMT THEN FULL ELSE @]
    [] OTHER -> s

SimStatus(s) ==
  (IF s.out_amt > 0 THEN 16 ELSE 0) + (IF s.state # WORKING THEN 128 ELSE 0)
  + (IF (s.state = ACCEPTING /\ s.in_amt < 4) \/ s.in_amt < s.cmdsize THEN 8 ELSE 0)

simulate(s, a) ==
  LET t == CASE a.cmd = RD -> SimRead(s, a) [] a.cmd = WR -> SimWrite([s EXCEPT !.dataout = 0], a)
             [] OTHER -> [s EXCEPT !.dataout = 0]
  IN  [t EXCEPT !.sts = SimStatus(t)]

(***************************************************************************)
(* The exported function.  Its conditions are the decode expressions of    *)
(* fifo_synth.py: an access in a state (general), a command byte written   *)
(* to the status register in a state with an amount of output (cmds), the  *)
(* PCR extend command, and the size byte (cmdsize).                        *)
(***************************************************************************)
General(addr, cmd, states) == {<<"general", addr, cmd, st>> : st \in states}
States == 0..4
Cmds(data, amount) == {<<"cmds", data, amount, st>> : st \in States}
Extend == {<<"pcr_extend">>}
CmdSize == {<<"cmdsize", STS_GO>>, <<"cmdsize", STS_COMMAND_READY>>}

Holds(e, s, a) ==
  CASE e[1] = "general"    -> a.addr = e[2] /\ a.cmd = e[3] /\ s.state = e[4]
    [] e[1] = "cmds"       -> a.addr = STS_ADDR /\ a.cmd = WR /\ a.data = e[2] /\ s.out_amt = e[3] /\ s.state = e[4]
    [] e[1] = "cmdsize"    -> a.addr = FIFO_ADDR /\ a.cmd = WR /\ s.state = SENDING /\ s.in_amt = 5 /\ a.data = e[2]
    [] e[1] = "pcr_extend" -> a.addr = STS_ADDR /\ a.cmd = WR /\ a.data = STS_GO /\ RightSize(s) /\ Ordinal(s, 20)

\* The order in which update() evaluates them: each group only when none of
\* the groups before it holds.
Idle0 == Cmds(STS_GO, 0) \cup Cmds(STS_COMMAND_READY, 0) \cup General(BURST_ADDR, RD, {SENDING})
BurstAccepting == General(BURST_ADDR, RD, {ACCEPTING})
StsReads == General(STS_ADDR, RD, States)
SizeAndExtend == CmdSize \cup Extend
Idle1 == Cmds(STS_GO, 1) \cup Cmds(STS_COMMAND_READY, 1)
BurstRest == General(BURST_ADDR, WR, States) \cup General(BURST_ADDR, RD, {IDLE, FULL, WORKING}) \cup General(BURST_ADDR, NOP, States)
FifoAll == General(FIFO_ADDR, WR, States) \cup General(FIFO_ADDR, RD, States) \cup General(FIFO_ADDR, NOP, States)
StsRest == General(STS_ADDR, WR, States) \cup General(STS_ADDR, NOP, States)
Rest == SizeAndExtend \cup Idle1 \cup BurstRest \cup FifoAll \cup StsRest

Groups == <<Idle0, BurstAccepting, StsReads, Rest>>
True(group, s, a) == {e \in group : Holds(e, s, a)}

\* What is evaluated, and what keeps the value its local variable happens to
\* have because an earlier group held.
Taken(s, a) == IF \E k \in 1..3 : True(Groups[k], s, a) # {}
               THEN CHOOSE k \in 1..3 : True(Groups[k], s, a) # {} /\ \A j \in 1..(k - 1) : True(Groups[j], s, a) = {}
               ELSE 4
Unset(s, a) == UNION {Groups[k] : k \in (Taken(s, a) + 1)..4}
Decoded(s, a, unset) == UNION {True(Groups[k], s, a) : k \in 1..Taken(s, a)} \cup (unset \cap Unset(s, a))

InState(st) == General(STS_ADDR, RD, {st}) \cup General(STS_ADDR, WR, {st}) \cup General(STS_ADDR, NOP, {st})
               \cup General(FIFO_ADDR, RD, {st}) \cup General(FIFO_ADDR, WR, {st}) \cup General(FIFO_ADDR, NOP, {st})
               \cup General(BURST_ADDR, RD, {st}) \cup General(BURST_ADDR, WR, {st}) \cup General(BURST_ADDR, NOP, {st})
Go == Cmds(STS_GO, 0) \cup Cmds(STS_GO, 1)
Ready == Cmds(STS_COMMAND_READY, 0) \cup Cmds(STS_COMMAND_READY, 1)
Stores == General(FIFO_ADDR, WR, States \ {FULL}) \cup CmdSize

\* The next value of each register, from the set of conditions that hold.
NextDataout(s, d, k) ==
  CASE k = 1 -> s.out_amt [] k = 2 -> (FIFO_MAX_AMT - s.in_amt) % 256 [] k = 3 -> s.sts
    [] k = 4 -> IF d \cap Rest # {} THEN 0 ELSE s.dataout
NextInAmt(s, d) ==
  IF d \cap (Go \cup Ready) # {} THEN 0 ELSE IF d \cap Stores # {} THEN (s.in_amt + 1) % 256 ELSE s.in_amt
NextCmdSize(s, d, a) == IF d \cap CmdSize # {} THEN a.data ELSE s.cmdsize
NextOutAmt(s, d) ==
  IF d \cap Extend # {} THEN 30
  ELSE IF d \cap (Go \cup Ready \cup General(FIFO_ADDR, RD, {SENDING})) # {} THEN 0 ELSE s.out_amt
NextState(s, d) ==
  CASE d \cap InState(WORKING) # {} -> WORKING
    [] d \cap InState(WORKING) = {} /\ d \cap (InState(SENDING) \cup Extend \cup CmdSize) # {} -> SENDING
    [] OTHER -> IF d \cap InState(FULL) # {} THEN FULL
                ELSE IF d \cap (InState(ACCEPTING) \cup Ready) # {} THEN ACCEPTING
                ELSE IF d \cap (InState(IDLE) \cup Go) # {} THEN IDLE ELSE s.state
NextSts(s, d) ==
  IF d \cap Extend # {} THEN 144
  ELSE IF d \cap InState(WORKING) # {} THEN 0
  ELSE IF d \cap (InState(ACCEPTING) \cup Ready \cup CmdSize) # {} THEN 136
  ELSE IF d \cap (InState(IDLE) \cup InState(FULL) \cup InState(SENDING) \cup Go) # {} THEN 128 ELSE s.sts
NextIndata(s, d, a) == IF d \cap Stores # {} THEN [s.indata EXCEPT ![s.in_amt] = a.data] ELSE s.indata

update(s, a, unset) ==
  LET d == Decoded(s, a, unset)
  IN  [s EXCEPT !.dataout = NextDataout(s, d, Taken(s, a)), !.in_amt = NextInAmt(s, d), !.cmdsize = NextCmdSize(s, d, a),
                !.out_amt = NextOutAmt(s, d), !.state = NextState(s, d), !.sts = NextSts(s, d),
                !.indata = NextIndata(s, d, a)]

(***************************************************************************)
(* The device on top of it: ready, go and reads never reach update().      *)
(***************************************************************************)
HasPcr(s) == s.indata[13] <= 23

ilarunCmd(s) ==
  CASE RightSize(s) /\ Ordinal(s, 20) /\ HasPcr(s) -> [pcr_extend(s) EXCEPT !.state = SENDING]
    [] RightSize(s) /\ Ordinal(s, 21) /\ HasPcr(s) -> [pcr_read(s) EXCEPT !.state = SENDING]
    [] OTHER -> [s EXCEPT !.state = SENDING, !.in_amt = 0, !.out_amt = 9,
                          !.outdata[8] = 196, !.outdata[4] = 9, !.outdata[1] = 255]

CommandReady(s) == [s EXCEPT !.state = ACCEPTING, !.in_amt = 0, !.out_amt = 0]

\* What the host gets is `ret'; it is not set (-1) for the accesses that
\* end in update().  The tests of fifo_state in the reads are assignments.
tpm_update(s, a, unset) ==
  CASE a.cmd = WR /\ a.addr = STS_ADDR /\ a.data = STS_COMMAND_READY ->
         [dev |-> CommandReady(s), ret |-> 0]
    [] a.cmd = WR /\ a.addr = STS_ADDR /\ a.data = STS_GO -> [dev |-> ilarunCmd(s), ret |-> 0]
    [] a.cmd = RD /\ a.addr = FIFO_ADDR ->
         IF s.out_amt > 0 THEN [dev |-> [s EXCEPT !.state = SENDING, !.out_amt = @ - 1], ret |-> s.outdata[s.out_amt]]
         ELSE [dev |-> [s EXCEPT !.state = SENDING], ret |-> 222]
    [] a.cmd = RD /\ a.addr = BURST_ADDR -> [dev |-> [s EXCEPT !.state = SENDING], ret |-> s.out_amt]
    [] OTHER -> [dev |-> update(IF a.cmd = WR /\ a.addr = FIFO_ADDR /\ s.in_amt = 5 THEN [s EXCEPT !.cmdsize = a.data] ELSE s,
                                a, unset), ret |-> -1]
=============================================================================
