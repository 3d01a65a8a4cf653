------------------------------ MODULE LoadKernel ------------------------------
(***************************************************************************
 Choosing a kernel, boot after boot: the scan of the kernel partitions by
 LoadKernel() (vboot_kernel.c) with GptNextKernelEntry() and
 GptUpdateKernelEntry() (cgptlib.c), the recovery request of
 VbTryLoadKernel(), and the roll-forward of the kernel version in the TPM by
 VbSelectAndLoadKernel() (vboot_api_kernel.c).

 The partition table is the register GptDisk implements: it is replaced as a
 whole or, when power or disk fail, not at all.  A kernel image is abstracted
 to what the scan looks at:
   sig      "signed": key block signed, for this boot mode; "mismatch": signed,
            its flags or key version are not for this boot; "self": only its
            hash is good; "unreadable": header, key or preamble are bad
   version  key version * Base + kernel version
   size     of the body, which is loaded to an address of the image's own
   body     does the body verify?     boots    does the kernel come up?
 ***************************************************************************)
EXTENDS Integers, Sequences, FiniteSetsExt

CONSTANTS Scenarios,     \* what may happen in the behaviours of a run, a set of records
          MaxPriority, MaxVersion,
          Base           \* 2^16 in the code

KernelImage == [sig : {"signed", "mismatch", "self", "unreadable"}, version : 0..MaxVersion,
                size : Nat, body : BOOLEAN, boots : BOOLEAN]

ASSUME LoadKernelAssumption ==
    /\ MaxPriority \in Nat \ {0} /\ MaxVersion \in Nat
    /\ Base \in Nat \ {0}
    /\ \A s \in Scenarios : /\ s.first \in Seq(s.images) /\ s.tries \in Nat \ {0}
                           /\ s.images \subseteq KernelImage

VARIABLES env,          \* the scenario of this behaviour
          table,        \* the kernel entries of the partition table
          images,       \* the kernel partitions
          tpm,          \* kernel version in the TPM
          request,      \* VBNV_RECOVERY_REQUEST
          interrupted,  \* did anything fail since the last full boot?
          boot,         \* kind of the boot in progress
          lk,           \* variables of LoadKernel() and its GptData
          pc

vars == <<env, table, images, tpm, request, interrupted, boot, lk, pc>>

Images        == env.images         \* the images an update may install
FirstImages   == env.first          \* the images of a new or reinstalled machine
Boots         == env.boots          \* kinds of boot: mode, tryB, nofail, official
MaxTries      == env.tries          \* the tries an update asks for
NullBuffer    == env.null_buffer    \* is LoadKernelParams.kernel_buffer NULL?
StreamErrors  == env.stream_errors  \* may reading a kernel partition fail?
Interruptions == env.interruptions  \* may writing the partition table fail?

Parts == DOMAIN FirstImages
Entry == [priority : 0..MaxPriority, tries : 0..MaxTries, successful : BOOLEAN]

LOWEST_TPM_VERSION == MaxVersion + 1
Given == Len(FirstImages) + 1   \* the buffer is the caller's; 0 is NULL

(* `seen', `missed' and `saved' are history: the partitions looked at, those
   whose header could not be read, and whether the table was written back. *)
StartOf(t) ==
    [entries |-> t, kernel |-> 0, priority |-> MaxPriority + 1,
     found |-> FALSE, good |-> 0, lowest |-> LOWEST_TPM_VERSION,
     buffer |-> IF NullBuffer THEN 0 ELSE Given, seen |-> <<>>, missed |-> {},
     saved |-> FALSE]

FirstTable == [p \in Parts |-> [priority |-> 1, tries |-> 0, successful |-> TRUE]]

(* LoadKernel() has returned: of its variables only the result is left. *)
Returned(good, buffer) == [StartOf(FirstTable) EXCEPT !.good = good, !.buffer = buffer]

Init ==
    /\ env \in Scenarios
    /\ table = FirstTable /\ images = FirstImages
    /\ tpm = 0 /\ request = "none" /\ interrupted = FALSE
    /\ boot \in Boots /\ lk = Returned(0, 0) /\ pc = "off"

----------------------------------------------------------------------------
(* cgptlib *)

Bootable(e) == e.successful \/ e.tries > 0

SamePriority_None(g) == {}
SamePriority(g) ==
    {p \in Parts : g.kernel # 0 /\ p > g.kernel /\ Bootable(g.entries[p])
                   /\ g.entries[p].priority = g.priority}

LowerPriority(g) ==
    {p \in Parts : Bootable(g.entries[p]) /\ g.entries[p].priority \in 1..(g.priority - 1)}

(* p is the next partition to try: the next one of the same priority, else
   the first one of the highest priority below; 0 if there is none. *)
GptNextKernelEntry(g, p) ==
    LET same  == SamePriority(g)
        lower == LowerPriority(g)
    IN \/ p \in same /\ \A q \in same : p <= q
       \/ /\ same = {} /\ p \in lower
          /\ \A q \in lower : \/ g.entries[q].priority < g.entries[p].priority
                              \/ g.entries[q].priority = g.entries[p].priority /\ p <= q
       \/ same = {} /\ lower = {} /\ p = 0

Bad(e) == IF e.successful THEN e ELSE [e EXCEPT !.tries = 0, !.priority = 0]

Try_KeepsLast(e) ==
    IF e.successful \/ e.tries <= 1 THEN e ELSE [e EXCEPT !.tries = @ - 1]
Try(e) ==
    IF e.successful THEN e
    ELSE IF e.tries > 1 THEN [e EXCEPT !.tries = @ - 1]
    ELSE Bad(e)

----------------------------------------------------------------------------
(* LoadKernel() *)

KeyVersion(v) == v \div Base

KeyBlockValid(i) ==
    /\ i.sig = "signed"
    /\ boot.mode # "recovery" => KeyVersion(i.version) >= KeyVersion(tpm)

HeaderRejected(i) ==
    \/ i.sig = "unreadable"
    \/ i.sig = "self" /\ (boot.mode # "dev" \/ boot.official)
    \/ boot.mode # "dev" /\ ~KeyBlockValid(i)
    \/ boot.mode = "normal" /\ i.version < tpm

(* VbSelectAndLoadKernel() calls LoadKernel(), which reads the table. *)
PowerOn ==
    /\ pc = "off" /\ request = "none"
    /\ boot' \in Boots
    /\ lk' = StartOf(table) /\ pc' = "scan"
    /\ UNCHANGED <<table, images, tpm, request, interrupted>>

(* The loop, for partition p = current_kernel. *)
AtKernel(p) ==
    [lk EXCEPT !.kernel = p, !.priority = lk.entries[p].priority,
               !.found = TRUE, !.seen = Append(@, p)]

BadKernel(g) == [g EXCEPT !.entries[g.kernel] = Bad(@)]

Lowest_GoodOnly(i) == IF KeyBlockValid(i) /\ lk.good = 0 THEN Min({lk.lowest, i.version}) ELSE lk.lowest
Lowest(i) == IF KeyBlockValid(i) THEN Min({lk.lowest, i.version}) ELSE lk.lowest

Fits(i) == lk.buffer \in Parts => i.size <= images[lk.buffer].size

(* good_partition = gpt.current_kernel + 1, where current_kernel counts from 0. *)
GoodPartition(p) == p

Tried(g) == IF boot.nofail THEN g ELSE [g EXCEPT !.entries[g.kernel] = Try(@)]

LastOne(i) == boot.mode = "recovery" \/ ~KeyBlockValid(i) \/ i.version = tpm

HeaderFails(p) ==
    /\ \/ HeaderRejected(images[p]) /\ lk' = BadKernel(AtKernel(p))
       \/ StreamErrors /\ lk' = [BadKernel(AtKernel(p)) EXCEPT !.missed = @ \cup {p}]
    /\ UNCHANGED pc

(* A good kernel is known already: only the version is of interest. *)
VersionOnly(p) ==
    /\ ~HeaderRejected(images[p]) /\ lk.good # 0
    /\ lk' = [AtKernel(p) EXCEPT !.lowest = Lowest(images[p])]
    /\ UNCHANGED pc

Body(p) ==
    LET i == images[p]
        g == [AtKernel(p) EXCEPT !.lowest = Lowest(i),
                                 !.buffer = IF @ = 0 THEN p ELSE @]
    IN /\ ~HeaderRejected(i) /\ lk.good = 0
       /\ \/ /\ ~(Fits(i) /\ i.body) \/ StreamErrors
             /\ lk' = BadKernel(g) /\ UNCHANGED pc
          \/ /\ Fits(i) /\ i.body
             /\ lk' = [Tried(g) EXCEPT !.good = GoodPartition(p)]
             /\ pc' = IF LastOne(i) THEN "write" ELSE pc

NextKernel ==
    \E p \in Parts \cup {0} :
        /\ pc = "scan" /\ GptNextKernelEntry(lk, p)
        /\ \/ p # 0 /\ (HeaderFails(p) \/ VersionOnly(p) \/ Body(p))
           \/ p = 0 /\ pc' = "write" /\ UNCHANGED lk
        /\ UNCHANGED <<table, images, tpm, request, interrupted, boot>>

(* WriteAndFreeGptData(), whose result LoadKernel() does not look at. *)
WriteTable ==
    /\ pc = "write" /\ pc' = "finish"
    /\ \/ /\ table' = lk.entries /\ lk' = [lk EXCEPT !.saved = TRUE]
          /\ UNCHANGED interrupted
       \/ /\ Interruptions /\ ~interrupted /\ interrupted' = TRUE
          /\ table' \in {table, lk.entries} /\ UNCHANGED lk
    /\ UNCHANGED <<images, tpm, request, boot>>

PowerFails ==
    /\ pc \in {"scan", "write", "finish"} /\ pc' = "off"
    /\ Interruptions /\ ~interrupted /\ interrupted' = TRUE
    /\ lk' = Returned(0, 0)
    /\ UNCHANGED <<table, images, tpm, request, boot>>

RollsForward == boot.mode = "normal" /\ ~boot.tryB

NewVersion == IF lk.lowest = LOWEST_TPM_VERSION THEN tpm ELSE Max({tpm, lk.lowest})

(* LoadKernel() returns VBERROR_SUCCESS: no recovery; VbSelectAndLoadKernel()
   writes the version to the TPM and the kernel runs. *)
Success ==
    /\ pc = "finish" /\ lk.good # 0 /\ pc' = "kernel"
    /\ request' = "none"
    /\ tpm' = IF RollsForward THEN NewVersion ELSE tpm
    /\ lk' = Returned(lk.good, lk.buffer) /\ interrupted' = (interrupted /\ ~lk.saved)
    /\ UNCHANGED <<table, images, boot>>

(* VBNV_RECOVERY_RW_NO_KERNEL of VbTryLoadKernel() replaces the reason
   LoadKernel() gave; VbSelectAndLoadKernel() takes the request back when it was
   trying firmware B. *)
Failure ==
    /\ pc = "finish" /\ lk.good = 0 /\ pc' = "off"
    /\ request' = IF boot.mode = "normal" /\ boot.tryB /\ lk.found THEN "none" ELSE "no_kernel"
    /\ lk' = Returned(0, 0) /\ interrupted' = (interrupted /\ ~lk.saved)
    /\ UNCHANGED <<table, images, tpm, boot>>

----------------------------------------------------------------------------
(* The kernel and the operating system *)

KernelRuns ==
    /\ pc = "kernel"
    /\ IF images[lk.good].boots THEN pc' = "os" /\ UNCHANGED lk
       ELSE pc' = "off" /\ lk' = Returned(0, 0)
    /\ UNCHANGED <<table, images, tpm, request, interrupted, boot>>

(* The system came up and marks its kernel as successful. *)
MarkSuccessful ==
    /\ pc = "os"
    /\ table' = [table EXCEPT ![lk.good].successful = TRUE, ![lk.good].priority = Max({1, @})]
    /\ UNCHANGED <<images, tpm, request, interrupted, boot, lk, pc>>

(* An update replaces a kernel other than the running one, which has been
   marked successful. *)
Update ==
    /\ pc = "os" /\ table[lk.good].successful
    /\ \E p \in Parts \ {lk.good}, i \in Images, pr \in 1..MaxPriority :
           /\ images' = [images EXCEPT ![p] = i]
           /\ table' = [table EXCEPT ![p] = [priority |-> pr, tries |-> MaxTries, successful |-> FALSE]]
    /\ UNCHANGED <<tpm, request, interrupted, boot, lk, pc>>

Reboot ==
    /\ pc = "os" /\ pc' = "off" /\ lk' = Returned(0, 0)
    /\ UNCHANGED <<table, images, tpm, request, interrupted, boot>>

(* Recovery: the user reinstalls the machine, with images that are not older
   than the TPM's version. *)
Reinstall ==
    /\ pc = "off" /\ request # "none" /\ request' = "none"
    /\ table' = FirstTable
    /\ images' = [p \in Parts |-> [FirstImages[p] EXCEPT !.version = Max({@, tpm})]]
    /\ interrupted' = FALSE
    /\ UNCHANGED <<tpm, boot, lk, pc>>

Firmware == PowerOn \/ NextKernel \/ WriteTable \/ Success \/ Failure \/ KernelRuns \/ Reinstall
Next == (Firmware \/ PowerFails \/ MarkSuccessful \/ Update \/ Reboot) /\ UNCHANGED env

Spec == Init /\ [][Next]_vars

(* The firmware never stops on its own; a machine that hangs is reset. *)
FairSpec == Spec /\ ([]<>(pc = "os") \/ []<><<Firmware>>_vars)

----------------------------------------------------------------------------
(* GptNextKernelEntry() visits the partitions that may boot by falling
   priority and then in the order of the table, each once, although the scan
   changes entries as it goes; when no kernel is good it has visited all. *)
Before(p, q) == \/ table[p].priority > table[q].priority
                \/ table[p].priority = table[q].priority /\ p < q
Candidates == {p \in Parts : table[p].priority > 0 /\ Bootable(table[p])}
Seen == {lk.seen[i] : i \in DOMAIN lk.seen}
ScanOrder ==
    pc \in {"scan", "write"} =>
        /\ \A i, j \in DOMAIN lk.seen : i < j => Before(lk.seen[i], lk.seen[j])
        /\ Seen \subseteq Candidates
        /\ \A p \in Candidates, q \in Seen : Before(p, q) => p \in Seen
        /\ pc = "write" /\ lk.good = 0 => Seen = Candidates

(* The kernel version in the TPM never decreases and never passes a kernel
   that may still be booted, if its header could be read: rolling forward takes
   no fallback away (LoadKernel()'s lowest_version). *)
KeepsFallbacks ==
    [][/\ tpm' >= tpm
       /\ tpm' > tpm =>
             \A p \in Parts \ lk.missed :
                 table[p].priority > 0 /\ Bootable(table[p]) /\ ~HeaderRejected(images[p])
                     => images[p].version >= tpm']_vars

(* A machine that is delivered with good kernels, boots in normal mode and
   gives LoadKernel() a buffer, or whose disk may fail to be read. *)
Dependable ==
    \A s \in Scenarios :
        \/ s.stream_errors
        \/ /\ ~s.null_buffer /\ \A b \in s.boots : b.mode = "normal"
           /\ s.first # <<>>
           /\ \A i \in DOMAIN s.first : s.first[i].sig = "signed" /\ s.first[i].body

(* With a kernel that was once marked successful on the disk the machine
   never asks for recovery, whatever an update installed beside it and wherever
   writing the table was cut short (GPT_UPDATE_ENTRY_BAD leaves it alone, the
   roll-forward does not pass it, the scan gets to it), unless a partition
   cannot be read. *)
NeverNeedsRecovery == StreamErrors \/ request = "none"

(* The old kernel is never out of reach: the scan gets to it, and what happens
   before the scan or during it leaves it bootable. *)
FallbackReached == ScanOrder /\ NeverNeedsRecovery

(* A new kernel that hangs runs out of tries, and the machine comes up with
   the old one: an operating system runs again and again
   (GPT_UPDATE_ENTRY_TRY), as long as the disk can be read. *)
ReachesOs == StreamErrors \/ []<>(pc = "os")
=============================================================================
