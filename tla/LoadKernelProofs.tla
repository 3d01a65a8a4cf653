-------------------------- MODULE LoadKernelProofs --------------------------
(***************************************************************************
 Proofs about LoadKernel, for any number of partitions, priorities, versions
 and scenarios: that rolling the kernel version forward takes no fallback away
 (KeepsFallbacks), that the scan is in order (ScanOrder), and that the old
 kernel is always reached (FallbackReached).

 The scan goes through the partitions by falling priority and then in the
 order of the table.  At each of its steps the partitions are divided into
 those it has passed and those still before it; the inductive invariant says
 that the scan has not touched the entries before it, and that the lowest
 version it has met bounds the version of every kernel it has passed.  SeenInv
 adds which partitions it has seen, SureInv that a kernel every normal boot
 accepts stays on the disk and is not passed in vain.
 ***************************************************************************)
EXTENDS LoadKernel, TLAPS

MayBoot(e) == e.priority > 0 /\ Bootable(e)

LkState == [entries : [Parts -> Entry], kernel : Parts \cup {0}, priority : 0..(MaxPriority + 1),
            found : BOOLEAN, good : Parts \cup {0}, lowest : 0..LOWEST_TPM_VERSION,
            buffer : Parts \cup {0, Given}, seen : Seq(Parts), missed : SUBSET Parts,
            saved : BOOLEAN]

TypeInv ==
    /\ env \in Scenarios
    /\ table \in [Parts -> Entry] /\ images \in [Parts -> KernelImage]
    /\ tpm \in 0..MaxVersion /\ lk \in LkState

(* The scan only ever takes a partition out of the running. *)
NoneRevived ==
    pc \in {"scan", "write"} =>
        \A p \in Parts : MayBoot(lk.entries[p]) =>
            MayBoot(table[p]) /\ lk.entries[p].priority = table[p].priority

(* Has the scan passed partition p? *)
Passed(p) == \/ table[p].priority > lk.priority
             \/ table[p].priority = lk.priority /\ lk.kernel # 0 /\ p <= lk.kernel

(* Partitions a roll-forward must not lock out, and the lowest version met. *)
Fallback(p) == p \notin lk.missed /\ MayBoot(table[p]) /\ ~HeaderRejected(images[p])
Bounded(p)  == Fallback(p) => lk.lowest <= images[p].version

Position ==
    pc = "scan" =>
        /\ lk.priority > 0 /\ (lk.kernel = 0 => lk.priority = MaxPriority + 1)
        /\ \A p \in Parts : ~Passed(p) => lk.entries[p] = table[p]
        /\ boot.mode = "normal" => \A p \in Parts : Passed(p) => Bounded(p)

(* The scan ends when nothing is left, or at a kernel that keeps the TPM's
   version where it is. *)
Scanned ==
    pc \in {"write", "finish"} /\ boot.mode = "normal" =>
        lk.lowest <= tpm \/ \A p \in Parts : Bounded(p)

IInv == TypeInv /\ NoneRevived /\ Position /\ Scanned

----------------------------------------------------------------------------
(* Minima and maxima *)

LEMMA MinOfTwo ==
    ASSUME NEW a \in Nat, NEW b \in Nat
    PROVE  Min({a, b}) = IF a <= b THEN a ELSE b
<1> DEFINE m == IF a <= b THEN a ELSE b
<1>1. m \in {a, b} /\ \A y \in {a, b} : m <= y
  OBVIOUS
<1>2. \A z \in {a, b} : (\A y \in {a, b} : z <= y) => z = m
  OBVIOUS
<1>3. Min({a, b}) = CHOOSE z \in {a, b} : \A y \in {a, b} : z <= y
  BY DEF Min
<1> QED
  BY <1>1, <1>2, <1>3

LEMMA MaxOfTwo ==
    ASSUME NEW a \in Nat, NEW b \in Nat
    PROVE  Max({a, b}) = IF a >= b THEN a ELSE b
<1> DEFINE m == IF a >= b THEN a ELSE b
<1>1. m \in {a, b} /\ \A y \in {a, b} : m >= y
  OBVIOUS
<1>2. \A z \in {a, b} : (\A y \in {a, b} : z >= y) => z = m
  OBVIOUS
<1>3. Max({a, b}) = CHOOSE z \in {a, b} : \A y \in {a, b} : z >= y
  BY DEF Max
<1> QED
  BY <1>1, <1>2, <1>3

----------------------------------------------------------------------------
(* The constants, the entries of the table and one step of the scan *)

LEMMA Constants ==
    ASSUME TypeInv
    PROVE  /\ MaxPriority \in Nat \ {0} /\ MaxVersion \in Nat /\ MaxTries \in Nat \ {0}
           /\ Parts = 1..Len(FirstImages) /\ Len(FirstImages) \in Nat
           /\ FirstImages \in [Parts -> KernelImage] /\ Images \subseteq KernelImage
<1>1. env \in Scenarios
  BY DEF TypeInv
<1>2. /\ env.first \in Seq(env.images) /\ env.tries \in Nat \ {0}
      /\ env.images \subseteq KernelImage
  BY <1>1, LoadKernelAssumption
<1>3. /\ DOMAIN env.first = 1..Len(env.first) /\ Len(env.first) \in Nat
      /\ env.first \in [1..Len(env.first) -> env.images]
  BY <1>2
<1> QED
  BY <1>2, <1>3, LoadKernelAssumption DEF Parts, FirstImages, Images, MaxTries

(* An entry that is marked bad or tried keeps its place or leaves the running. *)
LEMMA EntrySteps ==
    ASSUME TypeInv, NEW e \in Entry, NEW f \in {e, Bad(e), Try(e)}
    PROVE  /\ f \in Entry /\ (MayBoot(f) => MayBoot(e) /\ f.priority = e.priority)
           /\ e.successful \/ f.successful => f = e
<1>1. MaxPriority \in Nat /\ MaxTries \in Nat
  BY Constants
<1>2. /\ e.priority \in 0..MaxPriority /\ e.tries \in 0..MaxTries /\ e.successful \in BOOLEAN
  BY DEF Entry
<1>3. /\ Bad(e) \in Entry /\ (MayBoot(Bad(e)) => MayBoot(e) /\ Bad(e).priority = e.priority)
      /\ e.successful \/ Bad(e).successful => Bad(e) = e
  <2>1. CASE e.successful
    BY <2>1 DEF Bad
  <2>2. CASE ~e.successful
    <3>1. Bad(e) = [e EXCEPT !.tries = 0, !.priority = 0]
      BY <2>2 DEF Bad
    <3>2. 0 \in 0..MaxPriority /\ 0 \in 0..MaxTries
      BY <1>1
    <3>3. Bad(e) \in Entry
      BY <3>1, <3>2, Zenon DEF Entry
    <3>4. Bad(e).priority = 0 /\ ~Bad(e).successful
      BY <2>2, <3>1 DEF Entry
    <3> QED
      BY <2>2, <3>3, <3>4 DEF MayBoot
  <2> QED
    BY <2>1, <2>2
<1>4. CASE f = Try(e) /\ ~e.successful /\ e.tries > 1
  BY <1>1, <1>2, <1>4 DEF Try, Entry, MayBoot, Bootable
<1>5. CASE f = Try(e) /\ ~(~e.successful /\ e.tries > 1)
  BY <1>2, <1>3, <1>5 DEF Try
<1> QED
  BY <1>3, <1>4, <1>5

(* What a step of the scan makes of the variables of LoadKernel() when it
   looks at partition p. *)
Visits(p, g) ==
    /\ g \in LkState
    /\ g.kernel = p /\ g.priority = lk.entries[p].priority
    /\ \A r \in Parts \ {p} : g.entries[r] = lk.entries[r]
    /\ MayBoot(g.entries[p]) => MayBoot(lk.entries[p]) /\ g.entries[p].priority = lk.entries[p].priority
    /\ lk.entries[p].successful \/ g.entries[p].successful => g.entries[p] = lk.entries[p]
    /\ g.seen = Append(lk.seen, p)
    /\ lk.missed \subseteq g.missed /\ g.lowest <= lk.lowest

(* And whether it finds a good kernel there. *)
Finds(p, g) ==
    /\ ~StreamErrors => g.missed = lk.missed
    /\ lk.buffer # 0 => g.buffer = lk.buffer
    /\ \/ /\ g.good = lk.good /\ UNCHANGED pc
          /\ lk.good = 0 => \/ StreamErrors \/ HeaderRejected(images[p])
                            \/ ~(Fits(images[p]) /\ images[p].body)
       \/ /\ lk.good = 0 /\ g.good = p /\ ~HeaderRejected(images[p]) /\ images[p].body
          /\ KeyBlockValid(images[p]) => g.lowest <= images[p].version

LEMMA AtKernelVisits ==
    ASSUME TypeInv, NEW p \in Parts
    PROVE  Visits(p, AtKernel(p)) /\ AtKernel(p).lowest = lk.lowest
<1>1. lk \in LkState /\ lk.entries[p] \in Entry /\ lk.lowest \in Int
  BY SMTT(30), SMTT(60), Constants DEF TypeInv, LkState, LOWEST_TPM_VERSION
<1>2. lk.entries[p].priority \in 0..(MaxPriority + 1)
  BY <1>1, Constants DEF Entry
<1>3. Append(lk.seen, p) \in Seq(Parts)
  BY <1>1 DEF LkState
<1>4. AtKernel(p) \in LkState
  BY Zenon, <1>1, <1>2, <1>3 DEF AtKernel, LkState
<1>5. /\ AtKernel(p).kernel = p /\ AtKernel(p).priority = lk.entries[p].priority
      /\ AtKernel(p).entries = lk.entries /\ AtKernel(p).missed = lk.missed
      /\ AtKernel(p).lowest = lk.lowest /\ AtKernel(p).seen = Append(lk.seen, p)
  BY <1>1 DEF AtKernel, LkState
<1> QED
  BY <1>1, <1>4, <1>5 DEF Visits

(* A change of the current entry keeps a visit one. *)
LEMMA ChangeVisits ==
    ASSUME TypeInv, NEW p \in Parts, NEW g, Visits(p, g), g.entries[p] = lk.entries[p],
           NEW h \in {BadKernel(g), Tried(g)}
    PROVE  /\ Visits(p, h) /\ h.lowest = g.lowest /\ h.missed = g.missed
           /\ h.good = g.good /\ h.buffer = g.buffer
<1>1. g \in LkState /\ g.kernel = p /\ g.entries \in [Parts -> Entry]
  BY DEF Visits, LkState
<1>2. PICK f \in {g.entries[p], Bad(g.entries[p]), Try(g.entries[p])} :
        h = [g EXCEPT !.entries[p] = f]
  <2>1. CASE h = BadKernel(g)
    BY <1>1, <2>1, Zenon DEF BadKernel
  <2>2. CASE h = Tried(g) /\ ~boot.nofail
    BY <1>1, <2>2, Zenon DEF Tried
  <2>3. CASE h = Tried(g) /\ boot.nofail
    <3>1. g = [g EXCEPT !.entries[p] = g.entries[p]]
      BY <1>1 DEF LkState
    <3> QED
      BY <2>3, <3>1 DEF Tried
  <2> QED
    BY <2>1, <2>2, <2>3
<1>3. /\ f \in Entry /\ (MayBoot(f) => MayBoot(g.entries[p]) /\ f.priority = g.entries[p].priority)
      /\ g.entries[p].successful \/ f.successful => f = g.entries[p]
  BY <1>1, <1>2, EntrySteps
<1>4. h \in LkState
  BY <1>1, <1>2, <1>3 DEF LkState
<1>5. /\ h.kernel = g.kernel /\ h.priority = g.priority /\ h.missed = g.missed
      /\ h.lowest = g.lowest /\ h.entries = [g.entries EXCEPT ![p] = f]
      /\ h.good = g.good /\ h.buffer = g.buffer /\ h.seen = g.seen
  BY <1>1, <1>2 DEF LkState
<1>6. h.entries[p] = f /\ \A r \in Parts \ {p} : h.entries[r] = g.entries[r]
  BY <1>1, <1>5
<1> QED
  BY <1>3, <1>4, <1>5, <1>6 DEF Visits

(* The versions met: the bound on the version of a kernel that is not refused. *)
LEMMA LowestBounds ==
    ASSUME TypeInv, NEW p \in Parts
    PROVE  /\ Lowest(images[p]) \in 0..LOWEST_TPM_VERSION /\ Lowest(images[p]) <= lk.lowest
           /\ KeyBlockValid(images[p]) => Lowest(images[p]) <= images[p].version
<1>1. /\ lk.lowest \in Nat /\ lk.lowest <= LOWEST_TPM_VERSION
      /\ images[p].version \in Nat /\ images[p].version <= LOWEST_TPM_VERSION
  <2>1. lk.lowest \in 0..LOWEST_TPM_VERSION /\ images[p] \in KernelImage
    BY DEF TypeInv, LkState
  <2>2. images[p].version \in 0..MaxVersion
    BY <2>1 DEF KernelImage
  <2> QED
    BY <2>1, <2>2, Constants DEF LOWEST_TPM_VERSION
<1>2. LOWEST_TPM_VERSION \in Nat
  BY Constants DEF LOWEST_TPM_VERSION
<1> QED
  BY <1>1, <1>2, MinOfTwo DEF Lowest

(* Outside developer mode the key block of a kernel that is not refused is valid. *)
LEMMA AcceptedIsValid ==
    ASSUME NEW i, boot.mode = "normal", ~HeaderRejected(i)
    PROVE  KeyBlockValid(i)
BY DEF HeaderRejected

(* Every way the loop handles partition p is a visit, and in normal mode a
   kernel it does not refuse and could read bounds the lowest version. *)
LEMMA LoopVisits ==
    ASSUME TypeInv, NEW p \in Parts, HeaderFails(p) \/ VersionOnly(p) \/ Body(p)
    PROVE  /\ Visits(p, lk') /\ Finds(p, lk')
           /\ boot.mode = "normal" /\ p \notin lk'.missed /\ ~HeaderRejected(images[p])
                 => lk'.lowest <= images[p].version
           /\ \/ UNCHANGED pc
              \/ pc' = "write" /\ (boot.mode = "normal" => lk'.lowest <= tpm)
<1> DEFINE a == AtKernel(p)
           i == images[p]
<1>1. /\ Visits(p, a) /\ a.lowest = lk.lowest /\ a \in LkState /\ a.entries[p] = lk.entries[p]
      /\ a.missed = lk.missed /\ a.buffer = lk.buffer /\ a.good = lk.good
  <2>1. lk \in LkState
    BY DEF TypeInv
  <2>2. a.entries = lk.entries /\ a.missed = lk.missed /\ a.buffer = lk.buffer /\ a.good = lk.good
    BY <2>1 DEF AtKernel, LkState
  <2> QED
    BY <2>2, AtKernelVisits DEF Visits
<1>2. /\ Lowest(i) \in 0..LOWEST_TPM_VERSION /\ Lowest(i) <= lk.lowest
      /\ KeyBlockValid(i) => Lowest(i) <= i.version
  BY LowestBounds
<1> HIDE DEF a
<1>3. CASE HeaderRejected(i) /\ lk' = BadKernel(a) /\ UNCHANGED pc
  BY <1>1, <1>3, ChangeVisits DEF Finds
<1>4. CASE StreamErrors /\ lk' = [BadKernel(a) EXCEPT !.missed = @ \cup {p}] /\ UNCHANGED pc
  <2>1. Visits(p, BadKernel(a)) /\ BadKernel(a).good = lk.good /\ BadKernel(a).buffer = lk.buffer
    BY <1>1, ChangeVisits
  <2>2. BadKernel(a) \in LkState
    BY <2>1 DEF Visits
  <2>3. /\ lk' \in LkState /\ p \in lk'.missed /\ BadKernel(a).missed \subseteq lk'.missed
        /\ lk'.kernel = BadKernel(a).kernel /\ lk'.priority = BadKernel(a).priority
        /\ lk'.entries = BadKernel(a).entries /\ lk'.lowest = BadKernel(a).lowest
        /\ lk'.good = BadKernel(a).good /\ lk'.buffer = BadKernel(a).buffer
        /\ lk'.seen = BadKernel(a).seen
    BY <1>4, <2>2 DEF LkState
  <2>4. Visits(p, lk')
    BY <2>1, <2>3 DEF Visits
  <2> QED
    BY <1>4, <2>1, <2>3, <2>4 DEF Finds
<1>5. CASE VersionOnly(p)
  <2>1. ~HeaderRejected(i) /\ lk.good # 0 /\ lk' = [a EXCEPT !.lowest = Lowest(i)] /\ UNCHANGED pc
    BY <1>5 DEF VersionOnly, a
  <2>2. /\ lk' \in LkState /\ lk'.missed = a.missed /\ lk'.kernel = a.kernel
        /\ lk'.priority = a.priority /\ lk'.entries = a.entries /\ lk'.lowest = Lowest(i)
        /\ lk'.good = a.good /\ lk'.buffer = a.buffer /\ lk'.seen = a.seen
    BY Zenon, <1>1, <1>2, <2>1 DEF LkState
  <2>3. Visits(p, lk')
    BY <1>1, <1>2, <2>2 DEF Visits
  <2> QED
    BY <1>1, <1>2, <2>1, <2>2, <2>3, AcceptedIsValid DEF Finds
<1>6. CASE Body(p)
  <2> DEFINE g == [a EXCEPT !.lowest = Lowest(i), !.buffer = IF @ = 0 THEN p ELSE @]
  <2>1. /\ g \in LkState /\ g.missed = a.missed /\ g.kernel = a.kernel
        /\ g.priority = a.priority /\ g.entries = a.entries /\ g.lowest = Lowest(i)
        /\ g.good = a.good /\ (a.buffer # 0 => g.buffer = a.buffer) /\ g.seen = a.seen
    BY Zenon, <1>1, <1>2 DEF LkState
  <2>2. ~HeaderRejected(i) /\ lk.good = 0
    BY <1>6 DEF Body
  <2>3. \/ (~(Fits(i) /\ i.body) \/ StreamErrors) /\ lk' = BadKernel(g) /\ UNCHANGED pc
        \/ i.body /\ lk' = [Tried(g) EXCEPT !.good = p] /\ pc' = IF LastOne(i) THEN "write" ELSE pc
    BY <1>6, Zenon DEF Body, a, GoodPartition
  <2> HIDE DEF g
  <2>4. Visits(p, g) /\ g.entries[p] = lk.entries[p]
    BY <1>1, <1>2, <2>1 DEF Visits
  <2>5. CASE (~(Fits(i) /\ i.body) \/ StreamErrors) /\ lk' = BadKernel(g) /\ UNCHANGED pc
    BY <1>1, <1>2, <2>1, <2>2, <2>4, <2>5, ChangeVisits, AcceptedIsValid DEF Finds
  <2>6. CASE i.body /\ lk' = [Tried(g) EXCEPT !.good = p] /\ pc' = IF LastOne(i) THEN "write" ELSE pc
    <3>1. /\ Visits(p, Tried(g)) /\ Tried(g).lowest = Lowest(i) /\ Tried(g) \in LkState
          /\ Tried(g).missed = g.missed /\ Tried(g).buffer = g.buffer
      BY <2>1, <2>4, ChangeVisits DEF Visits
    <3>2. /\ lk' \in LkState /\ lk'.missed = Tried(g).missed /\ lk'.kernel = Tried(g).kernel
          /\ lk'.priority = Tried(g).priority /\ lk'.entries = Tried(g).entries
          /\ lk'.lowest = Lowest(i) /\ lk'.good = p /\ lk'.buffer = Tried(g).buffer
          /\ lk'.seen = Tried(g).seen
      BY <2>6, <3>1 DEF LkState
    <3>3. Visits(p, lk')
      BY <3>1, <3>2 DEF Visits
    <3>4. boot.mode = "normal" => lk'.lowest <= i.version
      BY <1>2, <2>2, <3>2, AcceptedIsValid
    <3>5. boot.mode = "normal" /\ LastOne(i) => i.version = tpm
      BY <2>2, AcceptedIsValid DEF LastOne
    <3>6. Finds(p, lk')
      BY <1>1, <1>2, <2>1, <2>2, <2>6, <3>1, <3>2 DEF Finds
    <3> QED
      BY SMTT(30), SMTT(60), <2>6, <3>3, <3>4, <3>5, <3>6
  <2> QED
    BY <2>3, <2>5, <2>6
<1> QED
  BY <1>3, <1>4, <1>5, <1>6 DEF HeaderFails, a

(* A partition the scan has not passed is as the table has it, and comes
   later than the one the scan goes to next; nothing already passed comes back. *)
LEMMA NextInOrder ==
    ASSUME TypeInv, NoneRevived, Position, pc = "scan", NEW p \in Parts, GptNextKernelEntry(lk, p)
    PROVE  /\ MayBoot(lk.entries[p]) /\ table[p].priority = lk.entries[p].priority
           /\ lk.entries[p].priority \in 1..lk.priority /\ ~Passed(p)
           /\ \A r \in Parts :
                 LET over == \/ table[r].priority > lk.entries[p].priority
                             \/ table[r].priority = lk.entries[p].priority /\ r <= p
                 IN /\ Passed(r) => over
                    /\ over /\ MayBoot(table[r]) => r = p \/ Passed(r)
<1>1. /\ Parts \subseteq Nat \ {0} /\ MaxPriority \in Nat /\ lk.priority \in Nat
      /\ lk.kernel \in Nat /\ lk.priority > 0
      /\ \A r \in Parts : lk.entries[r].priority \in 0..MaxPriority /\ table[r].priority \in 0..MaxPriority
  <2>1. Parts \subseteq Nat \ {0} /\ MaxPriority \in Nat
    BY Constants
  <2>2. lk.kernel \in Parts \cup {0} /\ lk.priority \in 0..(MaxPriority + 1) /\ lk.entries \in [Parts -> Entry]
    BY DEF TypeInv, LkState
  <2>3. \A r \in Parts : lk.entries[r].priority \in 0..MaxPriority /\ table[r].priority \in 0..MaxPriority
    BY <2>2 DEF TypeInv, Entry
  <2>4. lk.priority > 0
    BY DEF Position
  <2>5. lk.priority \in Nat /\ lk.kernel \in Nat
    BY <2>1, <2>2
  <2> QED
    BY <2>1, <2>3, <2>4, <2>5
<1>2. \/ p \in SamePriority(lk) /\ \A r \in SamePriority(lk) : p <= r
      \/ /\ SamePriority(lk) = {} /\ p \in LowerPriority(lk)
         /\ \A r \in LowerPriority(lk) :
               \/ lk.entries[r].priority < lk.entries[p].priority
               \/ lk.entries[r].priority = lk.entries[p].priority /\ p <= r
  BY <1>1 DEF GptNextKernelEntry
<1>3. MayBoot(lk.entries[p]) /\ lk.entries[p].priority \in 1..lk.priority
  BY <1>1, <1>2 DEF SamePriority, LowerPriority, MayBoot
<1>4. table[p].priority = lk.entries[p].priority
  BY <1>3 DEF NoneRevived
<1>5. ~Passed(p)
  BY <1>1, <1>2, <1>4 DEF SamePriority, LowerPriority, Passed
<1>6. ASSUME NEW r \in Parts, Passed(r)
      PROVE  \/ table[r].priority > lk.entries[p].priority
             \/ table[r].priority = lk.entries[p].priority /\ r <= p
  BY <1>1, <1>2, <1>6 DEF SamePriority, LowerPriority, Passed
<1>7. ASSUME NEW r \in Parts, MayBoot(table[r]), ~Passed(r), r # p
      PROVE  ~ \/ table[r].priority > lk.entries[p].priority
               \/ table[r].priority = lk.entries[p].priority /\ r <= p
  <2>1. lk.entries[r] = table[r]
    BY <1>7 DEF Position
  <2>2. r \in SamePriority(lk) \cup LowerPriority(lk)
    BY <1>1, <1>7, <2>1 DEF Position, Passed, SamePriority, LowerPriority, MayBoot
  <2>3. CASE p \in SamePriority(lk) /\ \A q \in SamePriority(lk) : p <= q
    <3>1. lk.entries[p].priority = lk.priority
      BY <2>3 DEF SamePriority
    <3>2. CASE r \in SamePriority(lk)
      <4>1. lk.entries[r].priority = lk.priority /\ p <= r
        BY <2>3, <3>2 DEF SamePriority
      <4> QED
        BY <1>1, <1>7, <2>1, <3>1, <4>1
    <3>3. CASE r \in LowerPriority(lk)
      BY <1>1, <2>1, <3>1, <3>3 DEF LowerPriority
    <3> QED
      BY <2>2, <3>2, <3>3
  <2>4. CASE /\ SamePriority(lk) = {}
             /\ \A q \in LowerPriority(lk) :
                   \/ lk.entries[q].priority < lk.entries[p].priority
                   \/ lk.entries[q].priority = lk.entries[p].priority /\ p <= q
    <3>1. \/ lk.entries[r].priority < lk.entries[p].priority
          \/ lk.entries[r].priority = lk.entries[p].priority /\ p <= r
      BY <2>2, <2>4
    <3> QED
      BY <1>1, <1>7, <2>1, <3>1
  <2> QED
    BY <1>2, <2>3, <2>4
<1> QED
  BY <1>3, <1>4, <1>5, <1>6, <1>7

----------------------------------------------------------------------------
(* The steps *)

(* The variables of LoadKernel() when it starts, or has returned. *)
LEMMA Started ==
    ASSUME TypeInv, NEW t \in [Parts -> Entry]
    PROVE  StartOf(t) \in LkState /\ StartOf(t).entries = t /\ StartOf(t).kernel = 0
           /\ StartOf(t).priority = MaxPriority + 1
<1>1. /\ MaxPriority + 1 \in 0..(MaxPriority + 1) /\ LOWEST_TPM_VERSION \in 0..LOWEST_TPM_VERSION
      /\ <<>> \in Seq(Parts)
  BY Constants DEF LOWEST_TPM_VERSION
<1> QED
  BY <1>1 DEF StartOf, LkState

LEMMA FirstIsTable ==
    ASSUME TypeInv
    PROVE  FirstTable \in [Parts -> Entry]
<1>1. 1 \in 0..MaxPriority /\ 0 \in 0..MaxTries
  BY Constants
<1> QED
  BY <1>1, Zenon DEF FirstTable, Entry

LEMMA ReturnedType ==
    ASSUME TypeInv, NEW good \in Parts \cup {0}, NEW buffer \in Parts \cup {0, Given}
    PROVE  /\ Returned(good, buffer) \in LkState /\ Returned(good, buffer).good = good
           /\ Returned(good, buffer).missed = {}
<1>1. StartOf(FirstTable) \in LkState /\ StartOf(FirstTable).missed = {}
  BY FirstIsTable, Started DEF StartOf
<1> QED
  BY Zenon, <1>1 DEF Returned, LkState

LEMMA InitInv ==
    ASSUME Init
    PROVE  IInv
<1>1. env \in Scenarios /\ table = FirstTable /\ images = FirstImages /\ tpm = 0
      /\ lk = Returned(0, 0) /\ pc = "off"
  BY DEF Init
<1>2. SUFFICES TypeInv
  BY <1>1 DEF IInv, NoneRevived, Position, Scanned
<1>3. /\ MaxPriority \in Nat \ {0} /\ MaxVersion \in Nat /\ MaxTries \in Nat \ {0}
      /\ FirstImages \in [Parts -> KernelImage]
  <2>1. /\ env.first \in Seq(env.images) /\ env.tries \in Nat \ {0}
        /\ env.images \subseteq KernelImage
    BY <1>1, LoadKernelAssumption
  <2> QED
    BY <2>1, LoadKernelAssumption DEF Parts, FirstImages, MaxTries
<1>4. FirstTable \in [Parts -> Entry]
  <2>1. 1 \in 0..MaxPriority /\ 0 \in 0..MaxTries
    BY <1>3
  <2> QED
    BY <2>1, Zenon DEF FirstTable, Entry
<1>5. StartOf(FirstTable) \in LkState
  <2>1. /\ MaxPriority + 1 \in 0..(MaxPriority + 1) /\ LOWEST_TPM_VERSION \in 0..LOWEST_TPM_VERSION
        /\ <<>> \in Seq(Parts)
    BY <1>3 DEF LOWEST_TPM_VERSION
  <2> QED
    BY <1>4, <2>1 DEF StartOf, LkState
<1>6. lk \in LkState
  BY Zenon, <1>1, <1>5 DEF Returned, LkState
<1> QED
  BY <1>1, <1>3, <1>4, <1>6 DEF TypeInv

(* The sets of the type invariant depend on the scenario only. *)
LEMMA SameSets ==
    ASSUME UNCHANGED env
    PROVE  Parts' = Parts /\ LkState' = LkState /\ Entry' = Entry
BY DEF Parts, FirstImages, LkState, Entry, MaxTries, Given, LOWEST_TPM_VERSION

(* One step of the scan: it ends because every candidate is passed, or it goes
   to the next candidate, which it has then passed. *)
Exhausted ==
    /\ pc' = "write" /\ UNCHANGED lk
    /\ \A r \in Parts : MayBoot(table[r]) => Passed(r)

Advances(p) ==
    /\ Visits(p, lk') /\ Finds(p, lk')
    /\ boot.mode = "normal" /\ p \notin lk'.missed /\ ~HeaderRejected(images[p])
          => lk'.lowest <= images[p].version
    /\ UNCHANGED pc \/ (pc' = "write" /\ (boot.mode = "normal" => lk'.lowest <= tpm))
    /\ p # 0 /\ MayBoot(table[p]) /\ lk.entries[p].priority > 0 /\ ~Passed(p)
    /\ \A r \in Parts : /\ r = p \/ Passed(r) => Passed(r)'
                        /\ Passed(r)' /\ MayBoot(table[r]) => r = p \/ Passed(r)

LEMMA ScanStep ==
    ASSUME IInv, NextKernel, UNCHANGED env
    PROVE  Exhausted \/ \E p \in Parts : Advances(p)
<1>1. /\ pc = "scan" /\ UNCHANGED <<table, images, tpm, boot>>
      /\ TypeInv /\ NoneRevived /\ Position
  BY DEF NextKernel, IInv
<1> PICK p \in Parts \cup {0} :
         /\ GptNextKernelEntry(lk, p)
         /\ \/ p # 0 /\ (HeaderFails(p) \/ VersionOnly(p) \/ Body(p))
            \/ p = 0 /\ pc' = "write" /\ UNCHANGED lk
  BY DEF NextKernel
<1>2. CASE p = 0 /\ pc' = "write" /\ UNCHANGED lk
  <2>1. SamePriority(lk) = {} /\ LowerPriority(lk) = {}
    <3>1. Parts \subseteq Nat \ {0}
      BY <1>1, Constants
    <3> QED
      BY <1>2, <3>1 DEF GptNextKernelEntry, SamePriority, LowerPriority
  <2>2. ASSUME NEW r \in Parts, MayBoot(table[r])
        PROVE  Passed(r)
    <3>1. SUFFICES ASSUME ~Passed(r) PROVE FALSE
      OBVIOUS
    <3>2. lk.entries[r] = table[r]
      BY <1>1, <3>1 DEF Position
    <3>3. /\ lk.priority \in Nat /\ table[r].priority \in 0..MaxPriority /\ MaxPriority \in Nat
          /\ r \in Nat /\ lk.kernel \in Nat
      <4>1. lk.priority \in 0..(MaxPriority + 1) /\ lk.kernel \in Parts \cup {0} /\ table[r] \in Entry
        BY <1>1 DEF TypeInv, LkState
      <4>2. Parts \subseteq Nat /\ MaxPriority \in Nat
        BY <1>1, Constants
      <4>3. table[r].priority \in 0..MaxPriority
        BY <4>1 DEF Entry
      <4>4. lk.priority \in Nat /\ table[r].priority \in 0..MaxPriority /\ MaxPriority \in Nat
        BY <4>1, <4>2, <4>3
      <4>5. r \in Nat /\ lk.kernel \in Nat
        <5>1. 0 \in Nat
          OBVIOUS
        <5> QED
          BY <4>1, <4>2, <5>1, Zenon
      <4> QED
        BY <4>4, <4>5, Zenon
    <3>4. lk.kernel = 0 => lk.priority = MaxPriority + 1
      BY <1>1 DEF Position
    <3>5. r \in SamePriority(lk) \cup LowerPriority(lk)
      BY <2>2, <3>1, <3>2, <3>3, <3>4 DEF Passed, SamePriority, LowerPriority, MayBoot
    <3> QED
      BY <2>1, <3>5
  <2> QED
    BY SMTT(30), SMTT(60), <1>2, <2>2 DEF Exhausted
<1>3. CASE p # 0 /\ (HeaderFails(p) \/ VersionOnly(p) \/ Body(p))
  <2>1. p \in Parts
    BY <1>3
  <2>2. /\ Visits(p, lk') /\ Finds(p, lk')
        /\ boot.mode = "normal" /\ p \notin lk'.missed /\ ~HeaderRejected(images[p])
              => lk'.lowest <= images[p].version
        /\ UNCHANGED pc \/ (pc' = "write" /\ (boot.mode = "normal" => lk'.lowest <= tpm))
    BY <1>1, <1>3, <2>1, LoopVisits
  <2>3. /\ MayBoot(lk.entries[p]) /\ table[p].priority = lk.entries[p].priority
        /\ lk.entries[p].priority > 0 /\ ~Passed(p)
    <3>1. MayBoot(lk.entries[p]) /\ table[p].priority = lk.entries[p].priority /\ ~Passed(p)
      BY <1>1, <2>1, NextInOrder
    <3> QED
      BY <3>1 DEF MayBoot
  <2>4. ASSUME NEW r \in Parts
        PROVE  /\ r = p \/ Passed(r) => Passed(r)'
               /\ Passed(r)' /\ MayBoot(table[r]) => r = p \/ Passed(r)
    <3>1. Passed(r)' <=> \/ table[r].priority > lk.entries[p].priority
                         \/ table[r].priority = lk.entries[p].priority /\ r <= p
      BY <1>1, <1>3, <2>2 DEF Passed, Visits
    <3>2. r = p => r <= p
      BY <1>1, <2>1, Constants
    <3> QED
      BY <1>1, <2>1, <2>3, <3>1, <3>2, NextInOrder
  <2>5. MayBoot(table[p])
    BY <1>1, <2>1, <2>3 DEF NoneRevived
  <2> QED
    BY <1>3, <2>1, <2>2, <2>3, <2>4, <2>5 DEF Advances
<1> QED
  BY <1>2, <1>3

LEMMA NextKernelKeeps ==
    ASSUME IInv, NextKernel, UNCHANGED env
    PROVE  IInv'
<1>1. /\ pc = "scan" /\ UNCHANGED <<table, images, tpm, boot>>
      /\ TypeInv /\ NoneRevived /\ Position
  BY DEF NextKernel, IInv
<1>2. Parts' = Parts /\ LkState' = LkState /\ Entry' = Entry
  BY SameSets
<1>3. \A r \in Parts : HeaderRejected(images[r])' <=> HeaderRejected(images[r])
  BY <1>1 DEF HeaderRejected, KeyBlockValid
<1>4. CASE Exhausted
  <2>1. boot.mode = "normal" => \A r \in Parts : Bounded(r)
    BY <1>1, <1>4 DEF Position, Bounded, Fallback, Exhausted
  <2>2. Scanned'
    BY <1>1, <1>2, <1>3, <1>4, <2>1 DEF Scanned, Bounded, Fallback, Exhausted
  <2>3. TypeInv' /\ NoneRevived' /\ Position'
    BY <1>1, <1>2, <1>4 DEF TypeInv, NoneRevived, Position, Exhausted
  <2> QED
    BY <2>2, <2>3 DEF IInv
<1>5. ASSUME NEW p \in Parts, Advances(p)
      PROVE  IInv'
  <2>1. lk' \in LkState
    BY <1>5 DEF Visits, Advances
  <2>2. TypeInv'
    BY <1>1, <1>2, <2>1 DEF TypeInv
  <2>3. NoneRevived'
    BY <1>1, <1>2, <1>5 DEF NoneRevived, Visits, Advances
  <2>4. \A r \in Parts : /\ r = p \/ Passed(r) => Passed(r)'
                         /\ Passed(r)' /\ MayBoot(table[r]) => r = p \/ Passed(r)
    BY <1>5 DEF Advances
  <2>5. Position'
    <3>1. SUFFICES ASSUME pc' = "scan" PROVE Position'
      BY DEF Position
    <3>2. lk'.priority > 0 /\ lk'.kernel # 0
      BY <1>5 DEF Visits, Advances
    <3>3. ASSUME NEW r \in Parts, ~Passed(r)'
          PROVE  lk'.entries[r] = table[r]
      <4>1. r # p /\ ~Passed(r)
        BY <2>4, <3>3
      <4>2. lk.entries[r] = table[r]
        BY <1>1, <4>1 DEF Position
      <4> QED
        BY <1>5, <4>1, <4>2 DEF Visits, Advances
    <3>4. ASSUME boot.mode = "normal", NEW r \in Parts, Passed(r)', r \notin lk'.missed,
                 MayBoot(table[r]), ~HeaderRejected(images[r])
          PROVE  lk'.lowest <= images[r].version
      <4>1. CASE r = p
        BY <1>5, <3>4, <4>1 DEF Advances
      <4>2. CASE Passed(r)
        <5>1. lk.lowest <= images[r].version
          BY <1>1, <1>5, <3>4, <4>2 DEF Position, Bounded, Fallback, Visits, Advances
        <5>2. lk'.lowest \in Int /\ lk.lowest \in Int /\ images[r].version \in Int
          <6>1. lk'.lowest \in 0..LOWEST_TPM_VERSION /\ lk.lowest \in 0..LOWEST_TPM_VERSION
                /\ images[r] \in KernelImage
            BY <1>1, <2>1 DEF TypeInv, LkState
          <6>2. images[r].version \in 0..MaxVersion
            BY <6>1 DEF KernelImage
          <6> QED
            BY <6>1, <6>2
        <5> QED
          BY <1>5, <5>1, <5>2 DEF Visits, Advances
      <4> QED
        BY <2>4, <3>4, <4>1, <4>2
    <3> QED
      BY <1>1, <1>2, <1>3, <3>2, <3>3, <3>4 DEF Position, Bounded, Fallback
  <2>6. Scanned'
    BY <1>1, <1>5 DEF Scanned, Advances
  <2> QED
    BY <2>2, <2>3, <2>5, <2>6 DEF IInv
<1> QED
  BY <1>4, <1>5, ScanStep

LEMMA PowerOnKeeps ==
    ASSUME IInv, PowerOn, UNCHANGED env
    PROVE  IInv'
<1>1. TypeInv /\ UNCHANGED <<table, images, tpm>> /\ lk' = StartOf(table) /\ pc' = "scan"
  BY DEF IInv, PowerOn
<1>2. lk' \in LkState /\ lk'.entries = table /\ lk'.kernel = 0 /\ lk'.priority = MaxPriority + 1
  BY <1>1, Started DEF TypeInv
<1>3. TypeInv'
  BY <1>1, <1>2, SameSets DEF TypeInv
<1>4. NoneRevived'
  BY <1>1, <1>2 DEF NoneRevived
<1>5. ASSUME NEW p \in Parts
      PROVE  ~Passed(p)'
  <2>1. table[p].priority \in 0..MaxPriority /\ MaxPriority \in Nat
    BY <1>1, Constants DEF TypeInv, Entry
  <2> QED
    BY <1>1, <1>2, <2>1 DEF Passed
<1>6. lk'.priority > 0
  BY <1>1, <1>2, Constants
<1>7. Position'
  BY <1>1, <1>2, <1>5, <1>6, SameSets DEF Position
<1>8. Scanned'
  BY <1>1 DEF Scanned
<1> QED
  BY <1>3, <1>4, <1>7, <1>8 DEF IInv

(* The table that is written back has no more partitions in the running. *)
LEMMA WriteTableKeeps ==
    ASSUME IInv, WriteTable, UNCHANGED env
    PROVE  IInv'
<1>1. /\ TypeInv /\ NoneRevived /\ Scanned /\ pc = "write" /\ pc' = "finish"
      /\ UNCHANGED <<images, tpm, boot>> /\ table' \in {table, lk.entries}
      /\ lk' = lk \/ lk' = [lk EXCEPT !.saved = TRUE]
  BY DEF IInv, WriteTable
<1>2. lk' \in LkState /\ lk'.lowest = lk.lowest /\ lk'.missed = lk.missed
  BY Zenon, <1>1 DEF TypeInv, LkState
<1>3. lk.entries \in [Parts -> Entry]
  BY <1>1 DEF TypeInv, LkState
<1>4. TypeInv'
  BY <1>1, <1>2, <1>3, SameSets DEF TypeInv
<1>5. \A p \in Parts : MayBoot(table'[p]) => MayBoot(table[p])
  BY <1>1 DEF NoneRevived
<1>6. \A p \in Parts : HeaderRejected(images[p])' <=> HeaderRejected(images[p])
  BY <1>1 DEF HeaderRejected, KeyBlockValid
<1>7. \A p \in Parts : Bounded(p) => Bounded(p)'
  BY <1>1, <1>2, <1>5, <1>6 DEF Bounded, Fallback
<1>8. Scanned'
  BY <1>1, <1>2, <1>7, SameSets DEF Scanned
<1> QED
  BY <1>1, <1>4, <1>8 DEF IInv, NoneRevived, Position

(* The version in the TPM after a boot that succeeded. *)
LEMMA NewVersionIs ==
    ASSUME TypeInv
    PROVE  /\ NewVersion \in 0..MaxVersion /\ NewVersion >= tpm
           /\ NewVersion > tpm => NewVersion = lk.lowest
<1>1. /\ tpm \in Nat /\ tpm <= MaxVersion /\ MaxVersion \in Nat
      /\ lk.lowest \in Nat /\ lk.lowest <= MaxVersion + 1
  <2>1. MaxVersion \in Nat /\ tpm \in 0..MaxVersion /\ lk.lowest \in 0..(MaxVersion + 1)
    BY Constants DEF TypeInv, LkState, LOWEST_TPM_VERSION
  <2> QED
    BY <2>1
<1>2. Max({tpm, lk.lowest}) = IF tpm >= lk.lowest THEN tpm ELSE lk.lowest
  BY <1>1, MaxOfTwo
<1> QED
  BY <1>1, <1>2 DEF NewVersion, LOWEST_TPM_VERSION

(* LoadKernel() returns, or its boot ends. *)
LEMMA ReturnKeeps ==
    ASSUME IInv, Success \/ Failure \/ PowerFails \/ KernelRuns \/ Reboot, UNCHANGED env
    PROVE  IInv'
<1>1. TypeInv /\ UNCHANGED <<table, images>> /\ pc' \in {"off", "kernel", "os"}
  BY DEF IInv, Success, Failure, PowerFails, KernelRuns, Reboot
<1>2. lk.good \in Parts \cup {0} /\ lk.buffer \in Parts \cup {0, Given} /\ lk \in LkState
  BY <1>1 DEF TypeInv, LkState
<1>3. \/ lk' \in {lk, Returned(0, 0), Returned(lk.good, lk.buffer)}
  BY DEF Success, Failure, PowerFails, KernelRuns, Reboot
<1>4. lk' \in LkState
  <2>1. Returned(0, 0) \in LkState /\ Returned(lk.good, lk.buffer) \in LkState
    BY Zenon, <1>1, <1>2, ReturnedType
  <2> QED
    BY <1>2, <1>3, <2>1
<1>5. tpm' \in {tpm, NewVersion}
  BY DEF Success, Failure, PowerFails, KernelRuns, Reboot
<1>6. tpm' \in 0..MaxVersion
  BY <1>1, <1>5, NewVersionIs DEF TypeInv
<1>7. TypeInv'
  BY <1>1, <1>4, <1>6, SameSets DEF TypeInv
<1> QED
  BY <1>1, <1>7 DEF IInv, NoneRevived, Position, Scanned

(* The system, its updates and its user, while no firmware runs. *)
LEMMA SystemKeeps ==
    ASSUME IInv, MarkSuccessful \/ Update \/ Reinstall, UNCHANGED env
    PROVE  IInv'
<1>1. TypeInv /\ UNCHANGED <<tpm, lk, pc>> /\ pc \in {"off", "os"}
  BY DEF IInv, MarkSuccessful, Update, Reinstall
<1>2. /\ MaxPriority \in Nat \ {0} /\ MaxTries \in Nat \ {0} /\ MaxVersion \in Nat
      /\ FirstImages \in [Parts -> KernelImage] /\ Images \subseteq KernelImage
  BY <1>1, Constants
<1>3. table' \in [Parts -> Entry] /\ images' \in [Parts -> KernelImage]
  <2>1. CASE MarkSuccessful
    <3>1. /\ table' = [table EXCEPT ![lk.good].successful = TRUE, ![lk.good].priority = Max({1, @})]
          /\ images' = images
      BY <2>1 DEF MarkSuccessful
    <3>2. ASSUME NEW n \in 0..MaxPriority
          PROVE  Max({1, n}) \in 0..MaxPriority
      BY <1>2, MaxOfTwo
    <3>3. ASSUME lk.good \in Parts
          PROVE  Max({1, table[lk.good].priority}) \in 0..MaxPriority
      BY <1>1, <3>2, <3>3 DEF TypeInv, Entry
    <3>4. table \in [Parts -> Entry]
      BY <1>1 DEF TypeInv
    <3> QED
      BY Zenon, <1>1, <3>1, <3>3, <3>4 DEF TypeInv, Entry
  <2>2. CASE Update
    <3>1. PICK p \in Parts \ {lk.good}, i \in Images, pr \in 1..MaxPriority :
             /\ images' = [images EXCEPT ![p] = i]
             /\ table' = [table EXCEPT ![p] = [priority |-> pr, tries |-> MaxTries, successful |-> FALSE]]
      BY Zenon, <2>2 DEF Update
    <3>2. pr \in 0..MaxPriority /\ MaxTries \in 0..MaxTries /\ i \in KernelImage
      BY <1>2
    <3>3. [priority |-> pr, tries |-> MaxTries, successful |-> FALSE] \in Entry
      BY <3>2, Zenon DEF Entry
    <3> QED
      BY <1>1, <3>1, <3>2, <3>3 DEF TypeInv
  <2>3. CASE Reinstall
    <3>1. /\ table' = FirstTable
          /\ images' = [p \in Parts |-> [FirstImages[p] EXCEPT !.version = Max({@, tpm})]]
      BY <2>3 DEF Reinstall
    <3>2. ASSUME NEW i \in KernelImage
          PROVE  [i EXCEPT !.version = Max({@, tpm})] \in KernelImage
      <4>1. i.version \in 0..MaxVersion /\ tpm \in 0..MaxVersion
        BY <1>1 DEF TypeInv, KernelImage
      <4>2. Max({i.version, tpm}) \in 0..MaxVersion
        BY <1>2, <4>1, MaxOfTwo
      <4> QED
        BY <4>2 DEF KernelImage
    <3> QED
      BY Zenon, <1>1, <1>2, <3>1, <3>2, FirstIsTable
  <2> QED
    BY <2>1, <2>2, <2>3
<1>4. TypeInv'
  BY <1>1, <1>3, SameSets DEF TypeInv
<1> QED
  BY <1>1, <1>4 DEF IInv, NoneRevived, Position, Scanned

LEMMA StutterKeeps ==
    ASSUME IInv, UNCHANGED vars
    PROVE  IInv'
<1>1. /\ Parts' = Parts /\ LkState' = LkState /\ Entry' = Entry
      /\ UNCHANGED <<env, table, images, tpm, boot, lk, pc>>
  BY SameSets DEF vars
<1>2. /\ \A p : Passed(p)' <=> Passed(p)
      /\ \A p : Bounded(p)' <=> Bounded(p)
  BY <1>1 DEF Passed, Bounded, Fallback, HeaderRejected, KeyBlockValid
<1>3. TypeInv' /\ NoneRevived'
  BY <1>1 DEF IInv, TypeInv, NoneRevived
<1>4. Position'
  BY <1>1, <1>2 DEF IInv, Position
<1>5. Scanned'
  BY <1>1, <1>2 DEF IInv, Scanned
<1> QED
  BY <1>3, <1>4, <1>5 DEF IInv

(* However reading or writing the disk fails and the power is cut, LoadKernel()'s
   place in the table, the entries it has changed and the lowest version it has
   met stay in step. *)
THEOREM Invariance == Spec => []IInv
<1>1. Init => IInv
  BY InitInv
<1>2. IInv /\ [Next]_vars => IInv'
  <2>1. SUFFICES ASSUME IInv, [Next]_vars PROVE IInv'
    OBVIOUS
  <2>2. CASE Next
    BY <2>1, <2>2, PowerOnKeeps, NextKernelKeeps, WriteTableKeeps, ReturnKeeps, SystemKeeps
       DEF Next, Firmware
  <2>3. CASE UNCHANGED vars
    BY <2>1, <2>3, StutterKeeps
  <2> QED
    BY <2>1, <2>2, <2>3
<1> QED
  BY <1>1, <1>2, PTL DEF Spec

----------------------------------------------------------------------------
(* The roll-forward of the kernel version at the end of
   VbSelectAndLoadKernel() never locks out a kernel that may still be booted:
   KeepsFallbacks, for every table, every choice of images and updates, and
   wherever reading or writing the disk fails or the power goes. *)
THEOREM RollForwardKeepsFallbacks == Spec => KeepsFallbacks
<1> DEFINE Kept ==
      /\ tpm' >= tpm
      /\ tpm' > tpm =>
            \A p \in Parts \ lk.missed :
                table[p].priority > 0 /\ Bootable(table[p]) /\ ~HeaderRejected(images[p])
                    => images[p].version >= tpm'
<1>1. ASSUME IInv, [Next]_vars
      PROVE  Kept
  <2>1. TypeInv /\ tpm \in Int
    BY <1>1 DEF IInv, TypeInv
  <2>2. CASE Success /\ RollsForward
    <3>1. pc = "finish" /\ boot.mode = "normal" /\ tpm' = NewVersion
      BY <2>2 DEF Success, RollsForward
    <3>2. tpm' >= tpm /\ (tpm' > tpm => tpm' = lk.lowest)
      BY <2>1, <3>1, NewVersionIs
    <3>3. ASSUME tpm' > tpm, NEW p \in Parts \ lk.missed, MayBoot(table[p]), ~HeaderRejected(images[p])
          PROVE  images[p].version >= tpm'
      <4>1. tpm' = lk.lowest /\ ~(lk.lowest <= tpm)
        <5>1. lk.lowest \in Int
          BY <2>1 DEF TypeInv, LkState
        <5> QED
          BY <2>1, <3>2, <3>3, <5>1
      <4>2. lk.lowest <= images[p].version
        BY <1>1, <3>1, <3>3, <4>1 DEF IInv, Scanned, Bounded, Fallback
      <4>3. images[p].version \in Int /\ lk.lowest \in Int
        <5>1. images[p] \in KernelImage /\ lk.lowest \in 0..LOWEST_TPM_VERSION
          BY <2>1 DEF TypeInv, LkState
        <5>2. images[p].version \in 0..MaxVersion
          BY <5>1 DEF KernelImage
        <5> QED
          BY <5>1, <5>2
      <4> QED
        BY <4>1, <4>2, <4>3
    <3> QED
      BY <3>2, <3>3 DEF MayBoot
  <2>3. CASE ~(Success /\ RollsForward)
    <3>1. tpm' = tpm
      BY <1>1, <2>3 DEF Next, Firmware, PowerOn, NextKernel, WriteTable, Success, Failure, KernelRuns,
                        Reinstall, PowerFails, MarkSuccessful, Update, Reboot, vars
    <3> QED
      BY <2>1, <3>1
  <2> QED
    BY <2>2, <2>3
<1> QED
  BY <1>1, Invariance, PTL DEF Spec, KeepsFallbacks

----------------------------------------------------------------------------
(* The order of the scan *)

(* The scan has seen exactly the candidates it has passed, in their order. *)
SeenInv ==
    pc \in {"scan", "write"} =>
        /\ \A p \in Parts : p \in Seen <=> p \in Candidates /\ Passed(p)
        /\ \A i, j \in DOMAIN lk.seen : i < j => Before(lk.seen[i], lk.seen[j])
        /\ pc = "write" /\ lk.good = 0 => \A p \in Candidates : Passed(p)

LEMMA Priorities ==
    ASSUME TypeInv
    PROVE  /\ lk.priority \in Int /\ lk.kernel \in Int
           /\ \A p \in Parts : p \in Int /\ table[p].priority \in Int
<1>1. Parts \subseteq Nat /\ MaxPriority \in Nat
  BY Constants
<1>2. lk.priority \in 0..(MaxPriority + 1) /\ lk.kernel \in Parts \cup {0}
  BY DEF TypeInv, LkState
<1>3. \A p \in Parts : table[p].priority \in 0..MaxPriority
  BY DEF TypeInv, Entry
<1>4. lk.priority \in Int
  BY <1>1, <1>2
<1>5. lk.kernel \in Nat
  <2>1. CASE lk.kernel \in Parts
    BY <1>1, <2>1, Zenon
  <2>2. CASE lk.kernel = 0
    BY <2>2
  <2> QED
    BY <1>2, <2>1, <2>2, Zenon
<1>6. \A p \in Parts : table[p].priority \in Int
  BY <1>1, <1>3
<1> QED
  BY <1>1, <1>4, <1>5, <1>6

(* A partition that was passed comes before one that is not. *)
LEMMA PassedIsBefore ==
    ASSUME TypeInv, NEW p \in Parts, NEW q \in Parts, Passed(p), ~Passed(q)
    PROVE  Before(p, q)
BY Priorities DEF Passed, Before

LEMMA BeforePassed ==
    ASSUME TypeInv, NEW p \in Parts, NEW q \in Parts, Before(p, q), Passed(q)
    PROVE  Passed(p)
BY Priorities DEF Passed, Before

LEMMA SeenStarts ==
    ASSUME IInv, PowerOn, UNCHANGED env
    PROVE  SeenInv'
<1>1. TypeInv /\ UNCHANGED table /\ lk' = StartOf(table) /\ pc' = "scan"
  BY DEF IInv, PowerOn
<1>2. lk'.seen = <<>> /\ lk'.kernel = 0 /\ lk'.priority = MaxPriority + 1
  BY <1>1 DEF StartOf
<1>3. ASSUME NEW p \in Parts
      PROVE  ~Passed(p)'
  <2>1. table[p].priority \in 0..MaxPriority /\ MaxPriority \in Nat
    BY <1>1, Constants DEF TypeInv, Entry
  <2> QED
    BY <1>1, <1>2, <2>1 DEF Passed
<1>4. DOMAIN lk'.seen = {}
  BY <1>2
<1> QED
  BY <1>1, <1>3, <1>4, SameSets DEF SeenInv, Seen

LEMMA SeenGrows ==
    ASSUME IInv, SeenInv, NextKernel, UNCHANGED env
    PROVE  SeenInv'
<1>1. TypeInv /\ pc = "scan" /\ UNCHANGED table
  BY DEF IInv, NextKernel
<1>2. /\ \A p \in Parts : p \in Seen <=> p \in Candidates /\ Passed(p)
      /\ \A i, j \in DOMAIN lk.seen : i < j => Before(lk.seen[i], lk.seen[j])
  BY <1>1 DEF SeenInv
<1>3. Candidates' = Candidates /\ Parts' = Parts /\ Candidates = {p \in Parts : MayBoot(table[p])}
  BY SMTT(30), SMTT(60), <1>1, SameSets DEF Candidates, MayBoot, Bootable
<1>4. CASE Exhausted
  <2>1. lk' = lk /\ \A r \in Candidates : Passed(r)
    BY <1>3, <1>4 DEF Exhausted
  <2> QED
    BY <1>1, <1>2, <1>3, <2>1 DEF SeenInv, Seen, Passed, Before
<1>5. ASSUME NEW p \in Parts, Advances(p)
      PROVE  SeenInv'
  <2>1. /\ lk'.seen = Append(lk.seen, p) /\ lk.seen \in Seq(Parts)
        /\ MayBoot(table[p]) /\ ~Passed(p)
        /\ pc' = "write" => lk'.good # 0
    BY SMTT(30), SMTT(60), <1>1, <1>5 DEF Advances, Visits, Finds, TypeInv, LkState
  <2>2. \A r \in Parts : /\ r = p \/ Passed(r) => Passed(r)'
                         /\ Passed(r)' /\ MayBoot(table[r]) => r = p \/ Passed(r)
    BY <1>5 DEF Advances
  <2> DEFINE n == Len(lk.seen)
  <2>3. /\ n \in Nat /\ DOMAIN lk.seen = 1..n /\ DOMAIN lk'.seen = 1..(n + 1)
        /\ \A i \in 1..n : lk'.seen[i] = lk.seen[i] /\ lk.seen[i] \in Parts
        /\ lk'.seen[n + 1] = p
    BY <2>1
  <2>4. Seen' = Seen \cup {p}
    <3>1. 1..(n + 1) = 1..n \cup {n + 1}
      BY <2>3
    <3>2. Seen' = {lk'.seen[i] : i \in 1..(n + 1)} /\ Seen = {lk.seen[i] : i \in 1..n}
      BY <2>3 DEF Seen
    <3>3. ASSUME NEW x
          PROVE  x \in Seen' <=> x \in Seen \/ x = p
      BY SMTT(30), SMTT(60), <2>3, <3>1, <3>2
    <3> QED
      BY <3>3, Zenon
  <2>5. \A r \in Parts : r \in Seen' <=> r \in Candidates /\ Passed(r)'
    BY <1>2, <1>3, <2>1, <2>2, <2>4
  <2>6. ASSUME NEW i \in 1..(n + 1), NEW j \in 1..(n + 1), i < j
        PROVE  Before(lk'.seen[i], lk'.seen[j])
    <3>1. i \in 1..n
      BY <2>3, <2>6
    <3>2. CASE j \in 1..n
      BY SMTT(30), SMTT(60), <1>2, <2>3, <2>6, <3>1, <3>2
    <3>3. CASE j = n + 1
      <4>1. lk.seen[i] \in Seen /\ lk.seen[i] \in Parts
        BY SMTT(30), SMTT(60), <2>3, <3>1 DEF Seen
      <4>2. Passed(lk.seen[i])
        BY <1>2, <4>1
      <4> QED
        BY <1>1, <2>1, <2>3, <3>1, <3>3, <4>1, <4>2, PassedIsBefore
    <3> QED
      BY <2>3, <3>2, <3>3
  <2>7. (\A i, j \in DOMAIN lk.seen : i < j => Before(lk.seen[i], lk.seen[j]))'
    BY SMTT(30), SMTT(60), <1>1, <2>3, <2>6 DEF Before
  <2> QED
    BY SMTT(30), SMTT(60), <1>3, <2>1, <2>5, <2>7 DEF SeenInv
<1> QED
  BY <1>4, <1>5, ScanStep

(* GptNextKernelEntry() goes through the partitions that may boot in the order
   of the table's priorities, skips none and comes back to none, although the
   loop marks entries bad or tried as it goes: ScanOrder, for any table. *)
THEOREM ScanIsInOrder == Spec => []ScanOrder
<1>1. Init => SeenInv
  BY DEF Init, SeenInv
<1>2. IInv /\ SeenInv /\ [Next]_vars => SeenInv'
  <2>1. SUFFICES ASSUME IInv, SeenInv, [Next]_vars PROVE SeenInv'
    OBVIOUS
  <2>2. CASE Next /\ PowerOn
    BY <2>1, <2>2, SeenStarts DEF Next
  <2>3. CASE Next /\ NextKernel
    BY <2>1, <2>3, SeenGrows DEF Next
  <2>4. CASE Next /\ ~PowerOn /\ ~NextKernel
    <3>1. pc' \notin {"scan", "write"}
      BY SMTT(30), SMTT(60), <2>4 DEF Next, Firmware, WriteTable, Success, Failure, KernelRuns, Reinstall, PowerFails,
                  MarkSuccessful, Update, Reboot
    <3> QED
      BY <3>1 DEF SeenInv
  <2>5. CASE UNCHANGED vars
    BY SMTT(30), SMTT(60), <2>1, <2>5 DEF SeenInv, Seen, Candidates, Before, Passed, Parts, FirstImages, Bootable, vars
  <2> QED
    BY <2>1, <2>2, <2>3, <2>4, <2>5
<1>3. IInv /\ SeenInv => ScanOrder
  <2>1. SUFFICES ASSUME IInv, SeenInv, pc \in {"scan", "write"} PROVE ScanOrder
    BY DEF ScanOrder
  <2>2. TypeInv /\ \A p \in Parts : p \in Seen <=> p \in Candidates /\ Passed(p)
    BY <2>1 DEF IInv, SeenInv
  <2>3. Seen \subseteq Parts /\ Candidates \subseteq Parts
    <3>1. lk.seen \in Seq(Parts)
      BY <2>2 DEF TypeInv, LkState
    <3> QED
      BY <3>1 DEF Seen, Candidates
  <2>4. ASSUME NEW p \in Candidates, NEW q \in Seen, Before(p, q)
        PROVE  p \in Seen
    BY <2>2, <2>3, <2>4, BeforePassed
  <2> QED
    BY <2>1, <2>2, <2>3, <2>4 DEF ScanOrder, SeenInv
<1> QED
  BY <1>1, <1>2, <1>3, Invariance, PTL DEF Spec

----------------------------------------------------------------------------
(* The fallback stays within reach *)

LEMMA KeyVersions ==
    ASSUME NEW a \in Nat, NEW b \in Nat, a >= b
    PROVE  KeyVersion(a) >= KeyVersion(b)
<1>1. Base \in Nat \ {0}
  BY LoadKernelAssumption
<1>2. /\ a \div Base \in Int /\ b \div Base \in Int
      /\ Base * (b \div Base) <= b /\ a < Base * (a \div Base) + Base
  BY <1>1
<1>3. ASSUME NEW m \in Int, NEW n \in Int, Base * n <= b, a < Base * m + Base
      PROVE  m >= n
  <2>1. Base * n < Base * (m + 1)
    BY <1>1, <1>3
  <2> QED
    BY <1>1, <2>1
<1> QED
  BY <1>2, <1>3 DEF KeyVersion

(* A kernel every normal boot accepts, and one that stays in the running
   whatever is tried before it. *)
Acceptable(p) == images[p].sig = "signed" /\ images[p].body /\ images[p].version >= tpm
Sure(p)       == table[p].successful /\ Acceptable(p)

(* A successful kernel keeps its priority, and the scan leaves it alone. *)
EntryInv ==
    /\ \A p \in Parts : table[p].successful => table[p].priority > 0
    /\ pc \in {"scan", "write"} =>
          \A p \in Parts : /\ lk.entries[p].successful => lk.entries[p].priority > 0
                           /\ table[p].successful => lk.entries[p] = table[p]

(* One such kernel is always there; the scan finds a good kernel at the latest
   when it gets to it, and the roll-forward keeps that kernel acceptable. *)
SureInv ==
    ~StreamErrors =>
        /\ request = "none" /\ lk.missed = {} /\ \E p \in Parts : Sure(p)
        /\ boot.mode = "normal" /\ ~NullBuffer
        /\ pc = "scan" => lk.buffer = Given
        /\ lk.good # 0 => Acceptable(lk.good)
        /\ lk.good # 0 /\ pc \in {"scan", "write", "finish"} => lk.lowest <= images[lk.good].version
        /\ pc = "scan" /\ lk.good = 0 => \A p \in Parts : Sure(p) => ~Passed(p)
        /\ pc \in {"write", "finish", "kernel", "os"} => lk.good # 0

LEMMA EntryInit ==
    ASSUME Init
    PROVE  EntryInv
BY DEF Init, EntryInv, FirstTable

LEMMA EntryStep ==
    ASSUME IInv, EntryInv, [Next]_vars
    PROVE  EntryInv'
<1>1. TypeInv /\ Parts' = Parts
  BY SameSets DEF IInv, Next, vars
<1>2. CASE PowerOn
  <2>1. UNCHANGED table /\ lk'.entries = table
    BY <1>2 DEF PowerOn, StartOf
  <2> QED
    BY <1>1, <2>1 DEF EntryInv
<1>3. CASE Next /\ NextKernel
  <2>1. pc = "scan" /\ UNCHANGED table
    BY SMTT(30), SMTT(60), <1>3 DEF NextKernel
  <2>2. CASE Exhausted
    BY SMTT(30), SMTT(60), <1>1, <2>1, <2>2 DEF EntryInv, Exhausted
  <2>3. ASSUME NEW p \in Parts, Advances(p)
        PROVE  EntryInv'
    <3>1. /\ \A r \in Parts \ {p} : lk'.entries[r] = lk.entries[r]
          /\ lk.entries[p].successful \/ lk'.entries[p].successful => lk'.entries[p] = lk.entries[p]
      BY <2>3 DEF Advances, Visits
    <3> QED
      BY SMTT(30), SMTT(60), <1>1, <2>1, <3>1 DEF EntryInv
  <2> QED
    BY <1>3, <2>2, <2>3, ScanStep DEF Next
<1>4. CASE WriteTable
  BY <1>1, <1>4 DEF EntryInv, WriteTable
<1>5. CASE Success \/ Failure \/ PowerFails \/ KernelRuns \/ Reboot
  <2>1. UNCHANGED table /\ pc' \notin {"scan", "write"}
    BY <1>5 DEF Success, Failure, PowerFails, KernelRuns, Reboot
  <2> QED
    BY <1>1, <2>1 DEF EntryInv
<1>6. CASE MarkSuccessful
  <2>1. table' = [table EXCEPT ![lk.good].successful = TRUE, ![lk.good].priority = Max({1, @})]
        /\ pc' \notin {"scan", "write"}
    BY <1>6 DEF MarkSuccessful
  <2>2. \A n \in Nat : Max({1, n}) > 0
    BY MaxOfTwo
  <2>3. \A p \in Parts : table[p] \in Entry /\ table[p].priority \in Nat
    BY <1>1 DEF TypeInv, Entry
  <2>4. ASSUME NEW p \in Parts, p = lk.good
        PROVE  table'[p].priority > 0
    <3>1. table'[p].priority = Max({1, table[p].priority})
      BY Zenon, <1>1, <2>1, <2>3, <2>4 DEF TypeInv, Entry
    <3> QED
      BY <2>2, <2>3, <3>1
  <2>5. ASSUME NEW p \in Parts, p # lk.good
        PROVE  table'[p] = table[p]
    BY <1>1, <2>1, <2>5 DEF TypeInv
  <2> QED
    BY Zenon, <1>1, <2>1, <2>4, <2>5 DEF EntryInv
<1>7. CASE Update
  BY <1>1, <1>7 DEF EntryInv, Update, TypeInv
<1>8. CASE Reinstall
  BY <1>1, <1>8 DEF EntryInv, Reinstall, FirstTable
<1>9. CASE UNCHANGED vars
  BY <1>1, <1>9 DEF EntryInv, vars
<1> QED
  BY <1>2, <1>3, <1>4, <1>5, <1>6, <1>7, <1>8, <1>9 DEF Next, Firmware

(* In normal mode LoadKernel() accepts the header of just these kernels. *)
LEMMA AcceptableHeader ==
    ASSUME TypeInv, boot.mode = "normal", NEW p \in Parts
    PROVE  /\ Acceptable(p) => ~HeaderRejected(images[p])
           /\ ~HeaderRejected(images[p]) /\ images[p].body => Acceptable(p)
<1>1. tpm \in Nat /\ images[p].version \in Nat
  <2>1. tpm \in 0..MaxVersion /\ images[p] \in KernelImage
    BY DEF TypeInv
  <2> QED
    BY <2>1 DEF KernelImage
<1>2. images[p].version >= tpm => KeyVersion(images[p].version) >= KeyVersion(tpm)
  BY <1>1, KeyVersions
<1> QED
  BY <1>1, <1>2 DEF Acceptable, HeaderRejected, KeyBlockValid

LEMMA SureMayBoot ==
    ASSUME EntryInv, NEW p \in Parts, Sure(p)
    PROVE  MayBoot(table[p])
BY DEF EntryInv, Sure, MayBoot, Bootable

LEMMA SureInit ==
    ASSUME Dependable, Init
    PROVE  SureInv
<1>1. SUFFICES ASSUME ~StreamErrors PROVE SureInv
  BY DEF SureInv
<1>2. IInv /\ TypeInv
  BY InitInv DEF IInv
<1>3. /\ ~NullBuffer /\ boot.mode = "normal" /\ FirstImages # <<>>
      /\ \A p \in Parts : FirstImages[p].sig = "signed" /\ FirstImages[p].body
  BY <1>1 DEF Dependable, Init, StreamErrors, NullBuffer, Boots, FirstImages, Parts
<1>4. 1 \in Parts
  <2>1. FirstImages \in Seq(Images)
    BY LoadKernelAssumption DEF Init, FirstImages, Images
  <2> QED
    BY <1>3, <2>1 DEF Parts
<1>5. lk.good = 0 /\ lk.missed = {}
  BY <1>2, ReturnedType DEF Init
<1>6. Sure(1)
  <2>1. images[1].version \in Nat /\ tpm = 0
    <3>1. images[1] \in KernelImage
      BY <1>2, <1>4 DEF TypeInv
    <3> QED
      BY <3>1 DEF KernelImage, Init
  <2>2. images[1] = FirstImages[1] /\ table[1].successful
    BY SMTT(30), SMTT(60), <1>4 DEF Init, FirstTable
  <2> QED
    BY <1>3, <1>4, <2>1, <2>2 DEF Sure, Acceptable
<1> QED
  BY <1>3, <1>4, <1>5, <1>6 DEF SureInv, Init

LEMMA SurePowerOn ==
    ASSUME Dependable, IInv, SureInv, ~StreamErrors, PowerOn, UNCHANGED env
    PROVE  SureInv'
<1>1. TypeInv /\ Parts' = Parts /\ UNCHANGED <<table, images, tpm, request>> /\ pc' = "scan"
  BY SameSets DEF IInv, PowerOn
<1>2. ~NullBuffer /\ boot'.mode = "normal" /\ request = "none" /\ \E p \in Parts : Sure(p)
  <2>1. \A b \in Boots : b.mode = "normal"
    BY <1>1 DEF TypeInv, Dependable, StreamErrors, Boots
  <2> QED
    BY <2>1 DEF SureInv, PowerOn
<1>3. /\ lk'.good = 0 /\ lk'.missed = {} /\ lk'.buffer = Given /\ lk'.kernel = 0
      /\ lk'.priority = MaxPriority + 1
  BY <1>2 DEF PowerOn, StartOf
<1>4. ASSUME NEW p \in Parts
      PROVE  ~Passed(p)'
  <2>1. table[p].priority \in 0..MaxPriority /\ MaxPriority \in Nat
    BY <1>1, Constants DEF TypeInv, Entry
  <2> QED
    BY <1>1, <1>3, <2>1 DEF Passed
<1>5. \A p \in Parts : Sure(p)' <=> Sure(p)
  BY <1>1 DEF Sure, Acceptable
<1>6. Given' = Given /\ NullBuffer' = NullBuffer
  BY DEF Given, FirstImages, NullBuffer
<1> QED
  BY <1>1, <1>2, <1>3, <1>4, <1>5, <1>6 DEF SureInv

LEMMA SureNextKernel ==
    ASSUME IInv, EntryInv, SureInv, ~StreamErrors, NextKernel, UNCHANGED env
    PROVE  SureInv'
<1>1. /\ TypeInv /\ Parts' = Parts /\ pc = "scan"
      /\ UNCHANGED <<table, images, tpm, request, boot>>
  BY SMTT(30), SMTT(60), SameSets DEF IInv, NextKernel
<1>2. /\ request = "none" /\ lk.missed = {} /\ boot.mode = "normal" /\ ~NullBuffer
      /\ lk.buffer = Given /\ (lk.good # 0 => Acceptable(lk.good))
      /\ lk.good # 0 => lk.lowest <= images[lk.good].version
      /\ lk.good = 0 => \A p \in Parts : Sure(p) => ~Passed(p)
  BY <1>1 DEF SureInv
<1>3. PICK q \in Parts : Sure(q)
  BY DEF SureInv
<1>4. Given' = Given /\ NullBuffer' = NullBuffer
  BY DEF Given, FirstImages, NullBuffer
<1>5. Given # 0 /\ Given \notin Parts
  BY <1>1, Constants DEF Given
<1>6. \A p : (Sure(p)' <=> Sure(p)) /\ (Acceptable(p)' <=> Acceptable(p))
  BY SMTT(30), SMTT(60), <1>1 DEF Sure, Acceptable
<1>7. CASE Exhausted
  <2>1. pc' = "write" /\ lk' = lk /\ Passed(q)
    BY <1>3, <1>7, SureMayBoot DEF Exhausted
  <2>2. lk.good # 0
    BY SMTT(30), SMTT(60), <1>2, <1>3, <2>1
  <2>3. Acceptable(lk.good)'
    BY SMTT(30), SMTT(60), <1>1, <1>2, <2>1, <2>2 DEF Acceptable
  <2> QED
    BY <1>1, <1>2, <1>3, <1>4, <1>6, <2>1, <2>2, <2>3 DEF SureInv
<1>8. ASSUME NEW p \in Parts, Advances(p)
      PROVE  SureInv'
  <2>1. Visits(p, lk') /\ Finds(p, lk') /\ p # 0
    BY SMTT(30), SMTT(60), <1>8 DEF Advances
  <2>2. lk'.missed = {} /\ lk'.buffer = Given
    BY SMTT(30), SMTT(60), <1>2, <1>5, <2>1 DEF Finds
  <2>3. /\ pc' \in {"scan", "write"}
        /\ \A r \in Parts : Passed(r)' /\ MayBoot(table[r]) => r = p \/ Passed(r)
    BY SMTT(30), SMTT(60), <1>1, <1>8 DEF Advances
  <2>4. CASE /\ lk'.good = lk.good /\ UNCHANGED pc
             /\ lk.good = 0 => \/ StreamErrors \/ HeaderRejected(images[p])
                               \/ ~(Fits(images[p]) /\ images[p].body)
    <3>1. ASSUME lk.good = 0, NEW r \in Parts, Sure(r)
          PROVE  ~Passed(r)'
      <4>1. ~Sure(p)
        <5>1. Fits(images[p])
          BY <1>2, <1>5 DEF Fits
        <5> QED
          BY <1>1, <1>2, <2>4, <3>1, <5>1, AcceptableHeader DEF Sure, Acceptable
      <4>2. MayBoot(table[r]) /\ ~Passed(r)
        BY <1>2, <3>1, SureMayBoot
      <4> QED
        BY SMTT(30), SMTT(60), <2>3, <3>1, <4>1, <4>2
    <3>2. lk.good # 0 => Acceptable(lk.good)' /\ lk'.lowest <= images[lk.good].version
      <4>1. SUFFICES ASSUME lk.good # 0
                     PROVE  Acceptable(lk.good)' /\ lk'.lowest <= images[lk.good].version
        BY SMTT(30), SMTT(60)
      <4>2. Acceptable(lk.good)'
        BY SMTT(30), SMTT(60), <1>1, <1>2, <2>4, <4>1 DEF Acceptable
      <4>3. lk.lowest <= images[lk.good].version /\ lk'.lowest <= lk.lowest
        BY <1>2, <2>1, <4>1 DEF Visits
      <4>4. lk.lowest \in Int /\ lk'.lowest \in Int /\ images[lk.good].version \in Int
        <5>1. lk.good \in Parts /\ lk.lowest \in 0..LOWEST_TPM_VERSION
              /\ lk'.lowest \in 0..LOWEST_TPM_VERSION
          BY <1>1, <2>1, <4>1 DEF TypeInv, LkState, Visits
        <5>2. images[lk.good] \in KernelImage
          BY <1>1, <5>1 DEF TypeInv
        <5>3. images[lk.good].version \in 0..MaxVersion
          BY <5>2 DEF KernelImage
        <5> QED
          BY <5>1, <5>3
      <4> QED
        BY <4>2, <4>3, <4>4
    <3> QED
      BY <1>1, <1>2, <1>3, <1>4, <1>6, <2>2, <2>4, <3>1, <3>2 DEF SureInv
  <2>5. CASE /\ lk.good = 0 /\ lk'.good = p /\ ~HeaderRejected(images[p]) /\ images[p].body
             /\ KeyBlockValid(images[p]) => lk'.lowest <= images[p].version
    <3>1. Acceptable(p) /\ lk'.lowest <= images[p].version
      BY ZenonT(40), <1>1, <1>2, <2>5, AcceptableHeader, AcceptedIsValid
    <3>2. Acceptable(lk.good)'
      BY <1>1, <2>5, <3>1 DEF Acceptable
    <3> QED
      BY ZenonT(40), <1>1, <1>2, <1>3, <1>4, <1>6, <2>1, <2>2, <2>3, <2>5, <3>1, <3>2 DEF SureInv
  <2> QED
    BY SMTT(30), SMTT(60), <2>1, <2>4, <2>5 DEF Finds
<1> QED
  BY <1>7, <1>8, ScanStep

LEMMA SureWriteTable ==
    ASSUME IInv, EntryInv, SureInv, ~StreamErrors, WriteTable, UNCHANGED env
    PROVE  SureInv'
<1>1. /\ TypeInv /\ Parts' = Parts /\ pc = "write" /\ pc' = "finish"
      /\ UNCHANGED <<images, tpm, request, boot>> /\ table' \in {table, lk.entries}
      /\ lk' = lk \/ lk' = [lk EXCEPT !.saved = TRUE]
  BY SameSets DEF IInv, WriteTable
<1>2. lk'.good = lk.good /\ lk'.lowest = lk.lowest /\ lk'.missed = lk.missed
  BY <1>1 DEF TypeInv, LkState
<1>3. \A p \in Parts : Sure(p) => Sure(p)'
  BY <1>1 DEF Sure, Acceptable, EntryInv
<1>4. Acceptable(lk.good)' <=> Acceptable(lk.good)
  BY <1>1, <1>2 DEF Acceptable
<1>5. NullBuffer' = NullBuffer
  BY SMTT(30), SMTT(60) DEF NullBuffer
<1> QED
  BY <1>1, <1>2, <1>3, <1>4, <1>5 DEF SureInv

(* The roll-forward passes neither a kernel that is sure nor the one it
   boots. *)
LEMMA SureSuccess ==
    ASSUME IInv, EntryInv, SureInv, ~StreamErrors, Success, UNCHANGED env
    PROVE  SureInv'
<1>1. /\ TypeInv /\ Parts' = Parts /\ pc = "finish" /\ pc' = "kernel" /\ lk.good # 0
      /\ UNCHANGED <<table, images, boot>> /\ request' = "none"
      /\ tpm' \in {tpm, NewVersion} /\ lk' = Returned(lk.good, lk.buffer)
  BY SMTT(30), SMTT(60), SameSets DEF IInv, Success
<1>2. /\ lk.missed = {} /\ boot.mode = "normal" /\ ~NullBuffer
      /\ Acceptable(lk.good) /\ lk.lowest <= images[lk.good].version
  BY SMTT(30), SMTT(60), <1>1 DEF SureInv
<1>3. lk.good \in Parts /\ lk'.good = lk.good /\ lk'.missed = {}
  BY <1>1, ReturnedType DEF TypeInv, LkState
<1>4. /\ tpm \in Int /\ lk.lowest \in Int /\ \A p \in Parts : images[p].version \in Int
      /\ tpm' = tpm \/ (tpm' = lk.lowest /\ tpm' > tpm)
  <2>1. \A p \in Parts : images[p].version \in 0..MaxVersion
    BY <1>1 DEF TypeInv, KernelImage
  <2>2. tpm \in 0..MaxVersion /\ lk.lowest \in 0..LOWEST_TPM_VERSION
    BY <1>1 DEF TypeInv, LkState
  <2>3. NewVersion \in 0..MaxVersion /\ NewVersion >= tpm /\ (NewVersion > tpm => NewVersion = lk.lowest)
    BY <1>1, NewVersionIs
  <2> QED
    BY <1>1, <2>1, <2>2, <2>3
<1>5. Acceptable(lk.good)'
  BY <1>1, <1>2, <1>3, <1>4 DEF Acceptable
<1>6. ASSUME NEW p \in Parts, Sure(p)
      PROVE  Sure(p)'
  <2>1. Fallback(p)
    BY <1>1, <1>2, <1>6, SureMayBoot, AcceptableHeader DEF Fallback, Sure
  <2>2. tpm' # tpm => lk.lowest <= images[p].version
    <3>1. lk.lowest <= tpm \/ Bounded(p)
      BY <1>1, <1>2 DEF IInv, Scanned
    <3> QED
      BY <1>4, <2>1, <3>1 DEF Bounded
  <2> QED
    BY <1>1, <1>4, <1>6, <2>2 DEF Sure, Acceptable
<1>7. NullBuffer' = NullBuffer
  BY DEF NullBuffer
<1> QED
  BY Zenon, <1>1, <1>2, <1>3, <1>5, <1>6, <1>7 DEF SureInv

(* The boot ends; LoadKernel() has not failed. *)
LEMMA SureOff ==
    ASSUME IInv, SureInv, ~StreamErrors, Failure \/ PowerFails \/ KernelRuns \/ Reboot, UNCHANGED env
    PROVE  SureInv'
<1>1. TypeInv /\ Parts' = Parts /\ lk.good \in Parts \cup {0} /\ ~Failure
  BY Zenon, SameSets DEF IInv, TypeInv, LkState, SureInv, Failure
<1>2. /\ UNCHANGED <<table, images, tpm, request, boot>>
      /\ (pc' = "off" /\ lk' = Returned(0, 0)) \/ (pc = "kernel" /\ pc' = "os" /\ lk' = lk)
  BY <1>1 DEF PowerFails, KernelRuns, Reboot
<1>3. Returned(0, 0).good = 0 /\ Returned(0, 0).missed = {}
  BY <1>1, ReturnedType
<1>4. /\ \A p \in Parts : Sure(p)' <=> Sure(p)
      /\ lk' = lk => (Acceptable(lk.good)' <=> Acceptable(lk.good))
      /\ NullBuffer' = NullBuffer
  BY <1>2 DEF Sure, Acceptable, NullBuffer
<1> QED
  BY ZenonT(40), <1>1, <1>2, <1>3, <1>4 DEF SureInv

(* The running kernel is one that is sure, once it is marked successful; an
   update leaves it alone, and nobody needs to reinstall. *)
LEMMA SureSystem ==
    ASSUME IInv, SureInv, ~StreamErrors, MarkSuccessful \/ Update \/ Reinstall, UNCHANGED env
    PROVE  SureInv'
<1>1. /\ TypeInv /\ Parts' = Parts /\ pc = "os" /\ ~Reinstall
      /\ UNCHANGED <<tpm, request, boot, lk, pc>>
  BY SameSets DEF IInv, SureInv, MarkSuccessful, Update, Reinstall
<1>2. lk.good \in Parts /\ Acceptable(lk.good)
  BY <1>1 DEF TypeInv, LkState, SureInv
<1>3. images'[lk.good] = images[lk.good] /\ table'[lk.good].successful
  <2>1. CASE MarkSuccessful
    BY <1>1, <1>2, <2>1 DEF MarkSuccessful, TypeInv, Entry
  <2>2. CASE Update
    BY <1>1, <1>2, <2>2 DEF Update, TypeInv
  <2> QED
    BY <1>1, <2>1, <2>2
<1>4. Sure(lk.good)' /\ Acceptable(lk.good)'
  BY <1>1, <1>2, <1>3 DEF Sure, Acceptable
<1>5. NullBuffer' = NullBuffer
  BY DEF NullBuffer
<1> QED
  BY Zenon, <1>1, <1>2, <1>4, <1>5 DEF SureInv

(* With a kernel that was once marked successful on its disk, a machine that
   boots in normal mode into a buffer of its caller never asks for recovery, for
   any number of partitions and versions, whatever an update installs and
   wherever the power goes: LoadKernel() leaves that kernel bootable, gets to it
   and finds it new enough.  The scan is in order besides: FallbackReached. *)
THEOREM FallbackIsReached ==
    ASSUME Dependable
    PROVE  Spec => []FallbackReached
<1>1. Init => EntryInv /\ SureInv
  BY EntryInit, SureInit
<1>2. IInv /\ EntryInv /\ SureInv /\ [Next]_vars => EntryInv' /\ SureInv'
  <2>1. SUFFICES ASSUME IInv, EntryInv, SureInv, [Next]_vars PROVE SureInv'
    BY EntryStep
  <2>2. StreamErrors' = StreamErrors
    BY <2>1 DEF Next, vars, StreamErrors
  <2>3. CASE StreamErrors
    BY <2>2, <2>3 DEF SureInv
  <2>4. CASE ~StreamErrors /\ Next
    BY SMTT(30), SMTT(60), <2>1, <2>4, SurePowerOn, SureNextKernel, SureWriteTable, SureSuccess, SureOff, SureSystem
       DEF Next, Firmware
  <2>5. CASE UNCHANGED vars
    BY <2>1, <2>5 DEF SureInv, Sure, Acceptable, Passed, Parts, FirstImages, NullBuffer, StreamErrors,
                      Given, vars
  <2> QED
    BY <2>1, <2>3, <2>4, <2>5
<1>3. SureInv => NeverNeedsRecovery
  BY DEF SureInv, NeverNeedsRecovery
<1>4. Spec => []NeverNeedsRecovery
  BY <1>1, <1>2, <1>3, Invariance, PTL DEF Spec
<1> QED
  BY <1>4, ScanIsInOrder, PTL DEF FallbackReached
=============================================================================
