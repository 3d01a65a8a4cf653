---------------------------- MODULE MCLoadKernel ----------------------------
(* Small instances of LoadKernel: two or three partitions, versions of one bit
   of key version and one bit of kernel version. *)
EXTENDS LoadKernel

Image(sig, version, size, body, boots) ==
    [sig |-> sig, version |-> version, size |-> size, body |-> body, boots |-> boots]

Sound(v) == Image("signed", v, 1, TRUE, TRUE)

(* What an update may install: a sound kernel of any version, one that hangs,
   one whose body or whose header is damaged. *)
MCImages == {Sound(v) : v \in 0..MaxVersion} \cup
            {Image("signed", 2, 1, TRUE, FALSE), Image("signed", 3, 2, FALSE, TRUE),
             Image("unreadable", 0, 1, TRUE, TRUE), Image("mismatch", 2, 1, TRUE, TRUE)}

(* In the other boot modes also kernels the developer signed. *)
MCModeImages == {Sound(1), Image("signed", 3, 2, TRUE, TRUE), Image("self", 0, 1, TRUE, TRUE)}

TwoFirst   == <<Sound(0), Sound(0)>>
ThreeFirst == <<Sound(1), Sound(1), Sound(1)>>

Boot(mode, tryB, nofail, official) ==
    [mode |-> mode, tryB |-> tryB, nofail |-> nofail, official |-> official]

NormalBoots == {Boot("normal", b, FALSE, FALSE) : b \in BOOLEAN}
AllBoots == {Boot("normal", FALSE, FALSE, FALSE), Boot("normal", TRUE, TRUE, FALSE),
             Boot("dev", FALSE, FALSE, FALSE), Boot("recovery", FALSE, FALSE, FALSE)}

(* Two partitions, updates and interrupted writes in normal mode. *)
Updating ==
    [images |-> MCImages, first |-> TwoFirst, boots |-> NormalBoots, tries |-> 2,
     null_buffer |-> FALSE, stream_errors |-> FALSE, interruptions |-> TRUE]

(* Three partitions, every boot mode, partitions that cannot be read; no buffer
   is given, so the first kernel whose body is read sets address and size. *)
Scanning ==
    [images |-> MCModeImages, first |-> ThreeFirst, boots |-> AllBoots, tries |-> 1,
     null_buffer |-> TRUE, stream_errors |-> TRUE, interruptions |-> FALSE]

MCScenarios == {Updating, Scanning}

ASSUME MCDependable == Dependable
=============================================================================
