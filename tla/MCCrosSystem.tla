---------------------------- MODULE MCCrosSystem ----------------------------
(***************************************************************************)
(* Two processes with up to two arguments each, on each architecture, over *)
(* consistent and inconsistent settings, with at most one fault.           *)
(***************************************************************************)
EXTENDS CrosSystem

MCProcs == {"p", "q"}

SetTo(name, value) == [op |-> "set", name |-> name, value |-> value]
Get(name) == [op |-> "print", name |-> name, value |-> 0]
Check(name, value) == [op |-> "check", name |-> name, value |-> value]

MCSettings ==
  [param \in Params |->
     CASE param = "localization_index"    -> 7
       [] param = "kernel_field"          -> 64 + 16 + 5
       [] param = "kernel_settings_reset" -> 1
       [] OTHER                           -> 0]

FirstArgs ==
  {<<SetTo("fwupdate_tries", 18), SetTo("block_devmode", 0)>>,
   <<SetTo("recovery_request", 300), Get("recovery_request")>>,
   <<SetTo("loc_idx", 3), Get("loc_idx")>>,
   <<SetTo("fw_result", "bogus"), SetTo("loc_idx", 3)>>,
   <<Check("loc_idx", 7), SetTo("fw_result", "success"), Get("fw_result")>>,
   <<SetTo("kern_nv", 1), SetTo("loc_idx", 3)>>}

SecondArgs ==
  {<<SetTo("block_devmode", 0), Get("kern_nv")>>,
   <<SetTo("nvram_cleared", 1), Get("nvram_cleared")>>,
   <<SetTo("recovery_request", 0), SetTo("loc_idx", 4)>>,
   <<Get("fwupdate_tries"), SetTo("fwupdate_tries", 3), Get("fwupdate_tries")>>}

MCScenarios ==
  {[arch |-> arch, args |-> [p \in MCProcs |-> IF p = "p" THEN a ELSE b],
    f |-> MCSettings, good |-> good, faults |-> n] :
     arch \in {"x86", "x86_legacy", "arm_disk", "arm_mosys", "mips"},
     a \in FirstArgs, b \in SecondArgs, good \in BOOLEAN, n \in {0, 1}}
=============================================================================
