----------------------------- MODULE MCVb2Boot -----------------------------
(* Three scenarios of Vb2Boot, one of which a behaviour is chosen to follow. *)
EXTENDS Vb2Boot

(* Two updates of any quality, interrupted and misread. *)
SlotUpdates ==
    [version |-> 1, tries |-> 1, updates |-> 2, faults |-> 1,
     kinds |-> {"power", "nv", "flash", "sec_read"},
     qualities |-> {"good", "corrupt", "bad_body"},
     flags |-> {"NOFAIL"}, requests |-> {}, gbb |-> {}]

(* Firmware that hangs or fails after it was chosen, on a board that does not
   check versions, with a TPM that asks for a reboot. *)
SlotHangs ==
    [version |-> 1, tries |-> 2, updates |-> 1, faults |-> 0, kinds |-> {},
     qualities |-> {"good", "rw_fails", "hangs"},
     flags |-> {"FORCE_RECOVERY", "WANTS_REBOOT"}, requests |-> {}, gbb |-> {"no_rollback"}]

(* The developer switch and the requests of the OS, with faults in the TPM. *)
ModeChanges ==
    [version |-> 0, tries |-> 1, updates |-> 0, faults |-> 2,
     kinds |-> {"power", "nv", "sec_torn", "sec_read", "gbb", "clear", "early"},
     qualities |-> {"good"},
     flags |-> {"FORCE_RECOVERY", "FORCE_DEV", "DISABLE_DEV"},
     requests |-> {"disable_dev", "clear_request"}, gbb |-> {}]

MCScenarios == {SlotUpdates, SlotHangs, ModeChanges}
=============================================================================
