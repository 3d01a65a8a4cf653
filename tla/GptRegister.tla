----------------------------- MODULE GptRegister -----------------------------
(***************************************************************************
 What the two copies of the GPT promise the firmware: one partition table,
 replaced as a whole.  `table' is what the next boot would find on the disk,
 `wanted' the table the running machine holds and means to leave there, or
 Off when no machine is running.
 ***************************************************************************)
CONSTANTS Tables, Off

VARIABLES table, wanted
registerVars == <<table, wanted>>

RegisterInit == table \in Tables /\ wanted = Off

(* A boot starts from the table on the disk, and from no other. *)
Boot == wanted = Off /\ wanted' = table /\ UNCHANGED table

(* The firmware works on its copy. *)
Choose == wanted # Off /\ wanted' \in Tables /\ UNCHANGED table

(* The copy becomes the table: there is no step to anything else. *)
Replace == wanted # Off /\ table' = wanted /\ UNCHANGED wanted

(* The machine stops, in order or not: the old table or the new one is left. *)
Stop == wanted # Off /\ wanted' = Off /\ table' \in {table, wanted}

(* The operating system installs a table of its own. *)
Install == wanted # Off /\ table' \in Tables /\ wanted' = table'

RegisterNext == Boot \/ Choose \/ Replace \/ Stop \/ Install
RegisterSpec == RegisterInit /\ [][RegisterNext]_registerVars
=============================================================================
