----------------------------- MODULE MCIarBackup -----------------------------
(***************************************************************************)
(* Small instances of the inventory backups.                               *)
(***************************************************************************)
EXTENDS IarBackup, TLC

\* Users and web workers are interchangeable in the safety properties.
mc_Symmetry == Permutations(Users) \cup Permutations(Web)
=============================================================================
