-------------------------- MODULE MCBankHandshake --------------------------
(***************************************************************************)
(* Small instances of BankHandshake; the .cfg file gives the sizes.        *)
(***************************************************************************)
EXTENDS BankHandshake
=============================================================================
