----------------------------- MODULE MCBankUse -----------------------------
(***************************************************************************)
(* Small instances of BankUse; the .cfg files give the sizes.              *)
(***************************************************************************)
EXTENDS BankUse
=============================================================================
