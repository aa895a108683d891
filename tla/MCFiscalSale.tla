---------------------------- MODULE MCFiscalSale ----------------------------
(***************************************************************************)
(* Small instances of FiscalSale for TLC.                                  *)
(***************************************************************************)
EXTENDS FiscalSale, TLC

Symmetry == Permutations(Request) \cup Permutations(ClientId)
              \cup Permutations(VoidId)

=============================================================================
