------------------------- MODULE MCManagementPanel -------------------------
(* Small instances of ManagementPanel.                                     *)
EXTENDS ManagementPanel, TLC

MCSymmetry == Permutations(Keys)

=============================================================================
