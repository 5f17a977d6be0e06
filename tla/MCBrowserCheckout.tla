------------------------- MODULE MCBrowserCheckout -------------------------
(* Small instances of BrowserCheckout.                                     *)
EXTENDS BrowserCheckout, TLC

MCSymmetry == Permutations(Offers) \cup Permutations(Tabs)

=============================================================================
