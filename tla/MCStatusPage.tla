---------------------------- MODULE MCStatusPage ----------------------------
(* Small instances of the two sides of a checkout, one in each behaviour:  *)
(* "at" says whether the guest's browser makes checkouts (BrowserCheckout) *)
(* or one is paid and its page is read (StatusPage).                       *)
EXTENDS StatusPage, BrowserCheckout, TLC

VARIABLE at

MCInit == at \in {"browser", "page"} /\ BrowserInit /\ StatusInit

MCNext ==
  /\ UNCHANGED at
  /\ \/ at = "browser" /\ BrowserNext /\ UNCHANGED allVars
     \/ at = "page" /\ StatusNext /\ UNCHANGED browserVars

MCSpec == MCInit /\ [][MCNext]_<<at, allVars, browserVars>>

(* The browser's quotes and the charges are the same model values, in      *)
(* different behaviours.                                                   *)
MCSymmetry == Permutations(Charges) \cup Permutations(Tabs)

=============================================================================
