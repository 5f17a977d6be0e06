------------------------- MODULE MCPayHereCheckout -------------------------
(* Small instances of PayHereCheckout.                                     *)
EXTENDS PayHereCheckout, TLC

MCSymmetry == Permutations(Charges) \cup Permutations(Requests)

(* Every await of a request ends by its time-out, so a request ends.       *)
MCFairSpec == Spec /\ \A q \in Requests : WF_vars(Serve(q))

=============================================================================
