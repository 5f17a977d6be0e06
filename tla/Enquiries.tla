----------------------------- MODULE Enquiries ------------------------------
(***************************************************************************)
(* Contact enquiries: the rate limit of every server, which decides for    *)
(* each address, and the way of one guest's enquiries, which the limit may *)
(* refuse at any time.                                                     *)
(***************************************************************************)
EXTENDS ContactLimit, ContactForm

(* The rate limit refuses for cause, holds in any minute, and waiting one  *)
(* is enough; the form believes only an answer about its own enquiry, and  *)
(* sends one twice only when its guest was told it is in doubt.            *)
ContactSafe == LimitSafe /\ FormSafe

=============================================================================
