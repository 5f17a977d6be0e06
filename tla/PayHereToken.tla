---------------------------- MODULE PayHereToken ----------------------------
(***************************************************************************)
(* The authorization token of the payment provider's retrieval interface,  *)
(* kept in one field that every request shares: it is read, used over the  *)
(* network, replaced and dropped while other requests do the same, and the *)
(* provider may withdraw it, or let it lapse, before its time is up.       *)
(***************************************************************************)
EXTENDS Integers, FiniteSets

CONSTANTS
  Retrievals,     \* retrievals, each tried again when it failed
  Tokens,         \* tokens the provider hands out, 1 .. n in order
  Lifetimes,      \* values of expires_in
  Margin,         \* thirty seconds, more than two time-outs
  Timeout,        \* eight seconds, of either request to the provider
  MaxTroubles,    \* bound: network failures and withdrawals together
  MaxTime         \* bound: the last instant

ASSUME TokenAssumption ==
  /\ Tokens \subseteq Nat \ {0} /\ Lifetimes \subseteq Nat
  /\ Timeout \in Nat /\ Margin \in Nat /\ 2 * Timeout <= Margin
  /\ MaxTroubles \in Nat /\ MaxTime \in Nat

VARIABLES
  now,
  token,        \* the field: [value, until], value 0 for null
  req,          \* what each retrieval waits for, since when, with which token
  issued,       \* the instant the provider stops honouring a token it issued
  withdrawn,    \* tokens the provider stopped honouring before their time
  refused,      \* tokens whose refusal the server has been told
  troubles

tokenVars == <<now, token, req, issued, withdrawn, refused, troubles>>

Null == [value |-> 0, until |-> 0]

(* "cached" and "again" tell, for the properties, whether a token came from *)
(* the field, and whether its refusal was known by then.                   *)
AtRest == [pc |-> "idle", since |-> 0, value |-> 0, life |-> 0, cached |-> FALSE,
         again |-> FALSE]

Honoured(v) == now < issued[v]

Usable == token # Null /\ token.until > now

(* What is left of a token's time when its margin is taken off.            *)
Left(life) == IF life > Margin THEN life - Margin ELSE 0

-----------------------------------------------------------------------------
(* Retrieval.                                                              *)

SearchWith(v, cached) ==
  [pc |-> "search", since |-> now, value |-> v, life |-> 0, cached |-> cached,
   again |-> v \in refused]

Start(r) ==
  /\ req[r].pc = "idle"
  /\ req' = [req EXCEPT ![r] =
               IF Usable THEN SearchWith(token.value, TRUE)
               ELSE [AtRest EXCEPT !.pc = "oauth", !.since = now]]
  /\ UNCHANGED <<now, token, issued, withdrawn, refused, troubles>>

InTime(r) == now <= req[r].since + Timeout

(* The provider issues a token, and the answer travels.                    *)
Issue(r) ==
  /\ req[r].pc = "oauth" /\ InTime(r)
  /\ \E v \in Tokens \ DOMAIN issued, life \in Lifetimes :
       /\ \A u \in Tokens \ DOMAIN issued : v <= u
       /\ issued' = [u \in DOMAIN issued \cup {v} |->
                       IF u = v THEN now + life ELSE issued[u]]
       /\ req' = [req EXCEPT ![r].pc = "granted", ![r].value = v, ![r].life = life]
  /\ UNCHANGED <<now, token, withdrawn, refused, troubles>>

(* The field takes whichever answer comes last, which is used at once.     *)
Grant(r) ==
  /\ req[r].pc = "granted" /\ InTime(r)
  /\ token' = [value |-> req[r].value, until |-> now + Left(req[r].life)]
  /\ req' = [req EXCEPT ![r] = SearchWith(req[r].value, FALSE)]
  /\ UNCHANGED <<now, issued, withdrawn, refused, troubles>>

(* A likely slip: a refusal only fails the request it answers.             *)
Dropped_Never == token

(* Whatever token the field holds by now.                                  *)
Dropped == Null

Searched(r) ==
  /\ req[r].pc = "search" /\ InTime(r)
  /\ IF Honoured(req[r].value)
     THEN /\ req' = [req EXCEPT ![r] = [AtRest EXCEPT !.pc = "done"]]
          /\ UNCHANGED <<token, refused>>
     ELSE /\ token' = Dropped
          /\ refused' = refused \cup {req[r].value}
          /\ req' = [req EXCEPT ![r] = AtRest]
  /\ UNCHANGED <<now, issued, withdrawn, troubles>>

(* An error other than 401, or a time-out.                                 *)
Trouble(r) ==
  /\ req[r].pc \in {"oauth", "granted", "search"}
  /\ \/ troubles < MaxTroubles /\ troubles' = troubles + 1
     \/ ~InTime(r) /\ UNCHANGED troubles
  /\ req' = [req EXCEPT ![r] = AtRest]
  /\ UNCHANGED <<now, token, issued, withdrawn, refused>>

-----------------------------------------------------------------------------
(* The provider withdraws what it has issued; time passes.                 *)

Withdraw ==
  /\ troubles < MaxTroubles /\ troubles' = troubles + 1
  /\ \E v \in {u \in DOMAIN issued : Honoured(u)} :
       issued' = [issued EXCEPT ![v] = now] /\ withdrawn' = withdrawn \cup {v}
  /\ UNCHANGED <<now, token, req, refused>>

Tick ==
  /\ now < MaxTime /\ now' = now + 1
  /\ UNCHANGED <<token, req, issued, withdrawn, refused, troubles>>

TokenInit ==
  /\ now = 0 /\ token = Null /\ req = [r \in Retrievals |-> AtRest]
  /\ issued = <<>> /\ withdrawn = {} /\ refused = {} /\ troubles = 0

TokenNext ==
  \/ \E r \in Retrievals : Start(r) \/ Issue(r) \/ Grant(r) \/ Searched(r) \/ Trouble(r)
  \/ Withdraw \/ Tick

TokenSpec == TokenInit /\ [][TokenNext]_tokenVars

(* The network answers or times out.                                       *)
Answered(r) == Issue(r) \/ Grant(r) \/ Searched(r) \/ Trouble(r)

-----------------------------------------------------------------------------
(* Properties.                                                             *)

(* The field, the requests and the tokens are of their kinds.              *)
Retrieval ==
  [pc : {"idle", "oauth", "granted", "search", "done"}, since : 0 .. MaxTime,
   value : Tokens \cup {0}, life : Lifetimes \cup {0}, cached : BOOLEAN, again : BOOLEAN]

TokenTypeOK ==
  /\ now \in 0 .. MaxTime /\ token \in [value : Tokens \cup {0}, until : Nat]
  /\ req \in [Retrievals -> Retrieval]
  /\ DOMAIN issued \subseteq Tokens /\ \A v \in DOMAIN issued : issued[v] \in Nat
  /\ refused \subseteq DOMAIN issued /\ withdrawn \subseteq DOMAIN issued

(* A token the server was told is refused is never presented again by a    *)
(* retrieval that starts later, however the answers of overlapping ones    *)
(* overwrite each other in the one field they share.                       *)
RefusedIsForgotten == \A r \in Retrievals : ~req[r].again

(* A token that is taken from the field lasts until the search that carries *)
(* it is answered, although it was stored, taken and sent with delays.     *)
LastsItsSearch ==
  \A r \in Retrievals :
    req[r].pc = "search" /\ req[r].cached /\ InTime(r) =>
      Honoured(req[r].value) \/ req[r].value \in withdrawn

(* The token that retrievals share is safe to use.                         *)
TokenSafe == TokenTypeOK /\ RefusedIsForgotten /\ LastsItsSearch

(* Eventually: however often tokens are withdrawn, run out or are fetched  *)
(* twice, every retrieval is answered.                                     *)
Recovers == \A r \in Retrievals : req[r].pc = "done"

=============================================================================
