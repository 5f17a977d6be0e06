---------------------------- MODULE ContactLimit ----------------------------
(***************************************************************************)
(* The guard in front of the enquiry endpoint: a table of connection       *)
(* addresses, each with the requests it made in a window that opens with   *)
(* its first one.  The guest it refuses is told to wait a minute.          *)
(***************************************************************************)
EXTENDS Integers, FiniteSets, Sequences

CONSTANTS
  Ips,          \* connection addresses
  Limit,        \* five requests
  Window,       \* sixty seconds
  MaxIps,       \* ten thousand addresses
  LastInstant,  \* bound: the last instant
  MaxRequests   \* bound: requests of one address

ASSUME LimitAssumption ==
  /\ IsFiniteSet(Ips) /\ MaxIps \in Nat /\ LastInstant \in Nat /\ MaxRequests \in Nat
  /\ Limit \in Nat \ {0} /\ Window \in Nat \ {0}

VARIABLES
  clock,
  requests,     \* the table: [count, until] of an address, count 0 for none
  admitted,     \* history: the instants at which an address was let through
  refusals,     \* history: [at, had, busy] of each refusal since it was last let
                \*   through: its admissions, and the others admitted, in a window
  asked         \* bound: requests made by an address

limitVars == <<clock, requests, admitted, refusals, asked>>

NoRecord == [count |-> 0, until |-> 0]

Ended(record) == record.until <= clock

(* Every request prunes the whole table first.                             *)
Pruned == [ip \in Ips |-> IF Ended(requests[ip]) THEN NoRecord ELSE requests[ip]]

Counting(table, ip) == table[ip].count > 0

Size(table) == Cardinality({ip \in Ips : Counting(table, ip)})

Full(table) == Size(table) >= MaxIps

OneMore(record) ==
  [count |-> record.count + 1,
   until |-> IF record.count > 0 THEN record.until ELSE clock + Window]

(* A likely slip: a refused request opens a new window.                    *)
Refused_Anew(table, ip) == [table EXCEPT ![ip].until = clock + Window]

Refused(table, ip) == table

-----------------------------------------------------------------------------

(* For the properties: admissions of an address in the window that ends at *)
(* an instant.                                                             *)
Recent(ip, t) ==
  Cardinality({i \in DOMAIN admitted[ip] : t - Window < admitted[ip][i] /\ admitted[ip][i] <= t})

(* The other addresses admitted in the window that ends now.               *)
Busy(ip) == Cardinality({o \in Ips \ {ip} : Recent(o, clock) > 0})

(* Whatever the cause, the answer is the same.                             *)
TooMany(ip) ==
  refusals' = [refusals EXCEPT ![ip] =
    Append(@, [at |-> clock, had |-> Recent(ip, clock), busy |-> Busy(ip)])]

Arrives(ip) == asked[ip] < MaxRequests /\ asked' = [asked EXCEPT ![ip] = @ + 1]

Pass(ip) ==
  /\ Arrives(ip)
  /\ Pruned[ip].count < Limit
  /\ Counting(Pruned, ip) \/ ~Full(Pruned)
  /\ requests' = [Pruned EXCEPT ![ip] = OneMore(@)]
  /\ admitted' = [admitted EXCEPT ![ip] = Append(@, clock)]
  /\ refusals' = [refusals EXCEPT ![ip] = <<>>]
  /\ UNCHANGED clock

TurnAway(ip) ==
  /\ Arrives(ip)
  /\ Pruned[ip].count >= Limit
  /\ requests' = Refused(Pruned, ip)
  /\ TooMany(ip)
  /\ UNCHANGED <<clock, admitted>>

NoSpace(ip) ==
  /\ Arrives(ip)
  /\ ~Counting(Pruned, ip) /\ Full(Pruned)
  /\ requests' = Pruned
  /\ TooMany(ip)
  /\ UNCHANGED <<clock, admitted>>

Passes ==
  /\ clock < LastInstant /\ clock' = clock + 1
  /\ UNCHANGED <<requests, admitted, refusals, asked>>

LimitInit ==
  /\ clock = 0 /\ requests = [ip \in Ips |-> NoRecord] /\ asked = [ip \in Ips |-> 0]
  /\ admitted = [ip \in Ips |-> <<>>] /\ refusals = [ip \in Ips |-> <<>>]

LimitNext == (\E ip \in Ips : Pass(ip) \/ TurnAway(ip) \/ NoSpace(ip)) \/ Passes

LimitSpec == LimitInit /\ [][LimitNext]_limitVars

-----------------------------------------------------------------------------
(* Properties.                                                             *)

(* The table holds counts up to the limit, for no more addresses than it   *)
(* may, however many ask at once.                                          *)
LimitTypeOK ==
  /\ clock \in 0 .. LastInstant
  /\ requests \in [Ips -> [count : 0 .. Limit, until : 0 .. LastInstant + Window]]
  /\ Size(requests) <= MaxIps
  /\ asked \in [Ips -> 0 .. MaxRequests]

(* Windows that follow each other let a burst across their border, but     *)
(* never twice the limit within one minute.                                *)
BurstBound == \A ip \in Ips, t \in 0 .. clock : Recent(ip, t) <= 2 * Limit - 1

(* Nobody is refused but for as many requests as the limit in the last     *)
(* minute, or for as many other guests as the table holds: the pruning     *)
(* never leaves a record behind, and never counts another's.               *)
Caused(refusal) == refusal.had >= Limit \/ refusal.busy >= MaxIps

RefusedForCause ==
  \A ip \in Ips : \A i \in DOMAIN refusals[ip] : Caused(refusals[ip][i])

(* Waiting a minute, as every refusal asks, is enough although the guest   *)
(* kept trying meanwhile: who is still refused a minute after a refusal,   *)
(* and was not let through between, meets a full table.                    *)
MinuteIsEnough ==
  \A ip \in Ips : \A i, j \in DOMAIN refusals[ip] :
    i < j /\ refusals[ip][j].at >= refusals[ip][i].at + Window
      => refusals[ip][j].busy >= MaxIps

LimitSafe == LimitTypeOK /\ BurstBound /\ RefusedForCause /\ MinuteIsEnough

=============================================================================
