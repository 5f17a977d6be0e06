------------------------------ MODULE Pricing -------------------------------
(***************************************************************************)
(* The price of a stay, in integer minor units: the room charge, then the  *)
(* hotel's charges one after the other, each rounded half up on a base     *)
(* that may include the charges before it; the website's own reckoning of  *)
(* the answer; and the deposit that is asked of the total later.           *)
(***************************************************************************)
EXTENDS Integers, Sequences

CONSTANTS
  Stays,        \* [nights, guests, past]: what is asked for
  Rooms,        \* [rate, capacity]: a room type's nightly rate and capacity
  Policies,     \* [basis, charges], charges a sequence of rules
  Percents,     \* deposit percentages, 0 when none is configured
  MaxNights,    \* ninety
  MaxAmount     \* 2147483647, the largest amount a column holds

ASSUME PricingAssumption ==
  /\ Stays \subseteq [nights : Int, guests : Int, past : BOOLEAN]
  /\ Rooms \subseteq [rate : Int, capacity : Int]
  /\ Percents \subseteq 0 .. 99
  /\ MaxNights \in Nat /\ MaxAmount \in Nat
  /\ \A P \in Policies :
       /\ P.basis \in {"INCLUSIVE", "EXCLUSIVE"}
       /\ P.charges \in Seq([code : STRING, points : Int,
                             base : {"ROOM_SUBTOTAL", "RUNNING_TOTAL"}])

VARIABLES
  stay, room, policy,   \* the request, the catalogue and the configuration
  phase,                \* "asked", "charged", "quoted" or "refused"
  subtotal,             \* nights at the nightly rate
  lines,                \* the line items so far: base, points and amount
  total                 \* the running total

given == <<stay, room, policy>>
priceVars == <<given, phase, subtotal, lines, total>>

PriceInit ==
  /\ stay \in Stays /\ room \in Rooms /\ policy \in Policies
  /\ phase = "asked" /\ subtotal = 0 /\ lines = <<>> /\ total = 0

RefusePrice ==
  /\ phase' = "refused"
  /\ UNCHANGED <<given, subtotal, lines, total>>

-----------------------------------------------------------------------------
(* The room charge.                                                        *)

Chargeable ==
  /\ ~stay.past /\ stay.nights \in 1 .. MaxNights
  /\ room.capacity >= 1 /\ room.rate >= 1
  /\ stay.guests \in 1 .. room.capacity
  /\ stay.nights * room.rate <= MaxAmount

(* Inclusive rates take no further charges.                                *)
PolicyFits == policy.basis = "INCLUSIVE" => policy.charges = <<>>

RoomCharge ==
  /\ phase = "asked"
  /\ IF Chargeable /\ PolicyFits
     THEN /\ subtotal' = stay.nights * room.rate
          /\ total' = stay.nights * room.rate
          /\ phase' = "charged"
          /\ UNCHANGED <<given, lines>>
     ELSE RefusePrice

-----------------------------------------------------------------------------
(* The charges.                                                            *)

Share(base, points) == (base * points + 5000) \div 10000

Points == 0 .. 10000   \* a rate, in basis points

Rule == policy.charges[Len(lines) + 1]

RuleFits ==
  /\ Rule.points \in Points
  /\ \A i \in DOMAIN lines : lines[i].code # Rule.code

(* "after" keeps the running total behind a line, for the properties.      *)
NewLine ==
  LET base == IF Rule.base = "ROOM_SUBTOTAL" THEN subtotal ELSE total
      amount == Share(base, Rule.points)
  IN  [code |-> Rule.code, base |-> base, points |-> Rule.points,
       amount |-> amount, after |-> total + amount]

AddLine ==
  /\ phase = "charged" /\ Len(lines) < Len(policy.charges)
  /\ IF RuleFits
     THEN /\ lines' = Append(lines, NewLine)
          /\ total' = NewLine.after
          /\ UNCHANGED <<given, phase, subtotal>>
     ELSE RefusePrice

Quoted ==
  /\ phase = "charged" /\ Len(lines) = Len(policy.charges)
  /\ IF total <= MaxAmount
     THEN phase' = "quoted" /\ UNCHANGED <<given, subtotal, lines, total>>
     ELSE RefusePrice

PriceNext == RoomCharge \/ AddLine \/ Quoted

PriceSpec == PriceInit /\ [][PriceNext]_priceVars

-----------------------------------------------------------------------------
(* The deposit, 0 for "not offered" or "not supported".                    *)

(* A likely slip: a deposit rounded up to all of it is still a deposit.    *)
AmountDue_All(percent) ==
  LET share == (total * percent + 50) \div 100
      amount == IF share < 1 THEN 1 ELSE share
  IN  IF percent = 0 THEN 0 ELSE amount

AmountDue(percent) ==
  LET share == (total * percent + 50) \div 100
      amount == IF share < 1 THEN 1 ELSE share
  IN  IF percent = 0 \/ amount >= total THEN 0 ELSE amount

-----------------------------------------------------------------------------
(* Properties.                                                             *)

Before(i) == IF i = 1 THEN subtotal ELSE lines[i - 1].after

Line == [code : STRING, base : Nat, points : Points, amount : Nat, after : Nat]

PriceTypeOK ==
  /\ stay \in Stays /\ room \in Rooms /\ policy \in Policies
  /\ phase \in {"asked", "charged", "quoted", "refused"}
  /\ subtotal \in Nat /\ total \in Nat /\ lines \in Seq(Line)
  /\ Len(lines) <= Len(policy.charges)

(* The website's own reckoning: the room subtotal is the nights at the     *)
(* rate, and line by line it and the charges add up to the total.          *)
AddsUp ==
  /\ phase \in {"charged", "quoted"} => subtotal = stay.nights * room.rate
  /\ \A i \in DOMAIN lines :
       /\ lines[i].after = Before(i) + lines[i].amount
       /\ lines[i].base \in {subtotal, Before(i)}
  /\ total = IF lines = <<>> THEN subtotal ELSE lines[Len(lines)].after

(* Each charge is the nearest cent to its exact share, half a cent up:     *)
(* off by at most half a cent, and by half a cent only upwards.            *)
NearestCent ==
  \A i \in DOMAIN lines :
    LET exact == lines[i].base * lines[i].points
        charged == lines[i].amount * 10000
    IN  charged - exact <= 5000 /\ exact - charged < 5000

(* Every amount of a quote fits its column, and something is to be paid.   *)
Fits ==
  phase = "quoted" =>
    /\ total \in 1 .. MaxAmount /\ subtotal \in 1 .. MaxAmount
    /\ \A i \in DOMAIN lines :
         lines[i].base <= MaxAmount /\ lines[i].amount <= MaxAmount

(* A deposit is never nothing and never all of a price.                    *)
DepositIsPart ==
  phase = "quoted" =>
    \A p \in Percents \ {0} :
      AmountDue(p) # 0 => AmountDue(p) \in 1 .. total - 1

(* Every quote adds up line by line, as the website reckons it again; its  *)
(* charges are the nearest cents, its amounts fit their columns, and a     *)
(* deposit is a part of it.                                                *)
PriceIsRight == PriceTypeOK /\ AddsUp /\ NearestCent /\ Fits /\ DepositIsPart

=============================================================================
