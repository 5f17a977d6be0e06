--------------------------- MODULE PricingProofs ----------------------------
(***************************************************************************)
(* Prices add up, are rounded to the nearest cent and fit their columns,   *)
(* for every catalogue and every policy.                                   *)
(***************************************************************************)
EXTENDS Pricing, SequenceTheorems, TLAPS

(* What a charge is, exactly, in hundredths of a hundredth of a cent, and   *)
(* a charge in cents that is the nearest to it, half a cent up.            *)
Exact(base, points) == base * points

Nearest(amount, exact) ==
  amount * 10000 - exact <= 5000 /\ exact - amount * 10000 < 5000

(* The share that is charged is the nearest whole one.                     *)
LEMMA NearestShare ==
  ASSUME NEW base \in Nat, NEW points \in Nat
  PROVE  Share(base, points) \in Nat /\ Nearest(Share(base, points), Exact(base, points))
<1>1. Exact(base, points) \in Nat
  BY DEF Exact
<1>2. Share(base, points) = (Exact(base, points) + 5000) \div 10000
  BY DEF Share, Exact
<1> QED
  BY <1>1, <1>2 DEF Nearest

(* Nothing shown of a price is greater than its total.                     *)
BelowTotal ==
  /\ subtotal <= total
  /\ phase = "quoted" => subtotal >= 1 /\ total <= MaxAmount
  /\ phase = "charged" => subtotal >= 1
  /\ \A i \in DOMAIN lines : lines[i].base <= total /\ lines[i].amount <= total

PInv == PriceTypeOK /\ AddsUp /\ NearestCent /\ BelowTotal /\ (phase = "asked" => lines = <<>>)

LEMMA InitPInv == PriceInit => PInv
BY PricingAssumption
   DEF PriceInit, PInv, PriceTypeOK, AddsUp, NearestCent, BelowTotal, Before

(* The amounts of a line are amounts.                                      *)
LEMMA LineAmounts == \A x \in Line : x.base \in Nat /\ x.amount \in Nat /\ x.after \in Nat
BY DEF Line

LEMMA PointsAre == \A n \in Points : n \in Nat
BY DEF Points

(* The line a rule adds, from its base and the running total.              *)
LEMMA NewLineFits ==
  ASSUME PInv, Rule.code \in STRING, RuleFits
  PROVE  /\ NewLine \in Line
         /\ NewLine.base \in {subtotal, total}
         /\ NewLine.after = total + NewLine.amount
         /\ Nearest(NewLine.amount, Exact(NewLine.base, NewLine.points))
<1>1. subtotal \in Nat /\ total \in Nat
  BY DEF PInv, PriceTypeOK
<1>2. Rule.code \in STRING /\ Rule.points \in Points
  BY DEF RuleFits
<1> DEFINE code == Rule.code
<1> DEFINE points == Rule.points
<1> DEFINE base == IF Rule.base = "ROOM_SUBTOTAL" THEN subtotal ELSE total
<1>3. code \in STRING /\ points \in Points
  BY <1>2
<1>4. base \in {subtotal, total}
  <2>1. CASE Rule.base = "ROOM_SUBTOTAL"
    BY <2>1, Zenon
  <2>2. CASE Rule.base # "ROOM_SUBTOTAL"
    BY <2>2, Zenon
  <2> QED
    BY <2>1, <2>2, Zenon
<1>5. NewLine = [code |-> code, base |-> base, points |-> points,
                 amount |-> Share(base, points), after |-> total + Share(base, points)]
  BY DEF NewLine
<1> HIDE DEF code, points, base
<1>6. base \in Nat /\ points \in Nat
  BY <1>1, <1>3, <1>4, PointsAre
<1>7. /\ Share(base, points) \in Nat
      /\ Nearest(Share(base, points), Exact(base, points))
  BY <1>6, NearestShare
<1> DEFINE amount == Share(base, points)
<1>8. total + amount \in Nat
  BY <1>1, <1>7
<1>9. [code |-> code, base |-> base, points |-> points,
       amount |-> amount, after |-> total + amount] \in Line
  BY <1>3, <1>6, <1>7, <1>8 DEF Line
<1>10. /\ NewLine.base = base /\ NewLine.points = points
       /\ NewLine.amount = amount /\ NewLine.after = total + amount
  BY <1>5
<1> QED
  BY <1>4, <1>5, <1>7, <1>9, <1>10

(* One more charge: what was added up stays, and the new line joins it.    *)
LEMMA LinePInv ==
  ASSUME PInv, AddLine, RuleFits
  PROVE  PInv'
<1>1. /\ lines \in Seq(Line) /\ subtotal \in Nat /\ total \in Nat
      /\ policy \in Policies
  BY DEF PInv, PriceTypeOK
<1>2. /\ phase = "charged" /\ Len(lines) < Len(policy.charges)
      /\ lines' = Append(lines, NewLine) /\ total' = NewLine.after
      /\ stay' = stay /\ room' = room /\ policy' = policy
      /\ phase' = phase /\ subtotal' = subtotal
  BY DEF AddLine, given
<1>3. /\ Rule \in [code : STRING, points : Int, base : {"ROOM_SUBTOTAL", "RUNNING_TOTAL"}]
      /\ Len(lines) + 1 <= Len(policy.charges)
  <2>1. policy.charges \in Seq([code : STRING, points : Int,
                                base : {"ROOM_SUBTOTAL", "RUNNING_TOTAL"}])
    BY <1>1, PricingAssumption
  <2>2. Len(lines) \in Nat /\ Len(policy.charges) \in Nat
    BY <1>1, <2>1, LenProperties
  <2>3. Len(lines) + 1 \in 1 .. Len(policy.charges)
    BY <1>2, <2>2
  <2>4. policy.charges[Len(lines) + 1] \in
          [code : STRING, points : Int, base : {"ROOM_SUBTOTAL", "RUNNING_TOTAL"}]
    BY <2>1, <2>3, ElementOfSeq, Zenon
  <2> QED
    BY <1>2, <2>2, <2>4 DEF Rule
<1>4. /\ NewLine \in Line
      /\ NewLine.base \in {subtotal, total}
      /\ NewLine.after = total + NewLine.amount
      /\ Nearest(NewLine.amount, Exact(NewLine.base, NewLine.points))
  <2>1. Rule.code \in STRING
    BY <1>3
  <2> QED
    BY <2>1, NewLineFits
<1>5. NewLine.base \in Nat /\ NewLine.amount \in Nat /\ total' \in Nat
  <2>1. NewLine.base \in Nat /\ NewLine.amount \in Nat /\ NewLine.after \in Nat
    BY <1>4, LineAmounts
  <2> QED
    BY <1>2, <2>1
<1>6. /\ lines' \in Seq(Line) /\ Len(lines') = Len(lines) + 1 /\ Len(lines) \in Nat
      /\ DOMAIN lines = 1 .. Len(lines) /\ DOMAIN lines' = 1 .. (Len(lines) + 1)
      /\ \A i \in 1 .. Len(lines) : lines'[i] = lines[i] /\ lines[i] \in Line
      /\ lines'[Len(lines) + 1] = NewLine
  <2>1. /\ lines' \in Seq(Line) /\ Len(lines') = Len(lines) + 1
        /\ \A i \in 1 .. Len(lines) : lines'[i] = lines[i]
        /\ lines'[Len(lines) + 1] = NewLine
    BY <1>1, <1>2, <1>4, AppendProperties
  <2>2. DOMAIN lines = 1 .. Len(lines) /\ DOMAIN lines' = 1 .. Len(lines')
        /\ Len(lines) \in Nat
    BY <1>1, <2>1, LenProperties
  <2>3. \A i \in 1 .. Len(lines) : lines[i] \in Line
    BY <1>1, ElementOfSeq
  <2> QED
    BY <2>1, <2>2, <2>3
<1>7. PriceTypeOK'
  BY <1>1, <1>2, <1>3, <1>5, <1>6 DEF PInv, PriceTypeOK
<1>8. PICK n \in Nat : n = Len(lines) + 1
  BY <1>6
<1>9. AddsUp'
  <2>1. ASSUME NEW i \in 1 .. Len(lines)
        PROVE  /\ lines'[i].after = Before(i)' + lines'[i].amount
               /\ lines'[i].base \in {subtotal', Before(i)'}
    <3>1. lines[i].after = Before(i) + lines[i].amount
          /\ lines[i].base \in {subtotal, Before(i)}
      BY <1>6 DEF PInv, AddsUp
    <3>2. i # 1 => lines'[i - 1] = lines[i - 1]
      BY <1>6
    <3>3. Before(i)' = Before(i)
      BY <1>2, <3>2 DEF Before
    <3> QED
      BY <1>2, <1>6, <3>1, <3>3
  <2>2. Before(n)' = total
    <3>1. CASE lines = <<>>
      <4>1. n = 1 /\ total = subtotal
        BY <1>8, <3>1 DEF PInv, AddsUp
      <4> QED
        BY <1>2, <4>1 DEF Before
    <3>2. CASE lines # <<>>
      <4>1. n # 1 /\ n - 1 = Len(lines) /\ Len(lines) \in 1 .. Len(lines)
        BY <1>1, <1>6, <1>8, <3>2, EmptySeq
      <4>2. total = lines[Len(lines)].after
        BY <3>2 DEF PInv, AddsUp
      <4> QED
        BY <1>6, <4>1, <4>2 DEF Before
    <3> QED
      BY <3>1, <3>2
  <2>3. lines'[n] = NewLine
    BY <1>6, <1>8
  <2>4. lines'[n].after = Before(n)' + lines'[n].amount
        /\ lines'[n].base \in {subtotal', Before(n)'}
    BY <1>2, <1>4, <2>2, <2>3
  <2>5. ASSUME NEW i \in DOMAIN lines'
        PROVE  /\ lines'[i].after = Before(i)' + lines'[i].amount
               /\ lines'[i].base \in {subtotal', Before(i)'}
    <3>1. CASE i \in 1 .. Len(lines)
      BY <2>1, <3>1, Zenon
    <3>2. CASE i = n
      BY <2>4, <3>2
    <3>3. i \in 1 .. Len(lines) \/ i = n
      BY <1>6, <1>8
    <3> QED
      BY <3>1, <3>2, <3>3
  <2>6. lines' # <<>> /\ total' = lines'[Len(lines')].after
    BY <1>2, <1>6
  <2>7. phase' \in {"charged", "quoted"} => subtotal' = stay'.nights * room'.rate
    BY <1>2 DEF PInv, AddsUp
  <2> QED
    BY <2>5, <2>6, <2>7 DEF AddsUp
<1>10. NearestCent'
  <2>1. \A i \in 1 .. Len(lines) :
          Nearest(lines[i].amount, Exact(lines[i].base, lines[i].points))
    BY <1>6 DEF PInv, NearestCent, Nearest, Exact
  <2>2. \A i \in DOMAIN lines' :
          Nearest(lines'[i].amount, Exact(lines'[i].base, lines'[i].points))
    BY <1>4, <1>6, <2>1
  <2> QED
    BY <2>2 DEF NearestCent, Nearest, Exact
<1>11. BelowTotal'
  <2>1. total <= total' /\ NewLine.base <= total' /\ NewLine.amount <= total'
    BY <1>1, <1>2, <1>4, <1>5 DEF PInv, BelowTotal
  <2>2. ASSUME NEW i \in 1 .. Len(lines)
        PROVE  lines'[i].base <= total' /\ lines'[i].amount <= total'
    <3>1. lines[i].base <= total /\ lines[i].amount <= total
      BY <1>6 DEF PInv, BelowTotal
    <3>2. lines[i] \in Line
      BY <1>6
    <3>3. lines[i].base \in Nat /\ lines[i].amount \in Nat
      BY <3>2, LineAmounts
    <3> QED
      <4>1. lines'[i] = lines[i]
        BY <1>6
      <4>2. lines[i].base <= total' /\ lines[i].amount <= total'
        BY <1>1, <1>5, <2>1, <3>1, <3>3
      <4> QED
        BY <4>1, <4>2
  <2>3. \A i \in DOMAIN lines' : lines'[i].base <= total' /\ lines'[i].amount <= total'
    BY <1>6, <2>1, <2>2
  <2>4. subtotal' <= total' /\ subtotal' >= 1
    BY <1>1, <1>2, <1>5, <2>1 DEF PInv, BelowTotal
  <2> QED
    BY <1>2, <2>3, <2>4 DEF BelowTotal
<1> QED
  BY <1>2, <1>7, <1>9, <1>10, <1>11 DEF PInv

LEMMA RefusePInv == PInv /\ RefusePrice => PInv'
BY DEF PInv, RefusePrice, PriceTypeOK, AddsUp, NearestCent, BelowTotal, Before, given

LEMMA NextPInv == PInv /\ [PriceNext]_priceVars => PInv'
<1> SUFFICES ASSUME PInv, [PriceNext]_priceVars PROVE PInv'
  OBVIOUS
<1>1. CASE RoomCharge
  <2>1. CASE RefusePrice
    BY <2>1, RefusePInv
  <2>2. CASE ~RefusePrice
    <3>1. /\ Chargeable /\ phase = "asked" /\ lines = <<>> /\ phase' = "charged"
          /\ subtotal' = stay.nights * room.rate /\ total' = stay.nights * room.rate
          /\ UNCHANGED <<given, lines>>
      BY <1>1, <2>2 DEF RoomCharge, PInv
    <3>2. stay.nights \in Nat /\ room.rate \in Nat
          /\ stay.nights >= 1 /\ room.rate >= 1
      BY <3>1, PricingAssumption DEF Chargeable, PInv, PriceTypeOK
    <3>3. stay.nights * room.rate \in Nat /\ stay.nights * room.rate >= 1
      BY <3>2
    <3> QED
      BY <3>1, <3>3
         DEF PInv, PriceTypeOK, AddsUp, NearestCent, BelowTotal, Before, given
  <2> QED
    BY <2>1, <2>2
<1>2. CASE AddLine
  <2>1. CASE RuleFits
    BY <1>2, <2>1, LinePInv
  <2>2. CASE ~RuleFits
    BY <1>2, <2>2, RefusePInv DEF AddLine
  <2> QED
    BY <2>1, <2>2
<1>3. CASE Quoted
  <2>1. CASE total <= MaxAmount
    BY <1>3, <2>1
       DEF Quoted, PInv, PriceTypeOK, AddsUp, NearestCent, BelowTotal, Before, given
  <2>2. CASE ~(total <= MaxAmount)
    BY <1>3, <2>2, RefusePInv DEF Quoted
  <2> QED
    BY <2>1, <2>2
<1>4. CASE UNCHANGED priceVars
  BY <1>4 DEF priceVars, given, PInv, PriceTypeOK, AddsUp, NearestCent, BelowTotal, Before
<1> QED
  BY <1>1, <1>2, <1>3, <1>4 DEF PriceNext

LEMMA SpecPInv == PriceSpec => []PInv
BY InitPInv, NextPInv, PTL DEF PriceSpec

(* Every amount of a quote fits its column.                                *)
LEMMA QuotesFit == PInv => Fits
<1> SUFFICES ASSUME PInv, phase = "quoted"
             PROVE  /\ total \in 1 .. MaxAmount /\ subtotal \in 1 .. MaxAmount
                    /\ \A i \in DOMAIN lines : /\ lines[i].base <= MaxAmount
                                               /\ lines[i].amount <= MaxAmount
  BY DEF Fits
<1>1. total \in Nat /\ subtotal \in Nat /\ lines \in Seq(Line) /\ MaxAmount \in Nat
  BY PricingAssumption DEF PInv, PriceTypeOK
<1>2. subtotal >= 1 /\ subtotal <= total /\ total <= MaxAmount
  BY DEF PInv, BelowTotal
<1>3. \A i \in DOMAIN lines : lines[i] \in Line
  BY <1>1, ElementOfSeq, LenProperties
<1>4. \A i \in DOMAIN lines : /\ lines[i].base \in Nat /\ lines[i].amount \in Nat
                              /\ lines[i].base <= total /\ lines[i].amount <= total
  BY <1>3 DEF PInv, BelowTotal, Line
<1> QED
  BY <1>1, <1>2, <1>4

(* A deposit is a share that was rounded, raised to a cent, and dropped    *)
(* when that is everything.                                                *)
LEMMA DepositsArePart == PInv => DepositIsPart
<1> SUFFICES ASSUME PInv, NEW p \in Percents \ {0}, AmountDue(p) # 0
             PROVE  AmountDue(p) \in 1 .. total - 1
  BY DEF DepositIsPart
<1>1. total \in Nat /\ p \in Nat
  BY PricingAssumption DEF PInv, PriceTypeOK
<1> DEFINE part == total * p
<1>2. part \in Nat
  BY <1>1
<1> DEFINE share == (part + 50) \div 100
           amount == IF share < 1 THEN 1 ELSE share
<1>3. AmountDue(p) = IF amount >= total THEN 0 ELSE amount
  BY DEF AmountDue
<1> HIDE DEF part
<1>4. share \in Int
  BY <1>2
<1> HIDE DEF share
<1> QED
  BY <1>1, <1>3, <1>4

(* For every catalogue and every policy, a quote adds up, its charges are  *)
(* the nearest cents, its amounts fit, and a deposit is a part of it.      *)
THEOREM PricesAreRight == PriceSpec => []PriceIsRight
<1>1. PInv => PriceIsRight
  BY QuotesFit, DepositsArePart DEF PInv, PriceIsRight
<1> QED
  BY <1>1, SpecPInv, PTL

=============================================================================
