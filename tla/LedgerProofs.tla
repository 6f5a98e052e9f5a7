----------------------------- MODULE LedgerProofs -----------------------------
(***************************************************************************)
(* Theorems about the abstract ledger, for any number of orders, addresses *)
(* and coupons.  What implements the ledger, or uses it, has them too:     *)
(* RefinementProofs and MerchantProofs instantiate this module.            *)
(***************************************************************************)
EXTENDS CouponLedger, TableFacts

LedgerTyped ==
    /\ supply \in [Coupons \X Addresses -> Nat]
    /\ order \in [Orders -> Order \cup {NoOrder}]
    /\ status \in [Orders -> {"none", "placed", "executed", "settled", "dropped", "cut", "lost"}]
    /\ \A o \in Orders : status[o] # "none" => order[o] \in Order

Places == \E o \in Orders, what \in Order : Asked(o, what)

Moves == \E o \in Orders : Decide(o) \/ Finish(o)

\* An order is what it was when it was placed.
LEMMA LedgerStep ==
    ASSUME LedgerTyped, Places \/ Moves \/ UNCHANGED ledger
    PROVE  /\ LedgerTyped'
           /\ \A o \in Orders : status[o] # "none" => status'[o] # "none" /\ order'[o] = order[o]
           /\ Moves => \A o \in Orders : status'[o] = "none" <=> status[o] = "none"
<1>1. CASE UNCHANGED ledger
  BY <1>1 DEF ledger, LedgerTyped
<1>2. ASSUME NEW o \in Orders, NEW what \in Order, Asked(o, what)
      PROVE  /\ LedgerTyped' /\ supply' = supply
             /\ \A p \in Orders : status[p] # "none" => status'[p] # "none" /\ order'[p] = order[p]
  BY <1>2 DEF LedgerTyped, Asked
<1>3. ASSUME NEW o \in Orders, Decide(o) \/ Finish(o)
      PROVE  /\ status[o] \in {"placed", "executed"} /\ order' = order
             /\ \E s \in {"executed", "settled", "dropped", "cut", "lost"} :
                    status' = [status EXCEPT ![o] = s]
             /\ \/ supply' = supply
                \/ \E a \in Addresses :
                      supply' = [supply EXCEPT ![<<order[o].coupon, a>>] = @ + 1]
                \/ \E a \in Addresses :
                      /\ supply[order[o].coupon, a] > 0
                      /\ supply' = [supply EXCEPT ![<<order[o].coupon, a>>] = @ - 1]
  <2>1. status[o] # "none" => order[o] \in Order
    BY DEF LedgerTyped
  <2>2. CASE Issue(o)
    BY <2>1, <2>2 DEF Issue, Asks, Becomes, Order
  <2>3. CASE Transfer(o) \/ Redeem(o)
    BY <2>1, <2>3 DEF Transfer, Redeem, Take, Asks,
                      Becomes, Order
  <2>4. CASE Drop(o) \/ Cut(o) \/ Lose(o)
    BY <2>4 DEF Drop, Cut, Lose, Becomes
  <2>5. CASE Settle(o)
    BY <2>1, <2>5 DEF Settle, Becomes, Order
  <2> QED  BY <1>3, <2>2, <2>3, <2>4, <2>5 DEF Decide, Finish
<1>4. ASSUME NEW o \in Orders, Decide(o) \/ Finish(o)
      PROVE  /\ LedgerTyped'
             /\ \A p \in Orders : status[p] # "none" => status'[p] # "none" /\ order'[p] = order[p]
             /\ \A p \in Orders : status'[p] = "none" <=> status[p] = "none"
  <2>1. order[o] \in Order /\ order[o].coupon \in Coupons /\ status[o] # "none"
    BY <1>3, <1>4 DEF LedgerTyped, Order
  <2>2. PICK s \in {"executed", "settled", "dropped", "cut", "lost"} :
            status' = [status EXCEPT ![o] = s]
    BY <1>3, <1>4
  <2>3. /\ status' \in [Orders -> {"none", "placed", "executed", "settled", "dropped", "cut", "lost"}]
        /\ \A p \in Orders : (status'[p] = "none") <=> (status[p] = "none")
    BY <2>1, <2>2 DEF LedgerTyped
  <2>4. supply' \in [Coupons \X Addresses -> Nat]
    <3> DEFINE k == order[o].coupon
    <3>1. /\ k \in Coupons
          /\ \/ supply' = supply
             \/ \E a \in Addresses : supply' = [supply EXCEPT ![<<k, a>>] = @ + 1]
             \/ \E a \in Addresses : /\ supply[<<k, a>>] > 0
                                     /\ supply' = [supply EXCEPT ![<<k, a>>] = @ - 1]
      BY <1>3, <1>4, <2>1
    <3> HIDE DEF k
    <3>2. supply \in [Coupons \X Addresses -> Nat]
      BY DEF LedgerTyped
    <3>3. ASSUME NEW a \in Addresses, NEW n \in Nat, supply' = [supply EXCEPT ![<<k, a>>] = n]
          PROVE  supply' \in [Coupons \X Addresses -> Nat]
      BY <3>1, <3>2, <3>3
    <3>4. CASE supply' = supply
      BY <3>2, <3>4
    <3>5. ASSUME NEW a \in Addresses PROVE supply[<<k, a>>] \in Nat
      BY <3>1, <3>2
    <3>6. ASSUME supply' # supply
          PROVE  \E a \in Addresses, n \in Nat : supply' = [supply EXCEPT ![<<k, a>>] = n]
      <4>1. ASSUME NEW a \in Addresses, supply' = [supply EXCEPT ![<<k, a>>] = @ + 1]
            PROVE  \E n \in Nat : supply' = [supply EXCEPT ![<<k, a>>] = n]
        <5>1. supply' = [supply EXCEPT ![<<k, a>>] = supply[<<k, a>>] + 1]
          BY <4>1
        <5>2. supply[<<k, a>>] + 1 \in Nat
          BY <3>5
        <5> QED  BY <5>1, <5>2
      <4>2. ASSUME NEW a \in Addresses, supply[<<k, a>>] > 0,
                   supply' = [supply EXCEPT ![<<k, a>>] = @ - 1]
            PROVE  \E n \in Nat : supply' = [supply EXCEPT ![<<k, a>>] = n]
        <5>1. supply' = [supply EXCEPT ![<<k, a>>] = supply[<<k, a>>] - 1]
          BY <4>2
        <5>2. supply[<<k, a>>] - 1 \in Nat
          BY <3>5, <4>2
        <5> QED  BY <5>1, <5>2
      <4> QED  BY <3>1, <3>6, <4>1, <4>2
    <3> QED  BY <3>3, <3>4, <3>6 DEF k
  <2> QED  BY <1>3, <1>4, <2>1, <2>3, <2>4 DEF LedgerTyped
<1>5. ASSUME Moves PROVE \A o \in Orders : status'[o] = "none" <=> status[o] = "none"
  BY <1>4, <1>5 DEF Moves
<1> QED  BY <1>1, <1>2, <1>4, <1>5 DEF Places, Moves

-----------------------------------------------------------------------------
(* Counting the coupons *)

Finite == IsFiniteSet(Orders) /\ IsFiniteSet(Addresses)

Held(coupon) == Total([a \in Addresses |-> supply[<<coupon, a>>]])

OnTheWay(coupon) == Count(coupon, {"transfer"}, {"executed", "lost"})

Redeemed(coupon) == Count(coupon, {"redeem"}, {"executed", "settled"})

Issued(coupon) == Count(coupon, {"issue"}, {"settled"})

\* Creations are settled at once.
IssuedAtOnce == \A o \in Orders : status[o] = "executed" => order[o].kind # "issue"

\* What the progress of one order does to a count.
LEMMA CountMove ==
    ASSUME Finite, LedgerTyped, NEW o \in Orders, order' = order, NEW s, s = status'[o],
           \A p \in Orders : p # o => status'[p] = status[p], NEW coupon, NEW kinds, NEW outcomes,
           NEW n, n = Count(coupon, kinds, outcomes),
           NEW m, m = Count(coupon, kinds, outcomes)'
    PROVE  /\ n \in Nat
           /\ (/\ order[o].kind \in kinds /\ order[o].coupon = coupon
               /\ status[o] \notin outcomes /\ s \in outcomes) => m = n + 1
           /\ (/\ order[o].kind \in kinds /\ order[o].coupon = coupon
               /\ status[o] \in outcomes /\ s \notin outcomes) => m = n - 1
           /\ (\/ order[o].kind \notin kinds \/ order[o].coupon # coupon
               \/ (status[o] \in outcomes <=> s \in outcomes)) => m = n
<1> DEFINE Counted == {p \in Orders : /\ status[p] \in outcomes
                                      /\ order[p].kind \in kinds
                                      /\ order[p].coupon = coupon}
           mine == order[o].kind \in kinds /\ order[o].coupon = coupon
<1>1. n = Cardinality(Counted) /\ m = Cardinality(Counted')
  BY DEF Count
<1>2. IsFiniteSet(Counted) /\ Cardinality(Counted) \in Nat
  BY FS_Subset, FS_CardinalityType DEF Finite
<1>3. \A p \in Orders : status'[p] = IF p = o THEN s ELSE status[p]
  OBVIOUS
<1>4. ASSUME mine, status[o] \notin outcomes, s \in outcomes
      PROVE  Counted' = Counted \cup {o} /\ o \notin Counted
  BY <1>3, <1>4
<1>5. ASSUME mine, status[o] \in outcomes, s \notin outcomes
      PROVE  Counted' = Counted \ {o} /\ o \in Counted
  BY <1>3, <1>5
<1>6. ASSUME ~mine \/ (status[o] \in outcomes <=> s \in outcomes) PROVE Counted' = Counted
  BY <1>3, <1>6
<1> HIDE DEF Counted, mine
<1>7. ASSUME mine, status[o] \notin outcomes, s \in outcomes PROVE m = n + 1
  BY <1>1, <1>2, <1>4, <1>7, FS_AddElement
<1>8. ASSUME mine, status[o] \in outcomes, s \notin outcomes PROVE m = n - 1
  BY <1>1, <1>2, <1>5, <1>8, FS_RemoveElement
<1>9. n \in Nat
  BY <1>1, <1>2
<1>10. ASSUME ~mine \/ (status[o] \in outcomes <=> s \in outcomes) PROVE m = n
  BY <1>1, <1>6, <1>10
<1> QED  BY <1>7, <1>8, <1>9, <1>10 DEF mine

\* What a coupon more or less at one address does to what is held.
LEMMA HeldMove ==
    ASSUME Finite, LedgerTyped, LedgerTyped', NEW kind \in Coupons, NEW a \in Addresses,
           \A x \in Coupons \X Addresses : x # <<kind, a>> => supply'[x] = supply[x],
           NEW coupon \in Coupons
    PROVE  /\ Held(coupon) \in Nat /\ Held(coupon)' \in Nat
           /\ coupon = kind =>
                 Held(coupon)' = Held(coupon) - supply[<<kind, a>>] + supply'[<<kind, a>>]
           /\ coupon # kind => Held(coupon)' = Held(coupon)
<1> DEFINE f == [b \in Addresses |-> supply[<<coupon, b>>]]
           g == [b \in Addresses |-> supply'[<<coupon, b>>]]
<1>1. /\ DOMAIN f = Addresses /\ DOMAIN g = Addresses
      /\ \A b \in Addresses : f[b] \in Nat /\ g[b] \in Nat
      /\ f[a] = supply[<<coupon, a>>] /\ g[a] = supply'[<<coupon, a>>]
  BY DEF LedgerTyped
<1>2. \A b \in Addresses : (b # a \/ coupon # kind) => g[b] = f[b]
  OBVIOUS
<1>3. Held(coupon) = Total(f) /\ Held(coupon)' = Total(g)
  BY DEF Held
<1> HIDE DEF f, g
<1>4. /\ Total(f) \in Nat /\ Total(g) \in Nat
      /\ Total(g) = Total(f) - f[a] + g[a]
  BY <1>1, <1>2, TotalChange DEF Finite
<1>5. coupon # kind => Total(g) = Total(f)
  BY <1>1, <1>2, TotalSame
<1> QED  BY <1>1, <1>3, <1>4, <1>5

\* One order goes on: what it takes and what it brings are counted.
LEMMA CountedMove ==
    ASSUME Finite, LedgerTyped, IssuedAtOnce, CouponsAccounted,
           NEW o \in Orders, Decide(o) \/ Finish(o)
    PROVE  IssuedAtOnce' /\ CouponsAccounted'
<1> DEFINE kind == order[o].coupon
<1>1. /\ order[o] \in Order /\ kind \in Coupons /\ order[o].from \in Addresses
      /\ order[o].to \in Addresses /\ order[o].kind \in {"issue", "transfer", "redeem"}
      /\ status[o] \in {"placed", "executed"} /\ LedgerTyped' /\ UNCHANGED order
  <2>1. status[o] \in {"placed", "executed"} /\ UNCHANGED order
    BY DEF Decide, Finish, Issue, Transfer, Redeem,
       Drop, Cut, Settle, Lose, Asks, Becomes
  <2>2. LedgerTyped'
    BY LedgerStep DEF Moves
  <2> QED  BY <2>1, <2>2 DEF LedgerTyped, Order
<1> DEFINE Gives(a, d) ==
             /\ \A x \in Coupons \X Addresses : x # <<kind, a>> => supply'[x] = supply[x]
             /\ supply'[<<kind, a>>] = supply[<<kind, a>>] + d
           Ends(s) == status' = [status EXCEPT ![o] = s]
           is == order[o].kind
\* Which order, what becomes of it, and how many coupons come to which address.
<1>2. \E s \in {"executed", "settled", "dropped", "cut", "lost"}, a \in Addresses, d \in {-1, 0, 1} :
         /\ Ends(s) /\ Gives(a, d)
         /\ \/ status[o] = "placed" /\ is = "issue" /\ s = "settled" /\ d = 1
            \/ status[o] = "placed" /\ is # "issue" /\ s = "executed" /\ d = -1
            \/ status[o] = "placed" /\ s \in {"dropped", "cut"} /\ d = 0
            \/ status[o] = "executed" /\ is = "transfer" /\ s = "settled" /\ d = 1
            \/ status[o] = "executed" /\ is # "transfer" /\ s = "settled" /\ d = 0
            \/ status[o] = "executed" /\ is = "transfer" /\ s = "lost" /\ d = 0
  <2>0. /\ supply \in [Coupons \X Addresses -> Nat]
        /\ \A a \in Addresses : <<kind, a>> \in Coupons \X Addresses
    BY <1>1 DEF LedgerTyped
  <2>1. ASSUME NEW a \in Addresses, NEW d \in {-1, 1}, supply' = [supply EXCEPT ![<<kind, a>>] = @ + d]
        PROVE  Gives(a, d)
    BY <2>0, <2>1
  <2>2. supply' = supply => Gives(order[o].to, 0)
    BY <1>1, <2>0
  <2>3. CASE Issue(o)
    <3>1. supply' = [supply EXCEPT ![<<kind, order[o].to>>] = @ + 1]
      BY <2>3 DEF Issue
    <3>2. Gives(order[o].to, 1)
      BY <1>1, <2>1, <3>1
    <3>3. Ends("settled") /\ status[o] = "placed" /\ is = "issue"
      BY <2>3 DEF Issue, Asks, Becomes
    <3> HIDE DEF Gives, Ends, is
    <3> QED  BY <1>1, <3>2, <3>3
  <2>4. CASE Transfer(o) \/ Redeem(o)
    <3>1. supply' = [supply EXCEPT ![<<kind, order[o].from>>] = @ - 1]
      BY <2>4 DEF Transfer, Redeem, Take
    <3>2. supply' = [supply EXCEPT ![<<kind, order[o].from>>] = @ + (-1)]
      <4>1. supply[<<kind, order[o].from>>] \in Nat
        BY <1>1, <2>0
      <4> QED  BY <3>1, <4>1
    <3>3. Gives(order[o].from, -1)
      BY <1>1, <2>1, <3>2
    <3>4. Ends("executed") /\ status[o] = "placed" /\ is # "issue"
      BY <2>4 DEF Transfer, Redeem, Asks, Becomes
    <3> HIDE DEF Gives, Ends, is
    <3> QED  BY <1>1, <3>3, <3>4
  <2>5. CASE Drop(o) \/ Cut(o)
    <3>1. /\ Ends("dropped") \/ Ends("cut")
          /\ status[o] = "placed" /\ supply' = supply
      BY <2>5 DEF Drop, Cut, Becomes
    <3> HIDE DEF Gives, Ends, is
    <3> QED  BY <1>1, <2>2, <3>1
  <2>6. CASE Settle(o) /\ is = "transfer"
    <3>1. supply' = [supply EXCEPT ![<<kind, order[o].to>>] = @ + 1]
      BY <2>6 DEF Settle
    <3>2. Gives(order[o].to, 1)
      BY <1>1, <2>1, <3>1
    <3>3. Ends("settled") /\ status[o] = "executed"
      BY <2>6 DEF Settle, Becomes
    <3> HIDE DEF Gives, Ends, is
    <3> QED  BY <1>1, <2>6, <3>2, <3>3
  <2>7. CASE Settle(o) /\ is # "transfer"
    <3>1. Ends("settled") /\ status[o] = "executed" /\ supply' = supply
      BY <2>7 DEF Settle, Becomes
    <3> HIDE DEF Gives, Ends, is
    <3> QED  BY <1>1, <2>2, <2>7, <3>1
  <2>8. CASE Lose(o)
    <3>1. Ends("lost") /\ status[o] = "executed" /\ is = "transfer" /\ supply' = supply
      BY <2>8 DEF Lose, Becomes
    <3> HIDE DEF Gives, Ends, is
    <3> QED  BY <1>1, <2>2, <3>1
  <2> HIDE DEF Gives, Ends, is
  <2> QED  BY <2>3, <2>4, <2>5, <2>6, <2>7, <2>8 DEF Decide, Finish
<1> HIDE DEF Gives, is
<1>3. PICK s \in {"executed", "settled", "dropped", "cut", "lost"} :
         \E a \in Addresses, d \in {-1, 0, 1} :
            /\ Ends(s) /\ Gives(a, d)
            /\ \/ status[o] = "placed" /\ is = "issue" /\ s = "settled" /\ d = 1
               \/ status[o] = "placed" /\ is # "issue" /\ s = "executed" /\ d = -1
               \/ status[o] = "placed" /\ s \in {"dropped", "cut"} /\ d = 0
               \/ status[o] = "executed" /\ is = "transfer" /\ s = "settled" /\ d = 1
               \/ status[o] = "executed" /\ is # "transfer" /\ s = "settled" /\ d = 0
               \/ status[o] = "executed" /\ is = "transfer" /\ s = "lost" /\ d = 0
  BY <1>2
<1>4. IssuedAtOnce'
  <2>1. \A p \in Orders : status'[p] = IF p = o THEN s ELSE status[p]
    BY <1>3 DEF LedgerTyped
  <2>2. s = "executed" => is # "issue"
    BY <1>3
  <2> QED  BY <1>1, <2>1, <2>2 DEF IssuedAtOnce, is
<1>5. ASSUME NEW coupon \in Coupons
      PROVE  (Held(coupon) + OnTheWay(coupon) + Redeemed(coupon) = Issued(coupon))'
  <2>1. Held(coupon) + OnTheWay(coupon) + Redeemed(coupon) = Issued(coupon)
    BY DEF CouponsAccounted, Held, OnTheWay, Redeemed, Issued
  <2> DEFINE Counts(n, m, kinds, outcomes) ==
               /\ n \in Nat
               /\ (is \in kinds /\ kind = coupon /\ status[o] \notin outcomes /\ s \in outcomes)
                    => m = n + 1
               /\ (is \in kinds /\ kind = coupon /\ status[o] \in outcomes /\ s \notin outcomes)
                    => m = n - 1
               /\ (\/ is \notin kinds \/ kind # coupon
                   \/ (status[o] \in outcomes <=> s \in outcomes)) => m = n
  <2>2. /\ Counts(OnTheWay(coupon), OnTheWay(coupon)', {"transfer"}, {"executed", "lost"})
        /\ Counts(Redeemed(coupon), Redeemed(coupon)', {"redeem"}, {"executed", "settled"})
        /\ Counts(Issued(coupon), Issued(coupon)', {"issue"}, {"settled"})
    <3>1. ASSUME NEW kinds, NEW outcomes, NEW n, n = Count(coupon, kinds, outcomes),
                 NEW m, m = Count(coupon, kinds, outcomes)'
          PROVE  Counts(n, m, kinds, outcomes)
      <4>1. /\ order' = order /\ s = status'[o]
            /\ \A p \in Orders : p # o => status'[p] = status[p]
        BY <1>1, <1>3 DEF LedgerTyped
      <4>2. /\ n \in Nat
            /\ (/\ order[o].kind \in kinds /\ order[o].coupon = coupon
                /\ status[o] \notin outcomes /\ s \in outcomes) => m = n + 1
            /\ (/\ order[o].kind \in kinds /\ order[o].coupon = coupon
                /\ status[o] \in outcomes /\ s \notin outcomes) => m = n - 1
            /\ (\/ order[o].kind \notin kinds \/ order[o].coupon # coupon
                \/ (status[o] \in outcomes <=> s \in outcomes)) => m = n
        BY <3>1, <4>1, CountMove
      <4> QED  BY <4>2 DEF is
    <3> HIDE DEF Counts
    <3> QED  BY <3>1 DEF OnTheWay, Redeemed, Issued
  <2>3. PICK a \in Addresses : \E d \in {-1, 0, 1} :
            /\ Gives(a, d)
            /\ \/ status[o] = "placed" /\ is = "issue" /\ s = "settled" /\ d = 1
               \/ status[o] = "placed" /\ is # "issue" /\ s = "executed" /\ d = -1
               \/ status[o] = "placed" /\ s \in {"dropped", "cut"} /\ d = 0
               \/ status[o] = "executed" /\ is = "transfer" /\ s = "settled" /\ d = 1
               \/ status[o] = "executed" /\ is # "transfer" /\ s = "settled" /\ d = 0
               \/ status[o] = "executed" /\ is = "transfer" /\ s = "lost" /\ d = 0
    BY <1>3
  <2>4. /\ Held(coupon) \in Nat /\ Held(coupon)' \in Nat
        /\ coupon # kind => Held(coupon)' = Held(coupon)
        /\ \A d \in {-1, 0, 1} : (Gives(a, d) /\ coupon = kind) => Held(coupon)' = Held(coupon) + d
    <3>1. \A d \in {-1, 0, 1} : Gives(a, d) =>
            /\ \A x \in Coupons \X Addresses : x # <<kind, a>> => supply'[x] = supply[x]
            /\ supply'[<<kind, a>>] = supply[<<kind, a>>] + d
      BY DEF Gives
    <3>2. supply[<<kind, a>>] \in Nat /\ supply'[<<kind, a>>] \in Nat
      BY <1>1 DEF LedgerTyped
    <3>3. /\ Held(coupon) \in Nat /\ Held(coupon)' \in Nat
          /\ coupon = kind =>
                Held(coupon)' = Held(coupon) - supply[<<kind, a>>] + supply'[<<kind, a>>]
          /\ coupon # kind => Held(coupon)' = Held(coupon)
      BY <1>1, <2>3, <3>1, HeldMove
    <3> QED  BY <3>1, <3>2, <3>3
  <2>5. CASE coupon # kind
    BY <2>1, <2>2, <2>4, <2>5
  <2>6. CASE coupon = kind
    <3>1. is \in {"issue", "transfer", "redeem"} /\ (status[o] = "executed" => is # "issue")
      BY <1>1 DEF IssuedAtOnce, is
    <3> QED  BY <2>1, <2>2, <2>3, <2>4, <2>6, <3>1
  <2> QED  BY <2>5, <2>6
<1> QED  BY <1>4, <1>5 DEF CouponsAccounted, Held, OnTheWay, Redeemed, Issued

\* An order that is placed has taken and brought nothing yet.
LEMMA CountedPlace ==
    ASSUME LedgerTyped, IssuedAtOnce, CouponsAccounted,
           NEW o \in Orders, NEW what, Asked(o, what)
    PROVE  IssuedAtOnce' /\ CouponsAccounted'
<1>1. /\ status[o] = "none" /\ supply' = supply /\ status'[o] = "placed"
      /\ \A p \in Orders : p # o => status'[p] = status[p] /\ order'[p] = order[p]
  BY DEF Asked, LedgerTyped
<1>2. IssuedAtOnce'
  BY <1>1 DEF IssuedAtOnce
<1>3. ASSUME NEW coupon, NEW kinds, NEW outcomes, "none" \notin outcomes, "placed" \notin outcomes
      PROVE  Count(coupon, kinds, outcomes)' = Count(coupon, kinds, outcomes)
  <2> DEFINE Counted == {p \in Orders : /\ status[p] \in outcomes
                                        /\ order[p].kind \in kinds
                                        /\ order[p].coupon = coupon}
  <2>1. Counted' = Counted
    BY <1>1, <1>3
  <2> QED  BY <2>1 DEF Count
<1>4. ASSUME NEW coupon \in Coupons
      PROVE  /\ Held(coupon)' = Held(coupon) /\ OnTheWay(coupon)' = OnTheWay(coupon)
             /\ Redeemed(coupon)' = Redeemed(coupon) /\ Issued(coupon)' = Issued(coupon)
  BY <1>1, <1>3 DEF Held, OnTheWay, Redeemed, Issued
<1>5. \A coupon \in Coupons :
         Held(coupon) + OnTheWay(coupon) + Redeemed(coupon) = Issued(coupon)
  BY DEF CouponsAccounted, Held, OnTheWay, Redeemed, Issued
<1>6. \A coupon \in Coupons :
         (Held(coupon) + OnTheWay(coupon) + Redeemed(coupon) = Issued(coupon))'
  BY <1>4, <1>5
<1> QED  BY <1>2, <1>6 DEF CouponsAccounted, Held, OnTheWay, Redeemed, Issued

-----------------------------------------------------------------------------
\* Nobody holds less than nothing, and what was ordered was a possible order.
THEOREM LedgerTypes == SafetySpec => []LedgerTyped
<1>1. Init => LedgerTyped
  BY DEF Init, LedgerTyped
<1>2. LedgerTyped /\ [Next]_ledger => LedgerTyped'
  <2> SUFFICES ASSUME LedgerTyped, [Next]_ledger PROVE LedgerTyped'
    OBVIOUS
  <2> QED  BY LedgerStep DEF Next, Places, Moves, Place
<1> QED  BY <1>1, <1>2, PTL DEF SafetySpec

\* Every coupon is held once, on its way, lost on its way or redeemed, whatever is
\* ordered, dropped or cut off.
THEOREM CouponsAreAccounted ==
    ASSUME IsFiniteSet(Orders), IsFiniteSet(Addresses)
    PROVE  SafetySpec => []CouponsAccounted
<1>0. Finite
  BY DEF Finite
<1>1. Init => IssuedAtOnce /\ CouponsAccounted
  <2> SUFFICES ASSUME Init PROVE IssuedAtOnce /\ CouponsAccounted
    OBVIOUS
  <2>1. /\ supply = [x \in Coupons \X Addresses |-> 0]
        /\ \A o \in Orders : status[o] = "none"
    BY DEF Init
  <2>2. ASSUME NEW coupon \in Coupons PROVE Held(coupon) = 0
    <3> DEFINE f == [a \in Addresses |-> supply[<<coupon, a>>]]
    <3>1. \A a \in Addresses : f[a] = 0
      BY <2>1
    <3>2. Units(f) = {}
      <4>1. 1 .. 0 = {}
        OBVIOUS
      <4>2. \A a \in Addresses : {a} \X (1 .. f[a]) = {}
        BY <3>1, <4>1
      <4> QED  BY <4>2 DEF Units
    <3> QED  BY <3>2, FS_EmptySet DEF Held, Total
  <2>3. ASSUME NEW coupon, NEW kinds, NEW outcomes, "none" \notin outcomes
        PROVE  Count(coupon, kinds, outcomes) = 0
    <3>1. {o \in Orders : /\ status[o] \in outcomes
                          /\ order[o].kind \in kinds
                          /\ order[o].coupon = coupon} = {}
      BY <2>1, <2>3
    <3> QED  BY <3>1, FS_EmptySet DEF Count
  <2>4. \A coupon \in Coupons :
           OnTheWay(coupon) = 0 /\ Redeemed(coupon) = 0 /\ Issued(coupon) = 0
    BY <2>3 DEF OnTheWay, Redeemed, Issued
  <2>5. \A coupon \in Coupons :
           Held(coupon) + OnTheWay(coupon) + Redeemed(coupon) = Issued(coupon)
    BY <2>2, <2>4
  <2> QED  BY <2>1, <2>5 DEF IssuedAtOnce, CouponsAccounted, Held, OnTheWay,
              Redeemed, Issued
<1>2. LedgerTyped /\ IssuedAtOnce /\ CouponsAccounted /\ [Next]_ledger
        => IssuedAtOnce' /\ CouponsAccounted'
  <2> SUFFICES ASSUME LedgerTyped, IssuedAtOnce, CouponsAccounted, [Next]_ledger
               PROVE  IssuedAtOnce' /\ CouponsAccounted'
    OBVIOUS
  <2>1. CASE Places
    BY <2>1, CountedPlace DEF Places
  <2>2. CASE Moves
    BY <1>0, <2>2, CountedMove DEF Moves
  <2>3. CASE UNCHANGED ledger
    BY <2>3 DEF ledger, IssuedAtOnce, CouponsAccounted, Count
  <2> QED  BY <2>1, <2>2, <2>3 DEF Next, Place, Places, Moves
<1> QED  BY <1>1, <1>2, LedgerTypes, PTL DEF SafetySpec
=============================================================================
