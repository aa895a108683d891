--------------------------- MODULE TillPageProofs ---------------------------
(***************************************************************************)
(* What the till's variables hold, and that an emptied basket is stored,   *)
(* for any variants, customers and number of open calls, and any bounds.   *)
(***************************************************************************)
EXTENDS TillProofs

-----------------------------------------------------------------------------
(* Types that name the parked sales there are.                             *)

(* The pages while the parked sales are those in P.  A question about a    *)
(* parked sale names one, and so does a question for a weight its article. *)
Paged(P) ==
  {p \in [basket : Basket, customer : OrNone(Customer), error : BOOLEAN,
          open : SUBSET Dialog, busy : SUBSET (Dialog \X Slot),
          order : OrNone(Nat), asked : Basket,
          phase : {"idle", "authorizing", "declined", "error"},
          lastTx : OrNone(Nat), paid : OrNone(Nat),
          weigh : OrNone(Weighed), list : SUBSET P, chosen : OrNone(P),
          recallable : BOOLEAN,
          seen : [basket : Basket, customer : OrNone(Customer)]] :
     /\ "discard" \in p.open => p.chosen # None
     /\ "weigh" \in p.open => p.weigh # None}

(* The calls, those about a parked sale about one in P.                    *)
Askable(P) == {c \in CallType : c.kind \in {"owner", "recall", "discard"} => c.id \in P}

OrderRow == [lines : Basket, customer : OrNone(Customer)]

TxRow == [order : Nat, voided : BOOLEAN, heard : BOOLEAN]

ParkedSale == [lines : Basket, customer : OrNone(Customer),
               gone : {"no", "recalled", "discarded", "elsewhere"}]

(* What each variable holds, without what IInv says of it already.         *)
TInv ==
  /\ page \in Paged(DOMAIN parked)
  /\ calls \in [Slot -> Askable(DOMAIN parked)]
  /\ orders \in Seq(OrderRow) /\ txs \in Seq(TxRow) /\ parked \in Seq(ParkedSale)
  /\ made \in 0 .. MaxCalls

(* With the inductive invariant that is all there is to say.               *)
LEMMA TypesFromParts == TInv /\ IInv => TypeOK
<1>. SUFFICES ASSUME TInv, IInv PROVE TypeOK
  OBVIOUS
<1>1. /\ page.order # None => page.order \in DOMAIN orders
      /\ \A k \in DOMAIN txs : txs[k].order \in DOMAIN orders
  BY DEF IInv, Ordering
<1>2. page.paid # None => page.paid \in DOMAIN orders
  BY <1>1 DEF IInv, PaidIsBooked
<1>3. page \in [basket : Basket, customer : OrNone(Customer), error : BOOLEAN,
                open : SUBSET Dialog, busy : SUBSET (Dialog \X Slot),
                order : OrNone(DOMAIN orders), asked : Basket,
                phase : {"idle", "authorizing", "declined", "error"},
                lastTx : OrNone(Nat), paid : OrNone(DOMAIN orders),
                weigh : OrNone(Weighed), list : SUBSET DOMAIN parked,
                chosen : OrNone(DOMAIN parked), recallable : BOOLEAN,
                seen : [basket : Basket, customer : OrNone(Customer)]]
  <2>1. page.order \in OrNone(DOMAIN orders) /\ page.paid \in OrNone(DOMAIN orders)
    BY <1>1, <1>2 DEF OrNone
  <2>. QED BY <2>1 DEF TInv, Paged
<1>4. txs \in Seq([order : DOMAIN orders, voided : BOOLEAN, heard : BOOLEAN])
  <2>. DEFINE Row == [order : DOMAIN orders, voided : BOOLEAN, heard : BOOLEAN]
  <2>1. Len(txs) \in Nat /\ DOMAIN txs = 1 .. Len(txs) /\ txs \in [1 .. Len(txs) -> TxRow]
    BY LenProperties DEF TInv
  <2>2. \A k \in 1 .. Len(txs) : txs[k] \in Row
    BY <1>1, <2>1 DEF TxRow
  <2>. HIDE DEF Row
  <2>3. txs \in [1 .. Len(txs) -> Row]
    BY <2>1, <2>2
  <2>4. txs \in Seq(Row)
    BY <2>1, <2>3, SeqDef
  <2>. QED BY <2>4 DEF Row
<1>5. calls \in [Slot -> CallType]
  BY DEF TInv, Askable
<1>. QED BY <1>3, <1>4, <1>5 DEF TypeOK, TInv, IInv, Granted, OrderRow, ParkedSale

-----------------------------------------------------------------------------
(* Baskets.                                                                *)

(* Every dialog the code opens is one of the layers.                       *)
LEMMA Dialogs ==
  {"card", "camera", "receipt", "return", "weigh", "cash", "split", "override",
   "customer", "picker", "discard", "void", "storno", "park"} \subseteq Dialog
<1>1. DOMAIN Layers = 1 .. 14
  BY DEF Layers
<1>2. \A k \in 1 .. 14 : Layers[k] \in Dialog
  BY <1>1 DEF Dialog
<1>3. /\ Layers[1] = "card" /\ Layers[2] = "camera" /\ Layers[3] = "receipt"
      /\ Layers[4] = "return" /\ Layers[5] = "weigh" /\ Layers[6] = "cash"
      /\ Layers[7] = "split" /\ Layers[8] = "override" /\ Layers[9] = "customer"
      /\ Layers[10] = "picker" /\ Layers[11] = "discard" /\ Layers[12] = "void"
      /\ Layers[13] = "storno" /\ Layers[14] = "park"
  BY DEF Layers
<1>. HIDE DEF Layers
<1>. QED BY <1>2, <1>3

LEMMA EmptyBasket == <<>> \in Basket
<1>1. <<>> \in Seq(Line) /\ Len(<<>>) = 0
  BY EmptySeq
<1>. QED BY <1>1, TillAssumption DEF Basket

(* A line more, while there is room for one.                               *)
LEMMA LineAdded ==
  ASSUME NEW b \in Basket, Len(b) < MaxLines, NEW i \in Variant
  PROVE  Append(b, [item |-> i, qty |-> 1]) \in Basket
<1>. DEFINE l == [item |-> i, qty |-> 1]
<1>1. l \in Line
  BY TillAssumption DEF Line
<1>2. b \in Seq(Line) /\ Len(b) \in Nat
  BY LenProperties DEF Basket
<1>. HIDE DEF l
<1>3. Append(b, l) \in Seq(Line) /\ Len(Append(b, l)) = Len(b) + 1
  BY <1>1, <1>2, AppendProperties
<1>4. Append(b, l) \in Basket
  BY <1>2, <1>3, TillAssumption DEF Basket
<1>. QED BY <1>4 DEF l

(* An article more, within the bounds.                                     *)
LEMMA AddedIsBasket ==
  ASSUME NEW b \in Basket, NEW i \in Variant, InBounds(Added(b, i))
  PROVE  Added(b, i) \in Basket
<1>1. b \in Seq(Line) /\ Len(b) \in Nat /\ DOMAIN b = 1 .. Len(b)
      /\ b \in [1 .. Len(b) -> Line]
  BY LenProperties DEF Basket
<1>2. Added(b, i) \in Seq(Line)
  <2>1. CASE \E k \in DOMAIN b : b[k].item = i
    <3>. DEFINE a == [k \in 1 .. Len(b) |-> IF b[k].item = i THEN [b[k] EXCEPT !.qty = @ + 1]
                                             ELSE b[k]]
    <3>1. Added(b, i) = a
      BY <1>1, <2>1 DEF Added
    <3>2. \A k \in 1 .. Len(b) : a[k] \in Line
      <4>. SUFFICES ASSUME NEW k \in 1 .. Len(b) PROVE a[k] \in Line
        OBVIOUS
      <4>1. b[k] \in Line
        BY <1>1
      <4>2. DOMAIN a = 1 .. Len(b)
        OBVIOUS
      <4>3. a[k].qty <= MaxQty
        BY <3>1, <4>2 DEF InBounds
      <4>4. CASE b[k].item = i
        <5>1. a[k] = [b[k] EXCEPT !.qty = b[k].qty + 1]
          BY <4>4
        <5>2. b[k].qty + 1 <= MaxQty
          BY <4>1, <4>3, <5>1 DEF Line
        <5>. HIDE DEF a
        <5>. QED BY <4>1, <5>1, <5>2, TillAssumption DEF Line
      <4>5. CASE b[k].item # i
        BY <4>1, <4>5
      <4>. QED BY <4>4, <4>5
    <3>3. a \in [1 .. Len(b) -> Line]
      BY <3>2
    <3>. HIDE DEF a
    <3>. QED BY <1>1, <3>1, <3>3, SeqDef
  <2>2. CASE ~ \E k \in DOMAIN b : b[k].item = i
    <3>. DEFINE l == [item |-> i, qty |-> 1]
    <3>1. l \in Line
      BY TillAssumption DEF Line
    <3>2. Added(b, i) = Append(b, l)
      BY <2>2 DEF Added
    <3>. HIDE DEF l
    <3>. QED BY <1>1, <3>1, <3>2, AppendProperties
  <2>. QED BY <2>1, <2>2
<1>. QED BY <1>2 DEF InBounds, Basket

(* A line less.                                                            *)
LEMMA LineRemoved ==
  ASSUME NEW b \in Basket, NEW k \in DOMAIN b
  PROVE  Without(b, k) \in Basket
<1>1. b \in Seq(Line) /\ Len(b) \in Nat /\ k \in 1 .. Len(b) /\ Len(b) <= MaxLines
  BY LenProperties DEF Basket
<1>. DEFINE l == SubSeq(b, 1, k - 1)
            r == SubSeq(b, k + 1, Len(b))
<1>2. l \in Seq(Line) /\ Len(l) = k - 1
  BY <1>1, SubSeqProperties
<1>3. r \in Seq(Line) /\ Len(r) = Len(b) - k
  BY <1>1, SubSeqProperties
<1>. HIDE DEF l, r
<1>4. l \o r \in Seq(Line) /\ Len(l \o r) = Len(l) + Len(r)
  BY <1>2, <1>3, ConcatProperties
<1>5. l \o r \in Basket
  BY <1>1, <1>2, <1>3, <1>4, TillAssumption DEF Basket
<1>. QED BY <1>5 DEF l, r, Without

(* Another number of pieces in a line.                                     *)
LEMMA LineChanged ==
  ASSUME NEW b \in Basket, NEW k \in DOMAIN b, NEW n \in 1 .. MaxQty
  PROVE  [b EXCEPT ![k].qty = n] \in Basket
<1>1. b \in Seq(Line) /\ Len(b) \in Nat /\ k \in 1 .. Len(b) /\ Len(b) <= MaxLines
      /\ b \in [1 .. Len(b) -> Line]
  BY LenProperties DEF Basket
<1>. DEFINE l == [b[k] EXCEPT !.qty = n]
            a == [b EXCEPT ![k] = l]
<1>2. l \in Line
  BY <1>1 DEF Line
<1>. HIDE DEF l
<1>3. a \in [1 .. Len(b) -> Line]
  BY <1>1, <1>2
<1>. HIDE DEF a
<1>4. a \in Seq(Line) /\ Len(a) = Len(b)
  BY <1>1, <1>3, SeqDef, LenProperties
<1>5. a \in Basket
  BY <1>1, <1>4 DEF Basket
<1>. QED BY <1>5 DEF a, l

-----------------------------------------------------------------------------
(* Pages.                                                                  *)

(* A field of a page takes any value of its type; what a question is about *)
(* is not forgotten while it is asked.                                     *)
LEMMA FieldType ==
  ASSUME NEW P, NEW p \in Paged(P)
  PROVE  /\ \A b \in Basket :
              [p EXCEPT !.basket = b] \in Paged(P) /\ [p EXCEPT !.asked = b] \in Paged(P)
         /\ \A c \in OrNone(Customer) : [p EXCEPT !.customer = c] \in Paged(P)
         /\ \A b \in BOOLEAN :
              [p EXCEPT !.error = b] \in Paged(P) /\ [p EXCEPT !.recallable = b] \in Paged(P)
         /\ \A n \in OrNone(Nat) :
              /\ [p EXCEPT !.order = n] \in Paged(P)
              /\ [p EXCEPT !.lastTx = n] \in Paged(P)
              /\ [p EXCEPT !.paid = n] \in Paged(P)
         /\ \A x \in SUBSET (Dialog \X Slot) : [p EXCEPT !.busy = x] \in Paged(P)
         /\ \A x \in {"idle", "authorizing", "declined", "error"} :
              [p EXCEPT !.phase = x] \in Paged(P)
         /\ \A x \in SUBSET P : [p EXCEPT !.list = x] \in Paged(P)
         /\ \A x \in [basket : Basket, customer : OrNone(Customer)] :
              [p EXCEPT !.seen = x] \in Paged(P)
         /\ \A x \in P : x # None => [p EXCEPT !.chosen = x] \in Paged(P)
         /\ "discard" \notin p.open => [p EXCEPT !.chosen = None] \in Paged(P)
         /\ \A i \in Weighed : i # None => [p EXCEPT !.weigh = i] \in Paged(P)
         /\ "weigh" \notin p.open => [p EXCEPT !.weigh = None] \in Paged(P)
         /\ \A x \in SUBSET Dialog :
              /\ "discard" \in x => p.chosen # None
              /\ "weigh" \in x => p.weigh # None
              => [p EXCEPT !.open = x] \in Paged(P)
<1>1. ASSUME NEW b \in Basket
      PROVE  [p EXCEPT !.basket = b] \in Paged(P) /\ [p EXCEPT !.asked = b] \in Paged(P)
  BY DEF Paged
<1>2. ASSUME NEW c \in OrNone(Customer) PROVE [p EXCEPT !.customer = c] \in Paged(P)
  BY DEF Paged
<1>3. ASSUME NEW b \in BOOLEAN
      PROVE  [p EXCEPT !.error = b] \in Paged(P) /\ [p EXCEPT !.recallable = b] \in Paged(P)
  BY DEF Paged
<1>4. ASSUME NEW n \in OrNone(Nat)
      PROVE  /\ [p EXCEPT !.order = n] \in Paged(P)
             /\ [p EXCEPT !.lastTx = n] \in Paged(P)
             /\ [p EXCEPT !.paid = n] \in Paged(P)
  BY DEF Paged
<1>5. ASSUME NEW x \in SUBSET (Dialog \X Slot) PROVE [p EXCEPT !.busy = x] \in Paged(P)
  BY DEF Paged
<1>6. ASSUME NEW x \in {"idle", "authorizing", "declined", "error"}
      PROVE  [p EXCEPT !.phase = x] \in Paged(P)
  BY DEF Paged
<1>7. ASSUME NEW x \in SUBSET P PROVE [p EXCEPT !.list = x] \in Paged(P)
  BY DEF Paged
<1>8. ASSUME NEW x \in [basket : Basket, customer : OrNone(Customer)]
      PROVE  [p EXCEPT !.seen = x] \in Paged(P)
  BY DEF Paged
<1>9. ASSUME NEW x \in P, x # None PROVE [p EXCEPT !.chosen = x] \in Paged(P)
  BY <1>9 DEF Paged, OrNone
<1>10. ASSUME "discard" \notin p.open PROVE [p EXCEPT !.chosen = None] \in Paged(P)
  BY <1>10 DEF Paged, OrNone
<1>11. ASSUME NEW i \in Weighed, i # None PROVE [p EXCEPT !.weigh = i] \in Paged(P)
  BY <1>11 DEF Paged, OrNone
<1>12. ASSUME "weigh" \notin p.open PROVE [p EXCEPT !.weigh = None] \in Paged(P)
  BY <1>12 DEF Paged, OrNone
<1>13. ASSUME NEW x \in SUBSET Dialog,
              "discard" \in x => p.chosen # None, "weigh" \in x => p.weigh # None
       PROVE  [p EXCEPT !.open = x] \in Paged(P)
  BY <1>13 DEF Paged
<1>. QED
  BY <1>1, <1>2, <1>3, <1>4, <1>5, <1>6, <1>7, <1>8, <1>9, <1>10, <1>11, <1>12, <1>13

(* What the fields of a page hold.                                         *)
LEMMA PageHolds ==
  ASSUME NEW P, NEW p \in Paged(P)
  PROVE  /\ p.basket \in Basket /\ p.asked \in Basket
         /\ p.customer \in OrNone(Customer) /\ p.open \subseteq Dialog
         /\ p.busy \subseteq Dialog \X Slot
         /\ p.order \in OrNone(Nat) /\ p.lastTx \in OrNone(Nat) /\ p.paid \in OrNone(Nat)
         /\ p.phase \in {"idle", "authorizing", "declined", "error"}
         /\ p.weigh \in OrNone(Weighed) /\ p.chosen \in OrNone(P)
         /\ p.list \subseteq P /\ p.recallable \in BOOLEAN
         /\ p.seen \in [basket : Basket, customer : OrNone(Customer)]
         /\ "discard" \in p.open => p.chosen # None
         /\ "weigh" \in p.open => p.weigh # None
  BY DEF Paged

(* The parked sales only get more.                                         *)
LEMMA MoreParked ==
  ASSUME NEW P, NEW Q, P \subseteq Q
  PROVE  Paged(P) \subseteq Paged(Q) /\ Askable(P) \subseteq Askable(Q)
<1>1. ASSUME NEW p \in Paged(P) PROVE p \in Paged(Q)
  BY DEF Paged, OrNone
<1>. QED BY <1>1 DEF Askable

(* Opening a dialog that asks about nothing in particular.                 *)
LEMMA OpenType ==
  ASSUME NEW P, NEW p \in Paged(P), NEW d \in Dialog \ {"discard", "weigh"}
  PROVE  Open(p, d) \in Paged(P)
<1>. DEFINE x == p.open \cup {d}
<1>1. x \in SUBSET Dialog
  BY PageHolds
<1>2. ("discard" \in x => p.chosen # None) /\ ("weigh" \in x => p.weigh # None)
  BY PageHolds
<1>. HIDE DEF x
<1>3. [p EXCEPT !.open = x] \in Paged(P)
  BY <1>1, <1>2, FieldType
<1>. QED BY <1>3 DEF Open, x

(* Closing any dialogs.                                                    *)
LEMMA CloseType ==
  ASSUME NEW P, NEW p \in Paged(P), NEW ds
  PROVE  Close(p, ds) \in Paged(P) /\ Close(p, ds).open = p.open \ Gone(ds)
         /\ Close(p, ds).basket = p.basket
<1>. DEFINE o == p.open \ Gone(ds)
            b == {w \in p.busy : w[1] \notin Gone(ds)}
            f == IF "card" \in Gone(ds) THEN "idle" ELSE p.phase
            l == IF "picker" \in Gone(ds) THEN {} ELSE p.list
            c == IF "discard" \in Gone(ds) THEN None ELSE p.chosen
            p1 == [p EXCEPT !.open = o]
            p2 == [p1 EXCEPT !.busy = b]
            p3 == [p2 EXCEPT !.phase = f]
            p4 == [p3 EXCEPT !.list = l]
            p5 == IF "discard" \in Gone(ds) THEN [p4 EXCEPT !.chosen = None] ELSE p4
<1>1. /\ o \subseteq Dialog /\ o \subseteq p.open /\ b \subseteq Dialog \X Slot
      /\ f \in {"idle", "authorizing", "declined", "error"} /\ l \subseteq P
      /\ "discard" \in Gone(ds) => "discard" \notin o
  BY PageHolds
<1>2. Close(p, ds) = p5 /\ p5.open = o /\ p5.basket = p.basket
  BY DEF Close, Gone, Paged
<1>. HIDE DEF o, b, f, l
<1>3. p1 \in Paged(P) /\ p1.open = o
  <2>1. ("discard" \in o => p.chosen # None) /\ ("weigh" \in o => p.weigh # None)
    BY <1>1, PageHolds
  <2>2. p1 \in Paged(P)
    BY <1>1, <2>1, FieldType
  <2>. QED BY <2>2 DEF Paged
<1>. HIDE DEF p1
<1>4. p2 \in Paged(P) /\ p2.open = o
  <2>1. p2 \in Paged(P)
    BY <1>1, <1>3, FieldType
  <2>. QED BY <1>3, <2>1 DEF Paged
<1>. HIDE DEF p2
<1>5. p3 \in Paged(P) /\ p3.open = o
  <2>1. p3 \in Paged(P)
    BY <1>1, <1>4, FieldType
  <2>. QED BY <1>4, <2>1 DEF Paged
<1>. HIDE DEF p3
<1>6. p4 \in Paged(P) /\ p4.open = o
  <2>1. p4 \in Paged(P)
    BY <1>1, <1>5, FieldType
  <2>. QED BY <1>5, <2>1 DEF Paged
<1>. HIDE DEF p4
<1>7. p5 \in Paged(P)
  BY <1>1, <1>6, FieldType
<1>. HIDE DEF p5
<1>. QED BY <1>2, <1>7 DEF o

(* Waiting for a call that is made, and for one that came back no longer.  *)
LEMMA BusyType ==
  ASSUME NEW P, NEW p \in Paged(P)
  PROVE  /\ \A s : Settled(p, s) \in Paged(P)
         /\ \A d \in Dialog : FreeSlot \in Slot => Wait(p, d) \in Paged(P)
<1>1. p.busy \subseteq Dialog \X Slot
  BY PageHolds
<1>2. ASSUME NEW s PROVE Settled(p, s) \in Paged(P)
  <2>1. {w \in p.busy : w[2] # s} \in SUBSET (Dialog \X Slot)
    BY <1>1
  <2>. QED BY <2>1, FieldType DEF Settled
<1>3. ASSUME NEW d \in Dialog, FreeSlot \in Slot PROVE Wait(p, d) \in Paged(P)
  <2>1. p.busy \cup {<<d, FreeSlot>>} \in SUBSET (Dialog \X Slot)
    BY <1>1, <1>3
  <2>. QED BY <2>1, FieldType DEF Wait
<1>. QED BY <1>2, <1>3

(* What is rendered is a page.                                             *)
LEMMA ShownType ==
  ASSUME NEW P, page \in Paged(P), NEW p \in Paged(P), Show(p)
  PROVE  page' \in Paged(P)
<1>. DEFINE x == IF Dependencies(p) = Dependencies(page) THEN page.seen
                 ELSE [basket |-> p.basket, customer |-> p.customer]
<1>1. x \in [basket : Basket, customer : OrNone(Customer)]
  BY PageHolds
<1>2. page' = [p EXCEPT !.seen = x]
  BY DEF Show
<1>. HIDE DEF x
<1>. QED BY <1>1, <1>2, FieldType

(* An article is put into the sale, or its weight is asked for.            *)
LEMMA AddToSaleType ==
  ASSUME NEW P, NEW p \in Paged(P), NEW i \in Variant, NEW x,
         i \in Weighed \/ InBounds(Added(p.basket, i))
  PROVE  AddToSale(p, i, x) \in Paged(P)
<1>. DEFINE n == IF x # None THEN None ELSE p.paid
            q == [p EXCEPT !.paid = n]
<1>1. n \in OrNone(Nat)
  BY PageHolds DEF OrNone
<1>2. q \in Paged(P) /\ q.basket = p.basket
  <2>1. q \in Paged(P)
    BY <1>1, FieldType
  <2>. QED BY <2>1 DEF Paged
<1>3. AddToSale(p, i, x) = IF i \in Weighed THEN [Open(q, "weigh") EXCEPT !.weigh = i]
                           ELSE [q EXCEPT !.basket = Added(q.basket, i)]
  BY DEF AddToSale, Paged
<1>. HIDE DEF q
<1>4. CASE i \in Weighed
  <2>1. i # None
    BY <1>4, TillAssumption DEF Variant
  <2>2. [q EXCEPT !.weigh = i] \in Paged(P)
    BY <1>2, <1>4, <2>1, FieldType
  <2>3. Open([q EXCEPT !.weigh = i], "weigh") \in Paged(P)
    <3>. DEFINE r == [q EXCEPT !.weigh = i]
    <3>1. r \in Paged(P) /\ r.weigh # None
      BY <1>2, <2>1, <2>2 DEF Paged
    <3>. HIDE DEF r
    <3>2. r.open \cup {"weigh"} \subseteq Dialog
      BY <3>1, PageHolds, Dialogs
    <3>3. [r EXCEPT !.open = r.open \cup {"weigh"}] \in Paged(P)
      BY <3>1, <3>2, FieldType, PageHolds
    <3>. QED BY <3>3 DEF Open, r
  <2>4. [Open(q, "weigh") EXCEPT !.weigh = i] = Open([q EXCEPT !.weigh = i], "weigh")
    BY <1>2 DEF Open, Paged
  <2>. QED BY <1>3, <1>4, <2>3, <2>4
<1>5. CASE i \notin Weighed
  <2>1. Added(q.basket, i) \in Basket
    BY <1>2, <1>5, AddedIsBasket, PageHolds
  <2>2. [q EXCEPT !.basket = Added(q.basket, i)] \in Paged(P)
    BY <1>2, <2>1, FieldType
  <2>. QED BY <1>3, <1>5, <2>2, Zenon
<1>. QED BY <1>4, <1>5

-----------------------------------------------------------------------------
(* Calls, and the steps that make and answer them.                         *)

(* The calls the handlers make.                                            *)
LEMMA CallsMade ==
  ASSUME NEW P, P \subseteq Nat
  PROVE  /\ NoCall \in Askable(P)
         /\ \A i \in Variant : \A x \in OrNone(Nat) :
              [kind |-> "lookup", item |-> i, paid |-> x] \in Askable(P)
         /\ \A by \in {"button", "F8"} : \A m \in PayMethod : \A b, d \in Basket :
              \A c, e \in OrNone(Customer) :
                [kind |-> "order", by |-> by, method |-> m, lines |-> b, customer |-> c,
                 shown |-> [basket |-> d, customer |-> e]] \in Askable(P)
         /\ \A m \in PayMethod : \A n \in Nat : \A b \in Basket :
              PayCall(m, n, b) \in Askable(P)
         /\ \A c \in Customer : [kind |-> "customer", customer |-> c] \in Askable(P)
         /\ \A b \in Basket : \A c \in OrNone(Customer) :
              [kind |-> "park", lines |-> b, customer |-> c] \in Askable(P)
         /\ \A k \in {"owner", "recall", "discard"} : \A n \in P :
              [kind |-> k, id |-> n] \in Askable(P)
         /\ \A x \in OrNone(Nat) : [kind |-> "override", tx |-> x] \in Askable(P)
         /\ \A n \in Nat : [kind |-> "storno", tx |-> n] \in Askable(P)
<1>1. NoCall \in Askable(P)
  BY DEF Askable, CallType, NoCall
<1>2. ASSUME NEW i \in Variant, NEW x \in OrNone(Nat)
      PROVE  [kind |-> "lookup", item |-> i, paid |-> x] \in Askable(P)
  BY DEF Askable, CallType
<1>3. ASSUME NEW by \in {"button", "F8"}, NEW m \in PayMethod, NEW b \in Basket,
             NEW d \in Basket, NEW c \in OrNone(Customer), NEW e \in OrNone(Customer)
      PROVE  [kind |-> "order", by |-> by, method |-> m, lines |-> b, customer |-> c,
              shown |-> [basket |-> d, customer |-> e]] \in Askable(P)
  BY DEF Askable, CallType
<1>4. ASSUME NEW m \in PayMethod, NEW n \in Nat, NEW b \in Basket
      PROVE  PayCall(m, n, b) \in Askable(P)
  BY DEF Askable, CallType, PayCall
<1>5. ASSUME NEW c \in Customer
      PROVE  [kind |-> "customer", customer |-> c] \in Askable(P)
  BY DEF Askable, CallType
<1>6. ASSUME NEW b \in Basket, NEW c \in OrNone(Customer)
      PROVE  [kind |-> "park", lines |-> b, customer |-> c] \in Askable(P)
  BY DEF Askable, CallType
<1>7. ASSUME NEW k \in {"owner", "recall", "discard"}, NEW n \in P
      PROVE  [kind |-> k, id |-> n] \in Askable(P)
  BY DEF Askable, CallType
<1>8. ASSUME NEW x \in OrNone(Nat) PROVE [kind |-> "override", tx |-> x] \in Askable(P)
  BY DEF Askable, CallType
<1>9. ASSUME NEW n \in Nat PROVE [kind |-> "storno", tx |-> n] \in Askable(P)
  BY DEF Askable, CallType
<1>. QED BY <1>1, <1>2, <1>3, <1>4, <1>5, <1>6, <1>7, <1>8, <1>9

(* What a call carries, by its kind.                                       *)
LEMMA CallKinds ==
  ASSUME NEW P, NEW c \in Askable(P)
  PROVE  /\ c.kind = "lookup" => c.item \in Variant
         /\ c.kind = "order" =>
              c.method \in PayMethod /\ c.lines \in Basket /\ c.customer \in OrNone(Customer)
         /\ c.kind = "pay" => c.order \in Nat
         /\ c.kind = "customer" => c.customer \in Customer
         /\ c.kind = "park" => c.lines \in Basket /\ c.customer \in OrNone(Customer)
         /\ c.kind \in {"owner", "recall", "discard"} => c.id \in P
         /\ c.kind = "override" => c.tx \in OrNone(Nat)
  BY DEF Askable, CallType, NoCall

LEMMA ParkedDomain ==
  ASSUME TInv
  PROVE  /\ DOMAIN parked \subseteq Nat
         /\ \A k \in DOMAIN parked : parked[k] \in ParkedSale
<1>1. DOMAIN parked = 1 .. Len(parked) /\ parked \in [1 .. Len(parked) -> ParkedSale]
  BY LenProperties DEF TInv
<1>. QED BY <1>1

(* A call that came back, and one that goes on as another.                 *)
LEMMA ReturnType ==
  ASSUME TInv, NEW s \in Slot
  PROVE  /\ Return(s) => calls' \in [Slot -> Askable(DOMAIN parked)]
         /\ \A c \in Askable(DOMAIN parked) :
              calls' = [calls EXCEPT ![s] = c] => calls' \in [Slot -> Askable(DOMAIN parked)]
  BY ParkedDomain, CallsMade DEF Return, TInv

(* A click.                                                                *)
LEMMA ClickTypes ==
  ASSUME TInv, NEW p \in Paged(DOMAIN parked), Show(p), UNCHANGED <<calls, backend, made>>
  PROVE  TInv'
<1>1. page' \in Paged(DOMAIN parked)
  BY ShownType DEF TInv
<1>. QED BY <1>1 DEF TInv, backend

(* A call is made.                                                         *)
LEMMA CallTypes ==
  ASSUME TInv, NEW p \in Paged(DOMAIN parked), Show(p), UNCHANGED backend,
         NEW c \in Askable(DOMAIN parked), Call(c)
  PROVE  TInv'
<1>1. page' \in Paged(DOMAIN parked)
  BY ShownType DEF TInv
<1>2. FreeSlot \in Slot
  BY DEF Call, FreeSlot
<1>3. calls' \in [Slot -> Askable(DOMAIN parked)]
  BY <1>2 DEF Call, TInv
<1>4. made' \in 0 .. MaxCalls
  BY TillAssumption DEF Call, TInv
<1>. QED BY <1>1, <1>3, <1>4 DEF TInv, backend

(* A call is answered, and nothing is stored.                              *)
LEMMA AnswerTypes ==
  ASSUME TInv, page' \in Paged(DOMAIN parked), UNCHANGED <<backend, made>>,
         calls' \in [Slot -> Askable(DOMAIN parked)]
  PROVE  TInv'
  BY DEF TInv, backend

(* A call is answered, and something is stored.                            *)
LEMMA StoreTypes ==
  ASSUME TInv, page' \in Paged(DOMAIN parked), UNCHANGED made,
         calls' \in [Slot -> Askable(DOMAIN parked)],
         \/ UNCHANGED orders
         \/ \E r \in OrderRow : orders' = Append(orders, r),
         \/ UNCHANGED txs
         \/ \E r \in TxRow : txs' = Append(txs, r)
         \/ \E k \in DOMAIN txs : Void(k),
         \/ UNCHANGED parked
         \/ \E r \in ParkedSale : parked' = Append(parked, r)
         \/ \E k \in DOMAIN parked :
              \E how \in {"recalled", "discarded", "elsewhere"} : Remove(k, how)
  PROVE  TInv'
<1>1. orders' \in Seq(OrderRow)
  <2>1. ASSUME NEW r \in OrderRow, orders' = Append(orders, r)
        PROVE  orders' \in Seq(OrderRow)
    <3>1. orders \in Seq(OrderRow)
      BY DEF TInv
    <3>. QED BY <2>1, <3>1, AppendProperties
  <2>. QED BY <2>1 DEF TInv
<1>2. txs' \in Seq(TxRow)
  <2>1. ASSUME NEW k \in DOMAIN txs, Void(k) PROVE txs' \in Seq(TxRow)
    <3>. DEFINE r == [txs[k] EXCEPT !.voided = TRUE]
    <3>1. k \in 1 .. Len(txs) /\ txs[k] \in TxRow
      BY LenProperties DEF TInv
    <3>2. r \in TxRow /\ txs' = [txs EXCEPT ![k] = r]
      BY <2>1, <3>1 DEF Void, TxRow
    <3>. HIDE DEF r
    <3>. QED BY <3>1, <3>2, ExceptSeq DEF TInv
  <2>2. ASSUME NEW r \in TxRow, txs' = Append(txs, r) PROVE txs' \in Seq(TxRow)
    <3>1. txs \in Seq(TxRow)
      BY DEF TInv
    <3>. QED BY <2>2, <3>1, AppendProperties
  <2>. QED BY <2>1, <2>2 DEF TInv
<1>3. parked' \in Seq(ParkedSale) /\ DOMAIN parked \subseteq DOMAIN parked'
  <2>1. CASE UNCHANGED parked
    BY <2>1 DEF TInv
  <2>2. ASSUME NEW r \in ParkedSale, parked' = Append(parked, r)
        PROVE  parked' \in Seq(ParkedSale) /\ DOMAIN parked \subseteq DOMAIN parked'
    <3>1. IsSeq(parked) /\ parked' \in Seq(ParkedSale)
      BY <2>2, AppendProperties DEF TInv, IsSeq
    <3>. QED BY <2>2, <3>1, AppendGrows
  <2>3. ASSUME NEW k \in DOMAIN parked, NEW how \in {"recalled", "discarded", "elsewhere"},
               Remove(k, how)
        PROVE  parked' \in Seq(ParkedSale) /\ DOMAIN parked \subseteq DOMAIN parked'
    <3>. DEFINE r == [parked[k] EXCEPT !.gone = how]
    <3>1. k \in 1 .. Len(parked) /\ parked[k] \in ParkedSale
      BY ParkedDomain, LenProperties DEF TInv
    <3>2. r \in ParkedSale /\ parked' = [parked EXCEPT ![k] = r]
      BY <2>3, <3>1 DEF Remove, ParkedSale
    <3>. HIDE DEF r
    <3>3. parked' \in Seq(ParkedSale)
      BY <3>1, <3>2, ExceptSeq DEF TInv
    <3>. QED BY <3>2, <3>3
  <2>. QED BY <2>1, <2>2, <2>3
<1>4. /\ page' \in Paged(DOMAIN parked') /\ calls' \in [Slot -> Askable(DOMAIN parked')]
  BY <1>3, MoreParked
<1>. QED BY <1>1, <1>2, <1>3, <1>4 DEF TInv

-----------------------------------------------------------------------------
(* Each event keeps the types.                                             *)

(* Fields that change together.                                            *)
LEMMA FieldsType ==
  ASSUME NEW P, NEW p \in Paged(P), NEW b \in Basket
  PROVE  /\ \A c \in OrNone(Customer) : [p EXCEPT !.basket = b, !.customer = c] \in Paged(P)
         /\ \A n \in OrNone(Nat) : [p EXCEPT !.order = n, !.asked = b] \in Paged(P)
         /\ \A m, n \in OrNone(Nat) : [p EXCEPT !.lastTx = m, !.paid = n] \in Paged(P)
<1>1. ASSUME NEW c \in OrNone(Customer)
      PROVE  [p EXCEPT !.basket = b, !.customer = c] \in Paged(P)
  <2>1. [p EXCEPT !.basket = b] \in Paged(P)
    BY FieldType
  <2>. QED BY <2>1, FieldType
<1>2. ASSUME NEW n \in OrNone(Nat)
      PROVE  [p EXCEPT !.order = n, !.asked = b] \in Paged(P)
  <2>1. [p EXCEPT !.order = n] \in Paged(P)
    BY FieldType
  <2>. QED BY <2>1, FieldType
<1>3. ASSUME NEW m \in OrNone(Nat), NEW n \in OrNone(Nat)
      PROVE  [p EXCEPT !.lastTx = m, !.paid = n] \in Paged(P)
  <2>1. [p EXCEPT !.lastTx = m] \in Paged(P)
    BY FieldType
  <2>. QED BY <2>1, FieldType
<1>. QED BY <1>1, <1>2, <1>3

(* What is put into the basket and taken out of it.                        *)
LEMMA BasketTypes ==
  ASSUME TInv
  PROVE  /\ \A i \in Variant : AddFound(i) => TInv'
         /\ \A k : RemoveItemAt(k) => TInv'
         /\ \A k : \A n \in 0 .. MaxQty : UpdateQty(k, n) => TInv'
         /\ ConfirmWeight \/ CancelWeight \/ DoVoidSale \/ RemoveCustomer => TInv'
<1>. DEFINE P == DOMAIN parked
<1>0. page \in Paged(P) /\ None \in OrNone(Customer) /\ None \in OrNone(Nat)
  BY DEF TInv, OrNone
<1>. HIDE DEF P
<1>1. ASSUME NEW p \in Paged(P), Show(p), UNCHANGED <<calls, backend, made>> PROVE TInv'
  BY <1>1, ClickTypes DEF P
<1>2. ASSUME NEW i \in Variant, AddFound(i) PROVE TInv'
  <2>1. AddToSale(page, i, page.paid) \in Paged(P)
    BY <1>0, <1>2, AddToSaleType DEF AddFound
  <2>. QED BY <1>1, <1>2, <2>1 DEF AddFound
<1>3. ASSUME NEW k, RemoveItemAt(k) PROVE TInv'
  <2>1. Without(page.basket, k) \in Basket
    BY <1>0, <1>3, LineRemoved, PageHolds DEF RemoveItemAt
  <2>2. [page EXCEPT !.basket = Without(page.basket, k)] \in Paged(P)
    BY <1>0, <2>1, FieldType
  <2>. QED BY <1>1, <1>3, <2>2 DEF RemoveItemAt
<1>4. ASSUME NEW k, NEW n \in 0 .. MaxQty, UpdateQty(k, n) PROVE TInv'
  <2>. DEFINE b == IF n = 0 THEN Without(page.basket, k)
                   ELSE [page.basket EXCEPT ![k].qty = n]
  <2>1. b \in Basket
    <3>1. page.basket \in Basket /\ k \in DOMAIN page.basket
      BY <1>0, <1>4, PageHolds DEF UpdateQty
    <3>2. n # 0 => n \in 1 .. MaxQty
      BY TillAssumption
    <3>. QED BY <3>1, <3>2, LineRemoved, LineChanged
  <2>2. Show([page EXCEPT !.basket = b]) /\ UNCHANGED <<calls, backend, made>>
    BY <1>4, Zenon DEF UpdateQty
  <2>. HIDE DEF b
  <2>. QED BY <1>0, <1>1, <2>1, <2>2, FieldType
<1>. DEFINE q == Close(page, {"weigh"})
            r == Close(page, {"void"})
<1>5. q \in Paged(P) /\ "weigh" \notin q.open /\ q.basket = page.basket /\ r \in Paged(P)
  BY <1>0, CloseType DEF Gone
<1>6. CASE ConfirmWeight
  <2>. DEFINE b == Append(page.basket, [item |-> page.weigh, qty |-> 1])
              q1 == [q EXCEPT !.basket = b]
              q2 == [q1 EXCEPT !.paid = None]
              q3 == [q2 EXCEPT !.weigh = None]
  <2>1. page.weigh \in Variant /\ Len(page.basket) < MaxLines
    BY <1>0, <1>6, TopIsOpen, PageHolds DEF ConfirmWeight, Variant, OrNone
  <2>2. b \in Basket
    BY <1>0, <2>1, LineAdded, PageHolds
  <2>3. Show(q3) /\ UNCHANGED <<calls, backend, made>>
    BY <1>5, <1>6 DEF ConfirmWeight
  <2>. HIDE DEF b, q
  <2>4. q1 \in Paged(P) /\ q1.open = q.open
    <3>1. q1 \in Paged(P)
      BY <1>5, <2>2, FieldType
    <3>. QED BY <1>5, <3>1 DEF Paged
  <2>. HIDE DEF q1
  <2>5. q2 \in Paged(P) /\ q2.open = q.open
    <3>1. q2 \in Paged(P)
      BY <1>0, <2>4, FieldType
    <3>. QED BY <2>4, <3>1 DEF Paged
  <2>. HIDE DEF q2
  <2>6. q3 \in Paged(P)
    BY <1>5, <2>5, FieldType
  <2>. HIDE DEF q3
  <2>. QED BY <1>1, <2>3, <2>6
<1>7. CASE CancelWeight
  <2>1. [q EXCEPT !.weigh = None] \in Paged(P)
    BY <1>5, FieldType
  <2>. QED BY <1>1, <1>7, <2>1 DEF CancelWeight
<1>8. CASE DoVoidSale
  <2>1. [r EXCEPT !.basket = <<>>, !.customer = None] \in Paged(P)
    BY <1>0, <1>5, FieldsType, EmptyBasket
  <2>. QED BY <1>1, <1>8, <2>1 DEF DoVoidSale
<1>9. CASE RemoveCustomer
  <2>1. [page EXCEPT !.customer = None] \in Paged(P)
    BY <1>0, FieldType
  <2>. QED BY <1>1, <1>9, <2>1 DEF RemoveCustomer
<1>. QED BY <1>2, <1>3, <1>4, <1>6, <1>7, <1>8, <1>9

(* Dialogs that are opened and closed.                                     *)
LEMMA DialogTypes ==
  ASSUME TInv
  PROVE  /\ \A d \in Dialog \ {"discard", "weigh"} : OpenDialog(d) => TInv'
         /\ \A d : CloseDialog(d) => TInv'
         /\ \A m : CancelPay(m) => TInv'
         /\ \A k : AskDiscard(k) => TInv'
         /\ PressEscape \/ ConfirmStorno => TInv'
<1>. DEFINE P == DOMAIN parked
<1>0. page \in Paged(P) /\ None \in OrNone(Nat) /\ P \subseteq Nat
  BY ParkedDomain DEF TInv, OrNone
<1>1. ASSUME NEW p \in Paged(P), Show(p), UNCHANGED <<calls, backend, made>> PROVE TInv'
  BY <1>1, ClickTypes
<1>2. ASSUME NEW d \in Dialog \ {"discard", "weigh"}, OpenDialog(d) PROVE TInv'
  <2>. DEFINE q == Open(page, d)
              l == IF d = "picker" THEN Visible ELSE q.list
  <2>1. q \in Paged(P)
    BY <1>0, OpenType
  <2>2. l \in SUBSET P
    BY <2>1, PageHolds DEF Visible
  <2>3. Show([q EXCEPT !.list = l]) /\ UNCHANGED <<calls, backend, made>>
    BY <1>2 DEF OpenDialog
  <2>. HIDE DEF q, l, P
  <2>. QED BY <1>1, <2>1, <2>2, <2>3, FieldType
<1>. HIDE DEF P
<1>3. ASSUME NEW d, CloseDialog(d) PROVE TInv'
  BY <1>0, <1>1, <1>3, CloseType DEF CloseDialog
<1>4. ASSUME NEW m, CancelPay(m) PROVE TInv'
  <2>1. Close(page, PayMethod) \in Paged(P)
    BY <1>0, CloseType
  <2>2. [Close(page, PayMethod) EXCEPT !.order = None, !.asked = <<>>] \in Paged(P)
    BY <1>0, <2>1, FieldsType, EmptyBasket
  <2>. QED BY <1>1, <1>4, <2>2 DEF CancelPay
<1>5. ASSUME NEW k, AskDiscard(k) PROVE TInv'
  <2>. DEFINE q == [page EXCEPT !.chosen = k]
              o == page.open \cup {"discard"}
  <2>1. k \in P /\ k # None
    BY <1>0, <1>5, PageHolds, TillAssumption DEF AskDiscard
  <2>2. q \in Paged(P)
    BY <1>0, <2>1, FieldType
  <2>3. o \in SUBSET Dialog
    BY <1>0, PageHolds, Dialogs
  <2>4. q.chosen = k /\ q.weigh = page.weigh
    BY <1>0 DEF Paged
  <2>5. [q EXCEPT !.open = o] \in Paged(P)
    BY <1>0, <2>1, <2>2, <2>3, <2>4, FieldType, PageHolds
  <2>6. [Open(page, "discard") EXCEPT !.chosen = k] = [q EXCEPT !.open = o]
    BY <1>0 DEF Open, Paged
  <2>. QED BY <1>1, <1>5, <2>5, <2>6 DEF AskDiscard
<1>6. CASE ConfirmStorno
  <2>1. Open(Close(page, {"storno"}), "override") \in Paged(P)
    BY <1>0, CloseType, OpenType, Dialogs
  <2>. QED BY <1>1, <1>6, <2>1 DEF ConfirmStorno
<1>7. CASE PressEscape
  <2>. DEFINE shell == {d \in page.open \cap {"split", "override", "customer"} : ~Busy(page, d)}
                       \cup {IF "discard" \in page.open THEN "discard" ELSE "picker"}
              q == IF "split" \notin shell THEN Close(page, shell)
                   ELSE [Close(page, shell) EXCEPT !.order = None, !.asked = <<>>]
  <2>1. q \in Paged(P)
    <3>. HIDE DEF shell
    <3>1. Close(page, shell) \in Paged(P)
      BY <1>0, CloseType
    <3>2. [Close(page, shell) EXCEPT !.order = None, !.asked = <<>>] \in Paged(P)
      BY <1>0, <3>1, FieldsType, EmptyBasket
    <3>. QED BY <3>1, <3>2
  <2>2. /\ \/ Show([Close(q, {"weigh"}) EXCEPT !.weigh = None])
           \/ Show(Close(q, {"receipt"}))
           \/ Show([q EXCEPT !.error = FALSE])
           \/ Show(Close(q, {"return"}))
        /\ UNCHANGED <<calls, backend, made>>
    <3>1. \/ "weigh" \in page.open
          \/ "weigh" \notin page.open /\ "receipt" \in page.open
          \/ page.open \cap {"weigh", "receipt"} = {} /\ page.error
          \/ ~("weigh" \in page.open) /\ ~("weigh" \notin page.open /\ "receipt" \in page.open)
               /\ ~(page.open \cap {"weigh", "receipt"} = {} /\ page.error)
      OBVIOUS
    <3>. HIDE DEF q
    <3>. QED BY <1>7, <3>1 DEF PressEscape, q
  <2>. HIDE DEF q
  <2>3. Close(q, {"weigh"}) \in Paged(P) /\ "weigh" \notin Close(q, {"weigh"}).open
    BY <2>1, CloseType DEF Gone
  <2>4. /\ [Close(q, {"weigh"}) EXCEPT !.weigh = None] \in Paged(P)
        /\ Close(q, {"receipt"}) \in Paged(P) /\ Close(q, {"return"}) \in Paged(P)
        /\ [q EXCEPT !.error = FALSE] \in Paged(P)
    BY <2>1, <2>3, CloseType, FieldType
  <2>. QED BY <1>1, <2>2, <2>4
<1>. QED BY <1>2, <1>3, <1>4, <1>5, <1>6, <1>7

(* Calls that are made.                                                    *)
LEMMA AskTypes ==
  ASSUME TInv, IInv
  PROVE  /\ \A i \in Variant : AddByBarcode(i) => TInv'
         /\ \A m \in PayMethod : PressPay(m) \/ ConfirmPay(m) => TInv'
         /\ \A c \in Customer : AskCustomer(c) => TInv'
         /\ \A k : RecallSale(k) => TInv'
         /\ PressF8 \/ ParkSale \/ Discard \/ Authorize => TInv'
<1>. DEFINE P == DOMAIN parked
<1>0. page \in Paged(P) /\ P \subseteq Nat /\ \A k \in P : parked[k] \in ParkedSale
  BY ParkedDomain DEF TInv
<1>. HIDE DEF P
<1>1. ASSUME NEW p \in Paged(P), Show(p), UNCHANGED backend, NEW c \in Askable(P), Call(c)
      PROVE  TInv'
  BY <1>1, CallTypes DEF P
<1>2. ASSUME NEW c, Call(c), NEW d \in Dialog PROVE Wait(page, d) \in Paged(P)
  BY <1>0, <1>2, BusyType DEF Call, FreeSlot
<1>3. /\ page.basket \in Basket /\ page.asked \in Basket /\ page.customer \in OrNone(Customer)
      /\ page.paid \in OrNone(Nat) /\ page.lastTx \in OrNone(Nat)
      /\ page.seen.basket \in Basket /\ page.seen.customer \in OrNone(Customer)
  BY <1>0, PageHolds
<1>4. ASSUME NEW i \in Variant, AddByBarcode(i) PROVE TInv'
  <2>. DEFINE c == [kind |-> "lookup", item |-> i, paid |-> page.paid]
              q == Close(page, {"camera"})
  <2>1. c \in Askable(P)
    BY <1>0, <1>3, CallsMade
  <2>2. q \in Paged(P)
    BY <1>0, CloseType
  <2>3. Show([q EXCEPT !.error = FALSE]) /\ Call(c) /\ UNCHANGED backend
    BY <1>4 DEF AddByBarcode
  <2>. HIDE DEF c, q
  <2>. QED BY <1>1, <2>1, <2>2, <2>3, FieldType
<1>5. ASSUME NEW by \in {"button", "F8"}, NEW m \in PayMethod, NEW sale,
             sale.basket \in Basket, sale.customer \in OrNone(Customer),
             CreateOrder(by, m, sale)
      PROVE  TInv'
  <2>. DEFINE c == [kind |-> "order", by |-> by, method |-> m,
                    lines |-> sale.basket, customer |-> sale.customer,
                    shown |-> [basket |-> page.basket, customer |-> page.customer]]
  <2>1. c \in Askable(P)
    BY <1>0, <1>3, <1>5, CallsMade
  <2>2. Show([page EXCEPT !.error = FALSE]) /\ Call(c) /\ UNCHANGED backend
    BY <1>5 DEF CreateOrder
  <2>. HIDE DEF c
  <2>. QED BY <1>0, <1>1, <2>1, <2>2, FieldType
<1>6. ASSUME NEW m \in PayMethod, PressPay(m) PROVE TInv'
  BY <1>3, <1>5, <1>6 DEF PressPay
<1>7. CASE PressF8
  BY <1>3, <1>5, <1>7 DEF PressF8, PayMethod
<1>8. ASSUME NEW m \in PayMethod, ConfirmPay(m) PROVE TInv'
  <2>. DEFINE c == PayCall(m, page.order, page.asked)
              q == Wait(page, m)
              f == IF m = "card" THEN "authorizing" ELSE q.phase
  <2>1. m \in Dialog /\ m # "page"
    BY Dialogs DEF PayMethod
  <2>2. page.order \in Nat
    <3>1. m \in page.open
      BY <1>8, <2>1, TopIsOpen DEF ConfirmPay
    <3>2. page.order # None
      BY <3>1 DEF IInv, Paying
    <3>. QED BY <1>0, <3>2, PageHolds DEF OrNone
  <2>3. c \in Askable(P)
    BY <1>0, <1>3, <2>2, CallsMade
  <2>4. Call(c) /\ UNCHANGED backend /\ Show([q EXCEPT !.phase = f])
    BY <1>8 DEF ConfirmPay
  <2>5. q \in Paged(P)
    BY <1>2, <2>1, <2>4
  <2>6. f \in {"idle", "authorizing", "declined", "error"}
    BY <2>5, PageHolds
  <2>. HIDE DEF c, q, f
  <2>. QED BY <1>1, <2>3, <2>4, <2>5, <2>6, FieldType
<1>9. ASSUME NEW c \in Customer, AskCustomer(c) PROVE TInv'
  <2>1. [kind |-> "customer", customer |-> c] \in Askable(P)
    BY <1>0, CallsMade
  <2>2. Wait(page, "customer") \in Paged(P)
    BY <1>2, <1>9, Dialogs DEF AskCustomer
  <2>. QED BY <1>1, <1>9, <2>1, <2>2 DEF AskCustomer
<1>10. ASSUME NEW k, RecallSale(k) PROVE TInv'
  <2>. DEFINE kind == IF parked[k].customer # None THEN "owner" ELSE "recall"
              c == [kind |-> kind, id |-> k]
  <2>1. k \in P
    BY <1>0, <1>10, PageHolds DEF RecallSale
  <2>2. parked[k].lines \in Basket
    BY <1>0, <2>1 DEF ParkedSale
  <2>3. kind \in {"owner", "recall", "discard"}
    OBVIOUS
  <2>4. Call(c) /\ Show([page EXCEPT !.basket = parked[k].lines]) /\ UNCHANGED backend
    BY <1>10 DEF RecallSale
  <2>. HIDE DEF kind
  <2>5. c \in Askable(P)
    BY <1>0, <2>1, <2>3, CallsMade
  <2>. HIDE DEF c
  <2>. QED BY <1>0, <1>1, <2>2, <2>4, <2>5, FieldType
<1>11. CASE ParkSale
  <2>1. [kind |-> "park", lines |-> page.basket, customer |-> page.customer] \in Askable(P)
    BY <1>0, <1>3, CallsMade
  <2>2. Wait(page, "park") \in Paged(P)
    BY <1>2, <1>11, Dialogs DEF ParkSale
  <2>. QED BY <1>1, <1>11, <2>1, <2>2 DEF ParkSale
<1>12. CASE Discard
  <2>1. page.chosen \in P
    BY <1>0, <1>12, TopIsOpen, PageHolds DEF Discard, OrNone
  <2>2. [kind |-> "discard", id |-> page.chosen] \in Askable(P)
    BY <1>0, <2>1, CallsMade
  <2>3. Wait(page, "picker") \in Paged(P)
    BY <1>2, <1>12, Dialogs DEF Discard
  <2>. QED BY <1>1, <1>12, <2>2, <2>3 DEF Discard
<1>13. CASE Authorize
  <2>1. [kind |-> "override", tx |-> page.lastTx] \in Askable(P)
    BY <1>0, <1>3, CallsMade
  <2>2. Wait(page, "override") \in Paged(P)
    BY <1>2, <1>13, Dialogs DEF Authorize
  <2>. QED BY <1>1, <1>13, <2>1, <2>2 DEF Authorize
<1>. QED BY <1>4, <1>6, <1>7, <1>8, <1>9, <1>10, <1>11, <1>12, <1>13

(* Answers about the sale, its customer and the parked sales.              *)
LEMMA SaleAnswerTypes ==
  ASSUME TInv, NEW s \in Slot,
         \/ AnswerLookup(s) \/ AnswerCustomer(s) \/ AnswerPark(s) \/ AnswerOwner(s)
         \/ AnswerRecall(s) \/ AnswerDiscard(s)
  PROVE  TInv'
<1>. DEFINE P == DOMAIN parked
<1>0. /\ page \in Paged(P) /\ P \subseteq Nat /\ \A k \in P : parked[k] \in ParkedSale
      /\ calls[s] \in Askable(P) /\ None \in OrNone(Customer)
  BY ParkedDomain DEF TInv, OrNone
<1>1. Return(s) => calls' \in [Slot -> Askable(P)]
  BY ReturnType
<1>2. ASSUME page' \in Paged(P), calls' \in [Slot -> Askable(P)], UNCHANGED <<backend, made>>
      PROVE  TInv'
  BY <1>2, AnswerTypes
<1>3. ASSUME page' \in Paged(P), calls' \in [Slot -> Askable(P)],
             UNCHANGED <<orders, txs, made>>,
             \/ UNCHANGED parked
             \/ \E r \in ParkedSale : parked' = Append(parked, r)
             \/ \E k \in P : \E how \in {"recalled", "discarded", "elsewhere"} :
                  Remove(k, how)
      PROVE  TInv'
  BY <1>3, StoreTypes
<1>4. \A k : Remains(k) \in SUBSET P
  BY DEF Remains, Visible
<1>. HIDE DEF P
<1>5. CASE AnswerLookup(s)
  <2>1. calls[s].item \in Variant
    BY <1>0, <1>5, CallKinds DEF AnswerLookup, Asking
  <2>2. [page EXCEPT !.error = TRUE] \in Paged(P)
    BY <1>0, FieldType
  <2>3. page' \in Paged(P)
    BY <1>0, <1>5, <2>1, <2>2, AddToSaleType, ShownType DEF AnswerLookup
  <2>. QED BY <1>1, <1>2, <1>5, <2>3 DEF AnswerLookup
<1>6. CASE AnswerCustomer(s)
  <2>1. calls[s].customer \in OrNone(Customer)
    BY <1>0, <1>6, CallKinds DEF AnswerCustomer, Asking, OrNone
  <2>2. [Close(page, {"customer"}) EXCEPT !.customer = calls[s].customer] \in Paged(P)
    BY <1>0, <2>1, CloseType, FieldType
  <2>3. page' \in Paged(P)
    BY <1>0, <1>6, <2>2, BusyType, ShownType DEF AnswerCustomer
  <2>. QED BY <1>1, <1>2, <1>6, <2>3 DEF AnswerCustomer
<1>7. CASE AnswerPark(s)
  <2>. DEFINE q == ParkDone(page, s)
              q1 == [q EXCEPT !.basket = <<>>, !.customer = None]
  <2>1. ParkedRow(calls[s]) \in ParkedSale
    BY <1>0, <1>7, CallKinds DEF AnswerPark, Asking, ParkedRow, ParkedSale
  <2>2. q \in Paged(P)
    BY <1>0, CloseType, BusyType DEF ParkDone
  <2>3. Show(q) \/ Show([q1 EXCEPT !.recallable = TRUE])
    BY <1>7 DEF AnswerPark
  <2>. HIDE DEF q
  <2>4. q1 \in Paged(P)
    BY <1>0, <2>2, FieldsType, EmptyBasket
  <2>. HIDE DEF q1
  <2>5. page' \in Paged(P)
    BY <1>0, <2>2, <2>3, <2>4, FieldType, ShownType
  <2>. QED BY <1>1, <1>3, <1>7, <2>1, <2>5 DEF AnswerPark
<1>8. CASE AnswerOwner(s)
  <2>1. calls[s].id \in P
    BY <1>0, <1>8, CallKinds DEF AnswerOwner, Asking
  <2>2. parked[calls[s].id].customer \in OrNone(Customer)
    BY <1>0, <2>1 DEF ParkedSale
  <2>3. [page EXCEPT !.customer = parked[calls[s].id].customer] \in Paged(P)
    BY <1>0, <2>2, FieldType
  <2>4. page' \in Paged(P)
    BY <1>0, <1>8, <2>3, ShownType DEF AnswerOwner
  <2>5. [kind |-> "recall", id |-> calls[s].id] \in Askable(P)
    BY <1>0, <2>1, CallsMade
  <2>6. calls' \in [Slot -> Askable(P)]
    BY <1>8, <2>5, ReturnType DEF AnswerOwner, P
  <2>. QED BY <1>2, <1>8, <2>4, <2>6 DEF AnswerOwner
<1>9. CASE AnswerRecall(s)
  <2>1. calls[s].id \in P
    BY <1>0, <1>9, CallKinds DEF AnswerRecall, Asking
  <2>. DEFINE x == Remains(calls[s].id) # {}
              q == Close(page, {"picker"})
  <2>2. x \in BOOLEAN /\ q \in Paged(P)
    BY <1>0, CloseType
  <2>3. UNCHANGED page \/ Show([q EXCEPT !.recallable = x])
    BY <1>9 DEF AnswerRecall
  <2>. HIDE DEF x, q
  <2>4. page' \in Paged(P)
    BY <1>0, <2>2, <2>3, FieldType, ShownType
  <2>. QED BY <1>1, <1>3, <1>9, <2>1, <2>4 DEF AnswerRecall
<1>10. CASE AnswerDiscard(s)
  <2>1. calls[s].id \in P
    BY <1>0, <1>10, CallKinds DEF AnswerDiscard, Asking
  <2>. DEFINE q == IF <<"picker", s>> \in page.busy THEN Close(page, {"discard"}) ELSE page
              l == IF q = page THEN q.list ELSE Remains(calls[s].id)
  <2>2. q \in Paged(P)
    BY <1>0, CloseType
  <2>3. l \in SUBSET P
    BY <1>4, <2>2, PageHolds
  <2>4. Show(Settled([q EXCEPT !.list = l], s)) \/ Show(Settled(q, s))
    BY <1>10 DEF AnswerDiscard
  <2>. HIDE DEF q, l
  <2>5. [q EXCEPT !.list = l] \in Paged(P)
    BY <2>2, <2>3, FieldType
  <2>6. page' \in Paged(P)
    BY <1>0, <2>2, <2>4, <2>5, BusyType, ShownType
  <2>. QED BY <1>1, <1>3, <1>10, <2>1, <2>6 DEF AnswerDiscard
<1>. QED BY <1>5, <1>6, <1>7, <1>8, <1>9, <1>10

(* The order is there, or it failed.                                       *)
LEMMA OrderTypes ==
  ASSUME TInv, NEW s \in Slot, AnswerOrder(s)
  PROVE  TInv'
<1>. DEFINE P == DOMAIN parked
            c == calls[s]
            q == Ready(page, c)
            starts == c.method = "card" /\ "card" \notin page.open
            q1 == [q EXCEPT !.phase = "authorizing"]
            q2 == [q1 EXCEPT !.busy = @ \cup {<<"card", s>>}]
<1>0. page \in Paged(P) /\ P \subseteq Nat /\ c \in Askable(P) /\ Len(orders) + 1 \in Nat
  BY ParkedDomain, LenProperties DEF TInv
<1>1. c.method \in PayMethod /\ c.lines \in Basket /\ c.customer \in OrNone(Customer)
  BY <1>0, CallKinds DEF AnswerOrder, Asking
<1>2. q \in Paged(P) /\ q.order = Len(orders) + 1 /\ q.asked = c.lines
  <2>. DEFINE z == Open(Close(page, PayMethod \ {c.method}), c.method)
  <2>1. c.method \in Dialog \ {"discard", "weigh"}
    BY <1>1, Dialogs DEF PayMethod
  <2>2. z \in Paged(P)
    BY <1>0, <2>1, CloseType, OpenType
  <2>3. q = [z EXCEPT !.order = Len(orders) + 1, !.asked = c.lines]
    BY DEF Ready
  <2>4. Len(orders) + 1 \in OrNone(Nat)
    BY <1>0 DEF OrNone
  <2>. HIDE DEF z, q
  <2>5. q \in Paged(P)
    BY <1>1, <2>2, <2>3, <2>4, FieldsType
  <2>. QED BY <2>2, <2>3, <2>5 DEF Paged
<1>3. /\ \/ Ordered(c) \/ UNCHANGED orders
      /\ Show(q2) \/ Show(q) \/ Show([page EXCEPT !.error = TRUE])
      /\ \/ calls' = [calls EXCEPT ![s] = PayCall("card", q.order, q.asked)]
         \/ calls' = [calls EXCEPT ![s] = NoCall]
      /\ UNCHANGED <<txs, parked, made>>
  BY DEF AnswerOrder, Return
<1>. HIDE DEF q
<1>4. q2 \in Paged(P)
  <2>1. q1 \in Paged(P)
    BY <1>2, FieldType
  <2>. HIDE DEF q1
  <2>2. q1.busy \cup {<<"card", s>>} \in SUBSET (Dialog \X Slot)
    BY <2>1, PageHolds, Dialogs
  <2>. QED BY <2>1, <2>2, FieldType
<1>. HIDE DEF q2
<1>5. [page EXCEPT !.error = TRUE] \in Paged(P)
  BY <1>0, FieldType
<1>6. page' \in Paged(P)
  BY <1>0, <1>2, <1>3, <1>4, <1>5, ShownType
<1>7. PayCall("card", q.order, q.asked) \in Askable(P) /\ NoCall \in Askable(P)
  <2>1. "card" \in PayMethod
    BY DEF PayMethod
  <2>. QED BY <1>0, <1>1, <1>2, <2>1, CallsMade
<1>8. calls' \in [Slot -> Askable(P)]
  BY <1>3, <1>7, ReturnType
<1>9. UNCHANGED orders \/ \E r \in OrderRow : orders' = Append(orders, r)
  <2>1. [lines |-> c.lines, customer |-> c.customer] \in OrderRow
    BY <1>1 DEF OrderRow
  <2>. QED BY <1>3, <2>1 DEF Ordered
<1>. QED BY <1>3, <1>6, <1>8, <1>9, StoreTypes

(* A payment is booked, or it failed.                                      *)
LEMMA PayTypes ==
  ASSUME TInv, NEW s \in Slot, AnswerPay(s)
  PROVE  TInv'
<1>. DEFINE P == DOMAIN parked
            n == Len(txs) + 1
            o == calls[s].order
            q == Paid(page, o, n)
            z == Settled(page, s)
<1>0. /\ page \in Paged(P) /\ o \in Nat /\ n \in Nat
      /\ None \in OrNone(Nat) /\ None \in OrNone(Customer)
  <2>1. calls[s] \in Askable(P) /\ Len(txs) \in Nat
    BY LenProperties DEF TInv
  <2>. QED BY <2>1, CallKinds DEF TInv, AnswerPay, Asking, OrNone
<1>1. q \in Paged(P)
  <2>. DEFINE z0 == Close(Open(page, "receipt"), PayMethod)
              z1 == [z0 EXCEPT !.basket = <<>>, !.customer = None]
              z2 == [z1 EXCEPT !.order = None, !.asked = <<>>]
              z3 == [z2 EXCEPT !.lastTx = n, !.paid = o]
  <2>1. q = z3
    BY DEF Paid
  <2>2. z0 \in Paged(P)
    BY <1>0, OpenType, CloseType, Dialogs
  <2>. HIDE DEF z0
  <2>3. z1 \in Paged(P)
    BY <1>0, <2>2, FieldsType, EmptyBasket
  <2>. HIDE DEF z1
  <2>4. z2 \in Paged(P)
    BY <1>0, <2>3, FieldsType, EmptyBasket
  <2>5. n \in OrNone(Nat) /\ o \in OrNone(Nat)
    BY <1>0 DEF OrNone
  <2>. HIDE DEF z2, n, o
  <2>6. z3 \in Paged(P)
    BY <2>4, <2>5, FieldsType, EmptyBasket
  <2>. HIDE DEF q, z3
  <2>. QED BY <2>1, <2>6
<1>2. /\ \/ Booked(calls[s], TRUE) \/ Booked(calls[s], FALSE) \/ UNCHANGED txs
      /\ \/ Show(Settled(q, s))
         \/ \E p \in PayFailed(page, s, {"declined", "error"}) : Show(p)
      /\ Return(s) /\ UNCHANGED <<orders, parked, made>>
  BY DEF AnswerPay, PayFailed
<1>3. \A p \in PayFailed(page, s, {"declined", "error"}) : p \in Paged(P)
  <2>. SUFFICES ASSUME NEW f \in {"declined", "error"}
                PROVE  [z EXCEPT !.phase = IF <<"card", s>> \in page.busy THEN f ELSE @]
                         \in Paged(P)
    BY DEF PayFailed
  <2>. DEFINE x == IF <<"card", s>> \in page.busy THEN f ELSE z.phase
  <2>1. z \in Paged(P)
    BY <1>0, BusyType
  <2>2. x \in {"idle", "authorizing", "declined", "error"}
    BY <2>1, PageHolds
  <2>. HIDE DEF x
  <2>3. [z EXCEPT !.phase = x] \in Paged(P)
    BY <2>1, <2>2, FieldType
  <2>. QED BY <2>3 DEF x
<1>. HIDE DEF q
<1>4. page' \in Paged(P)
  BY <1>0, <1>1, <1>2, <1>3, BusyType, ShownType
<1>5. UNCHANGED txs \/ \E r \in TxRow : txs' = Append(txs, r)
  <2>1. \A b \in BOOLEAN : [order |-> o, voided |-> FALSE, heard |-> b] \in TxRow
    BY <1>0 DEF TxRow
  <2>. QED BY <1>2, <2>1 DEF Booked
<1>6. calls' \in [Slot -> Askable(P)]
  BY <1>2, ReturnType
<1>. QED BY <1>2, <1>4, <1>5, <1>6, StoreTypes

(* A manager answers, and a sale is voided.                                *)
LEMMA ManagerTypes ==
  ASSUME TInv, IInv, NEW s \in Slot, AnswerOverride(s) \/ AnswerStorno(s)
  PROVE  TInv'
<1>. DEFINE P == DOMAIN parked
<1>0. page \in Paged(P) /\ P \subseteq Nat /\ calls[s] \in Askable(P) /\ None \in OrNone(Nat)
  BY ParkedDomain DEF TInv, OrNone
<1>1. CASE AnswerOverride(s)
  <2>. DEFINE tx == calls[s].tx
              c == IF tx # None THEN [kind |-> "storno", tx |-> tx] ELSE NoCall
  <2>1. tx \in OrNone(Nat)
    BY <1>0, <1>1, CallKinds DEF AnswerOverride, Asking
  <2>2. c \in Askable(P) /\ NoCall \in Askable(P)
    BY <1>0, <2>1, CallsMade DEF OrNone
  <2>3. /\ Show(Settled(Close(page, {"override"}), s)) \/ Show(Settled(page, s))
        /\ calls' = [calls EXCEPT ![s] = c] \/ calls' = [calls EXCEPT ![s] = NoCall]
        /\ UNCHANGED <<orders, txs, parked, made>>
    BY <1>1 DEF AnswerOverride, Return
  <2>. HIDE DEF c
  <2>4. calls' \in [Slot -> Askable(P)]
    BY <2>2, <2>3, ReturnType
  <2>5. page' \in Paged(P)
    BY <1>0, <2>3, CloseType, BusyType, ShownType
  <2>. QED BY <2>3, <2>4, <2>5, StoreTypes
<1>2. CASE AnswerStorno(s)
  <2>. DEFINE q == Close(page, {"storno"})
  <2>1. calls[s].tx \in DOMAIN txs
    BY <1>2 DEF AnswerStorno, IInv, Granted
  <2>2. /\ Show([q EXCEPT !.lastTx = None, !.paid = None]) \/ Show(q)
        /\ Void(calls[s].tx) \/ UNCHANGED txs
        /\ Return(s) /\ UNCHANGED <<orders, parked, made>>
    BY <1>2 DEF AnswerStorno
  <2>3. q \in Paged(P)
    BY <1>0, CloseType
  <2>. HIDE DEF q
  <2>4. [q EXCEPT !.lastTx = None, !.paid = None] \in Paged(P)
    BY <1>0, <2>3, FieldsType, EmptyBasket
  <2>5. page' \in Paged(P)
    BY <1>0, <2>2, <2>3, <2>4, ShownType
  <2>6. calls' \in [Slot -> Askable(P)]
    BY <2>2, ReturnType
  <2>. QED BY <2>1, <2>2, <2>5, <2>6, StoreTypes
<1>. QED BY <1>1, <1>2

(* A page that is loaded.                                                  *)
LEMMA FreshType ==
  ASSUME NEW P, P = DOMAIN parked
  PROVE  Fresh \in Paged(P)
  BY EmptyBasket DEF Fresh, Paged, OrNone

LEMMA TypesAtFirst == Init => TInv
<1>. SUFFICES ASSUME Init PROVE TInv
  OBVIOUS
<1>1. page \in Paged(DOMAIN parked)
  BY FreshType DEF Init
<1>2. NoCall \in Askable(DOMAIN parked)
  BY DEF Askable, CallType, NoCall
<1>3. calls \in [Slot -> Askable(DOMAIN parked)]
  BY <1>2 DEF Init
<1>4. orders \in Seq(OrderRow) /\ txs \in Seq(TxRow) /\ parked \in Seq(ParkedSale)
  BY EmptySeq DEF Init
<1>5. made \in 0 .. MaxCalls
  BY TillAssumption DEF Init
<1>. QED BY <1>1, <1>3, <1>4, <1>5 DEF TInv

LEMMA TypesKept == TInv /\ IInv /\ [Next]_vars => TInv'
<1>. SUFFICES ASSUME TInv, IInv, [Next]_vars PROVE TInv'
  OBVIOUS
<1>1. CASE UNCHANGED vars
  BY <1>1 DEF vars, TInv
<1>2. ASSUME NEW s \in Slot, Answer(s) PROVE TInv'
  BY <1>2, SaleAnswerTypes, OrderTypes, PayTypes, ManagerTypes DEF Answer
<1>3. ASSUME NEW i \in Variant, AddFound(i) \/ AddByBarcode(i) PROVE TInv'
  BY <1>3, BasketTypes, AskTypes
<1>4. ASSUME NEW k, RemoveItemAt(k) \/ \E n \in 0 .. MaxQty : UpdateQty(k, n) PROVE TInv'
  BY <1>4, BasketTypes
<1>5. ASSUME ConfirmWeight \/ CancelWeight \/ DoVoidSale \/ RemoveCustomer PROVE TInv'
  BY <1>5, BasketTypes
<1>6. ASSUME NEW m \in PayMethod, PressPay(m) \/ ConfirmPay(m) \/ CancelPay(m) PROVE TInv'
  BY <1>6, AskTypes, DialogTypes
<1>7. ASSUME NEW d \in {"camera", "return", "customer", "picker", "void", "storno", "park"},
             OpenDialog(d)
      PROVE  TInv'
  BY <1>7, DialogTypes, Dialogs
<1>8. ASSUME NEW d, CloseDialog(d) PROVE TInv'
  BY <1>8, DialogTypes
<1>9. ASSUME NEW c \in Customer, AskCustomer(c) PROVE TInv'
  BY <1>9, AskTypes
<1>10. ASSUME PressF8 \/ ParkSale \/ Discard \/ Authorize PROVE TInv'
  BY <1>10, AskTypes
<1>11. ASSUME PressEscape \/ ConfirmStorno PROVE TInv'
  BY <1>11, DialogTypes
<1>12. ASSUME NEW k, RecallSale(k) \/ AskDiscard(k) PROVE TInv'
  BY <1>12, AskTypes, DialogTypes
<1>13. ASSUME NEW k \in DOMAIN parked, TakenElsewhere(k) PROVE TInv'
  <2>1. page' \in Paged(DOMAIN parked) /\ calls' \in [Slot -> Askable(DOMAIN parked)]
    BY <1>13 DEF TInv, TakenElsewhere
  <2>. QED BY <1>13, <2>1, StoreTypes DEF TakenElsewhere
<1>14. CASE Reload
  <2>1. page' \in Paged(DOMAIN parked)
    BY <1>14, FreshType DEF Reload
  <2>2. NoCall \in Askable(DOMAIN parked)
    BY DEF Askable, CallType, NoCall
  <2>3. calls' \in [Slot -> Askable(DOMAIN parked)]
    BY <1>14, <2>2 DEF Reload
  <2>. QED BY <1>14, <2>1, <2>3, AnswerTypes DEF Reload
<1>. QED BY <1>1, <1>2, <1>3, <1>4, <1>5, <1>6, <1>7, <1>8, <1>9, <1>10, <1>11, <1>12,
            <1>13, <1>14 DEF Next

(* What the variables hold, whatever is clicked, answered and lost.        *)
THEOREM TillTypeCorrect == Spec => []TypeOK
<1>1. Spec => []TInv
  BY TypesAtFirst, TypesKept, Inductive, PTL DEF Spec
<1>. QED BY <1>1, Inductive, TypesFromParts, PTL

-----------------------------------------------------------------------------
(* A basket that an answer empties is stored.                              *)

(* A page with the same basket.                                            *)
Keeps(p, q) == DOMAIN q = PageFields /\ q.basket = p.basket

(* Nothing but the basket's own field changes the basket.                  *)
LEMMA OthersKeep ==
  ASSUME NEW p, DOMAIN p = PageFields
  PROVE  /\ \A d : Keeps(p, Open(p, d))
         /\ \A ds : Keeps(p, Close(p, ds))
         /\ \A s : Keeps(p, Settled(p, s))
         /\ \A x : /\ Keeps(p, [p EXCEPT !.error = x]) /\ Keeps(p, [p EXCEPT !.customer = x])
                   /\ Keeps(p, [p EXCEPT !.phase = x]) /\ Keeps(p, [p EXCEPT !.list = x])
                   /\ Keeps(p, [p EXCEPT !.recallable = x])
                   /\ Keeps(p, [p EXCEPT !.busy = x])
                   /\ Keeps(p, [p EXCEPT !.paid = x])
                   /\ Keeps(p, [p EXCEPT !.weigh = x])
         /\ \A x, y : /\ Keeps(p, [p EXCEPT !.order = x, !.asked = y])
                      /\ Keeps(p, [p EXCEPT !.lastTx = x, !.paid = y])
<1>1. ASSUME NEW d PROVE Keeps(p, Open(p, d)) /\ Keeps(p, Close(p, d))
  BY DEF Keeps, Open, Close, PageFields
<1>2. ASSUME NEW s PROVE Keeps(p, Settled(p, s))
  BY DEF Keeps, Settled, PageFields
<1>3. ASSUME NEW x
      PROVE  /\ Keeps(p, [p EXCEPT !.error = x]) /\ Keeps(p, [p EXCEPT !.customer = x])
             /\ Keeps(p, [p EXCEPT !.phase = x]) /\ Keeps(p, [p EXCEPT !.list = x])
             /\ Keeps(p, [p EXCEPT !.recallable = x]) /\ Keeps(p, [p EXCEPT !.busy = x])
             /\ Keeps(p, [p EXCEPT !.paid = x]) /\ Keeps(p, [p EXCEPT !.weigh = x])
  BY DEF Keeps, PageFields
<1>4. ASSUME NEW x, NEW y
      PROVE  /\ Keeps(p, [p EXCEPT !.order = x, !.asked = y])
             /\ Keeps(p, [p EXCEPT !.lastTx = x, !.paid = y])
  BY DEF Keeps, PageFields
<1>. QED BY <1>1, <1>2, <1>3, <1>4

LEMMA ShownKeeps ==
  ASSUME NEW p, DOMAIN p = PageFields, Show(p)
  PROVE  page'.basket = p.basket
<1>. DEFINE x == IF Dependencies(p) = Dependencies(page) THEN page.seen
                 ELSE [basket |-> p.basket, customer |-> p.customer]
<1>1. page' = [p EXCEPT !.seen = x]
  BY DEF Show
<1>. HIDE DEF x
<1>. QED BY <1>1 DEF PageFields

(* An article more leaves no empty basket.                                 *)
LEMMA AddedIsNotEmpty ==
  ASSUME NEW b \in Basket, b # <<>>, NEW i
  PROVE  Added(b, i) # <<>>
<1>1. b \in Seq(Line) /\ Len(b) \in Nat \ {0} /\ DOMAIN b = 1 .. Len(b)
  BY EmptySeq, LenProperties DEF Basket
<1>2. DOMAIN <<>> = {}
  BY EmptySeq, LenProperties
<1>3. CASE \E k \in DOMAIN b : b[k].item = i
  <2>1. DOMAIN Added(b, i) = 1 .. Len(b)
    BY <1>1, <1>3 DEF Added
  <2>2. 1 \in DOMAIN Added(b, i)
    BY <1>1, <2>1
  <2>. QED BY <1>2, <2>2
<1>4. CASE ~ \E k \in DOMAIN b : b[k].item = i
  <2>. DEFINE l == [item |-> i, qty |-> 1]
  <2>1. Added(b, i) = Append(b, l)
    BY <1>4 DEF Added
  <2>2. IsSeq(b)
    BY <1>1 DEF IsSeq
  <2>. HIDE DEF l
  <2>3. DOMAIN Append(b, l) = 1 .. (Len(b) + 1)
    BY <2>2, AppendGrows
  <2>4. 1 \in DOMAIN Append(b, l)
    BY <1>1, <2>3
  <2>. QED BY <1>2, <2>1, <2>4
<1>. QED BY <1>3, <1>4

(* What is appended to is not what it was.                                 *)
LEMMA AppendDiffers ==
  ASSUME NEW q, IsSeq(q), NEW e
  PROVE  Append(q, e) # q
<1>1. Len(q) \in Nat /\ DOMAIN q = 1 .. Len(q) /\ DOMAIN Append(q, e) = 1 .. (Len(q) + 1)
  BY AppendGrows
<1>2. Len(q) + 1 \in DOMAIN Append(q, e) /\ Len(q) + 1 \notin DOMAIN q
  BY <1>1
<1>. QED BY <1>2

(* Every answer keeps the basket, or fills it, or stores what was in it.   *)
LEMMA AnswerStores ==
  ASSUME TInv, IInv, NEW s \in Slot, Answer(s), page.basket # <<>>, page'.basket = <<>>
  PROVE  parked' # parked \/ txs' # txs
<1>0. DOMAIN page = PageFields /\ page.basket \in Basket /\ IsSeq(txs) /\ IsSeq(parked)
  BY PageShape, PageHolds DEF TInv, IsSeq
<1>1. ASSUME NEW p, Keeps(page, p) PROVE ~Show(p)
  BY <1>1, ShownKeeps DEF Keeps
<1>2. ASSUME NEW p, Keeps(page, p)
      PROVE  /\ \A q : Keeps(p, q) => Keeps(page, q)
             /\ DOMAIN p = PageFields
  BY <1>2 DEF Keeps
<1>3. page' # page
  OBVIOUS
<1>4. \A ds : Keeps(page, Close(page, ds)) /\ Keeps(page, Settled(page, s))
                /\ Keeps(page, Settled(Close(page, ds), s))
  BY <1>0, <1>2, OthersKeep
<1>5. Keeps(page, [page EXCEPT !.error = TRUE])
  BY <1>0, OthersKeep
<1>6. CASE AnswerLookup(s)
  <2>. DEFINE i == calls[s].item
              x == calls[s].paid
              n == IF x # None THEN None ELSE page.paid
              q == [page EXCEPT !.paid = n]
  <2>1. Show(AddToSale(page, i, x))
    BY <1>1, <1>5, <1>6 DEF AnswerLookup
  <2>2. Keeps(page, q)
    BY <1>0, OthersKeep
  <2>3. AddToSale(page, i, x) = IF i \in Weighed THEN [Open(q, "weigh") EXCEPT !.weigh = i]
                                ELSE [q EXCEPT !.basket = Added(q.basket, i)]
    BY <2>2 DEF AddToSale, Keeps, PageFields
  <2>. HIDE DEF q
  <2>4. Keeps(page, [Open(q, "weigh") EXCEPT !.weigh = i])
    <3>1. Keeps(page, Open(q, "weigh"))
      BY <1>2, <2>2, OthersKeep
    <3>. QED BY <1>2, <3>1, OthersKeep
  <2>5. i \notin Weighed
    BY <1>1, <2>1, <2>3, <2>4
  <2>. DEFINE r == [q EXCEPT !.basket = Added(q.basket, i)]
  <2>6. DOMAIN r = PageFields /\ r.basket = Added(page.basket, i)
    BY <2>2 DEF Keeps, PageFields
  <2>7. Show(r)
    BY <2>1, <2>3, <2>5
  <2>. HIDE DEF r
  <2>8. page'.basket = Added(page.basket, i)
    BY <2>6, <2>7, ShownKeeps
  <2>. QED BY <1>0, <2>8, AddedIsNotEmpty
<1>7. CASE AnswerOrder(s)
  <2>. DEFINE c == calls[s]
              z == Open(Close(page, PayMethod \ {c.method}), c.method)
              q == Ready(page, c)
              q1 == [q EXCEPT !.phase = "authorizing"]
              q2 == [q1 EXCEPT !.busy = @ \cup {<<"card", s>>}]
  <2>1. Show(q2) \/ Show(q) \/ Show([page EXCEPT !.error = TRUE])
    BY <1>7 DEF AnswerOrder
  <2>2. Keeps(page, z)
    BY <1>0, <1>2, <1>4, OthersKeep
  <2>3. q = [z EXCEPT !.order = Len(orders) + 1, !.asked = c.lines]
    BY DEF Ready
  <2>. HIDE DEF z, q
  <2>4. Keeps(page, q)
    <3>1. Keeps(z, [z EXCEPT !.order = Len(orders) + 1, !.asked = c.lines])
      BY <1>2, <2>2, OthersKeep
    <3>. QED BY <1>2, <2>2, <2>3, <3>1
  <2>5. Keeps(page, q1)
    BY <1>2, <2>4, OthersKeep
  <2>. HIDE DEF q1
  <2>6. Keeps(page, q2)
    BY <1>2, <2>5, OthersKeep
  <2>. HIDE DEF q2
  <2>. QED BY <1>1, <1>5, <2>1, <2>4, <2>6
<1>8. CASE AnswerPay(s)
  <2>1. ASSUME NEW heard, Booked(calls[s], heard) PROVE txs' # txs
    BY <1>0, <2>1, AppendDiffers DEF Booked
  <2>2. ASSUME NEW p \in PayFailed(page, s, {"declined", "error"}) PROVE ~Show(p)
    <3>. DEFINE z == Settled(page, s)
    <3>1. PICK f : p = [z EXCEPT !.phase = IF <<"card", s>> \in page.busy THEN f ELSE @]
      BY DEF PayFailed
    <3>2. Keeps(page, z)
      BY <1>4
    <3>. DEFINE x == IF <<"card", s>> \in page.busy THEN f ELSE z.phase
    <3>3. p = [z EXCEPT !.phase = x]
      BY <3>1
    <3>. HIDE DEF z, x
    <3>4. Keeps(page, p)
      BY <1>2, <3>2, <3>3, OthersKeep
    <3>. QED BY <1>1, <3>4
  <2>. QED BY <1>8, <2>1, <2>2 DEF AnswerPay
<1>9. CASE AnswerCustomer(s)
  <2>. DEFINE q == Close(page, {"customer"})
              r == [q EXCEPT !.customer = calls[s].customer]
  <2>1. Show(Settled(page, s)) \/ Show(Settled(r, s))
    BY <1>9 DEF AnswerCustomer
  <2>2. Keeps(page, q)
    BY <1>4
  <2>. HIDE DEF q
  <2>3. Keeps(page, r)
    BY <1>2, <2>2, OthersKeep
  <2>. HIDE DEF r
  <2>4. Keeps(page, Settled(r, s))
    BY <1>2, <2>3, OthersKeep
  <2>. QED BY <1>1, <1>4, <2>1, <2>4
<1>10. CASE AnswerPark(s)
  <2>1. \/ parked' = Append(parked, ParkedRow(calls[s]))
        \/ Show(Settled(Close(page, {"park"}), s))
    BY <1>10 DEF AnswerPark, ParkDone
  <2>. QED BY <1>0, <1>1, <1>4, <2>1, AppendDiffers
<1>11. CASE AnswerOwner(s)
  <2>1. Keeps(page, [page EXCEPT !.customer = parked[calls[s].id].customer])
    BY <1>0, OthersKeep
  <2>. QED BY <1>1, <1>3, <1>11, <2>1 DEF AnswerOwner
<1>12. CASE AnswerRecall(s)
  <2>. DEFINE q == Close(page, {"picker"})
              x == Remains(calls[s].id) # {}
  <2>1. UNCHANGED page \/ Show([q EXCEPT !.recallable = x])
    BY <1>12 DEF AnswerRecall
  <2>2. Keeps(page, q)
    BY <1>4
  <2>. HIDE DEF q, x
  <2>3. Keeps(page, [q EXCEPT !.recallable = x])
    BY <1>2, <2>2, OthersKeep
  <2>. QED BY <1>1, <1>3, <2>1, <2>3
<1>13. CASE AnswerDiscard(s)
  <2>. DEFINE q == IF <<"picker", s>> \in page.busy THEN Close(page, {"discard"}) ELSE page
              l == IF q = page THEN q.list ELSE Remains(calls[s].id)
              r == [q EXCEPT !.list = l]
  <2>1. Show(Settled(r, s)) \/ Show(Settled(q, s))
    BY <1>13 DEF AnswerDiscard
  <2>2. Keeps(page, q)
    BY <1>0, <1>4 DEF Keeps
  <2>. HIDE DEF q, l
  <2>3. Keeps(page, r)
    BY <1>2, <2>2, OthersKeep
  <2>. HIDE DEF r
  <2>4. Keeps(page, Settled(q, s)) /\ Keeps(page, Settled(r, s))
    BY <1>2, <2>2, <2>3, OthersKeep
  <2>. QED BY <1>1, <2>1, <2>4
<1>14. CASE AnswerOverride(s)
  BY <1>1, <1>4, <1>14 DEF AnswerOverride
<1>15. CASE AnswerStorno(s)
  <2>. DEFINE q == Close(page, {"storno"})
  <2>1. Show(q) \/ Show([q EXCEPT !.lastTx = None, !.paid = None])
    BY <1>15 DEF AnswerStorno
  <2>2. Keeps(page, q)
    BY <1>4
  <2>. HIDE DEF q
  <2>3. Keeps(q, [q EXCEPT !.lastTx = None, !.paid = None])
    BY <1>2, <2>2, OthersKeep
  <2>. QED BY <1>1, <1>2, <2>1, <2>2, <2>3
<1>. QED BY <1>6, <1>7, <1>8, <1>9, <1>10, <1>11, <1>12, <1>13, <1>14, <1>15 DEF Answer

(* No answer, in whatever order the answers come, loses the lines of a     *)
(* basket: they are parked, or paid for.                                   *)
THEOREM EmptiedIsStored == Spec => ClearedIsStored
<1>1. TInv /\ IInv /\ [Next]_vars
        => [\A s \in Slot : Answer(s) /\ page.basket # <<>> /\ page'.basket = <<>>
              => parked' # parked \/ txs' # txs]_vars
  BY AnswerStores
<1>2. Spec => []TInv
  BY TypesAtFirst, TypesKept, Inductive, PTL DEF Spec
<1>. QED BY <1>1, <1>2, Inductive, PTL DEF Spec, ClearedIsStored

=============================================================================
