----------------------------- MODULE TillProofs -----------------------------
(***************************************************************************)
(* Proofs about Till for any variants, customers and number of open calls, *)
(* and any bounds.                                                         *)
(***************************************************************************)
EXTENDS Till, SequenceTheorems, WellFoundedInduction, TLAPS

-----------------------------------------------------------------------------
(* The inductive invariant of the page, in parts.                          *)

PageFields ==
  {"basket", "customer", "error", "open", "busy", "order", "asked", "phase",
   "lastTx", "paid", "weigh", "list", "chosen", "recallable", "seen"}

CallShape(c) ==
  /\ "kind" \in DOMAIN c
  /\ c.kind \in {"order", "pay"} => c.method \in PayMethod

IsSeq(q) == \E S : q \in Seq(S)

(* The dialogs that wait for a call.                                       *)
Waiters == PayMethod \cup {"customer", "park", "picker", "override"}

(* What the variables are made of, as far as it matters.                   *)
Shape ==
  /\ DOMAIN page = PageFields
  /\ page.busy \subseteq Waiters \X Slot
  /\ DOMAIN calls = Slot /\ \A s \in Slot : CallShape(calls[s])
  /\ IsSeq(orders) /\ IsSeq(txs)
  /\ \A k \in DOMAIN txs : DOMAIN txs[k] = {"order", "voided", "heard"}

(* Sales are voided that a manager has agreed to, and a call that voids one*)
(* was made after that.                                                    *)
Granted ==
  /\ granted \subseteq DOMAIN txs
  /\ StornoAuthorized
  /\ \A s \in Slot :
       /\ Asking(s, "override") /\ calls[s].tx # None => calls[s].tx \in DOMAIN txs
       /\ Asking(s, "storno") => calls[s].tx \in granted

(* Orders that are paid, or about to be, were created, at that total.      *)
Ordering ==
  /\ page.order # None => page.order \in DOMAIN orders
  /\ \A s \in Slot : Asking(s, "pay") => calls[s].order \in DOMAIN orders
  /\ \A k \in DOMAIN txs : txs[k].order \in DOMAIN orders
  /\ AskedIsOrdered

(* The kind of call a dialog waits for.                                    *)
KindFor(d) == IF d \in PayMethod THEN "pay" ELSE IF d = "picker" THEN "discard" ELSE d

(* The call a dialog waits for is open, and so is a dialog that waits for a*)
(* payment; that of a card waits while it authorizes, for one call.        *)
Waiting ==
  /\ \A w \in page.busy :
       /\ Asking(w[2], KindFor(w[1]))
       /\ w[1] \in PayMethod => w[1] \in page.open /\ calls[w[2]].method = w[1]
  /\ Busy(page, "card") <=> page.phase = "authorizing"
  /\ \A s, r \in Slot :
       <<"card", s>> \in page.busy /\ <<"card", r>> \in page.busy => s = r

(* One dialog asks for a payment at a time, for an order; while a payment  *)
(* of that order is open it waits for it.                                  *)
Paying ==
  /\ \A m, n \in PayMethod : m \in page.open /\ n \in page.open => m = n
  /\ \A m \in PayMethod : m \in page.open => page.order # None
  /\ \A s \in Slot :
       Asking(s, "pay") /\ page.order # None /\ calls[s].order = page.order
         => <<calls[s].method, s>> \in page.busy
  /\ \A s, r \in Slot :
       Asking(s, "pay") /\ Asking(r, "pay") /\ calls[s].order = calls[r].order
         => s = r

(* An order whose payment was heard of is paid by nobody else.             *)
Heard ==
  /\ \A k \in DOMAIN txs : txs[k].heard =>
       /\ page.order # txs[k].order
       /\ \A s \in Slot : Asking(s, "pay") => calls[s].order # txs[k].order
  /\ PaidTwiceOnlyAfterLoss

IInv ==
  /\ Shape /\ Granted /\ Ordering /\ Waiting /\ Paying
  /\ PaidIsBooked /\ Heard

-----------------------------------------------------------------------------
(* Sequences, whatever they are made of.                                   *)

LEMMA AppendGrows ==
  ASSUME NEW q, IsSeq(q), NEW e
  PROVE  /\ IsSeq(Append(q, e))
         /\ Len(q) \in Nat /\ DOMAIN q = 1 .. Len(q)
         /\ DOMAIN Append(q, e) = 1 .. (Len(q) + 1)
         /\ \A k \in DOMAIN q : Append(q, e)[k] = q[k]
         /\ Append(q, e)[Len(q) + 1] = e
<1>1. PICK S : q \in Seq(S)
  BY DEF IsSeq
<1>. DEFINE T == S \cup {e}
<1>2. Len(q) \in Nat /\ DOMAIN q = 1 .. Len(q) /\ q \in [1 .. Len(q) -> S]
  BY <1>1, LenProperties
<1>3. q \in [1 .. Len(q) -> T] /\ e \in T
  BY <1>2
<1>. HIDE DEF T
<1>4. q \in Seq(T)
  BY <1>2, <1>3, SeqDef
<1>5. /\ Append(q, e) \in Seq(T)
      /\ Len(Append(q, e)) = Len(q) + 1
      /\ \A k \in 1 .. Len(q) : Append(q, e)[k] = q[k]
      /\ Append(q, e)[Len(q) + 1] = e
  BY <1>3, <1>4, AppendProperties
<1>6. DOMAIN Append(q, e) = 1 .. Len(Append(q, e))
  BY <1>5, LenProperties
<1>. QED BY <1>2, <1>5, <1>6 DEF IsSeq

(* A sequence with one element replaced.                                   *)
LEMMA ExceptStays ==
  ASSUME NEW q, IsSeq(q), NEW k, NEW e
  PROVE  IsSeq([q EXCEPT ![k] = e])
<1>1. PICK S : q \in Seq(S)
  BY DEF IsSeq
<1>. DEFINE T == S \cup {e}
<1>2. Len(q) \in Nat /\ q \in [1 .. Len(q) -> S]
  BY <1>1, LenProperties
<1>3. [q EXCEPT ![k] = e] \in [1 .. Len(q) -> T]
  BY <1>2
<1>. HIDE DEF T
<1>4. [q EXCEPT ![k] = e] \in Seq(T)
  BY <1>2, <1>3, SeqDef
<1>. QED BY <1>4 DEF IsSeq

-----------------------------------------------------------------------------
(* Dialogs.                                                                *)

(* The dialog on top is open.                                              *)
LEMMA TopIsOpen ==
  ASSUME NEW p, NEW d, Top(p) = d, d # "page"
  PROVE  d \in p.open
<1>. DEFINE up == {j \in DOMAIN Layers : Layers[j] \in p.open}
            top(j) == j \in up /\ \A i \in up : i <= j
<1>1. up # {}
  BY DEF Top
<1>2. DOMAIN Layers = 1 .. 14
  BY DEF Layers
<1>3. \E j \in up : \A i \in up : i <= j
  <2>. HIDE DEF Layers
  <2>1. up \subseteq 1 .. 14
    BY <1>2
  <2>. HIDE DEF up
  <2>. DEFINE R == {z \in Nat \X Nat : z[1] < z[2]}
              T == {15 - j : j \in up}
  <2>2. IsWellFoundedOn(R, Nat)
    BY NatLessThanWellFounded DEF OpToRel
  <2>3. T \subseteq Nat /\ T # {}
    <3>1. \A j \in up : 15 - j \in Nat
      BY <2>1
    <3>2. PICK j \in up : TRUE
      BY <1>1
    <3>3. 15 - j \in T
      OBVIOUS
    <3>. QED BY <3>1, <3>3
  <2>4. \A x, y \in Nat : y < x => <<y, x>> \in R
    OBVIOUS
  <2>. HIDE DEF R, T
  <2>5. PICK x \in T : \A y \in T : ~(<<y, x>> \in R)
    BY <2>2, <2>3, WFMin
  <2>6. x \in Nat /\ \A y \in T : ~(y < x)
    BY <2>3, <2>4, <2>5
  <2>. QED BY <2>1, <2>5, <2>6 DEF T
<1>4. (CHOOSE j \in up : \A i \in up : i <= j) \in up
  BY <1>3
<1>5. d = Layers[CHOOSE j \in up : \A i \in up : i <= j]
  BY <1>1 DEF Top
<1>. HIDE DEF Layers
<1>. QED BY <1>4, <1>5

(* A page that differs in what the invariant says nothing about, or in what*)
(* dialogs without a payment are open, and waits for no more.              *)
Near(p, q) ==
  /\ DOMAIN q = PageFields
  /\ q.order = p.order /\ q.asked = p.asked /\ q.phase = p.phase
  /\ q.lastTx \in {p.lastTx, None} /\ q.paid \in {p.paid, None}
  /\ \A m \in PayMethod : m \in q.open <=> m \in p.open
  /\ q.busy \subseteq p.busy
  /\ \A w \in p.busy \ q.busy : w[1] \notin PayMethod

(* Two such changes one after the other are one.                           *)
LEMMA NearIsTransitive ==
  ASSUME NEW p, NEW q, NEW r, Near(p, q), Near(q, r)
  PROVE  Near(p, r)
  BY DEF Near

(* A page is near itself.                                                  *)
LEMMA NearSelf ==
  ASSUME NEW p, DOMAIN p = PageFields
  PROVE  Near(p, p)
  BY DEF Near

(* The fields the invariant says nothing about, and forgetting what is paid.*)
LEMMA NearOthers ==
  ASSUME NEW p, DOMAIN p = PageFields, NEW x
  PROVE  /\ Near(p, [p EXCEPT !.basket = x]) /\ Near(p, [p EXCEPT !.customer = x])
         /\ Near(p, [p EXCEPT !.error = x]) /\ Near(p, [p EXCEPT !.weigh = x])
         /\ Near(p, [p EXCEPT !.list = x]) /\ Near(p, [p EXCEPT !.chosen = x])
         /\ Near(p, [p EXCEPT !.recallable = x])
         /\ Near(p, [p EXCEPT !.seen = x])
         /\ Near(p, [p EXCEPT !.paid = None]) /\ Near(p, [p EXCEPT !.lastTx = None])
  BY DEF Near, PageFields

(* Opening a dialog that is about no payment.                              *)
LEMMA NearOpened ==
  ASSUME NEW p, DOMAIN p = PageFields, NEW d, d \notin PayMethod
  PROVE  Near(p, Open(p, d))
  BY DEF Near, PageFields, Open

Gone(ds) == ds \cup (IF "picker" \in ds THEN {"discard"} ELSE {})

(* What closing dialogs changes of a page.                                 *)
LEMMA CloseSteps ==
  ASSUME NEW p, DOMAIN p = PageFields, NEW ds, NEW q, q = Close(p, ds)
  PROVE  /\ DOMAIN q = PageFields
         /\ q.order = p.order /\ q.asked = p.asked
         /\ q.lastTx = p.lastTx /\ q.paid = p.paid
         /\ q.open = p.open \ Gone(ds)
         /\ q.busy = {w \in p.busy : w[1] \notin Gone(ds)}
         /\ q.phase = IF "card" \in ds THEN "idle" ELSE p.phase
  BY DEF Close, Gone, PageFields

(* Closing dialogs that are about no payment.                              *)
LEMMA NearClosed ==
  ASSUME NEW p, DOMAIN p = PageFields, NEW ds, ds \cap PayMethod = {}
  PROVE  Near(p, Close(p, ds))
<1>. DEFINE q == Close(p, ds)
<1>1. Gone(ds) \cap PayMethod = {} /\ "card" \notin ds
  BY DEF Gone, PayMethod
<1>2. /\ DOMAIN q = PageFields
      /\ q.order = p.order /\ q.asked = p.asked
      /\ q.lastTx = p.lastTx /\ q.paid = p.paid
      /\ q.open = p.open \ Gone(ds)
      /\ q.busy = {w \in p.busy : w[1] \notin Gone(ds)}
      /\ q.phase = p.phase
  BY <1>1, CloseSteps
<1>. HIDE DEF q
<1>3. Near(p, q)
  BY <1>1, <1>2 DEF Near
<1>. QED BY <1>3 DEF q

(* A dialog that is about no payment waits no longer.                      *)
LEMMA NearSettled ==
  ASSUME NEW p, DOMAIN p = PageFields, NEW s,
         \A w \in p.busy : w[2] = s => w[1] \notin PayMethod
  PROVE  Near(p, Settled(p, s)) /\ \A w \in Settled(p, s).busy : w[2] # s
  BY DEF Near, Settled, PageFields

(* What is rendered is the page that was asked for.                        *)
LEMMA NearShown ==
  ASSUME NEW p, Near(page, p), Show(p)
  PROVE  Near(page, page') /\ page'.busy = p.busy
<1>. DEFINE x == IF Dependencies(p) = Dependencies(page) THEN page.seen
                 ELSE [basket |-> p.basket, customer |-> p.customer]
<1>1. page' = [p EXCEPT !.seen = x]
  BY DEF Show
<1>. HIDE DEF x
<1>2. DOMAIN p = PageFields
  BY DEF Near
<1>3. Near(p, page')
  BY <1>1, <1>2, NearOthers
<1>4. page'.busy = p.busy
  BY <1>1, <1>2 DEF PageFields
<1>. QED BY <1>3, <1>4, NearIsTransitive

-----------------------------------------------------------------------------
(* Steps that change none of the payments on the page.                     *)

MoreOrders ==
  /\ IsSeq(orders') /\ DOMAIN orders \subseteq DOMAIN orders'
  /\ \A k \in DOMAIN orders : orders'[k] = orders[k]

SameBooks ==
  /\ IsSeq(txs') /\ DOMAIN txs' = DOMAIN txs
  /\ granted \subseteq granted' /\ granted' \subseteq DOMAIN txs
  /\ \A k \in DOMAIN txs :
       /\ DOMAIN txs'[k] = DOMAIN txs[k]
       /\ txs'[k].order = txs[k].order /\ txs'[k].heard = txs[k].heard
       /\ txs'[k].voided => txs[k].voided \/ k \in granted'

(* A call that no dialog waits for is made, answered or followed by another*)
(* one, and none of them is a payment.                                     *)
PlainCall ==
  \/ UNCHANGED calls
  \/ \E c : \E r \in Slot :
       /\ calls' = [calls EXCEPT ![r] = c] /\ CallShape(c)
       /\ ~Asking(r, "pay") /\ \A w \in page'.busy : w[2] # r
       /\ c.kind # "pay"
       /\ c.kind = "override" /\ c.tx # None => c.tx \in DOMAIN txs
       /\ c.kind = "storno" => c.tx \in granted'

Calm == Near(page, page') /\ PlainCall /\ MoreOrders /\ SameBooks

(* What such a step keeps of the calls.                                    *)
CallsKept ==
  /\ DOMAIN calls' = Slot
  /\ \A s \in Slot :
       /\ CallShape(calls'[s])
       /\ Asking(s, "pay")' <=> Asking(s, "pay")
       /\ Asking(s, "pay") => calls'[s] = calls[s]
       /\ Asking(s, "override")' /\ calls'[s].tx # None => calls'[s].tx \in DOMAIN txs
       /\ Asking(s, "storno")' => calls'[s].tx \in granted'
  /\ \A w \in page'.busy : w \in page.busy /\ calls'[w[2]] = calls[w[2]]

(* A calm step keeps the payments asked for, and what managers are asked.  *)
LEMMA PlainCallSteps ==
  ASSUME IInv, Calm
  PROVE  CallsKept
<1>1. CASE UNCHANGED calls
  BY <1>1 DEF CallsKept, Calm, Near, SameBooks, IInv, Shape, Granted, Asking
<1>2. ASSUME NEW r \in Slot, NEW c,
             calls' = [calls EXCEPT ![r] = c], CallShape(c),
             ~Asking(r, "pay"), \A w \in page'.busy : w[2] # r,
             c.kind # "pay",
             c.kind = "override" /\ c.tx # None => c.tx \in DOMAIN txs,
             c.kind = "storno" => c.tx \in granted'
      PROVE  CallsKept
  <2>1. \A s \in Slot : calls'[s] = IF s = r THEN c ELSE calls[s]
    BY <1>2 DEF IInv, Shape
  <2>2. DOMAIN calls' = Slot /\ \A s \in Slot : CallShape(calls'[s])
    BY <1>2, <2>1 DEF IInv, Shape
  <2>3. \A s \in Slot :
          /\ Asking(s, "pay")' <=> Asking(s, "pay")
          /\ Asking(s, "pay") => calls'[s] = calls[s]
    BY <1>2, <2>1 DEF Asking
  <2>4. \A w \in page'.busy : w \in page.busy /\ calls'[w[2]] = calls[w[2]]
    BY <1>2, <2>1 DEF Calm, Near, IInv, Shape
  <2>5. \A s \in Slot :
          /\ Asking(s, "override")' /\ calls'[s].tx # None => calls'[s].tx \in DOMAIN txs
          /\ Asking(s, "storno")' => calls'[s].tx \in granted'
    BY <1>2, <2>1 DEF Asking, Calm, SameBooks, IInv, Granted
  <2>. QED BY <2>2, <2>3, <2>4, <2>5 DEF CallsKept
<1>. QED BY <1>1, <1>2 DEF Calm, PlainCall

(* The invariant survives a change of the calls that is none of payments.  *)
LEMMA CalmKeeps ==
  ASSUME IInv, Calm
  PROVE  IInv'
<1>1. Near(page, page') /\ MoreOrders /\ SameBooks /\ CallsKept
  BY PlainCallSteps DEF Calm
<1>. USE DEF CallsKept
<1>2. Shape'
  BY <1>1 DEF Near, MoreOrders, SameBooks, IInv, Shape
<1>3. Granted'
  BY <1>1 DEF SameBooks, IInv, Granted, StornoAuthorized
<1>4. Ordering'
  BY <1>1 DEF Near, MoreOrders, SameBooks, IInv, Ordering, AskedIsOrdered
<1>5. Waiting'
  <2>1. \A w \in page'.busy :
          /\ Asking(w[2], KindFor(w[1]))'
          /\ w[1] \in PayMethod => w[1] \in page'.open /\ calls'[w[2]].method = w[1]
    BY <1>1 DEF Near, IInv, Waiting, Asking
  <2>2. \A s : <<"card", s>> \in page'.busy <=> <<"card", s>> \in page.busy
    BY <1>1 DEF Near, PayMethod
  <2>3. Busy(page', "card") <=> Busy(page, "card")
    BY <2>2 DEF Busy
  <2>. QED BY <1>1, <2>1, <2>2, <2>3 DEF Near, IInv, Waiting, Busy
<1>6. Paying'
  <2>1. \A s : \A m \in PayMethod :
          <<m, s>> \in page.busy => <<m, s>> \in page'.busy
    BY <1>1 DEF Near
  <2>2. \A s \in Slot : Asking(s, "pay") => calls[s].method \in PayMethod
    BY DEF IInv, Shape, CallShape, Asking
  <2>. QED BY <1>1, <2>1, <2>2 DEF Near, IInv, Paying
<1>7. PaidIsBooked'
  BY <1>1 DEF Near, SameBooks, IInv, PaidIsBooked
<1>8. Heard'
  BY <1>1 DEF Near, SameBooks, IInv, Heard, PaidTwiceOnlyAfterLoss
<1>. QED BY <1>2, <1>3, <1>4, <1>5, <1>6, <1>7, <1>8 DEF IInv


-----------------------------------------------------------------------------
(* What the parts of a calm step come from.                                *)

(* Nothing is booked and nothing allowed.                                  *)
LEMMA BooksStay ==
  ASSUME IInv
  PROVE  /\ UNCHANGED orders => MoreOrders
         /\ UNCHANGED <<txs, granted>> => SameBooks
  BY DEF IInv, Shape, Granted, MoreOrders, SameBooks

(* No dialog waits for a call that is no answer to its own.                *)
LEMMA WhoWaits ==
  ASSUME IInv, NEW s \in Slot, NEW k, Asking(s, k)
  PROVE  /\ k # "pay" =>
              ~Asking(s, "pay") /\ \A w \in page.busy : w[2] = s => w[1] \notin PayMethod
         /\ k \notin {"pay", "discard", "customer", "park", "override"} =>
              \A w \in page.busy : w[2] # s
<1>1. \A w \in page.busy : w[1] \in Waiters /\ Asking(w[2], KindFor(w[1]))
  BY DEF IInv, Waiting, Shape
<1>2. \A w \in page.busy : w[2] = s => k = KindFor(w[1])
  BY <1>1 DEF Asking
<1>. QED BY <1>1, <1>2 DEF Asking, KindFor, Waiters, PayMethod

(* A click that calls nobody.                                              *)
LEMMA ClickIsCalm ==
  ASSUME IInv, Near(page, page'), UNCHANGED <<calls, backend>>
  PROVE  Calm
  BY BooksStay DEF Calm, PlainCall, backend

(* The slot a call is put into is one no dialog waits for.                 *)
LEMMA FreeSlotIsFree ==
  ASSUME IInv, NEW c, Call(c)
  PROVE  /\ FreeSlot \in Slot /\ Asking(FreeSlot, "none")
         /\ calls' = [calls EXCEPT ![FreeSlot] = c]
         /\ \A w \in page.busy : w[2] # FreeSlot
<1>1. FreeSlot \in Slot /\ Asking(FreeSlot, "none")
  BY DEF Call, FreeSlot
<1>. QED BY <1>1 DEF Call, IInv, Shape, Waiting, Asking, KindFor, Waiters, PayMethod

(* A handler makes a call that no dialog waits for.                        *)
LEMMA CallIsCalm ==
  ASSUME IInv, Near(page, page'), UNCHANGED backend,
         NEW c, Call(c), CallShape(c), c.kind \notin {"pay", "override", "storno"}
  PROVE  Calm
<1>1. /\ FreeSlot \in Slot /\ ~Asking(FreeSlot, "pay")
      /\ calls' = [calls EXCEPT ![FreeSlot] = c]
      /\ \A w \in page'.busy : w[2] # FreeSlot
  BY FreeSlotIsFree DEF Near, Asking
<1>. HIDE DEF FreeSlot
<1>2. PlainCall
  BY <1>1 DEF PlainCall
<1>. QED BY <1>2, BooksStay DEF Calm, backend

(* A call that is not a payment is answered, and the dialog that waited for*)
(* it does so no more; what it is followed by needs no manager.            *)
LEMMA AnswerIsCalm ==
  ASSUME IInv, NEW p, Near(page, p), Show(p), NEW s \in Slot, NEW k, Asking(s, k),
         k # "pay", \A w \in p.busy : w[2] # s,
         NEW c, CallShape(c), calls' = [calls EXCEPT ![s] = c],
         c.kind \notin {"pay", "override", "storno"},
         MoreOrders, SameBooks
  PROVE  Calm
<1>1. Near(page, page') /\ page'.busy = p.busy
  BY NearShown
<1>2. PlainCall
  BY <1>1, WhoWaits DEF PlainCall
<1>. QED BY <1>1, <1>2 DEF Calm

(* The usual end of a handler.                                             *)
LEMMA ReturnIsCalm ==
  ASSUME IInv, NEW p, Near(page, p), Show(p), NEW s \in Slot, NEW k, Asking(s, k),
         k # "pay", \A w \in p.busy : w[2] # s, Return(s), MoreOrders, SameBooks
  PROVE  Calm
<1>1. CallShape(NoCall) /\ NoCall.kind \notin {"pay", "override", "storno"}
  BY DEF CallShape, NoCall
<1>. QED BY <1>1, AnswerIsCalm DEF Return

(* The page has its fields throughout.                                     *)
LEMMA PageShape ==
  ASSUME IInv
  PROVE  DOMAIN page = PageFields /\ Near(page, page)
  BY NearSelf DEF IInv, Shape

(* Adding an article.                                                      *)
LEMMA NearAdded ==
  ASSUME NEW p, DOMAIN p = PageFields, NEW i, NEW x
  PROVE  Near(p, AddToSale(p, i, x)) /\ AddToSale(p, i, x).busy = p.busy
<1>. DEFINE q == [p EXCEPT !.paid = IF x # None THEN None ELSE @]
<1>1. Near(p, q) /\ DOMAIN q = PageFields /\ q.busy = p.busy
  BY DEF Near, PageFields
<1>2. AddToSale(p, i, x) = IF i \in Weighed THEN [Open(q, "weigh") EXCEPT !.weigh = i]
                           ELSE [q EXCEPT !.basket = Added(@, i)]
  BY DEF AddToSale
<1>. HIDE DEF q
<1>3. /\ Near(q, [Open(q, "weigh") EXCEPT !.weigh = i])
      /\ Near(q, [q EXCEPT !.basket = Added(@, i)])
      /\ [Open(q, "weigh") EXCEPT !.weigh = i].busy = q.busy
      /\ [q EXCEPT !.basket = Added(@, i)].busy = q.busy
  BY <1>1 DEF Near, PageFields, Open, PayMethod
<1>. QED BY <1>1, <1>2, <1>3, NearIsTransitive

-----------------------------------------------------------------------------
(* The events that leave the payments alone.                               *)

LEMMA BasketKeeps ==
  ASSUME IInv, TillAssumption, NEW i,
         \/ AddFound(i) \/ ConfirmWeight \/ CancelWeight \/ DoVoidSale \/ RemoveCustomer
         \/ \E k : RemoveItemAt(k) \/ \E n : UpdateQty(k, n)
         \/ ConfirmStorno
  PROVE  IInv'
<1>1. DOMAIN page = PageFields /\ Near(page, page)
  BY PageShape
<1>2. \E p : Near(page, p) /\ Show(p)
  <2>1. CASE AddFound(i)
    BY <1>1, <2>1, NearAdded DEF AddFound
  <2>2. ASSUME NEW ds, NEW f, ds \cap PayMethod = {}
        PROVE  /\ Near(page, [Close(page, ds) EXCEPT !.basket = f, !.paid = None, !.weigh = None])
               /\ Near(page, [Close(page, ds) EXCEPT !.weigh = None])
               /\ Near(page, [Close(page, ds) EXCEPT !.basket = f, !.customer = None])
    <3>. DEFINE q == Close(page, ds)
    <3>1. Near(page, q)
      BY <1>1, <2>2, NearClosed
    <3>. HIDE DEF q
    <3>2. /\ Near(q, [q EXCEPT !.basket = f, !.paid = None, !.weigh = None])
          /\ Near(q, [q EXCEPT !.weigh = None])
          /\ Near(q, [q EXCEPT !.basket = f, !.customer = None])
      BY <3>1 DEF Near, PageFields
    <3>3. /\ Near(page, [q EXCEPT !.basket = f, !.paid = None, !.weigh = None])
          /\ Near(page, [q EXCEPT !.weigh = None])
          /\ Near(page, [q EXCEPT !.basket = f, !.customer = None])
      BY <3>1, <3>2, NearIsTransitive
    <3>. QED BY <3>3 DEF q
  <2>3. CASE ConfirmWeight
    <3>. DEFINE b == Append(page.basket, [item |-> page.weigh, qty |-> 1])
    <3>1. Close(page, {"weigh"}).basket = page.basket
      BY <1>1 DEF Close, PageFields
    <3>2. Show([Close(page, {"weigh"}) EXCEPT !.basket = b, !.paid = None, !.weigh = None])
      BY <2>3, <3>1 DEF ConfirmWeight
    <3>3. {"weigh"} \cap PayMethod = {}
      BY DEF PayMethod
    <3>. QED BY <2>2, <3>2, <3>3
  <2>4. CASE CancelWeight \/ DoVoidSale
    <3>1. {"weigh"} \cap PayMethod = {} /\ {"void"} \cap PayMethod = {}
      BY DEF PayMethod
    <3>. QED BY <2>2, <2>4, <3>1 DEF CancelWeight, DoVoidSale
  <2>5. CASE RemoveCustomer
    BY <1>1, <2>5, NearOthers DEF RemoveCustomer
  <2>6. ASSUME NEW k, RemoveItemAt(k) \/ \E n : UpdateQty(k, n)
        PROVE  \E p : Near(page, p) /\ Show(p)
    <3>1. CASE RemoveItemAt(k)
      <4>1. Show([page EXCEPT !.basket = Without(page.basket, k)])
        BY <3>1 DEF RemoveItemAt
      <4>. QED BY <1>1, <4>1, NearOthers
    <3>2. ASSUME NEW n, UpdateQty(k, n)
          PROVE  \E p : Near(page, p) /\ Show(p)
      BY <1>1, <3>2, NearOthers DEF UpdateQty
    <3>. QED BY <2>6, <3>1, <3>2
  <2>7. CASE ConfirmStorno
    <3>. DEFINE q == Close(page, {"storno"})
    <3>1. Near(page, q)
      BY <1>1, NearClosed DEF PayMethod
    <3>2. Show(Open(q, "override"))
      BY <2>7 DEF ConfirmStorno
    <3>. HIDE DEF q
    <3>3. Near(page, Open(q, "override"))
      BY <3>1, NearOpened, NearIsTransitive DEF PayMethod, Near
    <3>. QED BY <3>2, <3>3
  <2>. QED BY <2>1, <2>3, <2>4, <2>5, <2>6, <2>7
<1>3. UNCHANGED <<calls, backend>>
  BY DEF AddFound, ConfirmWeight, CancelWeight, DoVoidSale, RemoveCustomer, RemoveItemAt,
         UpdateQty, ConfirmStorno
<1>. QED BY <1>2, <1>3, NearShown, ClickIsCalm, CalmKeeps

(* Handlers that call the backend without a dialog that waits for it.      *)
LEMMA CallsKeep ==
  ASSUME IInv, TillAssumption,
         \/ \E i : AddByBarcode(i)
         \/ \E m \in PayMethod : PressPay(m)
         \/ PressF8
         \/ \E k : RecallSale(k)
  PROVE  IInv'
<1>1. DOMAIN page = PageFields /\ Near(page, page)
  BY PageShape
<1>2. ASSUME NEW p, Near(page, p), Show(p), UNCHANGED backend,
             NEW c, Call(c), CallShape(c), c.kind \notin {"pay", "override", "storno"}
      PROVE  IInv'
  BY <1>2, NearShown, CallIsCalm, CalmKeeps
<1>3. ASSUME NEW i, AddByBarcode(i)
      PROVE  IInv'
  <2>. DEFINE q == Close(page, {"camera"})
             c == [kind |-> "lookup", item |-> i, paid |-> page.paid]
  <2>1. Near(page, q)
    BY <1>1, NearClosed DEF PayMethod
  <2>2. Show([q EXCEPT !.error = FALSE]) /\ Call(c) /\ UNCHANGED backend
    BY <1>3 DEF AddByBarcode
  <2>. HIDE DEF q
  <2>3. Near(page, [q EXCEPT !.error = FALSE])
    BY <2>1, NearOthers, NearIsTransitive DEF Near
  <2>4. CallShape(c) /\ c.kind \notin {"pay", "override", "storno"}
    BY DEF CallShape
  <2>. HIDE DEF c
  <2>. QED BY <1>2, <2>2, <2>3, <2>4
<1>4. ASSUME NEW by, NEW m \in PayMethod, NEW sale, CreateOrder(by, m, sale)
      PROVE  IInv'
  <2>. DEFINE c == [kind |-> "order", by |-> by, method |-> m,
                    lines |-> sale.basket, customer |-> sale.customer,
                    shown |-> [basket |-> page.basket, customer |-> page.customer]]
  <2>1. Show([page EXCEPT !.error = FALSE]) /\ Call(c) /\ UNCHANGED backend
    BY <1>4 DEF CreateOrder
  <2>2. CallShape(c) /\ c.kind \notin {"pay", "override", "storno"}
    BY DEF CallShape
  <2>. HIDE DEF c
  <2>. QED BY <1>1, <1>2, <2>1, <2>2, NearOthers
<1>5. ASSUME NEW k, RecallSale(k)
      PROVE  IInv'
  <2>. DEFINE c == [kind |-> IF parked[k].customer # None THEN "owner" ELSE "recall",
                    id |-> k]
  <2>1. Show([page EXCEPT !.basket = parked[k].lines]) /\ Call(c) /\ UNCHANGED backend
    BY <1>5 DEF RecallSale
  <2>2. CallShape(c) /\ c.kind \notin {"pay", "override", "storno"}
    BY DEF CallShape
  <2>. HIDE DEF c
  <2>. QED BY <1>1, <1>2, <2>1, <2>2, NearOthers
<1>. QED BY <1>3, <1>4, <1>5 DEF PressPay, PressF8, PayMethod

(* Dialogs that open and close; a parked sale that is taken elsewhere.     *)
LEMMA DialogsKeep ==
  ASSUME IInv, TillAssumption,
         \/ \E d \in Dialog \ PayMethod : OpenDialog(d) \/ CloseDialog(d)
         \/ \E k : AskDiscard(k) \/ TakenElsewhere(k)
  PROVE  IInv'
<1>1. DOMAIN page = PageFields /\ Near(page, page)
  BY PageShape
<1>2. ASSUME NEW p, Near(page, p), Show(p), UNCHANGED <<calls, backend>>
      PROVE  IInv'
  BY <1>2, NearShown, ClickIsCalm, CalmKeeps
<1>3. ASSUME NEW d \in Dialog \ PayMethod, OpenDialog(d)
      PROVE  IInv'
  <2>. DEFINE q == Open(page, d)
             l == IF d = "picker" THEN Visible ELSE q.list
  <2>1. Near(page, q)
    BY <1>1, NearOpened
  <2>2. Show([q EXCEPT !.list = l]) /\ UNCHANGED <<calls, backend>>
    BY <1>3 DEF OpenDialog
  <2>. HIDE DEF q, l
  <2>3. Near(page, [q EXCEPT !.list = l])
    BY <2>1, NearOthers, NearIsTransitive DEF Near
  <2>. QED BY <1>2, <2>2, <2>3
<1>4. ASSUME NEW d \in Dialog \ PayMethod, CloseDialog(d)
      PROVE  IInv'
  <2>1. {d} \cap PayMethod = {}
    OBVIOUS
  <2>2. Show(Close(page, {d})) /\ UNCHANGED <<calls, backend>>
    BY <1>4 DEF CloseDialog
  <2>. QED BY <1>1, <1>2, <2>1, <2>2, NearClosed
<1>5. ASSUME NEW k, AskDiscard(k)
      PROVE  IInv'
  <2>. DEFINE q == Open(page, "discard")
  <2>1. Near(page, q)
    BY <1>1, NearOpened DEF PayMethod
  <2>2. Show([q EXCEPT !.chosen = k]) /\ UNCHANGED <<calls, backend>>
    BY <1>5 DEF AskDiscard
  <2>. HIDE DEF q
  <2>3. Near(page, [q EXCEPT !.chosen = k])
    BY <2>1, NearOthers, NearIsTransitive DEF Near
  <2>. QED BY <1>2, <2>2, <2>3
<1>6. ASSUME NEW k, TakenElsewhere(k)
      PROVE  IInv'
  <2>1. UNCHANGED <<page, calls, orders, txs, granted>>
    BY <1>6 DEF TakenElsewhere
  <2>2. Calm
    BY <1>1, <2>1, BooksStay DEF Calm, PlainCall
  <2>. QED BY <2>2, CalmKeeps
<1>. QED BY <1>3, <1>4, <1>5, <1>6

(* The answers that are about neither a payment nor a manager.             *)
LEMMA AnswersKeep ==
  ASSUME IInv, TillAssumption, NEW s \in Slot,
         \/ AnswerLookup(s) \/ AnswerCustomer(s) \/ AnswerPark(s) \/ AnswerOwner(s)
         \/ AnswerRecall(s) \/ AnswerDiscard(s)
  PROVE  IInv'
<1>1. DOMAIN page = PageFields /\ Near(page, page)
  BY PageShape
<1>2. UNCHANGED <<orders, txs, granted>>
  BY DEF AnswerLookup, AnswerCustomer, AnswerPark, AnswerOwner, AnswerRecall,
         AnswerDiscard, backend
<1>3. MoreOrders /\ SameBooks
  BY <1>2, BooksStay
<1>4. ASSUME NEW p, Near(page, p), Show(p), NEW k, Asking(s, k),
             k # "pay", \A w \in p.busy : w[2] # s, Return(s)
      PROVE  IInv'
  BY <1>3, <1>4, ReturnIsCalm, CalmKeeps
<1>5. ASSUME NEW k, Asking(s, k), k # "pay", NEW p, Near(page, p)
      PROVE  Near(page, Settled(p, s)) /\ \A w \in Settled(p, s).busy : w[2] # s
  <2>1. \A w \in p.busy : w[2] = s => w[1] \notin PayMethod
    BY <1>5, WhoWaits DEF Near
  <2>2. DOMAIN p = PageFields
    BY <1>5 DEF Near
  <2>. QED BY <1>5, <2>1, <2>2, NearSettled, NearIsTransitive
<1>6. CASE AnswerLookup(s)
  <2>1. Asking(s, "lookup") /\ Return(s) /\ \A w \in page.busy : w[2] # s
    BY <1>6, WhoWaits DEF AnswerLookup
  <2>2. PICK p : Near(page, p) /\ Show(p) /\ p.busy = page.busy
    <3>1. CASE Show([page EXCEPT !.error = TRUE])
      <4>1. Near(page, [page EXCEPT !.error = TRUE])
            /\ [page EXCEPT !.error = TRUE].busy = page.busy
        BY <1>1, NearOthers DEF PageFields
      <4>. QED BY <3>1, <4>1
    <3>2. CASE Show(AddToSale(page, calls[s].item, calls[s].paid))
      BY <1>1, <3>2, NearAdded
    <3>. QED BY <1>6, <3>1, <3>2 DEF AnswerLookup
  <2>. QED BY <1>4, <2>1, <2>2
<1>7. CASE AnswerCustomer(s)
  <2>1. Asking(s, "customer") /\ Return(s)
    BY <1>7 DEF AnswerCustomer
  <2>. DEFINE q == Close(page, {"customer"})
  <2>2. Near(page, q)
    BY <1>1, NearClosed DEF PayMethod
  <2>3. \/ Show(Settled(page, s))
        \/ Show(Settled([q EXCEPT !.customer = calls[s].customer], s))
    BY <1>7 DEF AnswerCustomer
  <2>. HIDE DEF q
  <2>4. Near(page, [q EXCEPT !.customer = calls[s].customer])
    BY <2>2, NearOthers, NearIsTransitive DEF Near
  <2>. QED BY <1>1, <1>4, <1>5, <2>1, <2>3, <2>4
<1>8. CASE AnswerPark(s)
  <2>1. Asking(s, "park") /\ Return(s)
    BY <1>8 DEF AnswerPark
  <2>. DEFINE q == ParkDone(page, s)
             r == [q EXCEPT !.basket = <<>>, !.customer = None, !.recallable = TRUE]
  <2>2. Near(page, q) /\ \A w \in q.busy : w[2] # s
    BY <1>1, <1>5, <2>1, NearClosed DEF PayMethod, ParkDone
  <2>3. Show(q) \/ Show(r)
    BY <1>8 DEF AnswerPark
  <2>. HIDE DEF q
  <2>4. Near(q, r) /\ r.busy = q.busy
    BY <2>2 DEF Near, PageFields
  <2>5. Near(page, r) /\ \A w \in r.busy : w[2] # s
    BY <2>2, <2>4, NearIsTransitive
  <2>. HIDE DEF r
  <2>. QED BY <1>4, <2>1, <2>2, <2>3, <2>5
<1>9. CASE AnswerOwner(s)
  <2>. DEFINE c == [kind |-> "recall", id |-> calls[s].id]
             x == parked[calls[s].id].customer
  <2>1. Asking(s, "owner") /\ calls' = [calls EXCEPT ![s] = c]
    BY <1>9 DEF AnswerOwner
  <2>2. \A w \in page.busy : w[2] # s
    BY <2>1, WhoWaits
  <2>3. CallShape(c) /\ c.kind \notin {"pay", "override", "storno"}
    BY DEF CallShape
  <2>. HIDE DEF c
  <2>4. CASE UNCHANGED page
    <3>1. PlainCall
      BY <2>1, <2>2, <2>3, <2>4 DEF PlainCall, Asking
    <3>. QED BY <1>1, <1>3, <2>4, <3>1, CalmKeeps DEF Calm
  <2>5. CASE Show([page EXCEPT !.customer = x])
    <3>1. Near(page, [page EXCEPT !.customer = x])
          /\ [page EXCEPT !.customer = x].busy = page.busy
      BY <1>1, NearOthers DEF PageFields
    <3>2. Calm
      BY <1>3, <2>1, <2>2, <2>3, <2>5, <3>1, AnswerIsCalm
    <3>. QED BY <3>2, CalmKeeps
  <2>. QED BY <1>9, <2>4, <2>5 DEF AnswerOwner
<1>10. CASE AnswerRecall(s)
  <2>1. Asking(s, "recall") /\ Return(s) /\ \A w \in page.busy : w[2] # s
    BY <1>10, WhoWaits DEF AnswerRecall
  <2>. DEFINE q == Close(page, {"picker"})
             x == Remains(calls[s].id) # {}
  <2>2. Near(page, q)
    BY <1>1, NearClosed DEF PayMethod
  <2>3. UNCHANGED page \/ Show([q EXCEPT !.recallable = x])
    BY <1>10 DEF AnswerRecall
  <2>. HIDE DEF q, x
  <2>4. CASE UNCHANGED page
    <3>1. /\ CallShape(NoCall) /\ NoCall.kind = "none" /\ ~Asking(s, "pay")
           /\ calls' = [calls EXCEPT ![s] = NoCall]
      BY <2>1 DEF Return, CallShape, Asking, NoCall
    <3>2. PlainCall
      BY <2>1, <2>4, <3>1 DEF PlainCall
    <3>. QED BY <1>1, <1>3, <2>4, <3>2, CalmKeeps DEF Calm
  <2>5. CASE Show([q EXCEPT !.recallable = x])
    <3>1. Near(page, [q EXCEPT !.recallable = x])
      BY <2>2, NearOthers, NearIsTransitive DEF Near
    <3>2. \A w \in [q EXCEPT !.recallable = x].busy : w[2] # s
      BY <2>1, <3>1 DEF Near
    <3>. QED BY <1>4, <2>1, <2>5, <3>1, <3>2
  <2>. QED BY <2>3, <2>4, <2>5
<1>11. CASE AnswerDiscard(s)
  <2>1. Asking(s, "discard") /\ Return(s)
    BY <1>11 DEF AnswerDiscard
  <2>. DEFINE q == IF <<"picker", s>> \in page.busy THEN Close(page, {"discard"}) ELSE page
             x == IF q = page THEN q.list ELSE Remains(calls[s].id)
  <2>2. Near(page, q)
    BY <1>1, NearClosed DEF PayMethod
  <2>3. Show(Settled(q, s)) \/ Show(Settled([q EXCEPT !.list = x], s))
    BY <1>11 DEF AnswerDiscard
  <2>. HIDE DEF q, x
  <2>4. Near(page, [q EXCEPT !.list = x])
    BY <2>2, NearOthers, NearIsTransitive DEF Near
  <2>. QED BY <1>4, <1>5, <2>1, <2>2, <2>3, <2>4
<1>. QED BY <1>6, <1>7, <1>8, <1>9, <1>10, <1>11

(* An order more, and those before as they were.                           *)
LEMMA OrderAdded ==
  ASSUME IInv, NEW c, Ordered(c)
  PROVE  /\ MoreOrders
         /\ Len(orders) \in Nat /\ DOMAIN orders = 1 .. Len(orders)
         /\ DOMAIN orders' = 1 .. (Len(orders) + 1)
         /\ orders'[Len(orders) + 1].lines = c.lines
<1>1. IsSeq(orders) /\ orders' = Append(orders, [lines |-> c.lines, customer |-> c.customer])
  BY DEF IInv, Shape, Ordered
<1>. QED BY <1>1, AppendGrows DEF MoreOrders

(* An order that is not heard of: created or not, nothing is paid.         *)
LEMMA LostOrderKeeps ==
  ASSUME IInv, TillAssumption, NEW s \in Slot, Asking(s, "order"),
         Ordered(calls[s]) \/ UNCHANGED orders,
         Show([page EXCEPT !.error = TRUE]), Return(s),
         UNCHANGED <<txs, granted>>
  PROVE  IInv'
<1>1. DOMAIN page = PageFields /\ Near(page, page)
  BY PageShape
<1>2. Near(page, [page EXCEPT !.error = TRUE])
      /\ [page EXCEPT !.error = TRUE].busy = page.busy
  BY <1>1, NearOthers DEF PageFields
<1>3. MoreOrders /\ SameBooks
  BY OrderAdded, BooksStay
<1>4. \A w \in page.busy : w[2] # s
  BY WhoWaits
<1>. QED BY <1>2, <1>3, <1>4, ReturnIsCalm, CalmKeeps

(* What a manager allows, and the void it allows.                          *)
LEMMA ManagerKeeps ==
  ASSUME IInv, TillAssumption, NEW s \in Slot, AnswerOverride(s) \/ AnswerStorno(s)
  PROVE  IInv'
<1>1. DOMAIN page = PageFields /\ Near(page, page)
  BY PageShape
<1>. DEFINE tx == calls[s].tx
<1>2. CASE AnswerOverride(s)
  <2>1. Asking(s, "override")
    BY <1>2 DEF AnswerOverride
  <2>2. CallShape(calls[s]) /\ (tx # None => tx \in DOMAIN txs)
    BY <2>1 DEF IInv, Shape, Granted
  <2>3. UNCHANGED <<orders, txs>>
    BY <1>2 DEF AnswerOverride
  <2>4. \/ granted' = granted \cup (IF tx # None THEN {tx} ELSE {})
        \/ UNCHANGED granted
    BY <1>2 DEF AnswerOverride
  <2>5. MoreOrders /\ SameBooks
    BY <2>2, <2>3, <2>4 DEF MoreOrders, SameBooks, IInv, Shape, Granted
  <2>6. ASSUME NEW p, Near(page, p)
        PROVE  Near(page, Settled(p, s)) /\ \A w \in Settled(p, s).busy : w[2] # s
    <3>1. \A w \in p.busy : w[2] = s => w[1] \notin PayMethod
      BY <2>1, <2>6, WhoWaits DEF Near
    <3>2. DOMAIN p = PageFields
      BY <2>6 DEF Near
    <3>. QED BY <2>6, <3>1, <3>2, NearSettled, NearIsTransitive
  <2>. DEFINE q == Close(page, {"override"})
             c == IF tx # None THEN [kind |-> "storno", tx |-> tx] ELSE NoCall
  <2>7. Near(page, q)
    BY <1>1, NearClosed DEF PayMethod
  <2>8. \/ /\ granted' = granted \cup (IF tx # None THEN {tx} ELSE {})
           /\ Show(Settled(q, s)) /\ calls' = [calls EXCEPT ![s] = c]
        \/ Show(Settled(page, s)) /\ Return(s)
    BY <1>2 DEF AnswerOverride
  <2>9. /\ CallShape(c)
        /\ c.kind # "none" => c.kind = "storno" /\ c.tx = tx /\ tx # None
    BY DEF CallShape, NoCall
  <2>. HIDE DEF q, c
  <2>10. CASE Show(Settled(page, s)) /\ Return(s)
    BY <1>1, <2>1, <2>5, <2>6, <2>10, ReturnIsCalm, CalmKeeps
  <2>11. CASE /\ granted' = granted \cup (IF tx # None THEN {tx} ELSE {})
              /\ Show(Settled(q, s)) /\ calls' = [calls EXCEPT ![s] = c]
    <3>1. Near(page, page') /\ \A w \in page'.busy : w[2] # s
      BY <2>6, <2>7, <2>11, NearShown
    <3>2. ~Asking(s, "pay") /\ (c.kind # "none" => c.tx \in granted')
      BY <2>1, <2>9, <2>11 DEF Asking
    <3>3. PlainCall
      BY <2>9, <2>11, <3>1, <3>2 DEF PlainCall
    <3>. QED BY <2>5, <3>1, <3>3, CalmKeeps DEF Calm
  <2>. QED BY <2>8, <2>10, <2>11
<1>3. CASE AnswerStorno(s)
  <2>1. Asking(s, "storno") /\ tx \in granted /\ tx \in DOMAIN txs
    BY <1>3 DEF AnswerStorno, IInv, Granted
  <2>2. UNCHANGED <<orders, granted>> /\ (Void(tx) \/ UNCHANGED txs) /\ Return(s)
    BY <1>3 DEF AnswerStorno
  <2>3. MoreOrders
    BY <2>2, BooksStay
  <2>4. SameBooks
    <3>1. CASE UNCHANGED txs
      BY <2>2, <3>1, BooksStay
    <3>2. CASE Void(tx)
      <4>. DEFINE e == [txs[tx] EXCEPT !.voided = TRUE]
      <4>1. txs' = [txs EXCEPT ![tx] = e]
        BY <3>2 DEF Void
      <4>2. DOMAIN txs[tx] = {"order", "voided", "heard"}
        BY <2>1 DEF IInv, Shape
      <4>3. /\ DOMAIN e = DOMAIN txs[tx]
            /\ e.order = txs[tx].order /\ e.heard = txs[tx].heard
        BY <4>2
      <4>. HIDE DEF e
      <4>4. IsSeq(txs')
        BY <4>1, ExceptStays DEF IInv, Shape
      <4>. QED BY <2>1, <2>2, <4>1, <4>3, <4>4 DEF SameBooks, IInv, Shape, Granted
    <3>. QED BY <2>2, <3>1, <3>2
  <2>. DEFINE q == Close(page, {"storno"})
             r == [q EXCEPT !.lastTx = None, !.paid = None]
  <2>5. Near(page, q)
    BY <1>1, NearClosed DEF PayMethod
  <2>6. Show(q) \/ Show(r)
    BY <1>3 DEF AnswerStorno
  <2>. HIDE DEF q
  <2>7. Near(q, r)
    BY <2>5 DEF Near, PageFields
  <2>8. Near(page, r)
    BY <2>5, <2>7, NearIsTransitive
  <2>. HIDE DEF r
  <2>9. ASSUME NEW p, Near(page, p), Show(p)
        PROVE  IInv'
    <3>1. \A w \in p.busy : w[2] # s
      BY <2>1, <2>9, WhoWaits DEF Near
    <3>. QED BY <2>1, <2>2, <2>3, <2>4, <2>9, <3>1, ReturnIsCalm, CalmKeeps
  <2>. QED BY <2>5, <2>6, <2>8, <2>9
<1>. QED BY <1>2, <1>3

(* A dialog that is about no payment waits for the call it makes.          *)
LEMMA WaitKeeps ==
  ASSUME IInv, TillAssumption, NEW d \in {"customer", "park", "picker", "override"},
         NEW c, CallShape(c), c.kind = KindFor(d),
         c.kind = "override" /\ c.tx # None => c.tx \in DOMAIN txs,
         Call(c), Show(Wait(page, d)), UNCHANGED backend
  PROVE  IInv'
<1>1. /\ FreeSlot \in Slot /\ Asking(FreeSlot, "none")
      /\ calls' = [calls EXCEPT ![FreeSlot] = c]
      /\ \A w \in page.busy : w[2] # FreeSlot
  BY FreeSlotIsFree
<1>2. DOMAIN page = PageFields
  BY PageShape
<1>3. /\ DOMAIN page' = PageFields
      /\ page'.order = page.order /\ page'.asked = page.asked
      /\ page'.phase = page.phase /\ page'.open = page.open
      /\ page'.lastTx = page.lastTx /\ page'.paid = page.paid
      /\ page'.busy = page.busy \cup {<<d, FreeSlot>>}
  BY <1>2 DEF Show, Wait, PageFields
<1>. HIDE DEF FreeSlot
<1>4. c.kind \in {"customer", "park", "discard", "override"}
  BY DEF KindFor, PayMethod
<1>5. /\ DOMAIN calls' = Slot
      /\ \A s \in Slot : calls'[s] = IF s = FreeSlot THEN c ELSE calls[s]
  BY <1>1 DEF IInv, Shape
<1>6. UNCHANGED <<orders, txs, granted>>
  BY DEF backend
<1>7. d \in Waiters /\ d \notin PayMethod
  BY DEF Waiters, PayMethod
<1>8. \A s \in Slot : /\ Asking(s, "pay")' <=> Asking(s, "pay")
                      /\ Asking(s, "pay") => calls'[s] = calls[s]
  BY <1>1, <1>4, <1>5 DEF Asking
<1>9. Shape'
  BY <1>1, <1>3, <1>5, <1>6, <1>7 DEF IInv, Shape
<1>10. Granted'
  BY <1>4, <1>5, <1>6 DEF IInv, Granted, Asking, StornoAuthorized
<1>11. Ordering'
  BY <1>3, <1>6, <1>8 DEF IInv, Ordering, AskedIsOrdered
<1>12. Waiting'
  <2>1. \A w \in page'.busy :
          /\ Asking(w[2], KindFor(w[1]))'
          /\ w[1] \in PayMethod => w[1] \in page'.open /\ calls'[w[2]].method = w[1]
    <3>1. TAKE w \in page'.busy
    <3>2. CASE w = <<d, FreeSlot>>
      <4>1. w[1] = d /\ w[2] = FreeSlot
        BY <3>2
      <4>2. calls'[w[2]] = c
        BY <1>1, <1>5, <4>1
      <4>. QED BY <1>7, <4>1, <4>2 DEF Asking
    <3>3. CASE w \in page.busy
      <4>1. calls'[w[2]] = calls[w[2]]
        BY <1>1, <1>5, <3>3 DEF IInv, Shape
      <4>. QED BY <1>3, <3>3, <4>1 DEF IInv, Waiting, Asking
    <3>. QED BY <1>3, <3>1, <3>2, <3>3
  <2>2. \A s : <<"card", s>> \in page'.busy <=> <<"card", s>> \in page.busy
    BY <1>3, <1>7 DEF PayMethod
  <2>3. Busy(page', "card") <=> Busy(page, "card")
    BY <2>2 DEF Busy
  <2>. QED BY <1>3, <2>1, <2>2, <2>3 DEF IInv, Waiting, Busy
<1>13. Paying'
  <2>1. \A s, r \in Slot :
       Asking(s, "pay")' /\ Asking(r, "pay")' /\ calls'[s].order = calls'[r].order
         => s = r
    BY <1>8 DEF IInv, Paying
  <2>2. \A s \in Slot :
       Asking(s, "pay")' /\ page'.order # None /\ calls'[s].order = page'.order
         => <<calls'[s].method, s>> \in page'.busy
    BY <1>3, <1>8 DEF IInv, Paying
  <2>. QED BY <1>3, <2>1, <2>2 DEF IInv, Paying
<1>14. PaidIsBooked'
  BY <1>3, <1>6 DEF IInv, PaidIsBooked
<1>15. Heard'
  BY <1>3, <1>6, <1>8 DEF IInv, Heard, PaidTwiceOnlyAfterLoss
<1>. QED BY <1>9, <1>10, <1>11, <1>12, <1>13, <1>14, <1>15 DEF IInv

(* The handlers that do so.                                                *)
LEMMA WaitsKeep ==
  ASSUME IInv, TillAssumption,
         ParkSale \/ Discard \/ Authorize \/ \E x : AskCustomer(x)
  PROVE  IInv'
<1>1. CASE ParkSale
  <2>. DEFINE c == [kind |-> "park", lines |-> page.basket, customer |-> page.customer]
  <2>1. Call(c) /\ Show(Wait(page, "park")) /\ UNCHANGED backend
    BY <1>1 DEF ParkSale
  <2>2. CallShape(c) /\ c.kind = "park" /\ KindFor("park") = "park"
    BY DEF CallShape, KindFor, PayMethod
  <2>. HIDE DEF c
  <2>. QED BY <2>1, <2>2, WaitKeeps
<1>2. CASE Discard
  <2>. DEFINE c == [kind |-> "discard", id |-> page.chosen]
  <2>1. Call(c) /\ Show(Wait(page, "picker")) /\ UNCHANGED backend
    BY <1>2 DEF Discard
  <2>2. CallShape(c) /\ c.kind = "discard" /\ KindFor("picker") = "discard"
    BY DEF CallShape, KindFor, PayMethod
  <2>. HIDE DEF c
  <2>. QED BY <2>1, <2>2, WaitKeeps
<1>3. CASE Authorize
  <2>. DEFINE c == [kind |-> "override", tx |-> page.lastTx]
  <2>1. Call(c) /\ Show(Wait(page, "override")) /\ UNCHANGED backend
    BY <1>3 DEF Authorize
  <2>2. /\ CallShape(c) /\ c.kind = "override" /\ KindFor("override") = "override"
        /\ c.tx # None => c.tx \in DOMAIN txs
    BY DEF CallShape, KindFor, PayMethod, IInv, PaidIsBooked
  <2>. HIDE DEF c
  <2>. QED BY <2>1, <2>2, WaitKeeps
<1>4. ASSUME NEW x, AskCustomer(x)
      PROVE  IInv'
  <2>. DEFINE c == [kind |-> "customer", customer |-> x]
  <2>1. Call(c) /\ Show(Wait(page, "customer")) /\ UNCHANGED backend
    BY <1>4 DEF AskCustomer
  <2>2. CallShape(c) /\ c.kind = "customer" /\ KindFor("customer") = "customer"
    BY DEF CallShape, KindFor, PayMethod
  <2>. HIDE DEF c
  <2>. QED BY <2>1, <2>2, WaitKeeps
<1>. QED BY <1>1, <1>2, <1>3, <1>4

-----------------------------------------------------------------------------
(* The events that are about a payment.                                    *)

(* What is rendered of a page, as far as the invariant is about it.        *)
LEMMA ShownSteps ==
  ASSUME NEW p, DOMAIN p = PageFields, Show(p)
  PROVE  /\ DOMAIN page' = PageFields
         /\ page'.order = p.order /\ page'.asked = p.asked /\ page'.phase = p.phase
         /\ page'.open = p.open /\ page'.busy = p.busy
         /\ page'.lastTx = p.lastTx /\ page'.paid = p.paid
  BY DEF Show, PageFields

(* The page is left, or the payment on it, which no payment was asked for. *)
LEMMA LeaveKeeps ==
  ASSUME IInv, TillAssumption,
         DOMAIN page' = PageFields, page'.order = None,
         \A m \in PayMethod : m \notin page'.open,
         page'.busy \subseteq page.busy, \A w \in page'.busy : w[1] \notin PayMethod,
         page'.phase # "authorizing",
         page'.lastTx \in {page.lastTx, None}, page'.paid \in {page.paid, None},
         UNCHANGED calls \/ (calls' = [s \in Slot |-> NoCall] /\ page'.busy = {}),
         UNCHANGED <<orders, txs, granted>>
  PROVE  IInv'
<1>1. /\ DOMAIN calls' = Slot
      /\ \A s \in Slot : CallShape(calls'[s])
      /\ \A s \in Slot : calls'[s] = calls[s] \/ calls'[s].kind = "none"
      /\ \A w \in page'.busy : calls'[w[2]] = calls[w[2]]
  BY DEF IInv, Shape, CallShape, NoCall
<1>2. \A s \in Slot, k \in {"pay", "override", "storno"} :
        Asking(s, k)' => Asking(s, k) /\ calls'[s] = calls[s]
  BY <1>1 DEF Asking
<1>3. Shape'
  BY <1>1 DEF IInv, Shape
<1>4. Granted'
  BY <1>2 DEF IInv, Granted, StornoAuthorized
<1>5. Ordering'
  BY <1>2 DEF IInv, Ordering, AskedIsOrdered
<1>6. Waiting'
  <2>1. \A s : <<"card", s>> \notin page'.busy
    BY DEF PayMethod
  <2>. QED BY <1>1, <2>1 DEF IInv, Waiting, Busy, Asking
<1>7. Paying'
  BY <1>2 DEF IInv, Paying
<1>8. PaidIsBooked'
  BY DEF IInv, PaidIsBooked
<1>9. Heard'
  <2>1. \A k \in DOMAIN txs : page'.order # txs[k].order
    <3>1. \A k \in DOMAIN orders : k # None
      BY AppendGrows DEF IInv, Shape, TillAssumption
    <3>. QED BY <3>1 DEF IInv, Ordering
  <2>. QED BY <1>2, <2>1 DEF IInv, Heard, PaidTwiceOnlyAfterLoss
<1>. QED BY <1>3, <1>4, <1>5, <1>6, <1>7, <1>8, <1>9 DEF IInv

(* A dialog that is closed waits for a call no more, nor do those that are *)
(* not open.                                                               *)
LEMMA NoneWaits ==
  ASSUME IInv, NEW ds, \A m \in PayMethod : m \in page.open => m \in ds
  PROVE  LET q == Close(page, ds) IN
         /\ \A m \in PayMethod : m \notin q.open
         /\ q.busy \subseteq page.busy /\ \A w \in q.busy : w[1] \notin PayMethod
         /\ q.phase # "authorizing"
<1>. DEFINE q == Close(page, ds)
<1>1. /\ q.open = page.open \ Gone(ds)
      /\ q.busy = {w \in page.busy : w[1] \notin Gone(ds)}
      /\ q.phase = IF "card" \in ds THEN "idle" ELSE page.phase
  BY PageShape, CloseSteps
<1>2. ds \subseteq Gone(ds)
  BY DEF Gone
<1>3. \A w \in page.busy : w[1] \in PayMethod => w[1] \in page.open
  BY DEF IInv, Waiting
<1>4. page.phase = "authorizing" => "card" \in page.open
  <2>1. ASSUME NEW s \in Slot, <<"card", s>> \in page.busy
        PROVE  "card" \in page.open
    BY <1>3, <2>1 DEF PayMethod
  <2>. QED BY <2>1 DEF IInv, Waiting, Busy
<1>. HIDE DEF q
<1>5. /\ \A m \in PayMethod : m \notin q.open
      /\ q.busy \subseteq page.busy /\ \A w \in q.busy : w[1] \notin PayMethod
  BY <1>1, <1>2, <1>3
<1>6. q.phase # "authorizing"
  BY <1>1, <1>4 DEF PayMethod
<1>. QED BY <1>5, <1>6 DEF q

(* "Cancel" on a payment dialog.                                           *)
LEMMA CancelKeeps ==
  ASSUME IInv, TillAssumption, NEW m, CancelPay(m)
  PROVE  IInv'
<1>. DEFINE q == Close(page, PayMethod)
            r == [q EXCEPT !.order = None, !.asked = <<>>]
<1>1. DOMAIN q = PageFields /\ q.lastTx = page.lastTx /\ q.paid = page.paid
  BY PageShape, CloseSteps
<1>2. /\ \A k \in PayMethod : k \notin q.open
      /\ q.busy \subseteq page.busy /\ \A w \in q.busy : w[1] \notin PayMethod
      /\ q.phase # "authorizing"
  BY NoneWaits
<1>3. Show(r) /\ UNCHANGED <<calls, backend>>
  BY DEF CancelPay
<1>. HIDE DEF q
<1>4. /\ DOMAIN r = PageFields /\ r.order = None /\ r.open = q.open /\ r.busy = q.busy
      /\ r.phase = q.phase /\ r.lastTx = q.lastTx /\ r.paid = q.paid
  BY <1>1 DEF PageFields
<1>. HIDE DEF r
<1>5. /\ DOMAIN page' = PageFields /\ page'.order = None /\ page'.open = q.open
      /\ page'.busy = q.busy /\ page'.phase = q.phase
      /\ page'.lastTx = page.lastTx /\ page'.paid = page.paid
  BY <1>1, <1>3, <1>4, ShownSteps
<1>. QED BY <1>2, <1>3, <1>5, LeaveKeeps DEF backend

(* The browser loads the page anew.                                        *)
LEMMA ReloadKeeps ==
  ASSUME IInv, TillAssumption, Reload
  PROVE  IInv'
<1>1. /\ DOMAIN Fresh = PageFields /\ Fresh.order = None /\ Fresh.open = {}
      /\ Fresh.busy = {} /\ Fresh.phase = "idle"
      /\ Fresh.lastTx = None /\ Fresh.paid = None
  BY DEF Fresh, PageFields
<1>2. page' = Fresh /\ calls' = [s \in Slot |-> NoCall] /\ UNCHANGED backend
  BY DEF Reload
<1>. HIDE DEF Fresh
<1>. QED BY <1>1, <1>2, LeaveKeeps DEF backend

(* The key closes the dialog of a split payment with the payment, or leaves*)
(* the payments alone.                                                     *)
LEMMA EscapeKeeps ==
  ASSUME IInv, TillAssumption, PressEscape
  PROVE  IInv'
<1>. DEFINE shell == {d \in page.open \cap {"split", "override", "customer"} : ~Busy(page, d)}
                     \cup {IF "discard" \in page.open THEN "discard" ELSE "picker"}
            q == IF "split" \notin shell THEN Close(page, shell)
                 ELSE [Close(page, shell) EXCEPT !.order = None, !.asked = <<>>]
<1>1. UNCHANGED <<calls, backend>>
  BY DEF PressEscape
<1>2. DOMAIN page = PageFields
  BY PageShape
<1>3. PICK p : /\ Show(p)
               /\ \/ p = [Close(q, {"weigh"}) EXCEPT !.weigh = None]
                  \/ p = Close(q, {"receipt"})
                  \/ p = [q EXCEPT !.error = FALSE]
                  \/ p = Close(q, {"return"})
  BY DEF PressEscape
<1>4. shell \cap PayMethod \subseteq {"split"} /\ ("split" \in shell => "split" \in page.open)
  BY DEF PayMethod
<1>5. DOMAIN q = PageFields
  <2>. DEFINE z == Close(page, shell)
  <2>1. DOMAIN z = PageFields
    BY <1>2, CloseSteps
  <2>. HIDE DEF z
  <2>2. DOMAIN [z EXCEPT !.order = None, !.asked = <<>>] = PageFields
    BY <2>1
  <2>. QED BY <2>1, <2>2 DEF z
<1>. HIDE DEF shell
<1>6. Near(q, p)
  <2>. HIDE DEF q
  <2>. DEFINE z == Close(q, {"weigh"})
  <2>1. Near(q, z) /\ Near(q, Close(q, {"receipt"})) /\ Near(q, Close(q, {"return"}))
    BY <1>5, NearClosed DEF PayMethod
  <2>. HIDE DEF z
  <2>2. Near(q, [z EXCEPT !.weigh = None])
    BY <2>1, NearOthers, NearIsTransitive DEF Near
  <2>3. Near(q, [q EXCEPT !.error = FALSE])
    BY <1>5, NearOthers
  <2>. QED BY <1>3, <2>1, <2>2, <2>3 DEF z
<1>7. CASE "split" \notin shell
  <2>1. shell \cap PayMethod = {}
    BY <1>4, <1>7
  <2>2. Near(page, q)
    BY <1>2, <1>7, <2>1, NearClosed
  <2>. HIDE DEF q
  <2>3. Near(page, p)
    BY <1>6, <2>2, NearIsTransitive
  <2>. QED BY <1>1, <1>3, <2>3, NearShown, ClickIsCalm, CalmKeeps
<1>8. CASE "split" \in shell
  <2>. DEFINE z == Close(page, shell)
  <2>1. DOMAIN z = PageFields /\ z.lastTx = page.lastTx /\ z.paid = page.paid
    BY <1>2, CloseSteps
  <2>2. \A m \in PayMethod : m \in page.open => m \in shell
    BY <1>4, <1>8 DEF IInv, Paying, PayMethod
  <2>3. /\ \A m \in PayMethod : m \notin z.open
        /\ z.busy \subseteq page.busy /\ \A w \in z.busy : w[1] \notin PayMethod
        /\ z.phase # "authorizing"
    BY <2>2, NoneWaits
  <2>. HIDE DEF z
  <2>4. q = [z EXCEPT !.order = None, !.asked = <<>>]
    BY <1>8 DEF z
  <2>5. /\ q.order = None /\ q.open = z.open /\ q.busy = z.busy
        /\ q.phase = z.phase /\ q.lastTx = z.lastTx /\ q.paid = z.paid
    BY <2>1, <2>4 DEF PageFields
  <2>. HIDE DEF q
  <2>6. /\ DOMAIN page' = PageFields /\ page'.order = None
        /\ \A m \in PayMethod : m \notin page'.open
        /\ page'.busy \subseteq q.busy /\ page'.phase = q.phase
        /\ page'.lastTx \in {q.lastTx, None} /\ page'.paid \in {q.paid, None}
    BY <1>3, <1>6, <2>3, <2>5, ShownSteps DEF Near
  <2>. QED BY <1>1, <2>1, <2>3, <2>5, <2>6, LeaveKeeps DEF backend
<1>. QED BY <1>7, <1>8

(* The order is there: its dialog opens, and that of a card asks for it.   *)
LEMMA OrderKeeps ==
  ASSUME IInv, TillAssumption, NEW s \in Slot, AnswerOrder(s)
  PROVE  IInv'
<1>. DEFINE c == calls[s]
            m == c.method
            n == Len(orders) + 1
            z == Close(page, PayMethod \ {m})
            q == [Open(z, m) EXCEPT !.order = n, !.asked = c.lines]
            starts == m = "card" /\ "card" \notin page.open
            d == IF starts THEN PayCall("card", n, c.lines) ELSE NoCall
            p == IF starts THEN [q EXCEPT !.phase = "authorizing",
                                          !.busy = @ \cup {<<"card", s>>}] ELSE q
<1>1. /\ Asking(s, "order") /\ UNCHANGED <<txs, granted>>
      /\ \/ Ordered(c) /\ Show(p) /\ calls' = [calls EXCEPT ![s] = d]
         \/ /\ Ordered(c) \/ UNCHANGED orders
            /\ Show([page EXCEPT !.error = TRUE]) /\ Return(s)
  <2>1. DOMAIN z = PageFields
    BY PageShape, CloseSteps
  <2>2. Ready(page, c) = q
    BY DEF Ready
  <2>. HIDE DEF z
  <2>3. q.order = n /\ q.asked = c.lines
    BY <2>1 DEF Open, PageFields
  <2>. HIDE DEF q
  <2>. QED BY <2>2, <2>3 DEF AnswerOrder
<1>2. CASE /\ Ordered(c) \/ UNCHANGED orders
           /\ Show([page EXCEPT !.error = TRUE]) /\ Return(s)
  BY <1>1, <1>2, LostOrderKeeps
<1>3. CASE Ordered(c) /\ Show(p) /\ calls' = [calls EXCEPT ![s] = d]
  <2>1. m \in PayMethod
    BY <1>1 DEF IInv, Shape, CallShape, Asking
  <2>2. /\ DOMAIN z = PageFields /\ z.order = page.order /\ z.asked = page.asked
        /\ z.lastTx = page.lastTx /\ z.paid = page.paid
        /\ z.open = page.open \ (PayMethod \ {m})
        /\ z.busy = {w \in page.busy : w[1] \notin PayMethod \ {m}}
        /\ z.phase = IF m # "card" THEN "idle" ELSE page.phase
    <3>. DEFINE ds == PayMethod \ {m}
    <3>1. Gone(ds) = ds
      BY DEF Gone, PayMethod
    <3>2. "card" \in ds <=> m # "card"
      BY DEF PayMethod
    <3>. HIDE DEF ds
    <3>3. /\ DOMAIN z = PageFields /\ z.order = page.order /\ z.asked = page.asked
          /\ z.lastTx = page.lastTx /\ z.paid = page.paid
          /\ z.open = page.open \ ds
          /\ z.busy = {w \in page.busy : w[1] \notin ds}
          /\ z.phase = IF "card" \in ds THEN "idle" ELSE page.phase
      <4>1. z = Close(page, ds)
        BY DEF ds
      <4>. HIDE DEF z
      <4>2. /\ DOMAIN z = PageFields /\ z.order = page.order /\ z.asked = page.asked
            /\ z.lastTx = page.lastTx /\ z.paid = page.paid
            /\ z.open = page.open \ Gone(ds)
            /\ z.busy = {w \in page.busy : w[1] \notin Gone(ds)}
            /\ z.phase = IF "card" \in ds THEN "idle" ELSE page.phase
        BY <4>1, PageShape, CloseSteps
      <4>. QED BY <3>1, <4>2
    <3>. HIDE DEF z, m
    <3>. QED BY <3>2, <3>3 DEF ds
  <2>. HIDE DEF z, n, c
  <2>3. /\ DOMAIN p = PageFields /\ p.order = n /\ p.asked = c.lines
        /\ p.open = z.open \cup {m} /\ p.lastTx = z.lastTx /\ p.paid = z.paid
        /\ p.busy = IF starts THEN z.busy \cup {<<"card", s>>} ELSE z.busy
        /\ p.phase = IF starts THEN "authorizing" ELSE z.phase
    BY <2>2 DEF PageFields, Open
  <2>. HIDE DEF p, m, starts, d
  <2>4. /\ DOMAIN page' = PageFields
        /\ page'.order = n /\ page'.asked = c.lines
        /\ page'.open = (page.open \ PayMethod) \cup (page.open \cap {m}) \cup {m}
        /\ page'.busy = {w \in page.busy : w[1] \notin PayMethod \ {m}}
                        \cup (IF starts THEN {<<"card", s>>} ELSE {})
        /\ page'.phase = IF starts THEN "authorizing"
                         ELSE IF m # "card" THEN "idle" ELSE page.phase
        /\ page'.lastTx = page.lastTx /\ page'.paid = page.paid
    <3>1. /\ DOMAIN page' = PageFields /\ page'.order = p.order /\ page'.asked = p.asked
          /\ page'.phase = p.phase /\ page'.open = p.open /\ page'.busy = p.busy
          /\ page'.lastTx = p.lastTx /\ page'.paid = p.paid
      BY <1>3, <2>3, ShownSteps
    <3>. QED BY <2>1, <2>2, <2>3, <3>1
  <2>5. /\ MoreOrders /\ n \in DOMAIN orders' /\ n \notin DOMAIN orders
        /\ orders'[n].lines = c.lines /\ n # None
    BY <1>3, OrderAdded DEF n, TillAssumption
  <2>6. starts => m = "card" /\ "card" \notin page.open
    BY DEF starts
  <2>7. /\ starts => d.kind = "pay" /\ d.method = "card" /\ d.order = n /\ d.asked = c.lines
        /\ ~starts => d.kind = "none"
        /\ CallShape(d)
    BY DEF d, PayCall, NoCall, CallShape, PayMethod
  <2>8. /\ DOMAIN calls' = Slot
        /\ \A r \in Slot : calls'[r] = IF r = s THEN d ELSE calls[r]
    BY <1>3 DEF IInv, Shape
  <2>9. \A w \in page.busy : w[2] # s
    BY <1>1, WhoWaits
  <2>10. \A w \in page'.busy :
           \/ w \in page.busy /\ w[2] # s /\ calls'[w[2]] = calls[w[2]]
           \/ starts /\ w = <<"card", s>>
    BY <2>4, <2>8, <2>9 DEF IInv, Shape
  <2>11. \A r \in Slot : Asking(r, "pay")' =>
           \/ r # s /\ Asking(r, "pay") /\ calls'[r] = calls[r]
           \/ r = s /\ starts /\ calls'[r] = d
    BY <2>7, <2>8 DEF Asking
  <2>12. Shape'
    <3>1. page'.busy \subseteq Waiters \X Slot
      BY <2>10 DEF IInv, Shape, Waiters, PayMethod
    <3>. QED BY <1>1, <2>4, <2>5, <2>7, <2>8, <3>1 DEF IInv, Shape, MoreOrders
  <2>13. Granted'
    BY <1>1, <2>7, <2>8 DEF IInv, Granted, Asking, StornoAuthorized
  <2>14. Ordering'
    <3>1. \A r \in Slot : Asking(r, "pay")' =>
            /\ calls'[r].order \in DOMAIN orders'
            /\ calls'[r].asked = orders'[calls'[r].order].lines
      BY <2>5, <2>7, <2>11 DEF IInv, Ordering, AskedIsOrdered, MoreOrders
    <3>. QED BY <1>1, <2>4, <2>5, <3>1 DEF IInv, Ordering, AskedIsOrdered, MoreOrders
  <2>15. Waiting'
    <3>1. \A w \in page'.busy :
            /\ Asking(w[2], KindFor(w[1]))'
            /\ w[1] \in PayMethod => w[1] \in page'.open /\ calls'[w[2]].method = w[1]
      <4>1. TAKE w \in page'.busy
      <4>2. CASE w \in page.busy /\ w[2] # s /\ calls'[w[2]] = calls[w[2]]
        BY <2>4, <4>1, <4>2 DEF IInv, Waiting, Asking
      <4>3. CASE starts /\ w = <<"card", s>>
        <5>1. w[1] = "card" /\ w[2] = s /\ calls'[s] = d
          BY <2>8, <4>3
        <5>. QED BY <2>4, <2>6, <2>7, <4>3, <5>1 DEF Asking, KindFor, PayMethod
      <4>. QED BY <2>10, <4>1, <4>2, <4>3
    <3>2. CASE starts
      <4>1. \A r \in Slot : <<"card", r>> \notin page.busy
        BY <2>6, <3>2 DEF IInv, Waiting, PayMethod
      <4>2. \A r \in Slot : <<"card", r>> \in page'.busy <=> r = s
        BY <2>4, <3>2, <4>1
      <4>3. Busy(page', "card") /\ page'.phase = "authorizing"
        BY <2>4, <3>2, <4>2 DEF Busy
      <4>. QED BY <3>1, <4>2, <4>3 DEF Waiting, Busy
    <3>3. CASE ~starts
      <4>1. \A r \in Slot : <<"card", r>> \in page'.busy <=>
              m = "card" /\ <<"card", r>> \in page.busy
        BY <2>4, <3>3 DEF PayMethod
      <4>2. Busy(page', "card") <=> page'.phase = "authorizing"
        BY <2>4, <3>3, <4>1 DEF IInv, Waiting, Busy
      <4>. QED BY <3>1, <4>1, <4>2 DEF IInv, Waiting, Busy
    <3>. QED BY <3>2, <3>3
  <2>16. Paying'
    <3>1. \A k, j \in PayMethod : k \in page'.open /\ j \in page'.open => k = j
      BY <2>4
    <3>2. \A r \in Slot :
            Asking(r, "pay")' /\ page'.order # None /\ calls'[r].order = page'.order
              => <<calls'[r].method, r>> \in page'.busy
      BY <2>4, <2>5, <2>7, <2>11 DEF IInv, Ordering
    <3>3. \A r, t \in Slot :
            Asking(r, "pay")' /\ Asking(t, "pay")' /\ calls'[r].order = calls'[t].order
              => r = t
      BY <2>5, <2>7, <2>11 DEF IInv, Ordering, Paying
    <3>. QED BY <2>4, <2>5, <3>1, <3>2, <3>3 DEF Paying
  <2>17. PaidIsBooked'
    BY <1>1, <2>4 DEF IInv, PaidIsBooked
  <2>18. Heard'
    <3>1. \A k \in DOMAIN txs : txs[k].order # n
      BY <2>5 DEF IInv, Ordering
    <3>. QED BY <1>1, <2>4, <2>7, <2>11, <3>1 DEF IInv, Heard, PaidTwiceOnlyAfterLoss
  <2>. QED BY <2>12, <2>13, <2>14, <2>15, <2>16, <2>17, <2>18 DEF IInv
<1>. QED BY <1>1, <1>2, <1>3

(* Pressing the button of a payment dialog.                                *)
LEMMA ConfirmKeeps ==
  ASSUME IInv, TillAssumption, NEW m \in PayMethod, ConfirmPay(m)
  PROVE  IInv'
<1>. DEFINE c == PayCall(m, page.order, page.asked)
            p == [Wait(page, m) EXCEPT !.phase = IF m = "card" THEN "authorizing" ELSE @]
<1>1. /\ m \in page.open /\ page.order # None /\ ~Busy(page, m)
      /\ page.order \in DOMAIN orders /\ page.asked = orders[page.order].lines
  <2>1. m # "page"
    BY DEF PayMethod
  <2>2. m \in page.open
    BY <2>1, TopIsOpen DEF ConfirmPay
  <2>3. ~Busy(page, m)
    BY DEF ConfirmPay, CanConfirm, IInv, Waiting
  <2>. QED BY <2>2, <2>3 DEF IInv, Paying, Ordering, AskedIsOrdered
<1>2. Call(c) /\ Show(p) /\ UNCHANGED <<orders, txs, granted>>
  BY DEF ConfirmPay, backend
<1>3. /\ FreeSlot \in Slot /\ Asking(FreeSlot, "none")
      /\ calls' = [calls EXCEPT ![FreeSlot] = c]
      /\ \A w \in page.busy : w[2] # FreeSlot
  BY <1>2, FreeSlotIsFree
<1>4. DOMAIN page = PageFields
  BY PageShape
<1>5. /\ DOMAIN page' = PageFields
      /\ page'.order = page.order /\ page'.asked = page.asked /\ page'.open = page.open
      /\ page'.lastTx = page.lastTx /\ page'.paid = page.paid
      /\ page'.phase = IF m = "card" THEN "authorizing" ELSE page.phase
      /\ page'.busy = page.busy \cup {<<m, FreeSlot>>}
  <2>1. /\ DOMAIN p = PageFields
        /\ p.order = page.order /\ p.asked = page.asked /\ p.open = page.open
        /\ p.lastTx = page.lastTx /\ p.paid = page.paid
        /\ p.phase = IF m = "card" THEN "authorizing" ELSE page.phase
        /\ p.busy = page.busy \cup {<<m, FreeSlot>>}
    BY <1>4 DEF Wait, PageFields
  <2>. HIDE DEF p
  <2>. QED BY <1>2, <2>1, ShownSteps
<1>6. /\ c.kind = "pay" /\ c.method = m /\ c.order = page.order /\ c.asked = page.asked
      /\ CallShape(c)
  BY DEF PayCall, CallShape
<1>. HIDE DEF c, p, FreeSlot
<1>7. /\ DOMAIN calls' = Slot
      /\ \A r \in Slot : calls'[r] = IF r = FreeSlot THEN c ELSE calls[r]
  BY <1>3 DEF IInv, Shape
<1>8. \A r \in Slot : Asking(r, "pay")' =>
        \/ r # FreeSlot /\ Asking(r, "pay") /\ calls'[r] = calls[r]
        \/ r = FreeSlot /\ calls'[r] = c
  BY <1>7 DEF Asking
<1>9. \A r \in Slot : Asking(r, "pay") => calls[r].order # page.order
  <2>1. ASSUME NEW r \in Slot, Asking(r, "pay"), calls[r].order = page.order
        PROVE  FALSE
    <3>1. calls[r].method \in PayMethod
      BY <2>1 DEF IInv, Shape, CallShape, Asking
    <3>2. <<calls[r].method, r>> \in page.busy
      BY <1>1, <2>1 DEF IInv, Paying
    <3>3. calls[r].method = m
      BY <1>1, <3>1, <3>2 DEF IInv, Waiting, Paying
    <3>. QED BY <1>1, <3>2, <3>3 DEF Busy
  <2>. QED BY <2>1
<1>10. Shape'
  <2>1. page'.busy \subseteq Waiters \X Slot
    BY <1>3, <1>5 DEF IInv, Shape, Waiters
  <2>. QED BY <1>2, <1>5, <1>6, <1>7, <2>1 DEF IInv, Shape
<1>11. Granted'
  BY <1>2, <1>6, <1>7 DEF IInv, Granted, Asking, StornoAuthorized
<1>12. Ordering'
  BY <1>1, <1>2, <1>5, <1>6, <1>8 DEF IInv, Ordering, AskedIsOrdered
<1>13. Waiting'
  <2>1. \A w \in page'.busy :
          /\ Asking(w[2], KindFor(w[1]))'
          /\ w[1] \in PayMethod => w[1] \in page'.open /\ calls'[w[2]].method = w[1]
    <3>1. TAKE w \in page'.busy
    <3>2. CASE w \in page.busy
      <4>1. calls'[w[2]] = calls[w[2]]
        BY <1>3, <1>7, <3>2 DEF IInv, Shape
      <4>. QED BY <1>5, <3>2, <4>1 DEF IInv, Waiting, Asking
    <3>3. CASE w = <<m, FreeSlot>>
      <4>1. w[1] = m /\ w[2] = FreeSlot /\ calls'[FreeSlot] = c
        BY <1>3, <1>7, <3>3
      <4>. QED BY <1>1, <1>5, <1>6, <4>1 DEF Asking, KindFor
    <3>. QED BY <1>5, <3>1, <3>2, <3>3
  <2>2. CASE m = "card"
    <3>1. \A r \in Slot : <<"card", r>> \notin page.busy
      BY <1>1, <2>2 DEF Busy
    <3>2. \A r \in Slot : <<"card", r>> \in page'.busy <=> r = FreeSlot
      BY <1>5, <2>2, <3>1
    <3>3. Busy(page', "card") /\ page'.phase = "authorizing"
      BY <1>3, <1>5, <2>2, <3>2 DEF Busy
    <3>. QED BY <2>1, <3>2, <3>3 DEF Waiting, Busy
  <2>3. CASE m # "card"
    <3>1. \A r : <<"card", r>> \in page'.busy <=> <<"card", r>> \in page.busy
      BY <1>5, <2>3
    <3>2. Busy(page', "card") <=> page'.phase = "authorizing"
      BY <1>5, <2>3, <3>1 DEF IInv, Waiting, Busy
    <3>. QED BY <2>1, <3>1, <3>2 DEF IInv, Waiting, Busy
  <2>. QED BY <2>2, <2>3
<1>14. Paying'
  BY <1>1, <1>5, <1>6, <1>8, <1>9 DEF IInv, Paying
<1>15. PaidIsBooked'
  BY <1>2, <1>5 DEF IInv, PaidIsBooked
<1>16. Heard'
  BY <1>2, <1>5, <1>6, <1>8 DEF IInv, Heard, PaidTwiceOnlyAfterLoss
<1>. QED BY <1>10, <1>11, <1>12, <1>13, <1>14, <1>15, <1>16 DEF IInv

(* A payment is answered, refused, or booked and not heard of.             *)
LEMMA PayKeeps ==
  ASSUME IInv, TillAssumption, NEW s \in Slot, AnswerPay(s)
  PROVE  IInv'
<1>. DEFINE o == calls[s].order
            n == Len(txs) + 1
            Row(h) == [order |-> o, voided |-> FALSE, heard |-> h]
<1>1. /\ Asking(s, "pay") /\ Return(s) /\ UNCHANGED <<orders, granted>>
      /\ o \in DOMAIN orders
  BY DEF AnswerPay, IInv, Ordering
<1>2. /\ DOMAIN calls' = Slot
      /\ \A r \in Slot : calls'[r] = IF r = s THEN NoCall ELSE calls[r]
      /\ NoCall.kind = "none" /\ CallShape(NoCall)
  BY <1>1 DEF IInv, Shape, Return, NoCall, CallShape
<1>3. \A r \in Slot, k \in {"pay", "override", "storno"} :
        Asking(r, k)' => r # s /\ Asking(r, k) /\ calls'[r] = calls[r]
  BY <1>2 DEF Asking
<1>4. \A r \in Slot : Asking(r, "pay")' => calls'[r].order # o
  BY <1>1, <1>3 DEF IInv, Paying
<1>5. \A k \in DOMAIN orders : k # None
  BY AppendGrows DEF IInv, Shape, TillAssumption
<1>6. DOMAIN page = PageFields
  BY PageShape
<1>7. \A r \in Slot : CallShape(calls'[r])
  BY <1>2 DEF IInv, Shape
<1>. HIDE DEF o
<1>8. ASSUME NEW h \in BOOLEAN, txs' = Append(txs, Row(h))
      PROVE  /\ IsSeq(txs') /\ n \in Nat
             /\ DOMAIN txs = 1 .. Len(txs) /\ DOMAIN txs' = 1 .. n
             /\ \A k \in DOMAIN txs : k \in DOMAIN txs' /\ k < n /\ txs'[k] = txs[k]
             /\ \A k \in DOMAIN txs' : k \in DOMAIN txs \/ k = n
             /\ DOMAIN txs'[n] = {"order", "voided", "heard"}
             /\ txs'[n].order = o /\ ~txs'[n].voided /\ txs'[n].heard = h
             /\ PaidTwiceOnlyAfterLoss'
  <2>. DEFINE e == Row(h)
  <2>1. /\ DOMAIN e = {"order", "voided", "heard"}
        /\ e.order = o /\ ~e.voided /\ e.heard = h
    OBVIOUS
  <2>. HIDE DEF e
  <2>2. /\ IsSeq(txs') /\ Len(txs) \in Nat
        /\ DOMAIN txs = 1 .. Len(txs) /\ DOMAIN txs' = 1 .. n
        /\ \A k \in DOMAIN txs : txs'[k] = txs[k]
        /\ txs'[n] = e
    <3>1. IsSeq(txs) /\ txs' = Append(txs, e)
      BY <1>8 DEF e, IInv, Shape
    <3>. QED BY <3>1, AppendGrows
  <2>3. \A j \in DOMAIN txs : txs[j].heard => txs[j].order # o
    BY <1>1 DEF IInv, Heard, o
  <2>4. PaidTwiceOnlyAfterLoss'
    <3>1. ASSUME NEW j \in DOMAIN txs', NEW k \in DOMAIN txs',
                 j < k, txs'[j].order = txs'[k].order
          PROVE  ~txs'[j].heard
      <4>1. j \in DOMAIN txs
        BY <2>2, <3>1
      <4>2. CASE k \in DOMAIN txs
        BY <2>2, <3>1, <4>1, <4>2 DEF IInv, Heard, PaidTwiceOnlyAfterLoss
      <4>3. CASE k = n
        BY <2>1, <2>2, <2>3, <3>1, <4>1, <4>3
      <4>. QED BY <2>2, <4>2, <4>3
    <3>. QED BY <3>1 DEF PaidTwiceOnlyAfterLoss
  <2>. QED BY <2>1, <2>2, <2>4
<1>9. ASSUME NEW h \in BOOLEAN, txs' = Append(txs, Row(h)) \/ UNCHANGED txs
      PROVE  /\ Granted' /\ IsSeq(txs')
             /\ \A k \in DOMAIN txs' :
                  /\ DOMAIN txs'[k] = {"order", "voided", "heard"}
                  /\ txs'[k].order \in DOMAIN orders'
  <2>1. CASE txs' = Append(txs, Row(h))
    <3>1. Granted'
      BY <1>1, <1>3, <1>8, <2>1 DEF IInv, Granted, StornoAuthorized
    <3>2. \A k \in DOMAIN txs' :
            /\ DOMAIN txs'[k] = {"order", "voided", "heard"}
            /\ txs'[k].order \in DOMAIN orders'
      BY <1>1, <1>8, <2>1 DEF IInv, Shape, Ordering
    <3>. QED BY <1>8, <2>1, <3>1, <3>2
  <2>2. CASE UNCHANGED txs
    BY <1>1, <1>3, <2>2 DEF IInv, Granted, StornoAuthorized, Shape, Ordering
  <2>. QED BY <1>9, <2>1, <2>2
<1>10. CASE /\ txs' = Append(txs, Row(TRUE))
            /\ Show(Settled(Paid(page, o, n), s))
  <2>. DEFINE y == Open(page, "receipt")
              z == Close(y, PayMethod)
              x == [z EXCEPT !.basket = <<>>, !.customer = None, !.order = None,
                             !.asked = <<>>, !.lastTx = n, !.paid = o]
              p == Settled(x, s)
  <2>1. /\ DOMAIN y = PageFields /\ y.order = page.order /\ y.busy = page.busy
        /\ y.open = page.open \cup {"receipt"}
    BY <1>6 DEF Open, PageFields
  <2>2. "card" \in PayMethod /\ Gone(PayMethod) = PayMethod /\ "receipt" \notin PayMethod
    BY DEF PayMethod, Gone
  <2>3. Show(p)
    BY <1>10 DEF Paid
  <2>. HIDE DEF y
  <2>4. /\ DOMAIN z = PageFields /\ z.phase = "idle"
        /\ z.open = y.open \ PayMethod
        /\ z.busy = {w \in y.busy : w[1] \notin PayMethod}
    <3>1. /\ DOMAIN z = PageFields
          /\ z.phase = IF "card" \in PayMethod THEN "idle" ELSE y.phase
          /\ z.open = y.open \ Gone(PayMethod)
          /\ z.busy = {w \in y.busy : w[1] \notin Gone(PayMethod)}
      BY <2>1, CloseSteps
    <3>. QED BY <2>2, <3>1
  <2>. HIDE DEF z, n
  <2>5. /\ DOMAIN x = PageFields /\ x.phase = z.phase /\ x.open = z.open
        /\ x.busy = z.busy
        /\ x.order = None /\ x.asked = <<>> /\ x.lastTx = n /\ x.paid = o
    BY <2>4 DEF PageFields
  <2>. HIDE DEF x
  <2>6. /\ DOMAIN p = PageFields /\ p.phase = x.phase /\ p.open = x.open
        /\ p.busy = {w \in x.busy : w[2] # s}
        /\ p.order = x.order /\ p.asked = x.asked
        /\ p.lastTx = x.lastTx /\ p.paid = x.paid
    BY <2>5 DEF Settled, PageFields
  <2>. HIDE DEF p
  <2>7. /\ DOMAIN page' = PageFields /\ page'.phase = "idle"
        /\ \A m \in PayMethod : m \notin page'.open
        /\ page'.busy \subseteq page.busy
        /\ \A w \in page'.busy : w[1] \notin PayMethod /\ w[2] # s
        /\ page'.order = None /\ page'.lastTx = n /\ page'.paid = o
    BY <2>1, <2>3, <2>4, <2>5, <2>6, ShownSteps
  <2>8. Shape'
    BY <1>1, <1>2, <1>7, <1>9, <1>10, <2>7 DEF IInv, Shape
  <2>9. Ordering'
    BY <1>1, <1>3, <1>9, <1>10, <2>7 DEF IInv, Ordering, AskedIsOrdered
  <2>10. Waiting'
    <3>1. \A w \in page'.busy : calls'[w[2]] = calls[w[2]]
      BY <1>2, <2>7 DEF IInv, Shape
    <3>2. \A r : <<"card", r>> \notin page'.busy
      BY <2>2, <2>7
    <3>. QED BY <2>7, <3>1, <3>2 DEF IInv, Waiting, Busy, Asking
  <2>11. Paying'
    BY <1>3, <2>7 DEF IInv, Paying
  <2>12. PaidIsBooked'
    <3>1. n \in DOMAIN txs' /\ txs'[n].order = o
      BY <1>8, <1>10 DEF n
    <3>. QED BY <2>7, <3>1 DEF PaidIsBooked
  <2>13. Heard'
    <3>1. \A k \in DOMAIN txs' : page'.order # txs'[k].order
      BY <1>1, <1>5, <1>9, <1>10, <2>7
    <3>2. \A k \in DOMAIN txs' : txs'[k].heard =>
            \A r \in Slot : Asking(r, "pay")' => calls'[r].order # txs'[k].order
      BY <1>3, <1>4, <1>8, <1>10 DEF IInv, Heard
    <3>. QED BY <1>8, <1>10, <3>1, <3>2 DEF Heard
  <2>. QED BY <1>9, <1>10, <2>8, <2>9, <2>10, <2>11, <2>12, <2>13 DEF IInv
<1>11. ASSUME NEW f \in {"declined", "error"},
              Show([Settled(page, s) EXCEPT
                      !.phase = IF <<"card", s>> \in page.busy THEN f ELSE @]),
              txs' = Append(txs, Row(FALSE)) \/ UNCHANGED txs
       PROVE  IInv'
  <2>. DEFINE z == Settled(page, s)
              p == [z EXCEPT !.phase = IF <<"card", s>> \in page.busy THEN f ELSE @]
  <2>1. /\ DOMAIN z = PageFields /\ z.phase = page.phase /\ z.open = page.open
        /\ z.busy = {w \in page.busy : w[2] # s}
        /\ z.order = page.order /\ z.asked = page.asked
        /\ z.lastTx = page.lastTx /\ z.paid = page.paid
    BY <1>6 DEF Settled, PageFields
  <2>2. Show(p)
    BY <1>11
  <2>. HIDE DEF z
  <2>3. /\ DOMAIN p = PageFields /\ p.open = z.open /\ p.busy = z.busy
        /\ p.phase = IF <<"card", s>> \in page.busy THEN f ELSE z.phase
        /\ p.order = z.order /\ p.asked = z.asked
        /\ p.lastTx = z.lastTx /\ p.paid = z.paid
    BY <2>1 DEF PageFields
  <2>. HIDE DEF p
  <2>4. /\ DOMAIN page' = PageFields /\ page'.open = page.open
        /\ page'.busy = {w \in page.busy : w[2] # s}
        /\ page'.phase = IF <<"card", s>> \in page.busy THEN f ELSE page.phase
        /\ page'.order = page.order /\ page'.asked = page.asked
        /\ page'.lastTx = page.lastTx /\ page'.paid = page.paid
    BY <2>1, <2>2, <2>3, ShownSteps
  <2>5. Shape'
    BY <1>1, <1>2, <1>7, <1>9, <1>11, <2>4 DEF IInv, Shape
  <2>6. Ordering'
    BY <1>1, <1>3, <1>9, <1>11, <2>4 DEF IInv, Ordering, AskedIsOrdered
  <2>7. Waiting'
    <3>1. \A w \in page'.busy : calls'[w[2]] = calls[w[2]]
      BY <1>2, <2>4 DEF IInv, Shape
    <3>2. \A w \in page'.busy :
            /\ Asking(w[2], KindFor(w[1]))'
            /\ w[1] \in PayMethod => w[1] \in page'.open /\ calls'[w[2]].method = w[1]
      BY <2>4, <3>1 DEF IInv, Waiting, Asking
    <3>3. CASE <<"card", s>> \in page.busy
      <4>1. \A r \in Slot : <<"card", r>> \notin page'.busy
        BY <2>4, <3>3 DEF IInv, Waiting
      <4>2. page'.phase # "authorizing"
        BY <1>11, <2>4, <3>3
      <4>. QED BY <3>2, <4>1, <4>2 DEF Waiting, Busy
    <3>4. CASE <<"card", s>> \notin page.busy
      <4>1. \A r \in Slot : <<"card", r>> \in page'.busy <=> <<"card", r>> \in page.busy
        BY <2>4, <3>4
      <4>2. Busy(page', "card") <=> page'.phase = "authorizing"
        BY <2>4, <3>4, <4>1 DEF IInv, Waiting, Busy
      <4>. QED BY <3>2, <4>1, <4>2 DEF IInv, Waiting, Busy
    <3>. QED BY <3>3, <3>4
  <2>8. Paying'
    <3>1. \A r \in Slot :
            Asking(r, "pay")' /\ page'.order # None /\ calls'[r].order = page'.order
              => <<calls'[r].method, r>> \in page'.busy
      BY <1>3, <2>4 DEF IInv, Paying
    <3>2. \A r, t \in Slot :
            Asking(r, "pay")' /\ Asking(t, "pay")' /\ calls'[r].order = calls'[t].order
              => r = t
      BY <1>3 DEF IInv, Paying
    <3>. QED BY <2>4, <3>1, <3>2 DEF IInv, Paying
  <2>9. /\ \A k \in DOMAIN txs : k \in DOMAIN txs' /\ txs'[k] = txs[k]
        /\ \A k \in DOMAIN txs' : k \in DOMAIN txs \/ ~txs'[k].heard
        /\ PaidTwiceOnlyAfterLoss'
    <3>1. CASE txs' = Append(txs, Row(FALSE))
      BY <1>8, <3>1
    <3>2. CASE UNCHANGED txs
      BY <3>2 DEF IInv, Heard, PaidTwiceOnlyAfterLoss
    <3>. QED BY <1>11, <3>1, <3>2
  <2>10. PaidIsBooked'
    BY <2>4, <2>9 DEF IInv, PaidIsBooked
  <2>11. Heard'
    BY <1>3, <2>4, <2>9 DEF IInv, Heard
  <2>. QED BY <1>9, <1>11, <2>5, <2>6, <2>7, <2>8, <2>10, <2>11 DEF IInv
<1>12. \/ txs' = Append(txs, Row(TRUE)) /\ Show(Settled(Paid(page, o, n), s))
       \/ \E f \in {"declined", "error"} :
            /\ Show([Settled(page, s) EXCEPT
                       !.phase = IF <<"card", s>> \in page.busy THEN f ELSE @])
            /\ txs' = Append(txs, Row(FALSE)) \/ UNCHANGED txs
  BY DEF AnswerPay, Booked, PayFailed, o
<1>. QED BY <1>10, <1>11, <1>12

-----------------------------------------------------------------------------
(* The invariant holds, and with it what the runs check.                   *)

(* The till opens with an empty page, no call and an empty day.            *)
LEMMA InitInductive ==
  ASSUME Init
  PROVE  IInv
<1>1. /\ page = Fresh /\ calls = [s \in Slot |-> NoCall]
      /\ orders = <<>> /\ txs = <<>> /\ granted = {}
  BY DEF Init
<1>2. /\ DOMAIN page = PageFields /\ page.busy = {} /\ page.open = {}
      /\ page.phase = "idle" /\ page.order = None
      /\ page.lastTx = None /\ page.paid = None
  BY <1>1 DEF Fresh, PageFields
<1>3. DOMAIN calls = Slot /\ \A s \in Slot : calls[s].kind = "none" /\ CallShape(calls[s])
  BY <1>1 DEF NoCall, CallShape
<1>4. IsSeq(orders) /\ IsSeq(txs) /\ DOMAIN txs = {}
  <2>1. <<>> \in Seq({}) /\ DOMAIN <<>> = {}
    BY EmptySeq
  <2>. QED BY <1>1, <2>1 DEF IsSeq
<1>5. \A s \in Slot :
        ~Asking(s, "pay") /\ ~Asking(s, "override") /\ ~Asking(s, "storno")
  BY <1>3 DEF Asking
<1>6. Shape /\ Granted /\ Ordering
  BY <1>1, <1>2, <1>3, <1>4, <1>5
     DEF Shape, Granted, Ordering, AskedIsOrdered, StornoAuthorized
<1>7. Waiting /\ Paying
  BY <1>2, <1>5 DEF Waiting, Paying, Busy, PayMethod
<1>8. PaidIsBooked /\ Heard
  BY <1>2, <1>4, <1>5 DEF PaidIsBooked, Heard, PaidTwiceOnlyAfterLoss
<1>. QED BY <1>6, <1>7, <1>8 DEF IInv

(* Every event of the browser keeps it.                                    *)
LEMMA NextInductive ==
  ASSUME IInv, TillAssumption, Next
  PROVE  IInv'
<1>1. ASSUME NEW s \in Slot, Answer(s)
      PROVE  IInv'
  BY <1>1, AnswersKeep, OrderKeeps, PayKeeps, ManagerKeeps DEF Answer
<1>2. ASSUME NEW i \in Variant, AddFound(i) \/ AddByBarcode(i)
      PROVE  IInv'
  BY <1>2, BasketKeeps, CallsKeep
<1>3. ASSUME NEW k, RemoveItemAt(k) \/ \E n \in 0 .. MaxQty : UpdateQty(k, n)
      PROVE  IInv'
  BY <1>3, BasketKeeps
<1>4. ASSUME ConfirmWeight \/ CancelWeight \/ DoVoidSale \/ RemoveCustomer \/ ConfirmStorno
      PROVE  IInv'
  BY <1>4, BasketKeeps
<1>5. ASSUME NEW m \in PayMethod, PressPay(m) \/ ConfirmPay(m) \/ CancelPay(m)
      PROVE  IInv'
  BY <1>5, CallsKeep, ConfirmKeeps, CancelKeeps
<1>6. ASSUME NEW d,
             \/ /\ d \in {"camera", "return", "customer", "picker", "void", "storno", "park"}
                /\ OpenDialog(d)
             \/ d \in Dialog \ (PayMethod \cup {"weigh"}) /\ CloseDialog(d)
      PROVE  IInv'
  <2>1. DOMAIN Layers = 1 .. 14
    BY DEF Layers
  <2>2. \A k \in 1 .. 14 : Layers[k] \in Dialog
    BY <2>1 DEF Dialog
  <2>3. {"camera", "return", "customer", "picker", "void", "storno", "park"}
          \subseteq Dialog \ PayMethod
    <3>1. /\ Layers[2] = "camera" /\ Layers[4] = "return" /\ Layers[9] = "customer"
          /\ Layers[10] = "picker" /\ Layers[12] = "void" /\ Layers[13] = "storno"
          /\ Layers[14] = "park"
      BY DEF Layers
    <3>. HIDE DEF Layers
    <3>. QED BY <2>2, <3>1 DEF PayMethod
  <2>4. d \in Dialog \ PayMethod /\ (OpenDialog(d) \/ CloseDialog(d))
    BY <1>6, <2>3
  <2>. QED BY <2>4, DialogsKeep
<1>7. ASSUME NEW k, RecallSale(k) \/ AskDiscard(k) \/ TakenElsewhere(k)
      PROVE  IInv'
  BY <1>7, CallsKeep, DialogsKeep
<1>8. ASSUME ParkSale \/ Discard \/ Authorize \/ \E c \in Customer : AskCustomer(c)
      PROVE  IInv'
  BY <1>8, WaitsKeep
<1>9. ASSUME PressF8 \/ PressEscape \/ Reload
      PROVE  IInv'
  BY <1>9, CallsKeep, EscapeKeeps, ReloadKeeps
<1>. QED BY <1>1, <1>2, <1>3, <1>4, <1>5, <1>6, <1>7, <1>8, <1>9 DEF Next

(* A step that changes nothing.                                            *)
LEMMA StutterInductive ==
  ASSUME IInv, UNCHANGED vars
  PROVE  IInv'
  BY DEF IInv, vars, Shape, Granted, StornoAuthorized, Ordering, AskedIsOrdered, Waiting,
         Asking, Busy, Paying, PaidIsBooked, Heard, PaidTwiceOnlyAfterLoss

(* The inductive invariant of the till.                                    *)
THEOREM Inductive == Spec => []IInv
<1>1. Init => IInv
  BY InitInductive
<1>2. IInv /\ [Next]_vars => IInv'
  BY TillAssumption, NextInductive, StutterInductive
<1>. QED BY <1>1, <1>2, PTL DEF Spec

(* The amount a payment dialog asks for is that of the order it pays.      *)
THEOREM AskedAmountIsOrdered == Spec => []AskedIsOrdered
<1>1. IInv => AskedIsOrdered
  BY DEF IInv, Ordering
<1>. QED BY <1>1, Inductive, PTL

(* What the page says is paid, is booked.                                  *)
THEOREM ShownPaidIsBooked == Spec => []PaidIsBooked
<1>1. IInv => PaidIsBooked
  BY DEF IInv
<1>. QED BY <1>1, Inductive, PTL

(* Only a payment nobody heard of is made again.                           *)
THEOREM NoSecondPayment == Spec => []PaidTwiceOnlyAfterLoss
<1>1. IInv => PaidTwiceOnlyAfterLoss
  BY DEF IInv, Heard
<1>. QED BY <1>1, Inductive, PTL

(* No sale is voided that no manager agreed to.                            *)
THEOREM VoidsAreAuthorized == Spec => []StornoAuthorized
<1>1. IInv => StornoAuthorized
  BY DEF IInv, Granted
<1>. QED BY <1>1, Inductive, PTL

(* A dialog that cannot be left waits for a call that is open.             *)
THEOREM NobodyShutIn == Spec => []BusyHasCall
<1>1. IInv => BusyHasCall
  BY DEF IInv, Waiting, Shape, BusyHasCall, Asking, KindFor, Waiters, PayMethod
<1>. QED BY <1>1, Inductive, PTL
=============================================================================
