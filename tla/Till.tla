-------------------------------- MODULE Till --------------------------------
(***************************************************************************)
(* The page a till shows (pos/src/pages/SalePage.tsx) and its dialogs.  An *)
(* action is one event of the browser: a click, a key, or the answer to a  *)
(* call a handler awaits.  What a handler had closed over when it made the *)
(* call is kept in the record of the call.                                 *)
(*                                                                         *)
(* The backend is here as far as the page sees it: orders, payments booked,*)
(* overrides granted, parked sales.  A call is carried out when it is      *)
(* answered, and its answer may be lost.  A list of lines stands for the   *)
(* total it comes to, a weighed line for any weight.  A read that only     *)
(* fills a list is answered when it is made.                               *)
(***************************************************************************)
EXTENDS Integers, Sequences, FiniteSets

CONSTANTS Piece,       \* variants sold by the piece
          Weighed,     \* variants sold by weight
          Customer,
          Slot,        \* calls the page may have open at once
          MaxLines,    \* bound on the lines of a basket
          MaxQty,      \* bound on the pieces of a line
          MaxCalls,    \* bound on the calls handlers make, all kinds together
          None

Variant == Piece \cup Weighed

Line == [item : Variant, qty : 1 .. MaxQty]

Basket == {b \in Seq(Line) : Len(b) <= MaxLines}

ASSUME TillAssumption ==
  /\ Piece \cap Weighed = {}
  /\ {MaxLines, MaxQty, MaxCalls} \subseteq Nat \ {0}
  /\ None \notin Variant \cup Customer \cup Nat

VARIABLES
  page,     \* the state of SalePage and of the dialogs on it
  calls,    \* [Slot -> a call that is not answered yet, or NoCall]
  orders,   \* orders created, in order
  txs,      \* payments booked, in order
  granted,  \* payments a manager has allowed to void
  parked,   \* parked sales, with what became of each
  made      \* how many calls were made, for the bound

backend == <<orders, txs, granted, parked>>

vars == <<page, calls, orders, txs, granted, parked, made>>

(* What is in a slot nobody uses.                                          *)
NoCall == [kind |-> "none"]

(* The dialogs from the one underneath to the one on top: z-index first,   *)
(* then the place in the document.                                         *)
Layers == <<"card", "camera", "receipt", "return", "weigh", "cash", "split",
            "override", "customer", "picker", "discard", "void", "storno",
            "park">>

Dialog == {Layers[k] : k \in DOMAIN Layers}

PayMethod == {"cash", "card", "split"}

(* Dialogs that take the keyboard away from the barcode field.             *)
AutoFocus == {"cash", "split", "customer", "override", "return"}

Top(p) == LET up == {j \in DOMAIN Layers : Layers[j] \in p.open}
          IN  IF up = {} THEN "page"
              ELSE Layers[CHOOSE j \in up : \A i \in up : i <= j]

Visible == {k \in DOMAIN parked : parked[k].gone = "no"}

(* The page after a load: the number of parked sales is asked for at once. *)
Fresh == [basket |-> <<>>, customer |-> None, error |-> FALSE, open |-> {},
          busy |-> {}, order |-> None, asked |-> <<>>, phase |-> "idle",
          lastTx |-> None, paid |-> None, weigh |-> None, list |-> {},
          chosen |-> None, recallable |-> Visible # {},
          seen |-> [basket |-> <<>>, customer |-> None]]

Init ==
  /\ orders = <<>> /\ txs = <<>> /\ granted = {} /\ parked = <<>>
  /\ page = Fresh
  /\ calls = [s \in Slot |-> NoCall]
  /\ made = 0

-----------------------------------------------------------------------------
(* Rendering, calls, and the dialogs on the page.                          *)

(* The listener for the function keys is made anew when one of the values  *)
(* it lists as dependencies has changed; until then its handlers see what  *)
(* was rendered when it was made.                                          *)
Dependencies(p) ==
  <<Len(p.basket), p.error, p.weigh, p.open \ {"camera", "discard"}>>

Show(p) ==
  page' = [p EXCEPT !.seen =
             IF Dependencies(p) = Dependencies(page) THEN page.seen
             ELSE [basket |-> p.basket, customer |-> p.customer]]

Asking(s, kind) == calls[s].kind = kind

FreeSlot == CHOOSE s \in Slot : Asking(s, "none")

Call(c) ==
  /\ made < MaxCalls /\ made' = made + 1
  /\ \E s \in Slot : Asking(s, "none")
  /\ calls' = [calls EXCEPT ![FreeSlot] = c]

Open(p, d) == [p EXCEPT !.open = @ \cup {d}]

(* A dialog that closes is unmounted: what it waited for is forgotten, and *)
(* the question before a parked sale is thrown away is part of the picker. *)
Close(p, ds) ==
  LET gone == ds \cup (IF "picker" \in ds THEN {"discard"} ELSE {})
  IN  [p EXCEPT !.open = @ \ gone, !.busy = {w \in @ : w[1] \notin gone},
                !.phase = IF "card" \in gone THEN "idle" ELSE @,
                !.list = IF "picker" \in gone THEN {} ELSE @,
                !.chosen = IF "discard" \in gone THEN None ELSE @]

Busy(p, d) == \E s \in Slot : <<d, s>> \in p.busy

Wait(p, d) == [p EXCEPT !.busy = @ \cup {<<d, FreeSlot>>}]

(* Mutant of Settled: "finally" is missing, the dialog waits on.           *)
SettledNever(p, s) == p

(* What a handler does when its call has come back, whatever came back.    *)
Settled(p, s) == [p EXCEPT !.busy = {w \in @ : w[2] # s}]

Return(s) == calls' = [calls EXCEPT ![s] = NoCall]

-----------------------------------------------------------------------------
(* The basket.                                                             *)

Added(b, i) ==
  IF \E k \in DOMAIN b : b[k].item = i
  THEN [k \in DOMAIN b |-> IF b[k].item = i THEN [b[k] EXCEPT !.qty = @ + 1]
                           ELSE b[k]]
  ELSE Append(b, [item |-> i, qty |-> 1])

InBounds(b) == Len(b) <= MaxLines /\ \A k \in DOMAIN b : b[k].qty <= MaxQty

(* A variant sold by weight is asked for its weight first.                 *)
AddToSale(p, i, paid) ==
  LET q == [p EXCEPT !.paid = IF paid # None THEN None ELSE @]
  IN  IF i \in Weighed THEN [Open(q, "weigh") EXCEPT !.weigh = i]
      ELSE [q EXCEPT !.basket = Added(@, i)]

(* A click on a search result.                                             *)
AddFound(i) ==
  /\ page.open = {}
  /\ i \in Weighed \/ InBounds(Added(page.basket, i))
  /\ Show(AddToSale(page, i, page.paid))
  /\ UNCHANGED <<calls, backend, made>>

ConfirmWeight ==
  /\ Top(page) = "weigh" /\ Len(page.basket) < MaxLines
  /\ Show([Close(page, {"weigh"}) EXCEPT
             !.basket = Append(@, [item |-> page.weigh, qty |-> 1]),
             !.paid = None, !.weigh = None])
  /\ UNCHANGED <<calls, backend, made>>

CancelWeight ==
  /\ Top(page) = "weigh"
  /\ Show([Close(page, {"weigh"}) EXCEPT !.weigh = None])
  /\ UNCHANGED <<calls, backend, made>>

Without(b, k) == SubSeq(b, 1, k - 1) \o SubSeq(b, k + 1, Len(b))

(* Mutant of UpdateQty: a quantity of 0 stays in the basket.               *)
UpdateQtyToZero(k, n) ==
  LET b == page.basket IN
  /\ page.open = {} /\ k \in DOMAIN b /\ b[k].item \in Piece /\ n # b[k].qty
  /\ Show([page EXCEPT !.basket[k].qty = n])
  /\ UNCHANGED <<calls, backend, made>>

UpdateQty(k, n) ==
  LET b == page.basket IN
  /\ page.open = {} /\ k \in DOMAIN b /\ b[k].item \in Piece /\ n # b[k].qty
  /\ Show([page EXCEPT !.basket =
             IF n = 0 THEN Without(b, k) ELSE [b EXCEPT ![k].qty = n]])
  /\ UNCHANGED <<calls, backend, made>>

RemoveItemAt(k) ==
  /\ page.open = {} /\ k \in DOMAIN page.basket
  /\ Show([page EXCEPT !.basket = Without(@, k)])
  /\ UNCHANGED <<calls, backend, made>>

DoVoidSale ==
  /\ Top(page) = "void"
  /\ Show([Close(page, {"void"}) EXCEPT !.basket = <<>>, !.customer = None])
  /\ UNCHANGED <<calls, backend, made>>

(* A barcode, typed or scanned, or seen by the camera.                     *)
AddByBarcode(i) ==
  /\ page.open \cap AutoFocus = {}
  /\ Call([kind |-> "lookup", item |-> i, paid |-> page.paid])
  /\ Show([Close(page, {"camera"}) EXCEPT !.error = FALSE])
  /\ UNCHANGED backend

AnswerLookup(s) ==
  /\ Asking(s, "lookup")
  /\ \/ Show([page EXCEPT !.error = TRUE])
     \/ LET c == calls[s] IN
        /\ c.item \in Weighed \/ InBounds(Added(page.basket, c.item))
        /\ Show(AddToSale(page, c.item, c.paid))
  /\ Return(s)
  /\ UNCHANGED <<backend, made>>

-----------------------------------------------------------------------------
(* Paying: an order is created, then the dialog of the method opens.       *)

CreateOrder(by, method, sale) ==
  /\ Call([kind |-> "order", by |-> by, method |-> method,
           lines |-> sale.basket, customer |-> sale.customer,
           shown |-> [basket |-> page.basket, customer |-> page.customer]])
  /\ Show([page EXCEPT !.error = FALSE])
  /\ UNCHANGED backend

PressPay(method) ==
  /\ page.open = {} /\ page.basket # <<>>
  /\ CreateOrder("button", method, page)

(* The key works under the camera too.                                     *)
PressF8 ==
  /\ page.open \subseteq {"camera"} /\ page.basket # <<>>
  /\ CreateOrder("F8", "cash", page.seen)

PayCall(method, order, asked) ==
  [kind |-> "pay", method |-> method, order |-> order, asked |-> asked]

Ordered(c) == orders' = Append(orders, [lines |-> c.lines, customer |-> c.customer])

(* Mutant of Ready: the total is taken when the order is there.            *)
ReadyLate(p, c) ==
  [Open(Close(p, PayMethod \ {c.method}), c.method) EXCEPT
     !.order = Len(orders) + 1, !.asked = p.basket]

(* A dialog of another method goes; one of the same method stays mounted.  *)
Ready(p, c) ==
  [Open(Close(p, PayMethod \ {c.method}), c.method) EXCEPT
     !.order = Len(orders) + 1, !.asked = c.lines]

(* The card dialog asks for the card as soon as it is mounted.             *)
AnswerOrder(s) ==
  LET c == calls[s]
      q == Ready(page, c)
      starts == c.method = "card" /\ "card" \notin page.open
  IN  /\ Asking(s, "order")
      /\ \/ /\ Ordered(c)
            /\ Show(IF starts THEN [q EXCEPT !.phase = "authorizing",
                                             !.busy = @ \cup {<<"card", s>>}]
                    ELSE q)
            /\ calls' = [calls EXCEPT ![s] =
                            IF starts THEN PayCall("card", q.order, q.asked) ELSE NoCall]
         \/ /\ Ordered(c) \/ UNCHANGED orders
            /\ Show([page EXCEPT !.error = TRUE])
            /\ Return(s)
      /\ UNCHANGED <<txs, granted, parked, made>>

(* Mutant of CanConfirm: the button stays enabled while it is signed.      *)
CanConfirmAgain(method) ==
  IF method = "card" THEN page.phase = "declined" ELSE TRUE

CanConfirm(method) ==
  IF method = "card" THEN page.phase = "declined" ELSE ~Busy(page, method)

ConfirmPay(method) ==
  /\ Top(page) = method /\ CanConfirm(method)
  /\ Call(PayCall(method, page.order, page.asked))
  /\ Show([Wait(page, method) EXCEPT
             !.phase = IF method = "card" THEN "authorizing" ELSE @])
  /\ UNCHANGED backend

CancelPay(method) ==
  /\ Top(page) = method
  /\ IF method = "card" THEN page.phase # "authorizing" ELSE ~Busy(page, method)
  /\ Show([Close(page, PayMethod) EXCEPT !.order = None, !.asked = <<>>])
  /\ UNCHANGED <<calls, backend, made>>

Paid(p, order, tx) ==
  [Close(Open(p, "receipt"), PayMethod) EXCEPT
     !.basket = <<>>, !.customer = None, !.order = None, !.asked = <<>>,
     !.lastTx = tx, !.paid = order]

Booked(c, heard) ==
  /\ txs' = Append(txs, [order |-> c.order, voided |-> FALSE, heard |-> heard])

(* Mutant of PayFailed: onPaid is called whatever came back.               *)
PayFailedAsPaid(p, s, phases) ==
  {Settled(Paid(p, calls[s].order, Len(txs) + 1), s)}

(* The card dialog tells a refusal from a failure by the message.          *)
PayFailed(p, s, phases) ==
  {[Settled(p, s) EXCEPT !.phase = IF <<"card", s>> \in p.busy THEN f ELSE @] :
     f \in phases}

AnswerPay(s) ==
  LET c == calls[s] IN
  /\ Asking(s, "pay")
  /\ \/ /\ Booked(c, TRUE)
        /\ Show(Settled(Paid(page, c.order, Len(txs) + 1), s))
     \/ /\ Booked(c, FALSE)
        /\ \E p \in PayFailed(page, s, {"error"}) : Show(p)
     \/ /\ UNCHANGED txs
        /\ \E p \in PayFailed(page, s, {"declined", "error"}) : Show(p)
  /\ Return(s)
  /\ UNCHANGED <<orders, granted, parked, made>>

-----------------------------------------------------------------------------
(* Dialogs that only open and close.                                       *)

Opened(d) ==
  CASE d = "void"   -> page.open \subseteq {"camera"} /\ page.basket # <<>>
    [] d = "return" -> page.open \subseteq {"camera"}
    [] d = "park"   -> page.open = {} /\ page.basket # <<>>
    [] d = "picker" -> page.open = {} /\ page.recallable
    [] d = "storno" -> page.open = {} /\ page.lastTx # None
    [] OTHER        -> page.open = {}

OpenDialog(d) ==
  /\ Opened(d)
  /\ Show([Open(page, d) EXCEPT !.list = IF d = "picker" THEN Visible ELSE @])
  /\ UNCHANGED <<calls, backend, made>>

CloseDialog(d) ==
  /\ Top(page) = d
  /\ d \in {"park", "override"} => ~Busy(page, d)
  /\ d = "discard" => ~Busy(page, "picker")
  /\ Show(Close(page, {d}))
  /\ UNCHANGED <<calls, backend, made>>

(* Every dialog with a listener of its own closes, and the page closes one *)
(* thing of its own.                                                       *)
PressEscape ==
  LET shell == {d \in page.open \cap {"split", "override", "customer"} : ~Busy(page, d)}
               \cup {IF "discard" \in page.open THEN "discard" ELSE "picker"}
      q == IF "split" \notin shell THEN Close(page, shell)
           ELSE [Close(page, shell) EXCEPT !.order = None, !.asked = <<>>]
  IN  /\ Show(CASE "weigh" \in page.open ->
                     [Close(q, {"weigh"}) EXCEPT !.weigh = None]
                [] "weigh" \notin page.open /\ "receipt" \in page.open ->
                     Close(q, {"receipt"})
                [] page.open \cap {"weigh", "receipt"} = {} /\ page.error ->
                     [q EXCEPT !.error = FALSE]
                [] OTHER -> Close(q, {"return"}))
      /\ UNCHANGED <<calls, backend, made>>

(* Looking a customer up, or making a new one; "Cancel" stays enabled.     *)
AskCustomer(c) ==
  /\ Top(page) = "customer"
  /\ Call([kind |-> "customer", customer |-> c])
  /\ Show(Wait(page, "customer"))
  /\ UNCHANGED backend

AnswerCustomer(s) ==
  /\ Asking(s, "customer")
  /\ \/ Show(Settled(page, s))
     \/ Show(Settled([Close(page, {"customer"}) EXCEPT
                        !.customer = calls[s].customer], s))
  /\ Return(s)
  /\ UNCHANGED <<backend, made>>

RemoveCustomer ==
  /\ page.open = {} /\ page.customer # None
  /\ Show([page EXCEPT !.customer = None])
  /\ UNCHANGED <<calls, backend, made>>

-----------------------------------------------------------------------------
(* Parked sales.                                                           *)

ParkSale ==
  /\ Top(page) = "park" /\ ~Busy(page, "park") /\ page.basket # <<>>
  /\ Call([kind |-> "park", lines |-> page.basket, customer |-> page.customer])
  /\ Show(Wait(page, "park"))
  /\ UNCHANGED backend

ParkedRow(c) == [lines |-> c.lines, customer |-> c.customer, gone |-> "no"]

(* Mutant of ParkDone: the basket is emptied whatever came back.           *)
ParkDoneEmptied(p, s) == Settled([Close(p, {"park"}) EXCEPT !.basket = <<>>], s)

ParkDone(p, s) == Settled(Close(p, {"park"}), s)

AnswerPark(s) ==
  LET c == calls[s]
      q == ParkDone(page, s)
  IN  /\ Asking(s, "park")
      /\ \/ /\ parked' = Append(parked, ParkedRow(c))
            /\ Show([q EXCEPT !.basket = <<>>, !.customer = None,
                              !.recallable = TRUE])
         \/ /\ parked' = Append(parked, ParkedRow(c)) \/ UNCHANGED parked
            /\ Show(q)
      /\ Return(s)
      /\ UNCHANGED <<orders, txs, granted, made>>

(* The lines go into the basket at once; the customer is asked for, and    *)
(* only then the parked sale is deleted.                                   *)
RecallSale(k) ==
  /\ Top(page) = "picker" /\ k \in page.list /\ page.basket = <<>>
  /\ Call([kind |-> IF parked[k].customer # None THEN "owner" ELSE "recall",
           id |-> k])
  /\ Show([page EXCEPT !.basket = parked[k].lines])
  /\ UNCHANGED backend

AnswerOwner(s) ==
  /\ Asking(s, "owner")
  /\ \/ UNCHANGED page
     \/ Show([page EXCEPT !.customer = parked[calls[s].id].customer])
  /\ calls' = [calls EXCEPT ![s] = [kind |-> "recall", id |-> calls[s].id]]
  /\ UNCHANGED <<backend, made>>

AskDiscard(k) ==
  /\ Top(page) = "picker" /\ k \in page.list
  /\ Show([Open(page, "discard") EXCEPT !.chosen = k])
  /\ UNCHANGED <<calls, backend, made>>

(* Bound: one at a time (the picker allows another one to be chosen).      *)
Discard ==
  /\ Top(page) = "discard" /\ ~Busy(page, "picker")
  /\ Call([kind |-> "discard", id |-> page.chosen])
  /\ Show(Wait(page, "picker"))
  /\ UNCHANGED backend

Remains(k) == Visible \ {k}

Remove(k, how) ==
  /\ parked[k].gone = "no"
  /\ parked' = [parked EXCEPT ![k].gone = how]

AnswerRecall(s) ==
  LET k == calls[s].id IN
  /\ Asking(s, "recall")
  /\ \/ /\ Remove(k, "recalled")
        /\ Show([Close(page, {"picker"}) EXCEPT !.recallable = Remains(k) # {}])
     \/ /\ Remove(k, "recalled") \/ UNCHANGED parked
        /\ UNCHANGED page
  /\ Return(s)
  /\ UNCHANGED <<orders, txs, granted, made>>

(* The answer closes the question only in the picker that asked it.        *)
AnswerDiscard(s) ==
  LET k == calls[s].id
      q == IF <<"picker", s>> \in page.busy THEN Close(page, {"discard"}) ELSE page
  IN  /\ Asking(s, "discard")
      /\ \/ /\ Remove(k, "discarded")
            /\ Show(Settled([q EXCEPT !.list =
                               IF q = page THEN @ ELSE Remains(k)], s))
         \/ /\ Remove(k, "discarded") \/ UNCHANGED parked
            /\ Show(Settled(q, s))
      /\ Return(s)
      /\ UNCHANGED <<orders, txs, granted, made>>

(* Another till of the same cashier, or a manager's, takes a parked sale.  *)
TakenElsewhere(k) ==
  /\ k \in Visible
  /\ Remove(k, "elsewhere")
  /\ UNCHANGED <<page, calls, orders, txs, granted, made>>

-----------------------------------------------------------------------------
(* Voiding the last sale: a question, a manager, the call.                 *)

(* Mutant of ConfirmStorno: no manager is asked.                           *)
ConfirmStornoAtOnce ==
  /\ Top(page) = "storno"
  /\ Call([kind |-> "storno", tx |-> page.lastTx])
  /\ Show(Close(page, {"storno"}))
  /\ UNCHANGED backend

ConfirmStorno ==
  /\ Top(page) = "storno"
  /\ Show(Open(Close(page, {"storno"}), "override"))
  /\ UNCHANGED <<calls, backend, made>>

Authorize ==
  /\ Top(page) = "override" /\ ~Busy(page, "override")
  /\ Call([kind |-> "override", tx |-> page.lastTx])
  /\ Show(Wait(page, "override"))
  /\ UNCHANGED backend

(* The manager's answer goes on with the sale the dialog was opened for.   *)
AnswerOverride(s) ==
  LET tx == calls[s].tx
      allow == granted' = granted \cup (IF tx # None THEN {tx} ELSE {})
  IN  /\ Asking(s, "override")
      /\ \/ /\ allow
            /\ Show(Settled(Close(page, {"override"}), s))
            /\ calls' = [calls EXCEPT ![s] =
                           IF tx # None THEN [kind |-> "storno", tx |-> tx] ELSE NoCall]
         \/ /\ allow \/ UNCHANGED granted
            /\ Show(Settled(page, s))
            /\ Return(s)
      /\ UNCHANGED <<orders, txs, parked, made>>

Void(tx) ==
  /\ ~txs[tx].voided
  /\ txs' = [txs EXCEPT ![tx].voided = TRUE]

AnswerStorno(s) ==
  LET q == Close(page, {"storno"}) IN
  /\ Asking(s, "storno")
  /\ \/ /\ Void(calls[s].tx)
        /\ Show([q EXCEPT !.lastTx = None, !.paid = None])
     \/ /\ Void(calls[s].tx) \/ UNCHANGED txs
        /\ Show(q)
  /\ Return(s)
  /\ UNCHANGED <<orders, granted, parked, made>>

-----------------------------------------------------------------------------

(* The browser loads the page anew: every handler that waits is gone.      *)
Reload ==
  /\ page' = Fresh
  /\ calls' = [s \in Slot |-> NoCall]
  /\ UNCHANGED <<backend, made>>

Answer(s) ==
  \/ AnswerLookup(s) \/ AnswerOrder(s) \/ AnswerPay(s) \/ AnswerCustomer(s)
  \/ AnswerPark(s) \/ AnswerOwner(s) \/ AnswerRecall(s) \/ AnswerDiscard(s)
  \/ AnswerOverride(s) \/ AnswerStorno(s)

Next ==
  \/ \E i \in Variant : AddFound(i) \/ AddByBarcode(i)
  \/ ConfirmWeight \/ CancelWeight \/ DoVoidSale
  \/ \E k \in DOMAIN page.basket :
       RemoveItemAt(k) \/ \E n \in 0 .. MaxQty : UpdateQty(k, n)
  \/ \E m \in PayMethod : PressPay(m) \/ ConfirmPay(m) \/ CancelPay(m)
  \/ PressF8 \/ PressEscape
  \/ \E d \in {"camera", "return", "customer", "picker", "void", "storno", "park"} :
       OpenDialog(d)
  \/ \E d \in Dialog \ (PayMethod \cup {"weigh"}) : CloseDialog(d)
  \/ \E c \in Customer : AskCustomer(c)
  \/ RemoveCustomer \/ ParkSale \/ Discard \/ ConfirmStorno \/ Authorize
  \/ \E k \in page.list : RecallSale(k) \/ AskDiscard(k)
  \/ \E k \in DOMAIN parked : TakenElsewhere(k)
  \/ \E s \in Slot : Answer(s)
  \/ Reload

Spec == Init /\ [][Next]_vars

-----------------------------------------------------------------------------

OrNone(S) == S \cup {None}

CallType ==
       {NoCall}
  \cup [kind : {"lookup"}, item : Variant, paid : OrNone(Nat)]
  \cup [kind : {"order"}, by : {"button", "F8"}, method : PayMethod,
        lines : Basket, customer : OrNone(Customer),
        shown : [basket : Basket, customer : OrNone(Customer)]]
  \cup [kind : {"pay"}, method : PayMethod, order : Nat, asked : Basket]
  \cup [kind : {"customer"}, customer : Customer]
  \cup [kind : {"park"}, lines : Basket, customer : OrNone(Customer)]
  \cup [kind : {"owner", "recall", "discard"}, id : Nat]
  \cup [kind : {"override"}, tx : OrNone(Nat)]
  \cup [kind : {"storno"}, tx : Nat]

(* What the variables hold.                                                *)
TypeOK ==
  /\ page \in [basket : Basket, customer : OrNone(Customer), error : BOOLEAN,
               open : SUBSET Dialog, busy : SUBSET (Dialog \X Slot),
               order : OrNone(DOMAIN orders), asked : Basket,
               phase : {"idle", "authorizing", "declined", "error"},
               lastTx : OrNone(Nat), paid : OrNone(DOMAIN orders),
               weigh : OrNone(Weighed), list : SUBSET DOMAIN parked,
               chosen : OrNone(DOMAIN parked), recallable : BOOLEAN,
               seen : [basket : Basket, customer : OrNone(Customer)]]
  /\ calls \in [Slot -> CallType]
  /\ orders \in Seq([lines : Basket, customer : OrNone(Customer)])
  /\ txs \in Seq([order : DOMAIN orders, voided : BOOLEAN, heard : BOOLEAN])
  /\ granted \subseteq DOMAIN txs
  /\ parked \in Seq([lines : Basket, customer : OrNone(Customer),
                     gone : {"no", "recalled", "discarded", "elsewhere"}])
  /\ made \in 0 .. MaxCalls

(* The amount a payment dialog asks for is what the order it pays for comes*)
(* to, whatever is put into the basket while the order is being created    *)
(* and while it is being paid (handlePay*, pendingTotal).                  *)
AskedIsOrdered ==
  /\ page.order # None => page.asked = orders[page.order].lines
  /\ \A s \in Slot :
       Asking(s, "pay") => calls[s].asked = orders[calls[s].order].lines

(* "Paid" is shown for an order, and a sale is offered to be voided or     *)
(* printed again, only when a payment is booked (handlePaymentSuccess).    *)
PaidIsBooked ==
  /\ page.paid # None => \E k \in DOMAIN txs : txs[k].order = page.paid
  /\ page.lastTx # None => page.lastTx \in DOMAIN txs

(* An order is paid again only when the answer to the payment before was   *)
(* lost: no double click and no dialog that changes under a running payment*)
(* pays an order twice (setBusy, phase).                                   *)
PaidTwiceOnlyAfterLoss ==
  \A j, k \in DOMAIN txs :
    j < k /\ txs[j].order = txs[k].order => ~txs[j].heard

(* The till voids no sale but the one a manager has agreed to, whatever    *)
(* was sold meanwhile (ManagerOverrideModal, doStorno).                    *)
StornoAuthorized ==
  \A k \in DOMAIN txs : txs[k].voided => k \in granted

(* A dialog that cannot be left waits for a call that is still open: the   *)
(* cashier is never shut in (setBusy(false) and setPhase after every call).*)
BusyHasCall ==
  /\ \A w \in page.busy : ~Asking(w[2], "none")
  /\ page.phase = "authorizing" => Busy(page, "card")

(* An answer that empties the basket has put it somewhere: among the parked*)
(* sales or the payments (parkSale, handlePaymentSuccess).                 *)
ClearedIsStored ==
  [][\A s \in Slot :
       Answer(s) /\ page.basket # <<>> /\ page'.basket = <<>>
         => parked' # parked \/ txs' # txs]_vars

(* "F8 or click Pay Cash" (docs/ops/cashier-quickcard.md): the key orders  *)
(* what the page shows, as the button does.                                *)
KeyIsButton ==
  \A s \in Slot : Asking(s, "order") =>
    calls[s].shown = [basket |-> calls[s].lines, customer |-> calls[s].customer]

=============================================================================
