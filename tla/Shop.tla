-------------------------------- MODULE Shop --------------------------------
(***************************************************************************)
(* The web shop (store/src): its five pages, the cart they share, and the  *)
(* feed of stock updates.  An action is one event of the browser: a click, *)
(* a timer, a message of the feed, or the answer to a call.  One page is   *)
(* mounted at a time; the answer to a call of a page that was left changes *)
(* no page, but the handler that waited for it still reaches the cart.     *)
(*                                                                         *)
(* A call is carried out when it is answered, except that a product is read*)
(* some time before: updates of its stock may overtake the answer.         *)
(* There is one stock location, and every variant is counted.  A list is   *)
(* abstracted to the products it shows as in stock: which of them a search *)
(* or a category selects does not matter to what is checked.               *)
(***************************************************************************)
EXTENDS Integers, Sequences, FiniteSets

CONSTANTS Product, Variant,
          VariantsOf,   \* the variants of a product, the first one first
          Traded,       \* bound: variants whose stock changes, the others have one
          Word,         \* what is typed into a field: an order number, a phone
          Code,         \* discount codes
          Method,       \* shipping methods
          Slot,         \* calls that may be open at once
          MaxLevel,     \* bound on the stock of a variant
          MaxItems,     \* bound on the pieces in the cart
          MaxOrders,    \* bound on the orders created
          MaxFeed,      \* bound on the updates on their way to the page
          None

Level == 0 .. MaxLevel

StockType == [Variant -> Level]

(* The pieces in a cart, numbered for each variant.                        *)
Pieces(c) == {p \in Variant \X (1 .. MaxItems) : p[2] <= c[p[1]]}

Cart == {c \in [Variant -> 0 .. MaxItems] : Cardinality(Pieces(c)) <= MaxItems}

Variants(p) == {VariantsOf[p][k] : k \in DOMAIN VariantsOf[p]}

OrNone(S) == S \cup {None}

ProductLevels == UNION {[Variants(p) -> Level] : p \in Product}

CallType ==
       [kind : {"list"}, here : BOOLEAN, quiet : BOOLEAN]
  \cup [kind : {"product"}, here : BOOLEAN, id : Product,
        read : OrNone(ProductLevels)]
  \cup [kind : {"add"}, here : BOOLEAN, id : Product]
  \cup [kind : {"discount"}, here : BOOLEAN, code : Code]
  \cup [kind : {"order"}, here : BOOLEAN]
  \cup [kind : {"status", "customer", "history"}, here : BOOLEAN, text : Word]

PageType ==
  [at : {"shop", "product", "cart", "status", "account"},
   id : OrNone(Product), text : OrNone(Word),
   listed : OrNone(SUBSET Product),
   shown : OrNone([of : Product, level : ProductLevels]),
   selected : OrNone(Variant), loading : BOOLEAN, error : BOOLEAN,
   adding : OrNone(Product), timer : BOOLEAN, behind : BOOLEAN,
   form : {"incomplete", "invalid", "valid"},
   flagged : BOOLEAN, submitting : BOOLEAN, placed : BOOLEAN,
   discount : OrNone(Code), shipping : OrNone(Method),
   removing : OrNone(Variant), found : OrNone(Word),
   history : OrNone(Word)]

ASSUME ShopAssumption ==
  /\ IsFiniteSet(Variant) /\ Traded \subseteq Variant /\ Slot # {}
  /\ VariantsOf \in [Product -> Seq(Variant) \ {<<>>}]
  /\ {MaxLevel, MaxItems, MaxOrders, MaxFeed} \subseteq Nat \ {0}
  /\ None \notin Product \cup Variant \cup Word \cup Code \cup Method
               \cup CallType

VARIABLES
  page,     \* the mounted page and its state
  calls,    \* [Slot -> a call that is not answered yet, or None]
  cart,     \* the items of CartProvider
  storage,  \* the cart in localStorage; None when it is not what this tab
            \* stored last: it was refused, or another tab stored its own
  stock,    \* the stock of the backend
  feed,     \* updates on their way to this page, oldest first
  link,     \* the web socket of the page is open
  orders,   \* how many orders were created
  missed    \* an update was told wrongly or not at all, or while the page of
            \* a product was loading or cut off

vars == <<page, calls, cart, storage, stock, feed, link, orders, missed>>

cartVars == <<cart, storage>>

feedVars == <<stock, feed, link, missed>>

Empty == [v \in Variant |-> 0]

(* The state every page starts with; a page leaves alone what is not its.  *)
Blank(at) ==
  [at |-> at, id |-> None, text |-> None, listed |-> None, shown |-> None,
   selected |-> None, loading |-> FALSE, error |-> FALSE, adding |-> None,
   timer |-> FALSE, behind |-> FALSE, form |-> "incomplete", flagged |-> FALSE,
   submitting |-> FALSE, placed |-> FALSE, discount |-> None,
   shipping |-> None, removing |-> None, found |-> None, history |-> None]

At(where) == page.at = where

-----------------------------------------------------------------------------
(* Calls.                                                                  *)

Free(cs) == {s \in Slot : cs[s] = None}

Made(cs, c) == [cs EXCEPT ![CHOOSE s \in Free(cs) : TRUE] = c]

Call(c) == Free(calls) # {} /\ calls' = Made(calls, c)

Return(s) == calls' = [calls EXCEPT ![s] = None]

Asking(s, kind) == calls[s] # None /\ calls[s].kind = kind

Here(s, kind) == Asking(s, kind) /\ calls[s].here

ListCall(quiet) == [kind |-> "list", here |-> TRUE, quiet |-> quiet]

ProductCall(p) ==
  [kind |-> "product", here |-> TRUE, id |-> p, read |-> None]

Levels(p) == [v \in Variants(p) |-> stock[v]]

(* The backend reads a product and its stock for a call.                   *)
ReadProduct(s) ==
  /\ Asking(s, "product") /\ calls[s].read = None
  /\ calls' = [calls EXCEPT ![s].read = Levels(calls[s].id)]
  /\ UNCHANGED <<page, cartVars, feedVars, orders>>

(* The calls when the page is left: a handler that goes on to the cart     *)
(* waits on, the answers to the others find nobody.                        *)
Left(cs) ==
  [s \in Slot |-> IF cs[s] # None /\ cs[s].kind \in {"add", "order"}
                  THEN [cs[s] EXCEPT !.here = FALSE] ELSE None]

-----------------------------------------------------------------------------
(* The cart.                                                               *)

(* Every change is written to localStorage, which may refuse it.           *)
SaveCart ==
  IF cart' = cart THEN UNCHANGED storage ELSE storage' \in {cart', None}

AddItem(v) ==
  /\ cart' = [cart EXCEPT ![v] = @ + 1] /\ cart' \in Cart
  /\ SaveCart

(* Mutant of ClearCart: what is stored stays.                              *)
ClearCartShown == cart' = Empty /\ UNCHANGED storage

ClearCart == cart' = Empty /\ SaveCart

(* "+" and "-" on a line of the cart.                                      *)
UpdateQuantity(v, n) ==
  /\ At("cart") /\ ~page.placed /\ page.removing = None
  /\ cart[v] > 0 /\ n \in {cart[v] - 1, cart[v] + 1}
  /\ cart' = [cart EXCEPT ![v] = n] /\ cart' \in Cart /\ SaveCart
  /\ UNCHANGED <<page, calls, feedVars, orders>>

AskRemove(v) ==
  /\ At("cart") /\ ~page.placed /\ page.removing = None /\ cart[v] > 0
  /\ page' = [page EXCEPT !.removing = v]
  /\ UNCHANGED <<calls, cartVars, feedVars, orders>>

(* The question closes; the item is removed, or kept.                      *)
AnswerRemove(sure) ==
  /\ At("cart") /\ page.removing # None /\ ~page.placed
  /\ page' = [page EXCEPT !.removing = None]
  /\ IF sure THEN cart' = [cart EXCEPT ![page.removing] = 0] /\ SaveCart
             ELSE UNCHANGED cartVars
  /\ UNCHANGED <<calls, feedVars, orders>>

(* Another tab of the shop stores its cart; this one does not listen.      *)
StoredElsewhere ==
  /\ storage' = None
  /\ UNCHANGED <<page, calls, cart, feedVars, orders>>

-----------------------------------------------------------------------------
(* The list of products.                                                   *)

(* The list is asked for again when a category or an order is chosen, and  *)
(* 300 ms after the last key of a search; a call that is open goes on.     *)
LoadList ==
  /\ At("shop")
  /\ page' = [page EXCEPT !.loading = TRUE, !.error = FALSE, !.behind = FALSE]
  /\ Call(ListCall(FALSE))
  /\ UNCHANGED <<cartVars, feedVars, orders>>

AnswerList(s) ==
  LET c == calls[s]
      q == IF c.quiet THEN page ELSE [page EXCEPT !.loading = FALSE]
  IN  /\ Asking(s, "list")
      /\ \/ page' = [q EXCEPT !.listed =
                        {p \in Product : \E v \in Variants(p) : stock[v] > 0}]
         \/ page' = IF c.quiet THEN q ELSE [q EXCEPT !.error = TRUE]
      /\ Return(s)
      /\ UNCHANGED <<cartVars, feedVars, orders>>

(* The list is read again 400 ms after the last update, behind the back of *)
(* the visitor.                                                            *)
Refetch ==
  /\ At("shop") /\ page.timer
  /\ page' = [page EXCEPT !.timer = FALSE, !.behind = FALSE]
  /\ Call(ListCall(TRUE))
  /\ UNCHANGED <<cartVars, feedVars, orders>>

DismissError ==
  /\ At("shop") /\ page.error
  /\ page' = [page EXCEPT !.error = FALSE]
  /\ UNCHANGED <<calls, cartVars, feedVars, orders>>

(* Only the button of the product that is being added is disabled.         *)
QuickAdd(p) ==
  /\ At("shop") /\ ~page.loading /\ page.listed # None
  /\ p \in page.listed /\ page.adding # p
  /\ page' = [page EXCEPT !.adding = p]
  /\ Call([kind |-> "add", here |-> TRUE, id |-> p])
  /\ UNCHANGED <<cartVars, feedVars, orders>>

(* The first variant is added, also when the page was left.                *)
AnswerAdd(s) ==
  LET c == calls[s]
      v == VariantsOf[c.id][1]
  IN  /\ Asking(s, "add")
      /\ \/ stock[v] > 0 /\ AddItem(v)
         \/ UNCHANGED cartVars
      /\ page' = IF c.here THEN [page EXCEPT !.adding = None] ELSE page
      /\ Return(s)
      /\ UNCHANGED <<feedVars, orders>>

-----------------------------------------------------------------------------
(* The page of a product.                                                  *)

(* Mutant of Finished: "finally" is missing after a failure.               *)
FinishedWell(p, well) == [p EXCEPT !.loading = IF well THEN FALSE ELSE @,
                                   !.error = IF well THEN @ ELSE TRUE]

Finished(p, well) == [p EXCEPT !.loading = FALSE, !.error = IF well THEN @ ELSE TRUE]

AnswerProduct(s) ==
  LET c == calls[s] IN
  /\ Asking(s, "product")
  /\ \/ /\ c.read # None
        /\ page' = [Finished(page, TRUE) EXCEPT
                      !.shown = [of |-> c.id, level |-> c.read],
                      !.selected = VariantsOf[c.id][1]]
     \/ page' = Finished(page, FALSE)
  /\ Return(s)
  /\ UNCHANGED <<cartVars, feedVars, orders>>

OnSale == At("product") /\ ~page.loading /\ ~page.error /\ page.shown # None

SelectVariant(v) ==
  /\ OnSale /\ v \in Variants(page.shown.of) \ {page.selected}
  /\ page' = [page EXCEPT !.selected = v]
  /\ UNCHANGED <<calls, cartVars, feedVars, orders>>

AddToCart ==
  /\ OnSale /\ page.shown.level[page.selected] > 0
  /\ AddItem(page.selected)
  /\ UNCHANGED <<page, calls, feedVars, orders>>

-----------------------------------------------------------------------------
(* The feed.                                                               *)

Listens == page.at \in {"shop", "product"}

Connect ==
  /\ Listens /\ ~link /\ link' = TRUE
  /\ UNCHANGED <<page, calls, cartVars, stock, feed, orders, missed>>

(* What was on its way is lost; a new attempt is made after 3 seconds.     *)
Disconnect ==
  /\ link /\ link' = FALSE /\ feed' = <<>>
  /\ missed' = (missed \/ (At("product") /\ feed # <<>>))
  /\ UNCHANGED <<page, calls, cartVars, stock, orders>>

Loading == \E s \in Slot : Here(s, "product")

(* Stock is sold, counted or received somewhere.  Who listens is told, if  *)
(* no screen told before has gone.                                         *)
ChangeStock(v, n, told) ==
  /\ stock[v] # n /\ (told => link /\ Len(feed) < MaxFeed)
  /\ stock' = [stock EXCEPT ![v] = n]
  /\ feed' = IF told THEN Append(feed, [variant |-> v, level |-> n]) ELSE feed
  /\ missed' = (missed \/ (At("product") /\ (~told \/ Loading)))
  /\ UNCHANGED <<page, calls, cartVars, link, orders>>

(* An order tells levels it does not keep when a later line is refused, and*)
(* two requests may tell theirs in another order than they stored them.    *)
TellWrongly(v, n) ==
  /\ stock[v] # n /\ link /\ Len(feed) < MaxFeed
  /\ feed' = Append(feed, [variant |-> v, level |-> n])
  /\ missed' = (missed \/ At("product"))
  /\ UNCHANGED <<page, calls, cartVars, stock, link, orders>>

(* Mutant of Scheduled: the timer of the update before is cleared, and none*)
(* is set in its place.                                                    *)
ScheduledOnce(p) ==
  [p EXCEPT !.timer = ~p.timer, !.behind = TRUE]

(* A burst of updates is one refetch.                                      *)
Scheduled(p) == [p EXCEPT !.timer = TRUE, !.behind = TRUE]

(* Mutant of Updated: the variant that is selected gets the level.         *)
UpdatedSelected(p, m) ==
  IF p.shown = None THEN p ELSE [p EXCEPT !.shown.level[p.selected] = m.level]

(* Mutant of Updated: whose variant it is is not looked at.                *)
UpdatedAny(p, m) ==
  IF p.shown = None THEN p
  ELSE [p EXCEPT !.shown.level = [v \in DOMAIN @ \cup {m.variant} |->
                                    IF v = m.variant THEN m.level ELSE @[v]]]

Updated(p, m) ==
  IF p.shown = None THEN p
  ELSE IF m.variant \notin DOMAIN p.shown.level THEN p
  ELSE [p EXCEPT !.shown.level[m.variant] = m.level]

HandleInventoryUpdate ==
  /\ feed # <<>>
  /\ page' = IF At("shop") THEN Scheduled(page) ELSE Updated(page, Head(feed))
  /\ feed' = Tail(feed)
  /\ UNCHANGED <<calls, cartVars, stock, link, orders, missed>>

-----------------------------------------------------------------------------
(* Checking out.                                                           *)

CheckingOut ==
  At("cart") /\ ~page.placed /\ page.removing = None /\ cart # Empty

(* The fields: some are empty; all are filled, but one is refused; or all  *)
(* are right.  Typing clears what was marked.                              *)
FillForm(f) ==
  /\ CheckingOut /\ f # page.form
  /\ page' = [page EXCEPT !.form = f, !.flagged = FALSE]
  /\ UNCHANGED <<calls, cartVars, feedVars, orders>>

SelectShipping(m) ==
  /\ CheckingOut /\ page.shipping \notin {None, m}
  /\ page' = [page EXCEPT !.shipping = m]
  /\ UNCHANGED <<calls, cartVars, feedVars, orders>>

ApplyDiscount(code) ==
  /\ CheckingOut
  /\ Call([kind |-> "discount", here |-> TRUE, code |-> code])
  /\ UNCHANGED <<page, cartVars, feedVars, orders>>

AnswerDiscount(s) ==
  /\ Asking(s, "discount")
  /\ page' \in {[page EXCEPT !.discount = calls[s].code, !.error = FALSE],
                [page EXCEPT !.discount = None, !.error = TRUE]}
  /\ Return(s)
  /\ UNCHANGED <<cartVars, feedVars, orders>>

(* Mutant of CanSubmit: a click while the order is being placed counts.    *)
CanSubmitAgain == page.form # "incomplete" /\ cart # Empty

CanSubmit == page.form # "incomplete" /\ cart # Empty /\ ~page.submitting

PlaceOrder ==
  /\ CheckingOut /\ CanSubmit
  /\ IF page.form = "invalid"
     THEN page' = [page EXCEPT !.flagged = TRUE] /\ UNCHANGED calls
     ELSE /\ page' = [page EXCEPT !.submitting = TRUE, !.error = FALSE,
                                  !.flagged = FALSE]
          /\ Call([kind |-> "order", here |-> TRUE])
  /\ UNCHANGED <<cartVars, feedVars, orders>>

(* Mutant of Failed: the cart is emptied in "finally".                     *)
FailedEmptied(p) ==
  ClearCart /\ page' = IF p = page THEN p ELSE [p EXCEPT !.error = TRUE]

Failed(p) ==
  /\ UNCHANGED cartVars
  /\ page' = IF p = page THEN p ELSE [p EXCEPT !.error = TRUE]

(* The discount that is shown is no part of the order.                     *)
Created == orders < MaxOrders /\ orders' = orders + 1

(* The cart is emptied of what it holds when the answer is there.          *)
AnswerOrder(s) ==
  LET c == calls[s]
      q == IF c.here THEN [page EXCEPT !.submitting = FALSE] ELSE page
  IN  /\ Asking(s, "order")
      /\ \/ /\ Created /\ ClearCart
            /\ page' = IF c.here THEN [q EXCEPT !.placed = TRUE] ELSE q
         \/ /\ Created \/ UNCHANGED orders
            /\ Failed(q)
      /\ Return(s)
      /\ UNCHANGED feedVars

-----------------------------------------------------------------------------
(* Looking up an order, or an account.                                     *)

Finding == At("status") \/ (At("account") /\ page.found = None)

TypeText(w) ==
  /\ Finding /\ w # page.text
  /\ page' = [page EXCEPT !.text = w]
  /\ UNCHANGED <<calls, cartVars, feedVars, orders>>

(* "Enter" looks up again while an answer is open.                         *)
LookUp ==
  /\ Finding /\ page.text # None
  /\ page' = [page EXCEPT !.loading = TRUE, !.error = FALSE,
                          !.found = None, !.history = None]
  /\ Call([kind |-> IF At("status") THEN "status" ELSE "customer",
           here |-> TRUE, text |-> page.text])
  /\ UNCHANGED <<cartVars, feedVars, orders>>

AnswerStatus(s) ==
  /\ Asking(s, "status")
  /\ page' \in {[Finished(page, TRUE) EXCEPT !.found = calls[s].text],
                Finished(page, FALSE)}
  /\ Return(s)
  /\ UNCHANGED <<cartVars, feedVars, orders>>

(* The customer is shown, and the orders are asked for.                    *)
AnswerCustomer(s) ==
  /\ Asking(s, "customer")
  /\ \/ /\ page' = [page EXCEPT !.found = calls[s].text]
        /\ calls' = [calls EXCEPT ![s].kind = "history"]
     \/ page' = Finished(page, FALSE) /\ Return(s)
  /\ UNCHANGED <<cartVars, feedVars, orders>>

AnswerHistory(s) ==
  /\ Asking(s, "history")
  /\ page' \in {[Finished(page, TRUE) EXCEPT !.history = calls[s].text],
                Finished(page, FALSE)}
  /\ Return(s)
  /\ UNCHANGED <<cartVars, feedVars, orders>>

SignOut ==
  /\ At("account") /\ page.found # None
  /\ page' = [page EXCEPT !.found = None, !.history = None, !.text = None,
                          !.error = FALSE]
  /\ UNCHANGED <<calls, cartVars, feedVars, orders>>

-----------------------------------------------------------------------------
(* Going from page to page.                                                *)

(* What a page asks for when it is mounted.                                *)
Mounted(at, id, cs) ==
  CASE at = "shop"    -> Made(cs, ListCall(FALSE))
    [] at = "product" -> Made(cs, ProductCall(id))
    [] OTHER          -> cs

(* The shipping methods are there at once, or never.                       *)
Mount(at, id, cs) ==
  /\ at \in {"shop", "product"} => Free(cs) # {}
  /\ \E m \in (IF at = "cart" THEN Method ELSE {}) \cup {None} :
       page' = [Blank(at) EXCEPT !.id = id, !.shipping = m,
                                 !.loading = at \in {"shop", "product"}]
  /\ calls' = Mounted(at, id, cs)
  /\ feed' = <<>> /\ link' = FALSE /\ missed' = FALSE
  /\ UNCHANGED <<stock, orders>>

Visit(at, id) ==
  /\ page.at # at
  /\ Mount(at, id, Left(calls))
  /\ UNCHANGED cartVars

(* Back or forward from product to product: the page stays mounted.        *)
VisitProduct(p) ==
  /\ At("product") /\ page.id # p
  /\ page' = [page EXCEPT !.id = p, !.loading = TRUE, !.error = FALSE]
  /\ Call(ProductCall(p))
  /\ UNCHANGED <<cartVars, feedVars, orders>>

(* The browser loads the page anew, and the cart from the storage.         *)
Reload ==
  /\ Mount(page.at, page.id, [s \in Slot |-> None])
  /\ cart' \in (IF storage = None THEN Cart ELSE {storage})
  /\ storage' = cart'

Init ==
  /\ page = [Blank("shop") EXCEPT !.loading = TRUE]
  /\ calls = Mounted("shop", None, [s \in Slot |-> None])
  /\ cart = Empty /\ storage = Empty
  /\ stock \in {l \in StockType : \A v \in Variant \ Traded : l[v] = 1}
  /\ feed = <<>> /\ link = FALSE /\ missed = FALSE
  /\ orders = 0

Answer(s) ==
  \/ AnswerList(s) \/ AnswerAdd(s) \/ AnswerProduct(s) \/ AnswerDiscount(s)
  \/ AnswerOrder(s) \/ AnswerStatus(s) \/ AnswerCustomer(s) \/ AnswerHistory(s)

Next ==
  \/ \E v \in Variant :
       \/ AskRemove(v) \/ SelectVariant(v)
       \/ \E n \in 0 .. MaxItems : UpdateQuantity(v, n)
  \/ \E v \in Traded, n \in Level :
       TellWrongly(v, n) \/ \E told \in BOOLEAN : ChangeStock(v, n, told)
  \/ \E sure \in BOOLEAN : AnswerRemove(sure)
  \/ \E w \in Word \cup {None} : TypeText(w)
  \/ StoredElsewhere \/ LoadList \/ Refetch \/ DismissError \/ AddToCart
  \/ Connect \/ Disconnect \/ HandleInventoryUpdate
  \/ \E f \in {"incomplete", "invalid", "valid"} : FillForm(f)
  \/ \E m \in Method : SelectShipping(m)
  \/ \E code \in Code : ApplyDiscount(code)
  \/ PlaceOrder \/ LookUp \/ SignOut
  \/ \E s \in Slot : ReadProduct(s) \/ Answer(s)
  \/ \E at \in {"shop", "cart", "status", "account"} : Visit(at, None)
  \/ \E p \in Product : QuickAdd(p) \/ Visit("product", p) \/ VisitProduct(p)
  \/ Reload

Spec == Init /\ [][Next]_vars

-----------------------------------------------------------------------------

(* What the variables hold.                                                *)
TypeOK ==
  /\ page \in PageType
  /\ calls \in [Slot -> OrNone(CallType)]
  /\ cart \in Cart /\ storage \in OrNone(Cart)
  /\ stock \in StockType
  /\ feed \in Seq([variant : Variant, level : Level])
  /\ link \in BOOLEAN /\ missed \in BOOLEAN
  /\ orders \in 0 .. MaxOrders

(* One visit of the checkout places one order at a time, and none once an  *)
(* order is placed: a second one needs an answer that was lost, or a visit *)
(* that was left (placeOrder, canSubmit).                                  *)
NoSecondOrder ==
  LET open == {s \in Slot : Here(s, "order")}
  IN  Cardinality(open) <= (IF page.placed THEN 0 ELSE 1)

(* A spinner turns, and a button is disabled, only while a call of this    *)
(* page is open: no order of answers leaves the visitor waiting (finally). *)
WaitsForCall ==
  /\ page.loading => \E s \in Slot :
       calls[s] # None /\ calls[s].here
         /\ calls[s].kind \in {"list", "product", "status", "customer", "history"}
  /\ page.submitting => \E s \in Slot : Here(s, "order")
  /\ page.adding # None => \E s \in Slot : Here(s, "add")

(* An update the list has heard of is followed by a read of the list that  *)
(* starts after it (handleInventoryUpdate, the refetch timer).             *)
RefreshIsDue == page.behind => page.timer

(* The levels a product page shows are those of the backend, unless an     *)
(* update is on its way, was told wrongly or not at all, or while the page *)
(* was loading or cut off: back and forth between products, and a variant  *)
(* chosen, do not matter (handleInventoryUpdate of ProductDetailPage).     *)
StockIsCurrent ==
  At("product") /\ page.shown # None /\ feed = <<>> /\ ~Loading /\ ~missed
    => page.shown.level = Levels(page.shown.of)

(* A reload brings back the cart that was shown, unless another tab has    *)
(* stored its own or the storage refused it (saveCart, loadCart).          *)
CartSurvives ==
  [][storage # None /\ cart' # cart => ~Reload]_vars

(* An answer empties the cart only when an order was created, and never    *)
(* because a call failed (placeOrder, clearCart).                          *)
ClearedIsOrdered ==
  [][\A s \in Slot :
       cart # Empty /\ cart' = Empty /\ Answer(s) => orders' # orders]_vars

=============================================================================
