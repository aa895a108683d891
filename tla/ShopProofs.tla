----------------------------- MODULE ShopProofs -----------------------------
(***************************************************************************)
(* Proofs about Shop for any products and variants, any number of open     *)
(* calls and of updates on their way, and any bounds.                      *)
(***************************************************************************)
EXTENDS Shop, FiniteSetTheorems, SequenceTheorems, TLAPS

-----------------------------------------------------------------------------
(* The cart and what is stored of it.                                      *)

(* What is stored is the cart that is shown, or nothing of this tab.       *)
StoredCart == storage \in {cart, None}

(* No action but Reload loads the cart from the storage.                   *)
LEMMA CartIsSaved ==
  ASSUME [Next]_vars, ~Reload
  PROVE  UNCHANGED cartVars \/ SaveCart \/ storage' = None
<1>. USE DEF cartVars, feedVars
<1>1. ASSUME NEW v, AskRemove(v) \/ SelectVariant(v) \/ \E n : UpdateQuantity(v, n)
      PROVE  UNCHANGED cartVars \/ SaveCart
  BY <1>1 DEF AskRemove, SelectVariant, UpdateQuantity
<1>2. ASSUME NEW v, NEW n, NEW t, TellWrongly(v, n) \/ ChangeStock(v, n, t)
      PROVE  UNCHANGED cartVars
  BY <1>2 DEF TellWrongly, ChangeStock
<1>3. ASSUME NEW x, \/ AnswerRemove(x) \/ TypeText(x) \/ FillForm(x)
                    \/ SelectShipping(x) \/ ApplyDiscount(x) \/ QuickAdd(x)
                    \/ VisitProduct(x) \/ \E at : Visit(at, x)
      PROVE  UNCHANGED cartVars \/ SaveCart
  BY <1>3 DEF AnswerRemove, TypeText, FillForm, SelectShipping, ApplyDiscount,
              QuickAdd, VisitProduct, Visit
<1>4. CASE \/ StoredElsewhere \/ LoadList \/ Refetch \/ DismissError \/ AddToCart
           \/ Connect \/ Disconnect \/ HandleInventoryUpdate \/ PlaceOrder
           \/ LookUp \/ SignOut
  BY <1>4 DEF StoredElsewhere, LoadList, Refetch, DismissError, AddToCart, AddItem,
              Connect, Disconnect, HandleInventoryUpdate, PlaceOrder, LookUp, SignOut
<1>5. ASSUME NEW s, ReadProduct(s) \/ Answer(s)
      PROVE  UNCHANGED cartVars \/ SaveCart
  BY <1>5 DEF ReadProduct, Answer, AnswerList, AnswerAdd, AddItem, AnswerProduct,
              AnswerDiscount, AnswerOrder, ClearCart, Failed, AnswerStatus,
              AnswerCustomer, AnswerHistory
<1>. QED BY <1>1, <1>2, <1>3, <1>4, <1>5 DEF Next, vars

(* A reload brings back the cart that was shown, unless the storage does   *)
(* not hold it.                                                            *)
THEOREM ReloadKeepsCart == Spec => CartSurvives
<1>1. Init => StoredCart
  BY DEF Init, StoredCart
<1>2. StoredCart /\ [Next]_vars => StoredCart'
  <2>1. CASE Reload
    BY <2>1 DEF Reload, StoredCart
  <2>. QED BY <2>1, CartIsSaved DEF StoredCart, SaveCart, cartVars
<1>3. StoredCart => [storage # None /\ cart' # cart => ~Reload]_vars
  BY DEF StoredCart, Reload
<1>. QED BY <1>1, <1>2, <1>3, PTL DEF Spec, CartSurvives

-----------------------------------------------------------------------------
(* The inductive invariant of the pages, in parts.                         *)

PageFields ==
  {"at", "id", "text", "listed", "shown", "selected", "loading", "error", "adding",
   "timer", "behind", "form", "flagged", "submitting", "placed", "discount",
   "shipping", "removing", "found", "history"}

LevelsOf(p) == [Variants(p) -> Level]

CallShape(c) ==
  c # None =>
    /\ {"kind", "here"} \subseteq DOMAIN c
    /\ c.kind = "product" =>
         /\ {"id", "read"} \subseteq DOMAIN c
         /\ c.here /\ c.id \in Product
         /\ c.read # None => c.read \in LevelsOf(c.id)

ShownShape(shown) ==
  shown # None =>
    /\ DOMAIN shown = {"of", "level"} /\ shown = [of |-> shown.of, level |-> shown.level]
    /\ shown.of \in Product /\ shown.level \in LevelsOf(shown.of)

(* What the variables are made of, as far as it matters.                   *)
Shape ==
  /\ DOMAIN page = PageFields /\ ShownShape(page.shown)
  /\ At("product") => page.id \in Product
  /\ DOMAIN calls = Slot /\ \A s \in Slot : CallShape(calls[s])
  /\ stock \in StockType
  /\ feed \in Seq([variant : Variant, level : Level])

(* The page waits for the order that is being placed, for one at a time,   *)
(* and for none when it is placed.                                         *)
Ordering ==
  /\ \A s \in Slot : Here(s, "order") => page.submitting /\ ~page.placed
  /\ \A s, r \in Slot : Here(s, "order") /\ Here(r, "order") => s = r

(* Unless updates were missed, on the page of a product: the last update on*)
(* its way for a variant tells the stock it has now,                       *)
Told ==
  \A i \in 1 .. Len(feed) :
    (\A j \in (i + 1) .. Len(feed) : feed[j].variant # feed[i].variant)
      => feed[i].level = stock[feed[i].variant]

(* what was read for an answer is the stock as it is now,                  *)
Fresh ==
  \A s \in Slot : Asking(s, "product") /\ calls[s].read # None
                    => calls[s].read = Levels(calls[s].id)

(* and so is what is shown of a variant no update is on its way for.       *)
Shown ==
  page.shown # None =>
    \A v \in Variants(page.shown.of) :
      (\A i \in 1 .. Len(feed) : feed[i].variant # v)
        => page.shown.level[v] = stock[v]

Current == At("product") /\ ~missed => Told /\ Fresh /\ Shown

IInv == Shape /\ RefreshIsDue /\ Ordering /\ Current

(* A product has variants only.                                            *)
LEMMA VariantsAreVariants ==
  ASSUME NEW p \in Product
  PROVE  Variants(p) \subseteq Variant
  BY ShopAssumption DEF Variants

(* The backend reads a level for every variant of a product.               *)
LEMMA LevelsAreLevels ==
  ASSUME stock \in StockType, NEW p \in Product
  PROVE  Levels(p) \in LevelsOf(p)
  BY VariantsAreVariants DEF Levels, LevelsOf, StockType

-----------------------------------------------------------------------------
(* Steps that leave alone what the invariant is about.                     *)

Same(p, q) ==
  /\ DOMAIN q = PageFields
  /\ q.at = p.at /\ q.id = p.id /\ q.shown = p.shown
  /\ q.submitting = p.submitting /\ q.placed = p.placed
  /\ ~q.behind \/ (q.behind = p.behind /\ q.timer = p.timer)

Plain == {"list", "add", "discount", "status", "customer", "history"}

(* A call of such a kind is made, answered or followed by another.         *)
PlainCall ==
  \/ UNCHANGED calls
  \/ \E c : \E r \in Slot :
       /\ calls' = [calls EXCEPT ![r] = c]
       /\ c # None => {"kind", "here"} \subseteq DOMAIN c /\ c.kind \in Plain

Aside == Same(page, page') /\ PlainCall /\ UNCHANGED feedVars

(* A slot that is free can be chosen.                                      *)
LEMMA FreeSlot ==
  ASSUME NEW cs, Free(cs) # {}
  PROVE  /\ (CHOOSE s \in Free(cs) : TRUE) \in Slot
         /\ cs[CHOOSE s \in Free(cs) : TRUE] = None
  BY DEF Free

(* A call that is made takes a slot that was free.                         *)
LEMMA CallSteps ==
  ASSUME NEW c, Call(c)
  PROVE  \E r \in Slot : calls[r] = None /\ calls' = [calls EXCEPT ![r] = c]
  BY FreeSlot DEF Call, Made

(* A plain call is made.                                                   *)
LEMMA PlainCallSteps ==
  ASSUME NEW c, {"kind", "here"} \subseteq DOMAIN c, c.kind \in Plain, Call(c)
  PROVE  PlainCall
  BY CallSteps DEF PlainCall

(* A call ends.                                                            *)
LEMMA PlainReturn ==
  ASSUME NEW s \in Slot, Return(s)
  PROVE  PlainCall
  BY DEF PlainCall, Return

(* The invariant survives every step that leaves it alone.                 *)
LEMMA AsideKeeps ==
  ASSUME IInv, Aside
  PROVE  IInv'
<1>. USE DEF Same, Asking, Here, At, Aside, feedVars
<1>1. RefreshIsDue'
  BY DEF IInv, RefreshIsDue
<1>2. CASE UNCHANGED calls
  <2>1. Shape'
    BY <1>2 DEF IInv, Shape, ShownShape, CallShape
  <2>2. Ordering'
    BY <1>2 DEF IInv, Shape, Ordering
  <2>3. Current'
    BY <1>2 DEF IInv, Shape, Current, Told, Fresh, Shown, Levels
  <2>. QED BY <1>1, <2>1, <2>2, <2>3 DEF IInv
<1>3. ASSUME NEW r \in Slot, NEW c,
             calls' = [calls EXCEPT ![r] = c],
             c # None => {"kind", "here"} \subseteq DOMAIN c /\ c.kind \in Plain
      PROVE  IInv'
  <2>. USE DEF Plain
  <2>1. Shape'
    BY <1>3 DEF IInv, Shape, ShownShape, CallShape
  <2>2. Ordering'
    BY <1>3 DEF IInv, Shape, Ordering
  <2>3. Current'
    BY <1>3 DEF IInv, Shape, Current, Told, Fresh, Shown, Levels
  <2>. QED BY <1>1, <2>1, <2>2, <2>3 DEF IInv
<1>. QED BY <1>2, <1>3 DEF PlainCall

-----------------------------------------------------------------------------
(* The steps that leave alone what the invariant is about.                 *)

(* The customer is answered, and the call goes on for the orders.          *)
LEMMA CustomerIsAside ==
  ASSUME Shape, NEW s \in Slot, AnswerCustomer(s)
  PROVE  Aside
<1>1. Same(page, page') /\ UNCHANGED feedVars
  BY DEF AnswerCustomer, Finished, Shape, Same, PageFields
<1>2. CASE calls' = [calls EXCEPT ![s].kind = "history"]
  <2>1. calls' = [calls EXCEPT ![s] = [calls[s] EXCEPT !.kind = "history"]]
    BY <1>2
  <2>2. LET c == [calls[s] EXCEPT !.kind = "history"]
        IN  {"kind", "here"} \subseteq DOMAIN c /\ c.kind \in Plain
    BY DEF AnswerCustomer, Asking, Shape, CallShape, Plain
  <2>. QED BY <1>1, <2>1, <2>2 DEF Aside, PlainCall
<1>3. CASE Return(s)
  BY <1>1, <1>3, PlainReturn DEF Aside
<1>. QED BY <1>2, <1>3 DEF AnswerCustomer

(* One step for each of the actions that are left.                         *)
LEMMA StepsAside ==
  ASSUME Shape
  PROVE  /\ \A s \in Slot : AnswerList(s) \/ AnswerAdd(s) \/ AnswerDiscount(s)
                              \/ AnswerStatus(s) \/ AnswerHistory(s) => Aside
         /\ \A p : QuickAdd(p) => Aside
         /\ \A x : ApplyDiscount(x) \/ AskRemove(x) \/ SelectVariant(x)
                   \/ AnswerRemove(x) \/ TypeText(x) \/ FillForm(x)
                   \/ SelectShipping(x) => Aside
         /\ \A v, n : UpdateQuantity(v, n) => Aside
         /\ StoredElsewhere \/ LoadList \/ Refetch \/ DismissError \/ AddToCart
              \/ LookUp \/ SignOut => Aside
<1>. USE DEF Shape, Aside, PlainCall
<1>0. Same(page, page)
  BY DEF Same
<1>1. ASSUME NEW v, NEW n, UpdateQuantity(v, n) PROVE Aside
  BY <1>0, <1>1 DEF UpdateQuantity
<1>2. ASSUME NEW s \in Slot, AnswerList(s) PROVE Aside
  <2>1. Same(page, page')
    BY <1>2 DEF AnswerList, Same, PageFields
  <2>. QED BY <1>2, <2>1, PlainReturn DEF AnswerList
<1>3. ASSUME NEW s \in Slot, AnswerAdd(s) PROVE Aside
  <2>1. Same(page, page')
    BY <1>3 DEF AnswerAdd, Same, PageFields
  <2>. QED BY <1>3, <2>1, PlainReturn DEF AnswerAdd
<1>4. ASSUME NEW s \in Slot, AnswerDiscount(s) PROVE Aside
  <2>1. Same(page, page')
    BY <1>4 DEF AnswerDiscount, Same, PageFields
  <2>. QED BY <1>4, <2>1, PlainReturn DEF AnswerDiscount
<1>5. ASSUME NEW s \in Slot, AnswerStatus(s) PROVE Aside
  <2>1. Same(page, page')
    BY <1>5 DEF AnswerStatus, Finished, Same, PageFields
  <2>. QED BY <1>5, <2>1, PlainReturn DEF AnswerStatus, Finished
<1>6. ASSUME NEW s \in Slot, AnswerHistory(s) PROVE Aside
  <2>1. Same(page, page')
    BY <1>6 DEF AnswerHistory, Finished, Same, PageFields
  <2>. QED BY <1>6, <2>1, PlainReturn DEF AnswerHistory, Finished
<1>7. ASSUME NEW p, QuickAdd(p) PROVE Aside
  <2>1. Same(page, page')
    BY <1>7 DEF QuickAdd, Same, PageFields
  <2>. QED BY <1>7, <2>1, PlainCallSteps DEF QuickAdd, Plain
<1>8. ASSUME NEW x, ApplyDiscount(x) PROVE Aside
  <2>1. Same(page, page')
    BY <1>8 DEF ApplyDiscount, Same, PageFields
  <2>. QED BY <1>8, <2>1, PlainCallSteps DEF ApplyDiscount, Plain
<1>9. ASSUME NEW x, AskRemove(x) PROVE Aside
  BY <1>9 DEF AskRemove, Same, PageFields
<1>10. ASSUME NEW x, SelectVariant(x) PROVE Aside
  BY <1>10 DEF SelectVariant, Same, PageFields
<1>11. ASSUME NEW x, AnswerRemove(x) PROVE Aside
  BY <1>11 DEF AnswerRemove, Same, PageFields
<1>12. ASSUME NEW x, TypeText(x) PROVE Aside
  BY <1>12 DEF TypeText, Same, PageFields
<1>13. ASSUME NEW x, FillForm(x) PROVE Aside
  BY <1>13 DEF FillForm, Same, PageFields
<1>14. ASSUME NEW x, SelectShipping(x) PROVE Aside
  BY <1>14 DEF SelectShipping, Same, PageFields
<1>15. ASSUME StoredElsewhere PROVE Aside
  BY <1>15 DEF StoredElsewhere, Same, PageFields
<1>16. ASSUME LoadList PROVE Aside
  <2>1. Same(page, page')
    BY <1>16 DEF LoadList, ListCall, Same, PageFields
  <2>. QED BY <1>16, <2>1, PlainCallSteps DEF LoadList, ListCall, Plain
<1>17. ASSUME Refetch PROVE Aside
  <2>1. Same(page, page')
    BY <1>17 DEF Refetch, ListCall, Same, PageFields
  <2>. QED BY <1>17, <2>1, PlainCallSteps DEF Refetch, ListCall, Plain
<1>18. ASSUME DismissError PROVE Aside
  BY <1>18 DEF DismissError, Same, PageFields
<1>19. ASSUME AddToCart PROVE Aside
  BY <1>19 DEF AddToCart, Same, PageFields
<1>20. ASSUME LookUp PROVE Aside
  <2>1. Same(page, page')
    BY <1>20 DEF LookUp, Same, PageFields
  <2>. QED BY <1>20, <2>1, PlainCallSteps DEF LookUp, Plain
<1>21. ASSUME SignOut PROVE Aside
  BY <1>21 DEF SignOut, Same, PageFields
<1>. QED
  BY <1>1, <1>2, <1>3, <1>4, <1>5, <1>6, <1>7, <1>8, <1>9, <1>10, <1>11,
     <1>12, <1>13, <1>14, <1>15, <1>16, <1>17, <1>18, <1>19, <1>20, <1>21

-----------------------------------------------------------------------------
(* The feed.                                                               *)

(* Nothing is on its way to a page that is cut off.                        *)
LEMMA LinkKeeps ==
  ASSUME IInv, Connect \/ Disconnect
  PROVE  IInv'
<1>. USE DEF Connect, Disconnect, Asking, Here, At
<1>1. Shape'
  BY EmptySeq DEF IInv, Shape, ShownShape, CallShape
<1>2. RefreshIsDue' /\ Ordering'
  BY DEF IInv, RefreshIsDue, Ordering
<1>3. Current'
  <2>1. CASE UNCHANGED feed
    BY <2>1 DEF IInv, Current, Told, Fresh, Shown, Levels
  <2>2. CASE feed # <<>> /\ feed' = <<>>
    BY <2>2 DEF IInv, Current
  <2>. QED BY <2>1, <2>2
<1>. QED BY <1>1, <1>2, <1>3 DEF IInv

(* An update that is sent is the last one of its variant.                  *)
LEMMA ToldKeeps ==
  ASSUME IInv, NEW v \in Variant, NEW n \in Level, NEW told,
         ChangeStock(v, n, told) \/ TellWrongly(v, n)
  PROVE  IInv'
<1>. USE DEF Asking, Here, At
<1>1. /\ UNCHANGED <<page, calls>>
      /\ stock' \in {stock, [stock EXCEPT ![v] = n]}
      /\ feed' \in {feed, Append(feed, [variant |-> v, level |-> n])}
  BY DEF ChangeStock, TellWrongly
<1>2. Shape'
  <2>1. feed' \in Seq([variant : Variant, level : Level])
    <3>. DEFINE m == [variant |-> v, level |-> n]
                U == [variant : Variant, level : Level]
    <3>1. m \in U /\ feed' \in {feed, Append(feed, m)}
      BY <1>1
    <3>2. feed \in Seq(U)
      BY DEF IInv, Shape
    <3>. HIDE DEF m, U
    <3>3. Append(feed, m) \in Seq(U)
      BY <3>1, <3>2, AppendProperties
    <3>4. feed' \in Seq(U)
      BY <3>1, <3>2, <3>3
    <3>. QED BY <3>4 DEF U
  <2>2. stock' \in StockType
    BY <1>1 DEF IInv, Shape, StockType
  <2>. QED BY <1>1, <2>1, <2>2 DEF IInv, Shape
<1>3. RefreshIsDue' /\ Ordering'
  BY <1>1 DEF IInv, RefreshIsDue, Ordering
<1>4. Current'
  <2>. SUFFICES ASSUME At("product"), ~missed' PROVE (Told /\ Fresh /\ Shown)'
    BY <1>1 DEF Current
  <2>1. /\ Told /\ Fresh /\ Shown /\ told /\ ~Loading
        /\ stock' = [stock EXCEPT ![v] = n]
        /\ feed' = Append(feed, [variant |-> v, level |-> n])
    BY DEF ChangeStock, TellWrongly, IInv, Current
  <2>. DEFINE m == [variant |-> v, level |-> n]
  <2>2. /\ Len(feed') = Len(feed) + 1 /\ feed'[Len(feed) + 1] = m
        /\ Len(feed) \in Nat
        /\ \A i \in 1 .. Len(feed) : feed'[i] = feed[i] /\ feed[i].variant \in Variant
    <3>1. feed \in Seq([variant : Variant, level : Level])
      BY DEF IInv, Shape
    <3>2. m \in [variant : Variant, level : Level]
      OBVIOUS
    <3>. HIDE DEF m
    <3>3. \A i \in 1 .. Len(feed) : feed[i] \in [variant : Variant, level : Level]
      BY <3>1, ElementOfSeq
    <3>. QED BY <2>1, <3>1, <3>2, <3>3, AppendProperties DEF m
  <2>3. stock'[v] = n /\ \A u \in Variant \ {v} : stock'[u] = stock[u]
    BY <2>1 DEF IInv, Shape, StockType
  <2>4. Told'
    <3>1. SUFFICES ASSUME NEW i \in 1 .. Len(feed'),
                          \A j \in (i + 1) .. Len(feed') :
                            feed'[j].variant # feed'[i].variant
                   PROVE  feed'[i].level = stock'[feed'[i].variant]
      BY DEF Told
    <3>2. CASE i = Len(feed) + 1
      BY <2>2, <2>3, <3>2
    <3>3. CASE i # Len(feed) + 1
      <4>1. /\ i \in 1 .. Len(feed) /\ feed'[i] = feed[i]
            /\ feed[i].variant \in Variant \ {v}
        BY <2>2, <3>1, <3>3
      <4>2. \A j \in (i + 1) .. Len(feed) : feed[j].variant # feed[i].variant
        BY <2>2, <3>1, <4>1
      <4>. QED BY <2>1, <2>3, <4>1, <4>2 DEF Told
    <3>. QED BY <3>2, <3>3
  <2>5. Fresh'
    BY <1>1, <2>1 DEF Fresh, Loading, IInv, Shape, CallShape
  <2>6. Shown'
    <3>1. SUFFICES ASSUME page.shown # None, NEW u \in Variants(page.shown.of),
                          \A i \in 1 .. Len(feed') : feed'[i].variant # u
                   PROVE  page.shown.level[u] = stock'[u]
      BY <1>1 DEF Shown, Variants
    <3>2. u \in Variant
      BY <3>1, VariantsAreVariants DEF IInv, Shape, ShownShape
    <3>3. u # v /\ \A i \in 1 .. Len(feed) : feed[i].variant # u
      BY <2>2, <3>1
    <3>. QED BY <2>1, <2>3, <3>1, <3>2, <3>3 DEF Shown
  <2>. QED BY <2>4, <2>5, <2>6
<1>. QED BY <1>2, <1>3, <1>4 DEF IInv

(* What the oldest update does to the levels a page shows.                 *)
LEMMA UpdatedSteps ==
  ASSUME Shape, page.shown # None, NEW m \in [variant : Variant, level : Level],
         page' = Updated(page, m)
  PROVE  /\ DOMAIN page' = PageFields /\ ShownShape(page'.shown)
         /\ page'.at = page.at /\ page'.id = page.id
         /\ page'.submitting = page.submitting /\ page'.placed = page.placed
         /\ page'.behind = page.behind /\ page'.timer = page.timer
         /\ page'.shown.of = page.shown.of
         /\ \A v \in Variants(page.shown.of) :
              page'.shown.level[v] = IF v = m.variant THEN m.level
                                                      ELSE page.shown.level[v]
<1>. DEFINE l == [page.shown.level EXCEPT ![m.variant] = m.level]
<1>1. CASE m.variant \notin DOMAIN page.shown.level
  BY <1>1 DEF Updated, Shape, ShownShape, LevelsOf
<1>2. CASE m.variant \in DOMAIN page.shown.level
  <2>1. page' = [page EXCEPT !.shown = [page.shown EXCEPT !.level = l]]
    BY <1>2 DEF Updated
  <2>2. l \in LevelsOf(page.shown.of)
    BY DEF Shape, ShownShape, LevelsOf
  <2>3. \A v \in Variants(page.shown.of) :
          l[v] = IF v = m.variant THEN m.level ELSE page.shown.level[v]
    BY DEF Shape, ShownShape, LevelsOf
  <2>4. [page.shown EXCEPT !.level = l] = [of |-> page.shown.of, level |-> l]
    BY DEF Shape, ShownShape
  <2>. HIDE DEF l
  <2>5. page'.shown = [of |-> page.shown.of, level |-> l]
    BY <2>1, <2>4 DEF Shape, PageFields
  <2>6. ShownShape(page'.shown)
    BY <2>2, <2>5 DEF Shape, ShownShape
  <2>. QED BY <2>1, <2>3, <2>5, <2>6 DEF Shape, PageFields
<1>. QED BY <1>1, <1>2

(* The oldest update leaves the levels no other update is on its way for.  *)
LEMMA HandledKeeps ==
  ASSUME IInv, HandleInventoryUpdate
  PROVE  IInv'
<1>. USE DEF Asking, Here, At
<1>. DEFINE m == Head(feed)
<1>1. /\ feed # <<>> /\ feed' = Tail(feed)
      /\ UNCHANGED <<calls, stock, missed>>
  BY DEF HandleInventoryUpdate
<1>2. /\ m \in [variant : Variant, level : Level]
      /\ feed' \in Seq([variant : Variant, level : Level])
      /\ Len(feed) \in Nat /\ Len(feed) >= 1 /\ Len(feed') = Len(feed) - 1
      /\ m = feed[1] /\ \A i \in 1 .. Len(feed') : feed'[i] = feed[i + 1]
  <2>. DEFINE U == [variant : Variant, level : Level]
  <2>1. feed \in Seq(U) /\ feed # <<>>
    BY <1>1 DEF IInv, Shape
  <2>. HIDE DEF U
  <2>2. /\ m \in U /\ Tail(feed) \in Seq(U) /\ Len(Tail(feed)) = Len(feed) - 1
        /\ \A i \in 1 .. Len(Tail(feed)) : Tail(feed)[i] = feed[i + 1]
    BY <2>1, HeadTailProperties
  <2>3. Len(feed) \in Nat /\ Len(feed) >= 1 /\ m = feed[1]
    BY <2>1, EmptySeq, LenProperties
  <2>. QED BY <1>1, <2>2, <2>3 DEF U
<1>. HIDE DEF m
<1>0. Told => Told'
  <2>1. SUFFICES ASSUME Told, NEW i \in 1 .. Len(feed'),
                        \A j \in (i + 1) .. Len(feed') :
                          feed'[j].variant # feed'[i].variant
                 PROVE  feed'[i].level = stock[feed'[i].variant]
    BY <1>1 DEF Told
  <2>2. feed'[i] = feed[i + 1] /\ i + 1 \in 1 .. Len(feed)
    BY <1>2
  <2>3. ASSUME NEW j \in (i + 2) .. Len(feed)
        PROVE  feed[j].variant # feed[i + 1].variant
    <3>1. j - 1 \in (i + 1) .. Len(feed') /\ feed'[j - 1] = feed[j]
      BY <1>2
    <3>. QED BY <2>1, <2>2, <3>1
  <2>4. \A j \in ((i + 1) + 1) .. Len(feed) : feed[j].variant # feed[i + 1].variant
    BY <2>3
  <2>. QED BY <2>1, <2>2, <2>4 DEF Told
<1>3. CASE At("shop")
  <2>1. /\ DOMAIN page' = PageFields /\ page'.at = page.at /\ page'.id = page.id
        /\ page'.submitting = page.submitting /\ page'.placed = page.placed
        /\ page'.shown = page.shown /\ page'.timer
    BY <1>3 DEF HandleInventoryUpdate, Scheduled, IInv, Shape, PageFields
  <2>2. Shape'
    BY <1>1, <1>2, <2>1 DEF IInv, Shape, ShownShape, CallShape
  <2>3. RefreshIsDue' /\ Ordering' /\ Current'
    BY <1>1, <1>3, <2>1 DEF IInv, RefreshIsDue, Ordering, Current
  <2>. QED BY <2>2, <2>3 DEF IInv
<1>4. CASE ~At("shop") /\ page.shown = None
  <2>1. UNCHANGED page
    BY <1>4 DEF HandleInventoryUpdate, Updated
  <2>2. Shape'
    BY <1>1, <1>2, <2>1 DEF IInv, Shape, ShownShape, CallShape
  <2>3. RefreshIsDue' /\ Ordering'
    BY <1>1, <2>1 DEF IInv, RefreshIsDue, Ordering
  <2>5. Current'
    BY <1>0, <1>1, <1>4, <2>1 DEF IInv, Current, Fresh, Shown, Levels
  <2>. QED BY <2>2, <2>3, <2>5 DEF IInv
<1>5. CASE ~At("shop") /\ page.shown # None
  <2>1. page' = Updated(page, m)
    BY <1>5 DEF HandleInventoryUpdate, m
  <2>2. Shape'
    BY <1>1, <1>2, <1>5, <2>1, UpdatedSteps DEF IInv, Shape, CallShape
  <2>3. RefreshIsDue' /\ Ordering'
    BY <1>1, <1>2, <1>5, <2>1, UpdatedSteps DEF IInv, RefreshIsDue, Ordering
  <2>5. ASSUME Fresh PROVE Fresh'
    BY <1>1, <2>5 DEF Fresh, Levels
  <2>6. ASSUME Told, Shown PROVE Shown'
    <3>1. SUFFICES ASSUME NEW v \in Variants(page.shown.of),
                          \A i \in 1 .. Len(feed') : feed'[i].variant # v
                   PROVE  page'.shown.level[v] = stock[v]
      BY <1>1, <1>2, <1>5, <2>1, UpdatedSteps DEF Shown, Variants, IInv
    <3>2. page'.shown.level[v] = IF v = m.variant THEN m.level ELSE page.shown.level[v]
      BY <1>2, <1>5, <2>1, UpdatedSteps DEF IInv
    <3>3. \A j \in 2 .. Len(feed) : feed[j].variant # v
      <4>1. \A j \in 2 .. Len(feed) : j - 1 \in 1 .. Len(feed') /\ feed'[j - 1] = feed[j]
        BY <1>2
      <4>. QED BY <3>1, <4>1
    <3>4. CASE v = m.variant
      BY <1>2, <2>6, <3>2, <3>3, <3>4 DEF Told
    <3>5. CASE v # m.variant
      <4>1. \A i \in 1 .. Len(feed) : feed[i].variant # v
        BY <1>2, <3>3, <3>5
      <4>. QED BY <1>5, <2>6, <3>2, <3>5, <4>1 DEF Shown
    <3>. QED BY <3>4, <3>5
  <2>7. Current'
    BY <1>0, <1>1, <1>2, <1>5, <2>1, <2>5, <2>6, UpdatedSteps DEF IInv, Current
  <2>. QED BY <2>2, <2>3, <2>7 DEF IInv
<1>. QED BY <1>3, <1>4, <1>5

-----------------------------------------------------------------------------
(* The page of a product.                                                  *)

(* What is read is the stock as it is now.                                 *)
LEMMA ReadKeeps ==
  ASSUME IInv, NEW s \in Slot, ReadProduct(s)
  PROVE  IInv'
<1>. USE DEF Asking, Here, At
<1>1. /\ UNCHANGED <<page, stock, feed, missed>>
      /\ calls[s] # None /\ calls[s].kind = "product"
      /\ {"kind", "here", "id", "read"} \subseteq DOMAIN calls[s]
      /\ calls[s].here /\ calls[s].id \in Product
      /\ calls' = [calls EXCEPT ![s] = [calls[s] EXCEPT !.read = Levels(calls[s].id)]]
      /\ Levels(calls[s].id) \in LevelsOf(calls[s].id)
  BY LevelsAreLevels DEF ReadProduct, feedVars, IInv, Shape, CallShape
<1>2. Shape'
  <2>1. CallShape([calls[s] EXCEPT !.read = Levels(calls[s].id)])
    BY <1>1 DEF CallShape
  <2>. QED BY <1>1, <2>1 DEF IInv, Shape
<1>3. RefreshIsDue' /\ Ordering'
  BY <1>1 DEF IInv, Shape, RefreshIsDue, Ordering
<1>4. Current'
  <2>1. Fresh => Fresh'
    BY <1>1 DEF IInv, Shape, Fresh, Levels
  <2>. QED BY <1>1, <2>1 DEF IInv, Current, Told, Shown
<1>. QED BY <1>2, <1>3, <1>4 DEF IInv

(* What is shown then is what was read.                                    *)
LEMMA AnswerProductKeeps ==
  ASSUME IInv, NEW s \in Slot, AnswerProduct(s)
  PROVE  IInv'
<1>. USE DEF Asking, Here, At
<1>. DEFINE c == calls[s]
<1>1. /\ UNCHANGED <<stock, feed, missed>> /\ calls' = [calls EXCEPT ![s] = None]
      /\ c # None /\ c.kind = "product" /\ c.id \in Product
      /\ c.read # None => c.read \in LevelsOf(c.id)
  BY DEF AnswerProduct, Return, feedVars, IInv, Shape, CallShape
<1>2. /\ DOMAIN page' = PageFields /\ page'.at = page.at /\ page'.id = page.id
      /\ page'.submitting = page.submitting /\ page'.placed = page.placed
      /\ page'.behind = page.behind /\ page'.timer = page.timer
      /\ \/ c.read # None /\ page'.shown = [of |-> c.id, level |-> c.read]
         \/ page'.shown = page.shown
  <2>1. CASE page' = Finished(page, FALSE)
    BY <2>1 DEF Finished, IInv, Shape, PageFields
  <2>2. CASE /\ c.read # None
             /\ page' = [Finished(page, TRUE) EXCEPT
                           !.shown = [of |-> c.id, level |-> c.read],
                           !.selected = VariantsOf[c.id][1]]
    BY <2>2 DEF Finished, IInv, Shape, PageFields
  <2>. QED BY <2>1, <2>2 DEF AnswerProduct
<1>3. ShownShape(page'.shown)
  BY <1>1, <1>2 DEF ShownShape, IInv, Shape
<1>4. Shape'
  BY <1>1, <1>2, <1>3 DEF IInv, Shape, CallShape
<1>5. RefreshIsDue' /\ Ordering'
  BY <1>1, <1>2 DEF IInv, Shape, RefreshIsDue, Ordering
<1>6. Fresh => Fresh'
  BY <1>1 DEF IInv, Shape, Fresh, Levels
<1>7. Fresh /\ Shown => Shown'
  <2>1. Fresh /\ c.read # None => c.read = [v \in Variants(c.id) |-> stock[v]]
    BY <1>1 DEF Fresh, Levels
  <2>. QED BY <1>1, <1>2, <2>1 DEF Shown, Variants
<1>8. Current'
  BY <1>1, <1>2, <1>6, <1>7 DEF IInv, Current, Told
<1>. QED BY <1>4, <1>5, <1>8 DEF IInv

-----------------------------------------------------------------------------
(* Placing an order.                                                       *)

(* An order is placed when none is being placed.                           *)
LEMMA PlaceKeeps ==
  ASSUME IInv, PlaceOrder
  PROVE  IInv'
<1>. USE DEF Asking, Here, At
<1>1. CASE page.form = "invalid"
  <2>1. Same(page, page') /\ UNCHANGED <<calls, feedVars>>
    BY <1>1 DEF PlaceOrder, IInv, Shape, Same, PageFields
  <2>. QED BY <2>1, AsideKeeps DEF Aside, PlainCall
<1>2. CASE page.form # "invalid"
  <2>1. /\ DOMAIN page' = PageFields /\ page'.at = page.at /\ page'.id = page.id
        /\ ~page.submitting /\ page'.submitting
        /\ ~page.placed /\ page'.placed = page.placed
        /\ page'.behind = page.behind /\ page'.timer = page.timer
        /\ page'.shown = page.shown /\ page.at = "cart"
        /\ UNCHANGED feedVars
    BY <1>2 DEF PlaceOrder, CheckingOut, CanSubmit, IInv, Shape, PageFields
  <2>2. PICK s \in Slot :
          calls' = [calls EXCEPT ![s] = [kind |-> "order", here |-> TRUE]]
    BY <1>2, CallSteps DEF PlaceOrder
  <2>3. Shape' /\ Current'
    BY <2>1, <2>2 DEF IInv, Shape, CallShape, Current, feedVars
  <2>4. RefreshIsDue'
    BY <2>1 DEF IInv, RefreshIsDue
  <2>5. Ordering'
    BY <2>1, <2>2 DEF IInv, Shape, Ordering
  <2>. QED BY <2>3, <2>4, <2>5 DEF IInv
<1>. QED BY <1>1, <1>2

(* The answer the page waits for is that of its only order.                *)
LEMMA AnswerOrderKeeps ==
  ASSUME IInv, NEW s \in Slot, AnswerOrder(s)
  PROVE  IInv'
<1>. USE DEF Asking, Here, At
<1>1. /\ calls' = [calls EXCEPT ![s] = None] /\ UNCHANGED feedVars
      /\ calls[s] # None /\ calls[s].kind = "order"
  BY DEF AnswerOrder, Return
<1>2. /\ DOMAIN page' = PageFields /\ page'.at = page.at /\ page'.id = page.id
      /\ page'.behind = page.behind /\ page'.timer = page.timer
      /\ page'.shown = page.shown
  BY DEF AnswerOrder, Failed, IInv, Shape, PageFields
<1>3. ~calls[s].here => page'.submitting = page.submitting /\ page'.placed = page.placed
  BY DEF AnswerOrder, Failed
<1>4. Shape'
  BY <1>1, <1>2 DEF IInv, Shape, CallShape, feedVars
<1>5. Current'
  BY <1>1, <1>2 DEF IInv, Shape, Current, Told, Fresh, Shown, Levels, feedVars
<1>6. RefreshIsDue'
  BY <1>2 DEF IInv, RefreshIsDue
<1>7. Ordering'
  BY <1>1, <1>3 DEF IInv, Shape, Ordering
<1>. QED BY <1>4, <1>5, <1>6, <1>7 DEF IInv

-----------------------------------------------------------------------------
(* Going from page to page.                                                *)

(* A page that has just been mounted, with calls left behind.              *)
LEMMA MountHolds ==
  ASSUME NEW at, NEW id, at = "product" => id \in Product,
         NEW cs, DOMAIN cs = Slot, stock \in StockType,
         \A s \in Slot : cs[s] # None =>
           {"kind", "here"} \subseteq DOMAIN cs[s] /\ ~cs[s].here
             /\ cs[s].kind \in {"add", "order"},
         Mount(at, id, cs)
  PROVE  IInv'
<1>. USE DEF Asking, Here, At
<1>1. /\ DOMAIN page' = PageFields /\ page'.at = at /\ page'.id = id
      /\ ~page'.submitting /\ ~page'.placed /\ ~page'.behind /\ page'.shown = None
      /\ feed' = <<>> /\ UNCHANGED stock
  BY DEF Mount, Blank, PageFields
<1>2. \/ calls' = cs
      \/ \E r \in Slot :
           \/ calls' = [cs EXCEPT ![r] = ListCall(FALSE)]
           \/ calls' = [cs EXCEPT ![r] = ProductCall(id)] /\ at = "product"
  BY FreeSlot DEF Mount, Mounted, Made
<1>. USE DEF ListCall, ProductCall
<1>3. Shape'
  <2>1. feed' \in Seq([variant : Variant, level : Level])
    BY <1>1, EmptySeq
  <2>2. DOMAIN calls' = Slot /\ \A s \in Slot : CallShape(calls'[s])
    BY <1>2 DEF CallShape
  <2>. QED BY <1>1, <2>1, <2>2 DEF Shape, ShownShape
<1>4. RefreshIsDue'
  BY <1>1 DEF RefreshIsDue
<1>5. Ordering'
  BY <1>2 DEF Ordering
<1>6. Current'
  <2>1. Told' /\ Shown'
    BY <1>1 DEF Told, Shown
  <2>2. Fresh'
    BY <1>2 DEF Fresh
  <2>. QED BY <2>1, <2>2 DEF Current
<1>. QED BY <1>3, <1>4, <1>5, <1>6 DEF IInv

(* A page is left for another, or loaded anew.                             *)
LEMMA MountKeeps ==
  ASSUME IInv, Reload \/ \E at, id : (at = "product" => id \in Product) /\ Visit(at, id)
  PROVE  IInv'
<1>1. CASE Reload
  <2>. DEFINE none == [s \in Slot |-> None]
  <2>1. Mount(page.at, page.id, none)
    BY <1>1 DEF Reload
  <2>2. DOMAIN none = Slot /\ \A s \in Slot : none[s] = None
    OBVIOUS
  <2>3. stock \in StockType /\ (page.at = "product" => page.id \in Product)
    BY DEF IInv, Shape, At
  <2>. HIDE DEF none
  <2>. QED BY <2>1, <2>2, <2>3, MountHolds
<1>2. ASSUME NEW at, NEW id, at = "product" => id \in Product, Visit(at, id)
      PROVE  IInv'
  <2>1. \A s \in Slot : Left(calls)[s] # None =>
          {"kind", "here"} \subseteq DOMAIN Left(calls)[s] /\ ~Left(calls)[s].here
            /\ Left(calls)[s].kind \in {"add", "order"}
    BY DEF Left, IInv, Shape, CallShape
  <2>2. DOMAIN Left(calls) = Slot
    BY DEF Left
  <2>. QED BY <1>2, <2>1, <2>2, MountHolds DEF Visit, IInv, Shape
<1>. QED BY <1>1, <1>2

(* Another product is read while the one before is shown.                  *)
LEMMA VisitProductKeeps ==
  ASSUME IInv, NEW p \in Product, VisitProduct(p)
  PROVE  IInv'
<1>. USE DEF Asking, Here, At, ProductCall
<1>1. /\ DOMAIN page' = PageFields /\ page'.at = page.at /\ page'.id = p
      /\ page'.submitting = page.submitting /\ page'.placed = page.placed
      /\ page'.behind = page.behind /\ page'.timer = page.timer
      /\ page'.shown = page.shown /\ UNCHANGED feedVars
  BY DEF VisitProduct, IInv, Shape, PageFields
<1>2. PICK s \in Slot : calls' = [calls EXCEPT ![s] = ProductCall(p)]
  BY CallSteps DEF VisitProduct
<1>3. Shape'
  BY <1>1, <1>2 DEF IInv, Shape, CallShape, feedVars
<1>4. RefreshIsDue' /\ Ordering'
  BY <1>1, <1>2 DEF IInv, Shape, RefreshIsDue, Ordering
<1>5. Current'
  BY <1>1, <1>2 DEF IInv, Shape, Current, Told, Fresh, Shown, Levels, feedVars
<1>. QED BY <1>3, <1>4, <1>5 DEF IInv

-----------------------------------------------------------------------------
(* Every step keeps the invariant.                                         *)

(* One case for each action.                                               *)
LEMMA NextKeeps ==
  ASSUME IInv, [Next]_vars
  PROVE  IInv'
<1>1. CASE \E v \in Variant : \/ AskRemove(v) \/ SelectVariant(v)
                              \/ \E n \in 0 .. MaxItems : UpdateQuantity(v, n)
  BY <1>1, StepsAside, AsideKeeps DEF IInv
<1>2. CASE \E v \in Traded, n \in Level :
             TellWrongly(v, n) \/ \E told \in BOOLEAN : ChangeStock(v, n, told)
  BY <1>2, ToldKeeps, ShopAssumption
<1>3. CASE \/ \E sure \in BOOLEAN : AnswerRemove(sure)
           \/ \E w \in Word \cup {None} : TypeText(w)
           \/ \E f \in {"incomplete", "invalid", "valid"} : FillForm(f)
           \/ \E m \in Method : SelectShipping(m)
           \/ \E code \in Code : ApplyDiscount(code)
           \/ \E p \in Product : QuickAdd(p)
  BY <1>3, StepsAside, AsideKeeps DEF IInv
<1>4. CASE \/ StoredElsewhere \/ LoadList \/ Refetch \/ DismissError \/ AddToCart
           \/ LookUp \/ SignOut
  BY <1>4, StepsAside, AsideKeeps DEF IInv
<1>5. CASE Connect \/ Disconnect
  BY <1>5, LinkKeeps
<1>6. CASE HandleInventoryUpdate
  BY <1>6, HandledKeeps
<1>7. CASE PlaceOrder
  BY <1>7, PlaceKeeps
<1>8. CASE \E s \in Slot : ReadProduct(s)
  BY <1>8, ReadKeeps
<1>9. ASSUME NEW s \in Slot, Answer(s) PROVE IInv'
  <2>1. CASE \/ AnswerList(s) \/ AnswerAdd(s) \/ AnswerDiscount(s) \/ AnswerStatus(s)
             \/ AnswerHistory(s)
    BY <2>1, StepsAside, AsideKeeps DEF IInv
  <2>2. CASE AnswerCustomer(s)
    BY <2>2, CustomerIsAside, AsideKeeps DEF IInv
  <2>3. CASE AnswerProduct(s)
    BY <2>3, AnswerProductKeeps
  <2>4. CASE AnswerOrder(s)
    BY <2>4, AnswerOrderKeeps
  <2>. QED BY <1>9, <2>1, <2>2, <2>3, <2>4 DEF Answer
<1>10. CASE \/ \E at \in {"shop", "cart", "status", "account"} : Visit(at, None)
            \/ \E p \in Product : Visit("product", p)
            \/ Reload
  BY <1>10, MountKeeps
<1>11. CASE \E p \in Product : VisitProduct(p)
  BY <1>11, VisitProductKeeps
<1>12. CASE UNCHANGED vars
  BY <1>12, AsideKeeps DEF vars, feedVars, Aside, Same, PlainCall, IInv, Shape
<1>. QED
  BY <1>1, <1>2, <1>3, <1>4, <1>5, <1>6, <1>7, <1>8, <1>9, <1>10, <1>11, <1>12
     DEF Next

(* The shop starts on its list of products.                                *)
LEMMA InitHolds == Init => IInv
<1>. SUFFICES ASSUME Init PROVE IInv
  OBVIOUS
<1>. USE DEF Asking, Here, At
<1>1. /\ DOMAIN page = PageFields /\ page.at = "shop" /\ page.shown = None
      /\ ~page.behind /\ feed = <<>> /\ stock \in StockType
  BY DEF Init, Blank, PageFields
<1>2. \E r : calls = [[s \in Slot |-> None] EXCEPT ![r] = ListCall(FALSE)]
  BY DEF Init, Mounted, Made
<1>3. Shape
  <2>1. feed \in Seq([variant : Variant, level : Level])
    BY <1>1, EmptySeq
  <2>. QED BY <1>1, <1>2, <2>1 DEF Shape, ShownShape, CallShape, ListCall
<1>4. RefreshIsDue /\ Ordering /\ Current
  BY <1>1, <1>2 DEF RefreshIsDue, Ordering, Current, ListCall
<1>. QED BY <1>3, <1>4 DEF IInv

(* The inductive invariant holds in every reachable state.                 *)
THEOREM Inductive == Spec => []IInv
  BY InitHolds, NextKeeps, PTL DEF Spec

-----------------------------------------------------------------------------
(* What the shop promises.                                                 *)

(* The levels a product page shows are those of the backend, unless an     *)
(* update is on its way or was missed.                                     *)
THEOREM ShownStockIsCurrent == Spec => []StockIsCurrent
<1>1. ASSUME IInv, At("product"), page.shown # None, feed = <<>>, ~missed
      PROVE  page.shown.level = Levels(page.shown.of)
  <2>1. \A v \in Variants(page.shown.of) : page.shown.level[v] = stock[v]
    BY <1>1 DEF IInv, Current, Shown
  <2>2. page.shown.level \in LevelsOf(page.shown.of)
    BY <1>1 DEF IInv, Shape, ShownShape
  <2>. QED BY <2>1, <2>2 DEF LevelsOf, Levels
<1>2. IInv => StockIsCurrent
  BY <1>1 DEF StockIsCurrent
<1>. QED BY <1>2, Inductive, PTL

(* An update the list has heard of is followed by a read that starts later.*)
THEOREM HeardIsRefreshed == Spec => []RefreshIsDue
<1>1. IInv => RefreshIsDue
  BY DEF IInv
<1>. QED BY <1>1, Inductive, PTL

(* One visit of the checkout places one order at a time, and none when one *)
(* is placed.                                                              *)
THEOREM PlacedOneAtATime == Spec => []NoSecondOrder
<1>1. ASSUME IInv PROVE NoSecondOrder
  <2>. DEFINE S == {s \in Slot : Here(s, "order")}
  <2>1. CASE S = {}
    BY <2>1, FS_EmptySet DEF NoSecondOrder
  <2>2. ASSUME NEW s \in S PROVE NoSecondOrder
    <3>1. S = {s} /\ ~page.placed
      BY <1>1, <2>2 DEF IInv, Ordering
    <3>2. Cardinality({s}) = 1
      BY FS_Singleton
    <3>. QED BY <3>1, <3>2 DEF NoSecondOrder
  <2>. QED BY <2>1, <2>2
<1>. QED BY <1>1, Inductive, PTL

-----------------------------------------------------------------------------
(* Types.                                                                  *)

LEMMA BoundIsNat == MaxItems \in Nat /\ MaxItems \in Int
  BY ShopAssumption

(* An empty cart holds no piece.                                           *)
LEMMA EmptyIsCart == Empty \in Cart
<1>1. Pieces(Empty) = {} /\ Empty \in [Variant -> 0 .. MaxItems]
  BY BoundIsNat DEF Pieces, Empty
<1>2. Cardinality(Pieces(Empty)) <= MaxItems
  BY <1>1, FS_EmptySet, BoundIsNat
<1>. QED BY <1>1, <1>2 DEF Cart

(* Taking a variant out of a cart leaves a cart.                           *)
LEMMA WithoutIsCart ==
  ASSUME NEW c \in Cart, NEW v \in Variant
  PROVE  [c EXCEPT ![v] = 0] \in Cart
<1>. DEFINE d == [c EXCEPT ![v] = 0]
<1>1. c \in [Variant -> 0 .. MaxItems] /\ Cardinality(Pieces(c)) <= MaxItems
  BY DEF Cart
<1>2. d \in [Variant -> 0 .. MaxItems] /\ Pieces(d) \subseteq Pieces(c)
  BY <1>1, BoundIsNat DEF Pieces
<1>3. IsFiniteSet(Pieces(c))
  <2>1. IsFiniteSet(Variant \X (1 .. MaxItems))
    <3>1. IsFiniteSet(1 .. MaxItems)
      BY BoundIsNat, FS_Interval
    <3>2. IsFiniteSet(Variant)
      BY ShopAssumption
    <3>. QED BY <3>1, <3>2, FS_Product
  <2>. QED BY <2>1, FS_Subset DEF Pieces
<1>4. /\ Cardinality(Pieces(d)) \in Nat /\ Cardinality(Pieces(c)) \in Nat
      /\ Cardinality(Pieces(d)) <= Cardinality(Pieces(c))
  BY <1>2, <1>3, FS_Subset, FS_CardinalityType
<1>5. Cardinality(Pieces(d)) <= MaxItems
  <2>. HIDE DEF d
  <2>. QED BY <1>1, <1>4, BoundIsNat
<1>. QED BY <1>2, <1>5 DEF Cart

(* A field of a page takes any value of its type: the flags, the texts, the*)
(* variants, the list, the discount, and then every one of them.           *)
LEMMA FlagField ==
  ASSUME NEW p \in PageType, NEW b \in BOOLEAN
  PROVE  /\ [p EXCEPT !.loading = b] \in PageType
         /\ [p EXCEPT !.error = b] \in PageType
         /\ [p EXCEPT !.timer = b] \in PageType
         /\ [p EXCEPT !.behind = b] \in PageType
         /\ [p EXCEPT !.submitting = b] \in PageType
         /\ [p EXCEPT !.placed = b] \in PageType
  BY DEF PageType

LEMMA TextField ==
  ASSUME NEW p \in PageType, NEW w \in OrNone(Word)
  PROVE  /\ [p EXCEPT !.text = w] \in PageType
         /\ [p EXCEPT !.found = w] \in PageType
         /\ [p EXCEPT !.history = w] \in PageType
  BY DEF PageType

LEMMA VariantField ==
  ASSUME NEW p \in PageType, NEW v \in OrNone(Variant)
  PROVE  /\ [p EXCEPT !.selected = v] \in PageType
         /\ [p EXCEPT !.removing = v] \in PageType
  BY DEF PageType

LEMMA ListedField ==
  ASSUME NEW p \in PageType, NEW l \in OrNone(SUBSET Product)
  PROVE  [p EXCEPT !.listed = l] \in PageType
  BY DEF PageType

LEMMA DiscountField ==
  ASSUME NEW p \in PageType, NEW c \in OrNone(Code)
  PROVE  [p EXCEPT !.discount = c] \in PageType
  BY DEF PageType

(* Likewise for each of the fields.                                        *)
LEMMA FieldType ==
  ASSUME NEW p \in PageType
  PROVE  /\ \A b \in BOOLEAN :
              /\ [p EXCEPT !.loading = b] \in PageType
              /\ [p EXCEPT !.error = b] \in PageType
              /\ [p EXCEPT !.timer = b] \in PageType
              /\ [p EXCEPT !.behind = b] \in PageType
              /\ [p EXCEPT !.flagged = b] \in PageType
              /\ [p EXCEPT !.submitting = b] \in PageType
              /\ [p EXCEPT !.placed = b] \in PageType
         /\ \A w \in OrNone(Word) :
              /\ [p EXCEPT !.text = w] \in PageType
              /\ [p EXCEPT !.found = w] \in PageType
              /\ [p EXCEPT !.history = w] \in PageType
         /\ \A x \in OrNone(Product) :
              /\ [p EXCEPT !.id = x] \in PageType
              /\ [p EXCEPT !.adding = x] \in PageType
         /\ \A v \in OrNone(Variant) :
              /\ [p EXCEPT !.selected = v] \in PageType
              /\ [p EXCEPT !.removing = v] \in PageType
         /\ \A l \in OrNone(SUBSET Product) : [p EXCEPT !.listed = l] \in PageType
         /\ \A c \in OrNone(Code) : [p EXCEPT !.discount = c] \in PageType
         /\ \A m \in OrNone(Method) : [p EXCEPT !.shipping = m] \in PageType
         /\ \A f \in {"incomplete", "invalid", "valid"} :
              [p EXCEPT !.form = f] \in PageType
         /\ \A x \in OrNone([of : Product, level : ProductLevels]) :
              [p EXCEPT !.shown = x] \in PageType
<1>1. ASSUME NEW b \in BOOLEAN
      PROVE  /\ [p EXCEPT !.loading = b] \in PageType
             /\ [p EXCEPT !.error = b] \in PageType
             /\ [p EXCEPT !.timer = b] \in PageType
             /\ [p EXCEPT !.behind = b] \in PageType
             /\ [p EXCEPT !.flagged = b] \in PageType
             /\ [p EXCEPT !.submitting = b] \in PageType
             /\ [p EXCEPT !.placed = b] \in PageType
  BY DEF PageType
<1>2. ASSUME NEW w \in OrNone(Word)
      PROVE  /\ [p EXCEPT !.text = w] \in PageType
             /\ [p EXCEPT !.found = w] \in PageType
             /\ [p EXCEPT !.history = w] \in PageType
  BY DEF PageType
<1>3. ASSUME NEW x \in OrNone(Product)
      PROVE  /\ [p EXCEPT !.id = x] \in PageType
             /\ [p EXCEPT !.adding = x] \in PageType
  BY DEF PageType
<1>4. ASSUME NEW v \in OrNone(Variant)
      PROVE  /\ [p EXCEPT !.selected = v] \in PageType
             /\ [p EXCEPT !.removing = v] \in PageType
  BY DEF PageType
<1>5. ASSUME NEW l \in OrNone(SUBSET Product)
      PROVE  [p EXCEPT !.listed = l] \in PageType
  BY DEF PageType
<1>6. ASSUME NEW c \in OrNone(Code)
      PROVE  [p EXCEPT !.discount = c] \in PageType
  BY DEF PageType
<1>7. ASSUME NEW m \in OrNone(Method)
      PROVE  [p EXCEPT !.shipping = m] \in PageType
  BY DEF PageType
<1>8. ASSUME NEW f \in {"incomplete", "invalid", "valid"}
      PROVE  [p EXCEPT !.form = f] \in PageType
  BY DEF PageType
<1>9. ASSUME NEW x \in OrNone([of : Product, level : ProductLevels])
      PROVE  [p EXCEPT !.shown = x] \in PageType
  BY DEF PageType
<1>. QED BY <1>1, <1>2, <1>3, <1>4, <1>5, <1>6, <1>7, <1>8, <1>9

CallsType == [Slot -> OrNone(CallType)]

(* Making or ending a call leaves calls.                                   *)
LEMMA CallKeepsType ==
  ASSUME calls \in CallsType, NEW c \in CallType, Call(c)
  PROVE  calls' \in CallsType
  BY CallSteps DEF CallsType, OrNone

LEMMA ReturnKeepsType ==
  ASSUME calls \in CallsType, NEW s \in Slot, Return(s)
  PROVE  calls' \in CallsType
  BY DEF CallsType, OrNone, Return

(* The storage holds the cart, or nothing of this tab.                     *)
LEMMA SaveKeepsType ==
  ASSUME storage \in OrNone(Cart), cart' \in Cart, SaveCart
  PROVE  storage' \in OrNone(Cart)
  BY DEF SaveCart, OrNone

(* What a call asks for, by its kind.                                      *)
LEMMA CallKinds ==
  ASSUME NEW c \in CallType
  PROVE  /\ c # None /\ c.here \in BOOLEAN
         /\ c.kind \in {"list", "product", "add", "discount", "order", "status",
                        "customer", "history"}
         /\ c.kind = "list" => c.quiet \in BOOLEAN
         /\ c.kind = "product" => c.id \in Product /\ c.read \in OrNone(ProductLevels)
         /\ c.kind = "add" => c.id \in Product
         /\ c.kind = "discount" => c.code \in Code
         /\ c.kind \in {"status", "customer", "history"} =>
              /\ c.text \in Word
              /\ [c EXCEPT !.kind = "history"] \in CallType
         /\ c.kind \in {"add", "order"} => [c EXCEPT !.here = FALSE] \in CallType
         /\ c.kind = "product" =>
              \A l \in ProductLevels : [c EXCEPT !.read = l] \in CallType
  BY ShopAssumption DEF CallType, OrNone

(* An open call is one of them.                                            *)
LEMMA AskedType ==
  ASSUME TypeOK, NEW s \in Slot, NEW kind, Asking(s, kind)
  PROVE  calls[s] \in CallType /\ calls[s].kind = kind
  BY DEF TypeOK, Asking, OrNone

(* What a page becomes when a call it waited for has ended.                *)
LEMMA FinishedType ==
  ASSUME NEW p \in PageType
  PROVE  Finished(p, TRUE) \in PageType /\ Finished(p, FALSE) \in PageType
<1>. DEFINE q == [p EXCEPT !.loading = FALSE]
<1>1. q \in PageType
  BY FlagField
<1>2. /\ Finished(p, TRUE) = [q EXCEPT !.error = q.error]
      /\ Finished(p, FALSE) = [q EXCEPT !.error = TRUE]
  BY DEF Finished, PageType
<1>3. q.error \in BOOLEAN
  BY <1>1 DEF PageType
<1>. HIDE DEF q
<1>. QED BY <1>1, <1>2, <1>3, FlagField

(* A step that changes the page and the calls only.                        *)
LEMMA PageAndCalls ==
  ASSUME TypeOK, page' \in PageType, calls' \in CallsType,
         UNCHANGED <<cartVars, feedVars, orders>>
  PROVE  TypeOK'
  BY DEF TypeOK, CallsType, cartVars, feedVars

LEMMA PageOnly ==
  ASSUME TypeOK, page' \in PageType, UNCHANGED <<calls, cartVars, feedVars, orders>>
  PROVE  TypeOK'
  BY DEF TypeOK, cartVars, feedVars

(* The steps that change the page only, or the cart with it.               *)
LEMMA PageTypes ==
  ASSUME TypeOK
  PROVE  /\ \A v \in Variant : AskRemove(v) \/ SelectVariant(v) => TypeOK'
         /\ \A sure : AnswerRemove(sure) => TypeOK'
         /\ \A w \in Word \cup {None} : TypeText(w) => TypeOK'
         /\ \A f \in {"incomplete", "invalid", "valid"} : FillForm(f) => TypeOK'
         /\ \A m \in Method : SelectShipping(m) => TypeOK'
         /\ \A v \in Variant : \A n : UpdateQuantity(v, n) => TypeOK'
         /\ DismissError \/ SignOut \/ StoredElsewhere \/ AddToCart => TypeOK'
<1>. USE DEF TypeOK, cartVars, feedVars
<1>1. ASSUME NEW v \in Variant, AskRemove(v) \/ SelectVariant(v) PROVE TypeOK'
  <2>1. page' \in PageType
    <3>1. page' = [page EXCEPT !.removing = v] \/ page' = [page EXCEPT !.selected = v]
      BY <1>1 DEF AskRemove, SelectVariant
    <3>2. page \in PageType /\ v \in OrNone(Variant)
      BY DEF OrNone
    <3>. QED BY <3>1, <3>2, VariantField
  <2>2. UNCHANGED <<calls, cartVars, feedVars, orders>>
    BY <1>1 DEF AskRemove, SelectVariant
  <2>. QED BY <2>1, <2>2, PageOnly
<1>2. ASSUME NEW sure, AnswerRemove(sure) PROVE TypeOK'
  <2>1. page.removing \in Variant /\ page' \in PageType
    BY <1>2 DEF AnswerRemove, PageType, OrNone
  <2>2. cart' \in Cart /\ storage' \in OrNone(Cart)
    BY <1>2, <2>1, WithoutIsCart, SaveKeepsType DEF AnswerRemove
  <2>. QED BY <1>2, <2>1, <2>2 DEF AnswerRemove
<1>3. ASSUME NEW w \in Word \cup {None}, TypeText(w) PROVE TypeOK'
  BY <1>3, FieldType DEF TypeText, OrNone
<1>4. ASSUME NEW f \in {"incomplete", "invalid", "valid"}, FillForm(f)
      PROVE  TypeOK'
  BY <1>4, FieldType DEF FillForm
<1>5. ASSUME NEW m \in Method, SelectShipping(m) PROVE TypeOK'
  BY <1>5, FieldType DEF SelectShipping, OrNone
<1>6. ASSUME NEW v \in Variant, NEW n, UpdateQuantity(v, n) PROVE TypeOK'
  BY <1>6, SaveKeepsType DEF UpdateQuantity
<1>7. CASE DismissError \/ SignOut
  <2>1. page' \in PageType
    <3>. DEFINE p == [page EXCEPT !.found = None]
                q == [p EXCEPT !.history = None]
                r == [q EXCEPT !.text = None]
    <3>1. page' = [page EXCEPT !.error = FALSE] \/ page' = [r EXCEPT !.error = FALSE]
      BY <1>7 DEF DismissError, SignOut
    <3>2. page \in PageType /\ None \in OrNone(Word)
      BY DEF OrNone
    <3>3. p \in PageType
      BY <3>2, TextField
    <3>. HIDE DEF p
    <3>4. q \in PageType
      BY <3>2, <3>3, TextField
    <3>. HIDE DEF q
    <3>5. r \in PageType
      BY <3>2, <3>4, TextField
    <3>. HIDE DEF r
    <3>. QED BY <3>1, <3>2, <3>5, FlagField
  <2>2. UNCHANGED <<calls, cartVars, feedVars, orders>>
    BY <1>7 DEF DismissError, SignOut
  <2>. QED BY <2>1, <2>2, PageOnly
<1>8. CASE StoredElsewhere
  BY <1>8 DEF StoredElsewhere, OrNone
<1>9. CASE AddToCart
  BY <1>9, SaveKeepsType DEF AddToCart, AddItem
<1>. QED BY <1>1, <1>2, <1>3, <1>4, <1>5, <1>6, <1>7, <1>8, <1>9

(* The steps that make a call.                                             *)
LEMMA AskTypes ==
  ASSUME TypeOK
  PROVE  /\ LoadList \/ Refetch \/ PlaceOrder \/ LookUp => TypeOK'
         /\ \A code \in Code : ApplyDiscount(code) => TypeOK'
         /\ \A p \in Product : QuickAdd(p) \/ VisitProduct(p) => TypeOK'
<1>. USE DEF TypeOK, cartVars, feedVars
<1>1. \A b \in BOOLEAN : ListCall(b) \in CallType
  BY DEF ListCall, CallType
<1>2. \A p \in Product : ProductCall(p) \in CallType
  BY DEF ProductCall, CallType, OrNone
<1>3. CASE LoadList \/ Refetch
  <2>1. calls' \in CallsType
    BY <1>1, <1>3, CallKeepsType DEF LoadList, Refetch, CallsType
  <2>2. page' \in PageType
    BY <1>3, FlagField DEF LoadList, Refetch
  <2>3. UNCHANGED <<cartVars, feedVars, orders>>
    BY <1>3 DEF LoadList, Refetch
  <2>. QED BY <2>1, <2>2, <2>3, PageAndCalls
<1>4. CASE PlaceOrder
  <2>1. [kind |-> "order", here |-> TRUE] \in CallType
    BY DEF CallType
  <2>2. calls' \in CallsType
    BY <1>4, <2>1, CallKeepsType DEF PlaceOrder, CallsType
  <2>. QED BY <1>4, <2>2, FieldType DEF PlaceOrder, CallsType
<1>5. CASE LookUp
  <2>. DEFINE c == [kind |-> IF At("status") THEN "status" ELSE "customer",
                    here |-> TRUE, text |-> page.text]
  <2>1. c \in CallType
    BY <1>5 DEF LookUp, CallType, PageType, OrNone
  <2>2. calls' \in CallsType
    BY <1>5, <2>1, CallKeepsType DEF LookUp, CallsType
  <2>. QED BY <1>5, <2>2, FieldType DEF LookUp, CallsType, OrNone
<1>6. ASSUME NEW code \in Code, ApplyDiscount(code) PROVE TypeOK'
  <2>1. [kind |-> "discount", here |-> TRUE, code |-> code] \in CallType
    BY DEF CallType
  <2>. QED BY <1>6, <2>1, CallKeepsType DEF ApplyDiscount, CallsType
<1>7. ASSUME NEW p \in Product, QuickAdd(p) PROVE TypeOK'
  <2>1. [kind |-> "add", here |-> TRUE, id |-> p] \in CallType
    BY DEF CallType
  <2>2. calls' \in CallsType
    BY <1>7, <2>1, CallKeepsType DEF QuickAdd, CallsType
  <2>. QED BY <1>7, <2>2, FieldType DEF QuickAdd, CallsType, OrNone
<1>8. ASSUME NEW p \in Product, VisitProduct(p) PROVE TypeOK'
  <2>1. calls' \in CallsType
    BY <1>2, <1>8, CallKeepsType DEF VisitProduct, CallsType
  <2>. QED BY <1>8, <2>1, FieldType DEF VisitProduct, CallsType, OrNone
<1>. QED BY <1>3, <1>4, <1>5, <1>6, <1>7, <1>8

(* The steps that answer one.                                              *)
LEMMA AnswerTypes ==
  ASSUME TypeOK, NEW s \in Slot, Answer(s)
  PROVE  TypeOK'
<1>. USE DEF TypeOK, cartVars, feedVars
<1>1. Return(s) => calls' \in CallsType
  BY ReturnKeepsType DEF CallsType
<1>2. CASE AnswerList(s)
  <2>1. page' \in PageType
    <3>. DEFINE q == IF calls[s].quiet THEN page ELSE [page EXCEPT !.loading = FALSE]
    <3>1. q \in PageType
      BY FlagField
    <3>2. \E l \in SUBSET Product :
            page' \in {q, [q EXCEPT !.listed = l], [q EXCEPT !.error = TRUE]}
      BY <1>2 DEF AnswerList
    <3>. HIDE DEF q
    <3>. QED BY <3>1, <3>2, FlagField, ListedField DEF OrNone
  <2>. QED BY <1>1, <1>2, <2>1 DEF AnswerList, CallsType
<1>3. CASE AnswerAdd(s)
  <2>1. page' \in PageType
    BY <1>3, FieldType DEF AnswerAdd, OrNone
  <2>2. cart' \in Cart /\ storage' \in OrNone(Cart)
    BY <1>3, SaveKeepsType DEF AnswerAdd, AddItem
  <2>. QED BY <1>1, <1>3, <2>1, <2>2 DEF AnswerAdd, CallsType
<1>4. CASE AnswerProduct(s)
  <2>1. calls[s].id \in Product /\ calls[s].read \in OrNone(ProductLevels)
    BY <1>4, AskedType, CallKinds DEF AnswerProduct
  <2>2. VariantsOf[calls[s].id][1] \in Variant
    <3>1. VariantsOf[calls[s].id] \in Seq(Variant) \ {<<>>}
      BY <2>1, ShopAssumption
    <3>. QED BY <3>1
  <2>3. page' \in PageType
    <3>1. /\ Finished(page, TRUE) \in PageType /\ Finished(page, FALSE) \in PageType
          /\ calls[s].read \in ProductLevels =>
               [of |-> calls[s].id, level |-> calls[s].read]
                  \in [of : Product, level : ProductLevels]
      BY <2>1, FinishedType
    <3>2. calls[s].read # None =>
            [Finished(page, TRUE) EXCEPT
               !.shown = [of |-> calls[s].id, level |-> calls[s].read],
               !.selected = VariantsOf[calls[s].id][1]] \in PageType
      BY <2>1, <2>2, <3>1, FieldType DEF OrNone
    <3>. QED BY <1>4, <3>1, <3>2 DEF AnswerProduct
  <2>. QED BY <1>1, <1>4, <2>3 DEF AnswerProduct, CallsType
<1>5. CASE AnswerDiscount(s)
  <2>1. calls[s].code \in Code
    BY <1>5, AskedType, CallKinds DEF AnswerDiscount
  <2>2. page' \in PageType
    BY <1>5, <2>1, FlagField, DiscountField DEF AnswerDiscount, OrNone
  <2>. QED BY <1>1, <1>5, <2>2 DEF AnswerDiscount, CallsType
<1>6. CASE AnswerOrder(s)
  <2>1. page' \in PageType
    <3>. DEFINE q == IF calls[s].here THEN [page EXCEPT !.submitting = FALSE] ELSE page
    <3>1. q \in PageType
      BY FlagField
    <3>2. page' \in {q, [q EXCEPT !.placed = TRUE], [q EXCEPT !.error = TRUE]}
      BY <1>6 DEF AnswerOrder, Failed
    <3>. HIDE DEF q
    <3>. QED BY <3>1, <3>2, FlagField
  <2>2. cart' \in Cart /\ storage' \in OrNone(Cart)
    BY <1>6, EmptyIsCart, SaveKeepsType DEF AnswerOrder, ClearCart, Failed
  <2>3. orders' \in 0 .. MaxOrders
    BY <1>6, ShopAssumption DEF AnswerOrder, Created
  <2>. QED BY <1>1, <1>6, <2>1, <2>2, <2>3 DEF AnswerOrder, CallsType
<1>7. CASE AnswerStatus(s) \/ AnswerHistory(s)
  <2>1. calls[s].text \in Word
    BY <1>7, AskedType, CallKinds DEF AnswerStatus, AnswerHistory
  <2>2. page' \in PageType
    <3>1. Finished(page, TRUE) \in PageType /\ Finished(page, FALSE) \in PageType
      BY FinishedType
    <3>2. /\ [Finished(page, TRUE) EXCEPT !.found = calls[s].text] \in PageType
          /\ [Finished(page, TRUE) EXCEPT !.history = calls[s].text] \in PageType
      BY <2>1, <3>1, TextField DEF OrNone
    <3>. QED BY <1>7, <3>1, <3>2 DEF AnswerStatus, AnswerHistory
  <2>. QED BY <1>1, <1>7, <2>2 DEF AnswerStatus, AnswerHistory, CallsType
<1>8. CASE AnswerCustomer(s)
  <2>1. calls[s].text \in Word /\ [calls[s] EXCEPT !.kind = "history"] \in CallType
    BY <1>8, AskedType, CallKinds DEF AnswerCustomer
  <2>2. page' \in PageType
    <3>1. [page EXCEPT !.found = calls[s].text] \in PageType
      BY <2>1, FieldType DEF OrNone
    <3>. QED BY <1>8, <3>1, FinishedType DEF AnswerCustomer
  <2>3. calls' = [calls EXCEPT ![s].kind = "history"] => calls' \in CallsType
    BY <2>1 DEF CallsType, OrNone
  <2>. QED BY <1>1, <1>8, <2>2, <2>3 DEF AnswerCustomer, CallsType
<1>. QED BY <1>2, <1>3, <1>4, <1>5, <1>6, <1>7, <1>8 DEF Answer

(* What a product page shows has the levels of its product.                *)
LEMMA LevelsType ==
  ASSUME NEW p \in Product
  PROVE  LevelsOf(p) \subseteq ProductLevels
  BY DEF LevelsOf, ProductLevels

(* The feed, and what is read for it.                                      *)
LEMMA FeedTypes ==
  ASSUME TypeOK, IInv, IInv'
  PROVE  /\ Connect \/ Disconnect \/ HandleInventoryUpdate => TypeOK'
         /\ \A v, n : \A told \in BOOLEAN : ChangeStock(v, n, told) => TypeOK'
         /\ \A v, n : TellWrongly(v, n) => TypeOK'
         /\ \A s \in Slot : ReadProduct(s) => TypeOK'
<1>. USE DEF TypeOK, cartVars, feedVars
<1>1. stock' \in StockType /\ feed' \in Seq([variant : Variant, level : Level])
  BY DEF IInv, Shape
<1>2. CASE Connect \/ Disconnect
  BY <1>1, <1>2 DEF Connect, Disconnect
<1>3. CASE HandleInventoryUpdate
  <2>1. page' \in PageType
    <3>1. CASE At("shop")
      BY <1>3, <3>1 DEF HandleInventoryUpdate, Scheduled, PageType
    <3>2. CASE ~At("shop")
      <4>1. page' = page \/ \E l : page' = [page EXCEPT !.shown.level = l]
        BY <1>3, <3>2 DEF HandleInventoryUpdate, Updated
      <4>2. page'.shown \in OrNone([of : Product, level : ProductLevels])
        <5>1. ShownShape(page'.shown)
          BY DEF IInv, Shape
        <5>. QED BY <5>1, LevelsType DEF ShownShape, OrNone
      <4>. QED BY <4>1, <4>2 DEF PageType
    <3>. QED BY <3>1, <3>2
  <2>. QED BY <1>1, <1>3, <2>1 DEF HandleInventoryUpdate
<1>4. ASSUME NEW v, NEW n, NEW told \in BOOLEAN,
             ChangeStock(v, n, told) \/ TellWrongly(v, n)
      PROVE  TypeOK'
  BY <1>1, <1>4 DEF ChangeStock, TellWrongly
<1>5. ASSUME NEW s \in Slot, ReadProduct(s) PROVE TypeOK'
  <2>1. calls[s] \in CallType /\ calls[s].kind = "product"
    BY <1>5, AskedType DEF ReadProduct
  <2>2. Levels(calls[s].id) \in ProductLevels
    BY <2>1, CallKinds, LevelsAreLevels, LevelsType
  <2>3. [calls[s] EXCEPT !.read = Levels(calls[s].id)] \in CallType
    BY <2>1, <2>2, CallKinds
  <2>4. calls' = [calls EXCEPT ![s] = [calls[s] EXCEPT !.read = Levels(calls[s].id)]]
    BY <1>5 DEF ReadProduct
  <2>5. calls' \in CallsType
    BY <2>3, <2>4 DEF CallsType, OrNone
  <2>. QED BY <1>5, <2>5 DEF ReadProduct, CallsType
<1>. QED BY <1>2, <1>3, <1>4, <1>5

(* A page that has just been mounted.                                      *)
LEMMA MountTypes ==
  ASSUME TypeOK, NEW at \in {"shop", "product", "cart", "status", "account"},
         NEW id \in OrNone(Product), at = "product" => id \in Product,
         NEW cs \in CallsType, Mount(at, id, cs)
  PROVE  /\ page' \in PageType /\ calls' \in CallsType
         /\ stock' \in StockType
         /\ feed' \in Seq([variant : Variant, level : Level])
         /\ link' \in BOOLEAN /\ missed' \in BOOLEAN /\ orders' \in 0 .. MaxOrders
<1>1. page' \in PageType
  <2>1. Blank(at) \in PageType
    BY DEF Blank, PageType, OrNone
  <2>2. PICK m \in (IF at = "cart" THEN Method ELSE {}) \cup {None} :
          page' = [Blank(at) EXCEPT !.id = id, !.shipping = m,
                                    !.loading = at \in {"shop", "product"}]
    BY DEF Mount
  <2>. DEFINE b == at \in {"shop", "product"}
              q == [Blank(at) EXCEPT !.id = id]
  <2>3. b \in BOOLEAN /\ m \in OrNone(Method)
    BY <2>2 DEF OrNone
  <2>4. q \in PageType
    BY <2>1, FieldType
  <2>5. page' = [[q EXCEPT !.shipping = m] EXCEPT !.loading = b]
    BY <2>2 DEF Blank
  <2>. HIDE DEF q, b
  <2>. QED BY <2>3, <2>4, <2>5, FieldType
<1>2. calls' \in CallsType
  <2>1. ListCall(FALSE) \in CallType /\ (id \in Product => ProductCall(id) \in CallType)
    BY DEF ListCall, ProductCall, CallType, OrNone
  <2>. QED BY <2>1, FreeSlot DEF Mount, Mounted, Made, CallsType, OrNone
<1>3. feed' = <<>> /\ link' = FALSE /\ missed' = FALSE /\ UNCHANGED <<stock, orders>>
  BY DEF Mount
<1>4. stock \in StockType /\ orders \in 0 .. MaxOrders
  BY DEF TypeOK
<1>. QED BY <1>1, <1>2, <1>3, <1>4, EmptySeq

LEMMA VisitTypes ==
  ASSUME TypeOK, IInv
  PROVE  /\ \A at \in {"shop", "cart", "status", "account"} :
              Visit(at, None) => TypeOK'
         /\ \A p \in Product : Visit("product", p) => TypeOK'
         /\ Reload => TypeOK'
<1>1. Left(calls) \in CallsType /\ [s \in Slot |-> None] \in CallsType
  <2>1. \A s \in Slot : Left(calls)[s] \in OrNone(CallType)
    BY CallKinds DEF Left, TypeOK, OrNone
  <2>. QED BY <2>1 DEF Left, CallsType, OrNone
<1>2. ASSUME NEW at \in {"shop", "product", "cart", "status", "account"},
             NEW id \in OrNone(Product), at = "product" => id \in Product,
             Visit(at, id)
      PROVE  TypeOK'
  BY <1>1, <1>2, MountTypes DEF Visit, TypeOK, CallsType, cartVars
<1>3. CASE Reload
  <2>1. page.at \in {"shop", "product", "cart", "status", "account"}
        /\ page.id \in OrNone(Product)
    BY DEF TypeOK, PageType
  <2>2. cart' \in Cart /\ storage' \in OrNone(Cart)
    BY <1>3 DEF Reload, TypeOK, OrNone
  <2>. QED BY <1>1, <1>3, <2>1, <2>2, MountTypes
           DEF Reload, TypeOK, CallsType, IInv, Shape, At
<1>. QED BY <1>2, <1>3 DEF OrNone

LEMMA TypesKept == TypeOK /\ IInv /\ IInv' /\ [Next]_vars => TypeOK'
<1>. SUFFICES ASSUME TypeOK, IInv, IInv', [Next]_vars PROVE TypeOK'
  OBVIOUS
<1>1. CASE UNCHANGED vars
  BY <1>1 DEF vars, TypeOK
<1>2. ASSUME NEW v \in Variant, NEW n,
             AskRemove(v) \/ SelectVariant(v) \/ UpdateQuantity(v, n)
      PROVE  TypeOK'
  BY <1>2, PageTypes
<1>3. ASSUME NEW v, NEW n, NEW told \in BOOLEAN,
             TellWrongly(v, n) \/ ChangeStock(v, n, told)
      PROVE  TypeOK'
  BY <1>3, FeedTypes
<1>4. ASSUME NEW sure, AnswerRemove(sure) PROVE TypeOK'
  BY <1>4, PageTypes
<1>5. ASSUME NEW w \in Word \cup {None}, TypeText(w) PROVE TypeOK'
  BY <1>5, PageTypes
<1>6. ASSUME \/ StoredElsewhere \/ LoadList \/ Refetch \/ DismissError \/ AddToCart
             \/ Connect \/ Disconnect \/ HandleInventoryUpdate
             \/ PlaceOrder \/ LookUp \/ SignOut \/ Reload
      PROVE  TypeOK'
  BY <1>6, PageTypes, AskTypes, FeedTypes, VisitTypes
<1>7. ASSUME NEW f \in {"incomplete", "invalid", "valid"}, FillForm(f) PROVE TypeOK'
  BY <1>7, PageTypes
<1>8. ASSUME NEW m \in Method, SelectShipping(m) PROVE TypeOK'
  BY <1>8, PageTypes
<1>9. ASSUME NEW code \in Code, ApplyDiscount(code) PROVE TypeOK'
  BY <1>9, AskTypes
<1>10. ASSUME NEW s \in Slot, ReadProduct(s) \/ Answer(s) PROVE TypeOK'
  BY <1>10, FeedTypes, AnswerTypes
<1>11. ASSUME NEW at \in {"shop", "cart", "status", "account"}, Visit(at, None)
       PROVE  TypeOK'
  BY <1>11, VisitTypes
<1>12. ASSUME NEW p \in Product, QuickAdd(p) \/ Visit("product", p) \/ VisitProduct(p)
       PROVE  TypeOK'
  BY <1>12, AskTypes, VisitTypes
<1>. QED BY <1>1, <1>2, <1>3, <1>4, <1>5, <1>6, <1>7, <1>8, <1>9, <1>10, <1>11, <1>12
         DEF Next

LEMMA InitTypes == Init => TypeOK
<1>. SUFFICES ASSUME Init PROVE TypeOK
  OBVIOUS
<1>1. page \in PageType
  BY DEF Init, Blank, PageType, OrNone
<1>2. calls \in CallsType
  BY DEF Init, Mounted, Made, ListCall, CallsType, CallType, OrNone
<1>3. feed \in Seq([variant : Variant, level : Level])
  BY EmptySeq DEF Init
<1>4. cart \in Cart /\ storage \in OrNone(Cart)
  BY EmptyIsCart DEF Init, OrNone
<1>5. stock \in StockType /\ link \in BOOLEAN /\ missed \in BOOLEAN
  BY DEF Init
<1>6. orders \in 0 .. MaxOrders
  BY ShopAssumption DEF Init
<1>. QED BY <1>1, <1>2, <1>3, <1>4, <1>5, <1>6 DEF TypeOK, CallsType

(* What the variables hold, on every page and whatever is answered.        *)
THEOREM ShopTypeCorrect == Spec => []TypeOK
  BY InitTypes, TypesKept, InitHolds, NextKeeps, PTL DEF Spec

-----------------------------------------------------------------------------
(* What the visitor waits for.                                             *)

(* A call that keeps the spinner turning, or a button disabled.  A list    *)
(* that is read behind the visitor's back does neither.                    *)
Serves(c, wait) ==
  /\ c # None /\ c.here
  /\ \/ /\ wait = "loading"
        /\ \/ c.kind \in {"product", "status", "customer", "history"}
           \/ c.kind = "list" /\ ~c.quiet
     \/ wait = "submitting" /\ c.kind = "order"
     \/ wait = "adding" /\ c.kind = "add"

Waiting(p) ==
  {w \in {"loading", "submitting", "adding"} :
     \/ w = "loading" /\ p.loading
     \/ w = "submitting" /\ p.submitting
     \/ w = "adding" /\ p.adding # None}

(* Whatever the page waits for, a call is open that will end the wait.     *)
Served == \A w \in Waiting(page) : \E s \in Slot : Serves(calls[s], w)

(* A call is made, ended or followed by another: what is waited for now was*)
(* waited for before and that call did not serve it, or the new one does.  *)
LEMMA ServedByCall ==
  ASSUME Served, DOMAIN calls = Slot, NEW r \in Slot, NEW c,
         calls' = [calls EXCEPT ![r] = c],
         \A w \in Waiting(page') :
           Serves(c, w) \/ (w \in Waiting(page) /\ ~Serves(calls[r], w))
  PROVE  Served'
<1>. SUFFICES ASSUME NEW w \in Waiting(page')
              PROVE  \E s \in Slot : Serves(calls'[s], w)
  BY DEF Served, Waiting
<1>1. CASE Serves(c, w)
  BY <1>1
<1>2. CASE w \in Waiting(page) /\ ~Serves(calls[r], w)
  <2>1. PICK s \in Slot : Serves(calls[s], w)
    BY <1>2 DEF Served
  <2>. QED BY <1>2, <2>1
<1>. QED BY <1>1, <1>2

LEMMA ServedByNone ==
  ASSUME Served, UNCHANGED calls, Waiting(page') \subseteq Waiting(page)
  PROVE  Served'
  BY DEF Served

(* A call that is made overwrites none that is waited for.                 *)
LEMMA ServedByNew ==
  ASSUME Served, DOMAIN calls = Slot, NEW c, Call(c),
         \A w \in Waiting(page') : Serves(c, w) \/ w \in Waiting(page)
  PROVE  Served'
<1>1. PICK r \in Slot : calls[r] = None /\ calls' = [calls EXCEPT ![r] = c]
  BY CallSteps
<1>2. \A w : ~Serves(calls[r], w)
  BY <1>1 DEF Serves
<1>. QED BY <1>1, <1>2, ServedByCall

(* A call that ends was not waited for, or is not any more.                *)
LEMMA ServedByReturn ==
  ASSUME Served, DOMAIN calls = Slot, NEW s \in Slot, Return(s),
         \A w \in Waiting(page') : w \in Waiting(page) /\ ~Serves(calls[s], w)
  PROVE  Served'
  BY ServedByCall DEF Return

(* The steps that make no call and end none.                               *)
LEMMA ServedAside ==
  ASSUME TypeOK, Served
  PROVE  /\ \A v : AskRemove(v) \/ SelectVariant(v) \/ AnswerRemove(v) \/ TypeText(v)
                   \/ FillForm(v) \/ SelectShipping(v) => Served'
         /\ \A v, n : UpdateQuantity(v, n) \/ TellWrongly(v, n)
                      \/ (\E told : ChangeStock(v, n, told)) => Served'
         /\ StoredElsewhere \/ DismissError \/ AddToCart \/ Connect \/ Disconnect
              \/ HandleInventoryUpdate \/ SignOut => Served'
<1>. USE DEF Waiting
<1>0. DOMAIN page = PageFields
  BY DEF TypeOK, PageType, PageFields
<1>. USE DEF PageFields
<1>1. ASSUME NEW v, \/ AskRemove(v) \/ SelectVariant(v) \/ AnswerRemove(v)
                    \/ TypeText(v) \/ FillForm(v) \/ SelectShipping(v)
      PROVE  Served'
  BY <1>0, <1>1, ServedByNone
     DEF AskRemove, SelectVariant, AnswerRemove, TypeText, FillForm, SelectShipping
<1>2. ASSUME NEW v, NEW n, \/ UpdateQuantity(v, n) \/ TellWrongly(v, n)
                           \/ \E told : ChangeStock(v, n, told)
      PROVE  Served'
  BY <1>2, ServedByNone DEF UpdateQuantity, TellWrongly, ChangeStock
<1>3. ASSUME StoredElsewhere \/ AddToCart \/ Connect \/ Disconnect PROVE Served'
  BY <1>3, ServedByNone DEF StoredElsewhere, AddToCart, Connect, Disconnect
<1>4. ASSUME DismissError \/ SignOut PROVE Served'
  BY <1>0, <1>4, ServedByNone DEF DismissError, SignOut
<1>5. ASSUME HandleInventoryUpdate PROVE Served'
  BY <1>0, <1>5, ServedByNone DEF HandleInventoryUpdate, Scheduled, Updated
<1>. QED BY <1>1, <1>2, <1>3, <1>4, <1>5

(* A call is made, and the page begins to wait for it, or for nothing new. *)
LEMMA ServedByFields ==
  ASSUME Served, DOMAIN calls = Slot, NEW c, Call(c),
         page'.loading => Serves(c, "loading") \/ page.loading,
         page'.submitting => Serves(c, "submitting") \/ page.submitting,
         page'.adding # None => Serves(c, "adding") \/ page.adding # None
  PROVE  Served'
<1>1. \A w \in Waiting(page') : Serves(c, w) \/ w \in Waiting(page)
  BY DEF Waiting
<1>. QED BY <1>1, ServedByNew

(* The steps that make one.                                                *)
LEMMA ServedAsks ==
  ASSUME TypeOK, Served
  PROVE  /\ LoadList \/ Refetch \/ PlaceOrder \/ LookUp => Served'
         /\ \A x \in Code : ApplyDiscount(x) => Served'
         /\ \A p \in Product : QuickAdd(p) \/ VisitProduct(p) => Served'
<1>0. DOMAIN page = PageFields /\ DOMAIN calls = Slot
  BY DEF TypeOK, PageType, PageFields
<1>. USE DEF PageFields
<1>1. ASSUME LoadList PROVE Served'
  <2>1. ListCall(FALSE) \in CallType
    BY DEF ListCall, CallType
  <2>2. Serves(ListCall(FALSE), "loading")
    BY <2>1, CallKinds DEF Serves, ListCall
  <2>3. /\ Call(ListCall(FALSE))
        /\ page'.submitting = page.submitting /\ page'.adding = page.adding
    BY <1>0, <1>1 DEF LoadList
  <2>. QED BY <1>0, <2>2, <2>3, ServedByFields
<1>2. ASSUME Refetch PROVE Served'
  <2>1. /\ Call(ListCall(TRUE)) /\ page'.loading = page.loading
        /\ page'.submitting = page.submitting /\ page'.adding = page.adding
    BY <1>0, <1>2 DEF Refetch
  <2>. QED BY <1>0, <2>1, ServedByFields
<1>3. ASSUME PlaceOrder PROVE Served'
  <2>. DEFINE c == [kind |-> "order", here |-> TRUE]
  <2>1. c \in CallType
    BY DEF CallType
  <2>2. Serves(c, "submitting")
    BY <2>1, CallKinds DEF Serves
  <2>3. page'.loading = page.loading /\ page'.adding = page.adding
    BY <1>0, <1>3 DEF PlaceOrder
  <2>4. CASE UNCHANGED calls /\ page' = [page EXCEPT !.flagged = TRUE]
    BY <1>0, <2>4, ServedByNone DEF Waiting
  <2>5. CASE Call(c)
    <3>. HIDE DEF c
    <3>. QED BY <1>0, <2>2, <2>3, <2>5, ServedByFields
  <2>. QED BY <1>3, <2>4, <2>5 DEF PlaceOrder
<1>4. ASSUME LookUp PROVE Served'
  <2>. DEFINE c == [kind |-> IF At("status") THEN "status" ELSE "customer",
                    here |-> TRUE, text |-> page.text]
  <2>1. c \in CallType
    BY <1>4 DEF LookUp, CallType, TypeOK, PageType, OrNone
  <2>2. Serves(c, "loading")
    BY <2>1, CallKinds DEF Serves
  <2>3. Call(c) /\ page'.submitting = page.submitting /\ page'.adding = page.adding
    BY <1>0, <1>4 DEF LookUp
  <2>. HIDE DEF c
  <2>. QED BY <1>0, <2>2, <2>3, ServedByFields
<1>5. ASSUME NEW x \in Code, ApplyDiscount(x) PROVE Served'
  BY <1>0, <1>5, ServedByFields DEF ApplyDiscount
<1>6. ASSUME NEW p \in Product, QuickAdd(p) PROVE Served'
  <2>. DEFINE c == [kind |-> "add", here |-> TRUE, id |-> p]
  <2>1. c \in CallType
    BY DEF CallType
  <2>2. Serves(c, "adding")
    BY <2>1, CallKinds DEF Serves
  <2>3. Call(c) /\ page'.submitting = page.submitting /\ page'.loading = page.loading
    BY <1>0, <1>6 DEF QuickAdd
  <2>. HIDE DEF c
  <2>. QED BY <1>0, <2>2, <2>3, ServedByFields
<1>7. ASSUME NEW p \in Product, VisitProduct(p) PROVE Served'
  <2>1. ProductCall(p) \in CallType
    BY DEF ProductCall, CallType, OrNone
  <2>2. Serves(ProductCall(p), "loading")
    BY <2>1, CallKinds DEF Serves, ProductCall
  <2>3. /\ Call(ProductCall(p))
        /\ page'.submitting = page.submitting /\ page'.adding = page.adding
    BY <1>0, <1>7 DEF VisitProduct
  <2>. QED BY <1>0, <2>2, <2>3, ServedByFields
<1>. QED BY <1>1, <1>2, <1>3, <1>4, <1>5, <1>6, <1>7

(* The steps that answer one: with the last call of its kind the wait ends,*)
(* whatever the answer.                                                    *)
LEMMA ServedAnswers ==
  ASSUME TypeOK, Served, NEW s \in Slot, Answer(s)
  PROVE  Served'
<1>0. DOMAIN page = PageFields /\ DOMAIN calls = Slot
  BY DEF TypeOK, PageType, PageFields
<1>. USE DEF Waiting, Serves, PageFields, Asking
<1>1. CASE AnswerList(s)
  BY <1>0, <1>1, ServedByReturn DEF AnswerList
<1>2. CASE AnswerAdd(s)
  BY <1>0, <1>2, ServedByReturn DEF AnswerAdd
<1>3. CASE AnswerProduct(s)
  BY <1>0, <1>3, ServedByReturn DEF AnswerProduct, Finished
<1>4. CASE AnswerDiscount(s)
  BY <1>0, <1>4, ServedByReturn DEF AnswerDiscount
<1>5. CASE AnswerOrder(s)
  BY <1>0, <1>5, ServedByReturn DEF AnswerOrder, Failed
<1>6. CASE AnswerStatus(s) \/ AnswerHistory(s)
  BY <1>0, <1>6, ServedByReturn DEF AnswerStatus, AnswerHistory, Finished
<1>7. CASE AnswerCustomer(s)
  <2>1. CASE /\ page' = [page EXCEPT !.found = calls[s].text]
             /\ calls' = [calls EXCEPT ![s].kind = "history"]
    <3>. DEFINE c == [calls[s] EXCEPT !.kind = "history"]
    <3>1. calls' = [calls EXCEPT ![s] = c]
      BY <2>1
    <3>2. calls[s] \in CallType /\ calls[s].kind = "customer"
      BY <1>7, AskedType DEF AnswerCustomer
    <3>3. /\ c # None /\ c.here = calls[s].here /\ c.kind = "history"
          /\ \A w : Serves(calls[s], w) => Serves(c, w)
      BY <3>2, CallKinds DEF CallType
    <3>4. Waiting(page') = Waiting(page)
      BY <1>0, <2>1
    <3>. HIDE DEF c
    <3>. QED BY <1>0, <3>1, <3>3, <3>4, ServedByCall
  <2>2. CASE page' = Finished(page, FALSE) /\ Return(s)
    BY <1>0, <1>7, <2>2, ServedByReturn DEF AnswerCustomer, Finished
  <2>. QED BY <1>7, <2>1, <2>2 DEF AnswerCustomer
<1>. QED BY <1>1, <1>2, <1>3, <1>4, <1>5, <1>6, <1>7 DEF Answer

(* The backend reads a product, and the page waits on.                     *)
LEMMA ServedReads ==
  ASSUME TypeOK, Served, NEW s \in Slot, ReadProduct(s)
  PROVE  Served'
<1>. DEFINE c == [calls[s] EXCEPT !.read = Levels(calls[s].id)]
<1>1. DOMAIN calls = Slot
  BY DEF TypeOK
<1>2. calls' = [calls EXCEPT ![s] = c] /\ UNCHANGED page
  BY DEF ReadProduct
<1>3. calls[s] \in CallType /\ calls[s].kind = "product"
  BY AskedType DEF ReadProduct
<1>4. stock \in StockType
  BY DEF TypeOK
<1>5. c \in CallType
  BY <1>3, <1>4, CallKinds, LevelsAreLevels, LevelsType
<1>6. c # None /\ c.here = calls[s].here /\ c.kind = calls[s].kind
  BY <1>3, <1>5, CallKinds DEF CallType
<1>7. \A w : Serves(calls[s], w) => Serves(c, w)
  BY <1>3, <1>6 DEF Serves
<1>. HIDE DEF c
<1>. QED BY <1>1, <1>2, <1>7, ServedByCall DEF Waiting

(* A page that is mounted waits for what it has just asked for.            *)
LEMMA ServedByMount ==
  ASSUME NEW at, NEW id, NEW cs, DOMAIN cs = Slot, at = "product" => id \in Product,
         Mount(at, id, cs)
  PROVE  Served'
<1>. USE DEF Waiting, Serves
<1>1. Waiting(page') = IF at \in {"shop", "product"} THEN {"loading"} ELSE {}
  BY DEF Mount, Blank
<1>2. CASE at \notin {"shop", "product"}
  BY <1>1, <1>2 DEF Served
<1>3. ASSUME NEW c \in CallType, Serves(c, "loading"), Free(cs) # {}, calls' = Made(cs, c)
      PROVE  Served'
  BY <1>1, <1>3, FreeSlot DEF Served, Made
<1>4. CASE at = "shop"
  <2>1. ListCall(FALSE) \in CallType /\ Serves(ListCall(FALSE), "loading")
    BY CallKinds DEF ListCall, CallType
  <2>. QED BY <1>3, <1>4, <2>1 DEF Mount, Mounted
<1>5. CASE at = "product"
  <2>1. ProductCall(id) \in CallType /\ Serves(ProductCall(id), "loading")
    BY <1>5, CallKinds DEF ProductCall, CallType, OrNone
  <2>. QED BY <1>3, <1>5, <2>1 DEF Mount, Mounted
<1>. QED BY <1>2, <1>4, <1>5

LEMMA ServedVisits ==
  ASSUME TypeOK, IInv
  PROVE  /\ \A at \in {"shop", "cart", "status", "account"} :
              Visit(at, None) => Served'
         /\ \A p \in Product : Visit("product", p) => Served'
         /\ Reload => Served'
<1>1. DOMAIN Left(calls) = Slot
  BY DEF Left
<1>2. At("product") => page.id \in Product
  BY DEF IInv, Shape
<1>. QED BY <1>1, <1>2, ServedByMount DEF Visit, Reload, At

LEMMA ServedKept == TypeOK /\ IInv /\ Served /\ [Next]_vars => Served'
<1>. SUFFICES ASSUME TypeOK, IInv, Served, [Next]_vars PROVE Served'
  OBVIOUS
<1>1. CASE UNCHANGED vars
  BY <1>1 DEF vars, Served, Waiting
<1>2. ASSUME NEW v, NEW n,
             \/ AskRemove(v) \/ SelectVariant(v) \/ UpdateQuantity(v, n)
             \/ TellWrongly(v, n) \/ \E told : ChangeStock(v, n, told)
             \/ AnswerRemove(v) \/ TypeText(v) \/ FillForm(v) \/ SelectShipping(v)
      PROVE  Served'
  BY <1>2, ServedAside
<1>3. ASSUME \/ StoredElsewhere \/ LoadList \/ Refetch \/ DismissError \/ AddToCart
             \/ Connect \/ Disconnect \/ HandleInventoryUpdate
             \/ PlaceOrder \/ LookUp \/ SignOut \/ Reload
      PROVE  Served'
  BY <1>3, ServedAside, ServedAsks, ServedVisits
<1>4. ASSUME NEW s \in Slot, ReadProduct(s) \/ Answer(s) PROVE Served'
  BY <1>4, ServedReads, ServedAnswers
<1>5. ASSUME NEW at \in {"shop", "cart", "status", "account"}, Visit(at, None)
      PROVE  Served'
  BY <1>5, ServedVisits
<1>6. ASSUME NEW p \in Product, QuickAdd(p) \/ Visit("product", p) \/ VisitProduct(p)
      PROVE  Served'
  BY <1>6, ServedAsks, ServedVisits
<1>7. ASSUME NEW code \in Code, ApplyDiscount(code) PROVE Served'
  BY <1>7, ServedAsks
<1>. QED BY <1>1, <1>2, <1>3, <1>4, <1>5, <1>6, <1>7 DEF Next

(* The first page waits for its list.                                      *)
LEMMA ServedAtFirst == Init => Served
<1>. SUFFICES ASSUME Init PROVE Served
  OBVIOUS
<1>1. ListCall(FALSE) # None /\ Serves(ListCall(FALSE), "loading")
  <2>1. ListCall(FALSE) \in CallType
    BY DEF ListCall, CallType
  <2>. QED BY <2>1, CallKinds DEF Serves, ListCall
<1>2. Waiting(page) = {"loading"}
  BY DEF Init, Blank, Waiting
<1>. DEFINE s == CHOOSE s \in Free([r \in Slot |-> None]) : TRUE
<1>3. s \in Slot
  BY ShopAssumption DEF Free
<1>4. calls[s] = ListCall(FALSE)
  BY <1>3 DEF Init, Mounted, Made
<1>. HIDE DEF s
<1>. QED BY <1>1, <1>2, <1>3, <1>4 DEF Served

(* A spinner turns, and a button is disabled, only while a call of this    *)
(* page is open, in whatever order the calls are answered, and however many*)
(* are open: no answer that comes late leaves the visitor waiting.         *)
THEOREM NoEndlessSpinner == Spec => []WaitsForCall
<1>1. TypeOK /\ Served => WaitsForCall
  <2>. SUFFICES ASSUME TypeOK, Served PROVE WaitsForCall
    OBVIOUS
  <2>1. page.loading => \E s \in Slot : Serves(calls[s], "loading")
    BY DEF Served, Waiting
  <2>2. page.submitting => \E s \in Slot : Serves(calls[s], "submitting")
    BY DEF Served, Waiting
  <2>3. page.adding # None => \E s \in Slot : Serves(calls[s], "adding")
    BY DEF Served, Waiting
  <2>. QED BY <2>1, <2>2, <2>3 DEF WaitsForCall, Serves, Here, Asking
<1>. QED BY <1>1, ServedAtFirst, ServedKept, ShopTypeCorrect, Inductive, PTL DEF Spec

-----------------------------------------------------------------------------
(* What empties the cart.                                                  *)

(* A variant that is added is in the cart.                                 *)
LEMMA AddedIsThere ==
  ASSUME cart \in Cart, NEW v \in Variant, AddItem(v)
  PROVE  cart' # Empty
<1>1. cart[v] \in 0 .. MaxItems
  BY DEF Cart
<1>2. cart'[v] = cart[v] + 1
  BY DEF AddItem, Cart
<1>3. Empty[v] = 0
  BY DEF Empty
<1>. QED BY <1>1, <1>2, <1>3, BoundIsNat

(* No answer empties the cart but that of an order that was created.       *)
THEOREM EmptiedIsOrdered == Spec => ClearedIsOrdered
<1>1. ASSUME TypeOK, NEW s \in Slot, cart # Empty, cart' = Empty, Answer(s)
      PROVE  orders' # orders
  <2>1. CASE AnswerAdd(s)
    <3>1. calls[s].id \in Product
      BY <1>1, <2>1, AskedType, CallKinds DEF AnswerAdd
    <3>2. VariantsOf[calls[s].id] \in Seq(Variant) \ {<<>>}
      BY <3>1, ShopAssumption
    <3>3. VariantsOf[calls[s].id][1] \in Variant
      BY <3>2
    <3>. QED BY <1>1, <2>1, <3>3, AddedIsThere DEF AnswerAdd, TypeOK, cartVars
  <2>2. CASE AnswerOrder(s)
    <3>1. Created \/ UNCHANGED cartVars
      BY <2>2 DEF AnswerOrder, Failed
    <3>2. orders \in 0 .. MaxOrders
      BY <1>1 DEF TypeOK
    <3>. QED BY <1>1, <3>1, <3>2 DEF Created, cartVars
  <2>3. CASE \/ AnswerList(s) \/ AnswerProduct(s) \/ AnswerDiscount(s)
             \/ AnswerStatus(s) \/ AnswerCustomer(s) \/ AnswerHistory(s)
    BY <1>1, <2>3 DEF AnswerList, AnswerProduct, AnswerDiscount, AnswerStatus,
                      AnswerCustomer, AnswerHistory, cartVars
  <2>. QED BY <1>1, <2>1, <2>2, <2>3 DEF Answer
<1>2. TypeOK => [\A s \in Slot : cart # Empty /\ cart' = Empty /\ Answer(s)
                                   => orders' # orders]_vars
  BY <1>1
<1>. QED BY <1>2, ShopTypeCorrect, PTL DEF ClearedIsOrdered
=============================================================================
