---------------------------- MODULE OfficeProofs ----------------------------
(***************************************************************************)
(* Proofs about Office for any number of rows, words, terms, secrets, open *)
(* calls and results.                                                      *)
(***************************************************************************)
EXTENDS Office, FiniteSetTheorems, TLAPS

-----------------------------------------------------------------------------
(* The inductive invariant of the pages, in parts.                         *)

PageFields ==
  {"at", "url", "search", "asked", "tab", "loading", "stuck", "error", "listed",
   "open", "detail", "draft", "modal", "form", "filled", "confirm", "busy",
   "phase", "secret"}

(* What the records are made of, as far as it matters.                     *)
Shape ==
  /\ DOMAIN page = PageFields
  /\ DOMAIN calls = Slot
  /\ \A s \in Slot :
       /\ calls[s] # None => "kind" \in DOMAIN calls[s]
       /\ Asking(s, "create") => {"id", "photo"} \subseteq DOMAIN calls[s]
       /\ Asking(s, "enroll") => {"free", "secret"} \subseteq DOMAIN calls[s]

(* A dialog, and a button that is disabled, are of the page they are on,   *)
(* and of the calls that disable it no two are open.                       *)
Works ==
  /\ page.modal # None => page.at = "products"
  /\ page.confirm => page.at = "orders" /\ page.busy = None
  /\ \A s \in Slot :
       /\ Asking(s, "modal") => page.at = "products" /\ page.busy # None
       /\ Asking(s, "all") => page.at = "orders" /\ page.busy # None
       /\ Asking(s, "void") \/ Asking(s, "voided") => page.at = "sales"
  /\ \A s, r \in Slot : \A kind \in {"modal", "all"} :
       Asking(s, kind) /\ Asking(r, kind) => s = r

(* What was typed is of the variant that is edited, before it is sent, too.*)
Drafts ==
  /\ page.draft # None => page.draft.of = page.draft.id
  /\ DraftIsOfVariant

(* A photo is sent for a product that is in the catalogue.                 *)
Stored == \A s \in Slot : Asking(s, "upload") => calls[s].id \in catalog

(* Until two enrolments race, the secret on its way to the page is the one *)
(* stored, and the one request that was let in finds none stored.          *)
Secrets ==
  ~raced =>
    /\ page.secret # None => page.secret = mfa
    /\ \A s \in Slot :
         /\ Asking(s, "enroll") /\ calls[s].secret # None => calls[s].secret = mfa
         /\ LetIn(s) => mfa = None
    /\ \A s, r \in Slot : LetIn(s) /\ LetIn(r) => s = r

IInv == Shape /\ Works /\ Drafts /\ Stored /\ Secrets

-----------------------------------------------------------------------------
(* Steps that leave alone what the invariant is about.                     *)

Same(p, q) ==
  /\ DOMAIN q = PageFields
  /\ q.at = p.at /\ q.draft = p.draft /\ q.modal = p.modal
  /\ q.confirm = p.confirm /\ q.busy = p.busy /\ q.secret = p.secret

Marking == {"modal", "all", "void", "voided"}

Plain == {"list", "detail", "saved", "create", "import", "fulfill", "setting",
          "user", "verify"}

(* A call that is made, answered or followed by another one, of such a kind*)
(* that the page keeps no account of it.                                   *)
PlainCall ==
  \/ UNCHANGED calls
  \/ \E c : \E r \in Slot :
       /\ calls' = [calls EXCEPT ![r] = c]
       /\ \A kind \in Marking : ~Asking(r, kind)
       /\ \/ c = None
          \/ /\ "kind" \in DOMAIN c /\ c.kind \in Plain
             /\ c.kind = "create" => {"id", "photo"} \subseteq DOMAIN c

Aside ==
  /\ Same(page, page') /\ PlainCall
  /\ UNCHANGED <<mfa, raced>> /\ catalog \subseteq catalog'

(* A slot that is free can be chosen.                                      *)
LEMMA FreeSlot ==
  ASSUME NEW cs, Free(cs) # {}
  PROVE  /\ (CHOOSE s \in Free(cs) : TRUE) \in Slot
         /\ cs[CHOOSE s \in Free(cs) : TRUE] = None
  BY DEF Free

(* A call that is made takes a slot that was free.                         *)
LEMMA CallSteps ==
  ASSUME NEW c, Call(c)
  PROVE  \E r \in Slot : calls[r] = None /\ calls' = [calls EXCEPT ![r] = c]
  BY FreeSlot DEF Call, Made

(* A plain call is made, or follows one that is not marked.                *)
LEMMA PlainCallSteps ==
  ASSUME NEW c, "kind" \in DOMAIN c, c.kind \in Plain,
         c.kind = "create" => {"id", "photo"} \subseteq DOMAIN c
  PROVE  /\ Call(c) => PlainCall
         /\ \A s \in Slot :
              (\A kind \in Marking : ~Asking(s, kind)) /\ Continue(s, c) => PlainCall
<1>1. ASSUME Call(c) PROVE PlainCall
  <2>1. PICK r \in Slot : calls[r] = None /\ calls' = [calls EXCEPT ![r] = c]
    BY <1>1, CallSteps
  <2>. QED BY <2>1 DEF PlainCall, Asking
<1>2. ASSUME NEW s \in Slot, \A kind \in Marking : ~Asking(s, kind), Continue(s, c)
      PROVE  PlainCall
  BY <1>2 DEF PlainCall, Continue
<1>. QED BY <1>1, <1>2

(* A call that is not marked ends.                                         *)
LEMMA PlainReturn ==
  ASSUME NEW s \in Slot, \A kind \in Marking : ~Asking(s, kind), Return(s)
  PROVE  PlainCall
  BY DEF PlainCall, Return

(* The invariant survives every step that leaves it alone.                 *)
LEMMA AsideKeeps ==
  ASSUME IInv, Aside
  PROVE  IInv'
<1>. USE DEF Same, Asking, Aside
<1>1. CASE UNCHANGED calls
  BY <1>1 DEF IInv, Shape, Works, Drafts, DraftIsOfVariant, Stored, Secrets, LetIn
<1>2. ASSUME NEW r \in Slot, NEW c,
             calls' = [calls EXCEPT ![r] = c],
             \A kind \in Marking : ~Asking(r, kind),
             \/ c = None
             \/ /\ "kind" \in DOMAIN c /\ c.kind \in Plain
                /\ c.kind = "create" => {"id", "photo"} \subseteq DOMAIN c
      PROVE IInv'
  <2>. USE DEF Plain, Marking
  <2>1. Shape'
    BY <1>2 DEF IInv, Shape
  <2>2. Works'
    BY <1>2 DEF IInv, Shape, Works
  <2>3. Drafts'
    BY <1>2 DEF IInv, Shape, Drafts, DraftIsOfVariant
  <2>4. Stored'
    BY <1>2 DEF IInv, Shape, Stored
  <2>5. Secrets'
    BY <1>2 DEF IInv, Shape, Secrets, LetIn
  <2>. QED BY <2>1, <2>2, <2>3, <2>4, <2>5 DEF IInv
<1>. QED BY <1>1, <1>2 DEF PlainCall

-----------------------------------------------------------------------------
(* What the operators on a page do.                                        *)

LEMMA PagesAreSame ==
  ASSUME NEW p, DOMAIN p = PageFields
  PROVE  Same(p, Reading(p)) /\ Same(p, Ended(p)) /\ Same(p, Failed(p))
  BY DEF Same, Reading, Ended, Failed, PageFields

(* Fields of the page that the invariant is not about.                     *)
LEMMA OtherFields ==
  ASSUME DOMAIN page = PageFields, NEW x
  PROVE  /\ Same(page, [page EXCEPT !.form = x])
         /\ Same(page, [page EXCEPT !.filled = x])
         /\ Same(page, [page EXCEPT !.error = x])
         /\ Same(page, [page EXCEPT !.search = x])
         /\ Same(page, [page EXCEPT !.asked = x])
         /\ Same(page, [page EXCEPT !.tab = x])
         /\ Same(page, [page EXCEPT !.phase = x])
         /\ Same(page, [page EXCEPT !.detail = x])
         /\ Same(page, [page EXCEPT !.open = x])
         /\ \A y : Same(page, [page EXCEPT !.open = x, !.detail = y])
  BY DEF Same, PageFields

(* Pages that differ in other fields only, twice.                          *)
LEMMA SameIsTransitive ==
  ASSUME NEW p, NEW q, NEW r, Same(p, q), Same(q, r)
  PROVE  Same(p, r)
  BY DEF Same

(* A spinner that is started changes nothing of it either.                 *)
LEMMA ReadingIsSame ==
  ASSUME NEW p, Same(page, p)
  PROVE  Same(page, Reading(p))
  BY PagesAreSame, SameIsTransitive DEF Same

(* A list that is read again after a change.                               *)
LEMMA RereadSteps ==
  ASSUME NEW s, NEW p, Same(page, p), Reread(s, p)
  PROVE  Same(page, page') /\ Continue(s, List(calls[s].filter, FALSE))
  BY ReadingIsSame DEF Reread

-----------------------------------------------------------------------------
(* The steps that leave alone what the invariant is about.                 *)

LEMMA ListIsAside ==
  ASSUME Shape, NEW s \in Slot, AnswerList(s)
  PROVE  Aside
<1>. DEFINE d == IF calls[s].closes THEN None ELSE Ended(page).detail
            q == [Ended(page) EXCEPT !.listed = calls[s].filter, !.detail = d]
<1>1. Same(page, q)
  <2>. HIDE DEF d
  <2>. QED BY PagesAreSame DEF Shape, Same, PageFields
<1>2. page' \in {q, Failed(page)}
  BY DEF AnswerList
<1>3. Same(page, page')
  BY <1>1, <1>2, PagesAreSame DEF Shape
<1>. QED BY <1>3, PlainReturn DEF AnswerList, Aside, backend, Asking, Marking

(* A row that is opened or closed.                                         *)
LEMMA ExpandIsAside ==
  ASSUME Shape, NEW r, Expand(r)
  PROVE  Aside
<1>1. CASE r \in {page.open, IF At("orders") THEN page.detail ELSE None}
  <2>. DEFINE x == IF At("customers") THEN page.detail ELSE None
  <2>1. page' = [page EXCEPT !.open = None, !.detail = x] /\ UNCHANGED calls
    BY <1>1 DEF Expand
  <2>. HIDE DEF x
  <2>2. Same(page, page')
    BY <2>1, OtherFields DEF Shape
  <2>. QED BY <2>1, <2>2 DEF Expand, Aside, backend, PlainCall
<1>2. CASE r \notin {page.open, IF At("orders") THEN page.detail ELSE None}
  <2>. DEFINE x == IF At("orders") THEN None ELSE r
  <2>1. page' = [page EXCEPT !.open = x] /\ Call([kind |-> "detail", id |-> r])
    BY <1>2 DEF Expand
  <2>. HIDE DEF x
  <2>2. Same(page, page') /\ PlainCall
    BY <2>1, OtherFields, PlainCallSteps DEF Shape, Plain
  <2>. QED BY <2>2 DEF Expand, Aside, backend
<1>. QED BY <1>1, <1>2

(* What is typed into a form, and whether it is shown.                     *)
LEMMA FormIsAside ==
  ASSUME Shape, NEW w, NEW photo, ToggleForm \/ FillForm(w, photo) \/ NewUser(w)
  PROVE  Aside
<1>1. \E f : page' = [page EXCEPT !.form = f]
  <2>1. CASE ToggleForm
    <3>1. page' = [page EXCEPT !.form = [page.form EXCEPT !.shown = ~page.form.shown]]
      BY <2>1, Zenon DEF ToggleForm
    <3>. QED BY <3>1
  <2>2. CASE FillForm(w, photo)
    <3>1. page' = [page EXCEPT !.form = [shown |-> TRUE, handle |-> w, photo |-> photo]]
      BY <2>2, Zenon DEF FillForm
    <3>. QED BY <3>1
  <2>3. CASE NewUser(w)
    <3>1. page' = [page EXCEPT !.form = [NoForm EXCEPT !.shown = TRUE, !.handle = w]]
      BY <2>3, Zenon DEF NewUser
    <3>. QED BY <3>1
  <2>. QED BY <2>1, <2>2, <2>3
<1>2. Same(page, page')
  BY <1>1, OtherFields DEF Shape
<1>3. UNCHANGED <<calls, backend>>
  BY DEF ToggleForm, FillForm, NewUser
<1>. QED BY <1>2, <1>3 DEF Aside, backend, PlainCall

(* A form of the settings that is filled or emptied.                       *)
LEMMA FillSectionIsAside ==
  ASSUME Shape, NEW x, FillSection(x)
  PROVE  Aside
<1>. DEFINE y == IF x \in page.filled THEN page.filled \ {x} ELSE page.filled \cup {x}
<1>1. page' = [page EXCEPT !.filled = y]
  BY DEF FillSection
<1>2. Same(page, page')
  BY <1>1, OtherFields DEF Shape
<1>. QED BY <1>2 DEF FillSection, Aside, backend, PlainCall

(* One step for each of the actions that are left.                         *)
LEMMA StepsAside ==
  ASSUME Shape
  PROVE  /\ \A s \in Slot :
              AnswerDetail(s) \/ AnswerSave(s) \/ AnswerImport(s) \/ AnswerFulfill(s)
                \/ AnswerSetting(s) \/ AnswerUser(s) \/ AnswerVerify(s) => Aside
         /\ \A r \in Row : Fulfill(r) => Aside
         /\ \A w : Type(w) => Aside
         /\ \A t : SelectTab(t) => Aside
         /\ \A x : CreateSetting(x) => Aside
         /\ Settle \/ CreateProduct \/ ImportCsv \/ DeleteDiscount \/ CancelUser
              \/ CreateUser \/ Deactivate \/ Verify => Aside
<1>. USE DEF Aside, Shape, Asking, Plain, Marking, backend
<1>0. Same(page, page)
  BY DEF Same
<1>1. ASSUME NEW s \in Slot, AnswerDetail(s) PROVE Aside
  BY <1>0, <1>1, PlainReturn, OtherFields DEF AnswerDetail
<1>2. ASSUME NEW s \in Slot, AnswerSave(s) PROVE Aside
  BY <1>0, <1>2, PlainCallSteps, PlainReturn DEF AnswerSave
<1>3. ASSUME NEW s \in Slot, AnswerImport(s) PROVE Aside
  BY <1>0, <1>3, RereadSteps, PlainCallSteps, PlainReturn DEF AnswerImport, List
<1>4. ASSUME NEW s \in Slot, AnswerFulfill(s) PROVE Aside
  BY <1>0, <1>4, PagesAreSame, PlainCallSteps, PlainReturn DEF AnswerFulfill, List
<1>5. ASSUME NEW s \in Slot, AnswerSetting(s) PROVE Aside
  <2>. DEFINE x == page.filled \ {calls[s].section}
              p == [page EXCEPT !.filled = x]
  <2>1. Same(page, p)
    BY OtherFields
  <2>2. Reread(s, p) \/ (UNCHANGED page /\ Return(s))
    BY <1>5, Zenon DEF AnswerSetting
  <2>. HIDE DEF p
  <2>3. CASE Reread(s, p)
    BY <1>5, <2>1, <2>3, RereadSteps, PlainCallSteps DEF AnswerSetting, List
  <2>4. CASE UNCHANGED page /\ Return(s)
    BY <1>0, <1>5, <2>4, PlainReturn DEF AnswerSetting
  <2>. QED BY <2>2, <2>3, <2>4
<1>6. ASSUME NEW s \in Slot, AnswerUser(s) PROVE Aside
  <2>. DEFINE f == IF calls[s].creates THEN NoForm ELSE page.form
              p == [page EXCEPT !.form = f]
              q == [page EXCEPT !.error = TRUE]
  <2>1. Same(page, p) /\ Same(page, q)
    BY OtherFields
  <2>2. Reread(s, p) \/ (page' = q /\ Return(s))
    BY <1>6, Zenon DEF AnswerUser
  <2>. HIDE DEF p, q
  <2>3. CASE Reread(s, p)
    BY <1>6, <2>1, <2>3, RereadSteps, PlainCallSteps DEF AnswerUser, List
  <2>4. CASE page' = q /\ Return(s)
    BY <1>6, <2>1, <2>4, PlainReturn DEF AnswerUser
  <2>. QED BY <2>2, <2>3, <2>4
<1>7. ASSUME NEW s \in Slot, AnswerVerify(s) PROVE Aside
  <2>1. Same(page, page')
    BY <1>7 DEF AnswerVerify, Same, PageFields
  <2>. QED BY <1>7, <2>1, PlainReturn DEF AnswerVerify
<1>8. ASSUME NEW r \in Row, Fulfill(r) PROVE Aside
  BY <1>0, <1>8, PlainCallSteps DEF Fulfill
<1>9. ASSUME NEW t, SelectTab(t) PROVE Aside
  BY <1>0, <1>9, ReadingIsSame, OtherFields, PlainCallSteps DEF SelectTab, List
<1>10. ASSUME NEW x, CreateSetting(x) PROVE Aside
  BY <1>0, <1>10, PlainCallSteps DEF CreateSetting
<1>11. ASSUME NEW w, Type(w) PROVE Aside
  BY <1>0, <1>11, OtherFields DEF Type, PlainCall
<1>12. ASSUME Settle PROVE Aside
  BY <1>0, <1>12, ReadingIsSame, OtherFields, PlainCallSteps DEF Settle, List
<1>13. ASSUME CreateProduct PROVE Aside
  BY <1>0, <1>13, PlainCallSteps DEF CreateProduct
<1>14. ASSUME ImportCsv PROVE Aside
  BY <1>0, <1>14, PlainCallSteps DEF ImportCsv
<1>15. ASSUME DeleteDiscount PROVE Aside
  BY <1>0, <1>15, PlainCallSteps DEF DeleteDiscount
<1>16. ASSUME CancelUser PROVE Aside
  BY <1>0, <1>16, OtherFields, PlainCallSteps DEF CancelUser, List
<1>17. ASSUME CreateUser PROVE Aside
  BY <1>0, <1>17, PlainCallSteps DEF CreateUser
<1>18. ASSUME Deactivate PROVE Aside
  BY <1>0, <1>18, PlainCallSteps DEF Deactivate
<1>19. ASSUME Verify PROVE Aside
  BY <1>0, <1>19, OtherFields, PlainCallSteps DEF Verify
<1>. QED
  BY <1>1, <1>2, <1>3, <1>4, <1>5, <1>6, <1>7, <1>8, <1>9, <1>10, <1>11, <1>12,
     <1>13, <1>14, <1>15, <1>16, <1>17, <1>18, <1>19

-----------------------------------------------------------------------------
(* Editing variants.                                                       *)

LEMMA EditKeeps ==
  ASSUME IInv, NEW r \in Row,
         StartEditVariant(r) \/ CancelEditVariant(r) \/ SaveVariant(r) \/ OpenModal(r)
  PROVE  IInv'
<1>. USE DEF Shape, PageFields, Asking, backend
<1>1. CASE StartEditVariant(r) \/ CancelEditVariant(r)
  <2>. USE <1>1 DEF StartEditVariant, CancelEditVariant, Drafted
  <2>1. Shape'
    BY DEF IInv
  <2>2. Works'
    BY DEF IInv, Works
  <2>3. Drafts'
    BY DEF IInv, Drafts, DraftIsOfVariant
  <2>4. Stored' /\ Secrets'
    BY DEF IInv, Stored, Secrets, LetIn
  <2>. QED BY <2>1, <2>2, <2>3, <2>4 DEF IInv
<1>2. CASE SaveVariant(r)
  <2>1. PICK s \in Slot :
          /\ calls[s] = None
          /\ calls' = [calls EXCEPT ![s] = [kind |-> "save", id |-> r,
                         of |-> page.draft.of, open |-> page.open]]
    BY <1>2, CallSteps DEF SaveVariant
  <2>. USE <1>2, <2>1 DEF SaveVariant
  <2>2. Shape'
    BY DEF IInv
  <2>3. Works'
    BY DEF IInv, Works
  <2>4. Drafts'
    BY DEF IInv, Drafts, DraftIsOfVariant, Editing
  <2>5. Stored' /\ Secrets'
    BY DEF IInv, Stored, Secrets, LetIn
  <2>. QED BY <2>2, <2>3, <2>4, <2>5 DEF IInv
<1>3. CASE OpenModal(r)
  <2>. USE <1>3 DEF OpenModal
  <2>1. Shape' /\ Works'
    BY DEF IInv, Works, ShowsVariant, At
  <2>2. Drafts' /\ Stored' /\ Secrets'
    BY DEF IInv, Drafts, DraftIsOfVariant, Stored, Secrets, LetIn
  <2>. QED BY <2>1, <2>2 DEF IInv
<1>. QED BY <1>1, <1>2, <1>3

(* The product that is read again ends an edit, and begins none.           *)
LEMMA SavedKeeps ==
  ASSUME IInv, NEW s \in Slot, AnswerSaved(s)
  PROVE  IInv'
<1>. USE DEF Shape, Asking, backend
<1>1. /\ DOMAIN page' = PageFields
      /\ page'.at = page.at /\ page'.modal = page.modal
      /\ page'.confirm = page.confirm /\ page'.busy = page.busy
      /\ page'.secret = page.secret
      /\ page'.draft \in {page.draft, None}
  BY DEF AnswerSaved, IInv, PageFields
<1>2. calls' = [calls EXCEPT ![s] = None] /\ UNCHANGED <<catalog, mfa, raced>>
  BY DEF AnswerSaved, Return
<1>3. Shape' /\ Stored'
  BY <1>1, <1>2 DEF IInv, Stored
<1>4. Works'
  BY <1>1, <1>2 DEF IInv, Works
<1>5. Drafts'
  BY <1>1, <1>2 DEF IInv, Drafts, DraftIsOfVariant
<1>6. Secrets'
  BY <1>1, <1>2 DEF IInv, Secrets, LetIn
<1>. QED BY <1>3, <1>4, <1>5, <1>6 DEF IInv

-----------------------------------------------------------------------------
(* Dialogs and buttons that wait for a call.                               *)

(* Steps that leave edits and secrets alone, and change one call.          *)
LEMMA MarkingKeeps ==
  ASSUME IInv, NEW s \in Slot, NEW c,
         DOMAIN page' = PageFields,
         page'.draft = page.draft, page'.secret = page.secret,
         UNCHANGED <<catalog, mfa, raced>>,
         calls' = [calls EXCEPT ![s] = c],
         c = None \/ ("kind" \in DOMAIN c /\ c.kind \in Marking \cup {"list", "detail"}),
         Works'
  PROVE  IInv'
<1>. USE DEF Shape, Asking, Marking
<1>1. Shape' /\ Stored'
  BY DEF IInv, Stored
<1>2. Drafts' /\ Secrets'
  BY DEF IInv, Drafts, DraftIsOfVariant, Secrets, LetIn
<1>. QED BY <1>1, <1>2 DEF IInv

(* The dialog is submitted only when none of its calls is open.            *)
LEMMA SubmitKeeps ==
  ASSUME IInv, SubmitModal
  PROVE  IInv'
<1>1. PICK s \in Slot :
        /\ calls[s] = None
        /\ calls' = [calls EXCEPT ![s] = [kind |-> "modal", id |-> page.modal]]
  BY CallSteps DEF SubmitModal
<1>2. Works'
  BY <1>1 DEF SubmitModal, InModal, Idle, IInv, Shape, Works, Asking, PageFields
<1>. QED BY <1>1, <1>2, MarkingKeeps DEF SubmitModal, IInv, Shape, PageFields, Marking, backend

(* A dialog that is closed, and one that is opened by an idle button.      *)
LEMMA CancelKeeps ==
  ASSUME IInv, CancelModal \/ AskFulfillAll
  PROVE  IInv'
<1>. USE DEF CancelModal, AskFulfillAll, Shape, PageFields, Asking, backend
<1>1. Shape' /\ Stored'
  BY DEF IInv, Stored
<1>2. Works'
  BY DEF IInv, Works, Idle, At
<1>3. Drafts' /\ Secrets'
  BY DEF IInv, Drafts, DraftIsOfVariant, Secrets, LetIn
<1>. QED BY <1>1, <1>2, <1>3 DEF IInv

(* The answer that enables the dialog again ends its only call.            *)
LEMMA ModalKeeps ==
  ASSUME IInv, NEW s \in Slot, AnswerModal(s)
  PROVE  IInv'
<1>1. /\ DOMAIN page' = PageFields
      /\ page'.at = page.at /\ page'.confirm = page.confirm
      /\ page'.draft = page.draft /\ page'.secret = page.secret
      /\ page'.busy = None /\ page'.modal \in {page.modal, None}
  BY DEF AnswerModal, IInv, Shape, PageFields
<1>2. PICK c : /\ calls' = [calls EXCEPT ![s] = c]
               /\ c = None \/ ("kind" \in DOMAIN c /\ c.kind = "detail")
  BY DEF AnswerModal, Return, Continue
<1>3. Works'
  BY <1>1, <1>2 DEF AnswerModal, IInv, Shape, Works, Asking
<1>. QED BY <1>1, <1>2, <1>3, MarkingKeeps DEF AnswerModal, backend

(* The visible orders are fulfilled when no such call is open.             *)
LEMMA ConfirmKeeps ==
  ASSUME IInv, NEW sure, AnswerConfirm(sure)
  PROVE  IInv'
<1>1. CASE sure
  <2>1. /\ page' = [page EXCEPT !.confirm = FALSE, !.busy = "all"]
        /\ page.confirm /\ UNCHANGED <<catalog, mfa, raced>>
    BY <1>1 DEF AnswerConfirm, backend
  <2>2. PICK s \in Slot :
          /\ calls[s] = None
          /\ calls' = [calls EXCEPT ![s] = [kind |-> "all", filter |-> Filter]]
    BY <1>1, CallSteps DEF AnswerConfirm
  <2>3. Works'
    BY <2>1, <2>2, OfficeAssumption DEF IInv, Shape, Works, Asking, PageFields
  <2>. QED BY <2>1, <2>2, <2>3, MarkingKeeps DEF IInv, Shape, PageFields, Marking
<1>2. CASE ~sure
  <2>1. /\ page' = [page EXCEPT !.confirm = FALSE]
        /\ UNCHANGED <<calls, catalog, mfa, raced>>
    BY <1>2 DEF AnswerConfirm, backend
  <2>2. Shape' /\ Stored' /\ Works'
    BY <2>1 DEF IInv, Shape, Stored, Works, Asking, PageFields
  <2>3. Drafts' /\ Secrets'
    BY <2>1 DEF IInv, Shape, Drafts, DraftIsOfVariant, Secrets, LetIn, Asking, PageFields
  <2>. QED BY <2>2, <2>3 DEF IInv
<1>. QED BY <1>1, <1>2

(* The answer that enables the button again ends its only call.            *)
LEMMA AllKeeps ==
  ASSUME IInv, NEW s \in Slot, AnswerAll(s)
  PROVE  IInv'
<1>. DEFINE q == [page EXCEPT !.busy = None]
<1>1. /\ DOMAIN q = PageFields /\ q.busy = None
      /\ q.at = page.at /\ q.confirm = page.confirm /\ q.modal = page.modal
      /\ q.draft = page.draft /\ q.secret = page.secret
  BY DEF IInv, Shape, PageFields
<1>2. page' = Reading(q) /\ calls' = [calls EXCEPT ![s] = List(calls[s].filter, FALSE)]
  BY DEF AnswerAll, Reread, Continue
<1>. HIDE DEF q
<1>3. Same(q, page')
  BY <1>1, <1>2, PagesAreSame
<1>4. Works'
  BY <1>1, <1>2, <1>3 DEF AnswerAll, IInv, Shape, Works, Asking, List, Same
<1>. QED BY <1>1, <1>2, <1>3, <1>4, MarkingKeeps DEF AnswerAll, Same, List, backend

(* A sale is marked while it is voided: on the page of sales only.         *)
LEMMA VoidKeeps ==
  ASSUME IInv, NEW r \in Row, Void(r)
  PROVE  IInv'
<1>1. PICK s \in Slot :
        /\ calls[s] = None
        /\ calls' = [calls EXCEPT ![s] = [kind |-> "void", id |-> r, filter |-> Filter]]
  BY CallSteps DEF Void
<1>2. Works'
  BY <1>1 DEF Void, At, IInv, Shape, Works, Asking, PageFields
<1>. QED BY <1>1, <1>2, MarkingKeeps DEF Void, IInv, Shape, PageFields, Marking, backend

(* The mark goes with the answer, on the page of sales only.               *)
LEMMA AnswerVoidKeeps ==
  ASSUME IInv, NEW s \in Slot, AnswerVoid(s) \/ AnswerVoided(s)
  PROVE  IInv'
<1>1. /\ DOMAIN page' = PageFields
      /\ page'.at = page.at /\ page'.confirm = page.confirm
      /\ page'.draft = page.draft /\ page'.secret = page.secret
      /\ page'.modal = page.modal /\ page'.busy \in {page.busy, None}
  BY DEF AnswerVoid, AnswerVoided, IInv, Shape, PageFields
<1>2. PICK c : /\ calls' = [calls EXCEPT ![s] = c]
               /\ c = None \/ ("kind" \in DOMAIN c /\ c.kind = "voided")
  BY DEF AnswerVoid, AnswerVoided, Return, Continue, IInv, Shape, Asking
<1>3. page.at = "sales"
  BY DEF AnswerVoid, AnswerVoided, IInv, Works
<1>4. Works'
  BY <1>1, <1>2, <1>3 DEF IInv, Shape, Works, Asking
<1>. QED BY <1>1, <1>2, <1>4, MarkingKeeps DEF AnswerVoid, AnswerVoided, Marking, backend

-----------------------------------------------------------------------------
(* Creating a product.                                                     *)

(* The form is emptied and the list read, or nothing but the call ends.    *)
LEMMA ClearedSteps ==
  ASSUME IInv, NEW s \in Slot, NEW stored, Cleared(s, stored),
         Asking(s, "create") \/ Asking(s, "upload")
  PROVE  Same(page, page') /\ PlainCall
<1>1. CASE stored
  <2>. DEFINE f == [NoForm EXCEPT !.photo = page.form.photo /\ ~calls[s].photo]
  <2>1. Reread(s, [page EXCEPT !.form = f])
    BY <1>1 DEF Cleared
  <2>. HIDE DEF f
  <2>2. Same(page, page') /\ Continue(s, List(calls[s].filter, FALSE))
    BY <2>1, OtherFields, RereadSteps DEF IInv, Shape
  <2>. QED BY <2>2, PlainCallSteps DEF List, Plain, Marking, Asking
<1>2. CASE ~stored
  <2>1. UNCHANGED page /\ Return(s)
    BY <1>2 DEF Cleared
  <2>. QED BY <2>1, PlainReturn DEF IInv, Shape, Same, Asking, Marking
<1>. QED BY <1>1, <1>2

(* A product that is created is in the catalogue when its photo is sent.   *)
LEMMA CreateKeeps ==
  ASSUME IInv, NEW s \in Slot, AnswerCreate(s)
  PROVE  IInv'
<1>. DEFINE c == calls[s]
<1>1. CASE /\ UNCHANGED page /\ catalog' = catalog \cup {c.id}
           /\ Continue(s, [c EXCEPT !.kind = "upload"])
  <2>. USE <1>1 DEF AnswerCreate, Continue, Shape, Asking
  <2>1. Shape' /\ Stored'
    BY DEF IInv, Stored
  <2>2. Works'
    BY DEF IInv, Works
  <2>3. Drafts' /\ Secrets'
    BY DEF IInv, Drafts, DraftIsOfVariant, Secrets, LetIn
  <2>. QED BY <2>1, <2>2, <2>3 DEF IInv
<1>2. CASE Cleared(s, TRUE) \/ (UNCHANGED page /\ Return(s))
  <2>1. Same(page, page') /\ PlainCall
    BY <1>2, ClearedSteps, PlainReturn
       DEF AnswerCreate, IInv, Shape, Same, Asking, Marking
  <2>2. UNCHANGED <<mfa, raced>> /\ catalog \subseteq catalog'
    BY DEF AnswerCreate
  <2>. QED BY <2>1, <2>2, AsideKeeps DEF Aside
<1>. QED BY <1>1, <1>2 DEF AnswerCreate

(* A photo that is answered.                                               *)
LEMMA UploadKeeps ==
  ASSUME IInv, NEW s \in Slot, AnswerUpload(s)
  PROVE  IInv'
<1>1. Same(page, page') /\ PlainCall
  BY ClearedSteps DEF AnswerUpload
<1>. QED BY <1>1, AsideKeeps DEF AnswerUpload, Aside

-----------------------------------------------------------------------------
(* The second factor.                                                      *)

LEMMA EnrollKeeps ==
  ASSUME IInv, NEW s \in Slot,
         CheckEnroll(s) \/ Enroll(s) \/ AnswerEnroll(s)
  PROVE  IInv'
<1>. USE DEF Shape, Asking
<1>1. CASE CheckEnroll(s)
  <2>1. /\ UNCHANGED <<page, mfa, catalog>> /\ mfa = None
        /\ calls' = [calls EXCEPT ![s] = [calls[s] EXCEPT !.free = TRUE]]
        /\ calls[s] # None /\ calls[s].kind = "enroll"
        /\ {"kind", "free", "secret"} \subseteq DOMAIN calls[s]
    BY <1>1 DEF CheckEnroll, CanEnroll, Continue, IInv
  <2>2. ~raced' => ~raced /\ \A r \in Slot : ~LetIn(r)
    BY <1>1 DEF CheckEnroll
  <2>3. Shape' /\ Stored'
    BY <2>1 DEF IInv, Stored
  <2>4. Works'
    BY <2>1 DEF IInv, Works
  <2>5. Drafts'
    BY <2>1 DEF IInv, Drafts, DraftIsOfVariant
  <2>6. Secrets'
    BY <2>1, <2>2 DEF IInv, Secrets, LetIn
  <2>. QED BY <2>3, <2>4, <2>5, <2>6 DEF IInv
<1>2. CASE Enroll(s)
  <2>1. PICK x \in Secret :
          /\ mfa' = x
          /\ calls' = [calls EXCEPT ![s] = [calls[s] EXCEPT !.secret = x]]
    BY <1>2 DEF Enroll, Continue
  <2>2. /\ UNCHANGED <<page, catalog, raced>>
        /\ calls[s] # None /\ calls[s].kind = "enroll" /\ LetIn(s)
        /\ {"kind", "free", "secret"} \subseteq DOMAIN calls[s]
    BY <1>2 DEF Enroll, LetIn, IInv
  <2>3. Shape' /\ Stored'
    BY <2>1, <2>2 DEF IInv, Stored
  <2>4. Works'
    BY <2>1, <2>2 DEF IInv, Works
  <2>5. Drafts'
    BY <2>1, <2>2 DEF IInv, Drafts, DraftIsOfVariant
  <2>6. Secrets'
    BY <2>1, <2>2, OfficeAssumption DEF IInv, Secrets, LetIn
  <2>. QED BY <2>3, <2>4, <2>5, <2>6 DEF IInv
<1>3. CASE AnswerEnroll(s)
  <2>1. /\ DOMAIN page' = PageFields
        /\ page'.at = page.at /\ page'.confirm = page.confirm
        /\ page'.draft = page.draft /\ page'.modal = page.modal
        /\ page'.busy = page.busy
        /\ page'.secret = page.secret
             \/ (calls[s].secret # None /\ page'.secret = calls[s].secret)
    BY <1>3 DEF AnswerEnroll, IInv, PageFields
  <2>2. /\ calls' = [calls EXCEPT ![s] = None]
        /\ Asking(s, "enroll") /\ UNCHANGED <<catalog, mfa, raced>>
    BY <1>3 DEF AnswerEnroll, Return, backend
  <2>3. Shape' /\ Stored'
    BY <2>1, <2>2 DEF IInv, Stored
  <2>4. Works'
    BY <2>1, <2>2 DEF IInv, Works
  <2>5. Drafts'
    BY <2>1, <2>2 DEF IInv, Drafts, DraftIsOfVariant
  <2>6. Secrets'
    BY <2>1, <2>2 DEF IInv, Secrets, LetIn
  <2>. QED BY <2>3, <2>4, <2>5, <2>6 DEF IInv
<1>. QED BY <1>1, <1>2, <1>3

(* An enrolment that was just asked for is not let in.                     *)
LEMMA StartKeeps ==
  ASSUME IInv, StartEnroll
  PROVE  IInv'
<1>1. PICK s \in Slot :
        /\ calls[s] = None
        /\ calls' = [calls EXCEPT ![s] =
                       [kind |-> "enroll", free |-> FALSE, secret |-> None]]
  BY CallSteps DEF StartEnroll
<1>2. Same(page, page') /\ UNCHANGED <<catalog, mfa, raced>>
  BY OtherFields DEF StartEnroll, IInv, Shape, backend
<1>. USE <1>1, <1>2 DEF Same, Shape, Asking
<1>3. Shape' /\ Stored'
  BY DEF IInv, Stored
<1>4. Works'
  BY DEF IInv, Works
<1>5. Drafts'
  BY DEF IInv, Drafts, DraftIsOfVariant
<1>6. Secrets'
  BY DEF IInv, Secrets, LetIn
<1>. QED BY <1>3, <1>4, <1>5, <1>6 DEF IInv

-----------------------------------------------------------------------------
(* Going from page to page.                                                *)

(* A page that has just been mounted.                                      *)
LEMMA FreshHolds ==
  ASSUME NEW at, NEW w, page' = Blank(at, w), calls' = Open(at, w), raced' = FALSE
  PROVE  IInv'
<1>. USE DEF Open, List, Asking
<1>1. Shape' /\ Stored'
  BY DEF Shape, Stored, Blank, PageFields
<1>2. Works'
  BY DEF Works, Blank
<1>3. Drafts'
  BY DEF Drafts, DraftIsOfVariant, Blank
<1>4. Secrets'
  BY DEF Secrets, LetIn, Blank
<1>. QED BY <1>1, <1>2, <1>3, <1>4 DEF IInv

(* A page is left alone, or all of it is new.                              *)
LEMMA NavigateKeeps ==
  ASSUME IInv, NEW at, NEW w, Navigate(at, w)
  PROVE  IInv'
<1>1. CASE At(at)
  <2>1. Same(page, page')
    BY <1>1 DEF Navigate, IInv, Shape, Same, PageFields
  <2>. QED BY <1>1, <2>1, AsideKeeps DEF Navigate, Aside, PlainCall, backend
<1>2. CASE ~At(at)
  BY <1>2, FreshHolds DEF Navigate
<1>. QED BY <1>1, <1>2

-----------------------------------------------------------------------------
(* Every step keeps the invariant.                                         *)

LEMMA AnswerKeeps ==
  ASSUME IInv, NEW s \in Slot, Answer(s)
  PROVE  IInv'
<1>1. CASE AnswerList(s)
  BY <1>1, ListIsAside, AsideKeeps DEF IInv
<1>2. CASE AnswerDetail(s) \/ AnswerSave(s) \/ AnswerImport(s) \/ AnswerFulfill(s)
             \/ AnswerSetting(s) \/ AnswerUser(s) \/ AnswerVerify(s)
  BY <1>2, StepsAside, AsideKeeps DEF IInv
<1>3. CASE AnswerSaved(s)
  BY <1>3, SavedKeeps
<1>4. CASE AnswerModal(s)
  BY <1>4, ModalKeeps
<1>5. CASE AnswerCreate(s)
  BY <1>5, CreateKeeps
<1>6. CASE AnswerUpload(s)
  BY <1>6, UploadKeeps
<1>7. CASE AnswerAll(s)
  BY <1>7, AllKeeps
<1>8. CASE AnswerVoid(s) \/ AnswerVoided(s)
  BY <1>8, AnswerVoidKeeps
<1>9. CASE AnswerEnroll(s)
  BY <1>9, EnrollKeeps
<1>. QED BY <1>1, <1>2, <1>3, <1>4, <1>5, <1>6, <1>7, <1>8, <1>9 DEF Answer

(* One case for each action on a row.                                      *)
LEMMA OnRowKeeps ==
  ASSUME IInv, NEW r \in Row, OnRow(r)
  PROVE  IInv'
<1>1. CASE Expand(r)
  BY <1>1, ExpandIsAside, AsideKeeps DEF IInv
<1>2. CASE Fulfill(r)
  BY <1>2, StepsAside, AsideKeeps DEF IInv
<1>3. CASE Void(r)
  BY <1>3, VoidKeeps
<1>4. CASE StartEditVariant(r) \/ CancelEditVariant(r) \/ SaveVariant(r) \/ OpenModal(r)
  BY <1>4, EditKeeps
<1>. QED BY <1>1, <1>2, <1>3, <1>4 DEF OnRow

(* The palette changes a page by going to another only.                    *)
LEMMA PaletteKeeps ==
  ASSUME IInv, Palette
  PROVE  IInv'
<1>1. CASE \E at \in Searching, w \in Word : Go(at, w)
  BY <1>1, NavigateKeeps DEF Go
<1>2. CASE UNCHANGED <<page, calls, backend>>
  BY <1>2, AsideKeeps DEF Aside, Same, PlainCall, backend, IInv, Shape
<1>. QED
  BY <1>1, <1>2 DEF Palette, OpenPalette, ClosePalette, SettleQuery, TypeQuery,
                    AnswerQuery, MoveActive

(* One case for each action.                                               *)
LEMMA NextKeeps ==
  ASSUME IInv, [Next]_vars
  PROVE  IInv'
<1>1. CASE \E s \in Slot : Answer(s)
  BY <1>1, AnswerKeeps
<1>2. CASE \E s \in Slot : CheckEnroll(s) \/ Enroll(s)
  BY <1>2, EnrollKeeps
<1>3. CASE \E r \in Row : OnRow(r)
  BY <1>3, OnRowKeeps
<1>4. CASE \E w \in Word \cup {None} :
             Type(w) \/ NewUser(w) \/ \E photo \in BOOLEAN : FillForm(w, photo)
  BY <1>4, StepsAside, FormIsAside, AsideKeeps DEF IInv
<1>5. CASE \/ \E t \in UNION {Tabs(at) : at \in Pages} : SelectTab(t)
           \/ \E x \in Section : CreateSetting(x)
  BY <1>5, StepsAside, AsideKeeps DEF IInv
<1>6. CASE \E x \in Section : FillSection(x)
  BY <1>6, FillSectionIsAside, AsideKeeps DEF IInv
<1>7. CASE \E sure \in BOOLEAN : AnswerConfirm(sure)
  BY <1>7, ConfirmKeeps
<1>8. CASE Settle \/ CreateProduct \/ ImportCsv \/ DeleteDiscount \/ CancelUser
             \/ CreateUser \/ Deactivate \/ Verify
  BY <1>8, StepsAside, AsideKeeps DEF IInv
<1>9. CASE ToggleForm
  BY <1>9, FormIsAside, AsideKeeps DEF IInv
<1>10. CASE SubmitModal
  BY <1>10, SubmitKeeps
<1>11. CASE CancelModal \/ AskFulfillAll
  BY <1>11, CancelKeeps
<1>12. CASE StartEnroll
  BY <1>12, StartKeeps
<1>13. CASE \E at \in Pages : Visit(at)
  BY <1>13, NavigateKeeps DEF Visit
<1>14. CASE Palette
  BY <1>14, PaletteKeeps
<1>15. CASE UNCHANGED vars
  BY <1>15, AsideKeeps DEF vars, backend, Aside, Same, PlainCall, IInv, Shape
<1>. QED
  BY <1>1, <1>2, <1>3, <1>4, <1>5, <1>6, <1>7, <1>8, <1>9, <1>10, <1>11, <1>12,
     <1>13, <1>14, <1>15 DEF Next

(* The page the frontend starts on has just been mounted.                  *)
LEMMA InitHolds == Init => IInv
<1>. SUFFICES ASSUME Init PROVE IInv
  OBVIOUS
<1>. USE DEF Init, Open, List, Asking
<1>1. Shape /\ Stored
  BY DEF Shape, Stored, Blank, PageFields
<1>2. Works
  BY DEF Works, Blank
<1>3. Drafts
  BY DEF Drafts, DraftIsOfVariant, Blank
<1>4. Secrets
  BY DEF Secrets, LetIn, Blank
<1>. QED BY <1>1, <1>2, <1>3, <1>4 DEF IInv

(* The inductive invariant holds in every reachable state.                 *)
THEOREM Inductive == Spec => []IInv
  BY InitHolds, NextKeeps, PTL DEF Spec

-----------------------------------------------------------------------------
(* What the pages promise.                                                 *)

(* The secret a page shows is the one the backend checks codes against,    *)
(* unless two enrolments were let in at once.                              *)
THEOREM ShownSecretIsStored == Spec => []SecretIsStored
<1>1. IInv => SecretIsStored
  BY DEF IInv, Secrets, SecretIsStored
<1>. QED BY <1>1, Inductive, PTL

(* What is saved for a variant was typed over the values of that variant.  *)
THEOREM SavedDraftIsOfVariant == Spec => []DraftIsOfVariant
<1>1. IInv => DraftIsOfVariant
  BY DEF IInv, Drafts
<1>. QED BY <1>1, Inductive, PTL

(* A dialog saves once at a time, and the visible orders are fulfilled once*)
(* at a time.                                                              *)
THEOREM WorksOneAtATime == Spec => []OneAtATime
<1>1. ASSUME IInv, NEW kind \in {"modal", "all"}
      PROVE  Cardinality({s \in Slot : Asking(s, kind)}) <= 1
  <2>. DEFINE S == {s \in Slot : Asking(s, kind)}
  <2>1. CASE S = {}
    BY <2>1, FS_EmptySet
  <2>2. ASSUME NEW s \in S PROVE Cardinality(S) <= 1
    <3>1. S = {s}
      BY <1>1, <2>2 DEF IInv, Works
    <3>2. Cardinality({s}) = 1
      BY FS_Singleton
    <3>. QED BY <3>1, <3>2
  <2>. QED BY <2>1, <2>2
<1>2. IInv => OneAtATime
  BY <1>1 DEF OneAtATime
<1>. QED BY <1>2, Inductive, PTL

(* An answer empties the form of a product only when that product is in the*)
(* catalogue, with the photo that was sent for it.                         *)
THEOREM EmptiedFormIsStored == Spec => EmptiedIsStored
<1>1. ASSUME IInv, NEW s \in Slot, AnswerCreate(s), page'.form # page.form
      PROVE  calls[s].id \in catalog' /\ (calls[s].photo => calls[s].id \in photos')
  <2>1. ~UNCHANGED page
    BY <1>1
  <2>2. catalog' = catalog \cup {calls[s].id} /\ ~calls[s].photo
    BY <1>1, <2>1 DEF AnswerCreate
  <2>. QED BY <2>2
<1>2. ASSUME IInv, NEW s \in Slot, AnswerUpload(s), page'.form # page.form
      PROVE  calls[s].id \in catalog' /\ (calls[s].photo => calls[s].id \in photos')
  <2>1. ~Cleared(s, FALSE)
    BY <1>2 DEF Cleared
  <2>2. photos' = photos \cup {calls[s].id} /\ catalog' = catalog
    BY <1>2, <2>1 DEF AnswerUpload
  <2>3. calls[s].id \in catalog
    BY <1>2 DEF AnswerUpload, IInv, Stored
  <2>. QED BY <2>2, <2>3
<1>3. IInv => [\A s \in Slot :
         (AnswerCreate(s) \/ AnswerUpload(s)) /\ page'.form # page.form =>
           calls[s].id \in catalog' /\ (calls[s].photo => calls[s].id \in photos')]_vars
  BY <1>1, <1>2
<1>. QED BY <1>3, Inductive, PTL DEF EmptiedIsStored

-----------------------------------------------------------------------------
(* The command palette.                                                    *)

(* One search counts at most, the one for the term; once it is answered the*)
(* rows are its rows, and the mark is on one of them.                      *)
PInv ==
  /\ palette.open => palette.asked \subseteq {palette.term}
  /\ DOMAIN palette = {"open", "query", "term", "asked", "loading", "results", "active"}
  /\ palette.results.rows \in Nat /\ palette.active \in Nat
  /\ ResultsOfTerm /\ ActiveIsRow

(* The palette starts closed and empty.                                    *)
LEMMA PaletteInit == Init => PInv
  BY DEF Init, PInv, ResultsOfTerm, ActiveIsRow, NoResult

(* A term that is searched makes its answer the only one that counts.      *)
LEMMA RestartedHolds ==
  ASSUME NEW p, DOMAIN p = DOMAIN palette, PInv, palette' = Restarted(p),
         \/ p.results = palette.results /\ p.active = palette.active
              /\ p.open = palette.open
         \/ p.results = NoResult /\ p.active = 0
  PROVE  PInv'
<1>1. CASE p.term = None
  BY <1>1 DEF PInv, Restarted, Clamped, ResultsOfTerm, ActiveIsRow, NoResult
<1>2. CASE p.term # None
  <2>1. /\ DOMAIN palette' = DOMAIN palette
        /\ palette'.loading /\ palette'.asked = {palette'.term}
        /\ palette'.results = p.results /\ palette'.active = p.active
        /\ palette'.open = p.open
    BY <1>2 DEF PInv, Restarted
  <2>2. ActiveIsRow'
    BY <2>1 DEF PInv, ActiveIsRow, NoResult
  <2>. QED BY <2>1, <2>2 DEF PInv, ResultsOfTerm, NoResult
<1>. QED BY <1>1, <1>2

(* One case for each action on the palette.                                *)
LEMMA PaletteStep ==
  ASSUME PInv, Palette
  PROVE  PInv'
<1>1. CASE OpenPalette
  BY <1>1, RestartedHolds DEF OpenPalette, PInv
<1>2. CASE SettleQuery
  BY <1>2, RestartedHolds DEF SettleQuery, PInv
<1>3. CASE ClosePalette \/ \E at \in Searching, w \in Word : Go(at, w)
  <2>1. palette' = Closed(palette)
    BY <1>3 DEF ClosePalette, Go
  <2>. QED BY <2>1 DEF Closed, PInv, ResultsOfTerm, ActiveIsRow, NoResult
<1>4. ASSUME NEW w, TypeQuery(w) PROVE PInv'
  BY <1>4 DEF TypeQuery, PInv, ResultsOfTerm, ActiveIsRow
<1>5. ASSUME NEW w, NEW rows \in 0 .. MaxRows, AnswerQuery(w, rows) PROVE PInv'
  BY <1>5, OfficeAssumption
     DEF AnswerQuery, Clamped, PInv, ResultsOfTerm, ActiveIsRow
<1>6. ASSUME NEW i \in 0 .. MaxRows, MoveActive(i) PROVE PInv'
  BY <1>6, OfficeAssumption DEF MoveActive, PInv, ResultsOfTerm, ActiveIsRow
<1>. QED BY <1>1, <1>2, <1>3, <1>4, <1>5, <1>6 DEF Palette

(* No other action touches the palette.                                    *)
LEMMA OthersLeavePalette ==
  ASSUME [Next]_vars, ~Palette
  PROVE  UNCHANGED palette
<1>1. ASSUME NEW s \in Slot, Answer(s) \/ CheckEnroll(s) \/ Enroll(s)
      PROVE  UNCHANGED palette
  BY <1>1 DEF Answer, CheckEnroll, Enroll, AnswerList, AnswerDetail, AnswerSave,
              AnswerSaved, AnswerModal, AnswerCreate, AnswerUpload, AnswerImport,
              AnswerFulfill, AnswerAll, AnswerSetting, AnswerUser, AnswerVoid,
              AnswerVoided, AnswerEnroll, AnswerVerify
<1>2. ASSUME NEW r \in Row, OnRow(r) PROVE UNCHANGED palette
  BY <1>2 DEF OnRow, Expand, StartEditVariant, CancelEditVariant, SaveVariant,
              OpenModal, Fulfill, Void
<1>3. ASSUME NEW w, NEW photo, Type(w) \/ NewUser(w) \/ FillForm(w, photo)
      PROVE  UNCHANGED palette
  BY <1>3 DEF Type, NewUser, FillForm
<1>4. ASSUME NEW x, SelectTab(x) \/ FillSection(x) \/ CreateSetting(x)
                      \/ AnswerConfirm(x) \/ Visit(x)
      PROVE  UNCHANGED palette
  BY <1>4 DEF SelectTab, FillSection, CreateSetting, AnswerConfirm, Visit
<1>5. CASE \/ Settle \/ SubmitModal \/ CancelModal \/ ToggleForm \/ CreateProduct
           \/ ImportCsv \/ AskFulfillAll \/ DeleteDiscount \/ CancelUser \/ CreateUser
           \/ Deactivate \/ StartEnroll \/ Verify
  BY <1>5 DEF Settle, SubmitModal, CancelModal, ToggleForm, CreateProduct, ImportCsv,
              AskFulfillAll, DeleteDiscount, CancelUser, CreateUser, Deactivate,
              StartEnroll, Verify
<1>. QED BY <1>1, <1>2, <1>3, <1>4, <1>5 DEF Next, vars

(* The invariant of the palette holds in every reachable state.            *)
THEOREM PaletteInductive == Spec => []PInv
<1>1. PInv /\ [Next]_vars => PInv'
  <2>1. PInv /\ UNCHANGED palette => PInv'
    BY DEF PInv, ResultsOfTerm, ActiveIsRow
  <2>. QED BY <2>1, PaletteStep, OthersLeavePalette
<1>. QED BY <1>1, PaletteInit, PTL DEF Spec

(* The rows that are shown are those of the term that was searched last.   *)
THEOREM RowsAreOfTerm == Spec => []ResultsOfTerm
<1>1. PInv => ResultsOfTerm
  BY DEF PInv
<1>. QED BY <1>1, PaletteInductive, PTL

(* The mark is on a row whenever there is one.                             *)
THEOREM MarkIsOnRow == Spec => []ActiveIsRow
<1>1. PInv => ActiveIsRow
  BY DEF PInv
<1>. QED BY <1>1, PaletteInductive, PTL


-----------------------------------------------------------------------------
(* Types.                                                                  *)

(* The pages, each with a tab of its own.                                  *)
Paged == {p \in PageType : p.tab \in {FirstTab(p.at)} \cup Tabs(p.at)}

CallsType == [Slot -> OrNone(CallType)]

(* A field of a page takes any value of its type: the flags, the row that  *)
(* is busy, the form, the sections, and then every one of them.            *)
LEMMA FlagField ==
  ASSUME NEW p \in Paged, NEW b \in BOOLEAN
  PROVE  /\ [p EXCEPT !.loading = b] \in Paged
         /\ [p EXCEPT !.stuck = b] \in Paged
         /\ [p EXCEPT !.error = b] \in Paged
         /\ [p EXCEPT !.confirm = b] \in Paged
  BY DEF Paged, PageType

LEMMA BusyField ==
  ASSUME NEW p \in Paged, NEW r \in OrNone(Row \cup {"all"})
  PROVE  [p EXCEPT !.busy = r] \in Paged
  BY DEF Paged, PageType

LEMMA FormField ==
  ASSUME NEW p \in Paged, NEW f \in FormType
  PROVE  [p EXCEPT !.form = f] \in Paged
  BY DEF Paged, PageType

LEMMA FilledField ==
  ASSUME NEW p \in Paged, NEW x \in SUBSET Section
  PROVE  [p EXCEPT !.filled = x] \in Paged
  BY DEF Paged, PageType

(* The tab is one of its page.                                             *)
LEMMA FieldType ==
  ASSUME NEW p \in Paged
  PROVE  /\ \A b \in BOOLEAN :
              /\ [p EXCEPT !.loading = b] \in Paged
              /\ [p EXCEPT !.stuck = b] \in Paged
              /\ [p EXCEPT !.error = b] \in Paged
              /\ [p EXCEPT !.confirm = b] \in Paged
         /\ \A w \in OrNone(Word) :
              /\ [p EXCEPT !.url = w] \in Paged
              /\ [p EXCEPT !.search = w] \in Paged
              /\ [p EXCEPT !.asked = w] \in Paged
         /\ \A r \in OrNone(Row) :
              /\ [p EXCEPT !.open = r] \in Paged
              /\ [p EXCEPT !.detail = r] \in Paged
              /\ [p EXCEPT !.modal = r] \in Paged
         /\ \A r \in OrNone(Row \cup {"all"}) : [p EXCEPT !.busy = r] \in Paged
         /\ \A f \in OrNone(FilterType) : [p EXCEPT !.listed = f] \in Paged
         /\ \A d \in OrNone([id : Row, of : Row]) : [p EXCEPT !.draft = d] \in Paged
         /\ \A f \in FormType : [p EXCEPT !.form = f] \in Paged
         /\ \A x \in SUBSET Section : [p EXCEPT !.filled = x] \in Paged
         /\ \A x \in {"idle", "enrolled", "verified"} : [p EXCEPT !.phase = x] \in Paged
         /\ \A x \in OrNone(Secret) : [p EXCEPT !.secret = x] \in Paged
         /\ \A t \in Tabs(p.at) : [p EXCEPT !.tab = t] \in Paged
<1>. USE DEF Paged
<1>1. ASSUME NEW b \in BOOLEAN
      PROVE  /\ [p EXCEPT !.loading = b] \in Paged
             /\ [p EXCEPT !.stuck = b] \in Paged
             /\ [p EXCEPT !.error = b] \in Paged
             /\ [p EXCEPT !.confirm = b] \in Paged
  BY FlagField
<1>2. ASSUME NEW w \in OrNone(Word)
      PROVE  /\ [p EXCEPT !.url = w] \in Paged
             /\ [p EXCEPT !.search = w] \in Paged
             /\ [p EXCEPT !.asked = w] \in Paged
  BY DEF PageType
<1>3. ASSUME NEW r \in OrNone(Row)
      PROVE  /\ [p EXCEPT !.open = r] \in Paged
             /\ [p EXCEPT !.detail = r] \in Paged
             /\ [p EXCEPT !.modal = r] \in Paged
  BY DEF PageType
<1>4. ASSUME NEW r \in OrNone(Row \cup {"all"}) PROVE [p EXCEPT !.busy = r] \in Paged
  BY BusyField
<1>5. ASSUME NEW f \in OrNone(FilterType) PROVE [p EXCEPT !.listed = f] \in Paged
  BY DEF PageType
<1>6. ASSUME NEW d \in OrNone([id : Row, of : Row]) PROVE [p EXCEPT !.draft = d] \in Paged
  BY DEF PageType
<1>7. ASSUME NEW f \in FormType PROVE [p EXCEPT !.form = f] \in Paged
  BY FormField
<1>8. ASSUME NEW x \in SUBSET Section PROVE [p EXCEPT !.filled = x] \in Paged
  BY FilledField
<1>9. ASSUME NEW x \in {"idle", "enrolled", "verified"}
      PROVE  [p EXCEPT !.phase = x] \in Paged
  BY DEF PageType
<1>10. ASSUME NEW x \in OrNone(Secret) PROVE [p EXCEPT !.secret = x] \in Paged
  BY DEF PageType
<1>11. ASSUME NEW t \in Tabs(p.at) PROVE [p EXCEPT !.tab = t] \in Paged
  BY DEF PageType, Tabs, OrNone
<1>. QED
  BY <1>1, <1>2, <1>3, <1>4, <1>5, <1>6, <1>7, <1>8, <1>9, <1>10, <1>11

(* What the fields of a page hold, as far as they are passed on.           *)
LEMMA PageHolds ==
  ASSUME NEW p \in Paged
  PROVE  /\ p.at \in Pages
         /\ p.search \in OrNone(Word) /\ p.asked \in OrNone(Word)
         /\ p.tab \in OrNone({"unfulfilled", "fulfilled", "1d", "7d"})
         /\ p.open \in OrNone(Row) /\ p.detail \in OrNone(Row)
         /\ p.modal \in OrNone(Row) /\ p.draft \in OrNone([id : Row, of : Row])
         /\ p.form \in FormType /\ p.filled \in SUBSET Section
         /\ p.loading \in BOOLEAN
  BY DEF Paged, PageType

(* What a call asks for, by its kind.                                      *)
LEMMA CallKinds ==
  ASSUME NEW c \in CallType
  PROVE  /\ c # None
         /\ c.kind = "list" => c.filter \in FilterType /\ c.closes \in BOOLEAN
         /\ c.kind \in {"detail", "saved", "modal", "save", "fulfill", "void", "voided"}
              => c.id \in Row
         /\ c.kind = "save" => c.open \in Row
         /\ c.kind \in {"create", "upload"} => c.id \in Word /\ c.photo \in BOOLEAN
         /\ c.kind \in {"create", "upload", "import", "all", "fulfill", "void", "voided",
                        "setting", "user"} => c.filter \in FilterType
         /\ c.kind = "enroll" => c.secret \in OrNone(Secret)
  BY OfficeAssumption DEF CallType, OrNone

(* What a call becomes that is answered in parts.                          *)
LEMMA CallsGoOn ==
  ASSUME NEW c \in CallType
  PROVE  /\ c.kind = "create" => [c EXCEPT !.kind = "upload"] \in CallType
         /\ c.kind = "void" => [c EXCEPT !.kind = "voided"] \in CallType
         /\ c.kind = "enroll" =>
              /\ [c EXCEPT !.free = TRUE] \in CallType
              /\ \A x \in Secret : [c EXCEPT !.secret = x] \in CallType
  BY OfficeAssumption DEF CallType, OrNone

(* An open call is one of them.                                            *)
LEMMA AskedType ==
  ASSUME TypeOK, NEW s \in Slot, NEW kind, Asking(s, kind)
  PROVE  calls[s] \in CallType /\ calls[s].kind = kind
  BY DEF TypeOK, Asking, OrNone

(* A list that is read.                                                    *)
LEMMA ListType ==
  ASSUME NEW f \in FilterType, NEW b \in BOOLEAN
  PROVE  List(f, b) \in CallType
  BY DEF List, CallType

LEMMA FilterOfPage ==
  ASSUME page \in Paged
  PROVE  /\ Filter \in FilterType
         /\ [tab |-> page.tab, word |-> page.search] \in FilterType
  BY PageHolds DEF Filter, FilterType

(* Making, ending or following a call leaves calls.                        *)
LEMMA CallsKeepType ==
  ASSUME calls \in CallsType
  PROVE  /\ \A c \in CallType : Call(c) => calls' \in CallsType
         /\ \A s \in Slot : Return(s) => calls' \in CallsType
         /\ \A s \in Slot : \A c \in CallType : Continue(s, c) => calls' \in CallsType
<1>1. ASSUME NEW c \in CallType, Call(c) PROVE calls' \in CallsType
  BY <1>1, CallSteps DEF CallsType, OrNone
<1>. QED BY <1>1 DEF CallsType, OrNone, Return, Continue

(* The operators on a page keep it one.                                    *)
LEMMA PagesKeepType ==
  ASSUME NEW p \in Paged
  PROVE  Reading(p) \in Paged /\ Ended(p) \in Paged /\ Failed(p) \in Paged
<1>1. Reading(p) \in Paged
  <2>. DEFINE b == p.at \in Spinning
  <2>1. b \in BOOLEAN /\ Reading(p) = [p EXCEPT !.loading = b]
    BY DEF Reading
  <2>. HIDE DEF b
  <2>. QED BY <2>1, FlagField
<1>2. Ended(p) \in Paged
  BY FlagField DEF Ended
<1>. QED BY <1>1, <1>2, FlagField DEF Failed

LEMMA RereadType ==
  ASSUME calls \in CallsType, NEW s \in Slot, NEW p \in Paged,
         calls[s].filter \in FilterType, Reread(s, p)
  PROVE  page' \in Paged /\ calls' \in CallsType
  BY PagesKeepType, ListType, CallsKeepType DEF Reread

(* A step that changes the page and its calls only.                        *)
LEMMA PageAndCalls ==
  ASSUME TypeOK, page' \in Paged, calls' \in CallsType, UNCHANGED <<palette, backend>>
  PROVE  TypeOK'
  BY DEF TypeOK, Paged, CallsType, backend

LEMMA PageOnly ==
  ASSUME TypeOK, page' \in Paged, UNCHANGED <<calls, palette, backend>>
  PROVE  TypeOK'
  BY DEF TypeOK, Paged, backend

LEMMA TypesOf ==
  ASSUME TypeOK
  PROVE  page \in Paged /\ calls \in CallsType
  BY DEF TypeOK, Paged, CallsType

(* The steps that change the page only.                                    *)
LEMMA PageTypes ==
  ASSUME TypeOK
  PROVE  /\ \A w \in OrNone(Word) : \A photo \in BOOLEAN :
              Type(w) \/ FillForm(w, photo) \/ NewUser(w) => TypeOK'
         /\ \A r \in Row : StartEditVariant(r) \/ CancelEditVariant(r) \/ OpenModal(r)
                             => TypeOK'
         /\ \A x \in Section : FillSection(x) => TypeOK'
         /\ CancelModal \/ ToggleForm \/ AskFulfillAll => TypeOK'
<1>0. page \in Paged
  BY TypesOf
<1>1. ASSUME NEW w \in OrNone(Word), Type(w) PROVE TypeOK'
  BY <1>0, <1>1, FieldType, PageOnly DEF Type
<1>2. ASSUME NEW w \in OrNone(Word), NEW photo \in BOOLEAN, FillForm(w, photo)
      PROVE  TypeOK'
  <2>. DEFINE f == [shown |-> TRUE, handle |-> w, photo |-> photo]
  <2>1. f \in FormType /\ page' = [page EXCEPT !.form = f]
    BY <1>2, Zenon DEF FillForm, FormType
  <2>. HIDE DEF f
  <2>2. UNCHANGED <<calls, palette, backend>>
    BY <1>2, Zenon DEF FillForm
  <2>. QED BY <1>0, <2>1, <2>2, FormField, PageOnly
<1>3. ASSUME NEW w \in OrNone(Word), NewUser(w) PROVE TypeOK'
  <2>. DEFINE f == [NoForm EXCEPT !.shown = TRUE, !.handle = w]
  <2>1. f \in FormType
    BY DEF FormType, NoForm
  <2>2. page' = [page EXCEPT !.form = f]
    BY <1>3, Zenon DEF NewUser
  <2>. HIDE DEF f
  <2>3. UNCHANGED <<calls, palette, backend>>
    BY <1>3, Zenon DEF NewUser
  <2>. QED BY <1>0, <2>1, <2>2, <2>3, FormField, PageOnly
<1>4. ASSUME NEW r \in Row, StartEditVariant(r) \/ CancelEditVariant(r) \/ OpenModal(r)
      PROVE  TypeOK'
  <2>1. Drafted(r) \in OrNone([id : Row, of : Row]) /\ r \in OrNone(Row)
        /\ None \in OrNone([id : Row, of : Row])
    BY DEF Drafted, OrNone
  <2>2. \/ page' = [page EXCEPT !.draft = Drafted(r)]
        \/ page' = [page EXCEPT !.draft = None]
        \/ page' = [page EXCEPT !.modal = r]
    BY <1>4 DEF StartEditVariant, CancelEditVariant, OpenModal
  <2>3. page' \in Paged
    BY <1>0, <2>1, <2>2, FieldType
  <2>. QED BY <1>4, <2>3, PageOnly DEF StartEditVariant, CancelEditVariant, OpenModal
<1>5. ASSUME NEW x \in Section, FillSection(x) PROVE TypeOK'
  <2>. DEFINE y == IF x \in page.filled THEN page.filled \ {x} ELSE page.filled \cup {x}
  <2>1. y \in SUBSET Section /\ page' = [page EXCEPT !.filled = y]
    BY <1>0, <1>5, PageHolds DEF FillSection
  <2>. HIDE DEF y
  <2>2. UNCHANGED <<calls, palette, backend>>
    BY <1>5 DEF FillSection
  <2>. QED BY <1>0, <2>1, <2>2, FilledField, PageOnly
<1>6. CASE CancelModal
  BY <1>0, <1>6, FieldType, PageOnly DEF CancelModal, OrNone
<1>7. CASE ToggleForm
  <2>. DEFINE f == [page.form EXCEPT !.shown = ~page.form.shown]
  <2>1. f \in FormType
    BY <1>0, PageHolds DEF FormType
  <2>2. page' = [page EXCEPT !.form = f]
    BY <1>7, Zenon DEF ToggleForm
  <2>. HIDE DEF f
  <2>3. UNCHANGED <<calls, palette, backend>>
    BY <1>7, Zenon DEF ToggleForm
  <2>. QED BY <1>0, <2>1, <2>2, <2>3, FormField, PageOnly
<1>8. CASE AskFulfillAll
  BY <1>0, <1>8, FieldType, PageOnly DEF AskFulfillAll
<1>. QED BY <1>1, <1>2, <1>3, <1>4, <1>5, <1>6, <1>7, <1>8

(* The steps that make a call for a list.                                  *)
LEMMA ListTypes ==
  ASSUME TypeOK
  PROVE  /\ \A t : SelectTab(t) => TypeOK'
         /\ Settle \/ CancelUser => TypeOK'
<1>0. page \in Paged /\ calls \in CallsType
  BY TypesOf
<1>1. ASSUME NEW t, SelectTab(t) PROVE TypeOK'
  <2>1. [page EXCEPT !.tab = t] \in Paged /\ [tab |-> t, word |-> page.asked] \in FilterType
    BY <1>0, <1>1, FieldType, PageHolds DEF SelectTab, FilterType, Tabs, OrNone
  <2>2. page' \in Paged /\ calls' \in CallsType
    BY <1>0, <1>1, <2>1, PagesKeepType, ListType, CallsKeepType DEF SelectTab
  <2>. QED BY <1>1, <2>2, PageAndCalls DEF SelectTab
<1>2. CASE Settle
  <2>1. [page EXCEPT !.asked = page.search] \in Paged
    BY <1>0, FieldType, PageHolds
  <2>2. page' \in Paged /\ calls' \in CallsType
    BY <1>0, <1>2, <2>1, FilterOfPage, PagesKeepType, ListType, CallsKeepType DEF Settle
  <2>. QED BY <1>2, <2>2, PageAndCalls DEF Settle
<1>3. CASE CancelUser
  <2>1. NoForm \in FormType
    BY DEF NoForm, FormType, OrNone
  <2>2. page' \in Paged /\ calls' \in CallsType
    BY <1>0, <1>3, <2>1, FieldType, FilterOfPage, ListType, CallsKeepType DEF CancelUser
  <2>. QED BY <1>3, <2>2, PageAndCalls DEF CancelUser
<1>. QED BY <1>1, <1>2, <1>3

(* The steps that make a call on a row.                                    *)
LEMMA RowTypes ==
  ASSUME TypeOK, NEW r \in Row, Expand(r) \/ SaveVariant(r) \/ Fulfill(r) \/ Void(r)
  PROVE  TypeOK'
<1>0. page \in Paged /\ calls \in CallsType /\ Filter \in FilterType
  BY TypesOf, FilterOfPage
<1>1. CASE Expand(r)
  <2>1. [kind |-> "detail", id |-> r] \in CallType
    BY DEF CallType
  <2>2. calls' \in CallsType
    BY <1>0, <1>1, <2>1, CallsKeepType DEF Expand
  <2>3. page' \in Paged
    <3>. DEFINE x == IF At("customers") THEN page.detail ELSE None
                y == IF At("orders") THEN None ELSE r
    <3>1. x \in OrNone(Row) /\ y \in OrNone(Row) /\ None \in OrNone(Row)
      BY <1>0, PageHolds DEF OrNone
    <3>2. page' \in {[page EXCEPT !.open = None, !.detail = x], [page EXCEPT !.open = y]}
      BY <1>1 DEF Expand
    <3>. HIDE DEF x, y
    <3>. DEFINE q == [page EXCEPT !.open = None]
    <3>3. q \in Paged /\ [page EXCEPT !.open = y] \in Paged
      BY <1>0, <3>1, FieldType
    <3>4. page' \in {[q EXCEPT !.detail = x], [page EXCEPT !.open = y]}
      BY <3>2
    <3>. HIDE DEF q
    <3>5. [q EXCEPT !.detail = x] \in Paged
      BY <3>1, <3>3, FieldType
    <3>. QED BY <3>3, <3>4, <3>5
  <2>. QED BY <1>1, <2>2, <2>3, PageAndCalls DEF Expand
<1>2. CASE SaveVariant(r)
  <2>1. page.draft \in [id : Row, of : Row] /\ page.open \in Row
    BY <1>0, <1>2, PageHolds DEF SaveVariant, Editing, ShowsVariant, OrNone
  <2>2. [kind |-> "save", id |-> r, of |-> page.draft.of, open |-> page.open] \in CallType
    BY <2>1 DEF CallType
  <2>3. calls' \in CallsType
    BY <1>0, <1>2, <2>2, CallsKeepType DEF SaveVariant
  <2>. QED BY <1>0, <1>2, <2>3, PageAndCalls DEF SaveVariant
<1>3. CASE Fulfill(r)
  <2>1. [kind |-> "fulfill", id |-> r, filter |-> Filter] \in CallType
    BY <1>0 DEF CallType
  <2>2. calls' \in CallsType
    BY <1>0, <1>3, <2>1, CallsKeepType DEF Fulfill
  <2>. QED BY <1>0, <1>3, <2>2, PageAndCalls DEF Fulfill
<1>4. CASE Void(r)
  <2>1. [kind |-> "void", id |-> r, filter |-> Filter] \in CallType
    BY <1>0 DEF CallType
  <2>2. calls' \in CallsType
    BY <1>0, <1>4, <2>1, CallsKeepType DEF Void
  <2>3. page' \in Paged
    BY <1>0, <1>4, FieldType DEF Void, OrNone
  <2>. QED BY <1>4, <2>2, <2>3, PageAndCalls DEF Void
<1>. QED BY <1>1, <1>2, <1>3, <1>4

(* The other steps that make a call.                                       *)
LEMMA AskTypes ==
  ASSUME TypeOK
  PROVE  /\ \A x \in Section : CreateSetting(x) => TypeOK'
         /\ \A sure : AnswerConfirm(sure) => TypeOK'
         /\ SubmitModal \/ CreateProduct \/ ImportCsv \/ DeleteDiscount \/ CreateUser
              \/ Deactivate \/ StartEnroll \/ Verify => TypeOK'
<1>0. page \in Paged /\ calls \in CallsType /\ Filter \in FilterType
  BY TypesOf, FilterOfPage
<1>1. /\ \A x \in OrNone(Section) :
           [kind |-> "setting", section |-> x, filter |-> Filter] \in CallType
      /\ \A b \in BOOLEAN : [kind |-> "user", creates |-> b, filter |-> Filter] \in CallType
      /\ [kind |-> "import", filter |-> Filter] \in CallType
      /\ [kind |-> "all", filter |-> Filter] \in CallType
  BY <1>0 DEF CallType
<1>2. /\ [kind |-> "enroll", free |-> FALSE, secret |-> None] \in CallType
      /\ [kind |-> "verify"] \in CallType
  BY DEF CallType, OrNone
<1>3. ASSUME NEW x \in Section, CreateSetting(x) PROVE TypeOK'
  BY <1>0, <1>1, <1>3, CallsKeepType, PageAndCalls DEF CreateSetting, OrNone
<1>4. ASSUME NEW sure, AnswerConfirm(sure) PROVE TypeOK'
  <2>1. "all" \in OrNone(Row \cup {"all"})
    BY DEF OrNone
  <2>2. page' \in Paged
    <3>1. [page EXCEPT !.confirm = FALSE] \in Paged
      BY <1>0, FieldType
    <3>. QED BY <1>4, <2>1, <3>1, FieldType DEF AnswerConfirm
  <2>3. calls' \in CallsType
    BY <1>0, <1>1, <1>4, CallsKeepType DEF AnswerConfirm
  <2>. QED BY <1>4, <2>2, <2>3, PageAndCalls DEF AnswerConfirm
<1>5. CASE SubmitModal
  <2>1. page.modal \in Row
    BY <1>0, <1>5, PageHolds DEF SubmitModal, InModal, OrNone
  <2>2. [kind |-> "modal", id |-> page.modal] \in CallType
    BY <2>1 DEF CallType
  <2>3. page' \in Paged
    BY <1>0, <1>5, <2>1, FieldType DEF SubmitModal, OrNone
  <2>4. calls' \in CallsType
    BY <1>0, <1>5, <2>2, CallsKeepType DEF SubmitModal
  <2>. QED BY <1>5, <2>3, <2>4, PageAndCalls DEF SubmitModal
<1>6. CASE CreateProduct
  <2>1. page.form.handle \in Word /\ page.form.photo \in BOOLEAN
    BY <1>0, <1>6, PageHolds DEF CreateProduct, FormType, OrNone
  <2>2. [kind |-> "create", id |-> page.form.handle, photo |-> page.form.photo,
         filter |-> Filter] \in CallType
    BY <1>0, <2>1 DEF CallType
  <2>. QED BY <1>0, <1>6, <2>2, CallsKeepType, PageAndCalls DEF CreateProduct
<1>7. CASE ImportCsv
  BY <1>0, <1>1, <1>7, CallsKeepType, PageAndCalls DEF ImportCsv
<1>8. CASE DeleteDiscount
  BY <1>0, <1>1, <1>8, CallsKeepType, PageAndCalls DEF DeleteDiscount, OrNone
<1>9. CASE CreateUser
  BY <1>0, <1>1, <1>9, CallsKeepType, PageAndCalls DEF CreateUser
<1>10. CASE Deactivate
  BY <1>0, <1>1, <1>10, CallsKeepType, PageAndCalls DEF Deactivate
<1>11. CASE StartEnroll
  <2>1. page' \in Paged /\ calls' \in CallsType
    BY <1>0, <1>2, <1>11, FieldType, CallsKeepType DEF StartEnroll
  <2>. QED BY <1>11, <2>1, PageAndCalls DEF StartEnroll
<1>12. CASE Verify
  <2>1. page' \in Paged /\ calls' \in CallsType
    BY <1>0, <1>2, <1>12, FieldType, CallsKeepType DEF Verify
  <2>. QED BY <1>12, <2>1, PageAndCalls DEF Verify
<1>. QED BY <1>3, <1>4, <1>5, <1>6, <1>7, <1>8, <1>9, <1>10, <1>11, <1>12

(* The answers that change the page and the calls only.                    *)
LEMMA AnswerTypes ==
  ASSUME TypeOK, NEW s \in Slot
  PROVE  /\ AnswerList(s) \/ AnswerDetail(s) \/ AnswerSave(s) \/ AnswerSaved(s) => TypeOK'
         /\ AnswerModal(s) \/ AnswerImport(s) \/ AnswerFulfill(s) \/ AnswerAll(s) => TypeOK'
         /\ AnswerSetting(s) \/ AnswerUser(s) \/ AnswerVoid(s) \/ AnswerVoided(s) => TypeOK'
         /\ AnswerEnroll(s) \/ AnswerVerify(s) => TypeOK'
<1>0. page \in Paged /\ calls \in CallsType /\ (Return(s) => calls' \in CallsType)
  BY TypesOf, CallsKeepType
<1>1. CASE AnswerList(s)
  <2>. DEFINE d == IF calls[s].closes THEN None ELSE Ended(page).detail
              q == [[Ended(page) EXCEPT !.listed = calls[s].filter] EXCEPT !.detail = d]
  <2>1. page' \in {q, Failed(page)}
    BY <1>1 DEF AnswerList
  <2>2. Ended(page) \in Paged /\ Failed(page) \in Paged
    BY <1>0, PagesKeepType
  <2>3. calls[s].filter \in OrNone(FilterType)
    BY <1>1, AskedType, CallKinds DEF AnswerList, OrNone
  <2>4. d \in OrNone(Row)
    BY <2>2, PageHolds DEF OrNone
  <2>5. q \in Paged
    <3>. HIDE DEF d
    <3>. QED BY <2>2, <2>3, <2>4, FieldType
  <2>. QED BY <1>0, <1>1, <2>1, <2>2, <2>5, PageAndCalls DEF AnswerList
<1>2. CASE AnswerDetail(s)
  <2>1. calls[s].id \in OrNone(Row)
    BY <1>2, AskedType, CallKinds DEF AnswerDetail, OrNone
  <2>2. page' \in Paged
    BY <1>0, <1>2, <2>1, FieldType DEF AnswerDetail
  <2>. QED BY <1>0, <1>2, <2>2, PageAndCalls DEF AnswerDetail
<1>3. CASE AnswerSave(s)
  <2>1. calls[s].open \in Row
    BY <1>3, AskedType, CallKinds DEF AnswerSave
  <2>2. [kind |-> "saved", id |-> calls[s].open] \in CallType
    BY <2>1 DEF CallType
  <2>. QED BY <1>0, <1>3, <2>2, CallsKeepType, PageAndCalls DEF AnswerSave
<1>4. CASE AnswerSaved(s)
  <2>1. calls[s].id \in OrNone(Row) /\ None \in OrNone([id : Row, of : Row])
    BY <1>4, AskedType, CallKinds DEF AnswerSaved, OrNone
  <2>2. page' \in Paged
    <3>1. [page EXCEPT !.detail = calls[s].id] \in Paged
      BY <1>0, <2>1, FieldType
    <3>. QED BY <1>0, <1>4, <2>1, <3>1, FieldType DEF AnswerSaved
  <2>. QED BY <1>0, <1>4, <2>2, PageAndCalls DEF AnswerSaved
<1>5. CASE AnswerModal(s)
  <2>1. page' \in Paged
    <3>1. None \in OrNone(Row) /\ None \in OrNone(Row \cup {"all"})
      BY DEF OrNone
    <3>. DEFINE p == [page EXCEPT !.modal = None]
                q == [page EXCEPT !.busy = None]
    <3>2. p \in Paged /\ q \in Paged
      BY <1>0, <3>1, FieldType
    <3>3. page' = [p EXCEPT !.busy = None] \/ page' = [q EXCEPT !.error = TRUE]
      BY <1>5 DEF AnswerModal
    <3>. HIDE DEF p, q
    <3>. QED BY <3>1, <3>2, <3>3, BusyField, FlagField
  <2>2. page.open # None => [kind |-> "detail", id |-> page.open] \in CallType
    BY <1>0, PageHolds DEF OrNone, CallType
  <2>3. calls' \in CallsType
    BY <1>0, <1>5, <2>2, CallsKeepType DEF AnswerModal
  <2>. QED BY <1>5, <2>1, <2>3, PageAndCalls DEF AnswerModal
<1>6. CASE AnswerImport(s)
  <2>1. calls[s].filter \in FilterType
    BY <1>6, AskedType, CallKinds DEF AnswerImport
  <2>. QED BY <1>0, <1>6, <2>1, RereadType, PageAndCalls DEF AnswerImport
<1>7. CASE AnswerFulfill(s)
  <2>1. List(calls[s].filter, TRUE) \in CallType
    BY <1>7, AskedType, CallKinds, ListType DEF AnswerFulfill
  <2>2. page' \in Paged /\ calls' \in CallsType
    BY <1>0, <1>7, <2>1, PagesKeepType, CallsKeepType DEF AnswerFulfill
  <2>. QED BY <1>7, <2>2, PageAndCalls DEF AnswerFulfill
<1>8. CASE AnswerAll(s)
  <2>1. calls[s].filter \in FilterType
    BY <1>8, AskedType, CallKinds DEF AnswerAll
  <2>2. [page EXCEPT !.busy = None] \in Paged
    BY <1>0, FieldType DEF OrNone
  <2>. QED BY <1>0, <1>8, <2>1, <2>2, RereadType, PageAndCalls DEF AnswerAll
<1>9. CASE AnswerSetting(s)
  <2>1. calls[s].filter \in FilterType
    BY <1>9, AskedType, CallKinds DEF AnswerSetting
  <2>2. [page EXCEPT !.filled = page.filled \ {calls[s].section}] \in Paged
    BY <1>0, FieldType, PageHolds
  <2>. QED BY <1>0, <1>9, <2>1, <2>2, RereadType, PageAndCalls DEF AnswerSetting
<1>10. CASE AnswerUser(s)
  <2>1. calls[s].filter \in FilterType
    BY <1>10, AskedType, CallKinds DEF AnswerUser
  <2>. DEFINE f == IF calls[s].creates THEN NoForm ELSE page.form
  <2>2. f \in FormType
    BY <1>0, PageHolds DEF NoForm, FormType, OrNone
  <2>3. \/ Reread(s, [page EXCEPT !.form = f])
        \/ page' = [page EXCEPT !.error = TRUE] /\ Return(s)
    BY <1>10, Zenon DEF AnswerUser
  <2>. HIDE DEF f
  <2>4. [page EXCEPT !.form = f] \in Paged /\ [page EXCEPT !.error = TRUE] \in Paged
    BY <1>0, <2>2, FieldType
  <2>. QED BY <1>0, <1>10, <2>1, <2>3, <2>4, RereadType, PageAndCalls DEF AnswerUser
<1>11. CASE AnswerVoid(s)
  <2>1. [calls[s] EXCEPT !.kind = "voided"] \in CallType
    BY <1>11, AskedType, CallsGoOn DEF AnswerVoid
  <2>2. page' \in Paged
    BY <1>0, <1>11, FieldType DEF AnswerVoid, OrNone
  <2>3. calls' \in CallsType
    BY <1>0, <1>11, <2>1, CallsKeepType DEF AnswerVoid
  <2>. QED BY <1>11, <2>2, <2>3, PageAndCalls DEF AnswerVoid
<1>12. CASE AnswerVoided(s)
  <2>1. calls[s].filter \in OrNone(FilterType) /\ None \in OrNone(Row \cup {"all"})
    BY <1>12, AskedType, CallKinds DEF AnswerVoided, OrNone
  <2>2. page' \in Paged
    <3>1. [page EXCEPT !.busy = None] \in Paged
      BY <1>0, <2>1, FieldType
    <3>. QED BY <1>12, <2>1, <3>1, FieldType DEF AnswerVoided
  <2>. QED BY <1>0, <1>12, <2>2, PageAndCalls DEF AnswerVoided
<1>13. CASE AnswerEnroll(s)
  <2>1. calls[s].secret \in OrNone(Secret)
    BY <1>13, AskedType, CallKinds DEF AnswerEnroll
  <2>2. page' \in Paged
    BY <1>0, <1>13, <2>1, FieldType DEF AnswerEnroll
  <2>. QED BY <1>0, <1>13, <2>2, PageAndCalls DEF AnswerEnroll
<1>14. CASE AnswerVerify(s)
  <2>1. page' \in Paged
    BY <1>0, <1>14, FieldType DEF AnswerVerify
  <2>. QED BY <1>0, <1>14, <2>1, PageAndCalls DEF AnswerVerify
<1>. QED BY <1>1, <1>2, <1>3, <1>4, <1>5, <1>6, <1>7, <1>8, <1>9, <1>10, <1>11, <1>12,
            <1>13, <1>14

(* The form of a product is emptied, or left.                              *)
LEMMA ClearedType ==
  ASSUME page \in Paged, calls \in CallsType, NEW s \in Slot,
         calls[s].filter \in FilterType, calls[s].photo \in BOOLEAN,
         NEW stored \in BOOLEAN, Cleared(s, stored)
  PROVE  page' \in Paged /\ calls' \in CallsType
<1>. DEFINE f == [NoForm EXCEPT !.photo = page.form.photo /\ ~calls[s].photo]
<1>1. f \in FormType
  BY PageHolds DEF NoForm, FormType, OrNone
<1>2. \/ Reread(s, [page EXCEPT !.form = f])
      \/ UNCHANGED page /\ Return(s)
  BY Zenon DEF Cleared
<1>. HIDE DEF f
<1>3. [page EXCEPT !.form = f] \in Paged
  BY <1>1, FieldType
<1>. QED BY <1>2, <1>3, RereadType, CallsKeepType

(* The answers that change what the backend holds.                         *)
LEMMA StoreTypes ==
  ASSUME TypeOK, Stored, NEW s \in Slot,
         AnswerCreate(s) \/ AnswerUpload(s) \/ CheckEnroll(s) \/ Enroll(s)
  PROVE  TypeOK'
<1>0. page \in Paged /\ calls \in CallsType /\ (Return(s) => calls' \in CallsType)
  BY TypesOf, CallsKeepType
<1>. USE DEF TypeOK, Paged, CallsType
<1>1. CASE AnswerCreate(s)
  <2>1. /\ calls[s].filter \in FilterType /\ calls[s].photo \in BOOLEAN
        /\ calls[s].id \in Word /\ [calls[s] EXCEPT !.kind = "upload"] \in CallType
    BY <1>1, AskedType, CallKinds, CallsGoOn DEF AnswerCreate
  <2>. HIDE DEF TypeOK, Paged, CallsType
  <2>2. page' \in Paged /\ calls' \in CallsType
    BY <1>0, <1>1, <2>1, ClearedType, CallsKeepType DEF AnswerCreate
  <2>. USE DEF TypeOK, Paged, CallsType
  <2>3. catalog' \subseteq Word /\ catalog \subseteq catalog'
    BY <1>1, <2>1 DEF AnswerCreate
  <2>. QED BY <1>1, <2>2, <2>3 DEF AnswerCreate
<1>2. CASE AnswerUpload(s)
  <2>1. /\ calls[s].filter \in FilterType /\ calls[s].photo \in BOOLEAN
        /\ calls[s].id \in catalog
    BY <1>2, AskedType, CallKinds DEF AnswerUpload, Stored
  <2>. HIDE DEF TypeOK, Paged, CallsType
  <2>2. page' \in Paged /\ calls' \in CallsType
    BY <1>0, <1>2, <2>1, ClearedType DEF AnswerUpload
  <2>. USE DEF TypeOK, Paged, CallsType
  <2>. QED BY <1>2, <2>1, <2>2 DEF AnswerUpload
<1>3. CASE CheckEnroll(s)
  <2>1. [calls[s] EXCEPT !.free = TRUE] \in CallType
    BY <1>3, AskedType, CallsGoOn DEF CheckEnroll
  <2>. HIDE DEF TypeOK, Paged, CallsType
  <2>2. calls' \in CallsType
    BY <1>0, <1>3, <2>1, CallsKeepType DEF CheckEnroll
  <2>. USE DEF TypeOK, Paged, CallsType
  <2>. QED BY <1>3, <2>2 DEF CheckEnroll
<1>4. CASE Enroll(s)
  <2>1. PICK x \in Secret : mfa' = x /\ Continue(s, [calls[s] EXCEPT !.secret = x])
    BY <1>4 DEF Enroll
  <2>2. [calls[s] EXCEPT !.secret = x] \in CallType
    BY <1>4, AskedType, CallsGoOn DEF Enroll, LetIn
  <2>. HIDE DEF TypeOK, Paged, CallsType
  <2>3. calls' \in CallsType
    BY <1>0, <2>1, <2>2, CallsKeepType
  <2>. USE DEF TypeOK, Paged, CallsType
  <2>. QED BY <1>4, <2>1, <2>3 DEF Enroll, OrNone
<1>. QED BY <1>1, <1>2, <1>3, <1>4

(* A page that has just been mounted.                                      *)
LEMMA BlankType ==
  ASSUME NEW at \in Pages, NEW w \in OrNone(Word)
  PROVE  Blank(at, w) \in Paged /\ Open(at, w) \in CallsType
<1>1. FirstTab(at) \in OrNone({"unfulfilled", "fulfilled", "1d", "7d"})
  BY DEF FirstTab, OrNone
<1>2. Blank(at, w) \in PageType /\ Blank(at, w).tab = FirstTab(Blank(at, w).at)
  <2>. DEFINE t == FirstTab(at)
              b == at \in Spinning
  <2>1. NoForm \in FormType /\ b \in BOOLEAN
    BY DEF NoForm, FormType, OrNone
  <2>2. Blank(at, w) =
          [at |-> at, url |-> w, search |-> w, asked |-> w, tab |-> t,
           loading |-> b, stuck |-> FALSE, error |-> FALSE,
           listed |-> None, open |-> None, detail |-> None,
           draft |-> None, modal |-> None, form |-> NoForm, filled |-> {},
           confirm |-> FALSE, busy |-> None, phase |-> "idle", secret |-> None]
    BY DEF Blank
  <2>3. Blank(at, w).tab = t /\ Blank(at, w).at = at
    BY DEF Blank
  <2>4. t \in OrNone({"unfulfilled", "fulfilled", "1d", "7d"})
    BY <1>1
  <2>. HIDE DEF t, b
  <2>5. Blank(at, w) \in PageType
    BY <2>1, <2>2, <2>4 DEF PageType, OrNone
  <2>. USE DEF t
  <2>. QED BY <2>3, <2>5
<1>3. [tab |-> FirstTab(at), word |-> w] \in FilterType
  BY <1>1 DEF FilterType
<1>4. List([tab |-> FirstTab(at), word |-> w], FALSE) \in CallType
  BY <1>3, ListType
<1>. QED BY <1>2, <1>4 DEF Paged, Open, CallsType, OrNone

LEMMA NavigateTypes ==
  ASSUME TypeOK, NEW at \in Pages, NEW w \in OrNone(Word), Navigate(at, w)
  PROVE  /\ page' \in Paged /\ calls' \in CallsType
         /\ catalog' \subseteq Word /\ photos' \subseteq catalog'
         /\ mfa' \in OrNone(Secret) /\ raced' \in BOOLEAN
<1>1. CASE At(at)
  <2>1. page' \in Paged /\ calls' \in CallsType
    <3>1. page \in Paged /\ calls \in CallsType
      BY TypesOf
    <3>2. [page EXCEPT !.url = w] \in Paged
      BY <3>1, FieldType
    <3>. QED BY <1>1, <3>1, <3>2, FieldType DEF Navigate
  <2>. QED BY <1>1, <2>1 DEF Navigate, TypeOK, backend
<1>2. CASE ~At(at)
  BY <1>2, BlankType DEF Navigate, OrNone
<1>. QED BY <1>1, <1>2

(* The operators on the palette keep its type.                             *)
LEMMA PalettesKeepType ==
  ASSUME NEW p \in PaletteType
  PROVE  /\ Restarted(p) \in PaletteType /\ Closed(p) \in PaletteType
         /\ \A i \in 0 .. MaxRows, n \in 0 .. MaxRows : Clamped(i, n) \in 0 .. MaxRows
<1>1. \A i \in 0 .. MaxRows, n \in 0 .. MaxRows : Clamped(i, n) \in 0 .. MaxRows
  BY OfficeAssumption DEF Clamped
<1>2. 0 \in 0 .. MaxRows /\ NoResult \in [of : OrNone(Term), rows : 0 .. MaxRows]
  BY OfficeAssumption DEF NoResult, OrNone
<1>3. Closed(p) \in PaletteType
  BY <1>2 DEF Closed, PaletteType
<1>4. Restarted(p) \in PaletteType
  <2>1. p.active \in 0 .. MaxRows /\ p.term \in OrNone(Term)
        /\ p.results \in [of : OrNone(Term), rows : 0 .. MaxRows]
    BY DEF PaletteType
  <2>. DEFINE l == p.term # None
              a == IF p.term = None THEN {} ELSE {p.term}
              r == IF p.term = None THEN NoResult ELSE p.results
              i == IF p.term = None THEN Clamped(p.active, 0) ELSE p.active
  <2>2. /\ l \in BOOLEAN /\ a \in SUBSET Term /\ i \in 0 .. MaxRows
        /\ r \in [of : OrNone(Term), rows : 0 .. MaxRows]
    BY <1>1, <1>2, <2>1 DEF OrNone
  <2>3. Restarted(p) = [p EXCEPT !.loading = l, !.asked = a, !.results = r, !.active = i]
    BY DEF Restarted
  <2>. HIDE DEF l, a, r, i
  <2>. QED BY <2>2, <2>3 DEF PaletteType
<1>. QED BY <1>1, <1>3, <1>4

LEMMA PaletteTypes ==
  ASSUME TypeOK, Palette
  PROVE  TypeOK'
<1>1. CASE \E at \in Searching, w \in Word : Go(at, w)
  <2>1. PICK at \in Searching, w \in Word : Go(at, w)
    BY <1>1
  <2>2. at \in Pages /\ w \in OrNone(Word)
    BY DEF Pages, Searching, Spinning, OrNone
  <2>3. palette' \in PaletteType
    BY <2>1, PalettesKeepType DEF Go, TypeOK
  <2>. QED BY <2>1, <2>2, <2>3, NavigateTypes DEF Go, TypeOK, Paged, CallsType
<1>2. ASSUME palette' \in PaletteType, UNCHANGED <<page, calls, backend>>
      PROVE  TypeOK'
  BY <1>2 DEF TypeOK, backend
<1>3. palette \in PaletteType
  BY DEF TypeOK
<1>4. CASE OpenPalette
  <2>. DEFINE p == [palette EXCEPT !.open = TRUE, !.query = None,
                                   !.results = NoResult, !.active = 0]
  <2>1. p \in PaletteType
    <3>1. 0 \in 0 .. MaxRows /\ None \in OrNone(Term)
      BY OfficeAssumption DEF OrNone
    <3>2. NoResult \in [of : OrNone(Term), rows : 0 .. MaxRows]
      BY <3>1 DEF NoResult
    <3>. HIDE DEF NoResult
    <3>. QED BY <1>3, <3>1, <3>2 DEF PaletteType
  <2>. QED BY <1>2, <1>4, <2>1, PalettesKeepType DEF OpenPalette
<1>5. CASE ClosePalette
  BY <1>2, <1>3, <1>5, PalettesKeepType DEF ClosePalette
<1>6. CASE SettleQuery
  <2>1. [palette EXCEPT !.term = palette.query] \in PaletteType
    BY <1>3 DEF PaletteType
  <2>. QED BY <1>2, <1>6, <2>1, PalettesKeepType DEF SettleQuery
<1>7. ASSUME NEW w \in Term \cup {None}, TypeQuery(w) PROVE TypeOK'
  <2>1. palette' \in PaletteType
    BY <1>3, <1>7 DEF TypeQuery, PaletteType, OrNone
  <2>. QED BY <1>2, <1>7, <2>1 DEF TypeQuery
<1>8. ASSUME NEW w \in Term, NEW rows \in 0 .. MaxRows, AnswerQuery(w, rows) PROVE TypeOK'
  <2>. DEFINE i == Clamped(palette.active, rows)
  <2>1. i \in 0 .. MaxRows
    BY <1>3, PalettesKeepType DEF PaletteType
  <2>2. palette' = [palette EXCEPT !.asked = palette.asked \ {w}, !.loading = FALSE,
                                   !.results = [of |-> w, rows |-> rows], !.active = i]
    BY <1>8 DEF AnswerQuery
  <2>. HIDE DEF i
  <2>3. palette' \in PaletteType
    BY <1>3, <2>1, <2>2 DEF PaletteType, OrNone
  <2>. QED BY <1>2, <1>8, <2>3 DEF AnswerQuery
<1>9. ASSUME NEW i \in 0 .. MaxRows, MoveActive(i) PROVE TypeOK'
  <2>1. palette' \in PaletteType
    BY <1>3, <1>9 DEF MoveActive, PaletteType
  <2>. QED BY <1>2, <1>9, <2>1 DEF MoveActive
<1>. QED BY <1>1, <1>4, <1>5, <1>6, <1>7, <1>8, <1>9 DEF Palette

LEMMA TypesKept == TypeOK /\ IInv /\ [Next]_vars => TypeOK'
<1>. SUFFICES ASSUME TypeOK, IInv, [Next]_vars PROVE TypeOK'
  OBVIOUS
<1>1. CASE UNCHANGED vars
  BY <1>1 DEF vars, TypeOK
<1>2. ASSUME NEW s \in Slot, Answer(s) \/ CheckEnroll(s) \/ Enroll(s) PROVE TypeOK'
  BY <1>2, AnswerTypes, StoreTypes DEF Answer, IInv
<1>3. ASSUME NEW r \in Row, OnRow(r) PROVE TypeOK'
  BY <1>3, RowTypes, PageTypes DEF OnRow
<1>4. ASSUME NEW w \in OrNone(Word), NEW photo \in BOOLEAN,
             Type(w) \/ NewUser(w) \/ FillForm(w, photo)
      PROVE  TypeOK'
  BY <1>4, PageTypes
<1>5. ASSUME NEW t, SelectTab(t) PROVE TypeOK'
  BY <1>5, ListTypes
<1>6. ASSUME NEW x \in Section, FillSection(x) \/ CreateSetting(x) PROVE TypeOK'
  BY <1>6, PageTypes, AskTypes
<1>7. ASSUME NEW sure, AnswerConfirm(sure) PROVE TypeOK'
  BY <1>7, AskTypes
<1>8. ASSUME \/ Settle \/ SubmitModal \/ CancelModal \/ ToggleForm \/ CreateProduct
             \/ ImportCsv \/ AskFulfillAll \/ DeleteDiscount \/ CancelUser \/ CreateUser
             \/ Deactivate \/ StartEnroll \/ Verify
      PROVE  TypeOK'
  BY <1>8, PageTypes, ListTypes, AskTypes
<1>9. ASSUME NEW at \in Pages, Visit(at) PROVE TypeOK'
  BY <1>9, NavigateTypes DEF Visit, TypeOK, Paged, CallsType, OrNone
<1>10. Palette => TypeOK'
  BY PaletteTypes
<1>. QED BY <1>1, <1>2, <1>3, <1>4, <1>5, <1>6, <1>7, <1>8, <1>9, <1>10
         DEF Next, OrNone

LEMMA InitTypes == Init => TypeOK
<1>. SUFFICES ASSUME Init PROVE TypeOK
  OBVIOUS
<1>1. page \in Paged /\ calls \in CallsType
  BY BlankType DEF Init, Pages, Spinning, OrNone
<1>2. palette \in PaletteType
  BY OfficeAssumption DEF Init, PaletteType, NoResult, OrNone
<1>. QED BY <1>1, <1>2 DEF Init, TypeOK, Paged, CallsType, OrNone

(* What the variables hold, on every page and whatever is answered.        *)
THEOREM OfficeTypeCorrect == Spec => []TypeOK
  BY InitTypes, TypesKept, Inductive, PTL DEF Spec

-----------------------------------------------------------------------------
(* What the owner waits for.                                               *)

(* A call that keeps the spinner turning, or a button disabled.            *)
Serves(c, wait) ==
  /\ c # None
  /\ \/ wait = "loading" /\ c.kind = "list"
     \/ wait = "busy" /\ c.kind \in Marking

Waiting(p) ==
  {w \in {"loading", "busy"} :
     \/ w = "loading" /\ p.loading /\ ~p.stuck
     \/ w = "busy" /\ p.busy # None}

(* Whatever the page waits for, a call is open that will end the wait; and *)
(* a page that has no spinner does not start one, so a list that fails on  *)
(* it leaves nothing turning.                                              *)
Served ==
  /\ page.loading => page.at \in Spinning
  /\ \A w \in Waiting(page) : \E s \in Slot : Serves(calls[s], w)

(* The search of the palette, likewise.                                    *)
PaletteServed == palette.loading => palette.asked # {}

(* A call is made, ended or followed by another: what is waited for now was*)
(* waited for before and that call did not serve it, or the new one does.  *)
LEMMA ServedByCall ==
  ASSUME Served, DOMAIN calls = Slot, NEW r \in Slot, NEW c,
         calls' = [calls EXCEPT ![r] = c], page'.loading => page'.at \in Spinning,
         \A w \in Waiting(page') :
           Serves(c, w) \/ (w \in Waiting(page) /\ ~Serves(calls[r], w))
  PROVE  Served'
<1>. SUFFICES ASSUME NEW w \in Waiting(page')
              PROVE  \E s \in Slot : Serves(calls'[s], w)
  BY DEF Served, Waiting
<1>1. CASE Serves(c, w)
  BY <1>1
<1>2. CASE w \in Waiting(page) /\ ~Serves(calls[r], w)
  <2>1. PICK s \in Slot : Serves(calls[s], w)
    BY <1>2 DEF Served
  <2>. QED BY <1>2, <2>1
<1>. QED BY <1>1, <1>2

(* The spinner and the busy mark of a page are left alone, and its calls.  *)
LEMMA ServedByNone ==
  ASSUME Served, UNCHANGED calls,
         page'.loading = page.loading, page'.stuck = page.stuck, page'.at = page.at,
         page'.busy \in {page.busy, None}
  PROVE  Served'
<1>1. Waiting(page') \subseteq Waiting(page)
  BY DEF Waiting
<1>. QED BY <1>1 DEF Served

(* A call that is made overwrites none that is waited for.                 *)
LEMMA ServedByNew ==
  ASSUME Served, DOMAIN calls = Slot, NEW c, Call(c),
         page'.loading => page'.at \in Spinning,
         \A w \in Waiting(page') : Serves(c, w) \/ w \in Waiting(page)
  PROVE  Served'
<1>1. PICK r \in Slot : calls[r] = None /\ calls' = [calls EXCEPT ![r] = c]
  BY CallSteps
<1>2. \A w : ~Serves(calls[r], w)
  BY <1>1 DEF Serves
<1>. QED BY <1>1, <1>2, ServedByCall

(* A change that was carried out: the list is read again.                  *)
LEMMA ServedByReread ==
  ASSUME TypeOK, Served, NEW s \in Slot, NEW f \in FilterType, NEW b \in BOOLEAN,
         Continue(s, List(f, b)), NEW p, DOMAIN p = PageFields, page' = Reading(p),
         page'.busy # None => page'.busy = page.busy /\ ~Serves(calls[s], "busy")
  PROVE  Served'
<1>1. List(f, b) # None /\ Serves(List(f, b), "loading")
  <2>1. List(f, b) # None
    BY ListType, CallKinds
  <2>. QED BY <2>1 DEF Serves, List
<1>2. page'.loading => page'.at \in Spinning
  BY DEF Reading, PageFields
<1>3. DOMAIN calls = Slot
  BY DEF TypeOK
<1>4. \A w \in Waiting(page') :
        Serves(List(f, b), w) \/ (w \in Waiting(page) /\ ~Serves(calls[s], w))
  BY <1>1 DEF Waiting
<1>. QED BY <1>1, <1>2, <1>3, <1>4, ServedByCall DEF Continue

(* The steps that make no call and end none.                               *)
LEMMA ServedAside ==
  ASSUME TypeOK, Served
  PROVE  /\ \A x : Type(x) \/ NewUser(x) \/ FillSection(x) => Served'
         /\ \A x, y : FillForm(x, y) => Served'
         /\ \A r : StartEditVariant(r) \/ CancelEditVariant(r) \/ OpenModal(r) => Served'
         /\ CancelModal \/ ToggleForm \/ AskFulfillAll => Served'
<1>0. DOMAIN page = PageFields
  BY DEF TypeOK, PageType, PageFields
<1>. USE DEF PageFields
<1>1. ASSUME NEW x, Type(x) PROVE Served'
  BY <1>0, <1>1, ServedByNone DEF Type
<1>2. ASSUME NEW f, page' = [page EXCEPT !.form = f], UNCHANGED calls PROVE Served'
  BY <1>0, <1>2, ServedByNone
<1>3. ASSUME NEW x, NewUser(x) PROVE Served'
  BY <1>2, <1>3, Zenon DEF NewUser
<1>4. ASSUME NEW x, FillSection(x) PROVE Served'
  BY <1>0, <1>4, ServedByNone DEF FillSection
<1>5. ASSUME NEW x, NEW y, FillForm(x, y) PROVE Served'
  BY <1>2, <1>5, Zenon DEF FillForm
<1>6. ASSUME NEW r, StartEditVariant(r) \/ CancelEditVariant(r) \/ OpenModal(r)
      PROVE  Served'
  BY <1>0, <1>6, ServedByNone DEF StartEditVariant, CancelEditVariant, OpenModal
<1>7. ASSUME CancelModal \/ AskFulfillAll PROVE Served'
  BY <1>0, <1>7, ServedByNone DEF CancelModal, AskFulfillAll
<1>8. ASSUME ToggleForm PROVE Served'
  <2>1. page' = [page EXCEPT !.form = [page.form EXCEPT !.shown = ~page.form.shown]]
    BY <1>8, Zenon DEF ToggleForm
  <2>. QED BY <1>2, <1>8, <2>1 DEF ToggleForm
<1>. QED BY <1>1, <1>3, <1>4, <1>5, <1>6, <1>7, <1>8

(* The steps that make one.                                                *)
LEMMA ServedAsks ==
  ASSUME TypeOK, Served
  PROVE  /\ \A t : SelectTab(t) => Served'
         /\ \A r \in Row : Expand(r) \/ SaveVariant(r) \/ Fulfill(r) \/ Void(r) => Served'
         /\ \A x : CreateSetting(x) \/ AnswerConfirm(x) => Served'
         /\ Settle \/ CancelUser \/ SubmitModal \/ CreateProduct \/ ImportCsv
              \/ DeleteDiscount \/ CreateUser \/ Deactivate \/ StartEnroll \/ Verify
              => Served'
<1>0. /\ DOMAIN page = PageFields /\ DOMAIN calls = Slot
      /\ page \in Paged /\ Filter \in FilterType
  BY TypesOf, FilterOfPage DEF TypeOK, PageType, PageFields
<1>. USE DEF PageFields
<1>1. ASSUME NEW c, Call(c), page'.loading = page.loading, page'.stuck = page.stuck,
             page'.at = page.at,
             page'.busy = page.busy \/ page'.busy = None \/ Serves(c, "busy")
      PROVE  Served'
  BY <1>0, <1>1, ServedByNew DEF Waiting, Served
<1>2. ASSUME NEW f \in FilterType, Call(List(f, FALSE)), NEW p, DOMAIN p = PageFields,
             page' = Reading(p) \/ (page' = p /\ p.loading = page.loading
                                      /\ p.at = page.at /\ p.stuck = page.stuck),
             p.busy = page.busy
      PROVE  Served'
  <2>1. Serves(List(f, FALSE), "loading")
    BY ListType, CallKinds DEF Serves, List
  <2>2. page'.loading => page'.at \in Spinning
    BY <1>2 DEF Reading, Served
  <2>3. page'.busy = page.busy
    BY <1>2 DEF Reading
  <2>. QED BY <1>0, <1>2, <2>1, <2>2, <2>3, ServedByNew DEF Waiting
<1>3. ASSUME NEW t, SelectTab(t) PROVE Served'
  <2>1. [tab |-> t, word |-> page.asked] \in FilterType
    BY <1>0, <1>3, PageHolds DEF SelectTab, FilterType, Tabs, OrNone
  <2>2. DOMAIN [page EXCEPT !.tab = t] = PageFields /\ [page EXCEPT !.tab = t].busy = page.busy
    BY <1>0
  <2>. QED BY <1>2, <1>3, <2>1, <2>2 DEF SelectTab
<1>4. ASSUME Settle PROVE Served'
  <2>1. [tab |-> page.tab, word |-> page.search] \in FilterType
    BY <1>0, FilterOfPage
  <2>2. /\ DOMAIN [page EXCEPT !.asked = page.search] = PageFields
        /\ [page EXCEPT !.asked = page.search].busy = page.busy
    BY <1>0
  <2>. QED BY <1>2, <1>4, <2>1, <2>2 DEF Settle
<1>5. ASSUME CancelUser PROVE Served'
  <2>1. page' = [page EXCEPT !.form = NoForm] /\ Call(List(Filter, FALSE))
    BY <1>5 DEF CancelUser
  <2>. QED BY <1>0, <1>1, <2>1
<1>6. ASSUME NEW r, Expand(r) PROVE Served'
  <2>1. CASE UNCHANGED calls
    BY <1>0, <1>6, <2>1, ServedByNone DEF Expand
  <2>2. CASE Call([kind |-> "detail", id |-> r])
    BY <1>0, <1>1, <1>6, <2>2 DEF Expand
  <2>. QED BY <1>6, <2>1, <2>2 DEF Expand
<1>7. ASSUME NEW r, SaveVariant(r) \/ Fulfill(r) PROVE Served'
  BY <1>1, <1>7 DEF SaveVariant, Fulfill
<1>8. ASSUME NEW r \in Row, Void(r) PROVE Served'
  <2>. DEFINE c == [kind |-> "void", id |-> r, filter |-> Filter]
  <2>1. page' = [page EXCEPT !.busy = r] /\ Call(c)
    BY <1>8 DEF Void
  <2>2. c.kind = "void"
    OBVIOUS
  <2>3. c # None
    BY <1>0, OfficeAssumption DEF CallType
  <2>. HIDE DEF c
  <2>. QED BY <1>0, <1>1, <2>1, <2>2, <2>3 DEF Serves, Marking
<1>9. ASSUME NEW x, CreateSetting(x) PROVE Served'
  BY <1>1, <1>9 DEF CreateSetting
<1>10. ASSUME NEW x, AnswerConfirm(x) PROVE Served'
  <2>. DEFINE c == [kind |-> "all", filter |-> Filter]
  <2>1. c \in CallType
    BY <1>0 DEF CallType
  <2>2. Serves(c, "busy")
    BY <2>1, CallKinds DEF Serves, Marking
  <2>3. CASE page' = [page EXCEPT !.confirm = FALSE] /\ UNCHANGED calls
    BY <1>0, <2>3, ServedByNone
  <2>4. CASE page' = [page EXCEPT !.confirm = FALSE, !.busy = "all"] /\ Call(c)
    <3>. HIDE DEF c
    <3>. QED BY <1>0, <1>1, <2>2, <2>4
  <2>. QED BY <1>10, <2>3, <2>4 DEF AnswerConfirm
<1>11. ASSUME SubmitModal PROVE Served'
  <2>. DEFINE c == [kind |-> "modal", id |-> page.modal]
  <2>1. page.modal \in Row
    BY <1>0, <1>11, PageHolds DEF SubmitModal, InModal, OrNone
  <2>2. c \in CallType
    BY <2>1 DEF CallType
  <2>3. Serves(c, "busy")
    BY <2>2, CallKinds DEF Serves, Marking
  <2>4. page' = [page EXCEPT !.busy = page.modal, !.error = FALSE] /\ Call(c)
    BY <1>11 DEF SubmitModal
  <2>. HIDE DEF c
  <2>. QED BY <1>0, <1>1, <2>3, <2>4
<1>12. ASSUME CreateProduct \/ ImportCsv \/ DeleteDiscount \/ CreateUser \/ Deactivate
       PROVE  Served'
  BY <1>1, <1>12 DEF CreateProduct, ImportCsv, DeleteDiscount, CreateUser, Deactivate
<1>13. ASSUME StartEnroll \/ Verify PROVE Served'
  BY <1>0, <1>1, <1>13 DEF StartEnroll, Verify
<1>. QED BY <1>3, <1>4, <1>5, <1>6, <1>7, <1>8, <1>9, <1>10, <1>11, <1>12, <1>13

(* The steps that answer one: the wait ends, or goes on with the next call.*)
LEMMA ServedAnswers ==
  ASSUME TypeOK, IInv, Served, NEW s \in Slot, Answer(s)
  PROVE  Served'
<1>0. /\ DOMAIN page = PageFields /\ DOMAIN calls = Slot
      /\ page.loading => page.at \in Spinning
  BY DEF TypeOK, PageType, PageFields, Served
<1>. USE DEF PageFields
(* The page waits for nothing new, and not for the call that ends.         *)
<1>1. ASSUME NEW c, calls' = [calls EXCEPT ![s] = c],
             page'.at = page.at, page'.loading => page.loading,
             page.stuck => page'.stuck \/ ~page'.loading,
             page'.busy # None => page'.busy = page.busy /\ ~Serves(calls[s], "busy"),
             page'.loading /\ ~page'.stuck => ~Serves(calls[s], "loading")
      PROVE  Served'
  <2>1. \A w \in Waiting(page') : w \in Waiting(page) /\ ~Serves(calls[s], w)
    BY <1>1 DEF Waiting
  <2>. QED BY <1>0, <1>1, <2>1, ServedByCall
<1>2. ASSUME NEW p, DOMAIN p = PageFields, p.busy \in {page.busy, None},
             ~Serves(calls[s], "busy") \/ p.busy = None,
             NEW b \in BOOLEAN, calls[s].filter \in FilterType,
             page' = Reading(p), Continue(s, List(calls[s].filter, b))
      PROVE  Served'
  <2>1. page'.busy # None => page'.busy = page.busy /\ ~Serves(calls[s], "busy")
    BY <1>2 DEF Reading
  <2>. QED BY <1>2, <2>1, ServedByReread
<1>3. CASE AnswerList(s)
  <2>1. ~Serves(calls[s], "busy")
    BY <1>3 DEF AnswerList, Asking, Serves, Marking
  <2>. DEFINE d == IF calls[s].closes THEN None ELSE Ended(page).detail
              q == [[Ended(page) EXCEPT !.listed = calls[s].filter] EXCEPT !.detail = d]
  <2>2. page' \in {q, Failed(page)}
    BY <1>3 DEF AnswerList
  <2>3. /\ q.at = page.at /\ q.busy = page.busy /\ ~q.loading
    <3>. HIDE DEF d
    <3>. QED BY <1>0 DEF Ended
  <2>4. /\ Failed(page).at = page.at /\ Failed(page).busy = page.busy
        /\ Failed(page).loading => page.loading
        /\ page.stuck => Failed(page).stuck \/ ~Failed(page).loading
        /\ Failed(page).loading => Failed(page).stuck
    BY <1>0 DEF Failed, Ended
  <2>. HIDE DEF q
  <2>. QED BY <1>1, <1>3, <2>1, <2>2, <2>3, <2>4 DEF AnswerList, Return
<1>4. CASE AnswerDetail(s) \/ AnswerSaved(s) \/ AnswerEnroll(s) \/ AnswerVerify(s)
  <2>1. ~Serves(calls[s], "busy") /\ ~Serves(calls[s], "loading")
    BY <1>4 DEF AnswerDetail, AnswerSaved, AnswerEnroll, AnswerVerify, Asking, Serves,
                Marking
  <2>2. /\ page'.at = page.at /\ page'.loading = page.loading
        /\ page'.stuck = page.stuck /\ page'.busy = page.busy
    BY <1>0, <1>4 DEF AnswerDetail, AnswerSaved, AnswerEnroll, AnswerVerify
  <2>3. calls' = [calls EXCEPT ![s] = None]
    BY <1>4 DEF AnswerDetail, AnswerSaved, AnswerEnroll, AnswerVerify, Return
  <2>. QED BY <1>1, <2>1, <2>2, <2>3
<1>5. CASE AnswerSave(s)
  <2>1. ~Serves(calls[s], "busy") /\ ~Serves(calls[s], "loading")
    BY <1>5 DEF AnswerSave, Asking, Serves, Marking
  <2>2. UNCHANGED page /\ \E c : calls' = [calls EXCEPT ![s] = c]
    BY <1>5 DEF AnswerSave, Continue, Return
  <2>. QED BY <1>1, <2>1, <2>2
<1>6. CASE AnswerModal(s)
  <2>1. ~Serves(calls[s], "loading")
    BY <1>6 DEF AnswerModal, Asking, Serves
  <2>2. /\ page'.at = page.at /\ page'.loading = page.loading
        /\ page'.stuck = page.stuck /\ page'.busy = None
    BY <1>0, <1>6 DEF AnswerModal
  <2>3. \E c : calls' = [calls EXCEPT ![s] = c]
    BY <1>6 DEF AnswerModal, Continue, Return
  <2>. QED BY <1>1, <2>1, <2>2, <2>3
<1>7. ASSUME UNCHANGED page, NEW c, calls' = [calls EXCEPT ![s] = c],
             NEW kind, Asking(s, kind), kind \notin Marking \cup {"list"}
      PROVE  Served'
  <2>1. ~Serves(calls[s], "busy") /\ ~Serves(calls[s], "loading")
    BY <1>7 DEF Asking, Serves
  <2>. QED BY <1>1, <1>7, <2>1
<1>8. ASSUME NEW stored, Cleared(s, stored), NEW kind \in {"create", "upload"},
             Asking(s, kind)
      PROVE  Served'
  <2>1. calls[s].filter \in FilterType /\ ~Serves(calls[s], "busy")
    BY <1>8, AskedType, CallKinds DEF Asking, Serves, Marking
  <2>. DEFINE f == [NoForm EXCEPT !.photo = page.form.photo /\ ~calls[s].photo]
              p == [page EXCEPT !.form = f]
  <2>2. Reread(s, p) \/ (UNCHANGED page /\ Return(s))
    BY <1>8, Zenon DEF Cleared
  <2>3. DOMAIN p = PageFields /\ p.busy = page.busy
    <3>. HIDE DEF f
    <3>. QED BY <1>0
  <2>. HIDE DEF p
  <2>4. CASE Reread(s, p)
    BY <1>2, <2>1, <2>3, <2>4 DEF Reread
  <2>5. CASE UNCHANGED page /\ Return(s)
    BY <1>7, <1>8, <2>5 DEF Return, Marking
  <2>. QED BY <2>2, <2>4, <2>5
<1>9. CASE AnswerCreate(s)
  <2>1. CASE UNCHANGED page
    BY <1>7, <1>9, <2>1 DEF AnswerCreate, Continue, Return, Marking, Cleared, Reread
  <2>2. CASE Cleared(s, TRUE)
    BY <1>8, <1>9, <2>2 DEF AnswerCreate
  <2>. QED BY <1>9, <2>1, <2>2 DEF AnswerCreate
<1>10. CASE AnswerUpload(s)
  BY <1>8, <1>10 DEF AnswerUpload
<1>11. CASE AnswerImport(s)
  <2>1. calls[s].filter \in FilterType /\ ~Serves(calls[s], "busy")
    BY <1>11, AskedType, CallKinds DEF AnswerImport, Asking, Serves, Marking
  <2>2. CASE Reread(s, page)
    BY <1>0, <1>2, <2>1, <2>2 DEF Reread
  <2>3. CASE UNCHANGED page /\ Return(s)
    BY <1>7, <1>11, <2>3 DEF AnswerImport, Return, Marking
  <2>. QED BY <1>11, <2>2, <2>3 DEF AnswerImport
<1>12. CASE AnswerFulfill(s)
  <2>1. calls[s].filter \in FilterType /\ ~Serves(calls[s], "busy")
    BY <1>12, AskedType, CallKinds DEF AnswerFulfill, Asking, Serves, Marking
  <2>2. CASE page' = Reading(page) /\ Continue(s, List(calls[s].filter, TRUE))
    BY <1>0, <1>2, <2>1, <2>2
  <2>3. CASE UNCHANGED page /\ Return(s)
    BY <1>7, <1>12, <2>3 DEF AnswerFulfill, Return, Marking
  <2>. QED BY <1>12, <2>2, <2>3 DEF AnswerFulfill
<1>13. CASE AnswerAll(s)
  <2>. DEFINE p == [page EXCEPT !.busy = None]
  <2>1. calls[s].filter \in FilterType
    BY <1>13, AskedType, CallKinds DEF AnswerAll
  <2>2. DOMAIN p = PageFields /\ p.busy = None
    BY <1>0
  <2>3. Reread(s, p)
    BY <1>13 DEF AnswerAll
  <2>. HIDE DEF p
  <2>. QED BY <1>2, <2>1, <2>2, <2>3 DEF Reread
<1>14. CASE AnswerSetting(s)
  <2>. DEFINE p == [page EXCEPT !.filled = page.filled \ {calls[s].section}]
  <2>1. calls[s].filter \in FilterType /\ ~Serves(calls[s], "busy")
    BY <1>14, AskedType, CallKinds DEF AnswerSetting, Asking, Serves, Marking
  <2>2. DOMAIN p = PageFields /\ p.busy = page.busy
    BY <1>0
  <2>3. Reread(s, p) \/ (UNCHANGED page /\ Return(s))
    BY <1>14 DEF AnswerSetting
  <2>. HIDE DEF p
  <2>4. CASE Reread(s, p)
    BY <1>2, <2>1, <2>2, <2>4 DEF Reread
  <2>5. CASE UNCHANGED page /\ Return(s)
    BY <1>7, <1>14, <2>5 DEF AnswerSetting, Return, Marking
  <2>. QED BY <2>3, <2>4, <2>5
<1>15. CASE AnswerUser(s)
  <2>. DEFINE f == IF calls[s].creates THEN NoForm ELSE page.form
              p == [page EXCEPT !.form = f]
  <2>1. calls[s].filter \in FilterType /\ ~Serves(calls[s], "busy")
        /\ ~Serves(calls[s], "loading")
    BY <1>15, AskedType, CallKinds DEF AnswerUser, Asking, Serves, Marking
  <2>2. DOMAIN p = PageFields /\ p.busy = page.busy
    <3>. HIDE DEF f
    <3>. QED BY <1>0
  <2>3. Reread(s, p) \/ (page' = [page EXCEPT !.error = TRUE] /\ Return(s))
    BY <1>15, Zenon DEF AnswerUser
  <2>. HIDE DEF p
  <2>4. CASE Reread(s, p)
    BY <1>2, <2>1, <2>2, <2>4 DEF Reread
  <2>5. CASE page' = [page EXCEPT !.error = TRUE] /\ Return(s)
    BY <1>0, <1>1, <2>1, <2>5 DEF Return
  <2>. QED BY <2>3, <2>4, <2>5
<1>16. CASE AnswerVoid(s)
  <2>1. ~Serves(calls[s], "loading")
    BY <1>16 DEF AnswerVoid, Asking, Serves
  <2>2. CASE page' = [page EXCEPT !.busy = None] /\ Return(s)
    BY <1>0, <1>1, <2>1, <2>2 DEF Return
  <2>3. CASE UNCHANGED page /\ Continue(s, [calls[s] EXCEPT !.kind = "voided"])
    <3>. DEFINE c == [calls[s] EXCEPT !.kind = "voided"]
    <3>1. calls[s] \in CallType /\ calls[s].kind = "void"
      BY <1>16, AskedType DEF AnswerVoid
    <3>2. c \in CallType /\ c.kind = "voided"
      BY <3>1, CallKinds DEF CallType
    <3>3. \A w : Serves(calls[s], w) => Serves(c, w)
      BY <3>1, <3>2, CallKinds DEF Serves, Marking
    <3>. HIDE DEF c
    <3>. QED BY <1>0, <2>3, <3>3, ServedByCall DEF c, Continue, Waiting
  <2>. QED BY <1>16, <2>2, <2>3 DEF AnswerVoid
<1>17. CASE AnswerVoided(s)
  <2>1. ~Serves(calls[s], "loading")
    BY <1>17 DEF AnswerVoided, Asking, Serves
  <2>2. /\ page'.at = page.at /\ page'.loading = page.loading
        /\ page'.stuck = page.stuck /\ page'.busy = None
    BY <1>0, <1>17 DEF AnswerVoided
  <2>. QED BY <1>1, <1>17, <2>1, <2>2 DEF AnswerVoided, Return
<1>. QED BY <1>3, <1>4, <1>5, <1>6, <1>9, <1>10, <1>11, <1>12, <1>13, <1>14, <1>15,
            <1>16, <1>17 DEF Answer

(* The backend enrols, and nobody waits for it.                            *)
LEMMA ServedEnrols ==
  ASSUME Served, DOMAIN calls = Slot, NEW s \in Slot, CheckEnroll(s) \/ Enroll(s)
  PROVE  Served'
<1>1. UNCHANGED page /\ \E c : calls' = [calls EXCEPT ![s] = c]
  BY DEF CheckEnroll, Enroll, Continue
<1>2. \A w : ~Serves(calls[s], w)
  BY DEF CheckEnroll, Enroll, LetIn, Asking, Serves, Marking
<1>. QED BY <1>1, <1>2, ServedByCall DEF Waiting, Served

(* A call for a list keeps the spinner turning.                            *)
LEMMA ListServes ==
  ASSUME NEW f \in FilterType, NEW b \in BOOLEAN
  PROVE  Serves(List(f, b), "loading")
<1>1. List(f, b) # None
  BY ListType, CallKinds
<1>. QED BY <1>1 DEF Serves, List

(* A page that is mounted waits for the list it has just asked for.        *)
LEMMA ServedNavigates ==
  ASSUME TypeOK, Served, NEW at \in Pages, NEW w \in OrNone(Word), Navigate(at, w)
  PROVE  Served'
<1>1. CASE At(at)
  <2>1. DOMAIN page = PageFields
    BY DEF TypeOK, PageType, PageFields
  <2>2. /\ page'.loading = page.loading /\ page'.stuck = page.stuck
        /\ page'.at = page.at /\ page'.busy = page.busy
    BY <1>1, <2>1 DEF Navigate, PageFields
  <2>3. UNCHANGED calls
    BY <1>1 DEF Navigate
  <2>. QED BY <2>2, <2>3, ServedByNone
<1>2. CASE ~At(at)
  <2>1. /\ page'.at = at /\ page'.loading = (at \in Spinning) /\ page'.busy = None
        /\ calls' = Open(at, w)
    BY <1>2 DEF Navigate, Blank
  <2>2. 1 \in Slot
    BY OfficeAssumption DEF Slot
  <2>3. at \in Spinning => Serves(Open(at, w)[1], "loading")
    <3>1. ASSUME at \in Spinning
          PROVE  Open(at, w)[1] = List([tab |-> FirstTab(at), word |-> w], FALSE)
      BY <2>2, <3>1 DEF Open, Spinning
    <3>2. [tab |-> FirstTab(at), word |-> w] \in FilterType
      BY DEF FilterType, FirstTab, OrNone
    <3>. QED BY <3>1, <3>2, ListServes
  <2>. QED BY <2>1, <2>2, <2>3 DEF Served, Waiting
<1>. QED BY <1>1, <1>2

LEMMA PaletteServedKept ==
  ASSUME TypeOK, Served, PaletteServed, Palette
  PROVE  Served' /\ PaletteServed'
<1>. USE DEF PaletteServed
<1>0. DOMAIN palette = {"open", "query", "term", "asked", "loading", "results", "active"}
  BY DEF TypeOK, PaletteType
<1>1. ASSUME UNCHANGED <<page, calls, backend>> PROVE Served'
  BY <1>1 DEF Served, Waiting
<1>2. ASSUME NEW p, DOMAIN p = DOMAIN palette,
             palette' = Restarted(p) \/ palette' = Closed(p)
      PROVE  PaletteServed'
  <2>1. CASE palette' = Restarted(p)
    <3>1. /\ palette'.loading = (p.term # None)
          /\ palette'.asked = IF p.term = None THEN {} ELSE {p.term}
      BY <1>0, <1>2, <2>1 DEF Restarted
    <3>. QED BY <3>1
  <2>2. CASE palette' = Closed(p)
    <3>1. palette'.loading = FALSE
      BY <1>0, <1>2, <2>2 DEF Closed
    <3>. QED BY <3>1
  <2>. QED BY <1>2, <2>1, <2>2
<1>3. CASE \E at \in Searching, w \in Word : Go(at, w)
  <2>1. PICK at \in Searching, w \in Word : Go(at, w)
    BY <1>3
  <2>2. at \in Pages /\ w \in OrNone(Word)
    BY DEF Pages, Searching, Spinning, OrNone
  <2>. QED BY <1>2, <2>1, <2>2, ServedNavigates DEF Go
<1>4. CASE OpenPalette
  <2>. DEFINE p == [palette EXCEPT !.open = TRUE, !.query = None,
                                   !.results = NoResult, !.active = 0]
  <2>1. DOMAIN p = DOMAIN palette
    OBVIOUS
  <2>2. palette' = Restarted(p)
    BY <1>4 DEF OpenPalette
  <2>. HIDE DEF p
  <2>. QED BY <1>1, <1>2, <1>4, <2>1, <2>2 DEF OpenPalette
<1>5. CASE ClosePalette
  BY <1>1, <1>2, <1>5 DEF ClosePalette
<1>6. CASE SettleQuery
  <2>1. DOMAIN [palette EXCEPT !.term = palette.query] = DOMAIN palette
    OBVIOUS
  <2>. QED BY <1>1, <1>2, <1>6, <2>1 DEF SettleQuery
<1>7. ASSUME NEW w, TypeQuery(w) PROVE Served' /\ PaletteServed'
  BY <1>0, <1>1, <1>7 DEF TypeQuery
<1>8. ASSUME NEW w, NEW rows, AnswerQuery(w, rows) PROVE Served' /\ PaletteServed'
  BY <1>0, <1>1, <1>8 DEF AnswerQuery
<1>9. ASSUME NEW i, MoveActive(i) PROVE Served' /\ PaletteServed'
  BY <1>0, <1>1, <1>9 DEF MoveActive
<1>. QED BY <1>3, <1>4, <1>5, <1>6, <1>7, <1>8, <1>9 DEF Palette

LEMMA ServedKept ==
  TypeOK /\ IInv /\ Served /\ PaletteServed /\ [Next]_vars => Served' /\ PaletteServed'
<1>. SUFFICES ASSUME TypeOK, IInv, Served, PaletteServed, [Next]_vars
              PROVE  Served' /\ PaletteServed'
  OBVIOUS
<1>1. CASE Palette
  BY <1>1, PaletteServedKept
<1>2. CASE ~Palette
  <2>1. PaletteServed'
    BY <1>2, OthersLeavePalette DEF PaletteServed
  <2>2. ASSUME UNCHANGED vars PROVE Served'
    BY <2>2 DEF vars, Served, Waiting
  <2>3. ASSUME NEW s \in Slot, Answer(s) \/ CheckEnroll(s) \/ Enroll(s) PROVE Served'
    BY <2>3, ServedAnswers, ServedEnrols DEF TypeOK
  <2>4. ASSUME NEW r \in Row, OnRow(r) PROVE Served'
    BY <2>4, ServedAside, ServedAsks DEF OnRow
  <2>5. ASSUME NEW x, NEW y, \/ Type(x) \/ NewUser(x) \/ FillForm(x, y)
                             \/ FillSection(x) \/ SelectTab(x) \/ CreateSetting(x)
                             \/ AnswerConfirm(x)
        PROVE  Served'
    BY <2>5, ServedAside, ServedAsks
  <2>6. ASSUME \/ Settle \/ SubmitModal \/ CancelModal \/ ToggleForm \/ CreateProduct
               \/ ImportCsv \/ AskFulfillAll \/ DeleteDiscount \/ CancelUser
               \/ CreateUser \/ Deactivate \/ StartEnroll \/ Verify
        PROVE  Served'
    BY <2>6, ServedAside, ServedAsks
  <2>7. ASSUME NEW at \in Pages, Visit(at) PROVE Served'
    BY <2>7, ServedNavigates DEF Visit, OrNone
  <2>. QED BY <1>2, <2>1, <2>2, <2>3, <2>4, <2>5, <2>6, <2>7 DEF Next
<1>. QED BY <1>1, <1>2

LEMMA ServedAtFirst == Init => Served /\ PaletteServed
<1>. SUFFICES ASSUME Init PROVE Served /\ PaletteServed
  OBVIOUS
<1>1. 1 \in Slot
  BY OfficeAssumption DEF Slot
<1>2. calls[1] = List([tab |-> FirstTab("analytics"), word |-> None], FALSE)
  BY <1>1 DEF Init, Open
<1>3. [tab |-> FirstTab("analytics"), word |-> None] \in FilterType
  BY DEF FilterType, FirstTab, OrNone
<1>4. Serves(calls[1], "loading")
  BY <1>2, <1>3, ListServes
<1>5. page.at \in Spinning /\ page.busy = None
  BY DEF Init, Blank, Spinning
<1>. QED BY <1>1, <1>4, <1>5 DEF Init, Served, Waiting, PaletteServed

(* A spinner turns, and a button is disabled, only while a call of this    *)
(* page is open, in whatever order the calls are answered and however many *)
(* are open, or after a read that failed and that nothing catches; and the *)
(* palette searches only while an answer is awaited that counts.           *)
THEOREM NoEndlessSpinner == Spec => []WaitsForCall
<1>1. Served /\ PaletteServed => WaitsForCall
  <2>. SUFFICES ASSUME Served, PaletteServed PROVE WaitsForCall
    OBVIOUS
  <2>1. page.loading /\ ~page.stuck => \E s \in Slot : Serves(calls[s], "loading")
    BY DEF Served, Waiting
  <2>2. page.busy # None => \E s \in Slot : Serves(calls[s], "busy")
    BY DEF Served, Waiting
  <2>. QED BY <2>1, <2>2 DEF WaitsForCall, PaletteServed, Serves, Asking, Marking
<1>. QED BY <1>1, ServedAtFirst, ServedKept, OfficeTypeCorrect, Inductive, PTL DEF Spec
=============================================================================
