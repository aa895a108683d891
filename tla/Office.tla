------------------------------- MODULE Office -------------------------------
(***************************************************************************)
(* The admin frontend (admin/src) of a signed-in owner: its pages, of which*)
(* one is mounted at a time, and the command palette above them.  An action*)
(* is one event of the browser: a click, a timer, or the answer to a call. *)
(*                                                                         *)
(* A call is carried out when it is answered, except that a second factor  *)
(* is enrolled some time before, in two steps.  The answer to a call of a  *)
(* page that was left changes no page.  What the backend holds is followed *)
(* while the page that works on it is mounted; meanwhile it changes as it  *)
(* likes: a call of a page that was left, or another admin, may do so.     *)
(* A product has one variant, and a list shows all rows: which of them a   *)
(* search selects does not matter here, only which search was answered.    *)
(***************************************************************************)
EXTENDS Naturals, FiniteSets

CONSTANTS Row,      \* the products, the orders, the customers, the sales, ...
          Word,     \* what is typed: a search, the handle of a new product
          Term,     \* what is typed into the palette
          Secret,   \* secrets of the second factor
          MaxCalls, \* bound on the calls that are open at once
          MaxRows,  \* bound on the results of the palette
          None

Section == {"tax", "shipping", "discount"}

Slot == 1 .. MaxCalls

OrNone(S) == S \cup {None}

FilterType ==
  [tab : OrNone({"unfulfilled", "fulfilled", "1d", "7d"}), word : OrNone(Word)]

CallType ==
       [kind : {"list"}, filter : FilterType, closes : BOOLEAN]
  \cup [kind : {"detail", "saved", "modal"}, id : Row]
  \cup [kind : {"save"}, id : Row, of : Row, open : Row]
  \cup [kind : {"create", "upload"}, id : Word, photo : BOOLEAN,
        filter : FilterType]
  \cup [kind : {"import", "all"}, filter : FilterType]
  \cup [kind : {"fulfill", "void", "voided"}, id : Row,
        filter : FilterType]
  \cup [kind : {"setting"}, section : OrNone(Section),
        filter : FilterType]
  \cup [kind : {"user"}, creates : BOOLEAN, filter : FilterType]
  \cup [kind : {"enroll"}, free : BOOLEAN, secret : OrNone(Secret)]
  \cup [kind : {"verify"}]

ASSUME OfficeAssumption ==
  /\ MaxRows \in Nat /\ MaxCalls \in Nat \ {0}
  /\ None \notin Row \cup Word \cup Term \cup Secret \cup CallType
  /\ None # "all"

VARIABLES
  page,     \* the mounted page and its state
  calls,    \* [Slot -> a call that is not answered yet, or None]
  palette,  \* the command palette
  catalog,  \* the handles of the products that were created
  photos,   \* those of them that have a photo
  mfa,      \* the secret the backend checks codes against
  raced     \* two enrolments were let in before either had stored its secret

vars == <<page, calls, palette, catalog, photos, mfa, raced>>

backend == <<catalog, photos, mfa, raced>>

(* Pages that show a spinner in place of a list they are reading.          *)
Spinning == {"products", "orders", "customers", "settings", "analytics"}

(* Pages on which the spinner stops after a failure, too ("finally").      *)
Recovering == {"customers", "analytics"}

Searching == {"products", "orders", "customers"}

Pages == Spinning \cup {"users", "sales", "security"}

FirstTab(at) == CASE at = "orders"    -> "unfulfilled"
                  [] at = "analytics" -> "1d"
                  [] OTHER            -> None

FormType == [shown : BOOLEAN, handle : OrNone(Word), photo : BOOLEAN]

PageType ==
  [at : Pages, url : OrNone(Word), search : OrNone(Word), asked : OrNone(Word),
   tab : OrNone({"unfulfilled", "fulfilled", "1d", "7d"}),
   loading : BOOLEAN, stuck : BOOLEAN, error : BOOLEAN,
   listed : OrNone(FilterType), open : OrNone(Row), detail : OrNone(Row),
   draft : OrNone([id : Row, of : Row]), modal : OrNone(Row), form : FormType,
   filled : SUBSET Section, confirm : BOOLEAN, busy : OrNone(Row \cup {"all"}),
   phase : {"idle", "enrolled", "verified"}, secret : OrNone(Secret)]

PaletteType ==
  [open : BOOLEAN, query : OrNone(Term), term : OrNone(Term),
   asked : SUBSET Term, loading : BOOLEAN,
   results : [of : OrNone(Term), rows : 0 .. MaxRows], active : 0 .. MaxRows]

NoForm == [shown |-> FALSE, handle |-> None, photo |-> FALSE]

(* The state every page starts with; a page leaves alone what is not its.  *)
Blank(at, w) ==
  [at |-> at, url |-> w, search |-> w, asked |-> w, tab |-> FirstTab(at),
   loading |-> at \in Spinning, stuck |-> FALSE, error |-> FALSE,
   listed |-> None, open |-> None, detail |-> None,
   draft |-> None, modal |-> None, form |-> NoForm, filled |-> {},
   confirm |-> FALSE, busy |-> None, phase |-> "idle", secret |-> None]

At(where) == page.at = where

(* A dialog, or the palette, covers the page.                              *)
Covered == page.modal # None \/ page.confirm \/ palette.open

-----------------------------------------------------------------------------
(* Calls.                                                                  *)

Free(cs) == {s \in Slot : cs[s] = None}

Made(cs, c) == [cs EXCEPT ![CHOOSE s \in Free(cs) : TRUE] = c]

Call(c) == Free(calls) # {} /\ calls' = Made(calls, c)

Return(s) == calls' = [calls EXCEPT ![s] = None]

(* The handler goes on to its next call.                                   *)
Continue(s, c) == calls' = [calls EXCEPT ![s] = c]

Asking(s, kind) == calls[s] # None /\ calls[s].kind = kind

(* What a list is read for, with what the page shows now: the products are *)
(* listed for the text in the field, the others for the settled one.       *)
Filter ==
  [tab |-> page.tab, word |-> IF At("products") THEN page.search ELSE page.asked]

List(f, closes) == [kind |-> "list", filter |-> f, closes |-> closes]

Reading(p) == [p EXCEPT !.loading = p.at \in Spinning]

(* A change that is carried out is followed by a read of the list, for what*)
(* was selected when the change was asked for.                             *)
Reread(s, p) ==
  page' = Reading(p) /\ Continue(s, List(calls[s].filter, FALSE))

-----------------------------------------------------------------------------
(* Lists, searches, and the rows that are opened.                          *)

Ended(p) == [p EXCEPT !.loading = FALSE, !.stuck = FALSE]

(* Mutant of Failed: the spinner stops after an answer that is well only.  *)
FailedSilently(p) ==
  IF p.at \in Spinning \ Recovering THEN [p EXCEPT !.stuck = TRUE]
  ELSE IF p.at \in Recovering THEN p ELSE [p EXCEPT !.error = TRUE]

(* Not every page catches a failure.                                       *)
Failed(p) ==
  IF p.at \in Recovering THEN Ended(p)
  ELSE IF p.at \in Spinning THEN [p EXCEPT !.stuck = TRUE]
  ELSE [p EXCEPT !.error = TRUE]

AnswerList(s) ==
  LET c == calls[s] IN
  /\ Asking(s, "list")
  /\ page' \in {[Ended(page) EXCEPT !.listed = c.filter,
                                    !.detail = IF c.closes THEN None ELSE @],
                Failed(page)}
  /\ Return(s)
  /\ UNCHANGED <<palette, backend>>

(* Bound: on the page of products, a search, the rows and the form are not *)
(* used side by side; they share nothing but the calls.                    *)
Apart ==
  /\ page.form = NoForm /\ catalog = {}
  /\ \A s \in Slot : ~Asking(s, "create") /\ ~Asking(s, "upload")

NothingOpen ==
  /\ page.search = page.asked
  /\ page.open = None /\ page.detail = None /\ page.draft = None

Type(w) ==
  /\ page.at \in Searching /\ ~Covered /\ w # page.search
  /\ At("products") => page.open = None /\ page.draft = None /\ Apart
  /\ page' = [page EXCEPT !.search = w]
  /\ UNCHANGED <<calls, palette, backend>>

(* 300 ms after the last key.                                              *)
Settle ==
  /\ page.at \in Searching /\ page.search # page.asked
  /\ page' = Reading([page EXCEPT !.asked = page.search])
  /\ Call(List([tab |-> page.tab, word |-> page.search], FALSE))
  /\ UNCHANGED <<palette, backend>>

Tabs(at) == CASE at = "orders"    -> {"unfulfilled", "fulfilled"}
              [] at = "analytics" -> {"1d", "7d"}
              [] OTHER            -> {}

(* Mutant of SelectTab: any tab, on any page.                              *)
SelectTabAnywhere(t) ==
  /\ ~Covered /\ t # page.tab
  /\ page' = Reading([page EXCEPT !.tab = t])
  /\ Call(List([tab |-> t, word |-> page.asked], FALSE))
  /\ UNCHANGED <<palette, backend>>

(* A call that is open for the tab before goes on.                         *)
SelectTab(t) ==
  /\ ~Covered /\ t \in Tabs(page.at) \ {page.tab}
  /\ page' = Reading([page EXCEPT !.tab = t])
  /\ Call(List([tab |-> t, word |-> page.asked], FALSE))
  /\ UNCHANGED <<palette, backend>>

ShowsRows == ~Covered /\ ~page.loading /\ page.listed # None

(* On the page of orders a row is open when its order is there; on the     *)
(* others it is open at once, over the details of the row before.          *)
Expand(r) ==
  /\ ShowsRows /\ page.at \in Searching /\ Apart
  /\ IF r \in {page.open, IF At("orders") THEN page.detail ELSE None}
     THEN /\ page' = [page EXCEPT !.open = None,
                        !.detail = IF At("customers") THEN @ ELSE None]
          /\ UNCHANGED calls
     ELSE /\ page' = [page EXCEPT !.open = IF At("orders") THEN None ELSE r]
          /\ Call([kind |-> "detail", id |-> r])
  /\ UNCHANGED <<palette, backend>>

AnswerDetail(s) ==
  /\ Asking(s, "detail")
  /\ page' \in {page, [page EXCEPT !.detail = calls[s].id]}
  /\ Return(s)
  /\ UNCHANGED <<palette, backend>>

-----------------------------------------------------------------------------
(* Products: a variant is edited in its row, or in a dialog.               *)

(* The variants under the open row are those of the product that was read  *)
(* last, not always of the row.                                            *)
ShowsVariant(r) ==
  At("products") /\ ShowsRows /\ page.open # None /\ page.detail = r

(* Mutant of Drafted: what was typed before is not thrown away.            *)
DraftedOver(r) == IF page.draft = None THEN [id |-> r, of |-> r]
                                       ELSE [page.draft EXCEPT !.id = r]

Drafted(r) == [id |-> r, of |-> r]

Editing(r) == page.draft # None /\ page.draft.id = r

StartEditVariant(r) ==
  /\ ShowsVariant(r) /\ ~Editing(r)
  /\ page' = [page EXCEPT !.draft = Drafted(r)]
  /\ UNCHANGED <<calls, palette, backend>>

CancelEditVariant(r) ==
  /\ ShowsVariant(r) /\ Editing(r)
  /\ page' = [page EXCEPT !.draft = None]
  /\ UNCHANGED <<calls, palette, backend>>

(* The button is not disabled while a variant is being saved.              *)
SaveVariant(r) ==
  /\ ShowsVariant(r) /\ Editing(r)
  /\ Call([kind |-> "save", id |-> r, of |-> page.draft.of,
           open |-> page.open])
  /\ UNCHANGED <<page, palette, backend>>

(* Then the product is read again, and the edit that is open is closed.    *)
AnswerSave(s) ==
  /\ Asking(s, "save")
  /\ \/ Continue(s, [kind |-> "saved", id |-> calls[s].open])
     \/ Return(s)
  /\ UNCHANGED <<page, palette, backend>>

AnswerSaved(s) ==
  /\ Asking(s, "saved")
  /\ page' \in {page, [page EXCEPT !.detail = calls[s].id, !.draft = None]}
  /\ Return(s)
  /\ UNCHANGED <<palette, backend>>

OpenModal(r) ==
  /\ ShowsVariant(r) /\ ~Editing(r)
  /\ page' = [page EXCEPT !.modal = r]
  /\ UNCHANGED <<calls, palette, backend>>

InModal == page.modal # None /\ ~palette.open

(* Mutant of Idle: the buttons stay enabled while a call is open.          *)
IdleAlways == TRUE

Idle == page.busy = None

SubmitModal ==
  /\ InModal /\ Idle
  /\ page' = [page EXCEPT !.busy = page.modal, !.error = FALSE]
  /\ Call([kind |-> "modal", id |-> page.modal])
  /\ UNCHANGED <<palette, backend>>

CancelModal ==
  /\ InModal /\ page.busy = None
  /\ page' = [page EXCEPT !.modal = None]
  /\ UNCHANGED <<calls, palette, backend>>

AnswerModal(s) ==
  /\ Asking(s, "modal")
  /\ \/ /\ page' = [page EXCEPT !.modal = None, !.busy = None]
        /\ IF page.open = None THEN Return(s)
           ELSE Continue(s, [kind |-> "detail", id |-> page.open])
     \/ /\ page' = [page EXCEPT !.busy = None, !.error = TRUE]
        /\ Return(s)
  /\ UNCHANGED <<palette, backend>>

-----------------------------------------------------------------------------
(* Products: a product is created, with or without a photo.                *)

InForm == At("products") /\ ~Covered /\ page.form.shown

(* "+ Add Product" and "Cancel": what was typed stays.                     *)
ToggleForm ==
  /\ At("products") /\ ~Covered
  /\ Apart => NothingOpen /\ Free(calls) = Slot
  /\ page' = [page EXCEPT !.form.shown = ~@]
  /\ UNCHANGED <<calls, palette, backend>>

FillForm(w, photo) ==
  /\ InForm /\ page.form # [shown |-> TRUE, handle |-> w, photo |-> photo]
  /\ page' = [page EXCEPT !.form = [shown |-> TRUE, handle |-> w, photo |-> photo]]
  /\ UNCHANGED <<calls, palette, backend>>

CreateProduct ==
  /\ InForm /\ page.form.handle # None
  /\ Call([kind |-> "create", id |-> page.form.handle,
           photo |-> page.form.photo, filter |-> Filter])
  /\ UNCHANGED <<page, palette, backend>>

(* Mutant of Cleared: a photo that cannot be stored is given up.           *)
ClearedAnyhow(s, stored) == Reread(s, [page EXCEPT !.form = NoForm])

(* The form is emptied, whatever is in it by now, and closed.              *)
Cleared(s, stored) ==
  IF stored
  THEN Reread(s, [page EXCEPT !.form = [NoForm EXCEPT !.photo = page.form.photo /\ ~calls[s].photo]])
  ELSE UNCHANGED page /\ Return(s)

(* A handle is given once.  The answer to a call that was carried out may  *)
(* be lost.                                                                *)
AnswerCreate(s) ==
  LET c == calls[s] IN
  /\ Asking(s, "create")
  /\ \/ /\ c.id \notin catalog /\ catalog' = catalog \cup {c.id}
        /\ \/ /\ c.photo /\ UNCHANGED page
              /\ Continue(s, [c EXCEPT !.kind = "upload"])
           \/ ~c.photo /\ Cleared(s, TRUE)
           \/ UNCHANGED page /\ Return(s)
     \/ UNCHANGED <<page, catalog>> /\ Return(s)
  /\ UNCHANGED <<palette, photos, mfa, raced>>

AnswerUpload(s) ==
  /\ Asking(s, "upload")
  /\ \/ /\ photos' = photos \cup {calls[s].id}
        /\ Cleared(s, TRUE) \/ Cleared(s, FALSE)
     \/ UNCHANGED photos /\ Cleared(s, FALSE)
  /\ UNCHANGED <<palette, catalog, mfa, raced>>

(* What a file brings in is not followed; the list is read again.          *)
ImportCsv ==
  /\ At("products") /\ ~Covered
  /\ Call([kind |-> "import", filter |-> Filter])
  /\ UNCHANGED <<page, palette, backend>>

AnswerImport(s) ==
  /\ Asking(s, "import")
  /\ Reread(s, page) \/ (UNCHANGED page /\ Return(s))
  /\ UNCHANGED <<palette, backend>>

-----------------------------------------------------------------------------
(* Orders.  A fulfilment that is created leaves the status of its order as *)
(* it is (create_fulfillment), so the lists do not change.                 *)

Fulfill(r) ==
  /\ At("orders") /\ ShowsRows /\ page.detail = r
  /\ Call([kind |-> "fulfill", id |-> r, filter |-> Filter])
  /\ UNCHANGED <<page, palette, backend>>

AnswerFulfill(s) ==
  /\ Asking(s, "fulfill")
  /\ \/ page' = Reading(page) /\ Continue(s, List(calls[s].filter, TRUE))
     \/ UNCHANGED page /\ Return(s)
  /\ UNCHANGED <<palette, backend>>

(* The button counts the rows of the list read last, also while another is *)
(* being read.                                                             *)
AskFulfillAll ==
  /\ At("orders") /\ ~Covered /\ page.tab = "unfulfilled"
  /\ page.listed # None /\ Idle
  /\ page' = [page EXCEPT !.confirm = TRUE]
  /\ UNCHANGED <<calls, palette, backend>>

AnswerConfirm(sure) ==
  /\ page.confirm /\ ~palette.open
  /\ IF sure
     THEN /\ page' = [page EXCEPT !.confirm = FALSE, !.busy = "all"]
          /\ Call([kind |-> "all", filter |-> Filter])
     ELSE page' = [page EXCEPT !.confirm = FALSE] /\ UNCHANGED calls
  /\ UNCHANGED <<palette, backend>>

(* When the last of the orders is answered, well or not.                   *)
AnswerAll(s) ==
  /\ Asking(s, "all")
  /\ Reread(s, [page EXCEPT !.busy = None])
  /\ UNCHANGED <<palette, backend>>

-----------------------------------------------------------------------------
(* Settings: three forms, of which those in "filled" can be sent.          *)

InSettings == At("settings") /\ ~Covered /\ ~page.loading

FillSection(x) ==
  /\ InSettings
  /\ page' = [page EXCEPT !.filled = IF x \in @ THEN @ \ {x} ELSE @ \cup {x}]
  /\ UNCHANGED <<calls, palette, backend>>

CreateSetting(x) ==
  /\ InSettings /\ x \in page.filled
  /\ Call([kind |-> "setting", section |-> x, filter |-> Filter])
  /\ UNCHANGED <<page, palette, backend>>

(* Deleting empties no form.                                               *)
DeleteDiscount ==
  /\ InSettings
  /\ Call([kind |-> "setting", section |-> None, filter |-> Filter])
  /\ UNCHANGED <<page, palette, backend>>

AnswerSetting(s) ==
  /\ Asking(s, "setting")
  /\ \/ Reread(s, [page EXCEPT !.filled = @ \ {calls[s].section}])
     \/ UNCHANGED page /\ Return(s)
  /\ UNCHANGED <<palette, backend>>

-----------------------------------------------------------------------------
(* Users and sales.                                                        *)

NewUser(w) ==
  /\ At("users") /\ ~Covered
  /\ page' = [page EXCEPT !.form = [NoForm EXCEPT !.shown = TRUE, !.handle = w]]
  /\ page' # page
  /\ UNCHANGED <<calls, palette, backend>>

CancelUser ==
  /\ At("users") /\ ~Covered /\ page.form.shown
  /\ page' = [page EXCEPT !.form = NoForm]
  /\ Call(List(Filter, FALSE))
  /\ UNCHANGED <<palette, backend>>

CreateUser ==
  /\ At("users") /\ ~Covered /\ page.form.handle # None
  /\ Call([kind |-> "user", creates |-> TRUE, filter |-> Filter])
  /\ UNCHANGED <<page, palette, backend>>

Deactivate ==
  /\ At("users") /\ ShowsRows
  /\ Call([kind |-> "user", creates |-> FALSE, filter |-> Filter])
  /\ UNCHANGED <<page, palette, backend>>

AnswerUser(s) ==
  /\ Asking(s, "user")
  /\ \/ Reread(s, [page EXCEPT !.form = IF calls[s].creates THEN NoForm ELSE @])
     \/ page' = [page EXCEPT !.error = TRUE] /\ Return(s)
  /\ UNCHANGED <<palette, backend>>

(* One sale at a time is marked as busy: the last one.                     *)
Void(r) ==
  /\ At("sales") /\ ShowsRows /\ page.busy # r
  /\ page' = [page EXCEPT !.busy = r]
  /\ Call([kind |-> "void", id |-> r, filter |-> Filter])
  /\ UNCHANGED <<palette, backend>>

(* The mark stays until the list is there ("finally").                     *)
AnswerVoid(s) ==
  /\ Asking(s, "void")
  /\ \/ UNCHANGED page
        /\ Continue(s, [calls[s] EXCEPT !.kind = "voided"])
     \/ page' = [page EXCEPT !.busy = None] /\ Return(s)
  /\ UNCHANGED <<palette, backend>>

AnswerVoided(s) ==
  /\ Asking(s, "voided")
  /\ page' \in {[page EXCEPT !.busy = None, !.listed = calls[s].filter],
                [page EXCEPT !.busy = None, !.error = TRUE]}
  /\ Return(s)
  /\ UNCHANGED <<palette, backend>>

-----------------------------------------------------------------------------
(* Security: the second factor of the account.                             *)

StartEnroll ==
  /\ At("security") /\ ~Covered /\ page.phase = "idle"
  /\ page' = [page EXCEPT !.error = FALSE]
  /\ Call([kind |-> "enroll", free |-> FALSE, secret |-> None])
  /\ UNCHANGED <<palette, backend>>

(* Mutant of CanEnroll: who is enrolled already may enroll again.          *)
CanEnrollAgain == TRUE

CanEnroll == mfa = None

LetIn(s) == Asking(s, "enroll") /\ calls[s].free /\ calls[s].secret = None

(* The backend reads whether the account is enrolled, and stores a secret  *)
(* later: in between another request may read the same.                    *)
CheckEnroll(s) ==
  /\ Asking(s, "enroll") /\ ~calls[s].free
  /\ CanEnroll
  /\ raced' = (raced \/ \E r \in Slot : LetIn(r))
  /\ Continue(s, [calls[s] EXCEPT !.free = TRUE])
  /\ UNCHANGED <<page, palette, catalog, photos, mfa>>

Enroll(s) ==
  /\ LetIn(s)
  /\ \E x \in Secret \ {mfa} :
       /\ mfa' = x
       /\ Continue(s, [calls[s] EXCEPT !.secret = x])
  /\ UNCHANGED <<page, palette, catalog, photos, raced>>

AnswerEnroll(s) ==
  LET c == calls[s] IN
  /\ Asking(s, "enroll")
  /\ \/ /\ c.secret # None
        /\ page' = [page EXCEPT !.secret = c.secret, !.phase = "enrolled"]
     \/ page' = [page EXCEPT !.error = TRUE]
  /\ Return(s)
  /\ UNCHANGED <<palette, backend>>

Verify ==
  /\ At("security") /\ ~Covered /\ page.phase = "enrolled"
  /\ page' = [page EXCEPT !.error = FALSE]
  /\ Call([kind |-> "verify"])
  /\ UNCHANGED <<palette, backend>>

(* The code is that of the secret that is shown.                           *)
AnswerVerify(s) ==
  /\ Asking(s, "verify")
  /\ \/ page.secret = mfa /\ page' = [page EXCEPT !.phase = "verified"]
     \/ page' = [page EXCEPT !.error = TRUE]
  /\ Return(s)
  /\ UNCHANGED <<palette, backend>>

-----------------------------------------------------------------------------
(* The command palette.  "asked" holds the searches whose answer counts.   *)

NoResult == [of |-> None, rows |-> 0]

(* Bound: the palette is opened over a page that waits for nothing and has *)
(* nothing open.                                                           *)
Quiet == Free(calls) = Slot /\ ~Covered /\ NothingOpen /\ Apart

(* Mutant of Clamped: the mark stays where it is.                          *)
ClampedNot(i, rows) == i

Clamped(i, rows) == IF i < rows THEN i ELSE IF rows = 0 THEN 0 ELSE rows - 1

(* Mutant of Restarted: an answer is not cancelled by the next search.     *)
RestartedAll(p) ==
  [p EXCEPT !.loading = p.term # None,
            !.asked = IF p.term = None THEN @ ELSE @ \cup {p.term},
            !.results = IF p.term = None THEN NoResult ELSE @,
            !.active = IF p.term = None THEN Clamped(@, 0) ELSE @]

(* The effect of a new term.                                               *)
Restarted(p) ==
  [p EXCEPT !.loading = p.term # None,
            !.asked = IF p.term = None THEN {} ELSE {p.term},
            !.results = IF p.term = None THEN NoResult ELSE @,
            !.active = IF p.term = None THEN Clamped(@, 0) ELSE @]

OpenPalette ==
  /\ Quiet
  /\ palette' = Restarted([palette EXCEPT !.open = TRUE, !.query = None,
                                          !.results = NoResult, !.active = 0])
  /\ UNCHANGED <<page, calls, backend>>

(* The rows are thrown away when the palette opens again: here at once.    *)
Closed(p) == [p EXCEPT !.open = FALSE, !.asked = {},
                       !.results = NoResult, !.active = 0, !.loading = FALSE]

(* Bound: it is closed when the last key has been heard of.                *)
ClosePalette ==
  /\ palette.open /\ palette.query = palette.term
  /\ palette' = Closed(palette)
  /\ UNCHANGED <<page, calls, backend>>

TypeQuery(w) ==
  /\ palette.open /\ w # palette.query
  /\ palette' = [palette EXCEPT !.query = w]
  /\ UNCHANGED <<page, calls, backend>>

(* 200 ms after the last key.                                              *)
SettleQuery ==
  /\ palette.query # palette.term
  /\ palette' = Restarted([palette EXCEPT !.term = palette.query])
  /\ UNCHANGED <<page, calls, backend>>

(* Three searches; those that fail have no rows.                           *)
AnswerQuery(w, rows) ==
  /\ palette.open /\ w \in palette.asked
  /\ palette' = [palette EXCEPT !.asked = @ \ {w}, !.loading = FALSE,
                                !.results = [of |-> w, rows |-> rows],
                                !.active = Clamped(@, rows)]
  /\ UNCHANGED <<page, calls, backend>>

(* With the arrow keys or the mouse.                                       *)
MoveActive(i) ==
  /\ palette.open /\ i < palette.results.rows /\ i # palette.active
  /\ palette' = [palette EXCEPT !.active = i]
  /\ UNCHANGED <<page, calls, backend>>

-----------------------------------------------------------------------------
(* Going from page to page.                                                *)

Open(at, w) ==
  [s \in Slot |-> IF s = 1 /\ at # "security"
                  THEN List([tab |-> FirstTab(at), word |-> w], FALSE) ELSE None]

(* The page that is mounted already only learns of a new query in the URL. *)
Navigate(at, w) ==
  IF At(at)
  THEN /\ page' = IF w = page.url THEN page
                  ELSE [page EXCEPT !.url = w, !.search = w]
       /\ UNCHANGED <<calls, backend>>
  ELSE /\ page' = Blank(at, w) /\ calls' = Open(at, w)
       /\ catalog' \in IF at = "products" THEN SUBSET Word ELSE {{}}
       /\ photos' \in SUBSET catalog'
       /\ mfa' \in IF at = "security" THEN Secret \cup {None} ELSE {None}
       /\ raced' = FALSE

Visit(at) ==
  /\ ~Covered /\ Navigate(at, None)
  /\ UNCHANGED palette

(* "Enter" on the active row, or a click on any.                           *)
Go(at, w) ==
  /\ palette.open /\ palette.active < palette.results.rows
  /\ palette.query = palette.term
  /\ palette' = Closed(palette)
  /\ Navigate(at, w)

Init ==
  /\ page = Blank("analytics", None)
  /\ calls = Open("analytics", None)
  /\ palette = [open |-> FALSE, query |-> None, term |-> None, asked |-> {},
                loading |-> FALSE, results |-> NoResult, active |-> 0]
  /\ catalog = {} /\ photos = {} /\ mfa = None /\ raced = FALSE

Answer(s) ==
  \/ AnswerList(s) \/ AnswerDetail(s) \/ AnswerSave(s) \/ AnswerSaved(s)
  \/ AnswerModal(s) \/ AnswerCreate(s) \/ AnswerUpload(s) \/ AnswerImport(s)
  \/ AnswerFulfill(s) \/ AnswerAll(s) \/ AnswerSetting(s) \/ AnswerUser(s)
  \/ AnswerVoid(s) \/ AnswerVoided(s) \/ AnswerEnroll(s) \/ AnswerVerify(s)

OnRow(r) ==
  \/ Expand(r) \/ StartEditVariant(r) \/ CancelEditVariant(r) \/ SaveVariant(r)
  \/ OpenModal(r) \/ Fulfill(r) \/ Void(r)

Palette ==
  \/ OpenPalette \/ ClosePalette \/ SettleQuery
  \/ \E w \in Term \cup {None} : TypeQuery(w)
  \/ \E w \in Term, rows \in 0 .. MaxRows : AnswerQuery(w, rows)
  \/ \E i \in 0 .. MaxRows : MoveActive(i)
  \/ \E at \in Searching, w \in Word : Go(at, w)

Next ==
  \/ \E s \in Slot : Answer(s) \/ CheckEnroll(s) \/ Enroll(s)
  \/ \E r \in Row : OnRow(r)
  \/ \E w \in Word \cup {None} :
       Type(w) \/ NewUser(w) \/ \E photo \in BOOLEAN : FillForm(w, photo)
  \/ \E t \in UNION {Tabs(at) : at \in Pages} : SelectTab(t)
  \/ \E x \in Section : FillSection(x) \/ CreateSetting(x)
  \/ \E sure \in BOOLEAN : AnswerConfirm(sure)
  \/ Settle \/ SubmitModal \/ CancelModal \/ ToggleForm \/ CreateProduct
  \/ ImportCsv \/ AskFulfillAll \/ DeleteDiscount \/ CancelUser \/ CreateUser
  \/ Deactivate \/ StartEnroll \/ Verify
  \/ \E at \in Pages : Visit(at)
  \/ Palette

Spec == Init /\ [][Next]_vars

-----------------------------------------------------------------------------

(* What the variables hold.                                                *)
TypeOK ==
  /\ page \in PageType /\ page.tab \in {FirstTab(page.at)} \cup Tabs(page.at)
  /\ calls \in [Slot -> OrNone(CallType)]
  /\ palette \in PaletteType
  /\ catalog \subseteq Word /\ photos \subseteq catalog
  /\ mfa \in OrNone(Secret) /\ raced \in BOOLEAN

(* A spinner turns, and a button is disabled, only while a call of this    *)
(* page is open, or after a read that failed and that nothing catches.     *)
WaitsForCall ==
  /\ page.loading /\ ~page.stuck => \E s \in Slot : Asking(s, "list")
  /\ page.busy # None => \E s \in Slot :
       \E kind \in {"modal", "all", "void", "voided"} : Asking(s, kind)
  /\ palette.open /\ palette.loading => palette.asked # {}

(* A dialog saves its variant once at a time, and the visible orders are   *)
(* fulfilled once at a time, however often the buttons are pressed.        *)
OneAtATime ==
  \A kind \in {"modal", "all"} :
    Cardinality({s \in Slot : Asking(s, kind)}) <= 1

(* What is saved for a variant was typed over the values of that variant,  *)
(* whatever edit was begun, left open or cancelled before.                 *)
DraftIsOfVariant == \A s \in Slot : Asking(s, "save") => calls[s].of = calls[s].id

(* When the palette is not searching, its rows are those of the term that  *)
(* was searched last: a late answer changes nothing (the cancelled flag).  *)
ResultsOfTerm ==
  palette.open /\ ~palette.loading => palette.results.of \in {None, palette.term}

(* "Enter" opens a row whenever there is one: the mark is never past the   *)
(* last row (the clamp after the results shrank).                          *)
ActiveIsRow ==
  palette.open /\ palette.results.rows > 0 => palette.active < palette.results.rows

(* The secret that is shown is the one codes are checked against, also when*)
(* the button is pressed twice and the answers are late, unless two        *)
(* requests were let in at once (startEnroll, mfa_enroll).                 *)
SecretIsStored == page.secret # None /\ ~raced => page.secret = mfa

(* An answer empties the form of a product only when the product it was    *)
(* sent for is in the catalogue, with the photo that was taken of it.      *)
EmptiedIsStored ==
  [][\A s \in Slot :
       (AnswerCreate(s) \/ AnswerUpload(s)) /\ page'.form # page.form =>
         calls[s].id \in catalog' /\ (calls[s].photo => calls[s].id \in photos')]_vars

=============================================================================
