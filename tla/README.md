# OpenMarket in TLA+

OpenMarket is a shop system: a FastAPI backend over PostgreSQL, a till (POS), an
admin page and a web shop in React. Its tills are subject to the German rules for
cash registers: every sale and every correction is a row that is never changed,
signed by a certified device (TSE), here the service fiskaly.

This directory holds a model of the parts of that system in which several actors
meet: TLA+ modules, TLC configurations that check them on small instances, and
proofs, checked by TLAPS, that what matters most holds for instances of any size.
Paths below are relative to `backend/app/` unless they say otherwise.

| file | what it is |
|---|---|
| `FiscalJournal.tla` | what the books promise, abstractly |
| `FiscalSale.tla` | sales and corrections through the backend, with fiskaly, the card terminal, the database and crashes |
| `FiscalSaleProofs.tla` | the inductive invariant of `FiscalSale` and the theorems that follow |
| `FiscalBooksProofs.tla` | what it adds up to: numbers, answers, authorisations, the log, and that `FiscalSale` implements `FiscalJournal` |
| `MCFiscalSale.tla`, `sale*.cfg` | its instances for TLC |
| `Shelf.tla` | what stock keeping promises, abstractly |
| `Stock.tla` | orders, returns, counts and adjustments, with row locks, deadlocks, failures and crashes |
| `StockProofs.tla` | the inductive invariant of `Stock` and the theorems that follow |
| `ShelfProofs.tla` | sums over lines, and that `Stock` implements `Shelf` |
| `MCStock.tla`, `stock*.cfg` | its instances for TLC |
| `Till.tla` | the page of a till: basket, payment, parked sales, voiding, with what the backend has of them |
| `TillProofs.tla` | its inductive invariant and the theorems about payments |
| `TillPageProofs.tla` | its types, and that an emptied basket is stored |
| `MCTill.tla`, `till*.cfg` | its instances for TLC |
| `Shop.tla` | the web shop: its pages, the cart and its storage, the feed of stock updates |
| `ShopProofs.tla`, `MCShop.tla`, `shop.cfg` | its inductive invariant and theorems; its instance for TLC |
| `Office.tla` | the admin pages and the command palette |
| `OfficeProofs.tla`, `MCOffice.tla`, `office.cfg` | its inductive invariants and theorems; its instance for TLC |
| `PROJECT.json` | components, runs, mutants, the map from definitions to source lines, findings, hazards, theorems |

To check: `tlc -config sale.cfg MCFiscalSale`, and likewise each `.cfg` with the `MC`
module of its name (`stock*` with `MCStock`, `till*` with `MCTill`, `shop` with `MCShop`,
`office` with `MCOffice`); `tlapm FiscalSaleProofs.tla`, and likewise the other seven
`*Proofs.tla`.


## 1. Inventory

The server is one process. Every request runs as a coroutine with a database
session of its own (`api/deps.py`): at every `await` another request may go on.
The session is one PostgreSQL transaction at READ COMMITTED; leaving the handler
without a commit rolls it back. There are no background workers, and no code
repeats a request: what is retried is retried inside `fiscal/client.py`, at the
start of the server, or by a person.

**Sale and storno** (`services/pos_transaction.py`, `services/storno.py`). State:
`pos_transactions` (with lines), `receipt_number_seq`. `finalize_sale` looks up the
client id, adds up VAT, draws a number, inserts the row as pending, has the TSE
start and finish a transaction, writes the signature into the row and commits. On a
`FiscalError` it commits the row without one. `void` does the same for the negative
of an earlier row, after it has looked for an earlier void. Triggers (migrations
0104, 0106) refuse other updates. *Hard*: the same id twice at once, two voids at
once, failures and crashes between debit, INSERT, signature and commit. *Correct
when*: one row per client id, numbers unique, never changed but for the signature,
the signature being over what the row says.

**Fiscal service and client** (`fiscal/`). State: `tse_signing_log`; per client a
token. `start_transaction`, `finish_transaction`, the log, the write-back, and
`retry_pending_signatures`, run by `main.py` before the server serves. The client
tries three times, drops its token on a 401. *Hard*: an answer lost after the TSE
acted, the same transaction asked for again, which exceptions leave the client.
*Correct when*: what the TSE has and what the books say agree; pending rows get
signed.

**Payment** (`payment/service.py`, `payment/zvt.py`). State: `card_auths`. `pay_cash`,
`pay_card`, `pay_split`; the terminal is asked first, a declined card is booked as a
cancelled attempt. *Hard*: money moves outside any transaction. *Correct when*: a
debit and a booked sale go together, one for one.

**Receipts** (`receipt/`). State: `receipt_print_jobs`, one cached printer backend.
Print after a sale, reprint. *Correct when*: a job exists for each sale answered.

**Cash book** (`services/kassenbuch.py`). State: `kassenbuch_entries`. Open, paid-in,
paid-out, close with expected and counted cash. *Hard*: nothing ties a close to an
open. *Correct when*: expected cash is what the drawer should hold.

**Reports** (`reports/`). Read the rows and the cash book of a period: Z report,
DSFinV-K archive. *Correct when*: consistent with the books, each row in one period.

**Orders, returns, inventory** (`services/order.py`, `services/returns.py`,
`services/inventory.py`). State: `orders`, `line_items`, `returns`,
`inventory_levels`. Orders take stock line by line by conditional UPDATEs, tell the
screens after each, and are committed at the end. *Hard*: row locks in any order,
the broadcast before the commit, refusal half-way. *Correct when*: all lines or
none, never below zero, refused only when short.

**WebSocket feed** (`ws/manager.py`, `frontend/packages/shared/src/useWebSocket.ts`).
State: the list of connections; what each screen shows. *Hard*: no ordering between
broadcasts and commits, screens that leave or come back, updates that arrive while a
page is being read. *Correct when*: a screen that missed nothing shows the committed
level.

**Fulfilment, customers, parked sales** (`api/fulfillments.py`, `api/customers.py`,
`api/parked_sales.py`). Rows read, changed and deleted by single requests; hard
where two requests read the same row first: a customer made twice, a parked sale
taken by two tills.

**Accounts** (`api/auth.py`, `services/session.py`, `services/rate_limit.py`). State:
`users`, `sessions`, `login_attempts`, the audit log. *Hard*: check, then record.
*Correct when*: no access without a live session, lock-out after five failures.

**Catalogue, discounts, tax, analytics**: one row per request, or reading only.

**Till** (`frontend/packages/pos/src`). State of `SalePage`: the basket, the customer,
the pending order and the total asked for, which dialogs are open and which wait, the
last transaction, the parked sales listed. It makes a new client id for each attempt to
pay. *Hard*: every handler awaits, and meanwhile everything that is not covered by a
dialog can be used, more handlers started and dialogs replaced; answers are late or
lost; the listener of the keys sees an earlier render. *Correct when*: the amount asked
for is that of the order; paid is what is booked, once; a basket that is emptied is
stored; only what a manager agreed to is voided; nobody is shut in.

**Web shop** (`frontend/packages/store/src`). Five pages, of which one is mounted; the
cart, kept in `localStorage`; stock updates. *Hard*: pages that are left while they
wait, late answers, updates that overtake a read, several tabs. *Correct when*: the stock
shown is that of the backend; the cart survives; an order is placed once.

**Admin pages** (`frontend/packages/admin/src`). Lists, forms and dialogs for products,
orders, customers, settings, users, sales and the second factor; a command palette over
all of them. *Hard*: edits begun over other edits, buttons pressed again while they
work, lists read for a tab that is left, searches answered out of order. *Correct when*:
what is saved belongs to what is edited; a form is emptied only when stored; the secret
shown is the one stored; the palette shows and opens what was searched.

How they meet: tills create an order (stock), then pay it (terminal, TSE, books,
receipt) in a second request; corrections refer to booked sales; returns refer to
orders and touch stock, not the books; reports read books and cash book; every
change of stock is sent to all screens. `Till`, `Shop` and `Office` are composed with
the backend as far as each sees it: a call is carried out, refused, or carried out and
its answer lost. That an order takes stock all or nothing (`Shelf`) and that a payment is
one row of an append-only book (`FiscalJournal`) is what the other modules establish for
such a step.

`PROJECT.json` lists each of these with its status, and under `hazards` what a test
would hardly reach, each at its line with the property that covers it, or why none
does yet.


## 2. FiscalSale: from the code to the model

Each request `r` has a program counter `pc[r]`; the handler is cut at each await at
which shared state is read or written, so that TLC interleaves requests as the event
loop does.

| action | code |
|---|---|
| `Submit` | the endpoints of `api/payment.py`, `api/storno.py` and the checks of amounts in `payment/service.py`; `MaySubmit`: a till makes up an id, and only the same request can carry it again |
| `Authorize` | `ZvtTerminal.authorize`: approved; declined; unreachable; or no usable answer, with or without a debit |
| `Select` | `finalize_sale` up to the receipt number |
| `CheckOriginal` | the checks of `void` |
| `TakeNumber` | `nextval` |
| `Insert` | the flush: waits for another open transaction with the same id, fails on a committed one |
| `Start`, `Finish` | the two TSE calls with their log entries; `Finish` includes the write-back |
| `Commit` | both commits (after a `FiscalError`, after a signature) |
| `RecordAuth` | the `card_auths` row, a transaction of its own |
| `PrintReceipt` | the print job |
| `Crash`, `Restart`, `RetryRow`, `Serve` | the process; `lifespan` with `retry_pending_signatures` |

`sess[r]` and `slog[r]` are what the session of `r` has flushed and not committed;
`rows`, `log`, `cards`, `jobs` are committed. `tse` is fiskaly's side: a transaction is
none, active or finished, and finished over the data of the first finish. A repeated
finish with the same data is answered with the same signature, with other data it is
an error.

Abstractions. The content of a row, and the process data the TSE signs, is the pair
of the kind of receipt and what it is for (an order, or the row it corrects): enough
to tell a sale from a cancelled attempt, and one sale from another. Amounts, VAT and
lines are left out. A client call is one step with all its outcomes: ok, a
`FiscalError` (`refused`), or any other exception (`lost`); in the last two cases
fiskaly may have acted. `Unslotted` are the orders with a VAT rate that
`_rate_to_slot` does not know. Left out: a fiskaly that is not configured (every
call is then a `FiscalError`, one of the outcomes), the limit of 100 rows per retry,
the status of a print job, and a split payment with one side zero, which goes the
way of a cash or a card payment. The entries `_log` adds for a retry that fails are
not kept.

What the proof says about the retry: `RetrySignsNothing` shows that a row committed as
pending never changes. `Resign`, the part of `RetryRow` for rows with stored process
data, is there because the code has it; no row ever takes it.


## 3. Stock: from the code to the model

`stock` is `inventory_levels.available` as committed; `held[r]` the levels the
transaction of `r` has updated, which are the row locks it has. `Blocked` is another
transaction's lock, `Level` what `r` sees. `booked` is the order or return on record;
for counts and adjustments, which leave no record of their own, it marks that they
were carried out.

| action | code |
|---|---|
| `Submit` | `api/orders.py`, `api/returns.py`, `api/inventory.py`; an order whose weights do not fit is answered 400 |
| `CheckReturn` | `create_return` up to the updates |
| `UpdateLevel` | one conditional UPDATE of an order, or one of a return: when the committed level is short it finds no row, without waiting (409, rollback); otherwise it waits for the row, and looks at the level again |
| `Send` | the broadcast after it: goes on with the next line, to the end, or fails |
| `Price` | tax and shipping; raises when several rates are the default |
| `Commit` | order or return row and commit |
| `LoadLevel`, `WriteLevel` | `set_inventory`; the ORM writes nothing if the number is unchanged |
| `AdjustLevel`, `Tell` | `adjust_inventory`; the broadcast after the commit of both |
| `Deadlock` | PostgreSQL fails one transaction of a circle |
| `Crash` | everything open is rolled back |

Abstractions: one location (the code updates the levels of an item without naming
one); quantities of at least one, as the frontends send them; counts that are not
negative, although the API takes any integer, for a negative count would refute the
promise at once by its own wish; the customer that `create_order` may create; prices
and refunds. What screens show is not kept, only that sending can fail.


## 4. The frontends: from the code to the models

The three modules follow one pattern. `page` is a record of the React state of what is
mounted; `calls` has a slot for each call to the backend that is not answered yet, with
what its handler had closed over; an action is one event of the browser, and contains
everything the handler does up to its next `await`. `Show` (Till), `Mount` (Shop) and
`Navigate` (Office) say what rendering and going to another page do. An answer may come
in any order, be an error, or be an error after the backend did what was asked for. A
read that only fills a list is answered when it is made, unless its lateness matters.
None of the specifications has fairness: nothing says that a visitor clicks, and an
answer that never comes is a browser's business; the properties are safety.

**Till** (`pos/src/pages/SalePage.tsx` and its dialogs). `Layers` is the order in which
dialogs cover each other; a dialog can be used when it is on top, and the page when none
is open, except where the code lets more through (the barcode field, the keys).

| action | code |
|---|---|
| `AddFound`, `ConfirmWeight`, `UpdateQty`, `RemoveItemAt`, `DoVoidSale` | `addToSale`, `addWeighedToSale`, `updateQty`, the line's buttons, `doVoidSale` |
| `AddByBarcode`, `AnswerLookup` | `addByBarcode`: the basket grows when the answer is there, the camera closes at once |
| `PressPay`, `PressF8`, `AnswerOrder` | `handlePay*`, `createOrderForPayment`: the order, then the dialog of the method with the total (`Ready`); F8 orders `page.seen`, the basket of the render whose listener is installed (`Dependencies`) |
| `ConfirmPay`, `AnswerPay`, `CancelPay` | the three payment dialogs; a card is asked for as soon as its dialog is mounted; `handlePaymentSuccess` (`Paid`) |
| `ParkSale`, `RecallSale`, `AnswerOwner`, `AnswerRecall`, `AskDiscard`, `Discard`, `TakenElsewhere` | `parkSale`, `recallSale` with its three steps, the picker, another till |
| `ConfirmStorno`, `Authorize`, `AnswerOverride`, `AnswerStorno` | `startStorno`, `ManagerOverrideModal`, `doStorno` |
| `AskCustomer`, `AnswerCustomer`, `RemoveCustomer` | `CustomerAttachModal` |
| `OpenDialog`, `CloseDialog`, `PressEscape`, `Reload` | the dialogs, with what each forgets when it closes (`Close`); Escape closes one dialog of each listener |

The total asked for is represented by the lines it is computed from; lines by variant and
quantity, a weighed line by having been weighed. Not in the model: the sums inside the
cash and split dialogs, printing again, what happens inside the return dialog, decoding
camera pictures, the pages for opening and closing a shift. Bound beyond the constants:
one parked sale is thrown away at a time.

**Shop** (`store/src`). `cart` and `storage` are the cart in memory and in
`localStorage`; `storage` is `None` when it is not what this tab stored last. `feed` are
the updates on their way to the page, `link` the socket. `TellWrongly` and
`ChangeStock` with `told = FALSE` are what `Stock` shows the backend to do: broadcasts of
levels that are rolled back, and none where sending fails. `missed` remembers that this,
a lost connection or a load overlapped with an update on this page; nothing in the code
repairs it before the page is loaded again, so `StockIsCurrent` is stated without it.

| action | code |
|---|---|
| `LoadList`, `Refetch`, `AnswerList`, `QuickAdd`, `AnswerAdd` | `ShopPage.tsx` |
| `ReadProduct`, `AnswerProduct`, `SelectVariant`, `AddToCart`, `VisitProduct` | `ProductDetailPage.tsx`; the backend reads a product some time before the answer is there |
| `HandleInventoryUpdate` | both handlers: the list sets a timer (`Scheduled`), a product takes the level (`Updated`) |
| `UpdateQuantity`, `AskRemove`, `FillForm`, `ApplyDiscount`, `PlaceOrder`, `AnswerOrder` | `CartCheckoutPage.tsx` |
| `TypeText`, `LookUp`, `AnswerStatus`, `AnswerCustomer`, `AnswerHistory`, `SignOut` | `OrderStatusPage.tsx`, `AccountPage.tsx` |
| `Visit`, `Reload`, `StoredElsewhere`, `Connect`, `Disconnect` | the router, `cartStore.tsx`, `useWebSocket.ts` |

A list is abstracted to the products it shows as in stock; which of them a search or a
category selects is left out.

**Office** (`admin/src`). One record serves all eight pages; a page leaves alone the
fields that are not its own.

| action | code |
|---|---|
| `Type`, `Settle`, `SelectTab`, `Expand`, `AnswerList`, `AnswerDetail` | the lists with their searches and tabs; `Recovering` are the pages whose spinner stops after a failure, too |
| `StartEditVariant` to `AnswerModal` | variants in their row and in `VariantEdit.tsx` |
| `ToggleForm` to `AnswerImport` | a new product: created, then its photo sent |
| `Fulfill`, `AskFulfillAll`, `AnswerConfirm`, `AnswerAll` | `OrdersPage.tsx` |
| `FillSection` to `AnswerSetting` | `SettingsPage.tsx` |
| `NewUser` to `AnswerVoided` | `Users.tsx`, `RecentSales.tsx` |
| `StartEnroll`, `CheckEnroll`, `Enroll`, `AnswerEnroll`, `Verify` | `Security.tsx` and `mfa_enroll` in its two steps (`api/auth.py`:273) |
| `OpenPalette` to `Go` | `CommandPalette.tsx`; `asked` are the searches whose answer is not cancelled |
| `Visit`, `Navigate` | the router; the page that is mounted already only learns of a new query |

What the backend holds of products, photos and the second factor is followed while their
page is mounted, and is arbitrary when it is mounted again. Bounds: a product has one
variant and a list shows all rows; on the page of products a search, an opened row and
the form are not used side by side (`Apart`, `NothingOpen`: they share only the slots for
calls); the palette is opened over a page with nothing open (`Quiet`), is closed when the
last key has been heard of, and throws its rows away then rather than when it opens
again. Left out: signing in and the first setup, the page of the Z report and of exports,
the filter by source of the orders, the stock columns, locations, scanner, camera and
text recognition of the page of products. `raced` remembers that two enrolments were let
in before either had stored its secret, in which case the secret shown may not be the one
stored; that is a fault of `mfa_enroll`, noted under the hazards, and `SecretIsStored`
says that it is the only way.


## 5. The runs

Every property is stated and explained where it is defined. `Spec` has no fairness and
serves safety; `CHECK_DEADLOCK FALSE` is set everywhere because a server that has
answered every request may rest.

| run | instance | states | result |
|---|---|---|---|
| `sale` | 3 requests, 2 client ids, 2 void ids, cash and card, one order; crashes and restarts; symmetric in requests and ids | 1,050,004 | type, `SignatureMatchesBooks`, `OnlyApprovedCardSalesBooked`, `CardAuthAgreesWithBooks`, `LogExplainsRows`, `AnsweredIsBooked`, and `FiscalSale` implements `FiscalJournal` |
| `sale_progress` | 2 requests, cash, card and split, one order that can be booked and one that cannot; no symmetry | 443,925 | every request is answered |
| `stock` | 3 requests over items *a* (2 pieces) and *b* (1); orders a-b, b-a and a-a; returns; a count to 0; an adjustment by -1 | 291,329 | type, `AnswersAreTrue`, `RefusedOnlyIfShort`, `NoLostUpdate`, `Stock` implements `Shelf`, every request is answered |
| `till` | one variant by the piece, one by weight, one customer; baskets of one line; three calls, two open at once | 943,640 | type, `AskedIsOrdered`, `PaidIsBooked`, `PaidTwiceOnlyAfterLoss`, `StornoAuthorized`, `BusyHasCall`, `ClearedIsStored` |
| `shop` | a product with one variant, whose stock changes, and one with two; two pieces in the cart, one order, two open calls, one update on its way | 796,768 | type, `NoSecondOrder`, `WaitsForCall`, `RefreshIsDue`, `StockIsCurrent`, `CartSurvives`, `ClearedIsOrdered` |
| `office` | two rows, one word, two terms, two secrets; two open calls, two rows in the palette; symmetric in rows, terms and secrets | 583,600 | type, `WaitsForCall`, `OneAtATime`, `DraftIsOfVariant`, `ResultsOfTerm`, `ActiveIsRow`, `SecretIsStored`, `EmptiedIsStored` |
| `sale_outage` | 1 card payment | | violates `ApprovedCardIsBooked` |
| `sale_resent` | 1 card payment sent twice | | violates `OneChargePerClientId` |
| `sale_voids` | 1 sale, 2 corrections | | violates `VoidedOnce` |
| `sale_pending` | 1 sale, restarts for ever | | violates `PendingIsSigned` |
| `stock_returns` | 1 order, 2 returns | | violates `ReturnedWithinOrder` |
| `till_f8` | as `till`, with two pieces of a line | | violates `KeyIsButton` |

Why these bounds. Everything that can go wrong in `FiscalSale` is a meeting of two
requests at one client id, at one sale to be corrected, or at the sequence; three
requests are a sale sent twice and its correction, two sales and a correction, a sale
and two corrections. More requests only repeat these pairs, and for the parts that are
proved their number does not matter. Crashes are not bounded: they are disabled only
when the server is down, and the state space is finite all the same, because each
request is submitted once. No counter needs a bound: at most one number is drawn per
request. In `Stock`, two requests and two items make the circle of waiting orders, and
a third is the count, return or order that meets them; the stock is small enough for
every order to be refused in some behaviour.

In the frontends what goes wrong is a meeting of two calls, or of a call and a click:
two slots are two handlers at once. In `till` three calls are what the longest stories
take with another one in between: order and pay while a barcode is looked up, order, pay
and pay again, a void with its manager while a sale is ordered; one line of one piece is
enough, because a property compares baskets as wholes. In `shop` one variant whose stock
changes and one update on its way is enough for updates to overtake reads and be
overtaken, two products for going back and forth; the three variants are a product
without and one with a choice. In `office` two rows are the one that is edited and
another. What the bounds might hide is what the proofs are for: every safety
property of the passing runs is proved for any number of calls, lines, rows and updates
(section 6).

**Fairness.** `FairSpec` says weak fairness of `Handle(r)` for each request: the event
loop resumes a coroutine whose await is over, and every await ends, since the HTTP
client (`timeout=15`), the terminal (`timeout_s`) and the database answer or time out.
Nothing is assumed of tills (`Submit`), of crashes or of restarts. That a handler waiting for a
key or a row lock gets on is the thing to be shown, not assumed: it is, because holders
finish, and because PostgreSQL looks for circles (`Deadlock` is one of the steps of a handler).
`RestartingSpec`, only for `sale_pending`, is as generous to the code as can be: the
server is started again and again and reaches each pending row again and again, and
still a pending row is never signed.

**The six violations** are disagreements between the code and its documents or its own
messages; `PROJECT.json` quotes the lines.

1. `sale_outage`: `FiscalClient` builds its retry with `reraise=True`, so that after the
   third attempt the original exception leaves it, never the `RetryError` that it
   translates to `FiscalError`. An outage therefore takes the path of an unknown
   error: rollback, although the card is debited. The documents and two tests expect a
   pending row.
2. `sale_resent`: the client id is looked up after the terminal has been asked.
3. `sale_voids`: look, then insert, with nothing to make the second fail.
4. `sale_pending`: the process data a retry needs is stored only with a signature.
5. `stock_returns`: each return is compared with the order, not with what is left of it.
6. `till_f8`: the listener of the keys closes over the basket and the customer, but its
   effect depends on the number of lines only (`SalePage.tsx`:99). After a quantity or the
   customer has changed, F8 orders what was there before; the quick card for cashiers
   (`docs/ops/cashier-quickcard.md`:17) has F8 and the button for the same thing.

A seventh is a matter of words: the design document (`go-live-v1-design.md`:65, :128) calls
receipt numbers gap-free because `nextval` is in the transaction of the row. A sequence
is never rolled back (`TakeNumber`), so numbers are unique, which `ImplementsJournal`
shows, but not gap-free.

**Mutants.** For each property of a passing run `PROJECT.json` names a change of the
model that stands for a plausible bug, defined in the module beside the operator it
replaces, under which TLC finds the property violated.


## 6. What is proved

Every invariant and every action property that a passing run checks is a theorem here,
and so are both refinements; `Answered`, which needs fairness, is the only property of
those runs that is not.

`FiscalSaleProofs` proves, for any sets of requests, ids, orders and ways to pay, from
`SaleAssumption` alone (client and void ids differ, ways to pay are the three of the
code, `None` is no value and no entry of the journal, so that an empty place in the books
is told from a row):

- `TypeCorrect`: `Spec => []TypeOK`
- `SignaturesMatch`: `Spec => []SignatureMatchesBooks`
- `CardSalesApproved`: `Spec => []OnlyApprovedCardSalesBooked`
- `RetrySignsNothing`: `Spec => [][a pending row stays as it is]_vars`

None of these is inductive by itself. `SignatureMatchesBooks` speaks of committed rows;
that a commit keeps it depends on what the session holds, and that depends on how far
the handler has come. The inductive invariant `IInv` therefore adds

- `Flow`: at each `pc` the request has been submitted, is of a kind that gets there,
  and holds a row exactly between `Insert` and `Commit`;
- `Serving`: requests are in flight only while the server serves, so that the retry
  at startup meets no handler;
- `Sessions`: of two sessions no two hold one id, the row held is not committed yet,
  says what its request says, and, once signed, is over data the TSE has finished;
- `PendingHasNoData`: the flag and the data of a row go together, in sessions and in
  the table; from it follows `RetrySignsNothing`.

The steps of the proof follow the actions; lemmas state once what the operators do
(`RepliesType`: a finished TSE transaction stays as it is; `SignedRow`; `NextSteps`) and
what whole classes of steps keep (`QuietStep`, `RowsKept`, `InsertConsistent`,
`TseCallConsistent`, `CommitConsistent`).

`FiscalBooksProofs` goes on from there with two more invariants, each `IInv` and more.
`JInv` adds `Numbers` (numbers in the books, and drawn by handlers on their way to them,
all differ and are none above the sequence; this is why a number that a rollback loses
does no harm) and `Voids` (a correction past its checks is of a row that is in the books and
is none itself; rows stay, so it still is when the correction is booked):

- `ReceiptNumbersUnique`: `Spec => []` no two rows have one number
- `BooksAreAJournal`: `Spec => ImplementsJournal`, step by step: the commits append, every
  other action leaves the journal alone

`AInv` adds what ties answers to rows: `Calls` (two requests with one id are the same
payment, and only a payment can be sent twice), `Authors` (each row was written by a request
past its commit), `Settled`, `Auths` and `SessionLogged` (what a session is about to commit
comes with its log entries):

- `AnswersAreBooked`: `Spec => []AnsweredIsBooked`
- `AuthorisationsAgree`: `Spec => []CardAuthAgreesWithBooks`
- `RowsAreExplained`: `Spec => []LogExplainsRows`

`StockProofs` proves, for any sets of requests and items, any baskets, returns, counts
and changes, from `StockAssumption` alone (lines are non-empty sequences of items and
quantities of at least one; counts and first levels are not negative; `None` is no
value):

- `StockTypeCorrect`: `Spec => []TypeOK`; levels are natural numbers, on record and
  within a transaction, so nothing is ever sold that is not there
- `AnswersTrue`: `Spec => []AnswersAreTrue`
- `UpdatesKept`: `Spec => NoLostUpdate`

Its `IInv` adds to the type

- `Flow`: what the place of a handler says about its request: of which kind it is, that
  the line it is at exists, and that a return past its checks still fits the order on
  record (`FitsKept`: what is booked is never booked again), without which the item a
  return updates would be unknown;
- `Locks`: only handlers between their first UPDATE and their end hold rows, and a row
  has one holder;
- `Kept`: what is on record is what was asked for, put there by a handler at its end.

There is one lemma per action; `MoveKeeps`, `RollbackKeeps` and `WriteKeeps` state what
several of them share. `UpdatesKept` then needs `Locks`: a commit that changes a level
somebody holds is that holder's own, and counts and adjustments wait for the row.

`ShelfProofs` proves that interleaving does not show:

- `StockIsAShelf`: `Spec => ImplementsShelf`
- `RefusalsAreShort`: `Spec => RefusedOnlyIfShort`

A transaction updates one line after the other and the shelf takes an order at once, so
the invariant needed is `Ledger`: what an open transaction sees of a level is what is on
record, less what its order has taken so far, or more what its return has put back
(`Entry`). At the commit "so far" is all lines, and what becomes the record is what the
shelf makes of it. `Locks` keeps the record of a held level from being changed by anybody
else meanwhile. A refusal is short for the same reason: the lines before and the one that
finds too little come to more than is on record.

What lines come to is a sum defined by recursion over their number (`AmountUpTo`, a
recursive function). The library's induction theorems take an operator, which the
installed provers cannot instantiate; `WFMin` does not, and from it follow in turn
`Least` (a set of natural numbers that is not empty has a least element), `Upwards`
(induction, over a set), `SumsExist` (there is a function with such equations) and
`AmountSteps` (`AmountUpTo` is one).

`TillProofs` proves, for any variants, customers and slots and any bounds, from
`TillAssumption` alone (pieces and weighed goods differ, bounds are positive, `None` is no
value): `AskedAmountIsOrdered`, `ShownPaidIsBooked`, `NoSecondPayment`,
`VoidsAreAuthorized` and `NobodyShutIn`. That no order is paid twice depends on which
dialog waits for which call. `IInv` says so:

- `Waiting`: a dialog that waits does so for an open call of its kind, a payment dialog
  that waits is open, and the card dialog authorizes exactly while it waits, for one call;
- `Paying`: at most one payment dialog is open, and a call that pays the order it is
  about is one it waits for, so its button is disabled; no two calls pay one order;
- `Heard`: an order whose payment was heard of is neither on the page nor being paid;
- `Ordering`, `Granted`: totals, orders and overrides referred to exist.

Most events touch none of this: `CalmKeeps` is the one proof for all of them, from
`Near` (the page differs only in what the invariant is not about), `PlainCall`,
`MoreOrders` and `SameBooks`; `WaitKeeps` and `LeaveKeeps` are those for making a dialog
wait and for leaving a payment; ordering, confirming and paying have their own.

`TillPageProofs` adds `TillTypeCorrect` (`Spec => []TypeOK`) and `EmptiedIsStored`
(`Spec => ClearedIsStored`). Types are not inductive alone: the call that voids, pays,
recalls or discards names something, and the answer reads it. `TInv` says that such a
call, and a question on the page, name a parked sale there is (they are never taken
back: `MoreParked`), `IInv` that orders and payments named exist, and both are needed
together. From the types it follows that putting an article into a basket that is not
empty leaves none that is (`AddedIsNotEmpty`), that what is appended to differs
(`AppendDiffers`), and, answer by answer, that nothing else changes the basket.

`ShopProofs` proves, from `ShopAssumption` (finitely many variants, at least one call that
can be open, `None` no value and no call, the others as above), `ReloadKeepsCart`,
`ShownStockIsCurrent`, `HeardIsRefreshed`, `PlacedOneAtATime`, `ShopTypeCorrect`,
`NoEndlessSpinner` and `EmptiedIsOrdered`. For the stock, `Current` says of a page that
missed nothing: the last update on its way for a variant tells its stock (`Told`), what
was read for an open call is the stock now (`Fresh`), and what is shown of a variant
without an update on its way is, too (`Shown`). `Fresh` is why an update during a load
has to count as missed. For the spinners, `Served` says that whatever the page waits for, a
call of its own is open that ends this very wait (`Serves`), which depends on no call
ending a wait for another. The type of the cart is a count of numbered pieces
(`Pieces`), which is why variants have to be finite.

`OfficeProofs` proves, from `OfficeAssumption`, `ShownSecretIsStored`,
`SavedDraftIsOfVariant`, `WorksOneAtATime`, `EmptiedFormIsStored`, `OfficeTypeCorrect`, with a
second invariant of the palette `RowsAreOfTerm` and `MarkIsOnRow`, and with a third and a
fourth (`Served`, `PaletteServed`) `NoEndlessSpinner`: only pages that have a spinner ever
load, and while they do a list is being read that stops it; the palette searches only
while an answer is awaited. `Works` ties disabled buttons
to the calls that disable them, and both to the page they are on, so that leaving a page
frees them; `Secrets` follows an enrolment from being let in to being shown.

TLC has checked each of these invariants on the instance of its run too, for all parts it
can evaluate.

Left to TLC: `Answered`, in `sale_progress` and `stock`, and `PendingIsSigned`, because
fairness and ENABLED are out of the prover's reach; and what the six runs that find a
violation show.


## 7. Plan

In the order of importance; 1 to 4 are done.

1. `FiscalSale` implementing `FiscalJournal`; `FiscalSaleProofs`.
2. `Stock` implementing `Shelf`; `StockProofs`.
3. `Till`; `TillProofs`.
4. `Shop` and `Office`; `ShopProofs`, `OfficeProofs`.
5. `Drawer`: the cash book, cash sales, Z report and export over a period. Runs: one day
   with two cashiers; the expected cash of the second day against the formula of the
   design document.
6. `FiscalClient`: attempts, token, 401, exceptions; `FiscalSale`'s `Replies` as its
   abstract specification. `Feed`: all connections and screens on top of `Stock`; print
   jobs and the cached printer; customers made with orders.
7. `Access`: signing in, sessions, roles, lock-out, for the backend and the pages.
8. Pure algorithms against reference definitions: VAT breakdown and rounding, weighed
   price, refund, split payments in binary fractions, BCD and APDU coding, process data.

Proofs to come go with the modules to come: that the drawer's expected cash is the sum
of its day, that `FiscalClient` implements the replies `FiscalSale` assumes of it, that
nobody gets in without a live session, and the algorithms of step 8 where they are not
recursive operators.

Not modelled, with reasons in `PROJECT.json`: the rows of catalogue and settings (single
rows, last writer wins; what the admin pages do with them is in `Office`), the sums of the
analytics (reads only), presentation, migrations, seed data and scripts.
