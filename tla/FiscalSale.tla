----------------------------- MODULE FiscalSale -----------------------------
(***************************************************************************)
(* The way of a sale, and of its correction, through the backend: the      *)
(* handlers of POST /api/payment/{cash,card,split} and of                  *)
(* POST /api/pos-transactions/{id}/void, cut at every await where another  *)
(* request may run, together with the PostgreSQL tables they share (READ   *)
(* COMMITTED: a query sees committed rows, an INSERT of a key that another *)
(* open transaction holds waits for that transaction), the card terminal   *)
(* and the TSE service fiskaly outside, crashes of the server, and the     *)
(* attempt at its start to sign what was left unsigned.                    *)
(*                                                                         *)
(* Amounts, VAT and formatting are not here: the content of a row, and the *)
(* process data handed to the TSE, is the pair of what kind of receipt it  *)
(* is and what it is for.                                                  *)
(***************************************************************************)
EXTENDS Naturals, FiniteSets

CONSTANTS Request,    \* HTTP requests, each submitted at most once
          ClientId,   \* UUIDs the tills make up for their payment requests
          VoidId,     \* UUIDs the server makes up (uuid4) for corrections
          PayKind,    \* the payment endpoints in use, of cash, card and split
          Order,      \* orders to be paid
          Unslotted,  \* orders with a line whose VAT rate has no DSFinV-K slot
          None        \* SQL's NULL, or no row

Id == ClientId \cup VoidId

Content == [kind : PayKind \cup {"cancelled"}, ref : Order]
             \cup [kind : {"void"}, ref : Id]

Call == [kind : PayKind, ref : Order, id : ClientId]
          \cup [kind : {"void"}, ref : Id, id : VoidId]

Row == [number : Nat, content : Content, pending : BOOLEAN,
        data : Content \cup {None}]

LogEntry == [op : {"start", "finish"}, id : Id \cup {None}, ok : BOOLEAN]

TseTx == [state : {"none", "active", "finished"}, data : Content \cup {None}]

Job == [id : Id, signed : BOOLEAN]

ASSUME SaleAssumption ==
  /\ ClientId \cap VoidId = {}
  /\ PayKind \subseteq {"cash", "card", "split"}
  /\ Unslotted \subseteq Order
  /\ None \notin Content \cup Call \cup Row \cup Id
  /\ None \notin [number : Nat, content : Content, pending : BOOLEAN]

VARIABLES
  phase,    \* of the server process: "down", "starting" or "serving"
  todo,     \* at the start: the rows retry_pending_signatures has yet to try
  pc,       \* how far the handler of each request has come
  call,     \* what each request asked for
  verdict,  \* what the terminal told the handler about the card
  num,      \* the receipt number the handler drew, until it is in a row
  sess,     \* the row the handler's session has flushed but not committed
  slog,     \* the tse_signing_log entries of the same session
  seq,      \* receipt_number_seq: the last number drawn
  rows,     \* pos_transactions, committed
  log,      \* tse_signing_log, committed
  cards,    \* card_auths, committed: none, approved or declined for each row
  jobs,     \* receipt_print_jobs, committed
  tse,      \* the transactions as fiskaly keeps them
  charged   \* the requests for which the terminal debited a card

handler == <<pc, call, verdict, num, sess, slog>>
tables == <<seq, rows, log, cards, jobs>>
outside == <<tse, charged>>
vars == <<phase, todo, handler, tables, outside>>

Final == {"done", "declined", "refused", "failed"}

Pc == Final \cup {"idle", "authorize", "select", "check", "number", "insert",
                  "start", "finish", "commit", "cardauth", "print"}

InFlight(r) == pc[r] \notin Final \cup {"idle"}

TypeOK ==
  /\ phase \in {"down", "starting", "serving"}
  /\ todo \subseteq Id
  /\ pc \in [Request -> Pc]
  /\ call \in [Request -> Call \cup {None}]
  /\ verdict \in [Request -> {"none", "approved", "declined"}]
  /\ num \in [Request -> Nat]
  /\ sess \in [Request -> Row \cup {None}]
  /\ slog \in [Request -> SUBSET LogEntry]
  /\ seq \in Nat
  /\ rows \in [Id -> Row \cup {None}]
  /\ log \subseteq LogEntry
  /\ cards \in [Id -> {"none", "approved", "declined"}]
  /\ jobs \subseteq Job
  /\ tse \in [Id -> TseTx]
  /\ charged \subseteq Request

Init ==
  /\ phase = "serving"
  /\ todo = {}
  /\ pc = [r \in Request |-> "idle"]
  /\ call = [r \in Request |-> None]
  /\ verdict = [r \in Request |-> "none"]
  /\ num = [r \in Request |-> 0]
  /\ sess = [r \in Request |-> None]
  /\ slog = [r \in Request |-> {}]
  /\ seq = 0
  /\ rows = [c \in Id |-> None]
  /\ log = {}
  /\ cards = [c \in Id |-> "none"]
  /\ jobs = {}
  /\ tse = [c \in Id |-> [state |-> "none", data |-> None]]
  /\ charged = {}

-----------------------------------------------------------------------------
(* Requests come in.                                                       *)

(* A till makes up the id of a payment; a second request with the same id  *)
(* is the same request sent again.  The id of a correction is new.         *)
MaySubmit(c) ==
  \A q \in Request :
    call[q] # None /\ call[q].id = c.id => call[q] = c /\ c.kind # "void"

(* The handler first compares what was tendered with the order total: cash *)
(* below it, or a split that is not equal to it, is answered 400.          *)
FirstSteps(kind) ==
  CASE kind = "cash"  -> {"select", "refused"}
    [] kind = "split" -> {"authorize", "refused"}
    [] kind = "card"  -> {"authorize"}
    [] kind = "void"  -> {"check"}

Submit(r, c) ==
  /\ phase = "serving"
  /\ pc[r] = "idle"
  /\ MaySubmit(c)
  /\ \E next \in FirstSteps(c.kind) : pc' = [pc EXCEPT ![r] = next]
  /\ call' = [call EXCEPT ![r] = c]
  /\ UNCHANGED <<phase, todo, verdict, num, sess, slog, tables, outside>>

-----------------------------------------------------------------------------
(* The card terminal.                                                      *)

(* One authorisation: approved, declined, terminal not reachable, or no    *)
(* answer (or one that cannot be parsed) after the terminal has, or has    *)
(* not, debited the card.  The last two end the request with an error.     *)
AuthorizeReplies ==
  {[verdict |-> "approved", debited |-> TRUE,  next |-> "select"],
   [verdict |-> "declined", debited |-> FALSE, next |-> "select"],
   [verdict |-> "none",     debited |-> FALSE, next |-> "failed"],
   [verdict |-> "none",     debited |-> TRUE,  next |-> "failed"]}

Authorize(r) ==
  /\ pc[r] = "authorize"
  /\ \E reply \in AuthorizeReplies :
       /\ verdict' = [verdict EXCEPT ![r] = reply.verdict]
       /\ charged' = IF reply.debited THEN charged \cup {r} ELSE charged
       /\ pc' = [pc EXCEPT ![r] = reply.next]
  /\ UNCHANGED <<phase, todo, call, num, sess, slog, tables, tse>>

-----------------------------------------------------------------------------
(* PosTransactionService.finalize_sale and StornoService.void.             *)

(* Mutant of ContentOf: a declined card is booked as the sale.             *)
ContentIgnoringVerdict(r) == [kind |-> call[r].kind, ref |-> call[r].ref]

(* What the row will say: a declined card is booked as a cancelled attempt.*)
ContentOf(r) ==
  [kind |-> IF verdict[r] = "declined" THEN "cancelled" ELSE call[r].kind,
   ref  |-> call[r].ref]

(* Where the handler goes once the row is there.                           *)
AfterSale(r) ==
  CASE call[r].kind = "void" -> "done"
    [] call[r].kind = "cash" -> "print"
    [] OTHER                 -> "cardauth"

(* A row that already carries the client id is returned as it is; a VAT    *)
(* rate without a slot raises ValueError before anything is written, which *)
(* only /api/payment/card does not answer 400.                             *)
SelectStep(r) ==
  IF rows[call[r].id] # None THEN AfterSale(r)
  ELSE IF ContentOf(r).kind = "cancelled" \/ call[r].ref \notin Unslotted
       THEN "number"
       ELSE IF call[r].kind = "card" THEN "failed" ELSE "refused"

Select(r) ==
  /\ pc[r] = "select"
  /\ pc' = [pc EXCEPT ![r] = SelectStep(r)]
  /\ UNCHANGED <<phase, todo, call, verdict, num, sess, slog, tables, outside>>

PriorVoids(c) ==
  {d \in Id : rows[d] # None /\ rows[d].content = [kind |-> "void", ref |-> c]}

(* Mutant of CheckStep: a correction can be voided like a sale.            *)
CheckStepOfAnyRow(c) ==
  IF rows[c] = None THEN "failed"
  ELSE IF Cardinality(PriorVoids(c)) > 1 THEN "failed"
  ELSE IF PriorVoids(c) # {} THEN "refused"
  ELSE "number"

(* scalar_one raises when there is no original, scalar_one_or_none when    *)
(* there are several prior voids.                                          *)
CheckStep(c) ==
  IF rows[c] = None THEN "failed"
  ELSE IF rows[c].content.kind = "void" THEN "refused"
  ELSE IF Cardinality(PriorVoids(c)) > 1 THEN "failed"
  ELSE IF PriorVoids(c) # {} THEN "refused"
  ELSE "number"

CheckOriginal(r) ==
  /\ pc[r] = "check"
  /\ pc' = [pc EXCEPT ![r] = CheckStep(call[r].ref)]
  /\ UNCHANGED <<phase, todo, call, verdict, num, sess, slog, tables, outside>>

(* nextval: a sequence is not part of the transaction and is never rolled  *)
(* back.                                                                   *)
TakeNumber(r) ==
  /\ pc[r] = "number"
  /\ seq' = seq + 1
  /\ num' = [num EXCEPT ![r] = seq + 1]
  /\ pc' = [pc EXCEPT ![r] = "insert"]
  /\ UNCHANGED <<phase, todo, call, verdict, sess, slog, rows, log, cards,
                 jobs, outside>>

(* The INSERT of a client id waits while another open transaction holds    *)
(* that id, and fails when a committed row does.                           *)
KeyIsHeld(r) ==
  \E q \in Request \ {r} : sess[q] # None /\ call[q].id = call[r].id

(* Mutant of NewRow: the number is not drawn before the flush.             *)
NewRowUnnumbered(r) ==
  [number |-> None, content |-> ContentOf(r), pending |-> TRUE, data |-> None]

NewRow(r) ==
  [number |-> num[r], content |-> ContentOf(r), pending |-> TRUE,
   data |-> None]

Insert(r) ==
  /\ pc[r] = "insert"
  /\ ~KeyIsHeld(r)
  /\ IF rows[call[r].id] # None
     THEN /\ pc' = [pc EXCEPT ![r] = "failed"]
          /\ UNCHANGED sess
     ELSE /\ pc' = [pc EXCEPT ![r] = "start"]
          /\ sess' = [sess EXCEPT ![r] = NewRow(r)]
  /\ num' = [num EXCEPT ![r] = 0]
  /\ UNCHANGED <<phase, todo, call, verdict, slog, tables, outside>>

-----------------------------------------------------------------------------
(* The TSE.                                                                *)

(* Mutant of ProcessData: the basket is signed although the card was       *)
(* declined.                                                               *)
ProcessDataOfBasket(r) == [kind |-> call[r].kind, ref |-> call[r].ref]

(* build_process_data: a cancelled attempt is signed with empty sums.      *)
ProcessData(r) == ContentOf(r)

(* What one FiscalClient call comes to, retries included: an answer; an    *)
(* error that is a FiscalError ("refused": 4xx, no token, not configured), *)
(* or one that is not ("lost": transport errors and 5xx to the last        *)
(* attempt, or an answer that cannot be read).  Whatever is raised, an     *)
(* attempt may have reached fiskaly before it.                             *)
Replies(before, after, answerable) ==
  [tx : {before, after}, answer : {"refused", "lost"}]
    \cup {reply \in {[tx |-> after, answer |-> "ok"]} : answerable}

StartReplies(tx) ==
  LET after == IF tx.state = "none" THEN [tx EXCEPT !.state = "active"] ELSE tx
  IN  Replies(tx, after, TRUE)

(* fiskaly signs a transaction once.  A repeated finish is answered with   *)
(* the same signature only if it asks for the same data.                   *)
FinishReplies(tx, data) ==
  LET after == IF tx.state = "active"
               THEN [state |-> "finished", data |-> data] ELSE tx
  IN  Replies(tx, after, after = [state |-> "finished", data |-> data])

(* FiscalService._log: in the session of the sale; the entry of a start    *)
(* call names no row.                                                      *)
LogEntryOf(op, c, answer) ==
  [op |-> op, id |-> IF op = "start" THEN None ELSE c, ok |-> answer = "ok"]

(* apply_finish_to_pos_transaction                                         *)
Signed(row, data) == [row EXCEPT !.pending = FALSE, !.data = data]

(* Mutant of AfterCall: only calls that succeed are logged.                *)
AfterCallUnlogged(r, op, answer, ok, row) ==
  /\ pc' = [pc EXCEPT ![r] = CASE answer = "ok"      -> ok
                               [] answer = "refused" -> "commit"
                               [] answer = "lost"    -> "failed"]
  /\ slog' = [slog EXCEPT ![r] = CASE answer = "ok"      -> @ \cup {LogEntryOf(op, call[r].id, answer)}
                                   [] answer = "refused" -> @
                                   [] answer = "lost"    -> {}]
  /\ sess' = [sess EXCEPT ![r] = CASE answer = "ok"      -> row
                                   [] answer = "refused" -> @
                                   [] answer = "lost"    -> None]

(* Mutant of AfterCall: the session is not rolled back and keeps its lock. *)
AfterCallSessionLeft(r, op, answer, ok, row) ==
  /\ pc' = [pc EXCEPT ![r] = CASE answer = "ok"      -> ok
                               [] answer = "refused" -> "commit"
                               [] answer = "lost"    -> "failed"]
  /\ slog' = [slog EXCEPT ![r] = @ \cup {LogEntryOf(op, call[r].id, answer)}]
  /\ sess' = [sess EXCEPT ![r] = IF answer = "ok" THEN row ELSE @]

(* After a FiscalError the row is committed as it was inserted; any other  *)
(* exception leaves the handler and the session is rolled back.            *)
AfterCall(r, op, answer, ok, row) ==
  /\ pc' = [pc EXCEPT ![r] = CASE answer = "ok"      -> ok
                               [] answer = "refused" -> "commit"
                               [] answer = "lost"    -> "failed"]
  /\ slog' = [slog EXCEPT ![r] = IF answer = "lost" THEN {}
                ELSE @ \cup {LogEntryOf(op, call[r].id, answer)}]
  /\ sess' = [sess EXCEPT ![r] = IF answer = "lost" THEN None
                                 ELSE IF answer = "ok" THEN row ELSE @]

Start(r) ==
  /\ pc[r] = "start"
  /\ \E reply \in StartReplies(tse[call[r].id]) :
       /\ tse' = [tse EXCEPT ![call[r].id] = reply.tx]
       /\ AfterCall(r, "start", reply.answer, "finish", sess[r])
  /\ UNCHANGED <<phase, todo, call, verdict, num, tables, charged>>

Finish(r) ==
  /\ pc[r] = "finish"
  /\ \E reply \in FinishReplies(tse[call[r].id], ProcessData(r)) :
       /\ tse' = [tse EXCEPT ![call[r].id] = reply.tx]
       /\ AfterCall(r, "finish", reply.answer, "commit",
                    Signed(sess[r], ProcessData(r)))
  /\ UNCHANGED <<phase, todo, call, verdict, num, tables, charged>>

(* Mutant of Commit: the FiscalError branch returns without committing.    *)
CommitSignedOnly(r) ==
  /\ pc[r] = "commit"
  /\ rows' = [rows EXCEPT ![call[r].id] = IF sess[r].pending THEN @ ELSE sess[r]]
  /\ log' = IF sess[r].pending THEN log ELSE log \cup slog[r]
  /\ sess' = [sess EXCEPT ![r] = None]
  /\ slog' = [slog EXCEPT ![r] = {}]
  /\ pc' = [pc EXCEPT ![r] = AfterSale(r)]
  /\ UNCHANGED <<phase, todo, call, verdict, num, seq, cards, jobs, outside>>

Commit(r) ==
  /\ pc[r] = "commit"
  /\ rows' = [rows EXCEPT ![call[r].id] = sess[r]]
  /\ log' = log \cup slog[r]
  /\ sess' = [sess EXCEPT ![r] = None]
  /\ slog' = [slog EXCEPT ![r] = {}]
  /\ pc' = [pc EXCEPT ![r] = AfterSale(r)]
  /\ UNCHANGED <<phase, todo, call, verdict, num, seq, cards, jobs, outside>>

-----------------------------------------------------------------------------
(* After finalize_sale: the card_auths row, then the receipt.              *)

(* Mutant of RecordAuth: approved=True in the decline branch, too.         *)
RecordAuthAsApproved(r) ==
  /\ pc[r] = "cardauth"
  /\ cards[call[r].id] = "none"
  /\ pc' = [pc EXCEPT ![r] = IF verdict[r] = "declined"
                             THEN "declined" ELSE "print"]
  /\ cards' = [cards EXCEPT ![call[r].id] = "approved"]
  /\ UNCHANGED <<phase, todo, call, verdict, num, sess, slog, seq, rows, log,
                 jobs, outside>>

(* card_auths.pos_transaction_id is unique.                                *)
RecordAuth(r) ==
  /\ pc[r] = "cardauth"
  /\ IF cards[call[r].id] # "none"
     THEN /\ pc' = [pc EXCEPT ![r] = "failed"]
          /\ UNCHANGED cards
     ELSE /\ pc' = [pc EXCEPT ![r] = IF verdict[r] = "declined"
                                     THEN "declined" ELSE "print"]
          /\ cards' = [cards EXCEPT ![call[r].id] = verdict[r]]
  /\ UNCHANGED <<phase, todo, call, verdict, num, sess, slog, seq, rows, log,
                 jobs, outside>>

(* The drawer pulse leaves no state behind and its failure is swallowed;   *)
(* so is the printer's, which only shows in the status of the job (not     *)
(* kept here).                                                             *)
PrintReceipt(r) ==
  /\ pc[r] = "print"
  /\ jobs' = jobs \cup {[id |-> call[r].id,
                          signed |-> ~rows[call[r].id].pending]}
  /\ pc' = [pc EXCEPT ![r] = "done"]
  /\ UNCHANGED <<phase, todo, call, verdict, num, sess, slog, seq, rows, log,
                 cards, outside>>

-----------------------------------------------------------------------------
(* The server process.                                                     *)

Pending == {c \in Id : rows[c] # None /\ rows[c].pending}

(* Every open session is rolled back and every request in flight is lost   *)
(* to its client.                                                          *)
Crash ==
  /\ phase # "down"
  /\ phase' = "down"
  /\ todo' = {}
  /\ pc' = [r \in Request |-> IF InFlight(r) THEN "failed" ELSE pc[r]]
  /\ sess' = [r \in Request |-> None]
  /\ slog' = [r \in Request |-> {}]
  /\ num' = [r \in Request |-> 0]
  /\ UNCHANGED <<call, verdict, tables, outside>>

(* lifespan: nothing is served before the retry has run.                   *)
Restart ==
  /\ phase = "down"
  /\ phase' = "starting"
  /\ todo' = Pending
  /\ UNCHANGED <<handler, tables, outside>>

(* Both calls of one retry: a FiscalError goes on to the next row, another *)
(* exception ends the retry.  (The log entries of a try that failed are    *)
(* committed with the next row that is signed, if any; they are not kept.) *)
Resign(c) ==
  \E started \in StartReplies(tse[c]) :
    \E finished \in FinishReplies(started.tx, rows[c].data) :
      LET answers == IF started.answer = "ok"
                     THEN {finished.answer} ELSE {started.answer}
      IN  /\ tse' = [tse EXCEPT ![c] = IF started.answer = "ok"
                                       THEN finished.tx ELSE started.tx]
          /\ rows' = [rows EXCEPT ![c] = IF answers = {"ok"}
                                         THEN Signed(@, @.data) ELSE @]
          /\ log' = IF answers = {"ok"}
                    THEN log \cup {LogEntryOf(op, c, "ok") :
                                     op \in {"start", "finish"}}
                    ELSE log
          /\ todo' = IF answers = {"lost"} THEN {} ELSE todo \ {c}

(* One round of the loop in retry_pending_signatures: a row without stored *)
(* process data is passed over.                                            *)
RetryRow(c) ==
  /\ phase = "starting"
  /\ c \in todo
  /\ IF rows[c].data = None
     THEN /\ todo' = todo \ {c}
          /\ UNCHANGED <<rows, log, tse>>
     ELSE Resign(c)
  /\ UNCHANGED <<phase, handler, seq, cards, jobs, charged>>

Serve ==
  /\ phase = "starting"
  /\ todo = {}
  /\ phase' = "serving"
  /\ UNCHANGED <<todo, handler, tables, outside>>

-----------------------------------------------------------------------------
Handle(r) ==
  \/ Authorize(r)
  \/ Select(r)
  \/ CheckOriginal(r)
  \/ TakeNumber(r)
  \/ Insert(r)
  \/ Start(r)
  \/ Finish(r)
  \/ Commit(r)
  \/ RecordAuth(r)
  \/ PrintReceipt(r)

Next ==
  \/ \E r \in Request : Handle(r)
  \/ \E r \in Request, c \in Call : Submit(r, c)
  \/ \E c \in Id : RetryRow(c)
  \/ Crash
  \/ Restart
  \/ Serve

Spec == Init /\ [][Next]_vars

(* The event loop resumes a coroutine whose await is over, and no await is *)
(* without an end: the HTTP client, the terminal and the database answer   *)
(* or time out.  No till has to submit anything, and no crash has to come. *)
FairSpec == Spec /\ \A r \in Request : WF_vars(Handle(r))

-----------------------------------------------------------------------------
(* Properties.                                                             *)

Booked(c) == rows[c] # None

(* A request whose id no other request carried.                            *)
Sole(r) ==
  /\ call[r] # None
  /\ \A q \in Request \ {r} : call[q] # None => call[q].id # call[r].id

(* A row that counts as signed is one the TSE has finished, over exactly   *)
(* what the row says, also when a first try was lost after it reached the  *)
(* TSE, the card was declined then and is approved now, or the server came *)
(* back in between (pos_transaction.py, fiscal/service.py).                *)
SignatureMatchesBooks ==
  \A c \in Id :
    Booked(c) /\ ~rows[c].pending =>
      /\ rows[c].data = rows[c].content
      /\ tse[c] = [state |-> "finished", data |-> rows[c].content]

(* No sale is booked as paid by card unless the terminal approved, and     *)
(* debited, a request for that very sale (payment/service.py).             *)
OnlyApprovedCardSalesBooked ==
  \A c \in Id :
    Booked(c) /\ rows[c].content.kind \in {"card", "split"} =>
      \E r \in charged :
        /\ verdict[r] = "approved"
        /\ call[r].id = c
        /\ call[r].ref = rows[c].content.ref

(* Where a till did not send its request twice, the three records of a     *)
(* card payment agree: card_auths says approved exactly when the terminal  *)
(* has debited, and declined exactly when the books have a cancelled       *)
(* attempt; and there is none without a booked row.                        *)
CardAuthAgreesWithBooks ==
  \A r \in Request :
    Sole(r) /\ cards[call[r].id] # "none" =>
      /\ Booked(call[r].id)
      /\ cards[call[r].id] = "approved" <=> r \in charged
      /\ cards[call[r].id] = "declined"
           <=> rows[call[r].id].content.kind = "cancelled"

(* The committed log accounts for the state of every committed row: a      *)
(* signed one by a finish that succeeded, a pending one by a call that     *)
(* failed (fiscal/service.py _log shares the session with the row).        *)
LogExplainsRows ==
  \A c \in Id : Booked(c) =>
    IF rows[c].pending
    THEN \E e \in log : ~e.ok /\ (e.op = "start" \/ e.id = c)
    ELSE LogEntryOf("finish", c, "ok") \in log

(* A till that is told its payment went through, or has a receipt for it,  *)
(* finds in the books what it asked for: always for cash and corrections,  *)
(* for cards if it did not send the request twice.                         *)
AnsweredIsBooked ==
  \A r \in Request :
    pc[r] \in {"print", "done"} /\ (Sole(r) \/ call[r].kind = "cash") =>
      /\ Booked(call[r].id)
      /\ rows[call[r].id].content = ContentOf(r)

(* The books keep the promise of FiscalJournal through all of this.        *)
Journal ==
  [c \in Id |-> IF rows[c] = None THEN None
                ELSE [number |-> rows[c].number, content |-> rows[c].content,
                      pending |-> rows[c].pending]]

Books == INSTANCE FiscalJournal WITH journal <- Journal

ImplementsJournal == Books!Spec

(* Every request that comes in is answered, be it with an error, whatever  *)
(* fiskaly and the terminal do, and although an INSERT may have to wait    *)
(* for the transaction of another request.                                 *)
Answered ==
  \A r \in Request : (pc[r] # "idle") ~> (pc[r] \in Final)

-----------------------------------------------------------------------------
(* Claims of the documents that the code does not keep; each is the        *)
(* subject of a run that shows how.                                        *)

(* While the server runs, a request whose card was approved does not end   *)
(* without a row in the books: on an outage of fiskaly the row is written  *)
(* as pending (design document, "Fiskaly outage handling" and step 5 of    *)
(* the sale sequence).                                                     *)
ApprovedCardIsBooked ==
  [][\A r \in Request :
       /\ verdict[r] = "approved"
       /\ InFlight(r) /\ pc'[r] \in Final
       /\ phase' = "serving"
       => rows'[call[r].id] # None]_vars

(* client_id is an idempotency key: sending a request again does not debit *)
(* a card a second time (design document, table pos_transaction).          *)
OneChargePerClientId ==
  \A q, r \in Request :
    /\ q # r
    /\ verdict[q] = "approved" /\ verdict[r] = "approved"
    => call[q].id # call[r].id

(* A sale is voided once: a second void is answered "transaction already   *)
(* voided" (storno.py).                                                    *)
VoidedOnce == \A c \in Id : Cardinality(PriorVoids(c)) <= 1

(* The server is started again and again, and each row left pending is     *)
(* reached by the retry again and again.                                   *)
RestartingSpec ==
  /\ FairSpec
  /\ WF_vars(Restart)
  /\ WF_vars(Serve)
  /\ SF_vars(Crash)
  /\ \A c \in Id : SF_vars(RetryRow(c))

(* Then a pending row is signed in the end (design document: "background   *)
(* job retries. Resumed signing closes the gap").                          *)
PendingIsSigned ==
  \A c \in Id : (Booked(c) /\ rows[c].pending) ~> (Booked(c) /\ ~rows[c].pending)

=============================================================================
