-------------------------- MODULE FiscalSaleProofs --------------------------
(***************************************************************************)
(* Proofs about FiscalSale for any number of requests, ids and orders.     *)
(***************************************************************************)
EXTENDS FiscalSale, TLAPS

-----------------------------------------------------------------------------
(* The inductive invariant, in parts.                                      *)

CardKind == {"card", "split"}

Writing == {"start", "finish", "commit"}

Holding == {"insert"} \cup Writing

(* What the place of a handler in its code says about its own variables.   *)
Flow ==
  \A r \in Request :
    /\ pc[r] # "idle" => call[r] # None
    /\ pc[r] \in {"idle", "authorize", "check"} => verdict[r] = "none"
    /\ verdict[r] = "approved" => r \in charged
    /\ pc[r] \in {"authorize", "cardauth"} => call[r].kind \in CardKind
    /\ pc[r] = "check" => call[r].kind = "void"
    /\ pc[r] \in Holding \cup {"select", "number", "cardauth"} =>
         (call[r].kind \in CardKind <=> verdict[r] # "none")
    /\ sess[r] # None <=> pc[r] \in Writing

(* While the server is not serving no handler runs, and what the retry has *)
(* yet to look at is pending.                                              *)
Serving ==
  /\ phase # "serving" => \A r \in Request : ~InFlight(r)
  /\ phase # "starting" => todo = {}
  /\ todo \subseteq Pending

(* An open session holds a row nobody else has, unsigned unless the TSE    *)
(* has finished it.                                                        *)
Sessions ==
  /\ \A r \in Request : sess[r] # None =>
       /\ sess[r].content = ContentOf(r)
       /\ rows[call[r].id] = None
       /\ pc[r] # "commit" => sess[r].pending
       /\ sess[r].pending => sess[r].data = None
       /\ ~sess[r].pending =>
            /\ sess[r].data = sess[r].content
            /\ tse[call[r].id] = [state |-> "finished", data |-> sess[r].content]
  /\ \A q, r \in Request :
       q # r /\ sess[q] # None /\ sess[r] # None => call[q].id # call[r].id

(* No pending row has process data.                                        *)
PendingHasNoData ==
  \A c \in Id : Booked(c) /\ rows[c].pending => rows[c].data = None

IInv == TypeOK /\ Flow /\ Serving /\ Sessions /\ PendingHasNoData
          /\ SignatureMatchesBooks /\ OnlyApprovedCardSalesBooked

-----------------------------------------------------------------------------
(* What a handler books is something the books can hold.                   *)
LEMMA ContentType ==
  ASSUME TypeOK, Flow, NEW r \in Request,
         pc[r] \in Holding \cup {"select", "number", "cardauth"}
  PROVE  /\ call[r] \in Call
         /\ call[r].id \in Id
         /\ ContentOf(r) \in Content
         /\ ContentOf(r).kind \in CardKind =>
              /\ verdict[r] = "approved"
              /\ r \in charged
              /\ call[r].ref = ContentOf(r).ref
<1>1. call[r] \in Call
  BY DEF TypeOK, Flow, Holding, Writing
<1>2. call[r].id \in Id
  BY <1>1 DEF Call, Id
<1>3. ContentOf(r) \in Content
  BY <1>1, SaleAssumption
     DEF TypeOK, Flow, Call, Content, ContentOf, Id, CardKind, Holding, Writing
<1>4. ASSUME ContentOf(r).kind \in CardKind
      PROVE  /\ verdict[r] = "approved"
             /\ r \in charged
             /\ call[r].ref = ContentOf(r).ref
  BY <1>1, <1>4 DEF TypeOK, Flow, ContentOf, CardKind
<1> QED  BY <1>1, <1>2, <1>3, <1>4

LEMMA InitIInv == Init => IInv
  BY SaleAssumption
     DEF Init, IInv, TypeOK, Flow, Serving, Sessions, PendingHasNoData, Pc,
         Final, TseTx, InFlight, Pending, SignatureMatchesBooks,
         OnlyApprovedCardSalesBooked, Booked, CardKind, Holding, Writing

(* The replies of the TSE are transactions, and one it has finished stays  *)
(* as it is.                                                               *)
LEMMA RepliesType ==
  ASSUME NEW tx \in TseTx, NEW data \in Content
  PROVE  /\ \A reply \in StartReplies(tx) :
              /\ reply.tx \in TseTx
              /\ reply.answer \in {"ok", "refused", "lost"}
              /\ tx.state = "finished" => reply.tx = tx
         /\ \A reply \in FinishReplies(tx, data) :
              /\ reply.tx \in TseTx
              /\ reply.answer \in {"ok", "refused", "lost"}
              /\ tx.state = "finished" => reply.tx = tx
              /\ reply.answer = "ok" =>
                   reply.tx = [state |-> "finished", data |-> data]
<1>1. \A reply \in StartReplies(tx) :
        /\ reply.tx \in TseTx
        /\ reply.answer \in {"ok", "refused", "lost"}
        /\ tx.state = "finished" => reply.tx = tx
  BY DEF StartReplies, Replies, TseTx
<1>2. \A reply \in FinishReplies(tx, data) :
        /\ reply.tx \in TseTx
        /\ reply.answer \in {"ok", "refused", "lost"}
        /\ tx.state = "finished" => reply.tx = tx
        /\ reply.answer = "ok" =>
             reply.tx = [state |-> "finished", data |-> data]
  BY DEF FinishReplies, Replies, TseTx
<1> QED  BY <1>1, <1>2

(* Signing adds the process data and clears the flag, and nothing else.    *)
LEMMA SignedRow ==
  ASSUME NEW row \in Row, NEW data \in Content
  PROVE  /\ Signed(row, data) \in Row
         /\ Signed(row, data) # None
         /\ Signed(row, data).content = row.content
         /\ Signed(row, data).number = row.number
         /\ Signed(row, data).pending = FALSE
         /\ Signed(row, data).data = data
<1> DEFINE halfway == [row EXCEPT !.pending = FALSE]
<1>1. /\ halfway \in Row
      /\ halfway.content = row.content
      /\ halfway.number = row.number
      /\ halfway.pending = FALSE
  BY DEF Row
<1>2. Signed(row, data) = [halfway EXCEPT !.data = data]
  BY DEF Signed
<1> HIDE DEF halfway
<1>3. /\ Signed(row, data) \in Row
      /\ Signed(row, data).content = row.content
      /\ Signed(row, data).number = row.number
      /\ Signed(row, data).pending = FALSE
      /\ Signed(row, data).data = data
  BY <1>1, <1>2 DEF Row
<1> QED  BY <1>3, SaleAssumption

(* Where the steps that look at the tables may lead.                       *)
LEMMA NextSteps ==
  /\ \A c : CheckStep(c) \in {"failed", "refused", "number"}
  /\ \A c : CheckStep(c) = "number" =>
       rows[c] # None /\ rows[c].content.kind # "void"
  /\ \A r : SelectStep(r) \in {AfterSale(r), "failed", "refused", "number"}
  /\ \A r : SelectStep(r) = AfterSale(r) \/ rows[call[r].id] = None
  /\ \A r : AfterSale(r) \in {"done", "print", "cardauth"}
  /\ \A r : call[r].kind \in CardKind => AfterSale(r) = "cardauth"
  /\ \A r : AfterSale(r) = "cardauth" => call[r].kind \notin {"void", "cash"}
  /\ \A kind \in {"cash", "card", "split", "void"} :
       \A next \in FirstSteps(kind) :
         /\ next \in {"select", "authorize", "check", "refused"}
         /\ next = "authorize" => kind \in CardKind
         /\ next = "check" => kind = "void"
         /\ next = "select" => kind = "cash"
<1>1. \A c : CheckStep(c) \in {"failed", "refused", "number"}
  BY DEF CheckStep
<1>2. \A c : CheckStep(c) = "number" =>
               rows[c] # None /\ rows[c].content.kind # "void"
  BY DEF CheckStep
<1>3. \A r : SelectStep(r) \in {AfterSale(r), "failed", "refused", "number"}
  BY DEF SelectStep
<1>4. \A r : SelectStep(r) = AfterSale(r) \/ rows[call[r].id] = None
  BY DEF SelectStep
<1>5. \A r : AfterSale(r) \in {"done", "print", "cardauth"}
  BY DEF AfterSale
<1>6. \A r : call[r].kind \in CardKind => AfterSale(r) = "cardauth"
  BY DEF AfterSale, CardKind
<1>7. \A r : AfterSale(r) = "cardauth" => call[r].kind \notin {"void", "cash"}
  BY DEF AfterSale
<1>8. \A kind \in {"cash", "card", "split", "void"} :
        \A next \in FirstSteps(kind) :
          /\ next \in {"select", "authorize", "check", "refused"}
          /\ next = "authorize" => kind \in CardKind
          /\ next = "check" => kind = "void"
          /\ next = "select" => kind = "cash"
  <2>1. /\ FirstSteps("cash") = {"select", "refused"}
        /\ FirstSteps("split") = {"authorize", "refused"}
        /\ FirstSteps("card") = {"authorize"}
        /\ FirstSteps("void") = {"check"}
    BY DEF FirstSteps
  <2> QED  BY <2>1 DEF CardKind
<1> QED  BY <1>1, <1>2, <1>3, <1>4, <1>5, <1>6, <1>7, <1>8

(* What the retry finds is pending, and has no process data: it is passed  *)
(* over (fiscal/service.py:170-171).                                       *)
LEMMA RetryPassesOver ==
  ASSUME IInv, NEW c \in Id, RetryRow(c)
  PROVE  /\ todo' = todo \ {c}
         /\ UNCHANGED <<phase, handler, seq, rows, log, cards, jobs, tse, charged>>
<1>1. rows[c].data = None
  BY DEF IInv, Serving, Pending, PendingHasNoData, Booked, RetryRow
<1> QED  BY <1>1 DEF RetryRow

LEMMA StepTypeFlow == IInv /\ [Next]_vars => TypeOK' /\ Flow'
<1> SUFFICES ASSUME IInv, [Next]_vars PROVE TypeOK' /\ Flow'
  OBVIOUS
<1> USE DEF IInv
<1>1. ASSUME NEW r \in Request, NEW c \in Call, Submit(r, c)
      PROVE  TypeOK' /\ Flow'
  <2>1. PICK next \in FirstSteps(c.kind) : pc' = [pc EXCEPT ![r] = next]
    BY <1>1 DEF Submit
  <2>2. /\ pc[r] = "idle"
        /\ call' = [call EXCEPT ![r] = c]
        /\ UNCHANGED <<phase, todo, verdict, num, sess, slog, tables, outside>>
    BY <1>1 DEF Submit
  <2>3. c.kind \in {"cash", "card", "split", "void"}
    BY SaleAssumption DEF Call
  <2>4. /\ next \in {"select", "authorize", "check", "refused"}
        /\ next = "authorize" => c.kind \in CardKind
        /\ next = "check" => c.kind = "void"
        /\ next = "select" => c.kind = "cash"
    BY <2>3, NextSteps
  <2>5. TypeOK'
    BY <2>1, <2>2, <2>4 DEF TypeOK, Pc, Final, tables, outside
  <2>6. c # None
    BY SaleAssumption
  <2>7. Flow'
    BY <2>1, <2>2, <2>4, <2>6
       DEF TypeOK, Flow, outside, Holding, Writing, CardKind
  <2> QED  BY <2>5, <2>7
<1>2. ASSUME NEW r \in Request, Authorize(r)
      PROVE  TypeOK' /\ Flow'
  <2>1. TypeOK'
    BY <1>2 DEF Authorize, TypeOK, Pc, Final, AuthorizeReplies, tables
  <2>2. Flow'
    BY <1>2 DEF Authorize, TypeOK, Flow, Pc, Final, AuthorizeReplies, tables,
       Holding, Writing, CardKind
  <2> QED  BY <2>1, <2>2
<1>3. ASSUME NEW r \in Request, Select(r)
      PROVE  TypeOK' /\ Flow'
  <2>1. PICK next \in {"done", "print", "cardauth", "failed", "refused", "number"} :
           /\ pc' = [pc EXCEPT ![r] = next]
           /\ next = "cardauth" => call[r].kind \notin {"void", "cash"}
    BY <1>3, NextSteps DEF Select
  <2>2. /\ pc[r] = "select"
        /\ UNCHANGED <<phase, todo, call, verdict, num, sess, slog, tables, outside>>
        /\ call[r] \in Call
    BY <1>3, ContentType DEF Select
  <2>3. TypeOK'
    BY <2>1, <2>2 DEF TypeOK, Pc, Final, tables, outside
  <2>4. call[r].kind \in {"cash", "card", "split", "void"}
    BY <2>2, SaleAssumption DEF Call
  <2>5. Flow'
    BY <2>1, <2>2, <2>4 DEF TypeOK, Flow, outside, Holding, Writing, CardKind
  <2> QED  BY <2>3, <2>5
<1>4. ASSUME NEW r \in Request, CheckOriginal(r)
      PROVE  TypeOK' /\ Flow'
  <2>1. PICK next \in {"failed", "refused", "number"} :
           pc' = [pc EXCEPT ![r] = next]
    BY <1>4, NextSteps DEF CheckOriginal
  <2>2. /\ pc[r] = "check"
        /\ UNCHANGED <<phase, todo, call, verdict, num, sess, slog, tables, outside>>
    BY <1>4 DEF CheckOriginal
  <2>3. TypeOK'
    BY <2>1, <2>2 DEF TypeOK, Pc, Final, tables, outside
  <2>4. Flow'
    BY <2>1, <2>2 DEF TypeOK, Flow, outside, Holding, Writing, CardKind
  <2> QED  BY <2>3, <2>4
<1>5. ASSUME NEW r \in Request, TakeNumber(r)
      PROVE  TypeOK' /\ Flow'
  <2>1. TypeOK'
    BY <1>5 DEF TakeNumber, TypeOK, Pc, Final, tables, outside
  <2>2. Flow'
    BY <1>5 DEF TakeNumber, TypeOK, Flow, Pc, Final, tables, outside,
       Holding, Writing, CardKind
  <2> QED  BY <2>1, <2>2
<1>6. ASSUME NEW r \in Request, Insert(r)
      PROVE  TypeOK' /\ Flow'
  <2>a. ContentOf(r) \in Content /\ num[r] \in Nat
    BY <1>6, ContentType DEF Insert, TypeOK, Holding, Writing
  <2>b. NewRow(r) \in Row
    BY <2>a DEF NewRow, Row
  <2>0. NewRow(r) \in Row /\ NewRow(r) # None
    BY <2>b, SaleAssumption
  <2>1. TypeOK'
    BY <1>6, <2>0 DEF Insert, TypeOK, Pc, Final, tables, outside
  <2>2. Flow'
    BY <1>6, <2>0 DEF Insert, TypeOK, Flow, Pc, Final, tables, outside,
       Holding, Writing, CardKind
  <2> QED  BY <2>1, <2>2
<1>7. ASSUME NEW r \in Request, Start(r)
      PROVE  TypeOK' /\ Flow'
  <2>0. PICK reply \in StartReplies(tse[call[r].id]) :
           /\ tse' = [tse EXCEPT ![call[r].id] = reply.tx]
           /\ AfterCall(r, "start", reply.answer, "finish", sess[r])
    BY <1>7 DEF Start
  <2>1. /\ pc[r] = "start"
        /\ UNCHANGED <<phase, todo, call, verdict, num, charged>>
        /\ UNCHANGED <<seq, rows, log, cards, jobs>>
    BY <1>7 DEF Start, tables
  <2>2. /\ call[r].id \in Id
        /\ sess[r] \in Row
        /\ sess[r] # None
        /\ ContentOf(r) \in Content
    BY <2>1, ContentType DEF TypeOK, Flow, Holding, Writing
  <2>3. reply.tx \in TseTx /\ reply.answer \in {"ok", "refused", "lost"}
    BY <2>0, <2>2, RepliesType DEF TypeOK
  <2>4. LogEntryOf("start", call[r].id, reply.answer) \in LogEntry
    BY <2>2 DEF LogEntryOf, LogEntry
  <2>5. /\ pc' = [pc EXCEPT ![r] = IF reply.answer = "ok" THEN "finish"
                                   ELSE IF reply.answer = "refused" THEN "commit"
                                   ELSE "failed"]
        /\ slog' = [slog EXCEPT ![r] = IF reply.answer = "lost" THEN {}
                      ELSE @ \cup {LogEntryOf("start", call[r].id, reply.answer)}]
        /\ sess' = [sess EXCEPT ![r] = IF reply.answer = "lost" THEN None
                                       ELSE @]
    BY <2>0, <2>3 DEF AfterCall, TypeOK
  <2>6. TypeOK'
    BY <2>0, <2>1, <2>2, <2>3, <2>4, <2>5 DEF TypeOK, Pc, Final
  <2>7. Flow'
    BY <2>1, <2>2, <2>3, <2>5 DEF TypeOK, Flow, Pc, Final, Holding, Writing, CardKind
  <2> QED  BY <2>6, <2>7
<1>8. ASSUME NEW r \in Request, Finish(r)
      PROVE  TypeOK' /\ Flow'
  <2>0. PICK reply \in FinishReplies(tse[call[r].id], ProcessData(r)) :
           /\ tse' = [tse EXCEPT ![call[r].id] = reply.tx]
           /\ AfterCall(r, "finish", reply.answer, "commit", Signed(sess[r], ProcessData(r)))
    BY <1>8 DEF Finish
  <2>1. /\ pc[r] = "finish"
        /\ UNCHANGED <<phase, todo, call, verdict, num, charged>>
        /\ UNCHANGED <<seq, rows, log, cards, jobs>>
    BY <1>8 DEF Finish, tables
  <2>2. /\ call[r].id \in Id
        /\ sess[r] \in Row
        /\ sess[r] # None
        /\ ContentOf(r) \in Content
    BY <2>1, ContentType DEF TypeOK, Flow, Holding, Writing
  <2>3. /\ reply.tx \in TseTx
        /\ reply.answer \in {"ok", "refused", "lost"}
        /\ Signed(sess[r], ProcessData(r)) \in Row
        /\ Signed(sess[r], ProcessData(r)) # None
    BY <2>0, <2>2, RepliesType, SignedRow DEF TypeOK, ProcessData
  <2>4. LogEntryOf("finish", call[r].id, reply.answer) \in LogEntry
    BY <2>2 DEF LogEntryOf, LogEntry
  <2>5. /\ pc' = [pc EXCEPT ![r] = IF reply.answer = "ok" THEN "commit"
                                   ELSE IF reply.answer = "refused" THEN "commit"
                                   ELSE "failed"]
        /\ slog' = [slog EXCEPT ![r] = IF reply.answer = "lost" THEN {}
                      ELSE @ \cup {LogEntryOf("finish", call[r].id, reply.answer)}]
        /\ sess' = [sess EXCEPT ![r] = IF reply.answer = "lost" THEN None
                                       ELSE IF reply.answer = "ok"
                                       THEN Signed(sess[r], ProcessData(r)) ELSE @]
    BY <2>0, <2>3 DEF AfterCall, TypeOK
  <2>6. TypeOK'
    BY <2>0, <2>1, <2>2, <2>3, <2>4, <2>5 DEF TypeOK, Pc, Final
  <2>7. Flow'
    BY <2>1, <2>2, <2>3, <2>5 DEF TypeOK, Flow, Pc, Final, Holding, Writing, CardKind
  <2> QED  BY <2>6, <2>7
<1>9. ASSUME NEW r \in Request, Commit(r)
      PROVE  TypeOK' /\ Flow'
  <2>1. /\ call[r].id \in Id
        /\ sess[r] \in Row
        /\ AfterSale(r) \in {"done", "print", "cardauth"}
        /\ call[r].kind \in CardKind => AfterSale(r) = "cardauth"
        /\ AfterSale(r) = "cardauth" => call[r].kind \notin {"void", "cash"}
        /\ call[r] \in Call
    BY <1>9, ContentType, NextSteps
       DEF Commit, TypeOK, Flow, Holding, Writing
  <2>2. TypeOK'
    BY <1>9, <2>1 DEF Commit, TypeOK, Pc, Final, outside
  <2>3. /\ pc[r] = "commit" /\ pc' = [pc EXCEPT ![r] = AfterSale(r)]
        /\ sess' = [sess EXCEPT ![r] = None]
        /\ UNCHANGED <<call, verdict, charged>>
    BY <1>9 DEF Commit, outside
  <2>4. AfterSale(r) = "cardauth" => call[r].kind \in CardKind
    BY <2>1, SaleAssumption DEF CardKind, Call
  <2>5. Flow'
    BY <2>1, <2>3, <2>4 DEF TypeOK, Flow, Holding, Writing
  <2> QED  BY <2>2, <2>5
<1>10. ASSUME NEW r \in Request, RecordAuth(r)
       PROVE  TypeOK' /\ Flow'
  <2>1. call[r].id \in Id
    BY <1>10, ContentType DEF RecordAuth
  <2>2. TypeOK'
    BY <1>10, <2>1 DEF RecordAuth, TypeOK, Pc, Final, outside
  <2>3. Flow'
    BY <1>10 DEF RecordAuth, TypeOK, Flow, Pc, Final, outside, Holding,
       Writing, CardKind
  <2> QED  BY <2>2, <2>3
<1>11. ASSUME NEW r \in Request, PrintReceipt(r)
       PROVE  TypeOK' /\ Flow'
  <2>1. call[r] \in Call /\ call[r].id \in Id
    BY <1>11 DEF PrintReceipt, TypeOK, Flow, Call, Id
  <2>a. [id |-> call[r].id, signed |-> ~rows[call[r].id].pending] \in Job
    BY <2>1 DEF Job
  <2>2. TypeOK'
    BY <1>11, <2>a DEF PrintReceipt, TypeOK, Pc, Final, outside
  <2>3. Flow'
    BY <1>11 DEF PrintReceipt, TypeOK, Flow, Pc, Final, outside, Holding,
       Writing, CardKind
  <2> QED  BY <2>2, <2>3
<1>12. CASE Crash
  <2>1. TypeOK'
    BY <1>12 DEF Crash, TypeOK, Pc, Final, tables, outside
  <2>2. Flow'
    BY <1>12 DEF Crash, TypeOK, Flow, Pc, Final, tables, outside, Holding,
       Writing, CardKind, InFlight
  <2> QED  BY <2>1, <2>2
<1>13. CASE Restart
  <2>1. TypeOK'
    BY <1>13 DEF Restart, TypeOK, Pending, handler, tables, outside
  <2>2. Flow'
    BY <1>13 DEF Restart, Flow, handler, tables, outside
  <2> QED  BY <2>1, <2>2
<1>14. ASSUME NEW c \in Id, RetryRow(c)
       PROVE  TypeOK' /\ Flow'
  <2>1. /\ todo' = todo \ {c}
        /\ UNCHANGED <<phase, handler, tables, outside>>
    BY <1>14, RetryPassesOver DEF tables, outside
  <2>2. TypeOK'
    BY <2>1 DEF TypeOK, handler, tables, outside
  <2>3. Flow'
    BY <2>1 DEF Flow, handler, tables, outside
  <2> QED  BY <2>2, <2>3
<1>15. CASE Serve
  <2>1. TypeOK'
    BY <1>15 DEF Serve, TypeOK, handler, tables, outside
  <2>2. Flow'
    BY <1>15 DEF Serve, Flow, handler, tables, outside
  <2> QED  BY <2>1, <2>2
<1>16. CASE UNCHANGED vars
  <2>1. TypeOK'
    BY <1>16 DEF TypeOK, vars, handler, tables, outside
  <2>2. Flow'
    BY <1>16 DEF Flow, vars, handler, tables, outside
  <2> QED  BY <2>1, <2>2
<1> QED
  BY <1>1, <1>2, <1>3, <1>4, <1>5, <1>6, <1>7, <1>8, <1>9, <1>10, <1>11,
     <1>12, <1>13, <1>14, <1>15, <1>16 DEF Next, Handle

-----------------------------------------------------------------------------
(* A handler runs only in a server that serves.                            *)
LEMMA HandlerServes ==
  ASSUME IInv, NEW r \in Request, Handle(r)
  PROVE  phase = "serving" /\ todo = {} /\ UNCHANGED <<phase, todo>>
<1>1. InFlight(r)
  BY DEF Handle, Authorize, Select, CheckOriginal, TakeNumber, Insert, Start,
         Finish, Commit, RecordAuth, PrintReceipt, InFlight, Final
<1>2. phase = "serving" /\ todo = {}
  BY <1>1 DEF IInv, Serving, TypeOK
<1>3. UNCHANGED <<phase, todo>>
  BY DEF Handle, Authorize, Select, CheckOriginal, TakeNumber, Insert, Start,
         Finish, Commit, RecordAuth, PrintReceipt
<1> QED  BY <1>2, <1>3

LEMMA StepServing == IInv /\ [Next]_vars => Serving'
<1> SUFFICES ASSUME IInv, [Next]_vars PROVE Serving'
  OBVIOUS
<1>1. ASSUME NEW r \in Request, Handle(r)
      PROVE  Serving'
  BY <1>1, HandlerServes DEF Serving
<1>2. ASSUME NEW r \in Request, NEW c \in Call, Submit(r, c)
      PROVE  Serving'
  BY <1>2 DEF IInv, Serving, Submit
<1>3. ASSUME NEW c \in Id, RetryRow(c)
      PROVE  Serving'
  <2>1. /\ todo' = todo \ {c}
        /\ UNCHANGED <<phase, pc, rows>>
    BY <1>3, RetryPassesOver DEF handler
  <2>2. phase = "starting"
    BY <1>3 DEF RetryRow
  <2> QED  BY <2>1, <2>2 DEF IInv, Serving, Pending, InFlight
<1>4. CASE Crash
  BY <1>4 DEF Crash, Serving, InFlight, Final
<1>5. CASE Restart
  BY <1>5 DEF IInv, Restart, Serving, Pending, InFlight, handler, tables
<1>6. CASE Serve
  BY <1>6 DEF IInv, Serve, Serving, Pending
<1>7. CASE UNCHANGED vars
  BY <1>7 DEF IInv, Serving, Pending, InFlight, vars, handler, tables
<1> QED  BY <1>1, <1>2, <1>3, <1>4, <1>5, <1>6, <1>7 DEF Next

-----------------------------------------------------------------------------
(* What sessions, rows and signatures have to do with one another.         *)

Consistent == /\ Sessions
              /\ PendingHasNoData
              /\ SignatureMatchesBooks
              /\ OnlyApprovedCardSalesBooked

(* A step of a handler without an open session that writes no row and does *)
(* not touch the TSE leaves the four as they are, as long as an approval,  *)
(* once given, stays where it is.                                          *)
LEMMA QuietStep ==
  ASSUME IInv, NEW r \in Request,
         sess[r] = None,
         UNCHANGED <<sess, rows, tse>>,
         \A q \in Request \ {r} :
           /\ pc'[q] = pc[q]
           /\ call'[q] = call[q]
           /\ verdict'[q] = verdict[q],
         verdict[r] = "approved" =>
           call'[r] = call[r] /\ verdict'[r] = "approved",
         charged \subseteq charged'
  PROVE  Consistent'
<1> USE DEF IInv
<1>1. \A q \in Request : sess[q] # None =>
        pc'[q] = pc[q] /\ call'[q] = call[q] /\ ContentOf(q)' = ContentOf(q)
  BY DEF ContentOf
<1>2. Sessions'
  BY <1>1 DEF Sessions
<1>3. PendingHasNoData' /\ SignatureMatchesBooks'
  BY DEF PendingHasNoData, SignatureMatchesBooks, Booked
<1>4. OnlyApprovedCardSalesBooked'
  <2> SUFFICES ASSUME NEW c \in Id, Booked(c),
                      rows[c].content.kind \in {"card", "split"}
               PROVE  \E q \in charged' :
                        /\ verdict'[q] = "approved"
                        /\ call'[q].id = c
                        /\ call'[q].ref = rows[c].content.ref
    BY DEF OnlyApprovedCardSalesBooked, Booked
  <2>1. PICK q \in charged : /\ verdict[q] = "approved"
                             /\ call[q].id = c
                             /\ call[q].ref = rows[c].content.ref
    BY DEF OnlyApprovedCardSalesBooked
  <2>2. q \in Request /\ q \in charged'
    BY <2>1 DEF TypeOK
  <2>3. verdict'[q] = "approved" /\ call'[q] = call[q]
    BY <2>1, <2>2
  <2> QED  BY <2>1, <2>2, <2>3
<1> QED  BY <1>2, <1>3, <1>4 DEF Consistent

(* As long as no row is written and no approval is touched, the books need *)
(* nothing but a TSE that keeps what it has finished for a booked row.     *)
LEMMA RowsKept ==
  ASSUME IInv,
         UNCHANGED <<rows, verdict, call, charged>>,
         \A c \in Id : Booked(c) => tse'[c] = tse[c]
  PROVE  /\ PendingHasNoData'
         /\ SignatureMatchesBooks'
         /\ OnlyApprovedCardSalesBooked'
  BY DEF IInv, PendingHasNoData, SignatureMatchesBooks,
         OnlyApprovedCardSalesBooked, Booked

(* The handler with an open session is alone with its id: the row and the  *)
(* TSE transaction it works on belong to no other session and to no row.   *)
LEMMA SessionIsAlone ==
  ASSUME IInv, NEW r \in Request, pc[r] \in Writing
  PROVE  /\ sess[r] \in Row
         /\ sess[r] # None
         /\ sess[r].content = ContentOf(r)
         /\ ContentOf(r) \in Content
         /\ call[r].id \in Id
         /\ rows[call[r].id] = None
         /\ \A q \in Request \ {r} : sess[q] # None => call[q].id # call[r].id
<1>1. sess[r] # None /\ sess[r] \in Row
  BY DEF IInv, TypeOK, Flow
<1>2. ContentOf(r) \in Content /\ call[r].id \in Id
  BY ContentType DEF IInv, Holding
<1>3. /\ sess[r].content = ContentOf(r)
      /\ rows[call[r].id] = None
      /\ \A q \in Request \ {r} : sess[q] # None => call[q].id # call[r].id
  BY <1>1 DEF IInv, Sessions
<1> QED  BY <1>1, <1>2, <1>3

LEMMA InsertConsistent ==
  ASSUME IInv, NEW r \in Request, Insert(r)
  PROVE  Consistent'
<1> USE DEF IInv
<1>1. /\ pc[r] = "insert"
      /\ sess[r] = None
      /\ ~KeyIsHeld(r)
      /\ UNCHANGED <<call, verdict, rows, tse, charged>>
  BY DEF Insert, Flow, Writing, tables, outside
<1>2. \A q \in Request : ContentOf(q)' = ContentOf(q)
  BY <1>1 DEF ContentOf
<1>3. CASE rows[call[r].id] # None
  <2>1. UNCHANGED sess /\ \A q \in Request \ {r} : pc'[q] = pc[q]
    BY <1>3 DEF Insert, TypeOK
  <2> QED  BY <1>1, <2>1, QuietStep
<1>4. CASE rows[call[r].id] = None
  <2>1. /\ pc' = [pc EXCEPT ![r] = "start"]
        /\ sess' = [sess EXCEPT ![r] = NewRow(r)]
    BY <1>4 DEF Insert
  <2>2. /\ NewRow(r).content = ContentOf(r)
        /\ NewRow(r).pending = TRUE
        /\ NewRow(r).data = None
    BY DEF NewRow
  <2>3. \A q \in Request \ {r} : sess[q] # None => call[q].id # call[r].id
    BY <1>1 DEF KeyIsHeld
  <2>4. sess'[r] = NewRow(r) /\ pc'[r] = "start"
    BY <2>1 DEF TypeOK
  <2>5. \A q \in Request \ {r} : sess'[q] = sess[q] /\ pc'[q] = pc[q]
    BY <2>1 DEF TypeOK
  <2> HIDE DEF IInv
  <2>6. Sessions'
    BY <1>1, <1>2, <1>4, <2>2, <2>3, <2>4, <2>5 DEF IInv, Sessions
  <2>7. PendingHasNoData' /\ SignatureMatchesBooks' /\ OnlyApprovedCardSalesBooked'
    BY <1>1, RowsKept
  <2> QED  BY <2>6, <2>7 DEF Consistent
<1> QED  BY <1>3, <1>4

(* A call to the TSE: start and finish alike.  The session stays as it is, *)
(* is rolled back, or is signed over what the TSE has finished.            *)
LEMMA TseCallConsistent ==
  ASSUME IInv, NEW r \in Request, pc[r] \in Writing,
         NEW tx \in TseTx, NEW next \in {"finish", "commit", "failed"},
         NEW row \in Row \cup {None},
         UNCHANGED <<call, verdict, rows, charged>>,
         tse' = [tse EXCEPT ![call[r].id] = tx],
         pc' = [pc EXCEPT ![r] = next],
         sess' = [sess EXCEPT ![r] = row],
         \/ row = None
         \/ row = sess[r] /\ sess[r].pending
         \/ /\ next = "commit"
            /\ row = Signed(sess[r], ContentOf(r))
            /\ tx = [state |-> "finished", data |-> ContentOf(r)]
  PROVE  Consistent'
<1>1. /\ sess[r] \in Row
      /\ sess[r] # None
      /\ sess[r].content = ContentOf(r)
      /\ ContentOf(r) \in Content
      /\ call[r].id \in Id
      /\ rows[call[r].id] = None
      /\ \A q \in Request \ {r} : sess[q] # None => call[q].id # call[r].id
  BY SessionIsAlone
<1>2. \A q \in Request : ContentOf(q)' = ContentOf(q)
  BY DEF ContentOf
<1>3. \A c \in Id \ {call[r].id} : tse'[c] = tse[c]
  BY DEF IInv, TypeOK
<1>4. tse'[call[r].id] = tx
  BY <1>1 DEF IInv, TypeOK
<1>5. pc'[r] = next /\ sess'[r] = row
  BY DEF IInv, TypeOK
<1>6. \A q \in Request \ {r} : sess'[q] = sess[q] /\ pc'[q] = pc[q]
  BY DEF IInv, TypeOK
<1>7. row # None =>
        /\ row.content = ContentOf(r)
        /\ next # "commit" => row.pending
        /\ row.pending => row.data = None
        /\ ~row.pending =>
             /\ row.data = row.content
             /\ tx = [state |-> "finished", data |-> row.content]
  <2>1. CASE row = sess[r] /\ sess[r].pending
    BY <1>1, <2>1 DEF IInv, Sessions
  <2>2. CASE /\ next = "commit"
             /\ row = Signed(sess[r], ContentOf(r))
             /\ tx = [state |-> "finished", data |-> ContentOf(r)]
    BY <1>1, <2>2, SignedRow
  <2> QED  BY <2>1, <2>2
<1>8. \A q \in Request : sess'[q] # None =>
        /\ sess'[q].content = ContentOf(q)
        /\ rows[call[q].id] = None
        /\ pc'[q] # "commit" => sess'[q].pending
        /\ sess'[q].pending => sess'[q].data = None
        /\ ~sess'[q].pending =>
             /\ sess'[q].data = sess'[q].content
             /\ tse'[call[q].id] = [state |-> "finished", data |-> sess'[q].content]
  <2> TAKE q \in Request
  <2>1. CASE q = r
    BY <1>1, <1>4, <1>5, <1>7, <2>1
  <2>2. CASE q # r
    <3> HAVE sess'[q] # None
    <3>1. sess[q] # None /\ sess'[q] = sess[q] /\ pc'[q] = pc[q]
      BY <1>6, <2>2
    <3>2. call[q].id # call[r].id
      BY <1>1, <2>2, <3>1
    <3>3. ~sess[q].pending => call[q].id \in Id
      <4>1. pc[q] \in Writing
        BY <3>1 DEF IInv, Flow
      <4> QED  BY <4>1, SessionIsAlone
    <3>4. ~sess[q].pending => tse'[call[q].id] = tse[call[q].id]
      BY <1>3, <3>2, <3>3
    <3> QED  BY <3>1, <3>4 DEF IInv, Sessions
  <2> QED  BY <2>1, <2>2
<1>9. \A p, q \in Request :
        p # q /\ sess'[p] # None /\ sess'[q] # None => call[p].id # call[q].id
  BY <1>1, <1>6 DEF IInv, Sessions
<1>10. Sessions'
  BY <1>2, <1>8, <1>9 DEF Sessions
<1>11. \A c \in Id : Booked(c) => tse'[c] = tse[c]
  BY <1>1, <1>3 DEF Booked
<1> QED  BY <1>10, <1>11, RowsKept DEF Consistent

LEMMA CommitConsistent ==
  ASSUME IInv, NEW r \in Request, Commit(r)
  PROVE  Consistent'
<1>1. /\ pc[r] = "commit"
      /\ rows' = [rows EXCEPT ![call[r].id] = sess[r]]
      /\ sess' = [sess EXCEPT ![r] = None]
      /\ pc' = [pc EXCEPT ![r] = AfterSale(r)]
      /\ UNCHANGED <<call, verdict, tse, charged>>
  BY DEF Commit, outside
<1>2. /\ sess[r] \in Row
      /\ sess[r] # None
      /\ sess[r].content = ContentOf(r)
      /\ ContentOf(r) \in Content
      /\ call[r].id \in Id
      /\ \A q \in Request \ {r} : sess[q] # None => call[q].id # call[r].id
  BY <1>1, SessionIsAlone DEF Writing
<1>3. /\ rows'[call[r].id] = sess[r]
      /\ \A c \in Id \ {call[r].id} : rows'[c] = rows[c]
  BY <1>1, <1>2 DEF IInv, TypeOK
<1>4. /\ sess[r].pending => sess[r].data = None
      /\ ~sess[r].pending =>
           /\ sess[r].data = sess[r].content
           /\ tse[call[r].id] = [state |-> "finished", data |-> sess[r].content]
  BY <1>2 DEF IInv, Sessions
<1>5. \A q \in Request : sess'[q] # None =>
        /\ q # r
        /\ sess'[q] = sess[q]
        /\ pc'[q] = pc[q]
        /\ call[q].id \in Id
        /\ rows'[call[q].id] = rows[call[q].id]
        /\ ContentOf(q)' = ContentOf(q)
  <2> TAKE q \in Request
  <2> HAVE sess'[q] # None
  <2>1. q # r /\ sess'[q] = sess[q] /\ pc'[q] = pc[q]
    BY <1>1 DEF IInv, TypeOK
  <2>2. pc[q] \in Writing
    BY <2>1 DEF IInv, Flow
  <2>3. call[q].id \in Id /\ call[q].id # call[r].id
    BY <1>2, <2>1, <2>2, SessionIsAlone
  <2>4. ContentOf(q)' = ContentOf(q)
    BY <1>1 DEF ContentOf
  <2> QED  BY <1>3, <2>1, <2>3, <2>4
<1>6. Sessions'
  BY <1>1, <1>5 DEF IInv, Sessions
<1>7. PendingHasNoData'
  BY <1>3, <1>4 DEF IInv, PendingHasNoData, Booked
<1>8. SignatureMatchesBooks'
  BY <1>1, <1>3, <1>4 DEF IInv, SignatureMatchesBooks, Booked
<1>9. OnlyApprovedCardSalesBooked'
  <2> SUFFICES ASSUME NEW c \in Id, rows'[c] # None,
                      rows'[c].content.kind \in {"card", "split"}
               PROVE  \E q \in charged :
                        /\ verdict[q] = "approved"
                        /\ call[q].id = c
                        /\ call[q].ref = rows'[c].content.ref
    BY <1>1 DEF OnlyApprovedCardSalesBooked, Booked
  <2>1. CASE c = call[r].id
    <3>1. /\ verdict[r] = "approved"
          /\ r \in charged
          /\ call[r].ref = ContentOf(r).ref
      BY <1>1, <1>2, <1>3, <2>1, ContentType
         DEF IInv, CardKind, Holding, Writing
    <3> QED  BY <1>2, <1>3, <2>1, <3>1
  <2>2. CASE c # call[r].id
    BY <1>3, <2>2 DEF IInv, OnlyApprovedCardSalesBooked, Booked
  <2> QED  BY <2>1, <2>2
<1> QED  BY <1>6, <1>7, <1>8, <1>9 DEF Consistent

LEMMA StepConsistent == IInv /\ [Next]_vars => Consistent'
<1> SUFFICES ASSUME IInv, [Next]_vars PROVE Consistent'
  OBVIOUS
<1>1. ASSUME NEW r \in Request, NEW c \in Call, Submit(r, c)
      PROVE  Consistent'
  <2>1. /\ sess[r] = None
        /\ verdict[r] = "none"
        /\ UNCHANGED <<verdict, sess, rows, tse, charged>>
    BY <1>1 DEF IInv, Flow, Submit, Writing, tables, outside
  <2>2. \A q \in Request \ {r} : pc'[q] = pc[q] /\ call'[q] = call[q]
    BY <1>1 DEF IInv, TypeOK, Submit
  <2> QED  BY <2>1, <2>2, QuietStep
<1>2. ASSUME NEW r \in Request, Authorize(r)
      PROVE  Consistent'
  <2>1. /\ sess[r] = None
        /\ verdict[r] = "none"
        /\ UNCHANGED <<call, sess, rows, tse>>
        /\ charged \subseteq charged'
    BY <1>2 DEF IInv, Flow, Authorize, Writing, tables
  <2>2. \A q \in Request \ {r} : pc'[q] = pc[q] /\ verdict'[q] = verdict[q]
    BY <1>2 DEF IInv, TypeOK, Authorize
  <2> QED  BY <2>1, <2>2, QuietStep
<1>3. ASSUME NEW r \in Request,
             Select(r) \/ CheckOriginal(r) \/ TakeNumber(r)
               \/ RecordAuth(r) \/ PrintReceipt(r)
      PROVE  Consistent'
  <2>1. pc[r] \notin Writing
    BY <1>3 DEF Select, CheckOriginal, TakeNumber, RecordAuth, PrintReceipt,
                Writing
  <2>2. /\ sess[r] = None
        /\ UNCHANGED <<call, verdict, sess, rows, tse, charged>>
    BY <1>3, <2>1 DEF IInv, Flow, Select, CheckOriginal, TakeNumber,
                      RecordAuth, PrintReceipt, tables, outside
  <2>3. \A q \in Request \ {r} : pc'[q] = pc[q]
    BY <1>3 DEF IInv, TypeOK, Select, CheckOriginal, TakeNumber, RecordAuth,
                PrintReceipt
  <2> QED  BY <2>2, <2>3, QuietStep
<1>4. ASSUME NEW r \in Request, Insert(r)
      PROVE  Consistent'
  BY <1>4, InsertConsistent
<1>5. ASSUME NEW r \in Request, Start(r)
      PROVE  Consistent'
  <2>1. PICK reply \in StartReplies(tse[call[r].id]) :
           /\ tse' = [tse EXCEPT ![call[r].id] = reply.tx]
           /\ AfterCall(r, "start", reply.answer, "finish", sess[r])
    BY <1>5 DEF Start
  <2>2. /\ pc[r] = "start"
        /\ pc[r] \in Writing
        /\ UNCHANGED <<call, verdict, rows, charged>>
    BY <1>5 DEF Start, Writing, tables
  <2>3. /\ call[r].id \in Id
        /\ sess[r] \in Row
        /\ sess[r].pending
        /\ ContentOf(r) \in Content
    BY <2>2, SessionIsAlone DEF IInv, Sessions
  <2>4. reply.tx \in TseTx /\ reply.answer \in {"ok", "refused", "lost"}
    BY <2>3, RepliesType DEF IInv, TypeOK
  <2>5. PICK row \in {sess[r], None} : sess' = [sess EXCEPT ![r] = row]
    BY <2>1 DEF AfterCall, IInv, TypeOK
  <2>6. PICK next \in {"finish", "commit", "failed"} :
          pc' = [pc EXCEPT ![r] = next]
    BY <2>1, <2>4 DEF AfterCall
  <2> QED  BY <2>1, <2>2, <2>3, <2>4, <2>5, <2>6, TseCallConsistent
<1>6. ASSUME NEW r \in Request, Finish(r)
      PROVE  Consistent'
  <2>1. PICK reply \in FinishReplies(tse[call[r].id], ProcessData(r)) :
           /\ tse' = [tse EXCEPT ![call[r].id] = reply.tx]
           /\ AfterCall(r, "finish", reply.answer, "commit",
                        Signed(sess[r], ProcessData(r)))
    BY <1>6 DEF Finish
  <2>2. /\ pc[r] = "finish"
        /\ pc[r] \in Writing
        /\ UNCHANGED <<call, verdict, rows, charged>>
    BY <1>6 DEF Finish, Writing, tables
  <2>3. /\ call[r].id \in Id
        /\ sess[r] \in Row
        /\ sess[r].pending
        /\ ContentOf(r) \in Content
        /\ ProcessData(r) = ContentOf(r)
    BY <2>2, SessionIsAlone DEF IInv, Sessions, ProcessData
  <2>4. /\ reply.tx \in TseTx
        /\ reply.answer \in {"ok", "refused", "lost"}
        /\ reply.answer = "ok" =>
             reply.tx = [state |-> "finished", data |-> ContentOf(r)]
    BY <2>3, RepliesType DEF IInv, TypeOK
  <2>5. CASE reply.answer = "ok"
    <3>1. /\ pc' = [pc EXCEPT ![r] = "commit"]
          /\ sess' = [sess EXCEPT ![r] = Signed(sess[r], ContentOf(r))]
      BY <2>1, <2>3, <2>5 DEF AfterCall
    <3>2. Signed(sess[r], ContentOf(r)) \in Row
      BY <2>3, SignedRow
    <3> QED  BY <2>1, <2>2, <2>4, <2>5, <3>1, <3>2, TseCallConsistent
  <2>6. CASE reply.answer # "ok"
    <3>1. PICK row \in {sess[r], None} : sess' = [sess EXCEPT ![r] = row]
      BY <2>1, <2>6 DEF AfterCall, IInv, TypeOK
    <3>2. PICK next \in {"finish", "commit", "failed"} :
            pc' = [pc EXCEPT ![r] = next]
      BY <2>1, <2>4 DEF AfterCall
    <3> QED  BY <2>1, <2>2, <2>3, <2>4, <3>1, <3>2, TseCallConsistent
  <2> QED  BY <2>5, <2>6
<1>7. ASSUME NEW r \in Request, Commit(r)
      PROVE  Consistent'
  BY <1>7, CommitConsistent
<1>8. CASE Crash
  <2>1. Sessions'
    BY <1>8 DEF Crash, Sessions
  <2>2. PendingHasNoData' /\ SignatureMatchesBooks' /\ OnlyApprovedCardSalesBooked'
    BY <1>8, RowsKept DEF Crash, tables, outside
  <2> QED  BY <2>1, <2>2 DEF Consistent
<1>9. ASSUME UNCHANGED <<pc, call, verdict, sess, rows, tse, charged>>
      PROVE  Consistent'
  BY <1>9 DEF IInv, Consistent, Sessions, ContentOf, PendingHasNoData,
              SignatureMatchesBooks, OnlyApprovedCardSalesBooked, Booked
<1>10. CASE \E c \in Id : RetryRow(c)
  <2>1. UNCHANGED <<pc, call, verdict, sess, rows, tse, charged>>
    BY <1>10, RetryPassesOver DEF handler
  <2> QED  BY <1>9, <2>1
<1>11. CASE Restart \/ Serve \/ UNCHANGED vars
  <2>1. UNCHANGED <<pc, call, verdict, sess, rows, tse, charged>>
    BY <1>11 DEF Restart, Serve, vars, handler, tables, outside
  <2> QED  BY <1>9, <2>1
<1> QED
  BY <1>1, <1>2, <1>3, <1>4, <1>5, <1>6, <1>7, <1>8, <1>10, <1>11
     DEF Next, Handle

-----------------------------------------------------------------------------
LEMMA Inductive == Spec => []IInv
<1>1. Init => IInv
  BY InitIInv
<1>2. IInv /\ [Next]_vars => IInv'
  BY StepTypeFlow, StepServing, StepConsistent DEF IInv, Consistent
<1> QED  BY <1>1, <1>2, PTL DEF Spec

(* Every variable keeps its type.                                          *)
THEOREM TypeCorrect == Spec => []TypeOK
<1>1. IInv => TypeOK
  BY DEF IInv
<1> QED  BY <1>1, Inductive, PTL

(* A row that counts as signed is one the TSE has finished over exactly    *)
(* what the row says, for any number of requests, ids and orders, whatever *)
(* fiskaly answers and wherever the server crashes (fiscal/service.py).    *)
THEOREM SignaturesMatch == Spec => []SignatureMatchesBooks
<1>1. IInv => SignatureMatchesBooks
  BY DEF IInv
<1> QED  BY <1>1, Inductive, PTL

(* No sale is in the books as paid by card unless the terminal approved    *)
(* and debited a request for it (payment/service.py).                      *)
THEOREM CardSalesApproved == Spec => []OnlyApprovedCardSalesBooked
<1>1. IInv => OnlyApprovedCardSalesBooked
  BY DEF IInv
<1> QED  BY <1>1, Inductive, PTL

(* A row committed without a signature carries no process data, so that    *)
(* retry_pending_signatures passes over every row it finds: once pending,  *)
(* always pending (fiscal/service.py:170-171).                             *)
THEOREM RetrySignsNothing ==
  Spec => [][\A c \in Id : Booked(c) /\ rows[c].pending =>
               Booked(c)' /\ rows'[c] = rows[c]]_vars
<1> DEFINE Stays == \A c \in Id : Booked(c) /\ rows[c].pending =>
                      Booked(c)' /\ rows'[c] = rows[c]
<1>1. IInv /\ [Next]_vars => [Stays]_vars
  <2> SUFFICES ASSUME IInv, [Next]_vars PROVE Stays
    OBVIOUS
  <2>1. ASSUME NEW r \in Request, Commit(r)
        PROVE  Stays
    <3>1. /\ rows[call[r].id] = None
          /\ rows' = [rows EXCEPT ![call[r].id] = sess[r]]
      BY <2>1, SessionIsAlone DEF Commit, Writing
    <3>2. \A c \in Id : Booked(c) => rows'[c] = rows[c]
      BY <3>1 DEF IInv, TypeOK, Booked
    <3> QED  BY <3>2 DEF Booked
  <2>2. ASSUME NEW c \in Id, RetryRow(c)
        PROVE  Stays
    BY <2>2, RetryPassesOver DEF Booked
  <2>3. ASSUME UNCHANGED rows
        PROVE  Stays
    BY <2>3 DEF Booked
  <2>4. ASSUME NEW r \in Request, Handle(r), ~Commit(r)
        PROVE  UNCHANGED rows
    BY <2>4 DEF Handle, Authorize, Select, CheckOriginal, TakeNumber, Insert,
                Start, Finish, RecordAuth, PrintReceipt, tables
  <2>5. ASSUME \/ \E r \in Request, c \in Call : Submit(r, c)
               \/ Crash \/ Restart \/ Serve \/ UNCHANGED vars
        PROVE  UNCHANGED rows
    BY <2>5 DEF Submit, Crash, Restart, Serve, vars, tables
  <2> HIDE DEF Stays
  <2> QED  BY <2>1, <2>2, <2>3, <2>4, <2>5 DEF Next
<1> QED  BY <1>1, Inductive, PTL DEF Spec

=============================================================================
