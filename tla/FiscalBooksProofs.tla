------------------------- MODULE FiscalBooksProofs -------------------------
(***************************************************************************)
(* Proofs that the books FiscalSale keeps are those of FiscalJournal, and  *)
(* that what tills are told, what card_auths says and what the signing log *)
(* says agrees with them, for any number of requests, ids and orders.      *)
(***************************************************************************)
EXTENDS FiscalSaleProofs

-----------------------------------------------------------------------------
(* The journal: receipt numbers, and what corrections refer to.            *)

(* The number a handler has drawn, before and after it is in a row.        *)
Drawn(r) == IF pc[r] = "insert" THEN num[r] ELSE sess[r].number

(* The sequence is ahead of every number in use, and no two uses of one    *)
(* are the same, be they drawn, in a session or in the books.              *)
Numbers ==
  /\ \A c \in Id : Booked(c) => rows[c].number <= seq
  /\ \A c, d \in Id :
       Booked(c) /\ Booked(d) /\ c # d => rows[c].number # rows[d].number
  /\ \A r \in Request : pc[r] \in Holding =>
       /\ Drawn(r) <= seq
       /\ \A c \in Id : Booked(c) => rows[c].number # Drawn(r)
  /\ \A q, r \in Request :
       q # r /\ pc[q] \in Holding /\ pc[r] \in Holding => Drawn(q) # Drawn(r)

(* A correction past its checks is of a row in the books that is none.     *)
Voids ==
  \A r \in Request :
    /\ pc[r] = "select" => call[r].kind # "void"
    /\ pc[r] \in Holding \cup {"number"} /\ call[r].kind = "void" =>
         Booked(call[r].ref) /\ rows[call[r].ref].content.kind # "void"

JInv == IInv /\ Numbers /\ Voids

-----------------------------------------------------------------------------
(* Answers, authorisations and the log.                                    *)

(* What a request asked for stays; two requests with one id are the same   *)
(* payment; only card payments have a verdict, and a declined card was not *)
(* debited.                                                                *)
Calls ==
  /\ \A r \in Request :
       /\ pc[r] = "idle" => call[r] = None
       /\ verdict[r] # "none" => call[r] # None /\ call[r].kind \in CardKind
       /\ verdict[r] = "declined" => r \notin charged
       /\ pc[r] \in {"idle", "authorize"} => r \notin charged
  /\ \A q, r \in Request :
       q # r /\ call[q] # None /\ call[r] # None /\ call[q].id = call[r].id
         => call[q] = call[r] /\ call[r].kind # "void"

(* Every row was written by a request that has got past its commit.        *)
Authors ==
  \A c \in Id : Booked(c) =>
    \E q \in Request :
      /\ call[q] # None
      /\ call[q].id = c
      /\ pc[q] \in Final \cup {"cardauth", "print"}
      /\ rows[c].content = ContentOf(q)

(* A handler that has its row finds in the books what it asked for, unless *)
(* a card payment was sent twice.                                          *)
Settled ==
  \A r \in Request :
    pc[r] \in {"cardauth", "print", "done"} /\ (Sole(r) \/ call[r].kind = "cash") =>
      /\ Booked(call[r].id)
      /\ rows[call[r].id].content = ContentOf(r)

(* Every authorisation on record is the verdict of a request.              *)
Auths ==
  \A c \in Id : cards[c] # "none" =>
    \E q \in Request :
      /\ call[q] # None
      /\ call[q].id = c
      /\ verdict[q] = cards[c]
      /\ Sole(q) => Booked(c) /\ rows[c].content = ContentOf(q)

(* What a session is about to commit comes with the log entries for it.    *)
SessionLogged ==
  \A r \in Request : pc[r] = "commit" =>
    IF sess[r].pending
    THEN \E e \in slog[r] : ~e.ok /\ (e.op = "start" \/ e.id = call[r].id)
    ELSE LogEntryOf("finish", call[r].id, "ok") \in slog[r]

AInv == IInv /\ Calls /\ Authors /\ Settled /\ Auths /\ SessionLogged
          /\ LogExplainsRows

-----------------------------------------------------------------------------
(* Rows are only ever added, each by the commit of one handler, and what   *)
(* is in the books stays as it is.                                         *)
LEMMA CommitAddsRow ==
  ASSUME IInv, NEW r \in Request, Commit(r)
  PROVE  /\ call[r].id \in Id
         /\ ~Booked(call[r].id)
         /\ rows'[call[r].id] = sess[r]
         /\ rows' = [rows EXCEPT ![call[r].id] = sess[r]]
         /\ sess[r] \in Row
         /\ sess[r] # None
         /\ sess[r].content = ContentOf(r)
         /\ ContentOf(r) \in Content
         /\ \A c \in Id \ {call[r].id} : rows'[c] = rows[c]
         /\ pc[r] = "commit"
         /\ pc' = [pc EXCEPT ![r] = AfterSale(r)]
         /\ UNCHANGED <<call, verdict, num, seq, cards, charged>>
<1>1. /\ pc[r] = "commit"
      /\ rows' = [rows EXCEPT ![call[r].id] = sess[r]]
      /\ pc' = [pc EXCEPT ![r] = AfterSale(r)]
      /\ UNCHANGED <<call, verdict, num, seq, cards, charged>>
  BY DEF Commit, outside
<1>2. /\ call[r].id \in Id
      /\ ~Booked(call[r].id)
      /\ sess[r] \in Row
      /\ sess[r] # None
      /\ sess[r].content = ContentOf(r)
      /\ ContentOf(r) \in Content
  BY <1>1, SessionIsAlone DEF Writing, Booked
<1>3. /\ rows'[call[r].id] = sess[r]
      /\ \A c \in Id \ {call[r].id} : rows'[c] = rows[c]
  BY <1>1, <1>2 DEF IInv, TypeOK
<1> QED  BY <1>1, <1>2, <1>3

LEMMA OnlyCommitWrites ==
  ASSUME IInv, [Next]_vars, \A r \in Request : ~Commit(r)
  PROVE  UNCHANGED rows
<1>1. ASSUME NEW r \in Request, Handle(r)
      PROVE  UNCHANGED rows
  BY <1>1 DEF Handle, Authorize, Select, CheckOriginal, TakeNumber, Insert,
              Start, Finish, RecordAuth, PrintReceipt, tables
<1>2. ASSUME NEW c \in Id, RetryRow(c)
      PROVE  UNCHANGED rows
  BY <1>2, RetryPassesOver
<1>3. ASSUME \/ \E r \in Request, c \in Call : Submit(r, c)
             \/ Crash \/ Restart \/ Serve \/ UNCHANGED vars
      PROVE  UNCHANGED rows
  BY <1>3 DEF Submit, Crash, Restart, Serve, vars, tables
<1> QED  BY <1>1, <1>2, <1>3 DEF Next

LEMMA RowsStay ==
  ASSUME IInv, [Next]_vars
  PROVE  \A c \in Id : Booked(c) => Booked(c)' /\ rows'[c] = rows[c]
<1>1. ASSUME NEW r \in Request, Commit(r)
      PROVE  \A c \in Id : Booked(c) => Booked(c)' /\ rows'[c] = rows[c]
  BY <1>1, CommitAddsRow DEF Booked
<1>2. CASE UNCHANGED rows
  BY <1>2 DEF Booked
<1> QED  BY <1>1, <1>2, OnlyCommitWrites

(* A request to correct a row names a row, and is booked as a correction;  *)
(* no other is.                                                            *)
LEMMA VoidCall ==
  ASSUME IInv, NEW r \in Request, call[r] # None
  PROVE  /\ call[r] \in Call
         /\ call[r].id \in Id
         /\ call[r].kind \in {"cash", "card", "split", "void"}
         /\ call[r].kind = "void" => call[r].ref \in Id
         /\ ContentOf(r).kind = "void" => call[r].kind = "void"
         /\ ContentOf(r).ref = call[r].ref
<1>1. call[r] \in Call
  BY DEF IInv, TypeOK
<1>2. /\ call[r].id \in Id
      /\ call[r].kind \in {"cash", "card", "split", "void"}
      /\ call[r].kind = "void" => call[r].ref \in Id
  BY <1>1, SaleAssumption DEF Call, Id
<1>3. /\ ContentOf(r).kind = "void" => call[r].kind = "void"
      /\ ContentOf(r).ref = call[r].ref
  BY DEF ContentOf
<1> QED  BY <1>1, <1>2, <1>3

-----------------------------------------------------------------------------
(* Steps that draw no number and book no row.                              *)
LEMMA NumbersKept ==
  ASSUME Numbers, UNCHANGED <<rows, seq>>,
         \A r \in Request : pc'[r] \in Holding =>
           pc[r] \in Holding /\ Drawn(r)' = Drawn(r)
  PROVE  Numbers'
  BY DEF Numbers, Booked

LEMMA TakeNumberNumbers ==
  ASSUME JInv, NEW r \in Request, TakeNumber(r)
  PROVE  Numbers'
<1>1. /\ pc[r] = "number"
      /\ seq \in Nat
      /\ seq' = seq + 1
      /\ UNCHANGED <<rows, sess>>
  BY DEF JInv, IInv, TypeOK, TakeNumber
<1>2. /\ pc'[r] = "insert"
      /\ num'[r] = seq + 1
      /\ \A q \in Request \ {r} : pc'[q] = pc[q] /\ num'[q] = num[q]
  BY DEF JInv, IInv, TypeOK, TakeNumber
<1>3. /\ Drawn(r)' = seq + 1
      /\ \A q \in Request \ {r} : Drawn(q)' = Drawn(q)
  BY <1>1, <1>2 DEF Drawn
<1>4. \A c \in Id : Booked(c) => rows[c].number \in Nat /\ rows[c].number <= seq
  BY DEF JInv, IInv, TypeOK, Numbers, Booked, Row
<1>5. \A q \in Request : pc[q] \in Holding => Drawn(q) \in Nat /\ Drawn(q) <= seq
  <2> TAKE q \in Request
  <2> HAVE pc[q] \in Holding
  <2>1. Drawn(q) \in Nat
    BY SessionIsAlone DEF JInv, IInv, TypeOK, Drawn, Holding, Row
  <2> QED  BY <2>1 DEF JInv, Numbers
<1>6. \A q \in Request \ {r} : pc'[q] \in Holding =>
        pc[q] \in Holding /\ Drawn(q)' = Drawn(q)
  BY <1>2, <1>3
<1>7. \A c \in Id : Booked(c)' = Booked(c) /\ rows'[c] = rows[c]
  BY <1>1 DEF Booked
<1>8. \A c \in Id : Booked(c)' => rows'[c].number <= seq'
  BY <1>1, <1>4, <1>7
<1>9. \A c, d \in Id : Booked(c)' /\ Booked(d)' /\ c # d =>
        rows'[c].number # rows'[d].number
  BY <1>7 DEF JInv, Numbers
<1>10. \A q \in Request : pc'[q] \in Holding =>
         /\ Drawn(q)' <= seq'
         /\ \A c \in Id : Booked(c)' => rows'[c].number # Drawn(q)'
  <2>1. \A c \in Id : Booked(c)' => rows'[c].number # Drawn(r)'
    BY <1>1, <1>3, <1>4, <1>7
  <2>2. Drawn(r)' <= seq'
    BY <1>1, <1>3
  <2>3. ASSUME NEW q \in Request \ {r}, pc'[q] \in Holding
        PROVE  /\ Drawn(q)' <= seq'
               /\ \A c \in Id : Booked(c)' => rows'[c].number # Drawn(q)'
    BY <1>1, <1>5, <1>6, <1>7, <2>3 DEF JInv, Numbers
  <2> QED  BY <2>1, <2>2, <2>3
<1>11. \A p, q \in Request :
         p # q /\ pc'[p] \in Holding /\ pc'[q] \in Holding =>
           Drawn(p)' # Drawn(q)'
  <2>1. ASSUME NEW q \in Request \ {r}, pc'[q] \in Holding
        PROVE  Drawn(q)' # Drawn(r)'
    BY <1>1, <1>3, <1>5, <1>6, <2>1
  <2>2. ASSUME NEW p \in Request \ {r}, NEW q \in Request \ {r}, p # q,
               pc'[p] \in Holding, pc'[q] \in Holding
        PROVE  Drawn(p)' # Drawn(q)'
    BY <1>6, <2>2 DEF JInv, Numbers
  <2> QED  BY <2>1, <2>2
<1> QED  BY <1>8, <1>9, <1>10, <1>11 DEF Numbers

LEMMA CommitNumbers ==
  ASSUME JInv, NEW r \in Request, Commit(r)
  PROVE  Numbers'
<1>1. /\ IInv
      /\ pc[r] = "commit"
      /\ pc[r] \in Holding
      /\ Drawn(r) = sess[r].number
  BY CommitAddsRow DEF JInv, Holding, Writing, Drawn
<1>2. /\ rows'[call[r].id] = sess[r]
      /\ \A c \in Id \ {call[r].id} : rows'[c] = rows[c]
      /\ call[r].id \in Id
      /\ UNCHANGED <<num, seq>>
  BY <1>1, CommitAddsRow
<1>3. /\ pc'[r] \notin Holding
      /\ \A q \in Request \ {r} : pc'[q] = pc[q] /\ sess'[q] = sess[q]
  BY <1>1, NextSteps DEF Commit, IInv, TypeOK, Holding, Writing
<1>4. \A q \in Request : pc'[q] \in Holding =>
        q # r /\ pc[q] \in Holding /\ Drawn(q)' = Drawn(q)
  BY <1>2, <1>3 DEF Drawn
<1>5. \A c \in Id : Booked(c)' =>
        \/ c = call[r].id /\ rows'[c].number = Drawn(r)
        \/ c # call[r].id /\ Booked(c) /\ rows'[c].number = rows[c].number
  BY <1>1, <1>2 DEF Booked
<1>6. /\ Drawn(r) <= seq
      /\ \A c \in Id : Booked(c) => rows[c].number # Drawn(r)
      /\ \A q \in Request \ {r} : pc[q] \in Holding => Drawn(q) # Drawn(r)
  BY <1>1 DEF JInv, Numbers
<1>7. \A c \in Id : Booked(c)' => rows'[c].number <= seq'
  BY <1>2, <1>5, <1>6 DEF JInv, Numbers
<1>8. \A c, d \in Id : Booked(c)' /\ Booked(d)' /\ c # d =>
        rows'[c].number # rows'[d].number
  BY <1>5, <1>6 DEF JInv, Numbers
<1>9. \A q \in Request : pc'[q] \in Holding =>
        /\ Drawn(q)' <= seq'
        /\ \A c \in Id : Booked(c)' => rows'[c].number # Drawn(q)'
  BY <1>2, <1>4, <1>5, <1>6 DEF JInv, Numbers
<1>10. \A p, q \in Request :
         p # q /\ pc'[p] \in Holding /\ pc'[q] \in Holding =>
           Drawn(p)' # Drawn(q)'
  BY <1>4 DEF JInv, Numbers
<1> QED  BY <1>7, <1>8, <1>9, <1>10 DEF Numbers

(* A handler whose row is worked on keeps its number: the session changes  *)
(* in nothing but the signature, or is rolled back.                        *)
LEMMA TseCallNumber ==
  ASSUME IInv, NEW r \in Request, Start(r) \/ Finish(r)
  PROVE  /\ UNCHANGED <<rows, seq, num, call, verdict>>
         /\ pc[r] \in {"start", "finish"}
         /\ \A q \in Request \ {r} : pc'[q] = pc[q] /\ sess'[q] = sess[q]
         /\ pc'[r] \in {"finish", "commit", "failed"}
         /\ pc'[r] # "failed" => sess'[r].number = sess[r].number
<1>1. /\ UNCHANGED <<rows, seq, num, call, verdict>>
      /\ pc[r] \in {"start", "finish"}
  BY DEF Start, Finish, tables
<1>2. /\ call[r].id \in Id
      /\ sess[r] \in Row
      /\ ContentOf(r) \in Content
  BY <1>1, SessionIsAlone DEF Writing
<1>3. CASE Start(r)
  <2>1. PICK reply \in StartReplies(tse[call[r].id]) :
          AfterCall(r, "start", reply.answer, "finish", sess[r])
    BY <1>3 DEF Start
  <2>2. reply.answer \in {"ok", "refused", "lost"}
    BY <1>2, <2>1, RepliesType DEF IInv, TypeOK
  <2>3. PICK next \in {"finish", "commit", "failed"} :
          /\ pc' = [pc EXCEPT ![r] = next]
          /\ next # "failed" => reply.answer # "lost"
    BY <2>1, <2>2 DEF AfterCall
  <2> QED  BY <1>1, <2>1, <2>3 DEF AfterCall, IInv, TypeOK
<1>4. CASE Finish(r)
  <2>1. PICK reply \in FinishReplies(tse[call[r].id], ProcessData(r)) :
          AfterCall(r, "finish", reply.answer, "commit",
                    Signed(sess[r], ProcessData(r)))
    BY <1>4 DEF Finish
  <2>2. ProcessData(r) = ContentOf(r)
    BY DEF ProcessData
  <2>3. reply.answer \in {"ok", "refused", "lost"}
    BY <1>2, <2>1, <2>2, RepliesType DEF IInv, TypeOK
  <2>4. Signed(sess[r], ContentOf(r)).number = sess[r].number
    BY <1>2, SignedRow
  <2>5. PICK next \in {"commit", "failed"} :
          /\ pc' = [pc EXCEPT ![r] = next]
          /\ next # "failed" => reply.answer # "lost"
    BY <2>1, <2>3 DEF AfterCall
  <2>6. /\ \A q \in Request \ {r} : pc'[q] = pc[q] /\ sess'[q] = sess[q]
        /\ pc'[r] \in {"finish", "commit", "failed"}
        /\ pc'[r] # "failed" => sess'[r].number = sess[r].number
    BY <2>1, <2>2, <2>4, <2>5 DEF AfterCall, IInv, TypeOK
  <2> QED  BY <1>1, <2>6
<1> QED  BY <1>1, <1>3, <1>4

LEMMA StepNumbers == JInv /\ [Next]_vars => Numbers'
<1> SUFFICES ASSUME JInv, [Next]_vars PROVE Numbers'
  OBVIOUS
<1>0. IInv /\ Numbers
  BY DEF JInv
<1>1. ASSUME NEW r \in Request, NEW c \in Call, Submit(r, c)
      PROVE  Numbers'
  <2>1. UNCHANGED <<rows, seq, num, sess>>
    BY <1>1 DEF Submit, tables
  <2>2. \A q \in Request : pc'[q] \in Holding => pc'[q] = pc[q]
    <3>1. PICK next \in FirstSteps(c.kind) : pc' = [pc EXCEPT ![r] = next]
      BY <1>1 DEF Submit
    <3>2. next \notin Holding
      <4>1. c.kind \in {"cash", "card", "split", "void"}
        BY SaleAssumption DEF Call
      <4> QED  BY <3>1, <4>1, NextSteps DEF Holding, Writing
    <3> QED  BY <1>0, <3>1, <3>2 DEF IInv, TypeOK
  <2> QED  BY <1>0, <2>1, <2>2, NumbersKept DEF Drawn
<1>2. ASSUME NEW r \in Request,
             Authorize(r) \/ Select(r) \/ CheckOriginal(r) \/ RecordAuth(r)
               \/ PrintReceipt(r)
      PROVE  Numbers'
  <2>1. UNCHANGED <<rows, seq, num, sess>>
    BY <1>2 DEF Authorize, Select, CheckOriginal, RecordAuth, PrintReceipt,
                tables
  <2>2. \A q \in Request : pc'[q] \in Holding => pc'[q] = pc[q]
    <3>1. CASE Authorize(r)
      BY <1>0, <3>1 DEF Authorize, AuthorizeReplies, Holding, Writing, IInv, TypeOK
    <3>2. CASE Select(r)
      <4>1. SelectStep(r) \notin Holding
        BY NextSteps DEF Holding, Writing
      <4> QED  BY <1>0, <3>2, <4>1 DEF Select, IInv, TypeOK
    <3>3. CASE CheckOriginal(r)
      <4>1. CheckStep(call[r].ref) \notin Holding
        BY NextSteps DEF Holding, Writing
      <4> QED  BY <1>0, <3>3, <4>1 DEF CheckOriginal, IInv, TypeOK
    <3>4. CASE RecordAuth(r)
      BY <1>0, <3>4 DEF RecordAuth, Holding, Writing, IInv, TypeOK
    <3>5. CASE PrintReceipt(r)
      BY <1>0, <3>5 DEF PrintReceipt, Holding, Writing, IInv, TypeOK
    <3> QED  BY <1>2, <3>1, <3>2, <3>3, <3>4, <3>5
  <2> QED  BY <1>0, <2>1, <2>2, NumbersKept DEF Drawn
<1>3. ASSUME NEW r \in Request, TakeNumber(r)
      PROVE  Numbers'
  BY <1>3, TakeNumberNumbers
<1>4. ASSUME NEW r \in Request, Insert(r)
      PROVE  Numbers'
  <2>1. UNCHANGED <<rows, seq>> /\ pc[r] = "insert"
    BY <1>4 DEF Insert, tables
  <2>2. \A q \in Request \ {r} :
          pc'[q] = pc[q] /\ sess'[q] = sess[q] /\ num'[q] = num[q]
    BY <1>0, <1>4 DEF Insert, IInv, TypeOK
  <2>3. \/ pc'[r] = "failed"
        \/ pc'[r] = "start" /\ sess'[r] = NewRow(r)
    BY <1>0, <1>4 DEF Insert, IInv, TypeOK
  <2>4. \A q \in Request : pc'[q] \in Holding =>
          pc[q] \in Holding /\ Drawn(q)' = Drawn(q)
    BY <2>1, <2>2, <2>3 DEF Drawn, NewRow, Holding, Writing
  <2> QED  BY <1>0, <2>1, <2>4, NumbersKept
<1>5. ASSUME NEW r \in Request, Start(r) \/ Finish(r)
      PROVE  Numbers'
  <2>1. \A q \in Request : pc'[q] \in Holding =>
          pc[q] \in Holding /\ Drawn(q)' = Drawn(q)
    BY <1>0, <1>5, TseCallNumber DEF Drawn, Holding, Writing
  <2> QED  BY <1>0, <1>5, <2>1, TseCallNumber, NumbersKept
<1>6. ASSUME NEW r \in Request, Commit(r)
      PROVE  Numbers'
  BY <1>6, CommitNumbers
<1>7. CASE Crash
  <2>1. \A q \in Request : pc'[q] \notin Holding
    BY <1>7 DEF Crash, InFlight, Final, Holding, Writing
  <2> QED  BY <1>0, <1>7, <2>1, NumbersKept DEF Crash, tables
<1>8. CASE (\E c \in Id : RetryRow(c)) \/ Restart \/ Serve \/ UNCHANGED vars
  <2>1. UNCHANGED <<rows, seq, pc, num, sess>>
    BY <1>0, <1>8, RetryPassesOver
       DEF Restart, Serve, vars, handler, tables
  <2> QED  BY <1>0, <2>1, NumbersKept DEF Drawn
<1> QED
  BY <1>1, <1>2, <1>3, <1>4, <1>5, <1>6, <1>7, <1>8 DEF Next, Handle

(* A correction past its checks stays past them, as what it is of stays in *)
(* the books.                                                              *)
LEMMA VoidsKept ==
  ASSUME JInv, [Next]_vars,
         \A r \in Request :
           /\ pc'[r] = "select" => call'[r].kind # "void"
           /\ pc'[r] \in Holding \cup {"number"} /\ call'[r].kind = "void" =>
                /\ call'[r] = call[r] /\ pc[r] # "idle"
                /\ \/ pc[r] \in Holding \cup {"number"}
                   \/ /\ Booked(call[r].ref)
                      /\ rows[call[r].ref].content.kind # "void"
  PROVE  Voids'
<1> SUFFICES ASSUME NEW r \in Request, pc'[r] \in Holding \cup {"number"},
                    call'[r].kind = "void"
             PROVE  /\ Booked(call[r].ref)'
                    /\ rows'[call[r].ref].content.kind # "void"
                    /\ call'[r] = call[r]
  BY DEF Voids, Booked
<1>1. /\ call'[r] = call[r]
      /\ Booked(call[r].ref)
      /\ rows[call[r].ref].content.kind # "void"
  BY DEF JInv, Voids
<1>2. call[r].ref \in Id
  <2>1. call[r] # None
    BY DEF JInv, IInv, Flow
  <2> QED  BY <1>1, <2>1, VoidCall DEF JInv
<1> QED  BY <1>1, <1>2, RowsStay DEF JInv

LEMMA StepVoids == JInv /\ [Next]_vars => Voids'
<1> SUFFICES ASSUME JInv, [Next]_vars PROVE Voids'
  OBVIOUS
<1>0. IInv /\ Voids
  BY DEF JInv
<1>1. ASSUME NEW r \in Request, NEW c \in Call, Submit(r, c)
      PROVE  Voids'
  <2>1. PICK next \in FirstSteps(c.kind) : pc' = [pc EXCEPT ![r] = next]
    BY <1>1 DEF Submit
  <2>2. /\ next = "select" => c.kind = "cash"
        /\ next \notin Holding \cup {"number"}
    <3>1. c.kind \in {"cash", "card", "split", "void"}
      BY SaleAssumption DEF Call
    <3> QED  BY <2>1, <3>1, NextSteps DEF Holding, Writing
  <2>3. call' = [call EXCEPT ![r] = c]
    BY <1>1 DEF Submit
  <2>4. \A q \in Request :
          /\ pc'[q] = "select" => call'[q].kind # "void"
          /\ pc'[q] \in Holding \cup {"number"} =>
               /\ pc[q] \in Holding \cup {"number"}
               /\ call'[q] = call[q]
    BY <1>0, <2>1, <2>2, <2>3 DEF IInv, TypeOK, Voids
  <2> QED  BY <2>4, VoidsKept DEF Holding, Writing
<1>2. ASSUME NEW r \in Request, CheckOriginal(r)
      PROVE  Voids'
  <2>1. /\ pc[r] = "check"
        /\ pc' = [pc EXCEPT ![r] = CheckStep(call[r].ref)]
        /\ UNCHANGED call
    BY <1>2 DEF CheckOriginal
  <2>2. /\ CheckStep(call[r].ref) \notin Holding \cup {"select"}
        /\ CheckStep(call[r].ref) = "number" =>
             Booked(call[r].ref) /\ rows[call[r].ref].content.kind # "void"
    BY NextSteps DEF Holding, Writing, Booked
  <2>3. \A q \in Request :
          /\ pc'[q] = "select" => call'[q].kind # "void"
          /\ pc'[q] \in Holding \cup {"number"} =>
               /\ call'[q] = call[q] /\ pc[q] # "idle"
               /\ \/ pc[q] \in Holding \cup {"number"}
                  \/ /\ Booked(call[q].ref)
                     /\ rows[call[q].ref].content.kind # "void"
    BY <1>0, <2>1, <2>2 DEF IInv, TypeOK, Voids, Holding, Writing
  <2> QED  BY <2>3, VoidsKept
<1>3. ASSUME UNCHANGED call,
             \A q \in Request :
               /\ pc'[q] = "select" => pc[q] \in {"authorize", "select"}
               /\ pc'[q] \in Holding \cup {"number"} =>
                    \/ pc[q] \in Holding \cup {"number"}
                    \/ call[q].kind # "void"
      PROVE  Voids'
  <2>1. \A q \in Request : pc[q] = "authorize" => call[q].kind # "void"
    BY <1>0 DEF IInv, Flow, CardKind
  <2>2. \A q \in Request :
          /\ pc'[q] = "select" => call'[q].kind # "void"
          /\ pc'[q] \in Holding \cup {"number"} /\ call'[q].kind = "void" =>
               pc[q] \in Holding \cup {"number"}
    BY <1>0, <1>3, <2>1 DEF Voids
  <2> QED  BY <1>3, <2>2, VoidsKept DEF Holding, Writing
<1>4. ASSUME NEW r \in Request, Authorize(r)
      PROVE  Voids'
  <2>1. /\ UNCHANGED call
        /\ pc[r] = "authorize"
        /\ \A q \in Request \ {r} : pc'[q] = pc[q]
        /\ pc'[r] \notin Holding \cup {"number"}
    BY <1>0, <1>4 DEF Authorize, AuthorizeReplies, IInv, TypeOK, Holding, Writing
  <2> QED  BY <1>3, <2>1
<1>5. ASSUME NEW r \in Request, Select(r)
      PROVE  Voids'
  <2>1. /\ UNCHANGED call
        /\ pc[r] = "select"
        /\ \A q \in Request \ {r} : pc'[q] = pc[q]
        /\ call[r].kind # "void"
    BY <1>0, <1>5 DEF Select, IInv, TypeOK, Voids
  <2> QED  BY <1>3, <2>1
<1>6. ASSUME NEW r \in Request, TakeNumber(r) \/ Insert(r)
      PROVE  Voids'
  <2>1. /\ UNCHANGED call
        /\ pc[r] \in {"number", "insert"}
        /\ \A q \in Request \ {r} : pc'[q] = pc[q]
        /\ pc'[r] # "select"
    BY <1>0, <1>6 DEF TakeNumber, Insert, IInv, TypeOK
  <2> QED  BY <1>3, <2>1 DEF Holding
<1>7. ASSUME NEW r \in Request, Start(r) \/ Finish(r)
      PROVE  Voids'
  <2>1. /\ UNCHANGED call
        /\ pc[r] \in Holding
        /\ \A q \in Request \ {r} : pc'[q] = pc[q]
        /\ pc'[r] # "select"
    BY <1>0, <1>7, TseCallNumber DEF Holding, Writing
  <2> QED  BY <1>3, <2>1
<1>8. ASSUME NEW r \in Request, Commit(r) \/ RecordAuth(r) \/ PrintReceipt(r)
      PROVE  Voids'
  <2>1. /\ UNCHANGED call
        /\ \A q \in Request \ {r} : pc'[q] = pc[q]
    BY <1>0, <1>8 DEF Commit, RecordAuth, PrintReceipt, IInv, TypeOK
  <2>2. pc'[r] \in {"done", "print", "cardauth", "failed", "declined"}
    BY <1>0, <1>8, NextSteps DEF Commit, RecordAuth, PrintReceipt, IInv, TypeOK
  <2> QED  BY <1>3, <2>1, <2>2 DEF Holding, Writing
<1>9. CASE Crash
  <2>1. /\ UNCHANGED call
        /\ \A q \in Request : pc'[q] \notin Holding \cup {"number", "select"}
    BY <1>9 DEF Crash, InFlight, Final, Holding, Writing
  <2> QED  BY <1>3, <2>1
<1>10. CASE (\E c \in Id : RetryRow(c)) \/ Restart \/ Serve \/ UNCHANGED vars
  <2>1. UNCHANGED <<call, pc>>
    BY <1>0, <1>10, RetryPassesOver DEF Restart, Serve, vars, handler
  <2> QED  BY <1>3, <2>1
<1> QED
  BY <1>1, <1>2, <1>4, <1>5, <1>6, <1>7, <1>8, <1>9, <1>10 DEF Next, Handle

LEMMA JournalInductive == Spec => []JInv
<1>1. Init => JInv
  <2>1. Init => Numbers /\ Voids
    BY DEF Init, Numbers, Voids, Booked, Holding, Writing
  <2> QED  BY <2>1, InitIInv DEF JInv
<1>2. JInv /\ [Next]_vars => JInv'
  BY StepTypeFlow, StepServing, StepConsistent, StepNumbers, StepVoids
     DEF JInv, IInv, Consistent
<1> QED  BY <1>1, <1>2, PTL DEF Spec

(* No two rows of the books carry the same receipt number, whichever       *)
(* requests, failures and crashes they come from (pos_transaction.py: one  *)
(* nextval for each row, never rolled back).                               *)
THEOREM ReceiptNumbersUnique ==
  Spec => [](\A c, d \in Id :
               Booked(c) /\ Booked(d) /\ c # d => rows[c].number # rows[d].number)
<1>1. JInv => \A c, d \in Id :
                Booked(c) /\ Booked(d) /\ c # d => rows[c].number # rows[d].number
  BY DEF JInv, Numbers
<1> QED  BY <1>1, JournalInductive, PTL

-----------------------------------------------------------------------------
(* The refinement.                                                         *)

(* What the journal shows of a row.                                        *)
EntryOf(row) ==
  [number |-> row.number, content |-> row.content, pending |-> row.pending]

LEMMA JournalEntries ==
  /\ Journal = [c \in Id |-> IF Booked(c) THEN EntryOf(rows[c]) ELSE None]
  /\ \A row \in Row : /\ EntryOf(row) \in Books!Entry
                      /\ EntryOf(row) # None
                      /\ EntryOf(row).number = row.number
                      /\ EntryOf(row).content = row.content
<1>1. Journal = [c \in Id |-> IF Booked(c) THEN EntryOf(rows[c]) ELSE None]
  BY DEF Journal, Booked, EntryOf
<1>2. \A row \in Row : EntryOf(row) \in Books!Entry
  BY DEF EntryOf, Row, Books!Entry
<1>3. \A row \in Row : /\ EntryOf(row).number = row.number
                       /\ EntryOf(row).content = row.content
  BY DEF EntryOf
<1>4. None \notin Books!Entry
  BY SaleAssumption DEF Books!Entry
<1> QED  BY <1>1, <1>2, <1>3, <1>4

(* A commit appends the row of its session to the journal: under a number  *)
(* nobody has, and, when it is a correction, of a sale in the journal.     *)
LEMMA CommitAppends ==
  ASSUME JInv, NEW r \in Request, Commit(r)
  PROVE  Books!Append(call[r].id)
<1>0. IInv /\ Numbers /\ Voids
  BY DEF JInv
<1> DEFINE new == call[r].id
<1>1. /\ new \in Id
      /\ ~Booked(new)
      /\ rows'[new] = sess[r]
      /\ sess[r] \in Row
      /\ sess[r] # None
      /\ sess[r].content = ContentOf(r)
      /\ ContentOf(r) \in Content
      /\ \A c \in Id \ {new} : rows'[c] = rows[c]
      /\ pc[r] = "commit"
  BY <1>0, CommitAddsRow
<1>2. Journal' = [c \in Id |-> IF Booked(c)' THEN EntryOf(rows'[c]) ELSE None]
  BY DEF Journal, Booked, EntryOf
<1>3. Journal'[new] = EntryOf(sess[r])
  BY <1>1, <1>2 DEF Booked
<1>4. \A c \in Id \ {new} : Journal'[c] = Journal[c]
  BY <1>1, <1>2, JournalEntries DEF Booked
<1>5. \A c \in Id : c \in Books!Written <=> Booked(c)
  BY <1>0, JournalEntries DEF Books!Written, Booked, IInv, TypeOK
<1>6. \A c \in Id : Booked(c) =>
        /\ Journal[c].number = rows[c].number
        /\ Journal[c].content = rows[c].content
  BY <1>0, JournalEntries DEF Booked, IInv, TypeOK
<1>7. EntryOf(sess[r]) \in Books!Entry
  BY <1>1, JournalEntries
<1>8. \A d \in Books!Written : Journal[d].number # EntryOf(sess[r]).number
  <2>1. \A d \in Id : Booked(d) => rows[d].number # sess[r].number
    BY <1>0, <1>1 DEF Numbers, Drawn, Holding, Writing
  <2>2. Books!Written \subseteq Id
    BY DEF Books!Written
  <2> QED  BY <1>1, <1>5, <1>6, <2>1, <2>2, JournalEntries
<1>9. Books!RefersToSale(EntryOf(sess[r]).content)
  <2> SUFFICES ASSUME ContentOf(r).kind = "void"
               PROVE  /\ ContentOf(r).ref \in Books!Written
                      /\ Journal[ContentOf(r).ref].content.kind # "void"
    BY <1>1, JournalEntries DEF Books!RefersToSale
  <2>1. call[r] # None
    BY <1>0, <1>1 DEF IInv, Flow
  <2>2. /\ call[r].kind = "void"
        /\ call[r].ref \in Id
        /\ ContentOf(r).ref = call[r].ref
    BY <1>0, <2>1, VoidCall
  <2>3. Booked(call[r].ref) /\ rows[call[r].ref].content.kind # "void"
    BY <1>0, <1>1, <2>2 DEF Voids, Holding, Writing
  <2> QED  BY <1>5, <1>6, <2>2, <2>3
<1>10. Journal' = [Journal EXCEPT ![new] = EntryOf(sess[r])]
  BY <1>1, <1>2, <1>3, <1>4, JournalEntries
<1>11. new \notin Books!Written
  BY <1>1, <1>5
<1> QED
  BY <1>3, <1>7, <1>8, <1>9, <1>10, <1>11 DEF Books!Append

(* What the handlers, the retry, crashes and restarts do to the books is   *)
(* what FiscalJournal allows: rows are appended, one at a time, under      *)
(* numbers of their own, never changed and never taken back, and a         *)
(* correction is of a sale in the books (pos_transaction.py, storno.py,    *)
(* fiscal/service.py).                                                     *)
THEOREM BooksAreAJournal == Spec => ImplementsJournal
<1>1. Init => Books!Init
  BY DEF Init, Journal, Books!Init
<1>2. JInv /\ [Next]_vars => [Books!Next]_Journal
  <2> SUFFICES ASSUME JInv, [Next]_vars PROVE [Books!Next]_Journal
    OBVIOUS
  <2>1. ASSUME NEW r \in Request, Commit(r)
        PROVE  Books!Next
    <3>1. call[r].id \in Id
      BY <2>1, CommitAddsRow DEF JInv
    <3> QED  BY <2>1, <3>1, CommitAppends DEF Books!Next
  <2>2. ASSUME UNCHANGED rows
        PROVE  UNCHANGED Journal
    BY <2>2 DEF Journal
  <2> QED  BY <2>1, <2>2, OnlyCommitWrites DEF JInv
<1> QED
  BY <1>1, <1>2, JournalInductive, PTL DEF Spec, ImplementsJournal, Books!Spec

-----------------------------------------------------------------------------
(* What is told agrees with what is kept.                                  *)

Settling == {"cardauth", "print"}

(* What a step may do to a request: nothing takes back what it asked for   *)
(* or what the terminal said, and nothing makes it run again.              *)
LEMMA Onward ==
  ASSUME AInv, [Next]_vars, NEW q \in Request
  PROVE  /\ call[q] # None => call'[q] = call[q]
         /\ verdict[q] # "none" => verdict'[q] = verdict[q]
         /\ pc[q] \in Final \cup Settling =>
              pc'[q] \in Final \cup Settling /\ verdict'[q] = verdict[q]
         /\ pc'[q] = "idle" => pc[q] = "idle" /\ call'[q] = call[q]
         /\ pc'[q] = "authorize" => pc[q] \in {"idle", "authorize"}
         /\ log \subseteq log'
<1> DEFINE Goal == /\ call[q] # None => call'[q] = call[q]
                   /\ verdict[q] # "none" => verdict'[q] = verdict[q]
                   /\ pc[q] \in Final \cup Settling =>
                        /\ pc'[q] \in Final \cup Settling
                        /\ verdict'[q] = verdict[q]
                   /\ pc'[q] = "idle" => pc[q] = "idle" /\ call'[q] = call[q]
                   /\ pc'[q] = "authorize" => pc[q] \in {"idle", "authorize"}
                   /\ log \subseteq log'
<1>0. IInv /\ Calls /\ TypeOK /\ Flow
  BY DEF AInv, IInv
<1>1. ASSUME NEW r \in Request, NEW c \in Call, Submit(r, c)
      PROVE  Goal
  <2>1. PICK next \in FirstSteps(c.kind) : pc' = [pc EXCEPT ![r] = next]
    BY <1>1 DEF Submit
  <2>2. next # "idle"
    <3>1. c.kind \in {"cash", "card", "split", "void"}
      BY SaleAssumption DEF Call
    <3> QED  BY <2>1, <3>1, NextSteps
  <2>3. /\ pc[r] = "idle"
        /\ call[r] = None
        /\ call' = [call EXCEPT ![r] = c]
        /\ UNCHANGED <<verdict, log>>
    BY <1>0, <1>1 DEF Submit, Calls, tables
  <2> QED  BY <1>0, <2>1, <2>2, <2>3 DEF TypeOK, Final, Settling
<1>2. ASSUME NEW r \in Request, Authorize(r)
      PROVE  Goal
  <2>1. /\ pc[r] = "authorize"
        /\ verdict[r] = "none"
        /\ UNCHANGED <<call, log>>
        /\ pc'[r] \notin {"idle", "authorize"}
        /\ \A p \in Request \ {r} : pc'[p] = pc[p] /\ verdict'[p] = verdict[p]
    BY <1>0, <1>2 DEF Authorize, AuthorizeReplies, TypeOK, Flow, tables
  <2> QED  BY <2>1 DEF Final, Settling
<1>3. ASSUME UNCHANGED <<call, verdict>>, log \subseteq log',
             NEW r \in Request,
             \A p \in Request \ {r} : pc'[p] = pc[p],
             pc[r] \in Final \cup Settling => pc'[r] \in Final \cup Settling,
             pc'[r] \notin {"idle", "authorize"}
      PROVE  Goal
  BY <1>3
<1>4. ASSUME NEW r \in Request, Select(r) \/ CheckOriginal(r)
      PROVE  Goal
  <2>1. /\ UNCHANGED <<call, verdict, log>>
        /\ \A p \in Request \ {r} : pc'[p] = pc[p]
        /\ pc[r] \in {"select", "check"}
    BY <1>0, <1>4 DEF Select, CheckOriginal, TypeOK, tables
  <2>2. pc'[r] \notin {"idle", "authorize"}
    BY <1>0, <1>4, NextSteps DEF Select, CheckOriginal, TypeOK
  <2> QED  BY <1>3, <2>1, <2>2 DEF Final, Settling
<1>5. ASSUME NEW r \in Request, TakeNumber(r) \/ Insert(r)
      PROVE  Goal
  <2>1. /\ UNCHANGED <<call, verdict, log>>
        /\ \A p \in Request \ {r} : pc'[p] = pc[p]
        /\ pc[r] \in {"number", "insert"}
        /\ pc'[r] \notin {"idle", "authorize"}
    BY <1>0, <1>5 DEF TakeNumber, Insert, TypeOK, tables
  <2> QED  BY <1>3, <2>1 DEF Final, Settling
<1>6. ASSUME NEW r \in Request, Start(r) \/ Finish(r)
      PROVE  Goal
  <2>1. UNCHANGED log
    BY <1>6 DEF Start, Finish, tables
  <2> QED  BY <1>0, <1>3, <1>6, <2>1, TseCallNumber DEF Final, Settling
<1>7. ASSUME NEW r \in Request, Commit(r)
      PROVE  Goal
  <2>1. /\ UNCHANGED <<call, verdict>>
        /\ log \subseteq log'
        /\ pc[r] = "commit"
        /\ \A p \in Request \ {r} : pc'[p] = pc[p]
        /\ pc'[r] \notin {"idle", "authorize"}
    BY <1>0, <1>7, NextSteps DEF Commit, TypeOK
  <2> QED  BY <1>3, <2>1 DEF Final, Settling
<1>8. ASSUME NEW r \in Request, RecordAuth(r) \/ PrintReceipt(r)
      PROVE  Goal
  <2>1. /\ UNCHANGED <<call, verdict, log>>
        /\ \A p \in Request \ {r} : pc'[p] = pc[p]
        /\ pc'[r] \in {"failed", "declined", "print", "done"}
    BY <1>0, <1>8 DEF RecordAuth, PrintReceipt, TypeOK
  <2> QED  BY <1>3, <2>1 DEF Final, Settling
<1>9. ASSUME Crash
      PROVE  Goal
  <2>1. /\ UNCHANGED <<call, verdict, log>>
        /\ pc'[q] = IF InFlight(q) THEN "failed" ELSE pc[q]
    BY <1>9 DEF Crash, tables
  <2>2. pc[q] = "authorize" => InFlight(q)
    BY DEF InFlight, Final
  <2> QED  BY <2>1, <2>2 DEF Final
<1>10. ASSUME (\E c \in Id : RetryRow(c)) \/ Restart \/ Serve \/ UNCHANGED vars
       PROVE  Goal
  <2>1. UNCHANGED <<call, verdict, pc, log>>
    BY <1>0, <1>10, RetryPassesOver
       DEF AInv, Restart, Serve, vars, handler, tables
  <2> QED  BY <2>1
<1> HIDE DEF Goal
<1>11. ASSUME NEW r \in Request, Handle(r)
       PROVE  Goal
  BY <1>2, <1>4, <1>5, <1>6, <1>7, <1>8, <1>11 DEF Handle
<1>12. Goal
  BY <1>1, <1>9, <1>10, <1>11 DEF Next
<1> QED  BY <1>12 DEF Goal

(* A request that is alone with its id was so before.                      *)
LEMMA SoleBefore ==
  ASSUME AInv, [Next]_vars, NEW q \in Request, call[q] # None, Sole(q)'
  PROVE  Sole(q)
<1>1. \A p \in Request : call[p] # None => call'[p] = call[p]
  BY Onward
<1> QED  BY <1>1 DEF Sole

LEMMA StepCalls == AInv /\ [Next]_vars => Calls'
<1> SUFFICES ASSUME AInv, [Next]_vars PROVE Calls'
  OBVIOUS
<1>0. IInv /\ Calls /\ TypeOK /\ Flow
  BY DEF AInv, IInv
<1>1. ASSUME NEW r \in Request, NEW c \in Call, Submit(r, c)
      PROVE  Calls'
  <2>1. /\ pc[r] = "idle"
        /\ call[r] = None
        /\ verdict[r] = "none"
        /\ MaySubmit(c)
        /\ call' = [call EXCEPT ![r] = c]
        /\ UNCHANGED <<verdict, charged>>
    BY <1>0, <1>1 DEF Submit, Calls, Flow, outside
  <2>2. c # None
    BY SaleAssumption
  <2>3. \A q \in Request : q # r /\ call[q] # None /\ call[q].id = c.id =>
          call[q] = c /\ c.kind # "void"
    BY <2>1 DEF MaySubmit
  <2>4. /\ call'[r] = c
        /\ \A q \in Request \ {r} : call'[q] = call[q]
    BY <1>0, <2>1 DEF TypeOK
  <2>5. \A p, q \in Request :
          p # q /\ call'[p] # None /\ call'[q] # None /\ call'[p].id = call'[q].id
            => call'[p] = call'[q] /\ call'[q].kind # "void"
    BY <1>0, <2>3, <2>4 DEF Calls
  <2>6. \A q \in Request :
          /\ pc'[q] = "idle" => call'[q] = None
          /\ verdict'[q] # "none" => call'[q] # None /\ call'[q].kind \in CardKind
          /\ verdict'[q] = "declined" => q \notin charged'
          /\ pc'[q] \in {"idle", "authorize"} => q \notin charged'
    BY <1>0, <2>1, <2>4, Onward DEF Calls
  <2> QED  BY <2>5, <2>6 DEF Calls
<1>2. ASSUME NEW r \in Request, Authorize(r)
      PROVE  Calls'
  <2>1. /\ pc[r] = "authorize"
        /\ call[r] # None
        /\ call[r].kind \in CardKind
        /\ UNCHANGED call
    BY <1>0, <1>2 DEF Authorize, Flow
  <2>2. /\ \A q \in Request \ {r} :
             /\ verdict'[q] = verdict[q]
             /\ q \in charged' => q \in charged
        /\ verdict'[r] = "declined" => charged' = charged
    BY <1>0, <1>2 DEF Authorize, AuthorizeReplies, TypeOK
  <2>3. r \notin charged /\ pc'[r] \notin {"idle", "authorize"}
    BY <1>0, <1>2, <2>1 DEF Calls, Authorize, AuthorizeReplies, TypeOK
  <2>4. \A q \in Request :
          /\ pc'[q] = "idle" => call'[q] = None
          /\ verdict'[q] # "none" => call'[q] # None /\ call'[q].kind \in CardKind
          /\ verdict'[q] = "declined" => q \notin charged'
          /\ pc'[q] \in {"idle", "authorize"} => q \notin charged'
    BY <1>0, <2>1, <2>2, <2>3, Onward DEF Calls
  <2> QED  BY <1>0, <2>1, <2>4 DEF Calls
<1>3. ASSUME UNCHANGED <<call, verdict, charged>>
      PROVE  Calls'
  BY <1>0, <1>3, Onward DEF Calls
<1>4. ASSUME NEW r \in Request, Handle(r), ~Authorize(r)
      PROVE  UNCHANGED <<call, verdict, charged>>
  BY <1>4 DEF Handle, Select, CheckOriginal, TakeNumber, Insert, Start, Finish,
              Commit, RecordAuth, PrintReceipt, outside
<1>5. CASE Crash \/ Restart \/ Serve \/ UNCHANGED vars
  BY <1>3, <1>5 DEF Crash, Restart, Serve, vars, handler, outside
<1>6. CASE \E c \in Id : RetryRow(c)
  BY <1>0, <1>3, <1>6, RetryPassesOver DEF handler
<1> QED  BY <1>1, <1>2, <1>3, <1>4, <1>5, <1>6 DEF Next

(* What the author of a row asked for, and what it heard from the          *)
(* terminal, stays, and so does the row.                                   *)
LEMMA StepAuthors == AInv /\ [Next]_vars => Authors'
<1> SUFFICES ASSUME AInv, [Next]_vars, NEW c \in Id, Booked(c)'
             PROVE  \E q \in Request :
                      /\ call'[q] # None
                      /\ call'[q].id = c
                      /\ pc'[q] \in Final \cup Settling
                      /\ rows'[c].content = ContentOf(q)'
  BY DEF Authors, Settling
<1>0. IInv
  BY DEF AInv
<1>1. CASE Booked(c)
  <2>1. PICK q \in Request :
          /\ call[q] # None
          /\ call[q].id = c
          /\ pc[q] \in Final \cup Settling
          /\ rows[c].content = ContentOf(q)
    BY <1>1 DEF AInv, Authors, Settling
  <2>2. /\ call'[q] = call[q]
        /\ verdict'[q] = verdict[q]
        /\ pc'[q] \in Final \cup Settling
    BY <2>1, Onward
  <2>3. ContentOf(q)' = ContentOf(q)
    BY <2>2 DEF ContentOf
  <2>4. rows'[c] = rows[c]
    BY <1>0, <1>1, RowsStay
  <2> QED  BY <2>1, <2>2, <2>3, <2>4
<1>2. ASSUME NEW r \in Request, Commit(r), ~Booked(c)
      PROVE  \E q \in Request :
               /\ call'[q] # None
               /\ call'[q].id = c
               /\ pc'[q] \in Final \cup Settling
               /\ rows'[c].content = ContentOf(q)'
  <2>1. /\ rows'[call[r].id] = sess[r]
        /\ sess[r].content = ContentOf(r)
        /\ \A d \in Id \ {call[r].id} : rows'[d] = rows[d]
        /\ pc[r] = "commit"
        /\ pc' = [pc EXCEPT ![r] = AfterSale(r)]
        /\ UNCHANGED <<call, verdict>>
    BY <1>0, <1>2, CommitAddsRow
  <2>2. c = call[r].id
    BY <1>2, <2>1 DEF Booked
  <2>3. pc'[r] \in Final \cup Settling
    BY <1>0, <2>1, NextSteps DEF IInv, TypeOK, Final, Settling
  <2>4. call[r] # None
    BY <1>0, <2>1 DEF IInv, Flow
  <2>5. ContentOf(r)' = ContentOf(r)
    BY <2>1 DEF ContentOf
  <2> QED  BY <2>1, <2>2, <2>3, <2>4, <2>5
<1>3. ~Booked(c) => \E r \in Request : Commit(r)
  BY <1>0, OnlyCommitWrites DEF Booked
<1> QED  BY <1>1, <1>2, <1>3

(* A handler gets to its last steps by committing its row, or by finding   *)
(* one that is there.                                                      *)
LEMMA SettlesByRow ==
  ASSUME AInv, [Next]_vars, NEW r \in Request,
         pc'[r] \in Settling \cup {"done"}, pc[r] \notin Settling \cup {"done"}
  PROVE  Commit(r) \/ (Select(r) /\ Booked(call[r].id))
<1>0. IInv /\ TypeOK /\ Flow
  BY DEF AInv, IInv
<1>1. ASSUME NEW q \in Request, NEW c \in Call, Submit(q, c)
      PROVE  FALSE
  <2>1. PICK next \in FirstSteps(c.kind) : pc' = [pc EXCEPT ![q] = next]
    BY <1>1 DEF Submit
  <2>2. next \notin Settling \cup {"done"}
    <3>1. c.kind \in {"cash", "card", "split", "void"}
      BY SaleAssumption DEF Call
    <3> QED  BY <2>1, <3>1, NextSteps DEF Settling
  <2> QED  BY <1>0, <2>1, <2>2 DEF TypeOK
<1>2. ASSUME NEW q \in Request, q # r, Handle(q)
      PROVE  FALSE
  <2>1. \/ \E next : pc' = [pc EXCEPT ![q] = next]
        \/ Start(q) \/ Finish(q)
    BY <1>2 DEF Handle, Authorize, Select, CheckOriginal, TakeNumber, Insert,
                Commit, RecordAuth, PrintReceipt
  <2>2. CASE \E next : pc' = [pc EXCEPT ![q] = next]
    BY <1>0, <1>2, <2>2 DEF TypeOK
  <2>3. CASE Start(q) \/ Finish(q)
    BY <1>0, <1>2, <2>3, TseCallNumber
  <2> QED  BY <2>1, <2>2, <2>3
<1>3. ASSUME Select(r)
      PROVE  Booked(call[r].id)
  <2>1. pc'[r] = SelectStep(r)
    BY <1>0, <1>3 DEF Select, TypeOK
  <2> QED  BY <2>1 DEF SelectStep, Booked, Settling
<1>4. ASSUME Authorize(r) \/ CheckOriginal(r) \/ TakeNumber(r) \/ Insert(r)
      PROVE  FALSE
  <2>1. CASE Authorize(r)
    BY <1>0, <2>1 DEF Authorize, AuthorizeReplies, TypeOK, Settling
  <2>2. CASE CheckOriginal(r)
    BY <1>0, <2>2, NextSteps DEF CheckOriginal, TypeOK, Settling
  <2>3. CASE TakeNumber(r) \/ Insert(r)
    BY <1>0, <2>3 DEF TakeNumber, Insert, TypeOK, Settling
  <2> QED  BY <1>4, <2>1, <2>2, <2>3
<1>5. ASSUME Start(r) \/ Finish(r)
      PROVE  FALSE
  BY <1>0, <1>5, TseCallNumber DEF Settling
<1>6. ASSUME RecordAuth(r) \/ PrintReceipt(r)
      PROVE  FALSE
  BY <1>6 DEF RecordAuth, PrintReceipt, Settling
<1>7. ASSUME Crash
      PROVE  FALSE
  BY <1>7 DEF Crash, Settling
<1>8. ASSUME (\E c \in Id : RetryRow(c)) \/ Restart \/ Serve \/ UNCHANGED vars
      PROVE  FALSE
  BY <1>0, <1>8, RetryPassesOver DEF Restart, Serve, vars, handler
<1> QED
  BY <1>1, <1>2, <1>3, <1>4, <1>5, <1>6, <1>7, <1>8 DEF Next, Handle

LEMMA StepSettled == AInv /\ [Next]_vars => Settled'
<1> SUFFICES ASSUME AInv, [Next]_vars, NEW r \in Request,
                    pc'[r] \in Settling \cup {"done"},
                    Sole(r)' \/ call'[r].kind = "cash"
             PROVE  /\ rows'[call'[r].id] # None
                    /\ rows'[call'[r].id].content = ContentOf(r)'
  BY DEF Settled, Settling, Booked
<1>0. IInv /\ TypeOK /\ Flow /\ Calls
  BY DEF AInv, IInv
<1>1. CASE Commit(r)
  <2>1. /\ rows'[call[r].id] = sess[r]
        /\ sess[r] # None
        /\ sess[r].content = ContentOf(r)
        /\ UNCHANGED <<call, verdict>>
    BY <1>0, <1>1, CommitAddsRow
  <2> QED  BY <2>1 DEF Booked, ContentOf
<1>2. CASE pc[r] \in Settling \cup {"done"}
  <2>1. /\ call[r] # None
        /\ call'[r] = call[r]
        /\ verdict'[r] = verdict[r]
    BY <1>0, <1>2, Onward DEF Flow, Settling, Final
  <2>2. Sole(r) \/ call[r].kind = "cash"
    BY <2>1, SoleBefore
  <2>3. /\ Booked(call[r].id)
        /\ rows[call[r].id].content = ContentOf(r)
    BY <1>2, <2>2 DEF AInv, Settled, Settling
  <2>4. call[r].id \in Id
    BY <1>0, <2>1, VoidCall
  <2>5. rows[call[r].id] # None /\ rows'[call[r].id] = rows[call[r].id]
    BY <1>0, <2>3, <2>4, RowsStay DEF Booked
  <2> QED  BY <2>1, <2>3, <2>5 DEF ContentOf, Booked
<1>3. CASE Select(r) /\ Booked(call[r].id)
  <2>1. /\ pc[r] = "select"
        /\ call[r] # None
        /\ UNCHANGED <<call, verdict, rows>>
    BY <1>0, <1>3 DEF Select, Flow, tables
  <2>2. call[r].id \in Id
    BY <1>0, <2>1, VoidCall
  <2>3. PICK q \in Request :
          /\ call[q] # None
          /\ call[q].id = call[r].id
          /\ pc[q] \in Final \cup Settling
          /\ rows[call[r].id].content = ContentOf(q)
    BY <1>3, <2>2 DEF AInv, Authors, Settling
  <2>4. q # r
    BY <2>1, <2>3 DEF Final, Settling
  <2>5. call[r].kind = "cash"
    BY <2>1, <2>3, <2>4 DEF Sole
  <2>6. call[q] = call[r]
    BY <1>0, <2>1, <2>3, <2>4 DEF Calls
  <2>7. verdict[q] = "none" /\ verdict[r] = "none"
    BY <1>0, <2>5, <2>6 DEF Calls, CardKind
  <2>8. ContentOf(q) = ContentOf(r)
    BY <2>6, <2>7 DEF ContentOf
  <2> QED  BY <1>3, <2>1, <2>3, <2>8 DEF Booked, ContentOf
<1> QED  BY <1>1, <1>2, <1>3, SettlesByRow

LEMMA StepAuths == AInv /\ [Next]_vars => Auths'
<1> SUFFICES ASSUME AInv, [Next]_vars, NEW c \in Id, cards'[c] # "none"
             PROVE  \E q \in Request :
                      /\ call'[q] # None
                      /\ call'[q].id = c
                      /\ verdict'[q] = cards'[c]
                      /\ Sole(q)' => Booked(c)' /\ rows'[c].content = ContentOf(q)'
  BY DEF Auths
<1>0. IInv /\ TypeOK /\ Flow /\ Calls
  BY DEF AInv, IInv
<1>1. ASSUME NEW q \in Request, call[q] # None, call[q].id = c,
             verdict[q] # "none", UNCHANGED verdict[q],
             Sole(q) => Booked(c) /\ rows[c].content = ContentOf(q)
      PROVE  /\ call'[q] # None
             /\ call'[q].id = c
             /\ verdict'[q] = verdict[q]
             /\ Sole(q)' => Booked(c)' /\ rows'[c].content = ContentOf(q)'
  <2>1. call'[q] = call[q] /\ verdict'[q] = verdict[q]
    BY <1>1, Onward
  <2>2. ContentOf(q)' = ContentOf(q)
    BY <2>1 DEF ContentOf
  <2>3. Sole(q)' => Sole(q)
    BY <1>1, SoleBefore
  <2>4. Booked(c) => Booked(c)' /\ rows'[c] = rows[c]
    BY <1>0, RowsStay
  <2> QED  BY <1>1, <2>1, <2>2, <2>3, <2>4
<1>2. CASE cards'[c] = cards[c]
  <2>1. PICK q \in Request :
          /\ call[q] # None
          /\ call[q].id = c
          /\ verdict[q] = cards[c]
          /\ Sole(q) => Booked(c) /\ rows[c].content = ContentOf(q)
    BY <1>2 DEF AInv, Auths
  <2>2. verdict[q] # "none" /\ UNCHANGED verdict[q]
    BY <1>2, <2>1, Onward
  <2> QED  BY <1>1, <1>2, <2>1, <2>2
<1>3. ASSUME NEW r \in Request, RecordAuth(r), cards'[c] # cards[c]
      PROVE  \E q \in Request :
               /\ call'[q] # None
               /\ call'[q].id = c
               /\ verdict'[q] = cards'[c]
               /\ Sole(q)' => Booked(c)' /\ rows'[c].content = ContentOf(q)'
  <2>1. /\ pc[r] = "cardauth"
        /\ call[r] # None
        /\ call[r].kind \in CardKind
        /\ verdict[r] # "none"
        /\ UNCHANGED verdict
    BY <1>0, <1>3 DEF RecordAuth, Flow
  <2>2. cards' = [cards EXCEPT ![call[r].id] = verdict[r]]
    BY <1>3 DEF RecordAuth
  <2>3. c = call[r].id /\ cards'[c] = verdict[r]
    BY <1>0, <1>3, <2>2 DEF TypeOK
  <2>4. Sole(r) => Booked(c) /\ rows[c].content = ContentOf(r)
    BY <2>1, <2>3 DEF AInv, Settled
  <2> QED  BY <1>1, <2>1, <2>3, <2>4
<1>4. ASSUME NEW r \in Request, Handle(r), ~RecordAuth(r)
      PROVE  UNCHANGED cards
  BY <1>4 DEF Handle, Authorize, Select, CheckOriginal, TakeNumber, Insert,
              Start, Finish, Commit, PrintReceipt, tables
<1>5. ASSUME NEW r \in Request, NEW d \in Call, Submit(r, d)
      PROVE  UNCHANGED cards
  BY <1>5 DEF Submit, tables
<1>6. ASSUME (\E d \in Id : RetryRow(d)) \/ Crash \/ Restart \/ Serve
               \/ UNCHANGED vars
      PROVE  UNCHANGED cards
  BY <1>0, <1>6, RetryPassesOver DEF Crash, Restart, Serve, vars, tables
<1> QED  BY <1>2, <1>3, <1>4, <1>5, <1>6 DEF Next

(* What a session and its log entries say together.                        *)
LoggedAs(row, entries, c) ==
  IF row.pending
  THEN \E e \in entries : ~e.ok /\ (e.op = "start" \/ e.id = c)
  ELSE LogEntryOf("finish", c, "ok") \in entries

LEMMA TseCallLogged ==
  ASSUME AInv, NEW r \in Request, Start(r) \/ Finish(r), pc'[r] = "commit"
  PROVE  LoggedAs(sess'[r], slog'[r], call[r].id)
<1>0. IInv /\ TypeOK
  BY DEF AInv, IInv
<1>1. /\ pc[r] \in {"start", "finish"}
      /\ call[r].id \in Id
      /\ sess[r] \in Row
      /\ sess[r].pending
      /\ ContentOf(r) \in Content
  <2>1. pc[r] \in {"start", "finish"}
    BY <1>0, TseCallNumber
  <2> QED  BY <1>0, <2>1, SessionIsAlone DEF IInv, Sessions, Writing
<1>2. CASE Start(r)
  <2>1. PICK reply \in StartReplies(tse[call[r].id]) :
          AfterCall(r, "start", reply.answer, "finish", sess[r])
    BY <1>2 DEF Start
  <2>2. reply.answer \in {"ok", "refused", "lost"}
    BY <1>0, <1>1, <2>1, RepliesType DEF TypeOK
  <2>3. PICK next : /\ pc' = [pc EXCEPT ![r] = next]
                    /\ reply.answer = "ok" => next = "finish"
                    /\ reply.answer = "lost" => next = "failed"
    BY <2>1, <2>2 DEF AfterCall
  <2>4. reply.answer = "refused"
    BY <1>0, <2>2, <2>3 DEF TypeOK
  <2>5. /\ slog'[r] = slog[r] \cup {LogEntryOf("start", call[r].id, "refused")}
        /\ sess'[r] = sess[r]
    BY <1>0, <2>1, <2>4 DEF AfterCall, TypeOK
  <2>6. /\ ~LogEntryOf("start", call[r].id, "refused").ok
        /\ LogEntryOf("start", call[r].id, "refused").op = "start"
    BY DEF LogEntryOf
  <2> QED  BY <1>1, <2>5, <2>6 DEF LoggedAs
<1>3. CASE Finish(r)
  <2>1. PICK reply \in FinishReplies(tse[call[r].id], ContentOf(r)) :
          AfterCall(r, "finish", reply.answer, "commit",
                    Signed(sess[r], ContentOf(r)))
    BY <1>3 DEF Finish, ProcessData
  <2>2. reply.answer \in {"ok", "refused", "lost"}
    BY <1>0, <1>1, <2>1, RepliesType DEF TypeOK
  <2>3. PICK next : /\ pc' = [pc EXCEPT ![r] = next]
                    /\ reply.answer = "lost" => next = "failed"
    BY <2>1, <2>2 DEF AfterCall
  <2>4. reply.answer # "lost"
    BY <1>0, <2>3 DEF TypeOK
  <2>5. /\ slog'[r] = slog[r] \cup {LogEntryOf("finish", call[r].id, reply.answer)}
        /\ sess'[r] = IF reply.answer = "ok"
                      THEN Signed(sess[r], ContentOf(r)) ELSE sess[r]
    BY <1>0, <2>1, <2>4 DEF AfterCall, TypeOK
  <2>6. CASE reply.answer = "ok"
    BY <1>1, <2>5, <2>6, SignedRow DEF LoggedAs
  <2>7. CASE reply.answer = "refused"
    <3>1. /\ ~LogEntryOf("finish", call[r].id, "refused").ok
          /\ LogEntryOf("finish", call[r].id, "refused").id = call[r].id
      BY DEF LogEntryOf
    <3> QED  BY <1>1, <2>5, <2>7, <3>1 DEF LoggedAs
  <2> QED  BY <2>2, <2>4, <2>6, <2>7
<1> QED  BY <1>2, <1>3

LEMMA StepSessionLogged == AInv /\ [Next]_vars => SessionLogged'
<1> SUFFICES ASSUME AInv, [Next]_vars, NEW r \in Request, pc'[r] = "commit"
             PROVE  LoggedAs(sess'[r], slog'[r], call'[r].id)
  BY DEF SessionLogged, LoggedAs, LogEntryOf
<1>0. IInv /\ TypeOK /\ Flow
  BY DEF AInv, IInv
<1>1. ASSUME Start(r) \/ Finish(r)
      PROVE  LoggedAs(sess'[r], slog'[r], call'[r].id)
  BY <1>0, <1>1, TseCallLogged, TseCallNumber
<1>2. ASSUME pc[r] = "commit", UNCHANGED <<sess[r], slog[r]>>
      PROVE  LoggedAs(sess'[r], slog'[r], call'[r].id)
  <2>1. call[r] # None /\ call'[r] = call[r]
    BY <1>0, <1>2, Onward DEF Flow
  <2> QED  BY <1>2, <2>1 DEF AInv, SessionLogged, LoggedAs
<1>3. ASSUME NEW q \in Request, NEW c \in Call, Submit(q, c)
      PROVE  pc[r] = "commit" /\ UNCHANGED <<sess[r], slog[r]>>
  <2>1. PICK next \in FirstSteps(c.kind) : pc' = [pc EXCEPT ![q] = next]
    BY <1>3 DEF Submit
  <2>2. next # "commit"
    <3>1. c.kind \in {"cash", "card", "split", "void"}
      BY SaleAssumption DEF Call
    <3> QED  BY <2>1, <3>1, NextSteps
  <2> QED  BY <1>0, <1>3, <2>1, <2>2 DEF TypeOK, Submit
<1>4. ASSUME NEW q \in Request, Start(q) \/ Finish(q), q # r
      PROVE  pc[r] = "commit" /\ UNCHANGED <<sess[r], slog[r]>>
  <2>1. pc'[r] = pc[r] /\ UNCHANGED sess[r]
    BY <1>0, <1>4, TseCallNumber
  <2>2. UNCHANGED slog[r]
    BY <1>0, <1>4 DEF Start, Finish, AfterCall, TypeOK
  <2> QED  BY <2>1, <2>2
<1>5. ASSUME NEW q \in Request, Commit(q)
      PROVE  pc[r] = "commit" /\ UNCHANGED <<sess[r], slog[r]>>
  BY <1>0, <1>5, NextSteps DEF Commit, TypeOK
<1>6. ASSUME NEW q \in Request, Insert(q)
      PROVE  pc[r] = "commit" /\ UNCHANGED <<sess[r], slog[r]>>
  <2>1. pc[q] = "insert" /\ UNCHANGED slog
    BY <1>6 DEF Insert
  <2>2. pc'[q] # "commit"
    BY <1>0, <1>6 DEF Insert, TypeOK
  <2>3. \A p \in Request \ {q} : pc'[p] = pc[p] /\ sess'[p] = sess[p]
    BY <1>0, <1>6 DEF Insert, TypeOK
  <2> QED  BY <2>1, <2>2, <2>3
<1>7. ASSUME NEW q \in Request,
             Authorize(q) \/ Select(q) \/ CheckOriginal(q) \/ TakeNumber(q)
               \/ RecordAuth(q) \/ PrintReceipt(q)
      PROVE  pc[r] = "commit" /\ UNCHANGED <<sess[r], slog[r]>>
  <2>1. UNCHANGED <<sess, slog>>
    BY <1>7 DEF Authorize, Select, CheckOriginal, TakeNumber, RecordAuth,
                PrintReceipt
  <2>2. /\ pc'[q] # "commit"
        /\ q # r => pc'[r] = pc[r]
    <3>1. CASE Authorize(q)
      BY <1>0, <3>1 DEF Authorize, AuthorizeReplies, TypeOK
    <3>2. CASE Select(q)
      BY <1>0, <3>2, NextSteps DEF Select, TypeOK
    <3>3. CASE CheckOriginal(q)
      BY <1>0, <3>3, NextSteps DEF CheckOriginal, TypeOK
    <3>4. CASE TakeNumber(q) \/ RecordAuth(q) \/ PrintReceipt(q)
      BY <1>0, <3>4 DEF TakeNumber, RecordAuth, PrintReceipt, TypeOK
    <3> QED  BY <1>7, <3>1, <3>2, <3>3, <3>4
  <2> QED  BY <2>1, <2>2
<1>8. ASSUME Crash
      PROVE  FALSE
  BY <1>8 DEF Crash, InFlight, Final
<1>9. ASSUME (\E c \in Id : RetryRow(c)) \/ Restart \/ Serve \/ UNCHANGED vars
      PROVE  pc[r] = "commit" /\ UNCHANGED <<sess[r], slog[r]>>
  BY <1>0, <1>9, RetryPassesOver DEF Restart, Serve, vars, handler
<1> QED
  BY <1>1, <1>2, <1>3, <1>4, <1>5, <1>6, <1>7, <1>8, <1>9 DEF Next, Handle

LEMMA StepLogExplains == AInv /\ [Next]_vars => LogExplainsRows'
<1> SUFFICES ASSUME AInv, [Next]_vars, NEW c \in Id, rows'[c] # None
             PROVE  LoggedAs(rows'[c], log', c)
  BY DEF LogExplainsRows, Booked, LoggedAs, LogEntryOf
<1>0. IInv
  BY DEF AInv
<1>1. \A q \in Request : log \subseteq log'
  BY Onward
<1>2. CASE Booked(c)
  <2>1. rows'[c] = rows[c]
    BY <1>0, <1>2, RowsStay
  <2>2. LoggedAs(rows[c], log, c)
    BY <1>2 DEF AInv, LogExplainsRows, LoggedAs
  <2>3. log \subseteq log'
    <3>1. PICK q \in Request : TRUE
      BY <1>2 DEF AInv, Authors
    <3> QED  BY <1>1, <3>1
  <2> QED  BY <2>1, <2>2, <2>3 DEF LoggedAs
<1>3. ASSUME NEW r \in Request, Commit(r), ~Booked(c)
      PROVE  LoggedAs(rows'[c], log', c)
  <2>1. /\ rows'[call[r].id] = sess[r]
        /\ \A d \in Id \ {call[r].id} : rows'[d] = rows[d]
        /\ pc[r] = "commit"
    BY <1>0, <1>3, CommitAddsRow
  <2>2. c = call[r].id
    BY <1>3, <2>1 DEF Booked
  <2>3. log' = log \cup slog[r]
    BY <1>3 DEF Commit
  <2>4. LoggedAs(sess[r], slog[r], c)
    BY <2>1, <2>2 DEF AInv, SessionLogged, LoggedAs
  <2> QED  BY <2>1, <2>2, <2>3, <2>4 DEF LoggedAs
<1> QED  BY <1>0, <1>2, <1>3, OnlyCommitWrites DEF Booked

LEMMA AnswersInductive == Spec => []AInv
<1>1. Init => AInv
  <2>1. Init => Calls /\ Authors /\ Settled /\ Auths /\ SessionLogged
                  /\ LogExplainsRows
    BY DEF Init, Calls, Authors, Settled, Auths, SessionLogged,
           LogExplainsRows, Booked
  <2> QED  BY <2>1, InitIInv DEF AInv
<1>2. AInv /\ [Next]_vars => AInv'
  BY StepTypeFlow, StepServing, StepConsistent, StepCalls, StepAuthors,
     StepSettled, StepAuths, StepSessionLogged, StepLogExplains
     DEF AInv, IInv, Consistent
<1> QED  BY <1>1, <1>2, PTL DEF Spec

(* A till that is told its payment went through, or has a receipt for it,  *)
(* finds it in the books: always for cash and corrections, for cards if it *)
(* did not send the request twice (payment/service.py, storno.py).         *)
THEOREM AnswersAreBooked == Spec => []AnsweredIsBooked
<1>1. AInv => AnsweredIsBooked
  BY DEF AInv, Settled, AnsweredIsBooked
<1> QED  BY <1>1, AnswersInductive, PTL

(* card_auths, the terminal and the books agree on every payment that was  *)
(* sent once (payment/service.py).                                         *)
THEOREM AuthorisationsAgree == Spec => []CardAuthAgreesWithBooks
<1>1. AInv => CardAuthAgreesWithBooks
  <2> SUFFICES ASSUME AInv, NEW r \in Request, Sole(r),
                      cards[call[r].id] # "none"
               PROVE  /\ Booked(call[r].id)
                      /\ cards[call[r].id] = "approved" <=> r \in charged
                      /\ cards[call[r].id] = "declined"
                           <=> rows[call[r].id].content.kind = "cancelled"
    BY DEF CardAuthAgreesWithBooks
  <2>0. IInv /\ TypeOK /\ Flow /\ Calls
    BY DEF AInv, IInv
  <2>1. call[r] # None /\ call[r].id \in Id
    BY <2>0, VoidCall DEF Sole
  <2>2. PICK q \in Request :
          /\ call[q] # None
          /\ call[q].id = call[r].id
          /\ verdict[q] = cards[call[r].id]
          /\ Sole(q) => /\ Booked(call[r].id)
                        /\ rows[call[r].id].content = ContentOf(q)
    BY <2>1 DEF AInv, Auths
  <2>3. q = r
    BY <2>2 DEF Sole
  <2>4. /\ verdict[r] = cards[call[r].id]
        /\ Booked(call[r].id)
        /\ rows[call[r].id].content = ContentOf(r)
    BY <2>2, <2>3
  <2>5. verdict[r] \in {"approved", "declined"}
    BY <2>0, <2>4 DEF TypeOK
  <2>6. verdict[r] = "approved" <=> r \in charged
    BY <2>0, <2>5 DEF Flow, Calls
  <2>7. verdict[r] = "declined" <=> ContentOf(r).kind = "cancelled"
    <3>1. call[r].kind \in {"cash", "card", "split", "void"}
      BY <2>0, <2>1, VoidCall
    <3> QED  BY <3>1 DEF ContentOf
  <2> QED  BY <2>4, <2>6, <2>7
<1> QED  BY <1>1, AnswersInductive, PTL

(* The committed signing log accounts for every committed row: a signed    *)
(* one by a finish that succeeded, a pending one by a call that failed     *)
(* (fiscal/service.py: _log writes in the session of the row).             *)
THEOREM RowsAreExplained == Spec => []LogExplainsRows
<1>1. AInv => LogExplainsRows
  BY DEF AInv
<1> QED  BY <1>1, AnswersInductive, PTL

=============================================================================
