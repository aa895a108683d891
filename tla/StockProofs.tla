---------------------------- MODULE StockProofs ----------------------------
(***************************************************************************)
(* Proofs about Stock for any number of requests and items, any baskets,   *)
(* returns, counts and changes.                                            *)
(***************************************************************************)
EXTENDS Stock, TLAPS

-----------------------------------------------------------------------------
(* The inductive invariant, in parts.                                      *)

Lines == {"order", "return"}

Open == {"update", "send", "price", "commit"}

(* What the place of a handler in its code says about its request.         *)
Flow ==
  \A r \in Request :
    /\ pc[r] # "idle" => call[r] \in Call
    /\ pc[r] \in {"update", "send", "commit"} => call[r].kind \in Lines
    /\ pc[r] = "price" => call[r].kind = "order"
    /\ pc[r] = "check" => call[r].kind = "return"
    /\ pc[r] \in {"load", "write"} => call[r].kind = "set"
    /\ pc[r] = "adjust" => call[r].kind = "adjust"
    /\ pc[r] \in {"idle", "check"} => line[r] = 1
    /\ pc[r] \in {"update", "send"} => line[r] \in DOMAIN call[r].lines
    /\ pc[r] \in Open /\ call[r].kind = "return" => Fits(call[r])

(* Only an order or a return between its first UPDATE and its end holds    *)
(* rows, and a row has one holder.                                         *)
Locks ==
  /\ \A r \in Request : pc[r] \notin Open => held[r] = Nothing
  /\ \A q, r \in Request : \A i \in Item :
       held[q][i] # None /\ held[r][i] # None => q = r

(* What is on record was asked for, and was put there when the handler was *)
(* at its end.                                                             *)
Kept ==
  \A r \in Request :
    /\ booked[r] # None => /\ booked[r] = call[r]
                           /\ pc[r] \in {"tell", "done", "failed"}
    /\ pc[r] \in {"tell", "done"} => booked[r] = call[r]

IInv == TypeOK /\ Flow /\ Locks /\ Kept

-----------------------------------------------------------------------------
(* What a call may be.                                                     *)
LEMMA CallType ==
  ASSUME NEW c \in Call
  PROVE  /\ c # None
         /\ c.kind \in {"order", "return", "set", "adjust"}
         /\ c.kind = "order" => c.lines \in Basket
         /\ c.kind = "return" => c.order \in Request /\ c.lines \in Parcel
         /\ c.kind = "set" => c.item \in Item /\ c.value \in Nat
         /\ c.kind = "adjust" => c.item \in Item /\ c.delta \in Int
  BY StockAssumption DEF Call

(* The elements of a non-empty sequence.                                   *)
LEMMA Elements ==
  ASSUME NEW S, NEW s \in Seq(S), s # <<>>
  PROVE  /\ Len(s) \in Nat \ {0}
         /\ DOMAIN s = 1 .. Len(s)
         /\ \A k \in DOMAIN s : s[k] \in S
  OBVIOUS

(* An order or a return has lines, and each is about some pieces.          *)
LEMMA LinesType ==
  ASSUME NEW c \in Call, c.kind \in Lines
  PROVE  /\ Len(c.lines) \in Nat \ {0}
         /\ DOMAIN c.lines = 1 .. Len(c.lines)
         /\ \A k \in DOMAIN c.lines :
              /\ c.lines[k].qty \in Nat \ {0}
              /\ c.kind = "order" => c.lines[k].item \in Item
<1>1. CASE c.kind = "order"
  <2> DEFINE L == [item : Item, qty : Nat \ {0}]
  <2>1. c.lines \in Seq(L) /\ c.lines # <<>>
    BY <1>1, CallType, StockAssumption
  <2>2. /\ Len(c.lines) \in Nat \ {0}
        /\ DOMAIN c.lines = 1 .. Len(c.lines)
        /\ \A k \in DOMAIN c.lines : c.lines[k] \in L
    <3> HIDE DEF L
    <3> QED  BY <2>1, Elements
  <2> QED  BY <2>2
<1>2. CASE c.kind = "return"
  <2> DEFINE L == [line : Nat \ {0}, qty : Nat \ {0}]
  <2>1. c.lines \in Seq(L) /\ c.lines # <<>>
    BY <1>2, CallType, StockAssumption
  <2>2. /\ Len(c.lines) \in Nat \ {0}
        /\ DOMAIN c.lines = 1 .. Len(c.lines)
        /\ \A k \in DOMAIN c.lines : c.lines[k] \in L
    <3> HIDE DEF L
    <3> QED  BY <2>1, Elements
  <2> QED  BY <1>2, <2>2
<1> QED  BY <1>1, <1>2 DEF Lines

(* The UPDATE of a line is about an item, and changes it by a whole number.*)
LEMMA ChangeType ==
  ASSUME TypeOK, Flow, NEW r \in Request, pc[r] = "update"
  PROVE  /\ Target(r) \in Item
         /\ Change(call[r], line[r]).by \in Int
         /\ call[r].kind = "return" => Change(call[r], line[r]).by >= 0
<1> DEFINE c == call[r]
           k == line[r]
<1>1. c \in Call /\ c.kind \in Lines /\ k \in DOMAIN c.lines
  BY DEF Flow
<1>2. c.lines[k].qty \in Nat
  BY <1>1, LinesType
<1>3. CASE c.kind = "order"
  <2>1. c.lines[k].item \in Item
    BY <1>1, <1>3, LinesType
  <2> QED  BY <1>2, <1>3, <2>1 DEF Target, Change
<1>4. CASE c.kind = "return"
  <2>1. Fits(c)
    BY <1>4 DEF Flow, Open
  <2>2. c.order \in Request
    BY <1>1, <1>4, CallType
  <2> DEFINE o == booked[c.order]
  <2>3. o \in Call /\ o.kind = "order" /\ c.lines[k].line \in DOMAIN o.lines
    BY <1>1, <2>1, <2>2 DEF TypeOK, Fits, Bought
  <2>4. o.lines[c.lines[k].line].item \in Item
    BY <2>3, LinesType DEF Lines
  <2>5. Target(r) = o.lines[c.lines[k].line].item
    BY <1>4 DEF Target, Change, Bought
  <2>6. Change(c, k).by = c.lines[k].qty
    BY <1>4 DEF Change
  <2>7. Target(r) \in Item
    BY <2>4, <2>5
  <2>8. Change(c, k).by \in Nat
    BY <1>2, <2>6
  <2> QED  BY <2>7, <2>8
<1> QED  BY <1>1, <1>3, <1>4 DEF Lines

LEMMA OutcomeType ==
  ASSUME TypeOK, Flow, NEW r \in Request, pc[r] = "update",
         Enough(call[r], Outcome(r))
  PROVE  Target(r) \in Item /\ Outcome(r) \in Nat
<1>1. Target(r) \in Item
  BY ChangeType
<1>2. Level(r, Target(r)) \in Nat
  BY <1>1 DEF Level, TypeOK
<1>3. call[r].kind \in Lines
  BY DEF Flow
<1> QED  BY <1>1, <1>2, <1>3, ChangeType DEF Outcome, Enough, Lines

-----------------------------------------------------------------------------
(* What a return was checked against stays on record: an order that is     *)
(* booked is never booked again.                                           *)
LEMMA FitsKept ==
  ASSUME TypeOK, NEW c \in Call, c.kind = "return", Fits(c),
         \A o \in Request : booked[o] # None => booked'[o] = booked[o]
  PROVE  Fits(c)'
<1>1. c.order \in Request
  BY CallType
<1>2. booked'[c.order] = booked[c.order]
  BY <1>1 DEF Fits
<1> QED  BY <1>2 DEF Fits, Bought

LEMMA InitIInv == Init => IInv
<1> SUFFICES ASSUME Init PROVE IInv
  OBVIOUS
<1>1. TypeOK
  BY StockAssumption DEF Init, TypeOK, Pc, Nothing
<1>2. Flow
  BY DEF Init, Flow, Open
<1>3. Locks
  BY DEF Init, Locks, Nothing
<1>4. Kept
  BY DEF Init, Kept
<1> QED  BY <1>1, <1>2, <1>3, <1>4 DEF IInv

(* A step that leaves the request, the books and the locks alone and only  *)
(* moves the handler on keeps the invariant if the place it moves to fits. *)
LEMMA MoveKeeps ==
  ASSUME IInv, NEW r \in Request, NEW to \in Pc, NEW k \in Nat,
         pc' = [pc EXCEPT ![r] = to],
         line' = [line EXCEPT ![r] = k],
         UNCHANGED <<stock, booked, call, held>>,
         call[r] \in Call,
         to \in {"update", "send", "commit"} => call[r].kind \in Lines,
         to = "price" => call[r].kind = "order",
         to = "write" => call[r].kind = "set",
         to \notin {"idle", "check", "load", "adjust", "tell", "done"},
         to \in {"update", "send"} => k \in DOMAIN call[r].lines,
         to \in Open /\ call[r].kind = "return" => Fits(call[r]),
         held[r] # Nothing => to \in Open,
         booked[r] = None
  PROVE  IInv'
<1>1. TypeOK'
  BY DEF IInv, TypeOK
<1>2. Flow'
  <2> SUFFICES ASSUME NEW q \in Request
               PROVE  Flow!(q)'
    BY DEF Flow
  <2>1. CASE q = r
    BY <2>1 DEF IInv, TypeOK, Flow, Open, Fits, Bought
  <2>2. CASE q # r
    BY <2>2 DEF IInv, TypeOK, Flow, Open, Fits, Bought
  <2> QED  BY <2>1, <2>2
<1>3. Locks'
  BY DEF IInv, TypeOK, Locks, Nothing
<1>4. Kept'
  BY DEF IInv, TypeOK, Kept
<1> QED  BY <1>1, <1>2, <1>3, <1>4 DEF IInv

(* A handler that ends, or goes from an UPDATE to sending its event.       *)
LEMMA FlowKept ==
  ASSUME Flow, NEW r \in Request, pc[r] # "idle", UNCHANGED <<booked, call, line>>,
         \A q \in Request \ {r} : pc'[q] = pc[q],
         \/ pc'[r] \in {"done", "refused", "failed"}
         \/ pc[r] = "update" /\ pc'[r] = "send"
  PROVE  Flow'
<1>1. \A c : Fits(c)' <=> Fits(c)
  BY DEF Fits, Bought
<1>2. pc'[r] \in Open => pc[r] \in Open
  BY DEF Open
<1> QED  BY <1>1, <1>2 DEF Flow

(* A transaction that is rolled back leaves nothing behind.                *)
LEMMA RollbackKeeps ==
  ASSUME IInv, NEW r \in Request, NEW answer \in {"refused", "failed"},
         pc[r] \in {"update", "send", "price", "write", "adjust"},
         Rollback(r, answer)
  PROVE  IInv'
<1>1. TypeOK'
  BY DEF IInv, TypeOK, Rollback, Pc, Final, Nothing
<1>2. Flow'
  <2>1. /\ pc'[r] = answer /\ \A q \in Request \ {r} : pc'[q] = pc[q]
        /\ UNCHANGED <<booked, call, line>>
    BY DEF IInv, TypeOK, Rollback
  <2> QED  BY <2>1, FlowKept DEF IInv
<1>3. Locks'
  BY DEF IInv, TypeOK, Locks, Nothing, Rollback, Open
<1>4. Kept'
  BY DEF IInv, TypeOK, Kept, Rollback
<1> QED  BY <1>1, <1>2, <1>3, <1>4 DEF IInv

(* A count or an adjustment is committed by its one UPDATE.                *)
LEMMA WriteKeeps ==
  ASSUME IInv, NEW r \in Request, NEW level \in Nat,
         pc[r] \in {"load", "write", "adjust"},
         Write(r, level)
  PROVE  IInv'
<1>0. call[r] \in Call /\ booked[r] = None
  BY DEF IInv, Flow, Kept
<1>1. TypeOK'
  BY <1>0 DEF IInv, TypeOK, Write, Pc
<1>2. Flow'
  <2>1. \A o \in Request : booked[o] # None => booked'[o] = booked[o]
    BY <1>0 DEF IInv, TypeOK, Write
  <2> SUFFICES ASSUME NEW q \in Request
               PROVE  Flow!(q)'
    BY DEF Flow
  <2>2. CASE q = r
    BY <2>2 DEF IInv, TypeOK, Flow, Open, Write
  <2>3. CASE q # r
    <3>1. pc'[q] \in Open /\ call'[q].kind = "return" => Fits(call[q])'
      BY <2>1, <2>3, FitsKept DEF IInv, TypeOK, Flow, Open, Write
    <3> QED  BY <2>3, <3>1 DEF IInv, TypeOK, Flow, Write, Fits, Bought
  <2> QED  BY <2>2, <2>3
<1>3. Locks'
  BY DEF IInv, TypeOK, Locks, Nothing, Write, Open
<1>4. Kept'
  BY <1>0 DEF IInv, TypeOK, Kept, Write
<1> QED  BY <1>1, <1>2, <1>3, <1>4 DEF IInv

LEMMA SubmitKeeps ==
  ASSUME IInv, NEW r \in Request, NEW c \in Call, Submit(r, c)
  PROVE  IInv'
<1>1. PICK next \in FirstSteps(c.kind) : pc' = [pc EXCEPT ![r] = next]
  BY DEF Submit
<1>2. /\ next \in {"update", "refused", "check", "load", "adjust"}
      /\ next = "update" => c.kind = "order"
      /\ next = "check" => c.kind = "return"
      /\ next = "load" => c.kind = "set"
      /\ next = "adjust" => c.kind = "adjust"
  BY CallType DEF FirstSteps
<1>3. pc[r] = "idle" /\ line[r] = 1 /\ booked[r] = None
  BY DEF Submit, IInv, Flow, Kept
<1>4. TypeOK'
  BY <1>1, <1>2 DEF IInv, TypeOK, Submit, Pc, Final
<1>5. Flow'
  <2> SUFFICES ASSUME NEW q \in Request
               PROVE  Flow!(q)'
    BY DEF Flow
  <2>1. CASE q = r
    <3>1. next = "update" => 1 \in DOMAIN c.lines
      BY <1>2, LinesType DEF Lines
    <3> QED  BY <1>1, <1>2, <1>3, <2>1, <3>1
             DEF IInv, TypeOK, Flow, Open, Submit, Lines
  <2>2. CASE q # r
    BY <1>1, <2>2 DEF IInv, TypeOK, Flow, Open, Submit, Fits, Bought
  <2> QED  BY <2>1, <2>2
<1>6. Locks'
  BY <1>1, <1>2, <1>3 DEF IInv, TypeOK, Locks, Submit, Open, Nothing
<1>7. Kept'
  BY <1>1, <1>2, <1>3 DEF IInv, TypeOK, Kept, Submit
<1> QED  BY <1>4, <1>5, <1>6, <1>7 DEF IInv

LEMMA CheckReturnKeeps ==
  ASSUME IInv, NEW r \in Request, CheckReturn(r)
  PROVE  IInv'
<1> DEFINE to == IF Fits(call[r]) THEN "update" ELSE "refused"
<1>1. /\ call[r] \in Call /\ call[r].kind = "return" /\ line[r] = 1
      /\ held[r] = Nothing /\ booked[r] = None
  BY DEF IInv, Flow, Locks, Kept, CheckReturn, Open
<1>2. 1 \in DOMAIN call[r].lines
  BY <1>1, LinesType DEF Lines
<1>3. line' = [line EXCEPT ![r] = 1]
  BY <1>1 DEF CheckReturn, IInv, TypeOK
<1>4. /\ to \in {"update", "refused"}
      /\ to = "update" => Fits(call[r])
      /\ pc' = [pc EXCEPT ![r] = to]
      /\ UNCHANGED <<stock, booked, call, held>>
  BY DEF CheckReturn
<1> HIDE DEF to
<1> QED  BY <1>1, <1>2, <1>3, <1>4, MoveKeeps DEF Pc, Final, Lines, Open

(* The UPDATE of a free row makes r its one holder, with a level that is   *)
(* not negative.                                                           *)
LEMMA UpdateLevelKeeps ==
  ASSUME IInv, NEW r \in Request, UpdateLevel(r)
  PROVE  IInv'
<1>1. CASE Rollback(r, "refused")
  BY <1>1, RollbackKeeps DEF UpdateLevel
<1>2. CASE /\ Enough(call[r], Outcome(r))
           /\ ~Blocked(r, Target(r))
           /\ held' = [held EXCEPT ![r][Target(r)] = Outcome(r)]
           /\ pc' = [pc EXCEPT ![r] = "send"]
           /\ UNCHANGED <<stock, booked, call, line>>
  <2> DEFINE t == Target(r)
             n == Outcome(r)
  <2>1. t \in Item /\ n \in Nat /\ pc[r] = "update"
    BY <1>2, OutcomeType DEF IInv, UpdateLevel
  <2>2. \A q \in Request \ {r} : held[q][t] = None
    BY <1>2 DEF Blocked, Holders
  <2> HIDE DEF t, n
  <2>3. held' = [held EXCEPT ![r][t] = n]
    BY <1>2 DEF t, n
  <2>4. TypeOK'
    <3>1. [held[r] EXCEPT ![t] = n] \in [Item -> Nat \cup {None}]
      BY <2>1 DEF IInv, TypeOK
    <3>2. held' \in [Request -> [Item -> Nat \cup {None}]]
      BY <2>3, <3>1 DEF IInv, TypeOK
    <3> QED  BY <1>2, <3>2 DEF IInv, TypeOK, Pc
  <2>5. Flow'
    <3>1. pc'[r] = "send" /\ \A q \in Request \ {r} : pc'[q] = pc[q]
      BY <1>2 DEF IInv, TypeOK
    <3> QED  BY <1>2, <2>1, <3>1, FlowKept DEF IInv
  <2>6. Locks'
    <3>1. \A q \in Request : pc'[q] \notin Open => held'[q] = Nothing
      BY <1>2, <2>1, <2>3 DEF IInv, TypeOK, Locks, Open
    <3>2. ASSUME NEW p \in Request, NEW q \in Request, NEW i \in Item,
                 held'[p][i] # None, held'[q][i] # None
          PROVE  p = q
      BY <2>1, <2>2, <2>3, <3>2 DEF IInv, TypeOK, Locks
    <3> QED  BY <3>1, <3>2 DEF Locks
  <2>7. Kept'
    BY <1>2, <2>1 DEF IInv, TypeOK, Kept
  <2> QED  BY <2>4, <2>5, <2>6, <2>7 DEF IInv
<1> QED  BY <1>1, <1>2 DEF UpdateLevel

LEMMA SendKeeps ==
  ASSUME IInv, NEW r \in Request, Send(r)
  PROVE  IInv'
<1>1. /\ pc[r] = "send" /\ call[r] \in Call /\ call[r].kind \in Lines
      /\ line[r] \in DOMAIN call[r].lines /\ booked[r] = None
      /\ call[r].kind = "return" => Fits(call[r])
  BY DEF IInv, Flow, Kept, Open, Send
<1>2. Len(call[r].lines) \in Nat /\ DOMAIN call[r].lines = 1 .. Len(call[r].lines)
  BY <1>1, LinesType
<1>3. CASE /\ line[r] < Len(call[r].lines)
           /\ line' = [line EXCEPT ![r] = @ + 1]
           /\ pc' = [pc EXCEPT ![r] = "update"]
           /\ UNCHANGED <<stock, booked, call, held>>
  <2>1. line[r] + 1 \in DOMAIN call[r].lines /\ line[r] + 1 \in Nat
    BY <1>1, <1>2, <1>3
  <2>2. line' = [line EXCEPT ![r] = line[r] + 1]
    BY <1>3
  <2> QED  BY <1>1, <1>3, <2>1, <2>2, MoveKeeps DEF Pc, Open
<1>4. CASE /\ line[r] = Len(call[r].lines)
           /\ pc' = [pc EXCEPT ![r] = IF call[r].kind = "order"
                                      THEN "price" ELSE "commit"]
           /\ UNCHANGED <<stock, booked, call, line, held>>
  <2>1. line' = [line EXCEPT ![r] = line[r]] /\ line[r] \in Nat
    BY <1>4 DEF IInv, TypeOK
  <2> QED  BY <1>1, <1>4, <2>1, MoveKeeps DEF Pc, Open
<1>5. CASE Rollback(r, "failed")
  BY <1>1, <1>5, RollbackKeeps
<1> QED  BY <1>3, <1>4, <1>5 DEF Send

LEMMA PriceKeeps ==
  ASSUME IInv, NEW r \in Request, Price(r)
  PROVE  IInv'
<1>1. /\ pc[r] = "price" /\ call[r] \in Call /\ call[r].kind = "order"
      /\ booked[r] = None /\ line[r] \in Nat
  BY DEF IInv, TypeOK, Flow, Kept, Price
<1>2. CASE /\ pc' = [pc EXCEPT ![r] = "commit"]
           /\ UNCHANGED <<stock, booked, call, line, held>>
  <2>1. line' = [line EXCEPT ![r] = line[r]]
    BY <1>2 DEF IInv, TypeOK
  <2> QED  BY <1>1, <1>2, <2>1, MoveKeeps DEF Pc, Open, Lines
<1>3. CASE Rollback(r, "failed")
  BY <1>1, <1>3, RollbackKeeps
<1> QED  BY <1>2, <1>3 DEF Price

(* What a transaction of an order or a return has booked is what it was    *)
(* asked for, and what it holds becomes the number on record.              *)
LEMMA CommitKeeps ==
  ASSUME IInv, NEW r \in Request, Commit(r)
  PROVE  IInv'
<1>1. pc[r] = "commit" /\ call[r] \in Call /\ booked[r] = None
  BY DEF IInv, Flow, Kept, Commit
<1>2. TypeOK'
  <2>1. \A i \in Item : Level(r, i) \in Nat
    BY DEF IInv, TypeOK, Level
  <2>2. stock' \in [Item -> Nat]
    BY <2>1 DEF Commit
  <2>3. held' \in [Request -> [Item -> Nat \cup {None}]]
    BY DEF Commit, IInv, TypeOK, Nothing
  <2> QED  BY <1>1, <2>2, <2>3 DEF Commit, IInv, TypeOK, Pc, Final
<1>3. Flow'
  <2>1. \A o \in Request : booked[o] # None => booked'[o] = booked[o]
    BY <1>1 DEF IInv, TypeOK, Commit
  <2> SUFFICES ASSUME NEW q \in Request
               PROVE  Flow!(q)'
    BY DEF Flow
  <2>2. CASE q = r
    BY <2>2 DEF IInv, TypeOK, Flow, Open, Commit
  <2>3. CASE q # r
    <3>1. pc'[q] \in Open /\ call'[q].kind = "return" => Fits(call[q])'
      BY <2>1, <2>3, FitsKept DEF IInv, TypeOK, Flow, Open, Commit
    <3> QED  BY <2>3, <3>1 DEF IInv, TypeOK, Flow, Commit, Fits, Bought
  <2> QED  BY <2>2, <2>3
<1>4. Locks'
  BY DEF IInv, TypeOK, Locks, Nothing, Commit, Open
<1>5. Kept'
  BY <1>1 DEF IInv, TypeOK, Kept, Commit
<1> QED  BY <1>2, <1>3, <1>4, <1>5 DEF IInv

LEMMA LoadLevelKeeps ==
  ASSUME IInv, NEW r \in Request, LoadLevel(r)
  PROVE  IInv'
<1>1. /\ pc[r] = "load" /\ call[r] \in Call /\ call[r].kind = "set"
      /\ held[r] = Nothing /\ booked[r] = None /\ line[r] \in Nat
  BY DEF IInv, TypeOK, Flow, Locks, Kept, LoadLevel, Open
<1>2. call[r].value \in Nat
  BY <1>1, CallType
<1>3. CASE Write(r, call[r].value)
  BY <1>1, <1>2, <1>3, WriteKeeps
<1>4. CASE /\ pc' = [pc EXCEPT ![r] = "write"]
           /\ UNCHANGED <<stock, booked, call, line, held>>
  <2>1. line' = [line EXCEPT ![r] = line[r]]
    BY <1>4 DEF IInv, TypeOK
  <2> QED  BY <1>1, <1>4, <2>1, MoveKeeps DEF Pc, Open
<1> QED  BY <1>3, <1>4 DEF LoadLevel

LEMMA WriteLevelKeeps ==
  ASSUME IInv, NEW r \in Request, WriteLevel(r)
  PROVE  IInv'
<1>1. pc[r] = "write" /\ call[r] \in Call /\ call[r].kind = "set"
  BY DEF IInv, Flow, WriteLevel
<1>2. call[r].value \in Nat
  BY <1>1, CallType
<1> QED  BY <1>1, <1>2, WriteKeeps DEF WriteLevel

LEMMA AdjustLevelKeeps ==
  ASSUME IInv, NEW r \in Request, AdjustLevel(r)
  PROVE  IInv'
<1> DEFINE level == stock[call[r].item] + call[r].delta
<1>1. pc[r] = "adjust" /\ call[r] \in Call /\ call[r].kind = "adjust"
  BY DEF IInv, Flow, AdjustLevel
<1>2. level \in Int
  BY <1>1, CallType DEF IInv, TypeOK
<1>3. CASE Rollback(r, "refused")
  BY <1>1, <1>3, RollbackKeeps
<1>4. CASE level >= 0 /\ Write(r, level)
  <2>1. level \in Nat
    BY <1>2, <1>4
  <2> HIDE DEF level
  <2> QED  BY <1>1, <1>4, <2>1, WriteKeeps
<1> QED  BY <1>3, <1>4 DEF AdjustLevel

LEMMA TellKeeps ==
  ASSUME IInv, NEW r \in Request, Tell(r)
  PROVE  IInv'
<1>1. PICK answer \in {"done", "failed"} : pc' = [pc EXCEPT ![r] = answer]
  BY DEF Tell
<1>2. pc[r] = "tell"
  BY DEF Tell
<1>3. TypeOK'
  BY <1>1 DEF IInv, TypeOK, Tell, Pc, Final
<1>4. Flow'
  <2>1. /\ pc'[r] = answer /\ \A q \in Request \ {r} : pc'[q] = pc[q]
        /\ UNCHANGED <<booked, call, line>>
    BY <1>1 DEF IInv, TypeOK, Tell
  <2> QED  BY <1>2, <2>1, FlowKept DEF IInv
<1>5. Locks'
  BY <1>1, <1>2 DEF IInv, TypeOK, Locks, Open, Tell
<1>6. Kept'
  BY <1>1, <1>2 DEF IInv, TypeOK, Kept, Tell
<1> QED  BY <1>3, <1>4, <1>5, <1>6 DEF IInv

LEMMA DeadlockKeeps ==
  ASSUME IInv, NEW r \in Request, Deadlock(r)
  PROVE  IInv'
<1>1. pc[r] \in {"update", "write", "adjust"}
  BY DEF Deadlock, InCircle, WaitsFor
<1> QED  BY <1>1, RollbackKeeps DEF Deadlock

LEMMA CrashKeeps ==
  ASSUME IInv, Crash
  PROVE  IInv'
<1>1. TypeOK'
  BY DEF IInv, TypeOK, Crash, Pc, Final, Nothing
<1>2. Flow'
  BY DEF IInv, TypeOK, Flow, Open, Fits, Bought, Crash, InFlight, Final
<1>3. Locks'
  BY DEF IInv, TypeOK, Locks, Nothing, Crash
<1>4. Kept'
  BY DEF IInv, TypeOK, Kept, Crash, InFlight, Final
<1> QED  BY <1>1, <1>2, <1>3, <1>4 DEF IInv

LEMMA NextKeeps == IInv /\ [Next]_vars => IInv'
<1> SUFFICES ASSUME IInv, [Next]_vars PROVE IInv'
  OBVIOUS
<1>1. ASSUME NEW r \in Request, Handle(r) PROVE IInv'
  BY <1>1, CheckReturnKeeps, UpdateLevelKeeps, SendKeeps, PriceKeeps,
     CommitKeeps, LoadLevelKeeps, WriteLevelKeeps, AdjustLevelKeeps,
     TellKeeps, DeadlockKeeps DEF Handle
<1>2. ASSUME NEW r \in Request, NEW c \in Call, Submit(r, c) PROVE IInv'
  BY <1>2, SubmitKeeps
<1>3. CASE Crash
  BY <1>3, CrashKeeps
<1>4. CASE UNCHANGED vars
  BY <1>4 DEF vars, IInv, TypeOK, Flow, Locks, Kept, Open, Fits, Bought
<1> QED  BY <1>1, <1>2, <1>3, <1>4 DEF Next

LEMMA InvariantHolds == Spec => []IInv
BY InitIInv, NextKeeps, PTL DEF Spec

-----------------------------------------------------------------------------
(* No level ever falls below zero, on record or within a transaction, and  *)
(* every variable keeps its type (the condition of the UPDATE in order.py  *)
(* and inventory.py, the check of a return in returns.py).                 *)
THEOREM StockTypeCorrect == Spec => []TypeOK
<1>1. IInv => TypeOK
  BY DEF IInv
<1> QED  BY <1>1, InvariantHolds, PTL

(* An answer of success means the request is on record as asked for, and a *)
(* refusal that it is not (order.py, returns.py, inventory.py).            *)
THEOREM AnswersTrue == Spec => []AnswersAreTrue
<1>1. IInv => AnswersAreTrue
  BY DEF IInv, Kept, AnswersAreTrue
<1> QED  BY <1>1, InvariantHolds, PTL

(* Only a commit and a write change a level, and never one that another    *)
(* transaction holds.                                                      *)
LEMMA NoOverwrite ==
  ASSUME IInv, [Next]_vars, NEW r \in Request, NEW i \in Item,
         held[r][i] # None, stock'[i] # stock[i]
  PROVE  held'[r][i] = None
<1>1. ASSUME NEW q \in Request, Commit(q)
      PROVE  held'[r][i] = None
  <2>1. Level(q, i) # stock[i]
    BY <1>1 DEF Commit
  <2>2. held[q][i] # None
    BY <2>1 DEF Level
  <2>3. q = r
    BY <2>2 DEF IInv, Locks
  <2> QED  BY <1>1, <2>3 DEF Commit, Nothing, IInv, TypeOK
<1>2. ASSUME NEW q \in Request,
             NEW level, Write(q, level), pc[q] \in {"load", "write", "adjust"}
      PROVE  i = call[q].item /\ level # stock[i] /\ q # r
  <2>1. i = call[q].item /\ level # stock[i]
    BY <1>2 DEF Write, IInv, TypeOK
  <2>2. held[q] = Nothing
    BY <1>2 DEF IInv, Locks, Open
  <2> QED  BY <2>1, <2>2 DEF Nothing
<1>3. ASSUME NEW q \in Request, LoadLevel(q)
      PROVE  FALSE
  <2>1. /\ pc[q] = "load"
        /\ \/ UNCHANGED stock
           \/ /\ Write(q, call[q].value)
              /\ stock[call[q].item] = call[q].value
    BY <1>3 DEF LoadLevel
  <2> QED  BY <1>2, <2>1
<1>4. ASSUME NEW q \in Request, WriteLevel(q)
      PROVE  FALSE
  <2>1. /\ pc[q] = "write"
        /\ Write(q, call[q].value)
        /\ Holders(call[q].item) \ {q} = {}
    BY <1>4 DEF WriteLevel, Blocked
  <2> QED  BY <1>2, <2>1 DEF Holders
<1>5. ASSUME NEW q \in Request, AdjustLevel(q)
      PROVE  FALSE
  <2> DEFINE level == stock[call[q].item] + call[q].delta
  <2>1. CASE Rollback(q, "refused")
    BY <2>1 DEF Rollback
  <2>2. CASE Write(q, level) /\ Holders(call[q].item) \ {q} = {}
    <3>1. pc[q] = "adjust"
      BY <1>5 DEF AdjustLevel
    <3> HIDE DEF level
    <3> QED  BY <1>2, <2>2, <3>1 DEF Holders
  <2> QED  BY <1>5, <2>1, <2>2 DEF AdjustLevel, Blocked
<1>6. ASSUME NEW q \in Request,
             \/ CheckReturn(q) \/ UpdateLevel(q) \/ Send(q) \/ Price(q)
             \/ Tell(q) \/ Deadlock(q)
      PROVE  FALSE
  BY <1>6 DEF CheckReturn, UpdateLevel, Send, Price, Tell, Deadlock,
                   Rollback
<1>7. ~Crash /\ ~UNCHANGED vars
        /\ \A q \in Request, c \in Call : ~Submit(q, c)
  BY DEF Crash, vars, Submit
<1>8. PICK q \in Request : Handle(q)
  BY <1>7 DEF Next
<1> QED  BY <1>1, <1>3, <1>4, <1>5, <1>6, <1>8 DEF Handle

(* A level that an open transaction has worked out is changed by nobody    *)
(* else before that transaction ends: orders, returns, counts and          *)
(* adjustments lose no update to each other.                               *)
THEOREM UpdatesKept == Spec => NoLostUpdate
<1>1. IInv /\ [Next]_vars =>
        [\A r \in Request : \A i \in Item :
           held[r][i] # None /\ stock'[i] # stock[i] => held'[r][i] = None]_vars
  BY NoOverwrite
<1> QED  BY <1>1, InvariantHolds, PTL DEF Spec, NoLostUpdate

=============================================================================
