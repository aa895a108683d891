---------------------------- MODULE ShelfProofs ----------------------------
(***************************************************************************)
(* Stock implements Shelf: however orders, returns, counts and adjustments *)
(* interleave, fail or are cut off, it comes to the same as if each had    *)
(* taken no time.  The proof has to know what the lines of an order come   *)
(* to, a sum that Shelf defines by recursion, so the module starts with    *)
(* induction over the natural numbers, drawn from WFMin: the library's own *)
(* induction theorems take an operator, which the provers cannot give.     *)
(***************************************************************************)
EXTENDS StockProofs, WellFoundedInduction

-----------------------------------------------------------------------------
(* Sums.                                                                   *)

(* A set of natural numbers that is not empty has a least element.         *)
LEMMA Least ==
  ASSUME NEW T \in SUBSET Nat, T # {}
  PROVE  \E x \in T : \A y \in T : x <= y
<1> DEFINE R == {p \in Nat \X Nat : p[1] < p[2]}
<1>1. IsWellFoundedOn(R, Nat)
  BY NatLessThanWellFounded DEF OpToRel
<1> HIDE DEF R
<1>2. PICK x \in T : \A y \in T : <<y, x>> \notin R
  BY <1>1, WFMin
<1>3. \A y \in T : ~(y < x)
  BY <1>2 DEF R
<1> QED  BY <1>3

(* Induction: a set with 0 in it, and with each number below n the next,   *)
(* has all numbers up to n in it.                                          *)
LEMMA Upwards ==
  ASSUME NEW n \in Nat, NEW S, 0 \in S,
         \A k \in 0 .. n : k < n /\ k \in S => k + 1 \in S
  PROVE  0 .. n \subseteq S
<1> SUFFICES ASSUME NEW m \in 0 .. n, m \notin S PROVE FALSE
  OBVIOUS
<1> DEFINE T == {k \in 0 .. n : k \notin S}
<1>1. PICK x \in T : \A y \in T : x <= y
  <2>1. T \in SUBSET Nat /\ m \in T
    OBVIOUS
  <2> QED  BY <2>1, Least
<1>2. x \in 0 .. n /\ x \notin S /\ x # 0
  BY <1>1
<1>3. x - 1 \in 0 .. n /\ x - 1 < n /\ (x - 1) + 1 = x
  BY <1>2
<1>4. x - 1 \in S
  BY <1>1, <1>3
<1> QED  BY <1>2, <1>3, <1>4

(* There is a function of the sums of the first numbers of a list.         *)
LEMMA SumsExist ==
  ASSUME NEW n \in Nat, NEW part \in [1 .. n -> Nat]
  PROVE  \E f \in [0 .. n -> Nat] :
           f[0] = 0 /\ \A k \in 1 .. n : f[k] = f[k - 1] + part[k]
<1> DEFINE Sums(m) == {f \in [0 .. m -> Nat] :
                         /\ f[0] = 0
                         /\ \A k \in 1 .. m : f[k] = f[k - 1] + part[k]}
           S == {m \in 0 .. n : Sums(m) # {}}
<1>1. 0 \in S
  <2>1. [k \in 0 .. 0 |-> 0] \in Sums(0)
    OBVIOUS
  <2> QED  BY <2>1
<1>2. ASSUME NEW m \in 0 .. n, m < n, m \in S
      PROVE  m + 1 \in S
  <2>1. PICK f \in [0 .. m -> Nat] :
          f[0] = 0 /\ \A k \in 1 .. m : f[k] = f[k - 1] + part[k]
    BY <1>2
  <2> DEFINE g == [k \in 0 .. m + 1 |->
                     IF k \in 0 .. m THEN f[k] ELSE f[m] + part[m + 1]]
  <2>2. g \in [0 .. m + 1 -> Nat] /\ g[0] = 0
    <3>1. f[m] \in Nat /\ part[m + 1] \in Nat
      BY <1>2
    <3>2. \A k \in 0 .. m + 1 :
            (IF k \in 0 .. m THEN f[k] ELSE f[m] + part[m + 1]) \in Nat
      BY <3>1
    <3>3. g \in [0 .. m + 1 -> Nat]
      BY <3>2
    <3> QED  BY <2>1, <3>3
  <2>3. ASSUME NEW k \in 1 .. m + 1
        PROVE  g[k] = g[k - 1] + part[k]
    <3>1. CASE k \in 1 .. m
      BY <2>1, <3>1
    <3>2. CASE k = m + 1
      BY <3>2
    <3> QED  BY <3>1, <3>2
  <2>4. g \in Sums(m + 1)
    <3> HIDE DEF g
    <3> QED  BY <2>2, <2>3
  <2>5. m + 1 \in 0 .. n
    BY <1>2
  <2> QED
    <3> HIDE DEF Sums
    <3> QED  BY <2>4, <2>5
<1>3. 0 .. n \subseteq S
  <2> HIDE DEF S
  <2> QED  BY <1>1, <1>2, Upwards
<1>4. Sums(n) # {}
  <2> HIDE DEF Sums
  <2> QED  BY <1>3
<1> QED  BY <1>4

(* What an item's share of a line is.                                      *)
Share(lines, i, k) == IF lines[k].item = i THEN lines[k].qty ELSE 0

(* What the first lines come to, of one item: nothing at first, and with   *)
(* each line its share more.                                               *)
LEMMA AmountSteps ==
  ASSUME NEW lines, NEW i, Len(lines) \in Nat,
         \A k \in 1 .. Len(lines) : lines[k].qty \in Nat
  PROVE  LET amount == OnShelf!AmountUpTo(lines, i)
         IN  /\ amount \in [0 .. Len(lines) -> Nat]
             /\ amount[0] = 0
             /\ \A k \in 1 .. Len(lines) :
                  amount[k] = amount[k - 1] + Share(lines, i, k)
<1> DEFINE n == Len(lines)
           part == [k \in 1 .. n |-> Share(lines, i, k)]
           Step(f) == [k \in 0 .. n |->
                         IF k = 0 THEN 0
                         ELSE f[k - 1] + IF lines[k].item = i
                                         THEN lines[k].qty ELSE 0]
           amount == OnShelf!AmountUpTo(lines, i)
<1>1. part \in [1 .. n -> Nat]
  BY DEF Share
<1>2. PICK f \in [0 .. n -> Nat] :
        f[0] = 0 /\ \A k \in 1 .. n : f[k] = f[k - 1] + part[k]
  <2> HIDE DEF part
  <2> QED  BY <1>1, SumsExist
<1>3. f = Step(f)
  <2>1. \A k \in 0 .. n : f[k] = Step(f)[k]
    BY <1>2 DEF Share
  <2> QED  BY <2>1
<1>4. amount = CHOOSE g : g = Step(g)
  BY DEF OnShelf!AmountUpTo
<1>5. amount = Step(amount)
  <2> HIDE DEF Step, amount
  <2> QED  BY <1>3, <1>4
<1>6. amount[0] = 0
  <2> HIDE DEF amount
  <2> QED  BY <1>5
<1>7. \A k \in 1 .. n : amount[k] = amount[k - 1] + Share(lines, i, k)
  <2> SUFFICES ASSUME NEW k \in 1 .. n
               PROVE  amount[k] = amount[k - 1] + Share(lines, i, k)
    OBVIOUS
  <2>1. amount[k] = Step(amount)[k]
    <3> HIDE DEF amount, Step
    <3> QED  BY <1>5
  <2> HIDE DEF amount
  <2> QED  BY <2>1 DEF Share
<1>8. \A k \in 0 .. n : amount[k] \in Nat
  <2> DEFINE S == {k \in 0 .. n : amount[k] \in Nat}
  <2> HIDE DEF amount
  <2>1. 0 \in S
    BY <1>6
  <2>2. ASSUME NEW k \in 0 .. n, k < n, k \in S PROVE k + 1 \in S
    <3>1. k + 1 \in 1 .. n /\ (k + 1) - 1 = k
      BY <2>2
    <3>2. amount[k + 1] = amount[k] + Share(lines, i, k + 1)
      BY <1>7, <3>1
    <3> QED  BY <2>2, <3>1, <3>2 DEF Share
  <2>3. 0 .. n \subseteq S
    <3> HIDE DEF S
    <3> QED  BY <2>1, <2>2, Upwards
  <2> QED  BY <2>3
<1>9. amount \in [0 .. n -> Nat]
  <2> HIDE DEF amount
  <2>1. DOMAIN amount = 0 .. n /\ amount = [k \in 0 .. n |-> amount[k]]
    BY <1>5
  <2> QED  BY <1>8, <2>1
<1> QED  BY <1>6, <1>7, <1>9

(* The first lines come to no more than all of them.                       *)
LEMMA AmountGrows ==
  ASSUME NEW lines, NEW i, Len(lines) \in Nat,
         \A k \in 1 .. Len(lines) : lines[k].qty \in Nat,
         NEW k \in 0 .. Len(lines)
  PROVE  OnShelf!AmountUpTo(lines, i)[k] <= OnShelf!Amount(lines, i)
<1> DEFINE n == Len(lines)
           amount == OnShelf!AmountUpTo(lines, i)
           S == {m \in 0 .. n - k : amount[k] <= amount[k + m]}
<1>1. /\ amount \in [0 .. n -> Nat]
      /\ \A m \in 1 .. n : amount[m] = amount[m - 1] + Share(lines, i, m)
  BY AmountSteps
<1> HIDE DEF amount
<1>2. 0 \in S
  BY <1>1
<1>3. ASSUME NEW m \in 0 .. n - k, m < n - k, m \in S PROVE m + 1 \in S
  <2>1. /\ k \in 0 .. n /\ k + m \in 0 .. n
        /\ k + m + 1 \in 1 .. n /\ (k + m + 1) - 1 = k + m
        /\ k + (m + 1) = k + m + 1
    BY <1>3
  <2>2. amount[k + m + 1] = amount[k + m] + Share(lines, i, k + m + 1)
    BY <1>1, <2>1
  <2>3. Share(lines, i, k + m + 1) \in Nat
    BY <2>1 DEF Share
  <2>4. amount[k] \in Nat /\ amount[k + m] \in Nat
    BY <1>1, <2>1
  <2> QED  BY <1>3, <2>1, <2>2, <2>3, <2>4
<1>4. 0 .. n - k \subseteq S
  <2> HIDE DEF S
  <2>1. n - k \in Nat
    OBVIOUS
  <2> QED  BY <1>2, <1>3, <2>1, Upwards
<1>5. n - k \in 0 .. n - k /\ k + (n - k) = n
  OBVIOUS
<1> QED  BY <1>4, <1>5 DEF OnShelf!Amount, amount

-----------------------------------------------------------------------------
(* The inductive invariant: what an open transaction sees of a level is    *)
(* what is on record, less what its order has taken so far, or more what   *)
(* its return has put back.                                                *)

(* The lines of an order or a return, as pieces of items.                  *)
Pieces(c) == IF c.kind = "order" THEN c.lines ELSE OnShelf!Back(c)

LinesDone(r) == IF pc[r] = "update" THEN line[r] - 1 ELSE line[r]

Taken(r, i) ==
  LET amount == OnShelf!AmountUpTo(Pieces(call[r]), i)[LinesDone(r)]
  IN  IF call[r].kind = "order" THEN amount ELSE -amount

Entry(r) ==
  pc[r] \in Open =>
    /\ pc[r] \in {"price", "commit"} => line[r] = Len(call[r].lines)
    /\ \A i \in Item : Level(r, i) = stock[i] - Taken(r, i)

Ledger == \A r \in Request : Entry(r)

(* A transaction has lines, and a return that got so far fits its order.   *)
LEMMA OpenCall ==
  ASSUME IInv, NEW r \in Request, pc[r] \in Open
  PROVE  /\ call[r] \in Call
         /\ call[r].kind \in Lines
         /\ call[r].kind = "return" => Fits(call[r])
  BY DEF IInv, Flow, Open, Lines

(* Each line is an UPDATE by as many pieces of an item.                    *)
LEMMA PiecesType ==
  ASSUME NEW c \in Call, c.kind \in Lines
  PROVE  /\ Len(c.lines) \in Nat \ {0}
         /\ Len(Pieces(c)) = Len(c.lines)
         /\ \A k \in 1 .. Len(c.lines) :
              /\ Pieces(c)[k].qty \in Nat
              /\ Change(c, k) =
                   [item |-> Pieces(c)[k].item,
                    by   |-> IF c.kind = "order" THEN -Pieces(c)[k].qty
                                                 ELSE Pieces(c)[k].qty]
<1>1. /\ Len(c.lines) \in Nat \ {0}
      /\ DOMAIN c.lines = 1 .. Len(c.lines)
      /\ \A k \in DOMAIN c.lines : c.lines[k].qty \in Nat
  BY LinesType
<1>2. CASE c.kind = "order"
  BY <1>1, <1>2 DEF Pieces, Change
<1>3. CASE c.kind = "return"
  <2> DEFINE back == OnShelf!Back(c)
             n == Len(c.lines)
  <2>1. /\ DOMAIN back = 1 .. n
        /\ \A k \in 1 .. n :
             back[k] = [item |-> Bought(c)[c.lines[k].line].item,
                        qty |-> c.lines[k].qty]
    BY <1>1 DEF OnShelf!Back, Bought
  <2>2. back = [k \in 1 .. n |-> back[k]]
    BY <1>1 DEF OnShelf!Back
  <2>3. Len(back) = n
    <3> HIDE DEF back
    <3> QED  BY <1>1, <2>2
  <2>4. Pieces(c) = back
    BY <1>3 DEF Pieces
  <2>5. \A k \in 1 .. n :
          Change(c, k) = [item |-> Bought(c)[c.lines[k].line].item,
                          by |-> c.lines[k].qty]
    BY <1>3 DEF Change
  <2>6. ASSUME NEW k \in 1 .. n
        PROVE  /\ back[k].qty \in Nat
               /\ Change(c, k) = [item |-> back[k].item, by |-> back[k].qty]
    <3> HIDE DEF back
    <3>1. back[k] = [item |-> Bought(c)[c.lines[k].line].item,
                     qty |-> c.lines[k].qty]
      BY <2>1
    <3> QED  BY <1>1, <2>5, <3>1
  <2> QED
    <3> HIDE DEF back
    <3> QED  BY <1>1, <1>3, <2>3, <2>4, <2>6
<1> QED  BY <1>2, <1>3 DEF Lines

(* What the lines of an order or a return come to, line by line.           *)
LEMMA PiecesAmount ==
  ASSUME NEW c \in Call, c.kind \in Lines, NEW i
  PROVE  LET amount == OnShelf!AmountUpTo(Pieces(c), i)
         IN  /\ amount \in [0 .. Len(c.lines) -> Nat]
             /\ amount[0] = 0
             /\ \A k \in 1 .. Len(c.lines) :
                  /\ amount[k] = amount[k - 1] + Share(Pieces(c), i, k)
                  /\ amount[k] <= OnShelf!Amount(Pieces(c), i)
             /\ amount[Len(c.lines)] = OnShelf!Amount(Pieces(c), i)
<1> DEFINE n == Len(c.lines)
<1>1. /\ n \in Nat /\ Len(Pieces(c)) = n
      /\ \A k \in 1 .. n : Pieces(c)[k].qty \in Nat
  BY PiecesType
<1>2. \A k \in 1 .. n :
        OnShelf!AmountUpTo(Pieces(c), i)[k] <= OnShelf!Amount(Pieces(c), i)
  BY <1>1, AmountGrows
<1> QED  BY <1>1, <1>2, AmountSteps DEF OnShelf!Amount

LEMMA TakenType ==
  ASSUME IInv, NEW r \in Request, Entry(r), pc[r] \in Open, NEW i
  PROVE  Taken(r, i) \in Int
<1>1. call[r] \in Call /\ call[r].kind \in Lines
  BY OpenCall
<1>2. LinesDone(r) \in 0 .. Len(call[r].lines)
  BY <1>1, LinesType DEF Entry, LinesDone, IInv, Flow, Open
<1>3. OnShelf!AmountUpTo(Pieces(call[r]), i)[LinesDone(r)] \in Nat
  BY <1>1, <1>2, PiecesAmount
<1> QED  BY <1>3 DEF Taken

(* What is on record once stays there.                                     *)
LEMMA BooksKept ==
  ASSUME IInv, [Next]_vars, NEW o \in Request, booked[o] # None
  PROVE  booked'[o] = booked[o]
<1>1. \A q \in Request : Handle(q) =>
        booked' = booked \/ booked' = [booked EXCEPT ![q] = call[q]]
  BY DEF Handle, CheckReturn, UpdateLevel, Send, Price, Commit, LoadLevel,
         WriteLevel, AdjustLevel, Tell, Deadlock, Rollback, Write
<1>2. booked[o] = call[o]
  BY DEF IInv, Kept
<1>3. CASE \E q \in Request : Handle(q)
  BY <1>1, <1>2, <1>3 DEF IInv, TypeOK
<1>4. CASE Crash \/ UNCHANGED vars
  BY <1>4 DEF Crash, vars
<1>5. CASE \E q \in Request, c \in Call : Submit(q, c)
  BY <1>5 DEF Submit
<1> QED  BY <1>3, <1>4, <1>5 DEF Next

(* What a transaction has taken so far does not change under its hands:    *)
(* the order that a return is about stays as it was.                       *)
LEMMA TakenKept ==
  ASSUME IInv, [Next]_vars, NEW r \in Request, NEW i \in Item,
         pc[r] \in Open, call'[r] = call[r], LinesDone(r)' = LinesDone(r)
  PROVE  Taken(r, i)' = Taken(r, i)
<1>1. Pieces(call[r])' = Pieces(call[r])
  <2>1. CASE call[r].kind = "order"
    BY <2>1 DEF Pieces
  <2>2. CASE call[r].kind = "return"
    <3>1. call[r].order \in Request /\ booked[call[r].order] # None
      BY <2>2, OpenCall, CallType DEF Fits
    <3>2. booked'[call[r].order] = booked[call[r].order]
      BY <3>1, BooksKept
    <3> QED  BY <2>2, <3>2 DEF Pieces, OnShelf!Back
  <2> QED  BY <2>1, <2>2, OpenCall DEF Lines
<1> QED  BY <1>1 DEF Taken, OnShelf!AmountUpTo

(* The steps of others, which may write any level that r does not hold,    *)
(* leave its entry in order.                                               *)
LEMMA EntryKept ==
  ASSUME IInv, [Next]_vars, NEW r \in Request, Entry(r),
         pc[r] \in Open, call'[r] = call[r], held'[r] = held[r],
         LinesDone(r)' = LinesDone(r),
         pc'[r] \in {"price", "commit"} => line'[r] = Len(call[r].lines)
  PROVE  Entry(r)'
<1>1. ASSUME NEW i \in Item
      PROVE  Level(r, i)' = stock'[i] - Taken(r, i)'
  <2>1. /\ Taken(r, i)' = Taken(r, i) /\ Taken(r, i) \in Int
        /\ Level(r, i) = stock[i] - Taken(r, i)
        /\ stock[i] \in Nat /\ stock'[i] \in Nat
    BY <1>1, TakenKept, TakenType, NextKeeps DEF Entry, IInv, TypeOK
  <2>2. CASE held[r][i] # None
    BY <2>1, <2>2, NoOverwrite DEF Level
  <2>3. CASE held[r][i] = None
    <3>1. stock[i] = stock[i] - Taken(r, i)
      BY <2>1, <2>3 DEF Level
    <3>2. Level(r, i)' = stock'[i]
      BY <2>3 DEF Level
    <3> QED  BY <2>1, <3>1, <3>2
  <2> QED  BY <2>2, <2>3
<1> QED  BY <1>1 DEF Entry

(* A transaction starts at its first line with nothing taken.              *)
LEMMA EntryStarts ==
  ASSUME IInv, NEW r \in Request, held[r] = Nothing, line[r] = 1,
         pc'[r] = "update", held'[r] = held[r], line'[r] = line[r],
         call'[r] \in Call, call'[r].kind \in Lines,
         UNCHANGED <<stock, booked>>
  PROVE  Entry(r)'
<1> DEFINE c == call'[r]
<1>1. ASSUME NEW i \in Item
      PROVE  Taken(r, i)' = 0
  <2>1. OnShelf!AmountUpTo(Pieces(c), i)[0] = 0
    BY PiecesAmount
  <2>2. Pieces(call[r])' = Pieces(c)
    BY DEF Pieces, OnShelf!Back
  <2>3. LinesDone(r)' = 0
    BY DEF LinesDone
  <2> QED  BY <2>1, <2>2, <2>3 DEF Taken, OnShelf!AmountUpTo
<1>2. ASSUME NEW i \in Item
      PROVE  Level(r, i)' = stock'[i] /\ stock'[i] \in Nat
  BY DEF Level, Nothing, IInv, TypeOK
<1>3. \A i \in Item : Level(r, i)' = stock'[i] - Taken(r, i)'
  BY <1>1, <1>2
<1> QED  BY <1>3 DEF Entry

(* The UPDATE of a line takes its share of the item, and nothing of the    *)
(* others.                                                                 *)
LEMMA EntryGrows ==
  ASSUME IInv, NEW r \in Request, Entry(r), UpdateLevel(r), pc'[r] = "send"
  PROVE  Entry(r)'
<1> DEFINE c == call[r]
           k == line[r]
           t == Target(r)
           amount(i) == OnShelf!AmountUpTo(Pieces(c), i)
<1>1. /\ pc[r] = "update" /\ c \in Call /\ c.kind \in Lines
      /\ k \in 1 .. Len(c.lines) /\ Len(c.lines) \in Nat
  BY LinesType DEF UpdateLevel, IInv, Flow
<1>2. /\ held' = [held EXCEPT ![r][t] = Outcome(r)]
      /\ UNCHANGED <<stock, booked, call, line>>
      /\ t \in Item /\ Outcome(r) \in Nat
  <2>1. ~Rollback(r, "refused")
    BY DEF Rollback, IInv, TypeOK
  <2> QED  BY <2>1, OutcomeType DEF UpdateLevel, IInv
<1>3. /\ Pieces(c)[k].qty \in Nat
      /\ t = Pieces(c)[k].item
      /\ Outcome(r) = Level(r, t) + (IF c.kind = "order"
                                     THEN -Pieces(c)[k].qty
                                     ELSE Pieces(c)[k].qty)
  BY <1>1, PiecesType DEF Target, Outcome
<1>4. ASSUME NEW i \in Item
      PROVE  Level(r, i)' = stock'[i] - Taken(r, i)'
  <2>1. /\ amount(i)[k] \in Nat /\ amount(i)[k - 1] \in Nat
        /\ amount(i)[k] = amount(i)[k - 1] + Share(Pieces(c), i, k)
    <3> k - 1 \in 0 .. Len(c.lines) /\ k \in 0 .. Len(c.lines)
      BY <1>1
    <3> QED  BY <1>1, PiecesAmount
  <2>2. Taken(r, i) = IF c.kind = "order" THEN amount(i)[k - 1]
                                          ELSE -amount(i)[k - 1]
    BY <1>1 DEF Taken, LinesDone
  <2>3. Taken(r, i)' = IF c.kind = "order" THEN amount(i)[k]
                                           ELSE -amount(i)[k]
    <3>1. Pieces(call[r])' = Pieces(c) /\ LinesDone(r)' = k
      BY <1>1, <1>2 DEF Pieces, OnShelf!Back, LinesDone
    <3> QED  BY <1>2, <3>1 DEF Taken, OnShelf!AmountUpTo
  <2>4. Level(r, i) = stock[i] - Taken(r, i) /\ stock[i] \in Nat
    BY <1>1 DEF Entry, Open, IInv, TypeOK
  <2>5. CASE i = t
    <3>1. held'[r][i] = Outcome(r) /\ Outcome(r) # None
      BY <1>2, <2>5, StockAssumption DEF IInv, TypeOK
    <3>2. Level(r, i)' = Outcome(r)
      BY <3>1 DEF Level
    <3>3. Share(Pieces(c), i, k) = Pieces(c)[k].qty
      BY <1>3, <2>5 DEF Share
    <3>4. stock'[i] = stock[i]
      BY <1>2
    <3> HIDE DEF amount, t
    <3> QED  BY <1>3, <2>1, <2>2, <2>3, <2>4, <2>5, <3>2, <3>3, <3>4
  <2>6. CASE i # t
    <3>1. held'[r][i] = held[r][i]
      BY <1>2, <2>6 DEF IInv, TypeOK
    <3>2. Level(r, i)' = Level(r, i)
      BY <1>2, <3>1 DEF Level
    <3> HIDE DEF amount
    <3> QED  BY <1>2, <1>3, <2>1, <2>2, <2>3, <2>4, <2>6, <3>2 DEF Share
  <2> QED  BY <2>5, <2>6
<1> QED  BY <1>4 DEF Entry

LEMMA SubmitEntry ==
  ASSUME IInv, NEW r \in Request, NEW c \in Call, Submit(r, c)
  PROVE  Entry(r)'
<1>1. PICK next \in FirstSteps(c.kind) : pc' = [pc EXCEPT ![r] = next]
  BY DEF Submit
<1>2. /\ next \in {"update", "refused", "check", "load", "adjust"}
      /\ next = "update" => c.kind = "order"
  BY CallType DEF FirstSteps
<1>3. /\ pc[r] = "idle" /\ line[r] = 1 /\ held[r] = Nothing
      /\ pc'[r] = next /\ call'[r] = c
      /\ UNCHANGED <<stock, booked, line, held>>
  BY <1>1 DEF Submit, IInv, TypeOK, Flow, Locks, Open
<1>4. CASE next = "update"
  BY <1>2, <1>3, <1>4, EntryStarts DEF Lines
<1>5. CASE next # "update"
  BY <1>2, <1>3, <1>5 DEF Entry, Open
<1> QED  BY <1>4, <1>5

LEMMA CheckReturnEntry ==
  ASSUME IInv, NEW r \in Request, CheckReturn(r)
  PROVE  Entry(r)'
<1>1. /\ call[r] \in Call /\ call[r].kind = "return" /\ line[r] = 1
      /\ held[r] = Nothing
      /\ pc'[r] \in {"update", "refused"}
      /\ UNCHANGED <<stock, booked, call, line, held>>
  BY DEF IInv, TypeOK, Flow, Locks, CheckReturn, Open
<1>2. CASE pc'[r] = "update"
  BY <1>1, <1>2, EntryStarts DEF Lines
<1>3. CASE pc'[r] = "refused"
  BY <1>3 DEF Entry, Open
<1> QED  BY <1>1, <1>2, <1>3

LEMMA SendEntry ==
  ASSUME IInv, NEW r \in Request, Entry(r), Send(r), Next
  PROVE  Entry(r)'
<1>1. CASE pc'[r] \notin Open
  BY <1>1 DEF Entry
<1>2. CASE pc'[r] \in Open
  <2>1. /\ pc[r] = "send" /\ line[r] \in Nat
        /\ UNCHANGED <<call, held>>
        /\ \/ pc'[r] = "update" /\ line'[r] = line[r] + 1
           \/ /\ pc'[r] \in {"price", "commit"} /\ line'[r] = line[r]
              /\ line[r] = Len(call[r].lines)
    BY <1>2 DEF Send, Rollback, Open, IInv, TypeOK
  <2>2. LinesDone(r)' = LinesDone(r)
    BY <2>1 DEF LinesDone
  <2> QED  BY <2>1, <2>2, EntryKept DEF Open
<1> QED  BY <1>1, <1>2

LEMMA PriceEntry ==
  ASSUME IInv, NEW r \in Request, Entry(r), Price(r), Next
  PROVE  Entry(r)'
<1>1. CASE pc'[r] \notin Open
  BY <1>1 DEF Entry
<1>2. CASE pc'[r] \in Open
  <2>1. pc[r] = "price" /\ pc'[r] = "commit" /\ UNCHANGED <<call, held, line>>
    BY <1>2 DEF Price, Rollback, Open, IInv, TypeOK
  <2>2. line[r] = Len(call[r].lines)
    BY <2>1 DEF Entry, Open
  <2> QED  BY <2>1, <2>2, EntryKept DEF Open, LinesDone
<1> QED  BY <1>1, <1>2

(* A handler touches its own place, request, line and rows only.           *)
LEMMA HandleOwn ==
  ASSUME IInv, NEW q \in Request, Handle(q), NEW r \in Request, r # q
  PROVE  /\ pc'[r] = pc[r] /\ call'[r] = call[r]
         /\ line'[r] = line[r] /\ held'[r] = held[r]
<1>1. /\ \E to : pc' = [pc EXCEPT ![q] = to]
      /\ call' = call
      /\ line' = line \/ line' = [line EXCEPT ![q] = @ + 1]
      /\ \/ held' = held
         \/ held' = [held EXCEPT ![q] = Nothing]
         \/ held' = [held EXCEPT ![q][Target(q)] = Outcome(q)]
  BY DEF Handle, CheckReturn, UpdateLevel, Send, Price, Commit, LoadLevel,
         WriteLevel, AdjustLevel, Tell, Deadlock, Rollback, Write
<1> QED  BY <1>1 DEF IInv, TypeOK

LEMMA HandleEntry ==
  ASSUME IInv, Ledger, Next, NEW q \in Request, Handle(q),
         NEW r \in Request
  PROVE  Entry(r)'
<1>1. CASE pc'[r] \notin Open
  BY <1>1 DEF Entry
<1>2. CASE pc'[r] \in Open /\ r # q
  <2>1. /\ pc'[r] = pc[r] /\ call'[r] = call[r]
        /\ line'[r] = line[r] /\ held'[r] = held[r]
    BY <1>2, HandleOwn
  <2>2. LinesDone(r)' = LinesDone(r)
    BY <2>1 DEF LinesDone
  <2> QED  BY <1>2, <2>1, <2>2, EntryKept DEF Ledger, Entry
<1>3. CASE pc'[r] \in Open /\ r = q
  <2>1. CASE UpdateLevel(r)
    <3>1. pc'[r] = "send"
      BY <1>3, <2>1 DEF UpdateLevel, Rollback, Open, IInv, TypeOK
    <3> QED  BY <2>1, <3>1, EntryGrows DEF Ledger
  <2>2. \/ CheckReturn(r) \/ UpdateLevel(r) \/ Send(r) \/ Price(r)
    BY <1>3 DEF Handle, Commit, LoadLevel, WriteLevel, AdjustLevel, Write,
                Tell, Deadlock, Rollback, Open, IInv, TypeOK
  <2> QED  BY <2>1, <2>2, CheckReturnEntry, SendEntry, PriceEntry DEF Ledger
<1> QED  BY <1>1, <1>2, <1>3

LEMMA LedgerKept == IInv /\ Ledger /\ [Next]_vars => Ledger'
<1> SUFFICES ASSUME IInv, Ledger, [Next]_vars, NEW r \in Request
             PROVE  Entry(r)'
  BY DEF Ledger
<1>1. ASSUME NEW q \in Request, Handle(q)
      PROVE  Entry(r)'
  <2> Next
    BY <1>1 DEF Next
  <2> QED  BY <1>1, HandleEntry
<1>2. CASE pc'[r] \notin Open
  BY <1>2 DEF Entry
<1>3. ASSUME pc'[r] = pc[r], call'[r] = call[r], line'[r] = line[r],
             held'[r] = held[r], pc[r] \in Open
      PROVE  Entry(r)'
  <2>1. LinesDone(r)' = LinesDone(r)
    BY <1>3 DEF LinesDone
  <2> QED  BY <1>3, <2>1, EntryKept DEF Ledger, Entry
<1>4. ASSUME NEW q \in Request, NEW c \in Call, Submit(q, c)
      PROVE  Entry(r)'
  <2>1. CASE q = r
    BY <1>4, <2>1, SubmitEntry
  <2>2. CASE q # r
    BY <1>2, <1>3, <1>4, <2>2 DEF Submit, IInv, TypeOK
  <2> QED  BY <2>1, <2>2
<1>5. CASE Crash
  <2>1. pc'[r] \notin Open
    BY <1>5 DEF Crash, InFlight, Final, Open
  <2> QED  BY <1>2, <2>1
<1>6. CASE UNCHANGED vars
  BY <1>2, <1>3, <1>6 DEF vars
<1> QED  BY <1>1, <1>4, <1>5, <1>6 DEF Next

LEMMA LedgerHolds == Spec => [](IInv /\ Ledger)
<1>1. Init => Ledger
  BY DEF Init, Ledger, Entry, Open
<1> QED  BY <1>1, InitIInv, NextKeeps, LedgerKept, PTL DEF Spec

-----------------------------------------------------------------------------
(* Commits are what Shelf does in one step.                                *)

(* At the commit every line has been taken or put back.                    *)
LEMMA CommitLevels ==
  ASSUME IInv, Ledger, NEW r \in Request, Commit(r), NEW i \in Item
  PROVE  LET all == OnShelf!Amount(Pieces(call[r]), i)
         IN  /\ all \in Nat
             /\ stock'[i] = IF call[r].kind = "order" THEN stock[i] - all
                                                      ELSE stock[i] + all
<1>1. pc[r] = "commit" /\ call[r] \in Call /\ call[r].kind \in Lines
  BY DEF Commit, IInv, Flow
<1>2. /\ line[r] = Len(call[r].lines)
      /\ stock'[i] = stock[i] - Taken(r, i)
  BY <1>1 DEF Ledger, Entry, Open, Commit
<1> DEFINE amount == OnShelf!AmountUpTo(Pieces(call[r]), i)
           all == OnShelf!Amount(Pieces(call[r]), i)
<1>3. amount[Len(call[r].lines)] = all /\ all \in Nat
  <2>1. Len(call[r].lines) \in 0 .. Len(call[r].lines)
    BY <1>1, PiecesType
  <2> QED  BY <1>1, <2>1, PiecesAmount
<1>4. Taken(r, i) = IF call[r].kind = "order" THEN all ELSE -all
  BY <1>1, <1>2, <1>3 DEF Taken, LinesDone
<1>5. stock[i] \in Nat
  BY DEF IInv, TypeOK
<1> HIDE DEF all, amount
<1>6. stock'[i] = IF call[r].kind = "order" THEN stock[i] - all
                                            ELSE stock[i] + all
  BY <1>2, <1>3, <1>4, <1>5
<1> QED  BY <1>3, <1>6 DEF all

LEMMA CommitBooks ==
  ASSUME IInv, Ledger, NEW r \in Request, Commit(r)
  PROVE  OnShelf!Next
<1> DEFINE c == call[r]
<1>1. /\ pc[r] = "commit" /\ c \in Call /\ c.kind \in Lines
      /\ c.kind = "return" => Fits(c)
      /\ booked[r] = None
  BY OpenCall DEF Commit, IInv, Flow, Kept, Open
<1>2. booked' = [booked EXCEPT ![r] = c] /\ stock' = [i \in Item |-> stock'[i]]
  BY DEF Commit
<1>3. IInv'
  BY CommitKeeps
<1>4. CASE c.kind = "order"
  <2>1. \A i \in Item :
          /\ OnShelf!Amount(c.lines, i) <= stock[i]
          /\ stock'[i] = stock[i] - OnShelf!Amount(c.lines, i)
    <3> SUFFICES ASSUME NEW i \in Item
                 PROVE  /\ OnShelf!Amount(c.lines, i) <= stock[i]
                        /\ stock'[i] = stock[i] - OnShelf!Amount(c.lines, i)
      OBVIOUS
    <3>1. /\ OnShelf!Amount(c.lines, i) \in Nat
          /\ stock'[i] = stock[i] - OnShelf!Amount(c.lines, i)
      BY <1>4, CommitLevels DEF Pieces
    <3>2. stock[i] \in Nat /\ stock'[i] \in Nat
      BY <1>3 DEF IInv, TypeOK
    <3> QED  BY <3>1, <3>2
  <2>2. OnShelf!Take(r, c)
    BY <1>2, <1>4, <2>1 DEF OnShelf!Take
  <2> QED  BY <1>1, <1>2, <2>2 DEF OnShelf!Next, OnShelf!Book
<1>5. CASE c.kind = "return"
  <2>1. \A i \in Item :
          stock'[i] = stock[i] + OnShelf!Amount(OnShelf!Back(c), i)
    BY <1>5, CommitLevels DEF Pieces
  <2>2. OnShelf!PutBack(r, c)
    BY <1>1, <1>2, <1>5, <2>1 DEF OnShelf!PutBack, Fits, Bought
  <2> QED  BY <1>1, <1>2, <2>2 DEF OnShelf!Next, OnShelf!Book
<1> QED  BY <1>1, <1>4, <1>5 DEF Lines

(* A count or an adjustment is booked by its one UPDATE, also when the ORM *)
(* sends none because the level is the same.                               *)
LEMMA WriteBooks ==
  ASSUME IInv, NEW r \in Request, Handle(r),
         pc[r] \in {"load", "write", "adjust"}
  PROVE  OnShelf!Next \/ UNCHANGED <<stock, booked>>
<1>1. /\ call[r] \in Call /\ booked[r] = None
      /\ pc[r] \in {"load", "write"} => call[r].kind = "set"
      /\ pc[r] = "adjust" => call[r].kind = "adjust"
  BY DEF IInv, Flow, Kept
<1>2. ASSUME LoadLevel(r) \/ WriteLevel(r), Write(r, call[r].value)
      PROVE  OnShelf!Next
  <2>1. OnShelf!Count(r, call[r])
    BY <1>1, <1>2 DEF OnShelf!Count, Write, LoadLevel, WriteLevel
  <2> QED  BY <1>1, <1>2, <2>1 DEF OnShelf!Next, OnShelf!Book, Write
<1>3. ASSUME AdjustLevel(r), ~UNCHANGED <<stock, booked>>
      PROVE  OnShelf!Next
  <2>1. /\ stock[call[r].item] + call[r].delta >= 0
        /\ Write(r, stock[call[r].item] + call[r].delta)
    BY <1>3 DEF AdjustLevel, Rollback
  <2>2. OnShelf!Adjust(r, call[r])
    BY <1>1, <1>3, <2>1 DEF OnShelf!Adjust, Write, AdjustLevel
  <2> QED  BY <1>1, <2>1, <2>2 DEF OnShelf!Next, OnShelf!Book, Write
<1>4. \/ LoadLevel(r) /\ (Write(r, call[r].value) \/ UNCHANGED <<stock, booked>>)
      \/ WriteLevel(r) /\ Write(r, call[r].value)
      \/ AdjustLevel(r)
      \/ UNCHANGED <<stock, booked>>
  BY DEF Handle, CheckReturn, UpdateLevel, Send, Price, Commit, LoadLevel,
         WriteLevel, Tell, Deadlock, Rollback
<1> QED  BY <1>2, <1>3, <1>4

LEMMA StepBooks == IInv /\ Ledger /\ [Next]_vars => [OnShelf!Next]_(OnShelf!vars)
<1> SUFFICES ASSUME IInv, Ledger, [Next]_vars
             PROVE  OnShelf!Next \/ UNCHANGED <<stock, booked>>
  BY DEF OnShelf!vars
<1>1. ASSUME NEW r \in Request, Handle(r)
      PROVE  OnShelf!Next \/ UNCHANGED <<stock, booked>>
  <2>1. CASE Commit(r)
    BY <2>1, CommitBooks
  <2>2. CASE pc[r] \in {"load", "write", "adjust"}
    BY <1>1, <2>2, WriteBooks
  <2>3. CASE ~Commit(r) /\ pc[r] \notin {"load", "write", "adjust"}
    BY <1>1, <2>3 DEF Handle, CheckReturn, UpdateLevel, Send, Price, LoadLevel,
                      WriteLevel, AdjustLevel, Tell, Deadlock, Rollback
  <2> QED  BY <2>1, <2>2, <2>3
<1>2. CASE \E r \in Request, c \in Call : Submit(r, c)
  BY <1>2 DEF Submit
<1>3. CASE Crash \/ UNCHANGED vars
  BY <1>3 DEF Crash, vars
<1> QED  BY <1>1, <1>2, <1>3 DEF Next

(* However orders, returns, counts and adjustments interleave, fail or are *)
(* cut off, it comes to the same as if each had been carried out at one    *)
(* moment, in full or not at all (order.py, returns.py, inventory.py).     *)
THEOREM StockIsAShelf == Spec => ImplementsShelf
<1>1. Init => OnShelf!Init
  BY DEF Init, OnShelf!Init
<1> QED  BY <1>1, LedgerHolds, StepBooks, PTL
         DEF Spec, ImplementsShelf, OnShelf!Spec

(* An order that is answered 409 wants more of some item, in all its       *)
(* lines, than there is on record at that moment (order.py).               *)
THEOREM RefusalsAreShort == Spec => RefusedOnlyIfShort
<1>1. ASSUME IInv, Ledger, Next, NEW r \in Request,
             pc[r] = "update", pc'[r] = "refused"
      PROVE  \E i \in Item : stock[i] < OnShelf!Amount(call[r].lines, i)
  <2> DEFINE c == call[r]
             k == line[r]
             t == Target(r)
  <2>1. /\ c \in Call /\ c.kind \in Lines
        /\ k \in 1 .. Len(c.lines) /\ Len(c.lines) \in Nat
    BY <1>1, LinesType DEF IInv, Flow
  <2>2. ~Enough(c, Outcome(r))
    <3>1. PICK q \in Request : Handle(q)
      BY <1>1 DEF Next, Submit, Crash, InFlight, Final, IInv, TypeOK
    <3>2. q = r
      BY <1>1, <3>1, HandleOwn
    <3> QED  BY <1>1, <3>1, <3>2
             DEF Handle, CheckReturn, UpdateLevel, Send, Price, Commit,
                 LoadLevel, WriteLevel, AdjustLevel, Tell, Deadlock, Rollback,
                 IInv, TypeOK
  <2>3. c.kind = "order" /\ ~(Outcome(r) >= 0)
    BY <2>2 DEF Enough
  <2>4. /\ t \in Item /\ t = Pieces(c)[k].item
        /\ Outcome(r) = Level(r, t) - Pieces(c)[k].qty
        /\ Pieces(c)[k].qty \in Nat /\ Level(r, t) \in Nat
    <3>1. t \in Item
      BY <1>1, ChangeType DEF IInv
    <3>2. Level(r, t) \in Nat
      BY <1>1, <3>1 DEF Level, IInv, TypeOK
    <3>3. /\ Change(c, k) = [item |-> Pieces(c)[k].item,
                             by |-> -Pieces(c)[k].qty]
          /\ Pieces(c)[k].qty \in Nat
      BY <2>1, <2>3, PiecesType
    <3> QED  BY <3>1, <3>2, <3>3 DEF Target, Outcome
  <2> DEFINE amount == OnShelf!AmountUpTo(Pieces(c), t)
             all == OnShelf!Amount(Pieces(c), t)
  <2>5. /\ amount[k] = amount[k - 1] + Pieces(c)[k].qty
        /\ amount[k] <= all /\ amount[k - 1] \in Nat /\ all \in Nat
    <3>1. k - 1 \in 0 .. Len(c.lines) /\ Len(c.lines) \in 0 .. Len(c.lines)
      BY <2>1
    <3>2. /\ amount \in [0 .. Len(c.lines) -> Nat]
          /\ amount[k] = amount[k - 1] + Share(Pieces(c), t, k)
          /\ amount[k] <= all /\ amount[Len(c.lines)] = all
      BY <2>1, PiecesAmount
    <3>3. Share(Pieces(c), t, k) = Pieces(c)[k].qty
      BY <2>4 DEF Share
    <3> HIDE DEF amount, all
    <3> QED  BY <3>1, <3>2, <3>3
  <2>6. Level(r, t) = stock[t] - amount[k - 1] /\ stock[t] \in Nat
    BY <1>1, <2>3, <2>4 DEF Ledger, Entry, Open, Taken, LinesDone, IInv, TypeOK
  <2>7. stock[t] < all
    <3> HIDE DEF amount, all
    <3> QED  BY <2>3, <2>4, <2>5, <2>6
  <2> QED  BY <2>3, <2>4, <2>7 DEF Pieces
<1>2. IInv /\ Ledger /\ [Next]_vars =>
        [\A r \in Request :
           pc[r] = "update" /\ pc'[r] = "refused" =>
             \E i \in Item : stock[i] < OnShelf!Amount(call[r].lines, i)]_vars
  BY <1>1
<1> QED  BY <1>2, LedgerHolds, PTL DEF Spec, RefusedOnlyIfShort
=============================================================================
