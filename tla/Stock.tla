------------------------------- MODULE Stock -------------------------------
(***************************************************************************)
(* Stock keeping in the backend: create_order (services/order.py),         *)
(* create_return (services/returns.py), set_inventory and adjust_inventory *)
(* (services/inventory.py), cut at their awaits.  Stock is taken line by   *)
(* line in one PostgreSQL transaction: each conditional UPDATE locks the   *)
(* row of its item until the transaction ends, another UPDATE of the row   *)
(* waits and then looks at the committed number, and PostgreSQL fails one  *)
(* transaction of a circle of waiting ones.  Between two UPDATEs the       *)
(* change is told to the connected screens, and a screen that is gone can  *)
(* make that fail.                                                         *)
(*                                                                         *)
(* Prices, tax and shipping amounts are not here; a weighed line takes one *)
(* piece, as the code does.                                                *)
(***************************************************************************)
EXTENDS Integers, Sequences, FiniteSetsExt

CONSTANTS Request,   \* HTTP requests, each submitted at most once
          Item,      \* inventory items, each with its level at one location
          Basket,    \* the order lines a till or the shop may send
          Parcel,    \* the return lines a till may send
          Counted,   \* numbers the admin page may set a level to
          Delta,     \* changes the admin page may ask for
          Initial,   \* the levels at first
          None       \* nothing

Call == [kind : {"order"}, lines : Basket]
          \cup [kind : {"return"}, order : Request, lines : Parcel]
          \cup [kind : {"set"}, item : Item, value : Counted]
          \cup [kind : {"adjust"}, item : Item, delta : Delta]

ASSUME StockAssumption ==
  /\ Basket \subseteq Seq([item : Item, qty : Nat \ {0}]) \ {<<>>}
  /\ Parcel \subseteq Seq([line : Nat \ {0}, qty : Nat \ {0}]) \ {<<>>}
  /\ Counted \subseteq Nat
  /\ Delta \subseteq Int
  /\ Initial \in [Item -> Nat]
  /\ None \notin Call \cup Nat

VARIABLES
  stock,    \* inventory_levels.available, committed
  booked,   \* orders and returns, committed; and the counts and adjustments
  pc,       \* how far the handler of each request has come
  call,     \* what each request asked for
  line,     \* the line the handler is at
  held      \* the levels its transaction has updated but not committed

vars == <<stock, booked, pc, call, line, held>>

Final == {"done", "refused", "failed"}

Pc == Final \cup {"idle", "check", "update", "send", "price", "commit",
                  "load", "write", "adjust", "tell"}

InFlight(r) == pc[r] \notin Final \cup {"idle"}

TypeOK ==
  /\ stock \in [Item -> Nat]
  /\ booked \in [Request -> Call \cup {None}]
  /\ pc \in [Request -> Pc]
  /\ call \in [Request -> Call \cup {None}]
  /\ line \in [Request -> Nat]
  /\ held \in [Request -> [Item -> Nat \cup {None}]]

Nothing == [i \in Item |-> None]

Init ==
  /\ stock = Initial
  /\ booked = [r \in Request |-> None]
  /\ pc = [r \in Request |-> "idle"]
  /\ call = [r \in Request |-> None]
  /\ line = [r \in Request |-> 1]
  /\ held = [r \in Request |-> Nothing]

-----------------------------------------------------------------------------
(* Requests come in.  An order whose lines do not fit how their variants   *)
(* are priced (by piece, by weight) is answered 400 before it writes.      *)
FirstSteps(kind) ==
  CASE kind = "order"  -> {"update", "refused"}
    [] kind = "return" -> {"check"}
    [] kind = "set"    -> {"load"}
    [] kind = "adjust" -> {"adjust"}

Submit(r, c) ==
  /\ pc[r] = "idle"
  /\ \E next \in FirstSteps(c.kind) : pc' = [pc EXCEPT ![r] = next]
  /\ call' = [call EXCEPT ![r] = c]
  /\ UNCHANGED <<stock, booked, line, held>>

-----------------------------------------------------------------------------
(* Rows and their locks.                                                   *)

Holders(i) == {q \in Request : held[q][i] # None}

(* Mutant of Blocked: levels are read first and written at the commit.     *)
BlockedNever(r, i) == FALSE

Blocked(r, i) == Holders(i) \ {r} # {}

(* What the transaction of r sees: its own update or the committed number. *)
Level(r, i) == IF held[r][i] # None THEN held[r][i] ELSE stock[i]

(* Mutant of Rollback: the session is left open.                           *)
RollbackForgotten(r, answer) ==
  /\ pc' = [pc EXCEPT ![r] = answer]
  /\ UNCHANGED <<stock, booked, call, line, held>>

(* Mutant of Rollback: leaving the handler commits the session.            *)
RollbackCommits(r, answer) ==
  /\ pc' = [pc EXCEPT ![r] = answer]
  /\ stock' = [i \in Item |-> Level(r, i)]
  /\ held' = [held EXCEPT ![r] = Nothing]
  /\ UNCHANGED <<booked, call, line>>

Rollback(r, answer) ==
  /\ pc' = [pc EXCEPT ![r] = answer]
  /\ held' = [held EXCEPT ![r] = Nothing]
  /\ UNCHANGED <<stock, booked, call, line>>

-----------------------------------------------------------------------------
(* create_order and create_return.                                         *)

(* The lines of the order a return is about.                               *)
Bought(c) == booked[c.order].lines

(* Each line must be of the order and not more than was ordered in it.     *)
Fits(c) ==
  /\ booked[c.order] # None /\ booked[c.order].kind = "order"
  /\ \A k \in DOMAIN c.lines :
       /\ c.lines[k].line \in DOMAIN Bought(c)
       /\ c.lines[k].qty <= Bought(c)[c.lines[k].line].qty

CheckReturn(r) ==
  /\ pc[r] = "check"
  /\ pc' = [pc EXCEPT ![r] = IF Fits(call[r]) THEN "update" ELSE "refused"]
  /\ UNCHANGED <<stock, booked, call, line, held>>

(* The UPDATE of line k: which item, and by how much.                      *)
Change(c, k) ==
  IF c.kind = "order"
  THEN [item |-> c.lines[k].item, by |-> -c.lines[k].qty]
  ELSE [item |-> Bought(c)[c.lines[k].line].item, by |-> c.lines[k].qty]

(* Mutant of Enough: an order may not take the last piece.                 *)
EnoughStrict(c, level) == c.kind = "order" => level > 0

(* Mutant of Enough: the UPDATE has no condition.                          *)
EnoughAlways(c, level) == TRUE

Enough(c, level) == c.kind = "order" => level >= 0

(* The UPDATE finds no row whose committed level is too low, without       *)
(* waiting; otherwise it waits for the row, and looks at the level again.  *)
Target(r) == Change(call[r], line[r]).item

Outcome(r) == Level(r, Target(r)) + Change(call[r], line[r]).by

UpdateLevel(r) ==
  /\ pc[r] = "update"
  /\ \/ /\ ~Enough(call[r], Outcome(r))
        /\ Rollback(r, "refused")
     \/ /\ Enough(call[r], Outcome(r))
        /\ ~Blocked(r, Target(r))
        /\ held' = [held EXCEPT ![r][Target(r)] = Outcome(r)]
        /\ pc' = [pc EXCEPT ![r] = "send"]
        /\ UNCHANGED <<stock, booked, call, line>>

(* The broadcast comes before the commit; when sending to a screen fails,  *)
(* so does the request.                                                    *)
Send(r) ==
  /\ pc[r] = "send"
  /\ \/ /\ line[r] < Len(call[r].lines)
        /\ line' = [line EXCEPT ![r] = @ + 1]
        /\ pc' = [pc EXCEPT ![r] = "update"]
        /\ UNCHANGED <<stock, booked, call, held>>
     \/ /\ line[r] = Len(call[r].lines)
        /\ pc' = [pc EXCEPT ![r] = IF call[r].kind = "order"
                                   THEN "price" ELSE "commit"]
        /\ UNCHANGED <<stock, booked, call, line, held>>
     \/ Rollback(r, "failed")

(* Looking up the default tax rate raises when there are several.          *)
Price(r) ==
  /\ pc[r] = "price"
  /\ \/ /\ pc' = [pc EXCEPT ![r] = "commit"]
        /\ UNCHANGED <<stock, booked, call, line, held>>
     \/ Rollback(r, "failed")

(* Mutant of Commit: the commit is missing.                                *)
CommitMissing(r) ==
  /\ pc[r] = "commit"
  /\ held' = [held EXCEPT ![r] = Nothing]
  /\ pc' = [pc EXCEPT ![r] = "done"]
  /\ UNCHANGED <<stock, booked, call, line>>

Commit(r) ==
  /\ pc[r] = "commit"
  /\ stock' = [i \in Item |-> Level(r, i)]
  /\ booked' = [booked EXCEPT ![r] = call[r]]
  /\ held' = [held EXCEPT ![r] = Nothing]
  /\ pc' = [pc EXCEPT ![r] = "done"]
  /\ UNCHANGED <<call, line>>

-----------------------------------------------------------------------------
(* set_inventory and adjust_inventory: the UPDATE is committed at once,    *)
(* and told afterwards.                                                    *)

Write(r, level) ==
  /\ stock' = [stock EXCEPT ![call[r].item] = level]
  /\ booked' = [booked EXCEPT ![r] = call[r]]
  /\ pc' = [pc EXCEPT ![r] = "tell"]
  /\ UNCHANGED <<call, line, held>>

(* The ORM sends no UPDATE when the level it has read is the one to set.   *)
LoadLevel(r) ==
  /\ pc[r] = "load"
  /\ IF stock[call[r].item] = call[r].value
     THEN Write(r, call[r].value)
     ELSE /\ pc' = [pc EXCEPT ![r] = "write"]
          /\ UNCHANGED <<stock, booked, call, line, held>>

WriteLevel(r) ==
  /\ pc[r] = "write"
  /\ ~Blocked(r, call[r].item)
  /\ Write(r, call[r].value)

AdjustLevel(r) ==
  LET level == stock[call[r].item] + call[r].delta
  IN  /\ pc[r] = "adjust"
      /\ \/ level < 0 /\ Rollback(r, "refused")
         \/ level >= 0 /\ ~Blocked(r, call[r].item) /\ Write(r, level)

Tell(r) ==
  /\ pc[r] = "tell"
  /\ \E answer \in {"done", "failed"} : pc' = [pc EXCEPT ![r] = answer]
  /\ UNCHANGED <<stock, booked, call, line, held>>

-----------------------------------------------------------------------------
(* The database and the server.                                            *)

WaitsFor(q, r) ==
  /\ q # r
  /\ \/ /\ pc[q] = "update"
        /\ Enough(call[q], Outcome(q))
        /\ held[r][Target(q)] # None
     \/ pc[q] \in {"write", "adjust"} /\ held[r][call[q].item] # None

(* As a row has one holder, each waits for one other at most: a set in     *)
(* which everyone waits and is waited for is made of circles.              *)
InCircle(r) ==
  \E circle \in SUBSET Request :
    /\ r \in circle
    /\ \A q \in circle : /\ \E p \in circle : WaitsFor(q, p)
                         /\ \E p \in circle : WaitsFor(p, q)

Deadlock(r) ==
  /\ InCircle(r)
  /\ Rollback(r, "failed")

(* The server goes down, and every open transaction with it.               *)
Crash ==
  /\ \E r \in Request : InFlight(r)
  /\ pc' = [r \in Request |-> IF InFlight(r) THEN "failed" ELSE pc[r]]
  /\ held' = [r \in Request |-> Nothing]
  /\ UNCHANGED <<stock, booked, call, line>>

-----------------------------------------------------------------------------
Handle(r) ==
  \/ CheckReturn(r)
  \/ UpdateLevel(r)
  \/ Send(r)
  \/ Price(r)
  \/ Commit(r)
  \/ LoadLevel(r)
  \/ WriteLevel(r)
  \/ AdjustLevel(r)
  \/ Tell(r)
  \/ Deadlock(r)

Next ==
  \/ \E r \in Request : Handle(r)
  \/ \E r \in Request, c \in Call : Submit(r, c)
  \/ Crash

Spec == Init /\ [][Next]_vars

(* Every await ends, and PostgreSQL looks for deadlocks after a second.    *)
FairSpec == Spec /\ \A r \in Request : WF_vars(Handle(r))

-----------------------------------------------------------------------------
(* Properties.                                                             *)

OnShelf == INSTANCE Shelf

(* However the lines of several orders, returns, counts and adjustments    *)
(* interleave, and wherever one of them is refused, fails or is cut off,   *)
(* it comes to the same as if each had been carried out at one moment, in  *)
(* full or not at all, and no level ever falls below zero (order.py,       *)
(* returns.py, inventory.py).                                              *)
ImplementsShelf == OnShelf!Spec

(* An order is answered 409 for one reason only: the stock on record when  *)
(* it is, is less than the order wants of some item in all its lines.      *)
RefusedOnlyIfShort ==
  [][\A r \in Request :
       pc[r] = "update" /\ pc'[r] = "refused" =>
         \E i \in Item : stock[i] < OnShelf!Amount(call[r].lines, i)]_vars

(* No update is lost: a level that an open transaction has worked out from *)
(* the number on record is not changed by anyone before that transaction   *)
(* ends (the one UPDATE statement in order.py, returns.py, inventory.py    *)
(* instead of a read and a write; the ORM's write in set_inventory).       *)
NoLostUpdate ==
  [][\A r \in Request : \A i \in Item :
       held[r][i] # None /\ stock'[i] # stock[i] => held'[r][i] = None]_vars

(* A request that is answered with success is on record as it was asked    *)
(* for, and one that is refused is not: the till may send it again.        *)
AnswersAreTrue ==
  \A r \in Request :
    /\ pc[r] = "done" => booked[r] = call[r]
    /\ pc[r] = "refused" => booked[r] = None

(* Every request is answered in the end, although two orders that take the *)
(* same items in another order wait for each other.                        *)
Answered ==
  \A r \in Request : (pc[r] # "idle") ~> (pc[r] \in Final)

(* A claim of returns.py and its test (test_return_over_quantity_fails):   *)
(* not more of a line is returned than was ordered.  It holds for one      *)
(* return, not for all of them.                                            *)
Returned(o, n) ==
  MapThenSumSet(
    LAMBDA p : booked[p[1]].lines[p[2]].qty,
    {p \in UNION {{r} \X DOMAIN booked[r].lines :
                    r \in {q \in Request : booked[q] # None /\ booked[q].kind = "return"}} :
       booked[p[1]].order = o /\ booked[p[1]].lines[p[2]].line = n})

ReturnedWithinOrder ==
  \A o \in Request :
    booked[o] # None /\ booked[o].kind = "order" =>
      \A n \in DOMAIN booked[o].lines :
        Returned(o, n) <= booked[o].lines[n].qty

=============================================================================
