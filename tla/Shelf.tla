------------------------------- MODULE Shelf -------------------------------
(***************************************************************************)
(* What the shop's stock keeping promises, as if each order, return, count *)
(* and adjustment took no time: an order takes all of its lines off the    *)
(* shelf or none, and never more than is there; a return puts back what it *)
(* lists; a count replaces the number on record.  Stock implements this    *)
(* module.                                                                 *)
(***************************************************************************)
EXTENDS Integers, Sequences

CONSTANTS Request,   \* who asks, each once
          Item,      \* inventory items
          Call,      \* what can be asked for
          Initial,   \* what is on the shelf at first
          None

VARIABLES stock,     \* how much there is of each item
          booked     \* what was carried out for each request, or None

vars == <<stock, booked>>

(* How much of item i the first n lines come to, for each n.               *)
AmountUpTo(lines, i) ==
  LET amount[n \in 0 .. Len(lines)] ==
        IF n = 0
        THEN 0
        ELSE amount[n - 1] + IF lines[n].item = i THEN lines[n].qty ELSE 0
  IN  amount

(* How much of item i the lines come to.                                   *)
Amount(lines, i) == AmountUpTo(lines, i)[Len(lines)]

Init ==
  /\ stock = Initial
  /\ booked = [r \in Request |-> None]

Take(r, c) ==
  /\ c.kind = "order"
  /\ \A i \in Item : Amount(c.lines, i) <= stock[i]
  /\ stock' = [i \in Item |-> stock[i] - Amount(c.lines, i)]

(* What a return puts back: its quantities, of the items that were bought. *)
Back(c) ==
  [k \in DOMAIN c.lines |->
     [item |-> booked[c.order].lines[c.lines[k].line].item,
      qty  |-> c.lines[k].qty]]

PutBack(r, c) ==
  /\ c.kind = "return"
  /\ booked[c.order] # None /\ booked[c.order].kind = "order"
  /\ \A k \in DOMAIN c.lines :
       LET bought == booked[c.order].lines
       IN  /\ c.lines[k].line \in DOMAIN bought
           /\ c.lines[k].qty <= bought[c.lines[k].line].qty
  /\ stock' = [i \in Item |-> stock[i] + Amount(Back(c), i)]

Count(r, c) ==
  /\ c.kind = "set"
  /\ stock' = [stock EXCEPT ![c.item] = c.value]

Adjust(r, c) ==
  /\ c.kind = "adjust"
  /\ stock[c.item] + c.delta >= 0
  /\ stock' = [stock EXCEPT ![c.item] = @ + c.delta]

Book(r, c) ==
  /\ booked[r] = None
  /\ booked' = [booked EXCEPT ![r] = c]
  /\ Take(r, c) \/ PutBack(r, c) \/ Count(r, c) \/ Adjust(r, c)

Next == \E r \in Request, c \in Call : Book(r, c)

Spec == Init /\ [][Next]_vars

=============================================================================
