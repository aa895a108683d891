--------------------------- MODULE FiscalJournal ---------------------------
(***************************************************************************)
(* What the books of the shop promise the tax office, with nothing said    *)
(* about how they are kept: an entry is appended once and never taken      *)
(* back, no two entries carry the same receipt number, a correction is an  *)
(* entry of its own that refers to a sale already in the books, and the    *)
(* one change an entry ever sees is that its missing signature is added.   *)
(* FiscalSale implements this module.                                      *)
(***************************************************************************)
EXTENDS Naturals

CONSTANTS Id,        \* identities of entries
          Content,   \* what an entry says: a record with fields kind and ref
          None       \* no entry

VARIABLE journal     \* the entry of each identity, or None

Entry == [number : Nat, content : Content, pending : BOOLEAN]

TypeOK == journal \in [Id -> Entry \cup {None}]

Written == {c \in Id : journal[c] # None}

Init == journal = [c \in Id |-> None]

(* A correction refers to an entry that is in the books and is not itself  *)
(* a correction.                                                           *)
RefersToSale(content) ==
  content.kind = "void" =>
    /\ content.ref \in Written
    /\ journal[content.ref].content.kind # "void"

(* The number may be any that is not taken; Append is a relation between   *)
(* the journals before and after, so that no number has to be named.       *)
Append(c) ==
  LET e == journal'[c]
  IN  /\ c \notin Written
      /\ e \in Entry
      /\ \A d \in Written : journal[d].number # e.number
      /\ RefersToSale(e.content)
      /\ journal' = [journal EXCEPT ![c] = e]

Sign(c) ==
  /\ c \in Written
  /\ journal[c].pending
  /\ journal' = [journal EXCEPT ![c] = [@ EXCEPT !.pending = FALSE]]

Next == \E c \in Id : Append(c) \/ Sign(c)

Spec == Init /\ [][Next]_journal

=============================================================================
