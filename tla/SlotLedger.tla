------------------------------ MODULE SlotLedger ------------------------------
(***************************************************************************)
(* What the account pool promises its users, with nothing of how it is     *)
(* done: an account entry is a slot pool of bounded size, a request holds  *)
(* at most one slot, a slot is taken only while fewer requests than the    *)
(* limit hold one of that entry, and the only way to stop holding a slot   *)
(* is to give it back.  The limit may be retuned at any time; lowering it  *)
(* evicts nobody.                                                          *)
(*                                                                         *)
(* There is no counter here: how many slots are taken is counted from the  *)
(* requests that hold them.  ChatSlots keeps a counter instead, and the    *)
(* refinement says that the counter never lies.                            *)
(***************************************************************************)
EXTENDS Naturals, FiniteSets

CONSTANTS Holders,   \* who may hold a slot: the chat requests
          Slots,     \* what a slot belongs to: the account entries
          None       \* no slot

VARIABLES taken,     \* taken[h]: the entry whose slot h holds, or None
          bound      \* bound[s]: how many slots entry s has

ledgerVars == <<taken, bound>>

Used(s) == Cardinality({h \in Holders : taken[h] = s})

LedgerInit ==
  /\ taken = [h \in Holders |-> None]
  /\ bound \in [Slots -> Nat \ {0}]

Take(h, s) ==
  /\ taken[h] = None
  /\ Used(s) < bound[s]
  /\ taken' = [taken EXCEPT ![h] = s]
  /\ UNCHANGED bound

Give(h) ==
  /\ taken[h] # None
  /\ taken' = [taken EXCEPT ![h] = None]
  /\ UNCHANGED bound

Retune ==
  /\ bound' \in [Slots -> Nat \ {0}]
  /\ UNCHANGED taken

LedgerNext ==
  \/ \E h \in Holders, s \in Slots : Take(h, s)
  \/ \E h \in Holders : Give(h)
  \/ Retune

LedgerSpec == LedgerInit /\ [][LedgerNext]_ledgerVars
===============================================================================
