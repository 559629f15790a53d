------------------------------ MODULE KeyedWork ------------------------------
(***************************************************************************)
(* What the indexing queue and its worker promise a producer: one mailbox   *)
(* per key, served in order, one item of a key at a time.  Items of         *)
(* different keys are served in any order.  The whole service may end, and  *)
(* then drops what it holds.                                                *)
(***************************************************************************)
EXTENDS Naturals, Sequences

CONSTANT Keys

VARIABLES
    mailbox,  \* key -> numbers of the items waiting, oldest first
    serving,  \* key -> number of the item being served, 0 for none
    taken,    \* key -> number of items accepted so far
    open      \* the service has not ended

vars == <<mailbox, serving, taken, open>>

Init ==
    /\ mailbox = [k \in Keys |-> <<>>]
    /\ serving = [k \in Keys |-> 0]
    /\ taken = [k \in Keys |-> 0]
    /\ open = TRUE

Submit(k) ==
    /\ open
    /\ taken' = [taken EXCEPT ![k] = @ + 1]
    /\ mailbox' = [mailbox EXCEPT ![k] = Append(@, taken[k] + 1)]
    /\ UNCHANGED <<serving, open>>

Begin(k) ==
    /\ open
    /\ serving[k] = 0
    /\ mailbox[k] # <<>>
    /\ serving' = [serving EXCEPT ![k] = Head(mailbox[k])]
    /\ mailbox' = [mailbox EXCEPT ![k] = Tail(@)]
    /\ UNCHANGED <<taken, open>>

End(k) ==
    /\ open
    /\ serving[k] # 0
    /\ serving' = [serving EXCEPT ![k] = 0]
    /\ UNCHANGED <<mailbox, taken, open>>

Close ==
    /\ open
    /\ open' = FALSE
    /\ mailbox' = [k \in Keys |-> <<>>]
    /\ serving' = [k \in Keys |-> 0]
    /\ UNCHANGED taken

Next ==
    \/ \E k \in Keys : Submit(k) \/ Begin(k) \/ End(k)
    \/ Close

Spec == Init /\ [][Next]_vars
=============================================================================
