------------------------- MODULE WithdrawalPromise -------------------------
(* What the wallet promises its user, with no status codes, provider calls  *)
(* or admins in it: money is free, held for one withdrawal, or paid out; a  *)
(* held sum is either sent once and then settled, or returned unsent.       *)
(* WalletPayout is shown to implement this specification while payouts are  *)
(* issued one at a time and every provider call is answered.                *)
EXTENDS Integers

CONSTANTS
    Withdrawals,  \* withdrawal requests
    Amounts       \* the sums a credit, an adjustment or a withdrawal can have

VARIABLES
    free,     \* what the user may spend
    paidOut,  \* what has left the wallet
    state,    \* of each withdrawal: "none", "held", "returned" or "paid"
    held,     \* the sum of each withdrawal (0 before it is first held)
    sent      \* the withdrawals whose money reached the user

promiseVars == <<free, paidOut, state, held, sent>>

Init ==
    /\ free = 0
    /\ paidOut = 0
    /\ state = [w \in Withdrawals |-> "none"]
    /\ held = [w \in Withdrawals |-> 0]
    /\ sent = {}

\* Money enters, or an administrator takes free money back.
Deposit(a) ==
    /\ free' = free + a
    /\ UNCHANGED <<paidOut, state, held, sent>>

Debit(a) ==
    /\ free >= a
    /\ free' = free - a
    /\ UNCHANGED <<paidOut, state, held, sent>>

\* A first request fixes the sum; a later round holds the same sum again.
Hold(w, a) ==
    /\ \/ state[w] = "none"
       \/ state[w] = "returned" /\ held[w] = a
    /\ free >= a
    /\ free' = free - a
    /\ state' = [state EXCEPT ![w] = "held"]
    /\ held' = [held EXCEPT ![w] = a]
    /\ UNCHANGED <<paidOut, sent>>

Return(w) ==
    /\ state[w] = "held"
    /\ w \notin sent
    /\ free' = free + held[w]
    /\ state' = [state EXCEPT ![w] = "returned"]
    /\ UNCHANGED <<paidOut, held, sent>>

Send(w) ==
    /\ state[w] = "held"
    /\ w \notin sent
    /\ sent' = sent \cup {w}
    /\ UNCHANGED <<free, paidOut, state, held>>

Settle(w) ==
    /\ state[w] = "held"
    /\ w \in sent
    /\ paidOut' = paidOut + held[w]
    /\ state' = [state EXCEPT ![w] = "paid"]
    /\ UNCHANGED <<free, held, sent>>

Next ==
    \/ \E a \in Amounts : Deposit(a) \/ Debit(a)
    \/ \E w \in Withdrawals :
        \/ \E a \in Amounts : Hold(w, a)
        \/ Return(w)
        \/ Send(w)
        \/ Settle(w)

Spec == Init /\ [][Next]_promiseVars
=============================================================================
