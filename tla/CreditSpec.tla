----------------------------- MODULE CreditSpec -----------------------------
(***************************************************************************)
(* What the credit system promises, with no tables, requests or retries:   *)
(* an account per user, and four sets of entries.  Every action happens at *)
(* most once for a service and a client key, however often it is asked.    *)
(***************************************************************************)
EXTENDS Integers

CONSTANT Users

VARIABLES
    balance,    \* may be negative: only Settle overdraws
    spent,      \* net consumption
    charged, refunded, settled, granted     \* the entries of each user

vars == <<balance, spent, charged, refunded, settled, granted>>

Of(entries, s, k) == {e \in entries : e.service = s /\ e.key = k}

Init ==
    /\ balance  = [u \in Users |-> 0]
    /\ spent    = [u \in Users |-> 0]
    /\ charged  = [u \in Users |-> {}]
    /\ refunded = [u \in Users |-> {}]
    /\ settled  = [u \in Users |-> {}]
    /\ granted  = [u \in Users |-> {}]

Put(entries, u, s, k, a) ==
    [entries EXCEPT ![u] = @ \cup {[service |-> s, key |-> k, amount |-> a]}]

\* A call is charged once per key, and never on credit.
Charge(u, s, k, a) ==
    /\ Of(charged[u], s, k) = {}
    /\ a >= 0 /\ balance[u] >= a
    /\ balance' = [balance EXCEPT ![u] = @ - a]
    /\ spent' = [spent EXCEPT ![u] = @ + a]
    /\ charged' = Put(charged, u, s, k, a)
    /\ UNCHANGED <<refunded, settled, granted>>

\* A charge is given back at most once, and never more than was taken.
Refund(u, s, k, a) ==
    /\ Of(refunded[u], s, k) = {}
    /\ \E e \in Of(charged[u], s, k) : a <= e.amount
    /\ balance' = [balance EXCEPT ![u] = @ + a]
    /\ spent' = [spent EXCEPT ![u] = @ - a]
    /\ refunded' = Put(refunded, u, s, k, a)
    /\ UNCHANGED <<charged, settled, granted>>

\* What a call cost beyond its charge is collected once, into debt if need be.
Settle(u, s, k, a) ==
    /\ Of(settled[u], s, k) = {}
    /\ Of(charged[u], s, k) # {}
    /\ a >= 0
    /\ balance' = [balance EXCEPT ![u] = @ - a]
    /\ spent' = [spent EXCEPT ![u] = @ + a]
    /\ settled' = Put(settled, u, s, k, a)
    /\ UNCHANGED <<charged, refunded, granted>>

Grant(u, c, k, a) ==
    /\ Of(granted[u], c, k) = {}
    /\ a > 0
    /\ balance' = [balance EXCEPT ![u] = @ + a]
    /\ granted' = Put(granted, u, c, k, a)
    /\ UNCHANGED <<spent, charged, refunded, settled>>

\* The amount of a step is that of the entry it adds.
Next ==
    \E u \in Users :
        \/ \E e \in charged'[u]  : Charge(u, e.service, e.key, e.amount)
        \/ \E e \in refunded'[u] : Refund(u, e.service, e.key, e.amount)
        \/ \E e \in settled'[u]  : Settle(u, e.service, e.key, e.amount)
        \/ \E e \in granted'[u]  : Grant(u, e.service, e.key, e.amount)

Spec == Init /\ [][Next]_vars
=============================================================================
