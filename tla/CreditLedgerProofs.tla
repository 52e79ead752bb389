-------------------------- MODULE CreditLedgerProofs --------------------------
(* What the operators of CreditLedger do to the tables; the proofs about the *)
(* service and about billed calls rest on it.                                *)
EXTENDS CreditLedger, SetSums

\* Posting appends one row and leaves the other users alone.
LEMMA PostRows ==
    ASSUME NEW u \in Users, NEW row \in Row, NEW spent \in Int,
           LedgerTypeOK, Post(u, row, spent)
    PROVE  LET new == [row EXCEPT !.balanceAfter = wallet[u].balance + row.amount]
           IN  /\ new \in Row
               /\ txs' = [txs EXCEPT ![u] = Append(txs[u], new)]
               /\ Rows(u)' = Rows(u) \cup {new}
               /\ \A v \in Users \ {u} : Rows(v)' = Rows(v)
               /\ LedgerTypeOK'
  <1> DEFINE new == [row EXCEPT !.balanceAfter = wallet[u].balance + row.amount]
  <1>1. wallet[u] \in Wallet /\ wallet[u].balance \in Int /\ wallet[u].totalSpent \in Int
    BY DEF LedgerTypeOK, Wallet
  <1>2. new \in Row
    BY <1>1 DEF Row
  <1>3. txs' = [txs EXCEPT ![u] = Append(txs[u], new)]
    BY DEF Post
  <1>4. txs[u] \in Seq(Row) /\ txs'[u] = Append(txs[u], new)
    BY <1>3 DEF LedgerTypeOK
  <1>5. Rows(u)' = Rows(u) \cup {new}
    <2>1. DOMAIN txs'[u] = 1..(Len(txs[u]) + 1) /\ DOMAIN txs[u] = 1..Len(txs[u])
      BY <1>2, <1>4
    <2>2. \A i \in 1..Len(txs[u]) : txs'[u][i] = txs[u][i]
      BY <1>2, <1>4
    <2>3. txs'[u][Len(txs[u]) + 1] = new
      BY <1>2, <1>4
    <2>4. Len(txs[u]) \in Nat
      BY <1>4
    <2>. QED
      BY <2>1, <2>2, <2>3, <2>4 DEF Rows
  <1>6. \A v \in Users \ {u} : Rows(v)' = Rows(v)
    BY <1>3 DEF Rows, LedgerTypeOK
  <1>7. wallet' \in [Users -> Wallet]
    <2>1. wallet' = [wallet EXCEPT ![u] =
                        [exists |-> TRUE, balance |-> wallet[u].balance + row.amount,
                         totalSpent |-> wallet[u].totalSpent + spent]]
      BY DEF Post
    <2>2. row.amount \in Int
      BY DEF Row
    <2>. QED
      BY <1>1, <2>1, <2>2 DEF LedgerTypeOK, Wallet
  <1>8. txs' \in [Users -> Seq(Row)]
    BY <1>2, <1>3 DEF LedgerTypeOK
  <1>9. LedgerTypeOK'
    BY <1>7, <1>8 DEF LedgerTypeOK, Post
  <1>. QED
    BY <1>2, <1>3, <1>5, <1>6, <1>9

\* The rows the transactions write are rows.
LEMMA RowTypes ==
    ASSUME NEW s \in Sources \cup GrantSources, NEW k \in Keys, NEW a \in Int, NEW q \in Nat
    PROVE  /\ Consume(s, k, a, q) \in Row
           /\ Refunded(s, k, a) \in Row
           /\ Settled(s, k, a, q) \in Row
           /\ Granted(s, k, a) \in Row
  <1>1. Biz(k) \in BizIds /\ RefundOf(k) \in BizIds /\ SettleOf(k) \in BizIds
    BY DEF Biz, RefundOf, SettleOf, BizIds
  <1>2. ASSUME NEW b \in BizIds, NEW type \in {"consume", "refund", "grant"},
               NEW m \in Int, NEW n \in Nat
        PROVE  NewRow(s, b, type, m, n) \in Row
    BY DEF NewRow, Row
  <1>. QED
    BY <1>1, <1>2 DEF Consume, Refunded, Settled, Granted
=============================================================================
