---------------------------- MODULE CreditLedger ----------------------------
(***************************************************************************)
(* The credit tables the Go and the Python backend share, and the database *)
(* transactions the two of them run on them.                               *)
(*                                                                         *)
(*   wallet[u]  the row of credit_wallet of user u, if there is one        *)
(*   txs[u]     the rows of credit_transaction of u, in commit order       *)
(*   price[s]   the row of credit_price of service s, if there is one      *)
(*                                                                         *)
(* A transaction first updates the wallet row and so holds its row lock    *)
(* until it commits: transactions on one wallet are serialised, and each   *)
(* is one atomic step here.  What a caller read before it (the fast-path   *)
(* look-up, the price, the consume row) is a step of its own, in           *)
(* CreditService and Billing.                                              *)
(***************************************************************************)
EXTENDS Integers, Sequences, Functions

CONSTANTS
    Users,       \* user ids
    Keys,        \* client idempotency keys, already validated
    GoSources,   \* services billed by the Go backend (design_generate)
    PySources,   \* services billed by the Python backend (translate, ...)
    Prices       \* unit prices, in li

GrantSources == {"admin_grant", "register_bonus"}
Sources == GoSources \cup PySources

ASSUME SourcesAssumption ==
    /\ GoSources \cap PySources = {}
    /\ Sources \cap GrantSources = {}

ASSUME PricesAssumption == Prices \subseteq Nat

VARIABLES wallet, txs, price

ledgerVars == <<wallet, txs, price>>

-----------------------------------------------------------------------------
(* Keys of rows.  A client may not send a key with a reserved prefix       *)
(* (validateBizID), so the three families never meet.  A client's own key  *)
(* has no prefix; its family is called "own".                              *)

Biz(k)      == <<"own", k>>
RefundOf(k) == <<"refund:", k>>
\* Mutant: a settlement under the key of a refund.
SettleAsRefund(k) == <<"refund:", k>>

SettleOf(k) == <<"settle:", k>>
BizIds      == {"own", "refund:", "settle:"} \X Keys

NoPrice  == -1
NoWallet == [exists |-> FALSE, balance |-> 0, totalSpent |-> 0]

Wallet == [exists : BOOLEAN, balance : Int, totalSpent : Int]

Row == [source : Sources \cup GrantSources, biz : BizIds,
        type : {"consume", "refund", "grant"}, amount : Int, qty : Nat,
        balanceAfter : Int]

LedgerTypeOK ==
    /\ wallet \in [Users -> Wallet]
    /\ txs \in [Users -> Seq(Row)]
    /\ price \in [Sources -> Prices \cup {NoPrice}]

LedgerInit ==
    /\ wallet = [u \in Users |-> NoWallet]
    /\ txs = [u \in Users |-> <<>>]
    /\ price \in [Sources -> Prices \cup {NoPrice}]

-----------------------------------------------------------------------------
(* Reading *)

Rows(u) == {txs[u][i] : i \in DOMAIN txs[u]}

\* FindTransaction, _find_txn: the rows with this idempotency key.
Find(u, s, b) == {t \in Rows(u) : t.source = s /\ t.biz = b}

Taken(u, s, b) == Find(u, s, b) # {}

NewRow(s, b, type, amount, qty) ==
    [source |-> s, biz |-> b, type |-> type, amount |-> amount, qty |-> qty,
     balanceAfter |-> 0]

-----------------------------------------------------------------------------
(* Writing.  Post is what every transaction that commits does: the wallet  *)
(* row is changed, its balance is read back and stored in the new row.     *)

Post(u, row, spent) ==
    LET after == wallet[u].balance + row.amount
    IN  /\ wallet' = [wallet EXCEPT ![u] =
                        [exists     |-> TRUE,
                         balance    |-> after,
                         totalSpent |-> @.totalSpent + spent]]
        /\ txs' = [txs EXCEPT ![u] = Append(@, [row EXCEPT !.balanceAfter = after])]
        /\ UNCHANGED price

\* Mutant: the UPDATE only asks that the wallet is not in debt.
CoversDebtFree(u, cost) == wallet[u].balance >= 0

\* The conditional UPDATE ... WHERE balance >= cost.  A user without a wallet
\* row has balance 0: the row is created and the UPDATE tried once more.
Covers(u, cost) == wallet[u].balance >= cost

\* Mutant: no unique index on (source, user_id, biz_id).
PostsAgain(u, row, spent) == Post(u, row, spent)

\* The insert that meets the unique index writes nothing, and the wallet
\* update is rolled back with it.
Posts(u, row, spent) ==
    /\ ~Taken(u, row.source, row.biz)
    /\ Post(u, row, spent)

Hits(u, row) ==
    /\ Taken(u, row.source, row.biz)
    /\ UNCHANGED ledgerVars

Consume(s, k, cost, qty) == NewRow(s, Biz(k), "consume", -cost, qty)
Refunded(s, k, amount)   == NewRow(s, RefundOf(k), "refund", amount, 0)
Settled(s, k, delta, n)  == NewRow(s, SettleOf(k), "consume", -delta, n)
Granted(s, k, amount)    == NewRow(s, Biz(k), "grant", amount, 0)

\* Mutant: a refund asks for the balance instead of the spending.
RefundNeedsBalance(u, s, amount) ==
    s \in PySources \/ (wallet[u].exists /\ wallet[u].balance >= amount)

\* The UPDATE of a refund on the Go side also wants total_spent >= amount; the
\* Python side creates the wallet if need be and updates it without a guard.
RefundApplies(u, s, amount) ==
    \/ s \in PySources
    \/ wallet[u].exists /\ wallet[u].totalSpent >= amount

\* Mutant: ON CONFLICT DO UPDATE, an empty wallet over a full one.
OverwriteWallet(u) ==
    /\ wallet' = [wallet EXCEPT ![u] = [NoWallet EXCEPT !.exists = TRUE]]
    /\ UNCHANGED <<txs, price>>

\* EnsureCreditWallet, _ensure_wallet: INSERT ... ON CONFLICT DO NOTHING.
EnsureWallet(u) ==
    /\ wallet' = [wallet EXCEPT ![u] = [@ EXCEPT !.exists = TRUE]]
    /\ UNCHANGED <<txs, price>>

\* An operator edits credit_price: a new price, or no price any more.  A
\* request that asks for another variant of s reads another row of the same
\* table, so it too is a request that meets another price.
Reprice(s, p) ==
    /\ p # price[s]
    /\ price' = [price EXCEPT ![s] = p]
    /\ UNCHANGED <<wallet, txs>>

-----------------------------------------------------------------------------
(* Adding up *)

\* What each row of a user spends: a charge and a settlement what they take, a
\* refund less than nothing.
SpentBy(u) ==
    [i \in DOMAIN txs[u] |-> IF txs[u][i].type = "grant" THEN 0 ELSE -txs[u][i].amount]
=============================================================================
