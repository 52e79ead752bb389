------------------------- MODULE CreditServiceProofs -------------------------
(* Theorems about CreditService, for every set of users, keys, services,     *)
(* prices and requests.                                                      *)
EXTENDS CreditService, CreditLedgerProofs

(***************************************************************************)
(* A step of the service does one of six things to the tables; the rest of *)
(* the proof is about these.                                               *)
(***************************************************************************)

\* The user has a consume row for this key, of at least this amount.
Backed(u, s, k, a) ==
    \E t \in Rows(u) : /\ t.source = s /\ t.biz = Biz(k) /\ t.type = "consume"
                       /\ a <= -t.amount

ChargeMove(u, s, k, c, q) == Covers(u, c) /\ Posts(u, Consume(s, k, c, q), c)
RefundMove(u, s, k, a)    == Backed(u, s, k, a) /\ Posts(u, Refunded(s, k, a), -a)
SettleMove(u, s, k, d, n) == Backed(u, s, k, 0) /\ Posts(u, Settled(s, k, d, n), d)
GrantMove(u, s, k, a)     == a > 0 /\ Posts(u, Granted(s, k, a), 0)

Move ==
    \/ UNCHANGED <<wallet, txs>>
    \/ \E u \in Users : EnsureWallet(u)
    \/ \E u \in Users, s \in Sources, k \in Keys :
          \/ \E c, q \in Nat : ChargeMove(u, s, k, c, q)
          \/ \E a \in Nat    : RefundMove(u, s, k, a)
          \/ \E d, n \in Nat : SettleMove(u, s, k, d, n)
    \/ \E u \in Users, s \in GrantSources, k \in Keys, a \in Nat : GrantMove(u, s, k, a)

-----------------------------------------------------------------------------
(* The inductive invariant: what a request in flight still knows, after any *)
(* number of steps of others.                                              *)

Charging  == {"find", "price", "debit", "hitcharge"}
Refunding == {"refound", "credit"}
Settling  == {"settlefound", "settle"}
Granting  == {"grantfound", "grant", "hitgrant"}
OfService == {"find", "price", "debit", "hitcharge", "consume", "refound", "credit",
              "hitrefund", "settleconsume", "settlefound", "settle", "hitsettle"}

\* The row it saw is a charge of its key, and still there.
Holds(r) ==
    /\ seen[r] \in Rows(arg[r].user)
    /\ seen[r].source = arg[r].source
    /\ seen[r].biz = Biz(arg[r].key)
    /\ seen[r].type = "consume"

RequestOK(r) ==
    /\ pc[r] \in OfService => arg[r].source \in Sources
    /\ pc[r] \in Granting => arg[r].source \in GrantSources /\ arg[r].amount > 0
    /\ pc[r] = "debit" => amt[r] >= 0
    /\ pc[r] = "grant" => amt[r] > 0
    /\ pc[r] \in Refunding => Holds(r) /\ amt[r] >= 0 /\ amt[r] <= -seen[r].amount
    /\ pc[r] \in Settling => /\ Holds(r) /\ amt[r] >= 0
                             /\ Actual(arg[r].qty) - PreQty(seen[r]) \in Nat

\* Charges are rows that take.
ChargesTake ==
    \A u \in Users : \A t \in Rows(u) : t.type = "consume" => t.amount <= 0

IInv ==
    /\ TypeOK
    /\ ChargesTake
    /\ \A r \in Reqs : RequestOK(r)

-----------------------------------------------------------------------------
(* What the service does to the tables *)

\* Every step of a request, and every change of a price, is a move.
LEMMA StepIsMove == IInv /\ [Next]_vars => Move
  <1> SUFFICES ASSUME IInv, [Next]_vars PROVE Move
    OBVIOUS
  <1> USE DEF IInv
  <1>1. ASSUME NEW r \in Reqs PROVE /\ arg[r] \in Asked /\ arg[r] \in Arg
                                    /\ arg[r].user \in Users /\ arg[r].key \in Keys
                                    /\ arg[r].qty \in Nat /\ arg[r].amount \in Nat
                                    /\ amt[r] \in Int
    BY AskedAssumption DEF TypeOK, Arg
  <1>2. CASE UNCHANGED vars
    BY <1>2 DEF vars, Move
  <1>3. CASE \E s \in Sources, p \in Prices \cup {NoPrice} : Reprice(s, p)
    BY <1>3 DEF Reprice, Move
  <1>4. ASSUME NEW r \in Reqs, (\E a \in Asked : Call(r, a)) \/ Fail(r)
        PROVE  Move
    BY <1>4 DEF Call, Fail, ledgerVars, Move
  <1>5. ASSUME NEW r \in Reqs, Step(r) PROVE Move
    <2>1. CASE FindCharge(r) \/ UnitPrice(r) \/ FindConsume(r) \/ FindRefund(r) \/ SettleFind(r)
               \/ FindSettle(r) \/ FindGrant(r) \/ ReadWallet(r)
      BY <2>1 DEF FindCharge, UnitPrice, FindConsume, FindRefund, SettleFind, FindSettle,
                  FindGrant, ReadWallet, ledgerVars, Move
    <2>2. CASE \E step \in Steps, b \in BizIds : Resolve(r, step, b)
      BY <2>2 DEF Resolve, ledgerVars, Move
    <2>3. CASE CreateWallet(r)
      BY <1>1, <2>3 DEF CreateWallet, Move
    <2>4. CASE Debit(r)
      <3>1. arg[r].source \in Sources /\ amt[r] \in Nat
        BY <1>1, <2>4 DEF Debit, RequestOK, OfService
      <3>2. \/ UNCHANGED <<wallet, txs>>
            \/ ChargeMove(arg[r].user, arg[r].source, arg[r].key, amt[r], arg[r].qty)
        BY <2>4 DEF Debit, Transact, Hits, ledgerVars, ChargeMove
      <3>. QED
        BY <1>1, <3>1, <3>2 DEF Move
    <2>5. CASE Credit(r)
      <3>1. arg[r].source \in Sources /\ amt[r] \in Nat
        BY <1>1, <2>5 DEF Credit, RequestOK, OfService, Refunding
      <3>2. Backed(arg[r].user, arg[r].source, arg[r].key, amt[r])
        BY <2>5 DEF Credit, RequestOK, Refunding, Holds, Backed
      <3>3. \/ UNCHANGED <<wallet, txs>>
            \/ RefundMove(arg[r].user, arg[r].source, arg[r].key, amt[r])
        BY <2>5, <3>2 DEF Credit, Transact, Hits, ledgerVars, RefundMove
      <3>. QED
        BY <1>1, <3>1, <3>3 DEF Move
    <2>6. CASE SettleDelta(r)
      <3> DEFINE n == Actual(arg[r].qty) - PreQty(seen[r])
      <3>1. arg[r].source \in Sources /\ amt[r] \in Nat /\ n \in Nat
        BY <1>1, <2>6 DEF SettleDelta, RequestOK, OfService, Settling
      <3>2. Backed(arg[r].user, arg[r].source, arg[r].key, 0)
        <4>1. Holds(r)
          BY <2>6 DEF SettleDelta, RequestOK, Settling
        <4>2. seen[r].amount <= 0 /\ seen[r].amount \in Int
          <5>1. seen[r] \in Rows(arg[r].user) /\ seen[r].type = "consume"
            BY <4>1 DEF Holds
          <5>2. seen[r] \in Row
            BY <1>1, <5>1 DEF Rows, TypeOK, LedgerTypeOK
          <5>. QED
            BY <1>1, <5>1, <5>2 DEF ChargesTake, Row
        <4>. QED
          BY <4>1, <4>2 DEF Holds, Backed
      <3>3. \/ UNCHANGED <<wallet, txs>>
            \/ SettleMove(arg[r].user, arg[r].source, arg[r].key, amt[r], n)
        BY <2>6, <3>2 DEF SettleDelta, Transact, Hits, ledgerVars, SettleMove
      <3>. QED
        BY <1>1, <3>1, <3>3 DEF Move
    <2>7. CASE Grant(r)
      <3>1. arg[r].source \in GrantSources /\ amt[r] \in Nat /\ amt[r] > 0
        BY <1>1, <2>7 DEF Grant, RequestOK, Granting
      <3>2. \/ UNCHANGED <<wallet, txs>>
            \/ GrantMove(arg[r].user, arg[r].source, arg[r].key, amt[r])
        BY <2>7, <3>1 DEF Grant, Transact, Hits, ledgerVars, GrantMove
      <3>. QED
        BY <1>1, <3>1, <3>2 DEF Move
    <2>8. \A k \in Keys : Biz(k) \in BizIds /\ RefundOf(k) \in BizIds /\ SettleOf(k) \in BizIds
      BY DEF Biz, RefundOf, SettleOf, BizIds
    <2>. QED
      BY <1>1, <1>5, <2>1, <2>2, <2>3, <2>4, <2>5, <2>6, <2>7, <2>8 DEF Step, Steps
  <1>. QED
    BY <1>2, <1>3, <1>4, <1>5 DEF Next

\* What a row spends.
SpentOn(row) == IF row.type = "grant" THEN 0 ELSE -row.amount

\* A move that writes a row, whichever it is: the row is well typed, takes if
\* it is a charge, and is posted together with what it spends.
LEMMA MovePosts ==
    ASSUME LedgerTypeOK, Move
    PROVE  \/ UNCHANGED <<wallet, txs>>
           \/ \E u \in Users : EnsureWallet(u)
           \/ \E u \in Users, row \in Row, spent \in Int :
                 /\ Posts(u, row, spent)
                 /\ row.type = "consume" => row.amount <= 0
                 /\ spent = SpentOn(row)
  <1>1. ASSUME NEW u \in Users, NEW s \in Sources, NEW k \in Keys, NEW c \in Nat, NEW q \in Nat,
               ChargeMove(u, s, k, c, q)
        PROVE  \E row \in Row, spent \in Int :
                  /\ Posts(u, row, spent) /\ spent = SpentOn(row)
                  /\ row.type = "consume" => row.amount <= 0
    <2>1. Consume(s, k, c, q) \in Row
      BY RowTypes
    <2>2. Consume(s, k, c, q).amount <= 0 /\ SpentOn(Consume(s, k, c, q)) = c
      BY DEF Consume, NewRow, SpentOn
    <2>. QED
      BY <1>1, <2>1, <2>2 DEF ChargeMove
  <1>2. ASSUME NEW u \in Users, NEW s \in Sources, NEW k \in Keys, NEW a \in Int,
               RefundMove(u, s, k, a)
        PROVE  \E row \in Row, spent \in Int :
                  /\ Posts(u, row, spent) /\ spent = SpentOn(row)
                  /\ row.type = "consume" => row.amount <= 0
    <2>1. Refunded(s, k, a) \in Row
      BY RowTypes
    <2>2. Refunded(s, k, a).type # "consume" /\ SpentOn(Refunded(s, k, a)) = -a
      BY DEF Refunded, NewRow, SpentOn
    <2>3. -a \in Int
      OBVIOUS
    <2>. QED
      BY <1>2, <2>1, <2>2, <2>3 DEF RefundMove
  <1>3. ASSUME NEW u \in Users, NEW s \in Sources, NEW k \in Keys, NEW d \in Nat, NEW n \in Nat,
               SettleMove(u, s, k, d, n)
        PROVE  \E row \in Row, spent \in Int :
                  /\ Posts(u, row, spent) /\ spent = SpentOn(row)
                  /\ row.type = "consume" => row.amount <= 0
    <2>1. Settled(s, k, d, n) \in Row
      BY RowTypes
    <2>2. Settled(s, k, d, n).amount <= 0 /\ SpentOn(Settled(s, k, d, n)) = d
      BY DEF Settled, NewRow, SpentOn
    <2>. QED
      BY <1>3, <2>1, <2>2 DEF SettleMove
  <1>4. ASSUME NEW u \in Users, NEW s \in GrantSources, NEW k \in Keys, NEW a \in Nat,
               GrantMove(u, s, k, a)
        PROVE  \E row \in Row, spent \in Int :
                  /\ Posts(u, row, spent) /\ spent = SpentOn(row)
                  /\ row.type = "consume" => row.amount <= 0
    <2>1. Granted(s, k, a) \in Row
      BY RowTypes
    <2>2. Granted(s, k, a).type # "consume" /\ SpentOn(Granted(s, k, a)) = 0
      BY DEF Granted, NewRow, SpentOn
    <2>. QED
      BY <1>4, <2>1, <2>2 DEF GrantMove
  <1>. QED
    BY <1>1, <1>2, <1>3, <1>4 DEF Move

\* Rows are never lost, and a charge takes.
LEMMA MoveKeeps ==
    ASSUME LedgerTypeOK, Move, ChargesTake
    PROVE  /\ wallet' \in [Users -> Wallet] /\ txs' \in [Users -> Seq(Row)]
           /\ \A u \in Users : Rows(u) \subseteq Rows(u)'
           /\ ChargesTake'
  <1>1. CASE UNCHANGED <<wallet, txs>>
    BY <1>1 DEF LedgerTypeOK, Rows, ChargesTake
  <1>2. CASE \E u \in Users : EnsureWallet(u)
    <2>1. wallet' \in [Users -> Wallet]
      BY <1>2 DEF EnsureWallet, LedgerTypeOK, Wallet
    <2>. QED
      BY <1>2, <2>1 DEF EnsureWallet, LedgerTypeOK, Rows, ChargesTake
  <1>3. ASSUME NEW u \in Users, NEW row \in Row, NEW spent \in Int,
               Posts(u, row, spent), row.type = "consume" => row.amount <= 0
        PROVE  /\ wallet' \in [Users -> Wallet] /\ txs' \in [Users -> Seq(Row)]
               /\ \A v \in Users : Rows(v) \subseteq Rows(v)'
               /\ ChargesTake'
    <2> DEFINE new == [row EXCEPT !.balanceAfter = wallet[u].balance + row.amount]
    <2>1. /\ Rows(u)' = Rows(u) \cup {new}
          /\ \A v \in Users \ {u} : Rows(v)' = Rows(v)
          /\ LedgerTypeOK'
      BY <1>3, PostRows DEF Posts
    <2>2. new.type = row.type /\ new.amount = row.amount
      BY DEF Row
    <2>. QED
      BY <1>3, <2>1, <2>2 DEF LedgerTypeOK, ChargesTake
  <1>. QED
    BY <1>1, <1>2, <1>3, MovePosts

-----------------------------------------------------------------------------
(* The invariant *)

LEMMA InitIInv == Init => IInv
  <1> SUFFICES ASSUME Init PROVE IInv
    OBVIOUS
  <1>1. LedgerTypeOK
    BY DEF Init, LedgerInit, LedgerTypeOK, Wallet, NoWallet
  <1>2. TypeOK
    <2>1. (CHOOSE a \in Asked : TRUE) \in Asked
      BY AskedAssumption
    <2>. QED
      BY <1>1, <2>1 DEF Init, TypeOK, Steps, Results
  <1>3. ChargesTake
    BY DEF Init, LedgerInit, ChargesTake, Rows
  <1>. QED
    BY <1>2, <1>3 DEF IInv, Init, RequestOK, OfService, Granting, Refunding, Settling

\* The part of TypeOK that is about requests.
ReqTypeOK ==
    /\ pc \in [Reqs -> Steps]
    /\ arg \in [Reqs -> Asked]
    /\ seen \in [Reqs -> Row \cup {NoRow}]
    /\ amt \in [Reqs -> Int]
    /\ res \in [Reqs -> Results]
    /\ late \in [Reqs -> BOOLEAN]

\* Another request than r is where it was.
Others(r) ==
    \A q \in Reqs \ {r} : /\ pc'[q] = pc[q] /\ arg'[q] = arg[q]
                          /\ seen'[q] = seen[q] /\ amt'[q] = amt[q]

LEMMA AnswerOK ==
    ASSUME ReqTypeOK, NEW r \in Reqs, NEW result \in Results, NEW row \in Row \cup {NoRow},
           Answer(r, result, row)
    PROVE  ReqTypeOK' /\ Others(r) /\ RequestOK(r)'
  <1>1. ReqTypeOK' /\ Others(r) /\ pc'[r] = "done"
    BY DEF Answer, Goto, ReqTypeOK, Others, Steps
  <1>. QED
    BY <1>1 DEF RequestOK, OfService, Granting, Refunding, Settling

LEMMA ContinueOK ==
    ASSUME ReqTypeOK, NEW r \in Reqs, NEW step \in Steps, NEW row \in Row \cup {NoRow},
           NEW amount \in Int, Continue(r, step, row, amount)
    PROVE  /\ ReqTypeOK' /\ Others(r)
           /\ pc'[r] = step /\ seen'[r] = row /\ amt'[r] = amount /\ arg'[r] = arg[r]
  BY DEF Continue, Goto, ReqTypeOK, Others

\* What a request knows stays true while others move.
LEMMA OthersOK ==
    ASSUME ReqTypeOK, NEW q \in Reqs, RequestOK(q),
           pc'[q] = pc[q], arg'[q] = arg[q], seen'[q] = seen[q], amt'[q] = amt[q],
           arg[q].user \in Users, \A u \in Users : Rows(u) \subseteq Rows(u)'
    PROVE  RequestOK(q)'
  BY DEF RequestOK, Holds, Refunding, Settling, OfService, Granting

\* The amount of a settlement.
LEMMA UnitNat ==
    ASSUME NEW t \in Row, t.amount <= 0, NEW n \in Nat
    PROVE  Unit(t) * n \in Nat
  <1>1. PreQty(t) \in Nat \ {0} /\ -t.amount \in Nat
    BY DEF PreQty, Row
  <1>2. \A m \in Nat, d \in Nat \ {0} : m \div d \in Nat
    OBVIOUS
  <1>3. Unit(t) \in Nat
    BY <1>1, <1>2 DEF Unit
  <1>4. \A x, y \in Nat : x * y \in Nat
    OBVIOUS
  <1>. QED
    BY <1>3, <1>4

\* What a step must do to the requests for the invariant to survive it.
Kept(r) == ReqTypeOK' /\ Others(r) /\ RequestOK(r)' /\ price' = price

LEMMA TransactOK ==
    ASSUME LedgerTypeOK, ReqTypeOK, NEW r \in Reqs, arg[r].user \in Users,
           NEW row \in Row, NEW spent \in Int,
           NEW hit \in {"hitcharge", "hitrefund", "hitsettle", "hitgrant"},
           hit = "hitgrant" => arg[r].source \in GrantSources /\ arg[r].amount > 0,
           hit # "hitgrant" => arg[r].source \in Sources,
           Transact(r, row, spent, hit)
    PROVE  Kept(r)
  <1>1. CASE Posts(arg[r].user, row, spent)
             /\ \E result \in {"created", "error"} :
                  Answer(r, result, txs'[arg[r].user][Len(txs'[arg[r].user])])
    <2> DEFINE u == arg[r].user
               new == [row EXCEPT !.balanceAfter = wallet[u].balance + row.amount]
    <2>1. new \in Row /\ txs' = [txs EXCEPT ![u] = Append(txs[u], new)]
      BY <1>1, PostRows DEF Posts
    <2>2. txs[u] \in Seq(Row) /\ txs'[u] = Append(txs[u], new)
      BY <2>1 DEF LedgerTypeOK
    <2>3. txs'[u][Len(txs'[u])] = new
      <3> HIDE DEF new
      <3>. QED
        BY <2>1, <2>2
    <2>. QED
      BY <1>1, <2>1, <2>3, AnswerOK DEF Posts, Post, Kept, Results
  <1>2. CASE Hits(arg[r].user, row) /\ Continue(r, hit, seen[r], amt[r])
    <2>1. seen[r] \in Row \cup {NoRow} /\ amt[r] \in Int /\ hit \in Steps
      BY DEF ReqTypeOK, Steps
    <2>2. ReqTypeOK' /\ Others(r) /\ pc'[r] = hit /\ arg'[r] = arg[r]
      BY <1>2, <2>1, ContinueOK
    <2>. QED
      BY <1>2, <2>2 DEF Kept, Hits, ledgerVars, RequestOK, OfService, Granting, Refunding, Settling
  <1>. QED
    BY <1>1, <1>2 DEF Transact

LEMMA StepKeeps ==
    ASSUME IInv, NEW r \in Reqs, Step(r) PROVE Kept(r)
  <1> USE DEF IInv
  <1>1. /\ LedgerTypeOK /\ ReqTypeOK /\ RequestOK(r)
        /\ arg[r] \in Arg /\ Valid(arg[r])
        /\ arg[r].user \in Users /\ arg[r].key \in Keys
        /\ arg[r].source \in Sources \cup GrantSources
        /\ arg[r].qty \in Nat /\ arg[r].amount \in Nat
        /\ amt[r] \in Int /\ seen[r] \in Row \cup {NoRow}
    BY AskedAssumption DEF TypeOK, ReqTypeOK, Arg
  <1>2. \A b, s : Find(arg[r].user, s, b) \subseteq Row
    BY <1>1 DEF Find, Rows, LedgerTypeOK
  <1>3. NoRow \in Row \cup {NoRow} /\ 0 \in Int /\ \A x \in Int : -x \in Int
    OBVIOUS
  <1>4. ASSUME NEW t \in ConsumeRows(r)
        PROVE  /\ t \in Row /\ t.amount \in Int /\ t.amount <= 0
               /\ t \in Rows(arg[r].user) /\ t.source = arg[r].source
               /\ t.biz = Biz(arg[r].key) /\ t.type = "consume"
    <2>1. t \in Rows(arg[r].user) /\ t \in Row
      BY <1>2, <1>4 DEF ConsumeRows, Find
    <2>. QED
      BY <1>1, <1>4, <2>1 DEF ConsumeRows, Find, ChargesTake, Row
  <1>5. ASSUME NEW wanted \in Nat, arg[r].source \in Sources, RefundFrom(r, wanted),
               UNCHANGED ledgerVars
        PROVE  Kept(r)
    <2>1. CASE Answer(r, "notfound", NoRow) \/ Answer(r, "invalid", NoRow)
      BY <1>1, <1>5, <2>1, AnswerOK DEF Kept, Results, ledgerVars
    <2>2. ASSUME NEW t \in ConsumeRows(r), NEW step \in {"refound", "credit"}, NEW amount \in Nat,
                 amount <= -t.amount, Continue(r, step, t, amount)
          PROVE  Kept(r)
      <3>1. step \in Steps /\ t \in Row \cup {NoRow}
        BY <1>4, <2>2 DEF Steps
      <3>2. /\ ReqTypeOK' /\ Others(r)
            /\ pc'[r] = step /\ seen'[r] = t /\ amt'[r] = amount /\ arg'[r] = arg[r]
        BY <1>1, <2>2, <3>1, ContinueOK
      <3>3. Rows(arg[r].user)' = Rows(arg[r].user)
        BY <1>5, <3>2 DEF Rows, ledgerVars
      <3>. QED
        BY <1>4, <1>5, <2>2, <3>2, <3>3
           DEF Kept, ledgerVars, RequestOK, Holds, OfService, Granting, Refunding, Settling
    <2>. QED
      BY <1>4, <1>5, <2>1, <2>2 DEF RefundFrom
  <1>6. ASSUME NEW step \in Steps, NEW b \in BizIds, Resolve(r, step, b) PROVE Kept(r)
    BY <1>1, <1>2, <1>6, AnswerOK DEF Resolve, Kept, Results, ledgerVars
  <1>7. CASE FindCharge(r)
    <2>1. CASE \E t \in Find(arg[r].user, arg[r].source, Biz(arg[r].key)) : Answer(r, "existing", t)
      BY <1>1, <1>2, <1>7, <2>1, AnswerOK DEF FindCharge, Kept, Results, ledgerVars
    <2>2. CASE Continue(r, "price", NoRow, 0)
      BY <1>1, <1>3, <1>7, <2>2, ContinueOK
         DEF FindCharge, Kept, Steps, ledgerVars, RequestOK, OfService, Granting, Refunding, Settling
    <2>. QED
      BY <1>7, <2>1, <2>2 DEF FindCharge
  <1>8. CASE UnitPrice(r)
    <2>1. CASE Answer(r, "noprice", NoRow)
      BY <1>1, <1>3, <1>8, <2>1, AnswerOK DEF UnitPrice, Kept, Results, ledgerVars
    <2>2. CASE /\ price[arg[r].source] # NoPrice
               /\ Continue(r, "debit", NoRow, price[arg[r].source] * arg[r].qty)
      <3>1. arg[r].source \in Sources
        BY <1>1, <1>8 DEF UnitPrice, RequestOK, OfService
      <3>2. price[arg[r].source] \in Nat
        BY <1>1, <2>2, <3>1, PricesAssumption DEF LedgerTypeOK
      <3>3. price[arg[r].source] * arg[r].qty \in Nat
        <4>1. \A x, y \in Nat : x * y \in Nat
          OBVIOUS
        <4>. QED
          BY <1>1, <3>2, <4>1
      <3>4. \A cost \in Nat : Continue(r, "debit", NoRow, cost) => Kept(r)
        <4> SUFFICES ASSUME NEW cost \in Nat, Continue(r, "debit", NoRow, cost) PROVE Kept(r)
          OBVIOUS
        <4>1. cost \in Int /\ "debit" \in Steps
          BY DEF Steps
        <4>2. /\ ReqTypeOK' /\ Others(r) /\ pc'[r] = "debit" /\ amt'[r] = cost
              /\ arg'[r] = arg[r]
          BY <1>1, <1>3, <4>1, ContinueOK
        <4>. QED
          BY <1>8, <3>1, <4>2
             DEF UnitPrice, Kept, ledgerVars, RequestOK, OfService, Granting, Refunding, Settling
      <3>. QED
        BY <2>2, <3>3, <3>4
    <2>. QED
      BY <1>8, <2>1, <2>2 DEF UnitPrice
  <1>9. CASE Debit(r)
    <2>1. arg[r].source \in Sources /\ amt[r] \in Nat
      BY <1>1, <1>9 DEF Debit, RequestOK, OfService
    <2>2. Consume(arg[r].source, arg[r].key, amt[r], arg[r].qty) \in Row
      BY <1>1, RowTypes
    <2>. QED
      BY <1>1, <1>3, <1>9, <2>1, <2>2, AnswerOK, TransactOK DEF Debit, Kept, Results, ledgerVars
  <1>10. CASE FindConsume(r)
    <2>1. arg[r].source \in Sources
      BY <1>1, <1>10 DEF FindConsume, RequestOK, OfService
    <2>. QED
      BY <1>1, <1>5, <1>10, <2>1 DEF FindConsume
  <1>11. CASE FindRefund(r)
    <2>1. CASE \E t \in Find(arg[r].user, arg[r].source, RefundOf(arg[r].key)) : Answer(r, "existing", t)
      BY <1>1, <1>2, <1>11, <2>1, AnswerOK DEF FindRefund, Kept, Results, ledgerVars
    <2>2. CASE Continue(r, "credit", seen[r], amt[r])
      <3>1. "credit" \in Steps
        BY DEF Steps
      <3>2. /\ ReqTypeOK' /\ Others(r) /\ pc'[r] = "credit" /\ seen'[r] = seen[r]
            /\ amt'[r] = amt[r] /\ arg'[r] = arg[r]
        BY <1>1, <2>2, <3>1, ContinueOK
      <3>3. Rows(arg[r].user)' = Rows(arg[r].user) /\ price' = price
        BY <1>11, <3>2 DEF FindRefund, Rows, ledgerVars
      <3>4. Holds(r) /\ amt[r] >= 0 /\ amt[r] <= -seen[r].amount /\ arg[r].source \in Sources
        BY <1>1, <1>11 DEF FindRefund, RequestOK, OfService, Refunding
      <3>. QED
        BY <3>2, <3>3, <3>4 DEF Kept, RequestOK, Holds, OfService, Granting, Refunding, Settling
    <2>. QED
      BY <1>11, <2>1, <2>2 DEF FindRefund
  <1>12. CASE Credit(r)
    <2>1. arg[r].source \in Sources
      BY <1>1, <1>12 DEF Credit, RequestOK, OfService
    <2>2. Refunded(arg[r].source, arg[r].key, amt[r]) \in Row /\ -amt[r] \in Int
      BY <1>1, <1>3, RowTypes
    <2>. QED
      BY <1>1, <1>3, <1>12, <2>1, <2>2, AnswerOK, TransactOK DEF Credit, Kept, Results, ledgerVars
  <1>13. CASE SettleFind(r)
    <2>1. arg[r].source \in Sources
      BY <1>1, <1>13 DEF SettleFind, RequestOK, OfService
    <2>2. CASE Answer(r, "notfound", NoRow)
      BY <1>1, <1>3, <1>13, <2>2, AnswerOK DEF SettleFind, Kept, Results, ledgerVars
    <2>3. ASSUME NEW t \in ConsumeRows(r),
                 LET extra == Actual(arg[r].qty) - PreQty(t)
                 IN  \/ extra = 0 /\ Answer(r, "noop", t)
                     \/ extra < 0 /\ RefundFrom(r, Unit(t) * (-extra))
                     \/ extra > 0 /\ Continue(r, "settlefound", t, Unit(t) * extra)
          PROVE  Kept(r)
      <3> DEFINE extra == Actual(arg[r].qty) - PreQty(t)
      <3>1. extra \in Int
        BY <1>1, <1>4 DEF Actual, PreQty, Row
      <3>2. CASE Answer(r, "noop", t)
        BY <1>1, <1>4, <1>13, <3>2, AnswerOK DEF SettleFind, Kept, Results, ledgerVars
      <3>3. CASE extra < 0 /\ RefundFrom(r, Unit(t) * (-extra))
        <4>1. Unit(t) * (-extra) \in Nat
          BY <1>4, <3>1, <3>3, UnitNat
        <4>. QED
          BY <1>5, <1>13, <2>1, <3>3, <4>1 DEF SettleFind
      <3>4. CASE extra > 0 /\ Continue(r, "settlefound", t, Unit(t) * extra)
        <4>1. Unit(t) * extra \in Nat
          BY <1>4, <3>1, <3>4, UnitNat
        <4>2. "settlefound" \in Steps
          BY DEF Steps
        <4>3. /\ ReqTypeOK' /\ Others(r) /\ pc'[r] = "settlefound" /\ seen'[r] = t
              /\ amt'[r] = Unit(t) * extra /\ arg'[r] = arg[r]
          BY <1>1, <1>4, <3>4, <4>1, <4>2, ContinueOK
        <4>4. Rows(arg[r].user)' = Rows(arg[r].user) /\ price' = price
          BY <1>13, <4>3 DEF SettleFind, Rows, ledgerVars
        <4>. QED
          BY <1>4, <2>1, <3>1, <3>4, <4>1, <4>3, <4>4
             DEF Kept, RequestOK, Holds, OfService, Granting, Refunding, Settling
      <3>. QED
        BY <2>3, <3>2, <3>3, <3>4
    <2>. QED
      BY <1>13, <2>2, <2>3 DEF SettleFind
  <1>14. CASE FindSettle(r)
    <2>1. CASE \E t \in Find(arg[r].user, arg[r].source, SettleOf(arg[r].key)) : Answer(r, "existing", t)
      BY <1>1, <1>2, <1>14, <2>1, AnswerOK DEF FindSettle, Kept, Results, ledgerVars
    <2>2. CASE Continue(r, "settle", seen[r], amt[r])
      <3>1. "settle" \in Steps
        BY DEF Steps
      <3>2. /\ ReqTypeOK' /\ Others(r) /\ pc'[r] = "settle" /\ seen'[r] = seen[r]
            /\ amt'[r] = amt[r] /\ arg'[r] = arg[r]
        BY <1>1, <2>2, <3>1, ContinueOK
      <3>3. Rows(arg[r].user)' = Rows(arg[r].user) /\ price' = price
        BY <1>14, <3>2 DEF FindSettle, Rows, ledgerVars
      <3>4. /\ Holds(r) /\ amt[r] >= 0 /\ arg[r].source \in Sources
            /\ Actual(arg[r].qty) - PreQty(seen[r]) \in Nat
        BY <1>1, <1>14 DEF FindSettle, RequestOK, OfService, Settling
      <3>. QED
        BY <3>2, <3>3, <3>4 DEF Kept, RequestOK, Holds, OfService, Granting, Refunding, Settling
    <2>. QED
      BY <1>14, <2>1, <2>2 DEF FindSettle
  <1>15. CASE SettleDelta(r)
    <2> DEFINE n == Actual(arg[r].qty) - PreQty(seen[r])
    <2>1. arg[r].source \in Sources /\ n \in Nat
      BY <1>1, <1>15 DEF SettleDelta, RequestOK, OfService, Settling
    <2>2. Settled(arg[r].source, arg[r].key, amt[r], n) \in Row
      BY <1>1, <2>1, RowTypes
    <2>. QED
      BY <1>1, <1>3, <1>15, <2>1, <2>2, AnswerOK, TransactOK DEF SettleDelta, Kept, Results, ledgerVars
  <1>16. CASE FindGrant(r)
    <2>1. CASE \E t \in Find(arg[r].user, arg[r].source, Biz(arg[r].key)) : Answer(r, "existing", t)
      BY <1>1, <1>2, <1>16, <2>1, AnswerOK DEF FindGrant, Kept, Results, ledgerVars
    <2>2. CASE Continue(r, "grant", NoRow, arg[r].amount)
      BY <1>1, <1>3, <1>16, <2>2, ContinueOK
         DEF FindGrant, Kept, Steps, ledgerVars, RequestOK, OfService, Granting, Refunding, Settling
    <2>. QED
      BY <1>16, <2>1, <2>2 DEF FindGrant
  <1>17. CASE Grant(r)
    <2>1. arg[r].source \in GrantSources /\ arg[r].amount > 0
      BY <1>1, <1>17 DEF Grant, RequestOK, Granting
    <2>2. Granted(arg[r].source, arg[r].key, amt[r]) \in Row
      BY <1>1, RowTypes
    <2>. QED
      BY <1>1, <1>17, <2>1, <2>2, TransactOK DEF Grant
  <1>18. CASE ReadWallet(r)
    BY <1>1, <1>3, <1>18, AnswerOK, ContinueOK
       DEF ReadWallet, Kept, Steps, Results, ledgerVars, RequestOK, OfService, Granting, Refunding,
           Settling
  <1>19. CASE CreateWallet(r)
    BY <1>1, <1>3, <1>19, AnswerOK DEF CreateWallet, EnsureWallet, Kept, Results
  <1>20. \A k \in Keys : Biz(k) \in BizIds /\ RefundOf(k) \in BizIds /\ SettleOf(k) \in BizIds
    BY DEF Biz, RefundOf, SettleOf, BizIds
  <1>. QED
    BY <1>1, <1>6, <1>7, <1>8, <1>9, <1>10, <1>11, <1>12, <1>13, <1>14, <1>15, <1>16, <1>17,
       <1>18, <1>19, <1>20 DEF Step, Steps

LEMMA NextIInv == IInv /\ [Next]_vars => IInv'
  <1> SUFFICES ASSUME IInv, [Next]_vars PROVE IInv'
    OBVIOUS
  <1> USE DEF IInv
  <1>1. LedgerTypeOK /\ ReqTypeOK /\ ChargesTake
    BY DEF TypeOK, ReqTypeOK
  <1>2. /\ wallet' \in [Users -> Wallet] /\ txs' \in [Users -> Seq(Row)]
        /\ \A u \in Users : Rows(u) \subseteq Rows(u)'
        /\ ChargesTake'
    BY <1>1, StepIsMove, MoveKeeps
  <1>3. ASSUME NEW q \in Reqs PROVE arg[q].user \in Users
    BY <1>1, AskedAssumption DEF ReqTypeOK, Arg
  <1>4. ASSUME ReqTypeOK', price' \in [Sources -> Prices \cup {NoPrice}],
               \A q \in Reqs : RequestOK(q)'
        PROVE  IInv'
    BY <1>2, <1>4 DEF TypeOK, LedgerTypeOK, ReqTypeOK
  <1>5. ASSUME NEW r \in Reqs, Kept(r) PROVE IInv'
    <2>1. \A q \in Reqs \ {r} : RequestOK(q)'
      BY <1>1, <1>2, <1>3, <1>5, OthersOK DEF Kept, Others
    <2>2. price' \in [Sources -> Prices \cup {NoPrice}]
      BY <1>1, <1>5 DEF Kept, LedgerTypeOK
    <2>. QED
      BY <1>4, <1>5, <2>1, <2>2 DEF Kept
  <1>6. ASSUME UNCHANGED reqVars, price' \in [Sources -> Prices \cup {NoPrice}]
        PROVE  IInv'
    <2>1. \A q \in Reqs : RequestOK(q)'
      BY <1>1, <1>2, <1>3, <1>6, OthersOK DEF reqVars
    <2>2. ReqTypeOK'
      BY <1>1, <1>6 DEF ReqTypeOK, reqVars
    <2>. QED
      BY <1>4, <1>6, <2>1, <2>2
  <1>7. CASE UNCHANGED vars
    BY <1>1, <1>6, <1>7 DEF vars, reqVars, LedgerTypeOK
  <1>8. ASSUME NEW s \in Sources, NEW p \in Prices \cup {NoPrice}, Reprice(s, p),
               UNCHANGED reqVars
        PROVE  IInv'
    BY <1>1, <1>6, <1>8 DEF Reprice, LedgerTypeOK
  <1>9. ASSUME NEW r \in Reqs, NEW a \in Asked, Call(r, a) PROVE IInv'
    <2>1. Entry(a) \in {"find", "price", "consume", "settleconsume", "wallet", "grantfound"}
      BY DEF Entry
    <2>2. ReqTypeOK' /\ Others(r) /\ pc'[r] = Entry(a) /\ arg'[r] = a
      BY <1>1, <1>9, <2>1 DEF Call, Goto, Taken, ReqTypeOK, Others, Steps
    <2>3. a \in Arg /\ Valid(a)
      BY AskedAssumption
    <2>4. Entry(a) \in OfService => a.source \in Sources
      BY <2>3 DEF Entry, OfService, Arg
    <2>5. Entry(a) \in Granting => a.source \in GrantSources /\ a.amount > 0
      BY <2>3 DEF Entry, Granting, Arg, Valid
    <2>6. RequestOK(r)'
      BY <2>1, <2>2, <2>4, <2>5 DEF RequestOK, Refunding, Settling
    <2>. QED
      BY <1>5, <1>9, <2>2, <2>6 DEF Kept, Call
  <1>10. ASSUME NEW r \in Reqs, Fail(r) PROVE IInv'
    BY <1>1, <1>5, <1>10, AnswerOK DEF Fail, ledgerVars, Kept, Results
  <1>11. ASSUME NEW r \in Reqs, Step(r) PROVE IInv'
    BY <1>5, <1>11, StepKeeps
  <1>. QED
    BY <1>7, <1>8, <1>9, <1>10, <1>11 DEF Next

\* The variables keep their types, for every set of users, keys and requests:
\* in particular every amount a request is about to post is a whole number of
\* li, whatever price and quantities it was worked out from.
THEOREM TypeCorrect == Spec => []TypeOK
  <1>1. IInv => TypeOK
    BY DEF IInv
  <1>. QED
    BY <1>1, InitIInv, NextIInv, PTL DEF Spec

-----------------------------------------------------------------------------
(* The ledger *)

\* What a post does to the ledger, by position.
LEMMA PostIndex ==
    ASSUME LedgerTypeOK, NEW u \in Users, NEW row \in Row, NEW spent \in Int,
           Post(u, row, spent)
    PROVE  /\ Len(txs[u]) \in Nat /\ DOMAIN txs[u] = 1..Len(txs[u])
           /\ DOMAIN txs'[u] = 1..(Len(txs[u]) + 1) /\ Len(txs'[u]) = Len(txs[u]) + 1
           /\ \A i \in 1..Len(txs[u]) : txs'[u][i] = txs[u][i]
           /\ txs'[u][Len(txs[u]) + 1] =
                 [row EXCEPT !.balanceAfter = wallet[u].balance + row.amount]
           /\ wallet'[u].balance = wallet[u].balance + row.amount
           /\ \A v \in Users \ {u} : txs'[v] = txs[v] /\ wallet'[v] = wallet[v]
  <1> DEFINE new == [row EXCEPT !.balanceAfter = wallet[u].balance + row.amount]
  <1>1. new \in Row /\ txs' = [txs EXCEPT ![u] = Append(txs[u], new)]
    BY PostRows
  <1>2. txs[u] \in Seq(Row) /\ txs'[u] = Append(txs[u], new)
    BY <1>1 DEF LedgerTypeOK
  <1>3. /\ wallet'[u].balance = wallet[u].balance + row.amount
        /\ \A v \in Users \ {u} : txs'[v] = txs[v] /\ wallet'[v] = wallet[v]
    BY DEF Post, LedgerTypeOK
  <1> HIDE DEF new
  <1>4. /\ Len(txs[u]) \in Nat /\ DOMAIN txs[u] = 1..Len(txs[u])
        /\ DOMAIN txs'[u] = 1..(Len(txs[u]) + 1) /\ Len(txs'[u]) = Len(txs[u]) + 1
        /\ \A i \in 1..Len(txs[u]) : txs'[u][i] = txs[u][i]
        /\ txs'[u][Len(txs[u]) + 1] = new
    BY <1>1, <1>2
  <1>. QED
    BY <1>3, <1>4 DEF new

\* The three facts of one user's ledger.
ChainOf(u) ==
    /\ \A i \in DOMAIN txs[u] :
          txs[u][i].balanceAfter =
             txs[u][i].amount + (IF i = 1 THEN 0 ELSE txs[u][i-1].balanceAfter)
    /\ wallet[u].balance =
          IF txs[u] = <<>> THEN 0 ELSE txs[u][Len(txs[u])].balanceAfter

OneRowOf(u) ==
    \A i, j \in DOMAIN txs[u] :
        txs[u][i].source = txs[u][j].source /\ txs[u][i].biz = txs[u][j].biz => i = j

\* What the unique index on (source, user_id, biz_id) keeps.
OneRowPerKey == \A u \in Users : OneRowOf(u)

CoveredBy(u, i) ==
    \E j \in 1..(i-1) :
        /\ txs[u][j].source = txs[u][i].source
        /\ txs[u][j].biz = Biz(txs[u][i].biz[2])
        /\ txs[u][j].type = "consume"
        /\ txs[u][i].biz[1] = "refund:" => txs[u][i].amount <= -txs[u][j].amount

LEMMA LedgerInitially == Init => LedgerChain /\ OneRowPerKey /\ RefundCovered
  BY DEF Init, LedgerInit, NoWallet, LedgerChain, OneRowPerKey, OneRowOf, RefundCovered

\* A step that posts nothing leaves every ledger and every balance alone.
LEMMA StillLedger ==
    ASSUME LedgerTypeOK,
           UNCHANGED <<wallet, txs>> \/ \E u \in Users : EnsureWallet(u)
    PROVE  \A v \in Users : txs'[v] = txs[v] /\ wallet'[v].balance = wallet[v].balance
  <1>1. CASE \E u \in Users : EnsureWallet(u)
    <2>1. PICK u \in Users : EnsureWallet(u)
      BY <1>1
    <2>2. wallet' = [wallet EXCEPT ![u] = [wallet[u] EXCEPT !.exists = TRUE]]
      BY <2>1 DEF EnsureWallet
    <2>3. [wallet[u] EXCEPT !.exists = TRUE].balance = wallet[u].balance
      BY DEF LedgerTypeOK, Wallet
    <2>. QED
      BY <2>1, <2>2, <2>3 DEF EnsureWallet, LedgerTypeOK
  <1>. QED
    BY <1>1

LEMMA ChainKept == LedgerTypeOK /\ Move /\ LedgerChain => LedgerChain'
  <1> SUFFICES ASSUME LedgerTypeOK, Move, LedgerChain PROVE LedgerChain'
    OBVIOUS
  <1>1. CASE UNCHANGED <<wallet, txs>> \/ \E u \in Users : EnsureWallet(u)
    BY <1>1, StillLedger DEF LedgerChain
  <1>2. ASSUME NEW u \in Users, NEW row \in Row, NEW spent \in Int, Posts(u, row, spent)
        PROVE  LedgerChain'
    <2> DEFINE n == Len(txs[u])
               new == [row EXCEPT !.balanceAfter = wallet[u].balance + row.amount]
    <2>1. Post(u, row, spent)
      BY <1>2 DEF Posts
    <2>2. n \in Nat /\ DOMAIN txs[u] = 1..n /\ txs[u] \in Seq(Row)
      BY <2>1, PostIndex DEF LedgerTypeOK
    <2>3. DOMAIN txs'[u] = 1..(n+1) /\ Len(txs'[u]) = n + 1
      BY <2>1, PostIndex
    <2>4. \A i \in 1..n : txs'[u][i] = txs[u][i]
      BY <2>1, PostIndex
    <2>5. txs'[u][n+1] = new
      BY <2>1, PostIndex
    <2>6. wallet'[u].balance = wallet[u].balance + row.amount
      BY <2>1, PostIndex
    <2>7. new.balanceAfter = wallet[u].balance + row.amount /\ new.amount = row.amount
          /\ row.amount \in Int /\ wallet[u].balance \in Int
      BY DEF Row, LedgerTypeOK, Wallet
    <2>8. ChainOf(u)
      BY DEF LedgerChain, ChainOf
    <2>9. ChainOf(u)'
      <3>1. ASSUME NEW i \in 1..n
            PROVE  txs'[u][i].balanceAfter =
                      txs'[u][i].amount + (IF i = 1 THEN 0 ELSE txs'[u][i-1].balanceAfter)
        BY <2>2, <2>4, <2>8, <3>1 DEF ChainOf
      <3>2. txs'[u][n+1].balanceAfter =
               txs'[u][n+1].amount + (IF n+1 = 1 THEN 0 ELSE txs'[u][n].balanceAfter)
        <4>1. wallet[u].balance = IF n = 0 THEN 0 ELSE txs[u][n].balanceAfter
          BY <2>2, <2>8 DEF ChainOf
        <4>2. n # 0 => txs'[u][n] = txs[u][n]
          BY <2>2, <2>4
        <4> HIDE DEF n, new
        <4>. QED
          BY <2>2, <2>5, <2>7, <4>1, <4>2
      <3>3. txs'[u] # <<>> /\ wallet'[u].balance = txs'[u][Len(txs'[u])].balanceAfter
        <4>1. txs'[u] # <<>>
          BY <2>2, <2>3
        <4> HIDE DEF n, new
        <4>. QED
          BY <2>3, <2>5, <2>6, <2>7, <4>1
      <3> HIDE DEF n, new
      <3>4. \A i \in 1..(n+1) : i \in 1..n \/ i = n+1
        BY <2>2
      <3>5. (n+1)-1 = n
        BY <2>2
      <3>. QED
        BY <2>3, <3>1, <3>2, <3>3, <3>4, <3>5 DEF ChainOf
    <2>10. ASSUME NEW v \in Users \ {u} PROVE ChainOf(v)'
      <3>1. txs'[v] = txs[v] /\ wallet'[v] = wallet[v]
        BY <2>1, PostIndex
      <3>. QED
        BY <3>1 DEF LedgerChain, ChainOf
    <2>. QED
      BY <2>9, <2>10 DEF LedgerChain, ChainOf
  <1>. QED
    BY <1>1, <1>2, MovePosts

LEMMA OneRowKept == LedgerTypeOK /\ Move /\ OneRowPerKey => OneRowPerKey'
  <1> SUFFICES ASSUME LedgerTypeOK, Move, OneRowPerKey PROVE OneRowPerKey'
    OBVIOUS
  <1>1. CASE UNCHANGED <<wallet, txs>> \/ \E u \in Users : EnsureWallet(u)
    BY <1>1, StillLedger DEF OneRowPerKey, OneRowOf
  <1>2. ASSUME NEW u \in Users, NEW row \in Row, NEW spent \in Int, Posts(u, row, spent)
        PROVE  OneRowPerKey'
    <2> DEFINE n == Len(txs[u])
               new == [row EXCEPT !.balanceAfter = wallet[u].balance + row.amount]
    <2>1. Post(u, row, spent) /\ ~Taken(u, row.source, row.biz)
      BY <1>2 DEF Posts
    <2>2. /\ n \in Nat /\ DOMAIN txs[u] = 1..n /\ DOMAIN txs'[u] = 1..(n+1)
          /\ \A i \in 1..n : txs'[u][i] = txs[u][i]
          /\ txs'[u][n+1] = new
      BY <2>1, PostIndex
    <2>3. new.source = row.source /\ new.biz = row.biz
      BY DEF Row
    <2>4. \A i \in 1..n : ~(txs[u][i].source = row.source /\ txs[u][i].biz = row.biz)
      BY <2>1, <2>2 DEF Taken, Find, Rows
    <2> HIDE DEF n, new
    <2>5. OneRowOf(u)'
      <3>1. \A i \in 1..(n+1) : i \in 1..n \/ i = n+1
        BY <2>2
      <3>2. OneRowOf(u)
        BY DEF OneRowPerKey
      <3>. QED
        BY <2>2, <2>3, <2>4, <3>1, <3>2 DEF OneRowOf
    <2>6. ASSUME NEW v \in Users \ {u} PROVE OneRowOf(v)'
      <3>1. txs'[v] = txs[v]
        BY <2>1, PostIndex
      <3>. QED
        BY <3>1 DEF OneRowPerKey, OneRowOf
    <2>. QED
      BY <2>5, <2>6 DEF OneRowPerKey
  <1>. QED
    BY <1>1, <1>2, MovePosts

\* The ledger of every user adds up to the balance of the wallet, and its
\* running balance is right at every row, whatever requests of the two
\* backends ran concurrently, failed or were repeated.
THEOREM LedgerAddsUp == Spec => []LedgerChain
  <1>1. IInv => LedgerTypeOK
    BY DEF IInv, TypeOK
  <1>2. IInv /\ LedgerChain /\ [Next]_vars => LedgerChain'
    BY <1>1, StepIsMove, ChainKept
  <1>. QED
    BY <1>2, InitIInv, NextIInv, LedgerInitially, PTL DEF Spec

\* A row that undoes or completes a charge of the user.
Due(u, row) ==
    row.biz[1] \in {"refund:", "settle:"} =>
       \E t \in Rows(u) : /\ t.source = row.source /\ t.biz = Biz(row.biz[2])
                          /\ t.type = "consume"
                          /\ row.biz[1] = "refund:" => row.amount <= -t.amount

LEMMA CoveredKept == LedgerTypeOK /\ Move /\ RefundCovered => RefundCovered'
  <1> SUFFICES ASSUME LedgerTypeOK, Move, RefundCovered PROVE RefundCovered'
    OBVIOUS
  <1>1. CASE UNCHANGED <<wallet, txs>> \/ \E u \in Users : EnsureWallet(u)
    BY <1>1, StillLedger DEF RefundCovered
  <1>2. ASSUME NEW u \in Users, NEW row \in Row, NEW spent \in Int, Posts(u, row, spent),
               Due(u, row)
        PROVE  RefundCovered'
    <2> DEFINE n == Len(txs[u])
               new == [row EXCEPT !.balanceAfter = wallet[u].balance + row.amount]
    <2>1. Post(u, row, spent)
      BY <1>2 DEF Posts
    <2>2. /\ n \in Nat /\ DOMAIN txs[u] = 1..n /\ DOMAIN txs'[u] = 1..(n+1)
          /\ \A i \in 1..n : txs'[u][i] = txs[u][i]
          /\ txs'[u][n+1] = new
      BY <2>1, PostIndex
    <2>3. new.source = row.source /\ new.biz = row.biz /\ new.amount = row.amount
      BY DEF Row
    <2>4. new.biz[1] \in {"refund:", "settle:"} =>
             \E j \in 1..n : /\ txs[u][j].source = new.source
                             /\ txs[u][j].biz = Biz(new.biz[2])
                             /\ txs[u][j].type = "consume"
                             /\ new.biz[1] = "refund:" => new.amount <= -txs[u][j].amount
      <3>1. Rows(u) = {txs[u][j] : j \in 1..n}
        BY <2>2 DEF Rows
      <3>. QED
        BY <1>2, <2>3, <3>1 DEF Due
    <2> HIDE DEF n, new
    <2>5. \A i \in DOMAIN txs'[u] : txs'[u][i].biz[1] \in {"refund:", "settle:"} => CoveredBy(u, i)'
      <3> SUFFICES ASSUME NEW i \in 1..(n+1), txs'[u][i].biz[1] \in {"refund:", "settle:"}
                   PROVE  CoveredBy(u, i)'
        BY <2>2
      <3>1. CASE i = n+1
        <4>1. (n+1)-1 = n
          BY <2>2
        <4>. QED
          BY <2>2, <2>4, <3>1, <4>1 DEF CoveredBy
      <3>2. CASE i \in 1..n
        <4>1. 1..(i-1) \subseteq 1..n /\ txs'[u][i] = txs[u][i]
          BY <2>2, <3>2
        <4>2. CoveredBy(u, i)
          BY <2>2, <3>2, <4>1 DEF RefundCovered, CoveredBy
        <4>. QED
          BY <2>2, <4>1, <4>2 DEF CoveredBy
      <3>. QED
        BY <2>2, <3>1, <3>2
    <2>6. ASSUME NEW v \in Users \ {u}, NEW i \in DOMAIN txs'[v],
                 txs'[v][i].biz[1] \in {"refund:", "settle:"}
          PROVE  CoveredBy(v, i)'
      <3>1. txs'[v] = txs[v]
        BY <2>1, PostIndex
      <3>. QED
        BY <2>6, <3>1 DEF RefundCovered, CoveredBy
    <2>. QED
      BY <2>5, <2>6 DEF RefundCovered, CoveredBy
  <1>3. ASSUME NEW s \in Sources, NEW k \in Keys, NEW a \in Int, NEW q \in Nat
        PROVE  /\ Refunded(s, k, a).source = s /\ Refunded(s, k, a).amount = a
               /\ Refunded(s, k, a).biz[1] = "refund:" /\ Refunded(s, k, a).biz[2] = k
               /\ Settled(s, k, a, q).source = s
               /\ Settled(s, k, a, q).biz[1] = "settle:" /\ Settled(s, k, a, q).biz[2] = k
    BY DEF Refunded, Settled, NewRow, RefundOf, SettleOf
  <1>4. ASSUME NEW u \in Users, NEW s \in Sources, NEW k \in Keys,
               (\E c, q \in Nat : ChargeMove(u, s, k, c, q))
               \/ (\E a \in Int : RefundMove(u, s, k, a))
               \/ (\E d, m \in Nat : SettleMove(u, s, k, d, m))
        PROVE  RefundCovered'
    <2>1. ASSUME NEW c \in Nat, NEW q \in Nat, ChargeMove(u, s, k, c, q) PROVE RefundCovered'
      <3>1. Consume(s, k, c, q) \in Row
        BY RowTypes
      <3>2. Due(u, Consume(s, k, c, q))
        BY DEF Due, Consume, NewRow, Biz
      <3>3. Posts(u, Consume(s, k, c, q), c) /\ c \in Int
        BY <2>1 DEF ChargeMove
      <3>. QED
        BY <1>2, <3>1, <3>2, <3>3
    <2>2. ASSUME NEW a \in Int, RefundMove(u, s, k, a) PROVE RefundCovered'
      <3>1. Refunded(s, k, a) \in Row /\ -a \in Int
        BY RowTypes
      <3>2. Due(u, Refunded(s, k, a))
        BY <1>3, <2>2 DEF RefundMove, Backed, Due
      <3>3. Posts(u, Refunded(s, k, a), -a)
        BY <2>2 DEF RefundMove
      <3>. QED
        BY <1>2, <3>1, <3>2, <3>3
    <2>3. ASSUME NEW d \in Nat, NEW m \in Nat, SettleMove(u, s, k, d, m) PROVE RefundCovered'
      <3>1. Settled(s, k, d, m) \in Row
        BY RowTypes
      <3>2. Due(u, Settled(s, k, d, m))
        BY <1>3, <2>3 DEF SettleMove, Backed, Due
      <3>3. Posts(u, Settled(s, k, d, m), d) /\ d \in Int
        BY <2>3 DEF SettleMove
      <3>. QED
        BY <1>2, <3>1, <3>2, <3>3
    <2>. QED
      BY <1>4, <2>1, <2>2, <2>3
  <1>5. ASSUME NEW u \in Users, NEW s \in GrantSources, NEW k \in Keys, NEW a \in Nat,
               GrantMove(u, s, k, a)
        PROVE  RefundCovered'
    <2>1. Granted(s, k, a) \in Row /\ 0 \in Int
      BY RowTypes
    <2>2. Due(u, Granted(s, k, a))
      BY DEF Due, Granted, NewRow, Biz
    <2>3. Posts(u, Granted(s, k, a), 0)
      BY <1>5 DEF GrantMove
    <2>. QED
      BY <1>2, <2>1, <2>2, <2>3
  <1>. QED
    BY <1>1, <1>4, <1>5 DEF Move

\* A refund undoes a charge that was made before it and gives back no more than
\* it took; a settlement completes a charge that was made before it.
THEOREM RefundsCovered == Spec => []RefundCovered
  <1>1. IInv => LedgerTypeOK
    BY DEF IInv, TypeOK
  <1>2. IInv /\ RefundCovered /\ [Next]_vars => RefundCovered'
    BY <1>1, StepIsMove, CoveredKept
  <1>. QED
    BY <1>2, InitIInv, NextIInv, LedgerInitially, PTL DEF Spec
-----------------------------------------------------------------------------
(* What was spent *)

\* A post adds what its row spends.
LEMMA SpentKept ==
    ASSUME LedgerTypeOK, NEW u \in Users, NEW row \in Row, NEW spent \in Int,
           Post(u, row, spent), spent = SpentOn(row),
           wallet[u].totalSpent = SumFunction(SpentBy(u))
    PROVE  wallet'[u].totalSpent = SumFunction(SpentBy(u))'
  <1> DEFINE n == Len(txs[u])
             F == SpentBy(u)
             E == SpentBy(u)'
  <1>1. /\ n \in Nat /\ DOMAIN txs[u] = 1..n /\ DOMAIN txs'[u] = 1..(n + 1)
        /\ Len(txs'[u]) = n + 1 /\ \A i \in 1..n : txs'[u][i] = txs[u][i]
        /\ txs'[u][n + 1] = [row EXCEPT !.balanceAfter = wallet[u].balance + row.amount]
    BY PostIndex
  <1>2. wallet'[u].totalSpent = wallet[u].totalSpent + spent
    BY DEF Post, LedgerTypeOK
  <1>3. txs'[u][n + 1].type = row.type /\ txs'[u][n + 1].amount = row.amount
    BY <1>1 DEF Row
  <1>4. E[n + 1] = spent
    <2>1. n + 1 \in DOMAIN txs'[u]
      BY <1>1
    <2>2. E[n + 1] = IF txs'[u][n + 1].type = "grant" THEN 0 ELSE -txs'[u][n + 1].amount
      BY <2>1 DEF SpentBy
    <2>. QED
      BY <1>3, <2>2 DEF SpentOn
  <1>5. \A i \in 1..n : E[i] = F[i] /\ F[i] \in Int
    <2> SUFFICES ASSUME NEW i \in 1..n PROVE E[i] = F[i] /\ F[i] \in Int
      OBVIOUS
    <2>1. i \in DOMAIN txs[u] /\ i \in DOMAIN txs'[u] /\ txs'[u][i] = txs[u][i]
      BY <1>1
    <2>2. txs[u] \in Seq(Row) /\ txs[u][i] \in Row
      BY <2>1 DEF LedgerTypeOK
    <2>3. txs[u][i].amount \in Int
      BY <2>2 DEF Row
    <2>. QED
      BY <2>1, <2>3 DEF SpentBy
  <1>6. DOMAIN F = 1..n /\ DOMAIN E = (1..n) \cup {n + 1} /\ n + 1 \notin 1..n
    BY <1>1 DEF SpentBy
  <1> HIDE DEF n, E, F
  <1>7. IsFiniteSet(1..n)
    <2>1. n \in Nat
      BY <1>1
    <2>. QED
      BY <2>1, FirstNumbers
  <1>8. SumFunctionOnSet(E, (1..n) \cup {n + 1}) = E[n + 1] + SumFunctionOnSet(E, 1..n)
    <2>1. \A i \in (1..n) \cup {n + 1} : E[i] \in Int
      BY <1>4, <1>5
    <2>. QED
      BY <1>6, <1>7, <2>1, SumAdd
  <1>9. SumFunctionOnSet(E, 1..n) = SumFunctionOnSet(F, 1..n) /\ SumFunctionOnSet(F, 1..n) \in Int
    BY <1>5, <1>7, SumSame, SumInt
  <1>10. wallet[u].totalSpent = SumFunctionOnSet(F, 1..n)
    BY <1>6 DEF F, SumFunction
  <1>. QED
    BY <1>2, <1>4, <1>6, <1>8, <1>9, <1>10 DEF E, SumFunction

LEMMA NetSpentKept == LedgerTypeOK /\ Move /\ NetSpent => NetSpent'
  <1> SUFFICES ASSUME LedgerTypeOK, Move, NetSpent PROVE NetSpent'
    OBVIOUS
  <1>1. CASE UNCHANGED <<wallet, txs>>
    BY <1>1 DEF NetSpent, SpentBy
  <1>2. ASSUME NEW u \in Users, EnsureWallet(u) PROVE NetSpent'
    <2>1. txs' = txs /\ \A v \in Users : wallet'[v].totalSpent = wallet[v].totalSpent
      BY <1>2 DEF EnsureWallet, LedgerTypeOK, Wallet
    <2>. QED
      BY <2>1 DEF NetSpent, SpentBy
  <1>3. ASSUME NEW u \in Users, NEW row \in Row, NEW spent \in Int,
               Posts(u, row, spent), spent = SpentOn(row)
        PROVE  NetSpent'
    <2>1. wallet'[u].totalSpent = SumFunction(SpentBy(u))'
      BY <1>3, SpentKept DEF Posts, NetSpent
    <2>2. \A v \in Users \ {u} : txs'[v] = txs[v] /\ wallet'[v] = wallet[v]
      BY <1>3, PostIndex DEF Posts
    <2>3. \A v \in Users \ {u} : wallet'[v].totalSpent = SumFunction(SpentBy(v))'
      BY <2>2 DEF NetSpent, SpentBy
    <2>. QED
      BY <2>1, <2>3 DEF NetSpent
  <1>. QED
    BY <1>1, <1>2, <1>3, MovePosts

LEMMA InitNetSpent == Init => NetSpent
  <1> SUFFICES ASSUME Init, NEW u \in Users
               PROVE  wallet[u].totalSpent = SumFunction(SpentBy(u))
    BY DEF NetSpent
  <1>1. DOMAIN txs[u] = {} /\ wallet[u].totalSpent = 0
    BY DEF Init, LedgerInit, NoWallet
  <1>2. DOMAIN SpentBy(u) = {}
    BY <1>1 DEF SpentBy
  <1>. QED
    BY <1>1, <1>2, SumEmpty DEF SumFunction

\* total_spent is the sum of the rows, over any number of rows and users.
THEOREM SpendingAddsUp == Spec => []NetSpent
  <1>1. IInv => LedgerTypeOK
    BY DEF IInv, TypeOK
  <1>2. IInv /\ NetSpent /\ [Next]_vars => NetSpent'
    BY <1>1, StepIsMove, NetSpentKept
  <1>. QED
    BY <1>2, InitIInv, NextIInv, InitNetSpent, PTL DEF Spec

-----------------------------------------------------------------------------
(* The guard of the Go refund.  A refund that is due is of a charge without a *)
(* refund row; total_spent is at least the sum of these charges, whatever    *)
(* the other rows of the wallet are, so the guard finds enough.              *)

Unreturned(u) ==
    [i \in DOMAIN txs[u] |->
        IF /\ txs[u][i].type = "consume" /\ txs[u][i].biz[1] = "own"
           /\ ~Taken(u, txs[u][i].source, RefundOf(txs[u][i].biz[2]))
        THEN -txs[u][i].amount ELSE 0]

SpentCovers ==
    \A u \in Users :
        /\ SumFunction(Unreturned(u)) <= wallet[u].totalSpent
        /\ txs[u] # <<>> => wallet[u].exists

\* The unreturned charges are numbers.
LEMMA UnreturnedNat ==
    LedgerTypeOK /\ ChargesTake =>
        \A u \in Users : \A i \in DOMAIN txs[u] : Unreturned(u)[i] \in Nat
  <1> SUFFICES ASSUME LedgerTypeOK, ChargesTake, NEW u \in Users, NEW i \in DOMAIN txs[u]
               PROVE  Unreturned(u)[i] \in Nat
    OBVIOUS
  <1>1. txs[u][i] \in Row /\ txs[u][i] \in Rows(u)
    BY DEF LedgerTypeOK, Rows
  <1>2. txs[u][i].amount \in Int /\ (txs[u][i].type = "consume" => txs[u][i].amount <= 0)
    BY <1>1 DEF Row, ChargesTake
  <1>. QED
    BY <1>2 DEF Unreturned

LEMMA UnreturnedNatNext ==
    (LedgerTypeOK /\ ChargesTake =>
        \A u \in Users : \A i \in DOMAIN txs[u] : Unreturned(u)[i] \in Nat)'
  BY UnreturnedNat, PTL

\* The row a move posts, and what becomes of the charges before it: none comes
\* back, and a refund settles one that is large enough.
Returns(u, row, spent) ==
    LET mine == IF row.type = "consume" /\ row.biz[1] = "own" THEN -row.amount ELSE 0
    IN  \/ mine <= spent
        \/ /\ mine = 0
           /\ -spent \in Nat
           /\ \E k \in DOMAIN txs[u] :
                /\ txs[u][k].type = "consume" /\ txs[u][k].biz[1] = "own"
                /\ row.source = txs[u][k].source /\ row.biz = RefundOf(txs[u][k].biz[2])
                /\ -spent <= -txs[u][k].amount

LEMMA MoveReturns ==
    ASSUME LedgerTypeOK, Move
    PROVE  \/ UNCHANGED <<wallet, txs>>
           \/ \E u \in Users : EnsureWallet(u)
           \/ \E u \in Users, row \in Row, spent \in Int :
                 Posts(u, row, spent) /\ Returns(u, row, spent)
  <1>1. ASSUME NEW u \in Users, NEW s \in Sources, NEW k \in Keys, NEW c \in Nat, NEW q \in Nat,
               ChargeMove(u, s, k, c, q)
        PROVE  \E row \in Row, spent \in Int : Posts(u, row, spent) /\ Returns(u, row, spent)
    <2>1. Consume(s, k, c, q) \in Row
      BY RowTypes
    <2>2. Returns(u, Consume(s, k, c, q), c)
      BY DEF Consume, NewRow, Returns
    <2>. QED
      BY <1>1, <2>1, <2>2 DEF ChargeMove
  <1>2. ASSUME NEW u \in Users, NEW s \in Sources, NEW k \in Keys, NEW a \in Nat,
               RefundMove(u, s, k, a)
        PROVE  \E row \in Row, spent \in Int : Posts(u, row, spent) /\ Returns(u, row, spent)
    <2>1. Refunded(s, k, a) \in Row /\ -a \in Int /\ -(-a) = a
      <3>1. s \in Sources \cup GrantSources /\ a \in Int /\ 0 \in Nat
        OBVIOUS
      <3>2. Refunded(s, k, a) \in Row
        BY <3>1, RowTypes
      <3>. QED
        BY <3>1, <3>2
    <2>2. PICK i \in DOMAIN txs[u] : /\ txs[u][i].source = s /\ txs[u][i].biz = Biz(k)
                                     /\ txs[u][i].type = "consume" /\ a <= -txs[u][i].amount
      BY <1>2 DEF RefundMove, Backed, Rows
    <2>3. txs[u][i].biz[1] = "own" /\ txs[u][i].biz[2] = k
      BY <2>2 DEF Biz
    <2>4. Returns(u, Refunded(s, k, a), -a)
      BY <2>1, <2>2, <2>3 DEF Refunded, NewRow, Returns
    <2>. QED
      BY <1>2, <2>1, <2>4 DEF RefundMove
  <1>3. ASSUME NEW u \in Users, NEW s \in Sources, NEW k \in Keys, NEW d \in Nat, NEW n \in Nat,
               SettleMove(u, s, k, d, n)
        PROVE  \E row \in Row, spent \in Int : Posts(u, row, spent) /\ Returns(u, row, spent)
    <2>1. Settled(s, k, d, n) \in Row
      BY RowTypes
    <2>2. Returns(u, Settled(s, k, d, n), d)
      BY DEF Settled, SettleOf, NewRow, Returns
    <2>. QED
      BY <1>3, <2>1, <2>2 DEF SettleMove
  <1>4. ASSUME NEW u \in Users, NEW s \in GrantSources, NEW k \in Keys, NEW a \in Nat,
               GrantMove(u, s, k, a)
        PROVE  \E row \in Row, spent \in Int : Posts(u, row, spent) /\ Returns(u, row, spent)
    <2>1. Granted(s, k, a) \in Row
      BY RowTypes
    <2>2. Returns(u, Granted(s, k, a), 0)
      BY DEF Granted, NewRow, Returns
    <2>. QED
      BY <1>4, <2>1, <2>2 DEF GrantMove
  <1>. QED
    BY <1>1, <1>2, <1>3, <1>4 DEF Move

LEMMA PostCovers ==
    ASSUME LedgerTypeOK, ChargesTake, ChargesTake', NEW u \in Users, NEW row \in Row,
           NEW spent \in Int, Posts(u, row, spent), Returns(u, row, spent),
           SumFunction(Unreturned(u)) <= wallet[u].totalSpent
    PROVE  SumFunction(Unreturned(u))' <= wallet'[u].totalSpent
  <1> DEFINE n == Len(txs[u])
             F == Unreturned(u)
             E == Unreturned(u)'
             new == [row EXCEPT !.balanceAfter = wallet[u].balance + row.amount]
             own == IF row.type = "consume" /\ row.biz[1] = "own" THEN -row.amount ELSE 0
  <1>1. /\ n \in Nat /\ DOMAIN txs[u] = 1..n /\ DOMAIN txs'[u] = 1..(n + 1)
        /\ Len(txs'[u]) = n + 1 /\ \A i \in 1..n : txs'[u][i] = txs[u][i]
        /\ txs'[u][n + 1] = new
    BY PostIndex DEF Posts
  <1>2. wallet'[u].totalSpent = wallet[u].totalSpent + spent /\ wallet[u].totalSpent \in Int
    BY DEF Posts, Post, LedgerTypeOK, Wallet
  <1>3. Rows(u)' = Rows(u) \cup {new} /\ LedgerTypeOK'
    BY PostRows DEF Posts
  <1>4. /\ new.type = row.type /\ new.amount = row.amount /\ new.biz = row.biz
        /\ new.source = row.source /\ row.amount \in Int
    BY DEF Row
  <1>5. \A i \in 1..n : F[i] \in Nat
    BY <1>1, UnreturnedNat
  <1>6. \A i \in 1..(n + 1) : E[i] \in Nat
    <2>1. (LedgerTypeOK /\ ChargesTake =>
             \A v \in Users : \A i \in DOMAIN txs[v] : Unreturned(v)[i] \in Nat)'
      BY UnreturnedNatNext
    <2>. QED
      BY <1>1, <1>3, <2>1
  <1>7. \A s, b : Taken(u, s, b) => Taken(u, s, b)'
    BY <1>3 DEF Taken, Find
  <1>8. \A i \in 1..n : E[i] <= F[i]
    <2> SUFFICES ASSUME NEW i \in 1..n PROVE E[i] <= F[i]
      OBVIOUS
    <2>1. i \in DOMAIN txs'[u] /\ i \in DOMAIN txs[u] /\ txs'[u][i] = txs[u][i]
      BY <1>1
    <2>2. E[i] = 0 \/ E[i] = F[i]
      BY <1>7, <2>1 DEF Unreturned
    <2>. QED
      BY <1>5, <2>2
  <1>9. E[n + 1] = 0 \/ E[n + 1] = own
    <2>1. n + 1 \in DOMAIN txs'[u]
      BY <1>1
    <2>. QED
      BY <1>1, <1>4, <2>1 DEF Unreturned
  <1>10. own = 0 => E[n + 1] = 0
    BY <1>9
  <1>11. \A k \in 1..n : /\ txs[u][k].type = "consume" /\ txs[u][k].biz[1] = "own"
                         /\ row.source = txs[u][k].source
                         /\ row.biz = RefundOf(txs[u][k].biz[2])
                         => E[k] = 0 /\ F[k] = -txs[u][k].amount
    <2> SUFFICES ASSUME NEW k \in 1..n,
                        txs[u][k].type = "consume", txs[u][k].biz[1] = "own",
                        row.source = txs[u][k].source, row.biz = RefundOf(txs[u][k].biz[2])
                 PROVE  E[k] = 0 /\ F[k] = -txs[u][k].amount
      OBVIOUS
    <2>1. k \in DOMAIN txs'[u] /\ k \in DOMAIN txs[u] /\ txs'[u][k] = txs[u][k]
      BY <1>1
    <2>2. Taken(u, txs[u][k].source, RefundOf(txs[u][k].biz[2]))'
      <3>1. new \in Rows(u)'
        BY <1>3
      <3>2. new.source = txs'[u][k].source /\ new.biz = RefundOf(txs'[u][k].biz[2])
        BY <1>4, <2>1
      <3> HIDE DEF new
      <3>. QED
        BY <3>1, <3>2 DEF Taken, Find
    <2>3. ~Taken(u, txs[u][k].source, RefundOf(txs[u][k].biz[2]))
      BY DEF Posts
    <2>. QED
      BY <2>1, <2>2, <2>3 DEF Unreturned
  <1>12. PICK k \in Nat, d \in Nat :
            /\ k \in 1..n => E[k] + d <= F[k]
            /\ E[n + 1] - (IF k \in 1..n THEN d ELSE 0) <= spent
    <2>1. CASE own <= spent
      <3>1. E[n + 1] <= spent \/ (E[n + 1] = 0 /\ own < 0)
        BY <1>4, <1>9, <2>1
      <3>2. ChargesTake' => ~(own < 0)
        <4>1. new \in Rows(u)'
          BY <1>3
        <4> HIDE DEF new
        <4>2. ChargesTake' => (new.type = "consume" => new.amount <= 0)
          BY <4>1 DEF ChargesTake
        <4>. QED
          BY <1>4, <4>2
      <3>. QED
        <4>1. 0 \notin 1..n
          BY <1>1
        <4>2. E[n + 1] \in Nat
          BY <1>1, <1>6
        <4> HIDE DEF E, F, n, own
        <4>. QED
          BY <3>1, <3>2, <4>1, <4>2
    <2>2. CASE ~(own <= spent)
      <3>1. PICK k \in DOMAIN txs[u] :
                /\ txs[u][k].type = "consume" /\ txs[u][k].biz[1] = "own"
                /\ row.source = txs[u][k].source /\ row.biz = RefundOf(txs[u][k].biz[2])
                /\ -spent <= -txs[u][k].amount /\ -spent \in Nat /\ own = 0
        BY <2>2 DEF Returns
      <3>2. k \in 1..n /\ k \in Nat
        BY <1>1, <3>1
      <3>3. E[k] = 0 /\ F[k] = -txs[u][k].amount
        BY <1>11, <3>1, <3>2
      <3>4. E[n + 1] = 0
        BY <1>10, <3>1
      <3> HIDE DEF E, F, n, own
      <3>5. E[k] + (-spent) <= F[k]
        BY <3>1, <3>3
      <3>. QED
        BY <3>1, <3>2, <3>4, <3>5
    <2>. QED
      BY <2>1, <2>2
  <1>13. DOMAIN F = 1..n /\ DOMAIN E = (1..n) \cup {n + 1} /\ n + 1 \notin 1..n
    BY <1>1 DEF Unreturned
  <1> HIDE DEF n, E, F
  <1>14. IsFiniteSet(1..n)
    <2>1. n \in Nat
      BY <1>1
    <2>. QED
      BY <2>1, FirstNumbers
  <1>15. /\ \A i \in 1..n : E[i] \in Int /\ F[i] \in Int /\ E[i] <= F[i]
         /\ E[n + 1] \in Int
    BY <1>1, <1>5, <1>6, <1>8
  <1>16. SumFunctionOnSet(E, 1..n) + (IF k \in 1..n THEN d ELSE 0) <= SumFunctionOnSet(F, 1..n)
    BY <1>12, <1>14, <1>15, SumLess
  <1>17. SumFunctionOnSet(E, (1..n) \cup {n + 1}) = E[n + 1] + SumFunctionOnSet(E, 1..n)
    BY <1>13, <1>14, <1>15, SumAdd
  <1>18. SumFunctionOnSet(E, 1..n) \in Int /\ SumFunctionOnSet(F, 1..n) \in Int
    BY <1>14, <1>15, SumInt
  <1>19. SumFunctionOnSet(F, 1..n) <= wallet[u].totalSpent
    BY <1>13 DEF F, SumFunction
  <1>20. SumFunctionOnSet(E, (1..n) \cup {n + 1}) <= wallet'[u].totalSpent
    BY <1>2, <1>12, <1>15, <1>16, <1>17, <1>18, <1>19
  <1>. QED
    BY <1>13, <1>20 DEF E, SumFunction

LEMMA CoversKept ==
    LedgerTypeOK /\ Move /\ ChargesTake /\ ChargesTake' /\ SpentCovers => SpentCovers'
  <1> SUFFICES ASSUME LedgerTypeOK, Move, ChargesTake, ChargesTake', SpentCovers
               PROVE  SpentCovers'
    OBVIOUS
  <1>1. CASE UNCHANGED <<wallet, txs>>
    BY <1>1 DEF SpentCovers, Unreturned, Taken, Find, Rows
  <1>2. ASSUME NEW u \in Users, EnsureWallet(u) PROVE SpentCovers'
    <2>1. /\ txs' = txs /\ \A v \in Users : wallet'[v].totalSpent = wallet[v].totalSpent
          /\ \A v \in Users : wallet[v].exists => wallet'[v].exists
      BY <1>2 DEF EnsureWallet, LedgerTypeOK, Wallet
    <2>. QED
      BY <2>1 DEF SpentCovers, Unreturned, Taken, Find, Rows
  <1>3. ASSUME NEW u \in Users, NEW row \in Row, NEW spent \in Int,
               Posts(u, row, spent), Returns(u, row, spent)
        PROVE  SpentCovers'
    <2>1. SumFunction(Unreturned(u))' <= wallet'[u].totalSpent
      BY <1>3, PostCovers DEF SpentCovers
    <2>2. wallet'[u].exists
      BY <1>3 DEF Posts, Post, LedgerTypeOK
    <2>3. \A v \in Users \ {u} : txs'[v] = txs[v] /\ wallet'[v] = wallet[v]
      BY <1>3, PostIndex DEF Posts
    <2>4. ASSUME NEW v \in Users \ {u}
          PROVE  /\ SumFunction(Unreturned(v))' <= wallet'[v].totalSpent
                 /\ txs'[v] # <<>> => wallet'[v].exists
      <3>1. Unreturned(v)' = Unreturned(v)
        BY <2>3 DEF Unreturned, Taken, Find, Rows
      <3>. QED
        BY <2>3, <3>1 DEF SpentCovers
    <2>. QED
      BY <2>1, <2>2, <2>4 DEF SpentCovers
  <1>. QED
    BY <1>1, <1>2, <1>3, MoveReturns

LEMMA InitCovers == Init => SpentCovers
  <1> SUFFICES ASSUME Init, NEW u \in Users
               PROVE  /\ SumFunction(Unreturned(u)) <= wallet[u].totalSpent
                      /\ txs[u] = <<>>
    BY DEF SpentCovers
  <1>1. DOMAIN txs[u] = {} /\ wallet[u].totalSpent = 0 /\ txs[u] = <<>>
    BY DEF Init, LedgerInit, NoWallet
  <1>2. DOMAIN Unreturned(u) = {}
    BY <1>1 DEF Unreturned
  <1>. QED
    BY <1>1, <1>2, SumEmpty DEF SumFunction

\* What is spent covers the refund a request is about to make.
LEMMA DueIsCovered == IInv /\ SpentCovers => RefundNeverRefused
  <1> SUFFICES ASSUME IInv, SpentCovers, NEW r \in Reqs, pc[r] = "credit",
                      ~Taken(arg[r].user, arg[r].source, RefundOf(arg[r].key))
               PROVE  RefundApplies(arg[r].user, arg[r].source, amt[r])
    BY DEF RefundNeverRefused
  <1> DEFINE u == arg[r].user
             F == Unreturned(u)
             n == Len(txs[u])
  <1>1. LedgerTypeOK /\ ChargesTake /\ Holds(r) /\ amt[r] <= -seen[r].amount /\ amt[r] \in Int
    BY DEF IInv, TypeOK, RequestOK, Refunding
  <1>2. u \in Users
    BY AskedAssumption DEF IInv, TypeOK, Arg
  <1>3. txs[u] \in Seq(Row) /\ n \in Nat /\ DOMAIN txs[u] = 1..n
    BY <1>1, <1>2 DEF LedgerTypeOK
  <1>4. PICK k \in DOMAIN txs[u] : seen[r] = txs[u][k]
    BY <1>1 DEF Holds, Rows
  <1>5. F[k] = -seen[r].amount
    <2>1. txs[u][k].type = "consume" /\ txs[u][k].biz = Biz(arg[r].key)
          /\ txs[u][k].source = arg[r].source
      BY <1>1, <1>4 DEF Holds
    <2>2. txs[u][k].biz[1] = "own" /\ txs[u][k].biz[2] = arg[r].key
      BY <2>1 DEF Biz
    <2>. QED
      BY <1>4, <2>1, <2>2 DEF Unreturned
  <1>6. \A i \in 1..n : F[i] \in Nat
    BY <1>1, <1>2, <1>3, UnreturnedNat
  <1>7. SumFunctionOnSet(F, 1..n) <= wallet[u].totalSpent /\ wallet[u].exists
    <2>1. txs[u] # <<>> /\ DOMAIN F = 1..n
      BY <1>3, <1>4 DEF Unreturned
    <2>. QED
      BY <1>2, <2>1 DEF SpentCovers, SumFunction
  <1>8. wallet[u].totalSpent \in Int
    BY <1>1, <1>2 DEF LedgerTypeOK, Wallet
  <1> HIDE DEF u, F, n
  <1>9. F[k] <= SumFunctionOnSet(F, 1..n) /\ F[k] \in Nat /\ SumFunctionOnSet(F, 1..n) \in Int
    <2>1. IsFiniteSet(1..n) /\ \A i \in 1..n : F[i] \in Int
      BY <1>3, <1>6, FirstNumbers
    <2>. QED
      BY <1>3, <1>4, <1>6, <2>1, SumCovers, SumInt
  <1>10. amt[r] <= wallet[u].totalSpent
    BY <1>1, <1>5, <1>7, <1>8, <1>9
  <1>. QED
    BY <1>7, <1>10 DEF RefundApplies, u

\* The total_spent guard of the Go refund refuses no refund that is due, for any
\* number of charges, settlements, refunds and requests in flight.
THEOREM RefundsGoThrough == Spec => []RefundNeverRefused
  <1>1. IInv => LedgerTypeOK /\ ChargesTake
    BY DEF IInv, TypeOK
  <1>2. IInv /\ IInv' /\ SpentCovers /\ [Next]_vars => SpentCovers'
    <2>1. IInv' => ChargesTake'
      BY DEF IInv
    <2>. QED
      BY <1>1, <2>1, StepIsMove, CoversKept
  <1>. QED
    BY <1>2, InitIInv, NextIInv, InitCovers, DueIsCovered, PTL DEF Spec

-----------------------------------------------------------------------------
(* Debt *)

\* A step takes a wallet below zero only by a row that settles.
LEMMA MoveOverdraws ==
    ASSUME LedgerTypeOK, Move, NEW v \in Users,
           wallet'[v].balance < wallet[v].balance, wallet'[v].balance < 0
    PROVE  txs'[v][Len(txs'[v])].biz[1] = "settle:"
  <1>0. \A x \in Users : wallet[x].balance \in Int
    BY DEF LedgerTypeOK, Wallet
  <1>1. CASE UNCHANGED <<wallet, txs>> \/ \E u \in Users : EnsureWallet(u)
    BY <1>0, <1>1, StillLedger
  <1>2. ASSUME NEW u \in Users, NEW row \in Row, NEW spent \in Int, Post(u, row, spent),
               row.biz[1] = "settle:" \/ wallet[u].balance + row.amount >= 0 \/ row.amount >= 0
        PROVE  txs'[v][Len(txs'[v])].biz[1] = "settle:"
    <2>0. /\ wallet'[u].balance = wallet[u].balance + row.amount
          /\ \A x \in Users \ {u} : wallet'[x] = wallet[x]
      BY <1>2, PostIndex
    <2>1. v = u
      <3>1. SUFFICES ASSUME v # u PROVE FALSE
        OBVIOUS
      <3>2. wallet'[v].balance = wallet[v].balance /\ wallet[v].balance \in Int
        BY <1>0, <2>0, <3>1
      <3>. QED
        BY <3>2
    <2>2. row.biz[1] = "settle:"
      <3>1. row.amount \in Int
        BY DEF Row
      <3>. QED
        BY <1>0, <1>2, <2>0, <2>1, <3>1
    <2>3. txs'[u][Len(txs'[u])] = [row EXCEPT !.balanceAfter = wallet[u].balance + row.amount]
      BY <1>2, PostIndex
    <2>4. [row EXCEPT !.balanceAfter = wallet[u].balance + row.amount].biz = row.biz
      BY DEF Row
    <2>. QED
      BY <2>1, <2>2, <2>3, <2>4
  <1>3. ASSUME NEW u \in Users, NEW s \in Sources, NEW k \in Keys, NEW c \in Nat, NEW q \in Nat,
               ChargeMove(u, s, k, c, q)
        PROVE  txs'[v][Len(txs'[v])].biz[1] = "settle:"
    <2>1. Consume(s, k, c, q) \in Row /\ Consume(s, k, c, q).amount = -c
      BY RowTypes DEF Consume, NewRow
    <2>2. wallet[u].balance + (-c) >= 0
      BY <1>0, <1>3 DEF ChargeMove, Covers
    <2>3. Post(u, Consume(s, k, c, q), c) /\ c \in Int
      BY <1>3 DEF ChargeMove, Posts
    <2>. QED
      BY <1>2, <2>1, <2>2, <2>3
  <1>4. ASSUME NEW u \in Users, NEW s \in Sources, NEW k \in Keys, NEW a \in Nat,
               RefundMove(u, s, k, a)
        PROVE  txs'[v][Len(txs'[v])].biz[1] = "settle:"
    <2>1. Refunded(s, k, a) \in Row /\ Refunded(s, k, a).amount = a /\ -a \in Int
      BY RowTypes DEF Refunded, NewRow
    <2>2. Post(u, Refunded(s, k, a), -a)
      BY <1>4 DEF RefundMove, Posts
    <2>. QED
      BY <1>2, <2>1, <2>2
  <1>5. ASSUME NEW u \in Users, NEW s \in Sources, NEW k \in Keys, NEW d \in Nat, NEW n \in Nat,
               SettleMove(u, s, k, d, n)
        PROVE  txs'[v][Len(txs'[v])].biz[1] = "settle:"
    <2>1. Settled(s, k, d, n) \in Row /\ Settled(s, k, d, n).biz[1] = "settle:"
      BY RowTypes DEF Settled, NewRow, SettleOf
    <2>2. Post(u, Settled(s, k, d, n), d) /\ d \in Int
      BY <1>5 DEF SettleMove, Posts
    <2>. QED
      BY <1>2, <2>1, <2>2
  <1>6. ASSUME NEW u \in Users, NEW s \in GrantSources, NEW k \in Keys, NEW a \in Nat,
               GrantMove(u, s, k, a)
        PROVE  txs'[v][Len(txs'[v])].biz[1] = "settle:"
    <2>1. Granted(s, k, a) \in Row /\ Granted(s, k, a).amount = a /\ 0 \in Int
      BY RowTypes DEF Granted, NewRow
    <2>2. Post(u, Granted(s, k, a), 0)
      BY <1>6 DEF GrantMove, Posts
    <2>. QED
      BY <1>2, <2>1, <2>2
  <1>. QED
    BY <1>1, <1>3, <1>4, <1>5, <1>6 DEF Move

\* No call is ever paid for on credit, whatever the number of calls that
\* compete for the last of a wallet: only a settlement runs into debt.
THEOREM OnlySettlementsOverdraw == Spec => OverdrawnBySettleOnly
  <1>1. IInv => LedgerTypeOK
    BY DEF IInv, TypeOK
  <1>2. IInv /\ [Next]_vars =>
          [\A u \in Users :
              /\ wallet'[u].balance < wallet[u].balance
              /\ wallet'[u].balance < 0
              => txs'[u][Len(txs'[u])].biz[1] = "settle:"]_vars
    BY <1>1, StepIsMove, MoveOverdraws
  <1>. QED
    BY <1>2, InitIInv, NextIInv, PTL DEF Spec, OverdrawnBySettleOnly
-----------------------------------------------------------------------------
(* The contract: every move of the tables is one step of CreditSpec, or none. *)

Balances == [u \in Users |-> wallet[u].balance]
Spendings == [u \in Users |-> wallet[u].totalSpent]
Entries(prefix, type, sign) == [u \in Users |-> EntriesOf(u, prefix, type, sign)]
Entry3(t, sign) == [service |-> t.source, key |-> t.biz[2], amount |-> sign * t.amount]

LEMMA InitContract == Init => Contract!Init
  BY DEF Init, LedgerInit, NoWallet, Rows, EntriesOf, Contract!Init

\* What a post does to the entries of one kind.
LEMMA PostEntries ==
    ASSUME LedgerTypeOK, NEW u \in Users, NEW row \in Row, NEW spent \in Int,
           Post(u, row, spent), NEW prefix, NEW type, NEW sign
    PROVE  Entries(prefix, type, sign)' =
             IF row.biz[1] = prefix /\ row.type = type
             THEN [Entries(prefix, type, sign) EXCEPT ![u] = @ \cup {Entry3(row, sign)}]
             ELSE Entries(prefix, type, sign)
  <1> DEFINE new == [row EXCEPT !.balanceAfter = wallet[u].balance + row.amount]
  <1>1. Rows(u)' = Rows(u) \cup {new} /\ \A v \in Users \ {u} : Rows(v)' = Rows(v)
    BY PostRows
  <1>2. /\ new.source = row.source /\ new.biz = row.biz /\ new.type = row.type
        /\ new.amount = row.amount
    BY DEF Row
  <1> HIDE DEF new
  <1>3. \A v \in Users \ {u} :
           EntriesOf(v, prefix, type, sign)' = EntriesOf(v, prefix, type, sign)
    BY <1>1 DEF EntriesOf
  <1>4. CASE row.biz[1] = prefix /\ row.type = type
    <2>1. EntriesOf(u, prefix, type, sign)' =
             EntriesOf(u, prefix, type, sign) \cup {Entry3(row, sign)}
      BY <1>1, <1>2, <1>4 DEF EntriesOf, Entry3
    <2>. QED
      BY <1>3, <1>4, <2>1 DEF Entries
  <1>5. CASE ~(row.biz[1] = prefix /\ row.type = type)
    <2>1. EntriesOf(u, prefix, type, sign)' = EntriesOf(u, prefix, type, sign)
      BY <1>1, <1>2, <1>5 DEF EntriesOf
    <2>. QED
      BY <1>3, <1>5, <2>1 DEF Entries
  <1>. QED
    BY <1>4, <1>5

\* What it does to the account.
LEMMA PostAccount ==
    ASSUME LedgerTypeOK, NEW u \in Users, NEW row \in Row, NEW spent \in Int,
           Post(u, row, spent)
    PROVE  /\ Balances' = [Balances EXCEPT ![u] = @ + row.amount]
           /\ Spendings' = [Spendings EXCEPT ![u] = @ + spent]
  <1>1. wallet' = [wallet EXCEPT ![u] =
                      [exists |-> TRUE, balance |-> wallet[u].balance + row.amount,
                       totalSpent |-> wallet[u].totalSpent + spent]]
    BY DEF Post
  <1>2. /\ wallet'[u].balance = wallet[u].balance + row.amount
        /\ wallet'[u].totalSpent = wallet[u].totalSpent + spent
        /\ \A v \in Users \ {u} : wallet'[v] = wallet[v]
    BY <1>1 DEF LedgerTypeOK
  <1>. QED
    BY <1>2 DEF Balances, Spendings

\* An entry of a kind stands for a row of it.
LEMMA EntryHasRow ==
    ASSUME LedgerTypeOK, NEW u \in Users, NEW prefix, NEW type, NEW sign, NEW s, NEW k,
           ~Taken(u, s, <<prefix, k>>)
    PROVE  \A e \in EntriesOf(u, prefix, type, sign) : ~(e.service = s /\ e.key = k)
  <1> SUFFICES ASSUME NEW t \in Rows(u), t.biz[1] = prefix, t.source = s, t.biz[2] = k
               PROVE  FALSE
    BY DEF EntriesOf
  <1>1. t \in Row
    BY DEF LedgerTypeOK, Rows
  <1>2. t.biz = <<t.biz[1], t.biz[2]>>
    BY <1>1 DEF Row, BizIds
  <1>. QED
    BY <1>2 DEF Taken, Find

\* And a charge that backs a row has an entry.
LEMMA BackedHasEntry ==
    ASSUME LedgerTypeOK, NEW u \in Users, NEW s, NEW k, NEW a \in Int, Backed(u, s, k, a)
    PROVE  \E e \in EntriesOf(u, "own", "consume", -1) :
              e.service = s /\ e.key = k /\ a <= e.amount
  <1>1. PICK t \in Rows(u) : t.source = s /\ t.biz = Biz(k) /\ t.type = "consume"
                             /\ a <= -t.amount
    BY DEF Backed
  <1>2. t \in Row
    BY DEF LedgerTypeOK, Rows
  <1>3. Entry3(t, -1) \in EntriesOf(u, "own", "consume", -1)
    BY <1>1 DEF EntriesOf, Entry3, Biz
  <1> DEFINE e == Entry3(t, -1)
  <1>4. e.service = s /\ e.key = k /\ e.amount = -t.amount
    BY <1>1, <1>2 DEF Entry3, Biz, Row
  <1> HIDE DEF e
  <1>. QED
    BY <1>1, <1>3, <1>4 DEF e

LEMMA MoveContract == LedgerTypeOK /\ Move => [Contract!Next]_(Contract!vars)
  <1> SUFFICES ASSUME LedgerTypeOK, Move PROVE Contract!Next \/ UNCHANGED Contract!vars
    OBVIOUS
  <1>0. \A v \in Users : wallet[v].balance \in Int /\ wallet[v].totalSpent \in Int
    BY DEF LedgerTypeOK, Wallet
  <1>1. CASE UNCHANGED <<wallet, txs>> \/ \E u \in Users : EnsureWallet(u)
    <2>1. \A v \in Users : wallet'[v].totalSpent = wallet[v].totalSpent
      <3>1. CASE \E u \in Users : EnsureWallet(u)
        <4>1. PICK u \in Users : EnsureWallet(u)
          BY <3>1
        <4>2. wallet' = [wallet EXCEPT ![u] = [wallet[u] EXCEPT !.exists = TRUE]]
          BY <4>1 DEF EnsureWallet
        <4>3. [wallet[u] EXCEPT !.exists = TRUE].totalSpent = wallet[u].totalSpent
          BY DEF LedgerTypeOK, Wallet
        <4>. QED
          BY <4>2, <4>3 DEF LedgerTypeOK
      <3>. QED
        BY <1>1, <3>1
    <2>2. \A v \in Users : txs'[v] = txs[v] /\ wallet'[v].balance = wallet[v].balance
      BY <1>1, StillLedger
    <2>. QED
      BY <2>1, <2>2 DEF Contract!vars, EntriesOf, Rows
  <1>2. ASSUME NEW u \in Users, NEW s \in Sources, NEW k \in Keys, NEW c \in Nat, NEW q \in Nat,
               ChargeMove(u, s, k, c, q)
        PROVE  Contract!Next
    <2> DEFINE row == Consume(s, k, c, q)
               e == [service |-> s, key |-> k, amount |-> c]
    <2>1. /\ row \in Row /\ row.amount = -c /\ row.type = "consume"
          /\ row.biz[1] = "own" /\ Entry3(row, -1) = e
      <3>1. -1 * (-c) = c
        OBVIOUS
      <3>. QED
        BY <3>1, RowTypes DEF Consume, NewRow, Biz, Entry3
    <2>2. Post(u, row, c) /\ ~Taken(u, s, Biz(k)) /\ wallet[u].balance >= c
      BY <1>2 DEF ChargeMove, Posts, Covers, Consume, NewRow
    <2> HIDE DEF row
    <2>3. /\ Balances' = [Balances EXCEPT ![u] = @ + (-c)]
          /\ Spendings' = [Spendings EXCEPT ![u] = @ + c]
      BY <2>1, <2>2, PostAccount
    <2>4. /\ Entries("own", "consume", -1)' =
                [Entries("own", "consume", -1) EXCEPT ![u] = @ \cup {e}]
          /\ Entries("refund:", "refund", 1)' = Entries("refund:", "refund", 1)
          /\ Entries("settle:", "consume", -1)' = Entries("settle:", "consume", -1)
          /\ Entries("own", "grant", 1)' = Entries("own", "grant", 1)
      BY <2>1, <2>2, PostEntries
    <2>5. \A x \in EntriesOf(u, "own", "consume", -1) : ~(x.service = s /\ x.key = k)
      BY <2>2, EntryHasRow DEF Biz
    <2>6. Balances' = [Balances EXCEPT ![u] = @ - c]
      BY <1>0, <2>3 DEF Balances
    <2>7. Contract!Charge(u, s, k, c)
      BY <2>2, <2>3, <2>4, <2>5, <2>6
         DEF Balances, Spendings, Entries, Contract!Charge, Contract!Of, Contract!Put
    <2>8. e \in Entries("own", "consume", -1)'[u]
      BY <2>4 DEF Entries
    <2>. QED
      BY <2>7, <2>8 DEF Entries, Contract!Next
  <1>3. ASSUME NEW u \in Users, NEW s \in Sources, NEW k \in Keys, NEW a \in Nat,
               RefundMove(u, s, k, a)
        PROVE  Contract!Next
    <2> DEFINE row == Refunded(s, k, a)
               e == [service |-> s, key |-> k, amount |-> a]
    <2>1. /\ row \in Row /\ row.amount = a /\ row.type = "refund"
          /\ row.biz[1] = "refund:" /\ Entry3(row, 1) = e
      <3>1. 1 * a = a
        OBVIOUS
      <3>. QED
        BY <3>1, RowTypes DEF Refunded, NewRow, RefundOf, Entry3
    <2>2. /\ Post(u, row, -a) /\ -a \in Int
          /\ ~Taken(u, s, RefundOf(k)) /\ Backed(u, s, k, a)
      BY <1>3 DEF RefundMove, Posts, Refunded, NewRow
    <2> HIDE DEF row
    <2>3. /\ Balances' = [Balances EXCEPT ![u] = @ + a]
          /\ Spendings' = [Spendings EXCEPT ![u] = @ + (-a)]
      BY <2>1, <2>2, PostAccount
    <2>4. /\ Entries("own", "consume", -1)' = Entries("own", "consume", -1)
          /\ Entries("refund:", "refund", 1)' =
                [Entries("refund:", "refund", 1) EXCEPT ![u] = @ \cup {e}]
          /\ Entries("settle:", "consume", -1)' = Entries("settle:", "consume", -1)
          /\ Entries("own", "grant", 1)' = Entries("own", "grant", 1)
      BY <2>1, <2>2, PostEntries
    <2>5. \A x \in EntriesOf(u, "refund:", "refund", 1) : ~(x.service = s /\ x.key = k)
      BY <2>2, EntryHasRow DEF RefundOf
    <2>6. \E x \in EntriesOf(u, "own", "consume", -1) :
             x.service = s /\ x.key = k /\ a <= x.amount
      BY <2>2, BackedHasEntry
    <2>7. Spendings' = [Spendings EXCEPT ![u] = @ - a]
      BY <1>0, <2>3 DEF Spendings
    <2>8. Contract!Refund(u, s, k, a)
      BY <2>3, <2>4, <2>5, <2>6, <2>7
         DEF Balances, Spendings, Entries, Contract!Refund, Contract!Of, Contract!Put
    <2>9. e \in Entries("refund:", "refund", 1)'[u]
      BY <2>4 DEF Entries
    <2>. QED
      BY <2>8, <2>9 DEF Entries, Contract!Next
  <1>4. ASSUME NEW u \in Users, NEW s \in Sources, NEW k \in Keys, NEW d \in Nat, NEW n \in Nat,
               SettleMove(u, s, k, d, n)
        PROVE  Contract!Next
    <2> DEFINE row == Settled(s, k, d, n)
               e == [service |-> s, key |-> k, amount |-> d]
    <2>1. /\ row \in Row /\ row.amount = -d /\ row.type = "consume"
          /\ row.biz[1] = "settle:" /\ Entry3(row, -1) = e
      <3>1. -1 * (-d) = d
        OBVIOUS
      <3>. QED
        BY <3>1, RowTypes DEF Settled, NewRow, SettleOf, Entry3
    <2>2. /\ Post(u, row, d) /\ ~Taken(u, s, SettleOf(k)) /\ Backed(u, s, k, 0)
      BY <1>4 DEF SettleMove, Posts, Settled, NewRow
    <2> HIDE DEF row
    <2>3. /\ Balances' = [Balances EXCEPT ![u] = @ + (-d)]
          /\ Spendings' = [Spendings EXCEPT ![u] = @ + d]
      BY <2>1, <2>2, PostAccount
    <2>4. /\ Entries("own", "consume", -1)' = Entries("own", "consume", -1)
          /\ Entries("refund:", "refund", 1)' = Entries("refund:", "refund", 1)
          /\ Entries("settle:", "consume", -1)' =
                [Entries("settle:", "consume", -1) EXCEPT ![u] = @ \cup {e}]
          /\ Entries("own", "grant", 1)' = Entries("own", "grant", 1)
      BY <2>1, <2>2, PostEntries
    <2>5. \A x \in EntriesOf(u, "settle:", "consume", -1) : ~(x.service = s /\ x.key = k)
      BY <2>2, EntryHasRow DEF SettleOf
    <2>6. \E x \in EntriesOf(u, "own", "consume", -1) : x.service = s /\ x.key = k
      <3>1. 0 \in Int
        OBVIOUS
      <3>. QED
        BY <2>2, <3>1, BackedHasEntry
    <2>7. Balances' = [Balances EXCEPT ![u] = @ - d]
      BY <1>0, <2>3 DEF Balances
    <2>8. Contract!Settle(u, s, k, d)
      BY <2>3, <2>4, <2>5, <2>6, <2>7
         DEF Balances, Spendings, Entries, Contract!Settle, Contract!Of, Contract!Put
    <2>9. e \in Entries("settle:", "consume", -1)'[u]
      BY <2>4 DEF Entries
    <2>. QED
      BY <2>8, <2>9 DEF Entries, Contract!Next
  <1>5. ASSUME NEW u \in Users, NEW s \in GrantSources, NEW k \in Keys, NEW a \in Nat,
               GrantMove(u, s, k, a)
        PROVE  Contract!Next
    <2> DEFINE row == Granted(s, k, a)
               e == [service |-> s, key |-> k, amount |-> a]
    <2>1. /\ row \in Row /\ row.amount = a /\ row.type = "grant"
          /\ row.biz[1] = "own" /\ Entry3(row, 1) = e
      <3>1. 1 * a = a
        OBVIOUS
      <3>. QED
        BY <3>1, RowTypes DEF Granted, NewRow, Biz, Entry3
    <2>2. /\ Post(u, row, 0) /\ 0 \in Int /\ ~Taken(u, s, Biz(k)) /\ a > 0
      BY <1>5 DEF GrantMove, Posts, Granted, NewRow
    <2> HIDE DEF row
    <2>3. /\ Balances' = [Balances EXCEPT ![u] = @ + a]
          /\ Spendings' = [Spendings EXCEPT ![u] = @ + 0]
      BY <2>1, <2>2, PostAccount
    <2>4. /\ Entries("own", "consume", -1)' = Entries("own", "consume", -1)
          /\ Entries("refund:", "refund", 1)' = Entries("refund:", "refund", 1)
          /\ Entries("settle:", "consume", -1)' = Entries("settle:", "consume", -1)
          /\ Entries("own", "grant", 1)' =
                [Entries("own", "grant", 1) EXCEPT ![u] = @ \cup {e}]
      BY <2>1, <2>2, PostEntries
    <2>5. \A x \in EntriesOf(u, "own", "grant", 1) : ~(x.service = s /\ x.key = k)
      BY <2>2, EntryHasRow DEF Biz
    <2>7. Spendings' = Spendings
      <3>1. Spendings[u] + 0 = Spendings[u]
        BY <1>0 DEF Spendings
      <3>2. Spendings = [Spendings EXCEPT ![u] = Spendings[u]]
        BY DEF Spendings
      <3>. QED
        BY <2>3, <3>1, <3>2
    <2>8. Contract!Grant(u, s, k, a)
      BY <2>2, <2>3, <2>4, <2>5, <2>7
         DEF Balances, Spendings, Entries, Contract!Grant, Contract!Of, Contract!Put
    <2>9. e \in Entries("own", "grant", 1)'[u]
      BY <2>4 DEF Entries
    <2>. QED
      BY <2>8, <2>9 DEF Entries, Contract!Next
  <1>. QED
    BY <1>1, <1>2, <1>3, <1>4, <1>5 DEF Move

\* The credit service, both backends of it, implements CreditSpec: whatever
\* requests are in flight, repeated or cut off, the tables only ever take the
\* steps the contract has, each at most once for a key.
THEOREM ServiceImplements == Spec => Implements
  <1>1. IInv => LedgerTypeOK
    BY DEF IInv, TypeOK
  <1>2. IInv /\ [Next]_vars => [Contract!Next]_(Contract!vars)
    BY <1>1, StepIsMove, MoveContract
  <1>. QED
    BY <1>2, InitIInv, NextIInv, InitContract, PTL DEF Spec, Implements, Contract!Spec
-----------------------------------------------------------------------------
(* Answers: what requests are told. *)

\* The operation of a request that is at a step,
OpFits(step, op) ==
    /\ step \in {"find", "price", "debit", "hitcharge"} => op = "preconsume"
    /\ step = "consume" => op = "refund"
    /\ step \in {"refound", "credit", "hitrefund"} => op \in {"refund", "settle"}
    /\ step \in {"settleconsume", "settlefound", "settle", "hitsettle"} => op = "settle"
    /\ step \in {"grantfound", "grant", "hitgrant"} => op \in {"grant", "bonus"}
    /\ step \in {"wallet", "ensure"} => op = "balance"

KeyTaken(r) == Taken(arg[r].user, arg[r].source, Biz(arg[r].key))

\* the row that it met at the unique index,
HitFits(r, step) ==
    /\ step \in {"hitcharge", "hitgrant"} => KeyTaken(r)
    /\ step = "hitrefund" => Taken(arg[r].user, arg[r].source, RefundOf(arg[r].key))
    /\ step = "hitsettle" => Taken(arg[r].user, arg[r].source, SettleOf(arg[r].key))

\* and the row it may be answered with.
RowFits(r, t) ==
    /\ t.source = arg[r].source
    /\ arg[r].op = "preconsume" => t.biz = Biz(arg[r].key)
    /\ arg[r].op = "refund" => t.biz = RefundOf(arg[r].key)

Replay(r) == late[r] /\ arg[r].op = "preconsume" /\ arg[r].source \in GoSources

OwnAnswer(r) ==
    /\ OpFits(pc[r], arg[r].op)
    /\ HitFits(r, pc[r])
    /\ res[r] # "none" => pc[r] = "done"
    /\ res[r] # "missing"
    /\ res[r] \in {"created", "existing"} => seen[r] \in Rows(arg[r].user) /\ RowFits(r, seen[r])
    /\ late[r] => pc[r] # "idle" /\ KeyTaken(r)
    /\ Replay(r) => pc[r] \in {"find", "done"} /\ res[r] \notin {"insufficient", "noprice"}

\* A refund row is the row of a refund.
FamilyFits == \A u \in Users : \A t \in Rows(u) : t.biz[1] = "refund:" => t.type = "refund"

\* Of two calls for one key one was not charged anew.
CreatedOnce ==
    \A p, q \in Reqs :
        /\ res[p] = "created" /\ res[q] = "created"
        /\ arg[p].op = "preconsume" /\ arg[q].op = "preconsume"
        /\ <<arg[p].user, arg[p].source, arg[p].key>> = <<arg[q].user, arg[q].source, arg[q].key>>
        => p = q

AnswerInv == FamilyFits /\ CreatedOnce /\ \A r \in Reqs : OwnAnswer(r)

\* An answer, and a step, that keep it.
AnswerFits(r, result, row) ==
    /\ result \notin {"missing", "none"}
    /\ result \in {"created", "existing"} => row \in Rows(arg[r].user)' /\ RowFits(r, row)
    /\ result = "created" /\ arg[r].op = "preconsume" => ~KeyTaken(r)
    /\ Replay(r) => result \notin {"insufficient", "noprice"}

StepFits(r, step) ==
    /\ step \notin {"idle", "done"}
    /\ OpFits(step, arg[r].op)
    /\ HitFits(r, step)
    /\ ~Replay(r)

RowsGrow == \A u \in Users : Rows(u) \subseteq Rows(u)'

Untouched(r) ==
    \A q \in Reqs \ {r} : /\ pc'[q] = pc[q] /\ arg'[q] = arg[q] /\ seen'[q] = seen[q]
                          /\ res'[q] = res[q] /\ late'[q] = late[q]

LEMMA TakenStays ==
    ASSUME RowsGrow, NEW u \in Users, NEW s, NEW b, Taken(u, s, b)
    PROVE  Taken(u, s, b)'
  BY DEF RowsGrow, Taken, Find

LEMMA AnswerKeeps ==
    ASSUME ReqTypeOK, RowsGrow, NEW r \in Reqs, arg[r].user \in Users, OwnAnswer(r),
           pc[r] # "idle",
           NEW result \in Results, NEW row, Answer(r, result, row), AnswerFits(r, result, row)
    PROVE  /\ OwnAnswer(r)' /\ Untouched(r) /\ arg'[r] = arg[r]
           /\ res'[r] = "created" /\ arg[r].op = "preconsume" => ~KeyTaken(r)
  <1>1. /\ pc'[r] = "done" /\ res'[r] = result /\ seen'[r] = row /\ arg' = arg /\ late' = late
        /\ Untouched(r)
    BY DEF Answer, Goto, ReqTypeOK, Untouched
  <1>2. OpFits("done", arg[r].op) /\ HitFits(r, "done")'
    BY DEF OpFits, HitFits
  <1>3. late[r] => KeyTaken(r)'
    BY <1>1, TakenStays DEF OwnAnswer, KeyTaken
  <1>4. OwnAnswer(r)'
    BY <1>1, <1>2, <1>3 DEF OwnAnswer, AnswerFits, RowFits, Replay, HitFits, KeyTaken
  <1>. QED
    BY <1>1, <1>4 DEF AnswerFits

LEMMA ContinueKeeps ==
    ASSUME ReqTypeOK, RowsGrow, NEW r \in Reqs, arg[r].user \in Users, OwnAnswer(r),
           pc[r] \notin {"idle", "done"},
           NEW step, NEW row, NEW amount, Continue(r, step, row, amount), StepFits(r, step)
    PROVE  OwnAnswer(r)' /\ Untouched(r) /\ arg'[r] = arg[r] /\ res'[r] = "none"
  <1>1. /\ pc'[r] = step /\ seen'[r] = row /\ arg' = arg /\ res' = res /\ late' = late
        /\ Untouched(r)
    BY DEF Continue, Goto, ReqTypeOK, Untouched
  <1>2. res[r] = "none"
    BY DEF OwnAnswer
  <1>3. late[r] => KeyTaken(r)'
    BY <1>1, TakenStays DEF OwnAnswer, KeyTaken
  <1>4. HitFits(r, step)'
    BY <1>1, TakenStays DEF StepFits, HitFits, KeyTaken
  <1>. QED
    BY <1>1, <1>2, <1>3, <1>4 DEF OwnAnswer, StepFits, Replay, KeyTaken, HitFits

\* What a step of a request must do.
Answers(r) ==
    \/ \E result \in Results : \E row : Answer(r, result, row) /\ AnswerFits(r, result, row)
    \/ \E step, row, amount : Continue(r, step, row, amount) /\ StepFits(r, step)

\* A transaction answers with the row it posted, or met the unique index.
LEMMA TransactAnswers ==
    ASSUME LedgerTypeOK, NEW r \in Reqs, arg[r].user \in Users, ~Replay(r),
           NEW row \in Row, NEW spent \in Int, RowFits(r, row),
           NEW hit \in {"hitcharge", "hitrefund", "hitsettle", "hitgrant"},
           OpFits(hit, arg[r].op), Hits(arg[r].user, row) => HitFits(r, hit),
           Transact(r, row, spent, hit)
    PROVE  Answers(r)
  <1>1. CASE Posts(arg[r].user, row, spent)
             /\ \E result \in {"created", "error"} :
                  Answer(r, result, txs'[arg[r].user][Len(txs'[arg[r].user])])
    <2> DEFINE u == arg[r].user
               new == [row EXCEPT !.balanceAfter = wallet[u].balance + row.amount]
    <2>1. PICK result \in {"created", "error"} : Answer(r, result, txs'[u][Len(txs'[u])])
      BY <1>1
    <2>2. Post(u, row, spent) /\ ~Taken(u, row.source, row.biz)
      BY <1>1 DEF Posts
    <2>3. txs'[u][Len(txs'[u])] = new /\ new \in Rows(u)'
      <3>1. /\ Len(txs'[u]) = Len(txs[u]) + 1
            /\ txs'[u][Len(txs[u]) + 1] = new
        BY <2>2, PostIndex
      <3>2. new \in Rows(u)'
        BY <2>1, <2>2, PostRows DEF Answer
      <3>. QED
        BY <3>1, <3>2
    <2>4. new.source = row.source /\ new.biz = row.biz
      BY DEF Row
    <2> HIDE DEF new
    <2>5. RowFits(r, new)
      BY <2>4 DEF RowFits
    <2>6. arg[r].op = "preconsume" => ~KeyTaken(r)
      BY <2>2 DEF RowFits, KeyTaken
    <2>7. AnswerFits(r, result, new)
      BY <2>3, <2>5, <2>6 DEF AnswerFits
    <2>8. result \in Results
      BY DEF Results
    <2>. QED
      BY <2>1, <2>3, <2>7, <2>8 DEF Answers
  <1>2. CASE Hits(arg[r].user, row) /\ Continue(r, hit, seen[r], amt[r])
    BY <1>2 DEF Answers, StepFits
  <1>. QED
    BY <1>1, <1>2 DEF Transact

\* Every step of a request keeps what it may be told.
LEMMA StepAnswers ==
    ASSUME IInv, FamilyFits, NEW r \in Reqs, OwnAnswer(r), Step(r)
    PROVE  Answers(r) /\ pc[r] \notin {"idle", "done"}
  <1> USE DEF IInv
  <1>1. /\ LedgerTypeOK /\ ReqTypeOK /\ RequestOK(r)
        /\ arg[r] \in Arg /\ Valid(arg[r])
        /\ arg[r].user \in Users /\ arg[r].key \in Keys
        /\ arg[r].source \in Sources \cup GrantSources
        /\ arg[r].qty \in Nat /\ arg[r].amount \in Nat
        /\ amt[r] \in Int /\ seen[r] \in Row \cup {NoRow}
    BY AskedAssumption DEF TypeOK, ReqTypeOK, Arg
  <1> DEFINE u == arg[r].user
             s == arg[r].source
             k == arg[r].key
  <1> SUFFICES Answers(r)
    BY DEF Step, FindCharge, UnitPrice, Debit, FindConsume, FindRefund, Credit, SettleFind,
           FindSettle, SettleDelta, FindGrant, Grant, ReadWallet, CreateWallet, Resolve
  <1>0. OpFits(pc[r], arg[r].op) /\ (Replay(r) => pc[r] \in {"find", "done"})
    BY DEF OwnAnswer
  <1>2. ASSUME NEW result \in Results \ {"none", "created", "existing", "missing"}, NEW row,
               Answer(r, result, row), ~Replay(r)
        PROVE  Answers(r)
    BY <1>2 DEF Answers, AnswerFits
  <1>3. ASSUME NEW b, NEW t \in Find(u, s, b), Answer(r, "existing", t), txs' = txs,
               arg[r].op = "preconsume" => b = Biz(k), arg[r].op = "refund" => b = RefundOf(k)
        PROVE  Answers(r)
    <2>1. t \in Rows(u)' /\ RowFits(r, t)
      BY <1>3 DEF Answer, Find, Rows, RowFits
    <2>2. AnswerFits(r, "existing", t) /\ "existing" \in Results
      BY <2>1 DEF AnswerFits, Results
    <2>. QED
      BY <1>3, <2>2 DEF Answers
  <1>4. ASSUME NEW step, NEW row, NEW amount, Continue(r, step, row, amount), ~Replay(r),
               step \notin {"idle", "done", "hitcharge", "hitrefund", "hitsettle", "hitgrant"},
               OpFits(step, arg[r].op)
        PROVE  Answers(r)
    BY <1>4 DEF Answers, StepFits, HitFits
  <1>5. /\ {"error", "noprice", "insufficient", "notfound", "invalid", "noop"}
              \subseteq Results \ {"none", "created", "existing", "missing"}
        /\ arg[r].op \in {"preconsume", "refund", "settle", "grant", "bonus", "balance"}
    BY <1>1 DEF Results, Arg
  <1>6. ASSUME NEW wanted, RefundFrom(r, wanted), ~Replay(r), arg[r].op \in {"refund", "settle"}
        PROVE  Answers(r)
    <2>1. OpFits("refound", arg[r].op) /\ OpFits("credit", arg[r].op)
      BY <1>6 DEF OpFits
    <2>. QED
      BY <1>2, <1>4, <1>5, <1>6, <2>1 DEF RefundFrom
  <1>7. ASSUME NEW step, NEW b, Resolve(r, step, b), Taken(u, s, b),
               arg[r].op = "preconsume" => b = Biz(k), arg[r].op = "refund" => b = RefundOf(k)
        PROVE  Answers(r)
    BY <1>3, <1>7 DEF Resolve, Taken, ledgerVars
  <1>8. CASE FindCharge(r)
    <2>1. arg[r].op = "preconsume" /\ OpFits("price", arg[r].op)
      BY <1>0, <1>8 DEF FindCharge, OpFits
    <2>2. CASE \E t \in Find(u, s, Biz(k)) : Answer(r, "existing", t)
      BY <1>3, <1>8, <2>1, <2>2 DEF FindCharge, ledgerVars
    <2>3. CASE Find(u, s, Biz(k)) = {} /\ Continue(r, "price", NoRow, 0)
      <3>1. ~Replay(r)
        BY <2>3 DEF Replay, OwnAnswer, KeyTaken, Taken
      <3>. QED
        BY <1>4, <2>1, <2>3, <3>1
    <2>. QED
      BY <1>8, <2>2, <2>3 DEF FindCharge
  <1>9. CASE UnitPrice(r)
    <2>1. ~Replay(r) /\ OpFits("debit", arg[r].op)
      BY <1>0, <1>9 DEF UnitPrice, OpFits
    <2>. QED
      BY <1>2, <1>4, <1>5, <1>9, <2>1 DEF UnitPrice
  <1>10. CASE Debit(r)
    <2> DEFINE row == Consume(s, k, amt[r], arg[r].qty)
    <2>1. /\ ~Replay(r) /\ arg[r].op = "preconsume" /\ OpFits("hitcharge", arg[r].op)
          /\ amt[r] \in Nat
      BY <1>0, <1>1, <1>10 DEF Debit, OpFits, RequestOK
    <2>2. CASE Answer(r, "insufficient", NoRow)
      BY <1>2, <1>5, <2>1, <2>2
    <2>3. CASE Transact(r, row, amt[r], "hitcharge")
      <3>1. row \in Row /\ row.source = s /\ row.biz = Biz(k)
        BY <1>1, RowTypes DEF Consume, NewRow
      <3>2. RowFits(r, row) /\ (Hits(u, row) => HitFits(r, "hitcharge"))
        <4> HIDE DEF row
        <4>. QED
          BY <2>1, <3>1 DEF RowFits, Hits, HitFits, KeyTaken
      <3>. QED
        BY <1>1, <2>1, <2>3, <3>1, <3>2, TransactAnswers
    <2>. QED
      BY <1>10, <2>2, <2>3 DEF Debit
  <1>11. CASE FindConsume(r)
    <2>1. ~Replay(r) /\ arg[r].op = "refund"
      BY <1>0, <1>11 DEF FindConsume, OpFits, Replay
    <2>. QED
      BY <1>6, <1>11, <2>1 DEF FindConsume
  <1>12. CASE FindRefund(r)
    <2>1. ~Replay(r) /\ arg[r].op \in {"refund", "settle"} /\ OpFits("credit", arg[r].op)
      BY <1>0, <1>12 DEF FindRefund, OpFits, Replay
    <2>2. CASE \E t \in Find(u, s, RefundOf(k)) : Answer(r, "existing", t)
      BY <1>3, <1>12, <2>1, <2>2 DEF FindRefund, ledgerVars
    <2>. QED
      BY <1>4, <1>12, <2>1, <2>2 DEF FindRefund
  <1>13. CASE Credit(r)
    <2> DEFINE row == Refunded(s, k, amt[r])
    <2>1. ~Replay(r) /\ arg[r].op \in {"refund", "settle"} /\ OpFits("hitrefund", arg[r].op)
      BY <1>0, <1>13 DEF Credit, OpFits, Replay
    <2>2. CASE Answer(r, "error", NoRow)
      BY <1>2, <1>5, <2>1, <2>2
    <2>3. CASE Transact(r, row, -amt[r], "hitrefund")
      <3>1. row \in Row /\ row.source = s /\ row.biz = RefundOf(k) /\ -amt[r] \in Int
        BY <1>1, RowTypes DEF Refunded, NewRow
      <3>2. RowFits(r, row) /\ (Hits(u, row) => HitFits(r, "hitrefund"))
        <4> HIDE DEF row
        <4>. QED
          BY <2>1, <3>1 DEF RowFits, Hits, HitFits
      <3>. QED
        BY <1>1, <2>1, <2>3, <3>1, <3>2, TransactAnswers
    <2>. QED
      BY <1>13, <2>2, <2>3 DEF Credit
  <1>14. CASE SettleFind(r)
    <2>1. ~Replay(r) /\ arg[r].op = "settle" /\ OpFits("settlefound", arg[r].op)
      BY <1>0, <1>14 DEF SettleFind, OpFits, Replay
    <2>. QED
      BY <1>2, <1>4, <1>5, <1>6, <1>14, <2>1 DEF SettleFind
  <1>15. CASE FindSettle(r)
    <2>1. ~Replay(r) /\ arg[r].op = "settle" /\ OpFits("settle", arg[r].op)
      BY <1>0, <1>15 DEF FindSettle, OpFits, Replay
    <2>2. CASE \E t \in Find(u, s, SettleOf(k)) : Answer(r, "existing", t)
      BY <1>3, <1>15, <2>1, <2>2 DEF FindSettle, ledgerVars
    <2>. QED
      BY <1>4, <1>15, <2>1, <2>2 DEF FindSettle
  <1>16. CASE SettleDelta(r)
    <2> DEFINE n == Actual(arg[r].qty) - PreQty(seen[r])
               row == Settled(s, k, amt[r], n)
    <2>1. /\ ~Replay(r) /\ arg[r].op = "settle" /\ OpFits("hitsettle", arg[r].op)
          /\ n \in Nat
      BY <1>0, <1>1, <1>16 DEF SettleDelta, OpFits, Replay, RequestOK, Settling
    <2>2. CASE Answer(r, "error", NoRow)
      BY <1>2, <1>5, <2>1, <2>2
    <2>3. CASE Transact(r, row, amt[r], "hitsettle")
      <3>1. row \in Row /\ row.source = s /\ row.biz = SettleOf(k)
        BY <1>1, <2>1, RowTypes DEF Settled, NewRow
      <3>2. RowFits(r, row) /\ (Hits(u, row) => HitFits(r, "hitsettle"))
        <4> HIDE DEF row
        <4>. QED
          BY <2>1, <3>1 DEF RowFits, Hits, HitFits
      <3>. QED
        BY <1>1, <2>1, <2>3, <3>1, <3>2, TransactAnswers
    <2>. QED
      BY <1>16, <2>2, <2>3 DEF SettleDelta
  <1>17. CASE FindGrant(r)
    <2>1. ~Replay(r) /\ arg[r].op \in {"grant", "bonus"} /\ OpFits("grant", arg[r].op)
      BY <1>0, <1>17 DEF FindGrant, OpFits, Replay
    <2>2. CASE \E t \in Find(u, s, Biz(k)) : Answer(r, "existing", t)
      BY <1>3, <1>17, <2>1, <2>2 DEF FindGrant, ledgerVars
    <2>. QED
      BY <1>4, <1>17, <2>1, <2>2 DEF FindGrant
  <1>18. CASE Grant(r)
    <2> DEFINE row == Granted(s, k, amt[r])
    <2>1. ~Replay(r) /\ arg[r].op \in {"grant", "bonus"} /\ OpFits("hitgrant", arg[r].op)
      BY <1>0, <1>18 DEF Grant, OpFits, Replay
    <2>2. row \in Row /\ row.source = s /\ row.biz = Biz(k) /\ 0 \in Int
      BY <1>1, RowTypes DEF Granted, NewRow
    <2>3. RowFits(r, row) /\ (Hits(u, row) => HitFits(r, "hitgrant"))
      <3> HIDE DEF row
      <3>. QED
        BY <2>1, <2>2 DEF RowFits, Hits, HitFits, KeyTaken
    <2>4. Transact(r, row, 0, "hitgrant")
      BY <1>18 DEF Grant
    <2>. QED
      BY <1>1, <2>1, <2>2, <2>3, <2>4, TransactAnswers
  <1>19. CASE ReadWallet(r)
    <2>1. ~Replay(r) /\ OpFits("ensure", arg[r].op)
      BY <1>0, <1>19 DEF ReadWallet, OpFits, Replay
    <2>. QED
      BY <1>2, <1>4, <1>5, <1>19, <2>1 DEF ReadWallet
  <1>20. CASE CreateWallet(r)
    <2>1. ~Replay(r)
      BY <1>0, <1>20 DEF CreateWallet
    <2>. QED
      BY <1>2, <1>5, <1>20, <2>1 DEF CreateWallet
  <1>21. CASE Resolve(r, "hitcharge", Biz(k))
    <2>1. Taken(u, s, Biz(k)) /\ arg[r].op = "preconsume"
      BY <1>0, <1>21 DEF Resolve, OwnAnswer, HitFits, KeyTaken, OpFits
    <2>. QED
      BY <1>7, <1>21, <2>1
  <1>22. CASE Resolve(r, "hitrefund", RefundOf(k))
    <2>1. Taken(u, s, RefundOf(k)) /\ arg[r].op \in {"refund", "settle"}
      BY <1>0, <1>22 DEF Resolve, OwnAnswer, HitFits, OpFits
    <2>. QED
      BY <1>7, <1>22, <2>1
  <1>23. CASE Resolve(r, "hitsettle", SettleOf(k))
    <2>1. Taken(u, s, SettleOf(k)) /\ arg[r].op = "settle"
      BY <1>0, <1>23 DEF Resolve, OwnAnswer, HitFits, OpFits
    <2>. QED
      BY <1>7, <1>23, <2>1
  <1>24. CASE Resolve(r, "hitgrant", Biz(k))
    <2>1. Taken(u, s, Biz(k)) /\ arg[r].op \in {"grant", "bonus"}
      BY <1>0, <1>24 DEF Resolve, OwnAnswer, HitFits, KeyTaken, OpFits
    <2>. QED
      BY <1>7, <1>24, <2>1
  <1>. QED
    BY <1>8, <1>9, <1>10, <1>11, <1>12, <1>13, <1>14, <1>15, <1>16, <1>17, <1>18, <1>19,
       <1>20, <1>21, <1>22, <1>23, <1>24 DEF Step

\* A row of the refund family is posted by refunds only.
LEMMA FamilyKept ==
    ASSUME LedgerTypeOK, Move, FamilyFits PROVE FamilyFits'
  <1>1. CASE UNCHANGED <<wallet, txs>> \/ \E u \in Users : EnsureWallet(u)
    BY <1>1 DEF FamilyFits, Rows, EnsureWallet
  <1>2. ASSUME NEW u \in Users, NEW row \in Row, NEW spent \in Int, Posts(u, row, spent),
               row.biz[1] = "refund:" => row.type = "refund"
        PROVE  FamilyFits'
    <2> DEFINE new == [row EXCEPT !.balanceAfter = wallet[u].balance + row.amount]
    <2>1. Rows(u)' = Rows(u) \cup {new} /\ \A v \in Users \ {u} : Rows(v)' = Rows(v)
      BY <1>2, PostRows DEF Posts
    <2>2. new.biz = row.biz /\ new.type = row.type
      BY DEF Row
    <2> HIDE DEF new
    <2>. QED
      BY <1>2, <2>1, <2>2 DEF FamilyFits
  <1>3. ASSUME NEW u \in Users, NEW s \in Sources, NEW k \in Keys,
               (\E c, q \in Nat : ChargeMove(u, s, k, c, q))
               \/ (\E a \in Nat : RefundMove(u, s, k, a))
               \/ (\E d, m \in Nat : SettleMove(u, s, k, d, m))
        PROVE  FamilyFits'
    <2>1. ASSUME NEW c \in Nat, NEW q \in Nat, ChargeMove(u, s, k, c, q) PROVE FamilyFits'
      <3>1. Consume(s, k, c, q) \in Row /\ Consume(s, k, c, q).biz[1] # "refund:"
        BY RowTypes DEF Consume, NewRow, Biz
      <3>2. Posts(u, Consume(s, k, c, q), c) /\ c \in Int
        BY <2>1 DEF ChargeMove
      <3>. QED
        BY <1>2, <3>1, <3>2
    <2>2. ASSUME NEW a \in Nat, RefundMove(u, s, k, a) PROVE FamilyFits'
      <3>1. Refunded(s, k, a) \in Row /\ Refunded(s, k, a).type = "refund" /\ -a \in Int
        BY RowTypes DEF Refunded, NewRow
      <3>2. Posts(u, Refunded(s, k, a), -a)
        BY <2>2 DEF RefundMove
      <3>. QED
        BY <1>2, <3>1, <3>2
    <2>3. ASSUME NEW d \in Nat, NEW m \in Nat, SettleMove(u, s, k, d, m) PROVE FamilyFits'
      <3>1. Settled(s, k, d, m) \in Row /\ Settled(s, k, d, m).biz[1] # "refund:"
        BY RowTypes DEF Settled, NewRow, SettleOf
      <3>2. Posts(u, Settled(s, k, d, m), d) /\ d \in Int
        BY <2>3 DEF SettleMove
      <3>. QED
        BY <1>2, <3>1, <3>2
    <2>. QED
      BY <1>3, <2>1, <2>2, <2>3
  <1>4. ASSUME NEW u \in Users, NEW s \in GrantSources, NEW k \in Keys, NEW a \in Nat,
               GrantMove(u, s, k, a)
        PROVE  FamilyFits'
    <2>1. Granted(s, k, a) \in Row /\ Granted(s, k, a).biz[1] # "refund:" /\ 0 \in Int
      BY RowTypes DEF Granted, NewRow, Biz
    <2>2. Posts(u, Granted(s, k, a), 0)
      BY <1>4 DEF GrantMove
    <2>. QED
      BY <1>2, <2>1, <2>2
  <1>. QED
    BY <1>1, <1>3, <1>4 DEF Move

LEMMA InitAnswers == Init => AnswerInv
  BY DEF Init, LedgerInit, AnswerInv, FamilyFits, CreatedOnce, OwnAnswer, OpFits, HitFits,
         Replay, Rows

LEMMA NextAnswers == IInv /\ AnswerInv /\ [Next]_vars => AnswerInv'
  <1> SUFFICES ASSUME IInv, AnswerInv, [Next]_vars PROVE AnswerInv'
    OBVIOUS
  <1>1. LedgerTypeOK /\ ReqTypeOK /\ ChargesTake
    BY DEF IInv, TypeOK, ReqTypeOK
  <1>2. RowsGrow
    BY <1>1, StepIsMove, MoveKeeps DEF RowsGrow
  <1>3. FamilyFits'
    BY <1>1, StepIsMove, FamilyKept DEF AnswerInv
  <1>4. ASSUME NEW q \in Reqs
        PROVE  /\ arg[q] \in Arg /\ Valid(arg[q]) /\ arg[q].user \in Users /\ OwnAnswer(q)
    BY <1>1, AskedAssumption DEF ReqTypeOK, Arg, AnswerInv
  <1>5. ASSUME NEW q \in Reqs, pc'[q] = pc[q], arg'[q] = arg[q], seen'[q] = seen[q],
               res'[q] = res[q], late'[q] = late[q]
        PROVE  OwnAnswer(q)'
    <2>1. \A s, b : Taken(arg[q].user, s, b) => Taken(arg[q].user, s, b)'
      BY <1>2, <1>4, <1>5, TakenStays DEF Taken, Find, Rows
    <2>2. Rows(arg[q].user) \subseteq Rows(arg[q].user)'
      BY <1>2, <1>4, <1>5 DEF RowsGrow, Rows
    <2>3. (KeyTaken(q) => KeyTaken(q)') /\ (HitFits(q, pc[q]) => HitFits(q, pc[q])')
      BY <1>5, <2>1 DEF KeyTaken, HitFits
    <2>. QED
      BY <1>4, <1>5, <2>2, <2>3 DEF OwnAnswer, RowFits, Replay
  <1>6. ASSUME NEW r \in Reqs, Untouched(r), OwnAnswer(r)', arg'[r] = arg[r],
               res'[r] = "created" /\ arg[r].op = "preconsume" => ~KeyTaken(r)
        PROVE  AnswerInv'
    <2>1. \A q \in Reqs : OwnAnswer(q)'
      BY <1>5, <1>6 DEF Untouched
    <2>2. ASSUME NEW q \in Reqs \ {r}, res[q] = "created", res'[r] = "created",
                 arg[r].op = "preconsume", arg[q].op = "preconsume",
                 arg[q].user = arg[r].user, arg[q].source = arg[r].source, arg[q].key = arg[r].key
          PROVE  FALSE
      BY <1>4, <1>6, <2>2 DEF OwnAnswer, RowFits, KeyTaken, Taken, Find
    <2>3. CreatedOnce'
      BY <1>6, <2>2 DEF CreatedOnce, AnswerInv, Untouched
    <2>. QED
      BY <1>3, <2>1, <2>3 DEF AnswerInv
  <1>7. ASSUME UNCHANGED reqVars PROVE AnswerInv'
    <2>1. \A q \in Reqs : OwnAnswer(q)'
      BY <1>5, <1>7 DEF reqVars
    <2>. QED
      BY <1>3, <1>7, <2>1 DEF AnswerInv, CreatedOnce, reqVars
  <1>8. ASSUME NEW r \in Reqs, Answers(r), pc[r] \notin {"idle", "done"} PROVE AnswerInv'
    <2>1. CASE \E result \in Results : \E row : Answer(r, result, row) /\ AnswerFits(r, result, row)
      BY <1>1, <1>2, <1>4, <1>6, <1>8, <2>1, AnswerKeeps
    <2>2. CASE \E step, row, amount : Continue(r, step, row, amount) /\ StepFits(r, step)
      BY <1>1, <1>2, <1>4, <1>6, <1>8, <2>2, ContinueKeeps
    <2>. QED
      BY <1>8, <2>1, <2>2 DEF Answers
  <1>9. ASSUME NEW r \in Reqs, NEW a \in Asked, Call(r, a) PROVE AnswerInv'
    <2>1. a \in Arg /\ Valid(a)
      BY AskedAssumption
    <2>2. /\ pc[r] = "idle" /\ pc'[r] = Entry(a) /\ arg'[r] = a /\ res' = res /\ seen' = seen
          /\ late'[r] = Taken(a.user, a.source, Biz(a.key)) /\ txs' = txs
          /\ Untouched(r)
      BY <1>1, <1>9 DEF Call, Goto, ReqTypeOK, Untouched
    <2>3. res[r] = "none"
      BY <1>4, <2>2 DEF OwnAnswer
    <2>4. /\ OpFits(Entry(a), a.op) /\ Entry(a) \notin {"idle", "hitcharge", "hitrefund",
                                                        "hitsettle", "hitgrant"}
          /\ a.op = "preconsume" /\ a.source \in GoSources => Entry(a) = "find"
      BY <2>1 DEF Entry, OpFits, Arg
    <2>5. late'[r] => KeyTaken(r)'
      <3>1. ASSUME NEW u, NEW src, NEW b PROVE Taken(u, src, b) => Taken(u, src, b)'
        BY <2>2 DEF Taken, Find, Rows
      <3>. QED
        BY <2>2, <3>1 DEF KeyTaken
    <2>6. OwnAnswer(r)'
      BY <2>2, <2>3, <2>4, <2>5 DEF OwnAnswer, HitFits, Replay
    <2>7. \A q \in Reqs : OwnAnswer(q)'
      BY <1>5, <2>2, <2>6 DEF Untouched
    <2>8. CreatedOnce'
      BY <2>2, <2>3 DEF CreatedOnce, AnswerInv, Untouched
    <2>. QED
      BY <1>3, <2>7, <2>8 DEF AnswerInv
  <1>10. ASSUME NEW r \in Reqs, Fail(r) PROVE AnswerInv'
    <2>1. AnswerFits(r, "error", NoRow) /\ "error" \in Results
      BY DEF AnswerFits, Results
    <2>. QED
      BY <1>8, <1>10, <2>1 DEF Fail, Answers
  <1>11. ASSUME NEW r \in Reqs, Step(r) PROVE AnswerInv'
    BY <1>4, <1>8, <1>11, StepAnswers DEF AnswerInv
  <1>12. CASE UNCHANGED vars
    BY <1>7, <1>12 DEF vars, reqVars
  <1>. QED
    BY <1>7, <1>9, <1>10, <1>11, <1>12 DEF Next

\* Two rows of one key are one row.
LEMMA KeyHasOneRow ==
    ASSUME OneRowPerKey, NEW u \in Users, NEW x \in Rows(u), NEW y \in Rows(u),
           x.source = y.source, x.biz = y.biz
    PROVE  x = y
  BY DEF OneRowPerKey, OneRowOf, Rows

\* Of all the requests that send one key, however they interleave, one at most
\* is told that it made the charge, and the others are shown that same charge.
THEOREM OneIsTold == Spec => []ChargedOnce
  <1>1. IInv /\ AnswerInv /\ OneRowPerKey => ChargedOnce
    <2> SUFFICES ASSUME IInv, AnswerInv, OneRowPerKey, NEW p \in Reqs, NEW q \in Reqs, p # q,
                        {res[p], res[q]} \subseteq {"created", "existing"},
                        arg[p].op = "preconsume", arg[q].op = "preconsume",
                        arg[p].user = arg[q].user, arg[p].source = arg[q].source,
                        arg[p].key = arg[q].key
                 PROVE  seen[p] = seen[q] /\ {res[p], res[q]} # {"created"}
      BY DEF ChargedOnce
    <2>1. arg[p].user \in Users
      BY AskedAssumption DEF IInv, TypeOK, Arg
    <2>2. /\ seen[p] \in Rows(arg[p].user) /\ seen[q] \in Rows(arg[p].user)
          /\ seen[p].source = seen[q].source /\ seen[p].biz = seen[q].biz
      BY DEF AnswerInv, OwnAnswer, RowFits
    <2>3. ~(res[p] = "created" /\ res[q] = "created")
      BY DEF AnswerInv, CreatedOnce
    <2>. QED
      BY <2>1, <2>2, <2>3, KeyHasOneRow
  <1>2. IInv /\ OneRowPerKey /\ [Next]_vars => OneRowPerKey'
    <2>1. IInv => LedgerTypeOK
      BY DEF IInv, TypeOK
    <2>. QED
      BY <2>1, StepIsMove, OneRowKept
  <1>. QED
    BY <1>1, <1>2, InitIInv, NextIInv, LedgerInitially, InitAnswers, NextAnswers, PTL DEF Spec

\* Whoever meets the unique index finds the row that beat it, and a refund is
\* answered with the refund of its own key.
THEOREM HitsAreAnswered == Spec => []HitAnswersOwnRow
  <1>1. IInv /\ AnswerInv => HitAnswersOwnRow
    <2> SUFFICES ASSUME IInv, AnswerInv, NEW r \in Reqs
                 PROVE  /\ res[r] # "missing"
                        /\ arg[r].op = "refund" /\ res[r] \in {"created", "existing"} =>
                              /\ seen[r].biz = RefundOf(arg[r].key)
                              /\ seen[r].type = "refund"
      BY DEF HitAnswersOwnRow
    <2>1. arg[r].user \in Users /\ RefundOf(arg[r].key)[1] = "refund:"
      BY AskedAssumption DEF IInv, TypeOK, Arg, RefundOf
    <2>. QED
      BY <2>1 DEF AnswerInv, OwnAnswer, RowFits, FamilyFits
  <1>. QED
    BY <1>1, InitIInv, NextIInv, InitAnswers, NextAnswers, PTL DEF Spec

\* A Go call whose key was charged before it came never hears that the wallet
\* is empty or the price gone.
THEOREM ReplaysHonoured == Spec => []ReplayHonouredGo
  <1>1. AnswerInv => ReplayHonouredGo
    BY DEF AnswerInv, OwnAnswer, Replay, ReplayHonouredGo
  <1>. QED
    BY <1>1, InitIInv, NextIInv, InitAnswers, NextAnswers, PTL DEF Spec
=============================================================================
