---------------------------- MODULE CreditService ----------------------------
(***************************************************************************)
(* The public operations of the credit service (Go: CreditService; Python: *)
(* preconsume and refund), as requests that run concurrently against the   *)
(* tables of CreditLedger.  A request is a sequence of steps: each look-up *)
(* and each database transaction is one, and other requests run between    *)
(* any two of them.  A service is billed by the backend that owns it       *)
(* (GoSources, PySources); both backends write the same wallet.            *)
(*                                                                         *)
(* Users may have any number of requests in flight, with equal keys too.   *)
(* A request may fail before any of its steps (the database is away, the   *)
(* process dies), and the answer of a transaction that did commit may be   *)
(* lost.                                                                   *)
(***************************************************************************)
EXTENDS CreditLedger

CONSTANTS
    Reqs,        \* requests
    BonusKey,    \* the key GrantRegisterBonus derives from the user id
    Asked        \* what callers ask for

Arg ==
    [op : {"preconsume", "refund", "settle"}, user : Users, source : Sources,
     key : Keys, qty : Nat, amount : Nat]
    \cup
    [op : {"grant", "bonus", "balance"}, user : Users, source : GrantSources,
     key : Keys, qty : Nat, amount : Nat]

\* qty <= 0 and a grant of nothing are refused at the door; only Go settles,
\* and only Go refunds in part (amount 0 asks for all); the bonus has a fixed
\* channel, key and amount.
Valid(a) ==
    /\ a.op = "preconsume" => a.qty > 0
    /\ a.op \in {"grant", "bonus"} => a.amount > 0
    /\ a.op = "settle" => a.source \in GoSources
    /\ a.op = "refund" /\ a.source \in PySources => a.amount = 0
    /\ a.op = "grant" => a.source = "admin_grant"
    /\ a.op = "bonus" => a.source = "register_bonus" /\ a.key = BonusKey

ASSUME AskedAssumption ==
    /\ BonusKey \in Keys
    /\ Asked # {}
    /\ \A a \in Asked : a \in Arg /\ Valid(a)

VARIABLES
    pc,          \* the step each request is at
    arg,         \* what it was asked
    seen,        \* the row it last read, or the row it answers with
    amt,         \* the amount it has worked out
    res,         \* how it ended
    late         \* history: the key was charged before the request came

reqVars == <<pc, arg, seen, amt, res, late>>
vars == <<wallet, txs, price, pc, arg, seen, amt, res, late>>

NoRow == [source |-> "none", biz |-> <<"own", BonusKey>>, type |-> "consume",
          amount |-> 0, qty |-> 0, balanceAfter |-> 0]

Results == {"none", "created", "existing", "noop", "insufficient", "noprice",
            "notfound", "invalid", "error", "missing"}

Steps == {"idle", "find", "price", "debit",              \* Preconsume
          "consume", "refound", "credit",                \* Refund
          "settleconsume", "settlefound", "settle",      \* Settle
          "grantfound", "grant",                         \* Grant
          "wallet", "ensure",                            \* GetBalance
          "hitcharge", "hitrefund", "hitsettle", "hitgrant",
          "done"}

TypeOK ==
    /\ LedgerTypeOK
    /\ pc \in [Reqs -> Steps]
    /\ arg \in [Reqs -> Asked]
    /\ seen \in [Reqs -> Row \cup {NoRow}]
    /\ amt \in [Reqs -> Int]
    /\ res \in [Reqs -> Results]
    /\ late \in [Reqs -> BOOLEAN]

Init ==
    /\ LedgerInit
    /\ pc = [r \in Reqs |-> "idle"]
    /\ arg = [r \in Reqs |-> CHOOSE a \in Asked : TRUE]
    /\ seen = [r \in Reqs |-> NoRow]
    /\ amt = [r \in Reqs |-> 0]
    /\ res = [r \in Reqs |-> "none"]
    /\ late = [r \in Reqs |-> FALSE]

-----------------------------------------------------------------------------
(* Control of a request *)

Goto(r, step) == pc' = [pc EXCEPT ![r] = step]

\* The request answers with a result and a row.
Answer(r, result, row) ==
    /\ Goto(r, "done")
    /\ res' = [res EXCEPT ![r] = result]
    /\ seen' = [seen EXCEPT ![r] = row]
    /\ UNCHANGED <<arg, amt, late>>

\* The request goes on, having read a row and worked out an amount.
Continue(r, step, row, amount) ==
    /\ Goto(r, step)
    /\ seen' = [seen EXCEPT ![r] = row]
    /\ amt' = [amt EXCEPT ![r] = amount]
    /\ UNCHANGED <<arg, res, late>>

\* Mutant: no fast path, the wallet is asked before the key.
EntryStraightToPrice(a) ==
    CASE a.op = "preconsume" -> "price"
      [] a.op = "refund"     -> "consume"
      [] a.op = "settle"     -> "settleconsume"
      [] a.op = "balance"    -> "wallet"
      [] OTHER               -> "grantfound"

\* First steps of the operations.  Only the Go Preconsume looks the key up
\* before it touches the wallet.
Entry(a) ==
    CASE a.op = "preconsume" -> IF a.source \in GoSources THEN "find" ELSE "price"
      [] a.op = "refund"     -> "consume"
      [] a.op = "settle"     -> "settleconsume"
      [] a.op = "balance"    -> "wallet"
      [] OTHER               -> "grantfound"

Call(r, a) ==
    /\ pc[r] = "idle"
    /\ Goto(r, Entry(a))
    /\ arg' = [arg EXCEPT ![r] = a]
    /\ late' = [late EXCEPT ![r] = Taken(a.user, a.source, Biz(a.key))]
    /\ UNCHANGED <<wallet, txs, price, seen, amt, res>>

\* The request dies: an error of the database, a cancelled context, a crash.
Fail(r) ==
    /\ pc[r] \notin {"idle", "done"}
    /\ Answer(r, "error", NoRow)
    /\ UNCHANGED ledgerVars

-----------------------------------------------------------------------------
(* The transactions of a request.  An insert that met the unique index has  *)
(* rolled everything back, and the first row is looked up next.            *)

Transact(r, row, spent, hit) ==
    \/ /\ Posts(arg[r].user, row, spent)
       /\ \E result \in {"created", "error"} :
            Answer(r, result, txs'[arg[r].user][Len(txs'[arg[r].user])])
    \/ /\ Hits(arg[r].user, row)
       /\ Continue(r, hit, seen[r], amt[r])

\* Mutant: the look-up after a conflict uses the client's key.
ResolveByClientKey(r, step, b) ==
    /\ pc[r] = step
    /\ \E t \in Find(arg[r].user, arg[r].source, Biz(arg[r].key)) : Answer(r, "existing", t)
    /\ UNCHANGED ledgerVars

\* resolveIdempotentHit, and the re-read after IntegrityError.
Resolve(r, step, b) ==
    LET rows == Find(arg[r].user, arg[r].source, b)
    IN  /\ pc[r] = step
        /\ \/ \E t \in rows : Answer(r, "existing", t)
           \/ rows = {} /\ Answer(r, "missing", NoRow)
        /\ UNCHANGED ledgerVars

-----------------------------------------------------------------------------
(* Preconsume *)

FindCharge(r) ==
    LET rows == Find(arg[r].user, arg[r].source, Biz(arg[r].key))
    IN  /\ pc[r] = "find"
        /\ \/ \E t \in rows : Answer(r, "existing", t)
           \/ rows = {} /\ Continue(r, "price", NoRow, 0)
        /\ UNCHANGED ledgerVars

UnitPrice(r) ==
    /\ pc[r] = "price"
    /\ IF price[arg[r].source] = NoPrice
       THEN Answer(r, "noprice", NoRow)
       ELSE Continue(r, "debit", NoRow, price[arg[r].source] * arg[r].qty)
    /\ UNCHANGED ledgerVars

Debit(r) ==
    /\ pc[r] = "debit"
    /\ \/ /\ ~Covers(arg[r].user, amt[r])
          /\ Answer(r, "insufficient", NoRow)
          /\ UNCHANGED ledgerVars
       \/ /\ Covers(arg[r].user, amt[r])
          /\ Transact(r, Consume(arg[r].source, arg[r].key, amt[r], arg[r].qty),
                      amt[r], "hitcharge")

-----------------------------------------------------------------------------
(* Refund *)

\* The consume row of a request, if the key has one; 0 stands for "all".  Only
\* Python refuses to give back a charge of nothing.
ConsumeRows(r) ==
    {t \in Find(arg[r].user, arg[r].source, Biz(arg[r].key)) : t.type = "consume"}

\* Mutant: a refund is not compared with the charge.
RefundUnchecked(r, wanted) ==
    \/ ConsumeRows(r) = {} /\ Answer(r, "notfound", NoRow)
    \/ \E t \in ConsumeRows(r) :
          Continue(r, "credit", t, IF wanted = 0 THEN -t.amount ELSE wanted)

RefundFrom(r, wanted) ==
    \/ /\ ConsumeRows(r) = {}
       /\ Answer(r, "notfound", NoRow)
    \/ \E t \in ConsumeRows(r) :
          LET amount == IF wanted = 0 THEN -t.amount ELSE wanted
          IN  IF amount > -t.amount \/ (amount = 0 /\ arg[r].source \in PySources)
              THEN Answer(r, "invalid", NoRow)
              ELSE Continue(r, IF arg[r].source \in GoSources THEN "refound" ELSE "credit",
                            t, amount)

FindConsume(r) ==
    /\ pc[r] = "consume"
    /\ RefundFrom(r, arg[r].amount)
    /\ UNCHANGED ledgerVars

FindRefund(r) ==
    LET rows == Find(arg[r].user, arg[r].source, RefundOf(arg[r].key))
    IN  /\ pc[r] = "refound"
        /\ \/ \E t \in rows : Answer(r, "existing", t)
           \/ rows = {} /\ Continue(r, "credit", seen[r], amt[r])
        /\ UNCHANGED ledgerVars

Credit(r) ==
    /\ pc[r] = "credit"
    /\ \/ /\ ~RefundApplies(arg[r].user, arg[r].source, amt[r])
          /\ Answer(r, "error", NoRow)
          /\ UNCHANGED ledgerVars
       \/ /\ RefundApplies(arg[r].user, arg[r].source, amt[r])
          /\ Transact(r, Refunded(arg[r].source, arg[r].key, amt[r]), -amt[r], "hitrefund")

-----------------------------------------------------------------------------
(* Settle *)

\* PreconsumedQty: a row without a quantity counts as one.
PreQty(t) == IF t.qty > 0 THEN t.qty ELSE 1
Actual(q) == IF q > 0 THEN q ELSE 1

Unit(t) == (-t.amount) \div PreQty(t)

SettleFind(r) ==
    /\ pc[r] = "settleconsume"
    /\ \/ ConsumeRows(r) = {} /\ Answer(r, "notfound", NoRow)
       \/ \E t \in ConsumeRows(r) :
            LET extra == Actual(arg[r].qty) - PreQty(t)
            IN  \/ extra = 0 /\ Answer(r, "noop", t)
                \/ extra < 0 /\ RefundFrom(r, Unit(t) * (-extra))
                \/ extra > 0 /\ Continue(r, "settlefound", t, Unit(t) * extra)
    /\ UNCHANGED ledgerVars

FindSettle(r) ==
    LET rows == Find(arg[r].user, arg[r].source, SettleOf(arg[r].key))
    IN  /\ pc[r] = "settlefound"
        /\ \/ \E t \in rows : Answer(r, "existing", t)
           \/ rows = {} /\ Continue(r, "settle", seen[r], amt[r])
        /\ UNCHANGED ledgerVars

\* Mutant: the difference of the settled quantity the wrong way round.
SettleDeltaSwapped(r) ==
    /\ pc[r] = "settle"
    /\ wallet[arg[r].user].exists
    /\ Transact(r, Settled(arg[r].source, arg[r].key, amt[r],
                           PreQty(seen[r]) - Actual(arg[r].qty)), amt[r], "hitsettle")

\* Mutant: a settlement takes from the balance but is not counted as spent.
SettleDeltaUnspent(r) ==
    /\ pc[r] = "settle"
    /\ wallet[arg[r].user].exists
    /\ Transact(r, Settled(arg[r].source, arg[r].key, amt[r],
                           Actual(arg[r].qty) - PreQty(seen[r])), 0, "hitsettle")

SettleDelta(r) ==
    /\ pc[r] = "settle"
    /\ \/ ~wallet[arg[r].user].exists /\ Answer(r, "error", NoRow) /\ UNCHANGED ledgerVars
       \/ /\ wallet[arg[r].user].exists
          /\ Transact(r, Settled(arg[r].source, arg[r].key, amt[r],
                                 Actual(arg[r].qty) - PreQty(seen[r])),
                      amt[r], "hitsettle")

-----------------------------------------------------------------------------
(* Grant, GrantRegisterBonus, GetBalance *)

FindGrant(r) ==
    LET rows == Find(arg[r].user, arg[r].source, Biz(arg[r].key))
    IN  /\ pc[r] = "grantfound"
        /\ \/ \E t \in rows : Answer(r, "existing", t)
           \/ rows = {} /\ Continue(r, "grant", NoRow, arg[r].amount)
        /\ UNCHANGED ledgerVars

Grant(r) ==
    /\ pc[r] = "grant"
    /\ Transact(r, Granted(arg[r].source, arg[r].key, amt[r]), 0, "hitgrant")

ReadWallet(r) ==
    /\ pc[r] = "wallet"
    /\ IF wallet[arg[r].user].exists
       THEN Answer(r, "noop", NoRow)
       ELSE Continue(r, "ensure", NoRow, 0)
    /\ UNCHANGED ledgerVars

CreateWallet(r) ==
    /\ pc[r] = "ensure"
    /\ EnsureWallet(arg[r].user)
    /\ Answer(r, "noop", NoRow)

-----------------------------------------------------------------------------

Step(r) ==
    \/ FindCharge(r)  \/ UnitPrice(r)  \/ Debit(r)
    \/ FindConsume(r) \/ FindRefund(r) \/ Credit(r)
    \/ SettleFind(r)  \/ FindSettle(r) \/ SettleDelta(r)
    \/ FindGrant(r)   \/ Grant(r)
    \/ ReadWallet(r)  \/ CreateWallet(r)
    \/ Resolve(r, "hitcharge", Biz(arg[r].key))
    \/ Resolve(r, "hitrefund", RefundOf(arg[r].key))
    \/ Resolve(r, "hitsettle", SettleOf(arg[r].key))
    \/ Resolve(r, "hitgrant",  Biz(arg[r].key))

Next ==
    \/ \E r \in Reqs : (\E a \in Asked : Call(r, a)) \/ Step(r) \/ Fail(r)
    \/ /\ \E s \in Sources, p \in Prices \cup {NoPrice} : Reprice(s, p)
       /\ UNCHANGED reqVars

Spec == Init /\ [][Next]_vars

-----------------------------------------------------------------------------
(* Properties *)

\* The running balance of the ledger is right at every row, and the wallet
\* agrees with the last one: however requests of the two backends interleave,
\* no update of the wallet is lost and none is left without its row
\* (balanceAfter; GetOrCreateWallet never puts an empty wallet over a full one).
LedgerChain ==
    \A u \in Users :
        /\ \A i \in DOMAIN txs[u] :
              txs[u][i].balanceAfter =
                 txs[u][i].amount + (IF i = 1 THEN 0 ELSE txs[u][i-1].balanceAfter)
        /\ wallet[u].balance =
              IF txs[u] = <<>> THEN 0 ELSE txs[u][Len(txs[u])].balanceAfter

\* total_spent is what the rows say: consumption less what was given back.
NetSpent ==
    \A u \in Users : wallet[u].totalSpent = SumFunction(SpentBy(u))

\* A refund follows the charge it undoes and gives back no more than it took,
\* and a settlement follows the charge it completes.
RefundCovered ==
    \A u \in Users : \A i \in DOMAIN txs[u] :
        LET t == txs[u][i] IN
        t.biz[1] \in {"refund:", "settle:"} =>
            \E j \in 1..(i-1) :
                /\ txs[u][j].source = t.source
                /\ txs[u][j].biz = Biz(t.biz[2])
                /\ txs[u][j].type = "consume"
                /\ t.biz[1] = "refund:" => t.amount <= -txs[u][j].amount

\* The total_spent guard of the Go refund is a safety net: it never refuses a
\* refund that is due, in whatever order charges, settlements and refunds of
\* the same wallet ran.
RefundNeverRefused ==
    \A r \in Reqs :
        pc[r] = "credit" /\ ~Taken(arg[r].user, arg[r].source, RefundOf(arg[r].key))
            => RefundApplies(arg[r].user, arg[r].source, amt[r])

\* Of the requests for one key at most one is told it was charged anew (only
\* that one may hang a refund on its failure), and every request that is
\* answered with a row got the same row.
ChargedOnce ==
    \A p, q \in Reqs :
        /\ p # q
        /\ {res[p], res[q]} \subseteq {"created", "existing"}
        /\ arg[p].op = "preconsume" /\ arg[q].op = "preconsume"
        /\ <<arg[p].user, arg[p].source, arg[p].key>> = <<arg[q].user, arg[q].source, arg[q].key>>
        => seen[p] = seen[q] /\ {res[p], res[q]} # {"created"}

\* A request that meets the unique index finds the row that beat it, and it is
\* the row of its own key (never "idempotent hit but transaction missing").
HitAnswersOwnRow ==
    \A r \in Reqs :
        /\ res[r] # "missing"
        /\ arg[r].op = "refund" /\ res[r] \in {"created", "existing"} =>
              /\ seen[r].biz = RefundOf(arg[r].key)
              /\ seen[r].type = "refund"

\* Only a settlement takes a wallet below zero, or further below it: a call is
\* never paid for on credit, however many calls compete for the last of it.
OverdrawnBySettleOnly ==
    [][\A u \in Users :
          /\ wallet'[u].balance < wallet[u].balance
          /\ wallet'[u].balance < 0
          => txs'[u][Len(txs'[u])].biz[1] = "settle:"]_vars

\* A Go call whose key was charged before it came is answered from the ledger,
\* even if the wallet is empty by now.
ReplayHonouredGo ==
    \A r \in Reqs :
        late[r] /\ arg[r].op = "preconsume" /\ arg[r].source \in GoSources
            => res[r] \notin {"insufficient", "noprice"}

\* The same of a Python call.
ReplayHonouredPy ==
    \A r \in Reqs :
        late[r] /\ arg[r].op = "preconsume" /\ arg[r].source \in PySources
            => res[r] # "insufficient"

-----------------------------------------------------------------------------
(* The contract: what the tables say of each user. *)

EntriesOf(u, prefix, type, sign) ==
    {[service |-> t.source, key |-> t.biz[2], amount |-> sign * t.amount] :
        t \in {x \in Rows(u) : x.biz[1] = prefix /\ x.type = type}}

Contract == INSTANCE CreditSpec WITH
    balance  <- [u \in Users |-> wallet[u].balance],
    spent    <- [u \in Users |-> wallet[u].totalSpent],
    charged  <- [u \in Users |-> EntriesOf(u, "own", "consume", -1)],
    refunded <- [u \in Users |-> EntriesOf(u, "refund:", "refund", 1)],
    settled  <- [u \in Users |-> EntriesOf(u, "settle:", "consume", -1)],
    granted  <- [u \in Users |-> EntriesOf(u, "own", "grant", 1)]

\* The credit service, both backends of it, implements the contract.
Implements == Contract!Spec
=============================================================================
