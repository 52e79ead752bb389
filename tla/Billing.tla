------------------------------- MODULE Billing -------------------------------
(***************************************************************************)
(* A billed call: charge the wallet, do the work, give the charge back if  *)
(* the work failed.  Python: call_with_billing (translation, prompts) and  *)
(* the charge of dispatch_with_billing; Go: DesignService.Generate, which  *)
(* charges one image and settles for the images that came back.            *)
(*                                                                         *)
(* Clients send a key again when they do not know what became of a call,   *)
(* so several calls may carry one key.  What the credit service does       *)
(* between the steps of one of its operations is CreditService; here the   *)
(* charge, the refund and the settlement are one step each, and everything *)
(* of other calls may happen between them.                                 *)
(***************************************************************************)
EXTENDS CreditLedger, FiniteSetsExt

CONSTANTS
    Calls,       \* HTTP requests
    Asked,       \* what they may ask for
    BonusKey,    \* the key of the grant that funded the wallets
    Funds,       \* what each wallet holds at first
    MaxImages,   \* bound: images one generation may yield
    Faults       \* what the environment does besides failing the work

ASSUME BillingAssumption ==
    /\ Asked # {} /\ Asked \subseteq [user : Users, source : Sources, key : Keys]
    /\ BonusKey \in Keys /\ Funds \in Nat \ {0} /\ MaxImages \in Nat \ {0}
    /\ Faults \subseteq {"crash", "refund", "settle", "kiq", "hset", "publish", "worker"}

VARIABLES
    at,          \* the step each call is at
    ask,         \* what it asked for
    mine,        \* created: this call made the charge of its key
    imgs,        \* images (or answers) the model gave it
    fate         \* how it ended

callVars == <<at, ask, mine, imgs, fate>>
billingVars == <<wallet, txs, price, at, ask, mine, imgs, fate>>

\* "accepted": answered with the receipt of a task that is to follow.
Fates == {"none", "refused", "delivered", "accepted", "failed", "lost", "unrefunded", "crashed"}

BillingTypeOK ==
    /\ LedgerTypeOK
    /\ at \in [Calls -> {"idle", "find", "debit", "run", "refund", "settle", "done"}]
    /\ ask \in [Calls -> Asked]
    /\ mine \in [Calls -> BOOLEAN]
    /\ imgs \in [Calls -> 0..MaxImages]
    /\ fate \in [Calls -> Fates]

\* Every user has been granted the bonus, and every service has a price.
BillingInit ==
    /\ wallet = [u \in Users |-> [exists |-> TRUE, balance |-> Funds, totalSpent |-> 0]]
    /\ txs = [u \in Users |->
                <<[Granted("register_bonus", BonusKey, Funds) EXCEPT !.balanceAfter = Funds]>>]
    /\ price \in [Sources -> Prices]
    /\ at = [r \in Calls |-> "idle"]
    /\ ask \in [Calls -> Asked]
    /\ mine = [r \in Calls |-> FALSE]
    /\ imgs = [r \in Calls |-> 0]
    /\ fate = [r \in Calls |-> "none"]

-----------------------------------------------------------------------------

Go(r, step) == at' = [at EXCEPT ![r] = step] /\ UNCHANGED <<ask, imgs, fate>>

End(r, how) ==
    /\ at' = [at EXCEPT ![r] = "done"]
    /\ fate' = [fate EXCEPT ![r] = how]
    /\ UNCHANGED <<ask, imgs>>

Cost(r) == price[ask[r].source]

ChargeRow(r) == Consume(ask[r].source, ask[r].key, Cost(r), 1)

\* The rows of the call's key: its charge, its refund, its settlement.
RefundTaken(r) == Taken(ask[r].user, ask[r].source, RefundOf(ask[r].key))

\* Only Go looks the key up before it charges.
Begin(r) ==
    /\ at[r] = "idle"
    /\ Go(r, IF ask[r].source \in GoSources THEN "find" ELSE "debit")
    /\ UNCHANGED <<ledgerVars, mine>>

FindCharge(r) ==
    /\ at[r] = "find"
    /\ Go(r, IF Taken(ask[r].user, ask[r].source, Biz(ask[r].key)) THEN "run" ELSE "debit")
    /\ UNCHANGED <<ledgerVars, mine>>

\* The charge commits, or meets the charge another call made for the key, or
\* the wallet does not cover it.  A client that goes away while the COMMIT is
\* under way leaves a charge behind that nobody knows of: the commit is before
\* the try, and the Go preconsume answers with an error.
Debit(r) ==
    /\ at[r] = "debit"
    /\ \/ /\ ~Covers(ask[r].user, Cost(r))
          /\ End(r, "refused")
          /\ UNCHANGED <<ledgerVars, mine>>
       \/ /\ Covers(ask[r].user, Cost(r))
          /\ Posts(ask[r].user, ChargeRow(r), Cost(r))
          /\ mine' = [mine EXCEPT ![r] = TRUE]
          /\ Go(r, "run") \/ End(r, "lost")
       \/ /\ Covers(ask[r].user, Cost(r))
          /\ Hits(ask[r].user, ChargeRow(r))
          /\ Go(r, "run")
          /\ UNCHANGED mine

\* The model answers.  A generation goes on to settle for its images.
Serve(r) ==
    /\ at[r] = "run"
    /\ IF ask[r].source \in GoSources
       THEN /\ \E n \in 1..MaxImages : imgs' = [imgs EXCEPT ![r] = n]
            /\ at' = [at EXCEPT ![r] = "settle"]
            /\ UNCHANGED <<ask, fate>>
       ELSE /\ imgs' = [imgs EXCEPT ![r] = 1]
            /\ at' = [at EXCEPT ![r] = "done"]
            /\ fate' = [fate EXCEPT ![r] = "delivered"]
            /\ UNCHANGED ask
    /\ UNCHANGED <<ledgerVars, mine>>

\* Mutant: every failing call gives the charge of its key back.
AnyCallGivesBack(r, how) == TRUE

\* Mutant: except Exception alone, which a cancellation passes by.
ErrorsGiveBack(r, how) == mine[r] /\ how = "error"

\* The work raises, or the client goes away and the work is cancelled: the call
\* that made the charge gives it back, shielded from its own cancellation.
GivesBack(r, how) == mine[r]

Break(r, how) ==
    /\ at[r] = "run"
    /\ IF GivesBack(r, how) THEN Go(r, "refund") ELSE End(r, "failed")
    /\ UNCHANGED <<ledgerVars, mine>>

\* A full refund of the charge of the key, unless it was refunded before.
RefundAll(r) ==
    LET a == ask[r] IN
    \E t \in Find(a.user, a.source, Biz(a.key)) :
        LET row == Refunded(a.source, a.key, -t.amount)
        IN  Posts(a.user, row, t.amount) \/ Hits(a.user, row)

Refund(r) ==
    /\ at[r] = "refund"
    /\ \/ RefundAll(r) /\ End(r, "failed")
       \/ "refund" \in Faults /\ End(r, "unrefunded") /\ UNCHANGED ledgerVars
    /\ UNCHANGED mine

\* Mutant: all images are settled for, the charged one again.
SettleForAll(r, n) ==
    LET a == ask[r] IN
    \E t \in Find(a.user, a.source, Biz(a.key)) :
        LET row == Settled(a.source, a.key, -t.amount * n, n)
        IN  Posts(a.user, row, -t.amount * n) \/ Hits(a.user, row)

\* Settle for n images, of which the charge paid one.
SettleFor(r, n) ==
    LET a == ask[r] IN
    \E t \in Find(a.user, a.source, Biz(a.key)) :
        LET delta == -t.amount * (n - 1)
            row == Settled(a.source, a.key, delta, n - 1)
        IN  IF n = 1 THEN UNCHANGED ledgerVars
            ELSE Posts(a.user, row, delta) \/ Hits(a.user, row)

\* A settlement that fails is logged; the images are delivered either way, and
\* a replay settles as a first call does.
Settle(r) ==
    /\ at[r] = "settle"
    /\ \/ SettleFor(r, imgs[r])
       \/ "settle" \in Faults /\ UNCHANGED ledgerVars
    /\ End(r, "delivered")
    /\ UNCHANGED mine

\* The process dies - or Generate panics, which its deferred function takes for
\* a success.
Crash(r) ==
    /\ "crash" \in Faults
    /\ at[r] \notin {"idle", "done"}
    /\ End(r, "crashed")
    /\ UNCHANGED <<ledgerVars, mine>>

BillingNext ==
    \E r \in Calls :
        \/ Begin(r) \/ FindCharge(r) \/ Debit(r) \/ Serve(r)
        \/ \E how \in {"error", "cancel"} : Break(r, how)
        \/ Refund(r) \/ Settle(r) \/ Crash(r)

BillingSpec == BillingInit /\ [][BillingNext]_billingVars

-----------------------------------------------------------------------------
(* Properties *)

\* The charge of a call that was delivered is never given back: a replay that
\* fails must not pay for the first call (discipline 1 of _billing.py).
DeliveredKeepsCharge ==
    \A r \in Calls : mine[r] /\ fate[r] = "delivered" => ~RefundTaken(r)

\* A call that made a charge and ended without delivering has given it back,
\* unless it was cut off at the COMMIT of the charge, it crashed or the refund
\* itself failed; these are the losses a reconciliation job has to find.
UndeliveredIsRefunded ==
    \A r \in Calls :
        mine[r] /\ at[r] = "done" =>
            \/ fate[r] \in {"delivered", "accepted", "lost", "unrefunded", "crashed"}
            \/ RefundTaken(r)

\* What the docs promise: a call that failed by an upstream error, an exception
\* or a client that went away has cost nothing (docs/credits-api.md:40).
FailedCallsCostNothing ==
    \A r \in Calls :
        mine[r] /\ at[r] = "done" /\ fate[r] \notin {"delivered", "accepted"} => RefundTaken(r)

\* What a key has cost its user by now.
Net(r) ==
    LET rows == {t \in Rows(ask[r].user) : t.source = ask[r].source /\ t.biz[2] = ask[r].key}
    IN  SumFunction([t \in rows |-> -t.amount])

\* A key never costs more than the images of its richest attempt, whatever its
\* attempts yielded and in whatever order they settled, failed or refunded; and
\* it never earns money.
NetWithinImages ==
    \A r \in Calls :
        LET most == Max({1} \cup {imgs[q] : q \in {p \in Calls : ask[p] = ask[r]}})
        IN  mine[r] => Net(r) \in 0..(Cost(r) * most)
=============================================================================
