----------------------------- MODULE ProductParse -----------------------------
(***************************************************************************)
(* The parse of a collected product: product_parse charges the call and    *)
(* dispatches a task (dispatch_with_billing); a worker takes the message   *)
(* from RabbitMQ, parses, puts the product into the user's pool, notifies  *)
(* the devices, and gives the charge back if any of it fails.  The broker  *)
(* keeps a message until the worker has stored its result: the message of  *)
(* a worker that died is delivered again.                                  *)
(***************************************************************************)
EXTENDS Billing

CONSTANTS
    Workers,         \* worker slots
    MaxDeliveries    \* bound: deliveries of one message

VARIABLES
    queue,       \* messages waiting in RabbitMQ, each named by its call
    takes,       \* deliveries of each message so far
    doing,       \* what each worker is at
    pool,        \* snapshots in nomu:sync:collection
    unpaid       \* calls whose refund failed in a worker

parseVars == <<queue, takes, doing, pool, unpaid>>
vars == <<wallet, txs, price, at, ask, mine, imgs, fate, queue, takes, doing, pool, unpaid>>

Idle == [step |-> "idle"]
Task == [step : {"parse", "put", "publish", "refund", "ack"}, call : Calls]

TypeOK ==
    /\ BillingTypeOK
    /\ queue \subseteq Calls
    /\ takes \in [Calls -> 0..MaxDeliveries]
    /\ doing \in [Workers -> Task \cup {Idle}]
    /\ pool \subseteq [call : Calls, take : 1..MaxDeliveries]
    /\ unpaid \subseteq Calls

Init ==
    /\ BillingInit
    /\ queue = {}
    /\ takes = [r \in Calls |-> 0]
    /\ doing = [w \in Workers |-> Idle]
    /\ pool = {}
    /\ unpaid = {}

-----------------------------------------------------------------------------
(* The request *)

\* Mutant: a replay is dispatched like a first call.
AcceptReplays(r) ==
    /\ at[r] = "run"
    /\ End(r, "accepted")
    /\ queue' = queue \cup {r}
    /\ UNCHANGED <<ledgerVars, mine, takes, doing, pool, unpaid>>

\* A replay is answered with the receipt of the first call and dispatches
\* nothing.  A kiq that raises may have reached the broker all the same.
Accept(r) ==
    /\ at[r] = "run"
    /\ End(r, "accepted")
    /\ queue' = IF mine[r] THEN queue \cup {r} ELSE queue
    /\ UNCHANGED <<ledgerVars, mine, takes, doing, pool, unpaid>>

DispatchFails(r, how) ==
    /\ mine[r]
    /\ Break(r, how)
    /\ \/ queue' = queue
       \/ "kiq" \in Faults /\ queue' = queue \cup {r}
    /\ UNCHANGED <<takes, doing, pool, unpaid>>

Request(r) ==
    \/ Accept(r)
    \/ \E how \in {"error", "cancel"} : DispatchFails(r, how)
    \/ (Begin(r) \/ Debit(r) \/ Refund(r)) /\ UNCHANGED parseVars

-----------------------------------------------------------------------------
(* The worker *)

Next1(w, step) == doing' = [doing EXCEPT ![w].step = step]

Take(w) ==
    /\ doing[w] = Idle
    /\ \E r \in queue :
          /\ queue' = queue \ {r}
          /\ takes' = [takes EXCEPT ![r] = @ + 1]
          /\ doing' = [doing EXCEPT ![w] = [step |-> "parse", call |-> r]]
    /\ UNCHANGED <<billingVars, pool, unpaid>>

\* Mutant: except Exception alone, which a cancellation passes by.
OnErrorOnly(w, how) == Next1(w, IF how = "error" THEN "refund" ELSE "ack")

\* Both handlers of the try: an exception, and the cancellation of a shutdown.
OnFailure(w, how) == Next1(w, "refund")

\* parse(req) answers, or raises.
Parse(w) ==
    /\ doing[w].step = "parse"
    /\ \/ Next1(w, "put")
       \/ \E how \in {"error", "cancel"} : OnFailure(w, how)
    /\ UNCHANGED <<billingVars, queue, takes, pool, unpaid>>

\* HSET under a fresh snapshot id.  One that raises may have been done.
Put(w) ==
    LET r == doing[w].call
        put == pool \cup {[call |-> r, take |-> takes[r]]}
    IN  /\ doing[w].step = "put"
        /\ \/ pool' = put /\ Next1(w, "publish")
           \/ pool' = pool /\ OnFailure(w, "error")
           \/ "hset" \in Faults /\ pool' = put /\ OnFailure(w, "error")
        /\ UNCHANGED <<billingVars, queue, takes, unpaid>>

\* The notification is inside the same try.
Publish(w) ==
    /\ doing[w].step = "publish"
    /\ \/ Next1(w, "ack")
       \/ "publish" \in Faults /\ OnFailure(w, "error")
    /\ UNCHANGED <<billingVars, queue, takes, pool, unpaid>>

\* _refund_quietly: a refund that fails is logged.
RefundQuietly(w) ==
    LET r == doing[w].call IN
    /\ doing[w].step = "refund"
    /\ \/ RefundAll(r) /\ unpaid' = unpaid
       \/ "refund" \in Faults /\ unpaid' = unpaid \cup {r} /\ UNCHANGED ledgerVars
    /\ Next1(w, "ack")
    /\ UNCHANGED <<callVars, queue, takes, pool>>

\* The result is stored and the message acknowledged, even if the task raised.
Ack(w) ==
    /\ doing[w].step = "ack"
    /\ doing' = [doing EXCEPT ![w] = Idle]
    /\ UNCHANGED <<billingVars, queue, takes, pool, unpaid>>

\* Mutant: messages are acknowledged on receipt.
WorkerLosesMessage(w) ==
    /\ "worker" \in Faults
    /\ doing[w] # Idle
    /\ doing' = [doing EXCEPT ![w] = Idle]
    /\ UNCHANGED <<billingVars, queue, takes, pool, unpaid>>

\* A worker that dies before that gives its message back to the broker.
WorkerDies(w) ==
    /\ "worker" \in Faults
    /\ doing[w] # Idle
    /\ takes[doing[w].call] < MaxDeliveries
    /\ doing' = [doing EXCEPT ![w] = Idle]
    /\ queue' = queue \cup {doing[w].call}
    /\ UNCHANGED <<billingVars, takes, pool, unpaid>>

Work(w) ==
    Take(w) \/ Parse(w) \/ Put(w) \/ Publish(w) \/ RefundQuietly(w) \/ Ack(w)

Next ==
    \/ \E r \in Calls : Request(r) \/ (Crash(r) /\ UNCHANGED parseVars)
    \/ \E w \in Workers : Work(w) \/ WorkerDies(w)

\* Coroutines of a live process and messages of a live worker make progress.
Fairness ==
    /\ \A r \in Calls : WF_vars(Request(r))
    /\ \A w \in Workers : WF_vars(Work(w))

Spec == Init /\ [][Next]_vars
LiveSpec == Spec /\ Fairness

-----------------------------------------------------------------------------
(* Properties *)

Snapshots(r) == {s \in pool : s.call = r}

\* The task of a call is still to be done.
Pending(r) == r \in queue \/ \E w \in Workers : doing[w] # Idle /\ doing[w].call = r

\* The ways a charge ends: an answer, a product in the pool, a refund, or a
\* loss that was logged (or died with the process).
Accounted(r) ==
    \/ fate[r] = "delivered"
    \/ Snapshots(r) # {}
    \/ RefundTaken(r)
    \/ r \in unpaid \/ fate[r] \in {"lost", "unrefunded", "crashed"}

\* A task that has been acknowledged left a product or gave the charge back, in
\* whatever step its worker failed, died, or was cancelled; and a call without
\* a task was answered, or gave its charge back.
DoneIsAccounted ==
    \A r \in Calls : mine[r] /\ at[r] = "done" /\ ~Pending(r) => Accounted(r)

\* A charge yields one product for each delivery of its one message: replays of
\* the request add none.
OneProductPerDelivery ==
    \A r \in Calls :
        LET sameKey == {q \in Calls : ask[q] = ask[r]}
        IN  /\ \A q \in sameKey : Snapshots(q) # {} => mine[q]
            /\ Cardinality(UNION {Snapshots(q) : q \in sameKey}) <=
                  SumFunctionOnSet(takes, {q \in sameKey : mine[q]})
            /\ Cardinality({q \in sameKey : mine[q]}) <= 1

\* What the task says of itself: once the product is in the pool, a failed
\* notification does not change the result (nomu_parse.py:54).
PooledKeepsCharge ==
    \A r \in Calls : Snapshots(r) # {} => ~RefundTaken(r)

\* Every charge is accounted for in the end: the broker redelivers what a dead
\* worker left.
EventuallyAccounted == \A r \in Calls : mine[r] ~> Accounted(r)
=============================================================================
