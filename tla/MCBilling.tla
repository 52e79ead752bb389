------------------------------ MODULE MCBilling ------------------------------
(***************************************************************************)
(* Three paid calls of one user with one key: calls of the Go and the      *)
(* Python service that answer at once (Billing), or product parses that    *)
(* are queued (ProductParse).  Which of the two is chosen once.            *)
(***************************************************************************)
EXTENDS ProductParse, TLC

CONSTANTS
    u1, k1,
    Parts        \* of "calls", "tasks": what a run looks at

VARIABLE part

allVars == <<part, vars>>

Queued == {"nomu_product_parse"}

OneKey == {[user |-> u1, source |-> s, key |-> k1] : s \in Sources}

PaidInit ==
    /\ part \in Parts
    /\ Init
    /\ \A r \in Calls : (ask[r].source \in Queued) <=> (part = "tasks")

PaidNext ==
    /\ \/ part = "calls" /\ BillingNext /\ UNCHANGED parseVars
       \/ part = "tasks" /\ Next
    /\ UNCHANGED part

\* The fairness of ProductParse, of its part.
PaidFairness ==
    /\ \A r \in Calls : WF_allVars(part = "tasks" /\ Request(r) /\ UNCHANGED part)
    /\ \A w \in Workers : WF_allVars(part = "tasks" /\ Work(w) /\ UNCHANGED part)

PaidSpec == PaidInit /\ [][PaidNext]_allVars /\ PaidFairness

-----------------------------------------------------------------------------
(* Properties *)

\* ProductParse: a charge ends as a product, a refund or a logged loss.
TasksEventuallyAccounted == part = "tasks" => EventuallyAccounted
=============================================================================
