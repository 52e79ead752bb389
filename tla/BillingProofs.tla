---------------------------- MODULE BillingProofs ----------------------------
(***************************************************************************)
(* Theorems about billed calls and product parses, for any number of calls *)
(* and workers, any keys they share, any faults and any prices.            *)
(***************************************************************************)
EXTENDS ProductParse, CreditLedgerProofs

-----------------------------------------------------------------------------
(* What a call knows of the charge of its key *)

CallsFit ==
    /\ LedgerTypeOK
    /\ price \in [Sources -> Prices]
    /\ at \in [Calls -> {"idle", "find", "debit", "run", "refund", "settle", "done"}]
    /\ ask \in [Calls -> Asked]
    /\ mine \in [Calls -> BOOLEAN]
    /\ imgs \in [Calls -> Nat]
    /\ fate \in [Calls -> Fates]

Charged(r) == Taken(ask[r].user, ask[r].source, Biz(ask[r].key))

StepFits(r) ==
    /\ at[r] \in {"idle", "find", "debit"} => ~mine[r]
    /\ at[r] = "refund" => mine[r]
    /\ at[r] = "settle" => imgs[r] \in Nat \ {0}
    /\ at[r] = "done" <=> fate[r] # "none"

\* A charge is made by one call, and stays.
OneOwner ==
    /\ \A r \in Calls : mine[r] => Charged(r)
    /\ \A r, q \in Calls : mine[r] /\ mine[q] /\ ask[r] = ask[q] => r = q

ChargeInv == CallsFit /\ OneOwner /\ \A r \in Calls : StepFits(r)

-----------------------------------------------------------------------------
(* The rows *)

LEMMA AskFields ==
    ASSUME CallsFit, NEW r \in Calls
    PROVE  ask[r].user \in Users /\ ask[r].source \in Sources /\ ask[r].key \in Keys
BY BillingAssumption DEF CallsFit

\* Calls that ask for the same have asked for the same.
LEMMA SameAsk ==
    ASSUME CallsFit, NEW r \in Calls, NEW q \in Calls,
           ask[r].user = ask[q].user, ask[r].source = ask[q].source, ask[r].key = ask[q].key
    PROVE  ask[r] = ask[q]
<1>1. ask[r] \in [user : Users, source : Sources, key : Keys]
  BY BillingAssumption DEF CallsFit
<1>2. ask[q] \in [user : Users, source : Sources, key : Keys]
  BY BillingAssumption DEF CallsFit
<1> QED
  BY <1>1, <1>2

\* The three families of keys never meet.
LEMMA Families ==
    ASSUME NEW k, NEW l
    PROVE  /\ Biz(k) # RefundOf(l) /\ SettleOf(k) # RefundOf(l)
           /\ Biz(k) = Biz(l) => k = l
           /\ RefundOf(k) = RefundOf(l) => k = l
BY DEF Biz, RefundOf, SettleOf

\* A row that is posted takes its key, and no other.
LEMMA PostTakes ==
    ASSUME LedgerTypeOK, NEW u \in Users, NEW row \in Row, NEW spent \in Int,
           Post(u, row, spent)
    PROVE  /\ LedgerTypeOK' /\ price' = price
           /\ \A v \in Users : \A s, b :
                 Taken(v, s, b)' <=>
                     Taken(v, s, b) \/ (v = u /\ s = row.source /\ b = row.biz)
<1> DEFINE new == [row EXCEPT !.balanceAfter = wallet[u].balance + row.amount]
<1>1. /\ Rows(u)' = Rows(u) \cup {new} /\ \A v \in Users \ {u} : Rows(v)' = Rows(v)
      /\ LedgerTypeOK'
  BY PostRows
<1>2. new.source = row.source /\ new.biz = row.biz
  BY DEF Row
<1>3. price' = price
  BY DEF Post
<1> HIDE DEF new
<1>4. ASSUME NEW v \in Users, NEW s, NEW b
      PROVE  Taken(v, s, b)' <=>
                 Taken(v, s, b) \/ (v = u /\ s = row.source /\ b = row.biz)
  <2>1. CASE v = u
    BY <1>1, <1>2, <2>1 DEF Taken, Find
  <2>2. CASE v # u
    BY <1>1, <2>2 DEF Taken, Find
  <2> QED
    BY <2>1, <2>2
<1> QED
  BY <1>1, <1>3, <1>4

LEMMA RowsAreRows ==
    ASSUME CallsFit, NEW u \in Users
    PROVE  Rows(u) \subseteq Row
<1>1. txs[u] \in Seq(Row)
  BY DEF CallsFit, LedgerTypeOK
<1> QED
  BY <1>1 DEF Rows

\* At most this key is taken, by a step that leaves the prices alone.
Takes(u, s, b) ==
    /\ LedgerTypeOK' /\ price' = price
    /\ \A v \in Users : \A t, c :
          /\ Taken(v, t, c) => Taken(v, t, c)'
          /\ Taken(v, t, c)' => Taken(v, t, c) \/ (v = u /\ t = s /\ c = b)

LEMMA NothingTaken ==
    ASSUME CallsFit, UNCHANGED ledgerVars, NEW u, NEW s, NEW b
    PROVE  Takes(u, s, b)
BY DEF CallsFit, LedgerTypeOK, Takes, Taken, Find, Rows, ledgerVars

\* A debit takes the key of the call, which was free.
LEMMA DebitTakes ==
    ASSUME CallsFit, NEW r \in Calls, ask' = ask,
           Posts(ask[r].user, ChargeRow(r), Cost(r))
    PROVE  /\ Takes(ask[r].user, ask[r].source, Biz(ask[r].key))
           /\ ~Charged(r) /\ Charged(r)'
<1>1. Cost(r) \in Nat /\ -Cost(r) \in Int
  <2>1. price[ask[r].source] \in Prices
    BY AskFields DEF CallsFit
  <2>2. Cost(r) \in Nat
    BY <2>1, PricesAssumption DEF PricesAssumption, Cost
  <2> QED
    BY <2>2
<1>2. ChargeRow(r) \in Row
  BY <1>1, AskFields, RowTypes DEF ChargeRow
<1>3. ChargeRow(r).source = ask[r].source /\ ChargeRow(r).biz = Biz(ask[r].key)
  BY DEF ChargeRow, Consume, NewRow
<1>4. ~Charged(r) /\ Post(ask[r].user, ChargeRow(r), Cost(r))
  BY <1>3 DEF Posts, Charged
<1>5. /\ LedgerTypeOK' /\ price' = price
      /\ \A v \in Users : \A s, b :
            Taken(v, s, b)' <=> Taken(v, s, b) \/
                (v = ask[r].user /\ s = ask[r].source /\ b = Biz(ask[r].key))
  BY <1>1, <1>2, <1>3, <1>4, AskFields, PostTakes DEF CallsFit
<1>6. Takes(ask[r].user, ask[r].source, Biz(ask[r].key))
  BY <1>5 DEF Takes
<1>7. Charged(r)'
  BY <1>5, AskFields DEF Charged
<1> QED
  BY <1>4, <1>6, <1>7

\* A refund takes the key of the refund, or finds it taken.
LEMMA RefundTakes ==
    ASSUME CallsFit, NEW r \in Calls, RefundAll(r), ask' = ask
    PROVE  Takes(ask[r].user, ask[r].source, RefundOf(ask[r].key)) /\ RefundTaken(r)'
<1>1. PICK t \in Rows(ask[r].user) :
         LET row == Refunded(ask[r].source, ask[r].key, -t.amount)
         IN  Posts(ask[r].user, row, t.amount) \/ Hits(ask[r].user, row)
  BY DEF RefundAll, Find
<1>2. t.amount \in Int /\ -t.amount \in Int
  BY AskFields, RowsAreRows DEF Row
<1> DEFINE row == Refunded(ask[r].source, ask[r].key, -t.amount)
<1>3. row \in Row
  BY <1>2, AskFields, RowTypes
<1>4. row.source = ask[r].source /\ row.biz = RefundOf(ask[r].key)
  BY DEF Refunded, NewRow
<1>5. Posts(ask[r].user, row, t.amount) \/ Hits(ask[r].user, row)
  BY <1>1
<1> HIDE DEF row
<1>6. CASE Posts(ask[r].user, row, t.amount)
  <2>1. Post(ask[r].user, row, t.amount)
    BY <1>6 DEF Posts
  <2> QED
    BY <1>2, <1>3, <1>4, <2>1, AskFields, PostTakes DEF CallsFit, Takes, RefundTaken
<1>7. CASE Hits(ask[r].user, row)
  <2>1. UNCHANGED ledgerVars /\ RefundTaken(r)
    BY <1>4, <1>7 DEF Hits, RefundTaken
  <2> QED
    BY <2>1, NothingTaken, AskFields DEF Takes, RefundTaken
<1> QED
  BY <1>5, <1>6, <1>7

\* A settlement takes the key of the settlement, if it takes one.
LEMMA SettleTakes ==
    ASSUME CallsFit, NEW r \in Calls, NEW n \in Nat \ {0}, SettleFor(r, n)
    PROVE  Takes(ask[r].user, ask[r].source, SettleOf(ask[r].key))
<1>1. PICK t \in Rows(ask[r].user) :
         LET delta == -t.amount * (n - 1)
             row == Settled(ask[r].source, ask[r].key, delta, n - 1)
         IN  IF n = 1 THEN UNCHANGED ledgerVars
             ELSE Posts(ask[r].user, row, delta) \/ Hits(ask[r].user, row)
  BY DEF SettleFor, Find
<1> DEFINE delta == -t.amount * (n - 1)
           row == Settled(ask[r].source, ask[r].key, delta, n - 1)
<1>2. t.amount \in Int /\ n - 1 \in Nat
  BY AskFields, RowsAreRows DEF Row
<1>3. delta \in Int
  BY <1>2
<1>4. \/ UNCHANGED ledgerVars
      \/ Posts(ask[r].user, row, delta)
  BY <1>1 DEF Hits
<1> HIDE DEF delta
<1>5. row \in Row
  BY <1>2, <1>3, AskFields, RowTypes
<1>6. row.source = ask[r].source /\ row.biz = SettleOf(ask[r].key)
  BY DEF Settled, NewRow
<1> HIDE DEF row
<1>7. CASE Posts(ask[r].user, row, delta)
  <2>1. Post(ask[r].user, row, delta)
    BY <1>7 DEF Posts
  <2> QED
    BY <1>3, <1>5, <1>6, <2>1, AskFields, PostTakes DEF CallsFit, Takes
<1> QED
  BY <1>4, <1>7, NothingTaken

-----------------------------------------------------------------------------
(* The steps of a call *)

\* What a step of the call r may do to what is known of the calls.
CallStep(r) ==
    /\ CallsFit' /\ ask' = ask /\ at[r] # "done" /\ StepFits(r)'
    /\ \A q \in Calls \ {r} : /\ at'[q] = at[q] /\ fate'[q] = fate[q]
                              /\ mine'[q] = mine[q] /\ imgs'[q] = imgs[q]
    /\ \A q \in Calls : Charged(q) => Charged(q)'
    /\ \A q \in Calls : RefundTaken(q) => RefundTaken(q)'
    /\ \A q \in Calls : ~RefundTaken(q) /\ RefundTaken(q)' =>
          ask[q] = ask[r] /\ mine'[r] /\ fate'[r] = "failed"
    /\ \/ mine'[r] = mine[r]
       \/ mine'[r] /\ ~Charged(r) /\ Charged(r)'
    /\ \/ at'[r] # "done" \/ ~mine'[r] \/ RefundTaken(r)'
       \/ fate'[r] \in {"delivered", "accepted", "lost", "unrefunded", "crashed"}

LEMMA NoStepCharge ==
    ASSUME ChargeInv, UNCHANGED ledgerVars, UNCHANGED callVars
    PROVE  ChargeInv'
<1>1. CallsFit' /\ \A q \in Calls : StepFits(q)'
  BY DEF ChargeInv, CallsFit, LedgerTypeOK, StepFits, ledgerVars, callVars
<1>2. \A q \in Calls : Charged(q)' <=> Charged(q)
  BY DEF Charged, Taken, Find, Rows, ledgerVars, callVars
<1>3. OneOwner'
  BY <1>2 DEF ChargeInv, OneOwner, callVars
<1> QED
  BY <1>1, <1>3 DEF ChargeInv

LEMMA CallStepCharge ==
    ASSUME ChargeInv, NEW r \in Calls, CallStep(r)
    PROVE  ChargeInv'
<1>1. \A q \in Calls : StepFits(q)'
  BY DEF ChargeInv, CallStep, StepFits
<1>2. \A q \in Calls : mine'[q] => Charged(q)'
  BY DEF ChargeInv, OneOwner, CallStep
<1>3. ASSUME NEW p \in Calls, NEW q \in Calls, mine'[p], mine'[q], ask'[p] = ask'[q]
      PROVE  p = q
  <2>1. CASE mine[p] /\ mine[q]
    BY <1>3, <2>1 DEF ChargeInv, OneOwner, CallStep
  <2>2. CASE ~mine[p] /\ mine[q]
    <3>1. p = r /\ ~Charged(r) /\ ask[p] = ask[q]
      BY <1>3, <2>2 DEF CallStep
    <3> QED
      BY <2>2, <3>1 DEF ChargeInv, OneOwner, Charged
  <2>3. CASE mine[p] /\ ~mine[q]
    <3>1. q = r /\ ~Charged(r) /\ ask[p] = ask[q]
      BY <1>3, <2>3 DEF CallStep
    <3> QED
      BY <2>3, <3>1 DEF ChargeInv, OneOwner, Charged
  <2>4. CASE ~mine[p] /\ ~mine[q]
    BY <1>3, <2>4 DEF CallStep
  <2> QED
    BY <2>1, <2>2, <2>3, <2>4
<1> QED
  BY <1>1, <1>2, <1>3 DEF ChargeInv, OneOwner, CallStep

\* The parts of a step, put together: where the call goes, how it ended, and
\* which key of the call it has taken.
LEMMA StepOfParts ==
    ASSUME ChargeInv, NEW r \in Calls, at[r] # "done", ask' = ask,
           NEW step \in {"idle", "find", "debit", "run", "refund", "settle", "done"},
           NEW how \in Fates, NEW n \in Nat,
           at' = [at EXCEPT ![r] = step], fate' = [fate EXCEPT ![r] = how],
           imgs' = [imgs EXCEPT ![r] = n],
           NEW b \in {Biz(ask[r].key), RefundOf(ask[r].key), SettleOf(ask[r].key)},
           Takes(ask[r].user, ask[r].source, b),
           \/ mine' = mine
           \/ mine' = [mine EXCEPT ![r] = TRUE] /\ ~Charged(r) /\ Charged(r)',
           b = RefundOf(ask[r].key) => mine'[r] /\ how = "failed",
           step \in {"idle", "find", "debit"} => ~mine'[r],
           step = "refund" => mine'[r],
           step = "settle" => n # 0,
           step = "done" <=> how # "none",
           \/ step # "done" \/ ~mine'[r] \/ RefundTaken(r)'
           \/ how \in {"delivered", "accepted", "lost", "unrefunded", "crashed"}
    PROVE  CallStep(r)
<1>1. CallsFit
  BY DEF ChargeInv
<1>2. /\ at' \in [Calls -> {"idle", "find", "debit", "run", "refund", "settle", "done"}]
      /\ fate' \in [Calls -> Fates] /\ imgs' \in [Calls -> Nat]
      /\ at'[r] = step /\ fate'[r] = how /\ imgs'[r] = n
      /\ \A q \in Calls \ {r} : at'[q] = at[q] /\ fate'[q] = fate[q] /\ imgs'[q] = imgs[q]
  BY <1>1 DEF CallsFit
<1>3. /\ mine' \in [Calls -> BOOLEAN] /\ \A q \in Calls \ {r} : mine'[q] = mine[q]
      /\ \/ mine'[r] = mine[r]
         \/ mine'[r] /\ ~Charged(r) /\ Charged(r)'
  <2>1. CASE mine' = mine
    BY <1>1, <2>1 DEF CallsFit
  <2>2. CASE mine' = [mine EXCEPT ![r] = TRUE] /\ ~Charged(r) /\ Charged(r)'
    <3>1. mine' \in [Calls -> BOOLEAN] /\ \A q \in Calls \ {r} : mine'[q] = mine[q]
      BY <1>1, <2>2 DEF CallsFit
    <3>2. mine'[r] = TRUE
      BY <1>1, <2>2 DEF CallsFit
    <3> QED
      BY <2>2, <3>1, <3>2
  <2> QED
    BY <2>1, <2>2
<1>4. CallsFit'
  BY <1>1, <1>2, <1>3 DEF CallsFit, Takes
<1>5. StepFits(r)'
  BY <1>2 DEF StepFits
<1>6. \A q \in Calls : Charged(q) => Charged(q)'
  BY <1>1, AskFields DEF Charged, Takes
<1>7. \A q \in Calls : RefundTaken(q) => RefundTaken(q)'
  BY <1>1, AskFields DEF RefundTaken, Takes
<1>8. ASSUME NEW q \in Calls, ~RefundTaken(q), RefundTaken(q)'
      PROVE  ask[q] = ask[r] /\ mine'[r] /\ fate'[r] = "failed"
  <2>1. /\ ask[q].user = ask[r].user /\ ask[q].source = ask[r].source
        /\ RefundOf(ask[q].key) = b
    BY <1>1, <1>8, AskFields DEF RefundTaken, Takes
  <2>2. b = RefundOf(ask[r].key) /\ ask[q].key = ask[r].key
    BY <2>1, Families
  <2> QED
    BY <1>1, <1>2, <2>1, <2>2, SameAsk
<1> QED
  BY <1>2, <1>3, <1>4, <1>5, <1>6, <1>7, <1>8 DEF CallStep

\* The same, of a step that takes no key and leaves the images.
LEMMA QuietStep ==
    ASSUME ChargeInv, NEW r \in Calls, at[r] # "done", UNCHANGED <<ledgerVars, mine>>,
           \/ \E step \in {"find", "debit", "run", "refund"} :
                 /\ Go(r, step)
                 /\ step \in {"find", "debit"} => ~mine[r]
                 /\ step = "refund" => mine[r]
           \/ \E how \in Fates \ {"none"} :
                 /\ End(r, how)
                 /\ ~mine[r] \/ how \in {"delivered", "accepted", "lost", "unrefunded", "crashed"}
    PROVE  CallStep(r)
<1>1. CallsFit /\ StepFits(r) /\ imgs = [imgs EXCEPT ![r] = imgs[r]] /\ imgs[r] \in Nat
      /\ fate = [fate EXCEPT ![r] = fate[r]] /\ fate[r] = "none" /\ "none" \in Fates
  BY DEF ChargeInv, CallsFit, StepFits, Fates
<1>2. Takes(ask[r].user, ask[r].source, Biz(ask[r].key))
  BY <1>1, NothingTaken
<1>3. Biz(ask[r].key) # RefundOf(ask[r].key)
  BY Families
<1>4. ASSUME NEW step \in {"find", "debit", "run", "refund"}, Go(r, step),
             step \in {"find", "debit"} => ~mine[r], step = "refund" => mine[r]
      PROVE  CallStep(r)
  BY <1>1, <1>2, <1>3, <1>4, StepOfParts DEF Go
<1>5. ASSUME NEW how \in Fates \ {"none"}, End(r, how),
             ~mine[r] \/ how \in {"delivered", "accepted", "lost", "unrefunded", "crashed"}
      PROVE  CallStep(r)
  BY <1>1, <1>2, <1>3, <1>5, StepOfParts DEF End
<1> QED
  BY <1>4, <1>5

\* A call that makes, or meets, the charge of its key.
LEMMA DebitStep ==
    ASSUME ChargeInv, NEW r \in Calls, Debit(r) PROVE CallStep(r)
<1>1. CallsFit /\ StepFits(r) /\ at[r] = "debit" /\ ~mine[r] /\ fate[r] = "none"
      /\ imgs[r] \in Nat /\ imgs = [imgs EXCEPT ![r] = imgs[r]]
      /\ fate = [fate EXCEPT ![r] = fate[r]] /\ "none" \in Fates /\ "lost" \in Fates
  BY DEF ChargeInv, CallsFit, StepFits, Debit, Fates
<1>2. CASE End(r, "refused") /\ UNCHANGED <<ledgerVars, mine>>
  BY <1>1, <1>2, QuietStep DEF Fates
<1>3. CASE Hits(ask[r].user, ChargeRow(r)) /\ Go(r, "run") /\ UNCHANGED mine
  BY <1>1, <1>3, QuietStep DEF Hits
<1>4. CASE /\ Posts(ask[r].user, ChargeRow(r), Cost(r)) /\ mine' = [mine EXCEPT ![r] = TRUE]
           /\ Go(r, "run") \/ End(r, "lost")
  <2>1. ask' = ask
    BY <1>4 DEF Go, End
  <2>2. /\ Takes(ask[r].user, ask[r].source, Biz(ask[r].key))
        /\ ~Charged(r) /\ Charged(r)'
    BY <1>1, <1>4, <2>1, DebitTakes
  <2>3. Biz(ask[r].key) # RefundOf(ask[r].key)
    BY Families
  <2>4. CASE Go(r, "run")
    BY <1>1, <1>4, <2>1, <2>2, <2>3, <2>4, StepOfParts DEF Go
  <2>5. CASE End(r, "lost")
    BY <1>1, <1>4, <2>1, <2>2, <2>3, <2>5, StepOfParts DEF End
  <2> QED
    BY <1>4, <2>4, <2>5
<1> QED
  BY <1>2, <1>3, <1>4 DEF Debit

LEMMA ServeStep ==
    ASSUME ChargeInv, NEW r \in Calls, Serve(r) PROVE CallStep(r)
<1>1. /\ CallsFit /\ StepFits(r) /\ at[r] = "run" /\ fate[r] = "none"
      /\ fate = [fate EXCEPT ![r] = fate[r]] /\ "none" \in Fates /\ "delivered" \in Fates
      /\ UNCHANGED <<ledgerVars, mine, ask>>
  BY DEF ChargeInv, CallsFit, StepFits, Serve, Fates
<1>2. Takes(ask[r].user, ask[r].source, Biz(ask[r].key))
  BY <1>1, NothingTaken
<1>3. Biz(ask[r].key) # RefundOf(ask[r].key)
  BY Families
<1>4. ASSUME NEW n \in 1..MaxImages, imgs' = [imgs EXCEPT ![r] = n],
             at' = [at EXCEPT ![r] = "settle"], fate' = fate
      PROVE  CallStep(r)
  <2>1. n \in Nat /\ n # 0
    OBVIOUS
  <2> QED
    BY <1>1, <1>2, <1>3, <1>4, <2>1, StepOfParts
<1>5. CASE /\ imgs' = [imgs EXCEPT ![r] = 1] /\ at' = [at EXCEPT ![r] = "done"]
           /\ fate' = [fate EXCEPT ![r] = "delivered"]
  BY <1>1, <1>2, <1>3, <1>5, StepOfParts
<1> QED
  BY <1>4, <1>5 DEF Serve

LEMMA RefundStep ==
    ASSUME ChargeInv, NEW r \in Calls, Refund(r) PROVE CallStep(r)
<1>1. CallsFit /\ StepFits(r) /\ at[r] = "refund" /\ mine[r] /\ fate[r] = "none"
      /\ imgs[r] \in Nat /\ imgs = [imgs EXCEPT ![r] = imgs[r]]
      /\ "failed" \in Fates /\ mine' = mine
  BY DEF ChargeInv, CallsFit, StepFits, Refund, Fates
<1>2. CASE RefundAll(r) /\ End(r, "failed")
  <2>1. ask' = ask
    BY <1>2 DEF End
  <2>2. Takes(ask[r].user, ask[r].source, RefundOf(ask[r].key)) /\ RefundTaken(r)'
    BY <1>1, <1>2, <2>1, RefundTakes
  <2> QED
    BY <1>1, <1>2, <2>1, <2>2, StepOfParts DEF End
<1>3. CASE End(r, "unrefunded") /\ UNCHANGED ledgerVars
  BY <1>1, <1>3, QuietStep DEF Fates
<1> QED
  BY <1>2, <1>3 DEF Refund

LEMMA SettleStep ==
    ASSUME ChargeInv, NEW r \in Calls, Settle(r) PROVE CallStep(r)
<1>1. CallsFit /\ StepFits(r) /\ at[r] = "settle" /\ fate[r] = "none"
      /\ imgs[r] \in Nat \ {0} /\ imgs = [imgs EXCEPT ![r] = imgs[r]]
      /\ "delivered" \in Fates /\ mine' = mine /\ End(r, "delivered")
  BY DEF ChargeInv, CallsFit, StepFits, Settle, Fates
<1>2. CASE SettleFor(r, imgs[r])
  <2>1. Takes(ask[r].user, ask[r].source, SettleOf(ask[r].key))
    BY <1>1, <1>2, SettleTakes
  <2>2. SettleOf(ask[r].key) # RefundOf(ask[r].key)
    BY Families
  <2> QED
    BY <1>1, <2>1, <2>2, StepOfParts DEF End
<1>3. CASE UNCHANGED ledgerVars
  BY <1>1, <1>3, QuietStep DEF Fates
<1> QED
  BY <1>2, <1>3 DEF Settle

\* The steps that write no row.
LEMMA OtherSteps ==
    ASSUME ChargeInv, NEW r \in Calls,
           Begin(r) \/ FindCharge(r) \/ (\E how \in {"error", "cancel"} : Break(r, how)) \/ Crash(r)
    PROVE  CallStep(r)
<1>1. CallsFit /\ StepFits(r) /\ UNCHANGED <<ledgerVars, mine>>
  BY DEF ChargeInv, Begin, FindCharge, Break, Crash
<1>2. CASE Begin(r)
  BY <1>1, <1>2, QuietStep DEF Begin, StepFits
<1>3. CASE FindCharge(r)
  BY <1>1, <1>3, QuietStep DEF FindCharge, StepFits
<1>4. ASSUME NEW how \in {"error", "cancel"}, Break(r, how) PROVE CallStep(r)
  BY <1>1, <1>4, QuietStep DEF Break, GivesBack, StepFits, Fates
<1>5. CASE Crash(r)
  BY <1>1, <1>5, QuietStep DEF Crash, StepFits, Fates
<1> QED
  BY <1>2, <1>3, <1>4, <1>5

-----------------------------------------------------------------------------
(* Calls that answer at once *)

\* A refund was made by the call that made the charge, which has failed; and
\* what ended without delivering was refunded.
RefundsFit ==
    /\ \A r \in Calls : RefundTaken(r) =>
          \E q \in Calls : ask[q] = ask[r] /\ mine[q] /\ fate[q] = "failed"
    /\ \A r \in Calls : mine[r] /\ at[r] = "done" =>
          \/ fate[r] \in {"delivered", "accepted", "lost", "unrefunded", "crashed"}
          \/ RefundTaken(r)

LEMMA CallStepRefunds ==
    ASSUME ChargeInv, RefundsFit, NEW r \in Calls, CallStep(r)
    PROVE  RefundsFit'
<1>1. CallsFit /\ StepFits(r) /\ fate[r] = "none"
  BY DEF ChargeInv, CallStep, StepFits
<1>2. ASSUME NEW q \in Calls, RefundTaken(q)'
      PROVE  \E p \in Calls : ask'[p] = ask'[q] /\ mine'[p] /\ fate'[p] = "failed"
  <2>1. CASE RefundTaken(q)
    <3>1. PICK p \in Calls : ask[p] = ask[q] /\ mine[p] /\ fate[p] = "failed"
      BY <2>1 DEF RefundsFit
    <3> QED
      BY <1>1, <3>1 DEF CallStep
  <2>2. CASE ~RefundTaken(q)
    BY <1>2, <2>2 DEF CallStep
  <2> QED
    BY <2>1, <2>2
<1>3. ASSUME NEW q \in Calls, mine'[q], at'[q] = "done"
      PROVE  \/ fate'[q] \in {"delivered", "accepted", "lost", "unrefunded", "crashed"}
             \/ RefundTaken(q)'
  BY <1>3 DEF CallStep, RefundsFit
<1> QED
  BY <1>2, <1>3 DEF RefundsFit

LEMMA InitBilling == BillingInit => ChargeInv /\ RefundsFit
<1> SUFFICES ASSUME BillingInit PROVE ChargeInv /\ RefundsFit
  OBVIOUS
<1> DEFINE bonus == Granted("register_bonus", BonusKey, Funds)
           row == [bonus EXCEPT !.balanceAfter = Funds]
<1>1. bonus \in Row /\ bonus.source = "register_bonus"
  <2>1. Funds \in Int /\ BonusKey \in Keys /\ "register_bonus" \in Sources \cup GrantSources
    BY BillingAssumption DEF GrantSources
  <2> QED
    BY <2>1, RowTypes DEF Granted, NewRow
<1>2. txs = [u \in Users |-> <<row>>]
  BY DEF BillingInit
<1> HIDE DEF bonus
<1>3. row \in Row /\ row.source = "register_bonus"
  BY <1>1, BillingAssumption DEF Row
<1> HIDE DEF row
<1>4. <<row>> \in Seq(Row)
  BY <1>3
<1>5. LedgerTypeOK
  <2>1. txs \in [Users -> Seq(Row)]
    BY <1>2, <1>4
  <2>2. wallet \in [Users -> Wallet]
    BY BillingAssumption DEF BillingInit, Wallet
  <2> QED
    BY <2>1, <2>2 DEF LedgerTypeOK, BillingInit
<1>6. CallsFit /\ \A r \in Calls : StepFits(r) /\ mine[r] = FALSE
  BY <1>5 DEF BillingInit, CallsFit, StepFits, Fates
<1>7. ASSUME NEW r \in Calls PROVE ~RefundTaken(r)
  <2>1. Rows(ask[r].user) = {row}
    <3>1. txs[ask[r].user] = <<row>>
      BY <1>2, <1>6, AskFields
    <3> QED
      BY <3>1 DEF Rows
  <2>2. ask[r].source # "register_bonus"
    BY <1>6, AskFields, SourcesAssumption DEF GrantSources
  <2> QED
    BY <1>3, <2>1, <2>2 DEF RefundTaken, Taken, Find
<1> QED
  BY <1>6, <1>7 DEF ChargeInv, OneOwner, RefundsFit

LEMMA NextBilling ==
    ChargeInv /\ RefundsFit /\ [BillingNext]_billingVars => ChargeInv' /\ RefundsFit'
<1> SUFFICES ASSUME ChargeInv, RefundsFit, [BillingNext]_billingVars
             PROVE  ChargeInv' /\ RefundsFit'
  OBVIOUS
<1>1. CASE BillingNext
  <2>1. PICK r \in Calls : CallStep(r)
    BY <1>1, DebitStep, ServeStep, RefundStep, SettleStep, OtherSteps DEF BillingNext
  <2> QED
    BY <2>1, CallStepCharge, CallStepRefunds
<1>2. CASE UNCHANGED billingVars
  <2>1. ChargeInv'
    BY <1>2, NoStepCharge DEF billingVars, callVars, ledgerVars
  <2>2. RefundsFit'
    <3>1. UNCHANGED callVars /\ UNCHANGED ledgerVars
      BY <1>2 DEF billingVars, callVars, ledgerVars
    <3>2. \A q \in Calls : RefundTaken(q)' <=> RefundTaken(q)
      BY <3>1 DEF callVars, ledgerVars, RefundTaken, Taken, Find, Rows
    <3> QED
      BY <3>1, <3>2 DEF RefundsFit, callVars
  <2> QED
    BY <2>1, <2>2
<1> QED
  BY <1>1, <1>2

\* _billing.py, discipline 1: whatever calls repeat a key, fail, are cancelled
\* or crash, the charge of a call that was delivered is not given back.
THEOREM DeliveredStaysPaid == BillingSpec => []DeliveredKeepsCharge
<1>1. ChargeInv /\ RefundsFit => DeliveredKeepsCharge
  <2> SUFFICES ASSUME ChargeInv, RefundsFit, NEW r \in Calls, mine[r], fate[r] = "delivered",
                      RefundTaken(r)
               PROVE  FALSE
    BY DEF DeliveredKeepsCharge
  <2>1. PICK q \in Calls : ask[q] = ask[r] /\ mine[q] /\ fate[q] = "failed"
    BY DEF RefundsFit
  <2> QED
    BY <2>1 DEF ChargeInv, OneOwner
<1> QED
  BY <1>1, InitBilling, NextBilling, PTL DEF BillingSpec

\* A call that made a charge and ended without delivering has given it back,
\* but for the losses the code knows of.
THEOREM UndeliveredIsPaidBack == BillingSpec => []UndeliveredIsRefunded
<1>1. RefundsFit => UndeliveredIsRefunded
  BY DEF RefundsFit, UndeliveredIsRefunded
<1> QED
  BY <1>1, InitBilling, NextBilling, PTL DEF BillingSpec

-----------------------------------------------------------------------------
(* What a key costs *)

\* The rows of a key: its charge at the price, its refund of as much, and the
\* settlement of a call that is done, for the images the charge did not pay.
Earns(u, t) ==
    \/ t.biz = Biz(t.biz[2]) /\ t.amount = -price[t.source]
    \/ t.biz = RefundOf(t.biz[2]) /\ t.amount = price[t.source]
    \/ /\ t.biz = SettleOf(t.biz[2])
       /\ \E q \in Calls :
             /\ ask[q].user = u /\ ask[q].source = t.source /\ ask[q].key = t.biz[2]
             /\ at[q] = "done" /\ imgs[q] # 0
             /\ t.amount = -(price[t.source] * (imgs[q] - 1))

RowsFit ==
    /\ \A u \in Users : \A t \in Rows(u) : t.source \in Sources => Earns(u, t)
    /\ \A u \in Users : \A s, t \in Rows(u) : s.source = t.source /\ s.biz = t.biz => s = t
    /\ \A q \in Calls : imgs[q] <= MaxImages

LEMMA EarnsKept ==
    ASSUME ChargeInv, NEW r \in Calls, CallStep(r), price' = price, NEW u, NEW t, Earns(u, t)
    PROVE  Earns(u, t)'
<1>1. CASE /\ t.biz = SettleOf(t.biz[2])
           /\ \E q \in Calls :
                 /\ ask[q].user = u /\ ask[q].source = t.source /\ ask[q].key = t.biz[2]
                 /\ at[q] = "done" /\ imgs[q] # 0
                 /\ t.amount = -(price[t.source] * (imgs[q] - 1))
  <2>1. PICK q \in Calls :
           /\ ask[q].user = u /\ ask[q].source = t.source /\ ask[q].key = t.biz[2]
           /\ at[q] = "done" /\ imgs[q] # 0
           /\ t.amount = -(price[t.source] * (imgs[q] - 1))
    BY <1>1
  <2>2. ask'[q] = ask[q] /\ at'[q] = at[q] /\ imgs'[q] = imgs[q]
    BY <2>1 DEF CallStep
  <2> QED
    BY <1>1, <2>1, <2>2 DEF Earns
<1> QED
  BY <1>1 DEF Earns

\* A step that posts at most one row, which fits.
LEMMA RowsKept ==
    ASSUME ChargeInv, RowsFit, NEW r \in Calls, CallStep(r), imgs'[r] <= MaxImages,
           \/ UNCHANGED ledgerVars
           \/ \E row \in Row : \E spent \in Int :
                 Posts(ask[r].user, row, spent) /\ Earns(ask[r].user, row)'
    PROVE  RowsFit'
<1>1. \A q \in Calls : imgs'[q] <= MaxImages
  BY DEF CallStep, RowsFit
<1>2. CASE UNCHANGED ledgerVars
  <2>1. price' = price /\ \A u : Rows(u)' = Rows(u)
    BY <1>2 DEF ledgerVars, Rows
  <2> QED
    BY <1>1, <2>1, EarnsKept DEF RowsFit
<1>3. ASSUME NEW row \in Row, NEW spent \in Int, Posts(ask[r].user, row, spent),
             Earns(ask[r].user, row)'
      PROVE  RowsFit'
  <2>1. PICK u \in Users : u = ask[r].user
    BY AskFields DEF ChargeInv
  <2>2. PICK new : new = [row EXCEPT !.balanceAfter = wallet[u].balance + row.amount]
    OBVIOUS
  <2>3. Post(u, row, spent) /\ ~Taken(u, row.source, row.biz) /\ price' = price
    BY <1>3, <2>1 DEF Posts, Post
  <2>4. Rows(u)' = Rows(u) \cup {new} /\ \A v \in Users \ {u} : Rows(v)' = Rows(v)
    BY <2>2, <2>3, PostRows DEF ChargeInv, CallsFit
  <2>5. new.source = row.source /\ new.biz = row.biz /\ new.amount = row.amount
    BY <2>2 DEF Row
  <2>6. Earns(u, new)'
    <3>1. Earns(u, row)'
      BY <1>3, <2>1 DEF CallStep
    <3> QED
      BY <2>5, <3>1 DEF Earns
  <2>7. \A t \in Rows(u) : ~(t.source = new.source /\ t.biz = new.biz)
    BY <2>3, <2>5 DEF Taken, Find
  <2>8. ASSUME NEW v \in Users, NEW t \in Rows(v)', t.source \in Sources PROVE Earns(v, t)'
    <3>1. CASE v = u /\ t = new
      BY <2>6, <3>1
    <3>2. CASE t \in Rows(v)
      BY <2>3, <2>8, <3>2, EarnsKept DEF RowsFit
    <3> QED
      BY <2>4, <2>8, <3>1, <3>2
  <2>9. ASSUME NEW v \in Users, NEW s \in Rows(v)', NEW t \in Rows(v)',
               s.source = t.source, s.biz = t.biz
        PROVE  s = t
    <3>1. CASE s \in Rows(v) /\ t \in Rows(v)
      BY <2>9, <3>1 DEF RowsFit
    <3>2. CASE v = u /\ (s = new \/ t = new)
      BY <2>4, <2>7, <2>9, <3>2
    <3> QED
      BY <2>4, <2>9, <3>1, <3>2
  <2> QED
    BY <1>1, <2>8, <2>9 DEF RowsFit
<1> QED
  BY <1>2, <1>3

LEMMA PriceNat ==
    ASSUME CallsFit, NEW r \in Calls
    PROVE  price[ask[r].source] \in Nat
<1>1. price[ask[r].source] \in Prices
  BY AskFields DEF CallsFit
<1> QED
  BY <1>1, PricesAssumption DEF PricesAssumption

\* The three families once more.
LEMMA FamiliesDiffer ==
    ASSUME NEW k, NEW l
    PROVE  /\ Biz(k) # SettleOf(l) /\ Biz(k) # RefundOf(l) /\ RefundOf(k) # SettleOf(l)
           /\ Biz(k)[2] = k /\ RefundOf(k)[2] = k /\ SettleOf(k)[2] = k
BY DEF Biz, RefundOf, SettleOf

\* The charge of a key is at the price of its service.
LEMMA ChargeAmount ==
    ASSUME CallsFit, RowsFit, NEW r \in Calls,
           NEW t \in Find(ask[r].user, ask[r].source, Biz(ask[r].key))
    PROVE  t.amount = -price[ask[r].source]
<1>1. t \in Rows(ask[r].user) /\ t.source = ask[r].source /\ t.biz = Biz(ask[r].key)
  BY DEF Find
<1>2. Earns(ask[r].user, t)
  BY <1>1, AskFields DEF RowsFit
<1> QED
  BY <1>1, <1>2, FamiliesDiffer DEF Earns

LEMMA DebitEarns ==
    ASSUME ChargeInv, RowsFit, NEW r \in Calls, Debit(r) PROVE RowsFit'
<1>1. CallsFit /\ CallStep(r) /\ imgs' = imgs /\ ask' = ask
  BY DebitStep DEF ChargeInv, Debit, Go, End
<1>2. imgs'[r] <= MaxImages
  BY <1>1 DEF RowsFit
<1>3. CASE UNCHANGED ledgerVars
  BY <1>1, <1>2, <1>3, RowsKept
<1>4. CASE Posts(ask[r].user, ChargeRow(r), Cost(r))
  <2>1. PICK c : c = Cost(r)
    OBVIOUS
  <2>2. PICK row : row = ChargeRow(r)
    OBVIOUS
  <2>3. c = price[ask[r].source] /\ c \in Int /\ -c \in Int
    BY <1>1, <2>1, PriceNat DEF Cost
  <2>4. row \in Row
    BY <1>1, <2>1, <2>2, <2>3, AskFields, RowTypes DEF ChargeRow
  <2>5. row.biz = Biz(ask[r].key) /\ row.source = ask[r].source /\ row.amount = -c
    BY <2>1, <2>2 DEF ChargeRow, Consume, NewRow
  <2>6. price' = price
    BY <1>4 DEF Posts, Post
  <2>7. row.biz = Biz(row.biz[2])
    BY <2>5, FamiliesDiffer
  <2>8. Earns(ask[r].user, row)'
    BY <1>1, <2>3, <2>5, <2>6, <2>7 DEF Earns
  <2> QED
    BY <1>1, <1>2, <1>4, <2>1, <2>2, <2>3, <2>4, <2>8, RowsKept
<1> QED
  BY <1>3, <1>4 DEF Debit, Hits

LEMMA RefundEarns ==
    ASSUME ChargeInv, RowsFit, NEW r \in Calls, Refund(r) PROVE RowsFit'
<1>1. CallsFit /\ CallStep(r) /\ imgs' = imgs /\ ask' = ask
  BY RefundStep DEF ChargeInv, Refund, End
<1>2. imgs'[r] <= MaxImages
  BY <1>1 DEF RowsFit
<1>3. CASE UNCHANGED ledgerVars
  BY <1>1, <1>2, <1>3, RowsKept
<1>4. ASSUME NEW t \in Find(ask[r].user, ask[r].source, Biz(ask[r].key)), NEW row,
             row = Refunded(ask[r].source, ask[r].key, -t.amount),
             Posts(ask[r].user, row, t.amount)
      PROVE  RowsFit'
  <2>1. PICK c \in Nat : c = price[ask[r].source]
    BY <1>1, PriceNat
  <2>2. t.amount = -c /\ t.amount \in Int /\ -t.amount = c /\ -t.amount \in Int
    BY <1>1, <2>1, ChargeAmount
  <2>3. row \in Row
    BY <1>1, <1>4, <2>2, AskFields, RowTypes
  <2>4. row.biz = RefundOf(ask[r].key) /\ row.source = ask[r].source /\ row.amount = c
    BY <1>4, <2>2 DEF Refunded, NewRow
  <2>5. price' = price
    BY <1>4 DEF Posts, Post
  <2>6. row.biz = RefundOf(row.biz[2])
    BY <2>4, FamiliesDiffer
  <2>7. Earns(ask[r].user, row)'
    BY <1>1, <2>1, <2>4, <2>5, <2>6 DEF Earns
  <2> QED
    BY <1>1, <1>2, <1>4, <2>2, <2>3, <2>7, RowsKept
<1> QED
  BY <1>3, <1>4 DEF Refund, RefundAll, Hits

\* A settlement is for the images of a call that is done.
LEMMA SettleEarns ==
    ASSUME ChargeInv, RowsFit, NEW r \in Calls, Settle(r) PROVE RowsFit'
<1>1. CallsFit /\ CallStep(r) /\ imgs' = imgs /\ ask' = ask /\ at[r] = "settle"
      /\ at' = [at EXCEPT ![r] = "done"]
  BY SettleStep DEF ChargeInv, Settle, End
<1>2. imgs'[r] <= MaxImages
  BY <1>1 DEF RowsFit
<1>3. CASE UNCHANGED ledgerVars
  BY <1>1, <1>2, <1>3, RowsKept
<1>4. PICK n \in Nat \ {0} : n = imgs[r]
  BY <1>1 DEF ChargeInv, StepFits
<1>5. ASSUME NEW t \in Find(ask[r].user, ask[r].source, Biz(ask[r].key)), NEW delta, NEW row,
             delta = -t.amount * (n - 1),
             row = Settled(ask[r].source, ask[r].key, delta, n - 1),
             Posts(ask[r].user, row, delta)
      PROVE  RowsFit'
  <2>1. PICK c \in Nat : c = price[ask[r].source]
    BY <1>1, PriceNat
  <2>2. t.amount = -c
    BY <1>1, <2>1, ChargeAmount
  <2>3. delta \in Int /\ -delta = -(c * (n - 1)) /\ -delta \in Int /\ n - 1 \in Nat
    BY <1>5, <2>2
  <2>4. row \in Row
    BY <1>1, <1>5, <2>3, AskFields, RowTypes
  <2>5. row.biz = SettleOf(ask[r].key) /\ row.source = ask[r].source
        /\ row.amount = -(c * (n - 1))
    BY <1>5, <2>3 DEF Settled, NewRow
  <2>6. price' = price
    BY <1>5 DEF Posts, Post
  <2>7. row.biz = SettleOf(row.biz[2]) /\ row.biz[2] = ask[r].key
    BY <2>5, FamiliesDiffer
  <2>8. at'[r] = "done" /\ imgs'[r] = n /\ n # 0
    BY <1>1, <1>4 DEF CallsFit
  <2>9. Earns(ask[r].user, row)'
    BY <1>1, <2>1, <2>5, <2>6, <2>7, <2>8 DEF Earns
  <2> QED
    BY <1>1, <1>2, <1>5, <2>3, <2>4, <2>9, RowsKept
<1>6. CASE SettleFor(r, n)
  <2>1. PICK t \in Find(ask[r].user, ask[r].source, Biz(ask[r].key)) :
           LET delta == -t.amount * (n - 1)
               row == Settled(ask[r].source, ask[r].key, delta, n - 1)
           IN  IF n = 1 THEN UNCHANGED ledgerVars
               ELSE Posts(ask[r].user, row, delta) \/ Hits(ask[r].user, row)
    BY <1>6 DEF SettleFor
  <2> QED
    BY <1>3, <1>5, <2>1 DEF Hits
<1> QED
  BY <1>3, <1>4, <1>6 DEF Settle

\* The steps that write no row; the model yields at most MaxImages images.
LEMMA QuietEarns ==
    ASSUME ChargeInv, RowsFit, NEW r \in Calls, UNCHANGED ledgerVars, CallStep(r),
           imgs' = imgs \/ \E n \in 1..MaxImages : imgs' = [imgs EXCEPT ![r] = n]
    PROVE  RowsFit'
<1>1. imgs'[r] <= MaxImages
  BY DEF RowsFit, ChargeInv, CallsFit
<1> QED
  BY <1>1, RowsKept

LEMMA NextEarns ==
    ChargeInv /\ RowsFit /\ [BillingNext]_billingVars => RowsFit'
<1> SUFFICES ASSUME ChargeInv, RowsFit, [BillingNext]_billingVars PROVE RowsFit'
  OBVIOUS
<1>1. ASSUME NEW r \in Calls, Serve(r) PROVE RowsFit'
  <2>1. 1 \in 1..MaxImages
    BY BillingAssumption
  <2>2. UNCHANGED ledgerVars /\ CallStep(r)
        /\ \E n \in 1..MaxImages : imgs' = [imgs EXCEPT ![r] = n]
    BY <1>1, <2>1, ServeStep DEF Serve
  <2> QED
    BY <2>2, QuietEarns
<1>2. ASSUME NEW r \in Calls,
             Begin(r) \/ FindCharge(r) \/ (\E how \in {"error", "cancel"} : Break(r, how)) \/ Crash(r)
      PROVE  RowsFit'
  <2>1. UNCHANGED ledgerVars /\ imgs' = imgs
    BY <1>2 DEF Begin, FindCharge, Break, Crash, Go, End
  <2> QED
    BY <1>2, <2>1, OtherSteps, QuietEarns
<1>3. CASE UNCHANGED billingVars
  <2>1. UNCHANGED callVars /\ UNCHANGED ledgerVars
    BY <1>3 DEF billingVars, callVars, ledgerVars
  <2>2. price' = price /\ \A u : Rows(u)' = Rows(u)
    BY <2>1 DEF ledgerVars, Rows
  <2> QED
    BY <2>1, <2>2 DEF RowsFit, Earns, callVars
<1> QED
  BY <1>1, <1>2, <1>3, DebitEarns, RefundEarns, SettleEarns DEF BillingNext

LEMMA InitEarns == BillingInit => RowsFit
<1> SUFFICES ASSUME BillingInit PROVE RowsFit
  OBVIOUS
<1>1. PICK row : row = [Granted("register_bonus", BonusKey, Funds) EXCEPT !.balanceAfter = Funds]
  OBVIOUS
<1>2. row.source = "register_bonus"
  BY <1>1 DEF Granted, NewRow
<1>3. \A u \in Users : txs[u] = <<row>>
  BY <1>1 DEF BillingInit
<1>4. \A u \in Users : Rows(u) = {row}
  BY <1>3 DEF Rows
<1>5. "register_bonus" \notin Sources
  BY SourcesAssumption DEF GrantSources
<1>6. \A q \in Calls : imgs[q] <= MaxImages
  BY BillingAssumption DEF BillingInit
<1> QED
  BY <1>2, <1>4, <1>5, <1>6 DEF RowsFit

\* A bounded set of numbers that is not empty has a largest.
LEMMA MaxOf ==
    ASSUME NEW b \in Nat, NEW S \in SUBSET (0..b), S # {}
    PROVE  Max(S) \in S /\ \A y \in S : y <= Max(S)
<1> DEFINE Below == {n \in Nat : \E y \in S : n <= y}
<1>1. 0 \in Below
  <2>1. PICK y : y \in S
    OBVIOUS
  <2>2. y \in 0..b /\ 0 <= y
    BY <2>1
  <2> QED
    BY <2>1, <2>2
<1>2. b + 1 \in Nat /\ b + 1 \notin Below
  OBVIOUS
<1>3. \E n \in Nat : n \in Below /\ n + 1 \notin Below
  <2> SUFFICES ASSUME \A n \in Nat : n \in Below => n + 1 \in Below PROVE FALSE
    OBVIOUS
  <2> HIDE DEF Below
  <2>1. Nat \subseteq Below
    BY <1>1, NatSetInduction
  <2> QED
    BY <1>2, <2>1
<1>4. PICK n \in Nat : n \in Below /\ n + 1 \notin Below
  BY <1>3
<1>5. PICK x \in S : n <= x
  BY <1>4
<1>6. \A y \in S : x >= y
  <2> SUFFICES ASSUME NEW y \in S, ~(x >= y) PROVE FALSE
    OBVIOUS
  <2>1. x \in Nat /\ y \in Nat /\ n + 1 <= y
    BY <1>5
  <2> QED
    BY <1>4, <2>1
<1>7. Max(S) \in S /\ \A y \in S : Max(S) >= y
  BY <1>6 DEF Max
<1> QED
  BY <1>7

LEMMA MoreCostsMore ==
    ASSUME NEW c \in Nat, NEW n \in Nat, NEW m \in Nat, n <= m
    PROVE  c * n <= c * m /\ c * n \in Nat /\ c * m \in Nat
<1>1. PICK k \in Nat : m = n + k
  <2>1. m - n \in Nat /\ m = n + (m - n)
    OBVIOUS
  <2> QED
    BY <2>1
<1>2. c * n \in Nat /\ c * k \in Nat /\ c * m = c * n + c * k
  BY <1>1
<1> QED
  BY <1>2

\* What a charge, perhaps with its refund and perhaps with its settlement, adds
\* up to.
LEMMA ChargeSum ==
    ASSUME NEW rows, NEW f, NEW c \in rows, NEW p \in Nat, NEW n \in Nat \ {0}, NEW m \in Nat,
           n <= m, f[c] = p,
           NEW e, e \in rows \ {c} => f[e] = -p,
           NEW d, d \in rows \ {c, e} => f[d] = p * (n - 1),
           rows \subseteq {c, e, d}
    PROVE  SumFunctionOnSet(f, rows) \in 0..(p * m)
<1>1. p * (n - 1) = p * n - p /\ p * n \in Nat /\ p * m \in Nat /\ p * n <= p * m
      /\ p * (n - 1) \in Nat /\ p <= p * m
  <2>1. p * n <= p * m /\ p * n \in Nat /\ p * m \in Nat
    BY MoreCostsMore
  <2>2. p * 1 <= p * m
    BY MoreCostsMore
  <2>3. p * (n - 1) = p * n - p
    OBVIOUS
  <2>4. n - 1 \in Nat
    OBVIOUS
  <2>5. p * (n - 1) \in Nat
    BY <2>4
  <2> QED
    BY <2>1, <2>2, <2>3, <2>5
<1>2. SumFunctionOnSet(f, {c}) = p
  <2>1. {} \cup {c} = {c} /\ IsFiniteSet({}) /\ c \notin {} /\ \A x \in {} \cup {c} : f[x] \in Int
    BY FS_EmptySet
  <2>2. SumFunctionOnSet(f, {} \cup {c}) = f[c] + SumFunctionOnSet(f, {})
    BY <2>1, SumAdd
  <2> QED
    BY <2>1, <2>2, SumEmpty
<1>3. IsFiniteSet({c}) /\ IsFiniteSet({c} \cup {e})
  BY FS_Singleton, FS_AddElement
<1>4. e \in rows \ {c} => SumFunctionOnSet(f, {c} \cup {e}) = 0
  <2> SUFFICES ASSUME e \in rows \ {c} PROVE SumFunctionOnSet(f, {c} \cup {e}) = 0
    OBVIOUS
  <2>1. e \notin {c} /\ \A x \in {c} \cup {e} : f[x] \in Int
    OBVIOUS
  <2>2. SumFunctionOnSet(f, {c} \cup {e}) = f[e] + SumFunctionOnSet(f, {c})
    BY <1>3, <2>1, SumAdd
  <2>3. f[e] = -p /\ (-p) + p = 0
    OBVIOUS
  <2> QED
    BY <1>2, <2>2, <2>3
<1>5. CASE d \notin rows \ {c, e} /\ e \notin rows \ {c}
  <2>1. rows = {c}
    BY <1>5
  <2> QED
    BY <1>1, <1>2, <2>1
<1>6. CASE d \notin rows \ {c, e} /\ e \in rows \ {c}
  <2>1. rows = {c} \cup {e}
    BY <1>6
  <2>2. SumFunctionOnSet(f, rows) = 0
    BY <1>4, <1>6, <2>1
  <2> QED
    BY <1>1, <2>2
<1>7. CASE d \in rows \ {c, e} /\ e \notin rows \ {c}
  <2>1. rows = {c} \cup {d} /\ d \notin {c} /\ \A x \in {c} \cup {d} : f[x] \in Int
    BY <1>1, <1>7
  <2>2. SumFunctionOnSet(f, {c} \cup {d}) = f[d] + SumFunctionOnSet(f, {c})
    BY <1>3, <2>1, SumAdd
  <2>3. SumFunctionOnSet(f, rows) = p * (n - 1) + p
    BY <1>2, <1>7, <2>1, <2>2
  <2> QED
    BY <1>1, <2>3
<1>8. CASE d \in rows \ {c, e} /\ e \in rows \ {c}
  <2>1. /\ rows = ({c} \cup {e}) \cup {d} /\ d \notin {c} \cup {e}
        /\ \A x \in ({c} \cup {e}) \cup {d} : f[x] \in Int
    BY <1>1, <1>8
  <2>2. SumFunctionOnSet(f, ({c} \cup {e}) \cup {d}) = f[d] + SumFunctionOnSet(f, {c} \cup {e})
    BY <1>3, <2>1, SumAdd
  <2>3. SumFunctionOnSet(f, rows) = p * (n - 1)
    <3>1. SumFunctionOnSet(f, {c} \cup {e}) = 0 /\ f[d] = p * (n - 1)
      BY <1>4, <1>8
    <3>2. f[d] + 0 = f[d]
      BY <1>1, <3>1
    <3> QED
      BY <2>1, <2>2, <3>1, <3>2
  <2> QED
    BY <1>1, <2>3
<1> QED
  BY <1>5, <1>6, <1>7, <1>8

LEMMA NetFits ==
    ASSUME ChargeInv, RowsFit, NEW r \in Calls, mine[r]
    PROVE  LET most == Max({1} \cup {imgs[q] : q \in {p \in Calls : ask[p] = ask[r]}})
           IN  Net(r) \in 0..(Cost(r) * most)
<1> DEFINE yields == {1} \cup {imgs[q] : q \in {p \in Calls : ask[p] = ask[r]}}
           most == Max(yields)
<1>1. CallsFit /\ Charged(r) /\ ask[r].user \in Users /\ ask[r].source \in Sources
  BY AskFields DEF ChargeInv, OneOwner
<1>2. most \in Nat /\ \A y \in yields : y <= most
  <2>1. yields \in SUBSET (0..MaxImages) /\ MaxImages \in Nat
    BY <1>1, BillingAssumption DEF RowsFit, CallsFit
  <2>2. yields # {}
    OBVIOUS
  <2> HIDE DEF yields
  <2>3. Max(yields) \in yields /\ \A y \in yields : y <= Max(yields)
    BY <2>1, <2>2, MaxOf
  <2>4. Max(yields) \in 0..MaxImages
    BY <2>1, <2>3
  <2>5. Max(yields) \in Nat
    BY <2>1, <2>4
  <2> QED
    BY <2>3, <2>5
<1>3. PICK p \in Nat : p = price[ask[r].source]
  BY <1>1, PriceNat
<1>4. PICK u, s, k : u = ask[r].user /\ s = ask[r].source /\ k = ask[r].key
  OBVIOUS
<1> DEFINE rows == {t \in Rows(u) : t.source = s /\ t.biz[2] = k}
           f == [t \in rows |-> -t.amount]
<1>5. Net(r) = SumFunctionOnSet(f, rows)
  BY <1>4 DEF Net, SumFunction
<1>6. \A t \in rows : Earns(u, t) /\ t.source = s /\ t.biz[2] = k /\ f[t] = -t.amount
  BY <1>1, <1>4 DEF RowsFit
<1>7. \A t, v \in rows : t.biz = v.biz => t = v
  BY <1>1, <1>4 DEF RowsFit
<1>8. PICK c \in rows : c.biz = Biz(k) /\ f[c] = p
  <2>1. PICK c \in Rows(u) : c.source = s /\ c.biz = Biz(k)
    BY <1>1, <1>4 DEF Charged, Taken, Find
  <2>2. c \in rows
    BY <2>1, FamiliesDiffer
  <2>3. c.amount = -p
    BY <1>1, <1>3, <1>4, <2>1, ChargeAmount DEF Find
  <2>4. f[c] = p
    BY <2>2, <2>3
  <2> QED
    BY <2>1, <2>2, <2>4
<1>9. \A t \in rows : \/ t.biz = Biz(k)
                      \/ t.biz = RefundOf(k) /\ f[t] = -p
                      \/ t.biz = SettleOf(k) /\ \E n \in Nat \ {0} : n <= most /\ f[t] = p * (n - 1)
  <2> SUFFICES ASSUME NEW t \in rows
               PROVE  \/ t.biz = Biz(k)
                      \/ t.biz = RefundOf(k) /\ f[t] = -p
                      \/ /\ t.biz = SettleOf(k)
                         /\ \E n \in Nat \ {0} : n <= most /\ f[t] = p * (n - 1)
    OBVIOUS
  <2> HIDE DEF rows, f, most
  <2>6. CASE t.biz = Biz(k)
    BY <2>6
  <2>7. CASE t.biz = RefundOf(k)
    <3>1. t.amount = p
      BY <1>3, <1>4, <1>6, <2>7, FamiliesDiffer DEF Earns
    <3> QED
      BY <1>6, <2>7, <3>1
  <2> SUFFICES ASSUME t.biz # Biz(k), t.biz # RefundOf(k)
               PROVE  /\ t.biz = SettleOf(k)
                      /\ \E n \in Nat \ {0} : n <= most /\ f[t] = p * (n - 1)
    BY <2>6, <2>7
  <2>1. PICK q \in Calls : /\ ask[q].user = u /\ ask[q].source = s /\ ask[q].key = k
                           /\ imgs[q] # 0 /\ t.amount = -(p * (imgs[q] - 1))
    BY <1>3, <1>4, <1>6 DEF Earns
  <2>2. imgs[q] \in Nat \ {0} /\ ask[q] = ask[r]
    BY <1>1, <1>4, <2>1, SameAsk DEF CallsFit
  <2>3. imgs[q] <= most
    BY <1>2, <2>2
  <2>4. f[t] = p * (imgs[q] - 1)
    <3>1. PICK n \in Nat : n = imgs[q] - 1
      BY <2>2
    <3>2. p * n \in Nat /\ f[t] = -(-(p * n))
      BY <1>6, <2>1, <3>1
    <3> QED
      BY <3>1, <3>2
  <2>5. t.biz = SettleOf(k)
    BY <1>6 DEF Earns
  <2> QED
    BY <2>2, <2>3, <2>4, <2>5
<1> HIDE DEF rows, f, most
<1>10. PICK e \in rows : \/ e.biz = RefundOf(k)
                         \/ e = c /\ \A t \in rows : t.biz # RefundOf(k)
  <2>1. CASE \E t \in rows : t.biz = RefundOf(k)
    BY <2>1
  <2>2. CASE \A t \in rows : t.biz # RefundOf(k)
    BY <1>8, <2>2
  <2> QED
    BY <2>1, <2>2
<1>11. PICK d \in rows : \/ d.biz = SettleOf(k)
                         \/ d = c /\ \A t \in rows : t.biz # SettleOf(k)
  <2>1. CASE \E t \in rows : t.biz = SettleOf(k)
    BY <2>1
  <2>2. CASE \A t \in rows : t.biz # SettleOf(k)
    BY <1>8, <2>2
  <2> QED
    BY <2>1, <2>2
<1>12. PICK n \in Nat \ {0} : n <= most /\ (d # c => f[d] = p * (n - 1))
  <2>1. 1 \in Nat \ {0} /\ 1 <= most
    BY <1>2
  <2>2. d # c => \E n \in Nat \ {0} : n <= most /\ f[d] = p * (n - 1)
    BY <1>9, <1>11, FamiliesDiffer
  <2> QED
    BY <2>1, <2>2
<1>13. (e # c => f[e] = -p) /\ rows \subseteq {c, e, d}
  BY <1>7, <1>8, <1>9, <1>10, <1>11, FamiliesDiffer
<1>14. SumFunctionOnSet(f, rows) \in 0..(p * most)
  BY <1>2, <1>8, <1>12, <1>13, ChargeSum
<1> QED
  BY <1>3, <1>5, <1>14 DEF Cost, most

\* Whatever attempts share a key, in whatever order they yield images, settle,
\* fail and are refunded: the key costs no more than the images of its richest
\* attempt, and earns nothing.
THEOREM KeysCostTheirImages == BillingSpec => []NetWithinImages
<1>1. ChargeInv /\ RowsFit => NetWithinImages
  BY NetFits DEF NetWithinImages
<1>2. BillingInit => ChargeInv /\ RefundsFit /\ RowsFit
  BY InitBilling, InitEarns
<1>3. ChargeInv /\ RefundsFit /\ RowsFit /\ [BillingNext]_billingVars
         => ChargeInv' /\ RefundsFit' /\ RowsFit'
  BY NextBilling, NextEarns
<1> QED
  BY <1>1, <1>2, <1>3, PTL DEF BillingSpec

-----------------------------------------------------------------------------
(* Calls that are queued *)

\* A product in the pool, a refund, or one that failed.
TaskSettled(r) == Snapshots(r) # {} \/ RefundTaken(r) \/ r \in unpaid

\* A worker that announces has put; one that acknowledges has settled its call.
WorkFits(w) ==
    doing[w] # Idle =>
        /\ doing[w].step = "publish" => Snapshots(doing[w].call) # {}
        /\ doing[w].step = "ack" => TaskSettled(doing[w].call)

TasksFit ==
    /\ queue \subseteq Calls
    /\ doing \in [Workers -> Task \cup {Idle}]
    /\ \A w \in Workers : WorkFits(w)
    /\ DoneIsAccounted

\* A step of a call hands its task over before the call is answered.
LEMMA CallStepTasks ==
    ASSUME ChargeInv, TasksFit, NEW r \in Calls, CallStep(r),
           queue \subseteq queue', queue' \subseteq Calls, UNCHANGED <<doing, pool, unpaid>>,
           mine'[r] /\ fate'[r] = "accepted" => r \in queue'
    PROVE  TasksFit'
<1>1. \A q \in Calls : (TaskSettled(q) => TaskSettled(q)') /\ (Pending(q) => Pending(q)')
                       /\ (Snapshots(q) # {} => Snapshots(q)' # {})
  BY DEF CallStep, TaskSettled, Snapshots, Pending
<1>2. \A w \in Workers : WorkFits(w)'
  BY <1>1 DEF TasksFit, WorkFits, Task
<1>3. ASSUME NEW q \in Calls, mine'[q], at'[q] = "done", ~Pending(q)'
      PROVE  Accounted(q)'
  <2>1. CASE q = r
    BY <1>3, <2>1 DEF CallStep, Accounted, Pending
  <2>2. CASE q # r
    BY <1>1, <1>3, <2>2 DEF CallStep, TasksFit, DoneIsAccounted, Accounted, TaskSettled
  <2> QED
    BY <2>1, <2>2
<1> QED
  BY <1>2, <1>3 DEF TasksFit, DoneIsAccounted

LEMMA RequestStep ==
    ASSUME ChargeInv, TasksFit, NEW r \in Calls,
           Request(r) \/ (Crash(r) /\ UNCHANGED parseVars)
    PROVE  ChargeInv' /\ TasksFit'
<1>1. CASE Accept(r)
  <2>1. /\ at[r] = "run" /\ UNCHANGED <<ledgerVars, mine>> /\ End(r, "accepted")
        /\ queue \subseteq queue' /\ UNCHANGED <<doing, pool, unpaid>>
        /\ queue' \subseteq queue \cup {r} /\ (mine'[r] => r \in queue')
    BY <1>1 DEF Accept
  <2>2. CallStep(r)
    BY <2>1, QuietStep DEF Fates
  <2> QED
    BY <2>1, <2>2, CallStepCharge, CallStepTasks DEF TasksFit
<1>2. ASSUME NEW how \in {"error", "cancel"}, DispatchFails(r, how)
      PROVE  ChargeInv' /\ TasksFit'
  <2>1. /\ Break(r, how) /\ queue \subseteq queue' /\ UNCHANGED <<doing, pool, unpaid>>
        /\ queue' \subseteq queue \cup {r}
    BY <1>2 DEF DispatchFails
  <2>2. CallStep(r)
    BY <2>1, OtherSteps
  <2>3. fate[r] \in Fates /\ fate'[r] # "accepted"
    BY <2>1 DEF Break, Go, End, ChargeInv, CallsFit, StepFits
  <2> QED
    BY <2>1, <2>2, <2>3, CallStepCharge, CallStepTasks DEF TasksFit
<1>3. CASE (Begin(r) \/ Debit(r) \/ Refund(r) \/ Crash(r)) /\ UNCHANGED parseVars
  <2>1. CallStep(r)
    BY <1>3, DebitStep, RefundStep, OtherSteps
  <2>2. fate'[r] # "accepted"
    BY <1>3 DEF Begin, Debit, Refund, Crash, Go, End, ChargeInv, CallsFit, StepFits
  <2> QED
    BY <1>3, <2>1, <2>2, CallStepCharge, CallStepTasks DEF TasksFit, parseVars
<1> QED
  BY <1>1, <1>2, <1>3 DEF Request

\* A worker lets its task go when it is settled, or back on the queue.
LEMMA WorkerTasks ==
    ASSUME TasksFit, NEW w \in Workers, UNCHANGED callVars,
           \A q \in Calls : RefundTaken(q) => RefundTaken(q)',
           pool \subseteq pool', unpaid \subseteq unpaid', queue' \subseteq Calls,
           doing' \in [Workers -> Task \cup {Idle}],
           \A v \in Workers \ {w} : doing'[v] = doing[v],
           \A q \in queue \ queue' : doing'[w] # Idle /\ doing'[w].call = q,
           doing[w] # Idle =>
               \/ doing'[w] # Idle /\ doing'[w].call = doing[w].call
               \/ doing[w].call \in queue'
               \/ doing[w].step = "ack",
           WorkFits(w)'
    PROVE  TasksFit'
<1>1. \A q \in Calls : /\ TaskSettled(q) => TaskSettled(q)'
                       /\ Snapshots(q) # {} => Snapshots(q)' # {}
                       /\ Accounted(q) => Accounted(q)'
  BY DEF callVars, TaskSettled, Snapshots, Accounted
<1>2. ASSUME NEW v \in Workers PROVE WorkFits(v)'
  BY <1>1, <1>2 DEF TasksFit, WorkFits, Task
<1>3. ASSUME NEW q \in Calls, Pending(q), ~Pending(q)'
      PROVE  Accounted(q)'
  <2>1. q \notin queue
    BY <1>3 DEF Pending
  <2>2. PICK v \in Workers : doing[v] # Idle /\ doing[v].call = q
    BY <1>3, <2>1 DEF Pending
  <2>3. v = w /\ doing[w].step = "ack"
    BY <1>3, <2>2 DEF Pending
  <2>4. TaskSettled(q)
    BY <2>2, <2>3 DEF TasksFit, WorkFits
  <2> QED
    BY <1>1, <2>4 DEF TaskSettled, Accounted
<1>4. ASSUME NEW q \in Calls, mine'[q], at'[q] = "done", ~Pending(q)'
      PROVE  Accounted(q)'
  BY <1>1, <1>3, <1>4 DEF TasksFit, DoneIsAccounted, callVars
<1> QED
  BY <1>2, <1>4 DEF TasksFit, DoneIsAccounted

\* The charge of a call stands still while workers work.
LEMMA WorkerCharge ==
    ASSUME ChargeInv, UNCHANGED callVars, NEW r \in Calls,
           UNCHANGED ledgerVars \/ RefundAll(r)
    PROVE  ChargeInv' /\ \A q \in Calls : RefundTaken(q) => RefundTaken(q)'
<1>1. CallsFit /\ ask' = ask
  BY DEF ChargeInv, callVars
<1>2. \E b : Takes(ask[r].user, ask[r].source, b)
  BY <1>1, NothingTaken, RefundTakes
<1>3. /\ \A q \in Calls : Charged(q) => Charged(q)'
      /\ \A q \in Calls : RefundTaken(q) => RefundTaken(q)'
  BY <1>1, <1>2, AskFields DEF Charged, RefundTaken, Takes
<1>4. LedgerTypeOK' /\ price' = price
  BY <1>2 DEF Takes
<1>5. CallsFit' /\ \A q \in Calls : StepFits(q)'
  BY <1>4 DEF ChargeInv, CallsFit, StepFits, callVars
<1>6. OneOwner'
  BY <1>3 DEF ChargeInv, OneOwner, callVars
<1> QED
  BY <1>3, <1>5, <1>6 DEF ChargeInv

\* What a worker is at has a call, unless it is idle.
LEMMA AtWork ==
    ASSUME TasksFit, NEW w \in Workers, doing[w].step # "idle"
    PROVE  doing[w] \in Task /\ doing[w].call \in Calls
BY DEF TasksFit, Task, Idle

LEMMA NotIdle ==
    ASSUME NEW t \in Task
    PROVE  t # Idle /\ t.step # "idle"
           /\ \A step \in {"parse", "put", "publish", "refund", "ack"} :
                 LET next == [t EXCEPT !.step = step]
                 IN  next \in Task /\ next.step = step /\ next.call = t.call
BY DEF Task, Idle

\* A worker goes on with its call.
LEMMA WorkerGoesOn ==
    ASSUME TasksFit, NEW w \in Workers, doing[w].step # "idle",
           NEW step \in {"parse", "put", "publish", "refund", "ack"}, Next1(w, step)
    PROVE  /\ doing' \in [Workers -> Task \cup {Idle}]
           /\ \A v \in Workers \ {w} : doing'[v] = doing[v]
           /\ doing[w] # Idle /\ doing'[w] # Idle
           /\ doing'[w].call = doing[w].call /\ doing'[w].step = step
<1> DEFINE next == [doing[w] EXCEPT !.step = step]
<1>1. doing[w] \in Task
  BY AtWork
<1>2. next \in Task /\ next # Idle /\ next.step = step /\ next.call = doing[w].call
  BY <1>1, NotIdle
<1>3. doing' = [doing EXCEPT ![w] = next]
  BY DEF Next1
<1> HIDE DEF next
<1> QED
  BY <1>1, <1>2, <1>3, NotIdle DEF TasksFit

LEMMA WorkStep ==
    ASSUME ChargeInv, TasksFit, NEW w \in Workers, Work(w) \/ WorkerDies(w)
    PROVE  ChargeInv' /\ TasksFit'
<1>1. UNCHANGED callVars
  BY DEF Work, Take, Parse, Put, Publish, RefundQuietly, Ack, WorkerDies, billingVars, callVars
<1>2. CASE Take(w)
  <2>1. PICK r \in queue : /\ queue' = queue \ {r}
                           /\ doing' = [doing EXCEPT ![w] = [step |-> "parse", call |-> r]]
    BY <1>2 DEF Take
  <2>2. r \in Calls /\ UNCHANGED <<ledgerVars, pool, unpaid>> /\ doing[w] = Idle
    BY <1>2 DEF Take, TasksFit, billingVars, ledgerVars
  <2>3. ChargeInv' /\ \A q \in Calls : RefundTaken(q) => RefundTaken(q)'
    BY <1>1, <2>2, WorkerCharge
  <2>4. [step |-> "parse", call |-> r] \in Task
    BY <2>2 DEF Task
  <2>5. /\ doing' \in [Workers -> Task \cup {Idle}] /\ doing'[w] = [step |-> "parse", call |-> r]
        /\ \A v \in Workers \ {w} : doing'[v] = doing[v]
    BY <2>1, <2>4 DEF TasksFit
  <2>6. doing'[w] # Idle /\ doing'[w].step = "parse"
    <3> DEFINE task == [step |-> "parse", call |-> r]
    <3>1. task \in Task /\ task.step = "parse" /\ doing'[w] = task
      BY <2>4, <2>5
    <3> HIDE DEF task
    <3> QED
      BY <3>1, NotIdle
  <2>7. WorkFits(w)'
    BY <2>6 DEF WorkFits
  <2> QED
    BY <1>1, <2>1, <2>2, <2>3, <2>5, <2>6, <2>7, WorkerTasks DEF TasksFit
<1>3. CASE Parse(w) \/ Put(w) \/ Publish(w)
  <2>1. /\ doing[w].step # "idle" /\ UNCHANGED <<ledgerVars, queue, unpaid>>
        /\ pool \subseteq pool'
    BY <1>3 DEF Parse, Put, Publish, billingVars, ledgerVars
  <2>2. doing[w] \in Task /\ doing[w].call \in Calls
    BY <2>1, AtWork
  <2>3. ChargeInv' /\ \A q \in Calls : RefundTaken(q) => RefundTaken(q)'
    BY <1>1, <2>1, <2>2, WorkerCharge
  <2>4. PICK step \in {"put", "publish", "refund", "ack"} :
           /\ Next1(w, step)
           /\ step = "publish" => pool' = pool \cup {[call |-> doing[w].call,
                                                     take |-> takes[doing[w].call]]}
           /\ step = "ack" => doing[w].step = "publish"
    BY <1>3 DEF Parse, Put, Publish, OnFailure
  <2>5. /\ doing' \in [Workers -> Task \cup {Idle}]
        /\ \A v \in Workers \ {w} : doing'[v] = doing[v]
        /\ doing[w] # Idle /\ doing'[w] # Idle
        /\ doing'[w].call = doing[w].call /\ doing'[w].step = step
    BY <2>1, <2>4, WorkerGoesOn
  <2>6. WorkFits(w)'
    <3>1. PICK r \in Calls : doing[w].call = r
      BY <2>2
    <3>2. step = "publish" => Snapshots(r)' # {}
      <4>1. ASSUME step = "publish"
            PROVE  [call |-> r, take |-> takes[r]] \in Snapshots(r)'
        BY <2>4, <3>1, <4>1 DEF Snapshots
      <4> QED
        BY <4>1
    <3>3. step = "ack" => TaskSettled(r)'
      <4>1. ASSUME step = "ack" PROVE TaskSettled(r)'
        <5>1. Snapshots(r) # {}
          BY <2>4, <2>5, <3>1, <4>1 DEF TasksFit, WorkFits
        <5> QED
          BY <2>1, <5>1 DEF TaskSettled, Snapshots
      <4> QED
        BY <4>1
    <3> QED
      BY <2>5, <3>1, <3>2, <3>3 DEF WorkFits
  <2> QED
    BY <1>1, <2>1, <2>3, <2>5, <2>6, WorkerTasks DEF TasksFit
<1>4. CASE RefundQuietly(w)
  <2>1. /\ doing[w].step = "refund" /\ Next1(w, "ack") /\ UNCHANGED <<queue, pool>>
        /\ \/ RefundAll(doing[w].call) /\ unpaid' = unpaid
           \/ unpaid' = unpaid \cup {doing[w].call} /\ UNCHANGED ledgerVars
    BY <1>4 DEF RefundQuietly
  <2>2. doing[w] \in Task /\ doing[w].call \in Calls
    BY <2>1, AtWork
  <2>3. ChargeInv' /\ \A q \in Calls : RefundTaken(q) => RefundTaken(q)'
    BY <1>1, <2>1, <2>2, WorkerCharge
  <2>4. /\ doing' \in [Workers -> Task \cup {Idle}]
        /\ \A v \in Workers \ {w} : doing'[v] = doing[v]
        /\ doing[w] # Idle /\ doing'[w] # Idle
        /\ doing'[w].call = doing[w].call /\ doing'[w].step = "ack"
    BY <2>1, WorkerGoesOn
  <2>5. CallsFit /\ ask' = ask
    BY <1>1 DEF ChargeInv, callVars
  <2>6. PICK r \in Calls : doing[w].call = r
    BY <2>2
  <2>7. RefundTaken(r)' \/ r \in unpaid'
    BY <2>1, <2>5, <2>6, RefundTakes
  <2>8. WorkFits(w)'
    BY <2>4, <2>6, <2>7 DEF WorkFits, TaskSettled
  <2> QED
    BY <1>1, <2>1, <2>3, <2>4, <2>8, WorkerTasks DEF TasksFit
<1>5. CASE Ack(w) \/ WorkerDies(w)
  <2>1. /\ doing[w] # Idle /\ doing' = [doing EXCEPT ![w] = Idle]
        /\ UNCHANGED <<ledgerVars, pool, unpaid>> /\ queue \subseteq queue'
        /\ queue' \subseteq queue \cup {doing[w].call}
        /\ doing[w].call \in queue' \/ doing[w].step = "ack"
    BY <1>5 DEF Ack, WorkerDies, Idle, billingVars, ledgerVars
  <2>2. doing[w] \in Task /\ doing[w].call \in Calls
    BY <2>1 DEF TasksFit, Task
  <2>3. ChargeInv' /\ \A q \in Calls : RefundTaken(q) => RefundTaken(q)'
    BY <1>1, <2>1, <2>2, WorkerCharge
  <2>4. /\ doing' \in [Workers -> Task \cup {Idle}] /\ doing'[w] = Idle
        /\ \A v \in Workers \ {w} : doing'[v] = doing[v]
    BY <2>1 DEF TasksFit
  <2>5. WorkFits(w)'
    BY <2>4 DEF WorkFits
  <2> QED
    BY <1>1, <2>1, <2>2, <2>3, <2>4, <2>5, WorkerTasks DEF TasksFit
<1> QED
  BY <1>2, <1>3, <1>4, <1>5 DEF Work

LEMMA InitTasks == Init => ChargeInv /\ TasksFit
<1> SUFFICES ASSUME Init PROVE ChargeInv /\ TasksFit
  OBVIOUS
<1>1. ChargeInv
  BY InitBilling DEF Init
<1>2. doing \in [Workers -> Task \cup {Idle}] /\ \A w \in Workers : WorkFits(w)
  BY DEF Init, WorkFits
<1>3. \A r \in Calls : mine[r] = FALSE
  BY DEF Init, BillingInit
<1>4. DoneIsAccounted
  BY <1>3 DEF DoneIsAccounted
<1> QED
  BY <1>1, <1>2, <1>4 DEF TasksFit, Init

LEMMA NextTasks == ChargeInv /\ TasksFit /\ [Next]_vars => ChargeInv' /\ TasksFit'
<1> SUFFICES ASSUME ChargeInv, TasksFit, [Next]_vars PROVE ChargeInv' /\ TasksFit'
  OBVIOUS
<1>1. CASE Next
  BY <1>1, RequestStep, WorkStep DEF Next
<1>2. CASE UNCHANGED vars
  <2>1. UNCHANGED ledgerVars /\ UNCHANGED callVars /\ UNCHANGED parseVars
    BY <1>2 DEF vars, ledgerVars, callVars, parseVars
  <2>2. \A q \in Calls : RefundTaken(q)' <=> RefundTaken(q)
    BY <2>1 DEF ledgerVars, callVars, RefundTaken, Taken, Find, Rows
  <2>3. TasksFit'
    BY <2>1, <2>2 DEF callVars, parseVars, TasksFit, WorkFits, Task, TaskSettled, Snapshots,
                      DoneIsAccounted, Accounted, Pending
  <2> QED
    BY <2>1, <2>3, NoStepCharge
<1> QED
  BY <1>1, <1>2

\* nomu_parse.py: whatever step a worker fails, dies or is cancelled at, and
\* however often the broker delivers the message again, a task that has been
\* acknowledged left a product, a refund, or a loss that was logged.
THEOREM TasksAreAccounted == Spec => []DoneIsAccounted
<1>1. TasksFit => DoneIsAccounted
  BY DEF TasksFit
<1> QED
  BY <1>1, InitTasks, NextTasks, PTL DEF Spec

-----------------------------------------------------------------------------
(* What the broker delivers *)

\* Only calls that made a charge are queued, and what is in the pool came with
\* one of the deliveries so far.
DeliveriesFit ==
    /\ takes \in [Calls -> Nat]
    /\ queue \subseteq {q \in Calls : mine[q]}
    /\ \A w \in Workers : doing[w] # Idle => mine[doing[w].call] /\ takes[doing[w].call] # 0
    /\ pool \subseteq [call : {q \in Calls : mine[q]}, take : Nat]
    /\ \A s \in pool : s.take \in 1..takes[s.call]

LEMMA RequestDeliveries ==
    ASSUME ChargeInv, TasksFit, DeliveriesFit, NEW r \in Calls,
           Request(r) \/ (Crash(r) /\ UNCHANGED parseVars)
    PROVE  DeliveriesFit'
<1>1. CallStep(r)
  <2>1. CASE Accept(r)
    BY <2>1, QuietStep DEF Accept, Fates
  <2>2. ASSUME NEW how \in {"error", "cancel"}, DispatchFails(r, how) PROVE CallStep(r)
    BY <2>2, OtherSteps DEF DispatchFails
  <2>3. CASE Begin(r) \/ Debit(r) \/ Refund(r) \/ Crash(r)
    BY <2>3, DebitStep, RefundStep, OtherSteps
  <2> QED
    BY <2>1, <2>2, <2>3 DEF Request
<1>2. \A q \in Calls : mine[q] => mine'[q]
  BY <1>1 DEF CallStep
<1>3. UNCHANGED <<takes, doing, pool>> /\ queue' \subseteq {q \in Calls : q \in queue \/ mine[q]}
  BY DEF Request, Accept, DispatchFails, DeliveriesFit, parseVars
<1>4. queue' \subseteq {q \in Calls : mine'[q]}
  BY <1>2, <1>3 DEF DeliveriesFit
<1>5. \A w \in Workers : doing[w] # Idle => doing[w].call \in Calls
  BY DEF TasksFit, Task
<1> QED
  BY <1>2, <1>3, <1>4, <1>5 DEF DeliveriesFit

LEMMA WorkDeliveries ==
    ASSUME ChargeInv, TasksFit, DeliveriesFit, NEW w \in Workers, Work(w) \/ WorkerDies(w)
    PROVE  DeliveriesFit'
<1>1. UNCHANGED callVars
  BY DEF Work, Take, Parse, Put, Publish, RefundQuietly, Ack, WorkerDies, billingVars, callVars
<1>2. mine' = mine
  BY <1>1 DEF callVars
<1>3. \A v \in Workers : doing[v] # Idle => doing[v].call \in Calls
  BY DEF TasksFit, Task
<1>4. CASE Take(w)
  <2>1. PICK r \in queue : /\ queue' = queue \ {r}
                           /\ takes' = [takes EXCEPT ![r] = takes[r] + 1]
                           /\ doing' = [doing EXCEPT ![w] = [step |-> "parse", call |-> r]]
    BY <1>4 DEF Take
  <2>2. r \in Calls /\ mine[r] /\ takes[r] \in Nat /\ pool' = pool
    BY <1>4 DEF Take, DeliveriesFit
  <2>3. takes' \in [Calls -> Nat] /\ takes'[r] # 0 /\ \A q \in Calls : takes[q] <= takes'[q]
    BY <2>1, <2>2 DEF DeliveriesFit
  <2>4. ASSUME NEW v \in Workers, doing'[v] # Idle
        PROVE  mine'[doing'[v].call] /\ takes'[doing'[v].call] # 0
    <3>1. CASE v = w
      <4>1. doing'[v].call = r
        BY <2>1, <3>1 DEF TasksFit
      <4> QED
        BY <1>2, <2>2, <2>3, <4>1
    <3>2. CASE v # w
      <4>1. doing'[v] = doing[v]
        BY <2>1, <3>2 DEF TasksFit
      <4>2. PICK q \in Calls : q = doing[v].call
        BY <1>3, <2>4, <4>1
      <4>3. mine[q] /\ takes[q] # 0 /\ takes[q] \in Nat /\ takes'[q] \in Nat
        BY <2>3, <2>4, <4>1, <4>2 DEF DeliveriesFit
      <4>4. takes'[q] # 0
        BY <2>3, <4>3
      <4> QED
        BY <1>2, <4>1, <4>2, <4>3, <4>4
    <3> QED
      BY <3>1, <3>2
  <2>5. ASSUME NEW s \in pool PROVE s.take \in 1..takes'[s.call]
    <3>1. PICK q \in Calls : q = s.call
      BY DEF DeliveriesFit
    <3>2. s.take \in 1..takes[q] /\ takes[q] <= takes'[q] /\ takes[q] \in Nat /\ takes'[q] \in Nat
      BY <2>3, <3>1 DEF DeliveriesFit
    <3>3. s.take \in 1..takes'[q]
      BY <3>2
    <3> QED
      BY <3>1, <3>3
  <2>6. queue' \subseteq {q \in Calls : mine'[q]}
    BY <1>2, <2>1 DEF DeliveriesFit
  <2> QED
    BY <1>2, <2>2, <2>3, <2>4, <2>5, <2>6 DEF DeliveriesFit
<1>5. CASE Parse(w) \/ Put(w) \/ Publish(w) \/ RefundQuietly(w)
  <2>1. doing[w].step # "idle" /\ UNCHANGED <<queue, takes>>
    BY <1>5 DEF Parse, Put, Publish, RefundQuietly
  <2>2. PICK step \in {"put", "publish", "refund", "ack"} : Next1(w, step)
    BY <1>5 DEF Parse, Put, Publish, RefundQuietly, OnFailure
  <2>3. PICK r \in Calls : r = doing[w].call
    BY <2>1, AtWork
  <2>4. /\ \A v \in Workers \ {w} : doing'[v] = doing[v]
        /\ doing[w] # Idle /\ doing'[w].call = r
    BY <2>1, <2>2, <2>3, WorkerGoesOn
  <2>5. pool' \subseteq pool \cup {[call |-> r, take |-> takes[r]]}
    BY <1>5, <2>3 DEF Parse, Put, Publish, RefundQuietly
  <2>6. mine[r] /\ takes[r] \in Nat /\ takes[r] # 0 /\ takes[r] \in 1..takes[r]
    BY <2>3, <2>4 DEF DeliveriesFit
  <2>7. \A v \in Workers : doing'[v] # Idle =>
            mine'[doing'[v].call] /\ takes'[doing'[v].call] # 0
    BY <1>2, <2>1, <2>4, <2>6 DEF DeliveriesFit
  <2>8. pool' \subseteq [call : {q \in Calls : mine'[q]}, take : Nat]
        /\ \A s \in pool' : s.take \in 1..takes'[s.call]
    BY <1>2, <2>1, <2>5, <2>6 DEF DeliveriesFit
  <2> QED
    BY <1>2, <2>1, <2>7, <2>8 DEF DeliveriesFit
<1>6. CASE Ack(w) \/ WorkerDies(w)
  <2>1. /\ doing[w] # Idle /\ doing' = [doing EXCEPT ![w] = Idle] /\ UNCHANGED <<takes, pool>>
        /\ queue' \subseteq queue \cup {doing[w].call}
    BY <1>6 DEF Ack, WorkerDies, Idle
  <2>2. doing'[w] = Idle /\ \A v \in Workers \ {w} : doing'[v] = doing[v]
    BY <2>1 DEF TasksFit
  <2>3. mine[doing[w].call] /\ doing[w].call \in Calls
    BY <1>3, <2>1 DEF DeliveriesFit
  <2>4. queue' \subseteq {q \in Calls : mine'[q]}
    BY <1>2, <2>1, <2>3 DEF DeliveriesFit
  <2> QED
    BY <1>2, <2>1, <2>2, <2>4 DEF DeliveriesFit
<1> QED
  BY <1>4, <1>5, <1>6 DEF Work

\* A call has at most as many products as deliveries.
LEMMA SnapshotsBounded ==
    ASSUME DeliveriesFit, NEW q \in Calls
    PROVE  Cardinality(Snapshots(q)) <= takes[q]
<1>1. PICK n \in Nat : n = takes[q]
  BY DEF DeliveriesFit
<1> DEFINE g == [i \in 1..n |-> [call |-> q, take |-> i]]
           S == {g[i] : i \in 1..n}
<1>2. IsFiniteSet(1..n) /\ Cardinality(1..n) = n
  <2>1. 1 \in Int /\ n \in Int
    OBVIOUS
  <2>2. Cardinality(1..n) = IF 1 > n THEN 0 ELSE n - 1 + 1
    BY <2>1, FS_Interval
  <2> QED
    BY <2>1, <2>2, FS_Interval
<1>3. g \in Surjection(1..n, S)
  BY DEF Surjection
<1>4. IsFiniteSet(S) /\ Cardinality(S) <= n
  BY <1>2, <1>3, FS_Surjection
<1>5. Snapshots(q) \subseteq S
  <2> SUFFICES ASSUME NEW s \in pool, s.call = q PROVE s \in S
    BY DEF Snapshots
  <2>1. s = [call |-> q, take |-> s.take] /\ s.take \in 1..n
    BY <1>1 DEF DeliveriesFit
  <2>2. g[s.take] = [call |-> q, take |-> s.take]
    BY <2>1
  <2> QED
    BY <2>1, <2>2
<1> HIDE DEF S
<1>6. Cardinality(Snapshots(q)) <= Cardinality(S) /\ IsFiniteSet(Snapshots(q))
  BY <1>4, <1>5, FS_Subset
<1>7. Cardinality(Snapshots(q)) \in Nat /\ Cardinality(S) \in Nat
  BY <1>4, <1>6, FS_CardinalityType
<1> QED
  BY <1>1, <1>4, <1>6, <1>7

\* _billing.py, dispatch_with_billing: however often a request is repeated and
\* its message delivered, a charge yields one product for each delivery at most,
\* and the replays of the request add none.
THEOREM ReplaysAddNoProduct == Spec => []OneProductPerDelivery
<1>1. ChargeInv /\ DeliveriesFit => OneProductPerDelivery
  <2> SUFFICES ASSUME ChargeInv, DeliveriesFit, NEW r \in Calls
               PROVE  LET sameKey == {q \in Calls : ask[q] = ask[r]}
                      IN  /\ \A q \in sameKey : Snapshots(q) # {} => mine[q]
                          /\ Cardinality(UNION {Snapshots(q) : q \in sameKey}) <=
                                SumFunctionOnSet(takes, {q \in sameKey : mine[q]})
                          /\ Cardinality({q \in sameKey : mine[q]}) <= 1
    BY DEF OneProductPerDelivery
  <2> DEFINE sameKey == {q \in Calls : ask[q] = ask[r]}
             owners == {q \in sameKey : mine[q]}
             products == UNION {Snapshots(q) : q \in sameKey}
  <2>1. \A q \in Calls : Snapshots(q) # {} => mine[q]
    BY DEF Snapshots, DeliveriesFit
  <2>2. CASE owners = {}
    <3>1. products = {}
      BY <2>1, <2>2
    <3>2. Cardinality({}) = 0
      BY FS_EmptySet
    <3> QED
      BY <2>1, <2>2, <3>1, <3>2, SumEmpty
  <2>3. ASSUME NEW p \in owners
        PROVE  /\ Cardinality(products) <= SumFunctionOnSet(takes, owners)
               /\ Cardinality(owners) <= 1
    <3>1. owners = {} \cup {p}
      BY DEF ChargeInv, OneOwner
    <3>2. products = Snapshots(p)
      <4>1. \A q \in sameKey : q # p => Snapshots(q) = {}
        BY <2>1, <3>1
      <4> QED
        BY <4>1
    <3>3. SumFunctionOnSet(takes, {} \cup {p}) = takes[p] + SumFunctionOnSet(takes, {})
      <4>1. \A x \in {} \cup {p} : takes[x] \in Int
        BY DEF DeliveriesFit
      <4> QED
        BY <4>1, FS_EmptySet, SumAdd
    <3>4. SumFunctionOnSet(takes, owners) = takes[p]
      BY <3>1, <3>3, SumEmpty DEF DeliveriesFit
    <3>5. Cardinality({p}) = 1
      BY FS_Singleton
    <3>6. Cardinality(Snapshots(p)) <= takes[p]
      BY SnapshotsBounded
    <3> HIDE DEF owners, products
    <3> QED
      BY <3>1, <3>2, <3>4, <3>5, <3>6
  <2> QED
    BY <2>1, <2>2, <2>3
<1>2. Init => ChargeInv /\ TasksFit /\ DeliveriesFit
  <2> SUFFICES ASSUME Init PROVE ChargeInv /\ TasksFit /\ DeliveriesFit
    OBVIOUS
  <2>1. ChargeInv /\ TasksFit
    BY InitTasks
  <2> QED
    BY <2>1 DEF Init, DeliveriesFit
<1>3. ChargeInv /\ TasksFit /\ DeliveriesFit /\ [Next]_vars
         => ChargeInv' /\ TasksFit' /\ DeliveriesFit'
  <2> SUFFICES ASSUME ChargeInv, TasksFit, DeliveriesFit, [Next]_vars
               PROVE  ChargeInv' /\ TasksFit' /\ DeliveriesFit'
    OBVIOUS
  <2>1. ChargeInv' /\ TasksFit'
    BY NextTasks
  <2>2. CASE UNCHANGED vars
    BY <2>1, <2>2 DEF vars, DeliveriesFit
  <2>3. CASE Next
    BY <2>1, <2>3, RequestDeliveries, WorkDeliveries DEF Next
  <2> QED
    BY <2>1, <2>2, <2>3
<1> QED
  BY <1>1, <1>2, <1>3, PTL DEF Spec
=============================================================================
