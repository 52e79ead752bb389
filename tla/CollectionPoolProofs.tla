------------------------- MODULE CollectionPoolProofs -------------------------
(***************************************************************************)
(* Theorems about the pool of snapshots, for any number of connections,    *)
(* workers, ids and puts, any size of the buffers and any faults.          *)
(***************************************************************************)
EXTENDS CollectionPool, FiniteSetTheorems, TLAPS

-----------------------------------------------------------------------------
(* Requests *)

PutReq   == [op : {"put"}, id : Ids, step : {"hset", "notify", "answer"}]
ListReq  == [op : {"list"}, step : {"exec"}]
Listing  == [op : {"list"}, step : {"answer"}, ans : SUBSET Ids]
ClaimReq == [op : {"claim", "claim_clear"}, id : Ids, step : {"exec"}]
Claiming == [op : {"claim", "claim_clear"}, id : Ids, step : {"notify", "answer"}, ans : Nat]
Request  == {Idle} \cup PutReq \cup ListReq \cup Listing \cup ClaimReq \cup Claiming

\* Only a connection reads the pool, and none asks before it is up.
ReqFits ==
    /\ req \in [Callers -> Request]
    /\ loop \in [Conns -> {"no", "up", "live", "gone"}]
    /\ \A c \in Callers : req[c] \in ListReq \cup Listing \cup ClaimReq \cup Claiming => c \in Conns
    /\ \A c \in Conns : loop[c] = "no" => req[c] = Idle

\* The steps of a put, in their order.
LEMMA PutOrder ==
    Head(PutSteps) = "hset" /\ AfterPut("hset") = "notify" /\ AfterPut("notify") = "answer"
<1>1. /\ PutSteps[1] = "hset" /\ PutSteps[2] = "notify" /\ PutSteps[3] = "answer"
      /\ Head(PutSteps) = "hset"
  BY DEF PutSteps
<1>2. (CHOOSE i \in 1..2 : PutSteps[i] = "hset") = 1
  BY <1>1
<1>3. (CHOOSE i \in 1..2 : PutSteps[i] = "notify") = 2
  BY <1>1
<1> QED
  BY <1>1, <1>2, <1>3 DEF AfterPut

\* What step tells of a request.
LEMMA RequestKind ==
    ASSUME NEW r \in Request
    PROVE  /\ r.step = "hset" => r \in PutReq
           /\ r.step = "exec" => r \in ListReq \cup ClaimReq
           /\ r.step = "notify" => r \in PutReq \cup Claiming
           /\ r.step = "answer" => r \in PutReq \cup Listing \cup Claiming
           /\ r.step = "idle" <=> r = Idle
BY DEF Request, PutReq, ListReq, Listing, ClaimReq, Claiming, Idle

\* A request goes on to its next step.
LEMMA PutGoesOn ==
    ASSUME NEW r \in PutReq, NEW step \in {"hset", "notify", "answer"}
    PROVE  LET next == [r EXCEPT !.step = step]
           IN  next \in PutReq /\ next.step = step /\ next.id = r.id
BY DEF PutReq

LEMMA ClaimGoesOn ==
    ASSUME NEW r \in Claiming, NEW step \in {"notify", "answer"}
    PROVE  LET next == [r EXCEPT !.step = step]
           IN  /\ next \in Claiming /\ next.step = step /\ next.id = r.id
               /\ next.op = r.op /\ next.ans = r.ans
BY DEF Claiming

\* A caller has another request, and the connections are what they were.
LEMMA RequestSet ==
    ASSUME ReqFits, NEW c \in Callers, NEW r \in Request,
           r \in ListReq \cup Listing \cup ClaimReq \cup Claiming => c \in Conns,
           c \in Conns /\ loop[c] = "no" => r = Idle,
           req' = [req EXCEPT ![c] = r], loop' = loop
    PROVE  ReqFits' /\ req'[c] = r /\ \A o \in Callers \ {c} : req'[o] = req[o]
BY DEF ReqFits, Callers

LEMMA AskFits ==
    ASSUME ReqFits, NEW c \in Callers, (c \in Conns /\ Ask(c)) \/ AskPut(c)
    PROVE  /\ ReqFits' /\ req[c] = Idle /\ req'[c].step \in {"hset", "exec"}
           /\ \A o \in Callers \ {c} : req'[o] = req[o]
<1>1. loop' = loop /\ req[c] = Idle /\ (c \in Conns => loop[c] # "no")
  BY DEF Ask, AskPut, Live
<1>2. ASSUME c \in Conns, req' = [req EXCEPT ![c] = [op |-> "list", step |-> "exec"]]
      PROVE  /\ ReqFits' /\ req'[c].step \in {"hset", "exec"}
             /\ \A o \in Callers \ {c} : req'[o] = req[o]
  <2> DEFINE r == [op |-> "list", step |-> "exec"]
  <2>1. r \in ListReq /\ r \in Request /\ r.step = "exec"
    BY DEF ListReq, Request
  <2> HIDE DEF r
  <2> QED
    BY <1>1, <1>2, <2>1, RequestSet DEF r
<1>3. ASSUME c \in Conns, NEW op \in {"claim", "claim_clear"}, NEW i \in Ids,
             req' = [req EXCEPT ![c] = [op |-> op, id |-> i, step |-> "exec"]]
      PROVE  /\ ReqFits' /\ req'[c].step \in {"hset", "exec"}
             /\ \A o \in Callers \ {c} : req'[o] = req[o]
  <2> DEFINE r == [op |-> op, id |-> i, step |-> "exec"]
  <2>1. r \in ClaimReq /\ r \in Request /\ r.step = "exec"
    BY DEF ClaimReq, Request
  <2>2. req' = [req EXCEPT ![c] = r]
    BY <1>3
  <2> HIDE DEF r
  <2> QED
    BY <1>1, <1>3, <2>1, <2>2, RequestSet
<1>4. ASSUME NEW i \in Ids,
             req' = [req EXCEPT ![c] = [op |-> "put", id |-> i, step |-> Head(PutSteps)]]
      PROVE  /\ ReqFits' /\ req'[c].step \in {"hset", "exec"}
             /\ \A o \in Callers \ {c} : req'[o] = req[o]
  <2> DEFINE r == [op |-> "put", id |-> i, step |-> "hset"]
  <2>1. r \in PutReq /\ r \in Request /\ r.step = "hset"
    BY DEF PutReq, Request
  <2>2. req' = [req EXCEPT ![c] = r]
    BY <1>4, PutOrder
  <2>3. r \notin ListReq \cup Listing \cup ClaimReq \cup Claiming
    BY DEF ListReq, Listing, ClaimReq, Claiming
  <2> HIDE DEF r
  <2> QED
    BY <1>1, <2>1, <2>2, <2>3, RequestSet
<1>5. CASE c \in Conns /\ Ask(c)
  BY <1>1, <1>2, <1>3, <1>5 DEF Ask
<1>6. CASE AskPut(c)
  BY <1>1, <1>4, <1>6 DEF AskPut
<1> QED
  BY <1>5, <1>6

\* What a request that is served has become.
Served(c) ==
    /\ ReqFits' /\ loop' = loop /\ \A o \in Callers \ {c} : req'[o] = req[o]

LEMMA NotReading ==
    ASSUME NEW r \in PutReq
    PROVE  r \notin ListReq \cup Listing \cup ClaimReq \cup Claiming /\ r \in Request
BY DEF PutReq, ListReq, Listing, ClaimReq, Claiming, Request

\* The request c goes on with is one of its kind.
LEMMA GoesOnFits ==
    ASSUME ReqFits, NEW c \in Callers, req[c] # Idle, loop' = loop, NEW r \in Request,
           req' = [req EXCEPT ![c] = r],
           r \notin PutReq \cup {Idle} => c \in Conns
    PROVE  Served(c) /\ req'[c] = r
<1>1. c \in Conns => loop[c] # "no"
  BY DEF ReqFits
<1>2. r \in ListReq \cup Listing \cup ClaimReq \cup Claiming => c \in Conns
  BY NotReading DEF Idle, ListReq, Listing, ClaimReq, Claiming
<1> QED
  BY <1>1, <1>2, RequestSet DEF Served

LEMMA ClaimedFits ==
    ASSUME ReqFits, NEW c \in Callers, req[c] \in ClaimReq, NEW put \in Nat,
           NEW step \in {"notify", "answer"}, Answering(c, put, step), loop' = loop
    PROVE  /\ Served(c) /\ c \in Conns
           /\ req'[c] = [op |-> req[c].op, id |-> req[c].id, step |-> step, ans |-> put]
<1> DEFINE r == [op |-> req[c].op, id |-> req[c].id, step |-> step, ans |-> put]
<1>1. r \in Claiming /\ r \in Request /\ r.step # "idle"
  BY DEF ClaimReq, Claiming, Request
<1>2. c \in Conns /\ req' = [req EXCEPT ![c] = r]
  BY DEF Answering, ReqFits
<1>3. req[c] # Idle
  BY DEF ClaimReq, Idle
<1> HIDE DEF r
<1>4. Served(c) /\ req'[c] = r
  BY <1>1, <1>2, <1>3, GoesOnFits
<1> QED
  BY <1>2, <1>4 DEF r

-----------------------------------------------------------------------------
(* The pool *)

\* Ids of what has been taken out.
Gone == {t.id : t \in taken}

\* A put is in the pool, went under another, or has one taker.
PoolFits ==
    /\ pool \in [Ids -> Nat] /\ puts \in [Ids -> Nat]
    /\ \A i \in Ids : pool[i] \in {0, puts[i]}
    /\ \A t \in taken : /\ t.id \in Ids /\ t.put \in Nat \ {0} /\ t.put <= puts[t.id]
                        /\ t.put = puts[t.id] => pool[t.id] = 0
    /\ \A t, u \in taken : t.id = u.id /\ t.put = u.put => t = u
    /\ \A i \in Ids : puts[i] # 0 /\ pool[i] = 0 =>
          \E t \in taken : t.id = i /\ t.put = puts[i]

\* The connection c is being answered with the snapshot t.
Bears(c, t) ==
    /\ req[c].step \in {"notify", "answer"} /\ req[c].op = "claim_clear"
    /\ req[c].id = t.id /\ req[c].ans = t.put

GivenFits ==
    /\ got \in [Conns -> SUBSET [id : Ids, put : Nat]]
    /\ \A t \in taken :
          /\ t.by \in Conns
          /\ \/ [id |-> t.id, put |-> t.put] \in got[t.by]
             \/ loop[t.by] = "gone" \/ ~t.replied
             \/ Bears(t.by, t)

PoolInv == ReqFits /\ PoolFits /\ GivenFits

\* What a step has to keep of what was taken before it.
LEMMA GivenKept ==
    ASSUME GivenFits, NEW c \in Callers, loop' = loop,
           got' \in [Conns -> SUBSET [id : Ids, put : Nat]],
           \A o \in Conns : got[o] \subseteq got'[o],
           \A o \in Callers \ {c} : req'[o] = req[o],
           NEW t \in taken,
           Bears(c, t) /\ c = t.by =>
               Bears(c, t)' \/ loop[c] = "gone" \/ [id |-> t.id, put |-> t.put] \in got'[c]
    PROVE  /\ t.by \in Conns
           /\ \/ [id |-> t.id, put |-> t.put] \in got'[t.by]
              \/ loop'[t.by] = "gone" \/ ~t.replied
              \/ Bears(t.by, t)'
BY DEF GivenFits, Bears, Callers

\* A step of one caller that leaves the pool, what was taken and what was got.
LEMMA PoolSame ==
    ASSUME PoolInv, NEW c \in Callers, Served(c), UNCHANGED <<pool, puts, taken, got>>,
           \A t \in taken : Bears(c, t) /\ c = t.by => Bears(c, t)' \/ loop[c] = "gone"
    PROVE  PoolInv'
<1>1. PoolFits'
  BY DEF PoolInv, PoolFits
<1>2. GivenFits'
  BY GivenKept DEF PoolInv, GivenFits, Served
<1> QED
  BY <1>1, <1>2 DEF PoolInv, Served

LEMMA AskPool ==
    ASSUME PoolInv, NEW c \in Callers, (c \in Conns /\ Ask(c)) \/ AskPut(c) PROVE PoolInv'
<1>1. Served(c) /\ req[c] = Idle /\ UNCHANGED <<pool, puts, taken, got>>
  BY AskFits DEF PoolInv, Served, Ask, AskPut
<1>2. \A t : ~Bears(c, t)
  BY <1>1 DEF Bears, Idle
<1> QED
  BY <1>1, <1>2, PoolSame

\* A put goes over what is there.
LEMMA HSetPool ==
    ASSUME PoolInv, NEW c \in Callers, HSet(c)
    PROVE  /\ PoolInv' /\ Served(c) /\ req[c] \in PutReq /\ req'[c] \in PutReq
           /\ req'[c].id = req[c].id
           /\ \A i \in Ids : puts[i] # 0 => puts'[i] # 0
           /\ req'[c].step = "notify" => puts'[req[c].id] # 0
<1>1. req[c] \in PutReq /\ req[c] # Idle /\ req[c].id \in Ids
  BY RequestKind DEF HSet, PoolInv, ReqFits, PutReq, Idle
<1>2. PICK step \in {"notify", "answer"} :
         /\ Step(c, step) /\ UNCHANGED <<loop, taken, got>>
         /\ \/ /\ puts' = [puts EXCEPT ![req[c].id] = @ + 1]
               /\ pool' = [pool EXCEPT ![req[c].id] = puts[req[c].id] + 1]
            \/ UNCHANGED <<puts, pool>> /\ step = "answer"
  BY PutOrder DEF HSet, Stored
<1> DEFINE r == [req[c] EXCEPT !.step = step]
<1>3. r \in PutReq /\ r.step = step /\ r.id = req[c].id
  BY <1>1, PutGoesOn
<1>4. req' = [req EXCEPT ![c] = r]
  BY <1>2 DEF Step
<1>5. r \in Request
  BY <1>3, NotReading
<1> HIDE DEF r
<1>6. Served(c) /\ req'[c] = r
  BY <1>1, <1>2, <1>3, <1>4, <1>5, GoesOnFits DEF PoolInv
<1>7. \A t : ~Bears(c, t)
  BY <1>1 DEF Bears, PutReq
<1>8. GivenFits'
  BY <1>2, <1>6, <1>7, GivenKept DEF PoolInv, GivenFits, Served
<1>9. CASE UNCHANGED <<puts, pool>> /\ step = "answer"
  BY <1>1, <1>2, <1>3, <1>6, <1>7, <1>9, PoolSame
<1>10. CASE /\ puts' = [puts EXCEPT ![req[c].id] = @ + 1]
            /\ pool' = [pool EXCEPT ![req[c].id] = puts[req[c].id] + 1]
  <2> DEFINE i == req[c].id
  <2>1. i \in Ids /\ puts \in [Ids -> Nat] /\ pool \in [Ids -> Nat] /\ puts[i] \in Nat
    BY <1>1 DEF PoolInv, PoolFits
  <2>2. /\ puts' = [puts EXCEPT ![i] = puts[i] + 1] /\ pool' = [pool EXCEPT ![i] = puts[i] + 1]
    BY <1>10
  <2> HIDE DEF i
  <2>3. /\ puts' \in [Ids -> Nat] /\ pool' \in [Ids -> Nat]
        /\ puts'[i] = puts[i] + 1 /\ pool'[i] = puts[i] + 1
        /\ \A j \in Ids \ {i} : puts'[j] = puts[j] /\ pool'[j] = pool[j]
    BY <2>1, <2>2
  <2>4. PoolFits'
    BY <1>2, <2>1, <2>3 DEF PoolInv, PoolFits
  <2>5. puts'[i] # 0 /\ \A j \in Ids : puts[j] # 0 => puts'[j] # 0
    BY <2>1, <2>3
  <2> QED
    BY <1>1, <1>3, <1>6, <1>8, <2>4, <2>5 DEF PoolInv, Served, i
<1> QED
  BY <1>2, <1>9, <1>10

LEMMA ListPool ==
    ASSUME PoolInv, NEW c \in Callers, List(c)
    PROVE  /\ PoolInv' /\ Served(c) /\ UNCHANGED puts
           /\ \/ /\ req'[c] = [op |-> "list", step |-> "answer", ans |-> InPool]
                 /\ lists' = lists
              \/ req'[c] = Idle /\ lists' = lists \ {c}
<1> DEFINE r == [op |-> "list", step |-> "answer", ans |-> InPool]
<1>1. req[c] \in ListReq
  BY RequestKind DEF List, PoolInv, ReqFits, ClaimReq
<1>2. req[c] # Idle /\ c \in Conns
  BY <1>1 DEF PoolInv, ReqFits, ListReq, Idle
<1>3. r \in Listing /\ r \in Request /\ Idle \in Request
  BY DEF Listing, Request, InPool
<1>4. /\ UNCHANGED <<pool, puts, taken, got, loop>>
      /\ \/ req' = [req EXCEPT ![c] = r] /\ lists' = lists
         \/ req' = [req EXCEPT ![c] = Idle] /\ lists' = lists \ {c}
  BY DEF List
<1> HIDE DEF r
<1>5. /\ Served(c) /\ req'[c] \in {r, Idle}
      /\ \/ req'[c] = r /\ lists' = lists
         \/ req'[c] = Idle /\ lists' = lists \ {c}
  BY <1>2, <1>3, <1>4, GoesOnFits DEF PoolInv
<1>6. \A t : ~Bears(c, t)
  BY <1>1 DEF Bears, ListReq
<1>7. PoolInv'
  BY <1>4, <1>5, <1>6, PoolSame
<1> QED
  BY <1>4, <1>5, <1>7 DEF r

LEMMA ClaimPool ==
    ASSUME PoolInv, NEW c \in Callers, Claim(c)
    PROVE  PoolInv' /\ Served(c) /\ UNCHANGED puts /\ req'[c] = Idle
<1>1. req[c] \in ClaimReq /\ req[c] # Idle /\ Idle \in Request
  BY RequestKind DEF Claim, PoolInv, ReqFits, ListReq, Idle, Request
<1>2. UNCHANGED <<pool, puts, taken, got, loop>> /\ req' = [req EXCEPT ![c] = Idle]
  BY DEF Claim
<1>3. Served(c) /\ req'[c] = Idle
  BY <1>1, <1>2, GoesOnFits DEF PoolInv
<1>4. \A t : ~Bears(c, t)
  BY <1>1 DEF Bears, ClaimReq
<1> QED
  BY <1>2, <1>3, <1>4, PoolSame

\* What is taken out has its one taker, who bears it.
LEMMA ClaimClearPool ==
    ASSUME PoolInv, NEW c \in Callers, ClaimClear(c)
    PROVE  /\ PoolInv' /\ Served(c) /\ UNCHANGED puts /\ req'[c] \in Claiming
           /\ req'[c].step = "notify" => req'[c].id \in Gone'
<1> DEFINE i == req[c].id
<1>1. req[c] \in ClaimReq /\ req[c].op = "claim_clear"
  BY RequestKind DEF ClaimClear, PoolInv, ReqFits, ListReq
<1>2. i \in Ids /\ pool[i] \in Nat /\ puts[i] \in Nat /\ Absent \in Nat
  BY <1>1 DEF ClaimReq, PoolInv, PoolFits, Absent
<1>3. UNCHANGED <<puts, got, loop>>
  BY DEF ClaimClear
<1>4. \A t : ~Bears(c, t)
  BY <1>1 DEF Bears, ClaimReq
<1>5. ASSUME NEW put \in Nat, NEW step \in {"notify", "answer"}, Answering(c, put, step)
      PROVE  /\ Served(c) /\ c \in Conns /\ req'[c] \in Claiming
             /\ req'[c].op = "claim_clear" /\ req'[c].id = i /\ req'[c].ans = put
             /\ req'[c].step = step
  <2>1. /\ Served(c) /\ c \in Conns
        /\ req'[c] = [op |-> req[c].op, id |-> req[c].id, step |-> step, ans |-> put]
    BY <1>1, <1>3, <1>5, ClaimedFits DEF PoolInv
  <2> QED
    BY <1>1, <1>2, <2>1 DEF Claiming
<1>6. CASE pool[i] = Absent
  <2>1. Answering(c, Absent, "answer") /\ UNCHANGED <<pool, taken>>
    BY <1>6 DEF ClaimClear
  <2> QED
    BY <1>2, <1>3, <1>4, <1>5, <2>1, PoolSame
<1>7. CASE pool[i] # Absent
  <2>1. PICK replied : /\ taken' = taken \cup
                             {[id |-> i, put |-> pool[i], by |-> c, replied |-> replied]}
                       /\ replied => Answering(c, pool[i], "notify")
                       /\ ~replied => Answering(c, Absent, "answer")
    BY <1>7 DEF ClaimClear
  <2>2. pool' = [pool EXCEPT ![i] = Absent]
    BY <1>7 DEF ClaimClear, TakenOut
  <2>3. PICK new : /\ new = [id |-> i, put |-> pool[i], by |-> c, replied |-> replied]
                   /\ new.id = i /\ new.put = pool[i] /\ new.by = c
                   /\ taken' = taken \cup {new} /\ new.replied = replied
    <3> DEFINE it == [id |-> i, put |-> pool[i], by |-> c, replied |-> replied]
    <3>1. it.id = i /\ it.put = pool[i] /\ it.by = c /\ it.replied = replied
      OBVIOUS
    <3>2. taken' = taken \cup {it}
      BY <2>1
    <3> HIDE DEF it
    <3> QED
      BY <3>1, <3>2 DEF it
  <2>4. /\ Served(c) /\ c \in Conns /\ req'[c] \in Claiming
        /\ ~new.replied \/ Bears(c, new)'
        /\ req'[c].step = "notify" => req'[c].id \in Gone'
    <3>1. CASE replied
      <4>1. /\ Served(c) /\ c \in Conns /\ req'[c] \in Claiming
            /\ req'[c].op = "claim_clear" /\ req'[c].id = i /\ req'[c].ans = pool[i]
            /\ req'[c].step = "notify"
        BY <1>2, <1>5, <2>1, <3>1
      <4>2. i \in Gone'
        BY <2>3 DEF Gone
      <4> QED
        BY <2>3, <4>1, <4>2 DEF Bears
    <3>2. CASE ~replied
      <4>1. Served(c) /\ c \in Conns /\ req'[c] \in Claiming /\ req'[c].step = "answer"
        BY <1>2, <1>5, <2>1, <3>2
      <4> QED
        BY <2>3, <3>2, <4>1
    <3> QED
      BY <3>1, <3>2
  <2>5. PoolFits'
    <3>1. pool[i] = puts[i] /\ pool[i] # 0 /\ \A t \in taken : t.id = i => t.put # puts[i]
      BY <1>2, <1>7 DEF PoolInv, PoolFits, Absent
    <3>2. pool' \in [Ids -> Nat] /\ pool'[i] = 0 /\ \A j \in Ids \ {i} : pool'[j] = pool[j]
      BY <1>2, <2>2 DEF PoolInv, PoolFits, Absent
    <3>3. \A t, u \in taken' : t.id = u.id /\ t.put = u.put => t = u
      BY <2>3, <3>1 DEF PoolInv, PoolFits
    <3>4. \A t \in taken' : /\ t.id \in Ids /\ t.put \in Nat \ {0} /\ t.put <= puts[t.id]
                            /\ t.put = puts[t.id] => pool'[t.id] = 0
      BY <1>2, <2>3, <3>1, <3>2 DEF PoolInv, PoolFits
    <3>5. ASSUME NEW j \in Ids, puts[j] # 0, pool'[j] = 0
          PROVE  \E t \in taken' : t.id = j /\ t.put = puts[j]
      <4>1. CASE j = i
        BY <2>3, <3>1, <4>1
      <4>2. CASE j # i
        BY <2>3, <3>2, <3>5, <4>2 DEF PoolInv, PoolFits
      <4> QED
        BY <4>1, <4>2
    <3>6. \A j \in Ids : pool'[j] \in {0, puts[j]}
      BY <3>2 DEF PoolInv, PoolFits
    <3> QED
      BY <1>3, <3>2, <3>3, <3>4, <3>5, <3>6 DEF PoolInv, PoolFits
  <2>6. GivenFits'
    <3>1. \A t \in taken : /\ t.by \in Conns
                           /\ \/ [id |-> t.id, put |-> t.put] \in got'[t.by]
                              \/ loop'[t.by] = "gone" \/ ~t.replied
                              \/ Bears(t.by, t)'
      BY <1>3, <1>4, <2>4, GivenKept DEF PoolInv, GivenFits, Served
    <3> QED
      BY <1>3, <2>3, <2>4, <3>1 DEF PoolInv, GivenFits
  <2> QED
    BY <1>3, <2>4, <2>5, <2>6 DEF PoolInv, Served
<1> QED
  BY <1>6, <1>7

\* The notification: best effort, the request goes on.
LEMMA NotifyPool ==
    ASSUME PoolInv, NEW c \in Callers, Notify(c)
    PROVE  /\ PoolInv' /\ Served(c) /\ UNCHANGED puts
           /\ req[c] \in PutReq \cup Claiming /\ req[c].step = "notify"
           /\ req'[c] \in PutReq \cup Claiming /\ req'[c].step = "answer"
<1>1. req[c] \in PutReq \cup Claiming /\ req[c].step = "notify"
  BY RequestKind DEF Notify, PoolInv, ReqFits
<1>2. Step(c, "answer") /\ UNCHANGED <<pool, puts, taken, got, loop>>
  BY PutOrder DEF Notify, GoesOn
<1> DEFINE r == [req[c] EXCEPT !.step = "answer"]
<1>3. req' = [req EXCEPT ![c] = r]
  BY <1>2 DEF Step
<1>4. /\ r \in PutReq \cup Claiming /\ r.step = "answer"
      /\ req[c] \in PutReq => r \in PutReq
      /\ req[c] \in Claiming => r.op = req[c].op /\ r.id = req[c].id /\ r.ans = req[c].ans
  BY <1>1, PutGoesOn, ClaimGoesOn
<1> HIDE DEF r
<1>5. r \in Request /\ req[c] # Idle /\ (r \notin PutReq \cup {Idle} => c \in Conns)
  BY <1>1, <1>4 DEF Request, PoolInv, ReqFits, PutReq, Claiming, Idle
<1>6. Served(c) /\ req'[c] = r
  BY <1>2, <1>3, <1>5, GoesOnFits DEF PoolInv
<1>7. \A t : Bears(c, t) => Bears(c, t)'
  BY <1>1, <1>4, <1>6 DEF Bears, PutReq
<1> QED
  BY <1>1, <1>2, <1>4, <1>6, <1>7, PoolSame

\* The answer: a snapshot that was claimed is got, unless the connection ended.
LEMMA AnswerPool ==
    ASSUME PoolInv, NEW c \in Callers, Answer(c)
    PROVE  PoolInv' /\ Served(c) /\ UNCHANGED puts /\ req'[c] = Idle
<1>1. req[c].step = "answer" /\ req[c] # Idle /\ Idle \in Request /\ req[c] \in Request
  BY DEF Answer, Idle, Request, PoolInv, ReqFits
<1>2. UNCHANGED <<pool, puts, taken, loop>> /\ req' = [req EXCEPT ![c] = Idle]
  BY DEF Answer
<1>3. Served(c) /\ req'[c] = Idle
  BY <1>1, <1>2, GoesOnFits DEF PoolInv
<1>4. PoolFits'
  BY <1>2 DEF PoolInv, PoolFits
<1> DEFINE give == c \in Conns /\ Live(c) /\ req[c].op = "claim_clear" /\ req[c].ans # Absent
<1>5. CASE give
  <2>1. req[c] \in Claiming
    BY <1>1, <1>5, RequestKind DEF PutReq, Listing
  <2> DEFINE new == [id |-> req[c].id, put |-> req[c].ans]
  <2>2. new \in [id : Ids, put : Nat]
    BY <2>1 DEF Claiming
  <2>3. got' = [got EXCEPT ![c] = @ \cup {new}]
    BY <1>5 DEF Answer
  <2>4. \A t : Bears(c, t) => [id |-> t.id, put |-> t.put] = new
    BY DEF Bears
  <2> HIDE DEF new
  <2>5. /\ got' \in [Conns -> SUBSET [id : Ids, put : Nat]] /\ new \in got'[c]
        /\ \A o \in Conns : got[o] \subseteq got'[o]
    BY <1>5, <2>2, <2>3 DEF PoolInv, GivenFits
  <2>6. GivenFits'
    BY <1>2, <1>3, <2>4, <2>5, GivenKept DEF PoolInv, GivenFits, Served
  <2> QED
    BY <1>2, <1>3, <1>4, <2>6 DEF PoolInv, Served
<1>6. CASE ~give
  <2>1. got' = got
    BY <1>6 DEF Answer
  <2>2. \A t \in taken : Bears(c, t) /\ c = t.by => loop[c] = "gone"
    <3> SUFFICES ASSUME NEW t \in taken, Bears(c, t), c = t.by PROVE loop[c] = "gone"
      OBVIOUS
    <3>1. c \in Conns /\ t.put # 0
      BY DEF PoolInv, PoolFits, GivenFits
    <3>2. loop[c] \in {"no", "up", "live", "gone"} /\ loop[c] # "no"
      BY <1>1, <3>1 DEF PoolInv, ReqFits
    <3> QED
      BY <1>6, <3>1, <3>2 DEF Bears, Live, Absent
  <2> QED
    BY <1>2, <1>3, <2>1, <2>2, PoolSame
<1> QED
  BY <1>5, <1>6

LEMMA ServePool ==
    ASSUME PoolInv, NEW c \in Callers, Serve(c) PROVE PoolInv'
BY HSetPool, ListPool, ClaimPool, ClaimClearPool, NotifyPool, AnswerPool DEF Serve

\* A connection that is made, or subscribes.
LEMMA ConnectPool ==
    ASSUME PoolInv, NEW c \in Conns, Connect(c) \/ SubscribePool(c) PROVE PoolInv'
<1>1. PICK to \in {"up", "live"} : loop' = [loop EXCEPT ![c] = to]
  BY DEF Connect, SubscribePool
<1>2. loop[c] \in {"no", "up"} /\ UNCHANGED <<pool, puts, req, got, taken>>
  BY DEF Connect, SubscribePool
<1>3. ReqFits' /\ \A o \in Conns : loop[o] = "gone" => loop'[o] = "gone"
  BY <1>1, <1>2 DEF PoolInv, ReqFits, Callers
<1>4. PoolFits'
  BY <1>2 DEF PoolInv, PoolFits
<1>5. GivenFits'
  BY <1>2, <1>3 DEF PoolInv, GivenFits, Bears
<1> QED
  BY <1>3, <1>4, <1>5 DEF PoolInv

\* One that ends takes its requests with it, but not what they have done.
LEMMA HangUpPool ==
    ASSUME PoolInv, NEW c \in Conns, HangUp(c) PROVE PoolInv'
<1>1. /\ loop' = [loop EXCEPT ![c] = "gone"] /\ UNCHANGED <<pool, puts, taken>>
      /\ req' = [req EXCEPT ![c] = IF req[c].step = "notify" THEN req[c] ELSE Idle]
      /\ got' = [got EXCEPT ![c] = {}]
  BY DEF HangUp
<1>2. ReqFits' /\ loop'[c] = "gone" /\ \A o \in Callers \ {c} : req'[o] = req[o]
  <2>1. c \in Callers /\ req[c] \in Request /\ Idle \in Request
    BY DEF Callers, PoolInv, ReqFits, Request
  <2>2. /\ req' \in [Callers -> Request] /\ req'[c] \in {req[c], Idle}
        /\ \A o \in Callers \ {c} : req'[o] = req[o]
    BY <1>1, <2>1 DEF PoolInv, ReqFits
  <2>3. /\ loop' \in [Conns -> {"no", "up", "live", "gone"}] /\ loop'[c] = "gone"
        /\ \A o \in Conns \ {c} : loop'[o] = loop[o]
    BY <1>1 DEF PoolInv, ReqFits
  <2> QED
    BY <2>1, <2>2, <2>3 DEF PoolInv, ReqFits, Callers
<1>3. PoolFits'
  BY <1>1 DEF PoolInv, PoolFits
<1>4. GivenFits'
  <2>1. /\ got' \in [Conns -> SUBSET [id : Ids, put : Nat]]
        /\ \A o \in Conns \ {c} : got'[o] = got[o] /\ loop'[o] = loop[o]
    BY <1>1 DEF PoolInv, ReqFits, GivenFits
  <2> QED
    BY <1>1, <1>2, <2>1 DEF PoolInv, GivenFits, Bears, Callers
<1> QED
  BY <1>2, <1>3, <1>4 DEF PoolInv

LEMMA NextPool == PoolInv /\ [Next]_vars => PoolInv'
<1> SUFFICES ASSUME PoolInv, [Next]_vars PROVE PoolInv'
  OBVIOUS
<1>1. ASSUME UNCHANGED <<pool, puts, loop, req, got, taken>> PROVE PoolInv'
  <2>1. ReqFits'
    BY <1>1 DEF PoolInv, ReqFits
  <2>2. PoolFits'
    BY <1>1 DEF PoolInv, PoolFits
  <2>3. GivenFits'
    BY <1>1 DEF PoolInv, GivenFits, Bears
  <2> QED
    BY <2>1, <2>2, <2>3 DEF PoolInv
<1>2. ASSUME NEW c \in Conns,
             Connect(c) \/ SubscribePool(c) \/ WriteUpdate(c) \/ HangUp(c) \/ Ask(c)
      PROVE  PoolInv'
  <2>1. CASE Ask(c)
    BY <2>1, AskPool DEF Callers
  <2>2. CASE WriteUpdate(c)
    BY <1>1, <2>2 DEF WriteUpdate
  <2> QED
    BY <1>2, <2>1, <2>2, ConnectPool, HangUpPool
<1>3. ASSUME NEW c \in Callers, AskPut(c) \/ Serve(c) PROVE PoolInv'
  BY <1>3, AskPool, ServePool
<1>4. CASE UNCHANGED poolVars
  BY <1>1, <1>4 DEF poolVars
<1>5. CASE UNCHANGED vars
  BY <1>1, <1>5 DEF vars
<1> QED
  BY <1>2, <1>3, <1>4, <1>5 DEF Next

LEMMA InitPool == Init => PoolInv
<1> SUFFICES ASSUME Init PROVE PoolInv
  OBVIOUS
<1>1. Idle \in Request /\ Idle \notin ListReq \cup Listing \cup ClaimReq \cup Claiming
  BY DEF Idle, Request, ListReq, Listing, ClaimReq, Claiming
<1>2. ReqFits
  BY <1>1 DEF Init, ReqFits, Callers
<1>3. PoolFits
  BY DEF Init, PoolFits, Absent
<1>4. GivenFits
  BY DEF Init, GivenFits
<1> QED
  BY <1>2, <1>3, <1>4 DEF PoolInv

\* collection_snapshot.go, claimClear: whatever devices claim an id at once, a
\* put is in the pool until it is overwritten or exactly one of them took it.
THEOREM OneTakes == Spec => []TakenOnce
<1>1. PoolInv => TakenOnce
  <2> SUFFICES ASSUME PoolInv, NEW i \in Ids, NEW n \in 1..puts[i]
               PROVE  LET takers == {t \in taken : t.id = i /\ t.put = n} IN
                      /\ Cardinality(takers) <= 1
                      /\ n = puts[i] => (pool[i] = n) # (takers # {})
    BY DEF TakenOnce
  <2> DEFINE takers == {t \in taken : t.id = i /\ t.put = n}
  <2>1. puts[i] \in Nat /\ n \in Nat \ {0} /\ pool[i] \in {0, puts[i]}
    BY DEF PoolInv, PoolFits
  <2>2. Cardinality(takers) <= 1
    <3>1. CASE takers = {}
      <4>1. Cardinality(takers) = 0
        BY <3>1, FS_EmptySet
      <4> QED
        BY <4>1
    <3>2. CASE takers # {}
      <4>1. PICK t : t \in takers
        BY <3>2
      <4>2. takers = {t}
        BY <4>1 DEF PoolInv, PoolFits
      <4>3. Cardinality(takers) = 1
        BY <4>2, FS_Singleton
      <4> QED
        BY <4>3
    <3> QED
      BY <3>1, <3>2
  <2>3. ASSUME n = puts[i] PROVE (pool[i] = n) # (takers # {})
    <3>1. pool[i] = n => takers = {}
      BY <2>1, <2>3 DEF PoolInv, PoolFits
    <3>2. pool[i] # n => takers # {}
      BY <2>1, <2>3 DEF PoolInv, PoolFits
    <3> QED
      BY <3>1, <3>2
  <2> QED
    BY <2>2, <2>3
<1> QED
  BY <1>1, InitPool, NextPool, PTL DEF Spec

\* Whoever took a snapshot out is given it, unless its connection ends first or
\* the reply of the script is lost.
THEOREM TakersAreGiven == Spec => []TakenReachesClaimer
<1>1. PoolInv => TakenReachesClaimer
  BY DEF PoolInv, GivenFits, TakenReachesClaimer, Bears
<1> QED
  BY <1>1, InitPool, NextPool, PTL DEF Spec

-----------------------------------------------------------------------------
(* What is told of the pool *)

\* Ids that have been put, and the updates that may be under way: of a put that
\* was made, and of what has been taken out.
Put == {i \in Ids : puts[i] # 0}
News == {m \in [kind : {"put", "claim_clear"}, id : Ids] :
            m.id \in IF m.kind = "put" THEN Put ELSE Gone}
Letter == [on : {PoolChannel}, msg : News]

SeenFits ==
    /\ view \in [Conns -> SUBSET Put]
    /\ \A c \in Callers : /\ req[c] \in Listing => req[c].ans \subseteq Put
                          /\ req[c] \in PutReq /\ req[c].step = "notify" => req[c].id \in Put
                          /\ req[c] \in Claiming /\ req[c].step = "notify" => req[c].id \in Gone

WayFits ==
    /\ box \in [Conns -> Seq(News)]
    /\ inbox \in Seq(Letter)
    /\ ~Waiting => fan.msg \in News

TellInv == SeenFits /\ WayFits

LEMMA WiderSeq ==
    ASSUME NEW S, NEW T, S \subseteq T, NEW s \in Seq(S) PROVE s \in Seq(T)
OBVIOUS

LEMMA SeqSteps ==
    ASSUME NEW S, NEW s \in Seq(S)
    PROVE  /\ <<>> \in Seq(S)
           /\ \A x \in S : Append(s, x) \in Seq(S)
           /\ s # <<>> => Head(s) \in S /\ Tail(s) \in Seq(S)
OBVIOUS

LEMMA PutGrows ==
    ASSUME \A i \in Ids : puts[i] # 0 => puts'[i] # 0, taken \subseteq taken'
    PROVE  Put \subseteq Put' /\ Gone \subseteq Gone' /\ News \subseteq News'
<1>1. Put \subseteq Put' /\ Gone \subseteq Gone'
  BY DEF Put, Gone
<1> QED
  BY <1>1 DEF News

\* What is under way stays true when more has been put.
LEMMA WayKept ==
    ASSUME WayFits, News \subseteq News', UNCHANGED <<box, inbox, fan>> PROVE WayFits'
<1>1. box' \in [Conns -> Seq(News')]
  BY WiderSeq DEF WayFits
<1>2. inbox' \in Seq(Letter')
  <2>1. Letter \subseteq Letter'
    BY DEF Letter
  <2> QED
    BY <2>1, WiderSeq DEF WayFits
<1> QED
  BY <1>1, <1>2 DEF WayFits, Waiting

\* A caller that has gone on, and nobody renders anything else.
LEMMA SeenKept ==
    ASSUME SeenFits, Put \subseteq Put', Gone \subseteq Gone', NEW c \in Callers, view' = view,
           \A o \in Callers \ {c} : req'[o] = req[o],
           req'[c] \in Listing => req'[c].ans \subseteq Put',
           req'[c] \in PutReq /\ req'[c].step = "notify" => req'[c].id \in Put',
           req'[c] \in Claiming /\ req'[c].step = "notify" => req'[c].id \in Gone'
    PROVE  SeenFits'
<1>1. view' \in [Conns -> SUBSET Put']
  BY DEF SeenFits
<1>2. ASSUME NEW o \in Callers
      PROVE  /\ req'[o] \in Listing => req'[o].ans \subseteq Put'
             /\ req'[o] \in PutReq /\ req'[o].step = "notify" => req'[o].id \in Put'
             /\ req'[o] \in Claiming /\ req'[o].step = "notify" => req'[o].id \in Gone'
  BY DEF SeenFits
<1> QED
  BY <1>1, <1>2 DEF SeenFits

\* The kinds of requests are told apart by what they hold.
LEMMA KindsApart ==
    /\ PutReq \cap Listing = {} /\ Claiming \cap (PutReq \cup Listing) = {}
    /\ Idle \notin PutReq \cup Listing \cup Claiming
    /\ \A r \in ListReq \cup ClaimReq : r.step = "exec" /\ r \notin PutReq \cup Listing \cup Claiming
BY DEF PutReq, Listing, Claiming, ClaimReq, ListReq, Idle

LEMMA AskTell ==
    ASSUME PoolInv, TellInv, NEW c \in Callers, (c \in Conns /\ Ask(c)) \/ AskPut(c)
    PROVE  TellInv'
<1>1. /\ UNCHANGED <<puts, taken, view, box, inbox, fan>> /\ req'[c].step \in {"hset", "exec"}
      /\ \A o \in Callers \ {c} : req'[o] = req[o]
  BY AskFits DEF Ask, AskPut, dispatcherVars, PoolInv
<1>2. Put \subseteq Put' /\ Gone \subseteq Gone' /\ News \subseteq News'
  BY <1>1, PutGrows
<1>3. SeenFits'
  BY <1>1, <1>2, SeenKept DEF TellInv, Listing
<1> QED
  BY <1>1, <1>2, <1>3, WayKept DEF TellInv

LEMMA ServeTell ==
    ASSUME PoolInv, TellInv, NEW c \in Callers, Serve(c), ~Notify(c) PROVE TellInv'
<1>1. /\ Served(c) /\ \A i \in Ids : puts[i] # 0 => puts'[i] # 0
      /\ UNCHANGED <<box, inbox, fan>> /\ taken \subseteq taken'
  BY HSetPool, ListPool, ClaimPool, ClaimClearPool, AnswerPool
     DEF Serve, HSet, List, Claim, ClaimClear, Answer, dispatcherVars
<1>2. Put \subseteq Put' /\ Gone \subseteq Gone' /\ News \subseteq News' /\ WayFits'
  BY <1>1, PutGrows, WayKept DEF TellInv
<1>3. CASE HSet(c)
  <2>1. /\ req'[c] \in PutReq /\ view' = view /\ req'[c].id \in Ids
        /\ req'[c].step = "notify" => puts'[req'[c].id] # 0
    BY <1>3, HSetPool DEF HSet, PutReq
  <2>2. req'[c] \notin Listing \cup Claiming /\ (req'[c].step = "notify" => req'[c].id \in Put')
    BY <2>1, KindsApart DEF Put
  <2> QED
    BY <1>1, <1>2, <2>1, <2>2, SeenKept DEF TellInv, Served
<1>4. CASE List(c)
  <2>1. InPool \subseteq Put /\ view' = view
    BY <1>4 DEF List, InPool, Put, PoolInv, PoolFits, Absent
  <2>2. CASE req'[c] = [op |-> "list", step |-> "answer", ans |-> InPool]
    <3>1. req'[c].ans \subseteq Put' /\ req'[c].step # "notify"
      BY <1>2, <2>1, <2>2
    <3> QED
      BY <1>1, <1>2, <2>1, <3>1, SeenKept DEF TellInv, Served
  <2>3. CASE req'[c] = Idle
    <3>1. req'[c] \notin PutReq \cup Listing \cup Claiming
      BY <2>3, KindsApart
    <3> QED
      BY <1>1, <1>2, <2>1, <3>1, SeenKept DEF TellInv, Served
  <2> QED
    BY <1>4, <2>2, <2>3, ListPool
<1>5. CASE Claim(c) \/ ClaimClear(c)
  <2>1. /\ req'[c] \in Claiming \cup {Idle} /\ view' = view
        /\ req'[c] \in Claiming /\ req'[c].step = "notify" => req'[c].id \in Gone'
    BY <1>5, ClaimPool, ClaimClearPool, KindsApart DEF Claim, ClaimClear
  <2> QED
    BY <1>1, <1>2, <2>1, KindsApart, SeenKept DEF TellInv, Served
<1>6. CASE Answer(c)
  <2>1. req'[c] = Idle /\ req[c] \in Request
    BY <1>6, AnswerPool DEF PoolInv, ReqFits
  <2>2. view' \in [Conns -> SUBSET Put']
    <3>1. req[c].op = "list" => req[c] \in Listing
      BY <1>6, <2>1, RequestKind DEF Answer, PutReq, Claiming
    <3>2. \/ view' = view
          \/ view' = [view EXCEPT ![c] = @ \cup req[c].ans] /\ c \in Conns /\ req[c] \in Listing
      BY <1>6, <3>1 DEF Answer
    <3> QED
      BY <1>2, <3>2 DEF TellInv, SeenFits
  <2>3. SeenFits'
    <3>1. ASSUME NEW o \in Callers
          PROVE  /\ req'[o] \in Listing => req'[o].ans \subseteq Put'
                 /\ req'[o] \in PutReq /\ req'[o].step = "notify" => req'[o].id \in Put'
                 /\ req'[o] \in Claiming /\ req'[o].step = "notify" => req'[o].id \in Gone'
      BY <1>1, <1>2, <2>1, KindsApart DEF TellInv, SeenFits, Served
    <3> QED
      BY <2>2, <3>1 DEF SeenFits
  <2> QED
    BY <1>2, <2>3 DEF TellInv
<1> QED
  BY <1>3, <1>4, <1>5, <1>6 DEF Serve

\* What is announced has been put, as the HSET came first.
LEMMA NotifyTell ==
    ASSUME PoolInv, TellInv, NEW c \in Callers, Notify(c) PROVE TellInv'
<1>1. /\ Served(c) /\ UNCHANGED <<puts, taken, view, box, fan>>
      /\ req[c] \in PutReq \cup Claiming /\ req[c].step = "notify"
      /\ req'[c].step = "answer" /\ req'[c] \in PutReq \cup Claiming
  BY NotifyPool DEF Notify
<1>2. Put' = Put /\ Gone' = Gone /\ News' = News /\ Letter' = Letter
  BY <1>1 DEF Put, Gone, News, Letter
<1>3. SeenFits'
  BY <1>1, <1>2, KindsApart, SeenKept DEF TellInv, Served
<1>4. req[c].op \in Notified => Update(c) \in News
  <2>1. CASE req[c] \in PutReq
    <3>1. req[c].op = "put" /\ req[c].id \in Put /\ req[c].id \in Ids
      BY <1>1, <2>1 DEF TellInv, SeenFits, PutReq, Put
    <3> QED
      BY <3>1 DEF Update, News
  <2>2. CASE req[c] \in Claiming
    <3>1. req[c].id \in Gone /\ req[c].id \in Ids
      BY <1>1, <2>2 DEF TellInv, SeenFits, Claiming
    <3> QED
      BY <2>2, <3>1 DEF Update, News, Notified, Claiming
  <2> QED
    BY <1>1, <2>1, <2>2
<1>5. inbox' \in Seq(Letter)
  <2>1. \/ inbox' = inbox
        \/ req[c].op \in Notified /\ inbox' = Append(inbox, [on |-> PoolChannel, msg |-> Update(c)])
    BY DEF Notify, Sent
  <2>2. req[c].op \in Notified => [on |-> PoolChannel, msg |-> Update(c)] \in Letter
    BY <1>4 DEF Letter
  <2>3. inbox \in Seq(Letter)
    BY DEF TellInv, WayFits
  <2> QED
    BY <2>1, <2>2, <2>3, SeqSteps
<1> QED
  BY <1>1, <1>2, <1>3, <1>5 DEF TellInv, WayFits, Waiting

\* A client renders what it is told of, and the others nothing new.
LEMMA WriteTell ==
    ASSUME PoolInv, TellInv, NEW c \in Conns, WriteUpdate(c) PROVE TellInv'
<1>1. /\ UNCHANGED <<puts, taken, req, inbox, fan>> /\ box[c] # <<>>
      /\ box' = [box EXCEPT ![c] = Tail(@)]
  BY DEF WriteUpdate, Receive
<1>2. Put' = Put /\ Gone' = Gone /\ News' = News /\ Letter' = Letter
  BY <1>1 DEF Put, Gone, News, Letter
<1>3. Head(box[c]) \in News /\ Tail(box[c]) \in Seq(News)
  BY <1>1 DEF TellInv, WayFits
<1>4. view' \in [Conns -> SUBSET Put]
  <2> DEFINE upd == Head(box[c])
  <2>1. upd.kind = "put" => upd.id \in Put
    BY <1>3 DEF News
  <2>2. view' = [view EXCEPT ![c] = IF upd.kind = "put" THEN @ \cup {upd.id} ELSE @ \ {upd.id}]
    BY DEF WriteUpdate
  <2> QED
    BY <2>1, <2>2 DEF TellInv, SeenFits
<1>5. box' \in [Conns -> Seq(News)]
  BY <1>1, <1>3 DEF TellInv, WayFits
<1> QED
  BY <1>1, <1>2, <1>4, <1>5 DEF TellInv, SeenFits, WayFits, Waiting

LEMMA ConnTell ==
    ASSUME PoolInv, TellInv, NEW c \in Conns, Connect(c) \/ SubscribePool(c) \/ HangUp(c)
    PROVE  TellInv'
<1>1. /\ UNCHANGED <<puts, taken, inbox, fan>>
      /\ box' = box \/ box' = [box EXCEPT ![c] = <<>>]
      /\ view' = view \/ view' = [view EXCEPT ![c] = {}]
      /\ req' = req \/ req' = [req EXCEPT ![c] = IF req[c].step = "notify" THEN req[c] ELSE Idle]
  BY DEF Connect, SubscribePool, HangUp, Subscribe, Abandon, remove, dispatcherVars
<1>2. Put' = Put /\ Gone' = Gone /\ News' = News /\ Letter' = Letter
  BY <1>1 DEF Put, Gone, News, Letter
<1>3. view' \in [Conns -> SUBSET Put]
  BY <1>1 DEF TellInv, SeenFits
<1>4. box' \in [Conns -> Seq(News)]
  <2>1. box \in [Conns -> Seq(News)] /\ <<>> \in Seq(News)
    BY SeqSteps DEF TellInv, WayFits
  <2> QED
    BY <1>1, <2>1
<1>5. \A o \in Callers : req'[o] = req[o] \/ req'[o] = Idle
  BY <1>1 DEF PoolInv, ReqFits
<1>6. SeenFits'
  BY <1>2, <1>3, <1>5, KindsApart DEF TellInv, SeenFits
<1> QED
  BY <1>1, <1>2, <1>4, <1>6 DEF TellInv, WayFits, Waiting

\* The consume loop hands on what came in.
LEMMA LoopTell ==
    ASSUME TellInv, Take \/ Send \/ RedisExecutes, UNCHANGED poolVars PROVE TellInv'
<1>1. Put' = Put /\ Gone' = Gone /\ News' = News /\ Letter' = Letter /\ SeenFits'
  BY DEF poolVars, Put, Gone, News, Letter, TellInv, SeenFits
<1>2. CASE Take
  <2>1. Head(inbox) \in Letter /\ Tail(inbox) \in Seq(Letter)
    BY <1>2, SeqSteps DEF Take, TellInv, WayFits
  <2>2. Head(inbox).msg \in News
    BY <2>1 DEF Letter
  <2> QED
    BY <1>1, <1>2, <2>1, <2>2 DEF Take, TellInv, WayFits, Waiting, Nobody
<1>3. CASE Send
  <2>1. PICK s \in fan.to :
           TrySend(s) /\ fan' = IF fan.to = {s} THEN Nobody ELSE [fan EXCEPT !.to = @ \ {s}]
    BY <1>3 DEF Send
  <2>2. fan.msg \in News /\ inbox' = inbox
    BY <1>3 DEF Send, TellInv, WayFits
  <2>3. box' \in [Conns -> Seq(News)]
    <3>1. box' = box \/ box' = [box EXCEPT ![s] = Append(box[s], fan.msg)]
      BY <2>1 DEF TrySend
    <3>2. box \in [Conns -> Seq(News)] /\ (s \in Conns => Append(box[s], fan.msg) \in Seq(News))
      BY <2>2, SeqSteps DEF TellInv, WayFits
    <3> QED
      BY <3>1, <3>2
  <2>4. fan' # Nobody => fan'.msg \in News
    BY <2>1, <2>2
  <2> QED
    BY <1>1, <2>2, <2>3, <2>4 DEF TellInv, WayFits, Waiting
<1>4. CASE RedisExecutes
  BY <1>1, <1>4 DEF RedisExecutes, TellInv, WayFits, Waiting
<1> QED
  BY <1>2, <1>3, <1>4

LEMMA NextTell == PoolInv /\ TellInv /\ [Next]_vars => TellInv'
<1> SUFFICES ASSUME PoolInv, TellInv, [Next]_vars PROVE TellInv'
  OBVIOUS
<1>1. ASSUME NEW c \in Conns,
             Connect(c) \/ SubscribePool(c) \/ WriteUpdate(c) \/ HangUp(c) \/ Ask(c)
      PROVE  TellInv'
  BY <1>1, AskTell, WriteTell, ConnTell DEF Callers
<1>2. ASSUME NEW c \in Callers, AskPut(c) \/ Serve(c) PROVE TellInv'
  BY <1>2, AskTell, ServeTell, NotifyTell
<1>3. CASE UNCHANGED vars
  BY <1>3 DEF vars, TellInv, SeenFits, WayFits, Waiting, Put, Gone, News, Letter
<1> QED
  BY <1>1, <1>2, <1>3, LoopTell DEF Next

LEMMA InitTell == Init => TellInv
<1> SUFFICES ASSUME Init PROVE TellInv
  OBVIOUS
<1>1. SeenFits
  BY KindsApart DEF Init, SeenFits
<1>2. WayFits
  BY SeqSteps DEF Init, DispatcherInit, WayFits, Waiting, Conns
<1> QED
  BY <1>1, <1>2 DEF TellInv

\* collection_snapshot.go, Put: the HSET comes before its announcement, so what
\* a device renders is in the pool or has been taken out of it, in whatever order
\* lists and updates reach the device.
THEOREM NothingAhead == Spec => []NoPhantoms
<1>1. PoolInv /\ TellInv => NoPhantoms
  BY DEF PoolInv, PoolFits, TellInv, SeenFits, Put, NoPhantoms, Absent
<1> QED
  BY <1>1, InitPool, NextPool, InitTell, NextTell, PTL DEF Spec

-----------------------------------------------------------------------------
(* What a device is told *)

PutOf(i) == [kind |-> "put", id |-> i]
In(s, x) == \E k \in DOMAIN s : s[k] = x

\* A put is on its way to a connection, or about to be announced.
OnWay(c, i) ==
    /\ loop[c] = "live"
    /\ \/ In(box[c], PutOf(i))
       \/ ~Waiting /\ c \in fan.to /\ fan.msg = PutOf(i)
       \/ In(inbox, [on |-> PoolChannel, msg |-> PutOf(i)])

Announcing(i) == \E r \in Callers : req[r] \in PutReq /\ req[r].step = "notify" /\ req[r].id = i

\* A client renders an entry, is being told of it, or was not told.
Knows(c, i) ==
    \/ i \in view[c]
    \/ req[c] \in Listing /\ i \in req[c].ans
    \/ PutOf(i) \in missed[c] \/ <<c, PutOf(i)>> \in full
    \/ OnWay(c, i) \/ Announcing(i)

\* A connection that is live is subscribed.
ConnFits ==
    /\ subs \in [Channels -> SUBSET Subs]
    /\ chan \in [Subs -> {"none", "open", "closed"}]
    /\ \A c \in Conns : loop[c] = "live" => c \in subs[PoolChannel] /\ chan[c] = "open"
    /\ lists \subseteq {c \in Conns : Live(c)}
    /\ missed \in [Conns -> SUBSET [kind : {"put", "claim", "claim_clear"}, id : Ids]]

KnowFits ==
    \A c \in Conns : ListRead(c) => \A i \in InPool : puts[i] = 1 => Knows(c, i)

KnowInv == ConnFits /\ KnowFits

LEMMA InSteps ==
    ASSUME NEW S, NEW s \in Seq(S), NEW x
    PROVE  /\ In(s, x) => s # <<>> /\ (Head(s) = x \/ In(Tail(s), x))
           /\ \A y \in S : (In(s, x) \/ x = y) => In(Append(s, y), x)
<1>1. ASSUME NEW k \in DOMAIN s, s[k] = x
      PROVE  s # <<>> /\ (Head(s) = x \/ In(Tail(s), x))
  <2>1. k \in 1..Len(s) /\ Len(s) \in Nat /\ s # <<>>
    OBVIOUS
  <2>2. CASE k = 1
    BY <1>1, <2>1, <2>2
  <2>3. CASE k # 1
    <3>1. k - 1 \in 1..Len(Tail(s)) /\ Tail(s)[k - 1] = x
      BY <1>1, <2>1, <2>3
    <3>2. DOMAIN Tail(s) = 1..Len(Tail(s))
      BY <2>1
    <3> QED
      BY <2>1, <3>1, <3>2 DEF In
  <2> QED
    BY <2>2, <2>3
<1>2. ASSUME NEW y \in S, In(s, x) \/ x = y PROVE In(Append(s, y), x)
  <2>1. /\ DOMAIN Append(s, y) = 1..(Len(s) + 1) /\ Append(s, y)[Len(s) + 1] = y
        /\ \A k \in 1..Len(s) : Append(s, y)[k] = s[k]
        /\ DOMAIN s = 1..Len(s) /\ Len(s) \in Nat
    OBVIOUS
  <2>2. Len(s) + 1 \in 1..(Len(s) + 1) /\ 1..Len(s) \subseteq 1..(Len(s) + 1)
    BY <2>1
  <2> QED
    BY <1>2, <2>1, <2>2 DEF In
<1> QED
  BY <1>1, <1>2 DEF In

LEMMA InAppend ==
    ASSUME NEW S, NEW s \in Seq(S), NEW x, NEW y \in S, In(s, x) \/ x = y
    PROVE  In(Append(s, y), x)
BY InSteps

\* Nothing of an entry that nobody has taken is told but that it was put.
LEMMA NotTaken ==
    ASSUME PoolInv, NEW i \in InPool, puts[i] = 1
    PROVE  i \notin Gone
BY DEF PoolInv, PoolFits, InPool, Absent, Gone

\* A caller that was neither announcing nor being answered with a list goes on.
LEMMA QuietKnows ==
    ASSUME NEW r \in Callers, NEW c \in Conns, NEW i, Knows(c, i),
           UNCHANGED <<box, fan, inbox, full, loop, missed>>,
           \A o \in Callers \ {r} : req'[o] = req[o],
           ~(req[r] \in PutReq /\ req[r].step = "notify"),
           view[c] \subseteq view'[c],
           req[r] \in Listing /\ c = r => req[r].ans \subseteq view'[c]
    PROVE  Knows(c, i)'
<1>1. OnWay(c, i) => OnWay(c, i)'
  BY DEF OnWay, Waiting
<1>2. Announcing(i) => Announcing(i)'
  BY DEF Announcing
<1> QED
  BY <1>1, <1>2 DEF Knows, PutOf, Callers

\* A step of a connection or a caller that leaves the dispatcher's table.
LEMMA ConnSame ==
    ASSUME ConnFits, UNCHANGED <<subs, chan, loop, missed>>, lists' \subseteq lists
    PROVE  ConnFits'
BY DEF ConnFits, Live

LEMMA AskKnow ==
    ASSUME PoolInv, KnowInv, NEW r \in Callers, (r \in Conns /\ Ask(r)) \/ AskPut(r)
    PROVE  KnowInv'
<1>1. /\ UNCHANGED <<dispatcherVars, pool, puts, loop, view, missed>> /\ req[r] = Idle
      /\ req'[r].step \in {"hset", "exec"} /\ \A o \in Callers \ {r} : req'[o] = req[o]
      /\ lists' = lists \/ (r \in Conns /\ Live(r) /\ lists' = lists \cup {r})
  BY AskFits DEF PoolInv, Ask, AskPut
<1>2. ConnFits'
  BY <1>1 DEF KnowInv, ConnFits, dispatcherVars, Live
<1>3. ASSUME NEW c \in Conns, ListRead(c)' PROVE ListRead(c)
  <2>1. CASE c # r
    BY <1>1, <1>3, <2>1 DEF ListRead, Callers
  <2>2. CASE c = r
    <3>1. req[c].step # "exec"
      BY <1>1, <2>2 DEF Idle
    <3>2. c \in lists
      <4>1. ASSUME c \notin lists, c \in lists'
            PROVE  req' = [req EXCEPT ![r] = [op |-> "list", step |-> "exec"]]
        BY <2>2, <4>1 DEF Ask, AskPut
      <4>2. ASSUME c \notin lists, c \in lists' PROVE FALSE
        <5>1. req'[c].step = "exec" /\ req'[c].op = "list"
          BY <2>2, <4>1, <4>2 DEF PoolInv, ReqFits
        <5> QED
          BY <1>3, <5>1 DEF ListRead
      <4> QED
        BY <1>3, <4>2 DEF ListRead
    <3> QED
      BY <3>1, <3>2 DEF ListRead
  <2> QED
    BY <2>1, <2>2
<1>4. ASSUME NEW c \in Conns, ListRead(c)', NEW i \in InPool', puts'[i] = 1
      PROVE  Knows(c, i)'
  <2>1. i \in InPool /\ puts[i] = 1 /\ ListRead(c)
    BY <1>1, <1>3, <1>4 DEF InPool
  <2>2. Knows(c, i)
    BY <2>1 DEF KnowInv, KnowFits
  <2>3. req[r] \notin PutReq \cup Listing
    BY <1>1, KindsApart
  <2> QED
    BY <1>1, <2>2, <2>3, QuietKnows DEF dispatcherVars
<1> QED
  BY <1>2, <1>4 DEF KnowInv, KnowFits

\* What has been read of the list was read before, unless it is read now.
LEMMA ListReadBefore ==
    ASSUME NEW r \in Callers, Served(r), lists' \subseteq lists, req[r] \notin ListReq,
           req[r] \in Request, NEW c \in Conns, ListRead(c)'
    PROVE  ListRead(c)
<1>1. CASE c # r
  BY <1>1 DEF ListRead, Served, Callers
<1>2. CASE c = r
  <2>1. ~(req[r].step = "exec" /\ req[r].op = "list")
    BY DEF Request, Idle, PutReq, Listing, ClaimReq, Claiming
  <2> QED
    BY <1>2, <2>1 DEF ListRead
<1> QED
  BY <1>1, <1>2

LEMMA ServeKnow ==
    ASSUME PoolInv, TellInv, KnowInv, NEW r \in Callers, Serve(r), ~Notify(r) PROVE KnowInv'
<1>1. /\ UNCHANGED <<dispatcherVars, loop, missed>> /\ lists' \subseteq lists
      /\ Served(r) /\ req[r] \in Request
  BY HSetPool, ListPool, ClaimPool, ClaimClearPool, AnswerPool
     DEF Serve, HSet, List, Claim, ClaimClear, Answer, PoolInv, ReqFits
<1>2. ConnFits'
  BY <1>1, ConnSame DEF KnowInv, dispatcherVars
<1>3. UNCHANGED <<box, fan, inbox, full, loop, missed>> /\ \A o \in Callers \ {r} : req'[o] = req[o]
  BY <1>1 DEF dispatcherVars, Served
<1>4. ASSUME NEW c \in Conns, ListRead(c)', NEW i \in InPool', puts'[i] = 1
      PROVE  Knows(c, i)'
  <2>1. CASE HSet(r)
    <3>1. req[r] \in PutReq /\ req'[r] \in PutReq /\ req'[r].id = req[r].id
      BY <2>1, HSetPool
    <3>2. /\ req[r].step = "hset" /\ req[r] \notin ListReq \cup Listing /\ view' = view
      BY <2>1, <3>1, NotReading DEF HSet
    <3>3. CASE req'[r].step = "notify" /\ req[r].id = i
      BY <3>1, <3>3 DEF Knows, Announcing
    <3>4. CASE UNCHANGED <<pool, puts>> \/ req[r].id # i
      <4>1. i \in InPool /\ puts[i] = 1
        BY <1>4, <2>1, <3>4 DEF HSet, Stored, InPool, PoolInv, PoolFits
      <4>2. Knows(c, i)
        BY <1>1, <1>4, <3>2, <4>1, ListReadBefore DEF KnowInv, KnowFits
      <4> QED
        BY <1>3, <3>2, <4>2, QuietKnows
    <3>5. UNCHANGED <<pool, puts>> \/ req'[r].step = "notify"
      <4>1. UNCHANGED <<pool, puts>> \/ Step(r, "notify")
        BY <2>1, PutOrder DEF HSet
      <4>2. Step(r, "notify") => req'[r].step = "notify"
        BY <3>1 DEF Step, PoolInv, ReqFits, PutReq
      <4> QED
        BY <4>1, <4>2
    <3> QED
      BY <3>3, <3>4, <3>5
  <2>2. CASE List(r)
    <3>1. /\ UNCHANGED <<pool, puts, view>>
          /\ \/ req'[r] = [op |-> "list", step |-> "answer", ans |-> InPool]
             \/ lists' = lists \ {r}
      BY <2>2, ListPool DEF List
    <3>2. i \in InPool /\ puts[i] = 1
      BY <1>4, <3>1 DEF InPool
    <3>3. CASE c = r
      <4>1. req'[c] \in Listing /\ i \in req'[c].ans
        BY <1>4, <3>1, <3>2, <3>3 DEF Listing, InPool, ListRead
      <4> QED
        BY <4>1 DEF Knows
    <3>4. CASE c # r
      <4>1. Knows(c, i)
        BY <1>1, <1>3, <1>4, <3>2, <3>4 DEF KnowInv, KnowFits, ListRead, Callers
      <4>2. ~(req[r] \in PutReq /\ req[r].step = "notify")
        BY <2>2 DEF List
      <4> QED
        BY <1>3, <3>1, <3>4, <4>1, <4>2, QuietKnows
    <3> QED
      BY <3>3, <3>4
  <2>3. CASE Claim(r) \/ ClaimClear(r)
    <3>1. req[r].step = "exec" /\ req[r].op # "list" /\ UNCHANGED <<puts, view>>
      BY <2>3 DEF Claim, ClaimClear
    <3>2. req[r] \notin ListReq \cup Listing
      BY <3>1 DEF ListReq, Listing
    <3>3. i \in InPool /\ puts[i] = 1
      <4>1. pool' = pool \/ \E j : pool' = [pool EXCEPT ![j] = 0]
        BY <2>3 DEF Claim, ClaimClear, TakenOut, Absent
      <4> QED
        BY <1>4, <3>1, <4>1 DEF InPool, Absent, PoolInv, PoolFits
    <3>4. Knows(c, i)
      BY <1>1, <1>4, <3>2, <3>3, ListReadBefore DEF KnowInv, KnowFits
    <3> QED
      BY <1>3, <3>1, <3>2, <3>4, QuietKnows
  <2>4. CASE Answer(r)
    <3>1. req[r].step = "answer" /\ UNCHANGED <<pool, puts>> /\ req[r] \notin ListReq
      BY <2>4 DEF Answer, ListReq
    <3>2. i \in InPool /\ puts[i] = 1
      BY <1>4, <3>1 DEF InPool
    <3>3. ListRead(c) /\ Knows(c, i)
      BY <1>1, <1>4, <3>1, <3>2, ListReadBefore DEF KnowInv, KnowFits
    <3>4. Live(c) /\ c \in Conns
      BY <3>3 DEF KnowInv, ConnFits, ListRead
    <3>5. view[c] \subseteq view'[c] /\ (req[r] \in Listing /\ c = r => req[r].ans \subseteq view'[c])
      <4>1. view \in [Conns -> SUBSET Put]
        BY DEF TellInv, SeenFits
      <4>2. req[r] \in Listing => req[r].op = "list"
        BY DEF Listing
      <4> QED
        BY <2>4, <3>4, <4>1, <4>2 DEF Answer
    <3> QED
      BY <1>3, <3>1, <3>3, <3>5, QuietKnows
  <2> QED
    BY <2>1, <2>2, <2>3, <2>4 DEF Serve
<1> QED
  BY <1>2, <1>4 DEF KnowInv, KnowFits

\* A put is announced to whoever is live, and missed by the others.
LEMMA NotifyKnow ==
    ASSUME PoolInv, TellInv, KnowInv, NEW r \in Callers, Notify(r) PROVE KnowInv'
<1>1. /\ Served(r) /\ UNCHANGED <<tableVars, box, fan, full, pool, puts, view, lists>>
      /\ req[r] \in PutReq \cup Claiming /\ req[r].step = "notify"
      /\ req'[r].step = "answer" /\ req[r] \in Request
  BY NotifyPool DEF Notify, PoolInv, ReqFits
<1>2. loop' = loop
  BY <1>1 DEF Served
<1>3. PICK failed \in BOOLEAN :
         LET reaches == {o \in Conns : ~failed /\ PoolChannel \in listed /\ loop[o] = "live"}
         IN  /\ inbox' = IF failed \/ req[r].op \notin Notified THEN inbox
                         ELSE Sent(PoolChannel, Update(r))
             /\ missed' = [o \in Conns |-> IF ListRead(o) /\ o \notin reaches
                                         THEN missed[o] \cup {Update(r)} ELSE missed[o]]
  BY DEF Notify
<1>4. Update(r) \in [kind : {"put", "claim", "claim_clear"}, id : Ids]
  BY <1>1 DEF Update, PutReq, Claiming
<1>5. /\ missed' \in [Conns -> SUBSET [kind : {"put", "claim", "claim_clear"}, id : Ids]]
      /\ \A o \in Conns : missed[o] \subseteq missed'[o]
  BY <1>3, <1>4 DEF KnowInv, ConnFits
<1>6. ConnFits'
  BY <1>1, <1>2, <1>5 DEF KnowInv, ConnFits, Live, tableVars
<1>7. ASSUME NEW x, In(inbox, x) PROVE In(inbox', x)
  <2>1. PICK l : inbox' = inbox \/ (inbox' = Append(inbox, l) /\ l \in Letter)
    <3>1. req[r].op \in Notified => Update(r) \in News
      <4>1. CASE req[r] \in PutReq
        BY <1>1, <4>1 DEF Update, News, PutReq, TellInv, SeenFits
      <4>2. CASE req[r] \in Claiming
        BY <1>1, <4>2 DEF Update, News, Claiming, Notified, TellInv, SeenFits
      <4> QED
        BY <1>1, <4>1, <4>2
    <3>2. req[r].op \in Notified => [on |-> PoolChannel, msg |-> Update(r)] \in Letter
      BY <3>1 DEF Letter
    <3> QED
      BY <1>3, <3>2 DEF Sent
  <2>2. inbox \in Seq(Letter)
    BY DEF TellInv, WayFits
  <2>3. l \in Letter => In(Append(inbox, l), x)
    BY <1>7, <2>2, InAppend
  <2> QED
    BY <1>7, <2>1, <2>3
<1>8. ASSUME NEW c \in Conns, ListRead(c)', NEW i \in InPool', puts'[i] = 1
      PROVE  Knows(c, i)'
  <2>1. i \in InPool /\ puts[i] = 1
    BY <1>1, <1>8 DEF InPool
  <2>2. req[r] \notin ListReq \cup Listing
    BY <1>1 DEF ListReq, Listing, PutReq, Claiming
  <2>3. ListRead(c) /\ Knows(c, i)
    BY <1>1, <1>8, <2>1, <2>2, ListReadBefore DEF KnowInv, KnowFits
  <2>4. CASE req[r] \in PutReq /\ req[r].id = i
    <3>1. Update(r) = PutOf(i) /\ req[r].op = "put" /\ req[r].op \in Notified
      BY <2>4 DEF Update, PutOf, PutReq, Notified
    <3>2. CASE ~failed /\ PoolChannel \in listed /\ loop[c] = "live"
      <4>1. inbox' = Append(inbox, [on |-> PoolChannel, msg |-> PutOf(i)])
        BY <1>3, <3>1, <3>2 DEF Sent
      <4>2. PutOf(i) \in News
        BY <1>1, <2>4 DEF News, PutOf, TellInv, SeenFits, InPool
      <4>3. [on |-> PoolChannel, msg |-> PutOf(i)] \in Letter /\ inbox \in Seq(Letter)
        BY <4>2 DEF Letter, TellInv, WayFits
      <4>4. In(inbox', [on |-> PoolChannel, msg |-> PutOf(i)])
        BY <4>1, <4>3, InSteps
      <4> QED
        BY <1>2, <3>2, <4>4 DEF Knows, OnWay, PutOf
    <3>3. CASE ~(~failed /\ PoolChannel \in listed /\ loop[c] = "live")
      <4>1. PutOf(i) \in missed'[c]
        BY <1>3, <2>3, <3>1, <3>3
      <4> QED
        BY <4>1 DEF Knows, PutOf
    <3> QED
      BY <3>2, <3>3
  <2>5. CASE ~(req[r] \in PutReq /\ req[r].id = i)
    <3>1. OnWay(c, i) => OnWay(c, i)'
      BY <1>1, <1>2, <1>7 DEF OnWay, Waiting, PutOf
    <3>2. Announcing(i) => Announcing(i)'
      BY <1>1, <2>5 DEF Announcing, Served
    <3>3. req[c] \in Listing => req'[c] = req[c]
      BY <1>1, <2>2 DEF Served, Callers
    <3> QED
      BY <1>1, <1>5, <2>3, <3>1, <3>2, <3>3 DEF Knows, PutOf
  <2> QED
    BY <2>4, <2>5
<1> QED
  BY <1>6, <1>8 DEF KnowInv, KnowFits

\* A client that is told of a put renders it; only what has been taken goes.
LEMMA WriteKnow ==
    ASSUME PoolInv, TellInv, KnowInv, NEW o \in Conns, WriteUpdate(o) PROVE KnowInv'
<1>1. /\ UNCHANGED <<tableVars, inbox, fan, full, pool, puts, loop, req, lists, taken, missed>>
      /\ box' = [box EXCEPT ![o] = Tail(box[o])] /\ box[o] # <<>> /\ loop[o] = "live"
  BY DEF WriteUpdate, Receive
<1>2. ConnFits'
  BY <1>1, ConnSame DEF KnowInv, tableVars
<1> DEFINE upd == Head(box[o])
<1>3. box \in [Conns -> Seq(News)] /\ upd \in News
  BY <1>1 DEF TellInv, WayFits
<1>4. view' = [view EXCEPT ![o] = IF upd.kind = "put" THEN @ \cup {upd.id} ELSE @ \ {upd.id}]
  BY DEF WriteUpdate
<1>5. view \in [Conns -> SUBSET Put]
  BY DEF TellInv, SeenFits
<1> HIDE DEF upd
<1>6. ASSUME NEW c \in Conns, ListRead(c)', NEW i \in InPool', puts'[i] = 1
      PROVE  Knows(c, i)'
  <2>1. i \in InPool /\ puts[i] = 1 /\ ListRead(c)
    BY <1>1, <1>6 DEF InPool, ListRead
  <2>2. Knows(c, i) /\ i \notin Gone
    BY <2>1, NotTaken DEF KnowInv, KnowFits
  <2>3. i \in view[c] => i \in view'[c]
    BY <1>3, <1>4, <1>5, <2>2 DEF News
  <2>4. In(box[c], PutOf(i)) => In(box'[c], PutOf(i)) \/ i \in view'[c]
    <3>1. CASE c # o
      BY <1>1, <1>3, <3>1
    <3>2. CASE c = o
      <4>1. In(box[c], PutOf(i)) => upd = PutOf(i) \/ In(Tail(box[c]), PutOf(i))
        BY <1>3, <3>2, InSteps DEF upd
      <4>2. upd = PutOf(i) => i \in view'[c]
        BY <1>4, <1>5, <3>2 DEF PutOf
      <4> QED
        BY <1>1, <1>3, <3>2, <4>1, <4>2
    <3> QED
      BY <3>1, <3>2
  <2>5. OnWay(c, i) => OnWay(c, i)' \/ i \in view'[c]
    BY <1>1, <2>4 DEF OnWay, Waiting, PutOf
  <2>6. Announcing(i) => Announcing(i)'
    BY <1>1 DEF Announcing
  <2> QED
    BY <1>1, <2>2, <2>3, <2>5, <2>6 DEF Knows, PutOf
<1> QED
  BY <1>2, <1>6 DEF KnowInv, KnowFits

LEMMA ConnKnow ==
    ASSUME PoolInv, TellInv, KnowInv, NEW o \in Conns,
           Connect(o) \/ SubscribePool(o) \/ HangUp(o)
    PROVE  KnowInv'
<1> USE PoolAssumption, ChannelsGiven
<1>10. /\ view \in [Conns -> SUBSET Put] /\ box \in [Conns -> Seq(News)] /\ Conns = Subs
       /\ loop \in [Conns -> {"no", "up", "live", "gone"}]
       /\ missed \in [Conns -> SUBSET [kind : {"put", "claim", "claim_clear"}, id : Ids]]
       /\ subs \in [Channels -> SUBSET Subs] /\ chan \in [Subs -> {"none", "open", "closed"}]
       /\ ChannelOf[o] = PoolChannel /\ PoolChannel \in Channels
  BY DEF Conns, KnowInv, ConnFits, PoolInv, ReqFits, TellInv, SeenFits, WayFits
<1>11. /\ UNCHANGED <<inbox, fan, full, pool, puts>>
       /\ view' = view \/ view' = [view EXCEPT ![o] = {}]
       /\ missed' = missed \/ missed' = [missed EXCEPT ![o] = {}]
       /\ box' = box \/ box' = [box EXCEPT ![o] = <<>>]
       /\ lists' = lists \/ lists' = lists \ {o}
       /\ \E l : loop' = [loop EXCEPT ![o] = l]
  BY DEF Connect, SubscribePool, HangUp, Subscribe, Abandon, remove, dispatcherVars
<1>12. \/ UNCHANGED <<subs, chan>>
       \/ subs' = [subs EXCEPT ![PoolChannel] = @ \cup {o}] /\ chan' = [chan EXCEPT ![o] = "open"]
       \/ subs' = [subs EXCEPT ![PoolChannel] = @ \ {o}] /\ chan' = [chan EXCEPT ![o] = "closed"]
  <2>1. CASE Connect(o)
    BY <2>1 DEF Connect, dispatcherVars
  <2>2. CASE SubscribePool(o)
    BY <1>10, <2>2 DEF SubscribePool, Subscribe
  <2>3. CASE HangUp(o)
    BY <1>10, <2>3 DEF HangUp, Abandon, remove, dispatcherVars
  <2> QED
    BY <2>1, <2>2, <2>3
<1>1. /\ UNCHANGED <<inbox, fan, full, pool, puts>>
      /\ \A c \in Conns \ {o} :
            /\ view'[c] = view[c] /\ missed'[c] = missed[c] /\ loop'[c] = loop[c]
            /\ box'[c] = box[c] /\ (c \in lists' <=> c \in lists)
            /\ (c \in subs[PoolChannel] => c \in subs'[PoolChannel]) /\ chan'[c] = chan[c]
      /\ missed' \in [Conns -> SUBSET [kind : {"put", "claim", "claim_clear"}, id : Ids]]
      /\ subs' \in [Channels -> SUBSET Subs] /\ chan' \in [Subs -> {"none", "open", "closed"}]
  <2>1. \A c \in Conns \ {o} : view'[c] = view[c]
    BY <1>10, <1>11
  <2>2. \A c \in Conns \ {o} : loop'[c] = loop[c]
    BY <1>10, <1>11
  <2>3. \A c \in Conns \ {o} : box'[c] = box[c]
    BY <1>10, <1>11
  <2>4. \A c \in Conns \ {o} : missed'[c] = missed[c] /\ (c \in lists' <=> c \in lists)
    BY <1>10, <1>11
  <2>5. missed' \in [Conns -> SUBSET [kind : {"put", "claim", "claim_clear"}, id : Ids]]
    BY <1>10, <1>11
  <2>6. subs' \in [Channels -> SUBSET Subs] /\ chan' \in [Subs -> {"none", "open", "closed"}]
    BY <1>10, <1>12 DEF Conns
  <2>7. \A c \in Conns \ {o} : chan'[c] = chan[c]
    BY <1>10, <1>12 DEF Conns
  <2>8. \A c \in Conns \ {o} : c \in subs[PoolChannel] => c \in subs'[PoolChannel]
    BY <1>10, <1>12
  <2> QED
    BY <1>11, <2>1, <2>2, <2>3, <2>4, <2>5, <2>6, <2>7, <2>8
<1>2. /\ \A c \in Callers \ {o} : req'[c] = req[c]
      /\ req'[o] = req[o] \/ (req[o].step # "notify" /\ req'[o] = Idle)
  BY DEF Connect, SubscribePool, HangUp, PoolInv, ReqFits, Callers
<1>3. ConnFits'
  <2>1. loop'[o] = "live" => o \in subs'[PoolChannel] /\ chan'[o] = "open"
    BY PoolAssumption, ChannelsGiven
       DEF Connect, SubscribePool, HangUp, Subscribe, Conns, KnowInv, ConnFits, PoolInv, ReqFits
  <2>2. o \in lists' => Live(o)'
    BY DEF Connect, SubscribePool, HangUp, KnowInv, ConnFits, Live, PoolInv, ReqFits
  <2>3. lists' \subseteq Conns
    BY DEF Connect, SubscribePool, HangUp, KnowInv, ConnFits
  <2> QED
    BY <1>1, <2>1, <2>2, <2>3 DEF KnowInv, ConnFits, Live
<1>4. ASSUME NEW i, Announcing(i) PROVE Announcing(i)'
  BY <1>2, <1>4 DEF Announcing
<1>5. ASSUME NEW c \in Conns, ListRead(c)', NEW i \in InPool', puts'[i] = 1
      PROVE  Knows(c, i)'
  <2>1. i \in InPool /\ puts[i] = 1
    BY <1>1, <1>5 DEF InPool
  <2>2. CASE c # o
    <3>1. req'[c] = req[c] /\ ListRead(c)
      BY <1>1, <1>2, <1>5, <2>2 DEF ListRead, Callers
    <3>2. Knows(c, i)
      BY <2>1, <3>1 DEF KnowInv, KnowFits
    <3>3. OnWay(c, i) => OnWay(c, i)'
      BY <1>1, <2>2 DEF OnWay, Waiting, PutOf
    <3> QED
      BY <1>1, <1>4, <2>2, <3>1, <3>2, <3>3 DEF Knows, PutOf
  <2>3. CASE c = o
    <3>1. ~HangUp(o)
      BY <1>5, <2>3 DEF HangUp, ListRead
    <3>2. UNCHANGED <<req, view, box, missed, lists>> /\ loop[c] # "live"
      BY <2>3, <3>1 DEF Connect, SubscribePool, Subscribe, dispatcherVars
    <3>3. Knows(c, i)
      BY <1>5, <2>1, <3>2 DEF KnowInv, KnowFits, ListRead
    <3> QED
      BY <1>1, <1>4, <3>2, <3>3 DEF Knows, OnWay, PutOf
  <2> QED
    BY <2>2, <2>3
<1> QED
  BY <1>3, <1>5 DEF KnowInv, KnowFits

\* What the consume loop is sending.
FanFits == Waiting \/ \E m, to : fan = [msg |-> m, to |-> to]

LEMMA NextFan == FanFits /\ [Next]_vars => FanFits'
<1> SUFFICES ASSUME FanFits, [Next]_vars PROVE FanFits'
  OBVIOUS
<1>1. CASE Take
  BY <1>1 DEF Take, FanFits, Waiting
<1>2. CASE Send
  <2>1. PICK s : fan' = IF fan.to = {s} THEN Nobody ELSE [fan EXCEPT !.to = @ \ {s}]
    BY <1>2 DEF Send
  <2>2. PICK m, to : fan = [msg |-> m, to |-> to]
    BY <1>2 DEF Send, FanFits
  <2>3. [fan EXCEPT !.to = @ \ {s}] = [msg |-> m, to |-> to \ {s}]
    BY <2>2
  <2> QED
    BY <2>1, <2>3 DEF FanFits, Waiting
<1>3. CASE fan' = fan
  BY <1>3 DEF FanFits, Waiting
<1>4. Take \/ Send \/ fan' = fan
  <2>1. ASSUME NEW c \in Conns,
               Connect(c) \/ SubscribePool(c) \/ WriteUpdate(c) \/ HangUp(c) \/ Ask(c)
        PROVE  fan' = fan
    BY <2>1 DEF Connect, SubscribePool, WriteUpdate, HangUp, Ask, Subscribe, Receive, Abandon,
                remove, dispatcherVars
  <2>2. ASSUME NEW c \in Callers, AskPut(c) \/ Serve(c) PROVE fan' = fan
    BY <2>2 DEF AskPut, Serve, HSet, List, Claim, ClaimClear, Notify, Answer, dispatcherVars
  <2>3. ASSUME RedisExecutes PROVE fan' = fan
    BY <2>3 DEF RedisExecutes
  <2>4. ASSUME UNCHANGED vars PROVE fan' = fan
    BY <2>4 DEF vars
  <2> QED
    BY <2>1, <2>2, <2>3, <2>4 DEF Next
<1> QED
  BY <1>1, <1>2, <1>3, <1>4

\* The consume loop hands a put on to all that are live, and drops it for those
\* only whose buffer is full.
LEMMA LoopKnow ==
    ASSUME PoolInv, TellInv, FanFits, KnowInv, Take \/ Send \/ RedisExecutes, UNCHANGED poolVars
    PROVE  KnowInv'
<1>1. UNCHANGED <<pool, puts, loop, req, lists, view, taken, missed>>
  BY DEF poolVars
<1>2. UNCHANGED tableVars
  BY DEF Take, Send, RedisExecutes
<1>3. ConnFits'
  BY <1>1, <1>2, ConnSame DEF KnowInv, tableVars
<1>4. ASSUME NEW c \in Conns, NEW i, OnWay(c, i) PROVE OnWay(c, i)' \/ <<c, PutOf(i)>> \in full'
  <2> DEFINE letter == [on |-> PoolChannel, msg |-> PutOf(i)]
  <2>1. loop'[c] = "live" /\ loop[c] = "live" /\ c \in subs[PoolChannel] /\ chan[c] = "open"
    BY <1>1, <1>4 DEF OnWay, KnowInv, ConnFits
  <2>2. CASE Take
    <3>1. /\ box' = box /\ fan = Nobody /\ inbox # <<>> /\ inbox' = Tail(inbox)
          /\ inbox \in Seq(Letter)
      BY <2>2 DEF Take, Waiting, TellInv, WayFits
    <3>2. CASE In(inbox, letter)
      <4>1. Head(inbox) = letter \/ In(inbox', letter)
        BY <3>1, <3>2, InSteps
      <4>2. ASSUME Head(inbox) = letter
            PROVE  ~Waiting' /\ c \in fan'.to /\ fan'.msg = PutOf(i)
        <5>1. Head(inbox).on = PoolChannel /\ Head(inbox).msg = PutOf(i)
          BY <4>2
        <5>2. fan' = [msg |-> PutOf(i), to |-> subs[PoolChannel]]
          BY <2>1, <2>2, <5>1 DEF Take
        <5>3. fan'.to = subs[PoolChannel] /\ fan'.msg = PutOf(i) /\ Nobody.to = {}
          BY <5>2 DEF Nobody
        <5> QED
          BY <2>1, <5>3 DEF Waiting
      <4> QED
        BY <2>1, <4>1, <4>2 DEF OnWay, PutOf
    <3> QED
      BY <1>4, <2>1, <3>1, <3>2 DEF OnWay, Waiting, PutOf
  <2>3. CASE Send
    <3>1. PICK s \in fan.to :
             TrySend(s) /\ fan' = IF fan.to = {s} THEN Nobody ELSE [fan EXCEPT !.to = @ \ {s}]
      BY <2>3 DEF Send
    <3>2. inbox' = inbox /\ ~Waiting /\ fan.msg \in News /\ box \in [Conns -> Seq(News)]
      BY <2>3 DEF Send, TellInv, WayFits
    <3>3. In(box[c], PutOf(i)) => In(box'[c], PutOf(i))
      <4>1. box' = box \/ box' = [box EXCEPT ![s] = Append(box[s], fan.msg)]
        BY <3>1 DEF TrySend
      <4>2. In(box[c], PutOf(i)) => In(Append(box[c], fan.msg), PutOf(i))
        BY <3>2, InAppend
      <4>3. box'[c] = box[c] \/ box'[c] = Append(box[c], fan.msg)
        BY <3>2, <4>1
      <4> QED
        BY <4>2, <4>3
    <3>4. ASSUME c \in fan.to, fan.msg = PutOf(i), c # s
          PROVE  ~Waiting' /\ c \in fan'.to /\ fan'.msg = PutOf(i)
      <4>1. fan' = [fan EXCEPT !.to = fan.to \ {s}]
        BY <3>1, <3>4
      <4>2. fan.to # {} /\ Nobody.to = {}
        BY <3>4 DEF Nobody
      <4>3. PICK m, to : fan = [msg |-> m, to |-> to]
        BY <3>2 DEF FanFits, Waiting
      <4>4. fan'.to = fan.to \ {s} /\ fan'.msg = fan.msg
        BY <4>1, <4>3
      <4> QED
        BY <3>4, <4>2, <4>4 DEF Waiting
    <3>5. ASSUME c \in fan.to, fan.msg = PutOf(i), c = s
          PROVE  In(box'[c], PutOf(i)) \/ <<c, PutOf(i)>> \in full'
      <4>1. \/ box' = [box EXCEPT ![c] = Append(box[c], fan.msg)]
            \/ full' = full \cup {<<c, fan.msg>>}
        BY <2>1, <3>1, <3>5 DEF TrySend
      <4>2. In(Append(box[c], fan.msg), PutOf(i))
        BY <3>2, <3>5, InAppend
      <4>3. box' = [box EXCEPT ![c] = Append(box[c], fan.msg)] => box'[c] = Append(box[c], fan.msg)
        BY <3>2
      <4> QED
        BY <3>5, <4>1, <4>2, <4>3
    <3> QED
      BY <1>4, <2>1, <3>2, <3>3, <3>4, <3>5 DEF OnWay, PutOf
  <2>4. CASE RedisExecutes
    BY <1>4, <2>1, <2>4 DEF RedisExecutes, OnWay, Waiting, PutOf
  <2> QED
    BY <2>2, <2>3, <2>4
<1>5. ASSUME NEW c \in Conns, ListRead(c)', NEW i \in InPool', puts'[i] = 1
      PROVE  Knows(c, i)'
  <2>1. i \in InPool /\ puts[i] = 1 /\ ListRead(c)
    BY <1>1, <1>5 DEF InPool, ListRead
  <2>2. Knows(c, i)
    BY <2>1 DEF KnowInv, KnowFits
  <2>3. full \subseteq full'
    BY DEF Take, Send, TrySend, RedisExecutes
  <2>4. Announcing(i) => Announcing(i)'
    BY <1>1 DEF Announcing
  <2> QED
    BY <1>1, <1>4, <2>2, <2>3, <2>4 DEF Knows, PutOf
<1> QED
  BY <1>3, <1>5 DEF KnowInv, KnowFits

LEMMA NextKnow == PoolInv /\ TellInv /\ FanFits /\ KnowInv /\ [Next]_vars => KnowInv'
<1> SUFFICES ASSUME PoolInv, TellInv, FanFits, KnowInv, [Next]_vars PROVE KnowInv'
  OBVIOUS
<1>1. ASSUME NEW c \in Conns,
             Connect(c) \/ SubscribePool(c) \/ WriteUpdate(c) \/ HangUp(c) \/ Ask(c)
      PROVE  KnowInv'
  BY <1>1, AskKnow, WriteKnow, ConnKnow DEF Callers
<1>2. ASSUME NEW c \in Callers, AskPut(c) \/ Serve(c) PROVE KnowInv'
  BY <1>2, AskKnow, ServeKnow, NotifyKnow
<1>3. CASE UNCHANGED vars
  <2>1. UNCHANGED <<subs, chan, loop, missed, lists>> /\ UNCHANGED <<box, fan, inbox, full>>
        /\ UNCHANGED <<pool, puts, req, view>>
    BY <1>3 DEF vars
  <2>2. ConnFits'
    BY <2>1, ConnSame DEF KnowInv
  <2>3. KnowFits'
    BY <2>1 DEF KnowInv, KnowFits, ListRead, InPool, Knows, OnWay, Announcing, Waiting
  <2> QED
    BY <2>2, <2>3 DEF KnowInv
<1> QED
  BY <1>1, <1>2, <1>3, LoopKnow DEF Next

LEMMA InitKnow == Init => KnowInv /\ FanFits
<1> SUFFICES ASSUME Init PROVE KnowInv /\ FanFits
  OBVIOUS
<1>1. ConnFits
  BY DEF Init, DispatcherInit, ConnFits
<1>2. KnowFits
  BY DEF Init, KnowFits, ListRead
<1>3. FanFits
  BY DEF Init, DispatcherInit, FanFits, Waiting
<1> QED
  BY <1>1, <1>2, <1>3 DEF KnowInv

\* collection_snapshot.go and nomu_sync_ws_handler.go: the list is read from the
\* pool by a connection that may still be subscribing, while others put.  Every
\* entry that was put once is nevertheless rendered by whoever asked for the
\* list, as soon as nothing is under way, unless its announcement was made while
\* the connection could not hear it or found its buffer full.
THEOREM ListedMissNothing == Spec => []MissesNothing
<1>1. PoolInv /\ KnowInv => MissesNothing
  <2> SUFFICES ASSUME PoolInv, KnowInv, NEW c \in Conns, Settled(c), NEW i \in InPool,
                      puts[i] = 1
               PROVE  i \in view[c] \/ PutOf(i) \in missed[c] \/ <<c, PutOf(i)>> \in full
    BY DEF MissesNothing, PutOf
  <2>1. \A r \in Callers : req[r] = Idle
    BY DEF Settled
  <2>2. ListRead(c) /\ Knows(c, i)
    BY <2>1 DEF Settled, ListRead, Idle, Callers, KnowInv, KnowFits
  <2>3. req[c] \notin Listing /\ ~Announcing(i)
    BY <2>1, KindsApart DEF Announcing, Callers
  <2>4. ~OnWay(c, i)
    BY DEF Settled, OnWay, In, Waiting
  <2> QED
    BY <2>2, <2>3, <2>4 DEF Knows
<1> QED
  BY <1>1, InitPool, NextPool, InitTell, NextTell, InitKnow, NextFan, NextKnow, PTL DEF Spec
=============================================================================
