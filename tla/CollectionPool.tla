---------------------------- MODULE CollectionPool ----------------------------
(***************************************************************************)
(* The pool of collected snapshots of one account                          *)
(* (service/syncbus/collection_snapshot.go and the collection_* part of    *)
(* handler/nomu_sync_ws_handler.go).  The read loop of a connection serves *)
(* one request at a time; its delivery loop, another goroutine, subscribes *)
(* to the changes of the pool and writes them to the same socket.  The     *)
(* Python worker puts parsed products into the same pool.  What a device   *)
(* renders is modelled from the guide for its client.                      *)
(***************************************************************************)
EXTENDS Dispatcher

CONSTANTS
    Ids,             \* ids of snapshots
    Workers,         \* Python workers that put parsed products
    PoolChannel,     \* nomu:sync:collection:ch:<user>, the one of Channels; its
                     \* Msgs are [kind : {"put", "claim_clear"}, id : Ids]
    Faults,          \* "notify", "hset", "list": the command may fail;
                     \* "script": the reply of claim_clear may be lost
    MaxPuts          \* bound: puts of one id

\* The connections are those of one account.
ASSUME PoolAssumption == \A c \in Subs : ChannelOf[c] = PoolChannel

VARIABLES
    pool,     \* nomu:sync:collection:<user>: the put that is stored, 0 for none
    puts,     \* puts of each id so far
    loop,     \* the connection
    req,      \* what each read loop, or worker, is serving
    lists,    \* connections whose client has asked for the list
    view,     \* ids each client renders
    got,      \* snapshots each client got by claim_clear
    taken,    \* history: snapshots removed from the pool, and for whom
    missed    \* history: updates a connection cannot have received

poolVars == <<pool, puts, loop, req, lists, view, got, taken, missed>>
vars == <<subs, chan, box, phase, wire, listed, inbox, fan, full, losses,
          pool, puts, loop, req, lists, view, got, taken, missed>>

Conns == Subs
Callers == Conns \cup Workers
Idle == [step |-> "idle"]
Absent == 0
Snapshot == [id : Ids, put : 1..MaxPuts]
Live(c) == loop[c] \in {"up", "live"}

TypeOK ==
    /\ DispatcherTypeOK
    /\ pool \in [Ids -> 0..MaxPuts]
    /\ puts \in [Ids -> 0..MaxPuts]
    /\ loop \in [Conns -> {"no", "up", "live", "gone"}]
    /\ \A c \in Callers : req[c] = Idle \/
          /\ req[c].step \in {"hset", "exec", "notify", "answer"}
          /\ req[c].op \in {"put", "list", "claim", "claim_clear"}
          /\ req[c].op = "list" \/ req[c].id \in Ids
    /\ lists \subseteq Conns
    /\ view \in [Conns -> SUBSET Ids]
    /\ got \in [Conns -> SUBSET Snapshot]
    /\ taken \subseteq [id : Ids, put : 1..MaxPuts, by : Conns, replied : BOOLEAN]
    /\ missed \in [Conns -> SUBSET Msgs]

Init ==
    /\ DispatcherInit
    /\ pool = [i \in Ids |-> Absent]
    /\ puts = [i \in Ids |-> 0]
    /\ loop = [c \in Conns |-> "no"]
    /\ req = [c \in Callers |-> Idle]
    /\ lists = {}
    /\ view = [c \in Conns |-> {}]
    /\ got = [c \in Conns |-> {}]
    /\ taken = {}
    /\ missed = [c \in Conns |-> {}]

-----------------------------------------------------------------------------
(* Requests: CollectionPut, CollectionList, CollectionClaim,               *)
(* CollectionClaimClear                                                     *)

\* Mutant: the change is announced before it is made.
NotifyFirst == <<"notify", "hset", "answer">>

\* The steps of a put: its notification follows the HSET.
PutSteps == <<"hset", "notify", "answer">>

Step(c, step) == req' = [req EXCEPT ![c].step = step]
AfterPut(step) == PutSteps[1 + CHOOSE i \in 1..2 : PutSteps[i] = step]

Ask(c) ==
    /\ Live(c) /\ req[c] = Idle
    /\ \/ c \notin lists /\ lists' = lists \cup {c}
          /\ req' = [req EXCEPT ![c] = [op |-> "list", step |-> "exec"]]
       \/ \E op \in {"claim", "claim_clear"}, i \in Ids :
             req' = [req EXCEPT ![c] = [op |-> op, id |-> i, step |-> "exec"]] /\ UNCHANGED lists
    /\ UNCHANGED <<dispatcherVars, pool, puts, loop, view, got, taken, missed>>

AskPut(c) ==
    /\ req[c] = Idle /\ (c \in Conns => Live(c))
    /\ \E i \in Ids : /\ puts[i] < MaxPuts
                      /\ req' = [req EXCEPT ![c] = [op |-> "put", id |-> i, step |-> Head(PutSteps)]]
    /\ UNCHANGED <<dispatcherVars, pool, puts, loop, lists, view, got, taken, missed>>

\* HSET goes over what is there; a put that fails is answered put_error.
Stored(i) == [pool EXCEPT ![i] = puts[i] + 1]

HSet(c) ==
    LET i == req[c].id IN
    /\ req[c].step = "hset" /\ puts[i] < MaxPuts
    /\ \/ /\ puts' = [puts EXCEPT ![i] = @ + 1]
          /\ pool' = Stored(i)
          /\ Step(c, AfterPut("hset"))
       \/ "hset" \in Faults /\ Step(c, "answer") /\ UNCHANGED <<puts, pool>>
    /\ UNCHANGED <<dispatcherVars, loop, lists, view, got, taken, missed>>

InPool == {i \in Ids : pool[i] # Absent}

\* HGETALL.  One that fails is answered, and the client may ask again.
List(c) ==
    /\ req[c].step = "exec" /\ req[c].op = "list"
    /\ \/ req' = [req EXCEPT ![c] = [op |-> "list", step |-> "answer", ans |-> InPool]]
          /\ UNCHANGED lists
       \/ "list" \in Faults /\ req' = [req EXCEPT ![c] = Idle] /\ lists' = lists \ {c}
    /\ UNCHANGED <<dispatcherVars, pool, puts, loop, view, got, taken, missed>>

Answering(c, put, step) ==
    req' = [req EXCEPT ![c] = [op |-> req[c].op, id |-> req[c].id, step |-> step, ans |-> put]]

\* HGET alone: the entry stays, and what the client is answered changes nothing
\* that it renders.
Claim(c) ==
    /\ req[c].step = "exec" /\ req[c].op = "claim"
    /\ req' = [req EXCEPT ![c] = Idle]
    /\ UNCHANGED <<dispatcherVars, pool, puts, loop, lists, view, got, taken, missed>>

\* Mutant: HGET without HDEL.
LeftIn(i) == pool

\* The script: HGET and HDEL in one.
TakenOut(i) == [pool EXCEPT ![i] = Absent]

\* Its reply may be lost, or not decode, after the entry is gone.
ClaimClear(c) ==
    LET i == req[c].id IN
    /\ req[c].step = "exec" /\ req[c].op = "claim_clear"
    /\ IF pool[i] = Absent
       THEN Answering(c, Absent, "answer") /\ UNCHANGED <<pool, taken>>
       ELSE /\ pool' = TakenOut(i)
            /\ \E replied \in {TRUE} \cup {"script" \notin Faults} :
                  /\ taken' = taken \cup
                        {[id |-> i, put |-> pool[i], by |-> c, replied |-> replied]}
                  /\ IF replied THEN Answering(c, pool[i], "notify")
                     ELSE Answering(c, Absent, "answer")
    /\ UNCHANGED <<dispatcherVars, puts, loop, lists, view, got, missed>>

Update(c) == [kind |-> req[c].op, id |-> req[c].id]

\* Mutant: a notification that failed fails the request.
FailsRequest(c, failed) ==
    IF req[c].op = "put" THEN Step(c, AfterPut("notify"))
    ELSE Answering(c, IF failed THEN Absent ELSE req[c].ans, "answer")

\* Mutant: only what is taken out is announced.
TakesNotified == {"claim_clear"}

\* notifyCollection is best effort: the request goes on.
GoesOn(c, failed) ==
    Step(c, IF req[c].op = "put" THEN AfterPut("notify") ELSE "answer")

\* The changes a notification is sent for.
Notified == {"put", "claim_clear"}

\* The list of a connection has been read.
ListRead(c) == c \in lists /\ ~(req[c].step = "exec" /\ req[c].op = "list")

\* A PUBLISH fails with Redis, or with the context of a connection that ended.
Notify(c) ==
    /\ req[c].step = "notify"
    /\ \E failed \in BOOLEAN :
          LET reaches == {o \in Conns : ~failed /\ PoolChannel \in listed /\ loop[o] = "live"}
          IN  /\ failed => "notify" \in Faults \/ (c \in Conns /\ loop[c] = "gone")
              /\ inbox' = IF failed \/ req[c].op \notin Notified THEN inbox
                          ELSE Sent(PoolChannel, Update(c))
              /\ missed' = [o \in Conns |-> IF ListRead(o) /\ o \notin reaches
                                          THEN missed[o] \cup {Update(c)} ELSE missed[o]]
              /\ GoesOn(c, failed)
    /\ UNCHANGED <<tableVars, redisVars, box, fan, full, pool, puts, loop, lists, view, got, taken>>

\* The answer is written: the client adds a list to what it renders, and keeps
\* the snapshot it claimed.
Answer(c) ==
    /\ req[c].step = "answer"
    /\ req' = [req EXCEPT ![c] = Idle]
    /\ IF c \in Conns /\ Live(c) /\ req[c].op = "list"
       THEN view' = [view EXCEPT ![c] = @ \cup req[c].ans] ELSE UNCHANGED view
    /\ IF c \in Conns /\ Live(c) /\ req[c].op = "claim_clear" /\ req[c].ans # Absent
       THEN got' = [got EXCEPT ![c] = @ \cup {[id |-> req[c].id, put |-> req[c].ans]}]
       ELSE UNCHANGED got
    /\ UNCHANGED <<dispatcherVars, pool, puts, loop, lists, taken, missed>>

Serve(c) == HSet(c) \/ List(c) \/ Claim(c) \/ ClaimClear(c) \/ Notify(c) \/ Answer(c)

-----------------------------------------------------------------------------
(* The connection *)

Connect(c) ==
    /\ loop[c] = "no"
    /\ loop' = [loop EXCEPT ![c] = "up"]
    /\ UNCHANGED <<dispatcherVars, pool, puts, req, lists, view, got, taken, missed>>

SubscribePool(c) ==
    /\ loop[c] = "up"
    /\ Subscribe(c)
    /\ loop' = [loop EXCEPT ![c] = "live"]
    /\ UNCHANGED <<pool, puts, req, lists, view, got, taken, missed>>

\* collection_update: the client adds what was put and drops what was taken.
WriteUpdate(c) ==
    LET upd == Head(box[c]) IN
    /\ loop[c] = "live"
    /\ Receive(c)
    /\ view' = [view EXCEPT ![c] = IF upd.kind = "put" THEN @ \cup {upd.id} ELSE @ \ {upd.id}]
    /\ UNCHANGED <<pool, puts, loop, req, lists, got, taken, missed>>

\* The connection ends, at any step of either loop; a request that has been
\* executed is not undone.  What the client has is of no more interest.
HangUp(c) ==
    /\ Live(c)
    /\ loop' = [loop EXCEPT ![c] = "gone"]
    /\ req' = [req EXCEPT ![c] = IF @.step = "notify" THEN @ ELSE Idle]
    /\ lists' = lists \ {c}
    /\ view' = [view EXCEPT ![c] = {}]
    /\ got' = [got EXCEPT ![c] = {}]
    /\ missed' = [missed EXCEPT ![c] = {}]
    /\ IF loop[c] = "live" THEN Abandon(c) ELSE UNCHANGED dispatcherVars
    /\ UNCHANGED <<pool, puts, taken>>

Next ==
    \/ \E c \in Conns : Connect(c) \/ SubscribePool(c) \/ WriteUpdate(c) \/ HangUp(c) \/ Ask(c)
    \/ \E c \in Callers : AskPut(c) \/ Serve(c)
    \/ (Take \/ Send \/ RedisExecutes) /\ UNCHANGED poolVars

Spec == Init /\ [][Next]_vars
-----------------------------------------------------------------------------
(* Properties *)

\* Of the devices that claim_clear an id at once one gets it, and the others
\* nothing: a snapshot is in the pool until it is overwritten or exactly one
\* connection has taken it out.
TakenOnce ==
    \A i \in Ids : \A n \in 1..puts[i] :
        LET takers == {t \in taken : t.id = i /\ t.put = n} IN
        /\ Cardinality(takers) <= 1
        /\ n = puts[i] => (pool[i] = n) # (takers # {})

\* Whoever takes a snapshot out of the pool is given it, whatever becomes of
\* the notification, unless its connection ends first or the reply of the
\* script is lost (the entry is then gone with it).
TakenReachesClaimer ==
    \A t \in taken :
        \/ [id |-> t.id, put |-> t.put] \in got[t.by]
        \/ loop[t.by] = "gone" \/ ~t.replied
        \/ /\ req[t.by].step \in {"notify", "answer"} /\ req[t.by].op = "claim_clear"
           /\ req[t.by].id = t.id /\ req[t.by].ans = t.put

\* A device that renders an entry finds it in the pool, or somebody has taken
\* it: an update never runs ahead of the change it tells of.
NoPhantoms ==
    \A c \in Conns : \A i \in view[c] : pool[i] = Absent => \E t \in taken : t.id = i

\* The client has its list, and nothing is under way to it.
Settled(c) ==
    /\ loop[c] = "live" /\ c \in lists
    /\ \A r \in Callers : req[r] = Idle
    /\ inbox = <<>> /\ Waiting /\ box[c] = <<>>

\* A client that asked for the list once renders every entry of the pool, but
\* for ids put twice and the puts it can be told to have missed.
MissesNothing ==
    \A c \in Conns : Settled(c) =>
        \A i \in InPool :
            LET put == [kind |-> "put", id |-> i]
            IN  puts[i] = 1 => i \in view[c] \/ put \in missed[c] \/ <<c, put>> \in full

\* What the guide promises (collection-snapshot-sync.md:55): the list, asked
\* for once when the connection is made, and the updates after it are enough
\* to render the pool.
RenderedIsPool ==
    \A c \in Conns : Settled(c) /\ full = {} => view[c] = InPool
=============================================================================
