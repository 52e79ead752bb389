------------------------------- MODULE SyncBus --------------------------------
(***************************************************************************)
(* Envelopes pushed from device to device (service/syncbus/bus.go, the     *)
(* push and ack part of handler/nomu_sync_ws_handler.go).  An envelope     *)
(* goes on the target's Redis LIST and out on its channel.  A connection   *)
(* runs a delivery loop, which subscribes, replays the LIST, and then      *)
(* writes what the dispatcher hands it, and a read loop, which publishes   *)
(* and acknowledges.  Subscriptions are the connections of a device; one   *)
(* service is registered.  An envelope is told from others by its raw      *)
(* value, SentAt included: it is pushed again within the second as itself, *)
(* and later as another one with the same id.                              *)
(***************************************************************************)
EXTENDS Dispatcher

CONSTANTS
    To,              \* the device, a channel, that an envelope is for
    IdOf,            \* the id that the client gave an envelope
    Expiring,        \* envelopes whose payload has an expiresAt
    QueueCap,        \* queueCap
    MaxPushes        \* bound: pushes of all envelopes, retries included

\* An envelope is for a device, and queueCap is a positive constant.
BusGiven ==
    /\ To \in [Msgs -> Channels]
    /\ IsFiniteSet(Msgs)
    /\ QueueCap \in Nat \ {0}

ASSUME BusAssumption == BusGiven

VARIABLES
    queue,    \* nomu:sync:q:<service>:<user>:<device>
    push,     \* how far the push of an envelope has got
    pushes,   \* pushes of an envelope so far
    expired,  \* envelopes whose payload has expired
    loop,     \* where the delivery loop of a connection is
    back,     \* what it has still to replay
    shown,    \* envelopes written to the connection, while it lasts
    acking,   \* what its read loop is acknowledging
    recent,   \* history: the last QueueCap envelopes appended to a queue
    acked,    \* history: envelopes acknowledged by their device
    unlisted  \* history: envelopes published while SUBSCRIBE was under way

pushVars == <<queue, push, pushes, expired, recent>>
connVars == <<loop, back, shown, acking>>
busVars == <<queue, push, pushes, expired, loop, back, shown, acking, recent, acked, unlisted>>
vars == <<subs, chan, box, phase, wire, listed, inbox, fan, full, losses,
          queue, push, pushes, expired, loop, back, shown, acking, recent, acked, unlisted>>

Devices == Channels
Conns == Subs
DeviceOf(c) == ChannelOf[c]
NoEnv == [env |-> {}]

\* Mutant: the queue is replayed first and the subscription made then.
ReplayFirst == <<"lrange", "replay", "subscribe", "live">>

\* The steps of a delivery loop.
Order == <<"subscribe", "lrange", "replay", "live">>

TypeOK ==
    /\ DispatcherTypeOK
    /\ queue \in [Devices -> Seq(Msgs)]
    /\ push \in [Msgs -> {"no", "rpush", "ltrim", "publish", "ok", "failed"}]
    /\ pushes \in [Msgs -> 0..MaxPushes]
    /\ expired \subseteq Expiring
    /\ loop \in [Conns -> {"no", "gone"} \cup Range(Order)]
    /\ back \in [Conns -> Seq(Msgs)]
    /\ shown \in [Conns -> SUBSET Msgs]
    /\ acking \in [Conns -> Msgs \cup {NoEnv}]
    /\ recent \in [Devices -> Seq(Msgs)]
    /\ acked \subseteq Msgs
    /\ unlisted \subseteq Conns \X Msgs

BusInit ==
    /\ queue = [d \in Devices |-> <<>>]
    /\ push = [e \in Msgs |-> "no"]
    /\ pushes = [e \in Msgs |-> 0]
    /\ expired = {}
    /\ loop = [c \in Conns |-> "no"]
    /\ back = [c \in Conns |-> <<>>]
    /\ shown = [c \in Conns |-> {}]
    /\ acking = [c \in Conns |-> NoEnv]
    /\ recent = [d \in Devices |-> <<>>]
    /\ acked = {}
    /\ unlisted = {}

Init == DispatcherInit /\ BusInit

-----------------------------------------------------------------------------
(* Publish: three commands in one pipeline, which others interleave with *)

Pushes(e, step) == push' = [push EXCEPT ![e] = step]

\* A client pushes, or pushes again after a push_error; what has expired is
\* refused.
Push(e) ==
    /\ push[e] \in {"no", "failed"} /\ e \notin expired
    /\ Cardinality({p \in Msgs \X (1..MaxPushes) : p[2] <= pushes[p[1]]}) < MaxPushes
    /\ pushes' = [pushes EXCEPT ![e] = @ + 1]
    /\ Pushes(e, "rpush")
    /\ UNCHANGED <<dispatcherVars, connVars, queue, expired, recent, acked, unlisted>>

Newest(q) == IF Len(q) > QueueCap THEN SubSeq(q, Len(q) - QueueCap + 1, Len(q)) ELSE q

RPush(e) ==
    /\ push[e] = "rpush"
    /\ queue' = [queue EXCEPT ![To[e]] = Append(@, e)]
    /\ recent' = [recent EXCEPT ![To[e]] = Newest(Append(@, e))]
    /\ Pushes(e, "ltrim")
    /\ UNCHANGED <<dispatcherVars, connVars, pushes, expired, acked, unlisted>>

\* Mutant: no LTRIM.
AllKept(q) == q

\* LTRIM -cap -1
Trimmed(q) == Newest(q)

LTrim(e) ==
    /\ push[e] = "ltrim"
    /\ queue' = [queue EXCEPT ![To[e]] = Trimmed(@)]
    /\ Pushes(e, "publish")
    /\ UNCHANGED <<dispatcherVars, connVars, pushes, expired, recent, acked, unlisted>>

\* The last command of the pipeline: push_ok, unless its reply is lost.
PublishLive(e) ==
    /\ push[e] = "publish"
    /\ inbox' = Sent(To[e], e)
    /\ unlisted' = IF To[e] \in listed THEN unlisted
                   ELSE unlisted \cup (subs[To[e]] \X {e})
    /\ \E outcome \in {"ok", "failed"} : Pushes(e, outcome)
    /\ UNCHANGED <<tableVars, redisVars, box, fan, full, connVars, queue, pushes, expired, recent, acked>>

\* Exec fails, or the server with it, after any of the commands; push_error.
PushFails(e) ==
    /\ push[e] \in {"rpush", "ltrim", "publish"}
    /\ Pushes(e, "failed")
    /\ UNCHANGED <<dispatcherVars, connVars, queue, pushes, expired, recent, acked, unlisted>>

Expire(e) ==
    /\ e \in Expiring \ expired
    /\ expired' = expired \cup {e}
    /\ UNCHANGED <<dispatcherVars, connVars, queue, push, pushes, recent, acked, unlisted>>

-----------------------------------------------------------------------------
(* The delivery loop *)

Connected(c) == loop[c] \notin {"no", "gone"}

After == [step \in Range(Front(Order)) |->
    LET i == CHOOSE i \in DOMAIN Order : Order[i] = step IN Order[i + 1]]

Done(c, step) == loop' = [loop EXCEPT ![c] = After[step]]

Connect(c) ==
    /\ loop[c] = "no"
    /\ loop' = [loop EXCEPT ![c] = Head(Order)]
    /\ UNCHANGED <<dispatcherVars, pushVars, back, shown, acking, acked, unlisted>>

SubscribeDevice(c) ==
    /\ loop[c] = "subscribe"
    /\ Subscribe(c)
    /\ Done(c, "subscribe")
    /\ UNCHANGED <<pushVars, back, shown, acking, acked, unlisted>>

\* Replay reads the whole queue at once,
ReplayRead(c) ==
    /\ loop[c] = "lrange"
    /\ back' = [back EXCEPT ![c] = queue[DeviceOf(c)]]
    /\ Done(c, "lrange")
    /\ UNCHANGED <<dispatcherVars, pushVars, shown, acking, acked, unlisted>>

\* Mutant: an expired envelope ends the replay.
StopsAtExpired(c) ==
    /\ back' = [back EXCEPT ![c] = IF Head(@) \in expired THEN <<>> ELSE Tail(@)]
    /\ shown' = [shown EXCEPT ![c] = @ \cup ({Head(back[c])} \ expired)]
    /\ UNCHANGED queue

\* LREM 0: every copy.
AllRemoved(q, e) ==
    FoldLeft(LAMBDA rest, f : IF f = e THEN rest ELSE Append(rest, f), <<>>, q)

\* writes what is still valid, and takes every copy of what is not off the queue.
ReplayOne(c) ==
    LET e == Head(back[c]) IN
    /\ back' = [back EXCEPT ![c] = Tail(@)]
    /\ IF e \in expired
       THEN /\ queue' = [queue EXCEPT ![DeviceOf(c)] = AllRemoved(@, e)]
            /\ UNCHANGED shown
       ELSE /\ shown' = [shown EXCEPT ![c] = @ \cup {e}]
            /\ UNCHANGED queue

Replay(c) ==
    /\ loop[c] = "replay"
    /\ \/ back[c] # <<>> /\ ReplayOne(c) /\ UNCHANGED loop
       \/ back[c] = <<>> /\ Done(c, "replay") /\ UNCHANGED <<queue, back, shown>>
    /\ UNCHANGED <<dispatcherVars, push, pushes, expired, recent, acking, acked, unlisted>>

WriteLive(c) ==
    /\ loop[c] = "live"
    /\ Receive(c)
    /\ shown' = [shown EXCEPT ![c] = @ \cup {Head(box[c])}]
    /\ UNCHANGED <<pushVars, loop, back, acking, acked, unlisted>>

DeliveryLoop(c) == SubscribeDevice(c) \/ ReplayRead(c) \/ Replay(c) \/ WriteLive(c)

\* Either loop ends, at any step, and takes the connection down; the deferred
\* cancel leaves the channel.
HangUp(c) ==
    /\ Connected(c)
    /\ loop' = [loop EXCEPT ![c] = "gone"]
    /\ back' = [back EXCEPT ![c] = <<>>]
    /\ shown' = [shown EXCEPT ![c] = {}]
    /\ unlisted' = {m \in unlisted : m[1] # c}
    /\ IF chan[c] = "open" THEN Abandon(c) ELSE UNCHANGED dispatcherVars
    /\ UNCHANGED <<pushVars, acking, acked>>

-----------------------------------------------------------------------------
(* Ack, in the read loop: find the envelope, then LREM it *)

\* A device acknowledges the id of what one of its connections, if still up, has
\* shown it: that is the first envelope in the queue with this id.
AckRead(c) ==
    /\ Connected(c) /\ acking[c] = NoEnv
    /\ LET q == queue[DeviceOf(c)] IN
       \E o \in Conns : \E e \in shown[o], i \in DOMAIN q :
          /\ DeviceOf(o) = DeviceOf(c)
          /\ IdOf[q[i]] = IdOf[e] /\ \A j \in 1..(i - 1) : IdOf[q[j]] # IdOf[e]
          /\ acking' = [acking EXCEPT ![c] = q[i]]
    /\ UNCHANGED <<dispatcherVars, pushVars, loop, back, shown, acked, unlisted>>

\* Mutant: LPOP.
HeadPopped(q, e) == IF q = <<>> THEN q ELSE Tail(q)

\* LREM 1: the first copy.
FirstRemoved(q, e) == RemoveFirst(q, e)

AckRemove(c) ==
    LET e == acking[c] IN
    /\ e # NoEnv
    /\ queue' = [queue EXCEPT ![DeviceOf(c)] = FirstRemoved(@, e)]
    /\ acking' = [acking EXCEPT ![c] = NoEnv]
    /\ acked' = acked \cup {e}
    /\ UNCHANGED <<dispatcherVars, push, pushes, expired, recent, loop, back, shown, unlisted>>

Next ==
    \/ \E e \in Msgs :
          Push(e) \/ RPush(e) \/ LTrim(e) \/ PublishLive(e) \/ PushFails(e) \/ Expire(e)
    \/ \E c \in Conns :
          Connect(c) \/ DeliveryLoop(c) \/ HangUp(c) \/ AckRead(c) \/ AckRemove(c)
    \/ (Take \/ Send \/ RedisExecutes \/ ConnectionLost) /\ UNCHANGED busVars

\* Redis executes what it is sent, and the loops of a live connection run.
Fairness ==
    /\ WF_vars((Take \/ Send) /\ UNCHANGED busVars)
    /\ WF_vars(RedisExecutes /\ UNCHANGED busVars)
    /\ \A c \in Conns : WF_vars(DeliveryLoop(c))

Spec == Init /\ [][Next]_vars
LiveSpec == Spec /\ Fairness

-----------------------------------------------------------------------------
(* Properties *)

\* An envelope that reached the queue stays there until its device has
\* acknowledged it, it expires, or QueueCap newer ones came after it, whatever
\* pipelines, replays and acknowledgements of several connections interleave.
KeptUntilAcked ==
    \A d \in Devices :
        Range(recent[d]) \subseteq Range(queue[d]) \cup acked \cup expired

Untrimmed ==
    [e \in Msgs |-> IF push[e] \in {"publish", "ok"} THEN pushes[e] - 1 ELSE pushes[e]]

\* An offline device's backlog is held to QueueCap, but for the envelopes of
\* pushes that have not got to their LTRIM.
BacklogBounded ==
    \A d \in Devices : Len(queue[d]) > QueueCap =>
        Len(queue[d]) <= QueueCap +
            SumFunctionOnSet(Untrimmed, {e \in Msgs : To[e] = d})

\* On its way to a connection.
Coming(c, e) ==
    \/ e \in Range(box[c])
    \/ ~Waiting /\ fan.msg = e /\ c \in fan.to
    \/ \E i \in DOMAIN inbox : inbox[i].msg = e

\* What a connection is known to miss: the message found its channel full, or
\* came while the SUBSCRIBE of the connection had not been executed.
Missed(c, e) == <<c, e>> \in full \cup unlisted

\* Between the replay and the live messages nothing falls: an envelope in the
\* queue of a device whose connection is past its replay has been written to
\* it or is on its way, unless Missed.
NoGap ==
    losses = 0 =>
        \A c \in Conns : loop[c] = "live" =>
            \A e \in Range(queue[DeviceOf(c)]) :
                push[e] = "ok" /\ e \notin expired =>
                    e \in shown[c] \/ Coming(c, e) \/ Missed(c, e)

\* A push answered with push_ok is written to a connection of its device that
\* stays, though envelopes before it expired.
EventuallyShown ==
    \A c \in Conns, e \in Msgs :
        LET owed == e \in Range(queue[DeviceOf(c)]) \ expired /\ push[e] = "ok"
        IN  owed /\ Connected(c) ~>
                ~owed \/ e \in shown[c] \/ loop[c] = "gone" \/ Missed(c, e)
=============================================================================
