------------------------------ MODULE Dispatcher ------------------------------
(***************************************************************************)
(* internal/infra/pubsub: the one Redis connection all subscriptions of    *)
(* the process share.  Subscribe and cancel run in the goroutines of the   *)
(* subscribers and edit the table under its lock; one consume loop takes   *)
(* the messages off the connection, copies the targets under the lock and  *)
(* sends to them after it is released.  SUBSCRIBE and UNSUBSCRIBE are      *)
(* written to the connection and executed by Redis later.                  *)
(***************************************************************************)
EXTENDS Naturals, Sequences, FiniteSets, SequencesExt

CONSTANTS
    Channels,        \* Redis channels
    Subs,            \* subscriptions, each made once
    ChannelOf,       \* the channel a subscription is made to
    Msgs,            \* messages, each published once
    Buffer,          \* subBuffer: what a subscriber's channel holds
    MaxLosses        \* bound: losses of the Redis connection

ASSUME ChannelsGiven == ChannelOf \in [Subs -> Channels]
ASSUME BufferHolds == Buffer \in Nat \ {0}

VARIABLES
    subs,     \* the table: the subscribers of each channel
    chan,     \* the Go channel of each subscription
    box,      \* what is buffered in it
    phase,    \* of the dispatcher
    wire,     \* commands written to the connection, not yet executed
    listed,   \* the channels Redis sends to the connection
    inbox,    \* messages sent on the connection, not yet received
    fan,      \* the message the consume loop is sending, and to whom still
    full,     \* messages dropped on a full channel
    losses    \* losses of the connection so far

tableVars == <<subs, chan, phase>>
redisVars == <<wire, listed, losses>>
dispatcherVars == <<subs, chan, box, phase, wire, listed, inbox, fan, full, losses>>

Command == [op : {"sub", "unsub"}, on : SUBSET Channels]
Message == [on : Channels, msg : Msgs]
Nobody == [to |-> {}]

DispatcherTypeOK ==
    /\ subs \in [Channels -> SUBSET Subs]
    /\ chan \in [Subs -> {"none", "open", "closed"}]
    /\ \A s \in Subs : box[s] \in Seq(Msgs) /\ Len(box[s]) <= Buffer
    /\ phase \in {"open", "closing", "closed"}
    /\ wire \in Seq(Command)
    /\ listed \subseteq Channels
    /\ inbox \in Seq(Message)
    /\ fan = Nobody \/ fan \in [msg : Msgs, to : SUBSET Subs]
    /\ full \subseteq Subs \X Msgs
    /\ losses \in 0..MaxLosses

DispatcherInit ==
    /\ subs = [ch \in Channels |-> {}]
    /\ chan = [s \in Subs |-> "none"]
    /\ box = [s \in Subs |-> <<>>]
    /\ phase = "open"
    /\ wire = <<>>
    /\ listed = {}
    /\ inbox = <<>>
    /\ fan = Nobody
    /\ full = {}
    /\ losses = 0

-----------------------------------------------------------------------------
(* Subscribers *)

Write(op, channels) == Append(wire, [op |-> op, on |-> channels])

\* The first subscriber of a channel writes SUBSCRIBE; its confirmation is not
\* waited for.
Subscribe(s) ==
    LET ch == ChannelOf[s] IN
    /\ chan[s] = "none"
    /\ phase = "open"
    /\ subs' = [subs EXCEPT ![ch] = @ \cup {s}]
    /\ chan' = [chan EXCEPT ![s] = "open"]
    /\ wire' = IF subs[ch] = {} THEN Write("sub", {ch}) ELSE wire
    /\ UNCHANGED <<box, phase, listed, inbox, fan, full, losses>>

\* Mutant: UNSUBSCRIBE whoever is left.
LeaveAlways(s, ch) == Write("unsub", {ch})

Leave(s, ch) == IF subs[ch] = {s} THEN Write("unsub", {ch}) ELSE wire

\* The cancel function: takes the subscriber out, closes its channel, and
\* leaves the Redis channel with the last one, all under the lock.
remove(s) ==
    LET ch == ChannelOf[s] IN
    /\ s \in subs[ch]
    /\ subs' = [subs EXCEPT ![ch] = @ \ {s}]
    /\ chan' = [chan EXCEPT ![s] = "closed"]
    /\ wire' = IF phase = "open" THEN Leave(s, ch) ELSE wire
    /\ UNCHANGED <<phase, listed, inbox, fan, full, losses>>

Cancel(s) == remove(s) /\ UNCHANGED box

\* The same, when nobody reads the channel any more.
Abandon(s) == remove(s) /\ box' = [box EXCEPT ![s] = <<>>]

\* What is buffered in a closed channel can still be received.
Receive(s) ==
    /\ box[s] # <<>>
    /\ box' = [box EXCEPT ![s] = Tail(@)]
    /\ UNCHANGED <<tableVars, redisVars, inbox, fan, full>>

-----------------------------------------------------------------------------
(* The consume loop *)

Waiting == fan = Nobody

Take ==
    /\ Waiting /\ inbox # <<>>
    /\ LET to == subs[Head(inbox).on]
       IN  fan' = IF to = {} THEN Nobody ELSE [msg |-> Head(inbox).msg, to |-> to]
    /\ inbox' = Tail(inbox)
    /\ UNCHANGED <<tableVars, redisVars, box, full>>

\* Mutant: the send waits for room.
RoomAwaited(s) ==
    /\ chan[s] = "open" => Len(box[s]) < Buffer
    /\ box' = [box EXCEPT ![s] = IF chan[s] = "open" THEN Append(@, fan.msg) ELSE @]
    /\ UNCHANGED full

\* Mutant: a send that does not look at the closed flag.
SendBlind(s) ==
    IF Len(box[s]) < Buffer
    THEN box' = [box EXCEPT ![s] = Append(@, fan.msg)] /\ UNCHANGED full
    ELSE full' = full \cup {<<s, fan.msg>>} /\ UNCHANGED box

\* trySend: nothing to a closed channel, and a full one drops the message.
TrySend(s) ==
    CASE chan[s] = "closed" -> UNCHANGED <<box, full>>
      [] chan[s] = "open" /\ Len(box[s]) < Buffer ->
            box' = [box EXCEPT ![s] = Append(@, fan.msg)] /\ UNCHANGED full
      [] OTHER -> full' = full \cup {<<s, fan.msg>>} /\ UNCHANGED box

Send ==
    /\ ~Waiting
    /\ \E s \in fan.to :
          /\ TrySend(s)
          /\ fan' = IF fan.to = {s} THEN Nobody ELSE [fan EXCEPT !.to = @ \ {s}]
    /\ UNCHANGED <<tableVars, redisVars, inbox>>

\* Mutant: the table is cleared and its channels left open.
TableCleared ==
    /\ phase = "closing" /\ Waiting /\ inbox = <<>>
    /\ phase' = "closed"
    /\ subs' = [ch \in Channels |-> {}]
    /\ UNCHANGED <<chan, redisVars, box, inbox, fan, full>>

\* The loop ends when the connection is closed and drained.
CloseAll ==
    /\ phase = "closing" /\ Waiting /\ inbox = <<>>
    /\ phase' = "closed"
    /\ chan' = [s \in Subs |-> IF s \in subs[ChannelOf[s]] THEN "closed" ELSE chan[s]]
    /\ subs' = [ch \in Channels |-> {}]
    /\ UNCHANGED <<redisVars, box, inbox, fan, full>>

Consume == Take \/ Send \/ CloseAll

\* What the client had read of the connection is kept, the rest is gone.
Cut == \E n \in 0..Len(inbox) : inbox' = SubSeq(inbox, 1, n)

\* Close: no subscription from here on, and the connection is given up.
Close ==
    /\ phase = "open"
    /\ phase' = "closing"
    /\ wire' = <<>>
    /\ listed' = {}
    /\ Cut
    /\ UNCHANGED <<subs, chan, box, fan, full, losses>>

-----------------------------------------------------------------------------
(* Redis and its client *)

Execute(cmd, channels) ==
    IF cmd.op = "sub" THEN channels \cup cmd.on ELSE channels \ cmd.on

RedisExecutes ==
    /\ wire # <<>>
    /\ listed' = Execute(Head(wire), listed)
    /\ wire' = Tail(wire)
    /\ UNCHANGED <<tableVars, box, inbox, fan, full, losses>>

\* go-redis connects again and subscribes to what the table has; what was
\* published meanwhile, or was under way, is gone.
ConnectionLost ==
    /\ phase = "open" /\ losses < MaxLosses
    /\ losses' = losses + 1
    /\ listed' = {}
    /\ wire' = <<[op |-> "sub", on |-> {ch \in Channels : subs[ch] # {}}]>>
    /\ Cut
    /\ UNCHANGED <<tableVars, box, fan, full>>

\* PUBLISH, from any client of Redis.
Sent(ch, m) == IF ch \in listed THEN Append(inbox, [on |-> ch, msg |-> m]) ELSE inbox

-----------------------------------------------------------------------------
(* Properties *)

\* A goroutine never sends on a channel that was closed (in Go, a panic that
\* takes the process down), though the consume loop sends to targets it copied
\* before they were cancelled; and a closed channel stays closed.
StaysClosed ==
    \A s \in Subs : chan[s] = "closed" =>
        chan'[s] = "closed" /\ Len(box'[s]) <= Len(box[s])

\* A subscriber in the table has its Redis channel on the connection once the
\* commands written are executed, in whatever order channels were left and
\* joined: no subscriber is left deaf by another's cancel.
SubscribersListed ==
    phase = "open" =>
        LET later == FoldLeft(LAMBDA on, cmd : Execute(cmd, on), listed, wire)
        IN  \A ch \in Channels : subs[ch] # {} <=> ch \in later

\* After Close nobody is left waiting on a channel that nothing will close,
\* whatever subscribed or cancelled meanwhile.
ClosedWakesAll == phase = "closed" => \A s \in Subs : chan[s] # "open"

\* The consume loop has a message to deliver still.
InHand(m) == (\E i \in DOMAIN inbox : inbox[i].msg = m) \/ (~Waiting /\ fan.msg = m)
=============================================================================
