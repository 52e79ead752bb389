------------------------------ MODULE MCRealtime ------------------------------
(***************************************************************************)
(* What goes over WebSockets and Redis channels: the visitor count, the    *)
(* dispatcher with clients of every kind, and the queue of one device; and *)
(* the polls of the course page.  They share no state and are checked one  *)
(* at a time: part is chosen once, and only that part moves.               *)
(***************************************************************************)
EXTENDS Presence, PubSub, CoursePage, TLC

CONSTANTS e1, e2       \* envelopes

VARIABLES
    part,
    dSubs, dChan, dBox, dPhase, dWire, dListed,             \* the dispatcher of
    dInbox, dFan, dFull, dLosses,                           \* the device's queue
    queue, push, pushes, expired, loop, back, shown,        \* SyncBus
    acking, recent, acked, unlisted

\* Two subscribers of a channel and one of another.
ChannelOfSubs == "s1" :> "c1" @@ "s2" :> "c1" @@ "s3" :> "c2"

\* The second envelope is the first, pushed again in another second.
Device == INSTANCE SyncBus WITH
    Channels <- {"d1"}, Subs <- {"c1"}, ChannelOf <- ("c1" :> "d1"),
    Msgs <- {e1, e2}, To <- (e1 :> "d1" @@ e2 :> "d1"), Expiring <- {e1},
    IdOf <- (e1 :> "id" @@ e2 :> "id"), Buffer <- 1, QueueCap <- 2, MaxPushes <- 2, MaxLosses <- 0,
    subs <- dSubs, chan <- dChan, box <- dBox, phase <- dPhase, wire <- dWire,
    listed <- dListed, inbox <- dInbox, fan <- dFan, full <- dFull, losses <- dLosses

deviceVars == <<queue, push, pushes, expired, loop, back, shown, acking, recent,
                acked, unlisted>>
queueVars == <<dSubs, dChan, dBox, dPhase, dWire, dListed, dInbox, dFan, dFull, dLosses,
               deviceVars>>
allVars == <<part, vars, pubVars, queueVars, courseVars>>

RealtimeInit ==
    /\ part \in {"presence", "bus", "device", "course"}
    /\ Init
    /\ PubSubInit
    /\ Device!Init
    /\ CoursePageInit /\ (part # "course" => page.is = "list")

Moves(p) == part = p /\ UNCHANGED part

RealtimeNext ==
    \/ Moves("presence") /\ Next /\ UNCHANGED <<pubVars, queueVars, courseVars>>
    \/ Moves("bus") /\ PubSubNext /\ UNCHANGED <<vars, queueVars, courseVars>>
    \/ Moves("device") /\ Device!Next /\ UNCHANGED <<vars, pubVars, courseVars>>
    \/ Moves("course") /\ CoursePageNext /\ UNCHANGED <<vars, pubVars, queueVars>>

\* The fairness of the parts' own LiveSpecs, of the part that moves.
RealtimeFairness ==
    /\ WF_vars(part = "presence" /\ Page(TimerFires(Fresh)))
    /\ \A s \in Sockets :
          /\ WF_vars(part = "presence" /\ Accept(s))
          /\ WF_vars(part = "presence" /\ Opened(s))
          /\ WF_vars(part = "presence" /\ SocketEnds(s))
          /\ WF_vars(part = "presence" /\ Handler(s))
    /\ WF_pubVars(part = "bus" /\ Consume /\ UNCHANGED unsent)
    /\ WF_queueVars(part = "device" /\ (Device!Take \/ Device!Send) /\ UNCHANGED deviceVars)
    /\ WF_queueVars(part = "device" /\ Device!RedisExecutes /\ UNCHANGED deviceVars)
    /\ WF_queueVars(part = "device" /\ Device!DeliveryLoop("c1"))
    /\ \A i \in Runs : WF_courseVars(part = "course" /\ Tick(i))

RealtimeSpec == RealtimeInit /\ [][RealtimeNext]_allVars /\ RealtimeFairness

-----------------------------------------------------------------------------
(* The properties of the parts *)

\* Presence: once all is quiet the page is connected, or was told not to be.
PageConnects == part = "presence" => EventuallyConnected

\* SyncBus: what was pushed is written to a connection that stays.
EventuallyShown == part = "device" => Device!EventuallyShown
=============================================================================
