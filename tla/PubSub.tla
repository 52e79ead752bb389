-------------------------------- MODULE PubSub --------------------------------
(***************************************************************************)
(* The dispatcher with clients of every kind: subscribers that join, leave *)
(* and read when they like, and publishers anywhere in the system.         *)
(***************************************************************************)
EXTENDS Dispatcher

VARIABLE unsent     \* messages nobody has published yet

pubVars == <<subs, chan, box, phase, wire, listed, inbox, fan, full, losses, unsent>>

PubSubTypeOK == DispatcherTypeOK /\ unsent \subseteq Msgs

PubSubInit == DispatcherInit /\ unsent = Msgs

Publish(ch, m) ==
    /\ m \in unsent
    /\ unsent' = unsent \ {m}
    /\ inbox' = Sent(ch, m)
    /\ UNCHANGED <<tableVars, redisVars, box, fan, full>>

PubSubNext ==
    \/ \E s \in Subs : (Subscribe(s) \/ Cancel(s) \/ Receive(s)) /\ UNCHANGED unsent
    \/ (Consume \/ Close \/ RedisExecutes \/ ConnectionLost) /\ UNCHANGED unsent
    \/ \E ch \in Channels, m \in Msgs : Publish(ch, m)

\* The consume loop is a goroutine of its own; no reader is assumed to read.
PubSubSpec == PubSubInit /\ [][PubSubNext]_pubVars
PubSubLiveSpec == PubSubSpec /\ WF_pubVars(Consume /\ UNCHANGED unsent)

-----------------------------------------------------------------------------
(* Properties *)

\* The consume loop never sends on a channel that was closed after it copied
\* its targets, and what is closed stays closed.
NothingAfterClose == [][StaysClosed]_pubVars

\* The consume loop finishes with every message, although subscribers never
\* read: a slow one does not hold up the others.
NeverBlocked == []<>(\A m \in Msgs : ~InHand(m))
=============================================================================
