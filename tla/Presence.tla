------------------------------- MODULE Presence -------------------------------
(***************************************************************************)
(* The visitor count: the page's sockets and, for each, the handler of     *)
(* go-backend/internal/handler/ws_handler.go that serves it.  All sockets  *)
(* carry one visitor id; the handlers share its member of the Redis set    *)
(* and its field of the reference counts, one command at a time.           *)
(***************************************************************************)
EXTENDS WebSocketManager, Integers, FiniteSets

ASSUME SomeSockets == Sockets # {} /\ IsFiniteSet(Sockets)

VARIABLES
    conn,      \* what the handler of each socket is doing
    said,      \* the sockets the visitor id was sent on
    member,    \* the visitor is in the set
    refs,      \* its reference count
    leaked     \* history: a handler gave up with the visitor registered by it

serverVars == <<conn, said, member, refs, leaked>>
vars == <<mgr, asks, breaks, conn, said, member, refs, leaked>>

Steps == {"none", "hello", "adding", "greeting", "serving", "leaving",
          "removing", "dropping", "gone"}

TypeOK ==
    /\ ManagerTypeOK
    /\ conn \in [Sockets -> Steps]
    /\ said \subseteq Sockets
    /\ member \in BOOLEAN /\ leaked \in BOOLEAN
    /\ refs \in Int

\* The hook connects as soon as it is mounted.
Init ==
    /\ mgr = Connected(NewManager, CHOOSE s \in Sockets : TRUE)
    /\ asks = 0 /\ breaks = 0
    /\ conn = [s \in Sockets |-> "none"]
    /\ said = {}
    /\ member = FALSE /\ refs = 0 /\ leaked = FALSE

-----------------------------------------------------------------------------
(* The page *)

\* A socket object is used again once both ends are done with it; which of
\* several is all the same.
Idle(s) == mgr.ready[s] = "closed" /\ s # mgr.ws /\ conn[s] = "none"
Fresh ==
    LET idle == {s \in Sockets : Idle(s)} IN
    IF idle = {} THEN {} ELSE {CHOOSE s \in idle : TRUE}

Page(A) == A /\ UNCHANGED serverVars

\* The handshake is answered: onopen sends the visitor id on this.ws.
Opened(s) ==
    /\ mgr.ready[s] = "connecting"
    /\ conn[s] # "none"
    /\ mgr' = OnOpen(mgr, s)
    /\ said' = IF mgr'.ready[mgr.ws] = "open" THEN said \cup {mgr.ws} ELSE said
    /\ UNCHANGED <<asks, breaks, conn, member, refs, leaked>>

\* Served, and no more: the context that the handler's reads had is cancelled.
Cancelled(s) == conn[s] \in {"leaving", "removing", "dropping", "gone"}

\* 1000 is the code of the server, whose handler is done; 1005 answers close()
\* of an open socket, and 1006 is every connection that failed - or that the
\* library has dropped, because the context of a pending read was cancelled.
SocketEnds(s) ==
    /\ mgr.ready[s] # "closed"
    /\ \/ mgr.ready[s] = "closing" /\ mgr' = Ended(mgr, s, 1006) /\ UNCHANGED breaks
       \/ mgr.ready[s] = "closing" /\ mgr' = Ended(mgr, s, 1005) /\ UNCHANGED breaks
       \/ conn[s] = "gone" /\ mgr' = Ended(mgr, s, 1000) /\ UNCHANGED breaks
       \/ Cancelled(s) /\ mgr' = Ended(mgr, s, 1006) /\ UNCHANGED breaks
       \/ Break /\ mgr' = Ended(mgr, s, 1006)
    /\ UNCHANGED <<asks, conn, said, member, refs, leaked>>

-----------------------------------------------------------------------------
(* The handler of a socket *)

ClientGone(s) == mgr.ready[s] \in {"closing", "closed"}

\* A handler is stopped by its client, or by a fault of Redis or the network.
Unreachable(s) == (ClientGone(s) /\ UNCHANGED breaks) \/ Break

Goes(s, from, to) == conn[s] = from /\ conn' = [conn EXCEPT ![s] = to]

Accept(s) ==
    /\ mgr.ready[s] = "connecting"
    /\ Goes(s, "none", "hello")
    /\ UNCHANGED <<mgr, asks, breaks, said, member, refs, leaked>>

\* The first message does not come within ten seconds, or not at all.
HelloFails(s) ==
    /\ Unreachable(s)
    /\ Goes(s, "hello", "gone")
    /\ UNCHANGED <<mgr, asks, said, member, refs, leaked>>

\* addVisitor: SADD and HINCRBY of one pipeline, which is no transaction.
AddMember(s) ==
    /\ s \in said
    /\ Goes(s, "hello", "adding")
    /\ member' = TRUE
    /\ UNCHANGED <<mgr, asks, breaks, said, refs, leaked>>

AddRef(s) ==
    /\ Goes(s, "adding", "greeting")
    /\ refs' = refs + 1
    /\ UNCHANGED <<mgr, asks, breaks, said, member, leaked>>

\* HandleFirstMessage broadcasts the count and answers with it.
Greet(s) ==
    /\ Goes(s, "greeting", "serving")
    /\ UNCHANGED <<mgr, asks, breaks, said, member, refs, leaked>>

\* A fault of Redis, or a client that is gone when it is greeted: HandleWS
\* returns at once, and what it has registered stays.
GivesUp(s) ==
    /\ \/ conn[s] = "greeting" /\ Unreachable(s)
       \/ conn[s] \in {"adding", "leaving", "removing", "dropping"} /\ Break
    /\ conn' = [conn EXCEPT ![s] = "gone"]
    /\ leaked' = TRUE
    /\ UNCHANGED <<mgr, asks, said, member, refs>>

\* Listener or receiver ends, and the other with it.
ServeEnds(s) ==
    /\ Unreachable(s)
    /\ Goes(s, "serving", "leaving")
    /\ UNCHANGED <<mgr, asks, said, member, refs, leaked>>

\* Mutant: a negative count is not cleaned up.
CleanupAtZero(remaining) == remaining = 0

shouldCleanupVisitor(remaining) == remaining <= 0

\* RemoveVisitor: HINCRBY, and at zero SREM and HDEL, as three commands.
RemoveRef(s) ==
    /\ \/ shouldCleanupVisitor(refs - 1) /\ Goes(s, "leaving", "removing")
       \/ ~shouldCleanupVisitor(refs - 1) /\ Goes(s, "leaving", "gone")
    /\ refs' = refs - 1
    /\ UNCHANGED <<mgr, asks, breaks, said, member, leaked>>

RemoveMember(s) ==
    /\ Goes(s, "removing", "dropping")
    /\ member' = FALSE
    /\ UNCHANGED <<mgr, asks, breaks, said, refs, leaked>>

DropRef(s) ==
    /\ Goes(s, "dropping", "gone")
    /\ refs' = 0
    /\ UNCHANGED <<mgr, asks, breaks, said, member, leaked>>

\* HandleWS has returned and the page's end is closed: the object is free.
Forget(s) ==
    /\ mgr.ready[s] = "closed"
    /\ Goes(s, "gone", "none")
    /\ said' = said \ {s}
    /\ UNCHANGED <<mgr, asks, breaks, member, refs, leaked>>

-----------------------------------------------------------------------------
Handler(s) ==
    \/ AddMember(s) \/ AddRef(s) \/ Greet(s) \/ GivesUp(s) \/ ServeEnds(s)
    \/ HelloFails(s) \/ RemoveRef(s) \/ RemoveMember(s) \/ DropRef(s) \/ Forget(s)

Next ==
    \/ Page(TimerFires(Fresh)) \/ Page(Online(Fresh)) \/ Page(Visible(Fresh))
    \/ Page(ReconnectWs(Fresh)) \/ Page(BeforeUnload) \/ Page(Unmount)
    \/ \E s \in Sockets : Accept(s) \/ Opened(s) \/ SocketEnds(s) \/ Handler(s)

Spec == Init /\ [][Next]_vars

\* Timeouts fire, the network answers, handlers run.
Fairness ==
    /\ WF_vars(Page(TimerFires(Fresh)))
    /\ \A s \in Sockets :
          /\ WF_vars(Accept(s)) /\ WF_vars(Opened(s))
          /\ WF_vars(SocketEnds(s)) /\ WF_vars(Handler(s))

LiveSpec == Spec /\ Fairness

-----------------------------------------------------------------------------
(* Properties *)

\* When no handler serves the visitor any more, it is neither in the set nor
\* counted, in whatever order handlers that register and handlers that clean up
\* have run their commands - unless one gave up in the middle.
NobodyLeftNobodyCounted ==
    (\A s \in Sockets : conn[s] \in {"none", "hello", "gone"}) /\ ~leaked
        => ~member /\ refs = 0

\* Once the page and the network are quiet, the page is connected, or it was
\* told to leave, or the server has said goodbye with 1000.
EventuallyConnected ==
    <>[](mgr.isConnected \/ mgr.dismissed \/ (mgr.ws = NoSocket /\ ~mgr.timer))
=============================================================================
