--------------------------- MODULE WebSocketManager ---------------------------
(***************************************************************************)
(* packages/utils/src/websocket.ts and the hooks that drive it: the one    *)
(* WebSocket of a page, replaced on every connect().  A replaced socket    *)
(* still has events to come; which handlers they find is what connect()    *)
(* and disconnect() left on it.  Methods and events run one at a time on   *)
(* the page's thread, so each is a function of the manager's state.        *)
(***************************************************************************)
EXTENDS Naturals

CONSTANTS
    Sockets,         \* WebSocket objects; one that is done is used again
    NoSocket,
    MaxAsks,         \* bound: events of the page (online, visible, leave ...)
    MaxBreaks        \* bound: failures of the network, the browser, the server

ASSUME NoSocketApart == NoSocket \notin Sockets

VARIABLES
    mgr,      \* the manager and its sockets
    asks,     \* events of the page so far
    breaks    \* failures so far

\* timer: this.reconnectTimer is pending; strays: pending timeouts whose id it
\* no longer holds (counted up to one); dismissed: onclose last saw 1000.
Manager ==
    [ws : Sockets \cup {NoSocket},
     ready : [Sockets -> {"connecting", "open", "closing", "closed"}],
     hooks : [Sockets -> SUBSET {"close", "error"}],
     timer : BOOLEAN, strays : 0..1, pinging : BOOLEAN, isConnected : BOOLEAN,
     dismissed : BOOLEAN, mounted : BOOLEAN]

ManagerTypeOK == mgr \in Manager /\ asks \in 0..MaxAsks /\ breaks \in 0..MaxBreaks

NewManager ==
    [ws |-> NoSocket, ready |-> [s \in Sockets |-> "closed"],
     hooks |-> [s \in Sockets |-> {}], timer |-> FALSE, strays |-> 0,
     pinging |-> FALSE, isConnected |-> FALSE, dismissed |-> FALSE,
     mounted |-> TRUE]

Ask == asks < MaxAsks /\ asks' = asks + 1
Break == breaks < MaxBreaks /\ breaks' = breaks + 1

-----------------------------------------------------------------------------
(* The methods *)

\* WebSocket.close(): what was not closed is closing.
Closing(m, s) ==
    IF s \in Sockets /\ m.ready[s] # "closed"
    THEN [m EXCEPT !.ready[s] = "closing"] ELSE m

Without(m, names) ==
    IF m.ws \in Sockets THEN [m EXCEPT !.hooks[m.ws] = @ \ names] ELSE m

\* scheduleReconnect() overwrites the id it holds.
Scheduled(m) ==
    [m EXCEPT !.strays = IF m.timer THEN 1 ELSE @, !.timer = TRUE]

\* Mutant: the old socket keeps its handlers.
ReplacedKept(m) == [Closing(m, m.ws) EXCEPT !.timer = FALSE, !.pinging = FALSE]

\* connect() up to the constructor: the pending timeout and the handlers of the
\* old socket go.
Replaced(m) ==
    [Closing(Without(m, {"close", "error"}), m.ws) EXCEPT !.timer = FALSE, !.pinging = FALSE]

\* connect(), when the constructor returns s.
Connected(m, s) ==
    [Replaced(m) EXCEPT !.ws = s, !.ready[s] = "connecting",
                        !.hooks[s] = {"close", "error"}, !.dismissed = FALSE]

\* disconnect() takes only onclose off.
Disconnected(m) ==
    [Closing(Without(m, {"close"}), m.ws) EXCEPT !.ws = NoSocket,
        !.timer = FALSE, !.pinging = FALSE, !.isConnected = FALSE]

\* onopen
OnOpen(m, s) ==
    [m EXCEPT !.ready[s] = "open", !.isConnected = TRUE, !.pinging = TRUE]

\* onerror closes the socket the manager has now, whichever failed.
OnError(m, s) ==
    IF "error" \in m.hooks[s] THEN Closing(m, m.ws) ELSE m

\* Mutant: a reconnect only after an abnormal closure.
OnCloseAbnormal(m, s, code) ==
    IF "close" \notin m.hooks[s] THEN m
    ELSE LET n == [m EXCEPT !.isConnected = FALSE, !.pinging = FALSE] IN
         IF code # 1006 THEN n ELSE Scheduled(n)

\* onclose
OnClose(m, s, code) ==
    IF "close" \notin m.hooks[s] THEN m
    ELSE LET n == [m EXCEPT !.isConnected = FALSE, !.pinging = FALSE] IN
         IF code = 1000 THEN [n EXCEPT !.dismissed = TRUE] ELSE Scheduled(n)

\* A socket ends: the browser fires error, if it failed, and close in one turn.
Ended(m, s, code) ==
    LET closed == [m EXCEPT !.ready[s] = "closed"] IN
    OnClose(IF code = 1006 THEN OnError(closed, s) ELSE closed, s, code)

-----------------------------------------------------------------------------
(* Events of the page.  Fresh is the set of sockets the constructor may      *)
(* return; it may throw instead, and the old socket stays this.ws.           *)

Connect(m, Fresh) ==
    \/ \E s \in Fresh : mgr' = Connected(m, s) /\ UNCHANGED breaks
    \/ Break /\ mgr' = Scheduled([Replaced(m) EXCEPT !.dismissed = FALSE])

TimerFires(Fresh) ==
    \/ mgr.timer /\ Connect([mgr EXCEPT !.timer = FALSE], Fresh) /\ UNCHANGED asks
    \/ mgr.strays > 0 /\ Connect([mgr EXCEPT !.strays = 0], Fresh) /\ UNCHANGED asks

\* "online"; "visible" when not connected.
Online(Fresh) == mgr.mounted /\ Ask /\ Connect(mgr, Fresh)
Visible(Fresh) ==
    mgr.mounted /\ ~mgr.isConnected /\ Ask /\ Connect(mgr, Fresh)

\* reconnectWs(), after a login, a logout or a restored session.
ReconnectWs(Fresh) == mgr.mounted /\ Ask /\ Connect(Disconnected(mgr), Fresh)

\* "beforeunload"; the page may stay, and its listeners with it.
BeforeUnload ==
    mgr.mounted /\ Ask /\ mgr' = Disconnected(mgr) /\ UNCHANGED breaks

\* The cleanup of the React effect.
Unmount ==
    /\ mgr.mounted
    /\ Ask
    /\ mgr' = [Disconnected(mgr) EXCEPT !.mounted = FALSE]
    /\ UNCHANGED breaks

-----------------------------------------------------------------------------
(* Properties *)

\* A socket that can still make the manager reconnect is the manager's own, no
\* timeout is pending that connect() and disconnect() could not clear, pings
\* are sent only while connected, and a page that was left has nothing under
\* way: replaced sockets and old timeouts leave nothing behind.
OneLiveSocket ==
    /\ \A s \in Sockets :
          mgr.ready[s] # "closed" /\ "close" \in mgr.hooks[s] => s = mgr.ws
    /\ mgr.strays = 0
    /\ mgr.pinging => mgr.isConnected
    /\ ~mgr.mounted =>
          /\ ~mgr.timer
          /\ \A s \in Sockets : mgr.ready[s] \in {"closing", "closed"}
=============================================================================
