---------------------------- MODULE RealtimeProofs ----------------------------
(***************************************************************************)
(* Theorems about what goes over WebSockets and Redis channels: presence,  *)
(* for any number of sockets, page events and failures, and the            *)
(* dispatcher, for any channels, subscriptions, messages, size of the      *)
(* buffers and number of lost connections.                                 *)
(***************************************************************************)
EXTENDS Presence, PubSub, SetSums

-----------------------------------------------------------------------------
(* The manager: each method and event keeps Sane.                            *)

\* A socket whose end would still reach onclose of the manager.
Live(m, s) == m.ready[s] # "closed" /\ "close" \in m.hooks[s]

\* OneLiveSocket, and what it rests on: a socket that was replaced is closing,
\* and a timeout is pending only when no socket would schedule another.
Sane(m) ==
    /\ m \in Manager
    /\ \A s \in Sockets : Live(m, s) => s = m.ws /\ ~m.timer
    /\ \A s \in Sockets : s # m.ws => m.ready[s] \in {"closing", "closed"}
    /\ m.strays = 0
    /\ m.pinging => m.isConnected
    /\ ~m.mounted => m.ws = NoSocket /\ ~m.timer

\* No socket is left that would schedule anything.
Still(m) == \A s \in Sockets : ~Live(m, s)

\* The fields that Without and Closing leave alone.
SameFlags(m, n) ==
    /\ n.ws = m.ws /\ n.timer = m.timer /\ n.strays = m.strays
    /\ n.pinging = m.pinging /\ n.isConnected = m.isConnected
    /\ n.dismissed = m.dismissed /\ n.mounted = m.mounted

\* Without takes handlers off the manager's socket and does nothing else.
LEMMA WithoutType ==
    ASSUME NEW m \in Manager, NEW names
    PROVE  /\ Without(m, names) \in Manager
           /\ SameFlags(m, Without(m, names))
           /\ \A s \in Sockets :
                 /\ Without(m, names).ready[s] = m.ready[s]
                 /\ Without(m, names).hooks[s] =
                       IF s = m.ws THEN m.hooks[s] \ names ELSE m.hooks[s]
<1>1. CASE m.ws \in Sockets
  BY <1>1 DEF Without, Manager, SameFlags
<1>2. CASE m.ws \notin Sockets
  BY <1>2 DEF Without, Manager, SameFlags
<1> QED
  BY <1>1, <1>2

\* Closing leaves the state of one socket other than before, at most.
LEMMA ClosingType ==
    ASSUME NEW m \in Manager, NEW t
    PROVE  /\ Closing(m, t) \in Manager
           /\ SameFlags(m, Closing(m, t))
           /\ \A s \in Sockets :
                 /\ Closing(m, t).hooks[s] = m.hooks[s]
                 /\ Closing(m, t).ready[s] =
                       IF s = t /\ m.ready[s] # "closed" THEN "closing" ELSE m.ready[s]
<1>1. CASE t \in Sockets /\ m.ready[t] # "closed"
  BY <1>1 DEF Closing, Manager, SameFlags
<1>2. CASE ~(t \in Sockets /\ m.ready[t] # "closed")
  BY <1>2 DEF Closing, Manager, SameFlags
<1> QED
  BY <1>1, <1>2

\* connect() and disconnect() both begin so: the socket is given up.
LEMMA GivenUp ==
    ASSUME NEW m, Sane(m), NEW names, "close" \in names,
           NEW n, n = Closing(Without(m, names), m.ws)
    PROVE  /\ n \in Manager /\ SameFlags(m, n) /\ Still(n)
           /\ \A s \in Sockets : n.ready[s] \in {"closing", "closed"}
<1> DEFINE w == Without(m, names)
<1>1. m \in Manager
  BY DEF Sane
<1>2. /\ w \in Manager /\ SameFlags(m, w)
      /\ \A s \in Sockets : /\ w.ready[s] = m.ready[s]
                            /\ w.hooks[s] = IF s = m.ws THEN m.hooks[s] \ names ELSE m.hooks[s]
  BY <1>1, WithoutType
<1>3. /\ n \in Manager /\ SameFlags(w, n)
      /\ \A s \in Sockets :
            /\ n.hooks[s] = w.hooks[s]
            /\ n.ready[s] = IF s = m.ws /\ w.ready[s] # "closed" THEN "closing" ELSE w.ready[s]
  BY <1>2, ClosingType
<1> HIDE DEF w
<1>4. SameFlags(m, n)
  BY <1>2, <1>3 DEF SameFlags
<1>5. ASSUME NEW s \in Sockets PROVE ~Live(n, s) /\ n.ready[s] \in {"closing", "closed"}
  <2>1. CASE s = m.ws
    BY <1>2, <1>3, <2>1 DEF Live
  <2>2. CASE s # m.ws
    <3>1. ~Live(m, s) /\ m.ready[s] \in {"closing", "closed"}
      BY <2>2 DEF Sane
    <3>2. n.ready[s] = m.ready[s] /\ n.hooks[s] = m.hooks[s]
      BY <1>2, <1>3, <2>2
    <3> QED
      BY <3>1, <3>2 DEF Live
  <2> QED
    BY <2>1, <2>2
<1> QED
  BY <1>3, <1>4, <1>5 DEF Still

LEMMA ReplacedSane ==
    ASSUME NEW m, Sane(m)
    PROVE  /\ Sane(Replaced(m)) /\ Still(Replaced(m))
           /\ Replaced(m).timer = FALSE /\ Replaced(m).pinging = FALSE
           /\ Replaced(m).mounted = m.mounted /\ Replaced(m).ws = m.ws
           /\ \A s \in Sockets : Replaced(m).ready[s] \in {"closing", "closed"}
<1> DEFINE n == Closing(Without(m, {"close", "error"}), m.ws)
<1>1. Without(m, {"close", "error"}).ws = m.ws
  BY WithoutType DEF SameFlags, Sane
<1>2. /\ n \in Manager /\ SameFlags(m, n) /\ Still(n)
      /\ \A s \in Sockets : n.ready[s] \in {"closing", "closed"}
  BY GivenUp
<1> HIDE DEF n
<1>3. Replaced(m) = [n EXCEPT !.timer = FALSE, !.pinging = FALSE]
  BY <1>1 DEF Replaced, n
<1> QED
  BY <1>2, <1>3 DEF Sane, SameFlags, Still, Live, Manager

LEMMA ConnectedSane ==
    ASSUME NEW m, Sane(m), m.mounted, NEW s \in Sockets, s # m.ws
    PROVE  Sane(Connected(m, s))
<1> DEFINE n == Replaced(m)
<1>1. /\ Sane(n) /\ Still(n) /\ n.timer = FALSE /\ n.pinging = FALSE /\ n.mounted
      /\ \A t \in Sockets : n.ready[t] \in {"closing", "closed"}
  BY ReplacedSane
<1> HIDE DEF n
<1>2. Connected(m, s) = [n EXCEPT !.ws = s, !.ready[s] = "connecting",
                                  !.hooks[s] = {"close", "error"}, !.dismissed = FALSE]
  BY DEF Connected, n
<1>3. n \in Manager
  BY <1>1 DEF Sane
<1> DEFINE ready == [n.ready EXCEPT ![s] = "connecting"]
           hooks == [n.hooks EXCEPT ![s] = {"close", "error"}]
           c == [n EXCEPT !.ws = s, !.ready = ready, !.hooks = hooks, !.dismissed = FALSE]
<1>a. Connected(m, s) = c
  BY <1>2
<1>b. ready \in [Sockets -> {"connecting", "open", "closing", "closed"}]
      /\ \A t \in Sockets : t # s => ready[t] = n.ready[t]
  BY <1>3 DEF Manager
<1>c. hooks \in [Sockets -> SUBSET {"close", "error"}]
      /\ \A t \in Sockets : t # s => hooks[t] = n.hooks[t]
  BY <1>3 DEF Manager
<1> HIDE DEF ready, hooks
<1>d. c \in Manager
  BY <1>3, <1>b, <1>c DEF Manager
<1>e. /\ c.ws = s /\ c.ready = ready /\ c.hooks = hooks /\ c.timer = n.timer
      /\ c.strays = n.strays /\ c.pinging = n.pinging /\ c.mounted = n.mounted
  BY <1>3 DEF Manager
<1>4. /\ c \in Manager /\ c.ws = s /\ ~c.timer /\ c.strays = n.strays
      /\ ~c.pinging /\ c.mounted
      /\ \A t \in Sockets : t # s => c.ready[t] = n.ready[t] /\ c.hooks[t] = n.hooks[t]
  BY <1>1, <1>b, <1>c, <1>d, <1>e
<1> HIDE DEF c
<1>5. ASSUME NEW t \in Sockets, t # s PROVE ~Live(c, t) /\ c.ready[t] \in {"closing", "closed"}
  BY <1>1, <1>4, <1>5 DEF Still, Live
<1>6. Sane(c)
  BY <1>1, <1>4, <1>5 DEF Sane
<1> QED
  BY <1>6, <1>a

LEMMA ScheduledSane ==
    ASSUME NEW m, Sane(m), Still(m), m.mounted, m.timer = FALSE
    PROVE  Sane(Scheduled(m))
BY DEF Scheduled, Sane, Still, Live, Manager

LEMMA DisconnectedSane ==
    ASSUME NEW m, Sane(m)
    PROVE  /\ Sane(Disconnected(m)) /\ Disconnected(m).mounted = m.mounted
           /\ Disconnected(m).ws = NoSocket /\ ~Disconnected(m).timer
           /\ Still(Disconnected(m))
<1> DEFINE n == Closing(Without(m, {"close"}), m.ws)
<1>2. /\ n \in Manager /\ SameFlags(m, n) /\ Still(n)
      /\ \A s \in Sockets : n.ready[s] \in {"closing", "closed"}
  BY GivenUp
<1> HIDE DEF n
<1>3. Disconnected(m) = [n EXCEPT !.ws = NoSocket, !.timer = FALSE, !.pinging = FALSE,
                                  !.isConnected = FALSE]
  BY DEF Disconnected, n
<1> QED
  BY <1>2, <1>3, NoSocketApart DEF Sane, SameFlags, Still, Live, Manager

LEMMA OnOpenSane ==
    ASSUME NEW m, Sane(m), NEW s \in Sockets, m.ready[s] = "connecting"
    PROVE  Sane(OnOpen(m, s))
BY DEF OnOpen, Sane, Live, Manager

LEMMA EndedSane ==
    ASSUME NEW m, Sane(m), NEW s \in Sockets, m.ready[s] # "closed", NEW code
    PROVE  Sane(Ended(m, s, code))
<1> DEFINE closed == [m EXCEPT !.ready[s] = "closed"]
           n == IF code = 1006 THEN OnError(closed, s) ELSE closed
<1>1. Sane(closed) /\ closed.hooks = m.hooks /\ closed.ws = m.ws /\ closed.timer = m.timer
      /\ closed.mounted = m.mounted /\ closed.ready[s] = "closed"
  BY DEF Sane, Live, Manager
<1> HIDE DEF closed
<1>2. /\ Sane(n) /\ n.hooks[s] = m.hooks[s] /\ n.ready[s] = "closed"
      /\ n.ws = m.ws /\ n.timer = m.timer /\ n.mounted = m.mounted
  <2>1. /\ Closing(closed, closed.ws) \in Manager
        /\ SameFlags(closed, Closing(closed, closed.ws))
        /\ \A t \in Sockets :
              /\ Closing(closed, closed.ws).hooks[t] = closed.hooks[t]
              /\ Closing(closed, closed.ws).ready[t] =
                    IF t = closed.ws /\ closed.ready[t] # "closed" THEN "closing"
                    ELSE closed.ready[t]
    BY <1>1, ClosingType DEF Sane
  <2>2. Sane(Closing(closed, closed.ws))
    BY <1>1, <2>1 DEF Sane, Live, SameFlags
  <2> QED
    BY <1>1, <2>1, <2>2 DEF OnError, SameFlags
<1> HIDE DEF n
<1>3. Ended(m, s, code) = OnClose(n, s, code)
  BY DEF Ended, n, closed
<1>4. CASE "close" \notin n.hooks[s]
  BY <1>2, <1>3, <1>4 DEF OnClose
<1>5. CASE "close" \in n.hooks[s]
  <2> DEFINE q == [n EXCEPT !.isConnected = FALSE, !.pinging = FALSE]
  <2>1. Live(m, s)
    BY <1>2, <1>5 DEF Live
  <2>2. s = m.ws /\ ~m.timer
    BY <2>1 DEF Sane
  <2>3. Sane(q) /\ Still(q) /\ q.timer = FALSE /\ q.mounted
    BY <1>2, <2>2, NoSocketApart DEF Sane, Still, Live, Manager
  <2> HIDE DEF q
  <2>4. Sane([q EXCEPT !.dismissed = TRUE])
    BY <2>3 DEF Sane, Live, Manager
  <2>5. Sane(Scheduled(q))
    BY <2>3, ScheduledSane
  <2> QED
    BY <1>3, <1>5, <2>4, <2>5 DEF OnClose, q
<1> QED
  BY <1>4, <1>5

\* connect() with a socket object that is not the manager's, or without one.
LEMMA ConnectSane ==
    ASSUME NEW m, Sane(m), m.mounted, NEW F \in SUBSET Sockets, m.ws \notin F,
           Connect(m, F)
    PROVE  Sane(mgr')
<1>1. CASE \E s \in F : mgr' = Connected(m, s)
  BY <1>1, ConnectedSane
<1>2. CASE mgr' = Scheduled([Replaced(m) EXCEPT !.dismissed = FALSE])
  <2> DEFINE n == Replaced(m)
             q == [n EXCEPT !.dismissed = FALSE]
  <2>1. Sane(n) /\ Still(n) /\ n.timer = FALSE /\ n.mounted
    BY ReplacedSane
  <2> HIDE DEF n
  <2>2. Sane(q) /\ Still(q) /\ q.timer = FALSE /\ q.mounted
    BY <2>1 DEF Sane, Still, Live, Manager
  <2> HIDE DEF q
  <2>3. Sane(Scheduled(q))
    BY <2>2, ScheduledSane
  <2> QED
    BY <1>2, <2>3 DEF q, n
<1> QED
  BY <1>1, <1>2 DEF Connect

LEMMA NewManagerSane == Sane(NewManager) /\ NewManager.mounted /\ NewManager.ws = NoSocket
BY DEF Sane, Live, NewManager, Manager

LEMMA FreshIsNotOurs == Fresh \in SUBSET Sockets /\ mgr.ws \notin Fresh
<1> DEFINE idle == {s \in Sockets : Idle(s)}
<1>1. CASE idle = {}
  BY <1>1 DEF Fresh
<1>2. CASE idle # {}
  <2>1. (CHOOSE s \in idle : TRUE) \in idle
    BY <1>2
  <2> QED
    BY <1>2, <2>1 DEF Fresh, Idle
<1> QED
  BY <1>1, <1>2

LEMMA InitSane == Init => Sane(mgr)
<1> SUFFICES ASSUME Init PROVE Sane(mgr)
  OBVIOUS
<1>1. PICK s \in Sockets : mgr = Connected(NewManager, s)
  BY SomeSockets DEF Init
<1>2. s # NewManager.ws
  BY NewManagerSane, NoSocketApart
<1> QED
  BY <1>1, <1>2, NewManagerSane, ConnectedSane

LEMMA PageKeepsSane ==
    ASSUME Sane(mgr),
           TimerFires(Fresh) \/ Online(Fresh) \/ Visible(Fresh)
              \/ ReconnectWs(Fresh) \/ BeforeUnload \/ Unmount
    PROVE  Sane(mgr')
<1> USE FreshIsNotOurs
<1> DEFINE d == Disconnected(mgr)
<1>d. Sane(d) /\ d.mounted = mgr.mounted /\ d.ws = NoSocket /\ ~d.timer
  BY DisconnectedSane
<1> HIDE DEF d
<1>1. CASE TimerFires(Fresh)
  <2> DEFINE m == [mgr EXCEPT !.timer = FALSE]
  <2>1. mgr.timer /\ Connect(m, Fresh)
    BY <1>1 DEF TimerFires, Sane
  <2>2. Sane(m) /\ m.mounted /\ m.ws = mgr.ws
    BY <2>1 DEF Sane, Live, Manager
  <2> HIDE DEF m
  <2> QED
    BY <2>1, <2>2, ConnectSane
<1>2. CASE Online(Fresh) \/ Visible(Fresh)
  BY <1>2, ConnectSane DEF Online, Visible
<1>3. CASE ReconnectWs(Fresh)
  <2>1. mgr.mounted /\ Connect(d, Fresh)
    BY <1>3 DEF ReconnectWs, d
  <2>2. d.ws \notin Fresh
    BY <1>d, NoSocketApart
  <2> QED
    BY <1>d, <2>1, <2>2, ConnectSane
<1>4. CASE BeforeUnload
  BY <1>4, <1>d DEF BeforeUnload, d
<1>5. CASE Unmount
  <2>1. mgr' = [d EXCEPT !.mounted = FALSE]
    BY <1>5 DEF Unmount, d
  <2> QED
    BY <1>d, <2>1 DEF Sane, Live, Manager
<1> QED
  BY <1>1, <1>2, <1>3, <1>4, <1>5

\* Every step keeps the manager sane.
LEMMA NextSane == Sane(mgr) /\ [Next]_vars => Sane(mgr)'
<1> SUFFICES ASSUME Sane(mgr), [Next]_vars PROVE Sane(mgr')
  OBVIOUS
<1>1. CASE UNCHANGED vars
  BY <1>1 DEF vars
<1>2. CASE Next
  <2>1. CASE \E s \in Sockets : Opened(s)
    BY <2>1, OnOpenSane DEF Opened
  <2>2. CASE \E s \in Sockets : SocketEnds(s)
    BY <2>2, EndedSane DEF SocketEnds
  <2>3. CASE \E s \in Sockets : Accept(s) \/ Handler(s)
    BY <2>3 DEF Accept, Handler, AddMember, AddRef, Greet, GivesUp, ServeEnds,
                HelloFails, RemoveRef, RemoveMember, DropRef, Forget
  <2>4. CASE TimerFires(Fresh) \/ Online(Fresh) \/ Visible(Fresh)
                \/ ReconnectWs(Fresh) \/ BeforeUnload \/ Unmount
    BY <2>4, PageKeepsSane
  <2> QED
    BY <1>2, <2>1, <2>2, <2>3, <2>4 DEF Next, Page
<1> QED
  BY <1>1, <1>2

\* WebSocketManager: whatever the page asks and whatever fails, no socket that
\* was replaced and no timeout that was overwritten can reconnect behind the
\* manager's back, and a page that was left has nothing under way.
THEOREM OneLive == Spec => []OneLiveSocket
<1>1. Sane(mgr) => OneLiveSocket
  BY NoSocketApart DEF Sane, Live, OneLiveSocket
<1> QED
  BY InitSane, NextSane, <1>1, PTL DEF Spec

-----------------------------------------------------------------------------
(* The handlers of the visitor's sockets.                                    *)

\* The sockets whose handlers have counted the visitor and not yet uncounted it.
Counting(c) == {s \in Sockets : c[s] \in {"greeting", "serving", "leaving"}}

\* As long as no handler has given up: every reference is held by a handler, and
\* where the visitor is registered or counted, a handler has yet to end that.
Held ==
    /\ refs <= Cardinality(Counting(conn))
    /\ refs # 0 => \E s \in Sockets :
          conn[s] \in {"greeting", "serving", "leaving", "removing", "dropping"}
    /\ member => \E s \in Sockets :
          conn[s] \in {"adding", "greeting", "serving", "leaving", "removing"}

CountInv ==
    /\ conn \in [Sockets -> Steps]
    /\ refs \in Int
    /\ ~leaked => Held

LEMMA CountingSize ==
    ASSUME NEW c
    PROVE  IsFiniteSet(Counting(c)) /\ Cardinality(Counting(c)) \in Nat
BY SomeSockets, FS_Subset, FS_CardinalityType DEF Counting

LEMMA CountInit == Init => CountInv
<1> SUFFICES ASSUME Init PROVE CountInv
  OBVIOUS
<1>1. conn \in [Sockets -> Steps] /\ refs = 0 /\ ~member
  BY DEF Init, Steps
<1> QED
  BY <1>1, CountingSize DEF CountInv, Held

\* Counting moves by at most the socket whose handler takes a step.
LEMMA CountingMoves ==
    ASSUME conn \in [Sockets -> Steps], NEW s \in Sockets,
           NEW from, NEW to \in Steps, Goes(s, from, to)
    PROVE  /\ conn' \in [Sockets -> Steps] /\ conn[s] = from /\ conn'[s] = to
           /\ \A t \in Sockets : t # s => conn'[t] = conn[t]
           /\ Cardinality(Counting(conn')) = Cardinality(Counting(conn))
                 + (IF to \in {"greeting", "serving", "leaving"} THEN 1 ELSE 0)
                 - (IF from \in {"greeting", "serving", "leaving"} THEN 1 ELSE 0)
<1>1. /\ conn' \in [Sockets -> Steps] /\ conn[s] = from /\ conn'[s] = to
      /\ \A t \in Sockets : t # s => conn'[t] = conn[t]
  BY DEF Goes
<1> DEFINE in(x) == x \in {"greeting", "serving", "leaving"}
<1>2. s \in Counting(conn) <=> in(from)
  BY <1>1 DEF Counting
<1>f. IsFiniteSet(Counting(conn)) /\ Cardinality(Counting(conn)) \in Nat
  BY CountingSize
<1>3. CASE in(to)
  <2>1. Counting(conn') = Counting(conn) \cup {s}
    BY <1>1, <1>3 DEF Counting
  <2>2. Cardinality(Counting(conn) \cup {s}) =
           IF s \in Counting(conn) THEN Cardinality(Counting(conn))
           ELSE Cardinality(Counting(conn)) + 1
    BY <1>f, FS_AddElement
  <2> QED
    BY <1>1, <1>2, <1>3, <1>f, <2>1, <2>2
<1>4. CASE ~in(to)
  <2>1. Counting(conn') = Counting(conn) \ {s}
    BY <1>1, <1>4 DEF Counting
  <2>2. Cardinality(Counting(conn) \ {s}) =
           IF s \in Counting(conn) THEN Cardinality(Counting(conn)) - 1
           ELSE Cardinality(Counting(conn))
    BY <1>f, FS_RemoveElement
  <2> QED
    BY <1>1, <1>2, <1>4, <1>f, <2>1, <2>2
<1> QED
  BY <1>3, <1>4

\* One step per action of a handler; the page's actions leave the counts alone.
LEMMA CountNext == CountInv /\ [Next]_vars => CountInv'
<1> SUFFICES ASSUME CountInv, [Next]_vars PROVE CountInv'
  OBVIOUS
<1> USE DEF CountInv
<1>s. /\ Cardinality(Counting(conn)) \in Nat
      /\ \A c : Cardinality(Counting(c)) \in Nat
      /\ \A c : Cardinality(Counting(c)) > 0 =>
            \E s \in Sockets : c[s] \in {"greeting", "serving", "leaving"}
  <2>1. ASSUME NEW c, Cardinality(Counting(c)) > 0 PROVE Counting(c) # {}
    BY <2>1, FS_EmptySet
  <2> QED
    BY <2>1, CountingSize DEF Counting
<1>1. CASE UNCHANGED <<conn, member, refs, leaked>>
  BY <1>1 DEF Held, Counting
<1>2. ASSUME NEW s \in Sockets, AddMember(s) PROVE CountInv'
  BY <1>2, <1>s, CountingMoves DEF AddMember, Held, Steps
<1>3. ASSUME NEW s \in Sockets, AddRef(s) PROVE CountInv'
  BY <1>3, <1>s, CountingMoves DEF AddRef, Held, Steps
<1>4. ASSUME NEW s \in Sockets,
             \/ Goes(s, "greeting", "serving") \/ Goes(s, "serving", "leaving"),
             UNCHANGED <<member, refs, leaked>>
      PROVE  CountInv'
  BY <1>4, <1>s, CountingMoves DEF Held, Steps
<1>5. ASSUME NEW s \in Sockets,
             \/ Goes(s, "none", "hello") \/ Goes(s, "hello", "gone")
             \/ Goes(s, "gone", "none"),
             UNCHANGED <<member, refs, leaked>>
      PROVE  CountInv'
  BY <1>5, <1>s, CountingMoves DEF Held, Steps
<1>6. ASSUME NEW s \in Sockets, GivesUp(s) PROVE CountInv'
  BY <1>6 DEF GivesUp, Steps
<1>7. ASSUME NEW s \in Sockets, RemoveRef(s) PROVE CountInv'
  <2>1. CASE Goes(s, "leaving", "removing")
    BY <1>7, <2>1, <1>s, CountingMoves DEF RemoveRef, Held, Steps
  <2>2. CASE Goes(s, "leaving", "gone") /\ ~shouldCleanupVisitor(refs - 1)
    <3>1. /\ conn' \in [Sockets -> Steps] /\ refs' = refs - 1 /\ refs' > 0
          /\ Cardinality(Counting(conn')) = Cardinality(Counting(conn)) - 1
          /\ UNCHANGED leaked
      BY <1>7, <2>2, <1>s, CountingMoves DEF RemoveRef, Steps, shouldCleanupVisitor
    <3>2. ASSUME ~leaked PROVE /\ refs' <= Cardinality(Counting(conn'))
                               /\ Cardinality(Counting(conn')) > 0
      BY <3>1, <3>2, <1>s DEF Held
    <3> QED
      BY <3>1, <3>2, <1>s DEF Held
  <2> QED
    BY <1>7, <2>1, <2>2 DEF RemoveRef
<1>8. ASSUME NEW s \in Sockets, RemoveMember(s) PROVE CountInv'
  BY <1>8, <1>s, CountingMoves DEF RemoveMember, Held, Steps
<1>9. ASSUME NEW s \in Sockets, DropRef(s) PROVE CountInv'
  BY <1>9, <1>s, CountingMoves DEF DropRef, Held, Steps
<1>a. ASSUME NEW s \in Sockets, Handler(s) \/ Accept(s) PROVE CountInv'
  BY <1>a, <1>2, <1>3, <1>4, <1>5, <1>6, <1>7, <1>8, <1>9
     DEF Handler, Accept, Greet, ServeEnds, HelloFails, Forget
<1>b. ASSUME Next, ~\E s \in Sockets : Handler(s) \/ Accept(s)
      PROVE  UNCHANGED <<conn, member, refs, leaked>>
  BY <1>b DEF Next, Page, serverVars, Opened, SocketEnds
<1> QED
  BY <1>1, <1>a, <1>b DEF vars

\* Presence: when the last handler of a visitor is done and none gave up in the
\* middle, the visitor is neither in the set nor counted, however the commands of
\* the handlers that register and of those that clean up were interleaved.
THEOREM NobodyCounted == Spec => []NobodyLeftNobodyCounted
<1>1. CountInv => NobodyLeftNobodyCounted
  BY DEF CountInv, Held, NobodyLeftNobodyCounted
<1> QED
  BY CountInit, CountNext, <1>1, PTL DEF Spec

-----------------------------------------------------------------------------
(* The dispatcher *)

\* The table and the Go channels agree: what is open is in the table, and the
\* table of a closed dispatcher is empty.
TableInv ==
    /\ subs \in [Channels -> SUBSET Subs]
    /\ chan \in [Subs -> {"none", "open", "closed"}]
    /\ \A s \in Subs : chan[s] = "open" => s \in subs[ChannelOf[s]]
    /\ phase = "closed" => \A ch \in Channels : subs[ch] = {}

\* What is buffered and under way are messages.
BoxInv ==
    /\ box \in [Subs -> Seq(Msgs)]
    /\ inbox \in Seq(Message)
    /\ ~Waiting => fan.msg \in Msgs /\ fan.to \subseteq Subs

Inv == TableInv /\ BoxInv

LEMMA InitInv == PubSubInit => Inv
BY ChannelsGiven DEF PubSubInit, DispatcherInit, Inv, TableInv, BoxInv, Waiting, Nobody

LEMMA CutKeeps == ASSUME inbox \in Seq(Message), Cut PROVE inbox' \in Seq(Message)
BY DEF Cut

LEMMA NextTableInv == TableInv /\ [PubSubNext]_pubVars => TableInv'
<1> SUFFICES ASSUME TableInv, [PubSubNext]_pubVars PROVE TableInv'
  OBVIOUS
<1> USE ChannelsGiven DEF TableInv
<1>1. ASSUME NEW s \in Subs, Subscribe(s) PROVE TableInv'
  BY <1>1 DEF Subscribe
<1>2. ASSUME NEW s \in Subs, Cancel(s) PROVE TableInv'
  BY <1>2 DEF Cancel, remove
<1>3. CASE CloseAll
  BY <1>3 DEF CloseAll
<1>4. CASE Close
  BY <1>4 DEF Close
<1>5. CASE UNCHANGED tableVars
  BY <1>5 DEF tableVars
<1>6. ASSUME PubSubNext, ~UNCHANGED tableVars
      PROVE  (\E s \in Subs : Subscribe(s) \/ Cancel(s)) \/ CloseAll \/ Close
  BY <1>6 DEF PubSubNext, Consume, Receive, Take, Send, RedisExecutes, ConnectionLost, Publish
<1> QED
  BY <1>1, <1>2, <1>3, <1>4, <1>5, <1>6 DEF pubVars, tableVars

LEMMA NextBoxInv == BoxInv /\ TableInv /\ [PubSubNext]_pubVars => BoxInv'
<1> SUFFICES ASSUME BoxInv, TableInv, [PubSubNext]_pubVars PROVE BoxInv'
  OBVIOUS
<1>1. CASE UNCHANGED <<box, inbox, fan>>
  BY <1>1 DEF BoxInv, Waiting
<1>2. ASSUME NEW s \in Subs, Receive(s) PROVE BoxInv'
  <2>1. Tail(box[s]) \in Seq(Msgs)
    BY <1>2 DEF Receive, BoxInv
  <2> QED
    BY <1>2, <2>1 DEF Receive, BoxInv, Waiting
<1>3. CASE Take
  <2>1. Head(inbox) \in Message /\ Tail(inbox) \in Seq(Message)
    BY <1>3 DEF Take, BoxInv
  <2>2. subs[Head(inbox).on] \subseteq Subs /\ Head(inbox).msg \in Msgs
    BY <2>1 DEF Message, TableInv
  <2> QED
    BY <1>3, <2>1, <2>2 DEF Take, BoxInv, Waiting, Nobody
<1>4. CASE Send
  <2>1. PICK s \in fan.to :
           TrySend(s) /\ fan' = IF fan.to = {s} THEN Nobody ELSE [fan EXCEPT !.to = @ \ {s}]
    BY <1>4 DEF Send
  <2>2. fan.msg \in Msgs /\ fan.to \subseteq Subs /\ s \in Subs
    BY <1>4, <2>1 DEF Send, BoxInv
  <2>3. box' \in [Subs -> Seq(Msgs)]
    <3>1. box \in [Subs -> Seq(Msgs)] /\ Append(box[s], fan.msg) \in Seq(Msgs)
      BY <2>2 DEF BoxInv
    <3>2. box' = box \/ box' = [box EXCEPT ![s] = Append(box[s], fan.msg)]
      BY <2>1 DEF TrySend
    <3> QED
      BY <3>1, <3>2
  <2>4. inbox' = inbox
    BY <1>4 DEF Send
  <2>5. fan' # Nobody => fan'.msg \in Msgs /\ fan'.to \subseteq Subs
    <3> DEFINE rest == [fan EXCEPT !.to = @ \ {s}]
    <3>1. rest.msg = fan.msg /\ rest.to \subseteq Subs
      BY <2>2
    <3> QED
      BY <2>1, <2>2, <3>1
  <2> QED
    BY <2>3, <2>4, <2>5 DEF BoxInv, Waiting
<1>5. CASE Close \/ ConnectionLost
  <2>1. Cut /\ UNCHANGED <<box, fan>>
    BY <1>5 DEF Close, ConnectionLost
  <2> QED
    BY <2>1, CutKeeps DEF BoxInv, Waiting
<1>6. ASSUME NEW ch \in Channels, NEW m \in Msgs, Publish(ch, m) PROVE BoxInv'
  <2>1. [on |-> ch, msg |-> m] \in Message
    BY DEF Message
  <2>2. inbox \in Seq(Message)
    BY DEF BoxInv
  <2>3. inbox' \in Seq(Message)
    BY <1>6, <2>1, <2>2 DEF Publish, Sent
  <2> QED
    BY <1>6, <2>3 DEF Publish, BoxInv, Waiting
<1>7. ASSUME PubSubNext, ~UNCHANGED <<box, inbox, fan>>
      PROVE  \/ \E s \in Subs : Receive(s)
             \/ Take \/ Send \/ Close \/ ConnectionLost
             \/ \E ch \in Channels, m \in Msgs : Publish(ch, m)
  BY <1>7 DEF PubSubNext, Consume, Subscribe, Cancel, remove, CloseAll, RedisExecutes
<1> QED
  BY <1>1, <1>2, <1>3, <1>4, <1>5, <1>6, <1>7 DEF pubVars

LEMMA NextInv == Inv /\ [PubSubNext]_pubVars => Inv'
BY NextTableInv, NextBoxInv DEF Inv

\* Dispatcher: when Close is through, every channel that was ever handed to a
\* subscriber is closed, whatever subscribed or cancelled meanwhile.
THEOREM CloseWakesAll == PubSubSpec => []ClosedWakesAll
<1>1. Inv => ClosedWakesAll
  BY ChannelsGiven DEF Inv, TableInv, ClosedWakesAll
<1> QED
  BY InitInv, NextInv, <1>1, PTL DEF PubSubSpec

\* Dispatcher: the consume loop sends to targets it copied before they were
\* cancelled and never on a channel that was closed meanwhile; and a channel that
\* was closed stays closed.
THEOREM ClosedStays == PubSubSpec => NothingAfterClose
<1>1. Inv /\ [PubSubNext]_pubVars => [StaysClosed]_pubVars
  <2> SUFFICES ASSUME Inv, PubSubNext, NEW t \in Subs, chan[t] = "closed"
               PROVE  chan'[t] = "closed" /\ Len(box'[t]) <= Len(box[t])
    BY DEF StaysClosed
  <2> USE DEF Inv, TableInv, BoxInv
  <2>1. CASE UNCHANGED <<chan, box>>
    BY <2>1
  <2>2. ASSUME NEW s \in Subs, Subscribe(s) \/ Cancel(s)
        PROVE  chan'[t] = "closed" /\ box' = box
    BY <2>2 DEF Subscribe, Cancel, remove
  <2>3. CASE CloseAll
    BY <2>3 DEF CloseAll
  <2>4. ASSUME NEW s \in Subs, Receive(s)
        PROVE  chan' = chan /\ Len(box'[t]) <= Len(box[t])
    <3>1. Len(Tail(box[s])) <= Len(box[s])
      BY <2>4 DEF Receive
    <3> QED
      BY <2>4, <3>1 DEF Receive, tableVars
  <2>5. CASE Send
    <3>1. PICK s \in fan.to : TrySend(s)
      BY <2>5 DEF Send
    <3>2. box'[t] = box[t]
      BY <3>1 DEF TrySend
    <3> QED
      BY <2>5, <3>2 DEF Send, tableVars
  <2>6. ~UNCHANGED <<chan, box>> =>
           (\E s \in Subs : Subscribe(s) \/ Cancel(s) \/ Receive(s)) \/ Send \/ CloseAll
    BY DEF PubSubNext, Consume, Take, Close, RedisExecutes, ConnectionLost, Publish,
           tableVars, redisVars
  <2> QED
    BY <2>1, <2>2, <2>3, <2>4, <2>5, <2>6
<1> QED
  BY InitInv, NextInv, <1>1, PTL DEF PubSubSpec, NothingAfterClose

-----------------------------------------------------------------------------
(* What is listed once the wire is executed.  FoldLeft is a recursive        *)
(* function over the subsets of the positions, taken apart at the greatest;  *)
(* it is shown to be what is reached step by step.                           *)

Later(on, cmds) == FoldLeft(LAMBDA listing, cmd : Execute(cmd, listing), on, cmds)

\* What it means for g to hold what the commands at given positions leave
\* listed, at all or at most n of them.
Folds(g, on, cmds) ==
    g = [s \in SUBSET DOMAIN cmds |->
            IF s = {} THEN on ELSE Execute(cmds[Top(s)], g[s \ {Top(s)}])]
FoldsUpTo(g, on, cmds, n) ==
    \A s \in SUBSET DOMAIN cmds : Cardinality(s) <= n =>
        g[s] = IF s = {} THEN on ELSE Execute(cmds[Top(s)], g[s \ {Top(s)}])

LEMMA FoldsExist ==
    ASSUME NEW cmds, NEW n \in Nat, DOMAIN cmds = 1..n, NEW on PROVE \E g : Folds(g, on, cmds)
<1> DEFINE S == DOMAIN cmds
           G == {m \in Nat : \E g : g = [s \in SUBSET S |-> g[s]] /\ FoldsUpTo(g, on, cmds, m)}
<1>1. 0 \in G
  <2> DEFINE g == [s \in SUBSET S |-> on]
  <2>1. FoldsUpTo(g, on, cmds, 0)
    <3>1. ASSUME NEW s \in SUBSET S, Cardinality(s) <= 0 PROVE s = {}
      <4>1. Cardinality(s) \in Nat /\ (s = {} <=> Cardinality(s) = 0)
        BY TopOut
      <4> QED
        BY <3>1, <4>1
    <3> QED
      BY <3>1 DEF FoldsUpTo
  <2>2. g = [s \in SUBSET S |-> g[s]]
    OBVIOUS
  <2> QED
    BY <2>1, <2>2
<1>2. ASSUME NEW m \in Nat, m \in G PROVE m + 1 \in G
  <2>1. PICK g : FoldsUpTo(g, on, cmds, m)
    BY <1>2
  <2> DEFINE h == [s \in SUBSET S |-> IF Cardinality(s) <= m THEN g[s]
                                      ELSE Execute(cmds[Top(s)], g[s \ {Top(s)}])]
  <2>2. ASSUME NEW s \in SUBSET S, Cardinality(s) <= m + 1
        PROVE  h[s] = IF s = {} THEN on ELSE Execute(cmds[Top(s)], h[s \ {Top(s)}])
    <3>1. CASE s = {}
      <4>1. Cardinality(s) <= m
        BY <3>1, FS_EmptySet
      <4> QED
        BY <2>1, <3>1, <4>1 DEF FoldsUpTo
    <3>2. CASE s # {}
      <4>1. s \ {Top(s)} \in SUBSET S /\ Cardinality(s \ {Top(s)}) <= m
        BY <2>2, <3>2, TopOut
      <4>2. h[s \ {Top(s)}] = g[s \ {Top(s)}]
        BY <4>1
      <4>3. h[s] = Execute(cmds[Top(s)], g[s \ {Top(s)}])
        <5>1. CASE Cardinality(s) <= m
          BY <2>1, <3>2, <5>1 DEF FoldsUpTo
        <5>2. CASE ~(Cardinality(s) <= m)
          BY <5>2
        <5> QED
          BY <5>1, <5>2
      <4> HIDE DEF h
      <4> QED
        BY <3>2, <4>2, <4>3
    <3> QED
      BY <3>1, <3>2
  <2>3. h = [s \in SUBSET S |-> h[s]]
    OBVIOUS
  <2> HIDE DEF h
  <2>4. FoldsUpTo(h, on, cmds, m + 1)
    BY <2>2 DEF FoldsUpTo
  <2> QED
    BY <2>3, <2>4
<1>3. n \in G
  <2> HIDE DEF G
  <2> QED
    BY <1>1, <1>2, NatSetInduction
<1>4. PICK g : g = [s \in SUBSET S |-> g[s]] /\ FoldsUpTo(g, on, cmds, n)
  BY <1>3
<1>5. \A s \in SUBSET S :
         g[s] = IF s = {} THEN on ELSE Execute(cmds[Top(s)], g[s \ {Top(s)}])
  BY <1>4, TopOut DEF FoldsUpTo
<1> QED
  BY <1>4, <1>5 DEF Folds

\* What is listed after each command, one after the other.
Listings(h, on, cmds) ==
    /\ h[0] = on
    /\ \A i \in 1..Len(cmds) : h[i] = Execute(cmds[i], h[i - 1])

LEMMA LaterListings ==
    ASSUME NEW S, NEW cmds \in Seq(S), NEW on
    PROVE  \E h : Listings(h, on, cmds) /\ Later(on, cmds) = h[Len(cmds)]
<1> DEFINE n == Len(cmds)
           g == CHOOSE g : Folds(g, on, cmds)
           h == [i \in 0..n |-> g[1..i]]
<1>1. n \in Nat /\ DOMAIN cmds = 1..n
  OBVIOUS
<1>2. Later(on, cmds) = g[DOMAIN cmds]
  BY DEF Later, FoldLeft, MapThenFoldSet, Folds, Top
<1>3. Folds(g, on, cmds)
  BY <1>1, FoldsExist
<1> HIDE DEF g
<1>4. Later(on, cmds) = h[n]
  BY <1>1, <1>2
<1>5. h[0] = on
  <2>1. 1..0 = {} /\ {} \in SUBSET DOMAIN cmds
    OBVIOUS
  <2>2. g[{}] = on
    BY <1>3, <2>1 DEF Folds
  <2> QED
    BY <1>1, <2>1, <2>2
<1>6. ASSUME NEW i \in 1..n PROVE h[i] = Execute(cmds[i], h[i - 1])
  <2>1. 1..i \in SUBSET DOMAIN cmds /\ 1..i # {} /\ (1..i) \ {i} = 1..(i - 1) /\ i - 1 \in 0..n
    BY <1>1
  <2>2. Top(1..i) = i
    <3>1. Top(1..i) \in 1..i /\ \A y \in 1..i : Top(1..i) >= y
      <4>1. \E x \in 1..i : \A y \in 1..i : x >= y
        OBVIOUS
      <4> QED
        BY <4>1 DEF Top, Max
    <3> QED
      BY <3>1
  <2>3. g[1..i] = Execute(cmds[i], g[1..(i - 1)])
    BY <1>3, <2>1, <2>2 DEF Folds
  <2> QED
    BY <1>1, <2>1, <2>3
<1>7. Listings(h, on, cmds)
  BY <1>5, <1>6 DEF Listings
<1> HIDE DEF h
<1> QED
  BY <1>4, <1>7

LEMMA ListingsSame ==
    ASSUME NEW S, NEW cmds \in Seq(S), NEW on, NEW g, NEW h,
           Listings(g, on, cmds), Listings(h, on, cmds)
    PROVE  g[Len(cmds)] = h[Len(cmds)]
<1> DEFINE G == {m \in Nat : m <= Len(cmds) => g[m] = h[m]}
<1>1. 0 \in G
  BY DEF Listings
<1>2. ASSUME NEW m \in Nat, m \in G PROVE m + 1 \in G
  <2> SUFFICES ASSUME m + 1 <= Len(cmds) PROVE g[m + 1] = h[m + 1]
    OBVIOUS
  <2>1. m + 1 \in 1..Len(cmds) /\ (m + 1) - 1 = m /\ m <= Len(cmds)
    OBVIOUS
  <2>2. g[m] = h[m]
    BY <1>2, <2>1
  <2> QED
    BY <2>1, <2>2 DEF Listings
<1>3. Len(cmds) \in G
  <2> HIDE DEF G
  <2> QED
    BY <1>1, <1>2, NatSetInduction
<1> QED
  BY <1>3

\* One command is written, and one is executed.
LEMMA LaterWritten ==
    ASSUME NEW S, NEW cmds \in Seq(S), NEW cmd \in S, NEW on
    PROVE  Later(on, Append(cmds, cmd)) = Execute(cmd, Later(on, cmds))
<1> DEFINE more == Append(cmds, cmd)
           n == Len(cmds)
<1>1. /\ more \in Seq(S) /\ Len(more) = n + 1 /\ more[n + 1] = cmd /\ n \in Nat
      /\ \A i \in 1..n : more[i] = cmds[i]
  OBVIOUS
<1>2. PICK h : Listings(h, on, cmds) /\ Later(on, cmds) = h[n]
  BY LaterListings
<1>3. PICK g : Listings(g, on, more) /\ Later(on, more) = g[n + 1]
  <2> HIDE DEF more
  <2> QED
    BY <1>1, LaterListings
<1>4. Listings(g, on, cmds)
  <2> HIDE DEF more
  <2>1. \A i \in 1..n : i \in 1..Len(more)
    BY <1>1
  <2> QED
    BY <1>1, <1>3, <2>1 DEF Listings
<1>5. g[n] = h[n]
  BY <1>2, <1>4, ListingsSame
<1>6. g[n + 1] = Execute(cmd, g[n])
  <2> HIDE DEF more
  <2>1. n + 1 \in 1..Len(more) /\ (n + 1) - 1 = n
    BY <1>1
  <2> QED
    BY <1>1, <1>3, <2>1 DEF Listings
<1> QED
  BY <1>2, <1>3, <1>5, <1>6

LEMMA LaterExecuted ==
    ASSUME NEW S, NEW cmds \in Seq(S), cmds # <<>>, NEW on
    PROVE  Later(Execute(Head(cmds), on), Tail(cmds)) = Later(on, cmds)
<1> DEFINE rest == Tail(cmds)
           first == Execute(Head(cmds), on)
           n == Len(cmds)
<1>1. /\ rest \in Seq(S) /\ n \in Nat \ {0} /\ Len(rest) = n - 1 /\ Head(cmds) = cmds[1]
      /\ \A i \in 1..(n - 1) : rest[i] = cmds[i + 1]
  OBVIOUS
<1>2. PICK h : Listings(h, on, cmds) /\ Later(on, cmds) = h[n]
  BY LaterListings
<1>3. PICK g : Listings(g, first, rest) /\ Later(first, rest) = g[n - 1]
  <2> HIDE DEF rest, first
  <2> QED
    BY <1>1, LaterListings
<1> DEFINE k == [i \in 0..(n - 1) |-> h[i + 1]]
<1>4. Listings(k, first, rest)
  <2>1. k[0] = first
    <3>1. 1 \in 1..n /\ h[1] = Execute(cmds[1], h[1 - 1]) /\ 1 - 1 = 0 /\ h[0] = on
      BY <1>1, <1>2 DEF Listings
    <3>2. k[0] = h[1]
      BY <1>1
    <3> QED
      BY <1>1, <3>1, <3>2
  <2>2. ASSUME NEW i \in 1..(n - 1) PROVE k[i] = Execute(rest[i], k[i - 1])
    <3>1. i + 1 \in 1..n /\ (i + 1) - 1 = i /\ i - 1 \in 0..(n - 1) /\ (i - 1) + 1 = i
          /\ i \in 0..(n - 1)
      BY <1>1
    <3>2. h[i + 1] = Execute(cmds[i + 1], h[i])
      BY <1>2, <3>1 DEF Listings
    <3>3. k[i] = h[i + 1] /\ k[i - 1] = h[i] /\ rest[i] = cmds[i + 1]
      BY <1>1, <3>1
    <3> HIDE DEF k, rest
    <3> QED
      BY <3>2, <3>3
  <2> HIDE DEF k, rest, first
  <2> QED
    BY <1>1, <2>1, <2>2 DEF Listings
<1>5. g[n - 1] = k[n - 1]
  <2> HIDE DEF k, rest, first
  <2> QED
    BY <1>1, <1>3, <1>4, ListingsSame
<1>6. k[n - 1] = h[n]
  <2>1. n - 1 \in 0..(n - 1) /\ (n - 1) + 1 = n
    BY <1>1
  <2> QED
    BY <2>1
<1> QED
  BY <1>2, <1>3, <1>5, <1>6

LEMMA LaterNone == ASSUME NEW on PROVE Later(on, <<>>) = on
<1>1. <<>> \in Seq({}) /\ Len(<<>>) = 0
  OBVIOUS
<1>2. PICK h : Listings(h, on, <<>>) /\ Later(on, <<>>) = h[0]
  BY <1>1, LaterListings
<1> QED
  BY <1>2 DEF Listings

-----------------------------------------------------------------------------
(* The channels of the connection *)

\* The table tells what is listed, once what is on the wire is executed.
ListedInv ==
    /\ wire \in Seq(Command)
    /\ phase = "open" => \A ch \in Channels : subs[ch] # {} <=> ch \in Later(listed, wire)

LEMMA WireSteps ==
    ASSUME NEW cmds \in Seq(Command)
    PROVE  /\ \A cmd \in Command : Append(cmds, cmd) \in Seq(Command)
           /\ cmds # <<>> => Tail(cmds) \in Seq(Command)
OBVIOUS

LEMMA SubscribeListed ==
    ASSUME TableInv, ListedInv, NEW s \in Subs, Subscribe(s) PROVE ListedInv'
<1> DEFINE ch == ChannelOf[s]
           cmd == [op |-> "sub", on |-> {ch}]
<1>1. ch \in Channels /\ cmd \in Command
  BY ChannelsGiven DEF Command
<1>2. /\ subs' = [subs EXCEPT ![ch] = subs[ch] \cup {s}] /\ listed' = listed
      /\ phase = "open" /\ phase' = "open"
      /\ wire' = IF subs[ch] = {} THEN Append(wire, cmd) ELSE wire
  BY DEF Subscribe, Write
<1>3. \A c \in Channels : subs'[c] # {} <=> c = ch \/ subs[c] # {}
  BY <1>1, <1>2 DEF TableInv
<1>4. wire \in Seq(Command)
  BY DEF ListedInv
<1>5. CASE subs[ch] = {}
  <2>1. Later(listed, Append(wire, cmd)) = Execute(cmd, Later(listed, wire))
    BY <1>1, <1>4, LaterWritten
  <2>2. Execute(cmd, Later(listed, wire)) = Later(listed, wire) \cup {ch}
    BY DEF Execute
  <2>3. Append(wire, cmd) \in Seq(Command)
    BY <1>1, <1>4, WireSteps
  <2> HIDE DEF cmd, ch
  <2> QED
    BY <1>2, <1>3, <1>5, <2>1, <2>2, <2>3 DEF ListedInv
<1>6. CASE subs[ch] # {}
  BY <1>2, <1>3, <1>6 DEF ListedInv
<1> QED
  BY <1>5, <1>6

LEMMA CancelListed ==
    ASSUME TableInv, ListedInv, NEW s \in Subs, Cancel(s) PROVE ListedInv'
<1> DEFINE ch == ChannelOf[s]
           cmd == [op |-> "unsub", on |-> {ch}]
<1>1. ch \in Channels /\ cmd \in Command
  BY ChannelsGiven DEF Command
<1>2. /\ subs' = [subs EXCEPT ![ch] = subs[ch] \ {s}] /\ listed' = listed /\ phase' = phase
      /\ wire' = IF phase = "open" /\ subs[ch] = {s} THEN Append(wire, cmd) ELSE wire
  BY DEF Cancel, remove, Leave, Write
<1>3. \A c \in Channels : subs'[c] # {} <=> subs[c] # {} /\ ~(c = ch /\ subs[c] = {s})
  <2>1. s \in subs[ch]
    BY DEF Cancel, remove
  <2> QED
    BY <1>1, <1>2, <2>1 DEF TableInv
<1>4. wire \in Seq(Command)
  BY DEF ListedInv
<1>5. CASE phase = "open" /\ subs[ch] = {s}
  <2>1. Later(listed, Append(wire, cmd)) = Execute(cmd, Later(listed, wire))
    BY <1>1, <1>4, LaterWritten
  <2>2. Execute(cmd, Later(listed, wire)) = Later(listed, wire) \ {ch}
    BY DEF Execute
  <2>3. Append(wire, cmd) \in Seq(Command)
    BY <1>1, <1>4, WireSteps
  <2> HIDE DEF cmd, ch
  <2> QED
    BY <1>2, <1>3, <1>5, <2>1, <2>2, <2>3 DEF ListedInv
<1>6. CASE ~(phase = "open" /\ subs[ch] = {s})
  BY <1>2, <1>3, <1>6 DEF ListedInv
<1> QED
  BY <1>5, <1>6

\* A new connection lists the channels of the table.
LEMMA LostListed ==
    ASSUME TableInv, ListedInv, ConnectionLost PROVE ListedInv'
<1> DEFINE cmd == [op |-> "sub", on |-> {ch \in Channels : subs[ch] # {}}]
<1>1. cmd \in Command /\ listed' = {} /\ wire' = <<cmd>> /\ subs' = subs
  BY DEF ConnectionLost, Command, tableVars
<1>2. <<cmd>> \in Seq(Command) /\ <<cmd>> = Append(<<>>, cmd) /\ <<>> \in Seq(Command)
  BY <1>1
<1>3. Later({}, <<cmd>>) = Execute(cmd, {})
  <2> HIDE DEF cmd
  <2>1. Later({}, Append(<<>>, cmd)) = Execute(cmd, Later({}, <<>>))
    BY <1>1, <1>2, LaterWritten
  <2> QED
    BY <1>2, <2>1, LaterNone
<1>4. Execute(cmd, {}) = {ch \in Channels : subs[ch] # {}}
  BY DEF Execute
<1> HIDE DEF cmd
<1> QED
  BY <1>1, <1>2, <1>3, <1>4 DEF ListedInv

LEMMA NextListed == TableInv /\ ListedInv /\ [PubSubNext]_pubVars => ListedInv'
<1> SUFFICES ASSUME TableInv, ListedInv, [PubSubNext]_pubVars PROVE ListedInv'
  OBVIOUS
<1>1. CASE UNCHANGED <<subs, phase, wire, listed>>
  BY <1>1 DEF ListedInv
<1>2. CASE Close \/ CloseAll
  <2>1. phase' # "open" /\ wire' \in Seq(Command)
    <3>1. <<>> \in Seq(Command)
      OBVIOUS
    <3> QED
      BY <1>2, <3>1 DEF Close, CloseAll, redisVars, ListedInv
  <2> QED
    BY <2>1 DEF ListedInv
<1>3. CASE RedisExecutes
  <2>1. /\ wire # <<>> /\ listed' = Execute(Head(wire), listed) /\ wire' = Tail(wire)
        /\ subs' = subs /\ phase' = phase /\ wire \in Seq(Command)
    BY <1>3 DEF RedisExecutes, tableVars, ListedInv
  <2>2. Later(listed', wire') = Later(listed, wire) /\ wire' \in Seq(Command)
    BY <2>1, LaterExecuted, WireSteps
  <2> QED
    BY <2>1, <2>2 DEF ListedInv
<1>4. ~UNCHANGED <<subs, phase, wire, listed>> =>
         \/ \E s \in Subs : Subscribe(s) \/ Cancel(s)
         \/ Close \/ CloseAll \/ RedisExecutes \/ ConnectionLost
  BY DEF PubSubNext, pubVars, Consume, Take, Send, Receive, Publish, tableVars, redisVars
<1> QED
  BY <1>1, <1>2, <1>3, <1>4, SubscribeListed, CancelListed, LostListed

\* Dispatcher: SUBSCRIBE and UNSUBSCRIBE are written by whoever joins first and
\* leaves last, and not waited for; a lost connection is made again from the
\* table.  Once what is written is executed, Redis sends exactly the channels
\* that have a subscriber.
THEOREM NobodyDeaf == PubSubSpec => []SubscribersListed
<1>1. PubSubInit => Inv /\ ListedInv
  <2> SUFFICES ASSUME PubSubInit PROVE ListedInv
    BY InitInv
  <2>1. wire = <<>> /\ listed = {} /\ \A ch \in Channels : subs[ch] = {}
    BY DEF PubSubInit, DispatcherInit
  <2> QED
    BY <2>1, LaterNone DEF ListedInv
<1>2. ListedInv => SubscribersListed
  BY DEF ListedInv, SubscribersListed, Later
<1> QED
  BY <1>1, <1>2, NextInv, NextListed, PTL DEF PubSubSpec, Inv
=============================================================================
