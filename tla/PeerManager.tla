----------------------------- MODULE PeerManager -----------------------------
(***************************************************************************)
(* The threads of the service: the peer manager thread (main.rs, thread_   *)
(* manager.rs, thread_tracker.rs), the thread of each peer connection      *)
(* (peer_connection.rs, event_handler.rs), the web server's handlers       *)
(* (rest_api.rs) and the shutdown in main.                                 *)
(*                                                                         *)
(* The peer manager connects to the addresses of the configuration in      *)
(* turn.  It takes one event of the peers at a time, then one request of   *)
(* the web server, and makes a new connection when all the threads it      *)
(* tracks have finished.  Events carry the address of the peer and nothing *)
(* that tells two connections to the same address apart.                   *)
(*                                                                         *)
(* The connection itself is the library's (external): it comes up or       *)
(* fails, and tells at most once that it is closed.  A connection is one   *)
(* of the slots Conn, used again when thread and link are gone.            *)
(***************************************************************************)
EXTENDS Naturals, Sequences, FiniteSets, Functions

CONSTANTS
    Ips,          \* the configured addresses, in order
    Conn,         \* slots for connections
    Tx,           \* transactions
    Faults,       \* panic (in a connection's thread), spawn (thread::spawn fails)
    None,
    MaxPanics,    \* bound on the panics of connection threads
    MaxQueued     \* bound on the waiting messages and on the waiting requests

Ip == Range(Ips)

(* An entry of ThreadTracker.                                               *)
Entry == [status : {"Started", "Connected", "Disconnected", "Finished"},
          conn : Conn \cup {None}]

ASSUME PeerAssumption ==
    /\ Ips \in Seq(Ip) /\ Ips # <<>>
    /\ Faults \subseteq {"panic", "spawn"}
    /\ MaxPanics \in Nat
    /\ MaxQueued \in Nat
    /\ IsFiniteSet(Conn) /\ Cardinality(Conn) >= MaxPanics + 2
    /\ None \notin Ip \cup Conn \cup Tx \cup Entry

VARIABLES
    mgr,        \* the peer manager: create, recv, join, rest, ended
    after,      \* where it goes behind the request: recv, create, ended
    turn,       \* index of the next address
    joining,    \* the address whose thread is being joined
    children,   \* ThreadTracker: address -> [status, conn] or None
    conn,       \* slot -> [ip, running, thread, link]
    events,     \* rx_peer
    state,      \* Logic's state, as far as the peer manager sets it
    connect,    \* the last row of the connect table
    rest,       \* rx_rest: transactions to broadcast; None is a monitor request
    known,      \* the transactions that tx_exists finds
    answer,     \* the last answer to a client about each transaction
    web,        \* the web server: up, stopped
    stopping,   \* a shutdown signal came
    exited,     \* main has returned
    panics

manager == <<mgr, after, turn, joining>>
service == <<rest, known, answer>>
process == <<web, stopping, exited>>
vars == <<manager, children, conn, events, state, connect, service, process, panics>>

Idle == [ip |-> None, running |-> FALSE, thread |-> "done", link |-> "closed"]
Live(c) == conn[c].thread = "run"
Free == {c \in Conn : ~Live(c) /\ conn[c].link = "closed"}

Init ==
    /\ mgr = "create" /\ after = "recv"
    /\ turn = 1
    /\ joining = None
    /\ children = [ip \in Ip |-> None]
    /\ conn = [c \in Conn |-> Idle]
    /\ events = <<>>
    /\ state = "Starting"
    /\ connect = None
    /\ rest = <<>>
    /\ known = {}
    /\ answer = [t \in Tx |-> None]
    /\ web = "up" /\ stopping = FALSE /\ exited = FALSE
    /\ panics = 0

-----------------------------------------------------------------------------
(* The peer manager. *)

(* Mutants of CreateThread: the addresses are not cycled through, and the   *)
(* first address is used again.                                             *)
CreateNoCycle ==
    /\ mgr = "create" /\ Free # {}
    /\ LET c == CHOOSE x \in Free : TRUE IN
       /\ conn' = [conn EXCEPT ![c] = [ip |-> Ips[turn], running |-> TRUE, thread |-> "run",
                                        link |-> "connecting"]]
       /\ children' = [children EXCEPT ![Ips[turn]] = [status |-> "Started", conn |-> c]]
    /\ turn' = turn + 1
    /\ mgr' = "recv"
    /\ UNCHANGED <<after, joining, events, state, connect, service, process, panics>>

CreateSameIp ==
    /\ mgr = "create" /\ Free # {}
    /\ LET c == CHOOSE x \in Free : TRUE IN
       /\ conn' = [conn EXCEPT ![c] = [ip |-> Ips[1], running |-> TRUE, thread |-> "run",
                                        link |-> "connecting"]]
       /\ children' = [children EXCEPT ![Ips[1]] = [status |-> "Started", conn |-> c]]
    /\ mgr' = "recv"
    /\ UNCHANGED <<after, turn, joining, events, state, connect, service, process, panics>>

(* create_thread for the next address of the cycle: the entry of the        *)
(* address is replaced.  Its two early returns, on a configuration without  *)
(* valid network settings, cannot be taken: main refuses to start with one  *)
(* (validate_startup), and the configuration does not change.               *)
CreateThread ==
    /\ mgr = "create" /\ Free # {}
    /\ LET c == CHOOSE x \in Free : TRUE
           ip == Ips[turn]
       IN
       /\ conn' = [conn EXCEPT ![c] =
                     [ip |-> ip, running |-> TRUE, thread |-> "run", link |-> "connecting"]]
       /\ children' = [children EXCEPT ![ip] = [status |-> "Started", conn |-> c]]
    /\ turn' = 1 + (turn % Len(Ips))
    /\ mgr' = "recv"
    /\ UNCHANGED <<after, joining, events, state, connect, service, process, panics>>

(* thread::spawn panics: the peer manager thread ends, nothing else does. *)
SpawnFails ==
    /\ mgr = "create" /\ "spawn" \in Faults
    /\ mgr' = "ended"
    /\ UNCHANGED <<after, turn, joining, children, conn, events, state, connect, service,
                   process, panics>>

(* recv_timeout takes an event when there is one. *)
Receive(type) == /\ mgr = "recv" /\ events # <<>> /\ Head(events).type = type
                 /\ events' = Tail(events)

SetStatus(ip, status) ==
    IF children[ip] = None THEN children
    ELSE [children EXCEPT ![ip].status = status]

(* insert_data of the connection log, whose INSERT is taken to succeed. *)
InsertData(ip, event) == connect' = <<ip, event>>

OnConnected ==
    LET ip == Head(events).ip IN
    /\ Receive("Connected")
    /\ children' = SetStatus(ip, "Connected")
    /\ state' = "Connected"
    /\ InsertData(ip, "Connect")
    /\ mgr' = "rest" /\ after' = "recv"
    /\ UNCHANGED <<turn, joining, conn, service, process, panics>>

(* The thread of the address, when its entry has one. *)
ThreadOf(ip) == IF children[ip] = None THEN None ELSE children[ip].conn

(* Mutants of OnDisconnected: Logic is not told, and the thread is not told *)
(* to stop before it is joined.                                             *)
DisconnectedNotTold ==
    LET ip == Head(events).ip IN
    /\ Receive("Disconnected")
    /\ children' = SetStatus(ip, "Disconnected")
    /\ InsertData(ip, "Disconnect")
    /\ conn' = IF ThreadOf(ip) = None THEN conn
               ELSE [conn EXCEPT ![ThreadOf(ip)].running = FALSE]
    /\ mgr' = "join" /\ joining' = ip
    /\ UNCHANGED <<after, turn, state, service, process, panics>>

DisconnectedNotStopped ==
    LET ip == Head(events).ip IN
    /\ Receive("Disconnected")
    /\ children' = SetStatus(ip, "Disconnected")
    /\ state' = "Disconnected"
    /\ InsertData(ip, "Disconnect")
    /\ mgr' = "join" /\ joining' = ip
    /\ UNCHANGED <<after, turn, conn, service, process, panics>>

(* Disconnected, up to the join: the thread of the address is told to stop. *)
OnDisconnected ==
    LET ip == Head(events).ip IN
    /\ Receive("Disconnected")
    /\ children' = SetStatus(ip, "Disconnected")
    /\ state' = "Disconnected"
    /\ InsertData(ip, "Disconnect")
    /\ conn' = IF ThreadOf(ip) = None THEN conn
               ELSE [conn EXCEPT ![ThreadOf(ip)].running = FALSE]
    /\ mgr' = "join" /\ joining' = ip
    /\ UNCHANGED <<after, turn, service, process, panics>>

AllFinished(entries) ==
    \A ip \in Ip : entries[ip] # None => entries[ip].status = "Finished"

(* Mutant of JoinThread: the thread is not waited for.                      *)
JoinAtOnce ==
    LET c == ThreadOf(joining) IN
    /\ mgr = "join"
    /\ children' = [children EXCEPT ![joining] =
                      IF c = None THEN None ELSE [status |-> "Finished", conn |-> None]]
    /\ mgr' = "rest"
    /\ after' = IF AllFinished(children') THEN "create" ELSE "recv"
    /\ joining' = None
    /\ UNCHANGED <<turn, conn, events, state, connect, service, process, panics>>

(* join_thread waits for the thread; an entry without one is removed.  The  *)
(* loop ends when every thread has finished.                                *)
JoinThread ==
    LET c == ThreadOf(joining) IN
    /\ mgr = "join"
    /\ c # None => ~Live(c)
    /\ children' = [children EXCEPT ![joining] =
                      IF c = None THEN None ELSE [status |-> "Finished", conn |-> None]]
    /\ mgr' = "rest"
    /\ after' = IF AllFinished(children') THEN "create" ELSE "recv"
    /\ joining' = None
    /\ UNCHANGED <<turn, conn, events, state, connect, service, process, panics>>

(* Mutant of OnMessage: the requests are looked at only when recv_timeout   *)
(* times out.                                                               *)
MessageThenRecv ==
    /\ Receive("Message")
    /\ known' \in SUBSET Tx
    /\ UNCHANGED <<manager, children, conn, state, connect, rest, answer, process, panics>>

(* Tx, Block, Addr, Headers and Inv go to Logic, which a panic of its       *)
(* handler leaves no trace of here.  Tx makes its transaction known.  A     *)
(* block takes its transactions from the mempool and may store them in txs  *)
(* and in collections, and roll-backs take some from txs (which, is the     *)
(* subject of TxAnalyser): any may be known after it.                       *)
OnMessage ==
    /\ Receive("Message")
    /\ LET t == Head(events).tx IN
       known' \in IF t = None THEN SUBSET Tx ELSE {known, known \cup {t}}
    /\ mgr' = "rest" /\ after' = "recv"
    /\ UNCHANGED <<turn, joining, children, conn, state, connect, rest, answer, process,
                   panics>>

(* Stop: all threads are told to stop, and none is waited for. *)
OnStop ==
    /\ Receive("Stop")
    /\ conn' = [c \in Conn |-> IF \E ip \in Ip : ThreadOf(ip) = c
                               THEN [conn[c] EXCEPT !.running = FALSE] ELSE conn[c]]
    /\ mgr' = "rest" /\ after' = "ended"
    /\ UNCHANGED <<turn, joining, children, state, connect, service, process, panics>>

(* recv_timeout times out. *)
NoEvent ==
    /\ mgr = "recv" /\ events = <<>> /\ rest # <<>>
    /\ mgr' = "rest" /\ after' = "recv"
    /\ UNCHANGED <<turn, joining, children, conn, events, state, connect, service, process,
                   panics>>

(* get_connected_peer, and whether its send succeeds. *)
ConnectedPeers == {ip \in Ip : children[ip] # None /\ children[ip].status = "Connected"}
CanSend == \E ip \in ConnectedPeers : ThreadOf(ip) # None /\ conn[ThreadOf(ip)].link = "up"

(* One request of the web server at most, then the loop goes on or ends.  A *)
(* transaction that is known, or that no peer takes, is dropped; one that   *)
(* was sent is handled by on_tx.  delete_monitor drops a collection with    *)
(* the transactions only it has; the one that add_monitor makes is empty.   *)
TakeRequest ==
    /\ mgr = "rest"
    /\ mgr' = after
    /\ \/ /\ rest = <<>>
          /\ UNCHANGED <<rest, known>>
       \/ /\ rest # <<>>
          /\ rest' = Tail(rest)
          /\ LET t == Head(rest) IN
             known' \in IF t = None THEN SUBSET known
                       ELSE IF t \notin known /\ CanSend THEN {known \cup {t}} ELSE {known}
    /\ UNCHANGED <<after, turn, joining, children, conn, events, state, connect, answer,
                   process, panics>>

Manager == \/ CreateThread \/ SpawnFails
           \/ OnConnected \/ OnDisconnected \/ JoinThread \/ OnMessage \/ OnStop
           \/ NoEvent \/ TakeRequest

-----------------------------------------------------------------------------
(* The connections. *)
Notify(ip, type) == Append(events, [type |-> type, ip |-> ip, tx |-> None])

LinkUp(c) ==
    /\ conn[c].link = "connecting"
    /\ conn' = [conn EXCEPT ![c].link = "up"]
    /\ events' = Notify(conn[c].ip, "Connected")
    /\ UNCHANGED <<manager, children, state, connect, service, process, panics>>

LinkFails(c) ==
    /\ conn[c].link \in {"connecting", "up"}
    /\ conn' = [conn EXCEPT ![c].link = "closed"]
    /\ events' = Notify(conn[c].ip, "Disconnected")
    /\ UNCHANGED <<manager, children, state, connect, service, process, panics>>

PeerMessage(c) ==
    /\ conn[c].link = "up" /\ Len(events) < MaxQueued
    /\ \E t \in Tx \cup {None} :
         events' = Append(events, [type |-> "Message", ip |-> conn[c].ip, tx |-> t])
    /\ UNCHANGED <<manager, children, conn, state, connect, service, process, panics>>

(* Mutant of ThreadEnds: the peer manager is told at every end of a thread. *)
ThreadAlwaysNotifies(c) ==
    /\ conn' = [conn EXCEPT ![c].thread = "done", ![c].link = "closed"]
    /\ events' = Notify(conn[c].ip, "Disconnected")
    /\ UNCHANGED <<manager, children, state, connect, service, process, panics>>

(* The end of wait_for_messages: disconnect closes a link that is not.      *)
ThreadEnds(c) ==
    /\ conn' = [conn EXCEPT ![c].thread = "done", ![c].link = "closed"]
    /\ events' = IF conn[c].link = "closed" THEN events ELSE Notify(conn[c].ip, "Disconnected")
    /\ UNCHANGED <<manager, children, state, connect, service, process, panics>>

(* The thread was told to stop; or the peer was silent for timeout_period,  *)
(* or the machine was asleep.                                               *)
ThreadStops(c) == Live(c) /\ ~conn[c].running /\ ThreadEnds(c)
ThreadTimesOut(c) == Live(c) /\ conn[c].running /\ ThreadEnds(c)

(* The thread panics: the link is left alone, and the closure of            *)
(* create_thread tells the peer manager.                                    *)
ThreadPanics(c) ==
    /\ "panic" \in Faults /\ panics < MaxPanics /\ Live(c)
    /\ panics' = panics + 1
    /\ conn' = [conn EXCEPT ![c].thread = "done"]
    /\ events' = Notify(conn[c].ip, "Disconnected")
    /\ UNCHANGED <<manager, children, state, connect, service, process>>

-----------------------------------------------------------------------------
(* The web server and the shutdown. *)

(* POST /tx/raw of a transaction that passes the checks: Success once it is *)
(* in the channel, Failed when the peer manager is gone.                    *)
BroadcastTx(t) ==
    /\ web = "up" /\ Len(rest) < MaxQueued
    /\ IF mgr = "ended"
       THEN /\ answer' = [answer EXCEPT ![t] = "Failed"]
            /\ UNCHANGED rest
       ELSE /\ answer' = [answer EXCEPT ![t] = "Success"]
            /\ rest' = Append(rest, t)
    /\ UNCHANGED <<manager, children, conn, events, state, connect, known, process, panics>>

(* A request to add or to delete a monitor, which the same channel carries. *)
MonitorRequest ==
    /\ web = "up" /\ Len(rest) < MaxQueued /\ mgr # "ended"
    /\ rest' = Append(rest, None)
    /\ UNCHANGED <<manager, children, conn, events, state, connect, known, answer, process,
                   panics>>

(* SIGINT or SIGTERM: Stop to the peer manager... *)
Shutdown ==
    /\ ~stopping
    /\ stopping' = TRUE
    /\ events' = Append(events, [type |-> "Stop", ip |-> None, tx |-> None])
    /\ UNCHANGED <<manager, children, conn, state, connect, service, web, exited, panics>>

(* ...and a stop of the web server; main returns when both have ended, and  *)
(* the threads that still run end with it.                                  *)
WebStops ==
    /\ stopping /\ web = "up"
    /\ web' = "stopped"
    /\ UNCHANGED <<manager, children, conn, events, state, connect, service, stopping, exited,
                   panics>>
Exit ==
    /\ web = "stopped" /\ mgr = "ended" /\ ~exited
    /\ exited' = TRUE
    /\ conn' = [c \in Conn |-> Idle]
    /\ events' = <<>>
    /\ UNCHANGED <<manager, children, state, connect, service, web, stopping, panics>>

Next ==
    \/ Manager
    \/ \E c \in Conn : \/ LinkUp(c) \/ LinkFails(c) \/ PeerMessage(c)
                       \/ ThreadStops(c) \/ ThreadTimesOut(c) \/ ThreadPanics(c)
    \/ (\E t \in Tx : BroadcastTx(t)) \/ MonitorRequest
    \/ Shutdown \/ WebStops \/ Exit

(* The operating system runs the threads, the library's connection attempts *)
(* end (they have a time limit), and main goes on when it can.  A working   *)
(* connection need never fail, and nobody need ever stop the service.       *)
Spec == /\ Init /\ [][Next]_vars
        /\ WF_vars(Manager)
        /\ \A c \in Conn : /\ WF_vars(ThreadStops(c))
                           /\ WF_vars(conn[c].link = "connecting" /\ (LinkUp(c) \/ LinkFails(c)))
        /\ WF_vars(WebStops) /\ WF_vars(Exit)

-----------------------------------------------------------------------------
TypeOK ==
    /\ mgr \in {"create", "recv", "join", "rest", "ended"}
    /\ after \in {"recv", "create", "ended"}
    /\ turn \in DOMAIN Ips
    /\ joining \in Ip \cup {None}
    /\ children \in [Ip -> Entry \cup {None}]
    /\ conn \in [Conn -> [ip : Ip \cup {None}, running : BOOLEAN, thread : {"run", "done"},
                          link : {"connecting", "up", "closed"}]]
    /\ state \in {"Starting", "Connected", "Disconnected"}
    /\ known \subseteq Tx
    /\ answer \in [Tx -> {"Success", "Failed", None}]

(* One connection at a time, and none is lost track of: while the peer      *)
(* manager runs, every running thread is the one its address's entry holds, *)
(* and there is one at most, so stop and join always reach it.              *)
OneTrackedThread ==
    /\ \A c \in Conn : Live(c) => ThreadOf(conn[c].ip) = c
    /\ \A c, d \in Conn : Live(c) /\ Live(d) => c = d

(* A thread is told to stop only when its own connection is closed or the   *)
(* service stops: no Disconnected event that an earlier connection to the   *)
(* address left behind ends a healthy one.  This holds as long as no        *)
(* connection thread has panicked: its closure sends a second Disconnected. *)
OnlyClosedStopped ==
    [][\A c \in Conn : conn[c].running /\ ~conn'[c].running =>
          stopping \/ conn[c].link = "closed" \/ panics > 0]_vars

(* Logic is in a connected state exactly when get_connected_peer finds a    *)
(* peer, and the last row of the connect table says so too, as long as no   *)
(* connection thread has panicked: requests are not sent into nothing, nor  *)
(* is a peer left unused.                                                   *)
LogicKnowsPeer ==
    panics = 0 =>
        /\ (state = "Connected") = (ConnectedPeers # {})
        /\ state = "Connected" => \E ip \in ConnectedPeers : connect = <<ip, "Connect">>

(* docs/Project.md: "On disconnect move to next ip address in the list".    *)
(* Unless a connection lasts, the service is stopped or the peer manager    *)
(* could not make a thread, every configured address is tried again and     *)
(* again, also after panics.                                                *)
EveryIpTried ==
    \A ip \in Ip :
        \/ <>(stopping \/ mgr = "ended")
        \/ <>[](\E c \in Conn : conn[c].link = "up")
        \/ []<>(children[ip] # None /\ children[ip].status = "Started")

(* docs/Project.md: "Graceful Rust shutdown (Ctrl+C / SIGTERM)".  After a   *)
(* signal main returns: the peer manager is never stuck in a join, and the  *)
(* events before Stop come to an end.                                       *)
ShutdownCompletes == stopping ~> exited

(* Clients are served: a request that waits in the channel is taken, also   *)
(* while the peer never stops sending messages and connections fail and are *)
(* made again.  Only the end of the peer manager (a shutdown, or a thread   *)
(* that could not be made) leaves requests behind.                          *)
RequestsTaken ==
    \/ <>(mgr = "ended")
    \/ []<>(rest = <<>>)
    \/ []<><<Len(rest') < Len(rest)>>_rest
=============================================================================
