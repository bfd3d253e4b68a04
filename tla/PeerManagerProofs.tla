-------------------------- MODULE PeerManagerProofs --------------------------
(***************************************************************************)
(* Theorems about PeerManager, for every list of addresses, every set of   *)
(* connection slots and transactions, and every bound.                     *)
(*                                                                         *)
(* The argument is about sessions: the time between create_thread and the  *)
(* join of that thread.  The events carry no mark of their connection, so  *)
(* the proof shows that a session begins with none of an earlier one in    *)
(* the channel.                                                            *)
(***************************************************************************)
EXTENDS PeerManager, SequenceTheorems, TLAPS

EventType == {"Connected", "Disconnected", "Message", "Stop"}
Event == [type : EventType, ip : Ip \cup {None}, tx : Tx \cup {None}]

(* A channel of events: those of a connection name an address, and Stop is  *)
(* there only after a signal.                                               *)
EventsOK(s, signal) ==
    /\ s \in Seq(Event)
    /\ \A i \in 1..Len(s) :
          /\ s[i].type \in {"Connected", "Disconnected"} => s[i].ip \in Ip
          /\ s[i].type = "Stop" => signal

(* What TypeOK leaves open: the channels, and that an address is one where  *)
(* the code uses it as one.                                                 *)
ChannelsOK ==
    /\ EventsOK(events, stopping)
    /\ stopping \in BOOLEAN /\ (web = "stopped" => stopping)
    /\ rest \in Seq(Tx \cup {None})
    /\ panics \in Nat
    /\ mgr = "join" => joining \in Ip
    /\ \A c \in Conn : Live(c) \/ conn[c].link # "closed" => conn[c].ip \in Ip

(* The manager makes a connection next.                                     *)
Between == mgr = "create" \/ (mgr = "rest" /\ after = "create")

(* It waits for the events of one.                                          *)
Following == mgr = "recv" \/ (mgr = "rest" /\ after = "recv")

(* It takes no more events.                                                 *)
Over == mgr = "ended" \/ (mgr = "rest" /\ after = "ended")

(* A finished entry holds no thread, and when a connection is made all      *)
(* entries are finished.                                                    *)
FinishedHoldsNone ==
    /\ \A ip \in Ip : children[ip] # None /\ children[ip].status = "Finished"
                         => children[ip].conn = None
    /\ Between => AllFinished(children)

-----------------------------------------------------------------------------
(* Events of a type in a channel: some, and one at most.                    *)
Has(s, type) == \E i \in 1..Len(s) : s[i].type = type
OneAtMost(s, type) ==
    \A i, j \in 1..Len(s) : s[i].type = type /\ s[j].type = type => i = j

(* No link is open and no event of one is left.                             *)
Quiet ==
    /\ ~Has(events, "Connected") /\ ~Has(events, "Disconnected")
    /\ \A c \in Conn : conn[c].link = "closed"

OthersFinished(ip) ==
    \A other \in Ip \ {ip} : children[other] # None => children[other].status = "Finished"

(* The events s left of a connection to ip with that link, whose entry has  *)
(* that status: Connected comes before Disconnected, each at most once.     *)
Foretold(s, ip, link, status) ==
    /\ OneAtMost(s, "Connected") /\ OneAtMost(s, "Disconnected")
    /\ \A i, j \in 1..Len(s) :
          s[i].type = "Connected" /\ s[j].type = "Disconnected" => i < j
    /\ \A i \in 1..Len(s) : s[i].type \in {"Connected", "Disconnected"} => s[i].ip = ip
    /\ link = "connecting" => ~Has(s, "Connected")
    /\ link # "closed" => ~Has(s, "Disconnected")
    /\ link = "closed" => Has(s, "Disconnected")
    /\ link = "up" /\ status = "Started" => Has(s, "Connected")
    /\ status = "Connected" => link # "connecting" /\ ~Has(s, "Connected")

(* The session of connection c to address ip.                               *)
Session(ip, c) ==
    /\ children[ip] # None /\ children[ip].conn = c
    /\ children[ip].status \in {"Started", "Connected"}
    /\ conn[c].ip = ip
    /\ OthersFinished(ip)
    /\ \A d \in Conn \ {c} : conn[d].link = "closed"
    /\ Foretold(events, ip, conn[c].link, children[ip].status)
    /\ state = "Connected" <=> children[ip].status = "Connected"
    /\ state = "Connected" => connect = <<ip, "Connect">>

Sessions ==
    /\ Between => Quiet /\ state # "Connected"
    /\ mgr = "join" => /\ Quiet /\ state = "Disconnected"
                       /\ ThreadOf(joining) # None
                       /\ children[joining].status = "Disconnected"
                       /\ OthersFinished(joining)
    /\ Following => \E ip \in Ip, c \in Conn : Session(ip, c)
    /\ Over => LogicKnowsPeer

Basics == TypeOK /\ ChannelsOK

IInv ==
    /\ Basics
    /\ OneTrackedThread /\ FinishedHoldsNone
    /\ panics = 0 => Sessions

-----------------------------------------------------------------------------
(* Adding an event at the end and taking the first keep the channel's type. *)
LEMMA EventsAppend ==
    ASSUME NEW s, NEW signal \in BOOLEAN, EventsOK(s, signal), NEW e \in Event,
           e.type \in {"Connected", "Disconnected"} => e.ip \in Ip,
           e.type = "Stop" => signal
    PROVE  EventsOK(Append(s, e), signal)
<1>1. /\ s \in Seq(Event) /\ Append(s, e) \in Seq(Event)
      /\ Len(Append(s, e)) = Len(s) + 1 /\ Len(s) \in Nat
      /\ \A i \in 1..(Len(s) + 1) : Append(s, e)[i] = IF i <= Len(s) THEN s[i] ELSE e
  BY DEF EventsOK
<1> DEFINE a == Append(s, e)
<1> HIDE DEF a
<1>2. ASSUME NEW i \in 1..Len(a)
      PROVE  /\ a[i].type \in {"Connected", "Disconnected"} => a[i].ip \in Ip
             /\ a[i].type = "Stop" => signal
  <2>1. CASE i <= Len(s)
    <3>1. i \in 1..Len(s) /\ a[i] = s[i]
      BY <1>1, <2>1 DEF a
    <3> QED  BY <3>1 DEF EventsOK
  <2>2. CASE ~(i <= Len(s))
    BY <1>1, <2>2 DEF a
  <2> QED  BY <2>1, <2>2
<1> QED  BY <1>1, <1>2 DEF EventsOK, a

(* What is left of the events, and what the first of them says.             *)
LEMMA EventsTail ==
    ASSUME NEW s, NEW signal \in BOOLEAN, EventsOK(s, signal), s # <<>>
    PROVE  /\ EventsOK(Tail(s), signal)
           /\ Head(s) \in Event
           /\ Head(s).type \in {"Connected", "Disconnected"} => Head(s).ip \in Ip
           /\ Head(s).type = "Stop" => signal
<1>1. /\ s \in Seq(Event) /\ Tail(s) \in Seq(Event) /\ Len(s) \in Nat /\ Len(s) > 0
      /\ Len(Tail(s)) = Len(s) - 1
      /\ \A i \in 1..(Len(s) - 1) : Tail(s)[i] = s[i + 1]
      /\ Head(s) = s[1] /\ Head(s) \in Event
  BY DEF EventsOK
<1>2. \A i \in 1..Len(s) : /\ s[i].type \in {"Connected", "Disconnected"} => s[i].ip \in Ip
                           /\ s[i].type = "Stop" => signal
  BY DEF EventsOK
<1> DEFINE t == Tail(s)
<1> HIDE DEF t
<1>3. ASSUME NEW i \in 1..Len(t)  PROVE i + 1 \in 1..Len(s) /\ t[i] = s[i + 1]
  BY <1>1 DEF t
<1>4. EventsOK(t, signal)
  <2>1. t \in Seq(Event)
    BY <1>1 DEF t
  <2> QED  BY <1>2, <1>3, <2>1 DEF EventsOK
<1> QED  BY <1>1, <1>2, <1>4 DEF t

(* The event that Notify adds.                                              *)
LEMMA NotifyType ==
    ASSUME Basics, NEW ip \in Ip, NEW type \in {"Connected", "Disconnected"}
    PROVE  EventsOK(Notify(ip, type), stopping)
<1>1. [type |-> type, ip |-> ip, tx |-> None] \in Event
  BY DEF Event, EventType
<1>2. stopping \in BOOLEAN /\ EventsOK(events, stopping)
  BY DEF Basics, ChannelsOK
<1> QED  BY <1>1, <1>2, EventsAppend DEF Notify

(* The slot that create_thread uses, and the address and the next turn.     *)
LEMMA CreateFacts ==
    ASSUME TypeOK, Free # {}
    PROVE  /\ (CHOOSE x \in Free : TRUE) \in Free
           /\ (CHOOSE x \in Free : TRUE) \in Conn
           /\ Ips[turn] \in Ip
           /\ 1 + (turn % Len(Ips)) \in DOMAIN Ips
<1>1. \E x \in Free : TRUE
  OBVIOUS
<1>2. (CHOOSE x \in Free : TRUE) \in Free
  BY <1>1
<1>3. DOMAIN Ips = 1..Len(Ips) /\ Len(Ips) \in Nat \ {0}
  BY PeerAssumption
<1>4. Ips[turn] \in Ip /\ turn \in 1..Len(Ips)
  BY <1>3, PeerAssumption DEF TypeOK
<1>5. turn % Len(Ips) \in 0..(Len(Ips) - 1)
  BY <1>3, <1>4
<1> QED  BY <1>2, <1>3, <1>4, <1>5 DEF Free

(* Init has the types.                                                      *)
LEMMA BasicsInit == Init => Basics
<1> SUFFICES ASSUME Init  PROVE Basics
  OBVIOUS
<1>1. 1 \in DOMAIN Ips
  BY PeerAssumption
<1>2. TypeOK
  BY <1>1 DEF Init, TypeOK, Idle
<1>3. EventsOK(events, stopping)
  BY DEF Init, EventsOK
<1>5. \A c \in Conn : ~Live(c) /\ conn[c].link = "closed"
  BY DEF Init, Idle, Live
<1>6. stopping \in BOOLEAN /\ (web = "stopped" => stopping)
  BY DEF Init
<1>7. rest \in Seq(Tx \cup {None}) /\ panics \in Nat /\ mgr # "join"
  BY DEF Init
<1>8. ChannelsOK
  BY <1>3, <1>5, <1>6, <1>7 DEF ChannelsOK
<1> QED  BY <1>2, <1>8 DEF Basics

(* Every action keeps them.                                                 *)
LEMMA BasicsStep == Basics /\ [Next]_vars => Basics'
<1> SUFFICES ASSUME Basics, [Next]_vars  PROVE Basics'
  OBVIOUS
<1> USE DEF manager, service, process
<1>0. /\ TypeOK /\ ChannelsOK
      /\ EventsOK(events, stopping) /\ stopping \in BOOLEAN
  BY DEF Basics, ChannelsOK
<1>1. CASE CreateThread
  <2>1. CreateThread
    BY <1>1
  <2> DEFINE c == CHOOSE x \in Free : TRUE
             ip == Ips[turn]
  <2>2. c \in Conn /\ ip \in Ip /\ 1 + (turn % Len(Ips)) \in DOMAIN Ips
    BY <1>0, <2>1, CreateFacts DEF CreateThread
  <2>3. /\ conn' = [conn EXCEPT ![c] = [ip |-> ip, running |-> TRUE, thread |-> "run",
                                        link |-> "connecting"]]
        /\ children' = [children EXCEPT ![ip] = [status |-> "Started", conn |-> c]]
        /\ turn' = 1 + (turn % Len(Ips)) /\ mgr' = "recv"
        /\ UNCHANGED <<after, joining, events, state, connect, service, process, panics>>
    BY <2>1 DEF CreateThread
  <2> HIDE DEF c, ip
  <2>4. TypeOK'
    BY <1>0, <2>2, <2>3 DEF TypeOK, Entry
  <2>5. ChannelsOK'
    BY <1>0, <2>2, <2>3 DEF TypeOK, ChannelsOK, Live
  <2> QED  BY <1>0, <2>3, <2>4, <2>5 DEF Basics
<1>2. CASE SpawnFails
  BY <1>0, <1>2 DEF SpawnFails, Basics, TypeOK, ChannelsOK, Live
<1>3. ASSUME NEW type, Receive(type)
      PROVE  /\ EventsOK(events', stopping) /\ Head(events) \in Event
             /\ Head(events).type = type
             /\ type \in {"Connected", "Disconnected"} => Head(events).ip \in Ip
  BY <1>0, <1>3, EventsTail DEF Receive
<1>4. ASSUME NEW ip \in Ip, NEW status \in {"Connected", "Disconnected"}
      PROVE  SetStatus(ip, status) \in [Ip -> Entry \cup {None}]
  BY <1>0 DEF SetStatus, TypeOK, Entry
<1>5. CASE OnConnected
  <2>1. EventsOK(events', stopping) /\ Head(events).ip \in Ip
    BY <1>3, <1>5 DEF OnConnected
  <2>2. TypeOK'
    BY <1>0, <1>4, <1>5, <2>1 DEF OnConnected, TypeOK
  <2> QED  BY <1>0, <1>5, <2>1, <2>2 DEF OnConnected, Basics, ChannelsOK, Live
<1>6. CASE OnDisconnected
  <2>1. EventsOK(events', stopping) /\ Head(events).ip \in Ip
    BY <1>3, <1>6 DEF OnDisconnected
  <2>5. ThreadOf(Head(events).ip) \in Conn \cup {None}
    BY <1>0, <2>1 DEF TypeOK, ThreadOf, Entry
  <2>2. /\ conn' \in [Conn -> [ip : Ip \cup {None}, running : BOOLEAN, thread : {"run", "done"},
                               link : {"connecting", "up", "closed"}]]
        /\ \A c \in Conn : /\ conn'[c].ip = conn[c].ip /\ conn'[c].thread = conn[c].thread
                           /\ conn'[c].link = conn[c].link
    <3>1. CASE ThreadOf(Head(events).ip) = None
      BY <1>0, <1>6, <3>1 DEF OnDisconnected, TypeOK
    <3>2. CASE ThreadOf(Head(events).ip) # None
      BY <1>0, <1>6, <2>5, <3>2, ZenonT(60) DEF OnDisconnected, TypeOK
    <3> QED  BY <3>1, <3>2
  <2>3. TypeOK'
    BY <1>0, <1>4, <1>6, <2>1, <2>2 DEF OnDisconnected, TypeOK
  <2>4. ChannelsOK'
    BY <1>0, <1>6, <2>1, <2>2 DEF OnDisconnected, ChannelsOK, Live
  <2> QED  BY <1>0, <1>6, <2>3, <2>4 DEF OnDisconnected, Basics
<1>7. CASE JoinThread
  <2>1. joining \in Ip
    BY <1>0, <1>7 DEF JoinThread, ChannelsOK
  <2>2. TypeOK'
    BY <1>0, <1>7, <2>1 DEF JoinThread, TypeOK, Entry
  <2> QED  BY <1>0, <1>7, <2>2 DEF JoinThread, Basics, ChannelsOK, Live
<1>8. CASE OnMessage
  <2>1. EventsOK(events', stopping) /\ Head(events).tx \in Tx \cup {None}
    BY <1>3, <1>8 DEF OnMessage, Event
  <2>2. known' \subseteq Tx
    BY <1>0, <1>8, <2>1 DEF OnMessage, TypeOK
  <2>3. TypeOK'
    BY <1>0, <1>8, <2>2 DEF OnMessage, TypeOK
  <2> QED  BY <1>0, <1>8, <2>1, <2>2, <2>3
             DEF OnMessage, Basics, ChannelsOK, Live
<1>9. CASE OnStop
  <2>1. EventsOK(events', stopping)
    BY <1>3, <1>9 DEF OnStop
  <2>2. /\ conn' \in [Conn -> [ip : Ip \cup {None}, running : BOOLEAN, thread : {"run", "done"},
                               link : {"connecting", "up", "closed"}]]
        /\ \A c \in Conn : /\ conn'[c].ip = conn[c].ip /\ conn'[c].thread = conn[c].thread
                           /\ conn'[c].link = conn[c].link
    BY <1>0, <1>9, ZenonT(60) DEF OnStop, TypeOK
  <2>3. TypeOK'
    BY <1>0, <1>9, <2>2 DEF OnStop, TypeOK
  <2> QED  BY <1>0, <1>9, <2>1, <2>2, <2>3
             DEF OnStop, Basics, ChannelsOK, Live
<1>10. CASE NoEvent
  BY <1>0, <1>10 DEF NoEvent, Basics, TypeOK, ChannelsOK, Live
<1>11. CASE TakeRequest
  <2>1. rest' \in Seq(Tx \cup {None}) /\ known' \subseteq Tx
    <3>1. CASE rest = <<>>
      BY <1>0, <1>11, <3>1 DEF TakeRequest, TypeOK, ChannelsOK
    <3>2. CASE rest # <<>>
      <4>1. Head(rest) \in Tx \cup {None} /\ rest' \in Seq(Tx \cup {None})
        BY <1>0, <1>11, <3>2 DEF TakeRequest, ChannelsOK
      <4>2. \/ known' \subseteq known
            \/ Head(rest) # None /\ known' = known \cup {Head(rest)}
        BY <1>11, <3>2 DEF TakeRequest
      <4> QED  BY <1>0, <4>1, <4>2 DEF TypeOK
    <3> QED  BY <3>1, <3>2
  <2>2. /\ mgr' = after /\ mgr = "rest"
        /\ UNCHANGED <<after, turn, joining, children, conn, events, state, connect, answer,
                       process, panics>>
    BY <1>11 DEF TakeRequest
  <2>3. TypeOK'
    BY <1>0, <2>1, <2>2 DEF TypeOK
  <2>4. ChannelsOK'
    BY <1>0, <2>1, <2>2 DEF TypeOK, ChannelsOK, Live
  <2> QED  BY <2>1, <2>3, <2>4 DEF Basics
<1>12. ASSUME NEW c \in Conn, LinkUp(c) \/ LinkFails(c)  PROVE Basics'
  <2>1. conn[c].ip \in Ip
    BY <1>0, <1>12 DEF LinkUp, LinkFails, ChannelsOK
  <2>2. EventsOK(events', stopping)
    BY <1>12, <2>1, NotifyType DEF LinkUp, LinkFails
  <2>3. TypeOK'
    BY <1>0, <1>12 DEF LinkUp, LinkFails, TypeOK
  <2>4. ChannelsOK'
    BY <1>0, <1>12, <2>1, <2>2, ZenonT(60) DEF LinkUp, LinkFails, ChannelsOK, TypeOK, Live
  <2> QED  BY <1>0, <1>12, <2>3, <2>4 DEF LinkUp, LinkFails, Basics
<1>13. ASSUME NEW c \in Conn, PeerMessage(c)  PROVE Basics'
  <2>1. PICK t \in Tx \cup {None} :
          events' = Append(events, [type |-> "Message", ip |-> conn[c].ip, tx |-> t])
    BY <1>13 DEF PeerMessage
  <2> DEFINE e == [type |-> "Message", ip |-> conn[c].ip, tx |-> t]
  <2>2. e \in Event /\ e.type = "Message"
    BY <1>0 DEF Event, EventType, TypeOK
  <2> HIDE DEF e
  <2>3. EventsOK(Append(events, e), stopping)
    BY <1>0, <2>2, EventsAppend
  <2>4. EventsOK(events', stopping)
    BY <2>1, <2>3 DEF e
  <2> QED  BY <1>0, <1>13, <2>4 DEF PeerMessage, Basics, TypeOK, ChannelsOK, Live
<1>14. ASSUME NEW c \in Conn, ThreadStops(c) \/ ThreadTimesOut(c)  PROVE Basics'
  <2>0. Live(c) /\ ThreadEnds(c)
    BY <1>14 DEF ThreadStops, ThreadTimesOut
  <2>1. conn[c].ip \in Ip
    BY <1>0, <2>0 DEF ChannelsOK
  <2>2. EventsOK(events', stopping)
    BY <1>0, <2>0, <2>1, NotifyType DEF ThreadEnds
  <2>3. TypeOK'
    BY <1>0, <2>0, ZenonT(60) DEF ThreadEnds, TypeOK
  <2>4. ChannelsOK'
    BY <1>0, <2>0, <2>1, <2>2 DEF ThreadEnds, ChannelsOK, TypeOK, Live
  <2> QED  BY <1>0, <2>0, <2>3, <2>4 DEF ThreadEnds, Basics
<1>15. ASSUME NEW c \in Conn, ThreadPanics(c)  PROVE Basics'
  <2>1. conn[c].ip \in Ip
    BY <1>0, <1>15 DEF ThreadPanics, ChannelsOK
  <2>2. EventsOK(events', stopping)
    BY <1>0, <1>15, <2>1, NotifyType DEF ThreadPanics
  <2>3. TypeOK'
    BY <1>0, <1>15 DEF ThreadPanics, TypeOK
  <2>4. ChannelsOK'
    BY <1>0, <1>15, <2>1, <2>2 DEF ThreadPanics, ChannelsOK, TypeOK, Live
  <2> QED  BY <1>0, <1>15, <2>3, <2>4 DEF ThreadPanics, Basics
<1>16. ASSUME NEW t \in Tx, BroadcastTx(t)  PROVE Basics'
  <2>1. rest' \in Seq(Tx \cup {None})
    BY <1>0, <1>16 DEF BroadcastTx, ChannelsOK
  <2>2. TypeOK'
    BY <1>0, <1>16 DEF BroadcastTx, TypeOK
  <2> QED  BY <1>0, <1>16, <2>1, <2>2 DEF BroadcastTx, Basics, ChannelsOK, Live
<1>17. CASE Shutdown
  <2> DEFINE e == [type |-> "Stop", ip |-> None, tx |-> None]
  <2>1. e \in Event /\ e.type = "Stop"
    BY DEF Event, EventType
  <2> HIDE DEF e
  <2>2. EventsOK(events, TRUE)
    BY <1>0 DEF EventsOK
  <2>3. EventsOK(Append(events, e), TRUE)
    BY <2>1, <2>2, EventsAppend
  <2>4. EventsOK(events', stopping') /\ stopping'
    BY <1>17, <2>3 DEF Shutdown, e
  <2> QED  BY <1>0, <1>17, <2>4 DEF Shutdown, Basics, TypeOK, ChannelsOK, Live
<1>18. CASE WebStops
  BY <1>0, <1>18 DEF WebStops, Basics, TypeOK, ChannelsOK, Live
<1>19. CASE Exit
  <2>1. EventsOK(<<>>, stopping)
    BY DEF EventsOK
  <2> QED  BY <1>0, <1>19, <2>1
             DEF Exit, Basics, TypeOK, ChannelsOK, Live, Idle
<1>20. CASE UNCHANGED vars
  BY <1>0, <1>20 DEF vars, Basics, TypeOK, ChannelsOK, Live
<1>21. CASE MonitorRequest
  <2>1. rest' \in Seq(Tx \cup {None})
    BY <1>0, <1>21 DEF MonitorRequest, ChannelsOK
  <2> QED  BY <1>0, <1>21, <2>1 DEF MonitorRequest, Basics, TypeOK, ChannelsOK, Live
<1> QED
  BY <1>1, <1>2, <1>5, <1>6, <1>7, <1>8, <1>9, <1>10, <1>11, <1>12, <1>13, <1>14, <1>15,
     <1>16, <1>17, <1>18, <1>19, <1>20, <1>21 DEF Next, Manager

-----------------------------------------------------------------------------
(* The entry of an address holds a slot or nothing.                         *)
LEMMA ThreadOfType ==
    ASSUME TypeOK, NEW ip \in Ip
    PROVE  ThreadOf(ip) \in Conn \cup {None}
BY DEF TypeOK, ThreadOf, Entry

(* When all entries are finished no thread runs and no entry holds one.     *)
LEMMA AllFinishedNoneLive ==
    ASSUME Basics, OneTrackedThread, FinishedHoldsNone, AllFinished(children)
    PROVE  /\ \A ip \in Ip : ThreadOf(ip) = None
           /\ \A c \in Conn : ~Live(c)
<1>1. \A ip \in Ip : ThreadOf(ip) = None
  BY DEF AllFinished, FinishedHoldsNone, ThreadOf
<1>2. ASSUME NEW c \in Conn, Live(c)  PROVE FALSE
  <2>1. conn[c].ip \in Ip
    BY <1>2 DEF Basics, ChannelsOK
  <2>2. ThreadOf(conn[c].ip) = c
    BY <1>2 DEF OneTrackedThread
  <2> QED  BY <1>1, <2>1, <2>2, PeerAssumption
<1> QED  BY <1>1, <1>2

(* A step that makes no thread, moves none and finishes no entry keeps all  *)
(* threads tracked.                                                         *)
LEMMA TrackedFrame ==
    ASSUME Basics, OneTrackedThread, FinishedHoldsNone,
           \A ip \in Ip : ThreadOf(ip)' = ThreadOf(ip),
           \A ip \in Ip : children'[ip] # None /\ children'[ip].status = "Finished"
                            => children'[ip] = children[ip],
           \A c \in Conn : Live(c)' => Live(c) /\ conn'[c].ip = conn[c].ip,
           Between' => Between /\ children' = children
    PROVE  OneTrackedThread' /\ FinishedHoldsNone'
<1>1. ASSUME NEW c \in Conn, Live(c)'  PROVE ThreadOf(conn[c].ip)' = c
  <2>1. Live(c) /\ conn'[c].ip = conn[c].ip /\ conn[c].ip \in Ip
    BY <1>1 DEF Basics, ChannelsOK
  <2>2. ThreadOf(conn[c].ip) = c
    BY <2>1 DEF OneTrackedThread
  <2>4. \A ip \in Ip : ThreadOf(ip)' = ThreadOf(ip)
    OBVIOUS
  <2>5. (IF children'[conn[c].ip] = None THEN None ELSE children'[conn[c].ip].conn) = c
    BY <2>1, <2>2, <2>4 DEF ThreadOf
  <2> QED  BY <2>1, <2>5 DEF ThreadOf
<1>2. OneTrackedThread'
  BY <1>1 DEF OneTrackedThread
<1>3. FinishedHoldsNone'
  BY DEF FinishedHoldsNone, AllFinished
<1> QED  BY <1>2, <1>3

(* The manager's loop never makes a second connection and never forgets one.*)
LEMMA TrackedStep ==
    ASSUME Basics, OneTrackedThread, FinishedHoldsNone, [Next]_vars
    PROVE  OneTrackedThread' /\ FinishedHoldsNone'
<1> USE DEF manager, service, process
<1>0. TypeOK /\ ChannelsOK
  BY DEF Basics
<1>1. CASE CreateThread
  <2> DEFINE c == CHOOSE x \in Free : TRUE
             ip == Ips[turn]
  <2>1. c \in Conn /\ ip \in Ip
    BY <1>0, <1>1, CreateFacts DEF CreateThread
  <2>2. /\ conn' = [conn EXCEPT ![c] = [ip |-> ip, running |-> TRUE, thread |-> "run",
                                        link |-> "connecting"]]
        /\ children' = [children EXCEPT ![ip] = [status |-> "Started", conn |-> c]]
        /\ mgr' = "recv" /\ mgr = "create"
    BY <1>1 DEF CreateThread
  <2> HIDE DEF c, ip
  <2>3. \A d \in Conn : ~Live(d)
    BY <2>2, AllFinishedNoneLive DEF FinishedHoldsNone, Between
  <2>4. \A d \in Conn : Live(d)' => d = c
    BY <1>0, <2>1, <2>2, <2>3 DEF Live, TypeOK
  <2>5. conn'[c].ip = ip /\ children'[ip] = [status |-> "Started", conn |-> c]
    BY <1>0, <2>1, <2>2 DEF TypeOK
  <2>6. children'[ip] # None /\ children'[ip].conn = c
    <3>1. children'[ip] \in Entry
      BY <2>1, <2>5 DEF Entry
    <3> QED  BY <2>5, <3>1, PeerAssumption
  <2>7. OneTrackedThread'
    BY <2>4, <2>5, <2>6 DEF OneTrackedThread, ThreadOf
  <2>8. FinishedHoldsNone'
    BY <1>0, <2>1, <2>2 DEF FinishedHoldsNone, TypeOK, Between
  <2> QED  BY <2>7, <2>8
<1>2. ASSUME NEW ip \in Ip, NEW status \in {"Connected", "Disconnected"},
             children' = SetStatus(ip, status), mgr' \in {"join", "rest"},
             mgr' = "rest" => after' = "recv",
             \A c \in Conn : Live(c)' => Live(c) /\ conn'[c].ip = conn[c].ip
      PROVE  OneTrackedThread' /\ FinishedHoldsNone'
  <2>1. CASE children[ip] = None
    <3>1. children' = children
      BY <1>2, <2>1 DEF SetStatus
    <3> QED  BY <1>2, <3>1, TrackedFrame DEF ThreadOf, Between
  <2>2. CASE children[ip] # None
    <3>1. children' = [children EXCEPT ![ip].status = status]
      BY <1>2, <2>2 DEF SetStatus
    <3>2. /\ \A other \in Ip \ {ip} : children'[other] = children[other]
          /\ children'[ip] # None /\ children'[ip].conn = children[ip].conn
          /\ children'[ip].status = status
      <4>1. children[ip] \in Entry
        BY <1>0, <2>2 DEF TypeOK
      <4>2. children'[ip] = [children[ip] EXCEPT !.status = status]
        BY <1>0, <3>1 DEF TypeOK
      <4>3. children'[ip] \in Entry /\ children'[ip].conn = children[ip].conn
            /\ children'[ip].status = status
        BY <4>1, <4>2 DEF Entry
      <4> QED  BY <1>0, <3>1, <4>3, PeerAssumption DEF TypeOK
    <3>3. ASSUME NEW other \in Ip  PROVE ThreadOf(other)' = ThreadOf(other)
      BY <2>2, <3>2 DEF ThreadOf
    <3>4. ASSUME NEW other \in Ip, children'[other] # None,
                 children'[other].status = "Finished"
          PROVE  children'[other] = children[other]
      BY <1>2, <3>2, <3>4
    <3> QED  BY <1>2, <3>3, <3>4, TrackedFrame DEF Between
  <2> QED  BY <2>1, <2>2
<1>3. ASSUME NEW type \in {"Connected", "Disconnected"}, Receive(type)
      PROVE  Head(events).ip \in Ip
  BY <1>0, <1>3, EventsTail DEF Receive, ChannelsOK
<1>4. CASE OnConnected
  <2>1. \A c \in Conn : Live(c)' => Live(c) /\ conn'[c].ip = conn[c].ip
    BY <1>4 DEF OnConnected, Live
  <2> QED  BY <1>2, <1>3, <1>4, <2>1 DEF OnConnected
<1>5. CASE OnDisconnected
  <2>1. Head(events).ip \in Ip
    BY <1>3, <1>5 DEF OnDisconnected
  <2>2. ThreadOf(Head(events).ip) \in Conn \cup {None}
    BY <1>0, <2>1, ThreadOfType
  <2>3. \A c \in Conn : Live(c)' => Live(c) /\ conn'[c].ip = conn[c].ip
    <3>1. CASE ThreadOf(Head(events).ip) = None
      BY <1>5, <3>1 DEF OnDisconnected, Live
    <3>2. CASE ThreadOf(Head(events).ip) # None
      BY <1>0, <1>5, <2>2, <3>2 DEF OnDisconnected, TypeOK, Live
    <3> QED  BY <3>1, <3>2
  <2> QED  BY <1>2, <1>5, <2>1, <2>3 DEF OnDisconnected
<1>6. CASE JoinThread
  <2>1. joining \in Ip /\ ThreadOf(joining) \in Conn \cup {None}
    BY <1>0, <1>6, ThreadOfType DEF JoinThread, ChannelsOK
  <2>2. /\ conn' = conn /\ mgr' = "rest"
        /\ after' = IF AllFinished(children') THEN "create" ELSE "recv"
        /\ ThreadOf(joining) # None => ~Live(ThreadOf(joining))
        /\ children' = [children EXCEPT ![joining] =
              IF ThreadOf(joining) = None THEN None ELSE [status |-> "Finished", conn |-> None]]
    BY <1>6 DEF JoinThread
  <2>3. /\ \A other \in Ip \ {joining} : children'[other] = children[other]
        /\ children'[joining] = None \/ children'[joining].conn = None
    BY <1>0, <2>1, <2>2 DEF TypeOK
  <2>4. ASSUME NEW c \in Conn, Live(c)'  PROVE ThreadOf(conn[c].ip)' = c
    <3>1. Live(c) /\ conn'[c].ip = conn[c].ip /\ conn[c].ip \in Ip
      BY <1>0, <2>2, <2>4 DEF ChannelsOK, Live
    <3>2. ThreadOf(conn[c].ip) = c
      BY <3>1 DEF OneTrackedThread
    <3>3. conn[c].ip # joining
      BY <2>1, <2>2, <3>1, <3>2, PeerAssumption
    <3> QED  BY <2>3, <3>1, <3>2, <3>3 DEF ThreadOf
  <2>5. OneTrackedThread'
    BY <2>2, <2>4 DEF OneTrackedThread, Live
  <2>6. FinishedHoldsNone'
    BY <2>2, <2>3 DEF FinishedHoldsNone, Between
  <2> QED  BY <2>5, <2>6
<1>7. ASSUME children' = children, Between' => Between,
             \A c \in Conn : Live(c)' => Live(c) /\ conn'[c].ip = conn[c].ip
      PROVE  OneTrackedThread' /\ FinishedHoldsNone'
  BY <1>7, TrackedFrame DEF ThreadOf
<1>8. CASE SpawnFails \/ OnMessage \/ NoEvent \/ TakeRequest
  BY <1>7, <1>8 DEF SpawnFails, OnMessage, NoEvent, TakeRequest, Between, Live
<1>9. CASE OnStop
  <2>1. \A c \in Conn : Live(c)' => Live(c) /\ conn'[c].ip = conn[c].ip
    BY <1>0, <1>9 DEF OnStop, TypeOK, Live
  <2> QED  BY <1>7, <1>9, <2>1 DEF OnStop, Between
<1>10. ASSUME NEW c \in Conn,
              LinkUp(c) \/ LinkFails(c) \/ ThreadStops(c) \/ ThreadTimesOut(c) \/ ThreadPanics(c)
       PROVE  OneTrackedThread' /\ FinishedHoldsNone'
  <2>1. \A d \in Conn : Live(d)' => Live(d) /\ conn'[d].ip = conn[d].ip
    BY <1>0, <1>10 DEF LinkUp, LinkFails, ThreadStops, ThreadTimesOut, ThreadEnds, ThreadPanics,
                       TypeOK, Live
  <2>2. children' = children /\ mgr' = mgr /\ after' = after
    BY <1>10 DEF LinkUp, LinkFails, ThreadStops, ThreadTimesOut, ThreadEnds, ThreadPanics
  <2> QED  BY <1>7, <2>1, <2>2 DEF Between
<1>11. ASSUME NEW c \in Conn, PeerMessage(c)  PROVE OneTrackedThread' /\ FinishedHoldsNone'
  BY <1>7, <1>11 DEF PeerMessage, Between, Live
<1>12. ASSUME NEW t \in Tx, BroadcastTx(t)  PROVE OneTrackedThread' /\ FinishedHoldsNone'
  BY <1>7, <1>12 DEF BroadcastTx, Between, Live
<1>13. CASE MonitorRequest \/ Shutdown \/ WebStops \/ UNCHANGED vars
  BY <1>7, <1>13 DEF MonitorRequest, Shutdown, WebStops, vars, Between, Live
<1>14. CASE Exit
  <2>1. \A c \in Conn : ~Live(c)'
    BY <1>14 DEF Exit, Idle, Live
  <2> QED  BY <1>7, <1>14, <2>1 DEF Exit, Between
<1> QED
  BY <1>1, <1>4, <1>5, <1>6, <1>8, <1>9, <1>10, <1>11, <1>12, <1>13, <1>14 DEF Next, Manager

-----------------------------------------------------------------------------
(* What adding an event and taking the first do to the events of a session. *)
LEMMA AppendFacts ==
    ASSUME NEW s \in Seq(Event), NEW e \in Event
    PROVE  /\ Len(Append(s, e)) = Len(s) + 1 /\ Len(s) \in Nat
           /\ \A i \in 1..Len(s) : Append(s, e)[i] = s[i]
           /\ Append(s, e)[Len(s) + 1] = e
OBVIOUS

(* An event sent is among the events.                                       *)
LEMMA HasAppend ==
    ASSUME NEW s \in Seq(Event), NEW e \in Event, NEW type
    PROVE  Has(Append(s, e), type) <=> Has(s, type) \/ e.type = type
<1> DEFINE a == Append(s, e)
<1>1. /\ Len(a) = Len(s) + 1 /\ Len(s) \in Nat
      /\ \A i \in 1..Len(s) : a[i] = s[i]
      /\ a[Len(s) + 1] = e
  BY AppendFacts
<1> HIDE DEF a
<1> QED  BY <1>1 DEF Has, a

(* The rest of a channel, position by position.                             *)
LEMMA TailFacts ==
    ASSUME NEW s \in Seq(Event), s # <<>>
    PROVE  /\ Len(s) \in Nat \ {0} /\ Len(Tail(s)) = Len(s) - 1
           /\ \A i \in 1..Len(Tail(s)) : i + 1 \in 1..Len(s) /\ Tail(s)[i] = s[i + 1]
           /\ 1 \in 1..Len(s) /\ Head(s) = s[1]
           /\ Tail(s) \in Seq(Event)
OBVIOUS

(* An event is the first one or among the rest.                             *)
LEMMA HasTail ==
    ASSUME NEW s \in Seq(Event), s # <<>>, NEW type
    PROVE  Has(s, type) <=> Head(s).type = type \/ Has(Tail(s), type)
<1> DEFINE t == Tail(s)
           h == Head(s)
<1>1. /\ Len(s) \in Nat \ {0} /\ Len(t) = Len(s) - 1
      /\ \A i \in 1..Len(t) : i + 1 \in 1..Len(s) /\ t[i] = s[i + 1]
      /\ 1 \in 1..Len(s) /\ h = s[1]
  BY TailFacts
<1> HIDE DEF t, h
<1>2. ASSUME NEW i \in 1..Len(s), i # 1  PROVE i - 1 \in 1..Len(t) /\ s[i] = t[i - 1]
  BY <1>1, <1>2
<1>3. ASSUME Has(s, type)  PROVE h.type = type \/ Has(t, type)
  BY <1>1, <1>2, <1>3 DEF Has
<1>4. ASSUME h.type = type \/ Has(t, type)  PROVE Has(s, type)
  BY <1>1, <1>4 DEF Has
<1> QED  BY <1>3, <1>4 DEF t, h

(* A message and Stop are not events of a session.                          *)
LEMMA ForetoldAppendOther ==
    ASSUME NEW s \in Seq(Event), NEW e \in Event, e.type \notin {"Connected", "Disconnected"},
           NEW ip, NEW link, NEW status, Foretold(s, ip, link, status)
    PROVE  Foretold(Append(s, e), ip, link, status)
<1> DEFINE a == Append(s, e)
<1>1. /\ Len(a) = Len(s) + 1 /\ Len(s) \in Nat
      /\ \A i \in 1..Len(s) : a[i] = s[i]
      /\ a[Len(s) + 1] = e
  BY AppendFacts
<1>2. /\ Has(a, "Connected") <=> Has(s, "Connected")
      /\ Has(a, "Disconnected") <=> Has(s, "Disconnected")
  BY HasAppend
<1> HIDE DEF a
<1>3. ASSUME NEW i \in 1..Len(a), a[i].type \in {"Connected", "Disconnected"}
      PROVE  i \in 1..Len(s) /\ a[i] = s[i]
  BY <1>1, <1>3
<1>4. OneAtMost(a, "Connected") /\ OneAtMost(a, "Disconnected")
  BY <1>3 DEF OneAtMost, Foretold
<1>5. /\ \A i, j \in 1..Len(a) : a[i].type = "Connected" /\ a[j].type = "Disconnected" => i < j
      /\ \A i \in 1..Len(a) : a[i].type \in {"Connected", "Disconnected"} => a[i].ip = ip
  BY <1>3 DEF Foretold
<1> QED  BY <1>2, <1>4, <1>5 DEF Foretold, a

(* The link comes up: Connected.                                            *)
LEMMA ForetoldUp ==
    ASSUME NEW s \in Seq(Event), NEW e \in Event, e.type = "Connected",
           NEW ip, e.ip = ip, NEW status, Foretold(s, ip, "connecting", status)
    PROVE  Foretold(Append(s, e), ip, "up", status)
<1> DEFINE a == Append(s, e)
<1>1. /\ Len(a) = Len(s) + 1 /\ Len(s) \in Nat
      /\ \A i \in 1..Len(s) : a[i] = s[i]
      /\ a[Len(s) + 1] = e
  BY AppendFacts
<1>2. ~Has(s, "Connected") /\ ~Has(s, "Disconnected") /\ status # "Connected"
  BY DEF Foretold
<1>3. Has(a, "Connected") /\ ~Has(a, "Disconnected")
  BY <1>2, HasAppend
<1> HIDE DEF a
<1>4. ASSUME NEW i \in 1..Len(a), a[i].type \in {"Connected", "Disconnected"}
      PROVE  i = Len(s) + 1
  BY <1>1, <1>2, <1>4 DEF Has
<1>5. ASSUME NEW i \in 1..Len(a), a[i].type \in {"Connected", "Disconnected"}
      PROVE  a[i].ip = ip
  BY <1>1, <1>4, <1>5
<1>6. OneAtMost(a, "Connected") /\ OneAtMost(a, "Disconnected")
  BY <1>4 DEF OneAtMost
<1>7. \A i, j \in 1..Len(a) : a[i].type = "Connected" /\ a[j].type = "Disconnected" => i < j
  BY <1>3 DEF Has
<1> QED  BY <1>2, <1>3, <1>5, <1>6, <1>7 DEF Foretold, a

(* The link is closed: Disconnected, behind Connected if that is still      *)
(* there.                                                                   *)
LEMMA ForetoldClosed ==
    ASSUME NEW s \in Seq(Event), NEW e \in Event, e.type = "Disconnected",
           NEW ip, e.ip = ip, NEW link, link # "closed", NEW status,
           Foretold(s, ip, link, status)
    PROVE  Foretold(Append(s, e), ip, "closed", status)
<1> DEFINE a == Append(s, e)
<1>1. /\ Len(a) = Len(s) + 1 /\ Len(s) \in Nat
      /\ \A i \in 1..Len(s) : a[i] = s[i]
      /\ a[Len(s) + 1] = e
  BY AppendFacts
<1>2. ~Has(s, "Disconnected")
  BY DEF Foretold
<1>3. Has(a, "Disconnected") /\ (Has(a, "Connected") <=> Has(s, "Connected"))
  BY HasAppend
<1> HIDE DEF a
<1>4. ASSUME NEW i \in 1..Len(a), a[i].type = "Disconnected"  PROVE i = Len(s) + 1
  BY <1>1, <1>2, <1>4 DEF Has
<1>5. ASSUME NEW i \in 1..Len(a), a[i].type = "Connected"
      PROVE  i \in 1..Len(s) /\ a[i] = s[i]
  BY <1>1, <1>5
<1>6. OneAtMost(a, "Connected") /\ OneAtMost(a, "Disconnected")
  BY <1>4, <1>5 DEF OneAtMost, Foretold
<1>7. \A i, j \in 1..Len(a) : a[i].type = "Connected" /\ a[j].type = "Disconnected" => i < j
  BY <1>1, <1>4, <1>5
<1>8. ASSUME NEW i \in 1..Len(a), a[i].type \in {"Connected", "Disconnected"}
      PROVE  a[i].ip = ip
  BY <1>1, <1>4, <1>5, <1>8 DEF Foretold
<1> QED  BY <1>3, <1>6, <1>7, <1>8 DEF Foretold, a

(* The manager takes a message, Stop or Connected.                          *)
LEMMA ForetoldTail ==
    ASSUME NEW s \in Seq(Event), s # <<>>, Head(s).type # "Disconnected",
           NEW ip, NEW link, NEW status, Foretold(s, ip, link, status)
    PROVE  /\ Head(s).type # "Connected" => Foretold(Tail(s), ip, link, status)
           /\ Head(s).type = "Connected" => Foretold(Tail(s), ip, link, "Connected")
<1> DEFINE t == Tail(s)
           h == Head(s)
<1>1. /\ Len(s) \in Nat \ {0} /\ Len(t) = Len(s) - 1
      /\ \A i \in 1..Len(t) : i + 1 \in 1..Len(s) /\ t[i] = s[i + 1]
      /\ 1 \in 1..Len(s) /\ h = s[1]
  BY TailFacts
<1>2. /\ Has(s, "Connected") <=> h.type = "Connected" \/ Has(t, "Connected")
      /\ Has(s, "Disconnected") <=> Has(t, "Disconnected")
  BY HasTail
<1> HIDE DEF t, h
<1>3. OneAtMost(t, "Connected") /\ OneAtMost(t, "Disconnected")
  <2>1. ASSUME NEW type, OneAtMost(s, type)  PROVE OneAtMost(t, type)
    <3> SUFFICES ASSUME NEW i \in 1..Len(t), NEW j \in 1..Len(t),
                        t[i].type = type, t[j].type = type
                 PROVE  i = j
      BY DEF OneAtMost
    <3>1. i + 1 \in 1..Len(s) /\ j + 1 \in 1..Len(s) /\ t[i] = s[i + 1] /\ t[j] = s[j + 1]
      BY <1>1
    <3>2. i + 1 = j + 1
      BY <2>1, <3>1 DEF OneAtMost
    <3> QED  BY <3>2
  <2> QED  BY <2>1 DEF Foretold
<1>4. ASSUME NEW i \in 1..Len(t), NEW j \in 1..Len(t),
             t[i].type = "Connected", t[j].type = "Disconnected"
      PROVE  i < j
  <2>1. i + 1 \in 1..Len(s) /\ j + 1 \in 1..Len(s) /\ t[i] = s[i + 1] /\ t[j] = s[j + 1]
    BY <1>1
  <2>2. i + 1 < j + 1
    BY <1>4, <2>1 DEF Foretold
  <2> QED  BY <2>2
<1>5. \A i \in 1..Len(t) : t[i].type \in {"Connected", "Disconnected"} => t[i].ip = ip
  BY <1>1 DEF Foretold
<1>6. ASSUME h.type # "Connected"  PROVE Foretold(t, ip, link, status)
  BY <1>2, <1>3, <1>4, <1>5, <1>6 DEF Foretold
<1>7. ASSUME h.type = "Connected"  PROVE Foretold(t, ip, link, "Connected")
  <2>1. ~Has(t, "Connected")
    <3> SUFFICES ASSUME NEW i \in 1..Len(t), t[i].type = "Connected"  PROVE FALSE
      BY DEF Has
    <3>1. i + 1 \in 1..Len(s) /\ t[i] = s[i + 1] /\ i + 1 # 1
      BY <1>1
    <3> QED  BY <1>1, <1>7, <3>1 DEF OneAtMost, Foretold
  <2>2. link # "connecting"
    BY <1>2, <1>7 DEF Foretold
  <2> QED  BY <1>2, <1>3, <1>4, <1>5, <2>1, <2>2 DEF Foretold
<1> QED  BY <1>6, <1>7 DEF t, h

(* When it takes Disconnected, the link is closed and no event is left.     *)
LEMMA ForetoldLast ==
    ASSUME NEW s \in Seq(Event), s # <<>>, Head(s).type = "Disconnected",
           NEW ip, NEW link, NEW status, Foretold(s, ip, link, status)
    PROVE  /\ link = "closed" /\ Head(s).ip = ip
           /\ ~Has(Tail(s), "Connected") /\ ~Has(Tail(s), "Disconnected")
<1> DEFINE t == Tail(s)
           h == Head(s)
<1>1. /\ Len(s) \in Nat \ {0} /\ Len(t) = Len(s) - 1
      /\ \A i \in 1..Len(t) : i + 1 \in 1..Len(s) /\ t[i] = s[i + 1]
      /\ 1 \in 1..Len(s) /\ h = s[1]
  BY TailFacts
<1>2. Has(s, "Disconnected")
  BY HasTail
<1>3. h.type = "Disconnected"
  OBVIOUS
<1> HIDE DEF t, h
<1>4. link = "closed" /\ h.ip = ip
  BY <1>1, <1>2, <1>3 DEF Foretold
<1>5. ASSUME NEW i \in 1..Len(t), t[i].type \in {"Connected", "Disconnected"}  PROVE FALSE
  <2>1. i + 1 \in 1..Len(s) /\ t[i] = s[i + 1] /\ i + 1 # 1 /\ ~(i + 1 < 1)
    BY <1>1
  <2>2. CASE t[i].type = "Connected"
    BY <1>1, <1>3, <2>1, <2>2 DEF Foretold
  <2>3. CASE t[i].type = "Disconnected"
    BY <1>1, <1>3, <2>1, <2>3 DEF Foretold, OneAtMost
  <2> QED  BY <1>5, <2>2, <2>3
<1> QED  BY <1>4, <1>5 DEF Has, t, h

-----------------------------------------------------------------------------
(* What the manager knows in a session, and when all entries are finished.  *)
LEMMA SessionKnowsPeer ==
    ASSUME NEW ip \in Ip, NEW c \in Conn, Session(ip, c)
    PROVE  LogicKnowsPeer
<1>1. CASE children[ip].status = "Connected"
  <2>1. ip \in ConnectedPeers /\ state = "Connected" /\ connect = <<ip, "Connect">>
    BY <1>1 DEF Session, ConnectedPeers
  <2> QED  BY <2>1 DEF LogicKnowsPeer
<1>2. CASE children[ip].status # "Connected"
  <2>1. ConnectedPeers = {} /\ state # "Connected"
    BY <1>2 DEF Session, ConnectedPeers, OthersFinished
  <2> QED  BY <2>1 DEF LogicKnowsPeer
<1> QED  BY <1>1, <1>2

(* When no thread is live and Logic is not Connected there is nothing to    *)
(* disagree about.                                                          *)
LEMMA FinishedKnowsPeer ==
    ASSUME AllFinished(children), state # "Connected"
    PROVE  LogicKnowsPeer
<1>1. ConnectedPeers = {}
  BY DEF AllFinished, ConnectedPeers
<1> QED  BY <1>1 DEF LogicKnowsPeer

(* What the sessions say of Logic's state is what the property asks.        *)
LEMMA SessionsKnowPeer ==
    ASSUME Basics, FinishedHoldsNone, Sessions
    PROVE  LogicKnowsPeer
<1>1. CASE Between
  BY <1>1, FinishedKnowsPeer DEF FinishedHoldsNone, Sessions
<1>2. CASE mgr = "join"
  <2>1. ConnectedPeers = {} /\ state # "Connected"
    BY <1>2 DEF Sessions, OthersFinished, ConnectedPeers
  <2> QED  BY <2>1 DEF LogicKnowsPeer
<1>3. CASE Following
  BY <1>3, SessionKnowsPeer DEF Sessions
<1>4. CASE Over
  BY <1>4 DEF Sessions
<1> QED  BY <1>1, <1>2, <1>3, <1>4 DEF Basics, TypeOK, Between, Following, Over

(* Steps that leave manager, links and the events of the session alone.     *)
LEMMA SessionsFrame ==
    ASSUME Basics, Sessions, panics = 0,
           UNCHANGED <<mgr, after, joining, children, state, connect, panics>>,
           \A c \in Conn : conn'[c].ip = conn[c].ip /\ conn'[c].link = conn[c].link,
           \/ events' = events
           \/ \E e \in Event : /\ e.type \notin {"Connected", "Disconnected"}
                               /\ events' = Append(events, e)
    PROVE  Sessions'
<1>0. events \in Seq(Event)
  BY DEF Basics, ChannelsOK, EventsOK
<1>1. \A type \in {"Connected", "Disconnected"} : Has(events, type)' <=> Has(events, type)
  <2>1. CASE events' = events
    BY <2>1 DEF Has
  <2>2. CASE events' # events
    <3>1. PICK e \in Event : /\ e.type \notin {"Connected", "Disconnected"}
                            /\ events' = Append(events, e)
      BY <2>2
    <3>2. \A type \in {"Connected", "Disconnected"} :
            Has(Append(events, e), type) <=> Has(events, type)
      BY <1>0, <3>1, HasAppend
    <3> QED  BY <3>1, <3>2 DEF Has
  <2> QED  BY <2>1, <2>2
<1>2. Quiet => Quiet'
  <2>1. /\ Has(events, "Connected")' <=> Has(events, "Connected")
        /\ Has(events, "Disconnected")' <=> Has(events, "Disconnected")
    BY <1>1
  <2> QED  BY <2>1 DEF Quiet
<1>3. ASSUME NEW ip \in Ip, NEW c \in Conn, Session(ip, c)  PROVE Session(ip, c)'
  <2>1. Foretold(events, ip, conn[c].link, children[ip].status)
    BY <1>3 DEF Session
  <2>2. Foretold(events', ip, conn[c].link, children[ip].status)
    <3>1. CASE events' = events
      BY <2>1, <3>1
    <3>2. CASE events' # events
      BY <1>0, <2>1, <3>2, ForetoldAppendOther
    <3> QED  BY <3>1, <3>2
  <2>3. Foretold(events', ip, conn'[c].link, children'[ip].status)
    BY <2>2
  <2> QED  BY <1>3, <2>3 DEF Session, OthersFinished
<1>4. LogicKnowsPeer => LogicKnowsPeer'
  BY DEF LogicKnowsPeer, ConnectedPeers
<1>5. Between' => Between /\ Quiet /\ state # "Connected"
  BY DEF Between, Sessions
<1>6. mgr' = "join" => /\ Quiet /\ state = "Disconnected"
                       /\ ThreadOf(joining) # None
                       /\ children[joining].status = "Disconnected"
                       /\ OthersFinished(joining)
  BY DEF Sessions
<1>7. ThreadOf(joining)' = ThreadOf(joining) /\ (OthersFinished(joining) => OthersFinished(joining)')
  BY DEF ThreadOf, OthersFinished
<1>8. Following' => \E ip \in Ip, c \in Conn : Session(ip, c)'
  BY <1>3 DEF Following, Sessions
<1>9. Over' => LogicKnowsPeer'
  BY <1>4 DEF Over, Sessions
<1> QED  BY <1>2, <1>5, <1>6, <1>7, <1>8, <1>9 DEF Sessions

(* A link changes: it is the one of the session, if there is one, and its   *)
(* event is added.                                                          *)
LEMMA SessionsLink ==
    ASSUME Basics, Sessions, panics = 0,
           UNCHANGED <<mgr, after, joining, children, state, connect, panics>>,
           NEW c \in Conn, conn[c].link # "closed", NEW type,
           \A d \in Conn : conn'[d].ip = conn[d].ip,
           \A d \in Conn \ {c} : conn'[d].link = conn[d].link,
           events' = Notify(conn[c].ip, type),
           \/ conn[c].link = "connecting" /\ conn'[c].link = "up" /\ type = "Connected"
           \/ conn'[c].link = "closed" /\ type = "Disconnected"
    PROVE  Sessions'
<1>1. ~Between' /\ mgr' # "join"
  BY DEF Sessions, Between, Quiet
<1>2. Over' => LogicKnowsPeer'
  <2>1. LogicKnowsPeer => LogicKnowsPeer'
    BY DEF LogicKnowsPeer, ConnectedPeers
  <2> QED  BY <2>1 DEF Over, Sessions
<1>3. ASSUME Following  PROVE \E ip \in Ip, d \in Conn : Session(ip, d)'
  <2>1. PICK ip \in Ip, d \in Conn : Session(ip, d)
    BY <1>3 DEF Sessions
  <2>2. d = c /\ conn[c].ip = ip
    BY <2>1 DEF Session
  <2>3. Foretold(events, ip, conn[c].link, children[ip].status)
    BY <2>1, <2>2 DEF Session
  <2> DEFINE e == [type |-> type, ip |-> ip, tx |-> None]
  <2>4. e \in Event /\ e.type = type /\ e.ip = ip /\ events \in Seq(Event)
    BY DEF Event, EventType, Basics, ChannelsOK, EventsOK
  <2>5. events' = Append(events, e)
    BY <2>2 DEF Notify
  <2> HIDE DEF e
  <2>6. Foretold(events', ip, conn'[c].link, children[ip].status)
    <3>1. CASE conn[c].link = "connecting" /\ conn'[c].link = "up" /\ type = "Connected"
      BY <2>3, <2>4, <2>5, <3>1, ForetoldUp
    <3>2. CASE conn'[c].link = "closed" /\ type = "Disconnected"
      BY <2>3, <2>4, <2>5, <3>2, ForetoldClosed
    <3> QED  BY <3>1, <3>2
  <2>7. Session(ip, c)'
    BY <2>1, <2>2, <2>6 DEF Session, OthersFinished
  <2> QED  BY <2>7
<1>4. Following' => Following
  BY DEF Following
<1> QED  BY <1>1, <1>2, <1>3, <1>4 DEF Sessions

(* The steps of the manager.                                                *)
LEMMA SessionsCreate ==
    ASSUME Basics, OneTrackedThread, FinishedHoldsNone, Sessions, CreateThread
    PROVE  Sessions'
<1> USE DEF manager, service, process
<1>0. TypeOK /\ Between /\ Quiet /\ state # "Connected" /\ AllFinished(children)
  BY DEF Basics, CreateThread, Between, Sessions, FinishedHoldsNone
<1>1. (CHOOSE x \in Free : TRUE) \in Conn /\ Ips[turn] \in Ip
  BY <1>0, CreateFacts DEF CreateThread
<1>2. PICK c \in Conn, ip \in Ip :
        /\ conn' = [conn EXCEPT ![c] = [ip |-> ip, running |-> TRUE, thread |-> "run",
                                        link |-> "connecting"]]
        /\ children' = [children EXCEPT ![ip] = [status |-> "Started", conn |-> c]]
        /\ mgr' = "recv" /\ events' = events /\ state' = state
  BY <1>1 DEF CreateThread
<1>3. /\ conn'[c].ip = ip /\ conn'[c].link = "connecting"
      /\ \A d \in Conn \ {c} : conn'[d].link = "closed"
  BY <1>0, <1>1, <1>2 DEF TypeOK, Quiet
<1>4. /\ children'[ip] = [status |-> "Started", conn |-> c]
      /\ \A other \in Ip \ {ip} : children'[other] = children[other]
  BY <1>0, <1>1, <1>2 DEF TypeOK
<1>5. /\ children'[ip] # None
      /\ children'[ip].conn = c /\ children'[ip].status = "Started"
  <2>1. children'[ip] \in Entry
    BY <1>1, <1>4 DEF Entry
  <2> QED  BY <1>4, <2>1, PeerAssumption
<1>6. OthersFinished(ip)'
  BY <1>0, <1>4 DEF OthersFinished, AllFinished
<1>7. Foretold(events', ip, "connecting", "Started")
  BY <1>0, <1>2 DEF Quiet, Has, Foretold, OneAtMost
<1>8. Session(ip, c)'
  BY <1>0, <1>2, <1>3, <1>5, <1>6, <1>7 DEF Session
<1> QED  BY <1>1, <1>2, <1>8 DEF Sessions, Between, Over

(* Logic takes a Connected event: it is of the one session there is.        *)
LEMMA SessionsConnected ==
    ASSUME Basics, Sessions, OnConnected
    PROVE  Sessions'
<1> USE DEF manager, service, process
<1>0. TypeOK /\ Following /\ events \in Seq(Event)
  BY DEF Basics, ChannelsOK, EventsOK, OnConnected, Receive, Following
<1>1. PICK ip \in Ip, c \in Conn : Session(ip, c)
  BY <1>0 DEF Sessions
<1>2. /\ events # <<>> /\ Head(events).type = "Connected" /\ events' = Tail(events)
      /\ children' = SetStatus(Head(events).ip, "Connected")
      /\ state' = "Connected" /\ connect' = <<Head(events).ip, "Connect">>
      /\ mgr' = "rest" /\ after' = "recv" /\ conn' = conn
  BY DEF OnConnected, Receive, InsertData
<1>3. Foretold(events, ip, conn[c].link, children[ip].status)
  BY <1>1 DEF Session
<1>4. Head(events).ip = ip
  <2>1. 1 \in 1..Len(events) /\ Head(events) = events[1]
    BY <1>0, <1>2
  <2> QED  BY <1>2, <1>3, <2>1 DEF Foretold
<1>5. Foretold(events', ip, conn[c].link, "Connected")
  BY <1>0, <1>2, <1>3, ForetoldTail
<1>6. /\ children[ip] # None /\ children[ip] \in Entry /\ children[ip].conn = c
      /\ conn[c].ip = ip /\ OthersFinished(ip)
      /\ \A d \in Conn \ {c} : conn[d].link = "closed"
  BY <1>0, <1>1 DEF Session, TypeOK
<1>7. children' = [children EXCEPT ![ip].status = "Connected"]
  BY <1>2, <1>4, <1>6 DEF SetStatus
<1>8. /\ children'[ip] = [children[ip] EXCEPT !.status = "Connected"]
      /\ \A other \in Ip \ {ip} : children'[other] = children[other]
  BY <1>0, <1>7 DEF TypeOK
<1>9. children'[ip] \in Entry /\ children'[ip].conn = c /\ children'[ip].status = "Connected"
  BY <1>6, <1>8 DEF Entry
<1>10. children'[ip] # None
  BY <1>9, PeerAssumption
<1>11. OthersFinished(ip)'
  BY <1>6, <1>8 DEF OthersFinished
<1>12. Session(ip, c)'
  BY <1>2, <1>4, <1>5, <1>6, <1>9, <1>10, <1>11 DEF Session
<1> QED  BY <1>2, <1>12 DEF Sessions, Between, Over

(* Logic takes a Disconnected event: every connection is closed by then.    *)
LEMMA SessionsDisconnected ==
    ASSUME Basics, Sessions, OnDisconnected
    PROVE  /\ Sessions'
           /\ \A c \in Conn : conn[c].link = "closed"
<1> USE DEF manager, service, process
<1>0. TypeOK /\ Following /\ events \in Seq(Event)
  BY DEF Basics, ChannelsOK, EventsOK, OnDisconnected, Receive, Following
<1>1. PICK ip \in Ip, c \in Conn : Session(ip, c)
  BY <1>0 DEF Sessions
<1>2. /\ events # <<>> /\ Head(events).type = "Disconnected" /\ events' = Tail(events)
      /\ children' = SetStatus(Head(events).ip, "Disconnected")
      /\ state' = "Disconnected"
      /\ conn' = IF ThreadOf(Head(events).ip) = None THEN conn
                 ELSE [conn EXCEPT ![ThreadOf(Head(events).ip)].running = FALSE]
      /\ mgr' = "join" /\ joining' = Head(events).ip
  BY DEF OnDisconnected, Receive
<1>3. Foretold(events, ip, conn[c].link, children[ip].status)
  BY <1>1 DEF Session
<1>4. /\ conn[c].link = "closed" /\ Head(events).ip = ip
      /\ ~Has(events', "Connected") /\ ~Has(events', "Disconnected")
  BY <1>0, <1>2, <1>3, ForetoldLast
<1>5. \A d \in Conn : conn[d].link = "closed"
  BY <1>1, <1>4 DEF Session
<1>6. /\ children[ip] # None /\ children[ip] \in Entry /\ children[ip].conn = c
      /\ OthersFinished(ip)
  BY <1>0, <1>1 DEF Session, TypeOK
<1>7. conn' = [conn EXCEPT ![c].running = FALSE]
  BY <1>2, <1>4, <1>6, PeerAssumption DEF ThreadOf
<1>8. \A d \in Conn : conn'[d].link = "closed"
  BY <1>0, <1>5, <1>7 DEF TypeOK
<1>9. /\ children'[ip] = [children[ip] EXCEPT !.status = "Disconnected"]
      /\ \A other \in Ip \ {ip} : children'[other] = children[other]
  BY <1>0, <1>2, <1>4, <1>6 DEF SetStatus, TypeOK
<1>10. children'[ip] \in Entry /\ children'[ip].conn = c /\ children'[ip].status = "Disconnected"
  BY <1>6, <1>9 DEF Entry
<1>11. children'[ip] # None /\ c # None
  BY <1>10, PeerAssumption
<1>12. OthersFinished(ip)'
  BY <1>6, <1>9 DEF OthersFinished
<1>13. Quiet'
  BY <1>4, <1>8 DEF Quiet
<1>14. joining' = ip
  BY <1>2, <1>4
<1>15. ThreadOf(joining)' # None /\ children'[joining'].status = "Disconnected"
  BY <1>10, <1>11, <1>14 DEF ThreadOf
<1>16. OthersFinished(joining)'
  BY <1>12, <1>14 DEF OthersFinished
<1>17. Sessions'
  BY <1>2, <1>13, <1>15, <1>16 DEF Sessions, Between, Following, Over
<1> QED  BY <1>5, <1>17

(* join_thread ends a session whose thread has finished.                    *)
LEMMA SessionsJoin ==
    ASSUME Basics, Sessions, JoinThread
    PROVE  Sessions'
<1> USE DEF manager, service, process
<1>1. /\ Quiet /\ state = "Disconnected" /\ ThreadOf(joining) # None /\ joining \in Ip
      /\ OthersFinished(joining) /\ TypeOK
  BY DEF JoinThread, Sessions, Basics, ChannelsOK
<1>2. /\ children' = [children EXCEPT ![joining] = [status |-> "Finished", conn |-> None]]
      /\ mgr' = "rest" /\ after' = IF AllFinished(children') THEN "create" ELSE "recv"
      /\ conn' = conn /\ events' = events /\ state' = state
  BY <1>1 DEF JoinThread
<1>3. AllFinished(children')
  BY <1>1, <1>2 DEF OthersFinished, AllFinished, TypeOK
<1>4. Quiet'
  BY <1>1, <1>2 DEF Quiet
<1> QED  BY <1>1, <1>2, <1>3, <1>4 DEF Sessions, Between, Following, Over

(* Every step keeps the account of the session, while no thread panics.     *)
LEMMA SessionsStep ==
    ASSUME Basics, OneTrackedThread, FinishedHoldsNone, panics = 0 => Sessions, [Next]_vars,
           panics' = 0
    PROVE  Sessions'
<1> USE DEF manager, service, process
<1>0. panics = 0 /\ Sessions /\ TypeOK /\ ChannelsOK /\ events \in Seq(Event)
  <2>1. panics \in Nat /\ (panics' = panics \/ panics' = panics + 1)
    BY DEF Next, Manager, CreateThread, SpawnFails, OnConnected, OnDisconnected, JoinThread,
           OnMessage, OnStop, NoEvent, TakeRequest, LinkUp, LinkFails, PeerMessage, ThreadStops,
           ThreadTimesOut, ThreadEnds, ThreadPanics, BroadcastTx, MonitorRequest, Shutdown,
           WebStops, Exit, vars,
           Basics, ChannelsOK
  <2> QED  BY <2>1 DEF Basics, ChannelsOK, EventsOK
<1>1. CASE CreateThread
  BY <1>0, <1>1, SessionsCreate
<1>2. CASE SpawnFails
  <2>1. AllFinished(children') /\ state' # "Connected"
    BY <1>0, <1>2 DEF SpawnFails, Sessions, FinishedHoldsNone, Between
  <2>2. LogicKnowsPeer'
    BY <2>1 DEF LogicKnowsPeer, ConnectedPeers, AllFinished
  <2> QED  BY <1>2, <2>2 DEF SpawnFails, Sessions, Between, Following
<1>3. CASE OnConnected
  BY <1>0, <1>3, SessionsConnected
<1>4. CASE OnDisconnected
  BY <1>0, <1>4, SessionsDisconnected
<1>5. CASE JoinThread
  BY <1>0, <1>5, SessionsJoin
<1>6. CASE OnMessage
  <2>1. PICK ip \in Ip, c \in Conn : Session(ip, c)
    BY <1>0, <1>6 DEF OnMessage, Receive, Sessions, Following
  <2>2. /\ events # <<>> /\ Head(events).type = "Message" /\ events' = Tail(events)
        /\ mgr' = "rest" /\ after' = "recv"
        /\ UNCHANGED <<children, conn, state, connect>>
    BY <1>6 DEF OnMessage, Receive
  <2>3. Foretold(events', ip, conn[c].link, children[ip].status)
    BY <1>0, <2>1, <2>2, ForetoldTail DEF Session
  <2>4. Session(ip, c)'
    BY <2>1, <2>2, <2>3 DEF Session, OthersFinished
  <2> QED  BY <2>2, <2>4 DEF Sessions, Between, Over
<1>7. CASE OnStop
  <2>1. LogicKnowsPeer
    BY <1>0, SessionsKnowPeer
  <2>2. LogicKnowsPeer'
    BY <1>7, <2>1 DEF OnStop, LogicKnowsPeer, ConnectedPeers
  <2> QED  BY <1>7, <2>2 DEF OnStop, Sessions, Between, Following
<1>8. CASE NoEvent
  <2>1. PICK ip \in Ip, c \in Conn : Session(ip, c)
    BY <1>0, <1>8 DEF NoEvent, Sessions, Following
  <2>2. Session(ip, c)'
    BY <1>8, <2>1 DEF NoEvent, Session, OthersFinished
  <2> QED  BY <1>8, <2>2 DEF NoEvent, Sessions, Between, Over
<1>9. CASE TakeRequest
  <2>1. /\ mgr = "rest" /\ mgr' = after /\ after' = after
        /\ UNCHANGED <<children, conn, events, state, connect, panics>>
    BY <1>9 DEF TakeRequest
  <2>2. /\ Between' => Between
        /\ Following' => Following
        /\ Over' => Over
        /\ mgr' # "join"
    BY <1>0, <2>1 DEF TypeOK, Between, Following, Over
  <2>3. Quiet' = Quiet /\ LogicKnowsPeer' = LogicKnowsPeer
    BY <2>1 DEF Quiet, LogicKnowsPeer, ConnectedPeers
  <2>4. \A ip \in Ip, c \in Conn : Session(ip, c) => Session(ip, c)'
    BY <2>1 DEF Session, OthersFinished
  <2> QED  BY <1>0, <2>1, <2>2, <2>3, <2>4 DEF Sessions
<1>10. ASSUME NEW c \in Conn, LinkUp(c)  PROVE Sessions'
  <2>1. /\ conn[c].link = "connecting" /\ conn' = [conn EXCEPT ![c].link = "up"]
        /\ events' = Notify(conn[c].ip, "Connected")
        /\ UNCHANGED <<mgr, after, joining, children, state, connect, panics>>
    BY <1>10 DEF LinkUp
  <2>2. /\ \A d \in Conn : conn'[d].ip = conn[d].ip
        /\ \A d \in Conn \ {c} : conn'[d].link = conn[d].link
        /\ conn'[c].link = "up"
    BY <1>0, <2>1 DEF TypeOK
  <2> QED  BY <1>0, <2>1, <2>2, SessionsLink
<1>11. ASSUME NEW c \in Conn, conn[c].link # "closed",
              events' = Notify(conn[c].ip, "Disconnected"),
              \/ conn' = [conn EXCEPT ![c].link = "closed"]
              \/ conn' = [conn EXCEPT ![c].thread = "done", ![c].link = "closed"],
              UNCHANGED <<mgr, after, joining, children, state, connect, panics>>
       PROVE  Sessions'
  <2>1. /\ \A d \in Conn : conn'[d].ip = conn[d].ip
        /\ \A d \in Conn \ {c} : conn'[d].link = conn[d].link
        /\ conn'[c].link = "closed"
    BY <1>0, <1>11 DEF TypeOK
  <2> QED  BY <1>0, <1>11, <2>1, SessionsLink
<1>12. ASSUME NEW c \in Conn, LinkFails(c)  PROVE Sessions'
  BY <1>11, <1>12 DEF LinkFails
<1>13. ASSUME NEW c \in Conn, PeerMessage(c)  PROVE Sessions'
  <2>1. PICK t \in Tx \cup {None} :
          events' = Append(events, [type |-> "Message", ip |-> conn[c].ip, tx |-> t])
    BY <1>13 DEF PeerMessage
  <2>2. /\ [type |-> "Message", ip |-> conn[c].ip, tx |-> t] \in Event
        /\ [type |-> "Message", ip |-> conn[c].ip, tx |-> t].type = "Message"
    BY <1>0 DEF Event, EventType, TypeOK
  <2>3. \E e \in Event : /\ e.type \notin {"Connected", "Disconnected"}
                        /\ events' = Append(events, e)
    BY <2>1, <2>2
  <2> QED  BY <1>0, <1>13, <2>3, SessionsFrame DEF PeerMessage
<1>14. ASSUME NEW c \in Conn, ThreadStops(c) \/ ThreadTimesOut(c)  PROVE Sessions'
  <2>0. ThreadEnds(c)
    BY <1>14 DEF ThreadStops, ThreadTimesOut
  <2>1. CASE conn[c].link # "closed"
    BY <1>11, <2>0, <2>1 DEF ThreadEnds
  <2>2. CASE conn[c].link = "closed"
    <3>1. \A d \in Conn : conn'[d].ip = conn[d].ip /\ conn'[d].link = conn[d].link
      BY <1>0, <2>0, <2>2 DEF ThreadEnds, TypeOK
    <3> QED  BY <1>0, <2>0, <2>2, <3>1, SessionsFrame DEF ThreadEnds
  <2> QED  BY <2>1, <2>2
<1>15. ASSUME NEW c \in Conn, ThreadPanics(c)  PROVE Sessions'
  BY <1>0, <1>15 DEF ThreadPanics
<1>16. ASSUME NEW t \in Tx, BroadcastTx(t)  PROVE Sessions'
  BY <1>0, <1>16, SessionsFrame DEF BroadcastTx
<1>20. CASE MonitorRequest
  BY <1>0, <1>20, SessionsFrame DEF MonitorRequest
<1>17. CASE Shutdown
  <2> DEFINE e == [type |-> "Stop", ip |-> None, tx |-> None]
  <2>1. e \in Event /\ e.type = "Stop" /\ events' = Append(events, e)
    BY <1>17 DEF Shutdown, Event, EventType
  <2>2. \E x \in Event : /\ x.type \notin {"Connected", "Disconnected"}
                        /\ events' = Append(events, x)
    BY <2>1
  <2> QED  BY <1>0, <1>17, <2>2, SessionsFrame DEF Shutdown
<1>18. CASE WebStops \/ UNCHANGED vars
  BY <1>0, <1>18, SessionsFrame DEF WebStops, vars
<1>19. CASE Exit
  <2>1. LogicKnowsPeer' = LogicKnowsPeer
    BY <1>19 DEF Exit, LogicKnowsPeer, ConnectedPeers
  <2> QED  BY <1>0, <1>19, <2>1 DEF Exit, Sessions, Between, Following, Over
<1> QED
  BY <1>1, <1>2, <1>3, <1>4, <1>5, <1>6, <1>7, <1>8, <1>9, <1>10, <1>12, <1>13, <1>14, <1>15,
     <1>16, <1>17, <1>18, <1>19, <1>20 DEF Next, Manager

-----------------------------------------------------------------------------
(* The inductive invariant holds: the first state has it, each step keeps   *)
(* it.                                                                      *)
LEMMA Invariance == Spec => []IInv
<1>1. Init => IInv
  <2> SUFFICES ASSUME Init  PROVE IInv
    OBVIOUS
  <2>1. \A c \in Conn : ~Live(c) /\ conn[c].link = "closed"
    BY DEF Init, Idle, Live
  <2>2. AllFinished(children) /\ mgr = "create" /\ state = "Starting" /\ Len(events) = 0
    BY DEF Init, AllFinished
  <2>3. FinishedHoldsNone
    BY <2>2 DEF Init, FinishedHoldsNone
  <2>4. Quiet
    BY <2>1, <2>2 DEF Quiet, Has
  <2> QED  BY <2>1, <2>2, <2>3, <2>4, BasicsInit
             DEF IInv, OneTrackedThread, Sessions, Between, Following, Over
<1>2. IInv /\ [Next]_vars => IInv'
  BY BasicsStep, TrackedStep, SessionsStep DEF IInv
<1> QED  BY <1>1, <1>2, PTL DEF Spec

(* Every variable of the threads' model keeps its type: the peer manager's  *)
(* place, the tracker's entries, the connections, the answers.              *)
THEOREM TypeCorrect == Spec => []TypeOK
<1>1. IInv => TypeOK
  BY DEF IInv, Basics
<1> QED  BY <1>1, Invariance, PTL

(* The peer manager never runs two connection threads, and the one it runs  *)
(* is the one its tracker holds for that address: stop and join_thread      *)
(* reach it whatever panics, timeouts and events came before.               *)
THEOREM ThreadsTracked == Spec => []OneTrackedThread
<1>1. IInv => OneTrackedThread
  BY DEF IInv
<1> QED  BY <1>1, Invariance, PTL

(* While no connection thread has panicked, Logic is in its connected state *)
(* exactly when get_connected_peer finds a peer, and the connect table says *)
(* which.                                                                   *)
THEOREM LogicFollowsPeer == Spec => []LogicKnowsPeer
<1>1. IInv => LogicKnowsPeer
  <2> SUFFICES ASSUME IInv  PROVE LogicKnowsPeer
    OBVIOUS
  <2>1. CASE panics = 0
    BY <2>1, SessionsKnowPeer DEF IInv
  <2>2. CASE panics # 0
    BY <2>2 DEF LogicKnowsPeer
  <2> QED  BY <2>1, <2>2
<1> QED  BY <1>1, Invariance, PTL

(* A thread is told to stop only when its own connection is closed, the     *)
(* service stops, or a connection thread has panicked: a Disconnected that  *)
(* an earlier connection to the address left behind never ends a healthy    *)
(* one.                                                                     *)
THEOREM StopsOnlyClosed == Spec => OnlyClosedStopped
<1> DEFINE A == \A c \in Conn : conn[c].running /\ ~conn'[c].running =>
                  stopping \/ conn[c].link = "closed" \/ panics > 0
<1>1. IInv /\ [Next]_vars => [A]_vars
  <2> SUFFICES ASSUME IInv, Next, panics = 0, ~stopping,
                      NEW c \in Conn, conn[c].running, ~conn'[c].running
               PROVE  conn[c].link = "closed"
    BY DEF IInv, Basics, ChannelsOK
  <2> USE DEF manager, service, process
  <2>0. TypeOK /\ ChannelsOK /\ Sessions
    BY DEF IInv, Basics
  <2>1. CASE OnDisconnected
    BY <2>0, <2>1, SessionsDisconnected DEF IInv
  <2>2. CASE OnStop
    BY <2>0, <2>2, EventsTail DEF OnStop, Receive, ChannelsOK
  <2>3. CASE Exit
    BY <2>0, <2>3 DEF Exit, ChannelsOK
  <2>4. CASE CreateThread
    <3> DEFINE d == CHOOSE x \in Free : TRUE
               ip == Ips[turn]
    <3>1. conn' = [conn EXCEPT ![d] = [ip |-> ip, running |-> TRUE, thread |-> "run",
                                        link |-> "connecting"]]
      BY <2>4 DEF CreateThread
    <3> HIDE DEF d, ip
    <3> QED  BY <2>0, <3>1 DEF TypeOK
  <2>5. CASE conn' = conn
    BY <2>5
  <2>6. ASSUME NEW d \in Conn,
               LinkUp(d) \/ LinkFails(d) \/ ThreadStops(d) \/ ThreadTimesOut(d) \/ ThreadPanics(d)
        PROVE  FALSE
    BY <2>0, <2>6 DEF LinkUp, LinkFails, ThreadStops, ThreadTimesOut, ThreadEnds, ThreadPanics,
                      TypeOK
  <2> QED
    BY <2>1, <2>2, <2>3, <2>4, <2>5, <2>6
       DEF Next, Manager, SpawnFails, OnConnected, JoinThread, OnMessage, NoEvent, TakeRequest,
           PeerMessage, BroadcastTx, MonitorRequest, Shutdown, WebStops
<1>2. Spec => [][A]_vars
  BY <1>1, Invariance, PTL DEF Spec
<1> QED  BY <1>2 DEF OnlyClosedStopped
=============================================================================
