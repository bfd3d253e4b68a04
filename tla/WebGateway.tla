------------------------------ MODULE WebGateway ------------------------------
(***************************************************************************)
(* How a monitor that a client adds or deletes gets from the Python web    *)
(* interface (python/src/rest_api.py, collection.py) through the Rust one  *)
(* (rust/src/rest_api.rs) to the peer manager thread, which changes the    *)
(* collections and saves the dynamic configuration (tx_analyser.rs,        *)
(* dynamic_config.rs).                                                     *)
(*                                                                         *)
(* Python keeps the names of the monitors in memory.  Its endpoints run in *)
(* a pool of threads: each checks the name, calls the Rust service with a  *)
(* time limit, and changes the names when the answer is 200.  The Rust     *)
(* service answers 200 as soon as the request is in the channel; what      *)
(* becomes of it there the answer does not tell.                           *)
(*                                                                         *)
(* A request refused at a door (no API key, over the rate limit, bad name) *)
(* changes nothing.  Saving truncates the file and then writes it.         *)
(***************************************************************************)
EXTENDS Naturals, Sequences, SequencesExt

CONSTANTS
    Names,       \* the names that clients use for monitors
    Unparsable,  \* those they also use with an address or pattern that does not parse
    Static,      \* the configured collections, a sequence of names
    Worker,      \* threads of Python's pool
    None,
    MaxChan,     \* bound on the requests in the channel
    MaxLate      \* bound on the requests whose caller has gone

Builtin == "broadcast"
Request == [op : {"add", "delete"}, name : Names, parses : {TRUE}] \cup
           [op : {"add"}, name : Unparsable, parses : {FALSE}]

ASSUME WebAssumption ==
    /\ Unparsable \subseteq Names
    /\ MaxChan \in Nat \ {0}
    /\ MaxLate \in Nat
    /\ Static \in Seq(Range(Static)) /\ IsInjective(Static)
    /\ Builtin \notin Range(Static)
    /\ None \notin Request

VARIABLES
    py,             \* the Python service runs
    dynamic_names,  \* Python's Collection.dynamic_names
    call,           \* worker -> the request it handles, or None
    at,             \* worker -> idle, calling, answered, checked
    status,         \* worker -> whether the answer was 200
    late,           \* requests whose caller has gone, not yet served
    mgr,            \* the peer manager: idle, saving, ended
    chan,           \* rx_rest
    collection,     \* the names of the working collections, in order
    dynamic,        \* dynamic_config.collection, in order
    configFile,     \* the file's contents
    whole,          \* the file is not in the middle of a write
    excused         \* history: names that may differ (see NamesAgree)

python == <<py, dynamic_names, call, at, status, late>>
rust == <<mgr, chan, collection, dynamic, configFile, whole>>
vars == <<python, rust, excused>>

LoadCollections(names) == Static \o names \o <<Builtin>>

Init ==
    /\ py = TRUE
    /\ dynamic_names = <<>>
    /\ call = [w \in Worker |-> None]
    /\ at = [w \in Worker |-> "idle"]
    /\ status = [w \in Worker |-> FALSE]
    /\ late = {}
    /\ mgr = "idle"
    /\ chan = <<>>
    /\ collection = LoadCollections(<<>>)
    /\ dynamic = <<>>
    /\ configFile = <<>>
    /\ whole = TRUE
    /\ excused = {Builtin}

-----------------------------------------------------------------------------
(* Python. *)
IsValidDynamic(n) == n \in Range(dynamic_names)
IsValid(n) == n \in Range(Static) \/ IsValidDynamic(n)
IsAccepted(r) == IF r.op = "add" THEN ~IsValid(r.name) ELSE IsValidDynamic(r.name)

(* The thread has answered its client. *)
Idle(w) == /\ at' = [at EXCEPT ![w] = "idle"]
           /\ call' = [call EXCEPT ![w] = None]
           /\ status' = [status EXCEPT ![w] = FALSE]

(* add_monitor and delete_monitor, up to the call of the Rust service. *)
Accept(w, r) ==
    /\ py /\ at[w] = "idle"
    /\ IsAccepted(r)
    /\ at' = [at EXCEPT ![w] = "calling"]
    /\ call' = [call EXCEPT ![w] = r]
    /\ excused' = excused \cup
         {n \in {r.name} : \E v \in Worker : call[v] # None /\ call[v].name = n}
    /\ UNCHANGED <<py, dynamic_names, status, late, rust>>

(* No connection: 503. *)
ConnectionRefused(w) ==
    /\ at[w] = "calling"
    /\ Idle(w)
    /\ UNCHANGED <<py, dynamic_names, late, rust, excused>>

(* A request without a caller is lost or refused, or still served some time. *)
Abandon(requests) ==
    \E r \in SUBSET requests : /\ Cardinality(late \cup r) <= MaxLate
                               /\ late' = late \cup r

(* RUST_REQUEST_TIMEOUT, or a connection that breaks: 504 or 503, whether   *)
(* or not the request was or will be served.                                *)
Timeout(w) ==
    /\ at[w] \in {"calling", "answered"}
    /\ Abandon(IF at[w] = "calling" THEN {call[w]} ELSE {})
    /\ Idle(w)
    /\ excused' = excused \cup {call[w].name}
    /\ UNCHANGED <<py, dynamic_names, rust>>

(* Mutant of TakeAnswer: the status is not looked at.                       *)
TakeAnyAnswer(w) ==
    /\ at[w] = "answered"
    /\ IF IsAccepted(call[w])
       THEN at' = [at EXCEPT ![w] = "checked"] /\ UNCHANGED <<call, status>>
       ELSE Idle(w)
    /\ UNCHANGED <<py, dynamic_names, late, rust, excused>>

(* Another status is passed on.  With 200, Collection.add_monitor or        *)
(* delete_monitor asserts that the name is still as it was...               *)
TakeAnswer(w) ==
    /\ at[w] = "answered"
    /\ IF status[w] /\ IsAccepted(call[w])
       THEN at' = [at EXCEPT ![w] = "checked"] /\ UNCHANGED <<call, status>>
       ELSE Idle(w)
    /\ UNCHANGED <<py, dynamic_names, late, rust, excused>>

(* ...and changes the names; another thread may run in between.             *)
UpdateNames(w) ==
    /\ at[w] = "checked"
    /\ dynamic_names' = IF call[w].op = "add" THEN Append(dynamic_names, call[w].name)
                        ELSE RemoveFirst(dynamic_names, call[w].name)
    /\ Idle(w)
    /\ UNCHANGED <<py, late, rust, excused>>

PythonStops ==
    /\ py
    /\ py' = FALSE
    /\ Abandon({call[w] : w \in {v \in Worker : at[v] = "calling"}})
    /\ call' = [w \in Worker |-> None]
    /\ at' = [w \in Worker |-> "idle"]
    /\ status' = [w \in Worker |-> FALSE]
    /\ UNCHANGED <<dynamic_names, rust, excused>>

UnderWay == {chan[i].name : i \in DOMAIN chan} \cup {r.name : r \in late}

(* set_config reads the names from the file, which it cannot do while the   *)
(* file is empty.                                                           *)
PythonStarts ==
    /\ ~py /\ whole
    /\ py' = TRUE
    /\ dynamic_names' = configFile
    /\ excused' = {Builtin} \cup UnderWay
    /\ UNCHANGED <<call, at, status, late, rust>>

-----------------------------------------------------------------------------
(* The Rust service. *)
ToManager(r) == IF mgr = "ended" THEN UNCHANGED chan ELSE chan' = Append(chan, r)

(* authorize and rate_limit: refused at the door, 401 or 429. *)
Refuse(w) ==
    /\ at[w] = "calling"
    /\ at' = [at EXCEPT ![w] = "answered"]
    /\ UNCHANGED <<py, dynamic_names, call, status, late, rust, excused>>

(* The handlers: sent to the peer manager, which fails when its thread has  *)
(* ended.                                                                   *)
Serve(w) ==
    /\ at[w] = "calling" /\ Len(chan) < MaxChan
    /\ at' = [at EXCEPT ![w] = "answered"]
    /\ ToManager(call[w])
    /\ status' = [status EXCEPT ![w] = mgr # "ended"]
    /\ UNCHANGED <<py, dynamic_names, call, late, mgr, collection, dynamic, configFile, whole, excused>>

ServeLate(r) ==
    /\ r \in late /\ Len(chan) < MaxChan
    /\ late' = late \ {r}
    /\ ToManager(r)
    /\ UNCHANGED <<py, dynamic_names, call, at, status, mgr, collection, dynamic, configFile, whole, excused>>

Receive(op) ==
    /\ mgr = "idle" /\ chan # <<>> /\ Head(chan).op = op
    /\ chan' = Tail(chan)

(* TxAnalyser::add_monitor: ignored when a collection has the name or when  *)
(* address and pattern do not parse.                                        *)
AddMonitor ==
    LET r == Head(chan) IN
    /\ Receive("add")
    /\ IF r.name \notin Range(collection) /\ r.parses
       THEN /\ collection' = Append(collection, r.name)
            /\ dynamic' = Append(dynamic, r.name)
            /\ mgr' = "saving" /\ whole' = FALSE
       ELSE UNCHANGED <<collection, dynamic, mgr, whole>>
    /\ excused' = IF r.parses THEN excused ELSE excused \cup {r.name}
    /\ UNCHANGED <<python, configFile>>

(* Mutant of DeleteMonitor: any collection can be deleted.                  *)
DeleteAny ==
    LET n == Head(chan).name IN
    /\ Receive("delete")
    /\ IF n \in Range(collection)
       THEN /\ collection' = RemoveFirst(collection, n)
            /\ dynamic' = RemoveFirst(dynamic, n)
            /\ mgr' = "saving" /\ whole' = FALSE
       ELSE UNCHANGED <<collection, dynamic, mgr, whole>>
    /\ UNCHANGED <<python, configFile, excused>>

(* TxAnalyser::delete_monitor: ignored unless the name is a dynamic one.    *)
DeleteMonitor ==
    LET n == Head(chan).name IN
    /\ Receive("delete")
    /\ IF n \in Range(dynamic)
       THEN /\ collection' = RemoveFirst(collection, n)
            /\ dynamic' = RemoveFirst(dynamic, n)
            /\ mgr' = "saving" /\ whole' = FALSE
       ELSE UNCHANGED <<collection, dynamic, mgr, whole>>
    /\ UNCHANGED <<python, configFile, excused>>

(* Mutant of SaveDynamicConfig: the contents of before the change.          *)
SaveOld ==
    /\ mgr = "saving"
    /\ whole' = TRUE
    /\ mgr' = "idle"
    /\ UNCHANGED <<python, chan, collection, dynamic, configFile, excused>>

(* save_dynamic_config, behind the truncation. *)
SaveDynamicConfig ==
    /\ mgr = "saving"
    /\ configFile' = dynamic
    /\ whole' = TRUE
    /\ mgr' = "idle"
    /\ UNCHANGED <<python, chan, collection, dynamic, excused>>

Queued == {chan[i].name : i \in DOMAIN chan}

(* The peer manager thread ends; the web server goes on. *)
ManagerEnds ==
    /\ mgr = "idle"
    /\ mgr' = "ended"
    /\ chan' = <<>>
    /\ excused' = excused \cup Queued
    /\ UNCHANGED <<python, collection, dynamic, configFile, whole>>

(* The process ends, anywhere, and starts again: DynamicConfig::new takes   *)
(* what the file says, and a file it cannot parse for an empty one.         *)
RustRestarts ==
    LET names == IF whole THEN configFile ELSE <<>> IN
    /\ mgr' = "idle"
    /\ chan' = <<>>
    /\ dynamic' = names
    /\ collection' = LoadCollections(names)
    /\ excused' = excused \cup Queued \cup (Range(dynamic) \ Range(names))
    /\ UNCHANGED <<python, configFile, whole>>

Next ==
    \/ \E w \in Worker :
          \/ \E r \in Request : Accept(w, r)
          \/ ConnectionRefused(w) \/ Timeout(w) \/ Refuse(w) \/ Serve(w) \/ TakeAnswer(w) \/ UpdateNames(w)
    \/ PythonStops \/ PythonStarts
    \/ \E r \in late : ServeLate(r)
    \/ AddMonitor \/ DeleteMonitor \/ SaveDynamicConfig
    \/ ManagerEnds \/ RustRestarts

Spec == Init /\ [][Next]_vars

-----------------------------------------------------------------------------
(* No call is under way, nothing waits, and Python runs. *)
Quiet == /\ py /\ late = {} /\ chan = <<>> /\ mgr # "saving"
         /\ \A w \in Worker : at[w] = "idle"

(* docs/SystemsRequirements.md API-10: the interface lists the collections  *)
(* of the service.  Once all is quiet, Python lists a monitor exactly when  *)
(* the Rust service has it, and once, with these exceptions: a request for  *)
(* the name timed out, was lost in the channel when the service stopped, or *)
(* had a pattern that does not parse; two requests for it overlapped; or it *)
(* is "broadcast".  A restart of Python ends the exceptions.                *)
NamesAgree ==
    Quiet => \A n \in Names \ excused :
                /\ n \in Range(dynamic_names) <=> n \in Range(dynamic)
                /\ \A i, j \in DOMAIN dynamic_names :
                      dynamic_names[i] = n /\ dynamic_names[j] = n => i = j

(* No sequence of requests, however they overlap, are repeated or come      *)
(* late, deletes or doubles a configured collection or "broadcast", and the *)
(* monitors in use are those of the dynamic configuration, each once.       *)
ConfiguredKept ==
    /\ IsInjective(collection)
    /\ Range(collection) = Range(Static) \cup {Builtin} \cup Range(dynamic)

(* A restart of the Rust service brings back the monitors it had when it    *)
(* stopped; only when it stopped in the middle of saving, or found the file *)
(* of such a stop, it has none.  It never has others, or a part of them.    *)
RestartKeepsMonitors == [][RustRestarts => dynamic' = dynamic \/ (~whole /\ dynamic' = <<>>)]_vars
=============================================================================
