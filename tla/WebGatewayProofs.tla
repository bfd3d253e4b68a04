--------------------------- MODULE WebGatewayProofs ---------------------------
(***************************************************************************)
(* Theorems about the monitors' way from the Python interface through the  *)
(* Rust one to the peer manager, for any names, configured collections,    *)
(* number of Python threads and length of the channel.                     *)
(*                                                                         *)
(* The names Python lists run ahead of the collections by the requests in  *)
(* the channel, and behind them by the answer a thread has not yet taken.  *)
(* For a name without an exception, the requests in the channel add and    *)
(* delete it in turns, and lead from what the service has to what Python   *)
(* lists or, behind an answer 200, is about to list.                       *)
(***************************************************************************)
EXTENDS WebGateway, SequenceLemmas, TLAPS

AllNames == Range(Static) \cup {Builtin} \cup Names

(* The requests Python lets through.                                        *)
Legal == {r \in Request : r.op = "add" => r.name \notin Range(Static)}

Types ==
    /\ call \in [Worker -> Legal \cup {None}]
    /\ at \in [Worker -> {"idle", "calling", "answered", "checked"}]
    /\ status \in [Worker -> BOOLEAN]
    /\ late \subseteq Legal
    /\ chan \in Seq(Legal)
    /\ dynamic_names \in Seq(AllNames)
    /\ \A w \in Worker :
          /\ call[w] = None <=> at[w] = "idle"
          /\ at[w] \in {"idle", "calling"} => ~status[w]
          /\ at[w] = "checked" => status[w]
          /\ ~py => at[w] = "idle"

(* The collections: the monitors are other names than the configured ones,  *)
(* and a file that is whole has the ones in use.                            *)
Monitors(s) == /\ s \in Seq(AllNames) /\ IsInjective(s)
               /\ Range(s) \cap (Range(Static) \cup {Builtin}) = {}
Collections ==
    /\ collection \in Seq(AllNames)
    /\ Monitors(dynamic) /\ Monitors(configFile)
    /\ ConfiguredKept
    /\ mgr = "saving" => ~whole
    /\ whole => configFile = dynamic

(* How often a list has a name that it has at most once. *)
Has(s, n) == IF n \in Range(s) THEN 1 ELSE 0

(* A request for n changes whether the service has it. *)
After(r) == IF r.op = "add" THEN 1 ELSE 0
Effect(r, n, x, y) == IF r.name = n THEN x = 1 - After(r) /\ y = After(r) ELSE y = x

(* The requests s lead from x to y.                                         *)
Leads(v, n, s, x, y) ==
    /\ v \in [0..Len(s) -> {0, 1}] /\ v[0] = x /\ v[Len(s)] = y
    /\ \A i \in 1..Len(s) : Effect(s[i], n, v[i - 1], v[i])
Reaches(n, s, x, y) == \E v \in [0..Len(s) -> {0, 1}] : Leads(v, n, s, x, y)

(* What a thread that handles a request for n may rely on, when the service *)
(* will have n (y = 1) or not once it has served the channel.               *)
Relies(w, n, y) == /\ IsAccepted(call[w])
                   /\ y = IF status[w] THEN After(call[w]) ELSE Has(dynamic_names, n)

Handles(w, n) == call[w] # None /\ call[w].name = n

Agreed(n) ==
    /\ Once(dynamic_names, n)
    /\ \A r \in late : r.name # n
    /\ \A v, w \in Worker : Handles(v, n) /\ Handles(w, n) => v = w
    /\ \E y \in {0, 1} :
          /\ Reaches(n, chan, Has(dynamic, n), y)
          /\ \A w \in Worker : Handles(w, n) => Relies(w, n, y)
          /\ (\A w \in Worker : ~Handles(w, n)) => y = Has(dynamic_names, n)

Agreement == py => \A n \in Names \ excused : Agreed(n)

IInv == Types /\ Collections /\ Builtin \in excused /\ Agreement

-----------------------------------------------------------------------------
(* Without requests a name stays as it is.                                  *)
LEMMA ReachesEmpty ==
    ASSUME NEW n, NEW x \in {0, 1}
    PROVE  Reaches(n, <<>>, x, x)
<1> DEFINE v == [i \in 0..0 |-> x]
<1>1. v \in [0..Len(<<>>) -> {0, 1}] /\ v[0] = x /\ Len(<<>>) = 0
  OBVIOUS
<1> HIDE DEF v
<1>2. Leads(v, n, <<>>, x, x)
  BY <1>1 DEF Leads
<1> QED  BY <1>1, <1>2 DEF Reaches

(* A request sent leads one step further.                                   *)
LEMMA ReachesAppend ==
    ASSUME NEW n, NEW s \in Seq(Legal), NEW x \in {0, 1}, NEW y \in {0, 1}, NEW z \in {0, 1},
           NEW r \in Legal, Reaches(n, s, x, y), Effect(r, n, y, z)
    PROVE  Reaches(n, Append(s, r), x, z)
<1>1. PICK v \in [0..Len(s) -> {0, 1}] : Leads(v, n, s, x, y)
  BY DEF Reaches
<1> DEFINE m == Len(s)
           w == [i \in 0..(m + 1) |-> IF i = m + 1 THEN z ELSE v[i]]
           t == Append(s, r)
<1>2. m \in Nat /\ Len(t) = m + 1 /\ t[m + 1] = r /\ \A i \in 1..m : t[i] = s[i]
  OBVIOUS
<1>3. /\ v \in [0..m -> {0, 1}] /\ v[0] = x /\ v[m] = y
      /\ \A i \in 1..m : Effect(s[i], n, v[i - 1], v[i])
  BY <1>1 DEF Leads
<1> HIDE DEF m, t
<1>4. /\ w \in [0..(m + 1) -> {0, 1}] /\ w[m + 1] = z
      /\ \A i \in 0..m : w[i] = v[i]
  BY <1>2, <1>3
<1> HIDE DEF w
<1>5. w[0] = x
  BY <1>2, <1>3, <1>4
<1>6. ASSUME NEW i \in 1..(m + 1)  PROVE Effect(t[i], n, w[i - 1], w[i])
  <2>1. CASE i = m + 1
    <3>1. i - 1 = m /\ m \in 0..m
      BY <1>2, <2>1
    <3>2. w[i - 1] = y /\ w[i] = z /\ t[i] = r
      BY <1>2, <1>3, <1>4, <2>1, <3>1
    <3> QED  BY <3>2
  <2>2. CASE i # m + 1
    <3>1. i \in 1..m /\ i \in 0..m /\ i - 1 \in 0..m
      BY <1>2, <2>2
    <3>2. w[i - 1] = v[i - 1] /\ w[i] = v[i] /\ t[i] = s[i]
      BY <1>2, <1>4, <3>1
    <3> QED  BY <1>3, <3>1, <3>2
  <2> QED  BY <2>1, <2>2
<1>7. Leads(w, n, t, x, z) /\ w \in [0..Len(t) -> {0, 1}]
  BY <1>2, <1>4, <1>5, <1>6 DEF Leads
<1> QED  BY <1>7 DEF Reaches, t

(* The first request leads to what the rest starts from.                    *)
LEMMA ReachesHead ==
    ASSUME NEW n, NEW s \in Seq(Legal), NEW x, NEW y, Reaches(n, s, x, y), s # <<>>
    PROVE  \E z \in {0, 1} : Effect(Head(s), n, x, z) /\ Reaches(n, Tail(s), z, y)
<1>1. PICK v \in [0..Len(s) -> {0, 1}] : Leads(v, n, s, x, y)
  BY DEF Reaches
<1> DEFINE m == Len(s)
           w == [i \in 0..(m - 1) |-> v[i + 1]]
           t == Tail(s)
<1>2. /\ m \in Nat \ {0} /\ Len(t) = m - 1 /\ \A i \in 1..(m - 1) : t[i] = s[i + 1]
      /\ Head(s) = s[1]
  OBVIOUS
<1>3. /\ v \in [0..m -> {0, 1}] /\ v[0] = x /\ v[m] = y
      /\ \A i \in 1..m : Effect(s[i], n, v[i - 1], v[i])
  BY <1>1 DEF Leads
<1> HIDE DEF m, t
<1>4. w \in [0..(m - 1) -> {0, 1}] /\ w[0] = v[1] /\ w[m - 1] = y /\ v[1] \in {0, 1}
  BY <1>2, <1>3
<1>5. ASSUME NEW i \in 1..(m - 1)  PROVE Effect(t[i], n, w[i - 1], w[i])
  <2>1. i + 1 \in 1..m /\ (i + 1) - 1 = i /\ (i - 1) + 1 = i /\ i \in 0..(m - 1) /\ i - 1 \in 0..(m - 1)
    BY <1>2
  <2>2. Effect(s[i + 1], n, v[(i + 1) - 1], v[i + 1])
    BY <1>3, <2>1
  <2>3. w[i - 1] = v[i] /\ w[i] = v[i + 1] /\ t[i] = s[i + 1]
    BY <1>2, <2>1
  <2> QED  BY <2>1, <2>2, <2>3
<1> HIDE DEF w
<1>6. Leads(w, n, t, v[1], y) /\ w \in [0..Len(t) -> {0, 1}]
  BY <1>2, <1>4, <1>5 DEF Leads
<1>7. Effect(Head(s), n, x, v[1])
  <2>1. 1 \in 1..m /\ 1 - 1 = 0
    BY <1>2
  <2>2. Effect(s[1], n, v[1 - 1], v[1])
    BY <1>3, <2>1
  <2> QED  BY <1>2, <1>3, <2>1, <2>2
<1> QED  BY <1>4, <1>6, <1>7 DEF Reaches, t

(* Requests for other names change nothing.                                 *)
LEMMA NoRequest ==
    ASSUME NEW n, NEW s \in Seq(Legal), NEW x, NEW y, Reaches(n, s, x, y),
           \A i \in 1..Len(s) : s[i].name # n
    PROVE  y = x
<1>1. PICK v \in [0..Len(s) -> {0, 1}] : Leads(v, n, s, x, y)
  BY DEF Reaches
<1>2. /\ v[0] = x /\ v[Len(s)] = y /\ Len(s) \in Nat
      /\ \A i \in 1..Len(s) : v[i] = v[i - 1]
  BY <1>1 DEF Leads, Effect
<1> DEFINE T == {i \in 0..Len(s) : v[i] # x}
<1>3. T = {}
  <2> SUFFICES ASSUME T # {}  PROVE FALSE
    OBVIOUS
  <2>1. T \in SUBSET Nat
    BY <1>2
  <2>2. PICK k \in T : \A j \in T : k <= j
    BY <2>1, LeastNat
  <2>3. k \in 1..Len(s) /\ k - 1 \in 0..Len(s) /\ k - 1 < k
    BY <1>2, <2>2
  <2>4. v[k - 1] = x
    BY <2>1, <2>2, <2>3
  <2> QED  BY <1>2, <2>2, <2>3, <2>4
<1>4. Len(s) \in 0..Len(s)
  BY <1>2
<1> QED  BY <1>2, <1>3, <1>4

(* Requests for other names leave a name as it is.                          *)
LEMMA OthersReach ==
    ASSUME NEW n, NEW s \in Seq(Legal), NEW x \in {0, 1}, \A i \in 1..Len(s) : s[i].name # n
    PROVE  Reaches(n, s, x, x)
<1> DEFINE v == [i \in 0..Len(s) |-> x]
<1>1. Len(s) \in Nat /\ v \in [0..Len(s) -> {0, 1}] /\ \A i \in 0..Len(s) : v[i] = x
  OBVIOUS
<1> HIDE DEF v
<1>2. \A i \in 1..Len(s) : i \in 0..Len(s) /\ i - 1 \in 0..Len(s)
  BY <1>1
<1>3. 0 \in 0..Len(s) /\ Len(s) \in 0..Len(s)
  BY <1>1
<1>4. Leads(v, n, s, x, x)
  BY <1>1, <1>2, <1>3 DEF Leads, Effect
<1> QED  BY <1>1, <1>4 DEF Reaches

-----------------------------------------------------------------------------
(* What Python accepts is a request for a monitor, and no None.             *)
LEMMA LegalFacts ==
    /\ None \notin Legal /\ Names \subseteq AllNames
    /\ \A r \in Legal : r.op \in {"add", "delete"} /\ r.name \in Names /\ r.name \in AllNames
BY WebAssumption DEF Legal, Request, AllNames

(* At the start both services have the configured collections only.         *)
LEMMA InitInv == Init => IInv
<1> SUFFICES ASSUME Init  PROVE IInv
  OBVIOUS
<1>1. Types
  <2>1. /\ call = [w \in Worker |-> None] /\ at = [w \in Worker |-> "idle"]
        /\ status = [w \in Worker |-> FALSE] /\ late = {} /\ chan = <<>> /\ dynamic_names = <<>>
    BY DEF Init
  <2>2. /\ call \in [Worker -> Legal \cup {None}] /\ status \in [Worker -> BOOLEAN]
        /\ at \in [Worker -> {"idle", "calling", "answered", "checked"}]
    BY <2>1
  <2>3. \A w \in Worker : call[w] = None /\ at[w] = "idle" /\ ~status[w]
    BY <2>1
  <2> QED  BY <2>1, <2>2, <2>3 DEF Types
<1>2. Collections
  <2>1. /\ collection = Static \o <<>> \o <<Builtin>> /\ dynamic = <<>> /\ configFile = <<>>
        /\ mgr = "idle"
    BY DEF Init, LoadCollections
  <2>2. Monitors(<<>>)
    BY DEF Monitors, IsInjective, Range
  <2>3. Static \in Seq(AllNames) /\ Builtin \in AllNames
    BY WebAssumption DEF AllNames
  <2>4. collection = Append(Static, Builtin)
    BY <2>1, <2>3
  <2>5. \A e : Once(Static, e)
    BY WebAssumption, InjectiveOnce
  <2>6. /\ collection \in Seq(AllNames) /\ Range(collection) = Range(Static) \cup {Builtin}
        /\ \A e : Once(collection, e)
    BY <2>3, <2>4, <2>5, AppendElements, WebAssumption
  <2>7. Range(dynamic) = {}
    BY <2>1 DEF Range
  <2>8. ConfiguredKept
    BY <2>6, <2>7, InjectiveOnce DEF ConfiguredKept
  <2> QED  BY <2>1, <2>2, <2>6, <2>8 DEF Collections
<1>3. Agreement
  <2> SUFFICES ASSUME NEW n \in Names  PROVE Agreed(n)
    BY DEF Agreement
  <2>1. /\ call = [w \in Worker |-> None] /\ late = {} /\ chan = <<>> /\ dynamic_names = <<>>
        /\ dynamic = <<>>
    BY DEF Init
  <2>2. \A w \in Worker : ~Handles(w, n)
    BY <2>1 DEF Handles
  <2>3. Once(dynamic_names, n)
    BY <2>1 DEF Once
  <2>4. Has(dynamic, n) = Has(dynamic_names, n) /\ Has(dynamic, n) \in {0, 1}
    BY <2>1 DEF Has
  <2>5. Reaches(n, chan, Has(dynamic, n), Has(dynamic, n))
    BY <2>1, <2>4, ReachesEmpty
  <2> QED  BY <2>1, <2>2, <2>3, <2>4, <2>5 DEF Agreed
<1>4. Builtin \in excused
  BY DEF Init
<1> QED  BY <1>1, <1>2, <1>3, <1>4 DEF IInv

-----------------------------------------------------------------------------
(* A thread of Python's takes a step: its place, its request, its answer.   *)
Moves(w, a, c, s) == /\ at' = [at EXCEPT ![w] = a]
                     /\ call' = [call EXCEPT ![w] = c]
                     /\ status' = [status EXCEPT ![w] = s]

(* A thread moves on and the others stay.                                   *)
LEMMA MovesFacts ==
    ASSUME Types, NEW w \in Worker, NEW a, NEW c, NEW s, Moves(w, a, c, s)
    PROVE  /\ at'[w] = a /\ call'[w] = c /\ status'[w] = s
           /\ \A v \in Worker : v # w => call'[v] = call[v] /\ at'[v] = at[v] /\ status'[v] = status[v]
<1>1. /\ call \in [Worker -> Legal \cup {None}] /\ status \in [Worker -> BOOLEAN]
      /\ at \in [Worker -> {"idle", "calling", "answered", "checked"}]
  BY DEF Types
<1>2. at'[w] = a /\ \A v \in Worker : v # w => at'[v] = at[v]
  BY <1>1 DEF Moves
<1>3. call'[w] = c /\ \A v \in Worker : v # w => call'[v] = call[v]
  BY <1>1 DEF Moves
<1>4. status'[w] = s /\ \A v \in Worker : v # w => status'[v] = status[v]
  BY <1>1 DEF Moves
<1> QED  BY <1>2, <1>3, <1>4

(* A thread moves on within the types.                                      *)
LEMMA MovesTypes ==
    ASSUME Types, NEW w \in Worker, NEW a \in {"idle", "calling", "answered", "checked"},
           NEW c \in Legal \cup {None}, NEW s \in BOOLEAN, Moves(w, a, c, s), UNCHANGED py,
           c = None <=> a = "idle", a \in {"idle", "calling"} => ~s, a = "checked" => s,
           ~py => a = "idle",
           late' \subseteq Legal, chan' \in Seq(Legal), dynamic_names' \in Seq(AllNames)
    PROVE  Types'
<1>1. /\ call' = [call EXCEPT ![w] = c] /\ at' = [at EXCEPT ![w] = a]
      /\ status' = [status EXCEPT ![w] = s]
  BY DEF Moves
<1>2. /\ call' \in [Worker -> Legal \cup {None}] /\ status' \in [Worker -> BOOLEAN]
      /\ at' \in [Worker -> {"idle", "calling", "answered", "checked"}]
  BY <1>1 DEF Types
<1>3. /\ call'[w] = c /\ at'[w] = a /\ status'[w] = s
      /\ \A v \in Worker : v # w => call'[v] = call[v] /\ at'[v] = at[v] /\ status'[v] = status[v]
  BY MovesFacts
<1>4. ASSUME NEW v \in Worker
      PROVE  /\ call'[v] = None <=> at'[v] = "idle"
             /\ at'[v] \in {"idle", "calling"} => ~status'[v]
             /\ at'[v] = "checked" => status'[v]
             /\ ~py' => at'[v] = "idle"
  <2>1. CASE v = w
    BY <1>3, <2>1
  <2>2. CASE v # w
    BY <1>3, <2>2 DEF Types
  <2> QED  BY <2>1, <2>2
<1> QED  BY <1>2, <1>4 DEF Types

(* A step that leaves the threads and the names.                            *)
LEMMA SameTypes == ASSUME Types, UNCHANGED <<py, dynamic_names, call, at, status>>,
                          late' \subseteq Legal, chan' \in Seq(Legal)
                   PROVE  Types'
BY DEF Types

(* Which step each action is.                                               *)
LEMMA Steps ==
    ASSUME Types, NEW w \in Worker
    PROVE  /\ \A r \in Request : Accept(w, r) => Moves(w, "calling", r, FALSE)
           /\ Idle(w) => Moves(w, "idle", None, FALSE)
           /\ Refuse(w) => Moves(w, "answered", call[w], FALSE)
           /\ Serve(w) => Moves(w, "answered", call[w], mgr # "ended")
           /\ TakeAnswer(w) => \/ Idle(w)
                               \/ status[w] /\ IsAccepted(call[w]) /\ Moves(w, "checked", call[w], TRUE)
<1>1. call \in [Worker -> Legal \cup {None}] /\ status \in [Worker -> BOOLEAN]
  BY DEF Types
<1>2. call = [call EXCEPT ![w] = call[w]] /\ status = [status EXCEPT ![w] = status[w]]
  BY <1>1
<1>3. at[w] \in {"idle", "calling"} => status[w] = FALSE
  BY <1>1 DEF Types
<1>4. status[w] => status[w] = TRUE
  BY <1>1
<1>5. ASSUME NEW r \in Request, Accept(w, r)  PROVE Moves(w, "calling", r, FALSE)
  BY <1>2, <1>3, <1>5 DEF Accept, Moves
<1>6. Idle(w) => Moves(w, "idle", None, FALSE)
  BY DEF Idle, Moves
<1>7. Refuse(w) => Moves(w, "answered", call[w], FALSE)
  BY <1>2, <1>3 DEF Refuse, Moves
<1>8. Serve(w) => Moves(w, "answered", call[w], mgr # "ended")
  BY <1>2 DEF Serve, Moves
<1>9. TakeAnswer(w) => \/ Idle(w)
                       \/ status[w] /\ IsAccepted(call[w]) /\ Moves(w, "checked", call[w], TRUE)
  BY <1>2, <1>4 DEF TakeAnswer, Moves
<1> QED  BY <1>5, <1>6, <1>7, <1>8, <1>9

(* A request that reaches the channel was accepted by Python.               *)
LEMMA ToManagerType ==
    ASSUME Types, NEW r \in Legal, ToManager(r)
    PROVE  chan' \in Seq(Legal)
BY SMTT(30) DEF Types, ToManager

(* The steps of a Python thread and its request.                            *)
LEMMA ThreadTypes ==
    ASSUME IInv, NEW w \in Worker,
           \/ \E r \in Request : Accept(w, r)
           \/ ConnectionRefused(w) \/ Timeout(w) \/ Refuse(w) \/ Serve(w) \/ TakeAnswer(w) \/ UpdateNames(w)
    PROVE  Types'
<1>1. /\ Types /\ late \subseteq Legal /\ chan \in Seq(Legal) /\ dynamic_names \in Seq(AllNames)
      /\ call[w] \in Legal \cup {None} /\ None \notin Legal
      /\ at[w] # "idle" => call[w] \in Legal /\ py
  BY LegalFacts DEF IInv, Types
<1>2. ASSUME Idle(w), UNCHANGED py, late' \subseteq Legal, chan' \in Seq(Legal),
             dynamic_names' \in Seq(AllNames)
      PROVE  Types'
  <2>1. Moves(w, "idle", None, FALSE)
    BY <1>1, <1>2, Steps
  <2> QED  BY <1>1, <1>2, <2>1, MovesTypes
<1>3. ASSUME NEW r \in Request, Accept(w, r)  PROVE Types'
  <2>1. Moves(w, "calling", r, FALSE)
    BY <1>1, <1>3, Steps
  <2>2. r \in Legal
    BY <1>3 DEF Accept, IsAccepted, IsValid, Legal
  <2>3. /\ py /\ py' = py /\ late' = late /\ chan' = chan /\ dynamic_names' = dynamic_names
    BY <1>3 DEF Accept, rust
  <2> QED  BY <1>1, <2>1, <2>2, <2>3, MovesTypes
<1>4. CASE ConnectionRefused(w)
  BY <1>1, <1>2, <1>4 DEF ConnectionRefused, rust
<1>5. CASE Timeout(w)
  <2>1. late' \subseteq Legal
    BY <1>1, <1>5 DEF Timeout, Abandon
  <2> QED  BY <1>1, <1>2, <1>5, <2>1 DEF Timeout, rust
<1>6. CASE Refuse(w)
  <2>1. Moves(w, "answered", call[w], FALSE)
    BY <1>1, <1>6, Steps
  <2>2. /\ at[w] = "calling" /\ py' = py /\ late' = late /\ chan' = chan
        /\ dynamic_names' = dynamic_names
    BY <1>6 DEF Refuse, rust
  <2> QED  BY <1>1, <2>1, <2>2, MovesTypes
<1>7. CASE Serve(w)
  <2>1. Moves(w, "answered", call[w], mgr # "ended") /\ (mgr # "ended") \in BOOLEAN
    BY <1>1, <1>7, Steps
  <2>2. /\ at[w] = "calling" /\ py' = py /\ late' = late /\ ToManager(call[w])
        /\ dynamic_names' = dynamic_names
    BY <1>7 DEF Serve
  <2>3. chan' \in Seq(Legal)
    BY <1>1, <2>2, ToManagerType
  <2> QED  BY <1>1, <2>1, <2>2, <2>3, MovesTypes
<1>8. CASE TakeAnswer(w)
  <2>1. \/ Idle(w)
        \/ status[w] /\ IsAccepted(call[w]) /\ Moves(w, "checked", call[w], TRUE)
    BY <1>1, <1>8, Steps
  <2>2. /\ at[w] = "answered" /\ py' = py /\ late' = late /\ chan' = chan
        /\ dynamic_names' = dynamic_names
    BY <1>8 DEF TakeAnswer, rust
  <2>3. CASE Idle(w)
    BY <1>1, <1>2, <2>2, <2>3
  <2>4. CASE Moves(w, "checked", call[w], TRUE)
    BY <1>1, <2>2, <2>4, MovesTypes
  <2> QED  BY <2>1, <2>3, <2>4
<1>9. CASE UpdateNames(w)
  <2>1. /\ at[w] = "checked" /\ Idle(w) /\ py' = py /\ late' = late /\ chan' = chan
        /\ \/ dynamic_names' = Append(dynamic_names, call[w].name)
           \/ dynamic_names' = RemoveFirst(dynamic_names, call[w].name)
    BY <1>9 DEF UpdateNames, rust
  <2>2. call[w].name \in AllNames
    BY <1>1, <2>1, LegalFacts
  <2>3. /\ Append(dynamic_names, call[w].name) \in Seq(AllNames)
        /\ RemoveFirst(dynamic_names, call[w].name) \in Seq(AllNames)
    BY <1>1, <2>2, AppendElements, RemoveFirstElements
  <2> QED  BY <1>1, <1>2, <2>1, <2>3
<1> QED  BY <1>3, <1>4, <1>5, <1>6, <1>7, <1>8, <1>9

(* Every step keeps the types.                                              *)
LEMMA NextTypes == ASSUME IInv, [Next]_vars  PROVE Types'
<1>1. /\ Types /\ late \subseteq Legal /\ chan \in Seq(Legal) /\ dynamic_names \in Seq(AllNames)
      /\ configFile \in Seq(AllNames)
      /\ \A w \in Worker : at[w] # "idle" => call[w] \in Legal
  BY LegalFacts DEF IInv, Types, Collections, Monitors
<1>2. CASE PythonStops
  <2>1. /\ call' = [w \in Worker |-> None] /\ at' = [w \in Worker |-> "idle"]
        /\ status' = [w \in Worker |-> FALSE] /\ chan' = chan /\ dynamic_names' = dynamic_names
    BY <1>2 DEF PythonStops, rust
  <2>2. late' \subseteq Legal
    BY <1>1, <1>2 DEF PythonStops, Abandon
  <2>3. /\ call' \in [Worker -> Legal \cup {None}] /\ status' \in [Worker -> BOOLEAN]
        /\ at' \in [Worker -> {"idle", "calling", "answered", "checked"}]
    BY <2>1
  <2>4. \A w \in Worker : call'[w] = None /\ at'[w] = "idle" /\ ~status'[w]
    BY <2>1
  <2> QED  BY <1>1, <2>1, <2>2, <2>3, <2>4 DEF Types
<1>3. CASE PythonStarts
  <2>1. /\ py' = TRUE /\ dynamic_names' = configFile /\ call' = call /\ at' = at /\ status' = status
        /\ late' = late /\ chan' = chan
    BY <1>3 DEF PythonStarts, rust
  <2> QED  BY <1>1, <2>1 DEF Types
<1>4. ASSUME NEW r \in late, ServeLate(r)  PROVE Types'
  <2>1. chan' \in Seq(Legal)
    BY <1>1, <1>4, ToManagerType DEF ServeLate
  <2> QED  BY <1>1, <1>4, <2>1, SameTypes DEF ServeLate
<1>5. CASE AddMonitor \/ DeleteMonitor
  <2>1. chan' = Tail(chan) /\ chan # <<>> /\ UNCHANGED python
    BY <1>5 DEF AddMonitor, DeleteMonitor, Receive
  <2>2. chan' \in Seq(Legal)
    BY <1>1, <2>1, HeadTailProperties
  <2> QED  BY <1>1, <2>1, <2>2, SameTypes DEF python
<1>6. CASE SaveDynamicConfig \/ ManagerEnds \/ RustRestarts \/ UNCHANGED vars
  <2>1. (chan' = chan \/ chan' = <<>>) /\ UNCHANGED python
    BY <1>6 DEF SaveDynamicConfig, ManagerEnds, RustRestarts, vars, rust
  <2>2. <<>> \in Seq(Legal) /\ chan \in Seq(Legal)
    BY <1>1
  <2>3. chan' \in Seq(Legal)
    BY <2>1, <2>2
  <2> QED  BY <1>1, <2>1, <2>3, SameTypes DEF python
<1> QED  BY <1>2, <1>3, <1>4, <1>5, <1>6, ThreadTypes DEF Next

-----------------------------------------------------------------------------
(* The collections a start builds.                                          *)
LEMMA LoadFacts ==
    ASSUME NEW names, Monitors(names)
    PROVE  /\ LoadCollections(names) \in Seq(AllNames)
           /\ IsInjective(LoadCollections(names))
           /\ Range(LoadCollections(names)) = Range(Static) \cup {Builtin} \cup Range(names)
<1> DEFINE all == Static \o names
<1>1. /\ names \in Seq(AllNames) /\ Static \in Seq(AllNames) /\ Builtin \in AllNames
      /\ \A i, j \in 1..Len(names) : names[i] = names[j] => i = j
      /\ \A i, j \in 1..Len(Static) : Static[i] = Static[j] => i = j
      /\ \A i \in 1..Len(names) : names[i] \notin Range(Static) /\ names[i] # Builtin
      /\ Range(names) = {names[i] : i \in 1..Len(names)}
      /\ Range(Static) = {Static[i] : i \in 1..Len(Static)} /\ Builtin \notin Range(Static)
  <2>1. names \in Seq(AllNames) /\ DOMAIN names = 1..Len(names) /\ IsInjective(names)
    BY DEF Monitors
  <2>2. Static \in Seq(AllNames) /\ DOMAIN Static = 1..Len(Static) /\ IsInjective(Static)
        /\ Builtin \notin Range(Static)
    BY WebAssumption DEF AllNames
  <2>3. \A i \in 1..Len(names) : names[i] \notin Range(Static) /\ names[i] # Builtin
    BY <2>1 DEF Monitors, Range
  <2> QED  BY <2>1, <2>2, <2>3 DEF IsInjective, Range, AllNames
<1>2. /\ all \in Seq(AllNames) /\ Len(all) = Len(Static) + Len(names)
      /\ Len(Static) \in Nat /\ Len(names) \in Nat
      /\ \A i \in 1..Len(all) : all[i] = IF i <= Len(Static) THEN Static[i] ELSE names[i - Len(Static)]
  BY <1>1, ConcatProperties
<1> HIDE DEF all
<1>3. DOMAIN all = 1..Len(all)
  BY <1>2
<1>4. \A i \in 1..Len(all) : /\ i <= Len(Static) => i \in 1..Len(Static) /\ all[i] = Static[i]
                             /\ i > Len(Static) => /\ i - Len(Static) \in 1..Len(names)
                                                   /\ all[i] = names[i - Len(Static)]
  BY <1>2
<1>5. IsInjective(all)
  <2> SUFFICES ASSUME NEW i \in 1..Len(all), NEW j \in 1..Len(all), all[i] = all[j]  PROVE i = j
    BY <1>3 DEF IsInjective
  <2>1. CASE i <= Len(Static) /\ j <= Len(Static)
    BY <1>1, <1>4, <2>1
  <2>2. CASE i > Len(Static) /\ j > Len(Static)
    <3>1. i - Len(Static) = j - Len(Static)
      BY <1>1, <1>4, <2>2, ZenonT(60)
    <3> QED  BY <1>2, <3>1
  <2>3. CASE i <= Len(Static) /\ j > Len(Static)
    <3>1. all[i] \in Range(Static) /\ all[j] \notin Range(Static)
      BY <1>1, <1>4, <2>3
    <3> QED  BY <3>1
  <2>4. CASE i > Len(Static) /\ j <= Len(Static)
    <3>1. all[j] \in Range(Static) /\ all[i] \notin Range(Static)
      BY <1>1, <1>4, <2>4
    <3> QED  BY <3>1
  <2> QED  BY <1>2, <2>1, <2>2, <2>3, <2>4
<1>6. Range(all) = Range(Static) \cup Range(names)
  <2>1. ASSUME NEW i \in 1..Len(all)  PROVE all[i] \in Range(Static) \cup Range(names)
    BY <1>1, <1>2, <1>4
  <2>2. ASSUME NEW i \in 1..Len(Static)  PROVE i \in 1..Len(all) /\ all[i] = Static[i]
    BY <1>2
  <2>3. ASSUME NEW i \in 1..Len(names)
        PROVE  Len(Static) + i \in 1..Len(all) /\ all[Len(Static) + i] = names[i]
    <3>1. Len(Static) + i \in 1..Len(all) /\ ~(Len(Static) + i <= Len(Static))
          /\ (Len(Static) + i) - Len(Static) = i
      BY <1>2
    <3> QED  BY <1>2, <3>1
  <2>4. Range(all) = {all[i] : i \in 1..Len(all)}
    BY <1>3 DEF Range
  <2>5. Range(Static) \subseteq Range(all)
    BY <1>1, <2>2, <2>4
  <2>6. Range(names) \subseteq Range(all)
    BY <1>1, <2>3, <2>4
  <2> QED  BY <2>1, <2>4, <2>5, <2>6
<1>7. Builtin \notin Range(all)
  BY <1>1, <1>6
<1>8. \A e : Once(all, e)
  BY <1>5, InjectiveOnce
<1>9. /\ Append(all, Builtin) \in Seq(AllNames) /\ Range(Append(all, Builtin)) = Range(all) \cup {Builtin}
      /\ \A e : Once(Append(all, Builtin), e)
  BY <1>1, <1>2, <1>7, <1>8, AppendElements
<1>10. LoadCollections(names) = Append(all, Builtin)
  <2>1. all \o <<Builtin>> = Append(all, Builtin)
    BY <1>1, <1>2
  <2> QED  BY <2>1 DEF LoadCollections, all
<1> QED  BY <1>6, <1>9, <1>10, InjectiveOnce

(* A step that leaves collections and configuration.                        *)
LEMMA SameCollections ==
    ASSUME Collections, UNCHANGED <<collection, dynamic, configFile, whole>>,
           mgr' = "saving" => mgr = "saving"
    PROVE  Collections'
BY DEF Collections, Monitors, ConfiguredKept

(* What becomes of the monitors when one is added or deleted.               *)
LEMMA AddMonitorFacts ==
    ASSUME Collections, Types, AddMonitor
    PROVE  /\ Collections'
           /\ LET r == Head(chan) IN
              /\ r \in Legal
              /\ \A n \in Names : n # r.name => Has(dynamic', n) = Has(dynamic, n)
              /\ r.parses /\ r.name \notin Range(collection) => Has(dynamic', r.name) = 1
<1> DEFINE r == Head(chan)
<1>1. r \in Legal /\ r.name \in AllNames
  <2>1. chan \in Seq(Legal) /\ chan # <<>>
    BY DEF Types, AddMonitor, Receive
  <2>2. r \in Legal
    BY <2>1, HeadTailProperties
  <2> QED  BY <2>2, LegalFacts
<1>2. configFile' = configFile /\ r.op = "add" /\ mgr = "idle"
  BY DEF AddMonitor, Receive
<1>3. CASE r.name \notin Range(collection) /\ r.parses
  <2>1. /\ collection' = Append(collection, r.name) /\ dynamic' = Append(dynamic, r.name)
        /\ mgr' = "saving" /\ whole' = FALSE
    BY <1>3 DEF AddMonitor
  <2> HIDE DEF r
  <2>2. /\ collection \in Seq(AllNames) /\ dynamic \in Seq(AllNames)
        /\ (\A e : Once(collection, e)) /\ (\A e : Once(dynamic, e))
        /\ Range(collection) = Range(Static) \cup {Builtin} \cup Range(dynamic)
        /\ Range(dynamic) \cap (Range(Static) \cup {Builtin}) = {} /\ Monitors(configFile)
    BY InjectiveOnce DEF Collections, ConfiguredKept, Monitors
  <2>3. /\ collection' \in Seq(AllNames) /\ Range(collection') = Range(collection) \cup {r.name}
        /\ \A e : Once(collection', e)
    <3>1. r.name \notin Range(collection)
      BY <1>3
    <3>2. /\ Append(collection, r.name) \in Seq(AllNames)
          /\ Range(Append(collection, r.name)) = Range(collection) \cup {r.name}
          /\ \A e : Once(Append(collection, r.name), e)
      BY <1>1, <2>2, <3>1, AppendElements
    <3> QED  BY <2>1, <3>2
  <2>4. r.name \notin Range(dynamic) \cup Range(Static) \cup {Builtin}
    BY <1>3, <2>2
  <2>5. /\ dynamic' \in Seq(AllNames) /\ Range(dynamic') = Range(dynamic) \cup {r.name}
        /\ \A e : Once(dynamic', e)
    <3>1. r.name \notin Range(dynamic)
      BY <2>4
    <3>2. /\ Append(dynamic, r.name) \in Seq(AllNames)
          /\ Range(Append(dynamic, r.name)) = Range(dynamic) \cup {r.name}
          /\ \A e : Once(Append(dynamic, r.name), e)
      BY <1>1, <2>2, <3>1, AppendElements
    <3> QED  BY <2>1, <3>2
  <2>6. IsInjective(collection') /\ IsInjective(dynamic')
    BY <2>3, <2>5, InjectiveOnce
  <2>7. Monitors(dynamic')
    BY <2>2, <2>4, <2>5, <2>6 DEF Monitors
  <2>8. ConfiguredKept'
    BY <2>2, <2>3, <2>5, <2>6 DEF ConfiguredKept
  <2>9. Collections'
    BY <1>2, <2>1, <2>2, <2>3, <2>7, <2>8 DEF Collections, Monitors
  <2> QED  BY <1>1, <2>5, <2>9 DEF Has, r
<1>4. CASE ~(r.name \notin Range(collection) /\ r.parses)
  <2>1. UNCHANGED <<collection, dynamic, mgr, whole>>
    BY <1>4 DEF AddMonitor
  <2>2. Collections'
    BY <1>2, <2>1, SameCollections
  <2> QED  BY <1>1, <1>4, <2>1, <2>2
<1> QED  BY <1>3, <1>4

(* delete_monitor removes the name it is asked for and no other.            *)
LEMMA DeleteMonitorFacts ==
    ASSUME Collections, Types, DeleteMonitor
    PROVE  /\ Collections'
           /\ Head(chan) \in Legal
           /\ \A n \in Names : n # Head(chan).name => Has(dynamic', n) = Has(dynamic, n)
           /\ Has(dynamic', Head(chan).name) = 0
<1> DEFINE n == Head(chan).name
<1>1. Head(chan) \in Legal
  <2>1. chan \in Seq(Legal) /\ chan # <<>>
    BY DEF Types, DeleteMonitor, Receive
  <2> QED  BY <2>1, HeadTailProperties
<1>2. configFile' = configFile /\ mgr = "idle"
  BY DEF DeleteMonitor, Receive
<1>3. CASE n \in Range(dynamic)
  <2>1. /\ collection' = RemoveFirst(collection, n) /\ dynamic' = RemoveFirst(dynamic, n)
        /\ mgr' = "saving" /\ whole' = FALSE
    BY <1>3 DEF DeleteMonitor
  <2> HIDE DEF n
  <2>2. /\ collection \in Seq(AllNames) /\ dynamic \in Seq(AllNames)
        /\ (\A e : Once(collection, e)) /\ (\A e : Once(dynamic, e))
        /\ Range(collection) = Range(Static) \cup {Builtin} \cup Range(dynamic)
        /\ Range(dynamic) \cap (Range(Static) \cup {Builtin}) = {} /\ Monitors(configFile)
    BY InjectiveOnce DEF Collections, ConfiguredKept, Monitors
  <2>3. /\ collection' \in Seq(AllNames) /\ Range(collection') = Range(collection) \ {n}
        /\ \A e : Once(collection', e)
    BY <2>1, <2>2, RemoveFirstElements
  <2>4. /\ dynamic' \in Seq(AllNames) /\ Range(dynamic') = Range(dynamic) \ {n}
        /\ \A e : Once(dynamic', e)
    BY <2>1, <2>2, RemoveFirstElements
  <2>5. IsInjective(collection') /\ IsInjective(dynamic')
    BY <2>3, <2>4, InjectiveOnce
  <2>6. Monitors(dynamic')
    BY <2>2, <2>4, <2>5 DEF Monitors
  <2>7. n \notin Range(Static) \cup {Builtin}
    BY <1>3, <2>2
  <2>8. ConfiguredKept'
    BY <2>2, <2>3, <2>4, <2>5, <2>7 DEF ConfiguredKept
  <2>9. Collections'
    BY <1>2, <2>1, <2>2, <2>3, <2>6, <2>8 DEF Collections, Monitors
  <2> QED  BY <1>1, <2>4, <2>9 DEF Has, n
<1>4. CASE n \notin Range(dynamic)
  <2>1. UNCHANGED <<collection, dynamic, mgr, whole>>
    BY <1>4 DEF DeleteMonitor
  <2>2. Collections'
    BY <1>2, <2>1, SameCollections
  <2> QED  BY <1>1, <1>4, <2>1, <2>2 DEF Has
<1> QED  BY <1>3, <1>4

(* Every step keeps collections and configuration consistent.               *)
LEMMA NextCollections == ASSUME IInv, [Next]_vars  PROVE Collections'
<1>1. Collections /\ Types
  BY DEF IInv
<1>2. CASE UNCHANGED rust
  BY <1>1, <1>2, SameCollections DEF rust
<1>3. ASSUME NEW w \in Worker, Serve(w)  PROVE Collections'
  BY <1>1, <1>3, SameCollections DEF Serve
<1>4. ASSUME NEW r \in late, ServeLate(r)  PROVE Collections'
  BY <1>1, <1>4, SameCollections DEF ServeLate
<1>5. CASE AddMonitor
  BY <1>1, <1>5, AddMonitorFacts
<1>6. CASE DeleteMonitor
  BY <1>1, <1>6, DeleteMonitorFacts
<1>7. CASE SaveDynamicConfig
  BY <1>1, <1>7 DEF SaveDynamicConfig, Collections, Monitors, ConfiguredKept
<1>8. CASE ManagerEnds
  <2>1. UNCHANGED <<collection, dynamic, configFile, whole>> /\ mgr' = "ended"
    BY <1>8 DEF ManagerEnds
  <2> QED  BY <1>1, <2>1, SameCollections
<1>9. CASE RustRestarts
  <2> DEFINE names == IF whole THEN configFile ELSE <<>>
  <2>1. /\ mgr' = "idle" /\ dynamic' = names /\ collection' = LoadCollections(names)
        /\ configFile' = configFile /\ whole' = whole
    BY <1>9 DEF RustRestarts
  <2>2. Monitors(<<>>)
    BY DEF Monitors, IsInjective, Range
  <2>3. Monitors(names) /\ Monitors(configFile)
    BY <1>1, <2>2 DEF Collections
  <2>4. /\ collection' \in Seq(AllNames) /\ IsInjective(collection')
        /\ Range(collection') = Range(Static) \cup {Builtin} \cup Range(dynamic')
    BY <2>1, <2>3, LoadFacts
  <2>5. Monitors(dynamic') /\ Monitors(configFile')
    BY <2>1, <2>3
  <2>6. ConfiguredKept'
    BY <2>4 DEF ConfiguredKept
  <2> QED  BY <2>1, <2>4, <2>5, <2>6 DEF Collections, Monitors
<1>10. ASSUME NEW w \in Worker,
              \/ \E r \in Request : Accept(w, r)
              \/ ConnectionRefused(w) \/ Timeout(w) \/ Refuse(w) \/ TakeAnswer(w) \/ UpdateNames(w)
       PROVE  UNCHANGED rust
  BY <1>10 DEF Accept, ConnectionRefused, Timeout, Refuse, TakeAnswer, UpdateNames
<1>11. PythonStops \/ PythonStarts \/ UNCHANGED vars => UNCHANGED rust
  BY DEF PythonStops, PythonStarts, vars
<1> QED  BY <1>2, <1>3, <1>4, <1>5, <1>6, <1>7, <1>8, <1>9, <1>10, <1>11 DEF Next

-----------------------------------------------------------------------------
(* The agreement about one name, for each thing that can happen to it.      *)
LEMMA SameAgreed ==
    ASSUME NEW n, Agreed(n), UNCHANGED <<call, status, dynamic_names>>,
           \A r \in late' : r.name # n,
           \A y \in {0, 1} : Reaches(n, chan, Has(dynamic, n), y)
                             => Reaches(n, chan', Has(dynamic', n), y)
    PROVE  Agreed(n)'
<1>1. PICK y \in {0, 1} : /\ Reaches(n, chan, Has(dynamic, n), y)
                          /\ \A w \in Worker : Handles(w, n) => Relies(w, n, y)
                          /\ (\A w \in Worker : ~Handles(w, n)) => y = Has(dynamic_names, n)
  BY DEF Agreed
<1>2. \A w \in Worker : Handles(w, n)' = Handles(w, n) /\ Relies(w, n, y)' = Relies(w, n, y)
  BY DEF Handles, Relies, IsAccepted, IsValid, IsValidDynamic
<1>3. Once(dynamic_names', n) /\ Has(dynamic_names', n) = Has(dynamic_names, n)
  BY DEF Agreed
<1>4. \A v, w \in Worker : Handles(v, n)' /\ Handles(w, n)' => v = w
  BY <1>2 DEF Agreed
<1>5. Reaches(n, chan', Has(dynamic', n), y)
  BY <1>1
<1> QED  BY <1>1, <1>2, <1>3, <1>4, <1>5 DEF Agreed

(* A thread with a request for another name.                                *)
LEMMA OtherThread ==
    ASSUME NEW n, Agreed(n), Types, NEW w \in Worker, NEW a, NEW c, NEW s, Moves(w, a, c, s),
           ~Handles(w, n), c # None => c.name # n,
           Once(dynamic_names', n), Has(dynamic_names', n) = Has(dynamic_names, n),
           \A r \in late' : r.name # n, UNCHANGED dynamic,
           \A y \in {0, 1} : Reaches(n, chan, Has(dynamic, n), y)
                             => Reaches(n, chan', Has(dynamic, n), y)
    PROVE  Agreed(n)'
<1>1. PICK y \in {0, 1} : /\ Reaches(n, chan, Has(dynamic, n), y)
                          /\ \A v \in Worker : Handles(v, n) => Relies(v, n, y)
                          /\ (\A v \in Worker : ~Handles(v, n)) => y = Has(dynamic_names, n)
  BY DEF Agreed
<1>2. /\ call'[w] = c
      /\ \A v \in Worker : v # w => call'[v] = call[v] /\ status'[v] = status[v]
  BY MovesFacts
<1>3. \A v \in Worker : Handles(v, n)' <=> Handles(v, n)
  BY <1>2 DEF Handles
<1>4. n \in Range(dynamic_names') <=> n \in Range(dynamic_names)
  BY DEF Has
<1>5. ASSUME NEW v \in Worker, Handles(v, n)  PROVE Relies(v, n, y)'
  <2>1. v # w /\ call[v].name = n
    BY <1>5 DEF Handles
  <2>2. Relies(v, n, y)
    BY <1>1, <1>5
  <2>3. call'[v] = call[v] /\ status'[v] = status[v]
    BY <1>2, <2>1
  <2>4. IsAccepted(call[v])'
    BY <1>4, <2>1, <2>2, <2>3 DEF Relies, IsAccepted, IsValid, IsValidDynamic
  <2> QED  BY <2>2, <2>3, <2>4 DEF Relies
<1>6. \A u, v \in Worker : Handles(u, n)' /\ Handles(v, n)' => u = v
  BY <1>3 DEF Agreed
<1>7. Reaches(n, chan', Has(dynamic', n), y)
  BY <1>1
<1> QED  BY <1>1, <1>3, <1>5, <1>6, <1>7 DEF Agreed

(* The thread with the request for this name.                               *)
LEMMA OwnThread ==
    ASSUME NEW n, Agreed(n), Types, NEW w \in Worker, NEW a, NEW c, NEW s, Moves(w, a, c, s),
           \A v \in Worker : Handles(v, n) => v = w,
           Once(dynamic_names', n), \A r \in late' : r.name # n, UNCHANGED dynamic,
           NEW y \in {0, 1}, Reaches(n, chan', Has(dynamic, n), y),
           c # None /\ c.name = n => Relies(w, n, y)',
           ~(c # None /\ c.name = n) => y = Has(dynamic_names', n)
    PROVE  Agreed(n)'
<1>1. /\ call'[w] = c
      /\ \A v \in Worker : v # w => call'[v] = call[v]
  BY MovesFacts
<1>2. \A v \in Worker : Handles(v, n)' => v = w
  BY <1>1 DEF Handles
<1>3. Handles(w, n)' <=> c # None /\ c.name = n
  BY <1>1 DEF Handles
<1>4. \A v \in Worker : Handles(v, n)' => Relies(v, n, y)'
  BY <1>2, <1>3
<1>5. (\A v \in Worker : ~Handles(v, n)') => y = Has(dynamic_names', n)
  BY <1>3
<1>6. Reaches(n, chan', Has(dynamic', n), y)
  OBVIOUS
<1> QED  BY <1>2, <1>4, <1>5, <1>6 DEF Agreed

(* A request for another name goes into the channel.                        *)
LEMMA OtherSent ==
    ASSUME NEW n, Types, NEW r \in Legal, r.name # n, ToManager(r), NEW x \in {0, 1}, NEW y \in {0, 1},
           Reaches(n, chan, x, y)
    PROVE  Reaches(n, chan', x, y)
<1>1. Effect(r, n, y, y)
  BY DEF Effect
<1>2. Reaches(n, Append(chan, r), x, y)
  BY <1>1, ReachesAppend DEF Types
<1> QED  BY <1>2 DEF ToManager

(* Has, as a number.                                                        *)
LEMMA HasFacts == \A s, n : Has(s, n) \in {0, 1} /\ (Has(s, n) = 1 <=> n \in Range(s))
BY DEF Has

(* What the agreement gives the thread that handles a request for the name. *)
LEMMA OwnFacts ==
    ASSUME NEW n, Agreed(n), Types, NEW w \in Worker, Handles(w, n)
    PROVE  /\ \A v \in Worker : Handles(v, n) => v = w
           /\ IsAccepted(call[w]) /\ Once(dynamic_names, n) /\ \A r \in late : r.name # n
           /\ call[w] \in Legal /\ call[w].name = n /\ call[w].op \in {"add", "delete"}
           /\ After(call[w]) = 1 - Has(dynamic_names, n) /\ After(call[w]) \in {0, 1}
           /\ status[w] => Reaches(n, chan, Has(dynamic, n), After(call[w]))
           /\ ~status[w] => Reaches(n, chan, Has(dynamic, n), Has(dynamic_names, n))
<1>1. PICK y \in {0, 1} : Reaches(n, chan, Has(dynamic, n), y) /\ Relies(w, n, y)
  BY DEF Agreed
<1>2. call[w] \in Legal /\ call[w].name = n /\ call[w].op \in {"add", "delete"}
  BY LegalFacts DEF Types, Handles
<1>3. After(call[w]) = 1 - Has(dynamic_names, n) /\ After(call[w]) \in {0, 1}
  <2>1. IsAccepted(call[w])
    BY <1>1 DEF Relies
  <2>2. CASE call[w].op = "add"
    <3>1. n \notin Range(dynamic_names)
      BY <1>2, <2>1, <2>2 DEF IsAccepted, IsValid, IsValidDynamic
    <3> QED  BY <2>2, <3>1 DEF After, Has
  <2>3. CASE call[w].op = "delete"
    <3>1. n \in Range(dynamic_names)
      BY <1>2, <2>1, <2>3 DEF IsAccepted, IsValid, IsValidDynamic
    <3> QED  BY <2>3, <3>1 DEF After, Has
  <2> QED  BY <1>2, <2>2, <2>3
<1>4. /\ status[w] => Reaches(n, chan, Has(dynamic, n), After(call[w]))
      /\ ~status[w] => Reaches(n, chan, Has(dynamic, n), Has(dynamic_names, n))
  BY <1>1 DEF Relies
<1>5. IsAccepted(call[w])
  BY <1>1 DEF Relies
<1> QED  BY <1>2, <1>3, <1>4, <1>5 DEF Agreed

(* Python accepts a request: alone for its name, or the name is excused.    *)
LEMMA AcceptAgreed ==
    ASSUME IInv, NEW w \in Worker, NEW r \in Request, Accept(w, r),
           NEW n, Agreed(n), n \notin excused'
    PROVE  Agreed(n)'
<1>1. Types /\ Moves(w, "calling", r, FALSE) /\ r # None
  BY Steps, WebAssumption DEF IInv
<1>2. /\ at[w] = "idle" /\ dynamic_names' = dynamic_names /\ late' = late /\ chan' = chan
      /\ dynamic' = dynamic /\ IsAccepted(r)
      /\ excused' = excused \cup {m \in {r.name} : \E v \in Worker : call[v] # None /\ call[v].name = m}
  BY DEF Accept, rust
<1>3. Once(dynamic_names', n) /\ \A q \in late' : q.name # n
  BY <1>2 DEF Agreed
<1>4. CASE r.name # n
  <2>1. ~Handles(w, n)
    BY <1>1, <1>2 DEF Types, Handles
  <2> QED  BY <1>1, <1>2, <1>3, <1>4, <2>1, OtherThread
<1>5. CASE r.name = n
  <2>1. \A v \in Worker : ~Handles(v, n)
    BY <1>2, <1>5 DEF Handles
  <2>2. PICK y \in {0, 1} : Reaches(n, chan, Has(dynamic, n), y) /\ y = Has(dynamic_names, n)
    BY <2>1 DEF Agreed
  <2>3. call'[w] = r /\ ~status'[w]
    BY <1>1 DEF Moves, Types
  <2>4. IsAccepted(r)'
    BY <1>2 DEF IsAccepted, IsValid, IsValidDynamic
  <2>5. Relies(w, n, y)'
    BY <1>2, <2>2, <2>3, <2>4 DEF Relies
  <2>6. Reaches(n, chan', Has(dynamic, n), y)
    BY <1>2, <2>2
  <2> QED  BY <1>1, <1>2, <1>3, <1>5, <2>1, <2>5, <2>6, OwnThread
<1> QED  BY <1>4, <1>5

(* The thread answers without a change of the names.                        *)
LEMMA GiveUpAgreed ==
    ASSUME IInv, NEW w \in Worker, Idle(w), ~status[w], NEW n, Agreed(n),
           UNCHANGED <<dynamic_names, late, chan, dynamic>>
    PROVE  Agreed(n)'
<1>1. Types /\ Moves(w, "idle", None, FALSE)
  BY Steps DEF IInv
<1>2. Once(dynamic_names', n) /\ \A q \in late' : q.name # n
  BY DEF Agreed
<1>3. CASE ~Handles(w, n)
  BY <1>1, <1>2, <1>3, OtherThread
<1>4. CASE Handles(w, n)
  <2>1. /\ \A v \in Worker : Handles(v, n) => v = w
        /\ Reaches(n, chan, Has(dynamic, n), Has(dynamic_names, n))
    BY <1>1, <1>4, OwnFacts
  <2>2. Has(dynamic_names, n) \in {0, 1} /\ Has(dynamic_names', n) = Has(dynamic_names, n)
    BY HasFacts
  <2>3. Reaches(n, chan', Has(dynamic, n), Has(dynamic_names, n))
    BY <2>1
  <2> QED  BY <1>1, <1>2, <2>1, <2>2, <2>3, OwnThread
<1> QED  BY <1>3, <1>4

(* Python gives a request up: its name is excused.                          *)
LEMMA TimeoutAgreed ==
    ASSUME IInv, NEW w \in Worker, Timeout(w), NEW n, Agreed(n), n \notin excused'
    PROVE  Agreed(n)'
<1>1. Types /\ Moves(w, "idle", None, FALSE)
  BY Steps DEF IInv, Timeout
<1>2. /\ dynamic_names' = dynamic_names /\ chan' = chan /\ dynamic' = dynamic
      /\ call[w].name # n /\ late' \subseteq late \cup {call[w]}
  BY DEF Timeout, Abandon, rust
<1>3. Once(dynamic_names', n) /\ \A q \in late' : q.name # n
  BY <1>2 DEF Agreed
<1>4. ~Handles(w, n)
  BY <1>2 DEF Handles
<1> QED  BY <1>1, <1>2, <1>3, <1>4, OtherThread

(* The thread goes on with the answer, and the names stay as they are.      *)
LEMMA GoesOnAgreed ==
    ASSUME IInv, NEW w \in Worker, NEW a, Moves(w, a, call[w], status[w]), NEW n, Agreed(n),
           UNCHANGED <<dynamic_names, late, chan, dynamic>>
    PROVE  Agreed(n)'
<1>1. call' = call /\ status' = status
  BY DEF Moves, IInv, Types
<1>2. \A q \in late' : q.name # n
  BY DEF Agreed
<1> QED  BY <1>1, <1>2, SameAgreed

(* The Rust server passes the request on and answers Success.               *)
LEMMA ServeAgreed ==
    ASSUME IInv, NEW w \in Worker, Serve(w), NEW n, Agreed(n)
    PROVE  Agreed(n)'
<1>1. Types /\ Moves(w, "answered", call[w], mgr # "ended")
  BY Steps DEF IInv
<1>2. /\ at[w] = "calling" /\ dynamic_names' = dynamic_names /\ dynamic' = dynamic /\ late' = late
      /\ ToManager(call[w])
  BY DEF Serve
<1>3. Once(dynamic_names', n) /\ \A q \in late' : q.name # n
  BY <1>2 DEF Agreed
<1>4. call[w] \in Legal /\ call[w] # None /\ ~status[w] /\ chan \in Seq(Legal)
  BY <1>1, <1>2 DEF Types
<1>5. CASE call[w].name # n
  <2>1. ~Handles(w, n) /\ Has(dynamic, n) \in {0, 1}
    BY <1>5, HasFacts DEF Handles
  <2>2. \A y \in {0, 1} : Reaches(n, chan, Has(dynamic, n), y) => Reaches(n, chan', Has(dynamic, n), y)
    BY <1>1, <1>2, <1>4, <1>5, <2>1, OtherSent
  <2> QED  BY <1>1, <1>2, <1>3, <1>5, <2>1, <2>2, OtherThread
<1>6. CASE call[w].name = n
  <2>1. Handles(w, n)
    BY <1>4, <1>6 DEF Handles
  <2>2. /\ \A v \in Worker : Handles(v, n) => v = w
        /\ IsAccepted(call[w]) /\ After(call[w]) = 1 - Has(dynamic_names, n) /\ After(call[w]) \in {0, 1}
        /\ Reaches(n, chan, Has(dynamic, n), Has(dynamic_names, n))
    BY <1>1, <1>4, <2>1, OwnFacts
  <2>3. Has(dynamic, n) \in {0, 1} /\ Has(dynamic_names, n) \in {0, 1}
    BY HasFacts
  <2>4. call'[w] = call[w] /\ status'[w] = (mgr # "ended")
    BY <1>1, MovesFacts
  <2>5. IsAccepted(call[w])'
    BY <1>2, <2>2, <2>4 DEF IsAccepted, IsValid, IsValidDynamic
  <2>6. CASE mgr = "ended"
    <3>1. Reaches(n, chan', Has(dynamic, n), Has(dynamic_names, n))
      BY <1>2, <2>2, <2>6 DEF ToManager
    <3>2. ~status'[w]
      BY <2>4, <2>6
    <3>3. PICK y \in {0, 1} : y = Has(dynamic_names, n)
      BY <2>3
    <3>4. Relies(w, n, y)' /\ y = Has(dynamic_names', n)
      BY <1>2, <2>4, <2>5, <3>2, <3>3 DEF Relies
    <3>5. Reaches(n, chan', Has(dynamic, n), y)
      BY <3>1, <3>3
    <3> QED  BY <1>1, <1>2, <1>3, <2>2, <3>4, <3>5, OwnThread
  <2>7. CASE mgr # "ended"
    <3>1. Effect(call[w], n, Has(dynamic_names, n), After(call[w]))
      BY <1>6, <2>2, <2>3 DEF Effect
    <3>2. chan' = Append(chan, call[w])
      BY <1>2, <2>7 DEF ToManager
    <3>3. Reaches(n, chan', Has(dynamic, n), After(call[w]))
      BY <1>4, <2>2, <2>3, <3>1, <3>2, ReachesAppend
    <3>4. status'[w]
      BY <2>4, <2>7
    <3>5. PICK y \in {0, 1} : y = After(call[w])
      BY <2>2
    <3>6. Relies(w, n, y)'
      BY <2>4, <2>5, <3>4, <3>5 DEF Relies
    <3>7. Reaches(n, chan', Has(dynamic, n), y)
      BY <3>3, <3>5
    <3> QED  BY <1>1, <1>2, <1>3, <1>4, <1>6, <2>2, <3>6, <3>7, OwnThread
  <2> QED  BY <2>6, <2>7
<1> QED  BY <1>5, <1>6

(* The thread takes the answer; the names follow later.                     *)
LEMMA TakeAnswerAgreed ==
    ASSUME IInv, NEW w \in Worker, TakeAnswer(w), NEW n, Agreed(n)
    PROVE  Agreed(n)'
<1>1. Types
  BY DEF IInv
<1>2. UNCHANGED <<dynamic_names, late, chan, dynamic>>
  BY DEF TakeAnswer, rust
<1>3. CASE status[w] /\ IsAccepted(call[w])
  <2>1. call' = call /\ status' = status
    BY <1>3 DEF TakeAnswer
  <2>2. \A q \in late' : q.name # n
    BY <1>2 DEF Agreed
  <2> QED  BY <1>2, <2>1, <2>2, SameAgreed
<1>4. CASE ~status[w]
  <2>1. Idle(w)
    BY <1>4 DEF TakeAnswer
  <2> QED  BY <1>2, <1>4, <2>1, GiveUpAgreed
<1>5. CASE ~IsAccepted(call[w])
  <2>1. Moves(w, "idle", None, FALSE)
    BY <1>1, <1>5, Steps DEF TakeAnswer
  <2>2. ~Handles(w, n)
    BY <1>1, <1>5, OwnFacts
  <2>3. Once(dynamic_names', n) /\ \A q \in late' : q.name # n
    BY <1>2 DEF Agreed
  <2> QED  BY <1>1, <1>2, <2>1, <2>2, <2>3, OtherThread
<1> QED  BY <1>3, <1>4, <1>5

(* The names follow: what Python lists is what it was going to list.        *)
LEMMA UpdateNamesAgreed ==
    ASSUME IInv, NEW w \in Worker, UpdateNames(w), NEW n, Agreed(n)
    PROVE  Agreed(n)'
<1>1. Types /\ Moves(w, "idle", None, FALSE)
  BY Steps DEF IInv, UpdateNames
<1>2. /\ at[w] = "checked" /\ late' = late /\ chan' = chan /\ dynamic' = dynamic
      /\ dynamic_names' = IF call[w].op = "add" THEN Append(dynamic_names, call[w].name)
                          ELSE RemoveFirst(dynamic_names, call[w].name)
  BY DEF UpdateNames, rust
<1>3. /\ call[w] \in Legal /\ call[w] # None /\ status[w] /\ dynamic_names \in Seq(AllNames)
      /\ call[w].name \in AllNames
  BY <1>1, <1>2, LegalFacts DEF Types
<1>4. Once(dynamic_names, n) /\ \A q \in late' : q.name # n
  BY <1>2 DEF Agreed
<1> DEFINE m == call[w].name
<1>5. /\ Range(Append(dynamic_names, m)) = Range(dynamic_names) \cup {m}
      /\ Once(dynamic_names, n) /\ (n = m => n \notin Range(dynamic_names))
             => Once(Append(dynamic_names, m), n)
  BY <1>3, AppendElements
<1>6. /\ Range(RemoveFirst(dynamic_names, m)) \subseteq Range(dynamic_names)
      /\ Range(dynamic_names) \ {m} \subseteq Range(RemoveFirst(dynamic_names, m))
      /\ Once(dynamic_names, m) => m \notin Range(RemoveFirst(dynamic_names, m))
      /\ Once(RemoveFirst(dynamic_names, m), n)
  BY <1>3, <1>4, RemoveFirstElements
<1>7. CASE m # n
  <2>1. ~Handles(w, n)
    BY <1>7 DEF Handles
  <2>2. Once(dynamic_names', n)
    BY <1>2, <1>4, <1>5, <1>6, <1>7
  <2>3. n \in Range(dynamic_names') <=> n \in Range(dynamic_names)
    BY <1>2, <1>5, <1>6, <1>7
  <2>4. Has(dynamic_names', n) = Has(dynamic_names, n)
    BY <2>3 DEF Has
  <2> QED  BY <1>1, <1>2, <1>4, <2>1, <2>2, <2>4, OtherThread
<1>8. CASE m = n
  <2>1. Handles(w, n)
    BY <1>3, <1>8 DEF Handles
  <2>2. /\ \A v \in Worker : Handles(v, n) => v = w
        /\ call[w].op \in {"add", "delete"}
        /\ After(call[w]) = 1 - Has(dynamic_names, n) /\ After(call[w]) \in {0, 1}
        /\ Reaches(n, chan, Has(dynamic, n), After(call[w]))
    BY <1>1, <1>3, <2>1, OwnFacts
  <2>3. CASE call[w].op = "add"
    <3>1. After(call[w]) = 1 /\ n \notin Range(dynamic_names)
      BY <2>2, <2>3 DEF After, Has
    <3>2. Once(dynamic_names', n) /\ n \in Range(dynamic_names')
      BY <1>2, <1>4, <1>5, <1>8, <2>3, <3>1
    <3>3. 1 = Has(dynamic_names', n)
      BY <3>2 DEF Has
    <3>4. Reaches(n, chan', Has(dynamic, n), 1)
      BY <1>2, <2>2, <3>1
    <3> QED  BY <1>1, <1>2, <1>4, <2>2, <3>2, <3>3, <3>4, OwnThread
  <2>4. CASE call[w].op = "delete"
    <3>1. After(call[w]) = 0
      BY <2>4 DEF After
    <3>2. Once(dynamic_names', n) /\ n \notin Range(dynamic_names')
      BY <1>2, <1>4, <1>6, <1>8, <2>4
    <3>3. 0 = Has(dynamic_names', n)
      BY <3>2 DEF Has
    <3>4. Reaches(n, chan', Has(dynamic, n), 0)
      BY <1>2, <2>2, <3>1
    <3> QED  BY <1>1, <1>2, <1>4, <2>2, <3>2, <3>3, <3>4, OwnThread
  <2> QED  BY <2>2, <2>3, <2>4
<1> QED  BY <1>7, <1>8

(* A request whose caller has gone is for an excused name.                  *)
LEMMA ServeLateAgreed ==
    ASSUME IInv, NEW r \in late, ServeLate(r), NEW n, Agreed(n)
    PROVE  Agreed(n)'
<1>1. /\ late' = late \ {r} /\ ToManager(r) /\ UNCHANGED <<call, status, dynamic_names>>
      /\ dynamic' = dynamic
  BY DEF ServeLate
<1>2. Types /\ r \in Legal /\ r.name # n /\ \A q \in late' : q.name # n
  BY <1>1 DEF IInv, Types, Agreed
<1>3. Has(dynamic, n) \in {0, 1}
  BY HasFacts
<1>4. \A y \in {0, 1} : Reaches(n, chan, Has(dynamic, n), y) => Reaches(n, chan', Has(dynamic', n), y)
  BY <1>1, <1>2, <1>3, OtherSent
<1> QED  BY <1>1, <1>2, <1>4, SameAgreed

(* The peer manager serves the request at the head of the channel.          *)
LEMMA ServedAgreed ==
    ASSUME IInv, AddMonitor \/ DeleteMonitor, NEW n \in Names, n # Builtin, n \notin excused', Agreed(n)
    PROVE  Agreed(n)'
<1>1. Types /\ Collections /\ chan \in Seq(Legal)
  BY DEF IInv, Types
<1>2. /\ chan # <<>> /\ chan' = Tail(chan) /\ UNCHANGED <<call, status, dynamic_names, late>>
      /\ Head(chan).op = IF AddMonitor THEN "add" ELSE "delete"
  BY DEF AddMonitor, DeleteMonitor, Receive, python
<1>3. \A q \in late' : q.name # n
  BY <1>2 DEF Agreed
<1>4. ASSUME NEW x \in {0, 1}, Effect(Head(chan), n, Has(dynamic, n), x)
      PROVE  Has(dynamic', n) = x
  <2>1. CASE AddMonitor
    <3>1. /\ Head(chan) \in Legal /\ Head(chan).op = "add"
          /\ n # Head(chan).name => Has(dynamic', n) = Has(dynamic, n)
          /\ Head(chan).parses /\ Head(chan).name \notin Range(collection)
                => Has(dynamic', Head(chan).name) = 1
      BY <1>1, <1>2, <2>1, AddMonitorFacts
    <3>2. CASE Head(chan).name # n
      BY <1>4, <3>1, <3>2 DEF Effect
    <3>3. CASE Head(chan).name = n
      <4>1. Has(dynamic, n) = 0 /\ x = 1
        BY <1>4, <3>1, <3>3 DEF Effect, After
      <4>2. n \notin Range(dynamic) /\ n \notin Range(Static)
        BY <3>1, <3>3, <4>1 DEF Has, Legal
      <4>3. n \notin Range(collection)
        BY <1>1, <4>2 DEF Collections, ConfiguredKept
      <4>4. Head(chan).parses
        BY <2>1, <3>3 DEF AddMonitor
      <4> QED  BY <3>1, <3>3, <4>1, <4>3, <4>4
    <3> QED  BY <3>2, <3>3
  <2>2. CASE DeleteMonitor
    <3>1. /\ Head(chan).op = "delete"
          /\ n # Head(chan).name => Has(dynamic', n) = Has(dynamic, n)
          /\ Has(dynamic', Head(chan).name) = 0
      BY <1>1, <2>2, DeleteMonitorFacts DEF DeleteMonitor, Receive
    <3> QED  BY <1>4, <3>1 DEF Effect, After
  <2> QED  BY <2>1, <2>2
<1>5. ASSUME NEW y \in {0, 1}, Reaches(n, chan, Has(dynamic, n), y)
      PROVE  Reaches(n, chan', Has(dynamic', n), y)
  <2>1. PICK z \in {0, 1} : Effect(Head(chan), n, Has(dynamic, n), z) /\ Reaches(n, Tail(chan), z, y)
    BY <1>1, <1>2, <1>5, ReachesHead
  <2> QED  BY <1>2, <1>4, <2>1
<1> QED  BY <1>2, <1>3, <1>5, SameAgreed

(* The channel is lost.                                                     *)
LEMMA LostAgreed ==
    ASSUME IInv, ManagerEnds \/ RustRestarts, NEW n, n \notin excused', Agreed(n)
    PROVE  Agreed(n)'
<1>1. chan \in Seq(Legal) /\ DOMAIN chan = 1..Len(chan)
  BY DEF IInv, Types
<1>2. chan' = <<>> /\ UNCHANGED <<call, status, dynamic_names, late>> /\ n \notin Queued
  BY DEF ManagerEnds, RustRestarts, python
<1>3. \A i \in 1..Len(chan) : chan[i].name # n
  BY <1>1, <1>2 DEF Queued
<1>4. Has(dynamic', n) = Has(dynamic, n)
  <2>1. CASE ManagerEnds
    BY <2>1 DEF ManagerEnds
  <2>2. CASE RustRestarts
    <3>1. CASE whole
      BY <2>2, <3>1 DEF RustRestarts, IInv, Collections
    <3>2. CASE ~whole
      <4>1. dynamic' = <<>> /\ n \notin Range(dynamic) \ Range(<<>>)
        BY <2>2, <3>2 DEF RustRestarts
      <4>2. Range(<<>>) = {}
        BY DEF Range
      <4> QED  BY <4>1, <4>2 DEF Has
    <3> QED  BY <3>1, <3>2
  <2> QED  BY <2>1, <2>2
<1>5. ASSUME NEW y \in {0, 1}, Reaches(n, chan, Has(dynamic, n), y)
      PROVE  Reaches(n, chan', Has(dynamic', n), y)
  <2>1. y = Has(dynamic, n)
    BY <1>1, <1>3, <1>5, NoRequest
  <2>2. Reaches(n, <<>>, y, y)
    BY ReachesEmpty
  <2> QED  BY <1>2, <1>4, <2>1, <2>2
<1>6. \A q \in late' : q.name # n
  BY <1>2 DEF Agreed
<1> QED  BY <1>2, <1>5, <1>6, SameAgreed

(* Python starts from the file.                                             *)
LEMMA PythonStartsAgreed ==
    ASSUME IInv, PythonStarts, NEW n, n \notin excused'
    PROVE  Agreed(n)'
<1>1. /\ ~py /\ whole /\ dynamic_names' = configFile /\ n \notin UnderWay
      /\ UNCHANGED <<call, at, status, late, chan, dynamic>>
  BY DEF PythonStarts, rust
<1>2. configFile = dynamic /\ \A e : Once(configFile, e)
  BY <1>1, InjectiveOnce DEF IInv, Collections, Monitors
<1>3. \A w \in Worker : ~Handles(w, n)'
  BY <1>1 DEF IInv, Types, Handles
<1>4. /\ chan' \in Seq(Legal) /\ \A q \in late' : q.name # n
      /\ \A i \in 1..Len(chan') : chan'[i].name # n
  <2>1. chan \in Seq(Legal) /\ DOMAIN chan = 1..Len(chan)
    BY DEF IInv, Types
  <2> QED  BY <1>1, <2>1 DEF UnderWay
<1>5. Has(dynamic', n) = Has(dynamic_names', n) /\ Has(dynamic', n) \in {0, 1}
  BY <1>1, <1>2, HasFacts
<1> DEFINE y == Has(dynamic', n)
<1>6. Reaches(n, chan', y, y)
  BY <1>4, <1>5, OthersReach
<1> QED  BY <1>1, <1>2, <1>3, <1>4, <1>5, <1>6 DEF Agreed

(* Every step keeps the agreement on each name that is not excused.         *)
LEMMA NextAgreement == ASSUME IInv, [Next]_vars  PROVE Agreement' /\ Builtin \in excused'
<1>1. Builtin \in excused'
  <2>1. Builtin \in excused
    BY DEF IInv
  <2>2. PythonStarts => Builtin \in excused'
    BY DEF PythonStarts
  <2>3. excused \subseteq excused' \/ PythonStarts
    BY DEF Next, Accept, ConnectionRefused, Timeout, Refuse, Serve, TakeAnswer, UpdateNames, PythonStops,
           ServeLate, AddMonitor, DeleteMonitor, SaveDynamicConfig, ManagerEnds, RustRestarts, vars
  <2> QED  BY <2>1, <2>2, <2>3
<1>2. SUFFICES ASSUME py', NEW n \in Names, n \notin excused'  PROVE Agreed(n)'
  BY <1>1 DEF Agreement
<1>3. CASE PythonStarts
  BY <1>2, <1>3, PythonStartsAgreed
<1>4. CASE PythonStops
  BY <1>2, <1>4 DEF PythonStops
<1>5. CASE ~PythonStarts /\ ~PythonStops
  <2>0. ASSUME NEW w \in Worker,
               \/ \E r \in Request : Accept(w, r)
               \/ ConnectionRefused(w) \/ Timeout(w) \/ Refuse(w) \/ Serve(w) \/ TakeAnswer(w) \/ UpdateNames(w)
        PROVE  excused \subseteq excused' /\ py' = py
    BY <2>0 DEF Accept, ConnectionRefused, Timeout, Refuse, Serve, TakeAnswer, UpdateNames
  <2>1. excused \subseteq excused' /\ py' = py
    <3>1. ASSUME NEW r \in late, ServeLate(r)  PROVE excused \subseteq excused' /\ py' = py
      BY <3>1 DEF ServeLate
    <3>2. CASE AddMonitor \/ DeleteMonitor \/ SaveDynamicConfig \/ ManagerEnds \/ RustRestarts
               \/ UNCHANGED vars
      BY <3>2 DEF AddMonitor, DeleteMonitor, SaveDynamicConfig, ManagerEnds, RustRestarts, vars, python
    <3> QED  BY <1>5, <2>0, <3>1, <3>2 DEF Next
  <2>2. Agreed(n) /\ n # Builtin /\ Types
    BY <1>1, <1>2, <2>1 DEF IInv, Agreement
  <2>3. ASSUME NEW w \in Worker,
               \/ \E r \in Request : Accept(w, r)
               \/ ConnectionRefused(w) \/ Timeout(w) \/ Refuse(w) \/ Serve(w) \/ TakeAnswer(w) \/ UpdateNames(w)
        PROVE  Agreed(n)'
    <3>1. CASE \E r \in Request : Accept(w, r)
      BY <1>2, <2>2, <3>1, AcceptAgreed
    <3>2. CASE ConnectionRefused(w)
      <4>1. Idle(w) /\ ~status[w] /\ UNCHANGED <<dynamic_names, late, chan, dynamic>>
        BY <2>2, <3>2 DEF ConnectionRefused, rust, Types
      <4> QED  BY <2>2, <4>1, GiveUpAgreed
    <3>3. CASE Timeout(w)
      BY <1>2, <2>2, <3>3, TimeoutAgreed
    <3>4. CASE Refuse(w)
      <4>1. UNCHANGED <<call, status, dynamic_names, late, chan, dynamic>>
        BY <3>4 DEF Refuse, rust
      <4>2. \A q \in late' : q.name # n
        BY <2>2, <4>1 DEF Agreed
      <4> QED  BY <2>2, <4>1, <4>2, SameAgreed
    <3>5. CASE Serve(w)
      BY <2>2, <3>5, ServeAgreed
    <3>6. CASE TakeAnswer(w)
      BY <2>2, <3>6, TakeAnswerAgreed
    <3>7. CASE UpdateNames(w)
      BY <2>2, <3>7, UpdateNamesAgreed
    <3> QED  BY <2>3, <3>1, <3>2, <3>3, <3>4, <3>5, <3>6, <3>7
  <2>4. ASSUME NEW r \in late, ServeLate(r)  PROVE Agreed(n)'
    BY <2>2, <2>4, ServeLateAgreed
  <2>5. CASE AddMonitor \/ DeleteMonitor
    BY <1>2, <2>2, <2>5, ServedAgreed
  <2>6. CASE SaveDynamicConfig \/ UNCHANGED vars
    <3>1. UNCHANGED <<call, status, dynamic_names, late, chan, dynamic>>
      BY <2>6 DEF SaveDynamicConfig, vars, python, rust
    <3>2. \A q \in late' : q.name # n
      BY <2>2, <3>1 DEF Agreed
    <3> QED  BY <2>2, <3>1, <3>2, SameAgreed
  <2>7. CASE ManagerEnds \/ RustRestarts
    BY <1>2, <2>2, <2>7, LostAgreed
  <2> QED  BY <1>5, <2>3, <2>4, <2>5, <2>6, <2>7 DEF Next
<1> QED  BY <1>3, <1>4, <1>5

(* The invariant holds in every state.                                      *)
LEMMA InvHolds == Spec => []IInv
<1>1. Init => IInv
  BY InitInv
<1>2. IInv /\ [Next]_vars => IInv'
  BY NextTypes, NextCollections, NextAgreement DEF IInv
<1> QED  BY <1>1, <1>2, PTL DEF Spec

-----------------------------------------------------------------------------
(* Once all is quiet, Python's interface lists a monitor exactly when the   *)
(* Rust service has it, and once, with the exceptions NamesAgree names.     *)
THEOREM InterfacesAgree == Spec => []NamesAgree
<1>1. IInv => NamesAgree
  <2> SUFFICES ASSUME IInv, Quiet, NEW n \in Names \ excused
               PROVE  /\ n \in Range(dynamic_names) <=> n \in Range(dynamic)
                      /\ Once(dynamic_names, n)
    BY DEF NamesAgree, Once
  <2>1. Agreed(n) /\ chan = <<>> /\ \A w \in Worker : ~Handles(w, n)
    BY DEF IInv, Agreement, Quiet, Types, Handles
  <2>2. PICK y \in {0, 1} : Reaches(n, chan, Has(dynamic, n), y) /\ y = Has(dynamic_names, n)
    BY <2>1 DEF Agreed
  <2>3. chan \in Seq(Legal) /\ \A i \in 1..Len(chan) : chan[i].name # n
    BY <2>1
  <2>4. Has(dynamic_names, n) = Has(dynamic, n)
    BY <2>2, <2>3, NoRequest
  <2> QED  BY <2>1, <2>4 DEF Has, Agreed
<1> QED  BY <1>1, InvHolds, PTL

(* add_monitor and delete_monitor, in whatever order their requests come,   *)
(* neither delete nor double a configured collection or "broadcast".        *)
THEOREM ConfiguredStay == Spec => []ConfiguredKept
<1>1. IInv => ConfiguredKept
  BY DEF IInv, Collections
<1> QED  BY <1>1, InvHolds, PTL

(* DynamicConfig::new brings back the monitors that were in use, or none    *)
(* after a stop in the middle of save_dynamic_config.                       *)
THEOREM RestartKeeps == Spec => RestartKeepsMonitors
<1>1. IInv /\ [Next]_vars => [RustRestarts => dynamic' = dynamic \/ (~whole /\ dynamic' = <<>>)]_vars
  BY DEF IInv, Collections, RustRestarts
<1> QED  BY <1>1, InvHolds, PTL DEF Spec, RestartKeepsMonitors
=============================================================================
