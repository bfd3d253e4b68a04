----------------------------- MODULE RateLimiter -----------------------------
(***************************************************************************)
(* The request limits of the two web interfaces: RateLimiter of the Rust   *)
(* service (rust/src/rate_limit.rs) and FixedWindowRateLimiter of the      *)
(* Python one (python/src/rate_limit.py).  Each counts, per client         *)
(* address, the requests of a window that starts with the first request    *)
(* behind the previous window.                                             *)
(*                                                                         *)
(* The address is the first one of X-Forwarded-For, or the peer's.  Python *)
(* forwards a request with its API key and without that header, so the     *)
(* Rust service counts all forwarded requests under Python's own address.  *)
(* Between the two limits a forwarded request is on its way.               *)
(*                                                                         *)
(* A lookup and its update happen under a lock (Rust), or in the event     *)
(* loop's only thread (Python).  Windows live in memory: a start forgets   *)
(* them, and a new life of the service begins; the history of what was     *)
(* allowed goes on.  /health is outside the limit in both services and not *)
(* modelled.                                                               *)
(***************************************************************************)
EXTENDS Integers, Sequences

CONSTANTS
    Address,     \* the addresses of clients
    Users,       \* the addresses whose requests come to each service directly
    Python,      \* the address of the Python service
    Limits,      \* values of web_interface.rate_limit_per_minute, 0 for none
    WINDOW,      \* length of a window in ticks (60 seconds)
    None,
    MaxTime,     \* bound on the clock
    MaxRestarts, \* bound on the restarts of each service
    MaxForwarded \* bound on the requests between Python and Rust

Service == {"python", "rust"}
Key == Address \cup {Python}
Window == [start : Nat, count : Nat]
Allowance == [time : Nat, life : Nat]

ASSUME LimiterAssumption ==
    /\ Users \in [Service -> SUBSET Address]
    /\ Limits \subseteq Nat
    /\ WINDOW \in Nat \ {0}
    /\ MaxTime \in Nat
    /\ MaxRestarts \in Nat
    /\ MaxForwarded \in Nat
    /\ None \notin Key
    /\ None \notin Window

VARIABLES
    now,         \* the monotonic clock
    limit,       \* rate_limit_per_minute, which both services read
    windows,     \* service -> address -> [start, count], or None
    lives,       \* how often each service was started again
    allowed,     \* history: time and life of each allowed request, per service and address
    forwarded    \* requests that Python let through and Rust has not seen

vars == <<now, limit, windows, lives, allowed, forwarded>>

Init ==
    /\ now = 0
    /\ limit \in Limits
    /\ windows = [s \in Service |-> [k \in Key |-> None]]
    /\ lives = [s \in Service |-> 0]
    /\ allowed = [s \in Service |-> [k \in Key |-> <<>>]]
    /\ forwarded = 0

-----------------------------------------------------------------------------
(* client_ip *)
ClientIp(header, peer) == IF header # None THEN header ELSE peer

(* Mutant of CurrentWindow: a window that is over keeps its count.          *)
WindowKeepsCount(s, k) ==
    LET w == windows[s][k] IN
    IF w = None THEN [start |-> now, count |-> 0]
    ELSE IF now - w.start >= WINDOW THEN [start |-> now, count |-> w.count] ELSE w

(* The window a request falls in: a new one when there is none or the last  *)
(* one is over.                                                             *)
CurrentWindow(s, k) ==
    LET w == windows[s][k] IN
    IF w = None \/ now - w.start >= WINDOW THEN [start |-> now, count |-> 0] ELSE w

(* Mutant of Allows: one request too many.                                  *)
AllowsOneMore(s, k) == limit = 0 \/ CurrentWindow(s, k).count <= limit

(* allow(client): verdict.  Without a limit nothing is looked up.           *)
Allows(s, k) == limit = 0 \/ CurrentWindow(s, k).count < limit

(* allow(client): effect.  A refused request is not counted.                *)
Count(s, k) ==
    IF limit = 0 THEN UNCHANGED <<windows, allowed>>
    ELSE LET w == CurrentWindow(s, k) IN
         IF Allows(s, k)
         THEN /\ windows' = [windows EXCEPT ![s][k] = [w EXCEPT !.count = @ + 1]]
              /\ allowed' = [allowed EXCEPT ![s][k] = Append(@, [time |-> now, life |-> lives[s]])]
         ELSE /\ windows' = [windows EXCEPT ![s][k] = w]
              /\ UNCHANGED allowed

-----------------------------------------------------------------------------
(* A client's request that a service answers by itself. *)
Request(s, header, peer) ==
    /\ Count(s, ClientIp(header, peer))
    /\ UNCHANGED <<now, limit, lives, forwarded>>

(* A client's request to Python that it forwards when it allows it... *)
Forward(header, peer) ==
    /\ forwarded < MaxForwarded
    /\ Count("python", ClientIp(header, peer))
    /\ forwarded' = IF Allows("python", ClientIp(header, peer)) THEN forwarded + 1 ELSE forwarded
    /\ UNCHANGED <<now, limit, lives>>

(* Mutant of Arrive: an answer is taken for a request never sent.           *)
ArriveUnsent ==
    /\ forwarded' = forwarded - 1
    /\ Count("rust", ClientIp(None, Python))
    /\ UNCHANGED <<now, limit, lives>>

(* ...and which reaches the Rust service under Python's address. *)
Arrive ==
    /\ forwarded > 0
    /\ forwarded' = forwarded - 1
    /\ Count("rust", ClientIp(None, Python))
    /\ UNCHANGED <<now, limit, lives>>

Tick ==
    /\ now < MaxTime
    /\ now' = now + 1
    /\ UNCHANGED <<limit, windows, lives, allowed, forwarded>>

(* A service starts again, with no windows. *)
Restart(s) ==
    /\ lives[s] < MaxRestarts
    /\ lives' = [lives EXCEPT ![s] = @ + 1]
    /\ windows' = [windows EXCEPT ![s] = [k \in Key |-> None]]
    /\ forwarded' = IF s = "python" THEN 0 ELSE forwarded
    /\ UNCHANGED <<now, limit, allowed>>

Next ==
    \/ \E s \in Service : \E header \in Users[s] \cup {None}, peer \in Users[s] :
          Request(s, header, peer)
    \/ \E header \in Users["python"] \cup {None}, peer \in Users["python"] :
          Forward(header, peer)
    \/ Arrive
    \/ Tick
    \/ \E s \in Service : Restart(s)

Spec == Init /\ [][Next]_vars

-----------------------------------------------------------------------------
TypeOK ==
    /\ now \in Nat
    /\ limit \in Limits
    /\ windows \in [Service -> [Key -> Window \cup {None}]]
    /\ lives \in [Service -> Nat]
    /\ allowed \in [Service -> [Key -> Seq(Allowance)]]
    /\ forwarded \in Nat

(* Two windows can meet, and a restart forgets one: docs/Configuration.md   *)
(* gives the limit as the "maximum requests per client IP per minute", but  *)
(* limit - 1 requests at the end of a window, limit at the start of the     *)
(* next one and limit more after a restart all fall within WINDOW.  It      *)
(* never gets worse: requests of an address that are allowed within less    *)
(* than WINDOW of each other are fewer than twice the limit, and each       *)
(* restart between them adds at most the limit once more; whatever requests *)
(* are refused in between and whichever clients are behind the address.     *)
TwiceTheLimit ==
    limit > 0 =>
        \A s \in Service, k \in Key : LET a == allowed[s][k] IN
            \A i, j \in 1..Len(a) :
                i <= j /\ j - i >= (2 + (a[j].life - a[i].life)) * limit - 1
                    => a[j].time - a[i].time >= WINDOW

(* Nobody is refused early: when a request from an address would be         *)
(* refused, limit requests from it have been allowed within the last WINDOW *)
(* and since the last start.  Refused requests do not prolong the wait.     *)
RefusedForCause ==
    \A s \in Service, k \in Key : ~Allows(s, k) =>
        LET a == allowed[s][k] IN
        /\ Len(a) >= limit
        /\ \A i \in (Len(a) - limit + 1)..Len(a) :
              now - a[i].time < WINDOW /\ a[i].life = lives[s]
=============================================================================
