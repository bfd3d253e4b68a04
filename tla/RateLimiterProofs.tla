-------------------------- MODULE RateLimiterProofs --------------------------
(***************************************************************************)
(* Theorems about RateLimiter, for every limit, window length, set of      *)
(* addresses and length of time.                                           *)
(***************************************************************************)
EXTENDS RateLimiter, TLAPS

(* How many more requests than i an address can have made before the        *)
(* present window, when request i was made in life f and is less than       *)
(* WINDOW older than the window: fewer than the limit, and the limit once   *)
(* more for each restart since.                                             *)
Quota(f, g, l) == (1 + (g - f)) * l

(* Of requests of less than WINDOW apart there are fewer than twice the     *)
(* limit, and the limit once more for each restart between them.            *)
Spaced(a, l) ==
    \A i, j \in 1..Len(a) :
        i <= j /\ j - i >= Quota(a[i].life, a[j].life, l) + l - 1
            => a[j].time - a[i].time >= WINDOW

(* What holds, in life g, of the first n requests when a window begins at   *)
(* time t.                                                                  *)
Rested(a, n, t, g, l) ==
    \A i \in 1..n : a[i].time > t - WINDOW => n - i + 1 <= Quota(a[i].life, g, l) - 1

(* What the window w of an address says, at time t of life g, of its        *)
(* allowed requests a under limit l: the last of them, from the one that    *)
(* opened the window on, are those it counts.                               *)
Explains(w, a, t, g, l) ==
    LET n == Len(a) - w.count IN
    /\ w.count <= l /\ w.count <= Len(a)
    /\ w.start <= t
    /\ \A i \in 1..n : a[i].time <= w.start
    /\ w.count > 0 => a[n + 1].time = w.start
    /\ \A i \in (n + 1)..Len(a) :
          w.start <= a[i].time /\ a[i].time < w.start + WINDOW /\ a[i].life = g
    /\ Rested(a, n, w.start, g, l)

Accounted(s, k) ==
    LET a == allowed[s][k] IN
    /\ \A i \in 1..Len(a) : a[i].time <= now /\ a[i].life <= lives[s]
    /\ Spaced(a, limit)
    /\ IF windows[s][k] = None THEN Rested(a, Len(a), now, lives[s], limit)
       ELSE windows[s][k].count # 0 /\ Explains(windows[s][k], a, now, lives[s], limit)

IInv == TypeOK /\ (limit > 0 => \A s \in Service, k \in Key : Accounted(s, k))

-----------------------------------------------------------------------------
(* The product in Quota, as the steps below use it.                         *)
LEMMA QuotaFacts ==
    ASSUME NEW f \in Nat, NEW g \in Nat, NEW l \in Nat
    PROVE  /\ Quota(f, g, l) \in Int
           /\ Quota(f, g + 1, l) = Quota(f, g, l) + l
           /\ f = g => Quota(f, g, l) = l
           /\ (2 + (g - f)) * l = Quota(f, g, l) + l
<1>1. (1 + (g - f)) * l \in Int
  OBVIOUS
<1>2. (1 + ((g + 1) - f)) * l = (1 + (g - f)) * l + l
  OBVIOUS
<1>3. f = g => (1 + (g - f)) * l = l
  OBVIOUS
<1>4. (2 + (g - f)) * l = (1 + (g - f)) * l + l
  OBVIOUS
<1> QED
  BY <1>1, <1>2, <1>3, <1>4 DEF Quota

(* More restarts, a larger quota.                                           *)
LEMMA QuotaGrows ==
    ASSUME NEW f \in Nat, NEW g \in Nat, NEW h \in Nat, NEW l \in Nat, g <= h
    PROVE  Quota(f, g, l) <= Quota(f, h, l)
<1>1. h - g \in Nat /\ (h - g) * l \in Nat
  OBVIOUS
<1>2. (1 + (h - f)) * l = (1 + (g - f)) * l + (h - g) * l
  OBVIOUS
<1>3. (1 + (g - f)) * l \in Int
  OBVIOUS
<1> QED
  BY <1>1, <1>2, <1>3 DEF Quota

(* The entries of the history are records of time and life.                 *)
LEMMA AllowanceFields ==
    ASSUME NEW a \in Seq(Allowance)
    PROVE  /\ Len(a) \in Nat
           /\ \A i \in 1..Len(a) : a[i].time \in Nat /\ a[i].life \in Nat
<1>1. \A i \in 1..Len(a) : a[i] \in Allowance
  OBVIOUS
<1> QED
  BY <1>1 DEF Allowance

(* A first window of a life explains what was allowed in earlier ones.      *)
LEMMA ExplainsFirst ==
    ASSUME NEW a \in Seq(Allowance), NEW t \in Nat, NEW g \in Nat, NEW l \in Nat,
           \A i \in 1..Len(a) : a[i].time <= t, Rested(a, Len(a), t, g, l)
    PROVE  Explains([start |-> t, count |-> 0], a, t, g, l)
<1> DEFINE w == [start |-> t, count |-> 0]
<1>1. w.start = t /\ w.count = 0 /\ Len(a) \in Nat /\ Len(a) - w.count = Len(a)
  OBVIOUS
<1> HIDE DEF w
<1>2. Explains(w, a, t, g, l)
  BY <1>1, LimiterAssumption DEF Explains
<1> QED  BY <1>2 DEF w

(* So does a window that replaces one which is over: the request that       *)
(* opened that one, and all before it, are at least WINDOW older.           *)
LEMMA ExplainsReset ==
    ASSUME NEW w \in Window, NEW a \in Seq(Allowance), NEW t \in Nat, NEW l \in Nat, NEW g \in Nat,
           NEW u \in Nat, Explains(w, a, u, g, l), t - w.start >= WINDOW
    PROVE  Explains([start |-> t, count |-> 0], a, t, g, l)
<1> DEFINE n == Len(a) - w.count
<1>1. /\ w.start \in Nat /\ w.count \in Nat /\ Len(a) \in Nat /\ WINDOW \in Nat
      /\ \A i \in 1..Len(a) : a[i].time \in Nat /\ a[i].life \in Nat
  BY LimiterAssumption, AllowanceFields DEF Window, Allowance
<1>2. w.start + WINDOW <= t
  BY <1>1
<1>3. /\ w.count <= l /\ w.count <= Len(a)
      /\ \A i \in 1..n : a[i].time <= w.start
      /\ w.count > 0 => a[n + 1].time = w.start
      /\ \A i \in (n + 1)..Len(a) : w.start <= a[i].time /\ a[i].time < w.start + WINDOW /\ a[i].life = g
  BY DEF Explains
<1>4. n \in Nat /\ n <= Len(a) /\ Len(a) = n + w.count
  BY <1>1, <1>3
<1> HIDE DEF n
<1>5. ASSUME NEW i \in 1..Len(a) PROVE a[i].time <= t
  <2>1. CASE i <= n
    <3>1. i \in 1..n
      BY <1>4, <2>1
    <3> QED
      BY <1>1, <1>2, <1>3, <3>1
  <2>2. CASE ~(i <= n)
    <3>1. i \in (n + 1)..Len(a)
      BY <1>4, <2>2
    <3> QED
      BY <1>1, <1>2, <1>3, <3>1
  <2> QED
    BY <2>1, <2>2
<1>6. ASSUME NEW i \in 1..Len(a), a[i].time > t - WINDOW
      PROVE  Len(a) - i + 1 <= Quota(a[i].life, g, l) - 1
  <2>1. a[i].time > w.start
    BY <1>1, <1>2, <1>6
  <2>2. ~(i <= n)
    <3>1. i <= n => i \in 1..n
      BY <1>4
    <3> QED
      BY <1>1, <1>3, <2>1, <3>1
  <2>3. i # n + 1
    <3>1. i = n + 1 => w.count > 0
      BY <1>1, <1>4
    <3> QED
      BY <1>1, <1>3, <2>1, <3>1
  <2>4. i \in (n + 1)..Len(a) /\ Len(a) - i + 1 <= l - 1
    BY <1>1, <1>3, <1>4, <2>2, <2>3
  <2>5. a[i].life = g
    BY <1>3, <2>4
  <2>6. Quota(a[i].life, g, l) = l
    BY <2>5, QuotaFacts
  <2> QED
    BY <2>4, <2>6
<1>7. Rested(a, Len(a), t, g, l)
  BY <1>6 DEF Rested
<1> QED
  BY <1>5, <1>7, ExplainsFirst

(* Counting one more request in a window that is not over.                  *)
LEMMA ExplainsAppend ==
    ASSUME NEW w \in Window, NEW a \in Seq(Allowance), NEW t \in Nat, NEW l \in Nat, NEW g \in Nat,
           Explains(w, a, t, g, l), t - w.start < WINDOW, w.count < l, w.count = 0 => w.start = t
    PROVE  Explains([start |-> w.start, count |-> w.count + 1],
                    Append(a, [time |-> t, life |-> g]), t, g, l)
<1> DEFINE v == [start |-> w.start, count |-> w.count + 1]
           x == [time |-> t, life |-> g]
           b == Append(a, x)
           n == Len(a) - w.count
<1>1. /\ v.start = w.start /\ v.count = w.count + 1 /\ w.start \in Nat /\ w.count \in Nat
      /\ Len(a) \in Nat /\ WINDOW \in Nat
  BY LimiterAssumption DEF Window
<1>x. x.time = t /\ x.life = g /\ x \in Allowance
  BY DEF Allowance
<1> HIDE DEF x
<1>l. Len(b) = Len(a) + 1
  BY <1>x
<1>2. /\ b[Len(a) + 1] = x
      /\ \A i \in 1..Len(a) : b[i] = a[i] /\ a[i].time \in Nat
  BY <1>x, AllowanceFields
<1>n. w.count <= Len(a) /\ w.start <= t
  BY DEF Explains
<1>3. /\ \A i \in 1..n : a[i].time <= w.start
      /\ w.count > 0 => a[n + 1].time = w.start
      /\ \A i \in (n + 1)..Len(a) : w.start <= a[i].time /\ a[i].time < w.start + WINDOW /\ a[i].life = g
      /\ Rested(a, n, w.start, g, l)
  BY DEF Explains
<1> HIDE DEF v, b
<1>4. Len(b) - v.count = n /\ v.count <= l /\ v.count <= Len(b)
  <2>1. Len(b) - v.count = n
    BY <1>1, <1>l, SMTT(30)
  <2> QED  BY <1>1, <1>l, <1>n, <2>1
<1>5. n \in Nat /\ n <= Len(a) /\ w.start + WINDOW > t /\ Len(a) = n + w.count
  BY <1>1, <1>n, SMTT(60)
<1> HIDE DEF n
<1>6. \A i \in 1..n : b[i] = a[i] /\ i \in 1..Len(a)
  <2>1. \A i \in 1..n : i \in 1..Len(a)
    BY <1>1, <1>5
  <2> QED
    BY <1>2, <2>1
<1>7. \A i \in 1..n : b[i].time <= w.start
  BY <1>3, <1>6
<1>8. b[n + 1].time = w.start
  <2>1. CASE w.count = 0
    BY <1>1, <1>x, <1>2, <1>5, <2>1
  <2>2. CASE w.count # 0
    <3>1. n + 1 \in 1..Len(a) /\ w.count > 0
      BY <1>1, <1>5, <2>2
    <3> QED
      BY <1>2, <1>3, <3>1
  <2> QED
    BY <2>1, <2>2
<1>9. ASSUME NEW i \in (n + 1)..Len(b)
      PROVE  w.start <= b[i].time /\ b[i].time < w.start + WINDOW /\ b[i].life = g
  <2>1. CASE i = Len(a) + 1
    BY <1>1, <1>x, <1>2, <1>n, <1>5, <2>1
  <2>2. CASE i \in (n + 1)..Len(a)
    <3>1. i \in 1..Len(a)
      BY <1>1, <1>5, <2>2
    <3> QED  BY <1>2, <1>3, <2>2, <3>1
  <2> QED  BY <1>1, <1>l, <1>5, <2>1, <2>2, SMTT(30)
<1>10. Rested(b, n, w.start, g, l)
  BY <1>3, <1>6 DEF Rested
<1>11. Explains(v, b, t, g, l)
  BY <1>1, <1>3, <1>4, <1>7, <1>8, <1>9, <1>10 DEF Explains
<1> QED  BY <1>11 DEF v, b, x

(* The window a request is counted in: the stored one or a new one.         *)
LEMMA CurrentWindowType ==
    ASSUME TypeOK, NEW s \in Service, NEW k \in Key
    PROVE  CurrentWindow(s, k) \in Window
BY LimiterAssumption DEF TypeOK, CurrentWindow, Window

(* A request is counted under a known address.                              *)
LEMMA ClientIpType ==
    ASSUME NEW s \in Service, NEW header \in Users[s] \cup {None}, NEW peer \in Users[s]
    PROVE  ClientIp(header, peer) \in Key
BY LimiterAssumption DEF ClientIp, Key

(* The window a request falls in explains its address, and is not over.     *)
LEMMA OpenedWindowExplains ==
    ASSUME IInv, limit > 0, NEW s \in Service, NEW k \in Key
    PROVE  LET w == CurrentWindow(s, k) IN
           /\ Explains(w, allowed[s][k], now, lives[s], limit)
           /\ now - w.start < WINDOW
           /\ w.count = 0 => w.start = now \/ w = windows[s][k]
<1> DEFINE w == windows[s][k]
           a == allowed[s][k]
           v == [start |-> now, count |-> 0]
<1>0. /\ now \in Nat /\ limit \in Nat /\ WINDOW \in Nat \ {0} /\ lives[s] \in Nat
      /\ w \in Window \cup {None}
      /\ a \in Seq(Allowance) /\ Accounted(s, k)
      /\ None \notin Window /\ v.start = now
  BY LimiterAssumption DEF IInv, TypeOK
<1>1. CASE w = None
  <2>1. CurrentWindow(s, k) = v /\ Rested(a, Len(a), now, lives[s], limit)
        /\ \A i \in 1..Len(a) : a[i].time <= now
    BY <1>1, <1>0 DEF Accounted, CurrentWindow
  <2>2. Explains(v, a, now, lives[s], limit)
    BY <1>0, <2>1, ExplainsFirst
  <2> QED  BY <1>0, <2>1, <2>2
<1>2. CASE w # None /\ now - w.start >= WINDOW
  <2>1. CurrentWindow(s, k) = v
    BY <1>2 DEF CurrentWindow
  <2>2. w \in Window /\ Explains(w, a, now, lives[s], limit)
    BY <1>0, <1>2 DEF Accounted
  <2>3. Explains(v, a, now, lives[s], limit)
    BY <1>0, <1>2, <2>2, ExplainsReset
  <2> QED  BY <1>0, <2>1, <2>3
<1>3. CASE w # None /\ ~(now - w.start >= WINDOW)
  <2>1. CurrentWindow(s, k) = w
    BY <1>3 DEF CurrentWindow
  <2>2. w \in Window /\ Explains(w, a, now, lives[s], limit)
    BY <1>0, <1>3 DEF Accounted
  <2>3. now - w.start < WINDOW
    BY <1>0, <1>3, <2>2 DEF Window
  <2> QED  BY <2>1, <2>2, <2>3
<1> QED  BY <1>1, <1>2, <1>3

(* Of the requests before one that is allowed now those of the last WINDOW  *)
(* are few.                                                                 *)
LEMMA AllowedIsSpaced ==
    ASSUME NEW w \in Window, NEW a \in Seq(Allowance), NEW t \in Nat, NEW l \in Nat, NEW g \in Nat,
           Explains(w, a, t, g, l), w.count < l, Spaced(a, l),
           \A i \in 1..Len(a) : a[i].time <= t /\ a[i].life <= g
    PROVE  Spaced(Append(a, [time |-> t, life |-> g]), l)
<1> DEFINE x == [time |-> t, life |-> g]
           b == Append(a, x)
           n == Len(a) - w.count
<1>1. /\ w.start \in Nat /\ w.count \in Nat /\ Len(a) \in Nat /\ WINDOW \in Nat
      /\ x.time = t /\ x.life = g /\ x \in Allowance
      /\ \A i \in 1..Len(a) : a[i].time \in Nat /\ a[i].life \in Nat
  BY LimiterAssumption, AllowanceFields DEF Window, Allowance
<1> HIDE DEF x
<1>2. /\ Len(b) = Len(a) + 1 /\ b[Len(a) + 1] = x
      /\ \A i \in 1..Len(a) : b[i] = a[i]
  BY <1>1
<1>3. /\ w.count <= Len(a) /\ w.start <= t
      /\ \A i \in (n + 1)..Len(a) : a[i].life = g
      /\ Rested(a, n, w.start, g, l)
  BY DEF Explains
<1>4. n \in Nat /\ n <= Len(a) /\ Len(a) = n + w.count
  BY <1>1, <1>3
<1> HIDE DEF n, b
<1>5. ASSUME NEW i \in 1..Len(b), NEW j \in 1..Len(b),
             i <= j, j - i >= Quota(b[i].life, b[j].life, l) + l - 1
      PROVE  b[j].time - b[i].time >= WINDOW
  <2>1. CASE j \in 1..Len(a) /\ i \in 1..Len(a)
    BY <1>2, <1>5, <2>1 DEF Spaced
  <2>2. CASE i = Len(a) + 1
    <3>1. j = Len(a) + 1
      BY <1>1, <1>2, <1>5, <2>2
    <3>2. b[i].life = g /\ b[j].life = g /\ j - i = 0
      BY <1>1, <1>2, <2>2, <3>1
    <3>3. Quota(g, g, l) = l
      BY QuotaFacts
    <3> QED
      BY <1>1, <1>5, <3>2, <3>3
  <2>3. CASE j = Len(a) + 1 /\ i \in 1..Len(a)
    <3>1. /\ b[i] = a[i] /\ b[j].life = g /\ b[j].time = t
          /\ a[i].life \in Nat /\ a[i].time \in Nat /\ Quota(a[i].life, g, l) \in Int
      BY <1>1, <1>2, <2>3, QuotaFacts
    <3>2. CASE i <= n
      <4>1. i \in 1..n
        BY <1>4, <3>2
      <4>2. j - i = (n - i + 1) + w.count
        BY <1>1, <1>4, <2>3, SMTT(60)
      <4>3. n - i + 1 > Quota(a[i].life, g, l) - 1
        BY <1>1, <1>4, <1>5, <3>1, <4>1, <4>2, SMTT(30)
      <4>4. ~(a[i].time > w.start - WINDOW)
        <5>1. a[i].time > w.start - WINDOW => n - i + 1 <= Quota(a[i].life, g, l) - 1
          BY <1>3, <4>1 DEF Rested
        <5> QED
          BY <1>4, <3>1, <4>1, <4>3, <5>1
      <4> QED
        BY <1>1, <1>3, <3>1, <4>4, SMTT(30)
    <3>3. CASE ~(i <= n)
      <4>1. i \in (n + 1)..Len(a)
        BY <1>4, <2>3, <3>3
      <4>2. a[i].life = g /\ Quota(g, g, l) = l
        BY <1>3, <4>1, QuotaFacts
      <4>3. j - i <= w.count
        BY <1>1, <1>4, <2>3, <4>1, SMTT(60)
      <4> QED
        BY <1>1, <1>5, <3>1, <4>2, <4>3
    <3> QED
      BY <3>2, <3>3
  <2>4. (i \in 1..Len(a) \/ i = Len(a) + 1) /\ (j \in 1..Len(a) \/ j = Len(a) + 1)
    BY <1>1, <1>2
  <2> QED
    BY <2>1, <2>2, <2>3, <2>4
<1> QED
  BY <1>5 DEF Spaced, b, x

(* A request, allowed or refused, keeps the account of its address.         *)
LEMMA CountAccounted ==
    ASSUME IInv, limit > 0, NEW s \in Service, NEW k \in Key, Count(s, k),
           UNCHANGED <<now, limit, lives>>
    PROVE  Accounted(s, k)'
<1> DEFINE w == CurrentWindow(s, k)
           a == allowed[s][k]
           x == [time |-> now, life |-> lives[s]]
           b == Append(a, x)
<1>0. /\ now \in Nat /\ limit \in Nat /\ WINDOW \in Nat \ {0} /\ lives[s] \in Nat
      /\ a \in Seq(Allowance) /\ Len(a) \in Nat /\ Accounted(s, k)
      /\ None \notin Window
  BY LimiterAssumption DEF IInv, TypeOK
<1>1. w \in Window /\ w # None /\ w.start \in Nat /\ w.count \in Nat
  BY <1>0, CurrentWindowType DEF IInv, Window
<1>2. Explains(w, a, now, lives[s], limit) /\ now - w.start < WINDOW
  BY OpenedWindowExplains
<1>3. CASE Allows(s, k)
  <2>1. /\ windows'[s][k] = [start |-> w.start, count |-> w.count + 1]
        /\ allowed'[s][k] = b
        /\ w.count < limit
    BY <1>0, <1>1, <1>3 DEF Count, Allows, IInv, TypeOK, Window
  <2>2. /\ Len(b) = Len(a) + 1 /\ b[Len(a) + 1] = x /\ x.time = now /\ x.life = lives[s]
        /\ \A i \in 1..Len(a) : b[i] = a[i]
    BY <1>0 DEF Allowance
  <2>3. /\ \A i \in 1..Len(a) : a[i].time <= now /\ a[i].life <= lives[s]
        /\ Spaced(a, limit)
    BY <1>0 DEF Accounted
  <2>4. w.count = 0 => w.start = now
    <3>1. windows[s][k] # None => windows[s][k].count # 0
      BY <1>0 DEF Accounted, Explains
    <3> QED
      BY <1>1, <3>1, OpenedWindowExplains
  <2>5. Explains([start |-> w.start, count |-> w.count + 1], b, now, lives[s], limit)
    BY <1>0, <1>1, <1>2, <2>1, <2>4, ExplainsAppend
  <2>6. [start |-> w.start, count |-> w.count + 1] # None
    BY <1>0, <1>1 DEF Window
  <2>7. Spaced(b, limit)
    BY <1>0, <1>1, <1>2, <2>1, <2>3, AllowedIsSpaced
  <2> HIDE DEF w, a, b, x
  <2>8. \A i \in 1..Len(b) : b[i].time <= now /\ b[i].life <= lives[s]
    BY <1>0, <2>2, <2>3
  <2>9. /\ now' = now /\ limit' = limit /\ lives' = lives
        /\ windows'[s][k] # None /\ windows'[s][k].count # 0
        /\ Explains(windows'[s][k], allowed'[s][k], now, lives[s], limit)
    BY <1>1, <2>1, <2>5, <2>6
  <2> QED  BY <2>1, <2>7, <2>8, <2>9 DEF Accounted
<1>4. CASE ~Allows(s, k)
  <2>1. /\ windows'[s][k] = w /\ allowed'[s][k] = a /\ now' = now /\ limit' = limit
        /\ lives' = lives /\ w.count # 0
    BY <1>0, <1>1, <1>4 DEF Count, Allows, IInv, TypeOK
  <2> HIDE DEF w
  <2> QED  BY <1>0, <1>1, <1>2, <2>1 DEF Accounted
<1> QED  BY <1>3, <1>4

(* The other addresses, and the other service, are not touched.             *)
LEMMA CountTouchesOne ==
    ASSUME TypeOK, NEW s \in Service, NEW k \in Key, Count(s, k),
           NEW r \in Service, NEW j \in Key, r # s \/ j # k
    PROVE  windows'[r][j] = windows[r][j] /\ allowed'[r][j] = allowed[r][j]
BY DEF TypeOK, Count

(* allow keeps windows and history in their types.                          *)
LEMMA CountType ==
    ASSUME TypeOK, NEW s \in Service, NEW k \in Key, Count(s, k)
    PROVE  /\ windows' \in [Service -> [Key -> Window \cup {None}]]
           /\ allowed' \in [Service -> [Key -> Seq(Allowance)]]
<1>1. CurrentWindow(s, k) \in Window
  BY CurrentWindowType
<1>2. [CurrentWindow(s, k) EXCEPT !.count = @ + 1] \in Window
  BY <1>1 DEF Window
<1>3. Append(allowed[s][k], [time |-> now, life |-> lives[s]]) \in Seq(Allowance)
  BY DEF TypeOK, Allowance
<1>4. ASSUME NEW x \in Window
      PROVE  [windows EXCEPT ![s][k] = x] \in [Service -> [Key -> Window \cup {None}]]
  BY DEF TypeOK
<1>5. ASSUME NEW x \in Seq(Allowance)
      PROVE  [allowed EXCEPT ![s][k] = x] \in [Service -> [Key -> Seq(Allowance)]]
  BY DEF TypeOK
<1>6. CASE limit = 0
  BY <1>6 DEF Count, TypeOK
<1>7. CASE limit # 0 /\ Allows(s, k)
  BY <1>2, <1>3, <1>4, <1>5, <1>7 DEF Count
<1>8. CASE limit # 0 /\ ~Allows(s, k)
  BY <1>1, <1>4, <1>8 DEF Count, TypeOK
<1> QED  BY <1>6, <1>7, <1>8

(* A request at a service, whoever made it. *)
LEMMA CountInvariant ==
    ASSUME IInv, NEW s \in Service, NEW k \in Key, Count(s, k),
           UNCHANGED <<now, limit, lives>>, forwarded' \in Nat
    PROVE  IInv'
<1>1. TypeOK'
  BY CountType DEF IInv, TypeOK
<1>2. ASSUME limit > 0, NEW r \in Service, NEW j \in Key
      PROVE  Accounted(r, j)'
  <2>1. CASE r = s /\ j = k
    BY <1>2, <2>1, CountAccounted
  <2>2. CASE r # s \/ j # k
    <3>1. windows'[r][j] = windows[r][j] /\ allowed'[r][j] = allowed[r][j]
      BY <2>2, CountTouchesOne DEF IInv
    <3>2. Accounted(r, j)
      BY <1>2 DEF IInv
    <3> QED  BY <3>1, <3>2 DEF Accounted
  <2> QED  BY <2>1, <2>2
<1> QED  BY <1>1, <1>2 DEF IInv

(* Time goes on: what a window explains it still explains later.            *)
LEMMA TickInvariant == IInv /\ Tick => IInv'
<1> SUFFICES ASSUME IInv, Tick  PROVE IInv'
  OBVIOUS
<1>1. TypeOK'
  BY DEF IInv, Tick, TypeOK
<1>2. now \in Nat /\ now' = now + 1 /\ limit' = limit /\ lives' = lives /\ WINDOW \in Nat
  BY LimiterAssumption DEF IInv, Tick, TypeOK
<1>3. ASSUME limit > 0, NEW s \in Service, NEW k \in Key
      PROVE  Accounted(s, k)'
  <2> DEFINE w == windows[s][k]
             a == allowed[s][k]
  <2>1. Accounted(s, k) /\ windows' = windows /\ allowed' = allowed
    BY <1>3 DEF IInv, Tick
  <2>2. /\ Len(a) \in Nat /\ \A i \in 1..Len(a) : a[i].time \in Nat
        /\ w # None => w.start \in Nat
    <3>1. a \in Seq(Allowance) /\ w \in Window \cup {None}
      BY DEF IInv, TypeOK
    <3> QED
      BY <3>1, AllowanceFields DEF Window
  <2>3. \A i \in 1..Len(a) : a[i].time <= now'
    BY <1>2, <2>1, <2>2 DEF Accounted
  <2>4. Explains(w, a, now, lives[s], limit) /\ w # None => Explains(w, a, now', lives[s], limit)
    BY <1>2, <2>2, SMTT(30) DEF Explains
  <2>5. Rested(a, Len(a), now, lives[s], limit) => Rested(a, Len(a), now', lives[s], limit)
    BY <1>2, <2>2, SMTT(30) DEF Rested
  <2> QED  BY <1>2, <2>1, <2>3, <2>4, <2>5 DEF Accounted
<1> QED  BY <1>1, <1>2, <1>3 DEF IInv

(* A restart forgets the windows of the service.  What was allowed before   *)
(* it was spaced, and the new life adds to the quota.                       *)
LEMMA RestartInvariant ==
    ASSUME IInv, NEW r \in Service, Restart(r)  PROVE IInv'
<1>1. TypeOK'
  BY DEF IInv, Restart, TypeOK
<1>2. now' = now /\ limit' = limit /\ allowed' = allowed /\ limit \in Nat /\ now \in Nat /\ WINDOW \in Nat
  BY LimiterAssumption DEF IInv, Restart, TypeOK
<1>3. ASSUME limit > 0, NEW s \in Service, NEW k \in Key
      PROVE  Accounted(s, k)'
  <2> DEFINE a == allowed[s][k]
             n == Len(a)
             g == lives[s]
  <2>1. Accounted(s, k) /\ n \in Nat /\ g \in Nat /\ \A i \in 1..n : a[i].time \in Nat /\ a[i].life \in Nat
    <3>1. a \in Seq(Allowance) /\ g \in Nat /\ Accounted(s, k)
      BY <1>3 DEF IInv, TypeOK
    <3> QED
      BY <3>1, AllowanceFields
  <2>2. CASE s = r
    <3>1. windows'[s][k] = None /\ lives'[s] = g + 1
      BY <2>2 DEF IInv, Restart, TypeOK
    <3>2. Spaced(a, limit) /\ \A i \in 1..n : a[i].time <= now /\ a[i].life <= g
      BY <2>1 DEF Accounted
    <3>3. ASSUME NEW i \in 1..n, a[i].time > now - WINDOW
          PROVE  n - i + 1 <= Quota(a[i].life, g + 1, limit) - 1
      <4>1. n \in 1..n /\ a[n].time <= now /\ a[n].life <= g /\ a[n].time \in Nat /\ a[n].life \in Nat
            /\ a[i].time \in Nat /\ a[i].life \in Nat
        BY <2>1, <3>2
      <4>2. ~(a[n].time - a[i].time >= WINDOW)
        BY <1>2, <3>3, <4>1, SMTT(30)
      <4>3. ~(n - i >= Quota(a[i].life, a[n].life, limit) + limit - 1)
        BY <3>2, <4>1, <4>2, SMTT(60) DEF Spaced
      <4>4. /\ Quota(a[i].life, a[n].life, limit) <= Quota(a[i].life, g, limit)
            /\ Quota(a[i].life, g + 1, limit) = Quota(a[i].life, g, limit) + limit
            /\ Quota(a[i].life, a[n].life, limit) \in Int /\ Quota(a[i].life, g, limit) \in Int
        <5>1. Quota(a[i].life, a[n].life, limit) <= Quota(a[i].life, g, limit)
          BY <1>2, <2>1, <4>1, QuotaGrows
        <5>2. Quota(a[i].life, a[n].life, limit) \in Int
          BY <1>2, <4>1, QuotaFacts
        <5>3. /\ Quota(a[i].life, g, limit) \in Int
              /\ Quota(a[i].life, g + 1, limit) = Quota(a[i].life, g, limit) + limit
          <6> DEFINE f == a[i].life
          <6>1. f \in Nat /\ g \in Nat /\ limit \in Nat
            BY <1>2, <2>1, <4>1
          <6> HIDE DEF f, g
          <6>2. Quota(f, g, limit) \in Int /\ Quota(f, g + 1, limit) = Quota(f, g, limit) + limit
            BY <6>1, QuotaFacts
          <6> QED
            BY <6>2 DEF f
        <5> QED
          BY <5>1, <5>2, <5>3
      <4> HIDE DEF a, n, g
      <4> QED
        BY <1>2, <2>1, <3>3, <4>3, <4>4
    <3>4. Rested(a, n, now, g + 1, limit)
      BY <3>3 DEF Rested
    <3>5. \A i \in 1..n : a[i].life <= g + 1
      BY <2>1, <3>2
    <3> QED  BY <1>2, <3>1, <3>2, <3>4, <3>5 DEF Accounted
  <2>3. CASE s # r
    <3>1. windows'[s][k] = windows[s][k] /\ lives'[s] = lives[s]
      BY <2>3 DEF IInv, Restart, TypeOK
    <3> QED  BY <1>2, <2>1, <3>1 DEF Accounted
  <2> QED  BY <2>2, <2>3
<1> QED  BY <1>1, <1>2, <1>3 DEF IInv

(* At the start no request was allowed.                                     *)
LEMMA InitInvariant == Init => IInv
<1> SUFFICES ASSUME Init  PROVE IInv
  OBVIOUS
<1>1. TypeOK
  BY DEF Init, TypeOK
<1>2. ASSUME limit > 0, NEW s \in Service, NEW k \in Key
      PROVE  Accounted(s, k)
  <2>1. windows[s][k] = None /\ allowed[s][k] = <<>> /\ Len(allowed[s][k]) = 0
    BY DEF Init
  <2>2. limit \in Nat
    BY LimiterAssumption DEF Init
  <2> QED  BY <1>2, <2>1, <2>2 DEF Accounted, Spaced, Rested
<1> QED  BY <1>1, <1>2 DEF IInv

(* Every step keeps what the windows say about the history.                 *)
LEMMA StepInvariant == IInv /\ [Next]_vars => IInv'
<1> SUFFICES ASSUME IInv, [Next]_vars  PROVE IInv'
  OBVIOUS
<1>0. forwarded \in Nat
  BY DEF IInv, TypeOK
<1>1. ASSUME NEW s \in Service, NEW header \in Users[s] \cup {None}, NEW peer \in Users[s],
             Request(s, header, peer)
      PROVE  IInv'
  <2>1. ClientIp(header, peer) \in Key
    BY ClientIpType
  <2> QED  BY <1>0, <1>1, <2>1, CountInvariant DEF Request
<1>2. ASSUME NEW header \in Users["python"] \cup {None}, NEW peer \in Users["python"],
             Forward(header, peer)
      PROVE  IInv'
  <2>1. "python" \in Service
    BY DEF Service
  <2>2. ClientIp(header, peer) \in Key
    BY <2>1, ClientIpType
  <2>3. forwarded' \in Nat
    BY <1>0, <1>2 DEF Forward
  <2> QED  BY <1>2, <2>1, <2>2, <2>3, CountInvariant DEF Forward
<1>3. CASE Arrive
  <2>1. "rust" \in Service /\ ClientIp(None, Python) \in Key
    BY DEF Service, ClientIp, Key
  <2>2. forwarded' \in Nat
    BY <1>0, <1>3 DEF Arrive
  <2> QED  BY <1>3, <2>1, <2>2, CountInvariant DEF Arrive
<1>4. CASE Tick
  BY <1>4, TickInvariant
<1>5. ASSUME NEW s \in Service, Restart(s)  PROVE IInv'
  BY <1>5, RestartInvariant
<1>6. CASE UNCHANGED vars
  BY <1>6, SMTT(30) DEF vars, IInv, TypeOK, Accounted, Spaced, Rested, Explains
<1> QED  BY <1>1, <1>2, <1>3, <1>4, <1>5, <1>6 DEF Next

(* The invariant holds in every state.                                      *)
LEMMA Invariance == Spec => []IInv
BY InitInvariant, StepInvariant, PTL DEF Spec

-----------------------------------------------------------------------------
(* Windows, histories and the clock have their types in every reachable     *)
(* state (rate_limit.rs and rate_limit.py).                                 *)
THEOREM TypeCorrect == Spec => []TypeOK
<1>1. IInv => TypeOK
  BY DEF IInv
<1> QED  BY <1>1, Invariance, PTL

(* For every limit, window length and number of restarts: requests of an    *)
(* address that are allowed within less than WINDOW of each other are fewer *)
(* than twice the limit, with the limit once more for each restart between  *)
(* them, in the limiter of each service.                                    *)
THEOREM AtMostTwiceTheLimit == Spec => []TwiceTheLimit
<1>1. IInv => TwiceTheLimit
  <2> SUFFICES ASSUME IInv, limit > 0, NEW s \in Service, NEW k \in Key,
                      NEW i \in 1..Len(allowed[s][k]), NEW j \in 1..Len(allowed[s][k]),
                      i <= j, j - i >= (2 + (allowed[s][k][j].life - allowed[s][k][i].life)) * limit - 1
               PROVE  allowed[s][k][j].time - allowed[s][k][i].time >= WINDOW
    BY DEF TwiceTheLimit
  <2> DEFINE a == allowed[s][k]
  <2>1. a[i].life \in Nat /\ a[j].life \in Nat /\ limit \in Nat
    <3>1. a \in Seq(Allowance) /\ limit \in Nat
      BY LimiterAssumption DEF IInv, TypeOK
    <3> QED
      BY <3>1, AllowanceFields
  <2>2. (2 + (a[j].life - a[i].life)) * limit = Quota(a[i].life, a[j].life, limit) + limit
    BY <2>1, QuotaFacts
  <2>3. Spaced(a, limit)
    BY DEF IInv, Accounted
  <2>4. j - i >= Quota(a[i].life, a[j].life, limit) + limit - 1
    <3> DEFINE p == (2 + (a[j].life - a[i].life)) * limit
               q == Quota(a[i].life, a[j].life, limit)
               d == j - i
    <3>1. d >= p - 1 /\ p = q + limit
      BY <2>2
    <3>2. q \in Int
      <4> HIDE DEF a
      <4> QED  BY <2>1, QuotaFacts
    <3>d. d \in Int
      OBVIOUS
    <3> HIDE DEF p, q, d
    <3>3. d >= q + limit - 1
      BY <2>1, <3>1, <3>2, <3>d
    <3> QED
      BY <3>3 DEF d, q
  <2> HIDE DEF a
  <2>5. a[j].time - a[i].time >= WINDOW
    BY <2>3, <2>4 DEF Spaced, a
  <2> QED  BY <2>5 DEF a
<1> QED  BY <1>1, Invariance, PTL

(* For every limit and window length: a request is refused only when limit  *)
(* requests of its address were allowed less than WINDOW ago, by the        *)
(* service as it runs now.                                                  *)
THEOREM NobodyRefusedEarly == Spec => []RefusedForCause
<1>1. IInv => RefusedForCause
  <2> SUFFICES ASSUME IInv, NEW s \in Service, NEW k \in Key, ~Allows(s, k)
               PROVE  LET a == allowed[s][k] IN
                      /\ Len(a) >= limit
                      /\ \A i \in (Len(a) - limit + 1)..Len(a) :
                            now - a[i].time < WINDOW /\ a[i].life = lives[s]
    BY DEF RefusedForCause
  <2> DEFINE w == CurrentWindow(s, k)
             a == allowed[s][k]
  <2>1. /\ now \in Nat /\ limit \in Nat /\ WINDOW \in Nat /\ limit > 0
        /\ Len(a) \in Nat /\ \A i \in 1..Len(a) : a[i].time \in Nat
    <3>1. a \in Seq(Allowance) /\ now \in Nat /\ limit \in Nat /\ WINDOW \in Nat /\ limit > 0
      BY LimiterAssumption DEF IInv, TypeOK, Allows
    <3> QED
      BY <3>1, AllowanceFields
  <2>2. w.start \in Nat /\ w.count \in Nat /\ w.count >= limit
    BY <2>1, CurrentWindowType DEF IInv, Allows, Window
  <2>3. Explains(w, a, now, lives[s], limit) /\ now - w.start < WINDOW
    BY <2>1, OpenedWindowExplains
  <2>4. /\ w.count <= limit /\ w.count <= Len(a)
        /\ \A i \in (Len(a) - w.count + 1)..Len(a) : w.start <= a[i].time /\ a[i].life = lives[s]
    BY <2>3 DEF Explains
  <2> HIDE DEF w, a
  <2>5. w.count = limit
    BY <2>1, <2>2, <2>4
  <2>6. ASSUME NEW i \in (Len(a) - limit + 1)..Len(a)
        PROVE  now - a[i].time < WINDOW /\ a[i].life = lives[s]
    <3>1. i \in 1..Len(a) /\ w.start <= a[i].time /\ a[i].life = lives[s]
      BY <2>1, <2>4, <2>5
    <3> QED  BY <2>1, <2>2, <2>3, <3>1
  <2>7. Len(a) >= limit
    BY <2>1, <2>4, <2>5
  <2> QED  BY <2>6, <2>7 DEF a
<1> QED  BY <1>1, Invariance, PTL
=============================================================================
