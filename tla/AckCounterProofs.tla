-------------------------- MODULE AckCounterProofs --------------------------
(* Proofs about AckCounter, for every number of threads and window size. *)
EXTENDS AckCounter, TLAPS

(***************************************************************************)
(* Within W consecutive keys no two share a slot of the ring, and a key    *)
(* shares its slot with the key one window later.                          *)
(***************************************************************************)
LEMMA SlotRange == ASSUME NEW k \in Nat PROVE Slot(k) \in 0 .. (W - 1)
BY WAssumption DEF Slot

(* The keys of a window have slots of their own. *)
LEMMA SlotInjective ==
    ASSUME NEW a \in Nat, NEW b \in Nat, a < b, b < a + W
    PROVE  Slot(a) # Slot(b)
<1>1. SUFFICES ASSUME a % W = b % W PROVE FALSE
  BY DEF Slot
<1>2. a = (W * (a \div W)) + (a % W) /\ b = (W * (b \div W)) + (b % W)
  BY WAssumption
<1>3. PICK p \in Int, q \in Int : p = a \div W /\ q = b \div W
  BY WAssumption
<1>4. W * p < W * q /\ W * q < W * p + W
  BY <1>1, <1>2, <1>3, WAssumption
<1>5. W * (q - p) > 0 /\ W * (q - p) < W
  BY <1>4, WAssumption
<1> QED BY <1>5, WAssumption

(* The key that enters the window has the slot of the one that leaves. *)
LEMMA SlotPeriodic == ASSUME NEW a \in Nat PROVE Slot(a + W) = Slot(a)
<1>1. PICK p \in Int, q \in Int, r \in Int, s \in Int :
        /\ p = a \div W /\ q = (a + W) \div W
        /\ r = a % W /\ s = (a + W) % W
  <2>1. a \div W \in Int /\ (a + W) \div W \in Int /\ a % W \in Int /\ (a + W) % W \in Int
    BY WAssumption
  <2> QED BY <2>1, Zenon
<1>2. a = (W * p) + r /\ a + W = (W * q) + s /\ r \in 0 .. (W - 1) /\ s \in 0 .. (W - 1)
  BY <1>1, WAssumption
<1>3. PICK d \in Int : d = q - p - 1
  BY <1>1
<1>4. W * d = r - s /\ W * d < W /\ W * d > -W
  BY <1>1, <1>2, <1>3, WAssumption
<1>5. d = 0
  <2>1. CASE d >= 1
    BY <2>1, <1>4, WAssumption
  <2>2. CASE d <= -1
    BY <2>2, <1>4, WAssumption
  <2> QED BY <2>1, <2>2, <1>3
<1> QED BY <1>1, <1>4, <1>5, WAssumption DEF Slot

(***************************************************************************)
(* Type correctness: every variable keeps its shape, the limit never falls *)
(* below the loaded records.                                               *)
(***************************************************************************)
LEMMA InitType == Init => TypeOK
<1> SUFFICES ASSUME Init PROVE TypeOK
  OBVIOUS
<1>1. window \in [0 .. (W - 1) -> BOOLEAN]
  BY Zenon DEF Init
<1>2. exited \in BOOLEAN /\ overrun \in BOOLEAN
  BY DEF Init
<1>3. /\ counter \in Nat /\ counter >= RecordCount
      /\ limit \in Int /\ limit >= RecordCount - 1
      /\ key \in [Threads -> Nat]
      /\ stored \subseteq Nat /\ failed \subseteq Nat /\ acked \subseteq Nat
  BY KeysAssumption DEF Init
<1>4. pc \in [Threads -> {"idle", "insert", "ack", "draw", "check", "access"}]
  BY DEF Init
<1> QED BY <1>1, <1>2, <1>3, <1>4 DEF TypeOK

(* Every step keeps the types. *)
LEMMA NextType == ASSUME TypeOK, [Next]_vars PROVE TypeOK'
<1> USE WAssumption, KeysAssumption DEF TypeOK
<1>1. ASSUME NEW t \in Threads, NextKey(t) PROVE TypeOK'
  BY <1>1 DEF NextKey
<1>2. ASSUME NEW t \in Threads, DbInsert(t) PROVE TypeOK'
  BY <1>2 DEF DbInsert
<1>3. ASSUME NEW t \in Threads, Acknowledge(t) PROVE TypeOK'
  <2>1. PICK n \in 0 .. (W - 1) :
          window' = Cleared(Marked(key[t]), n) /\ limit' = limit + n
    BY <1>3 DEF Acknowledge
  <2>2. window' \in [0 .. (W - 1) -> BOOLEAN]
    BY <2>1, Zenon DEF Cleared
  <2>3. limit' \in Int /\ limit' >= RecordCount - 1
    BY <2>1
  <2> QED BY <1>3, <2>2, <2>3 DEF Acknowledge
<1>4. ASSUME NEW t \in Threads, AcknowledgeThrows(t) PROVE TypeOK'
  BY <1>4 DEF AcknowledgeThrows
<1>5. ASSUME NEW t \in Threads, DrawKey(t) PROVE TypeOK'
  <2>1. \A k \in Drawn : k \in Nat
    BY DEF Drawn
  <2> QED BY <1>5, <2>1 DEF DrawKey
<1>6. ASSUME NEW t \in Threads, CheckKey(t) PROVE TypeOK'
  BY <1>6 DEF CheckKey
<1>7. ASSUME NEW t \in Threads, Access(t) PROVE TypeOK'
  BY <1>7 DEF Access
<1>8. CASE UNCHANGED vars
  BY <1>8 DEF vars
<1> QED BY <1>1, <1>2, <1>3, <1>4, <1>5, <1>6, <1>7, <1>8 DEF Next

(* The counter, its ring and the clients' locals keep their types. *)
THEOREM TypeCorrect == Spec => []TypeOK
<1>1. TypeOK /\ [Next]_vars => TypeOK'
  BY NextType
<1> QED BY <1>1, InitType, PTL DEF Spec

(***************************************************************************)
(* The heart of the argument: an acknowledgement within the window keeps   *)
(* the marks of the ring in step with the acknowledged keys.               *)
(***************************************************************************)
LEMMA AcknowledgeKeepsWindow ==
    ASSUME TypeOK, InFlight, WindowInv,
           NEW t \in Threads, Acknowledge(t), key[t] <= limit + W
    PROVE  WindowInv'
<1> DEFINE k == key[t]
           m == Marked(k)
<1> USE WAssumption, KeysAssumption
<1>1. PICK n \in 0 .. (W - 1) :
        /\ Passes(m, n)
        /\ window' = Cleared(m, n)
        /\ limit' = limit + n
  BY DEF Acknowledge
<1>2. acked' = acked \cup {k} /\ counter' = counter
  BY DEF Acknowledge
<1>3. /\ counter \in Nat /\ limit \in Int /\ limit >= -1
      /\ window \in [0 .. (W - 1) -> BOOLEAN]
      /\ \A j \in acked : j \in Nat
  BY DEF TypeOK
<1>4. k \in Nat /\ k \in RecordCount .. (counter - 1) /\ k \notin acked
  BY <1>3 DEF Acknowledge, InFlight, Holds
<1>5. k > limit /\ k <= limit + W
  BY <1>3, <1>4 DEF WindowInv, Prefix!Covers
<1>6. \A i, j \in (limit + 1) .. (limit + W) : i # j => Slot(i) # Slot(j)
  <2> TAKE i, j \in (limit + 1) .. (limit + W)
  <2> HAVE i # j
  <2>0. i \in Nat /\ j \in Nat
    BY <1>3
  <2>1. CASE i < j
    BY <2>0, <2>1, <1>3, SlotInjective
  <2>2. CASE j < i
    BY <2>0, <2>2, <1>3, SlotInjective
  <2> QED BY <2>0, <2>1, <2>2
<1>7. \A j \in (limit + 1) .. (limit + W) : Slot(j) \in 0 .. (W - 1)
  BY <1>3, SlotRange
<1>8. ASSUME NEW j \in (limit + 1) .. (limit + W) PROVE m[Slot(j)] <=> j \in acked'
  <2>1. CASE j = k
    BY <2>1, <1>2, <1>3, <1>7 DEF Marked
  <2>2. CASE j # k
    <3>1. Slot(j) # Slot(k)
      BY <2>2, <1>3, <1>4, <1>5, <1>6
    <3>2. m[Slot(j)] = window[Slot(j)]
      BY <3>1, <1>3, <1>7 DEF Marked
    <3> QED BY <3>2, <2>2, <1>2 DEF WindowInv
  <2> QED BY <2>1, <2>2
<1>9. \A i \in 1 .. n : limit + i \in acked'
  <2> TAKE i \in 1 .. n
  <2>1. limit + i \in (limit + 1) .. (limit + W)
    BY <1>3
  <2>2. m[Slot(limit + i)]
    BY <1>1 DEF Passes
  <2> QED BY <2>1, <2>2, <1>8
<1>10. n = W - 1 \/ limit + n + 1 \notin acked'
  <2>1. limit + n + 1 \in (limit + 1) .. (limit + W)
    BY <1>3
  <2> QED BY <2>1, <1>1, <1>8 DEF Passes
<1>11. \A j \in acked' : j \in Nat /\ j <= limit + W /\ j <= counter - 1
  BY <1>2, <1>3, <1>4, <1>5 DEF WindowInv, InFlight
<1>12. limit' < counter'
  <2>1. CASE n = 0
    BY <2>1, <1>1, <1>2, <1>3 DEF WindowInv
  <2>2. CASE n > 0
    <3>1. limit + n \in acked'
      BY <2>2, <1>9
    <3> QED BY <3>1, <1>1, <1>2, <1>3, <1>11
  <2> QED BY <2>1, <2>2
<1>13. \A j \in RecordCount .. limit' : j \in acked'
  <2> TAKE j \in RecordCount .. limit'
  <2>1. CASE j <= limit
    BY <2>1, <1>2, <1>3 DEF WindowInv, Prefix!Covers
  <2>2. CASE j > limit
    <3>1. j - limit \in 1 .. n /\ limit + (j - limit) = j
      BY <2>2, <1>1, <1>3
    <3> QED BY <3>1, <1>9
  <2> QED BY <2>1, <2>2, <1>1, <1>3
<1>14. limit' + 1 \in acked' => \A j \in acked' : j <= limit' + 1
  BY <1>1, <1>3, <1>10, <1>11
<1>15. \A j \in acked' : j <= limit' + W
  BY <1>1, <1>3, <1>11
<1>16. \A j \in (limit' + 1) .. (limit' + W) : window'[Slot(j)] <=> j \in acked'
  <2> TAKE j \in (limit' + 1) .. (limit' + W)
  <2>0. j \in Nat /\ Slot(j) \in 0 .. (W - 1)
    BY <1>1, <1>3, SlotRange
  <2>1. window'[Slot(j)] <=> m[Slot(j)] /\ \A i \in 1 .. n : Slot(limit + i) # Slot(j)
    BY <2>0, <1>1, Zenon DEF Cleared
  <2>2. CASE j <= limit + W
    <3>1. j \in (limit + 1) .. (limit + W)
      BY <2>0, <2>2, <1>1, <1>3
    <3>2. \A i \in 1 .. n :
            /\ limit + i \in (limit + 1) .. (limit + W)
            /\ limit + i # j
      BY <2>0, <1>1, <1>3
    <3>3. \A i \in 1 .. n : Slot(limit + i) # Slot(j)
      BY <3>1, <3>2, <1>6
    <3> QED BY <3>1, <3>3, <2>1, <1>8
  <2>3. CASE j > limit + W
    <3>1. j \notin acked'
      BY <2>0, <2>3, <1>3, <1>11
    <3>2. /\ j - W - limit \in 1 .. n
          /\ limit + (j - W - limit) \in Nat
          /\ (limit + (j - W - limit)) + W = j
      BY <2>0, <2>3, <1>1, <1>3
    <3>3. Slot(limit + (j - W - limit)) = Slot(j)
      BY <3>2, SlotPeriodic
    <3> QED BY <3>1, <3>2, <3>3, <2>1
  <2> QED BY <2>0, <2>2, <2>3, <1>3
<1> QED BY <1>12, <1>13, <1>14, <1>15, <1>16 DEF WindowInv, Prefix!Covers

(***************************************************************************)
(* A mark in the slot of a key about to be acknowledged means that the key *)
(* is beyond the window.                                                   *)
(***************************************************************************)
LEMMA MarkedMeansOverrun ==
    ASSUME TypeOK, InFlight, WindowInv,
           NEW t \in Threads, AcknowledgeThrows(t)
    PROVE  key[t] > limit + W
<1> USE WAssumption, KeysAssumption
<1>1. key[t] \in RecordCount .. (counter - 1) /\ key[t] \notin acked
  BY DEF AcknowledgeThrows, InFlight, Holds
<1>2. key[t] \in Nat /\ counter \in Nat /\ limit \in Int /\ limit >= RecordCount - 1
  BY DEF TypeOK
<1>3. key[t] > limit
  BY <1>1, <1>2 DEF WindowInv, Prefix!Covers
<1>4. SUFFICES ASSUME key[t] <= limit + W PROVE FALSE
  BY <1>2
<1>5. window[Slot(key[t])] <=> key[t] \in acked
  BY <1>2, <1>3, <1>4 DEF WindowInv
<1> QED BY <1>1, <1>5 DEF AcknowledgeThrows

(* The invariant holds for a fresh counter. *)
LEMMA InitInv == Init => IInv
<1> SUFFICES ASSUME Init PROVE IInv
  OBVIOUS
<1> USE WAssumption, KeysAssumption
<1>1. TypeOK
  BY InitType
<1>2. InFlight
  BY DEF Init, InFlight, Holds
<1>3. Settled
  BY DEF Init, Settled
<1>4. WindowInv
  <2>0. limit \in Int /\ limit >= -1 /\ limit = RecordCount - 1 /\ acked = {}
    BY DEF Init
  <2>1. \A k \in (limit + 1) .. (limit + W) : ~window[Slot(k)]
    <3> TAKE k \in (limit + 1) .. (limit + W)
    <3>1. Slot(k) \in 0 .. (W - 1)
      BY <2>0, SlotRange
    <3> QED BY <3>1 DEF Init
  <2>2. limit < counter
    BY DEF Init
  <2> QED BY <2>0, <2>1, <2>2 DEF WindowInv, Prefix!Covers
<1>5. Chosen
  BY DEF Init, Chosen
<1> QED BY <1>1, <1>2, <1>3, <1>4, <1>5 DEF Init, IInv, ThrowsOnlyOnOverrun

(* Every step keeps the invariant, one step of the proof for each action. *)
LEMMA NextInv == ASSUME IInv, [Next]_vars PROVE IInv'
<1> USE WAssumption, KeysAssumption
<1>0. TypeOK /\ TypeOK' /\ InFlight /\ Settled /\ (~overrun => WindowInv) /\ Chosen
      /\ ThrowsOnlyOnOverrun
  BY NextType DEF IInv
<1>t. \A t \in Threads : key[t] \in Nat /\ counter \in Nat /\ limit \in Int
                         /\ limit >= RecordCount - 1 /\ acked \subseteq Nat
  BY <1>0 DEF TypeOK
<1>1. ASSUME NEW t \in Threads, NextKey(t) PROVE IInv'
  <2>1. InFlight'
    <3>1. /\ counter' = counter + 1 /\ acked' = acked
          /\ \A u \in Threads : Holds(u)' <=> u = t \/ Holds(u)
          /\ ~Holds(t)
          /\ key'[t] = counter
          /\ \A u \in Threads : u # t => key'[u] = key[u]
      BY <1>0, <1>1 DEF NextKey, Holds, TypeOK
    <3>2. \A k \in RecordCount .. (counter' - 1) :
            k = counter \/ k \in RecordCount .. (counter - 1)
      BY <3>1, <1>t
    <3>3. counter \in RecordCount .. (counter' - 1)
      BY <3>1, <1>0, <1>1, <1>t DEF InFlight, TypeOK, IInv
    <3> QED BY <3>1, <3>2, <3>3, <1>0, <1>t DEF InFlight
  <2>2. Settled'
    BY <1>0, <1>1 DEF NextKey, Settled, TypeOK
  <2>3. ~overrun' => WindowInv'
    BY <1>0, <1>1, <1>t DEF NextKey, WindowInv
  <2>4. Chosen'
    BY <1>0, <1>1 DEF NextKey, Chosen, TypeOK
  <2> QED BY <2>1, <2>2, <2>3, <2>4, <1>0, <1>1 DEF NextKey, IInv, ThrowsOnlyOnOverrun
<1>2. ASSUME NEW t \in Threads, DbInsert(t) PROVE IInv'
  <2>1. InFlight'
    <3>1. /\ counter' = counter /\ acked' = acked /\ key' = key
          /\ \A u \in Threads : Holds(u)' <=> Holds(u)
      BY <1>0, <1>2 DEF DbInsert, Holds, TypeOK
    <3> QED BY <3>1, <1>0 DEF InFlight
  <2>2. Settled'
    BY <1>0, <1>2 DEF DbInsert, Settled, TypeOK
  <2>3. ~overrun' => WindowInv'
    <3>1. UNCHANGED <<counter, limit, window, acked, overrun>>
      BY <1>2 DEF DbInsert
    <3> QED BY <3>1, <1>0 DEF WindowInv, Prefix!Covers
  <2>4. Chosen'
    BY <1>0, <1>2 DEF DbInsert, Chosen, TypeOK
  <2> QED BY <2>1, <2>2, <2>3, <2>4, <1>0, <1>2 DEF DbInsert, IInv, ThrowsOnlyOnOverrun
<1>3. ASSUME NEW t \in Threads, Acknowledge(t) PROVE IInv'
  <2>1. InFlight'
    <3>1. /\ counter' = counter /\ acked' = acked \cup {key[t]} /\ key' = key
          /\ Holds(t)
          /\ \A u \in Threads : Holds(u)' <=> u # t /\ Holds(u)
      BY <1>0, <1>3 DEF Acknowledge, Holds, TypeOK
    <3>2. acked' \subseteq RecordCount .. (counter' - 1)
      BY <3>1, <1>0 DEF InFlight
    <3>3. \A u \in Threads : Holds(u)' =>
            key'[u] \in RecordCount .. (counter' - 1) /\ key'[u] \notin acked'
      BY <3>1, <1>0 DEF InFlight
    <3>4. \A u, v \in Threads : u # v /\ Holds(u)' /\ Holds(v)' => key'[u] # key'[v]
      BY <3>1, <1>0 DEF InFlight
    <3>5. \A k \in RecordCount .. (counter' - 1) :
            k \in acked' \/ \E u \in Threads : Holds(u)' /\ key'[u] = k
      BY <3>1, <1>0 DEF InFlight
    <3> QED BY <3>2, <3>3, <3>4, <3>5 DEF InFlight
  <2>2. Settled'
    BY <1>0, <1>3 DEF Acknowledge, Settled, TypeOK
  <2>3. ~overrun' => WindowInv'
    <3>1. ~overrun' => ~overrun /\ key[t] <= limit + W
      <4>1. ~overrun' => ~overrun /\ ~(key[t] > limit + W)
        BY <1>3, Zenon DEF Acknowledge
      <4>2. key[t] \in Nat /\ limit + W \in Int
        BY <1>t
      <4> QED BY <4>1, <4>2
    <3> QED BY <3>1, <1>0, <1>3, AcknowledgeKeepsWindow
  <2>4. Chosen'
    <3>1. limit' >= limit /\ limit' \in Int
      BY <1>3, <1>t DEF Acknowledge
    <3> QED BY <3>1, <1>0, <1>3, <1>t DEF Acknowledge, Chosen, TypeOK
  <2> QED BY <2>1, <2>2, <2>3, <2>4, <1>0, <1>3 DEF Acknowledge, IInv, ThrowsOnlyOnOverrun
<1>4. ASSUME NEW t \in Threads, AcknowledgeThrows(t) PROVE IInv'
  <2>1. overrun'
    BY <1>0, <1>4, MarkedMeansOverrun DEF AcknowledgeThrows
  <2>2. InFlight' /\ Settled' /\ Chosen'
    BY <1>0, <1>4 DEF AcknowledgeThrows, InFlight, Settled, Chosen, Holds
  <2> QED BY <2>1, <2>2, <1>0 DEF IInv, ThrowsOnlyOnOverrun
<1>5. ASSUME NEW t \in Threads, DrawKey(t) PROVE IInv'
  <2>1. InFlight'
    <3>1. /\ counter' = counter /\ acked' = acked
          /\ \A u \in Threads : Holds(u)' <=> Holds(u)
          /\ \A u \in Threads : Holds(u) => key'[u] = key[u]
      <4>1. /\ counter' = counter /\ acked' = acked /\ pc[t] \notin {"insert", "ack"}
            /\ pc' = [pc EXCEPT ![t] = "check"]
        BY <1>5 DEF DrawKey
      <4>2. \A u \in Threads : u # t => key'[u] = key[u]
        BY <1>0, <1>5 DEF DrawKey, TypeOK
      <4> QED BY <4>1, <4>2, <1>0 DEF Holds, TypeOK
    <3>2. \A u \in Threads : Holds(u)' =>
            key'[u] \in RecordCount .. (counter' - 1) /\ key'[u] \notin acked'
      BY <3>1, <1>0 DEF InFlight
    <3>3. \A u, v \in Threads : u # v /\ Holds(u)' /\ Holds(v)' => key'[u] # key'[v]
      BY <3>1, <1>0 DEF InFlight
    <3>4. \A k \in RecordCount .. (counter' - 1) :
            k \in acked' \/ \E u \in Threads : Holds(u)' /\ key'[u] = k
      BY <3>1, <1>0 DEF InFlight
    <3> QED BY <3>1, <3>2, <3>3, <3>4, <1>0 DEF InFlight
  <2>2. Settled'
    BY <1>0, <1>5 DEF DrawKey, Settled, TypeOK
  <2>3. ~overrun' => WindowInv'
    BY <1>0, <1>5 DEF DrawKey, WindowInv
  <2>4. Chosen'
    <3>1. Dist = "latest" => \A k \in Drawn : k <= limit
      BY <1>t DEF Drawn
    <3> QED BY <3>1, <1>0, <1>5 DEF DrawKey, Chosen, TypeOK
  <2> QED BY <2>1, <2>2, <2>3, <2>4, <1>0, <1>5 DEF DrawKey, IInv, ThrowsOnlyOnOverrun
<1>6. ASSUME NEW t \in Threads, CheckKey(t) PROVE IInv'
  <2>1. InFlight' /\ Settled'
    <3>1. /\ counter' = counter /\ acked' = acked /\ key' = key
          /\ \A u \in Threads : Holds(u)' <=> Holds(u)
      BY <1>0, <1>6 DEF CheckKey, Holds, TypeOK
    <3>2. InFlight'
      BY <3>1, <1>0 DEF InFlight
    <3> QED BY <3>2, <1>0, <1>6 DEF CheckKey, Settled, TypeOK
  <2>2. ~overrun' => WindowInv'
    BY <1>0, <1>6 DEF CheckKey, WindowInv
  <2>3. Chosen'
    BY <1>0, <1>6, <1>t DEF CheckKey, Chosen, AboveLast, TypeOK
  <2> QED BY <2>1, <2>2, <2>3, <1>0, <1>6 DEF CheckKey, IInv, ThrowsOnlyOnOverrun
<1>7. ASSUME NEW t \in Threads, Access(t) PROVE IInv'
  <2>1. InFlight' /\ Settled'
    <3>1. /\ counter' = counter /\ acked' = acked /\ key' = key
          /\ \A u \in Threads : Holds(u)' <=> Holds(u)
      BY <1>0, <1>7 DEF Access, Holds, TypeOK
    <3>2. InFlight'
      BY <3>1, <1>0 DEF InFlight
    <3> QED BY <3>2, <1>0, <1>7 DEF Access, Settled, TypeOK
  <2>2. ~overrun' => WindowInv'
    BY <1>0, <1>7 DEF Access, WindowInv
  <2>3. Chosen'
    BY <1>0, <1>7 DEF Access, Chosen, TypeOK
  <2> QED BY <2>1, <2>2, <2>3, <1>0, <1>7 DEF Access, IInv, ThrowsOnlyOnOverrun
<1>8. CASE UNCHANGED vars
  BY <1>0, <1>8 DEF vars, IInv, TypeOK, InFlight, Settled, WindowInv, Chosen, Holds,
                    ThrowsOnlyOnOverrun
<1> QED BY <1>1, <1>2, <1>3, <1>4, <1>5, <1>6, <1>7, <1>8 DEF Next

(* IInv holds in every reachable state of AckCounter. *)
THEOREM Invariance == Spec => []IInv
<1>1. IInv /\ [Next]_vars => IInv'
  BY NextInv
<1> QED BY <1>1, InitInv, PTL DEF Spec

(***************************************************************************)
(* NextTransactionKeyNum returns a key whose insertion was attempted, for  *)
(* any number of clients and any window size, until the window is overrun. *)
(***************************************************************************)
THEOREM ChosenKeys == Spec => []ChosenKeySettled
<1>1. IInv => ChosenKeySettled
  <2> SUFFICES ASSUME IInv, RecordCount > 0, ~overrun,
                      NEW t \in Threads, pc[t] = "access"
               PROVE  key[t] \in stored \cup failed
    BY DEF ChosenKeySettled
  <2>1. key[t] <= limit /\ key[t] \in Nat /\ limit \in Int
    BY DEF IInv, Chosen, TypeOK
  <2>2. CASE key[t] < RecordCount
    BY <2>1, <2>2, KeysAssumption DEF IInv, Settled
  <2>3. CASE key[t] >= RecordCount
    BY <2>1, <2>3, KeysAssumption DEF IInv, Settled, WindowInv, Prefix!Covers
  <2> QED BY <2>1, <2>2, <2>3, KeysAssumption
<1> QED BY <1>1, Invariance, PTL

(* Acknowledge never throws "Not enough window size" on a window in order. *)
THEOREM NoFalseAlarm == Spec => []ThrowsOnlyOnOverrun
<1>1. IInv => ThrowsOnlyOnOverrun
  BY DEF IInv
<1> QED BY <1>1, Invariance, PTL

(* Last() trails a quiescent counter by at most one key. *)
THEOREM BoundedLag == Spec => []LagAtMostOne
<1>1. IInv => LagAtMostOne
  <2> SUFFICES ASSUME IInv, ~overrun, \A t \in Threads : ~Holds(t)
               PROVE  limit \in {counter - 1, counter - 2}
    BY DEF LagAtMostOne
  <2>1. /\ counter \in Nat /\ counter >= RecordCount
        /\ limit \in Int /\ limit >= RecordCount - 1 /\ limit < counter
    BY DEF IInv, TypeOK, WindowInv
  <2>2. \A k \in RecordCount .. (counter - 1) : k \in acked
    BY DEF IInv, InFlight
  <2>3. limit + 1 \in acked => \A k \in acked : k <= limit + 1
    BY DEF IInv, WindowInv, Prefix!Covers
  <2>4. CASE limit + 1 <= counter - 1
    <3>1. limit + 1 \in acked /\ counter - 1 \in acked
      BY <2>1, <2>2, <2>4, KeysAssumption
    <3> QED BY <3>1, <2>1, <2>3, <2>4
  <2> QED BY <2>1, <2>4
<1> QED BY <1>1, Invariance, PTL

(***************************************************************************)
(* The ring of slots implements the acknowledged-prefix counter.           *)
(***************************************************************************)
THEOREM Refinement == Spec => ImplementsPrefix
<1>1. Init => Prefix!Init
  BY DEF Init, Prefix!Init
<1>2. ASSUME IInv, IInv', [Next]_vars PROVE [Prefix!Next]_(Prefix!vars)
  <2> USE DEF Prefix!vars
  <2>t. \A t \in Threads : key[t] \in Nat /\ limit \in Int
    BY <1>2 DEF IInv, TypeOK
  <2>1. ASSUME NEW t \in Threads, NextKey(t) PROVE Prefix!Next
    BY <2>1 DEF NextKey, Prefix!Next, Prefix!HandOut
  <2>2. ASSUME NEW t \in Threads, Acknowledge(t) PROVE Prefix!Next
    <3>1. key[t] \in RecordCount .. (counter - 1) /\ key[t] \notin acked
      BY <1>2, <2>2 DEF IInv, InFlight, Acknowledge, Holds
    <3>2. limit' \in Int /\ limit' >= limit
      BY <2>2, <2>t, WAssumption DEF Acknowledge
    <3>3. ~overrun' => Prefix!Covers(acked', limit')
      BY <1>2 DEF IInv, WindowInv, Prefix!Covers
    <3>4. /\ acked' = acked \cup {key[t]} /\ counter' = counter
          /\ overrun' = (overrun \/ key[t] > limit + W)
      BY <2>2 DEF Acknowledge
    <3>5. Prefix!Acknowledge(key[t])
      BY <3>1, <3>2, <3>3, <3>4 DEF Prefix!Acknowledge
    <3> QED BY <3>1, <3>5 DEF Prefix!Next
  <2>3. ASSUME NEW t \in Threads, AcknowledgeThrows(t) PROVE Prefix!Next
    <3>1. exited' /\ UNCHANGED <<counter, limit, acked>>
      BY <2>3 DEF AcknowledgeThrows
    <3>2. overrun' = TRUE
      BY <3>1, <1>2 DEF IInv, ThrowsOnlyOnOverrun, TypeOK
    <3> QED BY <3>1, <3>2 DEF Prefix!Next, Prefix!Refuse
  <2>4. ASSUME NEW t \in Threads, DbInsert(t) \/ DrawKey(t) \/ CheckKey(t) \/ Access(t)
        PROVE  UNCHANGED <<counter, acked, limit, overrun>>
    BY <2>4 DEF DbInsert, DrawKey, CheckKey, Access
  <2>5. CASE UNCHANGED vars
    BY <2>5 DEF vars
  <2> QED BY <1>2, <2>1, <2>2, <2>3, <2>4, <2>5 DEF Next
<1>3. IInv /\ IInv' /\ [Next]_vars => [Prefix!Next]_(Prefix!vars)
  BY <1>2
<1> QED BY <1>1, <1>3, Invariance, PTL DEF Spec, ImplementsPrefix, Prefix!Spec

=============================================================================
