------------------------- MODULE CommandPools_proofs -------------------------
(***************************************************************************)
(* What CommandPools promises, proved for every finite set of threads,     *)
(* every capacity of the rings and every number of pools and storages.     *)
(* The rings are FIFOs whatever overlaps; that storages are alive, that    *)
(* pools stay with their makers and that each is in one place needs        *)
(* clients that keep threadShutdown and sweeps apart.  The last section is *)
(* about DeviceChoice.                                                     *)
(***************************************************************************)
EXTENDS CommandPools, FiniteSetTheorems, SequenceTheorems, TLAPS

-----------------------------------------------------------------------------
(* Indices of a ring *)

Ends == 0 .. Wrap - 1

\* The index after x, how far it is from h to t, and the cell of x.
Step(x) == (x + 1) % Wrap
Dist(h, t) == (t - h) % Wrap
Cell(x) == x % Capacity

(* Capacity divides the place where indices wrap around.                   *)
LEMMA WrapIsLaps ==
  \E k \in Nat : Wrap = Capacity * k
<1> DEFINE k == Wrap \div Capacity
<1>1. k \in Int /\ Wrap = Capacity * k
  BY CommandPoolsAssumption
<1> HIDE DEF k
<1>2. k >= 0
  <2>1. CASE k <= -1
    BY <1>1, <2>1, CommandPoolsAssumption
  <2> QED BY <1>1, <2>1
<1> QED BY <1>1, <1>2

(* Two numbers a multiple of Capacity apart name the same cell.            *)
LEMMA SameCell ==
  ASSUME NEW x \in Nat
  PROVE  (x + Wrap) % Capacity = x % Capacity
<1> DEFINE a == x \div Capacity
           b == (x + Wrap) \div Capacity
           r == x % Capacity
           s == (x + Wrap) % Capacity
<1>1. PICK k \in Nat : Wrap = Capacity * k
  BY WrapIsLaps
<1>2. /\ a \in Int /\ b \in Int
      /\ r \in 0 .. Capacity - 1 /\ s \in 0 .. Capacity - 1
      /\ x = Capacity * a + r
      /\ x + Wrap = Capacity * b + s
  BY CommandPoolsAssumption
<1> HIDE DEF a, b, r, s
<1>3. r - s = Capacity * (b - a - k)
  BY <1>1, <1>2, CommandPoolsAssumption
<1>4. b - a - k = 0
  <2> DEFINE d == b - a - k
  <2>0. d \in Int /\ r - s = Capacity * d
    BY <1>2, <1>3
  <2> HIDE DEF d
  <2>1. CASE d >= 1
    BY <1>2, <2>0, <2>1, CommandPoolsAssumption
  <2>2. CASE d <= -1
    BY <1>2, <2>0, <2>2, CommandPoolsAssumption
  <2> QED BY <2>0, <2>1, <2>2 DEF d
<1>5. r = s
  BY <1>2, <1>3, <1>4, CommandPoolsAssumption
<1> QED BY <1>5 DEF r, s

(* Numbers less than Capacity apart name different cells.                  *)
LEMMA OtherCell ==
  ASSUME NEW x \in Nat, NEW y \in Nat, x < y, y < x + Capacity
  PROVE  x % Capacity # y % Capacity
<1> SUFFICES ASSUME x % Capacity = y % Capacity PROVE FALSE
  OBVIOUS
<1> DEFINE a == x \div Capacity
           b == y \div Capacity
           r == x % Capacity
<1>1. /\ a \in Int /\ b \in Int /\ r \in Int
      /\ x = Capacity * a + r
      /\ y = Capacity * b + r
  BY CommandPoolsAssumption
<1> HIDE DEF a, b, r
<1>2. y - x = Capacity * (b - a)
  BY <1>1, CommandPoolsAssumption
<1> DEFINE d == b - a
<1>3. d \in Int /\ y - x = Capacity * d
  BY <1>1, <1>2
<1> HIDE DEF d
<1>4. CASE d <= 0
  BY <1>3, <1>4, CommandPoolsAssumption
<1>5. CASE d >= 1
  BY <1>3, <1>5, CommandPoolsAssumption
<1> QED BY <1>3, <1>4, <1>5

(* The index after x.                                                      *)
LEMMA NextIndex ==
  ASSUME NEW x \in Ends
  PROVE  Step(x) = IF x = Wrap - 1 THEN 0 ELSE x + 1
<1> DEFINE q == (x + 1) \div Wrap
           r == (x + 1) % Wrap
<1>1. /\ q \in Int /\ r \in 0 .. Wrap - 1
      /\ x + 1 = Wrap * q + r
  BY CommandPoolsAssumption DEF Ends
<1> HIDE DEF q, r
<1>2. q \in {0, 1}
  <2>1. CASE q >= 2
    BY <1>1, <2>1, CommandPoolsAssumption DEF Ends
  <2>2. CASE q <= -1
    BY <1>1, <2>2, CommandPoolsAssumption DEF Ends
  <2> QED BY <1>1, <2>1, <2>2
<1>3. r = IF x = Wrap - 1 THEN 0 ELSE x + 1
  <2>1. CASE q = 0 BY <1>1, <2>1, CommandPoolsAssumption DEF Ends
  <2>2. CASE q = 1 BY <1>1, <2>2, CommandPoolsAssumption DEF Ends
  <2> QED BY <1>2, <2>1, <2>2
<1> QED BY <1>3 DEF r, Step

(* How far it is from the head h to the tail t.                            *)
LEMMA Distance ==
  ASSUME NEW h \in Ends, NEW t \in Ends
  PROVE  Dist(h, t) = IF t >= h THEN t - h ELSE t - h + Wrap
<1> DEFINE q == (t - h) \div Wrap
           r == (t - h) % Wrap
<1>1. /\ q \in Int /\ r \in 0 .. Wrap - 1
      /\ t - h = Wrap * q + r
  BY CommandPoolsAssumption DEF Ends
<1> HIDE DEF q, r
<1>2. q \in {0, -1}
  <2>1. CASE q >= 1
    BY <1>1, <2>1, CommandPoolsAssumption DEF Ends
  <2>2. CASE q <= -2
    BY <1>1, <2>2, CommandPoolsAssumption DEF Ends
  <2> QED BY <1>1, <2>1, <2>2
<1>3. r = IF t >= h THEN t - h ELSE t - h + Wrap
  <2>1. CASE q = 0  BY <1>1, <2>1, CommandPoolsAssumption DEF Ends
  <2>2. CASE q = -1 BY <1>1, <2>2, CommandPoolsAssumption DEF Ends
  <2> QED BY <1>2, <2>1, <2>2
<1> QED BY <1>3 DEF r, Dist

(* The cell of the tail comes as many places after that of the head; with  *)
(* the tail or the head one further, one more or one fewer are in between, *)
(* and each keeps its cell.                                                *)
LEMMA RingEnds ==
  ASSUME NEW h \in Ends, NEW t \in Ends
  PROVE  /\ Step(h) \in Ends /\ Step(t) \in Ends /\ Dist(h, t) \in Ends
         /\ Cell(t) = Cell(h + Dist(h, t))
         /\ Dist(h, t) + 1 < Wrap => Dist(h, Step(t)) = Dist(h, t) + 1
         /\ Dist(h, t) >= 1 => Dist(Step(h), t) = Dist(h, t) - 1
         /\ \A i \in Nat : Cell(Step(h) + i) = Cell(h + 1 + i)
<1>1. Dist(h, t) = IF t >= h THEN t - h ELSE t - h + Wrap
  BY Distance
<1>2. /\ Step(t) = IF t = Wrap - 1 THEN 0 ELSE t + 1
      /\ Step(h) = IF h = Wrap - 1 THEN 0 ELSE h + 1
  BY NextIndex
<1>3. Step(h) \in Ends /\ Step(t) \in Ends /\ Dist(h, t) \in Ends
  BY <1>1, <1>2, CommandPoolsAssumption DEF Ends
<1>4. Cell(t) = Cell(h + Dist(h, t))
  <2>1. CASE t >= h
    <3>1. t = h + Dist(h, t)
      BY <1>1, <2>1 DEF Ends
    <3> QED BY <3>1
  <2>2. CASE t < h
    <3>1. h + Dist(h, t) = t + Wrap /\ t \in Nat
      BY <1>1, <2>2, CommandPoolsAssumption DEF Ends
    <3> QED BY <3>1, SameCell DEF Cell
  <2> QED BY <2>1, <2>2, CommandPoolsAssumption DEF Ends
<1>5. Dist(h, t) + 1 < Wrap => Dist(h, Step(t)) = Dist(h, t) + 1
  <2>1. Dist(h, Step(t)) = IF Step(t) >= h THEN Step(t) - h ELSE Step(t) - h + Wrap
    BY <1>3, Distance
  <2> QED BY <1>1, <1>2, <2>1, CommandPoolsAssumption DEF Ends
<1>6. Dist(h, t) >= 1 => Dist(Step(h), t) = Dist(h, t) - 1
  <2>1. Dist(Step(h), t) = IF t >= Step(h) THEN t - Step(h) ELSE t - Step(h) + Wrap
    BY <1>3, Distance
  <2>2. CASE h = Wrap - 1
    BY <1>1, <1>2, <2>1, <2>2, CommandPoolsAssumption DEF Ends
  <2>3. CASE h # Wrap - 1
    BY <1>1, <1>2, <2>1, <2>3, CommandPoolsAssumption DEF Ends
  <2> QED BY <2>2, <2>3
<1>7. ASSUME NEW i \in Nat
      PROVE  Cell(Step(h) + i) = Cell(h + 1 + i)
  <2>1. CASE h = Wrap - 1
    <3>1. Step(h) + i = i /\ h + 1 + i = i + Wrap
      BY <1>2, <2>1, CommandPoolsAssumption
    <3>2. (i + Wrap) % Capacity = i % Capacity
      BY SameCell
    <3> QED BY <3>1, <3>2 DEF Cell
  <2>2. CASE h # Wrap - 1
    BY <1>2, <2>2
  <2> QED BY <2>1, <2>2
<1> QED BY <1>3, <1>4, <1>5, <1>6, <1>7

(* One lap further is the same cell.                                       *)
LEMMA OneLap ==
  ASSUME NEW x \in Nat
  PROVE  Cell(x + Capacity) = Cell(x)
<1> DEFINE a == x \div Capacity
           b == (x + Capacity) \div Capacity
           r == x % Capacity
           s == (x + Capacity) % Capacity
<1>1. /\ a \in Int /\ b \in Int
      /\ r \in 0 .. Capacity - 1 /\ s \in 0 .. Capacity - 1
      /\ x = Capacity * a + r
      /\ x + Capacity = Capacity * b + s
  BY CommandPoolsAssumption
<1> HIDE DEF a, b, r, s
<1> DEFINE d == b - a - 1
<1>2. d \in Int /\ r - s = Capacity * d
  BY <1>1, CommandPoolsAssumption
<1> HIDE DEF d
<1>3. CASE d >= 1
  BY <1>1, <1>2, <1>3, CommandPoolsAssumption
<1>4. CASE d <= -1
  BY <1>1, <1>2, <1>4, CommandPoolsAssumption
<1>5. CASE d = 0
  BY <1>1, <1>2, <1>5, CommandPoolsAssumption DEF r, s, Cell
<1> QED BY <1>2, <1>3, <1>4, <1>5

(* With Capacity - 1 items in between, the place after the tail is the     *)
(* head: that is how tryPush sees that there is no room.                   *)
LEMMA FullRing ==
  ASSUME NEW h \in Ends, NEW t \in Ends, Dist(h, t) = Capacity - 1
  PROVE  Cell(t + 1) = Cell(h)
<1>1. Dist(h, t) = IF t >= h THEN t - h ELSE t - h + Wrap
  BY Distance
<1>2. h \in Nat /\ t \in Nat
  BY CommandPoolsAssumption DEF Ends
<1>3. CASE t >= h
  <2>1. t + 1 = h + Capacity
    BY <1>1, <1>2, <1>3, CommandPoolsAssumption
  <2> QED BY <1>2, <2>1, OneLap
<1>4. CASE t < h
  <2>1. (t + 1) + Wrap = h + Capacity /\ t + 1 \in Nat
    BY <1>1, <1>2, <1>4, CommandPoolsAssumption
  <2>2. Cell((t + 1) + Wrap) = Cell(t + 1)
    BY <2>1, SameCell DEF Cell
  <2> QED BY <1>2, <2>1, <2>2, OneLap
<1> QED BY <1>2, <1>3, <1>4

-----------------------------------------------------------------------------
(* The ring as a sequence *)

\* What lies in the buffer b from the head h to the tail t.
Between(h, t, b) == [i \in 1 .. Dist(h, t) |-> b[Cell(h + i - 1)]]

(* Cells are cells.                                                        *)
LEMMA CellType ==
  ASSUME NEW x \in Nat
  PROVE  Cell(x) \in Cells
BY CommandPoolsAssumption DEF Cell, Cells

(* It is a sequence.                                                       *)
LEMMA BetweenType ==
  ASSUME NEW S, NEW b \in [Cells -> S], NEW h \in Ends, NEW t \in Ends
  PROVE  /\ Between(h, t, b) \in Seq(S)
         /\ Len(Between(h, t, b)) = Dist(h, t)
         /\ Dist(h, t) \in Nat
<1>1. Dist(h, t) \in Nat
  BY RingEnds, CommandPoolsAssumption DEF Ends
<1>2. ASSUME NEW i \in 1 .. Dist(h, t)
      PROVE  Cell(h + i - 1) \in Cells
  <2>1. h + i - 1 \in Nat
    BY CommandPoolsAssumption, <1>1 DEF Ends
  <2> QED BY <2>1, CellType
<1>3. Between(h, t, b) \in [1 .. Dist(h, t) -> S]
  BY <1>2 DEF Between
<1> QED BY <1>1, <1>3

(* Sequences of the same length with the same items are the same.          *)
LEMMA SameItems ==
  ASSUME NEW S, NEW q \in Seq(S), NEW r \in Seq(S), Len(q) = Len(r),
         \A i \in 1 .. Len(q) : q[i] = r[i]
  PROVE  q = r
BY SeqEqual

(* tryPush writes the cell of the tail, which is not in between.           *)
LEMMA WriteKeeps ==
  ASSUME NEW b, NEW c, NEW h \in Ends, NEW t \in Ends, Dist(h, t) < Capacity,
         \A x \in Cells : x # Cell(t) => c[x] = b[x]
  PROVE  Between(h, t, c) = Between(h, t, b)
<1> DEFINE L == Dist(h, t)
<1>1. L \in Nat /\ L < Capacity /\ Cell(t) = Cell(h + L)
  <2>1. L \in Ends /\ Cell(t) = Cell(h + L)
    BY RingEnds
  <2> HIDE DEF L
  <2>2. L \in Nat
    BY <2>1, CommandPoolsAssumption DEF Ends
  <2> QED BY <2>1, <2>2 DEF L
<1>2. ASSUME NEW i \in 1 .. L
      PROVE  c[Cell(h + i - 1)] = b[Cell(h + i - 1)]
  <2> DEFINE x == h + i - 1
             y == h + L
  <2>1. x \in Nat /\ y \in Nat /\ x < y /\ y < x + Capacity
    BY <1>1, CommandPoolsAssumption DEF Ends
  <2> HIDE DEF x, y
  <2>2. Cell(x) # Cell(y) /\ Cell(x) \in Cells
    BY <2>1, OtherCell, CellType DEF Cell
  <2>3. c[Cell(x)] = b[Cell(x)]
    BY <1>1, <2>2 DEF y
  <2> QED BY <2>3 DEF x
<1> QED BY <1>2 DEF Between

(* With the tail one further, the pool written before is the last.         *)
LEMMA PublishAppends ==
  ASSUME NEW S, NEW b \in [Cells -> S], NEW h \in Ends, NEW t \in Ends,
         Dist(h, t) < Capacity - 1
  PROVE  /\ Step(t) \in Ends /\ Dist(h, Step(t)) = Dist(h, t) + 1
         /\ Between(h, Step(t), b) = Append(Between(h, t, b), b[Cell(t)])
<1> DEFINE L == Dist(h, t)
           q == Between(h, t, b)
           r == Between(h, Step(t), b)
<1>1. L \in Nat /\ Cell(t) = Cell(h + L)
  BY RingEnds, BetweenType
<1>2. Step(t) \in Ends /\ Dist(h, Step(t)) = L + 1
  <2>1. L + 1 < Wrap
    BY <1>1, CommandPoolsAssumption
  <2> QED BY <2>1, RingEnds
<1>3. q \in Seq(S) /\ Len(q) = L /\ \A i \in 1 .. L : q[i] = b[Cell(h + i - 1)]
  BY BetweenType DEF Between
<1>4. r \in Seq(S) /\ Len(r) = L + 1 /\ \A i \in 1 .. L + 1 : r[i] = b[Cell(h + i - 1)]
  <2>1. PICK n \in Ends : n = Step(t)
    BY <1>2
  <2>2. Between(h, n, b) \in Seq(S) /\ Len(Between(h, n, b)) = Dist(h, n)
    BY BetweenType, ZenonT(60)
  <2>3. \A i \in 1 .. Dist(h, n) : Between(h, n, b)[i] = b[Cell(h + i - 1)]
    BY DEF Between
  <2> QED BY <1>2, <2>1, <2>2, <2>3
<1>5. b[Cell(t)] \in S
  BY CellType, CommandPoolsAssumption DEF Ends
<1>6. r[L + 1] = b[Cell(t)]
  <2>1. h + (L + 1) - 1 = h + L
    BY <1>1 DEF Ends
  <2> QED BY <1>1, <1>4, <2>1
<1> HIDE DEF L, q, r
<1>7. r = Append(q, b[Cell(t)])
  <2>1. /\ Append(q, b[Cell(t)]) \in Seq(S)
        /\ Len(Append(q, b[Cell(t)])) = L + 1
        /\ \A i \in 1 .. L : Append(q, b[Cell(t)])[i] = q[i]
        /\ Append(q, b[Cell(t)])[L + 1] = b[Cell(t)]
    BY <1>1, <1>3, <1>5, AppendProperties
  <2>2. \A i \in 1 .. L + 1 : r[i] = Append(q, b[Cell(t)])[i]
    BY <1>1, <1>3, <1>4, <1>6, <2>1
  <2> QED BY <1>4, <2>1, <2>2, SameItems
<1> QED BY <1>2, <1>7 DEF L, q, r

(* With the head one further, the first pool is no longer there.           *)
LEMMA AdvanceTail ==
  ASSUME NEW S, NEW b \in [Cells -> S], NEW h \in Ends, NEW t \in Ends,
         Dist(h, t) >= 1
  PROVE  /\ Step(h) \in Ends /\ Dist(Step(h), t) = Dist(h, t) - 1
         /\ Between(h, t, b) # <<>>
         /\ Between(h, t, b)[1] = b[Cell(h)]
         /\ Between(Step(h), t, b) = Tail(Between(h, t, b))
<1> DEFINE L == Dist(h, t)
           q == Between(h, t, b)
           r == Between(Step(h), t, b)
<1>1. L \in Nat /\ L >= 1
  BY BetweenType
<1>2. /\ Step(h) \in Ends /\ Dist(Step(h), t) = L - 1
      /\ \A i \in Nat : Cell(Step(h) + i) = Cell(h + 1 + i)
  BY <1>1, RingEnds
<1>3. q \in Seq(S) /\ Len(q) = L /\ \A i \in 1 .. L : q[i] = b[Cell(h + i - 1)]
  BY BetweenType DEF Between
<1>4. r \in Seq(S) /\ Len(r) = L - 1 /\ \A i \in 1 .. L - 1 : r[i] = b[Cell(Step(h) + i - 1)]
  <2>1. PICK n \in Ends : n = Step(h)
    BY <1>2
  <2>2. Between(n, t, b) \in Seq(S) /\ Len(Between(n, t, b)) = Dist(n, t)
    BY BetweenType
  <2>3. \A i \in 1 .. Dist(n, t) : Between(n, t, b)[i] = b[Cell(n + i - 1)]
    BY DEF Between
  <2> QED BY <1>2, <2>1, <2>2, <2>3
<1>5. q # <<>>
  BY <1>1, <1>3
<1>6. q[1] = b[Cell(h)]
  <2>1. h + 1 - 1 = h
    BY DEF Ends
  <2> QED BY <1>1, <1>3, <2>1
<1> HIDE DEF L, q, r
<1>7. r = Tail(q)
  <2>1. /\ Tail(q) \in Seq(S) /\ Len(Tail(q)) = L - 1
        /\ \A i \in 1 .. L - 1 : Tail(q)[i] = q[i + 1]
    BY <1>1, <1>3, <1>5, HeadTailProperties
  <2>2. ASSUME NEW i \in 1 .. L - 1
        PROVE  r[i] = q[i + 1]
    <3>1. q[i + 1] = b[Cell(h + (i + 1) - 1)]
      BY <1>1, <1>3
    <3>2. h + (i + 1) - 1 = h + 1 + (i - 1) /\ Step(h) + i - 1 = Step(h) + (i - 1) /\ i - 1 \in Nat
      BY <1>1, <1>2 DEF Ends
    <3> QED BY <1>2, <1>4, <3>1, <3>2
  <2> QED BY <1>1, <1>4, <2>1, <2>2, SameItems
<1> QED BY <1>2, <1>5, <1>6, <1>7 DEF L, q, r
-----------------------------------------------------------------------------
(* The inductive invariant, in three layers *)

Own      == {"allocate", "read", "advance", "create", "buffer", "discard"}
Sweeping == {"sweep", "recycle", "write", "publish"}

\* How many pools lie between head and tail, and the pools themselves.
Length(s) == Dist(storage[s].head, storage[s].tail)
Items(s) == Between(storage[s].head, storage[s].tail, storage[s].buffer)

(* The registry gives each thread a storage of its own, which its calls    *)
(* work on; one that is about to be drained is in no other hands.          *)
RegistryInv ==
  /\ \A t \in Threads : registry[t] <= storages /\ tp[t] <= storages
  /\ \A t, u \in Threads : registry[t] = registry[u] /\ registry[t] # Null => t = u
  /\ \A t \in Threads : pc[t] \in Own => tp[t] = registry[t] /\ tp[t] # Null
  /\ \A t \in Threads : pc[t] = "drain" =>
       /\ tp[t] # Null /\ registry[t] = Null
       /\ \A u \in Threads : registry[u] # tp[t]
       /\ \A u \in Threads : pc[u] = "drain" /\ tp[u] = tp[t] => u = t
  /\ \A t \in Threads : pc[t] \in {"idle", "append", "force", "done"} => tp[t] = Null

(* One sweep at a time, at the head of the list.                           *)
SweepInv ==
  /\ \A t \in Threads : pc[t] \in Sweeping <=> mutex = t
  /\ \A t \in Threads : pc[t] \in {"recycle", "write", "publish"} => discarded # <<>>
  /\ \A t \in Threads : pc[t] \in {"write", "publish"} => tp[t] # Null
  /\ \A t \in Threads : hand[t] # Null <=> pc[t] = "append"

(* A pop has found a pool, and a push room for one.                        *)
RoomInv ==
  /\ \A s \in Storages : Length(s) < Capacity
  /\ \A t \in Threads, s \in Storages : tp[t] = s =>
       /\ pc[t] \in {"read", "advance"} => Length(s) >= 1
       /\ pc[t] \in {"write", "publish"} => Length(s) < Capacity - 1

\* A storage that is not freed and not to come.
Held(s) == \E t \in Threads : registry[t] = s \/ (pc[t] = "drain" /\ tp[t] = s)

(* Only pools lie in a ring; a push that comes too late for the storage    *)
(* may leave anything in what was its ring.                                *)
PooledInv ==
  \A s \in Storages : Held(s) =>
    /\ \A i \in 1 .. Length(s) : Items(s)[i] # Null
    /\ \A t \in Threads : tp[t] = s /\ pc[t] = "publish" =>
         storage[s].buffer[Cell(storage[s].tail)] # Null

\* The threads that may be about to create a pool.
Creators == {t \in Threads : pc[t] \in {"allocate", "create"}}

(* The first layer, which no client can break.                             *)
RingInv ==
  /\ TypeOK /\ RegistryInv /\ SweepInv /\ RoomInv /\ PooledInv
  /\ pools + Cardinality(Creators) <= MaxPools

\* threadShutdown, up to the sweep that it forces.
Leaving(t) == pc[t] \in {"drain", "force"} \/ (mutex = t /\ force)

(* Storages live as long as they are held, and no sweep meets one that is  *)
(* being drained.                                                          *)
AliveInv ==
  /\ \A s \in Storages : storage[s].alive <=> Held(s)
  /\ \A t \in Threads : pc[t] = "drain" => mutex = NoThread
  /\ \A t \in Threads : pc[t] \in {"write", "publish"} => tp[t] = registry[Head(discarded).tid]
  /\ \A t \in Threads : pc[t] = "recycle" => tp[t] \in {Null, registry[Head(discarded).tid]}
  /\ \A t \in Threads : pc[t] = "append" => registry[t] # Null

(* What the owner does to its active pool, and the sweep to a free cell.   *)
ActiveInv ==
  \A t \in Threads, s \in Storages : tp[t] = s =>
    /\ pc[t] \in {"read", "create"} => storage[s].active = Null
    /\ pc[t] = "advance" => storage[s].active = Items(s)[1]
    /\ pc[t] = "buffer" => storage[s].active # Null
    /\ pc[t] = "publish" => storage[s].buffer[Cell(storage[s].tail)] = Head(discarded).pool

(* The pools that a thread has made stay its own on their way through the  *)
(* list, which holds none of a thread that has left.                       *)
CacheInv ==
  /\ \A t \in Threads, s \in Storages : registry[t] = s =>
       /\ storage[s].active \in storage[s].cache \cup {Null}
       /\ \A i \in 1 .. Len(Items(s)) : Items(s)[i] \in storage[s].cache
       /\ hand[t] \in storage[s].cache \cup {Null}
       /\ \A i \in 1 .. Len(discarded) :
            discarded[i].tid = t => discarded[i].pool \in storage[s].cache
  /\ \A t \in Threads : registry[t] = Null /\ ~Leaving(t) =>
       \A i \in 1 .. Len(discarded) : discarded[i].tid # t

(* The second layer.                                                       *)
OwnerInv == RingInv /\ AliveInv /\ ActiveInv /\ CacheInv


-----------------------------------------------------------------------------
(* Types *)

ThreadPoolsType == [alive : BOOLEAN, buffer : [Cells -> Pools \cup {Null}], head : Ends,
                    tail : Ends, active : Pools \cup {Null}, cache : SUBSET Pools]

\* TypeOK without storage.
PlainTypes ==
  /\ pc \in [Threads -> PCs]
  /\ registry \in [Threads -> Storages \cup {Null}]
  /\ tp \in [Threads -> Storages \cup {Null}]
  /\ hand \in [Threads -> Pools \cup {Null}]
  /\ mutex \in Threads \cup {NoThread}
  /\ force \in BOOLEAN
  /\ discarded \in Seq([pool : Pools, tid : Threads])
  /\ pools \in 0 .. MaxPools /\ storages \in 0 .. MaxStorages
  /\ destroyed \subseteq Pools

(* TypeOK in two parts.                                                    *)
LEMMA TypeParts == TypeOK <=> PlainTypes /\ storage \in [Storages -> ThreadPoolsType]
BY DEF TypeOK, PlainTypes, ThreadPoolsType, Ends

(* A new storage and a freed one.                                          *)
LEMMA FreshType ==
  /\ NewThreadPools \in ThreadPoolsType /\ NoThreadPools \in ThreadPoolsType
  /\ Dist(0, 0) = 0
<1>1. 0 \in Ends
  BY CommandPoolsAssumption DEF Ends
<1>2. NewThreadPools \in ThreadPoolsType
  BY <1>1 DEF NewThreadPools, ThreadPoolsType, Null
<1>3. NoThreadPools \in ThreadPoolsType
  BY <1>2 DEF NoThreadPools, ThreadPoolsType
<1>4. Dist(0, 0) = 0
  BY <1>1, Distance
<1> QED BY <1>2, <1>3, <1>4

(* The type of a storage, by its fields.                                   *)
LEMMA StorageType ==
  ASSUME TypeOK
  PROVE  /\ storage \in [Storages -> ThreadPoolsType]
         /\ \A s \in Storages :
              /\ storage[s].alive \in BOOLEAN
              /\ storage[s].buffer \in [Cells -> Pools \cup {Null}]
              /\ storage[s].head \in Ends /\ storage[s].tail \in Ends
              /\ storage[s].active \in Pools \cup {Null}
              /\ storage[s].cache \subseteq Pools
BY DEF TypeOK, ThreadPoolsType, Ends

(* Head and Tail of the list of discarded pools.                           *)
LEMMA DiscardedType ==
  ASSUME TypeOK, discarded # <<>>
  PROVE  /\ Len(discarded) \in Nat /\ Len(discarded) >= 1
         /\ Head(discarded) = discarded[1]
         /\ Head(discarded).pool \in Pools /\ Head(discarded).tid \in Threads
         /\ Tail(discarded) \in Seq([pool : Pools, tid : Threads])
         /\ Len(Tail(discarded)) = Len(discarded) - 1
         /\ \A i \in 1 .. Len(discarded) - 1 : Tail(discarded)[i] = discarded[i + 1]
<1>1. discarded \in Seq([pool : Pools, tid : Threads])
  BY DEF TypeOK
<1>2. Head(discarded) \in [pool : Pools, tid : Threads]
  BY <1>1, HeadTailProperties
<1> QED BY <1>1, <1>2, HeadTailProperties, LenProperties, EmptySeq

(* A thread about to create a pool has room for it.                        *)
LEMMA CreatorsCount ==
  ASSUME RingInv
  PROVE  /\ IsFiniteSet(Creators) /\ Cardinality(Creators) \in Nat
         /\ \A t \in Threads : pc[t] \in {"allocate", "create"} => pools + 1 <= MaxPools
<1>1. IsFiniteSet(Creators) /\ Cardinality(Creators) \in Nat
  BY CommandPoolsAssumption, FS_Subset, FS_CardinalityType DEF Creators
<1>2. ASSUME NEW t \in Threads, pc[t] \in {"allocate", "create"}
      PROVE  pools + 1 <= MaxPools
  <2>1. t \in Creators
    BY <1>2 DEF Creators
  <2>2. Cardinality(Creators) # 0
    BY <1>1, <2>1, FS_EmptySet
  <2> QED BY <1>1, <2>2, CommandPoolsAssumption DEF RingInv, TypeOK
<1> QED BY <1>1, <1>2

(* Types hold at first ...                                                 *)
LEMMA InitType == Init => TypeOK
<1> SUFFICES ASSUME Init PROVE TypeOK
  OBVIOUS
<1>1. storage \in [Storages -> ThreadPoolsType]
  BY FreshType DEF Init
<1>2. PlainTypes
  <2>1. pc \in [Threads -> PCs] /\ mutex \in Threads \cup {NoThread}
    BY DEF Init, PCs
  <2>2. force \in BOOLEAN
    BY Zenon DEF Init
  <2>3. /\ registry \in [Threads -> Storages \cup {Null}]
        /\ tp \in [Threads -> Storages \cup {Null}]
        /\ hand \in [Threads -> Pools \cup {Null}]
    BY DEF Init
  <2>4. discarded \in Seq([pool : Pools, tid : Threads]) /\ destroyed \subseteq Pools
    BY DEF Init
  <2>5. pools \in 0 .. MaxPools /\ storages \in 0 .. MaxStorages
    BY CommandPoolsAssumption DEF Init
  <2> QED BY <2>1, <2>2, <2>3, <2>4, <2>5 DEF PlainTypes
<1> QED BY <1>1, <1>2, TypeParts

(* What Drained finds in a storage that is not freed.                      *)
LEMMA DrainedIs ==
  ASSUME RingInv, NEW s \in Storages
  PROVE  /\ Drained(s) = {Items(s)[i] : i \in 1 .. Length(s)} \cup ({storage[s].active} \ {Null})
         /\ Held(s) => Drained(s) \subseteq Pools
<1> DEFINE h == storage[s].head
           t == storage[s].tail
           b == storage[s].buffer
           L == Dist(h, t)
<1>1. /\ h \in Ends /\ t \in Ends /\ b \in [Cells -> Pools \cup {Null}]
      /\ storage[s].active \in Pools \cup {Null}
  BY StorageType DEF RingInv
<1>2. L = (t - h) % Wrap
  BY DEF Dist
<1> HIDE DEF h, t, b
<1>3. L \in Nat /\ Between(h, t, b) \in Seq(Pools \cup {Null}) /\ Len(Between(h, t, b)) = L
  <2>1. PICK S : S = Pools \cup {Null}
    OBVIOUS
  <2>2. PICK x \in Ends, y \in Ends, c \in [Cells -> S] : x = h /\ y = t /\ c = b
    BY <1>1, <2>1
  <2>3. Between(x, y, c) \in Seq(S) /\ Len(Between(x, y, c)) = Dist(x, y) /\ Dist(x, y) \in Nat
    BY BetweenType
  <2> QED BY <2>1, <2>2, <2>3
<1> HIDE DEF L
<1>4. \A i \in 1 .. L : Between(h, t, b)[i] = b[(h + i - 1) % Capacity]
  BY DEF Between, L, Cell
<1>5. {b[(h + i) % Capacity] : i \in 0 .. L - 1} = {Between(h, t, b)[i] : i \in 1 .. L}
  <2>1. ASSUME NEW i \in 0 .. L - 1
        PROVE  \E j \in 1 .. L : b[(h + i) % Capacity] = Between(h, t, b)[j]
    <3>1. h + (i + 1) - 1 = h + i /\ i + 1 \in 1 .. L
      BY <1>1, <1>3 DEF Ends
    <3>2. Between(h, t, b)[i + 1] = b[(h + (i + 1) - 1) % Capacity]
      BY <1>4, <3>1
    <3> QED BY <3>1, <3>2
  <2>2. ASSUME NEW j \in 1 .. L
        PROVE  \E i \in 0 .. L - 1 : Between(h, t, b)[j] = b[(h + i) % Capacity]
    <3>1. h + (j - 1) = h + j - 1 /\ j - 1 \in 0 .. L - 1
      BY <1>1, <1>3 DEF Ends
    <3>2. Between(h, t, b)[j] = b[(h + j - 1) % Capacity]
      BY <1>4
    <3> QED BY <3>1, <3>2
  <2> QED BY <2>1, <2>2
<1>6. Drained(s) = {Items(s)[i] : i \in 1 .. Length(s)} \cup ({storage[s].active} \ {Null})
  BY <1>2, <1>5 DEF Drained, Items, Length, L, h, t, b
<1>7. ASSUME Held(s)
      PROVE  Drained(s) \subseteq Pools
  <2>1. ASSUME NEW i \in 1 .. Length(s)
        PROVE  Items(s)[i] \in Pools
    <3>1. Items(s)[i] \in Pools \cup {Null}
      BY <1>3 DEF Items, Length, L, h, t, b
    <3>2. Items(s)[i] # Null
      BY <1>7 DEF RingInv, PooledInv
    <3> QED BY <3>1, <3>2
  <2> QED BY <1>1, <1>6, <2>1
<1> QED BY <1>6, <1>7

(* ... every variable but storage keeps its type ...                       *)
LEMMA PlainStep == RingInv /\ [Next]_vars => PlainTypes'
<1> SUFFICES ASSUME RingInv, [Next]_vars PROVE PlainTypes'
  OBVIOUS
<1>1. PlainTypes /\ RegistryInv /\ SweepInv
  BY TypeParts DEF RingInv
<1>2. \A s \in Storages :
        storage[s].active \in Pools \cup {Null} /\ storage[s].buffer \in [Cells -> Pools \cup {Null}]
  BY StorageType DEF RingInv
<1> USE DEF PCs, At, Goto, sweepVars, countVars, Own
<1>3. ASSUME NEW t \in Threads, EnsureThreadPools(t)
      PROVE  PlainTypes'
  <2>1. pc' \in [Threads -> PCs] /\ UNCHANGED <<hand, mutex, force, discarded, pools, destroyed>>
    BY <1>1, <1>3 DEF EnsureThreadPools, PlainTypes
  <2>2. CASE registry[t] # Null
    <3>1. tp' = [tp EXCEPT ![t] = registry[t]] /\ UNCHANGED <<registry, storages>>
      BY <1>3, <2>2 DEF EnsureThreadPools
    <3> QED BY <1>1, <2>1, <3>1 DEF PlainTypes
  <2>3. CASE registry[t] = Null
    <3>1. /\ storages < MaxStorages /\ storages' = storages + 1
          /\ tp' = [tp EXCEPT ![t] = storages'] /\ registry' = [registry EXCEPT ![t] = storages']
      BY <1>3, <2>3 DEF EnsureThreadPools
    <3>2. storages' \in Storages /\ storages' \in 0 .. MaxStorages
      BY <1>1, <3>1, CommandPoolsAssumption DEF PlainTypes, Storages
    <3>3. tp' \in [Threads -> Storages \cup {Null}] /\ registry' \in [Threads -> Storages \cup {Null}]
      BY <1>1, <3>1, <3>2 DEF PlainTypes
    <3> QED BY <1>1, <2>1, <3>2, <3>3 DEF PlainTypes
  <2> QED BY <2>2, <2>3
<1>4. ASSUME NEW t \in Threads, ChoosePool(t) \/ PopRead(t) \/ PopPublish(t) \/ CommandBuffer(t)
      PROVE  PlainTypes'
  BY <1>1, <1>4 DEF ChoosePool, PopRead, PopPublish, CommandBuffer, PlainTypes
<1>5. ASSUME NEW t \in Threads, CreateCommandPool(t)
      PROVE  PlainTypes'
  <2>1. pools + 1 <= MaxPools
    BY <1>5, CreatorsCount DEF CreateCommandPool
  <2> QED BY <1>1, <1>5, <2>1, CommandPoolsAssumption DEF CreateCommandPool, PlainTypes
<1>6. ASSUME NEW t \in Threads, DiscardActivePool(t)
      PROVE  PlainTypes'
  <2>1. storage[tp[t]].active \in Pools \cup {Null}
    BY <1>1, <1>2, <1>6 DEF DiscardActivePool, RegistryInv, PlainTypes
  <2> QED BY <1>1, <1>6, <2>1 DEF DiscardActivePool, PlainTypes
<1>7. ASSUME NEW t \in Threads, DiscardCommandPoolForReuse(t)
      PROVE  PlainTypes'
  <2>1. hand[t] \in Pools
    BY <1>1, <1>7 DEF DiscardCommandPoolForReuse, SweepInv, PlainTypes
  <2>2. discarded' \in Seq([pool : Pools, tid : Threads])
    BY <1>1, <1>7, <2>1 DEF DiscardCommandPoolForReuse, PlainTypes
  <2>3. /\ pc' \in [Threads -> PCs] /\ hand' \in [Threads -> Pools \cup {Null}]
        /\ UNCHANGED <<registry, storage, tp, mutex, force, pools, storages, destroyed>>
    BY <1>1, <1>7 DEF DiscardCommandPoolForReuse, PlainTypes
  <2> QED BY <1>1, <2>2, <2>3 DEF PlainTypes
<1>8. ASSUME NEW t \in Threads, BeginSweep(t)
      PROVE  PlainTypes'
  <2>1. force' \in BOOLEAN
    BY <1>8, Zenon DEF BeginSweep
  <2>2. /\ pc' \in [Threads -> PCs] /\ mutex' = t
        /\ UNCHANGED <<registry, storage, tp, hand, discarded, pools, storages, destroyed>>
    BY <1>1, <1>8 DEF BeginSweep, PlainTypes
  <2> QED BY <1>1, <2>1, <2>2 DEF PlainTypes
<1>9. ASSUME NEW t \in Threads, RecycleFind(t)
      PROVE  PlainTypes'
  <2>1. Head(discarded).tid \in Threads
    BY <1>9, DiscardedType DEF RecycleFind, RingInv
  <2>2. Recipient(t) \in Storages \cup {Null}
    BY <1>1, <2>1 DEF Recipient, PlainTypes
  <2> QED BY <1>1, <1>9, <2>2 DEF RecycleFind, PlainTypes
<1>10. ASSUME NEW t \in Threads, Recycle(t) \/ PushWrite(t) \/ PushPublish(t)
       PROVE  PlainTypes'
  <2>1. discarded # <<>>
    BY <1>1, <1>10 DEF Recycle, PushWrite, PushPublish, SweepInv
  <2>2. Head(discarded).pool \in Pools /\ Tail(discarded) \in Seq([pool : Pools, tid : Threads])
    BY <2>1, DiscardedType DEF RingInv
  <2>3. CASE Recycle(t)
    <3>1. CASE tp[t] = Null \/ Full(tp[t])
      BY <1>1, <2>2, <2>3, <3>1 DEF Recycle, PlainTypes
    <3>2. CASE ~(tp[t] = Null \/ Full(tp[t]))
      BY <1>1, <2>3, <3>2 DEF Recycle, PlainTypes
    <3> QED BY <3>1, <3>2
  <2>4. CASE PushWrite(t)
    BY <1>1, <2>4 DEF PushWrite, PlainTypes
  <2>5. CASE PushPublish(t)
    BY <1>1, <2>2, <2>5 DEF PushPublish, PlainTypes
  <2> QED BY <1>10, <2>3, <2>4, <2>5
<1>11. ASSUME NEW t \in Threads, EndSweep(t)
       PROVE  PlainTypes'
  <2>1. force' \in BOOLEAN
    BY <1>11, Zenon DEF EndSweep
  <2> QED BY <1>1, <1>11, <2>1 DEF EndSweep, PlainTypes
<1>12. ASSUME NEW t \in Threads, ThreadShutdown(t)
       PROVE  PlainTypes'
  BY <1>1, <1>12 DEF ThreadShutdown, Unregistered, PlainTypes
<1>13. ASSUME NEW t \in Threads, DrainAndFree(t)
       PROVE  PlainTypes'
  <2>1. tp[t] \in Storages /\ Held(tp[t])
    BY <1>1, <1>13 DEF DrainAndFree, RegistryInv, PlainTypes, Held
  <2>2. Drained(tp[t]) \subseteq Pools
    BY <2>1, DrainedIs
  <2> QED BY <1>1, <1>13, <2>2 DEF DrainAndFree, PlainTypes
<1>14. CASE Destroy
  <2> DEFINE owned == {registry[t] : t \in Threads} \ {Null}
  <2>1. ASSUME NEW s \in owned
        PROVE  Drained(s) \subseteq Pools
    <3>1. s \in Storages /\ Held(s)
      BY <1>1 DEF PlainTypes, Held
    <3> QED BY <3>1, DrainedIs
  <2>2. destroyed' \subseteq Pools
    <3>1. destroyed' = destroyed \cup UNION {Drained(s) : s \in owned}
      BY <1>14 DEF Destroy
    <3> QED BY <1>1, <2>1, <3>1 DEF PlainTypes
  <2>3. /\ registry' = [t \in Threads |-> Null] /\ pc' = [t \in Threads |-> "done"]
        /\ UNCHANGED <<tp, hand, mutex, force, discarded, pools, storages>>
    BY <1>14 DEF Destroy
  <2> QED BY <1>1, <2>2, <2>3 DEF PlainTypes
<1>15. CASE UNCHANGED vars
  BY <1>1, <1>15 DEF vars, PlainTypes
<1> QED
  BY <1>3, <1>4, <1>5, <1>6, <1>7, <1>8, <1>9, <1>10, <1>11, <1>12, <1>13, <1>14, <1>15
  DEF Next, Allocate, Discard, Sweep, Shutdown, Terminated
(* ... and so does storage ...                                             *)
LEMMA StorageStep == RingInv /\ [Next]_vars => storage' \in [Storages -> ThreadPoolsType]
<1> DEFINE Goal == storage' \in [Storages -> ThreadPoolsType]
<1> SUFFICES ASSUME RingInv, [Next]_vars PROVE Goal
  OBVIOUS
<1>1. PlainTypes /\ RegistryInv /\ storage \in [Storages -> ThreadPoolsType]
  BY TypeParts DEF RingInv
<1>2. \A t \in Threads : pc[t] \in Own \cup {"write", "publish", "drain"} => tp[t] \in Storages
  BY <1>1 DEF RegistryInv, PlainTypes, RingInv, SweepInv, Own
<1>3. \A s \in Storages :
        /\ storage[s].buffer \in [Cells -> Pools \cup {Null}]
        /\ storage[s].head \in Ends /\ storage[s].tail \in Ends
        /\ storage[s].active \in Pools \cup {Null} /\ storage[s].cache \subseteq Pools
        /\ storage[s].head % Capacity \in Cells /\ storage[s].tail % Capacity \in Cells
        /\ (storage[s].head + 1) % Wrap \in Ends /\ (storage[s].tail + 1) % Wrap \in Ends
  <2> SUFFICES ASSUME NEW s \in Storages
               PROVE  /\ storage[s].head % Capacity \in Cells /\ storage[s].tail % Capacity \in Cells
                      /\ (storage[s].head + 1) % Wrap \in Ends /\ (storage[s].tail + 1) % Wrap \in Ends
    BY StorageType DEF RingInv
  <2>1. storage[s].head \in Ends /\ storage[s].tail \in Ends
    BY StorageType DEF RingInv
  <2>2. Step(storage[s].head) \in Ends /\ Step(storage[s].tail) \in Ends
    BY <2>1, RingEnds
  <2>3. Cell(storage[s].head) \in Cells /\ Cell(storage[s].tail) \in Cells
    BY <2>1, CellType, CommandPoolsAssumption DEF Ends
  <2> QED BY <2>2, <2>3 DEF Step, Cell
<1> USE DEF At, Own
<1>4. ASSUME NEW t \in Threads, EnsureThreadPools(t)
      PROVE  Goal
  <2>1. storage' = storage \/ \E s \in Storages : storage' = [storage EXCEPT ![s] = NewThreadPools]
    <3>1. CASE registry[t] # Null
      BY <1>4, <3>1 DEF EnsureThreadPools
    <3>2. CASE registry[t] = Null
      <4>1. /\ storages < MaxStorages /\ storages' = storages + 1
            /\ storage' = [storage EXCEPT ![storages'] = NewThreadPools]
        BY <1>4, <3>2 DEF EnsureThreadPools
      <4>2. storages' \in Storages
        BY <1>1, <4>1, CommandPoolsAssumption DEF PlainTypes, Storages
      <4> QED BY <4>1, <4>2
    <3> QED BY <3>1, <3>2
  <2> QED BY <1>1, <2>1, FreshType
<1>5. ASSUME NEW t \in Threads, PopRead(t)
      PROVE  Goal
  <2> DEFINE s == tp[t]
             v == storage[s].buffer[storage[s].head % Capacity]
  <2>1. s \in Storages /\ v \in Pools \cup {Null} /\ storage' = [storage EXCEPT ![s].active = v]
    BY <1>2, <1>3, <1>5 DEF PopRead
  <2> HIDE DEF s, v
  <2> QED BY <1>1, <2>1 DEF ThreadPoolsType
<1>6. ASSUME NEW t \in Threads, PopPublish(t)
      PROVE  Goal
  <2> DEFINE s == tp[t]
             v == (storage[s].head + 1) % Wrap
  <2>1. s \in Storages /\ v \in Ends /\ storage' = [storage EXCEPT ![s].head = v]
    BY <1>2, <1>3, <1>6 DEF PopPublish
  <2> HIDE DEF s, v
  <2> QED BY <1>1, <2>1 DEF ThreadPoolsType
<1>7. ASSUME NEW t \in Threads, CreateCommandPool(t)
      PROVE  Goal
  <2> DEFINE s == tp[t]
             C == storage[s].cache \cup {pools'}
  <2>1. pools' \in Pools
    BY <1>1, <1>7, CreatorsCount, CommandPoolsAssumption DEF CreateCommandPool, PlainTypes, Pools
  <2>2. /\ s \in Storages /\ C \in SUBSET Pools
        /\ storage' = [storage EXCEPT ![s].active = pools', ![s].cache = C]
    BY <1>2, <1>3, <1>7, <2>1 DEF CreateCommandPool
  <2> HIDE DEF s, C
  <2> QED BY <1>1, <2>1, <2>2, ZenonT(60) DEF ThreadPoolsType
<1>8. ASSUME NEW t \in Threads, DiscardActivePool(t)
      PROVE  Goal
  <2> DEFINE s == tp[t]
  <2>1. s \in Storages /\ storage' = [storage EXCEPT ![s].active = Null]
    BY <1>2, <1>8 DEF DiscardActivePool
  <2> HIDE DEF s
  <2> QED BY <1>1, <2>1 DEF ThreadPoolsType
<1>9. ASSUME NEW t \in Threads, PushWrite(t)
      PROVE  Goal
  <2> DEFINE s == tp[t]
             c == storage[s].tail % Capacity
             v == Head(discarded).pool
  <2>1. v \in Pools
    BY <1>9, DiscardedType DEF PushWrite, RingInv, SweepInv
  <2>2. s \in Storages /\ c \in Cells /\ storage' = [storage EXCEPT ![s].buffer[c] = v]
    BY <1>2, <1>3, <1>9 DEF PushWrite
  <2> HIDE DEF s, c, v
  <2> QED BY <1>1, <2>1, <2>2, ZenonT(60) DEF ThreadPoolsType
<1>10. ASSUME NEW t \in Threads, PushPublish(t)
       PROVE  Goal
  <2> DEFINE s == tp[t]
             v == (storage[s].tail + 1) % Wrap
  <2>1. s \in Storages /\ v \in Ends /\ storage' = [storage EXCEPT ![s].tail = v]
    BY <1>2, <1>3, <1>10 DEF PushPublish
  <2> HIDE DEF s, v
  <2> QED BY <1>1, <2>1 DEF ThreadPoolsType
<1>11. ASSUME NEW t \in Threads, DrainAndFree(t)
       PROVE  Goal
  BY <1>1, <1>11, FreshType DEF DrainAndFree
<1>12. CASE Destroy
  <2> DEFINE owned == {registry[t] : t \in Threads} \ {Null}
  <2>1. storage' = [s \in Storages |-> IF s \in owned THEN NoThreadPools ELSE storage[s]]
    BY <1>12 DEF Destroy
  <2> HIDE DEF owned
  <2> QED BY <1>1, <2>1, FreshType
<1>13. CASE UNCHANGED storage
  BY <1>1, <1>13
<1>14. ASSUME NEW t \in Threads,
              \/ ChoosePool(t) \/ CommandBuffer(t) \/ DiscardCommandPoolForReuse(t) \/ BeginSweep(t)
              \/ RecycleFind(t) \/ Recycle(t) \/ EndSweep(t) \/ ThreadShutdown(t)
       PROVE  UNCHANGED storage
  BY <1>14 DEF ChoosePool, CommandBuffer, DiscardCommandPoolForReuse, BeginSweep, RecycleFind,
               Recycle, EndSweep, ThreadShutdown
<1>15. CASE UNCHANGED vars
  BY <1>13, <1>15 DEF vars
<1> QED
  BY <1>4, <1>5, <1>6, <1>7, <1>8, <1>9, <1>10, <1>11, <1>12, <1>13, <1>14, <1>15
  DEF Next, Allocate, Discard, Sweep, Shutdown, Terminated

(* ... so that types are kept.                                             *)
LEMMA TypeStep == RingInv /\ [Next]_vars => TypeOK'
<1>1. (TypeOK <=> PlainTypes /\ storage \in [Storages -> ThreadPoolsType])'
  BY TypeParts, PTL
<1> QED BY <1>1, PlainStep, StorageStep
-----------------------------------------------------------------------------
(* The first layer is kept *)

(* The registry.                                                           *)
LEMMA RegistryStep == RingInv /\ [Next]_vars => RegistryInv'
<1> SUFFICES ASSUME RingInv, [Next]_vars PROVE RegistryInv'
  OBVIOUS
<1>1. PlainTypes /\ RegistryInv /\ SweepInv
  BY TypeParts DEF RingInv
<1> USE DEF At, Goto, Own, RegistryInv
<1>2. ASSUME NEW t \in Threads, EnsureThreadPools(t)
      PROVE  RegistryInv'
  <2>1. /\ pc[t] = "idle"
        /\ pc' = [pc EXCEPT ![t] = "allocate"] \/ pc' = [pc EXCEPT ![t] = "discard"]
    BY <1>2 DEF EnsureThreadPools
  <2>2. CASE registry[t] # Null
    <3>1. tp' = [tp EXCEPT ![t] = registry[t]] /\ UNCHANGED <<registry, storages>>
      BY <1>2, <2>2 DEF EnsureThreadPools
    <3> QED BY <1>1, <2>1, <2>2, <3>1 DEF PlainTypes
  <2>3. CASE registry[t] = Null
    <3>1. /\ storages' = storages + 1
          /\ tp' = [tp EXCEPT ![t] = storages'] /\ registry' = [registry EXCEPT ![t] = storages']
      BY <1>2, <2>3 DEF EnsureThreadPools
    <3>2. storages \in Nat /\ \A u \in Threads : registry[u] \in Nat /\ tp[u] \in Nat
      BY <1>1, CommandPoolsAssumption DEF PlainTypes, Storages, Null
    <3> QED BY <1>1, <2>1, <2>3, <3>1, <3>2 DEF PlainTypes, Null
  <2> QED BY <2>2, <2>3
<1>3. ASSUME NEW t \in Threads,
             ChoosePool(t) \/ PopRead(t) \/ PopPublish(t) \/ CreateCommandPool(t) \/ CommandBuffer(t)
      PROVE  RegistryInv'
  BY <1>1, <1>3 DEF ChoosePool, PopRead, PopPublish, CreateCommandPool, CommandBuffer, PlainTypes,
                    sweepVars, countVars, Null
<1>4. ASSUME NEW t \in Threads, DiscardActivePool(t) \/ DiscardCommandPoolForReuse(t)
      PROVE  RegistryInv'
  BY <1>1, <1>4 DEF DiscardActivePool, DiscardCommandPoolForReuse, PlainTypes, sweepVars, countVars, Null
<1>5. ASSUME NEW t \in Threads, BeginSweep(t)
      PROVE  RegistryInv'
  BY <1>1, <1>5 DEF BeginSweep, PlainTypes, sweepVars, countVars, Null
<1>6. ASSUME NEW t \in Threads, RecycleFind(t)
      PROVE  RegistryInv'
  <2>1. Head(discarded).tid \in Threads
    BY <1>6, DiscardedType DEF RecycleFind, RingInv
  <2>2. Recipient(t) <= storages
    BY <1>1, <2>1 DEF Recipient
  <2>3. /\ pc[t] = "sweep" /\ pc' = [pc EXCEPT ![t] = "recycle"]
        /\ tp' = [tp EXCEPT ![t] = Recipient(t)] /\ UNCHANGED <<registry, storages>>
    BY <1>6 DEF RecycleFind, countVars
  <2> QED BY <1>1, <2>2, <2>3 DEF PlainTypes
<1>7. ASSUME NEW t \in Threads, Recycle(t) \/ PushWrite(t) \/ PushPublish(t)
      PROVE  RegistryInv'
  BY <1>1, <1>7 DEF Recycle, PushWrite, PushPublish, PlainTypes, sweepVars, countVars
<1>8. ASSUME NEW t \in Threads, EndSweep(t)
      PROVE  RegistryInv'
  BY <1>1, <1>8 DEF EndSweep, PlainTypes, sweepVars, countVars, Null
<1>9. ASSUME NEW t \in Threads, ThreadShutdown(t)
      PROVE  RegistryInv'
  BY <1>1, <1>9 DEF ThreadShutdown, Unregistered, PlainTypes, sweepVars, countVars, Null
<1>10. ASSUME NEW t \in Threads, DrainAndFree(t)
       PROVE  RegistryInv'
  BY <1>1, <1>10 DEF DrainAndFree, PlainTypes, sweepVars, countVars, Null
<1>11. CASE Destroy
  BY <1>1, <1>11 DEF Destroy, PlainTypes, sweepVars, countVars, Null
<1>12. CASE UNCHANGED vars
  BY <1>1, <1>12 DEF vars, sweepVars, countVars
<1> QED
  BY <1>2, <1>3, <1>4, <1>5, <1>6, <1>7, <1>8, <1>9, <1>10, <1>11, <1>12
  DEF Next, Allocate, Discard, Sweep, Shutdown, Terminated

(* The sweep and the hands.                                                *)
LEMMA SweepStep == RingInv /\ [Next]_vars => SweepInv'
<1> SUFFICES ASSUME RingInv, [Next]_vars PROVE SweepInv'
  OBVIOUS
<1>1. PlainTypes /\ RegistryInv /\ SweepInv
  BY TypeParts DEF RingInv
<1> USE DEF At, Goto, Own, Sweeping, SweepInv, PlainTypes, sweepVars, countVars
<1>2. ASSUME NEW t \in Threads, EnsureThreadPools(t)
      PROVE  SweepInv'
  <2>1. /\ pc[t] = "idle" /\ UNCHANGED <<hand, mutex, discarded>>
        /\ pc' = [pc EXCEPT ![t] = "allocate"] \/ pc' = [pc EXCEPT ![t] = "discard"]
        /\ \A u \in Threads : u # t => tp'[u] = tp[u]
    BY <1>1, <1>2 DEF EnsureThreadPools
  <2> QED BY <1>1, <2>1
<1>3. ASSUME NEW t \in Threads,
             ChoosePool(t) \/ PopRead(t) \/ PopPublish(t) \/ CreateCommandPool(t) \/ CommandBuffer(t)
      PROVE  SweepInv'
  BY <1>1, <1>3 DEF ChoosePool, PopRead, PopPublish, CreateCommandPool, CommandBuffer
<1>4. ASSUME NEW t \in Threads, DiscardActivePool(t)
      PROVE  SweepInv'
  BY <1>1, <1>4 DEF DiscardActivePool
<1>5. ASSUME NEW t \in Threads, DiscardCommandPoolForReuse(t)
      PROVE  SweepInv'
  <2>1. /\ pc[t] = "append" /\ mutex = NoThread /\ pc' = [pc EXCEPT ![t] = "idle"]
        /\ hand' = [hand EXCEPT ![t] = Null] /\ UNCHANGED <<tp, mutex>>
    BY <1>5 DEF DiscardCommandPoolForReuse
  <2> QED BY <1>1, <2>1, CommandPoolsAssumption
<1>6. ASSUME NEW t \in Threads, BeginSweep(t)
      PROVE  SweepInv'
  BY <1>1, <1>6, CommandPoolsAssumption DEF BeginSweep
<1>7. ASSUME NEW t \in Threads, RecycleFind(t)
      PROVE  SweepInv'
  BY <1>1, <1>7 DEF RecycleFind
<1>8. ASSUME NEW t \in Threads, Recycle(t) \/ PushWrite(t)
      PROVE  SweepInv'
  BY <1>1, <1>8 DEF Recycle, PushWrite
<1>9. ASSUME NEW t \in Threads, PushPublish(t)
      PROVE  SweepInv'
  <2>1. /\ pc[t] = "publish" /\ pc' = [pc EXCEPT ![t] = "sweep"] /\ UNCHANGED <<tp, hand, mutex>>
    BY <1>9 DEF PushPublish
  <2> QED BY <1>1, <2>1
<1>10. ASSUME NEW t \in Threads, EndSweep(t)
       PROVE  SweepInv'
  BY <1>1, <1>10, CommandPoolsAssumption DEF EndSweep
<1>11. ASSUME NEW t \in Threads, ThreadShutdown(t) \/ DrainAndFree(t)
       PROVE  SweepInv'
  BY <1>1, <1>11 DEF ThreadShutdown, DrainAndFree
<1>12. CASE Destroy
  BY <1>1, <1>12 DEF Destroy
<1>13. CASE UNCHANGED vars
  BY <1>1, <1>13 DEF vars
<1> QED
  BY <1>2, <1>3, <1>4, <1>5, <1>6, <1>7, <1>8, <1>9, <1>10, <1>11, <1>12, <1>13
  DEF Next, Allocate, Discard, Sweep, Shutdown, Terminated

(* The bound on the pools.                                                 *)
LEMMA CountStep == RingInv /\ [Next]_vars => (pools + Cardinality(Creators) <= MaxPools)'
<1> SUFFICES ASSUME RingInv, [Next]_vars PROVE (pools + Cardinality(Creators) <= MaxPools)'
  OBVIOUS
<1>1. /\ PlainTypes /\ pools \in Nat /\ IsFiniteSet(Creators) /\ Cardinality(Creators) \in Nat
      /\ pools + Cardinality(Creators) <= MaxPools /\ MaxPools \in Nat
  BY TypeParts, CreatorsCount, CommandPoolsAssumption DEF RingInv, PlainTypes
<1> USE DEF At, Goto, sweepVars, countVars
<1>2. CASE Creators' \subseteq Creators /\ pools' = pools
  <2>1. Cardinality(Creators') <= Cardinality(Creators)
    BY <1>1, <1>2, FS_Subset
  <2>2. Cardinality(Creators') \in Nat
    BY <1>1, <1>2, FS_Subset, FS_CardinalityType
  <2> QED BY <1>1, <1>2, <2>1, <2>2
<1>3. ASSUME NEW t \in Threads, EnsureThreadPools(t)
      PROVE  (pools + Cardinality(Creators) <= MaxPools)'
  <2>1. CASE Goto(t, "discard")
    <3>1. Creators' \subseteq Creators /\ pools' = pools
      BY <1>1, <1>3, <2>1 DEF EnsureThreadPools, Creators, PlainTypes
    <3> QED BY <1>2, <3>1
  <2>2. CASE Goto(t, "allocate") /\ RoomForPool
    <3>1. pools + Cardinality(Creators) < MaxPools
      BY <2>2 DEF RoomForPool, Creators
    <3>2. Creators' = Creators \cup {t} /\ t \notin Creators /\ pools' = pools
      BY <1>1, <1>3, <2>2 DEF EnsureThreadPools, Creators, PlainTypes
    <3>3. Cardinality(Creators') = Cardinality(Creators) + 1
      BY <1>1, <3>2, FS_AddElement
    <3> QED BY <1>1, <3>1, <3>2, <3>3
  <2> QED BY <1>3, <2>1, <2>2 DEF EnsureThreadPools
<1>4. ASSUME NEW t \in Threads, CreateCommandPool(t)
      PROVE  (pools + Cardinality(Creators) <= MaxPools)'
  <2>1. Creators' = Creators \ {t} /\ t \in Creators /\ pools' = pools + 1
    BY <1>1, <1>4 DEF CreateCommandPool, Creators, PlainTypes
  <2>2. Cardinality(Creators') = Cardinality(Creators) - 1
    BY <1>1, <2>1, FS_RemoveElement
  <2> QED BY <1>1, <2>1, <2>2
<1>5. ASSUME NEW t \in Threads,
             ChoosePool(t) \/ PopRead(t) \/ PopPublish(t) \/ CommandBuffer(t) \/ Discard(t) \/ Shutdown(t)
      PROVE  Creators' \subseteq Creators /\ pools' = pools
  BY <1>1, <1>5 DEF ChoosePool, PopRead, PopPublish, CommandBuffer, Discard, DiscardActivePool,
     DiscardCommandPoolForReuse, Shutdown, ThreadShutdown, DrainAndFree, Creators, PlainTypes
<1>6. ASSUME NEW t \in Threads, Sweep(t)
      PROVE  Creators' \subseteq Creators /\ pools' = pools
  BY <1>1, <1>6 DEF Sweep, BeginSweep, RecycleFind, Recycle, PushWrite, PushPublish, EndSweep,
     Creators, PlainTypes
<1>7. Destroy => Creators' \subseteq Creators /\ pools' = pools
  BY DEF Destroy, Creators
<1>8. UNCHANGED vars => Creators' \subseteq Creators /\ pools' = pools
  BY DEF vars, Creators
<1> QED BY <1>2, <1>3, <1>4, <1>5, <1>6, <1>7, <1>8 DEF Next, Allocate, Terminated
-----------------------------------------------------------------------------
(* What a step does to a ring: nothing, a pop, a push, or a new start      *)

Behind(s)  == storage'[s].tail = storage[s].tail /\ storage'[s].buffer = storage[s].buffer
Still(s)   == /\ Length(s)' = Length(s) /\ Items(s)' = Items(s)
              /\ Behind(s) \/ \E t \in Threads : PushWrite(t) /\ tp[t] = s
Popped(s)  == /\ \E t \in Threads : PopPublish(t) /\ tp[t] = s
              /\ Length(s)' = Length(s) - 1
              /\ Items(s) # <<>> /\ Items(s)' = Tail(Items(s)) /\ Behind(s)
Pushed(s)  == /\ \E t \in Threads : PushPublish(t) /\ tp[t] = s
              /\ Length(s)' = Length(s) + 1
              /\ Items(s)' = Append(Items(s), storage[s].buffer[Cell(storage[s].tail)])
Made(s)    == /\ \E t \in Threads : EnsureThreadPools(t) /\ registry[t] = Null
              /\ s = storages + 1 /\ storage'[s] = NewThreadPools /\ Length(s)' = 0
Freed(s)   == /\ \/ \E t \in Threads : DrainAndFree(t) /\ tp[t] = s
                 \/ Destroy /\ \E t \in Threads : registry[t] = s
              /\ storage'[s] = NoThreadPools /\ Length(s)' = 0

(* A ring is a sequence.                                                   *)
LEMMA ItemsType ==
  ASSUME RingInv, NEW s \in Storages
  PROVE  /\ Items(s) \in Seq(Pools \cup {Null}) /\ Len(Items(s)) = Length(s)
         /\ Length(s) \in Nat
<1> DEFINE h == storage[s].head
           t == storage[s].tail
           b == storage[s].buffer
<1>1. h \in Ends /\ t \in Ends /\ b \in [Cells -> Pools \cup {Null}]
  BY StorageType DEF RingInv
<1> HIDE DEF h, t, b
<1>2. /\ Between(h, t, b) \in Seq(Pools \cup {Null}) /\ Len(Between(h, t, b)) = Dist(h, t)
      /\ Dist(h, t) \in Nat
  BY <1>1, BetweenType
<1> QED BY <1>2 DEF Items, Length, h, t, b

(* The other steps leave every storage alone.                              *)
LEMMA OtherSteps ==
  ASSUME NEW t \in Threads,
         \/ ChoosePool(t) \/ CommandBuffer(t) \/ DiscardCommandPoolForReuse(t) \/ BeginSweep(t)
         \/ RecycleFind(t) \/ Recycle(t) \/ EndSweep(t) \/ ThreadShutdown(t)
  PROVE  UNCHANGED storage
BY DEF ChoosePool, CommandBuffer, DiscardCommandPoolForReuse, BeginSweep, RecycleFind,
       Recycle, EndSweep, ThreadShutdown

(* A storage that keeps its head, its tail and its buffer keeps its ring.  *)
LEMMA RingFrame ==
  ASSUME NEW s, storage'[s].head = storage[s].head, storage'[s].tail = storage[s].tail,
         storage'[s].buffer = storage[s].buffer
  PROVE  Still(s)
BY DEF Still, Behind, Length, Items

(* A pop takes the first pool of the ring ...                              *)
LEMMA PopTakes ==
  ASSUME RingInv, NEW t \in Threads, PopPublish(t), NEW s \in Storages, tp[t] = s
  PROVE  Popped(s)
<1>1. PlainTypes /\ RoomInv /\ storage \in [Storages -> ThreadPoolsType]
  BY TypeParts DEF RingInv
<1> DEFINE h == storage[s].head
           e == storage[s].tail
           b == storage[s].buffer
<1>2. h \in Ends /\ e \in Ends /\ b \in [Cells -> Pools \cup {Null}]
  BY StorageType DEF RingInv
<1>3. Length(s) = Dist(h, e) /\ Items(s) = Between(h, e, b)
  BY DEF Length, Items
<1>4. storage' = [storage EXCEPT ![s].head = Step(h)]
  BY DEF PopPublish, Step
<1>5. storage'[s].head = Step(h) /\ storage'[s].tail = e /\ storage'[s].buffer = b
  BY <1>1, <1>4 DEF ThreadPoolsType
<1>6. Length(s)' = Dist(Step(h), e) /\ Items(s)' = Between(Step(h), e, b) /\ Behind(s)
  BY <1>5 DEF Length, Items, Behind
<1>7. Dist(h, e) >= 1
  BY <1>1, <1>3 DEF PopPublish, At, RoomInv
<1> HIDE DEF h, e, b
<1>8. /\ Dist(Step(h), e) = Dist(h, e) - 1
      /\ Between(h, e, b) # <<>> /\ Between(Step(h), e, b) = Tail(Between(h, e, b))
  BY <1>2, <1>7, AdvanceTail
<1> QED BY <1>3, <1>6, <1>8 DEF Popped

(* ... and a push adds one at its end.                                     *)
LEMMA PushAdds ==
  ASSUME RingInv, NEW t \in Threads, PushPublish(t), NEW s \in Storages, tp[t] = s
  PROVE  Pushed(s)
<1>1. PlainTypes /\ RoomInv /\ storage \in [Storages -> ThreadPoolsType]
  BY TypeParts DEF RingInv
<1> DEFINE h == storage[s].head
           e == storage[s].tail
           b == storage[s].buffer
<1>2. h \in Ends /\ e \in Ends /\ b \in [Cells -> Pools \cup {Null}]
  BY StorageType DEF RingInv
<1>3. Length(s) = Dist(h, e) /\ Items(s) = Between(h, e, b) /\ b[Cell(e)] = storage[s].buffer[Cell(storage[s].tail)]
  BY DEF Length, Items
<1>4. storage' = [storage EXCEPT ![s].tail = Step(e)]
  BY DEF PushPublish, Step
<1>5. storage'[s].head = h /\ storage'[s].tail = Step(e) /\ storage'[s].buffer = b
  BY <1>1, <1>4 DEF ThreadPoolsType
<1>6. Length(s)' = Dist(h, Step(e)) /\ Items(s)' = Between(h, Step(e), b)
  BY <1>5 DEF Length, Items
<1>7. Dist(h, e) < Capacity - 1
  BY <1>1, <1>3 DEF PushPublish, At, RoomInv
<1> HIDE DEF h, e, b
<1>8. /\ Dist(h, Step(e)) = Dist(h, e) + 1
      /\ Between(h, Step(e), b) = Append(Between(h, e, b), b[Cell(e)])
  BY <1>2, <1>7, PublishAppends
<1> QED BY <1>3, <1>6, <1>8 DEF Pushed

(* Nothing else happens to a ring.                                         *)
LEMMA RingSteps ==
  ASSUME RingInv, [Next]_vars, NEW s \in Storages
  PROVE  Still(s) \/ Popped(s) \/ Pushed(s) \/ Made(s) \/ Freed(s)
<1> DEFINE Goal == Still(s) \/ Popped(s) \/ Pushed(s) \/ Made(s) \/ Freed(s)
<1>1. PlainTypes /\ RegistryInv /\ SweepInv /\ RoomInv /\ storage \in [Storages -> ThreadPoolsType]
  BY TypeParts DEF RingInv
<1>2. \A t \in Threads : pc[t] \in Own \cup {"write", "publish", "drain"} => tp[t] \in Storages
  BY <1>1 DEF RegistryInv, PlainTypes, RingInv, SweepInv, Own
<1> DEFINE h == storage[s].head
           e == storage[s].tail
           b == storage[s].buffer
<1>3. h \in Ends /\ e \in Ends /\ b \in [Cells -> Pools \cup {Null}] /\ storage[s] \in ThreadPoolsType
  BY <1>1, StorageType DEF RingInv
<1>4. Length(s) = Dist(h, e) /\ Items(s) = Between(h, e, b)
  BY DEF Length, Items
<1>5. storage'[s] = storage[s] => Goal
  BY RingFrame
<1> USE DEF At, Own
<1>6. ASSUME NEW t \in Threads, EnsureThreadPools(t)
      PROVE  Goal
  <2>1. CASE registry[t] # Null
    BY <1>5, <1>6, <2>1 DEF EnsureThreadPools
  <2>2. CASE registry[t] = Null
    <3>1. storages' = storages + 1 /\ storage' = [storage EXCEPT ![storages'] = NewThreadPools]
      BY <1>6, <2>2 DEF EnsureThreadPools
    <3>2. CASE s = storages + 1
      <4>1. storage'[s] = NewThreadPools
        BY <1>1, <3>1, <3>2
      <4>2. Length(s)' = Dist(0, 0)
        BY <4>1 DEF Length, NewThreadPools
      <4> QED BY <1>6, <2>2, <3>2, <4>1, <4>2, FreshType DEF Made
    <3>3. CASE s # storages + 1
      <4>1. storage'[s] = storage[s]
        BY <1>1, <3>1, <3>3
      <4> QED BY <1>5, <4>1
    <3> QED BY <3>2, <3>3
  <2> QED BY <2>1, <2>2
<1>7. ASSUME NEW t \in Threads, PopRead(t) \/ CreateCommandPool(t) \/ DiscardActivePool(t)
      PROVE  Goal
  <2>1. tp[t] \in Storages
    BY <1>2, <1>7 DEF PopRead, CreateCommandPool, DiscardActivePool
  <2>2. /\ storage'[s].head = storage[s].head /\ storage'[s].tail = storage[s].tail
        /\ storage'[s].buffer = storage[s].buffer
    BY <1>1, <1>7, <2>1 DEF PopRead, CreateCommandPool, DiscardActivePool, ThreadPoolsType
  <2> QED BY <2>2, RingFrame
<1>8. ASSUME NEW t \in Threads, PopPublish(t)
      PROVE  Goal
  <2>1. CASE tp[t] # s
    <3>1. storage'[s] = storage[s]
      BY <1>1, <1>8, <2>1 DEF PopPublish
    <3> QED BY <1>5, <3>1
  <2>2. CASE tp[t] = s
    BY <1>8, <2>2, PopTakes
  <2> QED BY <2>1, <2>2
<1>9. ASSUME NEW t \in Threads, PushWrite(t)
      PROVE  Goal
  <2>1. CASE tp[t] # s
    <3>1. storage'[s] = storage[s]
      BY <1>1, <1>9, <2>1 DEF PushWrite
    <3> QED BY <1>5, <3>1
  <2>2. CASE tp[t] = s
    <3> DEFINE c == storage'[s].buffer
    <3>1. storage' = [storage EXCEPT ![s].buffer[Cell(e)] = Head(discarded).pool]
      BY <1>9, <2>2 DEF PushWrite, Cell
    <3>2. storage'[s].head = h /\ storage'[s].tail = e
      BY <1>1, <3>1 DEF ThreadPoolsType
    <3>3. \A x \in Cells : x # Cell(e) => c[x] = b[x]
      BY <1>1, <1>3, <3>1 DEF ThreadPoolsType
    <3>4. Length(s)' = Dist(h, e) /\ Items(s)' = Between(h, e, c)
      BY <3>2 DEF Length, Items
    <3>5. Dist(h, e) < Capacity
      BY <1>1, <1>4 DEF RoomInv
    <3> HIDE DEF h, e, b, c
    <3>6. Between(h, e, c) = Between(h, e, b)
      BY <1>3, <3>3, <3>5, WriteKeeps
    <3> QED BY <1>4, <1>9, <2>2, <3>4, <3>6 DEF Still, h, e, b, c
  <2> QED BY <2>1, <2>2
<1>10. ASSUME NEW t \in Threads, PushPublish(t)
       PROVE  Goal
  <2>1. CASE tp[t] # s
    <3>1. storage'[s] = storage[s]
      BY <1>1, <1>10, <2>1 DEF PushPublish
    <3> QED BY <1>5, <3>1
  <2>2. CASE tp[t] = s
    BY <1>10, <2>2, PushAdds
  <2> QED BY <2>1, <2>2
<1>11. storage'[s] = NoThreadPools => Length(s)' = 0
  <2> SUFFICES ASSUME storage'[s] = NoThreadPools PROVE Length(s)' = 0
    OBVIOUS
  <2>1. storage'[s].head = 0 /\ storage'[s].tail = 0
    BY DEF NoThreadPools, NewThreadPools
  <2>2. Length(s)' = Dist(0, 0)
    BY <2>1 DEF Length
  <2> QED BY <2>2, FreshType
<1>12. ASSUME NEW t \in Threads, DrainAndFree(t)
       PROVE  Goal
  <2>1. storage' = [storage EXCEPT ![tp[t]] = NoThreadPools]
    BY <1>12 DEF DrainAndFree
  <2>2. CASE tp[t] # s
    BY <1>1, <1>5, <2>1, <2>2
  <2>3. CASE tp[t] = s
    <3>1. storage'[s] = NoThreadPools
      BY <1>1, <2>1, <2>3
    <3> QED BY <1>11, <1>12, <2>3, <3>1 DEF Freed
  <2> QED BY <2>2, <2>3
<1>13. CASE Destroy
  <2> DEFINE owned == {registry[t] : t \in Threads} \ {Null}
  <2>1. storage' = [x \in Storages |-> IF x \in owned THEN NoThreadPools ELSE storage[x]]
    BY <1>13 DEF Destroy
  <2>2. CASE s \in owned
    <3>1. storage'[s] = NoThreadPools /\ \E t \in Threads : registry[t] = s
      BY <2>1, <2>2
    <3> QED BY <1>11, <1>13, <3>1 DEF Freed
  <2>3. CASE s \notin owned
    <3>1. storage'[s] = storage[s]
      BY <2>1, <2>3
    <3> QED BY <1>5, <3>1
  <2> QED BY <2>2, <2>3
<1>14. CASE UNCHANGED vars
  BY <1>5, <1>14 DEF vars
<1> QED
  BY <1>5, <1>6, <1>7, <1>8, <1>9, <1>10, <1>12, <1>13, <1>14, OtherSteps
  DEF Next, Allocate, Discard, Sweep, Shutdown, Terminated
(* A thread's step changes nothing that belongs to another thread.         *)
LEMMA OthersStay ==
  ASSUME PlainTypes, NEW t \in Threads,
         EnsureThreadPools(t) \/ Allocate(t) \/ Discard(t) \/ Sweep(t) \/ Shutdown(t)
  PROVE  \A u \in Threads : u # t =>
           pc'[u] = pc[u] /\ tp'[u] = tp[u] /\ registry'[u] = registry[u] /\ hand'[u] = hand[u]
<1> USE DEF PlainTypes, Goto, sweepVars, countVars
<1>1. CASE EnsureThreadPools(t)
  BY <1>1 DEF EnsureThreadPools
<1>2. CASE Allocate(t)
  BY <1>2 DEF Allocate, ChoosePool, PopRead, PopPublish, CreateCommandPool, CommandBuffer
<1>3. CASE Discard(t)
  BY <1>3 DEF Discard, DiscardActivePool, DiscardCommandPoolForReuse
<1>4. CASE Sweep(t)
  BY <1>4 DEF Sweep, BeginSweep, RecycleFind, Recycle, PushWrite, PushPublish, EndSweep
<1>5. CASE Shutdown(t)
  BY <1>5 DEF Shutdown, ThreadShutdown, DrainAndFree, Unregistered
<1> QED BY <1>1, <1>2, <1>3, <1>4, <1>5

(* Who is in the middle of a pop has come there by its own steps ...       *)
LEMMA Popping ==
  ASSUME RingInv, [Next]_vars, NEW t \in Threads, NEW s \in Storages,
         tp'[t] = s, pc'[t] \in {"read", "advance"}
  PROVE  tp[t] = s /\ registry[t] = s /\ Length(s) >= 1
<1>1. PlainTypes /\ RegistryInv /\ SweepInv /\ RoomInv
  BY TypeParts DEF RingInv
<1>2. ~Destroy
  BY <1>1 DEF Destroy, PlainTypes
<1>3. CASE ChoosePool(t)
  <2>1. pc[t] = "allocate" /\ tp[t] = s /\ ~Empty(s)
    BY <1>1, <1>3 DEF ChoosePool, At, Goto, PlainTypes
  <2>2. Length(s) >= 1
    <3> DEFINE h == storage[s].head
               e == storage[s].tail
    <3>1. h \in Ends /\ e \in Ends
      BY StorageType DEF RingInv
    <3>2. Cell(h) # Cell(e)
      BY <2>1 DEF Empty, Cell
    <3> HIDE DEF h, e
    <3>3. Cell(e) = Cell(h + Dist(h, e)) /\ Dist(h, e) \in Ends
      BY <3>1, RingEnds
    <3>4. Dist(h, e) # 0
      BY <3>1, <3>2, <3>3 DEF Ends
    <3>5. Dist(h, e) >= 1
      BY <3>3, <3>4 DEF Ends
    <3> QED BY <3>5 DEF Length, h, e
  <2> QED BY <1>1, <2>1, <2>2 DEF RegistryInv, Own
<1>4. CASE pc[t] \in {"read", "advance"} /\ tp[t] = s
  BY <1>1, <1>4 DEF RegistryInv, Own, RoomInv
<1>5. CASE EnsureThreadPools(t) \/ Allocate(t) \/ Discard(t) \/ Sweep(t) \/ Shutdown(t)
  <2>1. ChoosePool(t) \/ PopRead(t)
    BY <1>1, <1>5 DEF EnsureThreadPools, Allocate, PopPublish, CreateCommandPool, CommandBuffer,
       Discard, DiscardActivePool, DiscardCommandPoolForReuse, Sweep, BeginSweep, RecycleFind,
       Recycle, PushWrite, PushPublish, EndSweep, Shutdown, ThreadShutdown, DrainAndFree,
       Goto, PlainTypes
  <2> QED BY <1>3, <1>4, <2>1 DEF PopRead, At
<1>6. ASSUME NEW u \in Threads, u # t,
             EnsureThreadPools(u) \/ Allocate(u) \/ Discard(u) \/ Sweep(u) \/ Shutdown(u)
      PROVE  pc'[t] = pc[t] /\ tp'[t] = tp[t]
  BY <1>1, <1>6, OthersStay
<1>7. UNCHANGED vars => pc'[t] = pc[t] /\ tp'[t] = tp[t]
  BY DEF vars
<1> QED BY <1>2, <1>4, <1>5, <1>6, <1>7 DEF Next, Terminated

(* ... and nobody else takes from its ring.                                *)
LEMMA PopAlone ==
  ASSUME RingInv, [Next]_vars, NEW t \in Threads, NEW s \in Storages,
         tp'[t] = s, pc'[t] \in {"read", "advance"}
  PROVE  Still(s) \/ Pushed(s)
<1>1. PlainTypes /\ RegistryInv
  BY TypeParts DEF RingInv
<1>2. tp[t] = s /\ registry[t] = s
  BY Popping
<1>3. ~Popped(s)
  <2> SUFFICES ASSUME NEW u \in Threads, PopPublish(u), tp[u] = s PROVE FALSE
    BY DEF Popped
  <2>1. registry[u] = s /\ s # Null
    BY <1>1 DEF PopPublish, At, RegistryInv, Own
  <2>2. u = t
    BY <1>1, <1>2, <2>1 DEF RegistryInv
  <2> QED BY <1>1, <2>2 DEF PopPublish, Goto, PlainTypes
<1>4. ~Made(s)
  <2>1. s <= storages /\ storages \in Nat /\ s \in Nat
    BY <1>1, <1>2, CommandPoolsAssumption DEF RegistryInv, PlainTypes, Storages
  <2> QED BY <2>1 DEF Made
<1>5. ~Freed(s)
  <2>1. ~Destroy
    BY <1>1 DEF Destroy, PlainTypes
  <2> QED BY <1>1, <1>2, <2>1 DEF Freed, DrainAndFree, At, RegistryInv
<1> QED BY <1>3, <1>4, <1>5, RingSteps

(* Who is in the middle of a push has the mutex and has found room.        *)
LEMMA Pushing ==
  ASSUME RingInv, [Next]_vars, NEW t \in Threads, NEW s \in Storages,
         tp'[t] = s, pc'[t] \in {"write", "publish"}
  PROVE  /\ tp[t] = s /\ Length(s) < Capacity - 1 /\ ~Pushed(s)
         /\ pc'[t] = "publish" => pc[t] = "publish" \/ PushWrite(t)
<1>1. PlainTypes /\ RegistryInv /\ SweepInv /\ RoomInv
  BY TypeParts DEF RingInv
<1>2. ~Destroy
  BY <1>1 DEF Destroy, PlainTypes
<1>3. CASE Recycle(t)
  <2>1. pc[t] = "recycle" /\ tp[t] = s /\ ~Full(s)
    BY <1>1, <1>3 DEF Recycle, At, Goto, PlainTypes
  <2>2. Length(s) < Capacity - 1
    <3> DEFINE h == storage[s].head
               e == storage[s].tail
    <3>1. h \in Ends /\ e \in Ends
      BY StorageType DEF RingInv
    <3>2. Cell(e + 1) # Cell(h)
      BY <2>1 DEF Full, Cell
    <3>3. Dist(h, e) < Capacity
      BY <1>1 DEF RoomInv, Length
    <3> HIDE DEF h, e
    <3>4. Dist(h, e) # Capacity - 1
      BY <3>1, <3>2, FullRing
    <3>5. Dist(h, e) \in Ends
      BY <3>1, RingEnds
    <3>6. Dist(h, e) < Capacity - 1
      BY <3>3, <3>4, <3>5, CommandPoolsAssumption DEF Ends
    <3> QED BY <3>6 DEF Length, h, e
  <2>3. ~Pushed(s)
    BY <1>1, <2>1 DEF Pushed, PushPublish, At, SweepInv, Sweeping
  <2> QED BY <1>1, <1>3, <2>1, <2>2, <2>3 DEF Recycle, Goto, PlainTypes
<1>4. ASSUME pc[t] \in {"write", "publish"}, tp[t] = s
      PROVE  Length(s) < Capacity - 1 /\ ~Pushed(s)
  <2>1. ~Pushed(s)
    <3> SUFFICES ASSUME NEW u \in Threads, PushPublish(u) PROVE FALSE
      BY DEF Pushed
    <3>1. u = t
      BY <1>1, <1>4 DEF PushPublish, At, SweepInv, Sweeping
    <3> QED BY <1>1, <3>1 DEF PushPublish, Goto, PlainTypes
  <2> QED BY <1>1, <1>4, <2>1 DEF RoomInv
<1>5. CASE EnsureThreadPools(t) \/ Allocate(t) \/ Discard(t) \/ Sweep(t) \/ Shutdown(t)
  <2>1. Recycle(t) \/ PushWrite(t)
    BY <1>1, <1>5 DEF EnsureThreadPools, Allocate, ChoosePool, PopRead, PopPublish, CreateCommandPool,
       CommandBuffer, Discard, DiscardActivePool, DiscardCommandPoolForReuse, Sweep, BeginSweep,
       RecycleFind, PushPublish, EndSweep, Shutdown, ThreadShutdown, DrainAndFree, Goto, PlainTypes
  <2>2. CASE PushWrite(t)
    BY <1>1, <1>4, <2>2 DEF PushWrite, At
  <2> QED BY <1>3, <2>1, <2>2
<1>6. ASSUME NEW u \in Threads, u # t,
             EnsureThreadPools(u) \/ Allocate(u) \/ Discard(u) \/ Sweep(u) \/ Shutdown(u)
      PROVE  pc'[t] = pc[t] /\ tp'[t] = tp[t]
  BY <1>1, <1>6, OthersStay
<1>7. UNCHANGED vars => pc'[t] = pc[t] /\ tp'[t] = tp[t]
  BY DEF vars
<1> QED BY <1>2, <1>4, <1>5, <1>6, <1>7 DEF Next, Terminated

(* A pop finds a pool and a push room for one.                             *)
LEMMA RoomStep == RingInv /\ [Next]_vars => RoomInv'
<1> SUFFICES ASSUME RingInv, [Next]_vars PROVE RoomInv'
  OBVIOUS
<1>1. PlainTypes /\ RegistryInv /\ SweepInv /\ RoomInv
  BY TypeParts DEF RingInv
<1>2. \A s \in Storages : Length(s) \in Nat
  BY ItemsType
<1>3. Capacity \in Nat /\ Capacity >= 2
  BY CommandPoolsAssumption
<1>4. ASSUME NEW s \in Storages
      PROVE  Length(s)' < Capacity
  <2>1. CASE Pushed(s)
    <3>1. Length(s) < Capacity - 1
      BY <1>1, <2>1 DEF Pushed, PushPublish, At, RoomInv
    <3> QED BY <1>2, <1>3, <2>1, <3>1 DEF Pushed
  <2> QED BY <1>1, <1>2, <1>3, <2>1, RingSteps DEF RoomInv, Still, Popped, Made, Freed
<1>5. ASSUME NEW s \in Storages, NEW t \in Threads, tp'[t] = s, pc'[t] \in {"read", "advance"}
      PROVE  Length(s)' >= 1
  <2>1. Length(s) >= 1
    BY <1>5, Popping
  <2>2. Still(s) \/ Pushed(s)
    BY <1>5, PopAlone
  <2> QED BY <1>2, <2>1, <2>2 DEF Still, Pushed
<1>6. ASSUME NEW s \in Storages, NEW t \in Threads, tp'[t] = s, pc'[t] \in {"write", "publish"}
      PROVE  Length(s)' < Capacity - 1
  <2>1. Length(s) < Capacity - 1 /\ ~Pushed(s)
    BY <1>6, Pushing
  <2> QED BY <1>2, <1>3, <2>1, RingSteps DEF Still, Popped, Made, Freed
<1> QED BY <1>4, <1>5, <1>6 DEF RoomInv
(* A storage is held because it was, or because it is new, and no held     *)
(* storage is freed.                                                       *)
LEMMA HeldStep ==
  ASSUME RingInv, [Next]_vars, NEW s \in Storages, Held(s)'
  PROVE  (Held(s) \/ Made(s)) /\ ~Freed(s)
<1>1. PlainTypes /\ RegistryInv /\ storage \in [Storages -> ThreadPoolsType] /\ s # Null
  BY TypeParts DEF RingInv, Storages, Null
<1>2. PICK t \in Threads : registry'[t] = s \/ (pc'[t] = "drain" /\ tp'[t] = s)
  BY DEF Held
<1>3. ~Destroy
  BY <1>1, <1>2 DEF Destroy
<1>4. ASSUME NEW u \in Threads, u # t,
             EnsureThreadPools(u) \/ Allocate(u) \/ Discard(u) \/ Sweep(u) \/ Shutdown(u)
      PROVE  Held(s) /\ ~(DrainAndFree(u) /\ tp[u] = s)
  <2>1. registry[t] = s \/ (pc[t] = "drain" /\ tp[t] = s)
    BY <1>1, <1>2, <1>4, OthersStay
  <2> QED BY <1>1, <1>4, <2>1 DEF Held, DrainAndFree, At, RegistryInv
<1>5. UNCHANGED vars => Held(s)
  BY <1>2 DEF vars, Held
<1>6. ASSUME EnsureThreadPools(t) /\ registry[t] = Null
      PROVE  Held(s) \/ Made(s)
  <2>1. /\ storages' = storages + 1 /\ registry' = [registry EXCEPT ![t] = storages']
        /\ storage' = [storage EXCEPT ![storages'] = NewThreadPools]
        /\ pc[t] = "idle"
        /\ pc' = [pc EXCEPT ![t] = "allocate"] \/ pc' = [pc EXCEPT ![t] = "discard"]
    BY <1>6 DEF EnsureThreadPools, At, Goto
  <2>2. s = storages + 1
    BY <1>1, <1>2, <2>1 DEF PlainTypes
  <2>3. storage'[s] = NewThreadPools
    BY <1>1, <2>1, <2>2
  <2>4. Length(s)' = Dist(0, 0)
    BY <2>3 DEF Length, NewThreadPools
  <2> QED BY <1>6, <2>2, <2>3, <2>4, FreshType DEF Made
<1>7. ASSUME EnsureThreadPools(t) /\ registry[t] # Null
      PROVE  Held(s) \/ Made(s)
  BY <1>1, <1>2, <1>7 DEF EnsureThreadPools, Held, PlainTypes, At, Goto
<1>8. ASSUME Allocate(t) \/ Discard(t) \/ Sweep(t)
      PROVE  Held(s) \/ Made(s)
  BY <1>1, <1>2, <1>8 DEF Held, Allocate, ChoosePool, PopRead, PopPublish, CreateCommandPool,
     CommandBuffer, Discard, DiscardActivePool, DiscardCommandPoolForReuse, Sweep, BeginSweep,
     RecycleFind, Recycle, PushWrite, PushPublish, EndSweep, Goto, PlainTypes
<1>9. ASSUME ThreadShutdown(t)
      PROVE  Held(s) \/ Made(s)
  BY <1>1, <1>2, <1>9 DEF Held, ThreadShutdown, Unregistered, Goto, PlainTypes
<1>10. ASSUME DrainAndFree(t)
      PROVE  Held(s) \/ Made(s)
  BY <1>1, <1>2, <1>10 DEF Held, DrainAndFree, Goto, At, PlainTypes, RegistryInv
<1>11. Held(s) \/ Made(s)
  BY <1>3, <1>4, <1>5, <1>6, <1>7, <1>8, <1>9, <1>10 DEF Next, Terminated, Shutdown
<1>12. ASSUME NEW u \in Threads, DrainAndFree(u), tp[u] = s
       PROVE  FALSE
  <2>1. CASE u = t
    BY <1>1, <1>2, <1>12, <2>1 DEF DrainAndFree, Goto, At, PlainTypes, RegistryInv
  <2> QED BY <1>4, <1>12, <2>1 DEF Shutdown
<1>13. ~Freed(s)
  BY <1>3, <1>12 DEF Freed
<1> QED BY <1>11, <1>13

(* Only pools lie in a ring.                                               *)
LEMMA PooledStep == RingInv /\ [Next]_vars => PooledInv'
<1> SUFFICES ASSUME RingInv, [Next]_vars, NEW s \in Storages, Held(s)'
             PROVE  /\ \A i \in 1 .. Length(s)' : Items(s)'[i] # Null
                    /\ \A t \in Threads : tp'[t] = s /\ pc'[t] = "publish" =>
                         storage'[s].buffer[Cell(storage'[s].tail)] # Null
  BY DEF PooledInv
<1>1. /\ PlainTypes /\ RegistryInv /\ SweepInv /\ RoomInv /\ PooledInv
      /\ storage \in [Storages -> ThreadPoolsType]
  BY TypeParts DEF RingInv
<1>2. ~Freed(s) /\ (Held(s) \/ Made(s))
  BY HeldStep
<1>3. /\ Items(s) \in Seq(Pools \cup {Null}) /\ Len(Items(s)) = Length(s) /\ Length(s) \in Nat
  BY ItemsType
<1>4. \A i \in 1 .. Length(s)' : Items(s)'[i] # Null
  <2>1. CASE Made(s)
    BY <2>1 DEF Made
  <2>2. CASE Still(s) /\ Held(s)
    BY <1>1, <2>2 DEF Still, PooledInv
  <2>3. CASE Popped(s) /\ Held(s)
    <3>1. \A i \in 1 .. Length(s) - 1 : Tail(Items(s))[i] = Items(s)[i + 1]
      BY <1>3, <2>3, HeadTailProperties DEF Popped
    <3> QED BY <1>1, <1>3, <2>3, <3>1 DEF Popped, PooledInv
  <2>4. CASE Pushed(s) /\ Held(s)
    <3> DEFINE v == storage[s].buffer[Cell(storage[s].tail)]
    <3>1. v # Null
      BY <1>1, <2>4 DEF Pushed, PushPublish, At, PooledInv
    <3>2. v \in Pools \cup {Null}
      BY StorageType, CellType, CommandPoolsAssumption DEF RingInv, Ends
    <3> HIDE DEF v
    <3>3. /\ Append(Items(s), v)[Length(s) + 1] = v
          /\ \A i \in 1 .. Length(s) : Append(Items(s), v)[i] = Items(s)[i]
      BY <1>3, <3>2, AppendProperties
    <3>4. Length(s)' = Length(s) + 1 /\ Items(s)' = Append(Items(s), v)
      BY <2>4 DEF Pushed, v
    <3> QED BY <1>1, <1>3, <2>4, <3>1, <3>3, <3>4 DEF PooledInv
  <2> QED BY <1>2, <2>1, <2>2, <2>3, <2>4, RingSteps
<1>5. ASSUME NEW t \in Threads, tp'[t] = s, pc'[t] = "publish"
      PROVE  storage'[s].buffer[Cell(storage'[s].tail)] # Null
  <2>1. tp[t] = s /\ ~Pushed(s) /\ (pc[t] = "publish" \/ PushWrite(t))
    BY <1>5, Pushing
  <2>2. ~Made(s)
    <3>1. s <= storages /\ storages \in Nat /\ s \in Nat
      BY <1>1, <2>1, CommandPoolsAssumption DEF RegistryInv, PlainTypes, Storages
    <3> QED BY <3>1 DEF Made
  <2>3. CASE \E u \in Threads : PushWrite(u) /\ tp[u] = s
    <3> DEFINE e == storage[s].tail
    <3>1. Head(discarded).pool # Null
      BY <1>1, <2>3, DiscardedType DEF PushWrite, At, SweepInv, RingInv, Pools, Null
    <3>2. Cell(e) \in Cells
      BY StorageType, CellType, CommandPoolsAssumption DEF RingInv, Ends
    <3>3. storage' = [storage EXCEPT ![s].buffer[Cell(e)] = Head(discarded).pool]
      BY <2>3 DEF PushWrite, Cell
    <3>4. storage'[s].tail = e /\ storage'[s].buffer[Cell(e)] = Head(discarded).pool
      BY <1>1, <3>2, <3>3 DEF ThreadPoolsType
    <3> QED BY <3>1, <3>4
  <2>4. CASE Behind(s) /\ ~\E u \in Threads : PushWrite(u) /\ tp[u] = s
    <3>1. pc[t] = "publish"
      BY <2>1, <2>4
    <3> QED BY <1>1, <1>2, <2>1, <2>2, <2>4, <3>1 DEF Behind, PooledInv
  <2> QED BY <1>2, <2>1, <2>2, <2>3, <2>4, RingSteps DEF Still, Popped
<1> QED BY <1>4, <1>5
(* The first layer holds at first, and is kept by every step.              *)
LEMMA InitRing == Init => RingInv
<1> SUFFICES ASSUME Init PROVE RingInv
  OBVIOUS
<1>1. TypeOK
  BY InitType
<1>2. \A t \in Threads : pc[t] = "idle" /\ registry[t] = Null /\ tp[t] = Null /\ hand[t] = Null
  BY DEF Init
<1>3. storages = 0 /\ pools = 0 /\ mutex = NoThread
  BY DEF Init
<1>4. RegistryInv
  BY <1>2, <1>3 DEF RegistryInv, Own, Null
<1>5. SweepInv
  BY <1>2, <1>3, CommandPoolsAssumption DEF SweepInv, Sweeping
<1>6. RoomInv
  <2>1. ASSUME NEW s \in Storages
        PROVE  Length(s) = 0
    <3>1. storage[s] = NoThreadPools
      BY DEF Init
    <3>2. storage[s].head = 0 /\ storage[s].tail = 0
      BY <3>1 DEF NoThreadPools, NewThreadPools
    <3> QED BY <3>2, FreshType DEF Length
  <2> QED BY <1>2, <2>1, CommandPoolsAssumption DEF RoomInv
<1>7. PooledInv
  BY <1>2 DEF PooledInv, Held, Storages, Null
<1>8. pools + Cardinality(Creators) <= MaxPools
  <2>1. Creators = {}
    BY <1>2 DEF Creators
  <2> QED BY <1>3, <2>1, FS_EmptySet, CommandPoolsAssumption
<1> QED BY <1>1, <1>4, <1>5, <1>6, <1>7, <1>8 DEF RingInv

(* What any clients may do leaves the registry and the rings consistent.   *)
THEOREM RingInvariant == Spec => []RingInv
<1>1. RingInv /\ [Next]_vars => RingInv'
  BY TypeStep, RegistryStep, SweepStep, RoomStep, PooledStep, CountStep DEF RingInv
<1> QED BY <1>1, InitRing, PTL DEF Spec

(* Every variable keeps its type: no index leaves its ring, and nothing    *)
(* but a pool is ever destroyed.                                           *)
THEOREM PoolsTyping == Spec => []TypeOK
<1>1. RingInv => TypeOK
  BY DEF RingInv
<1> QED BY <1>1, RingInvariant, PTL

(* The ring of the model's property is that of the proof.                  *)
LEMMA QueueIsItems == \A s : Queue(s) = Items(s)
BY DEF Queue, Items, Between, Dist, Cell

(* Neither side of the ring takes a lock, yet a step of any thread leaves  *)
(* it as it is, takes its first pool or adds one at its end.               *)
THEOREM RingsAreFifos == Spec => RingIsFifo
<1> DEFINE Fifo == \A s \in Alive \cap Alive' :
                     \/ Queue(s)' = Queue(s)
                     \/ Queue(s) # <<>> /\ Queue(s)' = Tail(Queue(s))
                     \/ Queue(s)' # <<>> /\ Queue(s) = SubSeq(Queue(s)', 1, Len(Queue(s)') - 1)
<1>1. RingInv /\ [Next]_vars => [Fifo]_vars
  <2> SUFFICES ASSUME RingInv, [Next]_vars, NEW s \in Alive \cap Alive'
               PROVE  \/ Queue(s)' = Queue(s)
                      \/ Queue(s) # <<>> /\ Queue(s)' = Tail(Queue(s))
                      \/ Queue(s)' # <<>> /\ Queue(s) = SubSeq(Queue(s)', 1, Len(Queue(s)') - 1)
    OBVIOUS
  <2>1. s \in Storages /\ s <= storages /\ storages \in Nat /\ s \in Nat /\ storage'[s].alive
    BY CommandPoolsAssumption DEF Alive, RingInv, TypeOK, Storages
  <2>2. Queue(s) = Items(s) /\ Queue(s)' = Items(s)'
    <3>1. Queue(s)' = Items(s)'
      BY DEF Queue, Items, Between, Dist, Cell
    <3> QED BY <3>1, QueueIsItems
  <2>3. /\ Items(s) \in Seq(Pools \cup {Null}) /\ Len(Items(s)) = Length(s) /\ Length(s) \in Nat
    BY <2>1, ItemsType
  <2>4. ~Made(s)
    BY <2>1 DEF Made
  <2>5. ~Freed(s)
    BY <2>1, SMTT(30) DEF Freed, NoThreadPools, NewThreadPools
  <2>6. CASE Pushed(s)
    <3> DEFINE v == storage[s].buffer[Cell(storage[s].tail)]
    <3>1. v \in Pools \cup {Null}
      BY <2>1, StorageType, CellType, CommandPoolsAssumption DEF RingInv, Ends
    <3>2. Items(s)' = Append(Items(s), v)
      BY <2>6 DEF Pushed
    <3> HIDE DEF v
    <3>3. /\ Len(Append(Items(s), v)) = Len(Items(s)) + 1
          /\ Append(Items(s), v)[Len(Items(s)) + 1] = v
          /\ \A i \in 1 .. Len(Items(s)) : Append(Items(s), v)[i] = Items(s)[i]
      BY <2>3, <3>1, AppendProperties
    <3>4. SubSeq(Append(Items(s), v), 1, Len(Items(s))) = Items(s)
      BY <2>3, <3>1
    <3>5. Len(Append(Items(s), v)) - 1 = Len(Items(s))
      BY <2>3, <3>3
    <3>6. Append(Items(s), v) # <<>>
      BY <2>3, <3>3, EmptySeq
    <3> QED BY <2>2, <3>2, <3>4, <3>5, <3>6
  <2> QED BY <2>1, <2>2, <2>4, <2>5, <2>6, RingSteps DEF Still, Popped
<1>2. Spec => [][Fifo]_vars
  BY <1>1, RingInvariant, PTL DEF Spec
<1> QED BY <1>2 DEF RingIsFifo
-----------------------------------------------------------------------------
(* The second layer: clients that keep threadShutdown and sweeps apart     *)

Same(s)      == /\ storage'[s].alive = storage[s].alive
                /\ storage'[s].active = storage[s].active /\ storage'[s].cache = storage[s].cache
Taking(s)    == /\ \E t \in Threads : PopRead(t) /\ tp[t] = s
                /\ storage'[s].active = storage[s].buffer[Cell(storage[s].head)]
                /\ storage'[s].alive = storage[s].alive /\ storage'[s].cache = storage[s].cache
Creating(s)  == /\ \E t \in Threads : CreateCommandPool(t) /\ tp[t] = s
                /\ storage'[s].active = pools' /\ storage'[s].cache = storage[s].cache \cup {pools'}
                /\ storage'[s].alive = storage[s].alive
GivingUp(s)  == /\ \E t \in Threads : DiscardActivePool(t) /\ tp[t] = s
                /\ storage'[s].active = Null
                /\ storage'[s].alive = storage[s].alive /\ storage'[s].cache = storage[s].cache

(* What a step does to the other fields of a storage.                      *)
LEMMA FieldSteps ==
  ASSUME RingInv, [Next]_vars, NEW s \in Storages
  PROVE  Same(s) \/ Taking(s) \/ Creating(s) \/ GivingUp(s) \/ Made(s) \/ Freed(s)
<1> DEFINE Goal == Same(s) \/ Taking(s) \/ Creating(s) \/ GivingUp(s) \/ Made(s) \/ Freed(s)
<1>1. PlainTypes /\ RegistryInv /\ SweepInv /\ storage \in [Storages -> ThreadPoolsType]
  BY TypeParts DEF RingInv
<1>2. \A t \in Threads : pc[t] \in Own \cup {"write", "publish", "drain"} => tp[t] \in Storages
  BY <1>1 DEF RegistryInv, PlainTypes, SweepInv, Own
<1>3. storage'[s] = storage[s] => Goal
  BY DEF Same
<1> USE DEF At, Own
<1>4. ASSUME NEW t \in Threads, EnsureThreadPools(t)
      PROVE  Goal
  <2>1. CASE registry[t] # Null
    BY <1>3, <1>4, <2>1 DEF EnsureThreadPools
  <2>2. CASE registry[t] = Null
    <3>1. storages' = storages + 1 /\ storage' = [storage EXCEPT ![storages'] = NewThreadPools]
      BY <1>4, <2>2 DEF EnsureThreadPools
    <3>2. CASE s = storages + 1
      <4>1. storage'[s] = NewThreadPools
        BY <1>1, <3>1, <3>2
      <4>2. Length(s)' = Dist(0, 0)
        BY <4>1 DEF Length, NewThreadPools
      <4> QED BY <1>4, <2>2, <3>2, <4>1, <4>2, FreshType DEF Made
    <3>3. CASE s # storages + 1
      BY <1>1, <1>3, <3>1, <3>3
    <3> QED BY <3>2, <3>3
  <2> QED BY <2>1, <2>2
<1>5. ASSUME NEW t \in Threads, PopRead(t) \/ CreateCommandPool(t) \/ DiscardActivePool(t), tp[t] # s
      PROVE  Goal
  <2>1. storage'[s] = storage[s]
    BY <1>1, <1>5 DEF PopRead, CreateCommandPool, DiscardActivePool
  <2> QED BY <1>3, <2>1
<1>6. ASSUME NEW t \in Threads, PopRead(t), tp[t] = s
      PROVE  Goal
  <2>1. storage' = [storage EXCEPT ![s].active = storage[s].buffer[Cell(storage[s].head)]]
    BY <1>6 DEF PopRead, Cell
  <2> QED BY <1>1, <1>6, <2>1 DEF ThreadPoolsType, Taking
<1>7. ASSUME NEW t \in Threads, CreateCommandPool(t), tp[t] = s
      PROVE  Goal
  <2>1. storage' = [storage EXCEPT ![s].active = pools', ![s].cache = @ \cup {pools'}]
    BY <1>7 DEF CreateCommandPool
  <2> QED BY <1>1, <1>7, <2>1 DEF ThreadPoolsType, Creating
<1>8. ASSUME NEW t \in Threads, DiscardActivePool(t), tp[t] = s
      PROVE  Goal
  <2>1. storage' = [storage EXCEPT ![s].active = Null]
    BY <1>8 DEF DiscardActivePool
  <2> QED BY <1>1, <1>8, <2>1 DEF ThreadPoolsType, GivingUp
<1>9. ASSUME NEW t \in Threads, PopPublish(t) \/ PushWrite(t) \/ PushPublish(t)
      PROVE  Goal
  <2>1. tp[t] \in Storages
    BY <1>2, <1>9 DEF PopPublish, PushWrite, PushPublish
  <2> QED BY <1>1, <1>9, <2>1 DEF PopPublish, PushWrite, PushPublish, ThreadPoolsType, Same
<1>10. ASSUME NEW t \in Threads, DrainAndFree(t), tp[t] # s
       PROVE  Goal
  <2>1. storage'[s] = storage[s]
    BY <1>1, <1>10 DEF DrainAndFree
  <2> QED BY <1>3, <2>1
<1>11. ASSUME storage'[s] = NoThreadPools,
              \/ \E t \in Threads : DrainAndFree(t) /\ tp[t] = s
              \/ Destroy /\ \E t \in Threads : registry[t] = s
       PROVE  Goal
  <2>1. storage'[s].head = 0 /\ storage'[s].tail = 0
    BY <1>11 DEF NoThreadPools, NewThreadPools
  <2>2. Length(s)' = Dist(0, 0)
    BY <2>1 DEF Length
  <2> QED BY <1>11, <2>2, FreshType DEF Freed
<1>12. ASSUME NEW t \in Threads, DrainAndFree(t), tp[t] = s
       PROVE  Goal
  <2>1. storage'[s] = NoThreadPools
    BY <1>1, <1>12 DEF DrainAndFree
  <2> QED BY <1>11, <1>12, <2>1
<1>13. CASE Destroy
  <2> DEFINE owned == {registry[t] : t \in Threads} \ {Null}
  <2>1. storage' = [x \in Storages |-> IF x \in owned THEN NoThreadPools ELSE storage[x]]
    BY <1>13 DEF Destroy
  <2>2. CASE s \in owned
    BY <1>11, <1>13, <2>1, <2>2
  <2>3. CASE s \notin owned
    BY <1>3, <2>1, <2>3
  <2> QED BY <2>2, <2>3
<1>14. CASE UNCHANGED vars
  BY <1>3, <1>14 DEF vars
<1> QED
  BY <1>3, <1>4, <1>5, <1>6, <1>7, <1>8, <1>9, <1>10, <1>12, <1>13, <1>14, OtherSteps
  DEF Next, Allocate, Discard, Sweep, Shutdown, Terminated

Appended == /\ \E t \in Threads : /\ DiscardCommandPoolForReuse(t)
                                 /\ discarded' = Append(discarded, [pool |-> hand[t], tid |-> t])
            /\ mutex = NoThread
Consumed == /\ \E t \in Threads : Recycle(t) \/ PushPublish(t)
            /\ discarded # <<>> /\ discarded' = Tail(discarded)

(* What a step does to the list of discarded pools.                        *)
LEMMA ListSteps ==
  ASSUME RingInv, [Next]_vars
  PROVE  UNCHANGED discarded \/ Appended \/ Consumed
<1>1. SweepInv
  BY DEF RingInv
<1> USE DEF At, sweepVars, countVars
<1>2. ASSUME NEW t \in Threads, EnsureThreadPools(t) \/ Allocate(t) \/ DiscardActivePool(t) \/ Shutdown(t)
      PROVE  UNCHANGED discarded
  BY <1>2 DEF EnsureThreadPools, Allocate, ChoosePool, PopRead, PopPublish, CreateCommandPool,
     CommandBuffer, DiscardActivePool, Shutdown, ThreadShutdown, DrainAndFree
<1>3. ASSUME NEW t \in Threads, DiscardCommandPoolForReuse(t)
      PROVE  Appended
  BY <1>3 DEF DiscardCommandPoolForReuse, Appended
<1>4. ASSUME NEW t \in Threads, Recycle(t)
      PROVE  UNCHANGED discarded \/ Consumed
  BY <1>1, <1>4 DEF Recycle, Consumed, SweepInv
<1>5. ASSUME NEW t \in Threads, PushPublish(t)
      PROVE  Consumed
  BY <1>1, <1>5 DEF PushPublish, Consumed, SweepInv
<1>6. ASSUME NEW t \in Threads, BeginSweep(t) \/ RecycleFind(t) \/ PushWrite(t) \/ EndSweep(t)
      PROVE  UNCHANGED discarded
  BY <1>6 DEF BeginSweep, RecycleFind, PushWrite, EndSweep
<1>7. Destroy \/ UNCHANGED vars => UNCHANGED discarded
  BY DEF Destroy, vars
<1> QED BY <1>2, <1>3, <1>4, <1>5, <1>6, <1>7 DEF Next, Discard, Sweep, Terminated
Acts(t) == EnsureThreadPools(t) \/ Allocate(t) \/ Discard(t) \/ Sweep(t) \/ Shutdown(t)

(* A held storage stays held until it is freed, and a new one is held.     *)
LEMMA HeldKept ==
  ASSUME RingInv, [Next]_vars, NEW s \in Storages, Held(s) \/ Made(s)
  PROVE  Held(s)' \/ Freed(s)
<1>1. PlainTypes /\ RegistryInv /\ storage \in [Storages -> ThreadPoolsType] /\ s # Null
  BY TypeParts DEF RingInv, Storages, Null
<1>2. CASE Made(s)
  <2>1. PICK t \in Threads : EnsureThreadPools(t) /\ registry[t] = Null
    BY <1>2 DEF Made
  <2>2. registry' = [registry EXCEPT ![t] = storages'] /\ storages' = s
    BY <1>2, <2>1 DEF EnsureThreadPools, Made
  <2> QED BY <1>1, <2>2 DEF Held, PlainTypes
<1>3. CASE Held(s)
  <2>1. PICK t \in Threads : registry[t] = s \/ (pc[t] = "drain" /\ tp[t] = s)
    BY <1>3 DEF Held
  <2>2. ASSUME NEW u \in Threads, u # t, Acts(u)
        PROVE  Held(s)'
    <3>1. pc'[t] = pc[t] /\ tp'[t] = tp[t] /\ registry'[t] = registry[t]
      BY <1>1, <2>2, OthersStay DEF Acts
    <3> QED BY <2>1, <3>1 DEF Held
  <2>3. ASSUME EnsureThreadPools(t) \/ Allocate(t) \/ Discard(t) \/ Sweep(t)
        PROVE  registry'[t] = s
    <3>1. registry[t] = s
      BY <1>1, <2>1, <2>3 DEF EnsureThreadPools, Allocate, ChoosePool, PopRead, PopPublish,
         CreateCommandPool, CommandBuffer, Discard, DiscardActivePool, DiscardCommandPoolForReuse,
         Sweep, BeginSweep, RecycleFind, Recycle, PushWrite, PushPublish, EndSweep, At
    <3> QED BY <1>1, <2>3, <3>1 DEF EnsureThreadPools, Allocate, ChoosePool, PopRead, PopPublish,
         CreateCommandPool, CommandBuffer, Discard, DiscardActivePool, DiscardCommandPoolForReuse,
         Sweep, BeginSweep, RecycleFind, Recycle, PushWrite, PushPublish, EndSweep
  <2>4. ASSUME ThreadShutdown(t)
        PROVE  pc'[t] = "drain" /\ tp'[t] = s
    BY <1>1, <2>1, <2>4 DEF ThreadShutdown, At, Goto, PlainTypes
  <2>5. ASSUME storage'[s] = NoThreadPools,
               \/ \E u \in Threads : DrainAndFree(u) /\ tp[u] = s
               \/ Destroy /\ \E u \in Threads : registry[u] = s
        PROVE  Freed(s)
    <3>1. storage'[s].head = 0 /\ storage'[s].tail = 0
      BY <2>5 DEF NoThreadPools, NewThreadPools
    <3>2. Length(s)' = Dist(0, 0)
      BY <3>1 DEF Length
    <3> QED BY <2>5, <3>2, FreshType DEF Freed
  <2>6. ASSUME DrainAndFree(t)
        PROVE  Freed(s)
    <3>1. tp[t] = s /\ storage' = [storage EXCEPT ![s] = NoThreadPools]
      BY <1>1, <2>1, <2>6 DEF DrainAndFree, At, RegistryInv
    <3>2. storage'[s] = NoThreadPools
      BY <1>1, <3>1
    <3> QED BY <2>5, <2>6, <3>1, <3>2
  <2>7. ASSUME Destroy
        PROVE  Freed(s)
    <3>1. registry[t] = s
      BY <2>1, <2>7 DEF Destroy, At
    <3>2. storage'[s] = NoThreadPools
      BY <1>1, <2>7, <3>1 DEF Destroy
    <3> QED BY <2>5, <2>7, <3>1, <3>2
  <2>8. ASSUME UNCHANGED vars
        PROVE  Held(s)'
    BY <2>1, <2>8 DEF vars, Held
  <2>9. Held(s)' <=> \E u \in Threads : registry'[u] = s \/ (pc'[u] = "drain" /\ tp'[u] = s)
    BY DEF Held
  <2> QED BY <2>2, <2>3, <2>4, <2>6, <2>7, <2>8, <2>9 DEF Next, Acts, Shutdown, Terminated
<1> QED BY <1>2, <1>3

(* Storages are alive as long as they are held.                            *)
LEMMA AliveKept ==
  ASSUME OwnerInv, [Next]_vars, NEW s \in Storages
  PROVE  storage'[s].alive <=> Held(s)'
<1>1. RingInv /\ (storage[s].alive <=> Held(s))
  BY DEF OwnerInv, AliveInv
<1>2. CASE Made(s) /\ ~Freed(s)
  <2>1. storage'[s].alive
    BY <1>2 DEF Made, NewThreadPools
  <2> QED BY <1>1, <1>2, <2>1, HeldKept
<1>3. CASE Freed(s)
  <2>1. ~storage'[s].alive
    BY <1>3 DEF Freed, NoThreadPools, NewThreadPools
  <2> QED BY <1>1, <1>3, <2>1, HeldStep
<1>4. CASE ~Made(s) /\ ~Freed(s)
  <2>1. storage'[s].alive = storage[s].alive
    BY <1>1, <1>4, FieldSteps DEF Same, Taking, Creating, GivingUp
  <2>2. Held(s) => Held(s)'
    BY <1>1, <1>4, HeldKept
  <2>3. Held(s)' => Held(s)
    BY <1>1, <1>4, HeldStep
  <2> QED BY <1>1, <2>1, <2>2, <2>3
<1> QED BY <1>2, <1>3, <1>4

(* While a thread is in the middle of a recycle, the list and the registry *)
(* stay as they are for it.                                                *)
LEMMA Undisturbed ==
  ASSUME OwnerInv, ShutdownAlone, [Next]_vars, NEW t \in Threads,
         pc[t] \in {"recycle", "write", "publish"}, pc'[t] \in {"recycle", "write", "publish"}
  PROVE  /\ tp'[t] = tp[t] /\ discarded' = discarded
         /\ tp[t] # Null => registry'[Head(discarded).tid] = registry[Head(discarded).tid]
<1>1. RingInv /\ PlainTypes /\ RegistryInv /\ SweepInv /\ AliveInv
  BY TypeParts DEF OwnerInv, RingInv
<1>2. mutex = t /\ discarded # <<>> /\ mutex # NoThread
  BY <1>1, CommandPoolsAssumption DEF SweepInv, Sweeping
<1>3. Head(discarded).tid \in Threads
  BY <1>1, <1>2, DiscardedType DEF RingInv
<1>4. ~Destroy
  BY <1>1 DEF Destroy, PlainTypes
<1>5. CASE Acts(t)
  <2>1. Recycle(t) \/ PushWrite(t)
    BY <1>1, <1>5 DEF Acts, EnsureThreadPools, Allocate, ChoosePool, PopRead, PopPublish, CreateCommandPool,
       CommandBuffer, Discard, DiscardActivePool, DiscardCommandPoolForReuse, Sweep, BeginSweep,
       RecycleFind, PushPublish, EndSweep, Shutdown, ThreadShutdown, DrainAndFree, Goto, At, PlainTypes
  <2> QED BY <1>1, <2>1 DEF Recycle, PushWrite, Goto, PlainTypes, sweepVars
<1>6. ASSUME NEW u \in Threads, u # t, Acts(u)
      PROVE  /\ tp'[t] = tp[t] /\ discarded' = discarded
             /\ tp[t] # Null => registry'[Head(discarded).tid] = registry[Head(discarded).tid]
  <2>1. tp'[t] = tp[t]
    BY <1>1, <1>6, OthersStay DEF Acts
  <2>2. pc[u] \notin Sweeping
    BY <1>1, <1>2, <1>6 DEF SweepInv
  <2>3. ~ThreadShutdown(u)
    BY <1>2 DEF ThreadShutdown, Nobody
  <2>4. discarded' = discarded
    BY <1>2, <1>6, <2>2 DEF Acts, EnsureThreadPools, Allocate, ChoosePool, PopRead, PopPublish,
       CreateCommandPool, CommandBuffer, Discard, DiscardActivePool, DiscardCommandPoolForReuse,
       Sweep, BeginSweep, RecycleFind, Recycle, PushWrite, PushPublish, EndSweep, Shutdown,
       ThreadShutdown, DrainAndFree, sweepVars, At, Sweeping
  <2>5. CASE EnsureThreadPools(u)
    <3>1. registry[u] # Null => registry' = registry
      BY <2>5 DEF EnsureThreadPools
    <3>2. \A v \in Threads : v # u => registry'[v] = registry[v]
      BY <1>1, <2>5, OthersStay
    <3>3. tp[t] # Null => registry[Head(discarded).tid] # Null
      BY <1>1 DEF AliveInv, SweepInv
    <3> QED BY <1>3, <2>1, <2>4, <3>1, <3>2, <3>3
  <2>6. CASE Allocate(u) \/ Discard(u) \/ Sweep(u) \/ DrainAndFree(u)
    <3>1. registry' = registry
      BY <2>6 DEF Allocate, ChoosePool, PopRead, PopPublish, CreateCommandPool, CommandBuffer,
         Discard, DiscardActivePool, DiscardCommandPoolForReuse, Sweep, BeginSweep, RecycleFind,
         Recycle, PushWrite, PushPublish, EndSweep, DrainAndFree
    <3> QED BY <2>1, <2>4, <3>1
  <2> QED BY <1>6, <2>3, <2>5, <2>6 DEF Acts, Shutdown
<1>7. CASE UNCHANGED vars
  BY <1>7 DEF vars, sweepVars
<1> QED BY <1>4, <1>5, <1>6, <1>7 DEF Next, Acts, Terminated
(* Storages are alive for those who use them.                              *)
LEMMA AliveStep == OwnerInv /\ ShutdownAlone /\ [Next]_vars => AliveInv'
<1> SUFFICES ASSUME OwnerInv, ShutdownAlone, [Next]_vars PROVE AliveInv'
  OBVIOUS
<1>1. RingInv /\ PlainTypes /\ RegistryInv /\ SweepInv /\ AliveInv
  BY TypeParts DEF OwnerInv, RingInv
<1>2. ASSUME NEW t \in Threads, NEW u \in Threads, u # t, Acts(u)
      PROVE  pc'[t] = pc[t] /\ tp'[t] = tp[t] /\ registry'[t] = registry[t]
  BY <1>1, <1>2, OthersStay DEF Acts
<1>3. \A t \in Threads : Destroy => pc'[t] = "done"
  BY DEF Destroy
<1>4. UNCHANGED vars => UNCHANGED <<pc, tp, registry, mutex>>
  BY DEF vars, sweepVars
<1>5. ASSUME NEW t \in Threads, pc'[t] = "drain"
      PROVE  mutex' = NoThread
  <2>1. CASE Acts(t)
    <3>1. ThreadShutdown(t)
      BY <1>1, <1>5, <2>1 DEF Acts, EnsureThreadPools, Allocate, ChoosePool, PopRead, PopPublish,
         CreateCommandPool, CommandBuffer, Discard, DiscardActivePool, DiscardCommandPoolForReuse, Sweep,
         BeginSweep, RecycleFind, Recycle, PushWrite, PushPublish, EndSweep, Shutdown, DrainAndFree,
         Goto, PlainTypes
    <3>2. mutex = NoThread
      BY <1>1, <3>1 DEF ThreadShutdown, Nobody, SweepInv, Sweeping, PlainTypes
    <3> QED BY <3>1, <3>2 DEF ThreadShutdown, sweepVars
  <2>2. ASSUME NEW u \in Threads, u # t, Acts(u)
        PROVE  mutex' = NoThread
    <3>1. pc[t] = "drain" /\ mutex = NoThread
      BY <1>1, <1>2, <1>5, <2>2 DEF AliveInv
    <3>2. ~BeginSweep(u)
      BY <3>1 DEF BeginSweep, Nobody
    <3> QED BY <2>2, <3>1, <3>2 DEF Acts, EnsureThreadPools, Allocate, ChoosePool, PopRead, PopPublish,
         CreateCommandPool, CommandBuffer, Discard, DiscardActivePool, DiscardCommandPoolForReuse, Sweep,
         RecycleFind, Recycle, PushWrite, PushPublish, EndSweep, Shutdown, ThreadShutdown, DrainAndFree,
         sweepVars
  <2>3. CASE UNCHANGED vars
    BY <1>1, <1>4, <1>5, <2>3 DEF AliveInv
  <2> QED BY <1>3, <1>5, <2>1, <2>2, <2>3 DEF Next, Acts, Terminated
<1>6. ASSUME NEW t \in Threads, pc'[t] \in {"write", "publish"}
      PROVE  tp'[t] = registry'[Head(discarded').tid]
  <2>1. CASE pc[t] \in {"recycle", "write", "publish"}
    <3>1. /\ tp'[t] = tp[t] /\ discarded' = discarded
          /\ tp[t] # Null => registry'[Head(discarded).tid] = registry[Head(discarded).tid]
      BY <1>1, <1>6, <2>1, Undisturbed
    <3>2. tp[t] # Null
      <4>1. tp'[t] # Null
        BY <1>1, <1>6, SweepStep DEF SweepInv
      <4> QED BY <3>1, <4>1
    <3> QED BY <1>1, <2>1, <3>1, <3>2 DEF AliveInv
  <2>2. CASE pc[t] \notin {"recycle", "write", "publish"}
    <3>1. ~Acts(t)
      BY <1>1, <1>6, <2>2 DEF Acts, EnsureThreadPools, Allocate, ChoosePool, PopRead, PopPublish,
         CreateCommandPool, CommandBuffer, Discard, DiscardActivePool, DiscardCommandPoolForReuse, Sweep,
         BeginSweep, RecycleFind, Recycle, PushWrite, PushPublish, EndSweep, Shutdown, ThreadShutdown,
         DrainAndFree, Goto, At, PlainTypes
    <3> QED BY <1>2, <1>3, <1>4, <1>6, <2>2, <3>1 DEF Next, Acts, Terminated
  <2> QED BY <2>1, <2>2
<1>7. ASSUME NEW t \in Threads, pc'[t] = "recycle"
      PROVE  tp'[t] \in {Null, registry'[Head(discarded').tid]}
  <2>1. CASE pc[t] \in {"recycle", "write", "publish"}
    <3>1. /\ tp'[t] = tp[t] /\ discarded' = discarded
          /\ tp[t] # Null => registry'[Head(discarded).tid] = registry[Head(discarded).tid]
      BY <1>1, <1>7, <2>1, Undisturbed
    <3> QED BY <1>1, <2>1, <3>1 DEF AliveInv
  <2>2. CASE RecycleFind(t)
    <3>1. tp' = [tp EXCEPT ![t] = registry[Head(discarded).tid]] /\ UNCHANGED <<registry, discarded>>
      BY <2>2 DEF RecycleFind, Recipient, sweepVars
    <3> QED BY <1>1, <3>1 DEF PlainTypes
  <2>3. CASE pc[t] \notin {"recycle", "write", "publish"} /\ ~RecycleFind(t)
    <3>1. ~Acts(t)
      BY <1>1, <1>7, <2>3 DEF Acts, EnsureThreadPools, Allocate, ChoosePool, PopRead, PopPublish,
         CreateCommandPool, CommandBuffer, Discard, DiscardActivePool, DiscardCommandPoolForReuse, Sweep,
         BeginSweep, Recycle, PushWrite, PushPublish, EndSweep, Shutdown, ThreadShutdown,
         DrainAndFree, Goto, At, PlainTypes
    <3> QED BY <1>2, <1>3, <1>4, <1>7, <2>3, <3>1 DEF Next, Acts, Terminated
  <2> QED BY <2>1, <2>2, <2>3
<1>8. ASSUME NEW t \in Threads, pc'[t] = "append"
      PROVE  registry'[t] # Null
  <2>1. CASE Acts(t)
    <3>1. DiscardActivePool(t)
      BY <1>1, <1>8, <2>1 DEF Acts, EnsureThreadPools, Allocate, ChoosePool, PopRead, PopPublish,
         CreateCommandPool, CommandBuffer, Discard, DiscardCommandPoolForReuse, Sweep,
         BeginSweep, RecycleFind, Recycle, PushWrite, PushPublish, EndSweep, Shutdown, ThreadShutdown,
         DrainAndFree, Goto, PlainTypes
    <3> QED BY <1>1, <3>1 DEF DiscardActivePool, At, RegistryInv, Own
  <2> QED BY <1>1, <1>2, <1>3, <1>4, <1>8, <2>1 DEF Next, Acts, Terminated, AliveInv
<1>9. \A s \in Storages : storage'[s].alive <=> Held(s)'
  BY AliveKept
<1> QED BY <1>5, <1>6, <1>7, <1>8, <1>9 DEF AliveInv

(* What a thread works on, no other thread touches but to push.            *)
LEMMA OwnUndisturbed ==
  ASSUME RingInv, [Next]_vars, NEW t \in Threads, NEW s \in Storages, tp[t] = s, pc[t] \in Own,
         ~Acts(t), ~Destroy
  PROVE  /\ Same(s) /\ (Still(s) \/ Pushed(s))
         /\ pc'[t] = pc[t] /\ tp'[t] = tp[t] /\ registry'[t] = registry[t]
<1>1. PlainTypes /\ RegistryInv
  BY TypeParts DEF RingInv
<1>2. registry[t] = s /\ s # Null
  BY <1>1 DEF RegistryInv
<1>3. ASSUME NEW u \in Threads, tp[u] = s,
             PopRead(u) \/ PopPublish(u) \/ CreateCommandPool(u) \/ DiscardActivePool(u)
      PROVE  FALSE
  <2>1. registry[u] = s /\ Acts(u)
    BY <1>1, <1>3 DEF PopRead, PopPublish, CreateCommandPool, DiscardActivePool, At, Own, RegistryInv,
       Acts, Allocate, Discard
  <2> QED BY <1>1, <1>2, <2>1 DEF RegistryInv
<1>4. ~Made(s)
  BY <1>1, CommandPoolsAssumption DEF Made, RegistryInv, PlainTypes, Storages
<1>5. ~Freed(s)
  BY <1>1, <1>2 DEF Freed, DrainAndFree, At, RegistryInv
<1>6. Same(s)
  BY <1>3, <1>4, <1>5, FieldSteps DEF Taking, Creating, GivingUp
<1>7. Still(s) \/ Pushed(s)
  BY <1>3, <1>4, <1>5, RingSteps DEF Popped
<1>8. pc'[t] = pc[t] /\ tp'[t] = tp[t] /\ registry'[t] = registry[t]
  <2>1. CASE UNCHANGED vars
    BY <2>1 DEF vars
  <2>2. ASSUME NEW u \in Threads, u # t, Acts(u)
        PROVE  pc'[t] = pc[t] /\ tp'[t] = tp[t] /\ registry'[t] = registry[t]
    BY <1>1, <2>2, OthersStay DEF Acts
  <2> QED BY <2>1, <2>2 DEF Next, Acts, Terminated
<1> QED BY <1>6, <1>7, <1>8

(* The first pool of a ring is the same after a push.                      *)
LEMMA FirstStays ==
  ASSUME RingInv, NEW s \in Storages, Still(s) \/ Pushed(s), Length(s) >= 1
  PROVE  Items(s)'[1] = Items(s)[1]
<1> DEFINE v == storage[s].buffer[Cell(storage[s].tail)]
<1>1. v \in Pools \cup {Null}
  BY StorageType, CellType, CommandPoolsAssumption DEF RingInv, Ends
<1>2. /\ Items(s) \in Seq(Pools \cup {Null}) /\ Len(Items(s)) = Length(s) /\ Length(s) \in Nat
  BY ItemsType
<1>3. Pushed(s) => Items(s)' = Append(Items(s), v)
  BY DEF Pushed
<1> HIDE DEF v
<1>4. \A i \in 1 .. Len(Items(s)) : Append(Items(s), v)[i] = Items(s)[i]
  BY <1>1, <1>2, AppendProperties
<1>5. 1 \in 1 .. Len(Items(s))
  BY <1>2
<1> QED BY <1>3, <1>4, <1>5 DEF Still

(* What lies at the head is the first item.                                *)
LEMMA HeadItem ==
  ASSUME RingInv, NEW s \in Storages, Length(s) >= 1
  PROVE  /\ storage[s].buffer[Cell(storage[s].head)] = Items(s)[1]
         /\ Held(s) => Items(s)[1] # Null
<1> DEFINE h == storage[s].head
           e == storage[s].tail
           b == storage[s].buffer
           S == Pools \cup {Null}
<1>1. h \in Ends /\ e \in Ends /\ b \in [Cells -> S]
  BY StorageType DEF RingInv
<1>2. Dist(h, e) >= 1
  BY DEF Length
<1> HIDE DEF h, e, b, S
<1>3. Between(h, e, b)[1] = b[Cell(h)]
  BY <1>1, <1>2, AdvanceTail
<1>4. 1 \in 1 .. Length(s)
  BY ItemsType
<1> QED BY <1>3, <1>4 DEF Items, h, e, b, RingInv, PooledInv

(* The owner's active pool and the sweep's free cell.                      *)
LEMMA ActiveStep == OwnerInv /\ ShutdownAlone /\ [Next]_vars => ActiveInv'
<1> SUFFICES ASSUME OwnerInv, ShutdownAlone, [Next]_vars, NEW t \in Threads, NEW s \in Storages, tp'[t] = s
             PROVE  /\ pc'[t] \in {"read", "create"} => storage'[s].active = Null
                    /\ pc'[t] = "advance" => storage'[s].active = Items(s)'[1]
                    /\ pc'[t] = "buffer" => storage'[s].active # Null
                    /\ pc'[t] = "publish" =>
                         storage'[s].buffer[Cell(storage'[s].tail)] = Head(discarded').pool
  BY DEF ActiveInv
<1>1. /\ RingInv /\ PlainTypes /\ RegistryInv /\ SweepInv /\ RoomInv /\ AliveInv /\ ActiveInv
      /\ storage \in [Storages -> ThreadPoolsType] /\ s # Null
  BY TypeParts DEF OwnerInv, RingInv, Storages, Null
<1>2. Destroy => pc'[t] = "done"
  BY DEF Destroy
<1>3. ASSUME Acts(t), pc'[t] \in {"read", "create", "advance", "buffer"}
      PROVE  /\ ChoosePool(t) \/ PopRead(t) \/ PopPublish(t) \/ CreateCommandPool(t)
             /\ tp[t] = s /\ registry[t] = s
  <2>1. ChoosePool(t) \/ PopRead(t) \/ PopPublish(t) \/ CreateCommandPool(t)
    BY <1>1, <1>3 DEF Acts, EnsureThreadPools, Allocate, CommandBuffer, Discard, DiscardActivePool,
       DiscardCommandPoolForReuse, Sweep, BeginSweep, RecycleFind, Recycle, PushWrite, PushPublish,
       EndSweep, Shutdown, ThreadShutdown, DrainAndFree, Goto, PlainTypes
  <2> QED BY <1>1, <2>1 DEF ChoosePool, PopRead, PopPublish, CreateCommandPool, At, Own, RegistryInv
<1>4. ASSUME ~Acts(t), pc'[t] \in {"read", "create", "advance", "buffer"}
      PROVE  pc[t] = pc'[t] /\ tp[t] = s /\ Same(s) /\ (Still(s) \/ Pushed(s)) /\ registry[t] = s
  <2>1. pc'[t] = pc[t] /\ tp'[t] = tp[t]
    <3>1. CASE UNCHANGED vars
      BY <3>1 DEF vars
    <3>2. ASSUME NEW u \in Threads, u # t, Acts(u)
          PROVE  pc'[t] = pc[t] /\ tp'[t] = tp[t]
      BY <1>1, <3>2, OthersStay DEF Acts
    <3> QED BY <1>2, <1>4, <3>1, <3>2 DEF Next, Acts, Terminated
  <2>2. pc[t] \in Own /\ ~Destroy
    BY <1>2, <1>4, <2>1 DEF Own
  <2> QED BY <1>1, <1>4, <2>1, <2>2, OwnUndisturbed DEF RegistryInv
<1>5. ASSUME pc'[t] \in {"read", "create"}
      PROVE  storage'[s].active = Null
  <2>1. CASE Acts(t)
    BY <1>1, <1>3, <1>5, <2>1 DEF ChoosePool, PopRead, PopPublish, CreateCommandPool, Goto, PlainTypes
  <2>2. CASE ~Acts(t)
    BY <1>1, <1>4, <1>5, <2>2 DEF Same, ActiveInv
  <2> QED BY <2>1, <2>2
<1>6. ASSUME pc'[t] = "advance"
      PROVE  storage'[s].active = Items(s)'[1]
  <2>1. Length(s) >= 1 /\ (Still(s) \/ Pushed(s))
    BY <1>1, <1>6, Popping, PopAlone
  <2>2. Items(s)'[1] = Items(s)[1]
    BY <1>1, <2>1, FirstStays
  <2>3. CASE Acts(t)
    <3>1. PopRead(t) /\ tp[t] = s
      BY <1>1, <1>3, <1>6, <2>3 DEF ChoosePool, PopPublish, CreateCommandPool, Goto, PlainTypes
    <3>2. storage' = [storage EXCEPT ![s].active = storage[s].buffer[Cell(storage[s].head)]]
      BY <3>1 DEF PopRead, Cell
    <3>3. storage'[s].active = storage[s].buffer[Cell(storage[s].head)]
      BY <1>1, <3>2 DEF ThreadPoolsType
    <3> QED BY <1>1, <2>1, <2>2, <3>3, HeadItem
  <2>4. CASE ~Acts(t)
    BY <1>1, <1>4, <1>6, <2>2, <2>4 DEF Same, ActiveInv
  <2> QED BY <2>3, <2>4
<1>7. ASSUME pc'[t] = "buffer"
      PROVE  storage'[s].active # Null
  <2>1. CASE ~Acts(t)
    BY <1>1, <1>4, <1>7, <2>1 DEF Same, ActiveInv
  <2>2. CASE ChoosePool(t) /\ tp[t] = s
    BY <1>1, <1>7, <2>2 DEF ChoosePool, Goto, PlainTypes
  <2>3. CASE PopPublish(t) /\ tp[t] = s /\ registry[t] = s
    <3>1. storage[s].active = Items(s)[1] /\ Length(s) >= 1 /\ Held(s)
      BY <1>1, <2>3 DEF PopPublish, At, ActiveInv, RoomInv, Held
    <3>2. Items(s)[1] # Null
      BY <1>1, <3>1, HeadItem
    <3>3. storage' = [storage EXCEPT ![s].head = Step(storage[s].head)]
      BY <2>3 DEF PopPublish, Step
    <3>4. storage'[s].active = storage[s].active
      BY <1>1, <3>3 DEF ThreadPoolsType
    <3> QED BY <3>1, <3>2, <3>4
  <2>4. CASE CreateCommandPool(t) /\ tp[t] = s
    <3>1. storage' = [storage EXCEPT ![s].active = pools', ![s].cache = @ \cup {pools'}] /\ pools' = pools + 1
      BY <2>4 DEF CreateCommandPool
    <3>2. storage'[s].active = pools + 1
      BY <1>1, <3>1 DEF ThreadPoolsType
    <3> QED BY <1>1, <3>2 DEF PlainTypes, Null
  <2>5. CASE PopRead(t)
    BY <1>1, <1>7, <2>5 DEF PopRead, Goto, PlainTypes
  <2> QED BY <1>3, <1>7, <2>1, <2>2, <2>3, <2>4, <2>5
<1>8. ASSUME pc'[t] = "publish"
      PROVE  storage'[s].buffer[Cell(storage'[s].tail)] = Head(discarded').pool
  <2>1. tp[t] = s /\ ~Pushed(s) /\ (pc[t] = "publish" \/ PushWrite(t))
    BY <1>1, <1>8, Pushing
  <2>2. pc[t] \in {"write", "publish"}
    BY <2>1 DEF PushWrite, At
  <2>3. discarded' = discarded
    BY <1>8, <2>2, Undisturbed
  <2>4. CASE PushWrite(t)
    <3> DEFINE e == storage[s].tail
    <3>1. Cell(e) \in Cells
      BY <1>1, StorageType, CellType, CommandPoolsAssumption DEF RingInv, Ends
    <3>2. storage' = [storage EXCEPT ![s].buffer[Cell(e)] = Head(discarded).pool]
      BY <2>1, <2>4 DEF PushWrite, Cell
    <3>3. storage'[s].tail = e /\ storage'[s].buffer[Cell(e)] = Head(discarded).pool
      BY <1>1, <3>1, <3>2 DEF ThreadPoolsType
    <3> QED BY <2>3, <3>3
  <2>5. CASE pc[t] = "publish"
    <3>1. mutex = t /\ mutex # NoThread
      BY <1>1, <2>2, CommandPoolsAssumption DEF SweepInv, Sweeping
    <3>2. ~\E u \in Threads : PushWrite(u) /\ tp[u] = s
      BY <1>1, <2>5, <3>1 DEF PushWrite, At, SweepInv, Sweeping
    <3>3. ~Made(s)
      BY <1>1, <2>1, CommandPoolsAssumption DEF Made, RegistryInv, PlainTypes, Storages
    <3>4. ~Freed(s)
      <4>1. Nobody({"drain"})
        BY <1>1, <3>1 DEF AliveInv, Nobody
      <4> QED BY <1>2, <1>8, <4>1 DEF Freed, DrainAndFree, At, Nobody
    <3>5. Behind(s)
      BY <1>1, <2>1, <3>2, <3>3, <3>4, RingSteps DEF Still, Popped
    <3> QED BY <1>1, <2>1, <2>3, <2>5, <3>5 DEF Behind, ActiveInv
  <2> QED BY <2>1, <2>4, <2>5
<1> QED BY <1>5, <1>6, <1>7, <1>8
(* A thread keeps its storage, or it gets a new one.                       *)
LEMMA RegistrySteps ==
  ASSUME RingInv, [Next]_vars, NEW t \in Threads, NEW s \in Storages, registry'[t] = s, ~Made(s)
  PROVE  registry[t] = s
<1>1. PlainTypes /\ storage \in [Storages -> ThreadPoolsType] /\ s # Null
  BY TypeParts DEF RingInv, Storages, Null
<1>2. ~Destroy
  BY <1>1 DEF Destroy
<1>3. ASSUME EnsureThreadPools(t), registry[t] = Null
      PROVE  FALSE
  <2>1. /\ storages' = storages + 1 /\ registry' = [registry EXCEPT ![t] = storages']
        /\ storage' = [storage EXCEPT ![storages'] = NewThreadPools]
    BY <1>3 DEF EnsureThreadPools
  <2>2. s = storages + 1 /\ storage'[s] = NewThreadPools
    BY <1>1, <2>1 DEF PlainTypes
  <2>3. Length(s)' = Dist(0, 0)
    BY <2>2 DEF Length, NewThreadPools
  <2> QED BY <1>3, <2>2, <2>3, FreshType DEF Made
<1>4. EnsureThreadPools(t) /\ registry[t] # Null => registry'[t] = registry[t]
  BY DEF EnsureThreadPools
<1>5. Allocate(t) \/ Discard(t) \/ Sweep(t) \/ DrainAndFree(t) => registry'[t] = registry[t]
  BY DEF Allocate, ChoosePool, PopRead, PopPublish, CreateCommandPool, CommandBuffer, Discard,
     DiscardActivePool, DiscardCommandPoolForReuse, Sweep, BeginSweep, RecycleFind, Recycle, PushWrite,
     PushPublish, EndSweep, DrainAndFree
<1>6. ~ThreadShutdown(t)
  BY <1>1 DEF ThreadShutdown, Unregistered, PlainTypes
<1>7. ASSUME NEW u \in Threads, u # t, Acts(u)
      PROVE  registry'[t] = registry[t]
  BY <1>1, <1>7, OthersStay DEF Acts
<1>8. UNCHANGED vars => registry'[t] = registry[t]
  BY DEF vars
<1> QED BY <1>2, <1>3, <1>4, <1>5, <1>6, <1>7, <1>8 DEF Next, Acts, Shutdown, Terminated

(* What a thread has in its hand.                                          *)
LEMMA HandSteps ==
  ASSUME RingInv, [Next]_vars, NEW t \in Threads
  PROVE  \/ hand'[t] \in {hand[t], Null}
         \/ DiscardActivePool(t) /\ hand'[t] = storage[tp[t]].active
<1>1. PlainTypes
  BY TypeParts DEF RingInv
<1>2. CASE Acts(t)
  <2>1. DiscardActivePool(t) => hand'[t] = storage[tp[t]].active
    BY <1>1 DEF DiscardActivePool, PlainTypes
  <2>2. DiscardCommandPoolForReuse(t) => hand'[t] = Null
    BY <1>1 DEF DiscardCommandPoolForReuse, PlainTypes
  <2> QED BY <1>2, <2>1, <2>2 DEF Acts, EnsureThreadPools, Allocate, ChoosePool, PopRead, PopPublish,
     CreateCommandPool, CommandBuffer, Discard, Sweep, BeginSweep, RecycleFind, Recycle, PushWrite,
     PushPublish, EndSweep, Shutdown, ThreadShutdown, DrainAndFree
<1>3. ASSUME NEW u \in Threads, u # t, Acts(u)
      PROVE  hand'[t] = hand[t]
  BY <1>1, <1>3, OthersStay DEF Acts
<1>4. Destroy \/ UNCHANGED vars => hand'[t] = hand[t]
  BY DEF Destroy, vars
<1> QED BY <1>2, <1>3, <1>4 DEF Next, Acts, Terminated

(* Who leaves has left when its sweep is over, and then the list is empty. *)
LEMMA LeavingSteps ==
  ASSUME RingInv, [Next]_vars, NEW t \in Threads, Leaving(t), ~Leaving(t)'
  PROVE  discarded' = <<>>
<1>1. PlainTypes /\ SweepInv
  BY TypeParts DEF RingInv
<1>2. ~Destroy
  BY <1>1 DEF Destroy, Leaving, At, SweepInv, Sweeping
<1>3. ~UNCHANGED vars
  BY DEF vars, sweepVars, Leaving
<1>4. CASE pc[t] \in {"drain", "force"}
  <2>1. DrainAndFree(t) => pc'[t] = "force"
    BY <1>1 DEF DrainAndFree, Goto, PlainTypes
  <2>2. BeginSweep(t) /\ pc[t] = "force" => mutex' = t /\ force'
    BY DEF BeginSweep, At
  <2>3. ~Acts(t)
    BY <1>4, <2>1, <2>2 DEF Acts, EnsureThreadPools, Allocate, ChoosePool, PopRead, PopPublish,
       CreateCommandPool, CommandBuffer, Discard, DiscardActivePool, DiscardCommandPoolForReuse, Sweep,
       BeginSweep, RecycleFind, Recycle, PushWrite, PushPublish, EndSweep, Shutdown, ThreadShutdown,
       At, Leaving
  <2>4. ASSUME NEW u \in Threads, u # t, Acts(u)
        PROVE  FALSE
    <3>1. pc'[t] = pc[t]
      BY <1>1, <2>4, OthersStay DEF Acts
    <3> QED BY <1>4, <3>1 DEF Leaving
  <2> QED BY <1>2, <1>3, <2>3, <2>4 DEF Next, Acts, Terminated
<1>5. CASE mutex = t /\ force
  <2>1. mutex # NoThread
    BY <1>5, CommandPoolsAssumption
  <2>2. ASSUME NEW u \in Threads, Acts(u), ~EndSweep(u)
        PROVE  FALSE
    <3>1. mutex' = mutex /\ force' = force
      BY <2>1, <2>2 DEF Acts, EnsureThreadPools, Allocate, ChoosePool, PopRead, PopPublish,
         CreateCommandPool, CommandBuffer, Discard, DiscardActivePool, DiscardCommandPoolForReuse, Sweep,
         BeginSweep, RecycleFind, Recycle, PushWrite, PushPublish, Shutdown, ThreadShutdown, DrainAndFree,
         sweepVars
    <3> QED BY <1>5, <3>1 DEF Leaving
  <2>3. ASSUME NEW u \in Threads, EndSweep(u)
        PROVE  discarded' = <<>>
    BY <1>5, <2>3 DEF EndSweep
  <2> QED BY <1>2, <1>3, <2>2, <2>3 DEF Next, Acts, Terminated
<1> QED BY <1>4, <1>5 DEF Leaving
(* An entry of the list was there before, or it has just been appended.    *)
LEMMA EntrySteps ==
  ASSUME RingInv, [Next]_vars, NEW i \in 1 .. Len(discarded')
  PROVE  \/ \E j \in 1 .. Len(discarded) : discarded'[i] = discarded[j]
         \/ \E t \in Threads : DiscardCommandPoolForReuse(t) /\ discarded'[i] = [pool |-> hand[t], tid |-> t]
<1> DEFINE S == [pool : Pools, tid : Threads]
<1>1. discarded \in Seq(S)
  BY DEF RingInv, TypeOK
<1>2. Len(discarded) \in Nat
  BY <1>1, LenProperties
<1>3. CASE UNCHANGED discarded
  BY <1>3
<1>4. CASE Appended
  <2>1. PICK t \in Threads : DiscardCommandPoolForReuse(t) /\ discarded' = Append(discarded, [pool |-> hand[t], tid |-> t])
    BY <1>4 DEF Appended
  <2>2. hand[t] \in Pools /\ t \in Threads
    BY <2>1 DEF RingInv, TypeOK, SweepInv, DiscardCommandPoolForReuse, At
  <2> DEFINE e == [pool |-> hand[t], tid |-> t]
  <2>3. e \in S
    BY <2>2
  <2> HIDE DEF e, S
  <2>4. /\ Len(Append(discarded, e)) = Len(discarded) + 1
        /\ Append(discarded, e)[Len(discarded) + 1] = e
        /\ \A j \in 1 .. Len(discarded) : Append(discarded, e)[j] = discarded[j]
    BY <1>1, <2>3, AppendProperties
  <2>5. discarded' = Append(discarded, e)
    BY <2>1 DEF e
  <2>6. CASE i = Len(discarded) + 1
    BY <2>1, <2>4, <2>5, <2>6 DEF e
  <2>7. CASE i # Len(discarded) + 1
    <3>1. i \in 1 .. Len(discarded)
      BY <1>2, <2>4, <2>5, <2>7
    <3> QED BY <2>4, <2>5, <3>1
  <2> QED BY <2>6, <2>7
<1>5. CASE Consumed
  <2>1. discarded # <<>> /\ discarded' = Tail(discarded) /\ TypeOK
    BY <1>5 DEF Consumed, RingInv
  <2>2. /\ Len(Tail(discarded)) = Len(discarded) - 1
        /\ \A j \in 1 .. Len(discarded) - 1 : Tail(discarded)[j] = discarded[j + 1]
    BY <2>1, DiscardedType
  <2>3. i \in 1 .. Len(discarded) - 1 /\ i + 1 \in 1 .. Len(discarded)
    BY <1>2, <2>1, <2>2
  <2> QED BY <2>1, <2>2, <2>3
<1> QED BY <1>3, <1>4, <1>5, ListSteps

(* The pools of a thread that stays registered are of its own making.      *)
LEMMA CacheKept ==
  ASSUME OwnerInv, ShutdownAlone, [Next]_vars, NEW t \in Threads, NEW s \in Storages, registry'[t] = s, ~Made(s)
  PROVE  /\ storage'[s].active \in storage'[s].cache \cup {Null}
         /\ \A i \in 1 .. Len(Items(s)') : Items(s)'[i] \in storage'[s].cache
         /\ hand'[t] \in storage'[s].cache \cup {Null}
         /\ \A i \in 1 .. Len(discarded') :
              discarded'[i].tid = t => discarded'[i].pool \in storage'[s].cache
<1>1. /\ RingInv /\ PlainTypes /\ RegistryInv /\ SweepInv /\ RoomInv /\ AliveInv /\ ActiveInv /\ CacheInv
      /\ s # Null
  BY TypeParts DEF OwnerInv, RingInv, Storages, Null
<1>2. registry[t] = s
  BY <1>1, RegistrySteps
<1>3. ~Freed(s)
  <2>1. ~Destroy
    BY <1>1 DEF Destroy
  <2> QED BY <1>1, <1>2, <2>1 DEF Freed, DrainAndFree, At, RegistryInv
<1>4. /\ storage[s].active \in storage[s].cache \cup {Null}
      /\ \A i \in 1 .. Len(Items(s)) : Items(s)[i] \in storage[s].cache
      /\ hand[t] \in storage[s].cache \cup {Null}
      /\ \A i \in 1 .. Len(discarded) :
           discarded[i].tid = t => discarded[i].pool \in storage[s].cache
  BY <1>1, <1>2 DEF CacheInv
<1>5. Same(s) \/ Taking(s) \/ Creating(s) \/ GivingUp(s)
  BY <1>1, <1>3, FieldSteps
<1>6. storage[s].cache \subseteq storage'[s].cache
  BY <1>5 DEF Same, Taking, Creating, GivingUp
<1>7. /\ Items(s) \in Seq(Pools \cup {Null}) /\ Len(Items(s)) = Length(s)
      /\ Length(s) \in Nat
  BY <1>1, ItemsType
<1>8. storage'[s].active \in storage'[s].cache \cup {Null}
  <2>1. CASE Taking(s)
    <3>1. Length(s) >= 1
      BY <1>1, <2>1 DEF Taking, PopRead, At, RoomInv
    <3>2. storage'[s].active = Items(s)[1]
      BY <1>1, <2>1, <3>1, HeadItem DEF Taking
    <3>3. 1 \in 1 .. Len(Items(s))
      BY <1>7, <3>1
    <3> QED BY <1>4, <1>6, <3>2, <3>3
  <2> QED BY <1>4, <1>5, <2>1 DEF Same, Creating, GivingUp
<1>9. ASSUME NEW i \in 1 .. Len(Items(s)')
      PROVE  Items(s)'[i] \in storage'[s].cache
  <2>1. CASE Still(s)
    BY <1>4, <1>6, <2>1 DEF Still
  <2>2. CASE Popped(s)
    <3>1. Items(s) # <<>> /\ Items(s)' = Tail(Items(s))
      BY <2>2 DEF Popped
    <3>2. /\ Len(Tail(Items(s))) = Len(Items(s)) - 1
          /\ \A j \in 1 .. Len(Items(s)) - 1 : Tail(Items(s))[j] = Items(s)[j + 1]
      BY <1>7, <3>1, HeadTailProperties
    <3>3. i \in 1 .. Len(Items(s)) - 1 /\ i + 1 \in 1 .. Len(Items(s))
      BY <1>7, <3>1, <3>2
    <3> QED BY <1>4, <1>6, <3>1, <3>2, <3>3
  <2>3. CASE Pushed(s)
    <3> DEFINE v == storage[s].buffer[Cell(storage[s].tail)]
    <3>1. PICK u \in Threads : PushPublish(u) /\ tp[u] = s
      BY <2>3 DEF Pushed
    <3>2. pc[u] = "publish" /\ discarded # <<>> /\ registry[Head(discarded).tid] = s
      BY <1>1, <3>1 DEF PushPublish, At, SweepInv, AliveInv
    <3>3. /\ Head(discarded).tid \in Threads /\ Head(discarded) = discarded[1]
          /\ 1 \in 1 .. Len(discarded)
      BY <1>1, <3>2, DiscardedType DEF RingInv
    <3>4. Head(discarded).tid = t
      BY <1>1, <1>2, <3>2, <3>3 DEF RegistryInv
    <3>5. v = Head(discarded).pool
      BY <1>1, <3>1, <3>2 DEF ActiveInv
    <3>6. v \in storage[s].cache
      BY <1>4, <3>3, <3>4, <3>5
    <3>7. v \in Pools \cup {Null}
      BY <1>1, StorageType, CellType, CommandPoolsAssumption DEF RingInv, Ends
    <3>8. Items(s)' = Append(Items(s), v)
      BY <2>3 DEF Pushed
    <3> HIDE DEF v
    <3>9. /\ Len(Append(Items(s), v)) = Len(Items(s)) + 1
          /\ Append(Items(s), v)[Len(Items(s)) + 1] = v
          /\ \A j \in 1 .. Len(Items(s)) : Append(Items(s), v)[j] = Items(s)[j]
      BY <1>7, <3>7, AppendProperties
    <3>10. i \in 1 .. Len(Items(s)) \/ i = Len(Items(s)) + 1
      BY <1>7, <3>8, <3>9
    <3> QED BY <1>4, <1>6, <3>6, <3>8, <3>9, <3>10
  <2> QED BY <1>1, <1>3, <2>1, <2>2, <2>3, RingSteps
<1>10. hand'[t] \in storage'[s].cache \cup {Null}
  <2>1. CASE hand'[t] \in {hand[t], Null}
    BY <1>4, <1>6, <2>1
  <2>2. CASE DiscardActivePool(t) /\ hand'[t] = storage[tp[t]].active
    <3>1. tp[t] = s
      BY <1>1, <1>2, <2>2 DEF DiscardActivePool, At, Own, RegistryInv
    <3> QED BY <1>4, <1>6, <2>2, <3>1
  <2> QED BY <1>1, <2>1, <2>2, HandSteps
<1>11. ASSUME NEW i \in 1 .. Len(discarded'), discarded'[i].tid = t
       PROVE  discarded'[i].pool \in storage'[s].cache
  <2>1. CASE \E j \in 1 .. Len(discarded) : discarded'[i] = discarded[j]
    BY <1>4, <1>6, <1>11, <2>1
  <2>2. ASSUME NEW u \in Threads, DiscardCommandPoolForReuse(u), discarded'[i] = [pool |-> hand[u], tid |-> u]
        PROVE  discarded'[i].pool \in storage'[s].cache
    <3>1. u = t /\ hand[t] # Null
      BY <1>1, <1>11, <2>2 DEF DiscardCommandPoolForReuse, At, SweepInv
    <3> QED BY <1>4, <1>6, <2>2, <3>1
  <2> QED BY <1>1, <2>1, <2>2, EntrySteps
<1> QED BY <1>8, <1>9, <1>10, <1>11
(* Threads get back their own pools only.                                  *)
LEMMA CacheStep == OwnerInv /\ ShutdownAlone /\ [Next]_vars => CacheInv'
<1> SUFFICES ASSUME OwnerInv, ShutdownAlone, [Next]_vars PROVE CacheInv'
  OBVIOUS
<1>1. /\ RingInv /\ PlainTypes /\ RegistryInv /\ SweepInv /\ AliveInv /\ CacheInv
  BY TypeParts DEF OwnerInv, RingInv
<1>2. (RingInv => TypeOK /\ RegistryInv /\ SweepInv)'
  BY DEF RingInv
<1>3. RingInv'
  BY <1>1, TypeStep, RegistryStep, SweepStep, RoomStep, PooledStep, CountStep DEF RingInv
<1>4. TypeOK' /\ RegistryInv' /\ SweepInv'
  BY <1>2, <1>3
<1>5. ASSUME NEW t \in Threads, NEW s \in Storages, registry'[t] = s, Made(s)
      PROVE  /\ storage'[s].active \in storage'[s].cache \cup {Null}
             /\ \A i \in 1 .. Len(Items(s)') : Items(s)'[i] \in storage'[s].cache
             /\ hand'[t] \in storage'[s].cache \cup {Null}
             /\ \A i \in 1 .. Len(discarded') :
                  discarded'[i].tid = t => discarded'[i].pool \in storage'[s].cache
  <2>1. PICK u \in Threads : EnsureThreadPools(u) /\ registry[u] = Null
    BY <1>5 DEF Made
  <2>2. /\ registry' = [registry EXCEPT ![u] = storages'] /\ storages' = s
        /\ hand' = hand /\ discarded' = discarded /\ pc[u] = "idle"
    BY <1>5, <2>1 DEF EnsureThreadPools, Made, At, sweepVars
  <2>3. registry'[u] = s
    BY <1>1, <2>2 DEF PlainTypes
  <2>4. u = t
    BY <1>4, <1>5, <2>3 DEF RegistryInv, Storages, Null
  <2>5. storage'[s].active = Null /\ Length(s)' = 0
    BY <1>5 DEF Made, NewThreadPools
  <2>6. Len(Items(s)') = 0
    <3>1. (RingInv => Len(Items(s)) = Length(s))'
      BY ItemsType, PTL
    <3> QED BY <1>3, <2>5, <3>1
  <2>7. hand'[t] = Null
    BY <1>1, <2>2, <2>4 DEF SweepInv
  <2>8. ~Leaving(t)
    BY <1>1, <2>2, <2>4 DEF Leaving, SweepInv, Sweeping
  <2>9. \A i \in 1 .. Len(discarded) : discarded[i].tid # t
    BY <1>1, <2>1, <2>4, <2>8 DEF CacheInv
  <2> QED BY <2>2, <2>5, <2>6, <2>7, <2>9
<1>6. ASSUME NEW t \in Threads, registry'[t] = Null, ~Leaving(t)', NEW i \in 1 .. Len(discarded')
      PROVE  discarded'[i].tid # t
  <2>1. discarded' # <<>>
    BY EmptySeq, <1>6
  <2>2. ~Leaving(t)
    BY <1>1, <1>6, <2>1, LeavingSteps
  <2>3. registry[t] = Null
    <3>1. ~Destroy
      BY <2>1 DEF Destroy, sweepVars
    <3>2. ASSUME ThreadShutdown(t)
          PROVE  FALSE
      <4>1. pc'[t] = "drain"
        BY <1>1, <3>2 DEF ThreadShutdown, Goto, PlainTypes
      <4> QED BY <1>6, <4>1 DEF Leaving
    <3>3. EnsureThreadPools(t) /\ registry[t] # Null => registry'[t] = registry[t]
      BY DEF EnsureThreadPools
    <3>4. Allocate(t) \/ Discard(t) \/ Sweep(t) \/ DrainAndFree(t) => registry'[t] = registry[t]
      BY DEF Allocate, ChoosePool, PopRead, PopPublish, CreateCommandPool, CommandBuffer, Discard,
         DiscardActivePool, DiscardCommandPoolForReuse, Sweep, BeginSweep, RecycleFind, Recycle, PushWrite,
         PushPublish, EndSweep, DrainAndFree
    <3>5. ASSUME NEW u \in Threads, u # t, Acts(u)
          PROVE  registry'[t] = registry[t]
      BY <1>1, <3>5, OthersStay DEF Acts
    <3>6. UNCHANGED vars => registry'[t] = registry[t]
      BY DEF vars
    <3> QED BY <1>6, <3>1, <3>2, <3>3, <3>4, <3>5, <3>6 DEF Next, Acts, Shutdown, Terminated
  <2>4. CASE \E j \in 1 .. Len(discarded) : discarded'[i] = discarded[j]
    BY <1>1, <2>2, <2>3, <2>4 DEF CacheInv
  <2>5. ASSUME NEW u \in Threads, DiscardCommandPoolForReuse(u), discarded'[i] = [pool |-> hand[u], tid |-> u]
        PROVE  discarded'[i].tid # t
    BY <1>1, <2>3, <2>5 DEF DiscardCommandPoolForReuse, At, AliveInv
  <2> QED BY <1>1, <2>4, <2>5, EntrySteps
<1>7. \A t \in Threads, s \in Storages : registry'[t] = s =>
        /\ storage'[s].active \in storage'[s].cache \cup {Null}
        /\ \A i \in 1 .. Len(Items(s)') : Items(s)'[i] \in storage'[s].cache
        /\ hand'[t] \in storage'[s].cache \cup {Null}
        /\ \A i \in 1 .. Len(discarded') :
             discarded'[i].tid = t => discarded'[i].pool \in storage'[s].cache
  BY <1>5, CacheKept
<1> QED BY <1>6, <1>7 DEF CacheInv

(* The second layer holds at first.                                        *)
LEMMA InitOwner == Init => OwnerInv
<1> SUFFICES ASSUME Init PROVE OwnerInv
  OBVIOUS
<1>1. RingInv
  BY InitRing
<1>2. /\ \A t \in Threads : pc[t] = "idle" /\ registry[t] = Null /\ tp[t] = Null /\ hand[t] = Null
      /\ discarded = <<>> /\ mutex = NoThread
      /\ \A s \in Storages : storage[s].alive = FALSE /\ s # Null
  BY DEF Init, NoThreadPools, NewThreadPools, Storages, Null
<1>3. AliveInv
  BY <1>2 DEF AliveInv, Held
<1>4. ActiveInv
  BY <1>2 DEF ActiveInv
<1>5. CacheInv
  BY <1>2 DEF CacheInv
<1> QED BY <1>1, <1>3, <1>4, <1>5 DEF OwnerInv

(* Threads that leave while no sweep runs, and sweeps that begin while no  *)
(* thread leaves, keep storages alive for those who use them, and pools    *)
(* with those who made them.                                               *)
THEOREM OwnerInvariant == ShutdownAlone => (Spec => []OwnerInv)
<1> SUFFICES ASSUME ShutdownAlone PROVE Spec => []OwnerInv
  OBVIOUS
<1>1. OwnerInv /\ [Next]_vars => OwnerInv'
  <2> SUFFICES ASSUME OwnerInv, [Next]_vars PROVE OwnerInv'
    OBVIOUS
  <2>1. RingInv'
    BY TypeStep, RegistryStep, SweepStep, RoomStep, PooledStep, CountStep DEF RingInv, OwnerInv
  <2> QED BY <2>1, AliveStep, ActiveStep, CacheStep DEF OwnerInv
<1> QED BY <1>1, InitOwner, PTL DEF Spec

(* m_cmdCache.at(tp->active) does not throw: a pool that comes back to a   *)
(* thread, through the list and its ring, is one that it made.             *)
THEOREM CachesKnowActive == ShutdownAlone => (Spec => []CacheKnowsActive)
<1> SUFFICES ASSUME ShutdownAlone PROVE Spec => []CacheKnowsActive
  OBVIOUS
<1>1. OwnerInv => CacheKnowsActive
  <2> SUFFICES ASSUME OwnerInv, NEW t \in Threads, pc[t] = "buffer"
               PROVE  storage[tp[t]].active \in storage[tp[t]].cache
    BY DEF CacheKnowsActive, At
  <2>1. RingInv /\ PlainTypes /\ RegistryInv /\ ActiveInv /\ CacheInv
    BY TypeParts DEF OwnerInv, RingInv
  <2>2. tp[t] = registry[t] /\ tp[t] \in Storages
    BY <2>1 DEF RegistryInv, Own, PlainTypes
  <2> QED BY <2>1, <2>2 DEF ActiveInv, CacheInv
<1> QED BY <1>1, OwnerInvariant, PTL

(* No call works on a storage that threadShutdown has freed.               *)
THEOREM StoragesAlive == ShutdownAlone => (Spec => []StorageAlive)
<1> SUFFICES ASSUME ShutdownAlone PROVE Spec => []StorageAlive
  OBVIOUS
<1>1. OwnerInv => StorageAlive
  <2> SUFFICES ASSUME OwnerInv, NEW t \in Threads, tp[t] # Null, pc[t] # "sweep"
               PROVE  storage[tp[t]].alive
    BY DEF StorageAlive
  <2>1. RingInv /\ PlainTypes /\ RegistryInv /\ SweepInv /\ AliveInv
    BY TypeParts DEF OwnerInv, RingInv
  <2>2. tp[t] \in Storages
    BY <2>1 DEF PlainTypes
  <2>3. CASE pc[t] \in Own
    <3>1. registry[t] = tp[t]
      BY <2>1, <2>3 DEF RegistryInv
    <3> QED BY <2>1, <2>2, <3>1 DEF AliveInv, Held
  <2>4. CASE pc[t] \in {"recycle", "write", "publish"}
    <3>1. tp[t] = registry[Head(discarded).tid] /\ discarded # <<>>
      BY <2>1, <2>4 DEF AliveInv, SweepInv
    <3>2. Head(discarded).tid \in Threads
      BY <2>1, <3>1, DiscardedType DEF RingInv
    <3> QED BY <2>1, <2>2, <3>1, <3>2 DEF AliveInv, Held
  <2>5. CASE pc[t] = "drain"
    BY <2>1, <2>2, <2>5 DEF AliveInv, Held
  <2>6. pc[t] \notin {"idle", "append", "force", "done"}
    BY <2>1 DEF RegistryInv
  <2> QED BY <2>1, <2>3, <2>4, <2>5, <2>6 DEF PlainTypes, PCs, Own
<1> QED BY <1>1, OwnerInvariant, PTL

-----------------------------------------------------------------------------
(* The third layer: where each pool is *)

\* The owner of s has read the first pool of its ring, which is its active one by now.
Midway(s) == \E t \in Threads : pc[t] = "advance" /\ tp[t] = s

Using(p, s) == storage[s].alive /\ storage[s].active = p
RingHas(p, s) == \E i \in 1 .. Length(s) : Items(s)[i] = p /\ (Midway(s) => i # 1)
Waiting(p, s) == storage[s].alive /\ RingHas(p, s)
Listed(p) == \E i \in 1 .. Len(discarded) : discarded[i].pool = p

\* Where the pool p is, without its position there.
Kept(p, k, w) ==
  \/ k = "active" /\ w \in Storages /\ Using(p, w)
  \/ k = "ring" /\ w \in Storages /\ Waiting(p, w)
  \/ k = "hand" /\ w \in Threads /\ hand[w] = p
  \/ k = "discarded" /\ w = NoThread /\ Listed(p)
  \/ k = "destroyed" /\ w = NoThread /\ p \in destroyed

(* Every pool that was created is in one place, and no other pool is       *)
(* anywhere.                                                               *)
SpotInv ==
  /\ \A p \in 1 .. pools : \E k, w : Kept(p, k, w)
  /\ \A p \in Pools : \A k, w : Kept(p, k, w) => p <= pools
  /\ \A p \in Pools : \A k, l, v, w : Kept(p, k, v) /\ Kept(p, l, w) => k = l /\ v = w

(* It is there once.                                                       *)
OnceInv ==
  /\ \A s \in Storages : storage[s].alive =>
       \A i, j \in 1 .. Length(s) : Items(s)[i] = Items(s)[j] => i = j
  /\ \A i, j \in 1 .. Len(discarded) : discarded[i].pool = discarded[j].pool => i = j

PlaceInv == OwnerInv /\ SpotInv /\ OnceInv

(* A step is one thread's.                                                 *)
LEMMA OneActs ==
  ASSUME PlainTypes, NEW t \in Threads, NEW u \in Threads, Acts(t), Acts(u)
  PROVE  t = u
<1> SUFFICES ASSUME t # u PROVE FALSE
  OBVIOUS
<1>1. pc'[t] = pc[t]
  BY OthersStay DEF Acts
<1>2. pc'[t] # pc[t]
  BY DEF Acts, EnsureThreadPools, Allocate, ChoosePool, PopRead, PopPublish, CreateCommandPool,
     CommandBuffer, Discard, DiscardActivePool, DiscardCommandPoolForReuse, Sweep, BeginSweep, RecycleFind,
     Recycle, PushWrite, PushPublish, EndSweep, Shutdown, ThreadShutdown, DrainAndFree, Goto, At, PlainTypes
<1> QED BY <1>1, <1>2

(* Who is in the middle of a pop, after a step of t.                       *)
LEMMA MidwaySteps ==
  ASSUME RingInv, NEW t \in Threads, Acts(t), NEW s \in Storages
  PROVE  Midway(s)' <=> IF tp[t] = s /\ pc[t] \in {"read", "advance"} THEN pc[t] = "read" ELSE Midway(s)
<1>1. PlainTypes /\ RegistryInv /\ s # Null
  BY TypeParts DEF RingInv, Storages, Null
<1>2. \A u \in Threads : u # t => pc'[u] = pc[u] /\ tp'[u] = tp[u]
  BY <1>1, OthersStay DEF Acts
<1>3. CASE pc[t] = "read"
  <2>1. PopRead(t)
    BY <1>3 DEF Acts, EnsureThreadPools, Allocate, ChoosePool, PopPublish, CreateCommandPool,
       CommandBuffer, Discard, DiscardActivePool, DiscardCommandPoolForReuse, Sweep, BeginSweep, RecycleFind,
       Recycle, PushWrite, PushPublish, EndSweep, Shutdown, ThreadShutdown, DrainAndFree, At
  <2>2. pc'[t] = "advance" /\ tp'[t] = tp[t]
    BY <1>1, <2>1 DEF PopRead, Goto, PlainTypes
  <2> QED BY <1>2, <1>3, <2>2 DEF Midway
<1>4. CASE pc[t] = "advance"
  <2>1. PopPublish(t)
    BY <1>4 DEF Acts, EnsureThreadPools, Allocate, ChoosePool, PopRead, CreateCommandPool,
       CommandBuffer, Discard, DiscardActivePool, DiscardCommandPoolForReuse, Sweep, BeginSweep, RecycleFind,
       Recycle, PushWrite, PushPublish, EndSweep, Shutdown, ThreadShutdown, DrainAndFree, At
  <2>2. pc'[t] = "buffer"
    BY <1>1, <2>1 DEF PopPublish, Goto, PlainTypes
  <2>3. \A u \in Threads : u # t /\ pc[u] = "advance" => tp[u] # tp[t]
    BY <1>1, <1>4 DEF RegistryInv, Own
  <2> QED BY <1>2, <1>4, <2>2, <2>3 DEF Midway
<1>5. CASE pc[t] \notin {"read", "advance"}
  <2>1. pc'[t] # "advance"
    BY <1>1, <1>5 DEF Acts, EnsureThreadPools, Allocate, ChoosePool, PopRead, PopPublish, CreateCommandPool,
       CommandBuffer, Discard, DiscardActivePool, DiscardCommandPoolForReuse, Sweep, BeginSweep, RecycleFind,
       Recycle, PushWrite, PushPublish, EndSweep, Shutdown, ThreadShutdown, DrainAndFree, Goto, At, PlainTypes
  <2> QED BY <1>2, <1>5, <2>1 DEF Midway
<1> QED BY <1>3, <1>4, <1>5

(* A storage that a step leaves alone keeps its pools.                     *)
LEMMA SpotFrame ==
  ASSUME RingInv, NEW t \in Threads, Acts(t), NEW s \in Storages, storage'[s] = storage[s],
         tp[t] = s => pc[t] \notin {"read", "advance"}, NEW p
  PROVE  (Using(p, s)' <=> Using(p, s)) /\ (Waiting(p, s)' <=> Waiting(p, s))
<1>1. Midway(s)' <=> Midway(s)
  BY MidwaySteps
<1>2. Still(s)
  BY RingFrame
<1>3. RingHas(p, s)' <=> RingHas(p, s)
  BY <1>1, <1>2 DEF Still, RingHas
<1> QED BY <1>3 DEF Using, Waiting

(* So does one whose ring is neither popped nor pushed.                    *)
LEMMA StillHas ==
  ASSUME NEW s \in Storages, Still(s), Midway(s)' <=> Midway(s), NEW p
  PROVE  RingHas(p, s)' <=> RingHas(p, s)
BY DEF Still, RingHas

-----------------------------------------------------------------------------
(* What a step may do to the places of the pools *)

Stays == \A p \in Pools : \A k, w : Kept(p, k, w)' <=> Kept(p, k, w)
Moves(q, k0, w0, k1, w1) ==
  \A p \in Pools : \A k, w :
    Kept(p, k, w)' <=> \/ Kept(p, k, w) /\ ~(p = q /\ k = k0 /\ w = w0)
                       \/ p = q /\ k = k1 /\ w = w1
Appears(q, k1, w1) ==
  \A p \in Pools : \A k, w : Kept(p, k, w)' <=> Kept(p, k, w) \/ (p = q /\ k = k1 /\ w = w1)
Retires(S) ==
  \A p \in Pools : \A k, w :
    Kept(p, k, w)' <=> \/ Kept(p, k, w) /\ ~(k \in {"active", "ring"} /\ w \in S)
                       \/ /\ k = "destroyed" /\ w = NoThread
                          /\ \E s \in S : Kept(p, "active", s) \/ Kept(p, "ring", s)

(* The pools created so far are pools.                                     *)
LEMMA CreatedArePools ==
  ASSUME TypeOK
  PROVE  pools \in Nat /\ 1 .. pools \subseteq Pools
BY CommandPoolsAssumption DEF TypeOK, Pools

(* Nothing moves.                                                          *)
LEMMA StaysKeeps ==
  ASSUME TypeOK, SpotInv, Stays, pools' = pools
  PROVE  SpotInv'
<1> USE CreatedArePools DEF Stays
<1>1. \A p \in 1 .. pools : \E k, w : Kept(p, k, w)'
  BY DEF SpotInv
<1>2. \A p \in Pools : \A k, w : Kept(p, k, w)' => p <= pools
  BY DEF SpotInv
<1>3. \A p \in Pools : \A k, l, v, w : Kept(p, k, v)' /\ Kept(p, l, w)' => k = l /\ v = w
  BY DEF SpotInv
<1> QED BY <1>1, <1>2, <1>3 DEF SpotInv

(* One pool goes from where it is to another place.                        *)
LEMMA MovesKeeps ==
  ASSUME TypeOK, SpotInv, NEW q \in Pools, NEW k0, NEW w0, NEW k1, NEW w1,
         Kept(q, k0, w0), Moves(q, k0, w0, k1, w1), pools' = pools
  PROVE  SpotInv'
<1>0. \A p \in 1 .. pools : p \in Pools
  BY CreatedArePools
<1> USE DEF Moves
<1>1. \A p \in 1 .. pools : \E k, w : Kept(p, k, w)'
  <2> SUFFICES ASSUME NEW p \in 1 .. pools PROVE \E k, w : Kept(p, k, w)'
    OBVIOUS
  <2>1. PICK k, w : Kept(p, k, w)
    BY DEF SpotInv
  <2>2. p # q => Kept(p, k, w)'
    BY <1>0, <2>1
  <2>3. p = q => Kept(p, k1, w1)'
    BY <1>0
  <2> QED BY <2>2, <2>3
<1>2. \A p \in Pools : \A k, w : Kept(p, k, w)' => p <= pools
  BY DEF SpotInv
<1>3. ASSUME NEW p \in Pools, NEW k, NEW l, NEW v, NEW w, Kept(p, k, v)', Kept(p, l, w)'
      PROVE  k = l /\ v = w
  <2>1. CASE p # q
    <3>1. Kept(p, k, v) /\ Kept(p, l, w)
      BY <1>3, <2>1
    <3> QED BY <3>1 DEF SpotInv
  <2>2. CASE p = q
    <3>1. ASSUME NEW m, NEW x, Kept(q, m, x)'
          PROVE  m = k1 /\ x = w1
      <4>1. Kept(q, m, x) => m = k0 /\ x = w0
        BY DEF SpotInv
      <4> QED BY <3>1, <4>1
    <3> QED BY <1>3, <2>2, <3>1
  <2> QED BY <2>1, <2>2
<1> QED BY <1>1, <1>2, <1>3 DEF SpotInv

(* A pool is created.                                                      *)
LEMMA AppearsKeeps ==
  ASSUME TypeOK, SpotInv, NEW k1, NEW w1, Appears(pools + 1, k1, w1), pools' = pools + 1, pools' \in Pools
  PROVE  SpotInv'
<1>0. pools \in Nat /\ \A p \in 1 .. pools : p \in Pools
  BY CreatedArePools
<1>1. \A k, w : ~Kept(pools + 1, k, w)
  BY <1>0 DEF SpotInv
<1> USE DEF Appears
<1>2. \A p \in 1 .. pools + 1 : \E k, w : Kept(p, k, w)'
  <2> SUFFICES ASSUME NEW p \in 1 .. pools + 1 PROVE \E k, w : Kept(p, k, w)'
    OBVIOUS
  <2>1. CASE p = pools + 1
    <3>1. Kept(p, k1, w1)'
      BY <2>1
    <3> QED BY <3>1
  <2>2. CASE p # pools + 1
    <3>1. p \in 1 .. pools
      BY <1>0, <2>2
    <3>2. PICK k, w : Kept(p, k, w)
      BY <3>1 DEF SpotInv
    <3> QED BY <1>0, <3>1, <3>2
  <2> QED BY <2>1, <2>2
<1>3. \A p \in Pools : \A k, w : Kept(p, k, w)' => p <= pools + 1
  <2> SUFFICES ASSUME NEW p \in Pools, NEW k, NEW w, Kept(p, k, w), p # pools + 1 PROVE p <= pools + 1
    BY <1>0
  <2>1. p <= pools
    BY DEF SpotInv
  <2> QED BY <1>0, <2>1 DEF Pools
<1>4. \A p \in Pools : \A k, l, v, w : Kept(p, k, v)' /\ Kept(p, l, w)' => k = l /\ v = w
  BY <1>1 DEF SpotInv
<1> QED BY <1>2, <1>3, <1>4 DEF SpotInv

(* The pools of storages that are freed are destroyed.                     *)
LEMMA RetiresKeeps ==
  ASSUME TypeOK, SpotInv, NEW S, Retires(S), pools' = pools
  PROVE  SpotInv'
<1>0. \A p \in 1 .. pools : p \in Pools
  BY CreatedArePools
<1> USE DEF Retires
<1>1. ASSUME NEW p \in 1 .. pools
      PROVE  \E k, w : Kept(p, k, w)'
  <2>1. PICK k, w : Kept(p, k, w)
    BY DEF SpotInv
  <2>2. CASE k \in {"active", "ring"} /\ w \in S
    <3>1. Kept(p, "destroyed", NoThread)'
      BY <1>0, <2>1, <2>2
    <3> QED BY <3>1
  <2>3. CASE ~(k \in {"active", "ring"} /\ w \in S)
    BY <1>0, <2>1, <2>3
  <2> QED BY <2>2, <2>3
<1>2. \A p \in Pools : \A k, w : Kept(p, k, w)' => p <= pools
  BY DEF SpotInv
<1>3. ASSUME NEW p \in Pools, NEW k, NEW l, NEW v, NEW w, Kept(p, k, v)', Kept(p, l, w)'
      PROVE  k = l /\ v = w
  <2> DEFINE Goes == \E s \in S : Kept(p, "active", s) \/ Kept(p, "ring", s)
  <2>1. CASE Goes
    <3>1. PICK s \in S : Kept(p, "active", s) \/ Kept(p, "ring", s)
      BY <2>1
    <3>2. ASSUME NEW m, NEW x, Kept(p, m, x)'
          PROVE  m = "destroyed" /\ x = NoThread
      <4>1. Kept(p, m, x) => m \in {"active", "ring"} /\ x = s
        BY <3>1 DEF SpotInv
      <4> QED BY <3>1, <3>2, <4>1
    <3> QED BY <1>3, <3>2
  <2>2. CASE ~Goes
    <3>1. Kept(p, k, v) /\ Kept(p, l, w)
      BY <1>3, <2>2
    <3> QED BY <3>1 DEF SpotInv
  <2> QED BY <2>1, <2>2
<1> QED BY <1>1, <1>2, <1>3 DEF SpotInv

-----------------------------------------------------------------------------
(* Which of these each step does *)

(* A step that changes neither storages nor hands nor lists.               *)
LEMMA QuietStays ==
  ASSUME RingInv, NEW t \in Threads, Acts(t), pc[t] \notin {"read", "advance"},
         UNCHANGED <<storage, hand, discarded, destroyed>>
  PROVE  Stays
<1> SUFFICES ASSUME NEW p \in Pools, NEW k, NEW w PROVE Kept(p, k, w)' <=> Kept(p, k, w)
  BY DEF Stays
<1>1. \A s \in Storages : (Using(p, s)' <=> Using(p, s)) /\ (Waiting(p, s)' <=> Waiting(p, s))
  BY SpotFrame
<1>2. Listed(p)' <=> Listed(p)
  BY DEF Listed
<1> QED BY <1>1, <1>2 DEF Kept

(* A new storage is empty.                                                 *)
LEMMA EnsureStays ==
  ASSUME OwnerInv, [Next]_vars, NEW t \in Threads, EnsureThreadPools(t)
  PROVE  Stays /\ pools' = pools
<1>1. RingInv /\ PlainTypes /\ RegistryInv /\ AliveInv /\ storage \in [Storages -> ThreadPoolsType]
  BY TypeParts DEF OwnerInv, RingInv
<1>2. /\ pc[t] = "idle" /\ UNCHANGED <<hand, discarded, destroyed, pools>> /\ Acts(t)
  BY DEF EnsureThreadPools, At, sweepVars, Acts
<1>3. CASE registry[t] # Null
  <2>1. storage' = storage
    BY <1>3 DEF EnsureThreadPools
  <2> QED BY <1>1, <1>2, <2>1, QuietStays
<1>4. CASE registry[t] = Null
  <2> SUFFICES ASSUME NEW p \in Pools, NEW k, NEW w PROVE Kept(p, k, w)' <=> Kept(p, k, w)
    BY <1>2 DEF Stays
  <2>0. storages + 1 \in Storages
    BY <1>1, <1>4, CommandPoolsAssumption DEF EnsureThreadPools, PlainTypes, Storages
  <2> PICK new \in Storages : new = storages + 1
    BY <2>0
  <2>1. storage' = [storage EXCEPT ![new] = NewThreadPools]
    BY <1>4 DEF EnsureThreadPools
  <2>2. p # Null
    BY DEF Pools, Null
  <2>3. storage'[new] = NewThreadPools
    BY <1>1, <2>1
  <2>4. storage'[new].active = Null /\ Length(new)' = 0
    <3>1. Length(new)' = Dist(0, 0)
      BY <2>3 DEF Length, NewThreadPools
    <3> QED BY <2>3, <3>1, FreshType DEF NewThreadPools
  <2>5. ~Using(p, new)' /\ ~Waiting(p, new)'
    BY <2>2, <2>4 DEF Using, Waiting, RingHas
  <2>6. ~storage[new].alive
    <3>1. ~Held(new)
      BY <1>1, CommandPoolsAssumption DEF Held, RegistryInv, PlainTypes
    <3> QED BY <1>1, <2>1, <3>1 DEF AliveInv
  <2>7. \A s \in Storages : s # new => storage'[s] = storage[s]
    BY <1>1, <2>1
  <2>8. \A s \in Storages : (Using(p, s)' <=> Using(p, s)) /\ (Waiting(p, s)' <=> Waiting(p, s))
    BY <1>1, <1>2, <2>5, <2>6, <2>7, SpotFrame DEF Using, Waiting
  <2>9. Listed(p)' <=> Listed(p)
    BY <1>2 DEF Listed
  <2> QED BY <1>2, <2>8, <2>9 DEF Kept
<1> QED BY <1>3, <1>4

(* The end of a pop: what was the first pool is active already.            *)
LEMMA PopStays ==
  ASSUME OwnerInv, [Next]_vars, NEW t \in Threads, PopPublish(t), NEW s \in Storages, s = tp[t]
  PROVE  Stays /\ pools' = pools
<1>1. RingInv /\ PlainTypes /\ RegistryInv /\ RoomInv /\ storage \in [Storages -> ThreadPoolsType]
  BY TypeParts DEF OwnerInv, RingInv
<1>2. pc[t] = "advance" /\ UNCHANGED <<hand, discarded, destroyed, pools>> /\ Acts(t)
  BY DEF PopPublish, At, sweepVars, countVars, Acts, Allocate
<1>4. storage' = [storage EXCEPT ![s].head = Step(storage[s].head)]
  BY DEF PopPublish, Step
<1>5. /\ storage'[s].active = storage[s].active /\ storage'[s].alive = storage[s].alive
      /\ \A x \in Storages : x # s => storage'[x] = storage[x]
  BY <1>1, <1>4 DEF ThreadPoolsType
<1>6. Midway(s) /\ ~Midway(s)'
  BY <1>1, <1>2, MidwaySteps DEF Midway
<1>7. Popped(s)
  BY <1>1, PopTakes
<1>8. ASSUME NEW p
      PROVE  RingHas(p, s)' <=> RingHas(p, s)
  <2>1. /\ Items(s) \in Seq(Pools \cup {Null}) /\ Len(Items(s)) = Length(s) /\ Length(s) \in Nat
    BY <1>1, ItemsType
  <2>2. Items(s) # <<>> /\ Items(s)' = Tail(Items(s)) /\ Length(s)' = Length(s) - 1
    BY <1>7 DEF Popped
  <2>3. \A i \in 1 .. Length(s) - 1 : Tail(Items(s))[i] = Items(s)[i + 1]
    BY <2>1, <2>2, HeadTailProperties
  <2>4. ASSUME NEW i \in 1 .. Length(s)', Items(s)'[i] = p
        PROVE  RingHas(p, s)
    <3>1. i + 1 \in 1 .. Length(s) /\ Items(s)[i + 1] = p /\ i + 1 # 1
      BY <2>1, <2>2, <2>3, <2>4
    <3> QED BY <3>1 DEF RingHas
  <2>5. ASSUME NEW i \in 1 .. Length(s), Items(s)[i] = p, i # 1
        PROVE  RingHas(p, s)'
    <3>1. i - 1 \in 1 .. Length(s) - 1 /\ (i - 1) + 1 = i
      BY <2>1, <2>5
    <3>2. i - 1 \in 1 .. Length(s)' /\ Items(s)'[i - 1] = p
      BY <2>2, <2>3, <2>5, <3>1
    <3> QED BY <1>6, <3>2 DEF RingHas
  <2> QED BY <1>6, <2>4, <2>5 DEF RingHas
<1> SUFFICES ASSUME NEW p \in Pools, NEW k, NEW w PROVE Kept(p, k, w)' <=> Kept(p, k, w)
  BY <1>2 DEF Stays
<1>9. \A x \in Storages : x # s => (Using(p, x)' <=> Using(p, x)) /\ (Waiting(p, x)' <=> Waiting(p, x))
  BY <1>1, <1>2, <1>5, SpotFrame
<1>10. (Using(p, s)' <=> Using(p, s)) /\ (Waiting(p, s)' <=> Waiting(p, s))
  BY <1>5, <1>8 DEF Using, Waiting
<1>11. Listed(p)' <=> Listed(p)
  BY <1>2 DEF Listed
<1> QED BY <1>2, <1>9, <1>10, <1>11 DEF Kept

(* A push writes a cell that is not in the ring yet.                       *)
LEMMA WriteStays ==
  ASSUME OwnerInv, [Next]_vars, NEW t \in Threads, PushWrite(t), NEW s \in Storages, s = tp[t]
  PROVE  Stays /\ pools' = pools
<1>1. RingInv /\ PlainTypes /\ SweepInv /\ storage \in [Storages -> ThreadPoolsType]
  BY TypeParts DEF OwnerInv, RingInv
<1>2. pc[t] = "write" /\ UNCHANGED <<hand, discarded, destroyed, pools>> /\ Acts(t)
  BY DEF PushWrite, At, sweepVars, countVars, Acts, Sweep
<1>4. /\ storage'[s].active = storage[s].active /\ storage'[s].alive = storage[s].alive
      /\ \A x \in Storages : x # s => storage'[x] = storage[x]
  BY <1>1 DEF PushWrite, ThreadPoolsType
<1>5. Still(s)
  <2>1. ~Popped(s) /\ ~Pushed(s)
    BY <1>1, <1>2, OneActs DEF Popped, Pushed, PopPublish, PushPublish, At, Acts, Allocate, Sweep
  <2>2. ~Made(s) /\ ~Freed(s)
    BY <1>1, <1>2, OneActs DEF Made, Freed, EnsureThreadPools, DrainAndFree, Destroy, At, Acts, Shutdown
  <2> QED BY <1>1, <2>1, <2>2, RingSteps
<1>6. Midway(s)' <=> Midway(s)
  BY <1>1, <1>2, MidwaySteps
<1> SUFFICES ASSUME NEW p \in Pools, NEW k, NEW w PROVE Kept(p, k, w)' <=> Kept(p, k, w)
  BY <1>2 DEF Stays
<1>7. \A x \in Storages : x # s => (Using(p, x)' <=> Using(p, x)) /\ (Waiting(p, x)' <=> Waiting(p, x))
  BY <1>1, <1>2, <1>4, SpotFrame
<1>8. (Using(p, s)' <=> Using(p, s)) /\ (Waiting(p, s)' <=> Waiting(p, s))
  BY <1>4, <1>5, <1>6, StillHas DEF Using, Waiting
<1>9. Listed(p)' <=> Listed(p)
  BY <1>2 DEF Listed
<1> QED BY <1>2, <1>7, <1>8, <1>9 DEF Kept

(* tryPop hands the first pool to its owner.                               *)
LEMMA ReadMoves ==
  ASSUME PlaceInv, [Next]_vars, NEW t \in Threads, PopRead(t), NEW s \in Storages, s = tp[t]
  PROVE  /\ Items(s)[1] \in Pools /\ Kept(Items(s)[1], "ring", s) /\ pools' = pools
         /\ Moves(Items(s)[1], "ring", s, "active", s)
<1>1. /\ RingInv /\ PlainTypes /\ RegistryInv /\ RoomInv /\ AliveInv /\ ActiveInv
      /\ storage \in [Storages -> ThreadPoolsType]
  BY TypeParts DEF PlaceInv, OwnerInv, RingInv
<1>2. pc[t] = "read" /\ UNCHANGED <<hand, discarded, destroyed, pools>> /\ Acts(t)
  BY DEF PopRead, At, sweepVars, countVars, Acts, Allocate
<1>3. registry[t] = s /\ Held(s) /\ storage[s].alive /\ Length(s) >= 1 /\ storage[s].active = Null
  BY <1>1, <1>2 DEF RegistryInv, Own, Held, AliveInv, RoomInv, ActiveInv
<1>4. /\ Items(s) \in Seq(Pools \cup {Null}) /\ Len(Items(s)) = Length(s) /\ Length(s) \in Nat
  BY <1>1, ItemsType
<1>5. 1 \in 1 .. Length(s)
  BY <1>3, <1>4
<1>6. PICK q : q = Items(s)[1]
  OBVIOUS
<1>7. q \in Pools /\ storage[s].buffer[Cell(storage[s].head)] = q
  BY <1>1, <1>3, <1>4, <1>5, <1>6, HeadItem
<1>8. storage' = [storage EXCEPT ![s].active = storage[s].buffer[Cell(storage[s].head)]]
  BY DEF PopRead, Cell
<1>9. /\ storage'[s].active = q /\ storage'[s].alive = storage[s].alive
      /\ storage'[s].head = storage[s].head /\ storage'[s].tail = storage[s].tail
      /\ storage'[s].buffer = storage[s].buffer
      /\ \A x \in Storages : x # s => storage'[x] = storage[x]
  BY <1>1, <1>7, <1>8 DEF ThreadPoolsType
<1>10. Length(s)' = Length(s) /\ Items(s)' = Items(s)
  BY <1>9, RingFrame DEF Still
<1>11. Midway(s)'
  BY <1>1, <1>2, MidwaySteps
<1>12. ~Midway(s)
  BY <1>1, <1>2, <1>3 DEF Midway, RegistryInv, Own
<1>13. \A i \in 1 .. Length(s) : Items(s)[i] = q => i = 1
  BY <1>3, <1>5, <1>6 DEF PlaceInv, OnceInv
<1>14. \A p : RingHas(p, s) <=> \E i \in 1 .. Length(s) : Items(s)[i] = p
  BY <1>12 DEF RingHas
<1>15. \A p : RingHas(p, s)' <=> \E i \in 1 .. Length(s) : Items(s)[i] = p /\ i # 1
  BY <1>10, <1>11 DEF RingHas
<1>16. \A p : RingHas(p, s)' <=> RingHas(p, s) /\ p # q
  BY <1>6, <1>13, <1>14, <1>15
<1>17. RingHas(q, s)
  BY <1>5, <1>6, <1>14
<1>18. \A p \in Pools : (Using(p, s)' <=> p = q) /\ ~Using(p, s)
  BY <1>3, <1>9 DEF Using, Pools, Null
<1>19. \A p : (Waiting(p, s)' <=> Waiting(p, s) /\ p # q)
  BY <1>9, <1>16 DEF Waiting
<1>20. Kept(q, "ring", s)
  BY <1>3, <1>17 DEF Kept, Waiting
<1>21. ASSUME NEW p \in Pools, NEW k, NEW w
       PROVE  Kept(p, k, w)' <=> \/ Kept(p, k, w) /\ ~(p = q /\ k = "ring" /\ w = s)
                                 \/ p = q /\ k = "active" /\ w = s
  <2>1. \A x \in Storages : x # s => (Using(p, x)' <=> Using(p, x)) /\ (Waiting(p, x)' <=> Waiting(p, x))
    BY <1>1, <1>2, <1>9, SpotFrame
  <2>2. Listed(p)' <=> Listed(p)
    BY <1>2 DEF Listed
  <2> QED BY <1>2, <1>18, <1>19, <2>1, <2>2 DEF Kept
<1>22. Moves(q, "ring", s, "active", s)
  BY <1>21 DEF Moves
<1> QED BY <1>2, <1>6, <1>7, <1>20, <1>22

(* A new pool is active at once.                                           *)
LEMMA CreateAppears ==
  ASSUME PlaceInv, [Next]_vars, NEW t \in Threads, CreateCommandPool(t), NEW s \in Storages, s = tp[t]
  PROVE  pools' = pools + 1 /\ Appears(pools + 1, "active", s)
<1>1. /\ RingInv /\ PlainTypes /\ RegistryInv /\ AliveInv /\ ActiveInv
      /\ storage \in [Storages -> ThreadPoolsType]
  BY TypeParts DEF PlaceInv, OwnerInv, RingInv
<1>2. pc[t] = "create" /\ UNCHANGED <<hand, discarded, destroyed>> /\ Acts(t) /\ pools' = pools + 1
  BY DEF CreateCommandPool, At, sweepVars, Acts, Allocate
<1>3. registry[t] = s /\ Held(s) /\ storage[s].alive /\ storage[s].active = Null
  BY <1>1, <1>2 DEF RegistryInv, Own, Held, AliveInv, ActiveInv
<1>4. PICK q : q = pools + 1
  OBVIOUS
<1>5. storage' = [storage EXCEPT ![s].active = q, ![s].cache = @ \cup {q}]
  BY <1>2, <1>4 DEF CreateCommandPool
<1>6. /\ storage'[s].active = q /\ storage'[s].alive = storage[s].alive
      /\ storage'[s].head = storage[s].head /\ storage'[s].tail = storage[s].tail
      /\ storage'[s].buffer = storage[s].buffer
      /\ \A x \in Storages : x # s => storage'[x] = storage[x]
  BY <1>1, <1>5 DEF ThreadPoolsType
<1>7. Still(s)
  BY <1>6, RingFrame
<1>8. Midway(s)' <=> Midway(s)
  BY <1>1, <1>2, MidwaySteps
<1>9. \A p : Waiting(p, s)' <=> Waiting(p, s)
  BY <1>6, <1>7, <1>8, StillHas DEF Waiting
<1>10. \A p \in Pools : (Using(p, s)' <=> p = q) /\ ~Using(p, s)
  BY <1>3, <1>6 DEF Using, Pools, Null
<1>11. ASSUME NEW p \in Pools, NEW k, NEW w
       PROVE  Kept(p, k, w)' <=> Kept(p, k, w) \/ (p = q /\ k = "active" /\ w = s)
  <2>1. \A x \in Storages : x # s => (Using(p, x)' <=> Using(p, x)) /\ (Waiting(p, x)' <=> Waiting(p, x))
    BY <1>1, <1>2, <1>6, SpotFrame
  <2>2. Listed(p)' <=> Listed(p)
    BY <1>2 DEF Listed
  <2> QED BY <1>2, <1>9, <1>10, <2>1, <2>2 DEF Kept
<1>12. Appears(q, "active", s)
  BY <1>11 DEF Appears
<1> QED BY <1>2, <1>4, <1>12

(* discardActivePool takes the active pool in its hand, if there is one.   *)
LEMMA DiscardMoves ==
  ASSUME PlaceInv, [Next]_vars, NEW t \in Threads, DiscardActivePool(t), NEW s \in Storages, s = tp[t]
  PROVE  /\ pools' = pools
         /\ \/ Stays
            \/ /\ storage[s].active \in Pools /\ Kept(storage[s].active, "active", s)
               /\ Moves(storage[s].active, "active", s, "hand", t)
<1>1. /\ RingInv /\ PlainTypes /\ RegistryInv /\ SweepInv /\ AliveInv
      /\ storage \in [Storages -> ThreadPoolsType]
  BY TypeParts DEF PlaceInv, OwnerInv, RingInv
<1>2. pc[t] = "discard" /\ UNCHANGED <<discarded, destroyed, pools>> /\ Acts(t)
  BY DEF DiscardActivePool, At, sweepVars, countVars, Acts, Discard
<1>3. registry[t] = s /\ Held(s) /\ storage[s].alive /\ hand[t] = Null
  BY <1>1, <1>2 DEF RegistryInv, Own, Held, AliveInv, SweepInv
<1>4. PICK q : q = storage[s].active
  OBVIOUS
<1>5. hand' = [hand EXCEPT ![t] = q] /\ storage' = [storage EXCEPT ![s].active = Null]
  BY <1>4 DEF DiscardActivePool
<1>6. /\ storage'[s].active = Null /\ storage'[s].alive = storage[s].alive
      /\ storage'[s].head = storage[s].head /\ storage'[s].tail = storage[s].tail
      /\ storage'[s].buffer = storage[s].buffer
      /\ \A x \in Storages : x # s => storage'[x] = storage[x]
  BY <1>1, <1>5 DEF ThreadPoolsType
<1>7. q \in Pools \cup {Null}
  BY <1>1, <1>4, StorageType DEF RingInv
<1>8. Still(s)
  BY <1>6, RingFrame
<1>9. Midway(s)' <=> Midway(s)
  BY <1>1, <1>2, MidwaySteps
<1>10. \A p : Waiting(p, s)' <=> Waiting(p, s)
  BY <1>6, <1>8, <1>9, StillHas DEF Waiting
<1>11. \A p \in Pools : ~Using(p, s)' /\ (Using(p, s) <=> p = q)
  BY <1>3, <1>4, <1>6 DEF Using, Pools, Null
<1>12. hand'[t] = q /\ \A u \in Threads : u # t => hand'[u] = hand[u]
  BY <1>1, <1>5 DEF PlainTypes
<1>13. ASSUME NEW p \in Pools, NEW k, NEW w
       PROVE  Kept(p, k, w)' <=> \/ Kept(p, k, w) /\ ~(p = q /\ k = "active" /\ w = s)
                                 \/ p = q /\ k = "hand" /\ w = t
  <2>1. \A x \in Storages : x # s => (Using(p, x)' <=> Using(p, x)) /\ (Waiting(p, x)' <=> Waiting(p, x))
    BY <1>1, <1>2, <1>6, SpotFrame
  <2>2. Listed(p)' <=> Listed(p)
    BY <1>2 DEF Listed
  <2>3. p # Null
    BY DEF Pools, Null
  <2> QED BY <1>2, <1>3, <1>10, <1>11, <1>12, <2>1, <2>2, <2>3 DEF Kept
<1>14. CASE q = Null
  <2>1. \A p \in Pools : p # q
    BY <1>14 DEF Pools, Null
  <2>2. Stays
    BY <1>13, <2>1 DEF Stays
  <2> QED BY <1>2, <2>2
<1>15. CASE q \in Pools
  <2>1. Kept(q, "active", s)
    BY <1>3, <1>4 DEF Kept, Using
  <2>2. Moves(q, "active", s, "hand", t)
    BY <1>13 DEF Moves
  <2> QED BY <1>2, <1>4, <1>15, <2>1, <2>2
<1> QED BY <1>7, <1>14, <1>15

(* What is taken from the head of the list is listed no more ...           *)
LEMMA FirstLeaves ==
  ASSUME TypeOK, OnceInv, discarded # <<>>, discarded' = Tail(discarded)
  PROVE  /\ Head(discarded).pool \in Pools /\ Listed(Head(discarded).pool)
         /\ \A p : Listed(p)' <=> Listed(p) /\ p # Head(discarded).pool
<1>1. /\ Len(discarded) \in Nat /\ Len(discarded) >= 1
      /\ Head(discarded) = discarded[1] /\ Head(discarded).pool \in Pools
      /\ Len(Tail(discarded)) = Len(discarded) - 1
      /\ \A i \in 1 .. Len(discarded) - 1 : Tail(discarded)[i] = discarded[i + 1]
  BY DiscardedType
<1>2. PICK q : q = Head(discarded).pool
  OBVIOUS
<1>3. 1 \in 1 .. Len(discarded) /\ discarded[1].pool = q
  BY <1>1, <1>2
<1>4. ASSUME NEW p, NEW i \in 1 .. Len(discarded'), discarded'[i].pool = p
      PROVE  Listed(p) /\ p # q
  <2>1. i + 1 \in 1 .. Len(discarded) /\ discarded[i + 1].pool = p /\ i + 1 # 1
    BY <1>1, <1>4
  <2>2. p # q
    BY <1>3, <2>1 DEF OnceInv
  <2> QED BY <2>1, <2>2 DEF Listed
<1>5. ASSUME NEW p, NEW i \in 1 .. Len(discarded), discarded[i].pool = p, p # q
      PROVE  Listed(p)'
  <2>1. i - 1 \in 1 .. Len(discarded) - 1 /\ (i - 1) + 1 = i
    BY <1>1, <1>3, <1>5
  <2>2. i - 1 \in 1 .. Len(discarded') /\ discarded'[i - 1].pool = p
    BY <1>1, <1>5, <2>1
  <2> QED BY <2>2 DEF Listed
<1>6. \A p : Listed(p)' => Listed(p) /\ p # q
  BY <1>4 DEF Listed
<1>7. \A p : Listed(p) /\ p # q => Listed(p)'
  BY <1>5 DEF Listed
<1>8. Listed(q)
  BY <1>3 DEF Listed
<1> QED BY <1>1, <1>2, <1>6, <1>7, <1>8

(* ... and what is appended is.                                            *)
LEMMA LastJoins ==
  ASSUME TypeOK, NEW q \in Pools, NEW t \in Threads,
         discarded' = Append(discarded, [pool |-> q, tid |-> t]), NEW p
  PROVE  Listed(p)' <=> Listed(p) \/ p = q
<1> DEFINE S == [pool : Pools, tid : Threads]
           e == [pool |-> q, tid |-> t]
<1>1. discarded \in Seq(S) /\ e \in S /\ e.pool = q
  BY DEF TypeOK
<1>2. Len(discarded) \in Nat
  BY <1>1, LenProperties
<1>3. discarded' = Append(discarded, e)
  OBVIOUS
<1> HIDE DEF S, e
<1>4. /\ Len(Append(discarded, e)) = Len(discarded) + 1
      /\ Append(discarded, e)[Len(discarded) + 1] = e
      /\ \A i \in 1 .. Len(discarded) : Append(discarded, e)[i] = discarded[i]
  BY <1>1, AppendProperties
<1>5. 1 .. Len(discarded') = (1 .. Len(discarded)) \cup {Len(discarded) + 1}
  BY <1>2, <1>3, <1>4
<1>6. Listed(p)' <=> (\E i \in 1 .. Len(discarded) : discarded'[i].pool = p) \/ discarded'[Len(discarded) + 1].pool = p
  BY <1>5 DEF Listed
<1>7. (\E i \in 1 .. Len(discarded) : discarded'[i].pool = p) <=> Listed(p)
  BY <1>3, <1>4 DEF Listed
<1>8. discarded'[Len(discarded) + 1].pool = q
  BY <1>1, <1>3, <1>4
<1> QED BY <1>6, <1>7, <1>8

(* discardCommandPoolForReuse                                              *)
LEMMA AppendMoves ==
  ASSUME PlaceInv, [Next]_vars, NEW t \in Threads, DiscardCommandPoolForReuse(t)
  PROVE  /\ hand[t] \in Pools /\ Kept(hand[t], "hand", t) /\ pools' = pools
         /\ Moves(hand[t], "hand", t, "discarded", NoThread)
<1>1. RingInv /\ PlainTypes /\ SweepInv /\ TypeOK
  BY TypeParts DEF PlaceInv, OwnerInv, RingInv
<1>2. pc[t] = "append" /\ UNCHANGED <<storage, destroyed, pools>> /\ Acts(t)
  BY DEF DiscardCommandPoolForReuse, At, countVars, Acts, Discard
<1>3. PICK q : q = hand[t]
  OBVIOUS
<1>4. q \in Pools
  BY <1>1, <1>2, <1>3 DEF SweepInv, PlainTypes
<1>5. discarded' = Append(discarded, [pool |-> q, tid |-> t]) /\ hand' = [hand EXCEPT ![t] = Null]
  BY <1>3 DEF DiscardCommandPoolForReuse
<1>6. hand'[t] = Null /\ \A u \in Threads : u # t => hand'[u] = hand[u]
  BY <1>1, <1>5 DEF PlainTypes
<1>7. Kept(q, "hand", t)
  BY <1>3 DEF Kept
<1>8. ASSUME NEW p \in Pools, NEW k, NEW w
      PROVE  Kept(p, k, w)' <=> \/ Kept(p, k, w) /\ ~(p = q /\ k = "hand" /\ w = t)
                                \/ p = q /\ k = "discarded" /\ w = NoThread
  <2>1. \A x \in Storages : (Using(p, x)' <=> Using(p, x)) /\ (Waiting(p, x)' <=> Waiting(p, x))
    BY <1>1, <1>2, SpotFrame
  <2>2. Listed(p)' <=> Listed(p) \/ p = q
    BY <1>1, <1>4, <1>5, LastJoins
  <2>3. p # Null
    BY DEF Pools, Null
  <2> QED BY <1>2, <1>3, <1>6, <2>1, <2>2, <2>3 DEF Kept
<1>9. Moves(q, "hand", t, "discarded", NoThread)
  BY <1>8 DEF Moves
<1> QED BY <1>2, <1>3, <1>4, <1>7, <1>9

(* recycle with no storage or a full ring: the pool is destroyed.          *)
LEMMA RecycleMoves ==
  ASSUME PlaceInv, [Next]_vars, NEW t \in Threads, Recycle(t)
  PROVE  /\ pools' = pools
         /\ \/ Stays
            \/ \E q \in Pools : /\ Kept(q, "discarded", NoThread)
                                /\ Moves(q, "discarded", NoThread, "destroyed", NoThread)
<1>1. RingInv /\ PlainTypes /\ SweepInv /\ TypeOK /\ OnceInv
  BY TypeParts DEF PlaceInv, OwnerInv, RingInv
<1>2. pc[t] = "recycle" /\ UNCHANGED <<storage, hand, pools>> /\ Acts(t) /\ discarded # <<>>
  BY <1>1 DEF Recycle, At, countVars, Acts, Sweep, SweepInv
<1>3. CASE UNCHANGED <<destroyed, discarded>>
  BY <1>1, <1>2, <1>3, QuietStays
<1>4. CASE destroyed' = destroyed \cup {Head(discarded).pool} /\ discarded' = Tail(discarded)
  <2>1. PICK q : q = Head(discarded).pool
    OBVIOUS
  <2>2. q \in Pools /\ Listed(q) /\ \A p : Listed(p)' <=> Listed(p) /\ p # q
    BY <1>1, <1>2, <1>4, <2>1, FirstLeaves
  <2>3. ASSUME NEW p \in Pools, NEW k, NEW w
        PROVE  Kept(p, k, w)' <=> \/ Kept(p, k, w) /\ ~(p = q /\ k = "discarded" /\ w = NoThread)
                                  \/ p = q /\ k = "destroyed" /\ w = NoThread
    <3>1. \A x \in Storages : (Using(p, x)' <=> Using(p, x)) /\ (Waiting(p, x)' <=> Waiting(p, x))
      BY <1>1, <1>2, SpotFrame
    <3>2. p \in destroyed' <=> p \in destroyed \/ p = q
      BY <1>4, <2>1
    <3> QED BY <1>2, <2>2, <3>1, <3>2 DEF Kept
  <2>4. Moves(q, "discarded", NoThread, "destroyed", NoThread)
    BY <2>3 DEF Moves
  <2>5. Kept(q, "discarded", NoThread)
    BY <2>2 DEF Kept
  <2> QED BY <1>2, <2>2, <2>4, <2>5
<1> QED BY <1>3, <1>4 DEF Recycle

(* tryPush gives the pool back to the thread that made it.                 *)
LEMMA PushMoves ==
  ASSUME PlaceInv, [Next]_vars, NEW t \in Threads, PushPublish(t), NEW s \in Storages, s = tp[t]
  PROVE  /\ pools' = pools
         /\ \E q \in Pools : /\ Kept(q, "discarded", NoThread)
                             /\ Moves(q, "discarded", NoThread, "ring", s)
<1>1. /\ RingInv /\ PlainTypes /\ SweepInv /\ RoomInv /\ AliveInv /\ ActiveInv /\ TypeOK /\ OnceInv
      /\ storage \in [Storages -> ThreadPoolsType]
  BY TypeParts DEF PlaceInv, OwnerInv, RingInv
<1>2. pc[t] = "publish" /\ UNCHANGED <<hand, destroyed, pools>> /\ Acts(t) /\ discarded # <<>>
  BY <1>1 DEF PushPublish, At, countVars, Acts, Sweep, SweepInv
<1>3. storage[s].alive
  <2>1. Head(discarded).tid \in Threads
    BY <1>1, <1>2, DiscardedType
  <2>2. registry[Head(discarded).tid] = s
    BY <1>1, <1>2 DEF AliveInv
  <2> QED BY <1>1, <2>1, <2>2 DEF AliveInv, Held
<1>4. PICK q : q = Head(discarded).pool
  OBVIOUS
<1>5. q \in Pools /\ Listed(q) /\ \A p : Listed(p)' <=> Listed(p) /\ p # q
  BY <1>1, <1>2, <1>4, FirstLeaves DEF PushPublish
<1>6. storage[s].buffer[Cell(storage[s].tail)] = q
  BY <1>1, <1>2, <1>4 DEF ActiveInv
<1>7. Length(s)' = Length(s) + 1 /\ Items(s)' = Append(Items(s), q)
  BY <1>1, <1>6, PushAdds DEF Pushed
<1>8. storage' = [storage EXCEPT ![s].tail = Step(storage[s].tail)]
  BY DEF PushPublish, Step
<1>9. /\ storage'[s].active = storage[s].active /\ storage'[s].alive = storage[s].alive
      /\ \A x \in Storages : x # s => storage'[x] = storage[x]
  BY <1>1, <1>8 DEF ThreadPoolsType
<1>10. Midway(s)' <=> Midway(s)
  BY <1>1, <1>2, MidwaySteps
<1>11. Midway(s) => Length(s) >= 1
  BY <1>1 DEF Midway, RoomInv
<1>12. /\ Items(s) \in Seq(Pools \cup {Null}) /\ Len(Items(s)) = Length(s) /\ Length(s) \in Nat
  BY <1>1, ItemsType
<1>13. /\ \A i \in 1 .. Length(s) : Append(Items(s), q)[i] = Items(s)[i]
       /\ Append(Items(s), q)[Length(s) + 1] = q
  BY <1>5, <1>12, AppendProperties
<1>14. ASSUME NEW p
       PROVE  RingHas(p, s)' <=> RingHas(p, s) \/ p = q
  <2>1. 1 .. Length(s)' = (1 .. Length(s)) \cup {Length(s) + 1}
    BY <1>7, <1>12
  <2>2. RingHas(p, s)' <=> \/ \E i \in 1 .. Length(s) : Items(s)'[i] = p /\ (Midway(s) => i # 1)
                           \/ Items(s)'[Length(s) + 1] = p /\ (Midway(s) => Length(s) + 1 # 1)
    BY <1>10, <2>1 DEF RingHas
  <2>3. (\E i \in 1 .. Length(s) : Items(s)'[i] = p /\ (Midway(s) => i # 1)) <=> RingHas(p, s)
    BY <1>7, <1>13 DEF RingHas
  <2>4. Midway(s) => Length(s) + 1 # 1
    BY <1>11, <1>12
  <2> QED BY <1>7, <1>13, <2>2, <2>3, <2>4
<1>15. ASSUME NEW p \in Pools, NEW k, NEW w
       PROVE  Kept(p, k, w)' <=> \/ Kept(p, k, w) /\ ~(p = q /\ k = "discarded" /\ w = NoThread)
                                 \/ p = q /\ k = "ring" /\ w = s
  <2>1. \A x \in Storages : x # s => (Using(p, x)' <=> Using(p, x)) /\ (Waiting(p, x)' <=> Waiting(p, x))
    BY <1>1, <1>2, <1>9, SpotFrame
  <2>2. (Using(p, s)' <=> Using(p, s)) /\ (Waiting(p, s)' <=> Waiting(p, s) \/ p = q)
    BY <1>3, <1>9, <1>14 DEF Using, Waiting
  <2> QED BY <1>2, <1>5, <2>1, <2>2 DEF Kept
<1>16. Moves(q, "discarded", NoThread, "ring", s)
  BY <1>15 DEF Moves
<1>17. Kept(q, "discarded", NoThread)
  BY <1>5 DEF Kept
<1> QED BY <1>2, <1>5, <1>16, <1>17

(* drainTo finds the active pool and those in the ring.                    *)
LEMMA DrainedPools ==
  ASSUME RingInv, NEW s \in Storages, storage[s].alive, ~Midway(s), NEW p \in Pools
  PROVE  p \in Drained(s) <=> Using(p, s) \/ Waiting(p, s)
<1>1. Drained(s) = {Items(s)[i] : i \in 1 .. Length(s)} \cup ({storage[s].active} \ {Null})
  BY DrainedIs
<1>2. p # Null
  BY DEF Pools, Null
<1>3. RingHas(p, s) <=> \E i \in 1 .. Length(s) : Items(s)[i] = p
  BY DEF RingHas
<1> QED BY <1>1, <1>2, <1>3 DEF Using, Waiting

(* threadShutdown frees the storage and destroys what is in it ...         *)
LEMMA DrainRetires ==
  ASSUME PlaceInv, [Next]_vars, NEW t \in Threads, DrainAndFree(t), NEW s \in Storages, s = tp[t]
  PROVE  pools' = pools /\ Retires({s})
<1>1. /\ RingInv /\ PlainTypes /\ RegistryInv /\ AliveInv /\ storage \in [Storages -> ThreadPoolsType]
  BY TypeParts DEF PlaceInv, OwnerInv, RingInv
<1>2. pc[t] = "drain" /\ UNCHANGED <<hand, discarded, pools>> /\ Acts(t)
  BY DEF DrainAndFree, At, sweepVars, countVars, Acts, Shutdown
<1>3. storage[s].alive
  BY <1>1, <1>2 DEF AliveInv, Held
<1>4. ~Midway(s)
  BY <1>1, <1>2 DEF Midway, RegistryInv, Own
<1>5. destroyed' = destroyed \cup Drained(s) /\ storage' = [storage EXCEPT ![s] = NoThreadPools]
  BY DEF DrainAndFree
<1>6. storage'[s].alive = FALSE /\ \A x \in Storages : x # s => storage'[x] = storage[x]
  BY <1>1, <1>5 DEF NoThreadPools, NewThreadPools
<1>7. ASSUME NEW p \in Pools, NEW k, NEW w
      PROVE  Kept(p, k, w)' <=> \/ Kept(p, k, w) /\ ~(k \in {"active", "ring"} /\ w \in {s})
                                \/ /\ k = "destroyed" /\ w = NoThread
                                   /\ \E x \in {s} : Kept(p, "active", x) \/ Kept(p, "ring", x)
  <2>1. \A x \in Storages : x # s => (Using(p, x)' <=> Using(p, x)) /\ (Waiting(p, x)' <=> Waiting(p, x))
    BY <1>1, <1>2, <1>6, SpotFrame
  <2>2. ~Using(p, s)' /\ ~Waiting(p, s)'
    BY <1>6 DEF Using, Waiting
  <2>3. Listed(p)' <=> Listed(p)
    BY <1>2 DEF Listed
  <2>4. p \in destroyed' <=> p \in destroyed \/ Using(p, s) \/ Waiting(p, s)
    BY <1>1, <1>3, <1>4, <1>5, DrainedPools
  <2>5. (\E x \in {s} : Kept(p, "active", x) \/ Kept(p, "ring", x)) <=> Using(p, s) \/ Waiting(p, s)
    BY DEF Kept
  <2> QED BY <1>2, <2>1, <2>2, <2>3, <2>4, <2>5 DEF Kept
<1> QED BY <1>2, <1>7 DEF Retires

(* ... and so does the destructor with all storages that are left.         *)
LEMMA DestroyRetires ==
  ASSUME PlaceInv, [Next]_vars, Destroy
  PROVE  pools' = pools /\ \E S : Retires(S)
<1>1. /\ RingInv /\ PlainTypes /\ RegistryInv /\ AliveInv /\ storage \in [Storages -> ThreadPoolsType]
  BY TypeParts DEF PlaceInv, OwnerInv, RingInv
<1>2. (\A t \in Threads : pc[t] = "idle") /\ UNCHANGED <<hand, discarded, pools>>
  BY DEF Destroy, At, sweepVars, countVars
<1>3. PICK S : S = {registry[t] : t \in Threads} \ {Null}
  OBVIOUS
<1>4. /\ destroyed' = destroyed \cup UNION {Drained(s) : s \in S}
      /\ storage' = [s \in Storages |-> IF s \in S THEN NoThreadPools ELSE storage[s]]
  BY <1>3 DEF Destroy
<1>5. S \subseteq Storages
  BY <1>1, <1>3 DEF PlainTypes
<1>6. \A s \in Storages : storage[s].alive <=> s \in S
  BY <1>1, <1>2, <1>3 DEF AliveInv, Held, Storages, Null
<1>7. \A s \in Storages : ~storage'[s].alive
  BY <1>4, <1>6 DEF NoThreadPools, NewThreadPools
<1>8. \A s \in Storages : ~Midway(s)
  BY <1>2 DEF Midway
<1>9. ASSUME NEW p \in Pools, NEW k, NEW w
      PROVE  Kept(p, k, w)' <=> \/ Kept(p, k, w) /\ ~(k \in {"active", "ring"} /\ w \in S)
                                \/ /\ k = "destroyed" /\ w = NoThread
                                   /\ \E s \in S : Kept(p, "active", s) \/ Kept(p, "ring", s)
  <2>1. \A s \in Storages : ~Using(p, s)' /\ ~Waiting(p, s)'
    BY <1>7 DEF Using, Waiting
  <2>2. \A s \in Storages : s \notin S => ~Using(p, s) /\ ~Waiting(p, s)
    BY <1>6 DEF Using, Waiting
  <2>3. Listed(p)' <=> Listed(p)
    BY <1>2 DEF Listed
  <2>4. \A s \in S : p \in Drained(s) <=> Using(p, s) \/ Waiting(p, s)
    BY <1>1, <1>5, <1>6, <1>8, DrainedPools
  <2>5. p \in destroyed' <=> p \in destroyed \/ \E s \in S : Using(p, s) \/ Waiting(p, s)
    BY <1>4, <2>4
  <2>6. (\E s \in S : Kept(p, "active", s) \/ Kept(p, "ring", s)) <=> \E s \in S : Using(p, s) \/ Waiting(p, s)
    BY <1>5 DEF Kept
  <2> QED BY <1>2, <2>1, <2>2, <2>3, <2>5, <2>6 DEF Kept
<1>10. Retires(S)
  BY <1>9 DEF Retires
<1> QED BY <1>2, <1>10

(* Pools move from place to place.                                         *)
LEMMA SpotStep == PlaceInv /\ [Next]_vars => SpotInv'
<1> SUFFICES ASSUME PlaceInv, [Next]_vars PROVE SpotInv'
  OBVIOUS
<1>1. RingInv /\ PlainTypes /\ TypeOK /\ RegistryInv /\ SweepInv /\ SpotInv
  BY TypeParts DEF PlaceInv, OwnerInv, RingInv
<1>2. TypeOK'
  BY <1>1, TypeStep
<1>3. \A t \in Threads : pc[t] \in Own \cup {"write", "publish", "drain"} => tp[t] \in Storages
  BY <1>1 DEF RegistryInv, PlainTypes, SweepInv, Own
<1> USE DEF At, Own
<1>4. ASSUME NEW t \in Threads, EnsureThreadPools(t)
      PROVE  SpotInv'
  BY <1>1, <1>4, EnsureStays, StaysKeeps DEF PlaceInv
<1>5. ASSUME NEW t \in Threads, \/ ChoosePool(t) \/ CommandBuffer(t) \/ BeginSweep(t) \/ RecycleFind(t)
                                \/ EndSweep(t) \/ ThreadShutdown(t)
      PROVE  SpotInv'
  <2>1. /\ Acts(t) /\ pc[t] \notin {"read", "advance"}
        /\ UNCHANGED <<storage, hand, discarded, destroyed>> /\ pools' = pools
    BY <1>5 DEF Acts, Allocate, Sweep, Shutdown, ChoosePool, CommandBuffer, BeginSweep, RecycleFind,
       EndSweep, ThreadShutdown, sweepVars, countVars
  <2> QED BY <1>1, <2>1, QuietStays, StaysKeeps
<1>6. ASSUME NEW t \in Threads, PopRead(t)
      PROVE  SpotInv'
  <2>1. tp[t] \in Storages
    BY <1>3, <1>6 DEF PopRead
  <2>2. PICK s \in Storages : s = tp[t]
    BY <2>1
  <2> QED BY <1>1, <1>6, <2>2, ReadMoves, MovesKeeps
<1>7. ASSUME NEW t \in Threads, PopPublish(t) \/ PushWrite(t)
      PROVE  SpotInv'
  <2>1. tp[t] \in Storages
    BY <1>3, <1>7 DEF PopPublish, PushWrite
  <2>2. PICK s \in Storages : s = tp[t]
    BY <2>1
  <2> QED BY <1>1, <1>7, <2>2, PopStays, WriteStays, StaysKeeps DEF PlaceInv
<1>8. ASSUME NEW t \in Threads, CreateCommandPool(t)
      PROVE  SpotInv'
  <2>1. tp[t] \in Storages
    BY <1>3, <1>8 DEF CreateCommandPool
  <2>2. PICK s \in Storages : s = tp[t]
    BY <2>1
  <2>3. pools' = pools + 1 /\ Appears(pools + 1, "active", s)
    BY <1>8, <2>2, CreateAppears
  <2>4. pools' \in Pools
    BY <1>1, <1>2, <2>3, CommandPoolsAssumption DEF TypeOK, Pools
  <2> QED BY <1>1, <2>3, <2>4, AppearsKeeps
<1>9. ASSUME NEW t \in Threads, DiscardActivePool(t)
      PROVE  SpotInv'
  <2>1. tp[t] \in Storages
    BY <1>3, <1>9 DEF DiscardActivePool
  <2>2. PICK s \in Storages : s = tp[t]
    BY <2>1
  <2> QED BY <1>1, <1>9, <2>2, DiscardMoves, MovesKeeps, StaysKeeps
<1>10. ASSUME NEW t \in Threads, DiscardCommandPoolForReuse(t)
       PROVE  SpotInv'
  BY <1>1, <1>10, AppendMoves, MovesKeeps
<1>11. ASSUME NEW t \in Threads, Recycle(t)
       PROVE  SpotInv'
  BY <1>1, <1>11, RecycleMoves, MovesKeeps, StaysKeeps
<1>12. ASSUME NEW t \in Threads, PushPublish(t)
       PROVE  SpotInv'
  <2>1. tp[t] \in Storages
    BY <1>3, <1>12 DEF PushPublish
  <2>2. PICK s \in Storages : s = tp[t]
    BY <2>1
  <2> QED BY <1>1, <1>12, <2>2, PushMoves, MovesKeeps
<1>13. ASSUME NEW t \in Threads, DrainAndFree(t)
       PROVE  SpotInv'
  <2>1. tp[t] \in Storages
    BY <1>3, <1>13 DEF DrainAndFree
  <2>2. PICK s \in Storages : s = tp[t]
    BY <2>1
  <2> QED BY <1>1, <1>13, <2>2, DrainRetires, RetiresKeeps
<1>14. CASE Destroy
  BY <1>1, <1>14, DestroyRetires, RetiresKeeps
<1>15. CASE UNCHANGED vars
  <2>1. Stays
    BY <1>15 DEF Stays, Kept, Using, Waiting, RingHas, Midway, Listed, Length, Items, vars, sweepVars
  <2> QED BY <1>1, <1>15, <2>1, StaysKeeps DEF vars, countVars
<1> QED
  BY <1>4, <1>5, <1>6, <1>7, <1>8, <1>9, <1>10, <1>11, <1>12, <1>13, <1>14, <1>15
  DEF Next, Allocate, Discard, Sweep, Shutdown, Terminated

(* A ring gets no pool that it has, and no pool twice.                     *)
LEMMA RingOnce ==
  ASSUME PlaceInv, [Next]_vars, NEW s \in Storages, storage'[s].alive,
         NEW i \in 1 .. Length(s)', NEW j \in 1 .. Length(s)', Items(s)'[i] = Items(s)'[j]
  PROVE  i = j
<1>1. /\ OwnerInv /\ RingInv /\ PlainTypes /\ SweepInv /\ AliveInv /\ ActiveInv /\ TypeOK /\ SpotInv /\ OnceInv
  BY TypeParts DEF PlaceInv, OwnerInv, RingInv
<1>2. ~Made(s)
  BY DEF Made
<1>3. Held(s)' /\ ~Freed(s)
  BY <1>1, AliveKept, HeldStep
<1>4. storage[s].alive
  BY <1>1, <1>2, <1>3, HeldStep DEF AliveInv
<1>5. \A m, n \in 1 .. Length(s) : Items(s)[m] = Items(s)[n] => m = n
  BY <1>1, <1>4 DEF OnceInv
<1>6. /\ Items(s) \in Seq(Pools \cup {Null}) /\ Len(Items(s)) = Length(s) /\ Length(s) \in Nat
  BY <1>1, ItemsType
<1>7. CASE Still(s)
  BY <1>5, <1>7 DEF Still
<1>8. CASE Popped(s)
  <2>1. Items(s) # <<>> /\ Items(s)' = Tail(Items(s)) /\ Length(s)' = Length(s) - 1
    BY <1>8 DEF Popped
  <2>2. \A m \in 1 .. Length(s) - 1 : Tail(Items(s))[m] = Items(s)[m + 1]
    BY <1>6, <2>1, HeadTailProperties
  <2>3. i + 1 \in 1 .. Length(s) /\ j + 1 \in 1 .. Length(s)
    BY <1>6, <2>1
  <2>4. Items(s)[i + 1] = Items(s)[j + 1]
    BY <2>1, <2>2
  <2>5. i + 1 = j + 1
    BY <1>5, <2>3, <2>4
  <2> QED BY <1>6, <2>5
<1>9. CASE Pushed(s)
  <2>1. PICK t \in Threads : PushPublish(t) /\ tp[t] = s
    BY <1>9 DEF Pushed
  <2>2. pc[t] = "publish" /\ discarded # <<>> /\ discarded' = Tail(discarded)
    BY <1>1, <2>1 DEF PushPublish, At, SweepInv
  <2>3. PICK q : q = Head(discarded).pool
    OBVIOUS
  <2>4. q \in Pools /\ Kept(q, "discarded", NoThread)
    BY <1>1, <2>2, <2>3, FirstLeaves DEF Kept
  <2>5. storage[s].buffer[Cell(storage[s].tail)] = q
    BY <1>1, <2>1, <2>2, <2>3 DEF ActiveInv
  <2>6. Length(s)' = Length(s) + 1 /\ Items(s)' = Append(Items(s), q)
    BY <1>9, <2>5 DEF Pushed
  <2>7. /\ \A m \in 1 .. Length(s) : Append(Items(s), q)[m] = Items(s)[m]
        /\ Append(Items(s), q)[Length(s) + 1] = q
    BY <1>6, <2>4, AppendProperties
  <2>8. ASSUME NEW m \in 1 .. Length(s), Items(s)[m] = q
        PROVE  FALSE
    <3>1. ~Kept(q, "ring", s) /\ ~Kept(q, "active", s)
      BY <1>1, <2>4 DEF SpotInv
    <3>2. Midway(s) /\ m = 1
      BY <1>4, <2>8, <3>1 DEF Kept, Waiting, RingHas
    <3>3. storage[s].active = Items(s)[1]
      BY <1>1, <3>2 DEF Midway, ActiveInv
    <3> QED BY <1>4, <2>8, <3>1, <3>2, <3>3 DEF Kept, Using
  <2>9. \A m \in 1 .. Length(s)' : m \in 1 .. Length(s) \/ m = Length(s) + 1
    BY <1>6, <2>6
  <2> QED BY <1>5, <2>6, <2>7, <2>8, <2>9, ZenonT(60)
<1> QED BY <1>1, <1>2, <1>3, <1>7, <1>8, <1>9, RingSteps

(* Neither does the list.                                                  *)
LEMMA ListOnce ==
  ASSUME PlaceInv, [Next]_vars, NEW i \in 1 .. Len(discarded'), NEW j \in 1 .. Len(discarded'),
         discarded'[i].pool = discarded'[j].pool
  PROVE  i = j
<1>1. RingInv /\ PlainTypes /\ SweepInv /\ TypeOK /\ SpotInv /\ OnceInv
  BY TypeParts DEF PlaceInv, OwnerInv, RingInv
<1>2. Len(discarded) \in Nat /\ \A m, n \in 1 .. Len(discarded) : discarded[m].pool = discarded[n].pool => m = n
  BY <1>1, LenProperties DEF OnceInv, TypeOK
<1>3. CASE UNCHANGED discarded
  BY <1>2, <1>3
<1>4. CASE Appended
  <2>1. PICK t \in Threads : /\ DiscardCommandPoolForReuse(t)
                             /\ discarded' = Append(discarded, [pool |-> hand[t], tid |-> t])
    BY <1>4 DEF Appended
  <2>2. PICK q : q = hand[t]
    OBVIOUS
  <2>3. q \in Pools
    BY <1>1, <2>1, <2>2 DEF DiscardCommandPoolForReuse, At, SweepInv, PlainTypes
  <2>4. ~Listed(q)
    <3>1. Kept(q, "hand", t)
      BY <2>2 DEF Kept
    <3>2. ~Kept(q, "discarded", NoThread)
      BY <1>1, <2>3, <3>1 DEF SpotInv
    <3> QED BY <3>2 DEF Kept
  <2> DEFINE S == [pool : Pools, tid : Threads]
             e == [pool |-> q, tid |-> t]
  <2>5. discarded \in Seq(S) /\ e \in S /\ e.pool = q /\ discarded' = Append(discarded, e)
    BY <1>1, <2>1, <2>2, <2>3 DEF TypeOK
  <2> HIDE DEF S, e
  <2>6. /\ Len(Append(discarded, e)) = Len(discarded) + 1
        /\ Append(discarded, e)[Len(discarded) + 1] = e
        /\ \A m \in 1 .. Len(discarded) : Append(discarded, e)[m] = discarded[m]
    BY <2>5, AppendProperties
  <2>7. \A m \in 1 .. Len(discarded') : m \in 1 .. Len(discarded) \/ m = Len(discarded) + 1
    BY <1>2, <2>5, <2>6
  <2>8. \A m \in 1 .. Len(discarded) : discarded[m].pool # q
    BY <2>4 DEF Listed
  <2> QED BY <1>2, <2>5, <2>6, <2>7, <2>8
<1>5. CASE Consumed
  <2>1. discarded # <<>> /\ discarded' = Tail(discarded)
    BY <1>5 DEF Consumed
  <2>2. /\ Len(Tail(discarded)) = Len(discarded) - 1
        /\ \A m \in 1 .. Len(discarded) - 1 : Tail(discarded)[m] = discarded[m + 1]
    BY <1>1, <2>1, DiscardedType
  <2>3. i \in 1 .. Len(discarded) - 1 /\ j \in 1 .. Len(discarded) - 1
    BY <2>1, <2>2
  <2>4. i + 1 \in 1 .. Len(discarded) /\ j + 1 \in 1 .. Len(discarded)
    BY <1>2, <2>3
  <2>5. discarded[i + 1].pool = discarded[j + 1].pool
    BY <2>1, <2>2, <2>3
  <2>6. i + 1 = j + 1
    BY <1>2, <2>4, <2>5
  <2> QED BY <1>2, <2>3, <2>6
<1> QED BY <1>1, <1>3, <1>4, <1>5, ListSteps

(* The third layer.                                                        *)
LEMMA PlaceStep == PlaceInv /\ ShutdownAlone /\ [Next]_vars => PlaceInv'
<1> SUFFICES ASSUME PlaceInv, ShutdownAlone, [Next]_vars PROVE PlaceInv'
  OBVIOUS
<1>1. OwnerInv /\ RingInv
  BY DEF PlaceInv, OwnerInv
<1>2. RingInv'
  BY <1>1, TypeStep, RegistryStep, SweepStep, RoomStep, PooledStep, CountStep DEF RingInv
<1>3. OwnerInv'
  BY <1>1, <1>2, AliveStep, ActiveStep, CacheStep DEF OwnerInv
<1>4. OnceInv'
  BY RingOnce, ListOnce DEF OnceInv
<1> QED BY <1>3, <1>4, SpotStep DEF PlaceInv

(* At first there are no pools.                                            *)
LEMMA InitPlace == Init => PlaceInv
<1> SUFFICES ASSUME Init PROVE PlaceInv
  OBVIOUS
<1>1. /\ \A t \in Threads : hand[t] = Null
      /\ discarded = <<>> /\ destroyed = {} /\ pools = 0
      /\ \A s \in Storages : storage[s].alive = FALSE
  BY DEF Init, NoThreadPools, NewThreadPools
<1>2. ASSUME NEW p \in Pools, NEW k, NEW w
      PROVE  ~Kept(p, k, w)
  BY <1>1 DEF Kept, Using, Waiting, Listed, Pools, Null
<1>3. SpotInv
  BY <1>1, <1>2 DEF SpotInv
<1>4. OnceInv
  BY <1>1 DEF OnceInv
<1> QED BY <1>3, <1>4, InitOwner DEF PlaceInv

(* Each step takes at most one pool from one place to another, or those of *)
(* a storage that is freed to their end.                                   *)
THEOREM PlaceInvariant == ShutdownAlone => (Spec => []PlaceInv)
<1> SUFFICES ASSUME ShutdownAlone PROVE Spec => []PlaceInv
  OBVIOUS
<1>1. PlaceInv /\ [Next]_vars => PlaceInv'
  BY PlaceStep
<1> QED BY <1>1, InitPlace, PTL DEF Spec

(* The model's Places lists the positions of which Kept says what kind.    *)
LEMMA PlacesParts ==
  ASSUME PlaceInv, NEW p \in 1 .. pools, NEW k, NEW w, Kept(p, k, w)
  PROVE  \E x : Places(p) = {x}
<1>1. /\ RingInv /\ PlainTypes /\ RegistryInv /\ AliveInv /\ TypeOK /\ SpotInv /\ OnceInv
  BY TypeParts DEF PlaceInv, OwnerInv, RingInv
<1>2. p \in Pools
  BY <1>1, CreatedArePools
<1>3. \A l, v : Kept(p, l, v) => l = k /\ v = w
  BY <1>1, <1>2 DEF SpotInv
<1> DEFINE A == {<<"active", s, 0>> : s \in {s \in Alive : storage[s].active = p}}
           P(s) == {i \in DOMAIN Queue(s) : i > Taken(s) /\ Queue(s)[i] = p}
           R == UNION {{<<"ring", s, i>> : i \in P(s)} : s \in Alive}
           H == {<<"hand", t, 0>> : t \in {t \in Threads : hand[t] = p}}
           I == {i \in DOMAIN discarded : discarded[i].pool = p}
           L == {<<"discarded", NoThread, i>> : i \in I}
           D == IF p \in destroyed THEN {<<"destroyed", NoThread, 0>>} ELSE {}
<1>4. Places(p) = A \cup R \cup H \cup L \cup D
  BY DEF Places
<1>5. Alive = {s \in Storages : storage[s].alive}
  <2>1. \A s \in Storages : storage[s].alive => s <= storages
    BY <1>1 DEF AliveInv, Held, RegistryInv
  <2>2. 1 .. storages \subseteq Storages
    BY <1>1, CommandPoolsAssumption DEF PlainTypes, Storages
  <2>3. \A s \in Storages : s <= storages => s \in 1 .. storages
    BY <1>1, CommandPoolsAssumption DEF PlainTypes, Storages
  <2> QED BY <2>1, <2>2, <2>3 DEF Alive
<1>6. \A s \in Alive : P(s) = {i \in 1 .. Length(s) : Items(s)[i] = p /\ (Midway(s) => i # 1)}
  <2> SUFFICES ASSUME NEW s \in Alive
               PROVE  P(s) = {i \in 1 .. Length(s) : Items(s)[i] = p /\ (Midway(s) => i # 1)}
    OBVIOUS
  <2>1. Len(Items(s)) = Length(s) /\ Length(s) \in Nat /\ Items(s) \in Seq(Pools \cup {Null})
    BY <1>1, <1>5, ItemsType
  <2>2. DOMAIN Queue(s) = 1 .. Length(s) /\ Queue(s) = Items(s)
    BY <2>1, QueueIsItems
  <2>3. Taken(s) = IF Midway(s) THEN 1 ELSE 0
    BY DEF Taken, Midway, At
  <2>4. \A i \in 1 .. Length(s) : i > Taken(s) <=> (Midway(s) => i # 1)
    BY <2>1, <2>3
  <2> QED BY <2>2, <2>4
<1>7. DOMAIN discarded = 1 .. Len(discarded)
  BY <1>1 DEF TypeOK
<1>8. \A s \in Alive : Waiting(p, s) <=> P(s) # {}
  BY <1>5, <1>6 DEF Waiting, RingHas
<1>9. Listed(p) <=> I # {}
  BY <1>7 DEF Listed
<1>10. k # "active" => A = {}
  BY <1>3, <1>5 DEF Kept, Using
<1>11. k # "ring" => R = {}
  <2> SUFFICES ASSUME k # "ring" PROVE \A s \in Alive : P(s) = {}
    OBVIOUS
  <2> QED BY <1>3, <1>5, <1>8 DEF Kept
<1>12. k # "hand" => H = {}
  BY <1>3 DEF Kept
<1>13. k # "discarded" => L = {}
  BY <1>3, <1>9 DEF Kept
<1>14. k # "destroyed" => D = {}
  BY <1>3 DEF Kept
<1>15. CASE k = "active"
  <2>1. w \in Alive /\ storage[w].active = p
    BY <1>5, <1>15 DEF Kept, Using
  <2>2. \A s \in Alive : storage[s].active = p => s = w
    BY <1>3, <1>5 DEF Kept, Using
  <2>3. A = {<<"active", w, 0>>}
    BY <2>1, <2>2
  <2> HIDE DEF A, R, H, L, D
  <2> QED BY <1>4, <1>11, <1>12, <1>13, <1>14, <1>15, <2>3
<1>16. CASE k = "ring"
  <2>1. w \in Alive /\ Waiting(p, w)
    BY <1>5, <1>16 DEF Kept, Waiting
  <2>2. \A s \in Alive : s # w => P(s) = {}
    BY <1>3, <1>5, <1>8 DEF Kept
  <2>3. PICK i : i \in P(w)
    BY <1>8, <2>1
  <2>4. \A j \in P(w) : j = i
    BY <1>1, <1>5, <1>6, <2>1, <2>3 DEF OnceInv
  <2>5. P(w) = {i}
    BY <2>3, <2>4
  <2> HIDE DEF P
  <2>6. R = {<<"ring", w, i>>}
    BY <2>1, <2>2, <2>5
  <2> HIDE DEF A, R, H, L, D
  <2> QED BY <1>4, <1>10, <1>12, <1>13, <1>14, <1>16, <2>6
<1>17. CASE k = "hand"
  <2>1. w \in Threads /\ hand[w] = p
    BY <1>17 DEF Kept
  <2>2. \A t \in Threads : hand[t] = p => t = w
    BY <1>3 DEF Kept
  <2>3. H = {<<"hand", w, 0>>}
    BY <2>1, <2>2
  <2> HIDE DEF A, R, H, L, D
  <2> QED BY <1>4, <1>10, <1>11, <1>13, <1>14, <1>17, <2>3
<1>18. CASE k = "discarded"
  <2>1. Listed(p)
    BY <1>18 DEF Kept
  <2>2. PICK i : i \in I
    BY <1>9, <2>1
  <2>3. \A j \in I : j = i
    BY <1>1, <1>7, <2>2 DEF OnceInv
  <2>4. I = {i}
    BY <2>2, <2>3
  <2> HIDE DEF I
  <2>5. L = {<<"discarded", NoThread, i>>}
    BY <2>4
  <2> HIDE DEF A, R, H, L, D
  <2> QED BY <1>4, <1>10, <1>11, <1>12, <1>14, <1>18, <2>5
<1>19. CASE k = "destroyed"
  <2>1. D = {<<"destroyed", NoThread, 0>>}
    BY <1>19 DEF Kept
  <2> HIDE DEF A, R, H, L, D
  <2> QED BY <1>4, <1>10, <1>11, <1>12, <1>13, <1>19, <2>1
<1> QED BY <1>15, <1>16, <1>17, <1>18, <1>19 DEF Kept

(* However pops, pushes, sweeps and shutdowns overlap, a pool is in one    *)
(* place: none is lost, given to two users or destroyed in use.            *)
THEOREM PoolsOwnedOnce == ShutdownAlone => (Spec => []OwnedOnce)
<1> SUFFICES ASSUME ShutdownAlone PROVE Spec => []OwnedOnce
  OBVIOUS
<1>1. PlaceInv => OwnedOnce
  <2> SUFFICES ASSUME PlaceInv, NEW p \in 1 .. pools PROVE Cardinality(Places(p)) = 1
    BY DEF OwnedOnce
  <2>1. PICK k, w : Kept(p, k, w)
    BY DEF PlaceInv, SpotInv
  <2>2. PICK x : Places(p) = {x}
    BY <2>1, PlacesParts
  <2> QED BY <2>2, FS_Singleton
<1> QED BY <1>1, PlaceInvariant, PTL

-----------------------------------------------------------------------------
(* The device that the pools are created from: what is recorded of the     *)
(* chosen one, and which one that is, for any devices a machine may        *)
(* enumerate in any order and for any set of extensions and features that  *)
(* a platform requires.                                                    *)

CONSTANTS Extensions, Features, InstanceExtensions, RequiredExtensions, RequiredFeatures,
          Portability, Debug, Mobile, MaxDevices
VARIABLES devicePc, instance, physicalDevices, next, chosen, optFeatures, isSoC, comprFormats,
          enabled, queueFamily, device

\* DeviceChoice, next to the pools that are created from its device.
Device == INSTANCE DeviceChoice WITH pc <- devicePc

-----------------------------------------------------------------------------
(* The inductive invariant *)

Afterwards == {"formats", "extensions", "maintenance", "budget", "queue", "create", "created"}

(* How far the loop has come, and that it forgets nothing but devices that *)
(* are not eligible.                                                       *)
LoopInv ==
  /\ chosen < next
  /\ chosen = Device!NoDevice => optFeatures = {}
  /\ chosen # Device!NoDevice => Device!Eligible(Device!Chosen)
  /\ \A i \in chosen + 1 .. next - 1 : ~Device!Eligible(physicalDevices[i])
  /\ devicePc \in {"instance", "enumerate"} => next = 1
  /\ devicePc \in Afterwards => next = Len(physicalDevices) + 1 /\ chosen # Device!NoDevice

(* What the steps outside the loop have established so far. *)
StageInv ==
  /\ devicePc \notin {"instance", "exited"} => InstanceExtensions \subseteq instance.enabled
  /\ devicePc \in Afterwards \ {"formats"} =>
       {comprFormats.linear_R, comprFormats.linear_RGB} \subseteq Device!Chosen.sampled \cup {Device!Uncompressed}
  /\ devicePc \in {"instance", "enumerate", "examine", "formats", "extensions"} => enabled = {}
  /\ devicePc \in {"maintenance", "budget", "queue", "create"} =>
       RequiredExtensions \subseteq enabled /\ enabled \subseteq Device!Chosen.extensions
  /\ devicePc \in {"budget", "queue", "create"} =>
       (Device!Maintenance1 \in optFeatures => Device!Maintenance1 \in enabled)
  /\ devicePc \in {"create", "created"} => Device!Chosen.families[queueFamily].present
  /\ Device!Baseline

DeviceInv == Device!TypeOK /\ Device!RecordsChosen /\ LoopInv /\ StageInv

-----------------------------------------------------------------------------
(* An enumeration is a sequence. *)
LEMMA EnumerationType ==
  ASSUME NEW s \in Device!Enumerations
  PROVE  s \in Seq(Device!PhysicalDevices) /\ Len(s) \in Nat
BY DEF Device!Enumerations

(* Only the three kinds of GPU have a score above maxScoreSoFar. *)
LEMMA EligibleType ==
  ASSUME NEW dev, Device!Eligible(dev)
  PROVE  dev.type \in {"discrete", "integrated", "virtual"} /\ RequiredFeatures \subseteq dev.features
BY DEF Device!Eligible, Device!Score, Device!maxScoreSoFar

(* A linear format is taken over only when the device has it. *)
LEMMA LinearType ==
  ASSUME NEW dev, NEW opt
  PROVE  {Device!CompressedFormats(dev, opt).linear_R, Device!CompressedFormats(dev, opt).linear_RGB}
           \subseteq dev.sampled \cup {Device!Uncompressed}
BY DEF Device!CompressedFormats

(* The first state. *)
LEMMA InitDevice == Device!Init => DeviceInv
<1> SUFFICES ASSUME Device!Init PROVE DeviceInv
  OBVIOUS
<1>1. Len(physicalDevices) \in Nat
  BY EnumerationType DEF Device!Init
<1>2. Device!TypeOK
  <2>1. isSoC \in BOOLEAN
    BY Zenon DEF Device!Init
  <2>2. devicePc \in Device!PCs /\ physicalDevices \in Device!Enumerations /\ queueFamily \in Nat
    BY DEF Device!Init, Device!PCs
  <2>3. next \in 1 .. Len(physicalDevices) + 1 /\ chosen \in 0 .. Len(physicalDevices)
    BY <1>1 DEF Device!Init, Device!NoDevice
  <2>4. optFeatures \subseteq Device!OptionalFeatures \cup {Device!MemoryBudget}
    BY DEF Device!Init
  <2> QED BY <2>1, <2>2, <2>3, <2>4 DEF Device!TypeOK
<1>3. Device!RecordsChosen /\ LoopInv /\ StageInv
  BY <1>1 DEF Device!Init, Device!RecordsChosen, LoopInv, StageInv, Device!Baseline, Afterwards,
     Device!NoDevice
<1> QED BY <1>2, <1>3 DEF DeviceInv

(* The instance, the enumeration and the end of the loop choose nothing. *)
LEMMA BeforeKeeps ==
  ASSUME DeviceInv, Device!CreateInstance \/ Device!Enumerate \/ Device!EndLoop
  PROVE  DeviceInv'
<1> USE DEF DeviceInv, Device!TypeOK, Device!PCs, Device!RecordsChosen, LoopInv, StageInv,
     Device!Baseline, Afterwards, Device!At, Device!Goto,
            Device!Given, Device!Unchosen, Device!Unmade, Device!NoDevice, Device!Chosen
<1>0. Len(physicalDevices) \in Nat
  BY EnumerationType
<1>1. CASE Device!CreateInstance
  BY <1>0, <1>1 DEF Device!CreateInstance
<1>2. CASE Device!Enumerate
  BY <1>0, <1>2 DEF Device!Enumerate
<1>3. CASE Device!EndLoop
  BY <1>0, <1>3 DEF Device!EndLoop
<1> QED BY <1>1, <1>2, <1>3

(* The loop passes a device that is not eligible ... *)
LEMMA SkipKeeps ==
  ASSUME DeviceInv, Device!Skip
  PROVE  DeviceInv'
<1>0. Len(physicalDevices) \in Nat
  BY EnumerationType DEF DeviceInv, Device!TypeOK
<1>1. Device!TypeOK'
  BY <1>0 DEF DeviceInv, Device!TypeOK, Device!Skip, Device!Given, Device!Unmade
<1>2. Device!RecordsChosen' /\ StageInv'
  BY DEF DeviceInv, Device!RecordsChosen, StageInv, Device!Baseline, Device!Skip, Device!Given,
     Device!Unmade, Device!Chosen, Device!At, Afterwards
<1>3. LoopInv'
  BY <1>0 DEF DeviceInv, Device!TypeOK, LoopInv, Device!Skip, Device!Given, Device!Chosen, Device!At,
     Afterwards
<1> QED BY <1>1, <1>2, <1>3 DEF DeviceInv

(* ... and records an eligible one in place of the one before. *)
LEMMA ChooseKeeps ==
  ASSUME DeviceInv, Device!Choose
  PROVE  DeviceInv'
<1> DEFINE dev == physicalDevices[next]
<1>0. Len(physicalDevices) \in Nat
  BY EnumerationType DEF DeviceInv, Device!TypeOK
<1>1. /\ devicePc = "examine" /\ next \in 1 .. Len(physicalDevices) /\ Device!Eligible(dev)
      /\ chosen' = next /\ next' = next + 1 /\ isSoC' = Device!SoC(dev)
      /\ optFeatures' = Device!OptionalOf(dev) \cup (optFeatures \cap {Device!MemoryBudget})
      /\ UNCHANGED <<devicePc, instance, physicalDevices, comprFormats, enabled, queueFamily, device>>
  BY <1>0 DEF DeviceInv, Device!TypeOK, Device!Choose, Device!Given, Device!Unmade, Device!At
<1>2. Device!Chosen' = dev
  BY <1>1 DEF Device!Chosen
<1>3. Device!MemoryBudget \notin Device!OptionalFeatures
  BY DEF Device!MemoryBudget, Device!OptionalFeatures, Device!TextureFeatures, Device!Maintenance1
<1> HIDE DEF dev
<1>4. Device!TypeOK'
  <2>1. optFeatures' \subseteq Device!OptionalFeatures \cup {Device!MemoryBudget}
    BY <1>1 DEF Device!OptionalOf
  <2>2. isSoC' \in BOOLEAN
    BY <1>1 DEF Device!SoC
  <2> QED BY <1>0, <1>1, <2>1, <2>2 DEF DeviceInv, Device!TypeOK
<1>5. Device!RecordsChosen'
  <2>1. optFeatures' \cap Device!OptionalFeatures = Device!OptionalOf(dev)
    BY <1>1, <1>3 DEF Device!OptionalOf
  <2>2. Device!MemoryBudget \in optFeatures' => Device!MemoryBudget \in enabled'
    <3>1. Device!MemoryBudget \in optFeatures' => Device!MemoryBudget \in optFeatures
      BY <1>1, <1>3 DEF Device!OptionalOf
    <3>2. chosen = Device!NoDevice => Device!MemoryBudget \notin optFeatures
      BY DEF DeviceInv, LoopInv
    <3> QED BY <1>1, <3>1, <3>2 DEF DeviceInv, Device!RecordsChosen
  <2>3. (Device!OptionalOf(Device!Chosen))' = Device!OptionalOf(dev) /\ (Device!SoC(Device!Chosen))' = Device!SoC(dev)
    BY <1>2 DEF Device!OptionalOf, Device!SoC
  <2>4. isSoC' <=> (Device!SoC(Device!Chosen))'
    BY <1>1, <2>3
  <2> QED BY <2>1, <2>2, <2>3, <2>4 DEF Device!RecordsChosen
<1>6. LoopInv'
  <2>1. (Device!Eligible(Device!Chosen))'
    BY <1>1, <1>2 DEF Device!Eligible
  <2> QED BY <1>0, <1>1, <2>1 DEF LoopInv, Afterwards, Device!NoDevice
<1>7. StageInv'
  BY <1>1 DEF DeviceInv, StageInv, Device!Baseline, Afterwards
<1> QED BY <1>4, <1>5, <1>6, <1>7 DEF DeviceInv

(* Each step after the loop adds its own to what is established. *)
LEMMA AfterKeeps ==
  ASSUME DeviceInv, \/ Device!SetFormats \/ Device!EnableRequired \/ Device!EnableMaintenance \/ Device!EnableBudget
              \/ Device!ChooseQueue \/ Device!CreateDevice \/ Device!Destroy \/ Device!DestroyInstance
  PROVE  DeviceInv'
<1>0. Len(physicalDevices) \in Nat
  BY EnumerationType DEF DeviceInv, Device!TypeOK
<1> USE DEF DeviceInv, Device!TypeOK, Device!PCs, Device!RecordsChosen, LoopInv, StageInv,
     Device!Baseline, Afterwards, Device!At, Device!Goto,
            Device!Given, Device!Unchosen, Device!Unmade, Device!NoDevice, Device!Chosen
<1>1. CASE Device!SetFormats
  BY <1>0, <1>1, LinearType DEF Device!SetFormats
<1>2. CASE Device!EnableRequired
  <2>1. CASE RequiredExtensions \subseteq Device!Chosen.extensions
    BY <1>0, <1>2, <2>1 DEF Device!EnableRequired
  <2>2. CASE ~(RequiredExtensions \subseteq Device!Chosen.extensions)
    BY <1>0, <1>2, <2>2 DEF Device!EnableRequired
  <2> QED BY <2>1, <2>2
<1>3. CASE Device!EnableMaintenance
  BY <1>0, <1>3 DEF Device!EnableMaintenance
<1>4. CASE Device!EnableBudget
  <2>1. Device!MemoryBudget \notin Device!OptionalFeatures
    BY DEF Device!MemoryBudget, Device!OptionalFeatures, Device!TextureFeatures, Device!Maintenance1
  <2>2. CASE Device!MemoryBudget \in Device!Chosen.extensions
    <3>1. enabled' = enabled \cup {Device!MemoryBudget} /\ optFeatures' = optFeatures \cup {Device!MemoryBudget}
      BY <1>4, <2>2 DEF Device!EnableBudget
    <3>2. optFeatures' \cap Device!OptionalFeatures = optFeatures \cap Device!OptionalFeatures
      BY <2>1, <3>1
    <3> QED BY <1>0, <1>4, <2>1, <2>2, <3>1, <3>2 DEF Device!EnableBudget
  <2>3. CASE Device!MemoryBudget \notin Device!Chosen.extensions
    BY <1>0, <1>4, <2>3 DEF Device!EnableBudget
  <2> QED BY <2>2, <2>3
<1>5. CASE Device!ChooseQueue
  BY <1>0, <1>5 DEF Device!ChooseQueue, Device!Universal
<1>6. CASE Device!CreateDevice
  <2>1. CASE UNCHANGED device /\ devicePc' = "exited"
    BY <1>0, <1>6, <2>1 DEF Device!CreateDevice
  <2>2. CASE /\ Device!WantedFeatures \subseteq Device!Chosen.features
             /\ device' = [extensions |-> enabled, features |-> Device!WantedFeatures]
             /\ devicePc' = "created"
    <3>1. /\ devicePc = "create" /\ chosen # Device!NoDevice /\ Device!Eligible(Device!Chosen)
          /\ UNCHANGED <<instance, physicalDevices, next, chosen, optFeatures, isSoC, comprFormats,
                         enabled, queueFamily>>
      BY <1>6 DEF Device!CreateDevice
    <3>2. Device!Baseline'
      <4>1. RequiredFeatures \subseteq Device!WantedFeatures
        BY DEF Device!WantedFeatures
      <4>2. Device!Maintenance1 \in Device!WantedFeatures => Device!Maintenance1 \in enabled
        <5>1. Device!Maintenance1 \in Device!OptionalFeatures
          BY DEF Device!OptionalFeatures
        <5>2. Device!Maintenance1 \in Device!Chosen.features => Device!Maintenance1 \in optFeatures
          BY <3>1, <5>1 DEF Device!OptionalOf
        <5> QED BY <2>2, <3>1, <5>2
      <4> QED BY <2>2, <3>1, <4>1, <4>2, EligibleType
    <3> QED BY <1>0, <2>2, <3>1, <3>2
  <2> QED BY <1>6, <2>1, <2>2 DEF Device!CreateDevice
<1>7. CASE Device!Destroy
  BY <1>0, <1>7 DEF Device!Destroy
<1>8. CASE Device!DestroyInstance
  <2>1. instance'.enabled = instance.enabled
    BY <1>8 DEF Device!DestroyInstance
  <2> QED BY <1>0, <1>8, <2>1 DEF Device!DestroyInstance
<1> QED BY <1>1, <1>2, <1>3, <1>4, <1>5, <1>6, <1>7, <1>8

(* No step of the two constructors breaks the invariant. *)
LEMMA DeviceStep == DeviceInv /\ [Device!Next]_Device!vars => DeviceInv'
<1> SUFFICES ASSUME DeviceInv, [Device!Next]_Device!vars PROVE DeviceInv'
  OBVIOUS
<1>1. CASE UNCHANGED Device!vars
  BY <1>1 DEF DeviceInv, Device!TypeOK, Device!RecordsChosen, LoopInv, StageInv, Device!Baseline,
     Device!Chosen, Device!vars, Device!Eligible,
              Device!OptionalOf, Device!SoC, Device!WantedFeatures
<1> QED BY <1>1, BeforeKeeps, SkipKeeps, ChooseKeeps, AfterKeeps DEF Device!Next

-----------------------------------------------------------------------------
(* choosePhysicalDevice may choose several devices in one loop; what it    *)
(* has recorded in the end is true of the last.                            *)
THEOREM RecordsAreOfChosen == Device!Spec => [](Device!TypeOK /\ Device!RecordsChosen)
<1>1. DeviceInv => Device!TypeOK /\ Device!RecordsChosen
  BY DEF DeviceInv
<1> QED BY <1>1, InitDevice, DeviceStep, PTL DEF Device!Spec

(* A Device that is there has the baseline device-vk.h promises, although  *)
(* the choice itself does not look at the extensions.                      *)
THEOREM CreatedHasBaseline == Device!Spec => [](Device!Baseline /\ Device!LinearUsable)
<1>1. DeviceInv => Device!Baseline /\ Device!LinearUsable
  BY DEF DeviceInv, StageInv, Device!LinearUsable, Afterwards
<1> QED BY <1>1, InitDevice, DeviceStep, PTL DEF Device!Spec

(* The order of the enumeration decides, the score does not.               *)
THEOREM LastWins == Device!Spec => []Device!LastEligible
<1>1. DeviceInv => Device!LastEligible
  <2> SUFFICES ASSUME DeviceInv PROVE Device!LastEligible
    OBVIOUS
  <2>1. Len(physicalDevices) \in Nat
    BY EnumerationType DEF DeviceInv, Device!TypeOK
  <2> QED BY <2>1 DEF DeviceInv, Device!TypeOK, LoopInv, Device!LastEligible, Afterwards
<1> QED BY <1>1, InitDevice, DeviceStep, PTL DEF Device!Spec
=============================================================================
