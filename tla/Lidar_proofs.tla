---------------------------- MODULE Lidar_proofs ----------------------------
(***************************************************************************)
(* Proofs about what the lidar is for.  LidarFrames, for a turn of any     *)
(* length and whatever is read at once and lost on the line: no frame is   *)
(* published more than three times, frames are whole turns again soon      *)
(* after a loss, and, if a read brings no more than half a turn, they are  *)
(* fresh.  ObstacleStop, for queues of any depth: obstacle_detection has   *)
(* the last word when it ends.                                             *)
(***************************************************************************)
EXTENDS LidarFrames, ObstacleStop, FiniteSetTheorems, SequenceTheorems,
        WellFoundedInduction, TLAPS
-----------------------------------------------------------------------------
(* A copy of the newest frame can still come from the flag about to be     *)
(* set, from the flag, and from a fetch that has taken the flag back:      *)
(* Pending counts them.  Every step of main but the copy leaves Pending as *)
(* it is, setting the flag adds none, the copy uses one up, and a new      *)
(* frame starts from nothing.                                              *)

(* What the argument needs to know of the types.                           *)
Counts ==
  /\ made \in Nat /\ got \in Nat /\ times \in Nat
  /\ ready \in BOOLEAN
  /\ rpc \in {"read", "flag"}
  /\ mpc \in {"connect", "check", "reset", "copy", "exited"}

IInv == Counts /\ RepeatInv

(* Nothing has been fetched at the start.                                  *)
LEMMA RepeatInit == Init => IInv
<1> SUFFICES ASSUME Init PROVE IInv
  OBVIOUS
<1>1. ready \in BOOLEAN /\ ~ready
  BY Zenon DEF Init
<1>2. made = 0 /\ got = 0 /\ times = 0 /\ rpc = "read" /\ mpc = "connect"
  BY DEF Init
<1>3. Pending = 0
  BY <1>1, <1>2, SMT DEF Pending
<1>4. QED
  BY <1>1, <1>2, <1>3, SMT DEF IInv, Counts, RepeatInv, RepeatsBounded

(* A step of either thread keeps the sum of fetches made and to come.      *)
LEMMA RepeatStep == IInv /\ [Next]_vars => IInv'
<1> SUFFICES ASSUME IInv, [Next]_vars PROVE IInv'
  OBVIOUS
<1> USE DEF IInv, Counts, RepeatInv, RepeatsBounded, Pending
<1>1. CASE Read
  <2>1. PICK f : AssemblePacket(f)
    BY <1>1 DEF Read
  <2>2. UNCHANGED <<ready, mpc, got, times>>
    BY <1>1 DEF Read, fetching
  <2>3. CASE \E c \in Cuts(f) : HandOver(f, c)
    <3>1. made' = made + 1 /\ rpc' = "flag"
      BY <2>3 DEF HandOver
    <3>2. QED
      BY <2>2, <3>1, SMT
  <2>4. CASE Collect(f) \/ \E c \in Cuts(f) : Discard(f, c)
    <3>1. UNCHANGED <<made, rpc>>
      BY <2>4 DEF Collect, Discard
    <3>2. QED
      BY <2>2, <3>1, SMT
  <2>5. QED
    BY <2>1, <2>3, <2>4 DEF AssemblePacket
<1>2. CASE Flag
  BY <1>2, SMT DEF Flag, fetching
<1>3. CASE Connect
  BY <1>3, SMT DEF Connect
<1>4. CASE Check
  BY <1>4, SMT DEF Check
<1>5. CASE ResetReady
  <2>1. ready' \in BOOLEAN /\ ~ready'
    BY <1>5, Zenon DEF ResetReady
  <2>2. /\ mpc = "reset" /\ mpc' = "copy"
        /\ UNCHANGED <<rpc, made, got, times>>
    BY <1>5 DEF ResetReady
  <2>3. QED
    BY <2>1, <2>2, SMT
<1>6. CASE Copy
  BY <1>6, SMT DEF Copy
<1>7. CASE UNCHANGED vars
  BY <1>7, SMT DEF vars, fetching
<1>8. QED
  BY <1>1, <1>2, <1>3, <1>4, <1>5, <1>6, <1>7 DEF Next, Wait

(* No frame is fetched, and so published, more than three times: a lidar   *)
(* that fell silent does not look like one that works.                     *)
THEOREM RepeatsCorrect == Spec => []RepeatsBounded
<1>1. IInv => RepeatsBounded
  BY DEF IInv, RepeatInv
<1>2. QED
  BY <1>1, RepeatInit, RepeatStep, PTL DEF Spec

(* A frame that is handed over is fetched, or the flag is still up for it  *)
(* or about to be, or main is about to copy: however the reader thread and *)
(* main interleave, no wake-up is lost between them.                       *)
THEOREM OverlookedCorrect == Spec => []NoneOverlooked
<1>1. Init => NoneOverlooked
  BY SMT DEF Init, NoneOverlooked
<1>2. ASSUME IInv, NoneOverlooked, [Next]_vars PROVE NoneOverlooked'
  <2> USE DEF NoneOverlooked
  <2>1. CASE Read
    <3>1. PICK f : AssemblePacket(f)
      BY <2>1 DEF Read
    <3>2. UNCHANGED <<ready, mpc, got>>
      BY <2>1 DEF Read, fetching
    <3>3. rpc' = "flag" \/ UNCHANGED <<made, rpc>>
      BY <3>1 DEF AssemblePacket, Collect, Discard, HandOver
    <3>4. QED
      BY <1>2, <3>2, <3>3, Zenon
  <2>2. CASE Flag
    BY <2>2, Zenon DEF Flag
  <2>3. CASE Connect
    BY <1>2, <2>3, Zenon DEF Connect
  <2>4. CASE Check
    BY <1>2, <2>4, Zenon DEF Check
  <2>5. CASE ResetReady
    BY <2>5, Zenon DEF ResetReady
  <2>6. CASE Copy
    <3>1. got' = made /\ made' = made /\ made \in Nat
      BY <1>2, <2>6, Zenon DEF Copy, IInv, Counts
    <3>2. ~(got' < made')
      BY <3>1, SMT
    <3>3. QED
      BY <3>2, Zenon
  <2>7. CASE UNCHANGED vars
    BY <1>2, <2>7, Zenon DEF vars, fetching
  <2>8. QED
    BY <1>2, <2>1, <2>2, <2>3, <2>4, <2>5, <2>6, <2>7 DEF Next, Wait
<1>3. QED
  BY <1>1, <1>2, RepeatInit, RepeatStep, PTL DEF Spec
-----------------------------------------------------------------------------
(* Frames heal.  What is collected, followed by the number of the packet   *)
(* to come, is Unbroken: a number is missing only up to the latest loss.   *)
(* A turn after that loss, the cutting is in step again, since a passage   *)
(* of zero cannot be missed there: what is collected begins at zero        *)
(* (Aligned), and the first passage is one turn later.                     *)

Unbroken(f, last) ==
  \A i \in 1..(Len(f) - 1) : /\ f[i] < f[i + 1]
                             /\ f[i + 1] = f[i] + 1 \/ f[i + 1] <= last + 1

(* A turn after the latest loss.                                           *)
Clear(n, last) == last = -1 \/ n > last + Sectors

FrameInv ==
  /\ sent \in Nat /\ lastLost \in Int /\ -1 <= lastLost /\ lastLost < sent
  /\ synced \in BOOLEAN /\ first_frame \in BOOLEAN
  /\ frame_tmp \in Seq(Nat) /\ laser \in Seq(Nat)
  /\ ~synced => frame_tmp = <<>> /\ first_frame
  /\ Unbroken(Append(frame_tmp, sent), lastLost)
  /\ ~first_frame /\ Clear(Append(frame_tmp, sent)[1], lastLost)
       => Append(frame_tmp, sent)[1] % Sectors = 0
  /\ laser # <<>> => laser[1] < sent
  /\ Healed

(* A set of numbers has a least one: what induction over numbers is here.  *)
LEMMA LeastNumber ==
  ASSUME NEW T \in SUBSET Nat, T # {}
  PROVE  \E n \in T : \A m \in T : n <= m
<1>1. PICK n \in T : \A m \in T : <<m, n>> \notin OpToRel(<, Nat)
  BY NatLessThanWellFounded, WFMin, Zenon
<1>2. \A m \in T : ~(m < n)
  BY <1>1, Zenon DEF OpToRel
<1>3. QED
  BY <1>2, SMT

(* Numbers in a row, and one more behind them.                             *)
LEMMA Elements ==
  ASSUME NEW f \in Seq(Nat), NEW n \in Nat
  PROVE  /\ Len(f) \in Nat /\ \A i \in 1..Len(f) : f[i] \in Nat
         /\ Append(f, n) \in Seq(Nat) /\ Len(Append(f, n)) = Len(f) + 1
         /\ \A i \in 1..Len(f) : Append(f, n)[i] = f[i]
         /\ Append(f, n)[Len(f) + 1] = n
  BY SMT

(* Numbers between two of an unbroken sequence are missing only if they    *)
(* are not after the latest loss.                                          *)
LEMMA Spread ==
  ASSUME NEW f \in Seq(Nat), NEW last \in Int, Unbroken(f, last),
         NEW i \in 1..Len(f), NEW j \in i..Len(f)
  PROVE  /\ f[j] - f[i] >= j - i
         /\ f[j] - f[i] = j - i \/ f[j] - last <= j - i
<1> DEFINE Right(k) == /\ f[k] - f[i] >= k - i
                       /\ f[k] - f[i] = k - i \/ f[k] - last <= k - i
           T == {k \in Nat : k \in i..Len(f) /\ ~Right(k)}
<1>1. SUFFICES ASSUME T # {} PROVE FALSE
  <2>1. j \in Nat /\ j \in i..Len(f)
    OBVIOUS
  <2>2. Right(j) \/ j \in T
    BY <2>1, Zenon
  <2>3. QED
    BY <2>2, Zenon
<1>2. PICK k \in T : \A m \in T : k <= m
  BY <1>1, LeastNumber, Zenon
<1>3. k \in Nat /\ k \in i..Len(f) /\ ~Right(k)
  BY <1>2
<1>3a. \A n \in Nat : n \in i..Len(f) /\ n < k => Right(n)
  BY <1>2, SMT
<1> HIDE DEF T
<1>4. k # i
  <2>1. f[i] \in Nat
    BY SMT
  <2>2. QED
    BY <1>3, <2>1, SMT
<1>5. k - 1 \in Nat /\ k - 1 \in i..Len(f)
  BY <1>3, <1>4, SMT
<1>6. Right(k - 1)
  BY <1>3, <1>3a, <1>5, SMTT(30)
<1>7. f[k - 1] < f[k] /\ (f[k] = f[k - 1] + 1 \/ f[k] <= last + 1)
  BY <1>3, <1>5, SMTT(30) DEF Unbroken
<1>8. f[k] \in Nat /\ f[k - 1] \in Nat /\ f[i] \in Nat
  <2>1. k \in 1..Len(f) /\ k - 1 \in 1..Len(f) /\ i \in 1..Len(f)
    BY <1>3, <1>5, SMT
  <2>2. \A n \in 1..Len(f) : f[n] \in Nat
    OBVIOUS
  <2>3. QED
    BY <2>1, <2>2
<1>9. i \in Int /\ k \in Int /\ i <= k - 1
  BY <1>3, <1>5, SMT
<1>10. Right(k)
  <2> DEFINE a == f[i]
             b == f[k - 1]
             c == f[k]
  <2>1. b - a >= (k - 1) - i /\ (b - a = (k - 1) - i \/ b - last <= (k - 1) - i)
    BY <1>6
  <2>2. a \in Nat /\ b \in Nat /\ c \in Nat /\ b < c /\ (c = b + 1 \/ c <= last + 1)
    BY <1>7, <1>8
  <2> HIDE DEF a, b, c
  <2>3. c - a >= k - i /\ (c - a = k - i \/ c - last <= k - i)
    BY <1>9, <2>1, <2>2, SMT
  <2>4. QED
    BY <2>3 DEF a, c
<1>11. QED
  BY <1>3, <1>10

(* Division.                                                               *)
LEMMA Remainder ==
  ASSUME NEW q \in Int, NEW r \in Nat, NEW n \in Nat \ {0}, r < n
  PROVE  ((n * q) + r) % n = r
  BY SMT

LEMMA Quotient ==
  ASSUME NEW a \in Nat, NEW n \in Nat \ {0}
  PROVE  /\ a = (n * (a \div n)) + (a % n)
         /\ a \div n \in Int /\ a % n \in 0..(n - 1)
  BY SMT

(* The angle goes up by a sector with each packet of a turn, and passes    *)
(* zero once.                                                              *)
LEMMA Turning ==
  ASSUME NEW a \in Nat, NEW j \in 0..Sectors
  PROVE  /\ a % Sectors \in 0..(Sectors - 1)
         /\ (a + j) % Sectors = IF (a % Sectors) + j < Sectors
                                THEN (a % Sectors) + j
                                ELSE (a % Sectors) + j - Sectors
<1> DEFINE q == a \div Sectors
           r == a % Sectors
<1>1. Sectors \in Nat \ {0}
  BY LidarAssumption
<1>2. a = (Sectors * q) + r /\ q \in Int /\ r \in 0..(Sectors - 1)
  BY <1>1, Quotient
<1> HIDE DEF q, r
<1>3. CASE r + j < Sectors
  <2>1. a + j = (Sectors * q) + (r + j) /\ r + j \in Nat
    BY <1>1, <1>2, SMT
  <2>2. ((Sectors * q) + (r + j)) % Sectors = r + j
    BY <1>1, <1>2, <1>3, <2>1, Remainder
  <2>3. QED
    BY <1>2, <1>3, <2>1, <2>2 DEF r
<1>4. CASE ~(r + j < Sectors)
  <2>1. /\ a + j = (Sectors * (q + 1)) + (r + j - Sectors)
        /\ r + j - Sectors \in Nat /\ r + j - Sectors < Sectors
    BY <1>1, <1>2, <1>4, SMT
  <2>2. ((Sectors * (q + 1)) + (r + j - Sectors)) % Sectors = r + j - Sectors
    <3>1. q + 1 \in Int
      BY <1>2
    <3>2. QED
      BY <1>1, <2>1, <3>1, Remainder, Zenon
  <2>3. QED
    BY <1>2, <1>4, <2>1, <2>2 DEF r
<1>5. QED
  BY <1>3, <1>4

(* What arrives of the packets numbered n to m - 1 is unbroken, with m     *)
(* behind it, and so is what is left of it without the first.              *)
LEMMA ArrivalsUnbroken ==
  ASSUME NEW n \in Nat, NEW m \in Nat, n < m, NEW last \in Int,
         NEW p \in Arrivals(n, m - 1),
         \A x \in Missing(p, n, m - 1) : x <= last
  PROVE  /\ p \in Seq(Nat)
         /\ \A i \in 1..Len(p) : p[i] \in n..(m - 1)
         /\ Unbroken(Append(p, m), last)
         /\ Append(p, m)[1] = n \/ Append(p, m)[1] <= last + 1
<1> DEFINE g == Append(p, m)
<1>1. PICK k \in 0..(m - n) : p \in [1..k -> n..(m - 1)]
  BY SMT DEF Arrivals
<1>2. p \in Seq(Nat) /\ Len(p) = k /\ \A i \in 1..k : p[i] \in n..(m - 1)
  <2>1. k \in Nat /\ n..(m - 1) \subseteq Nat
    BY SMT
  <2>2. p \in [1..k -> Nat]
    BY <1>1, <2>1
  <2>3. QED
    BY <1>1, <2>1, <2>2, SMT
<1>3. \A i, j \in 1..k : i < j => p[i] < p[j]
  <2>1. DOMAIN p = 1..k
    BY <1>1
  <2>2. QED
    BY <2>1 DEF Arrivals
<1>4. /\ g \in Seq(Nat) /\ Len(g) = k + 1 /\ g[k + 1] = m
      /\ \A i \in 1..k : g[i] = p[i]
  BY <1>2, SMT
<1>5. \A x \in n..(m - 1) : (\A i \in 1..k : p[i] # x) => x <= last
  <2>1. DOMAIN p = 1..k
    BY <1>1
  <2>2. QED
    BY <2>1, Zenon DEF Missing
<1> HIDE DEF g
<1>6. ASSUME NEW i \in 1..k
      PROVE  g[i] < g[i + 1] /\ (g[i + 1] = g[i] + 1 \/ g[i + 1] <= last + 1)
  <2>1. g[i] \in n..(m - 1) /\ g[i + 1] \in n..m /\ g[i] < g[i + 1]
    <3>1. CASE i = k
      BY <1>2, <1>4, <3>1, SMT
    <3>2. CASE i # k
      <4>1. i + 1 \in 1..k
        BY <3>2, SMT
      <4>2. p[i] < p[i + 1]
        BY <1>3, <4>1, SMT
      <4>3. QED
        BY <1>2, <1>4, <4>1, <4>2, SMT
    <3>3. QED
      BY <3>1, <3>2
  <2>2. SUFFICES ASSUME g[i + 1] # g[i] + 1 PROVE g[i + 1] <= last + 1
    BY <2>1
  <2>3. g[i + 1] - 1 \in n..(m - 1) /\ g[i] < g[i + 1] - 1
    BY <2>1, <2>2, SMT
  <2>4. ASSUME NEW t \in 1..k PROVE p[t] # g[i + 1] - 1
    <3>1. CASE t <= i
      <4>1. p[t] <= p[i]
        BY <1>2, <1>3, <3>1, SMTT(30)
      <4>2. QED
        BY <1>2, <1>4, <2>3, <4>1, SMT
    <3>2. CASE ~(t <= i)
      <4>1. i + 1 \in 1..k /\ p[i + 1] <= p[t]
        BY <1>2, <1>3, <3>2, SMTT(30)
      <4>2. QED
        BY <1>2, <1>4, <2>3, <4>1, SMT
    <3>3. QED
      BY <3>1, <3>2
  <2>5. QED
    BY <1>5, <2>1, <2>3, <2>4, SMT
<1>7. g[1] = n \/ g[1] <= last + 1
  <2>1. SUFFICES ASSUME g[1] # n PROVE g[1] <= last + 1
    OBVIOUS
  <2>2. g[1] \in n..m
    BY <1>2, <1>4, SMT
  <2>3. g[1] - 1 \in n..(m - 1)
    BY <2>1, <2>2, SMT
  <2>4. ASSUME NEW t \in 1..k PROVE p[t] # g[1] - 1
    <3>1. 1 \in 1..k /\ p[1] <= p[t]
      BY <1>2, <1>3, SMT
    <3>2. QED
      BY <1>2, <1>4, <2>3, <3>1, SMT
  <2>5. QED
    BY <1>5, <2>2, <2>3, <2>4, SMT
<1>8. Unbroken(g, last)
  <2>1. Len(g) - 1 = k
    BY <1>4, SMT
  <2>2. QED
    BY <1>6, <2>1, Zenon DEF Unbroken
<1>9. \A i \in 1..Len(p) : p[i] \in n..(m - 1)
  BY <1>2, Zenon
<1>10. QED
  BY <1>2, <1>7, <1>8, <1>9, Zenon DEF g

(* What was collected goes on with what arrives.                           *)
LEMMA JoinUnbroken ==
  ASSUME NEW f \in Seq(Nat), NEW h \in Seq(Nat), h # <<>>, NEW n \in Nat,
         NEW old \in Int, NEW last \in Int, old <= last,
         Unbroken(Append(f, n), old), Unbroken(h, last),
         h[1] = n \/ (n <= h[1] /\ h[1] <= last + 1)
  PROVE  Unbroken(f \o h, last)
<1> DEFINE g == f \o h
<1>1. SUFFICES ASSUME NEW i \in 1..(Len(g) - 1)
               PROVE  g[i] < g[i + 1] /\ (g[i + 1] = g[i] + 1 \/ g[i + 1] <= last + 1)
  BY DEF Unbroken
<1>2. Len(f) \in Nat /\ Len(h) \in Nat /\ Len(h) > 0 /\ Len(g) = Len(f) + Len(h)
  BY SMT
<1>3. \A t \in 1..Len(f) : g[t] = f[t] /\ f[t] \in Nat
  BY SMTT(30)
<1>4. \A t \in 1..Len(h) : g[Len(f) + t] = h[t] /\ h[t] \in Nat
  BY SMT
<1>5. ASSUME NEW t \in 1..(Len(f) - 1)
      PROVE  f[t] < f[t + 1] /\ (f[t + 1] = f[t] + 1 \/ f[t + 1] <= old + 1)
  <2> DEFINE e == Append(f, n)
  <2>1. t \in 1..(Len(e) - 1) /\ t \in 1..Len(f) /\ t + 1 \in 1..Len(f)
    BY Elements, SMT
  <2>2. e[t] = f[t] /\ e[t + 1] = f[t + 1]
    BY <2>1, Elements
  <2>3. QED
    BY <2>1, <2>2 DEF Unbroken
<1>6. ASSUME Len(f) > 0
      PROVE  f[Len(f)] < n /\ (n = f[Len(f)] + 1 \/ n <= old + 1)
  <2> DEFINE e == Append(f, n)
  <2>1. Len(f) \in 1..(Len(e) - 1) /\ Len(f) \in 1..Len(f)
    BY <1>6, Elements, SMT
  <2>2. e[Len(f)] = f[Len(f)] /\ e[Len(f) + 1] = n
    BY <2>1, Elements
  <2>3. QED
    BY <2>1, <2>2 DEF Unbroken
<1>7. \A t \in 1..(Len(h) - 1) : h[t] < h[t + 1] /\ (h[t + 1] = h[t] + 1 \/ h[t + 1] <= last + 1)
  BY DEF Unbroken
<1> HIDE DEF g
<1>8. CASE i < Len(f)
  <2>1. i \in 1..(Len(f) - 1) /\ i \in 1..Len(f) /\ i + 1 \in 1..Len(f)
    BY <1>2, <1>8, SMTT(30)
  <2> DEFINE a == f[i]
             b == f[i + 1]
  <2>2. a \in Nat /\ b \in Nat /\ a < b /\ (b = a + 1 \/ b <= old + 1)
    BY <1>3, <1>5, <2>1
  <2>3. g[i] = a /\ g[i + 1] = b
    BY <1>3, <2>1
  <2> HIDE DEF a, b
  <2>4. a < b /\ (b = a + 1 \/ b <= last + 1)
    BY <2>2, SMT
  <2>5. QED
    BY <2>3, <2>4
<1>9. CASE i = Len(f)
  <2>1. g[i] = f[i] /\ f[i] \in Nat /\ g[i + 1] = h[1] /\ h[1] \in Nat
    BY <1>2, <1>3, <1>4, <1>9, SMT
  <2>2. f[i] < n /\ (n = f[i] + 1 \/ n <= old + 1)
    BY <1>2, <1>6, <1>9, SMT
  <2> DEFINE a == f[i]
             b == h[1]
  <2>3. a \in Nat /\ b \in Nat /\ a < n /\ (n = a + 1 \/ n <= old + 1)
        /\ (b = n \/ (n <= b /\ b <= last + 1))
    BY <2>1, <2>2
  <2> HIDE DEF a, b
  <2>4. a < b /\ (b = a + 1 \/ b <= last + 1)
    BY <2>3, SMT
  <2>5. QED
    BY <2>1, <2>4 DEF a, b
<1>10. CASE i > Len(f)
  <2> DEFINE t == i - Len(f)
  <2>1. t \in 1..(Len(h) - 1) /\ t \in 1..Len(h) /\ t + 1 \in 1..Len(h)
    BY <1>1, <1>2, <1>10, SMT
  <2>2. i = Len(f) + t /\ i + 1 = Len(f) + (t + 1)
    BY <1>2, SMT
  <2> HIDE DEF t
  <2>3. g[i] = h[t] /\ g[i + 1] = h[t + 1]
    BY <1>4, <2>1, <2>2
  <2>4. QED
    BY <1>7, <2>1, <2>3
<1>11. QED
  BY <1>2, <1>8, <1>9, <1>10, SMT

(* None is missing after a number that is clear of the latest loss.        *)
LEMMA Consecutive ==
  ASSUME NEW g \in Seq(Nat), NEW last \in Int, -1 <= last, Unbroken(g, last),
         NEW i \in 1..Len(g), Clear(g[i], last)
  PROVE  \A j \in i..Len(g) : g[j] = g[i] + (j - i)
<1> SUFFICES ASSUME NEW j \in i..Len(g) PROVE g[j] = g[i] + (j - i)
  OBVIOUS
<1>1. Sectors \in Nat
  BY LidarAssumption
<1>2. g[i] \in Nat /\ g[j] \in Nat
  BY SMT
<1> DEFINE a == g[i]
           b == g[j]
<1>3. b - a >= j - i /\ (b - a = j - i \/ b - last <= j - i)
  BY Spread
<1>4. last = -1 \/ a > last + Sectors
  BY DEF Clear
<1>5. a \in Nat /\ b \in Nat
  BY <1>2
<1> HIDE DEF a, b
<1>6. i \in Int /\ j \in Int
  BY SMT
<1>7. b = a + (j - i)
  BY <1>1, <1>3, <1>4, <1>5, <1>6, SMT
<1>8. QED
  BY <1>7 DEF a, b

(* The points before the first passage of zero are one turn if they begin  *)
(* at zero and nothing is missing since.                                   *)
LEMMA WholeTurns ==
  ASSUME NEW f \in Seq(Nat), NEW m \in Nat, NEW last \in Int, -1 <= last,
         Unbroken(Append(f, m), last), NEW c \in 1..Len(f), IsCut(f, c), ~TooLong(c),
         Clear(f[1], last), f[1] % Sectors = 0
  PROVE  WholeTurn(SubSeq(f, 1, c))
<1> DEFINE S == Sectors
<1>1. S \in Nat \ {0, 1}
  BY LidarAssumption
<1>2. c \in 1..(Len(f) - 1) /\ Wrap(f[c], f[c + 1])
  <2>1. c # 2 * Sectors + 1
    BY <1>1, SMT DEF TooLong
  <2>2. QED
    BY <2>1, SMT DEF IsCut, Cuts, Passages, Overflow
<1>3. \A d \in 1..(Len(f) - 1) : d < c => ~Wrap(f[d], f[d + 1])
  BY SMT DEF IsCut, Cuts, Passages
<1>4. f[1] \in Nat /\ Len(f) \in Nat
  BY SMT
<1> DEFINE g == Append(f, m)
           a == f[1]
<1>5. g \in Seq(Nat) /\ Len(g) = Len(f) + 1 /\ \A j \in 1..Len(f) : g[j] = f[j]
  BY Elements
<1>6. \A j \in 1..Len(f) : f[j] = a + (j - 1)
  <2>1. 1 \in 1..Len(g) /\ g[1] = f[1] /\ \A j \in 1..Len(f) : j \in 1..Len(g)
    BY <1>2, <1>4, <1>5, SMT
  <2> HIDE DEF g
  <2>2. \A j \in 1..Len(g) : g[j] = g[1] + (j - 1)
    BY <1>5, <2>1, Consecutive DEF g
  <2>3. QED
    BY <1>5, <2>1, <2>2
<1>7. a \in Nat /\ a % S = 0
  BY <1>4
<1> HIDE DEF a, g
<1>8. \A j \in 0..S : (a + j) % S = IF j < S THEN j ELSE 0
  <2> SUFFICES ASSUME NEW j \in 0..S PROVE (a + j) % S = IF j < S THEN j ELSE 0
    OBVIOUS
  <2>1. (a + j) % S = IF (a % S) + j < S THEN (a % S) + j ELSE (a % S) + j - S
    BY <1>7, Turning
  <2>2. QED
    BY <1>1, <1>7, <2>1, SMTT(30)
<1>9. c = S
  <2>1. CASE c < S
    <3>1. c - 1 \in 0..S /\ c - 1 < S /\ c \in 1..Len(f)
      BY <1>1, <1>2, <2>1, SMT
    <3>2. f[c] % S = c - 1
      BY <1>6, <1>8, <3>1
    <3>3. QED
      BY <1>1, <1>2, <2>1, <3>1, <3>2, SMT DEF Wrap
  <2>2. CASE S < c
    <3>1. /\ S \in 1..(Len(f) - 1) /\ S \in 1..Len(f) /\ S + 1 \in 1..Len(f)
          /\ S - 1 \in 0..S /\ S - 1 < S /\ S \in 0..S /\ (S + 1) - 1 = S /\ ~(S < S)
      BY <1>1, <1>2, <1>4, <2>2, SMTT(30)
    <3>2. f[S] = a + (S - 1) /\ f[S + 1] = a + S
      BY <1>6, <3>1
    <3>3. f[S] % S = S - 1 /\ f[S + 1] % S = 0
      BY <1>8, <3>1, <3>2
    <3>4. QED
      BY <1>3, <2>2, <3>1, <3>3 DEF Wrap
  <2>3. c \in Int
    BY <1>2
  <2>4. QED
    BY <1>1, <2>1, <2>2, <2>3, SMT
<1>10. QED
  <2> DEFINE w == SubSeq(f, 1, S)
  <2>1. w \in Seq(Nat) /\ Len(w) = S /\ \A i \in 1..S : w[i] = f[i]
    BY <1>1, <1>2, <1>9, SMTT(30)
  <2>2. w = [i \in 1..S |-> w[i]]
    BY <2>1, SMT
  <2>3. \A i \in 1..S : i \in 1..Len(f) /\ 1 \in 1..S /\ a + (1 - 1) = a /\ a + (i - 1) = a + i - 1
    BY <1>1, <1>2, <1>4, <1>7, <1>9, SMT
  <2>4. \A i \in 1..S : w[i] = w[1] + i - 1
    BY <1>6, <2>1, <2>3
  <2> HIDE DEF w
  <2>5. QED
    BY <1>9, <2>2, <2>4 DEF WholeTurn, w

(* What is left begins at zero, a turn after the latest loss: it was cut   *)
(* there, or the angle would have passed zero in the turn before.          *)
LEMMA CutAligned ==
  ASSUME NEW f \in Seq(Nat), NEW m \in Nat, NEW last \in Int, -1 <= last,
         Unbroken(Append(f, m), last), NEW c \in 1..Len(f), IsCut(f, c),
         Clear(Append(f, m)[c + 1], last)
  PROVE  Append(f, m)[c + 1] % Sectors = 0
<1> DEFINE g == Append(f, m)
           S == Sectors
<1>1. S \in Nat \ {0, 1}
  BY LidarAssumption
<1>2. /\ g \in Seq(Nat) /\ Len(f) \in Nat /\ Len(g) = Len(f) + 1
      /\ \A j \in 1..Len(f) : g[j] = f[j]
  BY Elements
<1>3. \A d \in 1..(Len(f) - 1) : d < c => ~Wrap(f[d], f[d + 1])
  BY SMT DEF IsCut, Cuts, Passages
<1>4. c \in Passages(f) \/ c = 2 * S + 1
  BY SMT DEF IsCut, Cuts, Overflow
<1> HIDE DEF g
<1>5. CASE c \in Passages(f)
  <2>1. c + 1 \in 1..Len(f) /\ Wrap(f[c], f[c + 1])
    <3> DEFINE L == Len(f)
    <3>1. c \in 1..(L - 1) /\ Wrap(f[c], f[c + 1])
      BY <1>5, Zenon DEF Passages
    <3>2. L \in Nat
      BY <1>2, Zenon
    <3> HIDE DEF L
    <3>3. c + 1 \in 1..L
      BY <3>1, <3>2
    <3>4. QED
      BY <3>1, <3>3, Zenon DEF L
  <2>2. g[c + 1] % S = 0
    BY <1>2, <2>1 DEF Wrap
  <2>3. QED
    BY <2>2 DEF g
<1>6. CASE c = 2 * S + 1
  <2> DEFINE i == S + 2
             a == g[i]
  <2>1. i \in 1..Len(g) /\ c + 1 \in i..Len(g) /\ c + 1 \in 1..Len(g) /\ (c + 1) - i = S
    BY <1>1, <1>2, <1>6, SMTT(30)
  <2>2. \A j \in 1..Len(g) : g[j] \in Nat
    BY <1>2, Elements
  <2>3. Unbroken(g, last) /\ Clear(g[c + 1], last)
    BY DEF g
  <2>4. g[c + 1] = a + S
    <3> DEFINE b == g[c + 1]
    <3>1. b - a >= S /\ (b - a = S \/ b - last <= S)
      <4> HIDE DEF i
      <4>1. /\ g[c + 1] - g[i] >= (c + 1) - i
            /\ g[c + 1] - g[i] = (c + 1) - i \/ g[c + 1] - last <= (c + 1) - i
        BY <1>2, <2>1, <2>3, Spread
      <4>2. QED
        BY <2>1, <4>1
    <3>2. a \in Nat /\ b \in Nat /\ (last = -1 \/ b > last + S)
      BY <2>1, <2>2, <2>3 DEF Clear
    <3> HIDE DEF a, b
    <3>3. b = a + S
      BY <1>1, <3>1, <3>2, SMT
    <3>4. QED
      BY <3>3 DEF b
  <2>5. ASSUME NEW j \in 0..S
        PROVE  g[i + j] = a + j
    <3> DEFINE k == i + j
               e == g[k]
    <3>1. /\ k \in 1..Len(g) /\ k \in i..Len(g) /\ c + 1 \in k..Len(g)
          /\ k - i = j /\ (c + 1) - k = S - j
      BY <1>1, <1>2, <1>6, SMTT(30)
    <3> HIDE DEF k, i
    <3>2. g[k] - g[i] >= k - i
      BY <1>2, <2>1, <2>3, <3>1, Spread
    <3>3. g[c + 1] - g[k] >= (c + 1) - k
      BY <1>2, <2>1, <2>3, <3>1, Spread
    <3>4. e - a >= j /\ (a + S) - e >= S - j /\ a \in Nat /\ e \in Nat
      BY <2>1, <2>2, <2>4, <3>1, <3>2, <3>3
    <3> HIDE DEF a, e
    <3>5. e = a + j
      BY <1>1, <3>4, SMT
    <3>6. QED
      BY <3>5 DEF e, k
  <2>6. a \in Nat
    BY <2>1, <2>2
  <2> HIDE DEF a
  <2>7. a % S \in 0..(S - 1)
    <3>1. 0 \in 0..S
      BY <1>1, SMT
    <3>2. QED
      BY <2>6, <3>1, Turning
  <2>8. a % S = 0
    <3>1. SUFFICES ASSUME a % S # 0 PROVE FALSE
      OBVIOUS
    <3> DEFINE r == a % S
               j == S - 1 - r
               d == i + j
    <3>2. r \in 1..(S - 1)
      BY <2>7, <3>1, SMT
    <3> HIDE DEF r
    <3>3. /\ j \in 0..S /\ j + 1 \in 0..S /\ r + j = S - 1 /\ r + (j + 1) = S
          /\ r + j < S /\ ~(r + (j + 1) < S) /\ r + (j + 1) - S = 0
      BY <1>1, <3>2, SMT
    <3>4. /\ d \in 1..(Len(f) - 1) /\ d < c /\ d \in 1..Len(f) /\ d + 1 \in 1..Len(f)
          /\ d + 1 = i + (j + 1)
      BY <1>1, <1>2, <1>6, <3>2, SMTT(30)
    <3> HIDE DEF j, i
    <3>5. (a + j) % S = S - 1 /\ (a + (j + 1)) % S = 0
      BY <2>6, <3>3, Turning DEF r
    <3>6. f[d] = a + j /\ f[d + 1] = a + (j + 1)
      BY <1>2, <2>5, <3>3, <3>4
    <3>7. QED
      BY <1>3, <3>4, <3>5, <3>6 DEF Wrap
  <2>9. (a + S) % S = 0
    <3>1. S \in 0..S /\ ~(0 + S < S) /\ 0 + S - S = 0
      BY <1>1, SMT
    <3>2. QED
      BY <2>6, <2>8, <3>1, Turning
  <2>10. QED
    BY <2>4, <2>9 DEF g
<1>7. QED
  BY <1>4, <1>5, <1>6

(* What is left when the front is taken away.                              *)
LEMMA RestUnbroken ==
  ASSUME NEW f \in Seq(Nat), NEW m \in Nat, NEW last \in Int,
         Unbroken(Append(f, m), last), NEW c \in 0..Len(f)
  PROVE  /\ Rest(f, c) \in Seq(Nat)
         /\ Append(Rest(f, c), m)[1] = Append(f, m)[c + 1]
         /\ Unbroken(Append(Rest(f, c), m), last)
<1> DEFINE r == Rest(f, c)
           g == Append(f, m)
           h == Append(r, m)
<1>1. /\ r \in Seq(Nat) /\ Len(r) = Len(f) - c
      /\ \A i \in 1..Len(r) : r[i] = f[c + i]
  BY SMT DEF Rest
<1> HIDE DEF r
<1>2. /\ Len(f) \in Nat /\ Len(g) = Len(f) + 1
      /\ \A i \in 1..Len(f) : g[i] = f[i]
      /\ g[Len(f) + 1] = m
  BY Elements
<1>3. /\ Len(r) \in Nat /\ Len(h) = Len(r) + 1
      /\ \A i \in 1..Len(r) : h[i] = r[i]
      /\ h[Len(r) + 1] = m
  BY <1>1, Elements
<1>4. Unbroken(g, last)
  OBVIOUS
<1> HIDE DEF g, h
<1>5. ASSUME NEW i \in 1..Len(h)
      PROVE  h[i] = g[c + i]
  <2>1. CASE i = Len(r) + 1
    <3>1. c + i = Len(f) + 1
      BY <1>1, <1>2, <2>1, SMT
    <3>2. QED
      BY <1>2, <1>3, <2>1, <3>1
  <2>2. CASE i # Len(r) + 1
    <3>1. i \in 1..Len(r) /\ c + i \in 1..Len(f)
      BY <1>1, <1>2, <1>3, <2>2, SMT
    <3>2. QED
      BY <1>1, <1>2, <1>3, <3>1
  <2>3. QED
    BY <2>1, <2>2
<1>6. Unbroken(h, last)
  <2> SUFFICES ASSUME NEW i \in 1..(Len(h) - 1)
               PROVE  h[i] < h[i + 1] /\ (h[i + 1] = h[i] + 1 \/ h[i + 1] <= last + 1)
    BY DEF Unbroken
  <2>1. /\ i \in 1..Len(h) /\ i + 1 \in 1..Len(h)
        /\ c + i \in 1..(Len(g) - 1) /\ c + (i + 1) = (c + i) + 1
    BY <1>1, <1>2, <1>3, SMTT(30)
  <2>2. h[i] = g[c + i] /\ h[i + 1] = g[(c + i) + 1]
    BY <1>5, <2>1
  <2>3. QED
    BY <1>4, <2>1, <2>2 DEF Unbroken
<1>7. h[1] = g[c + 1]
  <2>1. 1 \in 1..Len(h)
    BY <1>3, SMT
  <2>2. QED
    BY <1>5, <2>1
<1>8. QED
  BY <1>1, <1>6, <1>7 DEF r, g, h

(* Clear of the latest loss is clear of those before.                      *)
LEMMA ClearOfEarlier ==
  ASSUME NEW a \in Nat, NEW old \in Int, -1 <= old, NEW last \in Int, old <= last,
         Clear(a, last)
  PROVE  Clear(a, old)
<1>1. Sectors \in Nat
  BY LidarAssumption
<1>2. QED
  BY <1>1, SMT DEF Clear

LEMMA FrameInit == Init => FrameInv
<1> SUFFICES ASSUME Init PROVE FrameInv
  OBVIOUS
<1>1. /\ sent \in Nat /\ lastLost = -1 /\ frame_tmp = <<>> /\ laser = <<>>
      /\ synced = FALSE /\ first_frame = TRUE
  BY LidarAssumption, SMT DEF Init
<1>2. Unbroken(Append(frame_tmp, sent), lastLost)
  <2>1. frame_tmp \in Seq(Nat) /\ Len(frame_tmp) = 0
    BY <1>1
  <2>2. Len(Append(frame_tmp, sent)) = 1
    BY <1>1, <2>1, Elements, SMT
  <2>3. QED
    BY <2>2, SMT DEF Unbroken
<1>3. Healed
  BY <1>1 DEF Healed
<1>4. sent \in Nat /\ lastLost \in Int /\ -1 <= lastLost /\ lastLost < sent
  BY <1>1, SMT
<1>5. synced \in BOOLEAN /\ ~synced /\ first_frame \in BOOLEAN /\ first_frame
  BY <1>1, Zenon
<1>6. frame_tmp \in Seq(Nat) /\ laser \in Seq(Nat)
  BY <1>1
<1>7. QED
  BY <1>1, <1>2, <1>3, <1>4, <1>5, <1>6, Zenon DEF FrameInv

LEMMA JoinAssociative ==
  \A a, b, c \in Seq(Nat) : (a \o b) \o c = a \o (b \o c)
BY ConcatAssociative, SMTT(30)

LEMMA JoinAppend ==
  ASSUME NEW f \in Seq(Nat), NEW p \in Seq(Nat), NEW m \in Nat
  PROVE  f \o p \in Seq(Nat) /\ Append(f \o p, m) = f \o Append(p, m)
<1>1. f \o p \in Seq(Nat)
  BY ConcatProperties
<1>2. <<m>> \in Seq(Nat)
  OBVIOUS
<1>3. Append(f \o p, m) = (f \o p) \o <<m>> /\ Append(p, m) = p \o <<m>>
  BY <1>1, AppendIsConcat, Zenon
<1>4. (f \o p) \o <<m>> = f \o (p \o <<m>>)
  <2> DEFINE u == <<m>>
  <2>1. u \in Seq(Nat)
    BY <1>2
  <2> HIDE DEF u
  <2>2. (f \o p) \o u = f \o (p \o u)
    BY <2>1, JoinAssociative, Zenon
  <2>3. QED
    BY <2>2 DEF u
<1>5. QED
  BY <1>1, <1>3, <1>4, Zenon

(* A read: the points collected so far and those that arrived.             *)
LEMMA ReadUnbroken ==
  ASSUME FrameInv, NEW m \in Nat, sent < m, NEW last \in Int,
         NEW p \in Arrivals(sent, m - 1),
         last = lastLost \/ last \in Missing(p, sent, m - 1),
         \A q \in Missing(p, sent, m - 1) : q <= last
  PROVE  LET f == frame_tmp \o Parsed(p)
             g == Append(f, m)
         IN  /\ f \in Seq(Nat) /\ Unbroken(g, last)
             /\ lastLost <= last /\ last < m
             /\ ~first_frame /\ Clear(g[1], last) => g[1] % Sectors = 0
<1> DEFINE q == Parsed(p)
           f == frame_tmp \o q
           g == Append(f, m)
           h == Append(p, m)
           F == Append(frame_tmp, sent)
<1>1. /\ sent \in Nat /\ lastLost \in Int /\ -1 <= lastLost /\ lastLost < sent
      /\ frame_tmp \in Seq(Nat)
      /\ ~synced => frame_tmp = <<>> /\ first_frame
      /\ Unbroken(F, lastLost)
      /\ ~first_frame /\ Clear(F[1], lastLost) => F[1] % Sectors = 0
  BY DEF FrameInv
<1>2. lastLost <= last /\ last < m /\ -1 <= last
  <2>1. CASE last \in Missing(p, sent, m - 1)
    <3>1. last \in sent..(m - 1)
      BY <2>1, Zenon DEF Missing
    <3>2. QED
      BY <1>1, <3>1, SMT
  <2>2. CASE last = lastLost
    BY <1>1, <2>2, SMT
  <2>3. QED
    BY <2>1, <2>2
<1>3. /\ p \in Seq(Nat)
      /\ \A i \in 1..Len(p) : p[i] \in sent..(m - 1)
      /\ Unbroken(h, last)
      /\ h[1] = sent \/ h[1] <= last + 1
  BY <1>1, ArrivalsUnbroken, Zenon
<1>4. /\ h \in Seq(Nat) /\ h # <<>> /\ sent <= h[1] /\ h[1] \in Nat
      /\ p # <<>> => h[1] = p[1]
  <2>1. CASE p = <<>>
    <3>1. h[1] = m /\ h \in Seq(Nat) /\ h # <<>>
      BY <2>1, SMT
    <3>2. QED
      BY <1>1, <2>1, <3>1, SMT
  <2>2. CASE p # <<>>
    <3>1. 1 \in 1..Len(p)
      BY <1>3, <2>2, SMT
    <3>2. h[1] = p[1] /\ p[1] \in sent..(m - 1) /\ h \in Seq(Nat) /\ Len(h) = Len(p) + 1
      BY <1>3, <3>1, Elements
    <3>3. h # <<>>
      BY <1>3, <3>2, SMT
    <3>4. QED
      BY <1>1, <3>2, <3>3, SMTT(30)
  <2>3. QED
    BY <2>1, <2>2
<1>5. CASE q = p
  <2>1. g = frame_tmp \o h /\ f \in Seq(Nat)
    <3>1. /\ frame_tmp \o p \in Seq(Nat)
          /\ Append(frame_tmp \o p, m) = frame_tmp \o Append(p, m)
      BY <1>1, <1>3, JoinAppend, Zenon
    <3>2. QED
      BY <1>5, <3>1, Zenon
  <2>2. Unbroken(g, last)
    <3>1. h[1] = sent \/ (sent <= h[1] /\ h[1] <= last + 1)
      BY <1>3, <1>4
    <3> HIDE DEF h, F
    <3>2. Unbroken(frame_tmp \o h, last)
      BY <1>1, <1>2, <1>3, <1>4, <3>1, JoinUnbroken DEF F
    <3>3. QED
      BY <2>1, <3>2
  <2>3. ASSUME ~first_frame, Clear(g[1], last)
        PROVE  g[1] % Sectors = 0
    <3>1. CASE frame_tmp = <<>>
      <4>1. g[1] = h[1] /\ F[1] = sent
        BY <1>1, <1>3, <1>5, <3>1, SMT
      <4> HIDE DEF g, h, F
      <4> DEFINE a == h[1]
      <4>2. a \in Nat /\ sent <= a /\ (a = sent \/ a <= last + 1) /\ (last = -1 \/ a > last + Sectors)
        BY <1>3, <1>4, <2>3, <4>1 DEF Clear
      <4>3. Sectors \in Nat \ {0, 1}
        BY LidarAssumption
      <4> HIDE DEF a
      <4>4. a = sent /\ (lastLost = -1 \/ a > lastLost + Sectors)
        BY <1>1, <1>2, <4>2, <4>3, SMT
      <4>5. QED
        BY <1>1, <2>3, <4>1, <4>4 DEF Clear, a
    <3>2. CASE frame_tmp # <<>>
      <4>1. 1 \in 1..Len(frame_tmp)
        BY <1>1, <3>2, SMT
      <4>2. g[1] = frame_tmp[1] /\ F[1] = frame_tmp[1] /\ frame_tmp[1] \in Nat
        <5>1. F[1] = frame_tmp[1] /\ frame_tmp[1] \in Nat
          BY <1>1, <4>1, Elements
        <5>2. (frame_tmp \o h)[1] = frame_tmp[1]
          BY <1>1, <1>4, <4>1, SMT
        <5>3. QED
          BY <2>1, <5>1, <5>2
      <4> HIDE DEF g, h, F
      <4>3. Clear(g[1], lastLost)
        BY <1>1, <1>2, <2>3, <4>2, ClearOfEarlier
      <4>4. QED
        BY <1>1, <2>3, <4>2, <4>3
    <3>3. QED
      BY <3>1, <3>2
  <2>4. QED
    BY <1>2, <2>1, <2>2, <2>3
<1>6. CASE q # p
  <2>1. ~synced /\ p # <<>> /\ q = Tail(p)
    BY <1>6 DEF Parsed
  <2>2. frame_tmp = <<>> /\ first_frame
    BY <1>1, <2>1
  <2>3. q = Rest(p, 1) /\ 1 \in 0..Len(p)
    BY <1>3, <2>1, SMT DEF Rest
  <2>4. f = q
    BY <1>3, <2>1, <2>2, SMT
  <2> HIDE DEF q
  <2>5. q \in Seq(Nat) /\ Unbroken(Append(q, m), last)
    BY <1>3, <2>3, RestUnbroken
  <2>6. f \in Seq(Nat) /\ Unbroken(g, last)
    BY <2>4, <2>5
  <2> HIDE DEF f, g
  <2>7. QED
    BY <1>2, <2>2, <2>6 DEF f, g, q
<1>7. QED
  BY <1>5, <1>6

(* What AssemblePacket makes of them.                                      *)
LEMMA AssembleFrames ==
  ASSUME FrameInv, NEW f \in Seq(Nat), sent' \in Nat, lastLost' \in Int,
         lastLost <= lastLost', lastLost' < sent', sent < sent',
         Unbroken(Append(f, sent'), lastLost'),
         ~first_frame /\ Clear(Append(f, sent')[1], lastLost')
           => Append(f, sent')[1] % Sectors = 0,
         synced' \in BOOLEAN, ~synced' => f = <<>> /\ first_frame,
         AssemblePacket(f)
  PROVE  FrameInv'
<1> DEFINE m == sent'
           last == lastLost'
           g == Append(f, m)
<1>1. /\ sent \in Nat /\ lastLost \in Int /\ -1 <= lastLost /\ lastLost < sent
      /\ laser \in Seq(Nat) /\ first_frame \in BOOLEAN
      /\ laser # <<>> => laser[1] < sent
      /\ Healed
  BY DEF FrameInv
<1>2. m \in Nat /\ last \in Int /\ -1 <= last /\ last < m
  BY <1>1, SMT
<1>3. Sectors \in Nat \ {0, 1}
  BY LidarAssumption
<1>4. /\ Len(f) \in Nat /\ g \in Seq(Nat) /\ Len(g) = Len(f) + 1
      /\ \A i \in 1..Len(f) : f[i] \in Nat /\ g[i] = f[i]
      /\ g[Len(f) + 1] = m
  BY <1>2, Elements
<1>5. ASSUME laser' = laser
      PROVE  /\ laser' \in Seq(Nat)
             /\ laser' # <<>> => laser'[1] < sent'
             /\ Healed'
  <2>1. SUFFICES ASSUME laser # <<>>
                 PROVE  laser'[1] < sent' /\ Healed'
    BY <1>1, <1>5 DEF Healed
  <2> DEFINE a == laser[1]
  <2>2. a \in Nat /\ a < sent
    BY <1>1, <2>1, SMT
  <2>3. Clear(a, lastLost) => WholeTurn(laser)
    BY <1>1, <2>1 DEF Healed, Clear
  <2> HIDE DEF a
  <2>4. a < sent' /\ (Clear(a, last) => Clear(a, lastLost))
    <3>1. a < m
      BY <1>1, <1>2, <2>2, SMT
    <3>2. QED
      BY <1>1, <1>2, <2>2, <3>1, ClearOfEarlier
  <2>5. QED
    BY <1>5, <2>3, <2>4 DEF Healed, Clear, WholeTurn, a
<1>6. CASE Cuts(f) = {} /\ Collect(f)
  <2>1. frame_tmp' = f /\ first_frame' = first_frame /\ laser' = laser
    BY <1>6 DEF Collect
  <2> HIDE DEF m, last, g
  <2>2. QED
    BY <1>1, <1>2, <1>5, <2>1 DEF FrameInv, m, last
<1>7. ASSUME NEW c \in Cuts(f), IsCut(f, c),
             \/ ~IsFrame(c) /\ Discard(f, c)
             \/ IsFrame(c) /\ HandOver(f, c)
      PROVE  FrameInv'
  <2>1. c \in 1..Len(f) /\ c \in 0..Len(f)
    BY <1>3, <1>4, SMT DEF Cuts, Passages, Overflow
  <2>2. frame_tmp' = Rest(f, c) /\ first_frame' \in BOOLEAN
    BY <1>1, <1>7, Zenon DEF Discard, HandOver
  <2>3. /\ frame_tmp' \in Seq(Nat)
        /\ Append(frame_tmp', m)[1] = g[c + 1]
        /\ Unbroken(Append(frame_tmp', m), last)
    BY <1>2, <2>1, <2>2, RestUnbroken
  <2>4. Clear(g[c + 1], last) => g[c + 1] % Sectors = 0
    BY <1>2, <1>7, <2>1, CutAligned
  <2>5. synced'
    <3>1. f # <<>>
      BY <2>1, SMT
    <3>2. QED
      BY <3>1
  <2>6. /\ laser' \in Seq(Nat)
        /\ laser' # <<>> => laser'[1] < sent'
        /\ Healed'
    <3>1. CASE ~IsFrame(c) /\ Discard(f, c)
      BY <1>5, <3>1 DEF Discard
    <3>2. CASE IsFrame(c) /\ HandOver(f, c)
      <4>1. laser' = SubSeq(f, 1, c) /\ ~first_frame /\ ~TooLong(c)
        BY <3>2 DEF HandOver, IsFrame
      <4>2. laser' \in Seq(Nat) /\ laser'[1] = f[1] /\ 1 \in 1..Len(f)
        BY <2>1, <4>1, SMT
      <4>3. f[1] < m
        <5>1. 1 \in 1..Len(g) /\ Len(f) + 1 \in 1..Len(g) /\ Len(f) + 1 \in 1..Len(g)
          BY <1>4, <4>2, SMT
        <5> HIDE DEF g
        <5>2. g[Len(f) + 1] - g[1] >= (Len(f) + 1) - 1
          BY <1>2, <1>4, <5>1, Spread DEF g
        <5>3. g[1] = f[1] /\ f[1] \in Nat
          BY <1>4, <4>2
        <5>4. QED
          BY <1>2, <1>4, <4>2, <5>2, <5>3, SMT
      <4>4. ASSUME Clear(f[1], last) PROVE WholeTurn(laser')
        <5>1. f[1] % Sectors = 0
          BY <1>4, <4>1, <4>2, <4>4
        <5>2. QED
          BY <1>2, <1>7, <2>1, <4>1, <4>4, <5>1, WholeTurns
      <4>5. QED
        BY <4>2, <4>3, <4>4 DEF Healed, Clear, WholeTurn
    <3>3. QED
      BY <1>7, <3>1, <3>2
  <2> HIDE DEF g, m, last
  <2>7. QED
    BY <1>2, <2>2, <2>3, <2>4, <2>5, <2>6, Zenon DEF FrameInv, m, last
<1>8. QED
  BY <1>6, <1>7 DEF AssemblePacket

LEMMA FrameStep == FrameInv /\ [Next]_vars => FrameInv'
<1> SUFFICES ASSUME FrameInv, [Next]_vars PROVE FrameInv'
  OBVIOUS
<1>1. CASE Read
  <2>1. sent' \in (sent + 1)..(sent + MaxBurst) /\ sent \in Nat /\ lastLost \in Int
    BY <1>1 DEF Read, FrameInv
  <2>2. sent' \in Nat /\ sent < sent'
    BY <2>1, LidarAssumption, SMT
  <2>3. PICK p \in Arrivals(sent, sent' - 1) :
          LET gone == Missing(p, sent, sent' - 1)
          IN  /\ IF gone = {} THEN UNCHANGED lastLost
                 ELSE lastLost' \in gone /\ \A q \in gone : q <= lastLost'
              /\ synced' = (synced \/ p # <<>>)
              /\ AssemblePacket(frame_tmp \o Parsed(p))
    BY <1>1 DEF Read
  <2> DEFINE gone == Missing(p, sent, sent' - 1)
             f == frame_tmp \o Parsed(p)
  <2>4. /\ lastLost' = lastLost \/ lastLost' \in gone
        /\ \A q \in gone : q <= lastLost'
    BY <2>3
  <2>5. lastLost' \in Int
    <3>1. gone \subseteq sent..(sent' - 1)
      BY DEF Missing
    <3>2. QED
      BY <2>1, <2>4, <3>1, SMT
  <2>6. /\ f \in Seq(Nat) /\ Unbroken(Append(f, sent'), lastLost')
        /\ lastLost <= lastLost' /\ lastLost' < sent'
        /\ ~first_frame /\ Clear(Append(f, sent')[1], lastLost')
             => Append(f, sent')[1] % Sectors = 0
    BY <2>2, <2>4, <2>5, ReadUnbroken, Zenon
  <2>7. synced' \in BOOLEAN
    BY <2>3, Zenon DEF FrameInv
  <2>8. ASSUME ~synced' PROVE f = <<>> /\ first_frame
    <3>1. ~synced /\ p = <<>>
      BY <2>3, <2>8, Zenon
    <3>2. frame_tmp = <<>> /\ first_frame
      BY <3>1 DEF FrameInv
    <3>3. Parsed(p) = <<>>
      BY <3>1 DEF Parsed
    <3>4. QED
      BY <3>2, <3>3, SMT
  <2> HIDE DEF f
  <2>9. AssemblePacket(f)
    BY <2>3 DEF f
  <2>10. QED
    BY <2>2, <2>5, <2>6, <2>7, <2>8, <2>9, AssembleFrames, Zenon
<1>2. CASE UNCHANGED <<collecting, laser>>
  BY <1>2, Zenon DEF collecting, FrameInv, Healed, WholeTurn, Unbroken, Clear
<1>3. QED
  BY <1>1, <1>2
     DEF Next, Flag, Connect, Check, ResetReady, Copy, Wait, vars

(* From a turn after the latest loss on, each frame is one whole turn,     *)
(* whatever was lost before, and whatever was cut in the wrong place.      *)
THEOREM HealedCorrect == Spec => []Healed
<1>1. FrameInv => Healed
  BY DEF FrameInv
<1>2. QED
  BY <1>1, FrameInit, FrameStep, PTL DEF Spec
-----------------------------------------------------------------------------
(* Frames are fresh, and what is collected is bounded, as long as a read   *)
(* brings no more than half a turn.  A read then completes at most one     *)
(* frame.  It is left for the next one only if two turns without a passage *)
(* of zero had to be thrown away first, and then all that is collected is  *)
(* of this read.                                                           *)

(* What a read adds lies behind what was collected, and is not older.      *)
LEMMA ReadAdds ==
  ASSUME FrameInv, NEW m \in Nat, sent < m, NEW p \in Arrivals(sent, m - 1)
  PROVE  LET f == frame_tmp \o Parsed(p)
         IN  /\ Len(frame_tmp) \in Nat /\ Len(frame_tmp) <= Len(f)
             /\ \A i \in 1..Len(frame_tmp) : f[i] = frame_tmp[i]
             /\ \A i \in 1..Len(f) : i > Len(frame_tmp) => f[i] >= sent
<1> DEFINE q == Parsed(p)
           f == frame_tmp \o q
<1>1. sent \in Nat /\ frame_tmp \in Seq(Nat)
  BY DEF FrameInv
<1>2. PICK k \in 0..(m - sent) : p \in [1..k -> sent..(m - 1)]
  BY <1>1, SMTT(30) DEF Arrivals
<1>3. p \in Seq(Nat) /\ Len(p) = k /\ \A i \in 1..k : p[i] \in Nat /\ p[i] >= sent
  <2>1. k \in Nat /\ \A x \in sent..(m - 1) : x \in Nat /\ x >= sent
    BY <1>1, SMT
  <2>2. p \in [1..k -> Nat] /\ \A i \in 1..k : p[i] >= sent
    BY <1>2, <2>1
  <2>3. QED
    BY <2>1, <2>2, SMT
<1>4. q \in Seq(Nat) /\ \A i \in 1..Len(q) : q[i] >= sent
  <2>1. CASE q = p
    BY <1>3, <2>1
  <2>2. CASE p # <<>> /\ q = Tail(p)
    BY <1>3, <2>2, SMT
  <2>3. QED
    BY <2>1, <2>2 DEF Parsed
<1> HIDE DEF q
<1>5. /\ Len(f) = Len(frame_tmp) + Len(q)
      /\ \A i \in 1..Len(f) :
           f[i] = IF i <= Len(frame_tmp) THEN frame_tmp[i] ELSE q[i - Len(frame_tmp)]
  BY <1>1, <1>4, SMT
<1>6. Len(q) \in Nat /\ Len(frame_tmp) \in Nat
  BY <1>1, <1>4, SMT
<1> HIDE DEF f
<1>7. ASSUME NEW i \in 1..Len(f), i > Len(frame_tmp) PROVE f[i] >= sent
  <2>1. i - Len(frame_tmp) \in 1..Len(q)
    BY <1>5, <1>6, <1>7, SMT
  <2>2. f[i] = q[i - Len(frame_tmp)]
    BY <1>5, <1>6, <1>7, SMT
  <2>3. QED
    BY <1>4, <2>1, <2>2
<1>8. \A i \in 1..Len(frame_tmp) : f[i] = frame_tmp[i]
  BY <1>5, <1>6, SMT
<1>9. QED
  BY <1>5, <1>6, <1>7, <1>8, SMT DEF f, q

(* The numbers of packets grow by one or more, up to that of the next one. *)
LEMMA Growing ==
  ASSUME NEW f \in Seq(Nat), NEW m \in Nat, NEW last \in Int, Unbroken(Append(f, m), last)
  PROVE  \A i \in 1..Len(f) : /\ m - f[i] >= (Len(f) + 1) - i
                              /\ \A j \in i..Len(f) : f[j] - f[i] >= j - i
<1> DEFINE g == Append(f, m)
<1>1. /\ Len(f) \in Nat /\ g \in Seq(Nat) /\ Len(g) = Len(f) + 1
      /\ \A i \in 1..Len(f) : g[i] = f[i]
      /\ g[Len(f) + 1] = m
  BY Elements
<1>2. Unbroken(g, last)
  OBVIOUS
<1> HIDE DEF g
<1>3. ASSUME NEW i \in 1..Len(f), NEW j \in i..(Len(f) + 1)
      PROVE  g[j] - g[i] >= j - i
  <2>1. i \in 1..Len(g) /\ j \in i..Len(g)
    BY <1>1, <1>3, SMT
  <2>2. QED
    BY <1>1, <1>2, <2>1, Spread
<1>4. ASSUME NEW i \in 1..Len(f) PROVE m - f[i] >= (Len(f) + 1) - i
  <2>1. Len(f) + 1 \in i..(Len(f) + 1)
    BY <1>1, SMT
  <2>2. QED
    BY <1>1, <1>3, <2>1
<1>5. ASSUME NEW i \in 1..Len(f), NEW j \in i..Len(f) PROVE f[j] - f[i] >= j - i
  <2>1. j \in i..(Len(f) + 1) /\ j \in 1..Len(f)
    BY <1>1, SMT
  <2>2. g[j] = f[j] /\ g[i] = f[i]
    BY <1>1, <2>1
  <2>3. QED
    BY <1>3, <2>1, <2>2
<1>6. QED
  BY <1>4, <1>5

(* After a passage of zero there is none for as long as a turn.            *)
LEMMA NoPassage ==
  ASSUME NEW r \in Seq(Nat), r # <<>>, NEW m \in Nat, r[1] % Sectors = 0, m - r[1] < Sectors,
         \A i \in 1..Len(r) : r[i] < m /\ r[i] - r[1] >= i - 1
  PROVE  Passages(r) = {}
<1> SUFFICES ASSUME NEW d \in Passages(r) PROVE FALSE
  OBVIOUS
<1>1. d \in 1..(Len(r) - 1) /\ r[d + 1] % Sectors = 0
  BY DEF Passages, Wrap
<1>2. /\ Len(r) \in Nat /\ d \in Nat \ {0} /\ d + 1 \in 1..Len(r) /\ 1 \in 1..Len(r)
      /\ Sectors \in Nat \ {0, 1}
  BY <1>1, LidarAssumption, SMTT(30)
<1> DEFINE a == r[1]
           b == r[d + 1]
<1>3. a \in Nat /\ b \in Nat /\ a % Sectors = 0 /\ b % Sectors = 0 /\ m - a < Sectors
      /\ b < m /\ b - a >= (d + 1) - 1
  BY <1>1, <1>2, SMTT(30)
<1> HIDE DEF a, b
<1>4. b - a \in 0..Sectors /\ b - a # 0 /\ b - a < Sectors /\ a + (b - a) = b
  BY <1>2, <1>3, SMT
<1> DEFINE j == b - a
<1>5. (a + j) % Sectors = (a % Sectors) + j
  <2>1. j \in 0..Sectors /\ 0 + j < Sectors
    BY <1>4, SMT
  <2> HIDE DEF j
  <2>2. QED
    BY <1>3, <2>1, Turning
<1>6. QED
  BY <1>3, <1>4, <1>5, SMT

(* The arithmetic of it: a packet s behind which m comes with the next     *)
(* read, at most M later.                                                  *)
LEMMA HalfTurns ==
  ASSUME NEW S \in Nat \ {0, 1}, NEW M \in Nat \ {0}, 2 * M <= S + 1,
         NEW s \in Nat, NEW m \in Nat, m <= s + M, NEW b \in Nat
  PROVE  /\ b >= s => m - b < S
         /\ \A a \in Nat : s - a < M /\ b - a >= 1 => m - b < S
         /\ \A a \in Nat : b >= s /\ a - b >= 1 => m - a < M
<1>1. M < S
  BY SMT
<1>2. QED
  BY <1>1, SMT

(* What is collected after a read, and how late a frame is handed over.    *)
LEMMA AssembleFresh ==
  ASSUME ShortReads, LagInv, sent \in Nat, frame_tmp \in Seq(Nat), made \in Nat,
         NEW f \in Seq(Nat), sent' \in (sent + 1)..(sent + MaxBurst),
         NEW last \in Int, Unbroken(Append(f, sent'), last),
         Len(frame_tmp) <= Len(f),
         \A i \in 1..Len(frame_tmp) : f[i] = frame_tmp[i],
         \A i \in 1..Len(f) : i > Len(frame_tmp) => f[i] >= sent,
         AssemblePacket(f)
  PROVE  /\ LagInv'
         /\ made' # made => sent' - frame_tmp'[1] < Sectors
<1> DEFINE m == sent'
           S == Sectors
           M == MaxBurst
           n == Len(frame_tmp)
<1>1. /\ S \in Nat \ {0, 1} /\ M \in Nat \ {0} /\ 2 * M <= S + 1
      /\ sent \in Nat /\ m \in Nat /\ sent < m /\ m <= sent + M
      /\ n \in Nat /\ n <= 2 * S /\ n <= Len(f) /\ Len(f) \in Nat
  BY LidarAssumption, SMT DEF ShortReads, LagInv
<1>2. \A i \in 1..Len(f) : f[i] \in Nat
  OBVIOUS
<1>3. \A i \in 1..Len(f) : /\ m - f[i] >= (Len(f) + 1) - i
                           /\ \A j \in i..Len(f) : f[j] - f[i] >= j - i
  BY <1>1, Growing
<1>4. CASE Cuts(f) = {} /\ Collect(f)
  <2>1. frame_tmp' = f /\ made' = made
    BY <1>4 DEF Collect
  <2>2. Passages(f) = {}
    BY <1>4 DEF Cuts
  <2>3. Len(f) <= 2 * S
    <3>1. ~(2 * S + 1 \in 1..Len(f))
      BY <1>4 DEF Cuts, Overflow
    <3>2. QED
      BY <1>1, <3>1, SMT
  <2>4. QED
    BY <2>1, <2>2, <2>3 DEF LagInv
<1>5. ASSUME NEW c \in Cuts(f), Discard(f, c) \/ (IsFrame(c) /\ HandOver(f, c))
      PROVE  /\ LagInv'
             /\ made' # made => m - frame_tmp'[1] < S
  <2> DEFINE r == Rest(f, c)
  <2>1. frame_tmp' = r
    BY <1>5 DEF Discard, HandOver
  <2>2. c \in 1..Len(f)
    BY <1>1, SMT DEF Cuts, Passages, Overflow
  <2>3. r \in Seq(Nat) /\ Len(r) = Len(f) - c /\ \A i \in 1..Len(r) : r[i] = f[c + i]
    BY <2>2, SMT DEF Rest
  <2> HIDE DEF r, n
  <2>4. CASE c \in Passages(f)
    <3>1. c + 1 \in 1..Len(f) /\ f[c + 1] % S = 0
      <4>1. c \in 1..(Len(f) - 1) /\ f[c + 1] % S = 0
        BY <2>4 DEF Passages, Wrap
      <4>2. QED
        BY <1>1, <4>1, SMT
    <3> DEFINE q == f[c + 1]
    <3>2. q \in Nat
      BY <1>2, <3>1
    <3>3. m - q < S
      <4>1. CASE c + 1 > n
        <5>1. q >= sent
          BY <3>1, <4>1 DEF n
        <5> HIDE DEF q, m, S, M
        <5>2. QED
          BY <1>1, <3>2, <5>1, HalfTurns
      <4>2. CASE ~(c + 1 > n)
        <5>1. c \in 1..n /\ c + 1 \in 1..n /\ c \in 1..(n - 1) /\ 1 \in 1..n
          BY <1>1, <2>2, <4>2, SMT
        <5>2. f[c] = frame_tmp[c] /\ f[c + 1] = frame_tmp[c + 1] /\ f[1] = frame_tmp[1]
          BY <5>1 DEF n
        <5>3. Wrap(frame_tmp[c], frame_tmp[c + 1])
          BY <2>4, <5>2 DEF Passages
        <5>4. c \in Passages(frame_tmp)
          BY <5>1, <5>3 DEF Passages, n
        <5>5. sent - f[1] < M
          BY <5>2, <5>4 DEF LagInv
        <5>6. q - f[1] >= (c + 1) - 1 /\ f[1] \in Nat
          <6>1. 1 \in 1..Len(f) /\ c + 1 \in 1..Len(f)
            BY <1>1, <2>2, <3>1, SMT
          <6>2. QED
            BY <1>2, <1>3, <6>1
        <5> DEFINE a == f[1]
        <5>7. a \in Nat /\ sent - a < M /\ q - a >= (c + 1) - 1
          BY <5>5, <5>6
        <5> HIDE DEF q, a, m, S, M
        <5>8. q - a >= 1
          BY <2>2, <3>2, <5>7, SMT
        <5>9. QED
          BY <1>1, <3>2, <5>7, <5>8, HalfTurns
      <4>3. QED
        BY <4>1, <4>2
    <3>4. 1 \in 1..Len(r) /\ r[1] = q /\ r # <<>>
      BY <1>1, <2>2, <2>3, <3>1, SMT
    <3>5. \A i \in 1..Len(r) : r[i] < m /\ r[i] - q >= i - 1
      <4> SUFFICES ASSUME NEW i \in 1..Len(r) PROVE r[i] < m /\ r[i] - q >= i - 1
        OBVIOUS
      <4>1. c + i \in (c + 1)..Len(f) /\ c + i \in 1..Len(f) /\ (c + i) - (c + 1) = i - 1
        BY <1>1, <2>2, <2>3, SMT
      <4>2. r[i] = f[c + i] /\ f[c + i] \in Nat
        BY <1>2, <2>3, <4>1
      <4>3. m - f[c + i] >= (Len(f) + 1) - (c + i) /\ f[c + i] - q >= (c + i) - (c + 1)
        BY <1>3, <3>1, <4>1
      <4> DEFINE b == f[c + i]
      <4>4. b \in Nat /\ m - b >= (Len(f) + 1) - (c + i) /\ b - q >= (c + i) - (c + 1)
        BY <4>2, <4>3
      <4> HIDE DEF b, q
      <4>5. b < m /\ b - q >= i - 1
        BY <1>1, <4>1, <4>4, SMTT(30)
      <4>6. QED
        BY <4>2, <4>5 DEF b
    <3>6. Len(r) <= 2 * S
      <4>1. m - q >= (Len(f) + 1) - (c + 1)
        BY <1>3, <3>1
      <4> HIDE DEF q, m, S, M
      <4>2. Len(f) - c < S
        BY <1>1, <2>2, <3>2, <3>3, <4>1, SMT
      <4>3. QED
        BY <1>1, <2>2, <2>3, <4>2, SMT
    <3>7. Passages(r) = {}
      BY <1>1, <2>3, <3>1, <3>3, <3>4, <3>5, NoPassage
    <3>8. QED
      BY <2>1, <3>3, <3>4, <3>6, <3>7 DEF LagInv
  <2>5. CASE c \notin Passages(f)
    <3>1. c = 2 * S + 1
      BY <2>5 DEF Cuts, Overflow
    <3>2. ~IsFrame(c)
      BY <1>1, <3>1, SMT DEF IsFrame, TooLong
    <3>3. made' = made
      BY <1>5, <3>2 DEF Discard
    <3>4. c > n
      BY <1>1, <3>1, SMT
    <3>5. f[c] >= sent
      BY <2>2, <3>4 DEF n
    <3>6. m - f[c] >= (Len(f) + 1) - c /\ f[c] \in Nat
      BY <1>2, <1>3, <2>2
    <3> DEFINE b == f[c]
    <3>7. b \in Nat /\ b >= sent /\ m - b >= (Len(f) + 1) - c
      BY <3>5, <3>6
    <3> HIDE DEF b
    <3>8. Len(r) <= 2 * S
      BY <1>1, <2>2, <2>3, <3>7, SMT
    <3>9. CASE r = <<>>
      <4>1. Passages(r) = {}
        BY <3>9, SMT DEF Passages
      <4>2. QED
        BY <2>1, <3>3, <3>8, <4>1 DEF LagInv
    <3>10. CASE r # <<>>
      <4>1. 1 \in 1..Len(r) /\ c + 1 \in 1..Len(f) /\ c + 1 \in c..Len(f)
        BY <1>1, <2>2, <2>3, <3>10, SMT
      <4>2. r[1] = f[c + 1] /\ f[c + 1] - b >= (c + 1) - c /\ f[c + 1] \in Nat
        BY <1>2, <1>3, <2>2, <2>3, <4>1 DEF b
      <4> DEFINE a == f[c + 1]
      <4>3. a \in Nat /\ a - b >= (c + 1) - c
        BY <4>2
      <4> HIDE DEF a, m, S, M
      <4>4. m - a < M
        <5>1. a - b >= 1
          BY <2>2, <3>7, <4>3, SMT
        <5>2. QED
          BY <1>1, <3>7, <4>3, <5>1, HalfTurns
      <4>5. m - r[1] < M
        BY <4>2, <4>4 DEF a
      <4>6. QED
        BY <2>1, <3>3, <3>8, <4>5 DEF LagInv, m, S, M
    <3>11. QED
      BY <3>9, <3>10
  <2>6. QED
    BY <2>4, <2>5
<1>6. QED
  BY <1>4, <1>5 DEF AssemblePacket

LEMMA LagInit == Init => LagInv
<1> SUFFICES ASSUME Init PROVE LagInv
  OBVIOUS
<1>1. frame_tmp = <<>> /\ Len(frame_tmp) = 0
  BY DEF Init
<1>2. Passages(frame_tmp) = {}
  BY <1>1, SMT DEF Passages
<1>3. QED
  BY <1>1, <1>2, LidarAssumption, SMT DEF LagInv

(* Only a read changes what is collected, or hands a frame over.           *)
LEMMA LagStep ==
  ASSUME ShortReads, FrameInv, IInv, LagInv, [Next]_vars
  PROVE  /\ LagInv'
         /\ made' # made => sent' - frame_tmp'[1] < Sectors
<1>1. CASE Read
  <2>1. sent' \in (sent + 1)..(sent + MaxBurst)
    BY <1>1 DEF Read
  <2>2. sent \in Nat /\ frame_tmp \in Seq(Nat) /\ made \in Nat /\ lastLost \in Int
    BY DEF FrameInv, IInv, Counts
  <2>3. sent' \in Nat /\ sent < sent'
    BY <2>1, <2>2, LidarAssumption, SMT
  <2>4. PICK p \in Arrivals(sent, sent' - 1) :
          LET gone == Missing(p, sent, sent' - 1)
          IN  /\ IF gone = {} THEN UNCHANGED lastLost
                 ELSE lastLost' \in gone /\ \A q \in gone : q <= lastLost'
              /\ AssemblePacket(frame_tmp \o Parsed(p))
    BY <1>1 DEF Read
  <2> DEFINE gone == Missing(p, sent, sent' - 1)
             f == frame_tmp \o Parsed(p)
  <2>5. lastLost' \in Int
    <3>1. gone \subseteq sent..(sent' - 1)
      BY DEF Missing
    <3>2. QED
      BY <2>2, <2>3, <2>4, <3>1, SMT
  <2>6. /\ lastLost' = lastLost \/ lastLost' \in gone
        /\ \A q \in gone : q <= lastLost'
    BY <2>4
  <2>7. f \in Seq(Nat) /\ Unbroken(Append(f, sent'), lastLost')
    BY <2>3, <2>5, <2>6, ReadUnbroken, Zenon
  <2>8. /\ Len(frame_tmp) <= Len(f)
        /\ \A i \in 1..Len(frame_tmp) : f[i] = frame_tmp[i]
        /\ \A i \in 1..Len(f) : i > Len(frame_tmp) => f[i] >= sent
    BY <2>3, ReadAdds, Zenon
  <2>9. AssemblePacket(f)
    BY <2>4
  <2> HIDE DEF f
  <2>10. QED
    BY <2>1, <2>2, <2>5, <2>7, <2>8, <2>9, AssembleFresh, Zenon
<1>2. CASE UNCHANGED <<collecting, made>>
  BY <1>2, Zenon DEF collecting, LagInv, Passages
<1>3. CASE Copy
  BY <1>3, Zenon DEF Copy, collecting, LagInv, Passages
<1>4. QED
  BY <1>1, <1>2, <1>3 DEF Next, Flag, Connect, Check, ResetReady, Copy, Wait, vars

(* A frame is handed over less than a turn after the packet that completes *)
(* it, if a read brings no more than half a turn: the reader thread throws *)
(* points away and cuts one frame per read, and is in time nevertheless.   *)
THEOREM FreshCorrect == ASSUME ShortReads PROVE Spec => Fresh
<1>1. FrameInv /\ IInv /\ LagInv /\ [Next]_vars
        => LagInv' /\ [made' # made => sent' - frame_tmp'[1] < Sectors]_vars
  BY LagStep
<1>2. QED
  BY <1>1, FrameInit, FrameStep, RepeatInit, RepeatStep, LagInit, PTL DEF Spec, Fresh
-----------------------------------------------------------------------------
(* The rest of the types.                                                  *)
Flags == lost \in 0..MaxLost /\ heard \in BOOLEAN

LEMMA FlagsInit == Init => Flags
<1>1. Init => lost \in 0..MaxLost
  BY LidarAssumption, SMT DEF Init
<1>2. Init => heard \in BOOLEAN
  BY Zenon DEF Init
<1>3. QED
  BY <1>1, <1>2 DEF Flags

LEMMA FlagsStep == IInv /\ FrameInv /\ Flags /\ [Next]_vars => Flags'
<1> SUFFICES ASSUME IInv, FrameInv, Flags, [Next]_vars PROVE Flags'
  OBVIOUS
<1>1. lost \in Nat /\ lost <= MaxLost /\ heard \in BOOLEAN /\ MaxLost \in Nat
  BY LidarAssumption, SMT DEF Flags
<1>2. CASE Read
  <2>1. /\ sent \in Nat /\ sent' \in (sent + 1)..(sent + MaxBurst)
        /\ MaxBurst \in Nat
    BY <1>2, LidarAssumption DEF Read, FrameInv
  <2>2. PICK p \in Arrivals(sent, sent' - 1) :
          /\ lost' = lost + Cardinality(Missing(p, sent, sent' - 1)) /\ lost' <= MaxLost
          /\ heard' \in {heard \/ p # <<>>, TRUE}
    BY <1>2 DEF Read
  <2>3. Cardinality(Missing(p, sent, sent' - 1)) \in Nat
    <3>1. IsFiniteSet(sent..(sent' - 1))
      BY <2>1, FS_Interval
    <3>2. Missing(p, sent, sent' - 1) \in SUBSET (sent..(sent' - 1))
      BY DEF Missing
    <3>3. QED
      BY <3>1, <3>2, FS_Subset, FS_CardinalityType
  <2>4. lost' \in 0..MaxLost
    BY <1>1, <2>2, <2>3, SMT
  <2>5. heard' \in BOOLEAN
    BY <1>1, <2>2, Zenon
  <2>6. QED
    BY <2>4, <2>5 DEF Flags
<1>3. CASE Connect
  <2>1. lost' = lost /\ (heard' = FALSE \/ heard' = heard)
    BY <1>3 DEF Connect, collecting
  <2>2. heard' \in BOOLEAN
    BY <1>1, <2>1, Zenon
  <2>3. QED
    BY <2>1, <2>2 DEF Flags
<1>4. CASE UNCHANGED <<lost, heard>>
  BY <1>4 DEF Flags
<1>5. QED
  BY <1>2, <1>3, <1>4
     DEF Next, Flag, Check, ResetReady, Copy, Wait, collecting, vars

(* The types; and frame_tmp_ never holds more than two turns, although a   *)
(* read may add points where no passage of zero is among them, and cuts    *)
(* one frame at most.                                                      *)
THEOREM TypeCorrect == ASSUME ShortReads PROVE Spec => []TypeOK
<1>1. FrameInv /\ IInv /\ LagInv /\ Flags => TypeOK
  <2> SUFFICES ASSUME FrameInv, IInv, LagInv, Flags PROVE TypeOK
    OBVIOUS
  <2>1. lastLost \in Nat \cup {-1} /\ lastLost < sent
    BY SMT DEF FrameInv
  <2>2. QED
    BY <2>1, Zenon DEF TypeOK, FrameInv, IInv, Counts, LagInv, Flags
<1>2. FrameInv /\ IInv /\ LagInv /\ [Next]_vars => LagInv'
  BY LagStep
<1>3. QED
  BY <1>1, <1>2, FrameInit, FrameStep, RepeatInit, RepeatStep, LagInit,
     FlagsInit, FlagsStep, PTL DEF Spec
-----------------------------------------------------------------------------
(* From an obstacle to the stop.  The nodes' modules bring the operators   *)
(* of Topics along; they are the same.                                     *)
LEMMA SameTopics ==
  ASSUME NEW q, NEW e
  PROVE  /\ Obstacle!Arrived(q, e) = Arrived(q, e)
         /\ Ellipse!Arrived(q, e) = Arrived(q, e)
         /\ Obstacle!Headings = Headings /\ AutoNode!Headings = Headings
BY DEF Arrived, Obstacle!Arrived, Ellipse!Arrived, Headings, Obstacle!Headings,
       AutoNode!Headings

(* A message arrives: it is the last one, whatever is dropped.             *)
LEMMA ArrivedLast ==
  ASSUME NEW S, NEW q \in Queue(S), NEW e \in S
  PROVE  LET r == Arrived(q, e)
         IN  r \in Queue(S) /\ r # <<>> /\ r[Len(r)] = e
<1> DEFINE k == Len(q)
           long == Append(q, e)
<1>1. q \in Seq(S) /\ k <= Depth /\ k \in Nat /\ Depth \in Nat \ {0}
  BY TopicsAssumption DEF Queue
<1>2. long \in Seq(S) /\ Len(long) = k + 1 /\ long[k + 1] = e /\ long # <<>>
  BY <1>1
<1>3. CASE k + 1 > Depth
  <2>1. k \in 1..k /\ Tail(long) \in Seq(S) /\ Len(Tail(long)) = k
    BY <1>1, <1>2, <1>3
  <2>2. Tail(long)[k] = long[k + 1] /\ Tail(long) # <<>>
    BY <1>1, <1>2, <2>1, SMT
  <2>3. Arrived(q, e) = Tail(long)
    BY <1>2, <1>3 DEF Arrived
  <2> HIDE DEF long
  <2>4. QED
    BY <1>1, <1>2, <2>1, <2>2, <2>3 DEF Queue
<1>4. CASE ~(k + 1 > Depth)
  <2>1. Arrived(q, e) = long
    BY <1>2, <1>4 DEF Arrived
  <2> HIDE DEF long
  <2>2. QED
    BY <1>1, <1>2, <1>4, <2>1, SMT DEF Queue
<1>5. QED
  BY <1>3, <1>4

(* One is taken: the last one is still there, or it was that.              *)
LEMMA TakenLast ==
  ASSUME NEW S, NEW q \in Queue(S), q # <<>>
  PROVE  /\ Head(q) \in S /\ Tail(q) \in Queue(S)
         /\ IF Tail(q) = <<>> THEN Head(q) = q[Len(q)]
                              ELSE Tail(q)[Len(Tail(q))] = q[Len(q)]
<1> DEFINE k == Len(q)
           r == Tail(q)
<1>1. q \in Seq(S) /\ k <= Depth /\ k \in Nat \ {0} /\ Depth \in Nat \ {0}
  BY TopicsAssumption DEF Queue
<1>2. /\ Head(q) \in S /\ Head(q) = q[1] /\ r \in Seq(S) /\ Len(r) = k - 1
      /\ \A i \in 1..Len(r) : r[i] = q[i + 1]
  BY <1>1
<1>3. r \in Queue(S)
  BY <1>1, <1>2 DEF Queue
<1>4. CASE r = <<>>
  <2> HIDE DEF r, k
  <2>1. Len(r) = 0
    BY <1>4
  <2>2. k = 1
    BY <1>1, <1>2, <2>1
  <2>3. QED
    BY <1>2, <1>3, <1>4, <2>2 DEF r, k
<1>5. CASE r # <<>>
  <2>1. Len(r) # 0 /\ Len(r) \in Nat
    BY <1>2, <1>5
  <2> HIDE DEF r, k
  <2>2. Len(r) \in 1..Len(r) /\ Len(r) + 1 = k
    BY <1>1, <1>2, <2>1
  <2>3. r[Len(r)] = q[k]
    BY <1>2, <2>2
  <2>4. QED
    BY <1>2, <1>3, <1>5, <2>3 DEF r, k
<1>6. QED
  BY <1>4, <1>5

LEMMA NoMessages == ASSUME NEW S PROVE <<>> \in Queue(S)
BY TopicsAssumption DEF Queue

(* What obstacle_detection and the world around the nodes do.              *)
LEMMA StopTypeInit == StopInit => StopTypeOK
<1> SUFFICES ASSUME StopInit PROVE StopTypeOK
  OBVIOUS
<1>1. <<>> \in Queue(BOOLEAN) /\ <<>> \in Queue(Headings)
  BY NoMessages
<1>2. blocked \subseteq Headings /\ turns \in 0..MaxTurns
  BY ObstacleStopAssumption DEF StopInit
<1>3. /\ auto \in AutoNode!AutoState /\ drive \in AutoNode!Drives
      /\ obstacle \in Obstacle!ObstacleState
  BY DEF StopInit, AutoNode!Started, AutoNode!AutoState, AutoNode!Drives,
         AutoNode!Headings, Obstacle!Started, Obstacle!ObstacleState
<1>4. QED
  BY <1>1, <1>2, <1>3 DEF StopInit, StopTypeOK, Headings

(* auto_drive keeps its types, drives only as StopDriveMatches says, and   *)
(* requires a stop as the message says that it took last.                  *)
LEMMA AutoStep ==
  ASSUME StopTypeOK, StopDriveMatches, AutoNode!SwitchOn \/ AutoNode!OtherCallbacks
  PROVE  /\ auto' \in AutoNode!AutoState /\ drive' \in AutoNode!Drives
         /\ autoJoy' \in Queue(BOOLEAN) /\ stops' \in Queue(BOOLEAN)
         /\ autoDirection' \in Queue(Headings)
         /\ StopDriveMatches'
         /\ \/ stops' = stops /\ auto'.stop_required = auto.stop_required
            \/ /\ stops # <<>> /\ stops' = Tail(stops)
               /\ auto'.stop_required = Head(stops)
<1>1. /\ auto \in AutoNode!AutoState /\ drive \in AutoNode!Drives
      /\ autoJoy \in Queue(BOOLEAN) /\ stops \in Queue(BOOLEAN)
      /\ autoDirection \in Queue(Headings)
  BY DEF StopTypeOK
<1>2. /\ auto.heading \in Headings /\ auto.enabled \in BOOLEAN
      /\ auto.stop_required \in BOOLEAN
  BY <1>1 DEF AutoNode!AutoState, AutoNode!Headings, Headings
<1>3. AutoNode!TakeJoy => autoJoy' \in Queue(BOOLEAN)
  BY <1>1, TakenLast DEF AutoNode!TakeJoy
<1> USE DEF StopDriveMatches
<1>4. CASE AutoNode!SwitchOn
  <2>1. auto' \in AutoNode!AutoState /\ drive' \in AutoNode!Drives
    BY <1>1, <1>2, <1>4 DEF AutoNode!SwitchOn, AutoNode!After, AutoNode!Button,
       AutoNode!AutoState, AutoNode!Drives, AutoNode!Headings, Headings
  <2>2. StopDriveMatches' /\ auto'.stop_required = auto.stop_required /\ stops' = stops
    BY <1>1, <1>4 DEF AutoNode!SwitchOn, AutoNode!After, AutoNode!AutoState
  <2>3. QED
    BY <1>1, <1>3, <1>4, <2>1, <2>2 DEF AutoNode!SwitchOn
<1>5. CASE AutoNode!JoyWithoutEdge
  <2>1. auto' \in AutoNode!AutoState
    BY <1>1, <1>2, <1>5 DEF AutoNode!JoyWithoutEdge, AutoNode!After, AutoNode!Button,
       AutoNode!AutoState
  <2>2. StopDriveMatches' /\ auto'.stop_required = auto.stop_required /\ stops' = stops
    BY <1>1, <1>5 DEF AutoNode!JoyWithoutEdge, AutoNode!After, AutoNode!AutoState
  <2>3. QED
    BY <1>1, <1>3, <1>5, <2>1, <2>2 DEF AutoNode!JoyWithoutEdge
<1>6. CASE AutoNode!SwitchOff \/ AutoNode!RefuseSwitchOn
  <2>1. auto' \in AutoNode!AutoState /\ drive' \in AutoNode!Drives
    BY <1>1, <1>2, <1>6 DEF AutoNode!SwitchOff, AutoNode!RefuseSwitchOn,
       AutoNode!After, AutoNode!Button, AutoNode!AutoState, AutoNode!Drives
  <2>2. drive' = "stop" /\ auto'.stop_required = auto.stop_required /\ stops' = stops
    BY <1>1, <1>6 DEF AutoNode!SwitchOff, AutoNode!RefuseSwitchOn, AutoNode!After,
       AutoNode!AutoState
  <2>3. QED
    BY <1>1, <1>3, <1>6, <2>1, <2>2 DEF AutoNode!SwitchOff, AutoNode!RefuseSwitchOn
<1>7. CASE AutoNode!StopCallback
  <2>1. /\ stops # <<>> /\ Head(stops) \in BOOLEAN /\ stops' \in Queue(BOOLEAN)
        /\ stops' = Tail(stops) /\ UNCHANGED <<autoJoy, autoDirection>>
    BY <1>1, <1>7, TakenLast DEF AutoNode!StopCallback
  <2>2. auto' \in AutoNode!AutoState /\ drive' \in AutoNode!Drives
    BY <1>1, <1>2, <1>7, <2>1 DEF AutoNode!StopCallback, AutoNode!AutoState, AutoNode!Drives
  <2>3. StopDriveMatches' /\ auto'.stop_required = Head(stops)
    BY <1>1, <1>7, <2>1 DEF AutoNode!StopCallback, AutoNode!AutoState
  <2>4. QED
    BY <1>1, <2>1, <2>2, <2>3
<1>8. CASE AutoNode!DirectionCallback
  <2>1. /\ Head(autoDirection) \in Headings /\ autoDirection' \in Queue(Headings)
        /\ UNCHANGED <<autoJoy, stops>>
    BY <1>1, <1>8, TakenLast DEF AutoNode!DirectionCallback
  <2>2. \/ UNCHANGED <<auto, drive>>
        \/ /\ auto' = [auto EXCEPT !.heading = Head(autoDirection), !.enabled = FALSE]
           /\ drive' = "stop"
    BY <1>8 DEF AutoNode!DirectionCallback
  <2>3. /\ auto' \in AutoNode!AutoState /\ drive' \in AutoNode!Drives
        /\ auto'.stop_required = auto.stop_required /\ StopDriveMatches'
    BY <1>1, <1>2, <2>1, <2>2 DEF AutoNode!AutoState, AutoNode!Drives,
       AutoNode!Headings, Headings
  <2>4. QED
    BY <1>1, <2>1, <2>3
<1>9. CASE AutoNode!TimerCallback
  <2>1. /\ auto' \in AutoNode!AutoState /\ drive' \in AutoNode!Drives
        /\ auto'.stop_required = auto.stop_required /\ StopDriveMatches'
    BY <1>1, <1>2, <1>9 DEF AutoNode!TimerCallback, AutoNode!AutoState, AutoNode!Drives,
       AutoNode!Headings, Headings
  <2>2. QED
    BY <1>1, <1>9, <2>1 DEF AutoNode!TimerCallback
<1>10. QED
  BY <1>4, <1>5, <1>6, <1>7, <1>8, <1>9 DEF AutoNode!OtherCallbacks

(* The invariant, and what disturbs it: auto_drive, what is published on   *)
(* /stop_obstacle, and the end of obstacle_detection.                      *)
StopInv == StopTypeOK /\ StopDriveMatches /\ LastWord

LEMMA StopStep == StopInv /\ [StopNext]_stopVars => StopInv'
<1> SUFFICES ASSUME StopInv, [StopNext]_stopVars PROVE StopInv'
  OBVIOUS
<1>1. StopTypeOK /\ StopDriveMatches /\ LastWord
  BY DEF StopInv
<1>2. /\ auto \in AutoNode!AutoState /\ drive \in AutoNode!Drives
      /\ autoJoy \in Queue(BOOLEAN) /\ stops \in Queue(BOOLEAN)
      /\ autoDirection \in Queue(Headings) /\ ellipseDirection \in Queue(Headings)
      /\ distances \in Queue(Headings) /\ ellipse \in Headings
      /\ obstacle \in Obstacle!ObstacleState
      /\ heading \in Headings /\ turning \in BOOLEAN /\ turns \in 0..MaxTurns
      /\ blocked \subseteq Headings /\ lidar \in BOOLEAN /\ detecting \in BOOLEAN
  BY <1>1 DEF StopTypeOK
<1>3. CASE OfAuto(AutoNode!SwitchOn) \/ OfAuto(AutoNode!OtherCallbacks)
  <2>1. /\ AutoNode!SwitchOn \/ AutoNode!OtherCallbacks
        /\ UNCHANGED <<ellipseDirection, ellipseVars, obstacle, world>>
    BY <1>3 DEF OfAuto
  <2>2. StopTypeOK'
    BY <1>1, <1>2, <2>1, AutoStep DEF StopTypeOK, ellipseVars, world
  <2>3. LastWord'
    <3>1. detecting' = detecting
      BY <2>1 DEF world
    <3>2. CASE stops' = stops /\ auto'.stop_required = auto.stop_required
      BY <1>1, <3>1, <3>2 DEF LastWord
    <3>3. CASE stops # <<>> /\ stops' = Tail(stops) /\ auto'.stop_required = Head(stops)
      BY <1>1, <1>2, <3>1, <3>3, TakenLast, Zenon DEF LastWord
    <3>4. QED
      BY <1>1, <2>1, <3>2, <3>3, AutoStep
  <2>4. QED
    BY <1>1, <2>1, <2>2, <2>3, AutoStep DEF StopInv
<1>4. CASE DetectionQuits
  <2>1. /\ stops' = Arrived(stops, TRUE)
        /\ UNCHANGED <<obstacle, distances, autoVars, autoDirection, ellipseDirection,
                       ellipse, heading, turning, turns, blocked, lidar>>
        /\ detecting' = FALSE
    BY <1>4, SameTopics DEF DetectionQuits, Obstacle!Quit
  <2>2. stops' \in Queue(BOOLEAN) /\ stops' # <<>> /\ stops'[Len(stops')] = TRUE
    BY <1>2, <2>1, ArrivedLast
  <2>3. StopTypeOK'
    BY <1>2, <2>1, <2>2 DEF StopTypeOK, autoVars
  <2>4. StopDriveMatches' /\ LastWord'
    BY <1>1, <2>1, <2>2 DEF StopDriveMatches, LastWord, autoVars
  <2>5. QED
    BY <2>3, <2>4 DEF StopInv
<1>5. CASE OfDetection(Obstacle!TimerCallback)
  <2>1. PICK e \in BOOLEAN : stops' = Arrived(stops, e)
    <3>1. obstacle.scan # "recent" \/ obstacle.stop_required \in BOOLEAN
      BY <1>2 DEF Obstacle!ObstacleState
    <3>2. (obstacle.scan # "recent" \/ obstacle.stop_required) \in BOOLEAN
      OBVIOUS
    <3>3. QED
      BY <1>5, <3>2, SameTopics DEF OfDetection, Obstacle!TimerCallback
  <2>2. /\ detecting /\ UNCHANGED <<obstacle, distances>>
        /\ UNCHANGED <<autoVars, autoDirection, ellipseDirection, ellipse, world>>
    BY <1>5 DEF OfDetection, Obstacle!TimerCallback
  <2>3. stops' \in Queue(BOOLEAN)
    BY <1>2, <2>1, ArrivedLast
  <2>4. StopTypeOK'
    BY <1>2, <2>2, <2>3 DEF StopTypeOK, autoVars, world
  <2>5. StopDriveMatches' /\ LastWord'
    BY <1>1, <2>2 DEF StopDriveMatches, LastWord, autoVars, world
  <2>6. QED
    BY <2>4, <2>5 DEF StopInv
<1>6. ASSUME StopTypeOK', UNCHANGED <<auto, drive, stops, detecting>> PROVE StopInv'
  BY <1>1, <1>6 DEF StopInv, StopDriveMatches, LastWord
<1>7. CASE OfDetection(Obstacle!EllipseCallback) \/ Scan \/ OfDetection(Obstacle!ScanGetsOld)
  <2>1. /\ UNCHANGED <<stops, autoVars, autoDirection, ellipseDirection, ellipse, world>>
        /\ distances' \in Queue(Headings) /\ obstacle' \in Obstacle!ObstacleState
    <3>1. CASE OfDetection(Obstacle!EllipseCallback)
      <4>1. Head(distances) \in Headings /\ distances' \in Queue(Headings)
        BY <1>2, <3>1, TakenLast DEF OfDetection, Obstacle!EllipseCallback
      <4>2. obstacle' = [obstacle EXCEPT !.model = Head(distances)]
        BY <3>1 DEF OfDetection, Obstacle!EllipseCallback
      <4>3. obstacle' \in Obstacle!ObstacleState
        BY <1>2, <4>1, <4>2, SameTopics DEF Obstacle!ObstacleState
      <4>4. QED
        BY <3>1, <4>1, <4>3 DEF OfDetection, Obstacle!EllipseCallback
    <3>2. CASE Scan
      <4>1. PICK s \in Scans : OfDetection(Obstacle!ScanCallback(s))
        BY <3>2 DEF Scan
      <4>2. s.close \in BOOLEAN
        <5>1. CASE turning
          BY <4>1, <5>1 DEF Scans
        <5>2. CASE ~turning
          <6>1. s = [at |-> heading, close |-> heading \in blocked]
            BY <4>1, <5>2 DEF Scans
          <6>2. CASE heading \in blocked
            <7>1. s = [at |-> heading, close |-> TRUE]
              BY <6>1, <6>2
            <7>2. QED
              BY <7>1
          <6>3. CASE heading \notin blocked
            <7>1. (heading \in blocked) = FALSE
              BY <6>3
            <7>2. s = [at |-> heading, close |-> FALSE]
              BY <6>1, <7>1
            <7>3. QED
              BY <7>2
          <6>4. QED
            BY <6>2, <6>3
        <5>3. QED
          BY <5>1, <5>2
      <4>3. PICK e \in Obstacle!Results(s) :
              obstacle' = [obstacle EXCEPT !.scan = "recent", !.stop_required = e]
        BY <4>1 DEF OfDetection, Obstacle!ScanCallback
      <4>4. e \in BOOLEAN
        BY <4>2 DEF Obstacle!Results
      <4>5. obstacle' \in Obstacle!ObstacleState
        BY <1>2, <4>3, <4>4 DEF Obstacle!ObstacleState
      <4>6. QED
        BY <1>2, <4>1, <4>5 DEF OfDetection, Obstacle!ScanCallback
    <3>3. CASE OfDetection(Obstacle!ScanGetsOld)
      <4>1. obstacle' \in Obstacle!ObstacleState
        BY <1>2, <3>3 DEF OfDetection, Obstacle!ScanGetsOld, Obstacle!ObstacleState
      <4>2. QED
        BY <1>2, <3>3, <4>1 DEF OfDetection, Obstacle!ScanGetsOld
    <3>4. QED
      BY <1>7, <3>1, <3>2, <3>3
  <2>2. StopTypeOK'
    BY <1>2, <2>1 DEF StopTypeOK, autoVars, world
  <2>3. QED
    BY <1>6, <2>1, <2>2 DEF autoVars, world
<1>8. CASE OfEllipse(Ellipse!TurretCallback) \/ OfEllipse(Ellipse!ImuCallback)
  <2>1. UNCHANGED <<autoVars, stops, autoDirection, obstacle, world>>
    BY <1>8 DEF OfEllipse
  <2>2. /\ ellipse' \in Headings /\ ellipseDirection' \in Queue(Headings)
        /\ distances' \in Queue(Headings)
    <3>1. CASE OfEllipse(Ellipse!TurretCallback)
      BY <1>2, <3>1, TakenLast DEF OfEllipse, Ellipse!TurretCallback
    <3>2. CASE OfEllipse(Ellipse!ImuCallback)
      <4>1. distances' = Arrived(distances, ellipse) /\ UNCHANGED <<ellipse, ellipseDirection>>
        BY <3>2, SameTopics DEF OfEllipse, Ellipse!ImuCallback
      <4>2. QED
        BY <1>2, <4>1, ArrivedLast
    <3>3. QED
      BY <1>8, <3>1, <3>2
  <2>3. StopTypeOK'
    BY <1>2, <2>1, <2>2 DEF StopTypeOK, autoVars, world
  <2>4. QED
    BY <1>6, <2>1, <2>3 DEF autoVars, world
<1>9. CASE JoyArrives
  <2>1. PICK e \in BOOLEAN : autoJoy' = Arrived(autoJoy, e)
    BY <1>9 DEF JoyArrives
  <2>2. autoJoy' \in Queue(BOOLEAN)
    BY <1>2, <2>1, ArrivedLast
  <2>3. UNCHANGED <<auto, drive, ellipseVars, obstacle, stops, autoDirection,
                    ellipseDirection, world>>
    BY <1>9 DEF JoyArrives, Nodes
  <2>4. StopTypeOK'
    BY <1>2, <2>2, <2>3 DEF StopTypeOK, ellipseVars, world
  <2>5. QED
    BY <1>6, <2>3, <2>4 DEF world
<1>10. CASE TurretToggles \/ TurretPublishes
  <2>1. /\ heading' \in Headings /\ turns' \in 0..MaxTurns /\ turning' \in BOOLEAN
        /\ PublishHeading
    <3>1. CASE TurretToggles
      <4>1. heading' \in Headings /\ PublishHeading
        BY <3>1 DEF TurretToggles
      <4>2. turns' \in 0..MaxTurns
        BY <1>2, <3>1, ObstacleStopAssumption DEF TurretToggles
      <4>3. turning' \in BOOLEAN
        BY <3>1, Zenon DEF TurretToggles
      <4>4. QED
        BY <4>1, <4>2, <4>3
    <3>2. CASE TurretPublishes
      BY <1>2, <3>2 DEF TurretPublishes
    <3>3. QED
      BY <1>10, <3>1, <3>2
  <2>2. /\ autoDirection' \in Queue(Headings) /\ ellipseDirection' \in Queue(Headings)
        /\ UNCHANGED <<auto, drive, ellipseVars, obstacle, autoJoy, stops, blocked,
                       lidar, detecting>>
    BY <1>2, <2>1, ArrivedLast DEF PublishHeading, Nodes
  <2>3. StopTypeOK'
    BY <1>2, <2>1, <2>2 DEF StopTypeOK, ellipseVars
  <2>4. QED
    BY <1>6, <2>2, <2>3
<1>11. CASE TurretArrives \/ LidarDies \/ UNCHANGED stopVars
  <2>1. StopTypeOK'
    BY <1>2, <1>11 DEF TurretArrives, LidarDies, stopVars, StopTypeOK, Nodes, autoVars,
       ellipseVars, world
  <2>2. QED
    BY <1>6, <1>11, <2>1 DEF TurretArrives, LidarDies, stopVars, Nodes, autoVars, world
<1>12. QED
  BY <1>3, <1>4, <1>5, <1>7, <1>8, <1>9, <1>10, <1>11 DEF StopNext

LEMMA StopCorrect == StopSpec => []StopInv
<1>1. StopInit => StopInv
  BY StopTypeInit DEF StopInit, StopInv, StopDriveMatches, LastWord
<1>2. QED
  BY <1>1, StopStep, PTL DEF StopSpec

(* The four nodes, their queues and the world around them stay in their    *)
(* types, for every depth of the queues and any pipes.                     *)
THEOREM StopTypeCorrect == StopSpec => []StopTypeOK
<1>1. StopInv => StopTypeOK
  BY DEF StopInv
<1>2. QED
  BY <1>1, StopCorrect, PTL

(* When obstacle_detection has ended and its messages have been taken, the *)
(* robot stands and no press starts it: in a queue of any depth, its last  *)
(* stop is neither dropped nor followed by a clearance.                    *)
THEOREM SilencedCorrect == StopSpec => []Silenced
<1>1. StopInv => Silenced
  BY DEF StopInv, StopDriveMatches, LastWord, Silenced
<1>2. QED
  BY <1>1, StopCorrect, PTL

(* A robot without eyes, once told, stays where it is: when the lidar is   *)
(* silent for lidar_timeout or obstacle_detection has ended, no message    *)
(* but a stop is sent to auto_drive, which does not move without one.      *)
THEOREM BlindCorrect == StopSpec => BlindStays
<1>1. ASSUME StopInv, StopInv', [StopNext]_stopVars, Unseen, Told
      PROVE  Unseen' /\ Told' /\ drive' = "stop"
  <2>1. /\ StopTypeOK /\ StopDriveMatches /\ stops \in Queue({TRUE})
        /\ auto.stop_required /\ detecting \in BOOLEAN /\ lidar \in BOOLEAN
        /\ obstacle \in Obstacle!ObstacleState
    BY <1>1 DEF StopInv, StopTypeOK, Told
  <2>2. ASSUME Unseen', auto'.stop_required, stops' \in Queue({TRUE})
        PROVE  Unseen' /\ Told' /\ drive' = "stop"
    BY <1>1, <2>2 DEF StopInv, StopDriveMatches, Told, Queue
  <2>3. CASE OfAuto(AutoNode!SwitchOn) \/ OfAuto(AutoNode!OtherCallbacks)
    <3>1. /\ AutoNode!SwitchOn \/ AutoNode!OtherCallbacks
          /\ UNCHANGED <<obstacle, detecting, lidar>>
      BY <2>3 DEF OfAuto, world
    <3>2. \/ stops' = stops /\ auto'.stop_required = auto.stop_required
          \/ /\ stops # <<>> /\ stops' = Tail(stops)
             /\ auto'.stop_required = Head(stops)
      BY <2>1, <3>1, AutoStep
    <3>3. auto'.stop_required /\ stops' \in Queue({TRUE})
      <4>1. stops # <<>> => Head(stops) \in {TRUE} /\ Tail(stops) \in Queue({TRUE})
        BY <2>1, TakenLast
      <4>2. stops # <<>> => Head(stops) = TRUE
        BY <4>1, Zenon
      <4>3. QED
        BY <2>1, <3>2, <4>1, <4>2, Zenon
    <3>4. Unseen'
      BY <1>1, <3>1 DEF Unseen
    <3>5. QED
      BY <2>2, <3>3, <3>4
  <2>4. CASE OfDetection(Obstacle!TimerCallback) \/ DetectionQuits
    <3>1. /\ stops' = Arrived(stops, TRUE) /\ UNCHANGED <<auto, obstacle, lidar>>
          /\ detecting' \in {detecting, FALSE}
      <4>1. CASE OfDetection(Obstacle!TimerCallback)
        <5>1. obstacle.scan # "recent"
          BY <1>1, <4>1 DEF Unseen, OfDetection
        <5>2. (obstacle.scan # "recent" \/ obstacle.stop_required) = TRUE
          BY <5>1
        <5>3. QED
          BY <4>1, <5>2, SameTopics
             DEF OfDetection, Obstacle!TimerCallback, autoVars, world
      <4>2. CASE DetectionQuits
        BY <4>2, SameTopics DEF DetectionQuits, Obstacle!Quit, autoVars
      <4>3. QED
        BY <2>4, <4>1, <4>2
    <3>2. stops' \in Queue({TRUE})
      BY <2>1, <3>1, ArrivedLast
    <3>3. Unseen'
      BY <1>1, <3>1 DEF Unseen
    <3>4. QED
      BY <2>1, <2>2, <3>1, <3>2, <3>3
  <2>5. ASSUME UNCHANGED <<auto, stops, detecting>>, ~lidar => ~lidar',
               ~detecting \/ obstacle.scan # "recent" => ~detecting' \/ obstacle'.scan # "recent"
        PROVE  Unseen' /\ Told' /\ drive' = "stop"
    BY <1>1, <2>1, <2>2, <2>5 DEF Unseen
  <2>6. CASE OfDetection(Obstacle!EllipseCallback)
    <3>1. UNCHANGED <<auto, stops, detecting, lidar>>
          /\ obstacle' = [obstacle EXCEPT !.model = Head(distances)]
      BY <2>6 DEF OfDetection, Obstacle!EllipseCallback, autoVars, world
    <3>2. obstacle'.scan = obstacle.scan
      BY <2>1, <3>1 DEF Obstacle!ObstacleState
    <3>3. QED
      BY <2>5, <3>1, <3>2
  <2>7. ~Scan
    BY <1>1 DEF Unseen, Scan, OfDetection
  <2>8. CASE OfDetection(Obstacle!ScanGetsOld)
    <3>1. UNCHANGED <<auto, stops, detecting, lidar>>
          /\ obstacle' = [obstacle EXCEPT !.scan = "old"]
      BY <2>8 DEF OfDetection, Obstacle!ScanGetsOld, autoVars, world
    <3>2. obstacle'.scan = "old"
      BY <2>1, <3>1 DEF Obstacle!ObstacleState
    <3>3. QED
      BY <2>5, <3>1, <3>2
  <2>9. CASE OfEllipse(Ellipse!TurretCallback) \/ OfEllipse(Ellipse!ImuCallback)
             \/ JoyArrives \/ TurretToggles \/ TurretPublishes \/ TurretArrives
             \/ LidarDies \/ UNCHANGED stopVars
    <3>1. UNCHANGED <<auto, stops, obstacle, detecting>> /\ (~lidar => ~lidar')
      BY <2>9 DEF OfEllipse, JoyArrives, TurretToggles, TurretPublishes, PublishHeading,
                  TurretArrives, LidarDies, Nodes, autoVars, world, stopVars
    <3>2. QED
      BY <2>5, <3>1
  <2>10. QED
    BY <1>1, <2>3, <2>4, <2>6, <2>7, <2>8, <2>9 DEF StopNext
<1>2. StopInv /\ StopInv' /\ [StopNext]_stopVars
        => [Unseen /\ Told => Unseen' /\ Told' /\ drive' = "stop"]_stopVars
  BY <1>1
<1>3. QED
  BY <1>2, StopCorrect, PTL DEF StopSpec, BlindStays
=============================================================================
