-------------------------- MODULE IrdWindowProofs --------------------------
(***************************************************************************)
(* Proofs that the receiving daemon loses no packet without a reason:      *)
(* MissingAreListed and DropJustified, while the numbers of a session fit  *)
(* an int.  What makes them hold is that every number between the one that *)
(* opened the link and the highest one, at most a window behind it, is in  *)
(* its slot or was given to the application (Listed); and that a sender    *)
(* numbers its packets without gaps since it started last (Generations),   *)
(* so that a number that is low for its packet was in use before.          *)
(***************************************************************************)
EXTENDS IrdProofs

(* No session has more packets than there are positive ints. *)
NoWrap == MaxPid <= INT_MAX

(* The packets of session x up to packet q, the k-th since the sender started
   last, are numbered from 1 to k. *)
Generation(x, q, k) == \A j \in 1 .. k : seq_nb[x][q - k + j] = j

Generations ==
  \A x \in Snsid :
    /\ counter[x] \in 1 .. sent[x] + 1
    /\ Generation(x, sent[x], counter[x] - 1)
    /\ \A q \in 1 .. sent[x] : /\ seq_nb[x][q] \in 1 .. q
                               /\ Generation(x, q, seq_nb[x][q])

(* The copies in flight, and the packet that waits for its verdict, were sent. *)
OnlySent ==
  /\ \A c \in net : c.pid \in 1 .. sent[c.snsid]
  /\ \A r \in pending : r.pid \in 1 .. sent[r.snsid]

(* A packet of number n was given to the application. *)
GivenNumber(x, n) == \E q \in 1 .. sent[x] : seq_nb[x][q] = n /\ Given(x, q)

(* What the link of x knows of the numbers since it was made. *)
Listed(x) ==
  /\ first_pid[x] \in 1 .. sent[x] /\ Given(x, first_pid[x])
  /\ GivenNumber(x, link[x].high_sn)
  /\ \A n \in seq_nb[x][first_pid[x]] + 1 .. link[x].high_sn - 1 :
       link[x].high_sn - n <= IPRP_DD_MAX_LOST_PACKETS =>
         \/ link[x].list_sn[n % IPRP_DD_MAX_LOST_PACKETS] = n
         \/ GivenNumber(x, n)

WInv ==
  /\ TypeOK /\ Generations /\ OnlySent
  /\ \A x \in receiver_links : Listed(x)
  /\ DropJustified

-----------------------------------------------------------------------------
(***************************************************************************)
(* The slots of a window.                                                  *)
(***************************************************************************)

(* Two numbers of one slot are a window apart. *)
LEMMA SameSlot ==
  ASSUME NEW m \in Nat \ {0}, NEW a \in Nat, NEW b \in Nat, a % m = b % m, a < b
  PROVE  a + m <= b
<1>1. PICK c \in Int : c = a \div m
  BY DivMod
<1>2. PICK d \in Int : d = b \div m
  BY DivMod
<1>3. PICK r \in Int : r = a % m
  BY DivMod
<1>4. a = m * c + r /\ b = m * d + r
  BY <1>1, <1>2, <1>3, DivMod
<1>5. m * c < m * d
  BY <1>4
<1>6. c < d
  BY <1>5, SMT
<1>7. m * (c + 1) <= m * d
  BY <1>6, SMT
<1>8. m * (c + 1) = m * c + m
  BY SMT
<1>9. QED
  BY <1>4, <1>7, <1>8

(* The loop of is_fresh_packet, for numbers that fit an int: of the numbers at most
   a window below n, it stores those it skips and leaves the slots of the others
   alone. *)
LEMMA WindowAfterSkips ==
  ASSUME NEW n \in 1 .. INT_MAX, NEW l \in Link, n > l.high_sn,
         NEW m \in Nat, m < n, n - m <= IPRP_DD_MAX_LOST_PACKETS, m # l.high_sn
  PROVE  LET k == m % IPRP_DD_MAX_LOST_PACKETS IN
         RecordSkipped(n, l)[k] = IF m > l.high_sn THEN m ELSE l.list_sn[k]
<1> DEFINE M == IPRP_DD_MAX_LOST_PACKETS
           S == StoredAt(n, l, m % M)
<1>1. /\ n \in Nat /\ n <= INT_MAX /\ l.high_sn \in Nat /\ M \in Nat \ {0}
      /\ INT_MAX \in Nat
  BY WidthAssumption, WindowAssumption DEF Link, UINT32_MAX
<1>2. m % M \in Slots
  BY SlotOf
<1>3. \A i \in Skipped(n, l) : i \in Nat /\ i > l.high_sn /\ i < n
  BY <1>1 DEF Skipped
<1>4. \A i \in Skipped(n, l) : Index(i) = i % M
  BY <1>1, <1>3 DEF Index
<1>5. RecordSkipped(n, l)[m % M] = IF S = {} THEN l.list_sn[m % M] ELSE Max(S)
  BY <1>2 DEF RecordSkipped
<1>6. ASSUME NEW i \in S PROVE i \in Nat /\ i <= m
  <2>1. i \in Nat /\ i < n /\ i % M = m % M
    BY <1>3, <1>4 DEF StoredAt
  <2>2. ~(m < i)
    <3>1. ASSUME m < i PROVE m + M <= i
      BY <1>1, <2>1, <3>1, SameSlot
    <3>2. QED
      BY <1>1, <2>1, <3>1
  <2>3. QED
    BY <2>1, <2>2
<1>7. CASE m > l.high_sn
  <2>1. m \in Skipped(n, l)
    BY <1>1, <1>7 DEF Skipped
  <2>2. m \in S
    BY <1>4, <2>1 DEF StoredAt
  <2>3. S \subseteq 0 .. n /\ S # {}
    BY <1>1, <1>3, <2>2 DEF StoredAt
  <2> HIDE DEF S
  <2>4. Max(S) \in S /\ m <= Max(S)
    <3>1. 0 \in Int /\ n \in Int
      BY <1>1
    <3>2. Max(S) \in S /\ \A y \in S : y <= Max(S)
      BY <2>3, <3>1, MaxIn
    <3>3. QED
      BY <2>2, <3>2
  <2>5. Max(S) = m
    BY <1>6, <2>4
  <2>6. QED
    BY <1>5, <1>7, <2>2, <2>5
<1>8. CASE ~(m > l.high_sn)
  <2>1. S = {}
    <3>1. ASSUME NEW i \in S PROVE FALSE
      <4>1. i \in Skipped(n, l)
        BY DEF StoredAt
      <4>2. i > l.high_sn /\ i \in Nat /\ i <= m
        BY <1>3, <1>6, <4>1
      <4>3. QED
        BY <1>1, <1>8, <4>2
    <3>2. QED
      BY <3>1
  <2>2. QED
    BY <1>5, <1>8, <2>1
<1>9. QED
  BY <1>7, <1>8

-----------------------------------------------------------------------------
(***************************************************************************)
(* Numbers and packets.                                                    *)
(***************************************************************************)

(* A later packet with a number that is not higher has a number that was in use
   before: the sender had started again in between. *)
LEMMA LowNumberReused ==
  ASSUME TypeOK, Generations, NEW x \in Snsid,
         NEW p \in 1 .. sent[x], NEW q \in 1 .. sent[x],
         q < p, seq_nb[x][p] <= seq_nb[x][q]
  PROVE  Reused(x, p)
<1> DEFINE j == seq_nb[x][p]
           k == seq_nb[x][q]
<1>1. sent[x] \in Nat
  BY BoundAssumption DEF TypeOK
<1>2. k \in 1 .. q /\ j \in 1 .. p /\ Generation(x, q, k)
  BY DEF Generations
<1>3. j \in 1 .. k
  BY <1>1, <1>2
<1>4. seq_nb[x][q - k + j] = j
  BY <1>2, <1>3 DEF Generation
<1>5. q - k + j \in 1 .. sent[x] /\ q - k + j # p
  BY <1>1, <1>2, <1>3
<1>6. QED
  BY <1>4, <1>5 DEF Reused

(* If a packet of the same number was given, it was this one or the number was in
   use before. *)
LEMMA GivenOrReused ==
  ASSUME NEW x \in Snsid, NEW p \in 1 .. sent[x], GivenNumber(x, seq_nb[x][p])
  PROVE  Given(x, p) \/ Reused(x, p)
  BY DEF GivenNumber, Reused

(* The invariant says what MissingAreListed asks. *)
LEMMA ListedMissing == WInv => MissingAreListed
<1> SUFFICES ASSUME WInv, NEW x \in receiver_links, NEW p \in Pid,
                    first_pid[x] < p, p <= sent[x],
                    seq_nb[x][p] < link[x].high_sn,
                    link[x].high_sn - seq_nb[x][p] <= IPRP_DD_MAX_LOST_PACKETS,
                    ~Given(x, p), ~Reused(x, p)
             PROVE  link[x].list_sn[seq_nb[x][p] % IPRP_DD_MAX_LOST_PACKETS]
                      = seq_nb[x][p]
  BY DEF MissingAreListed
<1> DEFINE n == seq_nb[x][p]
           f == first_pid[x]
<1> USE DEF WInv
<1>1. /\ x \in Snsid /\ Listed(x) /\ sent[x] \in Nat
      /\ link[x].high_sn \in Nat /\ f \in 1 .. sent[x]
  BY BoundAssumption, WidthAssumption DEF TypeOK, Listed, Link, UINT32_MAX
<1>2. p \in 1 .. sent[x]
  BY <1>1, BoundAssumption DEF Pid
<1>3. n \in Nat /\ seq_nb[x][f] \in Nat
  BY <1>1, <1>2 DEF Generations
<1>4. n > seq_nb[x][f]
  BY <1>1, <1>2, <1>3, LowNumberReused
<1>5. n \in seq_nb[x][f] + 1 .. link[x].high_sn - 1
  BY <1>1, <1>3, <1>4
<1>6. ~GivenNumber(x, n)
  BY <1>1, <1>2, GivenOrReused
<1>7. QED
  BY <1>1, <1>5, <1>6 DEF Listed

(* What is_fresh_packet calls a duplicate was given to the application, is older
   than the link, later than the window allows, or has a number that was in use. *)
LEMMA DuplicateExplained ==
  ASSUME WInv, pending = {}, NEW c \in net, c.snsid \in receiver_links,
         ~is_fresh_packet(seq_nb[c.snsid][c.pid], link[c.snsid])
  PROVE  KnownOrLate(c) \/ Reused(c.snsid, c.pid)
<1>1. PICK x : x = c.snsid
  OBVIOUS
<1>2. PICK p : p = c.pid
  OBVIOUS
<1>3. PICK n : n = seq_nb[x][p]
  OBVIOUS
<1>4. PICK high : high = link[x].high_sn
  OBVIOUS
<1>5. PICK f : f = first_pid[x]
  OBVIOUS
<1> USE DEF WInv
<1>6. /\ x \in Snsid /\ Listed(x) /\ sent[x] \in Nat /\ high \in Nat
      /\ f \in 1 .. sent[x] /\ p \in 1 .. sent[x]
  BY <1>1, <1>2, <1>4, <1>5, BoundAssumption, WidthAssumption
     DEF TypeOK, Listed, Link, UINT32_MAX, OnlySent
<1>7. /\ n \in Nat /\ seq_nb[x][f] \in Nat
      /\ \A q \in 1 .. sent[x] : q \in Pid
  <2>1. sent[x] <= MaxPid /\ MaxPid \in Nat
    BY <1>6, BoundAssumption DEF TypeOK
  <2>2. QED
    BY <1>3, <1>6, <2>1 DEF Generations, Pid
<1>8. \A q \in 1 .. sent[x] : Given(x, q) => delivered[x][q] >= 1
  BY DEF Given
<1>9. ASSUME GivenNumber(x, n)
      PROVE  KnownOrLate(c) \/ Reused(c.snsid, c.pid)
  BY <1>1, <1>2, <1>3, <1>6, <1>8, <1>9, GivenOrReused DEF KnownOrLate
<1>10. ~(n > high) /\ (n = high \/ link[x].list_sn[n % IPRP_DD_MAX_LOST_PACKETS] # n)
  BY <1>1, <1>2, <1>3, <1>4, <1>6, <1>7 DEF is_fresh_packet
<1>11. CASE n = high
  BY <1>4, <1>6, <1>9, <1>11 DEF Listed
<1>12. CASE n # high /\ p < f
  BY <1>1, <1>2, <1>5, <1>12 DEF KnownOrLate
<1>13. CASE n # high /\ p = f
  BY <1>1, <1>2, <1>5, <1>6, <1>8, <1>13 DEF Listed, KnownOrLate
<1>14. CASE n # high /\ p > f /\ n <= seq_nb[x][f]
  BY <1>1, <1>2, <1>3, <1>6, <1>14, LowNumberReused
<1>15. CASE /\ n # high /\ p > f /\ n > seq_nb[x][f]
            /\ high - n <= IPRP_DD_MAX_LOST_PACKETS
  <2>1. n \in seq_nb[x][f] + 1 .. high - 1
    BY <1>6, <1>7, <1>10, <1>15
  <2>2. GivenNumber(x, n)
    BY <1>4, <1>5, <1>6, <1>10, <1>15, <2>1 DEF Listed
  <2>3. QED
    BY <1>9, <2>2
<1>16. CASE /\ n # high /\ p > f /\ n > seq_nb[x][f]
            /\ ~(high - n <= IPRP_DD_MAX_LOST_PACKETS)
  <2>1. PICK q \in 1 .. sent[x] : seq_nb[x][q] = high /\ delivered[x][q] >= 1
    BY <1>4, <1>6, <1>8 DEF Listed, GivenNumber
  <2>2. n < high
    BY <1>6, <1>7, <1>10, <1>16
  <2>3. CASE q < p
    BY <1>1, <1>2, <1>3, <1>6, <1>7, <2>1, <2>2, <2>3, LowNumberReused
  <2>4. CASE q = p
    BY <1>3, <1>6, <1>7, <2>1, <2>2, <2>4
  <2>5. CASE q > p
    <3>1. high \in 1 .. q /\ Generation(x, q, high) /\ n \in 1 .. p
      BY <1>3, <1>6, <2>1 DEF Generations
    <3>2. n \in 1 .. high /\ q \in Nat /\ p \in Nat
      BY <1>6, <2>2, <3>1
    <3>3. seq_nb[x][q - high + n] = n /\ q - high + n \in 1 .. sent[x]
      BY <1>6, <3>1, <3>2 DEF Generation
    <3>4. CASE q - high + n = p
      <4>1. q > p + IPRP_DD_MAX_LOST_PACKETS
        BY <1>6, <1>7, <1>16, <3>2, <3>4, WindowAssumption
      <4>2. QED
        BY <1>1, <1>2, <1>7, <2>1, <4>1 DEF KnownOrLate
    <3>5. CASE q - high + n # p
      BY <1>1, <1>2, <1>3, <3>3, <3>5 DEF Reused
    <3>6. QED
      BY <3>4, <3>5
  <2>6. QED
    BY <1>6, <2>3, <2>4, <2>5
<1>17. QED
  BY <1>6, <1>7, <1>11, <1>12, <1>13, <1>14, <1>15, <1>16

-----------------------------------------------------------------------------
(***************************************************************************)
(* What the steps leave alone.                                             *)
(***************************************************************************)

(* A step that takes back no packet keeps what a link knows that it leaves as it
   is. *)
LEMMA ListedKept ==
  ASSUME NEW x \in Snsid, Listed(x), sent[x] \in Nat, sent'[x] \in Nat,
         sent[x] <= sent'[x], first_pid'[x] = first_pid[x],
         link'[x].high_sn = link[x].high_sn, link'[x].list_sn = link[x].list_sn,
         \A q \in 1 .. sent[x] : /\ seq_nb'[x][q] = seq_nb[x][q]
                                 /\ Given(x, q) => Given(x, q)'
  PROVE  Listed(x)'
<1>1. \A q \in 1 .. sent[x] : q \in 1 .. sent'[x]
  OBVIOUS
<1>2. ASSUME NEW n, GivenNumber(x, n) PROVE GivenNumber(x, n)'
  BY <1>1, <1>2 DEF GivenNumber
<1>3. PICK high : high = link[x].high_sn
  OBVIOUS
<1>4. PICK f : f = first_pid[x]
  OBVIOUS
<1>5. /\ f \in 1 .. sent'[x] /\ Given(x, f)' /\ seq_nb'[x][f] = seq_nb[x][f]
      /\ first_pid'[x] = f
  BY <1>1, <1>4 DEF Listed
<1>6. GivenNumber(x, high)' /\ link'[x].high_sn = high
  BY <1>2, <1>3 DEF Listed
<1>7. ASSUME NEW n \in seq_nb[x][f] + 1 .. high - 1,
             high - n <= IPRP_DD_MAX_LOST_PACKETS
      PROVE  \/ link'[x].list_sn[n % IPRP_DD_MAX_LOST_PACKETS] = n
             \/ GivenNumber(x, n)'
  BY <1>2, <1>3, <1>4, <1>7 DEF Listed
<1>8. QED
  BY <1>5, <1>6, <1>7 DEF Listed

(* Steps of the sender, the clock and the cleanup thread. *)
LEMMA QuietStep ==
  ASSUME WInv, TypeOK', UNCHANGED <<link, first_pid, pending, delivered>>,
         receiver_links' \subseteq receiver_links,
         \A x \in Snsid : /\ sent[x] <= sent'[x]
                          /\ \A q \in 1 .. sent[x] : seq_nb'[x][q] = seq_nb[x][q]
  PROVE  (\A x \in receiver_links' : Listed(x)') /\ DropJustified'
<1> USE DEF WInv
<1>1. \A x \in Snsid : sent[x] \in Nat /\ sent'[x] \in Nat
  BY BoundAssumption DEF TypeOK
<1>2. \A x, q : Given(x, q) => Given(x, q)'
  BY DEF Given
<1>3. ASSUME NEW x \in receiver_links' PROVE Listed(x)'
  <2>1. x \in Snsid /\ Listed(x)
    BY DEF TypeOK
  <2>2. QED
    BY <1>1, <1>2, <2>1, ListedKept
<1>4. ASSUME NEW r \in pending, ~r.fresh
      PROVE  KnownOrLate(r)' \/ Reused(r.snsid, r.pid)'
  <2>1. CASE KnownOrLate(r)
    BY <2>1 DEF KnownOrLate
  <2>2. CASE Reused(r.snsid, r.pid)
    <3>1. r.snsid \in Snsid /\ r.pid \in 1 .. sent[r.snsid]
      BY DEF TypeOK, Classified, OnlySent
    <3>2. PICK y : y = r.snsid
      OBVIOUS
    <3>3. PICK q \in 1 .. sent[y] : q # r.pid /\ seq_nb[y][q] = seq_nb[y][r.pid]
      BY <2>2, <3>2 DEF Reused
    <3>4. seq_nb'[y][q] = seq_nb'[y][r.pid] /\ q \in 1 .. sent'[y]
      BY <1>1, <3>1, <3>2, <3>3
    <3>5. QED
      BY <3>2, <3>3, <3>4 DEF Reused
  <2>3. QED
    BY <1>4, <2>1, <2>2 DEF DropJustified
<1>5. QED
  BY <1>3, <1>4 DEF DropJustified

(* Steps that send nothing leave the generations alone. *)
LEMMA SameNumbers ==
  ASSUME WInv, UNCHANGED <<counter, seq_nb, sent>>
  PROVE  Generations'
  BY DEF WInv, Generations, Generation

(* Steps of the clock and the cleanup thread, and a start of the daemon. *)
LEMMA SilentStep ==
  ASSUME WInv, TypeOK', net' \subseteq net, receiver_links' \subseteq receiver_links,
         UNCHANGED <<counter, seq_nb, sent, link, first_pid, pending, delivered>>
  PROVE  WInv'
<1>1. \A x \in Snsid : sent[x] \in Nat
  BY BoundAssumption DEF WInv, TypeOK
<1>2. (\A x \in receiver_links' : Listed(x)') /\ DropJustified'
  BY <1>1, QuietStep
<1>3. OnlySent'
  BY DEF WInv, OnlySent
<1>4. QED
  BY <1>2, <1>3, SameNumbers DEF WInv

-----------------------------------------------------------------------------
(***************************************************************************)
(* The steps.                                                              *)
(***************************************************************************)

(* The ISD continues its generation. *)
LEMMA SendStep ==
  ASSUME NoWrap, WInv, TypeOK', NEW x \in Snsid, Send(x)
  PROVE  WInv'
<1> USE DEF WInv
<1> PICK p : p = sent[x] + 1
  OBVIOUS
<1> PICK n : n = counter[x]
  OBVIOUS
<1>1. /\ sent' = [sent EXCEPT ![x] = p]
      /\ net' = net \union {[snsid |-> x, pid |-> p, sent |-> now]}
      /\ seq_nb' = [seq_nb EXCEPT ![x][p] = n]
      /\ counter' = [counter EXCEPT ![x] = next_seq_nb(n)]
      /\ sent[x] < MaxPid
      /\ UNCHANGED <<receiver_links, link, first_pid, pending, delivered>>
  BY DEF Send
<1>2. /\ \A y \in Snsid : sent[y] \in Nat /\ sent[y] <= MaxPid
      /\ MaxPid \in Nat
  BY BoundAssumption DEF TypeOK
<1>3. p \in Pid /\ p \in Nat /\ n \in 1 .. p
  BY <1>1, <1>2 DEF Generations, Pid
<1>4. /\ sent'[x] = p /\ seq_nb'[x][p] = n /\ counter'[x] = next_seq_nb(n)
      /\ \A q \in Pid : q # p => seq_nb'[x][q] = seq_nb[x][q]
      /\ \A y \in Snsid : y # x =>
           /\ sent'[y] = sent[y] /\ seq_nb'[y] = seq_nb[y] /\ counter'[y] = counter[y]
  BY <1>1, <1>3 DEF TypeOK
<1>5. next_seq_nb(n) = n + 1
  BY <1>1, <1>2, <1>3, WidthAssumption DEF next_seq_nb, NoWrap, UINT32_MAX
<1>6. \A y \in Snsid : /\ sent[y] <= sent'[y]
                       /\ \A q \in 1 .. sent[y] : seq_nb'[y][q] = seq_nb[y][q]
  <2>1. \A q \in 1 .. sent[x] : q \in Pid /\ q # p
    BY <1>2 DEF Pid
  <2>2. QED
    BY <1>2, <1>4, <2>1
<1>7. (\A y \in receiver_links' : Listed(y)') /\ DropJustified'
  BY <1>1, <1>6, QuietStep
<1>8. Generation(x, p, n)'
  <2>1. ASSUME NEW j \in 1 .. n PROVE seq_nb'[x][p - n + j] = j
    <3>1. CASE j = n
      BY <1>3, <1>4, <3>1
    <3>2. CASE j # n
      <4>1. j \in 1 .. n - 1 /\ p - n + j = sent[x] - (n - 1) + j
        BY <1>2, <1>3, <3>2
      <4>2. seq_nb[x][p - n + j] = j
        BY <4>1 DEF Generations, Generation
      <4>3. p - n + j \in 1 .. sent[x]
        BY <1>2, <1>3, <4>1
      <4>4. QED
        BY <1>6, <4>2, <4>3
    <3>3. QED
      BY <3>1, <3>2
  <2>2. QED
    BY <2>1 DEF Generation
<1>9. ASSUME NEW q \in 1 .. sent[x]
      PROVE  seq_nb'[x][q] \in 1 .. q /\ Generation(x, q, seq_nb[x][q])'
  <2>1. /\ seq_nb[x][q] \in 1 .. q /\ seq_nb'[x][q] = seq_nb[x][q]
        /\ Generation(x, q, seq_nb[x][q])
    BY <1>6 DEF Generations
  <2>2. PICK k : k = seq_nb[x][q]
    OBVIOUS
  <2>3. \A j \in 1 .. k : q - k + j \in 1 .. sent[x]
    BY <1>2, <2>1, <2>2
  <2>4. \A j \in 1 .. k : seq_nb'[x][q - k + j] = j
    BY <1>6, <2>1, <2>2, <2>3 DEF Generation
  <2>5. QED
    BY <2>1, <2>2, <2>4 DEF Generation
<1>10. Generations'
  <2>1. /\ counter'[x] \in 1 .. sent'[x] + 1
        /\ Generation(x, sent[x], counter[x] - 1)'
    BY <1>3, <1>4, <1>5, <1>8
  <2>2. ASSUME NEW q \in 1 .. p
        PROVE  seq_nb'[x][q] \in 1 .. q /\ Generation(x, q, seq_nb[x][q])'
    <3>1. CASE q = p
      BY <1>3, <1>4, <1>8, <3>1
    <3>2. CASE q # p
      <4>1. q \in 1 .. sent[x]
        BY <1>2, <3>2
      <4>2. QED
        BY <1>6, <1>9, <4>1
    <3>3. QED
      BY <3>1, <3>2
  <2>3. ASSUME NEW y \in Snsid, y # x
        PROVE  /\ counter'[y] \in 1 .. sent'[y] + 1
               /\ Generation(y, sent[y], counter[y] - 1)'
               /\ \A q \in 1 .. sent'[y] : /\ seq_nb'[y][q] \in 1 .. q
                                           /\ Generation(y, q, seq_nb[y][q])'
    BY <1>4, <2>3 DEF Generations, Generation
  <2>4. QED
    BY <1>4, <2>1, <2>2, <2>3 DEF Generations
<1>11. OnlySent'
  <2>1. ASSUME NEW y \in Snsid, NEW q \in 1 .. sent[y] PROVE q \in 1 .. sent'[y]
    BY <1>2, <1>4, <2>1
  <2>2. ASSUME NEW c \in net PROVE c.pid \in 1 .. sent'[c.snsid]
    BY <2>1 DEF OnlySent, TypeOK, Copy
  <2>3. ASSUME NEW r \in pending PROVE r.pid \in 1 .. sent'[r.snsid]
    BY <2>1 DEF OnlySent, TypeOK, Classified
  <2>4. p \in 1 .. sent'[x]
    BY <1>3, <1>4
  <2>5. QED
    BY <1>1, <2>2, <2>3, <2>4 DEF OnlySent
<1>12. QED
  BY <1>7, <1>10, <1>11

(* A reboot of the sender begins a generation without packets. *)
LEMMA RebootStep ==
  ASSUME WInv, TypeOK', NEW x \in Snsid, Reboot(x)
  PROVE  WInv'
<1> USE DEF WInv
<1>1. /\ counter' = [counter EXCEPT ![x] = 1]
      /\ UNCHANGED <<sent, net, seq_nb, receiver_links, link, first_pid, pending,
                     delivered>>
  BY DEF Reboot
<1>2. \A y \in Snsid : sent[y] \in Nat
  BY BoundAssumption DEF TypeOK
<1>3. (\A y \in receiver_links' : Listed(y)') /\ DropJustified'
  BY <1>1, <1>2, QuietStep
<1>4. OnlySent'
  BY <1>1 DEF OnlySent
<1>5. Generations'
  <2>1. \A y \in Snsid : counter'[y] = IF y = x THEN 1 ELSE counter[y]
    BY <1>1 DEF TypeOK
  <2>2. 1 \in 1 .. sent[x] + 1 /\ Generation(x, sent[x], 1 - 1)'
    BY <1>2 DEF Generation
  <2>3. \A y \in Snsid : \A q, k : Generation(y, q, k) => Generation(y, q, k)'
    BY <1>1 DEF Generation
  <2>4. ASSUME NEW y \in Snsid
        PROVE  /\ counter'[y] \in 1 .. sent'[y] + 1
               /\ Generation(y, sent[y], counter[y] - 1)'
    BY <1>1, <2>1, <2>2, <2>3 DEF Generations, Generation
  <2>5. QED
    BY <1>1, <2>3, <2>4 DEF Generations, Generation
<1>6. QED
  BY <1>3, <1>4, <1>5

(* A kill leaves no link and no packet to speak of. *)
LEMMA ShutdownStep ==
  ASSUME WInv, TypeOK', Shutdown
  PROVE  WInv'
<1>1. /\ receiver_links' = {} /\ pending' = {}
      /\ UNCHANGED <<sent, net, counter, seq_nb>>
  BY DEF Shutdown, sender
<1>2. OnlySent' /\ DropJustified'
  BY <1>1 DEF WInv, OnlySent, DropJustified
<1>3. QED
  BY <1>1, <1>2, SameNumbers DEF WInv

(* The verdict: a fresh packet is forwarded, a duplicate was not to be given. *)
LEMMA VerdictStep ==
  ASSUME WInv, TypeOK', ForwardFresh \/ DropDuplicate
  PROVE  WInv'
<1> USE DEF WInv
<1>1. /\ pending' = {}
      /\ UNCHANGED <<sent, net, counter, seq_nb, receiver_links, link, first_pid>>
  BY DEF ForwardFresh, DropDuplicate, sender
<1>2. \A x \in Snsid : sent[x] \in Nat /\ sent'[x] \in Nat /\ sent[x] <= sent'[x]
  BY <1>1, BoundAssumption DEF TypeOK
<1>3. ASSUME NEW x \in Snsid, NEW q \in 1 .. sent[x], Given(x, q)
      PROVE  Given(x, q)'
  <2>1. q \in Pid /\ delivered[x][q] \in Nat
    <3>1. q \in Pid
      BY <1>2, BoundAssumption DEF TypeOK, Pid
    <3>2. QED
      BY <3>1 DEF TypeOK
  <2>2. CASE ForwardFresh
    <3>1. PICK r \in pending :
            /\ r.fresh
            /\ delivered' = [delivered EXCEPT ![r.snsid][r.pid] = @ + 1]
      BY <2>2 DEF ForwardFresh
    <3>2. \A s \in pending : s = r
      BY DEF TypeOK
    <3>3. delivered'[x][q] = IF x = r.snsid /\ q = r.pid THEN delivered[x][q] + 1
                                                        ELSE delivered[x][q]
      BY <2>1, <3>1 DEF TypeOK
    <3>4. CASE delivered[x][q] >= 1
      BY <2>1, <3>3, <3>4 DEF Given
    <3>5. CASE ~(delivered[x][q] >= 1)
      <4>1. r.snsid = x /\ r.pid = q
        BY <1>3, <3>2, <3>5 DEF Given
      <4>2. QED
        BY <2>1, <3>3, <4>1 DEF Given
    <3>6. QED
      BY <3>4, <3>5
  <2>3. CASE DropDuplicate
    <3>1. \A r \in pending : ~r.fresh
      BY <2>3, Zenon DEF DropDuplicate, TypeOK
    <3>2. delivered' = delivered
      BY <2>3 DEF DropDuplicate
    <3>3. QED
      BY <1>3, <3>1, <3>2 DEF Given
  <2>4. QED
    BY <2>2, <2>3
<1>4. ASSUME NEW x \in receiver_links' PROVE Listed(x)'
  <2>1. x \in Snsid /\ Listed(x)
    BY <1>1 DEF TypeOK
  <2>2. QED
    BY <1>1, <1>2, <1>3, <2>1, ListedKept
<1>5. OnlySent' /\ DropJustified'
  BY <1>1 DEF OnlySent, DropJustified
<1>6. QED
  BY <1>1, <1>4, <1>5, SameNumbers

(* With no verdict pending, what was given was forwarded, and stays so. *)
LEMMA GivenStays ==
  ASSUME pending = {}, delivered' = delivered
  PROVE  \A x, q : Given(x, q) => Given(x, q)'
  BY DEF Given

(* handle_packet leaves the links of other senders alone. *)
LEMMA OthersKept ==
  ASSUME WInv, pending = {}, NEW x \in Snsid, NEW y \in receiver_links, y # x,
         link'[y] = link[y], first_pid'[y] = first_pid[y],
         UNCHANGED <<delivered, sent, seq_nb>>
  PROVE  Listed(y)'
<1>1. y \in Snsid /\ Listed(y) /\ sent[y] \in Nat
  BY BoundAssumption DEF WInv, TypeOK
<1>2. QED
  BY <1>1, ListedKept, GivenStays

(* The packet that opens a link is given. *)
LEMMA UnknownSenderStep ==
  ASSUME WInv, TypeOK', NEW c \in net, HandleUnknownSender(c)
  PROVE  WInv'
<1> USE DEF WInv
<1> PICK x : x = c.snsid
  OBVIOUS
<1> PICK n : n = seq_nb[x][c.pid]
  OBVIOUS
<1>1. /\ pending = {}
      /\ receiver_links' = receiver_links \union {x}
      /\ link' = [link EXCEPT ![x] = receiver_link_create(n)]
      /\ first_pid' = [first_pid EXCEPT ![x] = c.pid]
      /\ pending' = {[snsid |-> x, pid |-> c.pid, fresh |-> TRUE]}
      /\ UNCHANGED <<sent, net, delivered, counter, seq_nb>>
  BY DEF HandleUnknownSender, sender
<1>2. x \in Snsid /\ c.pid \in 1 .. sent[x]
  BY DEF TypeOK, Copy, OnlySent
<1>3. n \in Nat
  BY <1>2 DEF Generations
<1>4. /\ link'[x].high_sn = n /\ first_pid'[x] = c.pid
      /\ \A y \in Snsid : y # x => link'[y] = link[y] /\ first_pid'[y] = first_pid[y]
  BY <1>1, <1>2 DEF TypeOK, receiver_link_create
<1>5. Given(x, c.pid)'
  BY <1>1 DEF Given
<1>6. GivenNumber(x, n)'
  BY <1>1, <1>2, <1>5 DEF GivenNumber
<1>7. Listed(x)'
  <2>1. n + 1 .. n - 1 = {}
    BY <1>3
  <2>2. first_pid'[x] \in 1 .. sent'[x] /\ Given(x, first_pid[x])'
    BY <1>1, <1>2, <1>4, <1>5
  <2>3. GivenNumber(x, link[x].high_sn)'
    BY <1>4, <1>6
  <2>4. seq_nb'[x][first_pid'[x]] + 1 .. link'[x].high_sn - 1 = {}
    BY <1>1, <1>4, <2>1
  <2>5. QED
    BY <2>2, <2>3, <2>4 DEF Listed
<1>8. ASSUME NEW y \in receiver_links, y # x PROVE Listed(y)'
  <2>1. y \in Snsid
    BY DEF TypeOK
  <2>2. QED
    BY <1>1, <1>2, <1>4, <1>8, <2>1, OthersKept
<1>9. OnlySent' /\ DropJustified'
  BY <1>1, <1>2 DEF OnlySent, DropJustified
<1>10. QED
  BY <1>1, <1>7, <1>8, <1>9, SameNumbers

(* is_fresh_packet keeps the window: what it skips it lists, and what it takes from
   the list it gives. *)
LEMMA KnownSenderListed ==
  ASSUME NoWrap, WInv, TypeOK', NEW c \in net, HandleKnownSender(c)
  PROVE  Listed(c.snsid)'
<1> USE DEF WInv
<1> PICK x : x = c.snsid
  OBVIOUS
<1> PICK n : n = seq_nb[x][c.pid]
  OBVIOUS
<1> PICK l : l = link[x]
  OBVIOUS
<1> PICK f : f = first_pid[x]
  OBVIOUS
<1> DEFINE M == IPRP_DD_MAX_LOST_PACKETS
<1>1. /\ pending = {} /\ x \in receiver_links
      /\ link' = [link EXCEPT ![x] =
                    [RecordPacket(n, l) EXCEPT !.last_seen = curr_time]]
      /\ pending' = {[snsid |-> x, pid |-> c.pid, fresh |-> is_fresh_packet(n, l)]}
      /\ UNCHANGED <<sent, delivered, first_pid, seq_nb>>
  BY DEF HandleKnownSender, sender
<1>2. /\ x \in Snsid /\ c.pid \in 1 .. sent[x] /\ l \in Link /\ Listed(x)
      /\ sent[x] \in Nat /\ sent[x] <= MaxPid /\ MaxPid \in Nat
  BY <1>1, BoundAssumption DEF TypeOK, Copy, OnlySent
<1>3. /\ n \in 1 .. c.pid /\ n \in 1 .. INT_MAX /\ n \in 1 .. UINT32_MAX
      /\ n \in Nat /\ l.high_sn \in Nat
  BY <1>2, WidthAssumption DEF Generations, NoWrap, UINT32_MAX, Link
<1>4. link'[x] = [RecordPacket(n, l) EXCEPT !.last_seen = curr_time]
  BY <1>1, <1>2 DEF TypeOK
<1>5. /\ link'[x].high_sn = RecordPacket(n, l).high_sn
      /\ link'[x].list_sn = RecordPacket(n, l).list_sn
  <2>1. RecordPacket(n, l) \in Link
    BY <1>2, <1>3, RecordPacketType
  <2>2. PICK r \in Link : r = RecordPacket(n, l)
    BY <2>1
  <2>3. QED
    BY <1>4, <2>2 DEF Link
<1>6. ASSUME NEW m, GivenNumber(x, m) PROVE GivenNumber(x, m)'
  BY <1>1, <1>6, GivenStays DEF GivenNumber
<1>7. is_fresh_packet(n, l) => GivenNumber(x, n)'
  BY <1>1, <1>2 DEF GivenNumber, Given
<1>8. /\ f \in 1 .. sent'[x] /\ Given(x, f)' /\ first_pid'[x] = f
      /\ seq_nb'[x][f] = seq_nb[x][f] /\ seq_nb[x][f] \in Nat
  <2>1. f \in 1 .. sent[x] /\ Given(x, f)
    BY <1>2 DEF Listed
  <2>2. QED
    BY <1>1, <1>2, <2>1, GivenStays DEF Generations
<1>9. \A m \in seq_nb[x][f] + 1 .. l.high_sn - 1 :
        l.high_sn - m <= M => l.list_sn[m % M] = m \/ GivenNumber(x, m)
  BY <1>2 DEF Listed
<1>10. PICK high, sn : /\ high = link'[x].high_sn /\ high = RecordPacket(n, l).high_sn
                       /\ sn = link'[x].list_sn /\ sn = RecordPacket(n, l).list_sn
  BY <1>5
<1> SUFFICES /\ GivenNumber(x, high)'
             /\ \A m \in seq_nb[x][f] + 1 .. high - 1 :
                  high - m <= M => sn[m % M] = m \/ GivenNumber(x, m)'
  <2>1. ASSUME NEW m \in seq_nb'[x][first_pid'[x]] + 1 .. link'[x].high_sn - 1,
               link'[x].high_sn - m <= M,
               \A k \in seq_nb[x][f] + 1 .. high - 1 :
                 high - k <= M => sn[k % M] = k \/ GivenNumber(x, k)'
        PROVE  link'[x].list_sn[m % M] = m \/ GivenNumber(x, m)'
    BY <1>8, <1>10, <2>1
  <2>2. ASSUME GivenNumber(x, high)' PROVE GivenNumber(x, link[x].high_sn)'
    BY <1>10, <2>2
  <2>3. QED
    BY <1>8, <2>1, <2>2 DEF Listed
<1>11. GivenNumber(x, l.high_sn)'
  BY <1>2, <1>6 DEF Listed
<1>12. CASE n > l.high_sn
  <2>1. RecordPacket(n, l).high_sn = n /\ RecordPacket(n, l).list_sn = RecordSkipped(n, l)
    BY <1>2, <1>12 DEF RecordPacket, Link
  <2>2. GivenNumber(x, n)'
    BY <1>7, <1>12 DEF is_fresh_packet
  <2>3. ASSUME NEW m \in seq_nb[x][f] + 1 .. n - 1, n - m <= M
        PROVE  RecordSkipped(n, l)[m % M] = m \/ GivenNumber(x, m)'
    <3>1. m \in Nat /\ m < n
      BY <1>3, <1>8
    <3>2. CASE m = l.high_sn
      BY <1>11, <3>2
    <3>3. CASE m > l.high_sn
      BY <1>2, <1>3, <1>12, <2>3, <3>1, <3>3, WindowAfterSkips
    <3>4. CASE m < l.high_sn
      <4>1. RecordSkipped(n, l)[m % M] = l.list_sn[m % M]
        BY <1>2, <1>3, <1>12, <2>3, <3>1, <3>4, WindowAfterSkips
      <4>2. m \in seq_nb[x][f] + 1 .. l.high_sn - 1 /\ l.high_sn - m <= M
        BY <1>3, <1>8, <1>12, <2>3, <3>1, <3>4, WindowAssumption
      <4>3. QED
        BY <1>6, <1>9, <4>1, <4>2
    <3>5. QED
      BY <1>3, <3>1, <3>2, <3>3, <3>4
  <2>4. QED
    BY <1>10, <2>1, <2>2, <2>3
<1>13. CASE ~(n > l.high_sn) /\ is_fresh_packet(n, l)
  <2>1. /\ RecordPacket(n, l).high_sn = l.high_sn
        /\ RecordPacket(n, l).list_sn = [l.list_sn EXCEPT ![n % M] = 0]
    BY <1>2, <1>13 DEF RecordPacket, Link
  <2>2. l.list_sn[n % M] = n
    BY <1>13 DEF is_fresh_packet
  <2>3. ASSUME NEW m \in seq_nb[x][f] + 1 .. l.high_sn - 1, l.high_sn - m <= M
        PROVE  [l.list_sn EXCEPT ![n % M] = 0][m % M] = m \/ GivenNumber(x, m)'
    <3>1. m % M \in Slots /\ l.list_sn \in [Slots -> 0 .. UINT32_MAX]
      <4>1. m \in Nat
        BY <1>8
      <4>2. QED
        BY <1>2, <4>1, SlotOf DEF Link
    <3>2. l.list_sn[m % M] = m \/ GivenNumber(x, m)
      BY <1>9, <2>3
    <3>3. CASE GivenNumber(x, m)
      BY <1>6, <3>3
    <3>4. CASE l.list_sn[m % M] = m /\ m % M = n % M
      BY <1>7, <1>13, <2>2, <3>4
    <3>5. CASE l.list_sn[m % M] = m /\ m % M # n % M
      BY <3>1, <3>5
    <3>6. QED
      BY <3>2, <3>3, <3>4, <3>5
  <2>4. QED
    BY <1>10, <1>11, <2>1, <2>3
<1>14. CASE ~(n > l.high_sn) /\ ~is_fresh_packet(n, l)
  <2>1. RecordPacket(n, l) = l
    BY <1>14 DEF RecordPacket
  <2>2. QED
    BY <1>6, <1>9, <1>10, <1>11, <2>1
<1>15. QED
  BY <1>12, <1>13, <1>14

(* handle_packet for a known session: what it calls a duplicate is explained. *)
LEMMA KnownSenderStep ==
  ASSUME NoWrap, WInv, TypeOK', NEW c \in net, HandleKnownSender(c)
  PROVE  WInv'
<1> USE DEF WInv
<1> PICK x : x = c.snsid
  OBVIOUS
<1> PICK n : n = seq_nb[x][c.pid]
  OBVIOUS
<1> PICK fresh : fresh = is_fresh_packet(n, link[x])
  OBVIOUS
<1>1. /\ pending = {} /\ x \in receiver_links
      /\ \E r : link' = [link EXCEPT ![x] = r]
      /\ pending' = {[snsid |-> x, pid |-> c.pid, fresh |-> fresh]}
      /\ UNCHANGED <<sent, net, delivered, counter, seq_nb, first_pid,
                     receiver_links>>
  BY DEF HandleKnownSender, sender
<1>2. /\ x \in Snsid /\ c.pid \in 1 .. sent[x]
      /\ \A y \in Snsid : y # x => link'[y] = link[y]
  BY <1>1 DEF TypeOK, Copy, OnlySent
<1>3. ASSUME NEW y \in receiver_links PROVE Listed(y)'
  <2>1. CASE y = x
    BY <2>1, KnownSenderListed
  <2>2. CASE y # x
    <3>1. y \in Snsid
      BY DEF TypeOK
    <3>2. QED
      BY <1>1, <1>2, <2>2, <3>1, OthersKept
  <2>3. QED
    BY <2>1, <2>2
<1>4. OnlySent'
  BY <1>1, <1>2 DEF OnlySent
<1>5. DropJustified'
  <2>1. ASSUME ~fresh
        PROVE  KnownOrLate(c) \/ Reused(x, c.pid)
    BY <1>1, <2>1, DuplicateExplained
  <2>2. PICK r : r = [snsid |-> x, pid |-> c.pid, fresh |-> fresh]
    OBVIOUS
  <2>3. r.snsid = x /\ r.pid = c.pid /\ r.fresh = fresh
    BY <2>2
  <2>4. ASSUME ~fresh
        PROVE  KnownOrLate(r)' \/ Reused(r.snsid, r.pid)'
    BY <1>1, <2>1, <2>3, <2>4 DEF KnownOrLate, Reused
  <2>5. pending' = {r}
    BY <1>1, <2>2
  <2>6. QED
    BY <2>3, <2>4, <2>5 DEF DropJustified
<1>6. QED
  BY <1>1, <1>3, <1>4, <1>5, SameNumbers

-----------------------------------------------------------------------------
(***************************************************************************)
(* The theorems.                                                           *)
(***************************************************************************)

(* The daemon starts without links. *)
LEMMA InitWInv == Init => WInv
<1> SUFFICES ASSUME Init PROVE WInv
  OBVIOUS
<1> USE DEF Init
<1>1. TypeOK
  BY InitTypeOK
<1>2. \A x \in Snsid : sent[x] = 0 /\ counter[x] = 1
  OBVIOUS
<1>3. Generations
  BY <1>2 DEF Generations, Generation
<1>4. OnlySent /\ DropJustified /\ receiver_links = {}
  BY DEF OnlySent, DropJustified
<1>5. QED
  BY <1>1, <1>3, <1>4 DEF WInv

(* Every step keeps the invariant, whatever the timing. *)
LEMMA NextWInv == NoWrap /\ WInv /\ [Next]_vars => WInv'
<1> SUFFICES ASSUME NoWrap, WInv, [Next]_vars PROVE WInv'
  OBVIOUS
<1>1. TypeOK'
  BY NextTypeOK DEF WInv
<1>2. ASSUME NEW x \in Snsid, Send(x) PROVE WInv'
  BY <1>1, <1>2, SendStep
<1>3. ASSUME NEW x \in Snsid, Reboot(x) PROVE WInv'
  BY <1>1, <1>3, RebootStep
<1>4. CASE Tick
  <2>1. net' \subseteq net
    BY <1>4 DEF Tick
  <2>2. QED
    BY <1>1, <1>4, <2>1, SilentStep DEF Tick, sender
<1>5. CASE SampleTime
  BY <1>1, <1>5, SilentStep DEF SampleTime, sender
<1>6. CASE Launch
  BY <1>1, <1>6, SilentStep DEF Launch, sender
<1>7. CASE Shutdown
  BY <1>1, <1>7, ShutdownStep
<1>8. CASE ForwardFresh \/ DropDuplicate
  BY <1>1, <1>8, VerdictStep
<1>9. ASSUME NEW c \in net, HandleUnknownSender(c) PROVE WInv'
  BY <1>1, <1>9, UnknownSenderStep
<1>10. ASSUME NEW c \in net, HandleKnownSender(c) PROVE WInv'
  BY <1>1, <1>10, KnownSenderStep
<1>11. CASE CleanupStart
  BY <1>1, <1>11, SilentStep DEF CleanupStart, sender
<1>12. ASSUME NEW x \in Snsid, CleanupVisit(x) PROVE WInv'
  <2>1. /\ receiver_links' \subseteq receiver_links /\ net' \subseteq net
        /\ UNCHANGED <<counter, seq_nb, sent, link, first_pid, pending, delivered>>
    BY <1>12 DEF CleanupVisit, CleanupExpired, CleanupFresh, sender
  <2>2. QED
    BY <1>1, <2>1, SilentStep
<1>13. CASE UNCHANGED vars
  BY <1>1, <1>13, SilentStep DEF vars, sender
<1>14. QED
  BY <1>2, <1>3, <1>4, <1>5, <1>6, <1>7, <1>8, <1>9, <1>10, <1>11, <1>12, <1>13
     DEF Next, Handler, Cleanup

(* The list of missing numbers is complete: a packet of the window that was not
   given to the application is found when it comes late, for every size of the
   window, and whatever the cleanup thread, kills and reboots do. *)
THEOREM MissingStayListed == NoWrap => (Spec => []MissingAreListed)
<1> SUFFICES ASSUME NoWrap PROVE Spec => []MissingAreListed
  OBVIOUS
<1>1. WInv /\ [Next]_vars => WInv'
  BY NextWInv
<1>2. QED
  BY <1>1, InitWInv, ListedMissing, PTL DEF Spec

(* handle_packet drops a packet only if it was forwarded, is older than its link,
   is later than the window allows, or has a number that was in use before. *)
THEOREM DropsJustified == NoWrap => (Spec => []DropJustified)
<1> SUFFICES ASSUME NoWrap PROVE Spec => []DropJustified
  OBVIOUS
<1>1. WInv /\ [Next]_vars => WInv'
  BY NextWInv
<1>2. WInv => DropJustified
  BY DEF WInv
<1>3. QED
  BY <1>1, <1>2, InitWInv, PTL DEF Spec

(* A sender that has not rebooted still counts its first packets. *)
FirstGeneration == \A x \in Snsid : counter[x] = sent[x] + 1

(* Without reboots of a sender nothing but Send changes its numbers. *)
LEMMA NextFirstGeneration ==
  ASSUME NoWrap, MaxReboots = 0, WInv, FirstGeneration, [Next]_vars
  PROVE  FirstGeneration'
<1>1. ASSUME NEW x \in Snsid, Send(x) PROVE FirstGeneration'
  <2>1. /\ sent' = [sent EXCEPT ![x] = @ + 1] /\ sent[x] < MaxPid
        /\ counter' = [counter EXCEPT ![x] = next_seq_nb(@)]
    BY <1>1 DEF Send
  <2>2. \A y \in Snsid : sent[y] \in Nat
    BY BoundAssumption DEF WInv, TypeOK
  <2>3. next_seq_nb(counter[x]) = counter[x] + 1
    BY <2>1, <2>2, BoundAssumption, WidthAssumption
       DEF FirstGeneration, next_seq_nb, NoWrap, UINT32_MAX
  <2>4. /\ sent'[x] = sent[x] + 1 /\ counter'[x] = counter[x] + 1
        /\ \A y \in Snsid : y # x => sent'[y] = sent[y] /\ counter'[y] = counter[y]
    BY <2>1, <2>3 DEF WInv, TypeOK
  <2>5. QED
    BY <2>2, <2>4 DEF FirstGeneration
<1>2. ASSUME NEW x \in Snsid PROVE ~Reboot(x)
  <2>1. reboots \in Nat
    BY DEF WInv, TypeOK
  <2>2. QED
    BY <2>1 DEF Reboot
<1>3. CASE UNCHANGED <<counter, sent>>
  BY <1>3 DEF FirstGeneration
<1>4. QED
  BY <1>1, <1>2, <1>3 DEF Next, Handler, Cleanup, CleanupVisit, Tick, Shutdown,
     Launch, SampleTime, HandleUnknownSender, HandleKnownSender, ForwardFresh,
     DropDuplicate, CleanupStart, CleanupExpired, CleanupFresh, sender, vars

(* No two packets of a sender's first generation have the same number. *)
LEMMA FirstNumbersDiffer ==
  ASSUME WInv, FirstGeneration PROVE FreshForwarded
<1>1. ASSUME NEW x \in Snsid, NEW q \in 1 .. sent[x] PROVE seq_nb[x][q] = q
  <2>1. sent[x] \in Nat /\ q \in Nat
    BY BoundAssumption DEF WInv, TypeOK
  <2>2. counter[x] - 1 = sent[x] /\ sent[x] - sent[x] + q = q
    BY <2>1 DEF FirstGeneration
  <2>3. Generation(x, sent[x], sent[x])
    BY <2>2 DEF WInv, Generations
  <2>4. QED
    BY <2>2, <2>3 DEF Generation
<1>2. ASSUME NEW r \in pending PROVE ~Reused(r.snsid, r.pid)
  <2>1. r.snsid \in Snsid /\ r.pid \in 1 .. sent[r.snsid]
    BY DEF WInv, TypeOK, Classified, OnlySent
  <2>2. QED
    BY <1>1, <2>1 DEF Reused
<1>3. QED
  BY <1>2 DEF FreshForwarded, WInv, DropJustified

(* Reboots of senders, and numbers beyond an int, are all that makes handle_packet
   drop a packet it should forward: without them the handler's rule, to forward
   whatever is fresh, holds for every order and repetition of the copies. *)
THEOREM FreshWithoutReboots ==
  NoWrap /\ MaxReboots = 0 => (Spec => []FreshForwarded)
<1> SUFFICES ASSUME NoWrap, MaxReboots = 0 PROVE Spec => []FreshForwarded
  OBVIOUS
<1>1. Init => WInv /\ FirstGeneration
  BY InitWInv DEF Init, FirstGeneration
<1>2. WInv /\ FirstGeneration /\ [Next]_vars => WInv' /\ FirstGeneration'
  BY NextWInv, NextFirstGeneration
<1>3. WInv /\ FirstGeneration => FreshForwarded
  BY FirstNumbersDiffer
<1>4. QED
  BY <1>1, <1>2, <1>3, PTL DEF Spec

(* While the numbers fit an int, no index of is_fresh_packet's loop is negative. *)
LEMMA IndicesInList ==
  ASSUME NoWrap, WInv, NEW c \in net, HandleKnownSender(c)
  PROVE  oob' = FALSE
<1> PICK n : n = seq_nb[c.snsid][c.pid]
  OBVIOUS
<1> PICK l : l = link[c.snsid]
  OBVIOUS
<1>1. oob' = (\E i \in Skipped(n, l) : Index(i) < 0)
  BY DEF HandleKnownSender
<1>2. /\ c.snsid \in Snsid /\ c.pid \in 1 .. sent[c.snsid] /\ l \in Link
      /\ sent[c.snsid] \in 0 .. MaxPid
  BY DEF WInv, TypeOK, Copy, OnlySent
<1>3. n \in Nat /\ n <= INT_MAX /\ l.high_sn \in Nat /\ INT_MAX \in Nat
  BY <1>2, BoundAssumption, WidthAssumption
     DEF WInv, Generations, NoWrap, Link, UINT32_MAX
<1>4. ASSUME NEW i \in Skipped(n, l) PROVE ~(Index(i) < 0)
  <2>1. i \in Nat /\ i <= INT_MAX
    BY <1>3 DEF Skipped
  <2>2. i % IPRP_DD_MAX_LOST_PACKETS \in Nat
    BY <2>1, WindowAssumption, ModRange
  <2>3. QED
    BY <2>1, <2>2 DEF Index
<1>5. QED
  BY <1>1, <1>4

(* is_fresh_packet writes no element below list_sn[0] while the numbers fit an int:
   the int that its loop counts with is the only cause of a negative index. *)
THEOREM NoWriteBelowList == NoWrap => (Spec => [](~oob))
<1> SUFFICES ASSUME NoWrap PROVE Spec => [](~oob)
  OBVIOUS
<1>1. Init => WInv /\ ~oob
  BY InitWInv DEF Init
<1>2. ASSUME WInv, ~oob, [Next]_vars PROVE ~oob'
  <2>1. ASSUME NEW c \in net, HandleKnownSender(c) PROVE ~oob'
    BY <1>2, <2>1, IndicesInList
  <2>2. ASSUME oob' \in {oob, FALSE} PROVE ~oob'
    BY <1>2, <2>2
  <2>3. QED
    BY <1>2, <2>1, <2>2 DEF Next, Handler, Cleanup, CleanupVisit, Send, Reboot, Tick,
       Shutdown, Launch, SampleTime, HandleUnknownSender, ForwardFresh,
       DropDuplicate, CleanupStart, CleanupExpired, CleanupFresh, vars
<1>3. WInv /\ [Next]_vars => WInv'
  BY NextWInv
<1>4. QED
  BY <1>1, <1>2, <1>3, PTL DEF Spec
============================================================================
