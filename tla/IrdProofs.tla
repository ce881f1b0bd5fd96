----------------------------- MODULE IrdProofs -----------------------------
(***************************************************************************)
(* Proofs about the receiving daemon.  TypeOK is inductive.  AtMostOnce is *)
(* not: that a packet was forwarded says nothing about what the list would *)
(* answer to another copy of it.  CopiesKnown relates the two, and also    *)
(* needs the age of the copies, because cleanup_routine forgets links.     *)
(***************************************************************************)
EXTENDS Ird, ListLemmas

(* The remainder of a natural number is a slot number. *)
LEMMA ModRange ==
  ASSUME NEW a \in Int, NEW m \in Nat \ {0}
  PROVE  a % m \in 0 .. m - 1
  BY SMT
-----------------------------------------------------------------------------
(***************************************************************************)
(* The link structure after one packet.                                    *)
(***************************************************************************)

(* The ISD never numbers a packet 0, nor beyond a uint32_t. *)
LEMMA NextSeqNbType ==
  ASSUME NEW n \in 1 .. UINT32_MAX
  PROVE  next_seq_nb(n) \in 1 .. UINT32_MAX
  BY WidthAssumption DEF next_seq_nb, UINT32_MAX

(* is_fresh_packet reads list_sn within its bounds. *)
LEMMA SlotOf ==
  ASSUME NEW n \in Nat
  PROVE  n % IPRP_DD_MAX_LOST_PACKETS \in Slots
  BY ModRange, WindowAssumption DEF Slots

(* What a slot holds after the loop of is_fresh_packet: what it held before, or a
   number that the loop skipped. *)
LEMMA SlotAfterSkips ==
  ASSUME NEW n \in 1 .. UINT32_MAX, NEW l \in Link, NEW k \in Slots
  PROVE  \/ RecordSkipped(n, l)[k] = l.list_sn[k]
         \/ RecordSkipped(n, l)[k] \in Skipped(n, l)
<1>1. l.high_sn + 1 \in Int /\ n - 1 \in Int
  BY WidthAssumption DEF Link, UINT32_MAX
<1>2. StoredAt(n, l, k) \subseteq (l.high_sn + 1) .. (n - 1)
  BY DEF StoredAt, Skipped
<1>3. CASE StoredAt(n, l, k) = {}
  BY <1>3 DEF RecordSkipped
<1>4. CASE StoredAt(n, l, k) # {}
  <2>1. Max(StoredAt(n, l, k)) \in StoredAt(n, l, k)
    BY <1>1, <1>2, <1>4, MaxIn
  <2>2. QED
    BY <1>4, <2>1 DEF RecordSkipped, StoredAt
<1>5. QED
  BY <1>3, <1>4

(* The loop leaves a list of uint32_t. *)
LEMMA RecordSkippedType ==
  ASSUME NEW n \in 1 .. UINT32_MAX, NEW l \in Link
  PROVE  RecordSkipped(n, l) \in [Slots -> 0 .. UINT32_MAX]
<1>1. ASSUME NEW k \in Slots
      PROVE  RecordSkipped(n, l)[k] \in 0 .. UINT32_MAX
  <2>1. l.list_sn[k] \in 0 .. UINT32_MAX
    BY DEF Link
  <2>2. Skipped(n, l) \subseteq 0 .. UINT32_MAX
    BY WidthAssumption DEF Skipped, Link, UINT32_MAX
  <2>3. QED
    BY <2>1, <2>2, SlotAfterSkips
<1>2. QED
  BY <1>1 DEF RecordSkipped

(* is_fresh_packet leaves a well-formed link. *)
LEMMA RecordPacketType ==
  ASSUME NEW n \in 1 .. UINT32_MAX, NEW l \in Link
  PROVE  RecordPacket(n, l) \in Link
<1>1. n \in Nat /\ n \in 0 .. UINT32_MAX /\ 0 \in 0 .. UINT32_MAX
  BY WidthAssumption DEF UINT32_MAX
<1>2. CASE n > l.high_sn
  BY <1>1, <1>2, RecordSkippedType DEF RecordPacket, Link
<1>3. CASE ~(n > l.high_sn) /\ is_fresh_packet(n, l)
  BY <1>1, <1>3, SlotOf DEF RecordPacket, Link
<1>4. CASE ~(n > l.high_sn) /\ ~is_fresh_packet(n, l)
  BY <1>4 DEF RecordPacket
<1>5. QED
  BY <1>2, <1>3, <1>4

-----------------------------------------------------------------------------
(***************************************************************************)
(* Type correctness.                                                       *)
(***************************************************************************)

(* The daemon starts in a well-typed state. *)
LEMMA InitTypeOK == Init => TypeOK
<1>1. UINT32_MAX \in Nat
  BY WidthAssumption DEF UINT32_MAX
<1>2. [list_sn |-> [k \in Slots |-> 0], high_sn |-> 0, last_seen |-> 0] \in Link
  BY <1>1 DEF Link
<1>3. SUFFICES ASSUME Init PROVE TypeOK
  OBVIOUS
<1>4. now \in Nat /\ curr_time \in Nat
  BY <1>3, TimeAssumption DEF Init
<1>5. sent \in [Snsid -> 0 .. MaxPid] /\ first_pid \in [Snsid -> 0 .. MaxPid]
  BY <1>3, BoundAssumption DEF Init
<1>6. delivered \in [Snsid -> [Pid -> Nat]]
  BY <1>3 DEF Init
<1>7. link \in [Snsid -> Link]
  BY <1>3, <1>2, Zenon DEF Init
<1>8. oob \in BOOLEAN
  BY <1>3, Zenon DEF Init
<1>9. net = {} /\ receiver_links = {} /\ pending = {} /\ todo = {}
  BY <1>3, Zenon DEF Init
<1>10. 1 \in 1 .. UINT32_MAX
  BY WidthAssumption DEF UINT32_MAX
<1>11. /\ counter \in [Snsid -> 1 .. UINT32_MAX]
       /\ seq_nb \in [Snsid -> [Pid -> 1 .. UINT32_MAX]]
  BY <1>3, <1>10, Zenon DEF Init
<1>12. /\ reboots \in Nat /\ down_since \in Nat /\ kills \in Nat
       /\ up = TRUE
  BY <1>3 DEF Init
<1>13. QED
  BY <1>4, <1>5, <1>6, <1>7, <1>8, <1>9, <1>11, <1>12, Zenon DEF TypeOK

(* Every step of every thread keeps the state well typed. *)
LEMMA NextTypeOK == TypeOK /\ [Next]_vars => TypeOK'
<1> SUFFICES ASSUME TypeOK, [Next]_vars PROVE TypeOK'
  OBVIOUS
<1>1. ASSUME NEW x \in Snsid, Send(x) PROVE TypeOK'
  <2>1. sent[x] \in 0 .. MaxPid /\ sent[x] + 1 \in 0 .. MaxPid
                                  /\ sent[x] + 1 \in Pid
    BY <1>1, BoundAssumption DEF Send, TypeOK, Pid
  <2>2. [snsid |-> x, pid |-> sent[x] + 1, sent |-> now] \in Copy
    BY <2>1 DEF TypeOK, Copy
  <2>3. counter[x] \in 1 .. UINT32_MAX
        /\ next_seq_nb(counter[x]) \in 1 .. UINT32_MAX
    BY NextSeqNbType DEF TypeOK
  <2>4. /\ counter' \in [Snsid -> 1 .. UINT32_MAX]
        /\ seq_nb' \in [Snsid -> [Pid -> 1 .. UINT32_MAX]]
    BY <1>1, <2>1, <2>3 DEF Send, TypeOK
  <2>5. QED
    BY <1>1, <2>1, <2>2, <2>4 DEF Send, TypeOK, process
<1>2. CASE Tick
  BY <1>2 DEF Tick, TypeOK, sender, process
<1>3. CASE SampleTime
  BY <1>3 DEF SampleTime, TypeOK, sender, process
<1>4. ASSUME NEW c \in net, HandleUnknownSender(c) PROVE TypeOK'
  <2>1. c.snsid \in Snsid /\ c.pid \in Pid /\ c.pid \in 0 .. MaxPid
    BY BoundAssumption DEF TypeOK, Copy, Pid
  <2>2. seq_nb[c.snsid][c.pid] \in 0 .. UINT32_MAX /\ 0 \in 0 .. UINT32_MAX
    BY <2>1, WidthAssumption DEF UINT32_MAX, TypeOK
  <2>3. receiver_link_create(seq_nb[c.snsid][c.pid]) \in Link
    BY <2>2 DEF receiver_link_create, Link, TypeOK
  <2>4. [snsid |-> c.snsid, pid |-> c.pid, fresh |-> TRUE] \in Classified
    BY <2>1 DEF Classified
  <2>5. QED
    BY <1>4, <2>1, <2>3, <2>4 DEF HandleUnknownSender, TypeOK, sender, process
<1>5. ASSUME NEW c \in net, HandleKnownSender(c) PROVE TypeOK'
  <2> DEFINE n == seq_nb[c.snsid][c.pid]
             l == link[c.snsid]
             r == [RecordPacket(n, l) EXCEPT !.last_seen = curr_time]
             f == is_fresh_packet(n, l)
  <2>1. c.snsid \in Snsid /\ c.pid \in Pid
    BY DEF TypeOK, Copy
  <2>2. n \in 1 .. UINT32_MAX /\ l \in Link
    BY <2>1 DEF TypeOK
  <2>3. RecordPacket(n, l) \in Link
    BY <2>2, RecordPacketType
  <2>4. r \in Link
    <3> HIDE DEF n, l
    <3>1. curr_time \in Nat
      BY DEF TypeOK
    <3>2. QED
      BY <2>3, <3>1 DEF Link
  <2>5. f \in BOOLEAN
    BY DEF is_fresh_packet
  <2>6. [snsid |-> c.snsid, pid |-> c.pid, fresh |-> f] \in Classified
    <3> HIDE DEF f
    <3>1. QED
      BY <2>1, <2>5 DEF Classified
  <2>7. /\ link' = [link EXCEPT ![c.snsid] = r]
        /\ pending' = {[snsid |-> c.snsid, pid |-> c.pid, fresh |-> f]}
        /\ oob' \in BOOLEAN
        /\ c.snsid \in receiver_links
        /\ UNCHANGED <<now, curr_time, sent, net, receiver_links, first_pid,
                       todo, delivered, counter, seq_nb, reboots, up,
                       down_since, kills>>
    BY <1>5 DEF HandleKnownSender, sender, process
  <2>8. QED
    <3> HIDE DEF r, f
    <3>1. QED
      BY <2>1, <2>4, <2>6, <2>7 DEF TypeOK
<1>6. CASE ForwardFresh
  <2>1. PICK r \in pending :
          /\ delivered' = [delivered EXCEPT ![r.snsid][r.pid] = @ + 1]
          /\ pending' = {}
          /\ UNCHANGED <<now, curr_time, sent, net, receiver_links, link,
                         first_pid, todo, oob, counter, seq_nb, reboots, up,
                         down_since, kills>>
    BY <1>6 DEF ForwardFresh, sender, process
  <2>2. r.snsid \in Snsid /\ r.pid \in Pid
    BY DEF TypeOK, Classified
  <2>3. QED
    BY <2>1, <2>2 DEF TypeOK
<1>7. CASE DropDuplicate
  BY <1>7 DEF DropDuplicate, TypeOK, sender, process
<1>8. CASE CleanupStart
  BY <1>8 DEF CleanupStart, TypeOK, sender, process
<1>9. ASSUME NEW x \in Snsid, CleanupVisit(x) PROVE TypeOK'
  BY <1>9 DEF CleanupVisit, CleanupExpired, CleanupFresh, TypeOK, sender,
              process
<1>10. CASE UNCHANGED vars
  BY <1>10 DEF vars, TypeOK, sender, process
<1>11. ASSUME NEW x \in Snsid, Reboot(x) PROVE TypeOK'
  <2>1. 1 \in 1 .. UINT32_MAX
    BY WidthAssumption DEF UINT32_MAX
  <2>2. QED
    BY <1>11, <2>1 DEF Reboot, TypeOK, process
<1>12. CASE Shutdown
  <2>1. kills' \in Nat /\ down_since' \in Nat
    BY <1>12 DEF Shutdown, TypeOK
  <2>2. /\ receiver_links' = {} /\ pending' = {} /\ todo' = {}
        /\ up' \in BOOLEAN /\ oob' \in BOOLEAN
        /\ UNCHANGED <<now, curr_time, sent, net, link, first_pid, delivered,
                       counter, seq_nb, reboots>>
    BY <1>12 DEF Shutdown, sender
  <2>3. QED
    BY <2>1, <2>2 DEF TypeOK
<1>13. CASE Launch
  BY <1>13, TimeAssumption DEF Launch, TypeOK, sender
<1>14. QED
  BY <1>1, <1>2, <1>3, <1>4, <1>5, <1>6, <1>7, <1>8, <1>9, <1>10, <1>11, <1>12,
     <1>13 DEF Next, Handler, Cleanup

(* Every state of the daemon is well typed, for every window, range of int and
   number of sessions: in particular the numbers of a link fit a uint32_t, and
   the cleanup thread's iterator only meets elements of the list. *)
THEOREM TypeCorrect == Spec => []TypeOK
  BY InitTypeOK, NextTypeOK, PTL DEF Spec

-----------------------------------------------------------------------------
(***************************************************************************)
(* No packet is forwarded twice.                                           *)
(***************************************************************************)
ListBelow(l) == \A k \in Slots : l.list_sn[k] <= l.high_sn

(* What one call of is_fresh_packet does to what the link knows: it keeps it,
   and adds the number it calls fresh, which was not known. *)
LEMMA RecordPacketKnows ==
  ASSUME NEW n \in 1 .. UINT32_MAX, NEW l \in Link, ListBelow(l)
  PROVE  LET r == RecordPacket(n, l) IN
         /\ ListBelow(r)
         /\ is_fresh_packet(n, l) => ~Knows(l, n) /\ Knows(r, n)
         /\ \A m \in 1 .. UINT32_MAX : Knows(l, m) => Knows(r, m)
<1> DEFINE M == IPRP_DD_MAX_LOST_PACKETS
           r == RecordPacket(n, l)
<1>1. /\ n \in Nat /\ n > 0 /\ l.high_sn \in Nat
      /\ \A k \in Slots : l.list_sn[k] \in Nat
      /\ l.list_sn = [k \in Slots |-> l.list_sn[k]]
  BY WidthAssumption DEF Link, UINT32_MAX
<1>2. \A m \in 1 .. UINT32_MAX : m \in Nat /\ m > 0 /\ m % M \in Slots
  BY SlotOf, WidthAssumption DEF UINT32_MAX
<1>3. is_fresh_packet(n, l) => ~Knows(l, n)
  BY <1>1 DEF is_fresh_packet, Knows
<1>4. CASE n > l.high_sn
  <2>1. r.high_sn = n /\ r.list_sn = RecordSkipped(n, l)
    BY <1>4 DEF RecordPacket, Link
  <2>2. \A k \in Slots : \/ r.list_sn[k] = l.list_sn[k]
                         \/ r.list_sn[k] \in (l.high_sn + 1) .. (n - 1)
    BY <2>1, SlotAfterSkips DEF Skipped
  <2>3. ListBelow(r)
    BY <1>1, <1>4, <2>1, <2>2 DEF ListBelow
  <2>4. Knows(r, n)
    BY <1>1, <1>2, <1>4, <2>1, <2>2 DEF ListBelow, Knows
  <2>5. \A m \in 1 .. UINT32_MAX : Knows(l, m) => Knows(r, m)
    BY <1>1, <1>2, <1>4, <2>1, <2>2 DEF Knows
  <2>6. QED
    BY <1>3, <2>3, <2>4, <2>5
<1>5. CASE ~(n > l.high_sn) /\ is_fresh_packet(n, l)
  <2>1. /\ r.high_sn = l.high_sn
        /\ r.list_sn = [l.list_sn EXCEPT ![n % M] = 0]
    BY <1>5 DEF RecordPacket, Link
  <2>2. \A k \in Slots : r.list_sn[k] = IF k = n % M THEN 0 ELSE l.list_sn[k]
    BY <1>1, <2>1
  <2>3. ListBelow(r)
    BY <1>1, <2>1, <2>2 DEF ListBelow
  <2>4. Knows(r, n)
    BY <1>1, <1>2, <1>5, <2>1, <2>2 DEF Knows
  <2>5. \A m \in 1 .. UINT32_MAX : Knows(l, m) => Knows(r, m)
    BY <1>1, <1>2, <2>1, <2>2 DEF Knows
  <2>6. QED
    BY <1>3, <2>3, <2>4, <2>5
<1>6. CASE ~(n > l.high_sn) /\ ~is_fresh_packet(n, l)
  BY <1>6 DEF RecordPacket
<1>7. QED
  BY <1>4, <1>5, <1>6

(* Nothing is in flight when the daemon starts. *)
LEMMA InitCopiesKnown == Timely /\ Init => CopiesKnown
<1> SUFFICES ASSUME Timely, Init PROVE CopiesKnown
  OBVIOUS
<1>1. curr_time = now /\ now \in Nat
  BY TimeAssumption DEF Timely, Init
<1>2. curr_time <= now /\ now <= curr_time + Lag /\ down_since <= now
  BY <1>1, TimeAssumption DEF Init
<1>3. \A x \in Snsid, k \in Slots : link[x].list_sn[k] <= link[x].high_sn
  BY DEF Init
<1>4. \A x \in Snsid, p \in Pid : ~Given(x, p)
  BY DEF Init, Given
<1>5. net = {} /\ pending = {}
  BY DEF Init
<1>6. QED
  BY <1>2, <1>3, <1>4, <1>5, Zenon DEF CopiesKnown

(* No step makes the list forget a packet of which a copy is in flight. *)
LEMMA NextCopiesKnown ==
  Timely /\ TypeOK /\ TypeOK' /\ CopiesKnown /\ [Next]_vars => CopiesKnown'
<1> SUFFICES ASSUME Timely, TypeOK, TypeOK', CopiesKnown, [Next]_vars
             PROVE  CopiesKnown'
  OBVIOUS
<1> USE TimeAssumption
<1>0. /\ now \in Nat /\ curr_time \in Nat
      /\ \A x \in Snsid : /\ link[x] \in Link /\ link[x].last_seen \in Nat
                          /\ sent[x] \in Nat
      /\ \A x \in Snsid, p \in Pid : delivered[x][p] \in Nat
      /\ \A c \in net : /\ c.snsid \in Snsid /\ c.pid \in Pid /\ c.sent \in Nat
                        /\ c.pid \in Nat
      /\ \A r \in pending : r.snsid \in Snsid /\ r.pid \in Pid
      /\ \A x \in Snsid, p \in Pid : seq_nb[x][p] \in 1 .. UINT32_MAX
      /\ down_since \in Nat
  <2>1. \A x \in Snsid : link[x] \in Link
    BY DEF TypeOK
  <2>2. \A x \in Snsid : link[x].last_seen \in Nat
    BY <2>1 DEF Link
  <2>3. \A x \in Snsid : sent[x] \in Nat
    BY BoundAssumption DEF TypeOK
  <2>4. \A c \in net : /\ c.snsid \in Snsid /\ c.pid \in Pid /\ c.sent \in Nat
                      /\ c.pid \in Nat
    <3>1. \A p \in Pid : p \in Nat
      BY BoundAssumption DEF Pid
    <3>2. QED
      BY <3>1 DEF TypeOK, Copy
  <2>5. \A r \in pending : r.snsid \in Snsid /\ r.pid \in Pid
    BY DEF TypeOK, Classified
  <2>6. QED
    BY <2>1, <2>2, <2>3, <2>4, <2>5 DEF TypeOK
<1>1. ASSUME NEW x \in Snsid, Send(x) PROVE CopiesKnown'
  <2>1. \A y \in Snsid : sent'[y] \in Nat /\ sent[y] <= sent'[y]
    BY <1>0, <1>1 DEF Send, TypeOK
  <2>2. ~Given(x, sent[x] + 1)
    <3>1. sent[x] + 1 \in Pid /\ sent[x] \in Nat
      BY <1>0, <1>1, BoundAssumption DEF Send, Pid
    <3>2. QED
      BY <3>1 DEF CopiesKnown
  <2>3. sent'[x] = sent[x] + 1
    BY <1>1 DEF Send, TypeOK
  <2>4. /\ UNCHANGED <<now, curr_time, receiver_links, link, pending, delivered,
                       up, down_since>>
        /\ net' = net \union {[snsid |-> x, pid |-> sent[x] + 1, sent |-> now]}
        /\ seq_nb' = [seq_nb EXCEPT ![x][sent[x] + 1] = counter[x]]
    BY <1>1 DEF Send, process
  <2>5. \A y \in Snsid, p \in Pid : Given(y, p)' <=> Given(y, p)
    BY <2>4 DEF Given
  <2>6. \A y \in Snsid, p \in Pid : Given(y, p)' => p <= sent'[y]
    BY <1>0, <2>1, <2>5, BoundAssumption DEF CopiesKnown, Pid
  <2>7. ASSUME NEW c \in net'
        PROVE  /\ c.pid <= sent'[c.snsid]
               /\ c.sent <= now /\ now <= c.sent + MaxDelay
               /\ Given(c.snsid, c.pid)' => Held(c)'
    <3>1. CASE c \in net
      <4>1. c.snsid \in Snsid /\ c.pid \in Pid /\ c.pid \in Nat
        BY <1>0, <3>1
      <4>2. c.pid <= sent[c.snsid]
        BY <3>1 DEF CopiesKnown
      <4>3. seq_nb'[c.snsid][c.pid] = seq_nb[c.snsid][c.pid]
        <5>1. CASE c.snsid = x
          <6>1. c.pid # sent[x] + 1
            BY <1>0, <4>1, <4>2, <5>1
          <6>2. QED
            BY <2>4, <4>1, <5>1, <6>1 DEF TypeOK
        <5>2. CASE c.snsid # x
          BY <2>4, <4>1, <5>2 DEF TypeOK
        <5>3. QED
          BY <5>1, <5>2
      <4>4. Held(c)' <=> Held(c)
        BY <2>4, <4>3 DEF Held, Knows
      <4>5. QED
        BY <1>0, <2>1, <2>5, <3>1, <4>1, <4>4 DEF CopiesKnown
    <3>2. CASE c = [snsid |-> x, pid |-> sent[x] + 1, sent |-> now]
      <4>1. c.snsid = x /\ c.pid = sent[x] + 1 /\ c.sent = now
        BY <3>2
      <4>2. ~Given(c.snsid, c.pid)'
        BY <2>2, <2>4, <4>1 DEF Given
      <4>3. QED
        BY <1>0, <2>3, <4>1, <4>2
    <3>3. QED
      BY <2>4, <3>1, <3>2
  <2>8. QED
    BY <2>4, <2>6, <2>7 DEF CopiesKnown
<1>2. CASE Tick
  <2>1. /\ now' = now + 1
        /\ up => now + 1 <= curr_time + Lag
        /\ net' = {c \in net : now + 1 <= c.sent + MaxDelay}
        /\ UNCHANGED <<curr_time, sent, receiver_links, link, pending,
                       delivered, seq_nb, up, down_since>>
    BY <1>2 DEF Tick, sender, process
  <2>2. \A y, p : Given(y, p)' <=> Given(y, p)
    BY <2>1 DEF Given
  <2>3. QED
    BY <1>0, <2>1, <2>2 DEF CopiesKnown, Held, Knows
<1>3. CASE SampleTime
  <2>1. /\ curr_time' = now
        /\ UNCHANGED <<now, net, sent, receiver_links, link, pending, delivered,
                       seq_nb, up, down_since>>
    BY <1>3 DEF SampleTime, sender, process
  <2>2. \A y, p : Given(y, p)' <=> Given(y, p)
    BY <2>1 DEF Given
  <2>3. QED
    BY <1>0, <2>1, <2>2 DEF CopiesKnown, Held, Knows
<1>4. ASSUME NEW c \in net, HandleUnknownSender(c) PROVE CopiesKnown'
  <2> DEFINE x == c.snsid
             n == seq_nb[x][c.pid]
  <2>1. /\ up /\ x \notin receiver_links
        /\ receiver_links' = receiver_links \union {x}
        /\ link' = [link EXCEPT ![x] = receiver_link_create(n)]
        /\ pending = {}
        /\ pending' = {[snsid |-> x, pid |-> c.pid, fresh |-> TRUE]}
        /\ UNCHANGED <<now, curr_time, sent, net, delivered, seq_nb, up,
                       down_since>>
    BY <1>4 DEF HandleUnknownSender, sender, process
  <2>2. x \in Snsid /\ c.pid \in Pid /\ n \in Nat /\ n > 0
    BY <1>0, WidthAssumption DEF UINT32_MAX
  <2>3. /\ link'[x] = receiver_link_create(n)
        /\ \A y \in Snsid : y # x => link'[y] = link[y]
    BY <2>1, <2>2 DEF TypeOK
  <2>4. /\ link'[x].high_sn = n /\ link'[x].last_seen = curr_time
        /\ \A k \in Slots : link'[x].list_sn[k] = 0
    BY <2>3 DEF receiver_link_create
  <2> HIDE DEF n
  <2>5. \A y, p : Given(y, p)' <=> Given(y, p) \/ (y = x /\ p = c.pid)
    BY <2>1 DEF Given
  <2>6. \A d \in net : d.snsid = x => ~Given(d.snsid, d.pid)
    BY <2>1 DEF CopiesKnown, Held
  <2>7. delivered[x][c.pid] = 0
    BY <1>0, <2>2, <2>6 DEF Given
  <2>8. \A y \in Snsid, k \in Slots : link'[y].list_sn[k] <= link'[y].high_sn
    BY <2>2, <2>3, <2>4 DEF CopiesKnown
  <2>9. \A y \in Snsid, p \in Pid : Given(y, p)' => p <= sent[y]
    BY <2>5 DEF CopiesKnown
  <2>10. Knows(link'[x], n)
    BY <2>2, <2>4, SlotOf DEF Knows
  <2>11. ASSUME NEW d \in net, Given(d.snsid, d.pid)'
         PROVE  Held(d)'
    <3>1. CASE d.snsid = x
      <4>1. d.pid = c.pid
        BY <2>5, <2>6, <2>11, <3>1
      <4>2. d.sent <= curr_time + Lag
        BY <1>0, <2>1 DEF CopiesKnown
      <4>3. Knows(link'[x], seq_nb'[x][d.pid])
        BY <2>1, <2>10, <4>1 DEF n
      <4>4. QED
        BY <2>1, <2>4, <3>1, <4>2, <4>3 DEF Held, Knows
    <3>2. CASE d.snsid # x
      <4>1. d.snsid \in Snsid /\ Given(d.snsid, d.pid)
        BY <1>0, <2>5, <2>11, <3>2
      <4>2. Held(d)
        BY <4>1 DEF CopiesKnown
      <4>3. QED
        BY <2>1, <2>3, <3>2, <4>1, <4>2 DEF Held, Knows
    <3>3. QED
      BY <3>1, <3>2
  <2>12. QED
    BY <2>1, <2>7, <2>8, <2>9, <2>11 DEF CopiesKnown
<1>5. ASSUME NEW c \in net, HandleKnownSender(c) PROVE CopiesKnown'
  <2> DEFINE x == c.snsid
             n == seq_nb[x][c.pid]
             l == link[x]
             f == is_fresh_packet(n, l)
             r == RecordPacket(n, l)
  <2>1. /\ x \in receiver_links
        /\ link' = [link EXCEPT ![x] = [r EXCEPT !.last_seen = curr_time]]
        /\ pending = {}
        /\ pending' = {[snsid |-> x, pid |-> c.pid, fresh |-> f]}
        /\ UNCHANGED <<now, curr_time, sent, net, receiver_links, delivered,
                       seq_nb, up, down_since>>
    BY <1>5 DEF HandleKnownSender, sender, process
  <2>2. /\ x \in Snsid /\ c.pid \in Pid /\ n \in 1 .. UINT32_MAX /\ l \in Link
        /\ up
    BY <1>0, <2>1 DEF TypeOK
  <2>3. /\ link'[x] = [r EXCEPT !.last_seen = curr_time]
        /\ \A y \in Snsid : y # x => link'[y] = link[y]
    BY <2>1, <2>2, Zenon DEF TypeOK
  <2>4. r \in Link
    BY <2>2, RecordPacketType
  <2>5. ListBelow(l)
    BY <2>2 DEF CopiesKnown, ListBelow
  <2>6. /\ ListBelow(r)
        /\ f => ~Knows(l, n) /\ Knows(r, n)
        /\ \A m \in 1 .. UINT32_MAX : Knows(l, m) => Knows(r, m)
    BY <2>2, <2>5, RecordPacketKnows, Zenon
  <2>7. f \in BOOLEAN
    BY DEF is_fresh_packet
  <2> HIDE DEF n, l, f, r
  <2>8. /\ link'[x].list_sn = r.list_sn /\ link'[x].high_sn = r.high_sn
        /\ link'[x].last_seen = curr_time
    BY <2>3, <2>4 DEF Link
  <2>9. \A y, p : Given(y, p)' <=> Given(y, p) \/ (y = x /\ p = c.pid /\ f)
    BY <2>1, <2>7 DEF Given
  <2>10. f => delivered[x][c.pid] = 0
    <3>1. ASSUME Given(x, c.pid) PROVE ~f
      BY <2>2, <2>6, <3>1 DEF CopiesKnown, Held, n, l
    <3>2. QED
      BY <1>0, <2>2, <3>1 DEF Given
  <2>11. \A y \in Snsid, k \in Slots : link'[y].list_sn[k] <= link'[y].high_sn
    BY <2>2, <2>3, <2>6, <2>8 DEF CopiesKnown, ListBelow
  <2>12. \A y \in Snsid, p \in Pid : Given(y, p)' => p <= sent[y]
    BY <2>9 DEF CopiesKnown
  <2>13. ASSUME NEW d \in net, Given(d.snsid, d.pid)'
         PROVE  Held(d)'
    <3>1. CASE d.snsid = x
      <4> DEFINE m == seq_nb[x][d.pid]
      <4>1. d.pid \in Pid /\ m \in 1 .. UINT32_MAX /\ m = seq_nb'[d.snsid][d.pid]
        BY <1>0, <2>1, <2>2, <3>1
      <4>2. Knows(r, m)
        <5>1. CASE Given(d.snsid, d.pid)
          <6>1. Knows(l, m)
            BY <2>2, <3>1, <5>1 DEF CopiesKnown, Held, l
          <6>2. QED
            BY <2>6, <4>1, <6>1
        <5>2. CASE ~Given(d.snsid, d.pid)
          <6>1. d.pid = c.pid /\ f
            BY <2>9, <2>13, <5>2
          <6>2. QED
            BY <2>6, <6>1 DEF n
        <5>3. QED
          BY <5>1, <5>2
      <4> HIDE DEF m
      <4>3. Knows(link'[x], m)
        BY <2>8, <4>2 DEF Knows
      <4>4. d.sent <= curr_time + Lag
        BY <1>0, <2>2 DEF CopiesKnown
      <4>5. QED
        BY <2>1, <2>2, <2>8, <3>1, <4>1, <4>3, <4>4 DEF Held, Knows
    <3>2. CASE d.snsid # x
      <4>1. d.snsid \in Snsid /\ Given(d.snsid, d.pid)
        BY <1>0, <2>9, <2>13, <3>2
      <4>2. Held(d)
        BY <4>1 DEF CopiesKnown
      <4>3. QED
        BY <2>1, <2>3, <3>2, <4>1, <4>2 DEF Held, Knows
    <3>3. QED
      BY <3>1, <3>2
  <2>14. QED
    BY <2>1, <2>7, <2>10, <2>11, <2>12, <2>13 DEF CopiesKnown
<1>6. CASE ForwardFresh
  <2>1. PICK r \in pending :
          /\ r.fresh
          /\ delivered' = [delivered EXCEPT ![r.snsid][r.pid] = @ + 1]
          /\ pending' = {}
          /\ UNCHANGED <<now, curr_time, sent, net, receiver_links, link, seq_nb,
                         up, down_since>>
    BY <1>6 DEF ForwardFresh, sender, process
  <2>2. \A y \in Snsid, p \in Pid :
          delivered'[y][p] = IF y = r.snsid /\ p = r.pid THEN delivered[y][p] + 1
                                                       ELSE delivered[y][p]
    BY <1>0, <2>1 DEF TypeOK
  <2>3. \A y \in Snsid, p \in Pid : Given(y, p)' => Given(y, p)
    BY <1>0, <2>1, <2>2 DEF Given
  <2>4. ASSUME NEW c \in net, Given(c.snsid, c.pid)'
        PROVE  Given(c.snsid, c.pid)
    BY <1>0, <2>3, <2>4
  <2>5. QED
    BY <2>1, <2>3, <2>4 DEF CopiesKnown, Held, Knows
<1>7. CASE DropDuplicate
  <2>1. /\ pending' = {}
        /\ \A r \in pending : ~r.fresh
        /\ UNCHANGED <<now, curr_time, net, sent, receiver_links, link, delivered,
                       seq_nb, up, down_since>>
    BY <1>7 DEF DropDuplicate, TypeOK, sender, process
  <2>2. \A y, p : Given(y, p)' => Given(y, p)
    BY <2>1 DEF Given
  <2>3. QED
    BY <1>0, <2>1, <2>2 DEF CopiesKnown, Held, Knows
<1>8. CASE CleanupStart
  <2>1. UNCHANGED <<now, curr_time, net, sent, receiver_links, link, pending,
                    delivered, seq_nb, up, down_since>>
    BY <1>8 DEF CleanupStart, sender, process
  <2>2. QED
    BY <2>1 DEF CopiesKnown, Held, Knows, Given
<1>9. ASSUME NEW x \in Snsid, CleanupVisit(x) PROVE CopiesKnown'
  <2>1. CASE CleanupFresh(x)
    <3>1. UNCHANGED <<now, curr_time, net, sent, receiver_links, link, pending,
                      delivered, seq_nb, up, down_since>>
      BY <2>1 DEF CleanupFresh, sender, process
    <3>2. QED
      BY <3>1 DEF CopiesKnown, Held, Knows, Given
  <2>2. CASE CleanupExpired(x)
    <3>1. /\ receiver_links' = receiver_links \ {x}
          /\ curr_time - link[x].last_seen > IRD_T_EXP
          /\ x \in receiver_links
          /\ UNCHANGED <<now, curr_time, net, sent, link, pending, delivered,
                         seq_nb, up, down_since>>
      BY <2>2 DEF CleanupExpired, Expired, sender, process, TypeOK
    <3>2. \A y, p : Given(y, p)' <=> Given(y, p)
      BY <3>1 DEF Given
    <3>3. ASSUME NEW c \in net, Given(c.snsid, c.pid) PROVE c.snsid # x
      <4>0. up
        BY <3>1 DEF TypeOK
      <4>1. /\ c.sent <= link[c.snsid].last_seen + Lag
            /\ curr_time <= now /\ now <= c.sent + MaxDelay
        BY <3>3, <4>0 DEF CopiesKnown, Held
      <4>2. MaxDelay + Lag <= IRD_T_EXP
        BY DEF Timely
      <4>3. QED
        BY <1>0, <3>1, <4>1, <4>2
    <3>4. QED
      BY <3>1, <3>2, <3>3 DEF CopiesKnown, Held, Knows
  <2>3. QED
    BY <1>9, <2>1, <2>2 DEF CleanupVisit
<1>10. CASE UNCHANGED vars
  BY <1>10 DEF vars, sender, process, CopiesKnown, Held, Knows, Given
<1>11. ASSUME NEW x \in Snsid, Reboot(x) PROVE CopiesKnown'
  <2>1. UNCHANGED <<now, curr_time, net, sent, receiver_links, link, pending,
                    delivered, seq_nb, up, down_since>>
    BY <1>11 DEF Reboot, process
  <2>2. QED
    BY <2>1 DEF CopiesKnown, Held, Knows, Given
<1>12. CASE Shutdown
  <2>1. /\ ~up' /\ down_since' = now /\ pending' = {}
        /\ UNCHANGED <<now, net, sent, link, delivered>>
    BY <1>12 DEF Shutdown
  <2>2. \A y, p : Given(y, p)' => Given(y, p)
    BY <2>1 DEF Given
  <2>3. \A c \in net' : Held(c)'
    BY <2>1 DEF Held, CopiesKnown
  <2>4. QED
    BY <1>0, <2>1, <2>2, <2>3 DEF CopiesKnown
<1>13. CASE Launch
  <2>1. /\ ~up /\ now >= down_since + ICD_T_PORTS /\ curr_time' = now
        /\ UNCHANGED <<now, net, sent, link, pending, delivered, down_since>>
    BY <1>13 DEF Launch, Timely
  <2>2. \A y, p : Given(y, p)' <=> Given(y, p)
    BY <2>1 DEF Given
  <2>3. ASSUME NEW c \in net PROVE ~Given(c.snsid, c.pid)
    <3>1. now <= c.sent + MaxDelay /\ MaxDelay < ICD_T_PORTS
      BY <2>3 DEF CopiesKnown, Timely
    <3>2. ~(c.sent <= down_since)
      BY <1>0, <2>1, <3>1
    <3>3. QED
      BY <2>1, <3>2 DEF CopiesKnown, Held
  <2>4. curr_time' <= now' /\ now' <= curr_time' + Lag
    BY <1>0, <2>1
  <2>5. QED
    BY <2>1, <2>2, <2>3, <2>4 DEF CopiesKnown
<1>14. QED
  BY <1>1, <1>2, <1>3, <1>4, <1>5, <1>6, <1>7, <1>8, <1>9, <1>10, <1>11, <1>12,
     <1>13 DEF Next, Handler, Cleanup

(* A packet that is about to be forwarded was not forwarded before. *)
LEMMA NextAtMostOnce ==
  TypeOK /\ CopiesKnown /\ AtMostOnce /\ [Next]_vars => AtMostOnce'
<1> SUFFICES ASSUME TypeOK, CopiesKnown, AtMostOnce, [Next]_vars
             PROVE  AtMostOnce'
  OBVIOUS
<1>1. CASE ForwardFresh
  <2>1. PICK r \in pending :
          r.fresh /\ delivered' = [delivered EXCEPT ![r.snsid][r.pid] = @ + 1]
    BY <1>1 DEF ForwardFresh
  <2>2. delivered[r.snsid][r.pid] = 0
    BY <2>1 DEF CopiesKnown
  <2>3. r.snsid \in Snsid /\ r.pid \in Pid
    BY DEF TypeOK, Classified
  <2>4. QED
    BY <2>1, <2>2, <2>3 DEF AtMostOnce, TypeOK
<1>2. CASE ~ForwardFresh
  <2>1. UNCHANGED delivered
    BY <1>2 DEF Next, Handler, Cleanup, Send, Tick, SampleTime,
       HandleUnknownSender, HandleKnownSender, DropDuplicate, CleanupStart,
       CleanupVisit, CleanupExpired, CleanupFresh, Reboot, Shutdown, Launch, vars
  <2>2. QED
    BY <2>1 DEF AtMostOnce
<1>3. QED
  BY <1>1, <1>2

(* While a copy of a forwarded packet is in flight, its link is in the list and
   knows its number, unless the daemon is down, and then the copy dies before it is
   up again: nothing makes the handler forget it. *)
THEOREM CopiesStayKnown == Timely => (Spec => []CopiesKnown)
<1> SUFFICES ASSUME Timely PROVE Spec => []CopiesKnown
  OBVIOUS
<1>1. Init => TypeOK /\ CopiesKnown
  BY InitTypeOK, InitCopiesKnown
<1>2. TypeOK /\ CopiesKnown /\ [Next]_vars => (TypeOK /\ CopiesKnown)'
  BY NextTypeOK, NextCopiesKnown
<1>3. QED
  BY <1>1, <1>2, PTL DEF Spec

(* No packet reaches the application twice, however its copies are ordered,
   delayed or repeated, wherever the cleanup thread runs between two packets, and
   whenever the sender reboots or the daemon is killed and started again:
   provided the clock thread has run once, and a copy lives no longer than
   IRD_T_EXP less the clock thread's lag, and less than ICD_T_PORTS. *)
THEOREM NoDuplicateForwarded == Timely => (Spec => []AtMostOnce)
<1> SUFFICES ASSUME Timely PROVE Spec => []AtMostOnce
  OBVIOUS
<1>1. Init => AtMostOnce
  BY DEF Init, AtMostOnce
<1>2. QED
  BY <1>1, TypeCorrect, CopiesStayKnown, NextAtMostOnce, PTL DEF Spec

(* The daemon implements the abstract service AppDelivery: every step hands over
   at most one packet, one that was sent and was not handed over before. *)
THEOREM ImplementsAppDelivery == Timely => (Spec => AppSpec)
<1> SUFFICES ASSUME Timely PROVE Spec => AppSpec
  OBVIOUS
<1>1. Init => App!Init
  BY DEF Init, App!Init, Pid
<1>2. TypeOK /\ CopiesKnown /\ [Next]_vars => [App!Next]_<<sent, delivered>>
  <2> SUFFICES ASSUME TypeOK, CopiesKnown, [Next]_vars
               PROVE  [App!Next]_<<sent, delivered>>
    OBVIOUS
  <2>1. ASSUME NEW x \in Snsid, Send(x) PROVE App!Next
    <3>1. App!Send(x)
      BY <2>1 DEF Send, App!Send
    <3>2. QED
      BY <3>1 DEF App!Next
  <2>2. ASSUME ForwardFresh PROVE App!Next
    <3>1. PICK r \in pending :
            /\ r.fresh
            /\ delivered' = [delivered EXCEPT ![r.snsid][r.pid] = @ + 1]
            /\ UNCHANGED sent
      BY <2>2 DEF ForwardFresh
    <3>2. r.snsid \in Snsid /\ r.pid \in Pid
      BY DEF TypeOK, Classified
    <3>3. delivered[r.snsid][r.pid] = 0
      BY <3>1 DEF CopiesKnown
    <3>4. r.pid <= sent[r.snsid]
      BY <3>1, <3>2 DEF CopiesKnown, Given
    <3>5. delivered' = [delivered EXCEPT ![r.snsid][r.pid] = 1]
      BY <3>1, <3>2, <3>3 DEF TypeOK
    <3>6. App!Deliver(r.snsid, r.pid)
      BY <3>1, <3>3, <3>4, <3>5 DEF App!Deliver
    <3>7. QED
      BY <3>2, <3>6 DEF App!Next, Pid
  <2>3. ASSUME ~ForwardFresh, ~(\E x \in Snsid : Send(x))
        PROVE  UNCHANGED <<sent, delivered>>
    BY <2>3 DEF Next, Handler, Cleanup, Tick, SampleTime, HandleUnknownSender,
       HandleKnownSender, DropDuplicate, CleanupStart, CleanupVisit,
       CleanupExpired, CleanupFresh, Reboot, Shutdown, Launch, vars
  <2>4. QED
    BY <2>1, <2>2, <2>3
<1>3. QED
  BY <1>1, <1>2, TypeCorrect, CopiesStayKnown, PTL DEF Spec, AppSpec, App!Spec
============================================================================
