-------------------------------- MODULE Ird --------------------------------
(***************************************************************************)
(* The iPRP receiving daemon: the packet handler, the duplicate-discard    *)
(* algorithm and the cleanup thread of src/ird/handle.c, with the clock    *)
(* thread of src/lib/time.c.                                               *)
(*                                                                         *)
(* Three threads share the list receiver_links:                            *)
(*   - the handler takes an iPRP packet, updates or creates the link of    *)
(*     its SNSID while it holds the list mutex, releases the mutex, and    *)
(*     only then issues the verdict;                                       *)
(*   - the cleanup thread walks the list, taking the mutex per element;    *)
(*   - the clock thread copies the wall clock into curr_time.              *)
(* A section under the mutex never blocks, so it is one step.              *)
(*                                                                         *)
(* The list is the set of its SNSIDs; the part of it from the cleanup      *)
(* thread's iterator to the tail is the set todo.  Packets have a pid that *)
(* the code does not see: the rank of the packet in its session.  A copy   *)
(* stays receivable until it is MaxDelay old, any number of times, in any  *)
(* order: this covers redundant paths, reordering, duplication and loss.   *)
(*                                                                         *)
(* Both ends can lose their state.  A sender that reboots counts from 1    *)
(* again, in the same SNSID, since the control daemon's reboot_counter     *)
(* restarts as well.  The ports thread kills the daemon with kill -9, and  *)
(* starts it again after a sleep of ICD_T_PORTS at the earliest.           *)
(***************************************************************************)
EXTENDS Integers, FiniteSetsExt

CONSTANTS
  Snsid,                     \* the sessions: sequence number space identifiers
  IPRP_DD_MAX_LOST_PACKETS,  \* slots of list_sn (1024 in the code)
  IRD_T_EXP,                 \* seconds a silent link is kept (120 in the code)
  INT_MAX,                   \* largest signed int (2^31 - 1 in the code)
  MaxPid,                    \* bound: packets sent per session
  MaxDelay,                  \* the network discards a copy older than this
  Lag,                       \* seconds curr_time may be behind the wall clock
  StartTime,                 \* the wall clock when the daemon starts
  MaxTime,                   \* bound: the last wall clock value
  SampledAtStart,            \* the clock thread runs before the first packet
  ICD_T_PORTS,               \* sleep of the ports thread (10 in the code)
  MaxReboots,                \* bound: reboots of senders
  MaxKills                   \* bound: kills of the daemon

(* uint32_t: twice the range of int. *)
UINT32_MAX == 2 * INT_MAX + 1

Slots == 0 .. IPRP_DD_MAX_LOST_PACKETS - 1

ASSUME WindowAssumption == IPRP_DD_MAX_LOST_PACKETS \in Nat \ {0}
ASSUME WidthAssumption ==
  /\ INT_MAX \in Nat \ {0}
  /\ (UINT32_MAX + 1) % IPRP_DD_MAX_LOST_PACKETS = 0
ASSUME TimeAssumption ==
  /\ IRD_T_EXP \in Nat /\ MaxDelay \in Nat /\ Lag \in Nat
  /\ StartTime \in Nat /\ MaxTime \in Nat
  /\ SampledAtStart \in BOOLEAN /\ ICD_T_PORTS \in Nat
ASSUME BoundAssumption ==
  MaxPid \in Nat /\ MaxReboots \in Nat /\ MaxKills \in Nat

VARIABLES
  now,             \* the wall clock, time(NULL)
  curr_time,       \* the clock thread's sample of it
  sent,            \* sent[x]: number of packets the sender of x has sent
  counter,         \* counter[x]: the static seq_nb of the ISD of x
  seq_nb,          \* seq_nb[x][p]: the number in the header of packet p
  reboots,         \* reboots of senders so far
  net,             \* copies in flight
  receiver_links,  \* SNSIDs that have a link in the list
  link,            \* link[x]: the receiver link structure of x
  first_pid,       \* history: the packet that created the link of x
  pending,         \* the packet classified but not ruled on: empty or one
  todo,            \* links the current cleanup pass has still to examine
  delivered,       \* history: delivered[x][p]: how often packet p was forwarded
  oob,             \* an element below list_sn[0] was written
  up,              \* the daemon runs
  down_since,      \* when it was last killed
  kills            \* how often it was killed

sender == <<counter, seq_nb, reboots>>
process == <<up, down_since, kills>>
vars == <<now, curr_time, sent, net, receiver_links, link, first_pid, pending,
          todo, delivered, oob, sender, process>>

Pid == 1 .. MaxPid
Copy == [snsid : Snsid, pid : Pid, sent : Nat]
Link == [list_sn : [Slots -> 0 .. UINT32_MAX], high_sn : 0 .. UINT32_MAX,
         last_seen : Nat]
Classified == [snsid : Snsid, pid : Pid, fresh : BOOLEAN]

-----------------------------------------------------------------------------
(***************************************************************************)
(* The duplicate-discard algorithm, is_fresh_packet.                       *)
(***************************************************************************)

(* The ISD's counter after n: it skips 0 when it wraps. *)
next_seq_nb(n) == IF n = UINT32_MAX THEN 1 ELSE n + 1

(* i % IPRP_DD_MAX_LOST_PACKETS as the loop computes it, with i an int: past
   INT_MAX, i is negative and so is the remainder. *)
Index(i) ==
  IF i <= INT_MAX
  THEN i % IPRP_DD_MAX_LOST_PACKETS
  ELSE -((UINT32_MAX + 1 - i) % IPRP_DD_MAX_LOST_PACKETS)

(* The numbers the loop skips over, and those it stores in slot k. *)
Skipped(n, l) == (l.high_sn + 1) .. (n - 1)
StoredAt(n, l, k) == {i \in Skipped(n, l) : Index(i) = k}

is_fresh_packet(n, l) ==
  \/ n > l.high_sn
  \/ n < l.high_sn /\ l.list_sn[n % IPRP_DD_MAX_LOST_PACKETS] = n

(* Mutated forms of RecordSkipped: the loop starts at high_sn; it stops one
   number short. *)
RecordSkippedFromHigh(n, l) ==
  [k \in Slots |->
     LET S == {i \in l.high_sn .. (n - 1) : Index(i) = k}
     IN  IF S = {} THEN l.list_sn[k] ELSE Max(S)]
RecordSkippedButLast(n, l) ==
  [k \in Slots |->
     LET S == StoredAt(n - 1, l, k)
     IN  IF S = {} THEN l.list_sn[k] ELSE Max(S)]

(* The slots after the loop: each keeps the last number stored in it. *)
RecordSkipped(n, l) ==
  [k \in Slots |->
     LET S == StoredAt(n, l, k)
     IN  IF S = {} THEN l.list_sn[k] ELSE Max(S)]

(* Mutated form of RecordPacket: a late number is not removed from the list. *)
RecordPacketKeepLate(n, l) ==
  IF n > l.high_sn
  THEN [l EXCEPT !.list_sn = RecordSkipped(n, l), !.high_sn = n]
  ELSE l

(* The link after is_fresh_packet saw number n. *)
RecordPacket(n, l) ==
  IF n > l.high_sn
  THEN [l EXCEPT !.list_sn = RecordSkipped(n, l), !.high_sn = n]
  ELSE IF is_fresh_packet(n, l)
       THEN [l EXCEPT !.list_sn[n % IPRP_DD_MAX_LOST_PACKETS] = 0]
       ELSE l

(* The link receiver_link_create builds for number n. *)
receiver_link_create(n) ==
  [list_sn |-> [k \in Slots |-> 0], high_sn |-> n, last_seen |-> curr_time]

-----------------------------------------------------------------------------
(***************************************************************************)
(* The environment: senders, the network, the wall clock.                  *)
(***************************************************************************)

(* A sender numbers its next packet and puts copies of it on the network. *)
Send(x) ==
  /\ sent[x] < MaxPid
  /\ sent' = [sent EXCEPT ![x] = @ + 1]
  /\ net' = net \union {[snsid |-> x, pid |-> sent[x] + 1, sent |-> now]}
  /\ seq_nb' = [seq_nb EXCEPT ![x][sent[x] + 1] = counter[x]]
  /\ counter' = [counter EXCEPT ![x] = next_seq_nb(@)]
  /\ UNCHANGED <<now, curr_time, receiver_links, link, first_pid, pending, todo,
                 delivered, oob, reboots, process>>

(* The sender's host reboots: reboot_counter is 0 again, so that the next base
   of the link gets the SNSID x, and a new ISD counts from 1. *)
Reboot(x) ==
  /\ reboots < MaxReboots
  /\ reboots' = reboots + 1
  /\ counter' = [counter EXCEPT ![x] = 1]
  /\ UNCHANGED <<now, curr_time, sent, net, receiver_links, link, first_pid,
                 pending, todo, delivered, oob, seq_nb, process>>

(* A second passes.  A clock thread that runs is never more than Lag behind. *)
Tick ==
  /\ now < MaxTime
  /\ up => now + 1 <= curr_time + Lag
  /\ now' = now + 1
  /\ net' = {c \in net : now + 1 <= c.sent + MaxDelay}
  /\ UNCHANGED <<curr_time, sent, receiver_links, link, first_pid, pending, todo,
                 delivered, oob, sender, process>>

(* The daemon is killed, by proc_shutdown or by an error of its own: its list is
   lost, and the packet without a verdict with its queue. *)
Shutdown ==
  /\ up /\ kills < MaxKills
  /\ up' = FALSE /\ down_since' = now /\ kills' = kills + 1
  /\ receiver_links' = {} /\ pending' = {} /\ todo' = {} /\ oob' = FALSE
  /\ UNCHANGED <<now, curr_time, sent, net, link, first_pid, delivered, sender>>

(* Mutated form of Launch: the daemon is started again at once. *)
LaunchAtOnce ==
  /\ ~up
  /\ up' = TRUE
  /\ curr_time' = IF SampledAtStart THEN now ELSE 0
  /\ UNCHANGED <<now, sent, net, receiver_links, link, first_pid, pending, todo,
                 delivered, oob, sender, down_since, kills>>

(* ird_launch: the ports thread starts the daemon in a later pass than the one
   that shut it down. *)
Launch ==
  /\ ~up /\ now >= down_since + ICD_T_PORTS
  /\ up' = TRUE
  /\ curr_time' = IF SampledAtStart THEN now ELSE 0
  /\ UNCHANGED <<now, sent, net, receiver_links, link, first_pid, pending, todo,
                 delivered, oob, sender, down_since, kills>>

-----------------------------------------------------------------------------
(***************************************************************************)
(* The threads.                                                            *)
(***************************************************************************)

(* time_routine samples the clock. *)
SampleTime ==
  /\ up /\ curr_time # now
  /\ curr_time' = now
  /\ UNCHANGED <<now, sent, net, receiver_links, link, first_pid, pending,
                 todo, delivered, oob, sender, process>>

(* handle_packet, under the mutex, for a packet whose SNSID has no link: the
   first packet is always fresh.  The new link is appended to the list, where
   a cleanup pass that has not reached the tail will find it. *)
HandleUnknownSender(c) ==
  /\ up /\ pending = {} /\ ~oob
  /\ c.snsid \notin receiver_links
  /\ receiver_links' = receiver_links \union {c.snsid}
  /\ link' = [link EXCEPT ![c.snsid] =
                receiver_link_create(seq_nb[c.snsid][c.pid])]
  /\ first_pid' = [first_pid EXCEPT ![c.snsid] = c.pid]
  /\ todo' = IF todo = {} THEN {} ELSE todo \union {c.snsid}
  /\ pending' = {[snsid |-> c.snsid, pid |-> c.pid, fresh |-> TRUE]}
  /\ UNCHANGED <<now, curr_time, sent, net, delivered, oob, sender, process>>

(* Mutated form of HandleKnownSender: last_seen is not refreshed. *)
HandleKnownSenderNoRefresh(c) ==
  LET n == seq_nb[c.snsid][c.pid]
      l == link[c.snsid]
  IN
  /\ pending = {} /\ ~oob
  /\ c.snsid \in receiver_links
  /\ link' = [link EXCEPT ![c.snsid] = RecordPacket(n, l)]
  /\ pending' = {[snsid |-> c.snsid, pid |-> c.pid,
                  fresh |-> is_fresh_packet(n, l)]}
  /\ oob' = \E i \in Skipped(n, l) : Index(i) < 0
  /\ UNCHANGED <<now, curr_time, sent, net, receiver_links, first_pid, todo,
                 delivered, sender, process>>

(* handle_packet, under the mutex, for a packet of a known session.  After an
   element below list_sn[0] was written the daemon's memory is undefined, and
   the handler takes no further step. *)
HandleKnownSender(c) ==
  LET n == seq_nb[c.snsid][c.pid]
      l == link[c.snsid]
  IN
  /\ pending = {} /\ ~oob
  /\ c.snsid \in receiver_links
  /\ link' = [link EXCEPT ![c.snsid] =
                [RecordPacket(n, l) EXCEPT !.last_seen = curr_time]]
  /\ pending' = {[snsid |-> c.snsid, pid |-> c.pid,
                  fresh |-> is_fresh_packet(n, l)]}
  /\ oob' = \E i \in Skipped(n, l) : Index(i) < 0
  /\ UNCHANGED <<now, curr_time, sent, net, receiver_links, first_pid, todo,
                 delivered, sender, process>>

(* handle_packet after the unlock: a fresh packet goes to the IMD queue. *)
ForwardFresh ==
  \E r \in pending :
    /\ r.fresh
    /\ delivered' = [delivered EXCEPT ![r.snsid][r.pid] = @ + 1]
    /\ pending' = {}
    /\ UNCHANGED <<now, curr_time, sent, net, receiver_links, link, first_pid,
                   todo, oob, sender, process>>

(* handle_packet after the unlock: a duplicate is dropped. *)
DropDuplicate ==
  \E r \in pending :
    /\ ~r.fresh
    /\ pending' = {}
    /\ UNCHANGED <<now, curr_time, sent, net, receiver_links, link, first_pid,
                   todo, delivered, oob, sender, process>>

(* cleanup_routine reads the head of the list, without the mutex. *)
CleanupStart ==
  /\ todo = {}
  /\ todo' = receiver_links
  /\ UNCHANGED <<now, curr_time, sent, net, receiver_links, link, first_pid,
                 pending, delivered, oob, sender, process>>

Expired(x) == curr_time - link[x].last_seen > IRD_T_EXP

(* Mutated forms of CleanupExpired: the iterator stays on the deleted element;
   the element is passed over but not unlinked. *)
CleanupExpiredStale(x) ==
  /\ x \in todo /\ Expired(x)
  /\ receiver_links' = receiver_links \ {x}
  /\ UNCHANGED <<now, curr_time, sent, net, link, first_pid, pending, todo,
                 delivered, oob, sender, process>>
CleanupExpiredKept(x) ==
  /\ x \in todo /\ Expired(x)
  /\ todo' = todo \ {x}
  /\ UNCHANGED <<now, curr_time, sent, net, receiver_links, link, first_pid,
                 pending, delivered, oob, sender, process>>

(* cleanup_routine, under the mutex, at a link that is too old. *)
CleanupExpired(x) ==
  /\ x \in todo /\ Expired(x)
  /\ todo' = todo \ {x}
  /\ receiver_links' = receiver_links \ {x}
  /\ UNCHANGED <<now, curr_time, sent, net, link, first_pid, pending,
                 delivered, oob, sender, process>>

(* cleanup_routine, under the mutex, at a link that is recent enough. *)
CleanupFresh(x) ==
  /\ x \in todo /\ ~Expired(x)
  /\ todo' = todo \ {x}
  /\ UNCHANGED <<now, curr_time, sent, net, receiver_links, link, first_pid,
                 pending, delivered, oob, sender, process>>

-----------------------------------------------------------------------------
Init ==
  /\ now = StartTime
  /\ curr_time = IF SampledAtStart THEN StartTime ELSE 0
  /\ sent = [x \in Snsid |-> 0]
  /\ net = {}
  /\ receiver_links = {}
  /\ link = [x \in Snsid |-> [list_sn |-> [k \in Slots |-> 0], high_sn |-> 0,
                              last_seen |-> 0]]
  /\ first_pid = [x \in Snsid |-> 0]
  /\ pending = {}
  /\ todo = {}
  /\ delivered = [x \in Snsid |-> [p \in Pid |-> 0]]
  /\ oob = FALSE
  /\ counter = [x \in Snsid |-> 1]
  /\ seq_nb = [x \in Snsid |-> [p \in Pid |-> 1]]
  /\ reboots = 0
  /\ up = TRUE /\ down_since = 0 /\ kills = 0

Handler ==
  \/ \E c \in net : HandleUnknownSender(c) \/ HandleKnownSender(c)
  \/ ForwardFresh
  \/ DropDuplicate

CleanupVisit(x) == CleanupExpired(x) \/ CleanupFresh(x)
Cleanup == CleanupStart \/ \E x \in Snsid : CleanupVisit(x)

Next ==
  \/ \E x \in Snsid : Send(x) \/ Reboot(x)
  \/ Tick
  \/ Shutdown \/ Launch
  \/ SampleTime
  \/ Handler
  \/ Cleanup

Spec == Init /\ [][Next]_vars

(* The clock and cleanup threads are never blocked for good: their bodies only
   wait for a mutex whose sections do not block, and for sleep. *)
Fairness ==
  /\ WF_vars(SampleTime)
  /\ WF_vars(CleanupStart)
  /\ \A x \in Snsid : WF_vars(CleanupVisit(x))

FairSpec == Spec /\ Fairness

-----------------------------------------------------------------------------
TypeOK ==
  /\ now \in Nat /\ curr_time \in Nat
  /\ sent \in [Snsid -> 0 .. MaxPid]
  /\ net \subseteq Copy
  /\ receiver_links \subseteq Snsid
  /\ link \in [Snsid -> Link]
  /\ first_pid \in [Snsid -> 0 .. MaxPid]
  /\ pending \subseteq Classified /\ \A r, s \in pending : r = s
  /\ todo \subseteq receiver_links
  /\ delivered \in [Snsid -> [Pid -> Nat]]
  /\ oob \in BOOLEAN
  /\ counter \in [Snsid -> 1 .. UINT32_MAX]
  /\ seq_nb \in [Snsid -> [Pid -> 1 .. UINT32_MAX]]
  /\ reboots \in Nat
  /\ up \in BOOLEAN /\ down_since \in Nat /\ kills \in Nat
  /\ ~up => receiver_links = {} /\ pending = {}

(* No packet reaches the application twice: whatever the order of the copies,
   wherever the cleanup thread runs, and whether sender or receiver restart,
   handle_packet calls a packet fresh at most once. *)
AtMostOnce == \A x \in Snsid, p \in Pid : delivered[x][p] <= 1

(* Another packet of session x had the number of packet p: the sender's counter
   wrapped or was reset. *)
Reused(x, p) == \E q \in 1 .. sent[x] : q # p /\ seq_nb[x][q] = seq_nb[x][p]

(* The reasons to drop a packet: it was forwarded already, or is older than the
   packet that opened the link, or a packet more than IPRP_DD_MAX_LOST_PACKETS
   later was forwarded ("Very Late Packet"). *)
KnownOrLate(r) ==
  \/ delivered[r.snsid][r.pid] >= 1
  \/ r.pid < first_pid[r.snsid]
  \/ \E q \in Pid : /\ q > r.pid + IPRP_DD_MAX_LOST_PACKETS
                   /\ delivered[r.snsid][q] >= 1

(* "If the packet is fresh, the handler modifies it as needed and forwards it to
   the application": handle_packet drops no packet without such a reason. *)
FreshForwarded == \A r \in pending : r.fresh \/ KnownOrLate(r)

(* handle_packet drops a packet only for one of these reasons, or because its
   number was in use before: nothing else makes it lose a packet. *)
DropJustified ==
  \A r \in pending : r.fresh \/ KnownOrLate(r) \/ Reused(r.snsid, r.pid)

(* Given(x, p): packet p was forwarded, or is about to be. *)
Given(x, p) ==
  \/ delivered[x][p] >= 1
  \/ \E r \in pending : r.snsid = x /\ r.pid = p /\ r.fresh

(* The list keeps every missing number of the window: a packet that was not
   given to the application, was sent after the one that opened the link under a
   number of its own and is at most IPRP_DD_MAX_LOST_PACKETS behind the highest
   number, is found in its slot when it arrives late. *)
MissingAreListed ==
  \A x \in receiver_links, p \in Pid :
    LET n == seq_nb[x][p] IN
    (/\ first_pid[x] < p /\ p <= sent[x]
     /\ n < link[x].high_sn
     /\ link[x].high_sn - n <= IPRP_DD_MAX_LOST_PACKETS
     /\ ~Given(x, p) /\ ~Reused(x, p))
    => link[x].list_sn[n % IPRP_DD_MAX_LOST_PACKETS] = n

(* l has seen number n and would drop it. *)
Knows(l, n) ==
  n <= l.high_sn /\ l.list_sn[n % IPRP_DD_MAX_LOST_PACKETS] # n

(* The link of copy c is in the list, knows the packet and is too recent for
   cleanup_routine; or the daemon was killed after c was sent, and c will be
   gone when it starts again. *)
Held(c) ==
  IF up
  THEN /\ c.snsid \in receiver_links
       /\ Knows(link[c.snsid], seq_nb[c.snsid][c.pid])
       /\ c.sent <= link[c.snsid].last_seen + Lag
  ELSE c.sent <= down_since

(* Why AtMostOnce holds.  While a copy of a packet given to the application is
   still in flight, it is held: it is never mistaken for fresh. *)
CopiesKnown ==
  /\ up => curr_time <= now /\ now <= curr_time + Lag
  /\ down_since <= now
  /\ \A x \in Snsid, k \in Slots : link[x].list_sn[k] <= link[x].high_sn
  /\ \A x \in Snsid, p \in Pid : Given(x, p) => p <= sent[x]
  /\ \A r \in pending : r.fresh => delivered[r.snsid][r.pid] = 0
  /\ \A c \in net :
       /\ c.pid <= sent[c.snsid]
       /\ c.sent <= now /\ now <= c.sent + MaxDelay
       /\ Given(c.snsid, c.pid) => Held(c)

(* The clock thread runs first, and copies die before a link ages and before the
   daemon can be started again. *)
Timely ==
  SampledAtStart /\ MaxDelay + Lag <= IRD_T_EXP /\ MaxDelay < ICD_T_PORTS

(* A link that has aged is removed from the list unless its sender is heard of
   again: cleanup_routine misses no element, those appended during a pass
   included. *)
AgedRemoved ==
  \A x \in Snsid :
    (x \in receiver_links /\ Expired(x))
      ~> (x \notin receiver_links \/ ~Expired(x))

(* What the daemon promises the application. *)
App == INSTANCE AppDelivery WITH sent <- sent, delivered <- delivered
AppSpec == App!Spec
============================================================================
