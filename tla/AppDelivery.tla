---------------------------- MODULE AppDelivery ----------------------------
(***************************************************************************)
(* What the receiving daemon promises the application: of the packets a    *)
(* sender has sent, each is handed over at most once, in any order.  The   *)
(* network's copies, the receiver links and the clock are not visible.     *)
(***************************************************************************)
EXTENDS Integers

CONSTANTS Snsid,   \* the sessions
          MaxPid   \* bound: packets sent per session

VARIABLES sent,       \* sent[x]: number of packets sent in session x
          delivered   \* delivered[x][p]: how often packet p was handed over

Init ==
  /\ sent = [x \in Snsid |-> 0]
  /\ delivered = [x \in Snsid |-> [p \in 1 .. MaxPid |-> 0]]

Send(x) ==
  /\ sent[x] < MaxPid
  /\ sent' = [sent EXCEPT ![x] = @ + 1]
  /\ UNCHANGED delivered

Deliver(x, p) ==
  /\ p <= sent[x]
  /\ delivered[x][p] = 0
  /\ delivered' = [delivered EXCEPT ![x][p] = 1]
  /\ UNCHANGED sent

Next == \E x \in Snsid : Send(x) \/ \E p \in 1 .. MaxPid : Deliver(x, p)

Spec == Init /\ [][Next]_<<sent, delivered>>
============================================================================
