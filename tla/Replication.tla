---------------------------- MODULE Replication ----------------------------
(***************************************************************************)
(* What the sending daemon promises the network: packets are replicated    *)
(* one after the other, each under a number that follows from its rank, on *)
(* the INDs that one peer base allows and with no base older than one that *)
(* was used before; only an error, after which nothing is sent, leaves an  *)
(* IND of that base out.  Headers without the link of the flow come before *)
(* all others, and a header with the link is never sent by a base that was *)
(* not stored.  The file, the cache, the mutex and the condition are not   *)
(* visible.                                                                *)
(***************************************************************************)
EXTENDS Integers

CONSTANTS Ind,          \* network subclouds
          UINT32_MAX,   \* largest sequence number
          MaxPackets,   \* bound: packets the application sends
          MaxVersion    \* bound: peer bases

VARIABLES rank,      \* number of packets whose replication has begun
          header,    \* what its header has, or "none" between two packets
          base,      \* the base in use, or Idle between two packets
          todo,      \* INDs of that base that have still to get a copy
          out,       \* the copies sent
          handled,   \* rank and INDs of the packets that are replicated
          stopped    \* an error has ended the daemon

Idle == [ver |-> -1, inds |-> {}]

(* The number of the packet of rank r: from 1 to UINT32_MAX, again and again. *)
Number(r) == ((r - 1) % UINT32_MAX) + 1

Init ==
  /\ rank = 0 /\ header = "none" /\ base = Idle /\ todo = {}
  /\ out = {} /\ handled = {} /\ stopped = FALSE

(* The replication of the next packet begins, under the header h and with version
   v of the base, which allows the INDs I. *)
Begin(h, v, I) ==
  /\ ~stopped /\ base = Idle /\ rank < MaxPackets
  /\ \A c \in out : c.ver <= v
  /\ h = "link" => v # 0
  /\ h = "garbage" => \A c \in out : c.packet.header = "garbage"
  /\ rank' = rank + 1 /\ header' = h
  /\ base' = [ver |-> v, inds |-> I]
  /\ todo' = I
  /\ UNCHANGED <<out, handled, stopped>>

Copy(i) ==
  /\ i \in todo
  /\ todo' = todo \ {i}
  /\ out' = out \union {[packet |-> [rank |-> rank, seq_nb |-> Number(rank),
                                    header |-> header],
                         ind |-> i, ver |-> base.ver]}
  /\ UNCHANGED <<rank, header, base, handled, stopped>>

End ==
  /\ base # Idle /\ todo = {}
  /\ base' = Idle /\ header' = "none"
  /\ handled' = handled \union {[rank |-> rank, inds |-> base.inds]}
  /\ UNCHANGED <<rank, todo, out, stopped>>

Fail ==
  /\ todo # {}
  /\ base' = Idle /\ header' = "none" /\ todo' = {}
  /\ stopped' = TRUE
  /\ UNCHANGED <<rank, out, handled>>

Next ==
  \/ \E h \in {"link", "garbage"}, v \in 0 .. MaxVersion, I \in SUBSET Ind :
       Begin(h, v, I)
  \/ \E i \in Ind : Copy(i)
  \/ End
  \/ Fail

Spec == Init /\ [][Next]_<<rank, header, base, todo, out, handled, stopped>>
============================================================================
