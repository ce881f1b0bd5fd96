-------------------------------- MODULE Isd --------------------------------
(***************************************************************************)
(* The iPRP sending daemon, unicast build: the peer-base cache thread of   *)
(* src/isd/peerbase.c and the packet handler of src/isd/handle.c, which    *)
(* share the structure pb, with the file through which the control daemon  *)
(* gives the ISD its peer base (src/lib/files.c).                          *)
(*                                                                         *)
(* A stored peer base is its version and the set of INDs it allows.  The   *)
(* file is rewritten in place: fopen truncates it, one write fills it, and *)
(* a load between the two reads nothing, so temp keeps what it held: the   *)
(* previous base, or whatever was on the stack at the first load (Garbage).*)
(* temp is declared inside the loop, but the daemon is built without       *)
(* optimisation, and so temp has a place of its own in the stack frame.    *)
(* Every ERR ends the process, both threads included: stopped.             *)
(***************************************************************************)
EXTENDS Integers, FiniteSets

CONSTANTS
  Ind,          \* network subclouds; the host has one interface for each
  Faulty,       \* the INDs on which sendto may fail
  UINT32_MAX,   \* largest sequence number
  MaxPackets,   \* bound: packets the application sends
  MaxVersion    \* bound: peer bases the ICD stores

ASSUME IsdAssumption ==
  /\ Faulty \subseteq Ind
  /\ UINT32_MAX \in Nat \ {0} /\ MaxPackets \in Nat /\ MaxVersion \in Nat \ {0}

VARIABLES
  file,      \* the peer-base file: its base, or Truncated
  stored,    \* number of bases stored so far
  temp,      \* pb_routine's local copy
  base,      \* pb.base
  loaded,    \* pb.loaded
  mutex,     \* holder of pb.mutex
  pb_pc,     \* control point of pb_routine
  h_pc,      \* control point of the handler
  seq_nb,    \* the static counter of create_iprp_packet
  packet,    \* iPRP packet being sent: its rank, number and header
  left,      \* interfaces the send loop has not reached
  out,       \* history: the copies sent
  handled,   \* history: rank and base of the packets whose loop has ended
  stopped    \* the process has exited

vars == <<file, stored, temp, base, loaded, mutex, pb_pc, h_pc, seq_nb, packet,
          left, out, handled, stopped>>

Base == [ver : 1 .. MaxVersion, inds : SUBSET Ind]
Garbage == [ver : {0}, inds : SUBSET Ind]
Truncated == [ver |-> -1, inds |-> {}]

(* A header has the link of the flow, or what pb held before the first base. *)
Packet == [rank : 0 .. MaxPackets, seq_nb : 0 .. UINT32_MAX,
           header : {"link", "garbage"}]

-----------------------------------------------------------------------------
(***************************************************************************)
(* The control daemon's side of the file.                                  *)
(***************************************************************************)

(* peerbase_store: fopen(path, "w"). *)
StoreOpen ==
  /\ stored < MaxVersion /\ file # Truncated
  /\ file' = Truncated
  /\ UNCHANGED <<stored, temp, base, loaded, mutex, pb_pc, h_pc, seq_nb, packet,
                 left, out, handled, stopped>>

(* peerbase_store: the write. *)
StoreWrite ==
  /\ file = Truncated
  /\ stored' = stored + 1
  /\ \E I \in SUBSET Ind : file' = [ver |-> stored + 1, inds |-> I]
  /\ UNCHANGED <<temp, base, loaded, mutex, pb_pc, h_pc, seq_nb, packet, left,
                 out, handled, stopped>>

-----------------------------------------------------------------------------
(***************************************************************************)
(* pb_routine.                                                             *)
(***************************************************************************)

(* Mutated form of PbLoad: temp is cleared at the start of every pass. *)
PbLoadCleared ==
  /\ ~stopped /\ pb_pc = "load"
  /\ temp' = IF file = Truncated THEN [ver |-> 0, inds |-> {}] ELSE file
  /\ pb_pc' = "copy"
  /\ UNCHANGED <<file, stored, base, loaded, mutex, h_pc, seq_nb, packet, left,
                 out, handled, stopped>>

(* peerbase_load into temp. *)
PbLoad ==
  /\ ~stopped /\ pb_pc = "load"
  /\ temp' = IF file = Truncated THEN temp ELSE file
  /\ pb_pc' = "copy"
  /\ UNCHANGED <<file, stored, base, loaded, mutex, h_pc, seq_nb, packet, left,
                 out, handled, stopped>>

(* Mutated form of PbCopy: the base is replaced without the mutex. *)
PbCopyUnlocked ==
  /\ ~stopped /\ pb_pc = "copy"
  /\ base' = temp
  /\ pb_pc' = "loaded"
  /\ UNCHANGED <<file, stored, temp, loaded, mutex, h_pc, seq_nb, packet, left,
                 out, handled, stopped>>

(* The base is replaced under the mutex. *)
PbCopy ==
  /\ ~stopped /\ pb_pc = "copy" /\ mutex = "none"
  /\ base' = temp
  /\ pb_pc' = "loaded"
  /\ UNCHANGED <<file, stored, temp, loaded, mutex, h_pc, seq_nb, packet, left,
                 out, handled, stopped>>

(* Mutated form of PbLoaded: only the first base is signalled. *)
PbLoadedFirst ==
  /\ ~stopped /\ pb_pc = "loaded"
  /\ loaded' = TRUE
  /\ pb_pc' = IF loaded THEN "load" ELSE "signal"
  /\ UNCHANGED <<file, stored, temp, base, mutex, h_pc, seq_nb, packet, left,
                 out, handled, stopped>>

(* pb.loaded = true, without the mutex. *)
PbLoaded ==
  /\ ~stopped /\ pb_pc = "loaded"
  /\ loaded' = TRUE
  /\ pb_pc' = "signal"
  /\ UNCHANGED <<file, stored, temp, base, mutex, h_pc, seq_nb, packet, left,
                 out, handled, stopped>>

(* Mutated form of PbSignal: the base is loaded and signalled only once. *)
PbSignalOnce ==
  /\ ~stopped /\ pb_pc = "signal"
  /\ h_pc' = IF h_pc = "waiting" THEN "woken" ELSE h_pc
  /\ pb_pc' = "done"
  /\ UNCHANGED <<file, stored, temp, base, loaded, mutex, seq_nb, packet, left,
                 out, handled, stopped>>

(* pthread_cond_signal, without the mutex: it wakes the handler if the handler is
   waiting, and is lost otherwise.  The thread then sleeps and loads again. *)
PbSignal ==
  /\ ~stopped /\ pb_pc = "signal"
  /\ h_pc' = IF h_pc = "waiting" THEN "woken" ELSE h_pc
  /\ pb_pc' = "load"
  /\ UNCHANGED <<file, stored, temp, base, loaded, mutex, seq_nb, packet, left,
                 out, handled, stopped>>

-----------------------------------------------------------------------------
(***************************************************************************)
(* handle_routine: the start of the handler.                               *)
(***************************************************************************)

(* The mutex is taken, at the start or on return from pthread_cond_wait. *)
HandlerLock ==
  /\ ~stopped /\ h_pc \in {"start", "woken"} /\ mutex = "none"
  /\ mutex' = "handler"
  /\ h_pc' = "test"
  /\ UNCHANGED <<file, stored, temp, base, loaded, pb_pc, seq_nb, packet, left,
                 out, handled, stopped>>

(* while (!pb.loaded) *)
HandlerTest ==
  /\ ~stopped /\ h_pc = "test"
  /\ h_pc' = IF loaded THEN "release" ELSE "wait"
  /\ UNCHANGED <<file, stored, temp, base, loaded, mutex, pb_pc, seq_nb, packet,
                 left, out, handled, stopped>>

(* pthread_cond_wait releases the mutex. *)
HandlerWait ==
  /\ ~stopped /\ h_pc = "wait"
  /\ h_pc' = "waiting"
  /\ mutex' = "none"
  /\ UNCHANGED <<file, stored, temp, base, loaded, pb_pc, seq_nb, packet, left,
                 out, handled, stopped>>

(* The loop has ended; the mutex is released and packets are taken. *)
HandlerRelease ==
  /\ ~stopped /\ h_pc = "release"
  /\ h_pc' = "idle"
  /\ mutex' = "none"
  /\ UNCHANGED <<file, stored, temp, base, loaded, pb_pc, seq_nb, packet, left,
                 out, handled, stopped>>

-----------------------------------------------------------------------------
(***************************************************************************)
(* handle_packet.                                                          *)
(***************************************************************************)

(* Mutated form of next_seq_nb: the counter wraps as a uint32_t does. *)
next_seq_nb_wrap(n) == (n + 1) % (UINT32_MAX + 1)

next_seq_nb(n) == IF n = UINT32_MAX THEN 1 ELSE n + 1

(* create_iprp_packet: the header is filled from pb.base.link, without the
   mutex, and the original is dropped.  All stored bases have the same link, so a
   replacement of the base in the middle matters only for the first of them. *)
CreatePacket ==
  /\ ~stopped /\ h_pc = "idle" /\ packet.rank < MaxPackets
  /\ packet' = [rank |-> packet.rank + 1, seq_nb |-> seq_nb,
                 header |-> IF base.ver = 0 THEN "garbage" ELSE "link"]
  /\ seq_nb' = next_seq_nb(seq_nb)
  /\ h_pc' = "lock"
  /\ UNCHANGED <<file, stored, temp, base, loaded, mutex, pb_pc, left, out,
                 handled, stopped>>

(* The mutex is taken and the loop over the interfaces starts. *)
SendLock ==
  /\ ~stopped /\ h_pc = "lock" /\ mutex = "none"
  /\ mutex' = "handler"
  /\ left' = Ind
  /\ h_pc' = "send"
  /\ UNCHANGED <<file, stored, temp, base, loaded, pb_pc, seq_nb, packet, out,
                 handled, stopped>>

(* send_packet on interface i: nothing to do for an IND that the base does not
   have, a copy to the address of that IND otherwise. *)
SendOn(i) ==
  /\ ~stopped /\ h_pc = "send" /\ i \in left
  /\ left' = left \ {i}
  /\ out' = IF i \in base.inds
            THEN out \union {[packet |-> packet, ind |-> i, ver |-> base.ver]}
            ELSE out
  /\ UNCHANGED <<file, stored, temp, base, loaded, mutex, pb_pc, h_pc, seq_nb,
                 packet, handled, stopped>>

(* sendto fails: the mutex is released and the process exits. *)
SendError(i) ==
  /\ ~stopped /\ h_pc = "send" /\ i \in left
  /\ i \in base.inds /\ i \in Faulty
  /\ mutex' = "none"
  /\ stopped' = TRUE
  /\ UNCHANGED <<file, stored, temp, base, loaded, pb_pc, h_pc, seq_nb, packet,
                 left, out, handled>>

(* Mutated form of SendUnlock: the loop stops one interface short. *)
SendUnlockShort ==
  /\ ~stopped /\ h_pc = "send" /\ Cardinality(left) <= 1
  /\ mutex' = "none"
  /\ h_pc' = "idle"
  /\ handled' = handled \union {[rank |-> packet.rank, inds |-> base.inds]}
  /\ UNCHANGED <<file, stored, temp, base, loaded, pb_pc, seq_nb, packet, left,
                 out, stopped>>

(* The loop has ended. *)
SendUnlock ==
  /\ ~stopped /\ h_pc = "send" /\ left = {}
  /\ mutex' = "none"
  /\ h_pc' = "idle"
  /\ handled' = handled \union {[rank |-> packet.rank, inds |-> base.inds]}
  /\ UNCHANGED <<file, stored, temp, base, loaded, pb_pc, seq_nb, packet, left,
                 out, stopped>>

-----------------------------------------------------------------------------
(* The ICD has stored the first base before it starts the daemon; the stack and
   pb hold anything. *)
Init ==
  /\ \E I \in SUBSET Ind : file = [ver |-> 1, inds |-> I]
  /\ stored = 1
  /\ temp \in Garbage
  /\ base = [ver |-> 0, inds |-> {}]
  /\ loaded = FALSE
  /\ mutex = "none"
  /\ pb_pc = "load"
  /\ h_pc = "start"
  /\ seq_nb = 1
  /\ packet = [rank |-> 0, seq_nb |-> 0, header |-> "garbage"]
  /\ left = {}
  /\ out = {}
  /\ handled = {}
  /\ stopped = FALSE

PbRoutine == PbLoad \/ PbCopy \/ PbLoaded \/ PbSignal
HandlerStart == HandlerLock \/ HandlerTest \/ HandlerWait \/ HandlerRelease
SendCopies == \E i \in Ind : SendOn(i) \/ SendError(i)
HandlePacket == SendLock \/ SendCopies \/ SendUnlock

Next ==
  \/ StoreOpen \/ StoreWrite
  \/ PbRoutine
  \/ HandlerStart
  \/ CreatePacket
  \/ HandlePacket

Spec == Init /\ [][Next]_vars

(* Each thread keeps running, and the ICD finishes a write that it began.  Weak
   fairness is enough for the mutex: no thread holds it for good, and between two
   packets the handler leaves it free. *)
Fairness ==
  /\ WF_vars(StoreWrite)
  /\ WF_vars(PbRoutine)
  /\ WF_vars(HandlerStart)
  /\ WF_vars(HandlePacket)

FairSpec == Spec /\ Fairness

-----------------------------------------------------------------------------
TypeOK ==
  /\ file \in Base \union {Truncated}
  /\ stored \in 1 .. MaxVersion
  /\ temp \in Base \union Garbage
  /\ base \in Base \union Garbage
  /\ loaded \in BOOLEAN
  /\ mutex \in {"none", "handler"}
  /\ pb_pc \in {"load", "copy", "loaded", "signal"}
  /\ h_pc \in {"start", "test", "wait", "waiting", "woken", "release", "idle",
               "lock", "send"}
  /\ seq_nb \in 1 .. UINT32_MAX
  /\ packet \in Packet
  /\ left \subseteq Ind
  /\ out \subseteq [packet : Packet, ind : Ind, ver : 0 .. MaxVersion]
  /\ handled \subseteq [rank : 1 .. MaxPackets, inds : SUBSET Ind]
  /\ stopped \in BOOLEAN

(* The copies of a packet are sent from one version of the peer base, although
   the cache thread replaces it at any time. *)
OneBasePerPacket ==
  \A c, d \in out : c.packet.rank = d.packet.rank => c.ver = d.ver

(* A packet whose loop has ended went out on every IND of the base it was sent
   with, and on no other. *)
AllPathsUsed ==
  \A m \in handled : {c.ind : c \in {d \in out : d.packet.rank = m.rank}} = m.inds

(* While the ICD writes no more, the cache ends up with what it wrote last. *)
CacheConverges ==
  \A v \in 1 .. MaxVersion :
    <>[](file.ver = v /\ ~stopped) => <>[](base.ver = v)

(* The handler gets to its packets although the signal is sent without the mutex
   and can be lost between its test of pb.loaded and its wait. *)
HandlerStarts ==
  <>(h_pc \in {"idle", "lock", "send"} \/ stopped)

(* What the daemon shows of its state: a packet is being replicated while the
   handler is in its loop, with the base that it finds in pb, on the interfaces
   that are left and for whose IND the base has an address. *)
InLoop == h_pc = "send" /\ ~stopped
Rep ==
  INSTANCE Replication WITH
    rank <- IF h_pc = "lock" THEN packet.rank - 1 ELSE packet.rank,
    header <- IF InLoop THEN packet.header ELSE "none",
    base <- IF InLoop THEN base ELSE [ver |-> -1, inds |-> {}],
    todo <- IF InLoop THEN left \intersect base.inds ELSE {}

(* The daemon implements Replication: handle_packet replicates one packet after the
   other, numbered by rank, on all INDs of one base, never of an older base than
   before; the headers that lack the link come before all that have it; and an
   error ends it for good. *)
RepSpec == Rep!Spec
============================================================================
