----------------------------- MODULE IsdProofs -----------------------------
(***************************************************************************)
(* Proofs about the sending daemon.  OneBasePerPacket and AllPathsUsed are *)
(* about packets that are behind the send loop; what makes them inductive  *)
(* is what holds in the middle of it: the handler has the mutex, so that   *)
(* pb_routine cannot replace the base (Locking), and the copies sent so    *)
(* far are those of the interfaces the loop has passed (Sending).  That    *)
(* the daemon implements Replication needs more: the number of a packet    *)
(* follows from its rank (Numbers), the versions of the base on their way  *)
(* from the file to the copies only grow (Versions), and a header, which   *)
(* is filled before the mutex is taken, has the link once pb has it        *)
(* (Headers).                                                              *)
(***************************************************************************)
EXTENDS Isd, ListLemmas

(* The handler holds the mutex exactly in its critical sections; a store begins
   only while another version is allowed. *)
Locking ==
  /\ mutex = "handler" <=> ~stopped /\ h_pc \in {"test", "wait", "release", "send"}
  /\ file = Truncated => stored < MaxVersion

(* No copy is from a packet to come, none of the packet at hand was sent before
   the loop, and in the loop those of the interfaces that it has passed were sent,
   with the base in use. *)
Sending ==
  /\ h_pc \in {"lock", "send"} => packet.rank \in 1 .. MaxPackets
  /\ \A c \in out : /\ c.packet.rank <= packet.rank
                    /\ h_pc = "lock" => c.packet.rank # packet.rank
  /\ \A m \in handled : /\ m.rank <= packet.rank
                        /\ h_pc \in {"lock", "send"} => m.rank # packet.rank
  /\ h_pc = "send" =>
       /\ \A c \in out : c.packet.rank = packet.rank => c.ver = base.ver
       /\ {c.ind : c \in {d \in out : d.packet.rank = packet.rank}}
            = base.inds \ left

IInv == TypeOK /\ Locking /\ Sending /\ OneBasePerPacket /\ AllPathsUsed
-----------------------------------------------------------------------------
(* The daemon starts in a state of the invariant. *)
LEMMA InitIInv == Init => IInv
<1> SUFFICES ASSUME Init PROVE IInv
  OBVIOUS
<1>1. TypeOK
  <2>1. file \in Base /\ base \in Garbage /\ packet \in Packet
    BY IsdAssumption DEF Init, Base, Garbage, Packet
  <2>2. loaded \in BOOLEAN /\ stopped \in BOOLEAN
    BY Zenon DEF Init
  <2>3. QED
    BY <2>1, <2>2, IsdAssumption DEF Init, TypeOK
<1>2. Locking
  BY DEF Init, Locking, Truncated
<1>3. Sending /\ OneBasePerPacket /\ AllPathsUsed
  BY DEF Init, Sending, OneBasePerPacket, AllPathsUsed
<1>4. QED
  BY <1>1, <1>2, <1>3 DEF IInv

(* Every step of the daemon and of the ICD keeps the types. *)
LEMMA NextTypeOK == IInv /\ [Next]_vars => TypeOK'
<1> SUFFICES ASSUME IInv, [Next]_vars PROVE TypeOK'
  OBVIOUS
<1> USE IsdAssumption DEF IInv, TypeOK
<1>1. CASE StoreOpen
  BY <1>1 DEF StoreOpen
<1>2. CASE StoreWrite
  BY <1>2 DEF StoreWrite, Locking, Base
<1>3. CASE PbLoad
  BY <1>3 DEF PbLoad
<1>4. CASE PbCopy
  BY <1>4 DEF PbCopy
<1>5. CASE PbLoaded
  BY <1>5 DEF PbLoaded
<1>6. CASE PbSignal
  BY <1>6 DEF PbSignal
<1>7. CASE HandlerLock
  BY <1>7 DEF HandlerLock
<1>8. CASE HandlerTest
  BY <1>8 DEF HandlerTest
<1>9. CASE HandlerWait
  BY <1>9 DEF HandlerWait
<1>10. CASE HandlerRelease
  BY <1>10 DEF HandlerRelease
<1>11. CASE CreatePacket
  BY <1>11 DEF CreatePacket, next_seq_nb, Packet
<1>12. CASE SendLock
  BY <1>12 DEF SendLock
<1>13. ASSUME NEW i \in Ind, SendOn(i) PROVE TypeOK'
  BY <1>13 DEF SendOn, Base, Garbage
<1>14. ASSUME NEW i \in Ind, SendError(i) PROVE TypeOK'
  BY <1>14 DEF SendError
<1>15. CASE SendUnlock
  BY <1>15 DEF SendUnlock, Sending, Base, Garbage
<1>16. CASE UNCHANGED vars
  BY <1>16 DEF vars
<1>17. QED
  BY <1>1, <1>2, <1>3, <1>4, <1>5, <1>6, <1>7, <1>8, <1>9, <1>10, <1>11, <1>12,
     <1>13, <1>14, <1>15, <1>16
     DEF Next, PbRoutine, HandlerStart, HandlePacket, SendCopies

(* Every step keeps the mutex with the handler in its critical sections, and with
   nobody else. *)
LEMMA NextLocking == IInv /\ [Next]_vars => Locking'
<1> SUFFICES ASSUME IInv, [Next]_vars PROVE Locking'
  OBVIOUS
<1> USE IsdAssumption DEF IInv, TypeOK, Locking
<1>1. CASE StoreOpen
  BY <1>1 DEF StoreOpen
<1>2. CASE StoreWrite
  <2>1. file' # Truncated
    BY <1>2 DEF StoreWrite, Truncated
  <2>2. QED
    BY <1>2, <2>1 DEF StoreWrite
<1>3. CASE PbRoutine
  BY <1>3 DEF PbRoutine, PbLoad, PbCopy, PbLoaded, PbSignal
<1>4. CASE HandlerStart
  BY <1>4 DEF HandlerStart, HandlerLock, HandlerTest, HandlerWait, HandlerRelease
<1>5. CASE CreatePacket
  BY <1>5 DEF CreatePacket
<1>6. CASE HandlePacket
  BY <1>6 DEF HandlePacket, SendLock, SendCopies, SendOn, SendError, SendUnlock
<1>7. CASE UNCHANGED vars
  BY <1>7 DEF vars
<1>8. QED
  BY <1>1, <1>2, <1>3, <1>4, <1>5, <1>6, <1>7 DEF Next

(* The copies of the packet at hand that are out. *)
Reached(r) == {c.ind : c \in {d \in out : d.packet.rank = r}}

(* Every step keeps what is known in the middle of the loop. *)
LEMMA NextSending == IInv /\ [Next]_vars => Sending'
<1> SUFFICES ASSUME IInv, [Next]_vars PROVE Sending'
  OBVIOUS
<1> USE DEF IInv
<1>1. CASE StoreOpen \/ StoreWrite
  BY <1>1 DEF StoreOpen, StoreWrite, Sending
<1>2. CASE PbCopy
  <2>1. h_pc # "send"
    BY <1>2 DEF PbCopy, Locking
  <2>2. QED
    BY <1>2, <2>1 DEF PbCopy, Sending
<1>3. CASE PbLoad \/ PbLoaded
  BY <1>3 DEF PbLoad, PbLoaded, Sending
<1>4. CASE PbSignal
  BY <1>4 DEF PbSignal, Sending
<1>5. CASE HandlerStart
  BY <1>5 DEF HandlerStart, HandlerLock, HandlerTest, HandlerWait, HandlerRelease,
              Sending
<1>6. CASE CreatePacket
  <2>1. packet.rank \in 0 .. MaxPackets
    BY DEF TypeOK, Packet
  <2>2. /\ packet'.rank = packet.rank + 1 /\ h_pc' = "lock"
        /\ out' = out /\ handled' = handled /\ packet.rank < MaxPackets
    BY <1>6 DEF CreatePacket
  <2>3. \A c \in out : c.packet.rank \in Int
    BY DEF TypeOK, Packet
  <2>4. \A m \in handled : m.rank \in Int
    BY DEF TypeOK
  <2>5. QED
    BY <2>1, <2>2, <2>3, <2>4, IsdAssumption DEF Sending
<1>7. CASE SendLock
  <2>1. base.inds \subseteq Ind
    BY DEF TypeOK, Base, Garbage
  <2>2. base.inds \ Ind = {}
    BY <2>1
  <2>3. {d \in out : d.packet.rank = packet.rank} = {}
    BY <1>7 DEF SendLock, Sending
  <2>4. QED
    BY <1>7, <2>2, <2>3 DEF SendLock, Sending
<1>8. ASSUME NEW i \in Ind, SendOn(i) PROVE Sending'
  <2>1. CASE i \in base.inds
    <3> DEFINE c == [packet |-> packet, ind |-> i, ver |-> base.ver]
    <3>1. /\ out' = out \union {c} /\ left' = left \ {i} /\ i \in left
          /\ UNCHANGED <<base, packet, h_pc, handled>> /\ h_pc = "send"
      BY <1>8, <2>1 DEF SendOn
    <3>2. Reached(packet.rank)' = Reached(packet.rank) \union {i}
      <4> DEFINE Copies == {d \in out : d.packet.rank = packet.rank}
      <4>1. c.packet.rank = packet.rank /\ c.ind = i
        OBVIOUS
      <4>2. {d \in out' : d.packet.rank = packet.rank} = Copies \union {c}
        BY <3>1, <4>1
      <4> HIDE DEF c
      <4>3. {d.ind : d \in Copies \union {c}} = {d.ind : d \in Copies} \union {i}
        BY <4>1
      <4>4. Reached(packet.rank)' = {d.ind : d \in Copies \union {c}}
        BY <3>1, <4>2 DEF Reached
      <4>5. QED
        BY <4>3, <4>4 DEF Reached
    <3>3. Reached(packet.rank)' = base'.inds \ left'
      BY <2>1, <3>1, <3>2 DEF Reached, Sending
    <3>4. packet.rank \in Int
      BY DEF TypeOK, Packet
    <3>5. QED
      BY <3>1, <3>3, <3>4 DEF Reached, Sending
  <2>2. CASE i \notin base.inds
    BY <1>8, <2>2 DEF SendOn, Sending
  <2>3. QED
    BY <2>1, <2>2
<1>9. ASSUME NEW i \in Ind, SendError(i) PROVE Sending'
  BY <1>9 DEF SendError, Sending
<1>10. CASE SendUnlock
  BY <1>10, IsdAssumption DEF SendUnlock, Sending
<1>11. CASE UNCHANGED vars
  BY <1>11 DEF vars, Sending
<1>12. QED
  BY <1>1, <1>2, <1>3, <1>4, <1>5, <1>6, <1>7, <1>8, <1>9, <1>10, <1>11
     DEF Next, PbRoutine, HandlePacket, SendCopies

(* The two safety properties are kept. *)
LEMMA NextSafe ==
  IInv /\ [Next]_vars => OneBasePerPacket' /\ AllPathsUsed'
<1> SUFFICES ASSUME IInv, [Next]_vars PROVE OneBasePerPacket' /\ AllPathsUsed'
  OBVIOUS
<1> USE DEF IInv
<1>1. CASE UNCHANGED <<out, handled>>
  BY <1>1 DEF OneBasePerPacket, AllPathsUsed
<1>2. ASSUME NEW i \in Ind, SendOn(i), i \in base.inds
      PROVE  OneBasePerPacket' /\ AllPathsUsed'
  <2> DEFINE c == [packet |-> packet, ind |-> i, ver |-> base.ver]
  <2>1. out' = out \union {c} /\ handled' = handled /\ h_pc = "send"
    BY <1>2 DEF SendOn
  <2>2. \A d \in out : d.packet.rank = packet.rank => d.ver = base.ver
    BY <2>1 DEF Sending
  <2>3. OneBasePerPacket'
    BY <2>1, <2>2 DEF OneBasePerPacket
  <2>4. ASSUME NEW m \in handled PROVE Reached(m.rank)' = Reached(m.rank)
    <3>1. m.rank # packet.rank
      BY <2>1 DEF Sending
    <3>2. QED
      BY <2>1, <3>1 DEF Reached
  <2>5. QED
    BY <2>1, <2>3, <2>4 DEF AllPathsUsed, Reached
<1>3. CASE SendUnlock
  <2> DEFINE n == [rank |-> packet.rank, inds |-> base.inds]
  <2>1. /\ out' = out /\ handled' = handled \union {n} /\ h_pc = "send"
        /\ left = {}
    BY <1>3 DEF SendUnlock
  <2>2. Reached(packet.rank) = base.inds
    BY <2>1 DEF Reached, Sending
  <2>3. QED
    BY <2>1, <2>2 DEF OneBasePerPacket, AllPathsUsed, Reached
<1>4. QED
  BY <1>1, <1>2, <1>3
     DEF Next, vars, StoreOpen, StoreWrite, PbRoutine, PbLoad, PbCopy, PbLoaded,
         PbSignal, HandlerStart, HandlerLock, HandlerTest, HandlerWait,
         HandlerRelease, CreatePacket, HandlePacket, SendLock, SendCopies, SendOn,
         SendError

-----------------------------------------------------------------------------
(* Together: the invariant is inductive. *)
LEMMA Invariance == Spec => []IInv
<1>1. IInv /\ [Next]_vars => IInv'
  BY NextTypeOK, NextLocking, NextSending, NextSafe DEF IInv
<1>2. QED
  BY InitIInv, <1>1, PTL DEF Spec

(* The daemon's state is well typed, its counter never 0 and the file a base or
   truncated, for any number of interfaces, packets and stores. *)
THEOREM TypeCorrect == Spec => []TypeOK
<1>1. IInv => TypeOK
  BY DEF IInv
<1>2. QED
  BY Invariance, <1>1, PTL

(* All copies of a packet are sent from one version of the peer base: pb_routine,
   which loads another whenever the file has changed, replaces it between two
   packets and never within handle_packet's loop. *)
THEOREM CopiesFromOneBase == Spec => []OneBasePerPacket
<1>1. IInv => OneBasePerPacket
  BY DEF IInv
<1>2. QED
  BY Invariance, <1>1, PTL

(* handle_packet, when its loop has ended without an error, has sent the packet on
   every IND of the base and on no other. *)
THEOREM EveryPathServed == Spec => []AllPathsUsed
<1>1. IInv => AllPathsUsed
  BY DEF IInv
<1>2. QED
  BY Invariance, <1>1, PTL

-----------------------------------------------------------------------------
(***************************************************************************)
(* The daemon implements Replication.                                      *)
(***************************************************************************)

(* The counter is at the number of the next packet. *)
Numbers ==
  /\ seq_nb = Rep!Number(packet.rank + 1)
  /\ packet.rank # 0 => packet.seq_nb = Rep!Number(packet.rank)

(* The file has the latest base, temp one that is not newer, pb one that is not
   newer than temp, and no copy was sent with a newer one than pb's. *)
Versions ==
  /\ file # Truncated => file.ver = stored
  /\ temp.ver <= stored /\ base.ver <= temp.ver
  /\ \A c \in out : c.ver <= base.ver

(* A header with the link was filled from a stored base, which pb has had since;
   one without it was filled before. *)
Headers ==
  /\ packet.header = "link" => base.ver # 0
  /\ \A c \in out : c.packet.header = "link" => base.ver # 0
  /\ (h_pc = "lock" /\ packet.header = "garbage") =>
       \A c \in out : c.packet.header = "garbage"

RInv == IInv /\ Numbers /\ Versions /\ Headers

(* The counter of create_iprp_packet, which skips 0 when it wraps, gives the packet
   after the r-th the number of the next rank. *)
LEMMA NextNumber ==
  ASSUME NEW r \in Nat
  PROVE  next_seq_nb(Rep!Number(r + 1)) = Rep!Number(r + 2)
<1>1. PICK m \in Nat \ {0} : m = UINT32_MAX
  BY IsdAssumption
<1>2. PICK s \in 0 .. m - 1 : s = r % m
  BY DivMod
<1>3. Rep!Number(r + 1) = s + 1
  <2>1. r + 1 - 1 = r
    OBVIOUS
  <2>2. QED
    BY <1>1, <1>2, <2>1 DEF Rep!Number
<1>4. Rep!Number(r + 2) = IF s + 1 = m THEN 1 ELSE s + 2
  <2>1. r + 2 - 1 = r + 1
    OBVIOUS
  <2>2. (r + 1) % m = IF s + 1 = m THEN 0 ELSE s + 1
    BY <1>2, NextRemainder
  <2>3. Rep!Number(r + 2) = ((r + 1) % m) + 1
    BY <1>1, <2>1 DEF Rep!Number
  <2>4. QED
    BY <2>2, <2>3
<1>5. QED
  BY <1>1, <1>3, <1>4 DEF next_seq_nb

(* The daemon starts with number 1 and without a base. *)
LEMMA InitRInv == Init => RInv
<1> SUFFICES ASSUME Init PROVE RInv
  OBVIOUS
<1>1. Numbers
  <2>1. (0 + 1 - 1) % UINT32_MAX = 0
    <3>1. UINT32_MAX \in Nat \ {0} /\ 0 = UINT32_MAX * 0 + 0
      BY IsdAssumption
    <3>2. QED
      BY <3>1, RemainderIs
  <2>2. seq_nb = 1 /\ packet.rank = 0
    BY DEF Init
  <2>3. QED
    BY <2>1, <2>2 DEF Numbers, Rep!Number
<1>2. Versions /\ Headers
  BY DEF Init, Versions, Headers, Garbage
<1>3. QED
  BY <1>1, <1>2, InitIInv DEF RInv

(* create_iprp_packet alone touches the number and the packet. *)
LEMMA NextNumbers == RInv /\ [Next]_vars => Numbers'
<1> SUFFICES ASSUME RInv, [Next]_vars PROVE Numbers'
  OBVIOUS
<1>1. CASE CreatePacket
  <2>1. PICK r \in Nat : r = packet.rank
    BY IsdAssumption DEF RInv, IInv, TypeOK, Packet
  <2>2. /\ packet'.rank = r + 1 /\ packet'.seq_nb = seq_nb
        /\ seq_nb' = next_seq_nb(seq_nb)
    BY <1>1, <2>1 DEF CreatePacket
  <2>3. seq_nb = Rep!Number(r + 1)
    BY <2>1 DEF RInv, Numbers
  <2>4. r + 1 + 1 = r + 2
    OBVIOUS
  <2>5. packet'.rank = r + 1 /\ packet'.seq_nb = Rep!Number(r + 1)
    BY <2>2, <2>3
  <2>6. seq_nb' = Rep!Number(r + 2)
    BY <2>2, <2>3, NextNumber
  <2>7. QED
    BY <2>4, <2>5, <2>6 DEF Numbers, Rep!Number
<1>2. CASE UNCHANGED <<packet, seq_nb>>
  BY <1>2 DEF RInv, Numbers, Rep!Number
<1>3. QED
  BY <1>1, <1>2
     DEF Next, vars, StoreOpen, StoreWrite, PbRoutine, PbLoad, PbCopy, PbLoaded,
         PbSignal, HandlerStart, HandlerLock, HandlerTest, HandlerWait,
         HandlerRelease, HandlePacket, SendLock, SendCopies, SendOn, SendError,
         SendUnlock

(* A base goes from the file to temp, to pb and into copies, and each of them only
   gets a newer one; a load from a truncated file leaves temp as it was. *)
LEMMA NextVersions == RInv /\ [Next]_vars => Versions'
<1> SUFFICES ASSUME RInv, [Next]_vars PROVE Versions'
  OBVIOUS
<1>1. /\ stored \in Int /\ temp.ver \in Int /\ base.ver \in Int
      /\ \A c \in out : c.ver \in Int
  BY IsdAssumption DEF RInv, IInv, TypeOK, Base, Garbage
<1> USE DEF RInv, Versions
<1>2. CASE StoreOpen
  BY <1>2 DEF StoreOpen
<1>3. CASE StoreWrite
  BY <1>1, <1>3 DEF StoreWrite
<1>4. CASE PbLoad
  BY <1>1, <1>4 DEF PbLoad
<1>5. CASE PbCopy
  BY <1>1, <1>5 DEF PbCopy
<1>6. ASSUME NEW i \in Ind, SendOn(i) PROVE Versions'
  BY <1>1, <1>6 DEF SendOn
<1>7. CASE UNCHANGED <<file, stored, temp, base, out>>
  BY <1>7
<1>8. QED
  BY <1>2, <1>3, <1>4, <1>5, <1>6, <1>7
     DEF Next, vars, PbRoutine, PbLoaded, PbSignal, HandlerStart, HandlerLock,
         HandlerTest, HandlerWait, HandlerRelease, CreatePacket, HandlePacket,
         SendLock, SendCopies, SendError, SendUnlock

(* The base in pb, once stored, is only replaced by stored ones, and so all headers
   filled later have the link. *)
LEMMA NextHeaders == RInv /\ [Next]_vars => Headers'
<1> SUFFICES ASSUME RInv, [Next]_vars PROVE Headers'
  OBVIOUS
<1>1. /\ temp.ver \in Nat /\ base.ver \in Nat /\ base.ver <= temp.ver
      /\ packet.header \in {"link", "garbage"}
      /\ \A c \in out : c.packet.header \in {"link", "garbage"}
  BY IsdAssumption DEF RInv, IInv, TypeOK, Base, Garbage, Packet, Versions
<1> USE DEF RInv, Headers
<1>2. CASE PbCopy
  BY <1>1, <1>2 DEF PbCopy
<1>3. CASE PbSignal \/ HandlerStart
  <2>1. h_pc' = "lock" => h_pc = "lock"
    BY <1>3 DEF PbSignal, HandlerStart, HandlerLock, HandlerTest, HandlerWait,
                HandlerRelease
  <2>2. UNCHANGED <<base, packet, out>>
    BY <1>3 DEF PbSignal, HandlerStart, HandlerLock, HandlerTest, HandlerWait,
                HandlerRelease
  <2>3. QED
    BY <2>1, <2>2
<1>4. CASE CreatePacket
  <2>1. /\ packet'.header = IF base.ver = 0 THEN "garbage" ELSE "link"
        /\ UNCHANGED <<base, out>>
    BY <1>4 DEF CreatePacket
  <2>2. QED
    BY <1>1, <2>1
<1>5. CASE SendLock \/ SendUnlock
  BY <1>5 DEF SendLock, SendUnlock
<1>6. ASSUME NEW i \in Ind, SendOn(i) PROVE Headers'
  BY <1>6 DEF SendOn
<1>7. CASE UNCHANGED <<base, packet, out, h_pc>>
  BY <1>7
<1>8. QED
  BY <1>2, <1>3, <1>4, <1>5, <1>6, <1>7
     DEF Next, vars, StoreOpen, StoreWrite, PbRoutine, PbLoad, PbLoaded,
         HandlePacket, SendCopies, SendError

(* The invariant of the refinement holds in every behaviour. *)
LEMMA RInvariance == Spec => []RInv
<1>1. IInv /\ [Next]_vars => IInv'
  BY NextTypeOK, NextLocking, NextSending, NextSafe DEF IInv
<1>2. RInv /\ [Next]_vars => RInv'
  BY <1>1, NextNumbers, NextVersions, NextHeaders DEF RInv
<1>3. QED
  BY <1>2, InitRInv, PTL DEF Spec

(* What Replication sees of the state. *)
AbsRank == IF h_pc = "lock" THEN packet.rank - 1 ELSE packet.rank
AbsHeader == IF InLoop THEN packet.header ELSE "none"
AbsBase == IF InLoop THEN base ELSE [ver |-> -1, inds |-> {}]
AbsTodo == IF InLoop THEN left \intersect base.inds ELSE {}
AbsVars == <<AbsRank, AbsHeader, AbsBase, AbsTodo, out, handled, stopped>>

(* A base is never the mark of an idle daemon. *)
LEMMA BaseNotIdle == TypeOK => base # [ver |-> -1, inds |-> {}]
<1> SUFFICES ASSUME TypeOK, base = [ver |-> -1, inds |-> {}] PROVE FALSE
  OBVIOUS
<1>1. base.ver \in Nat
  BY IsdAssumption DEF TypeOK, Base, Garbage
<1>2. QED
  BY <1>1

(* SendLock begins the replication of the packet with the base in pb. *)
LEMMA LockBegins == RInv /\ SendLock => Rep!Next
<1> SUFFICES ASSUME RInv, SendLock PROVE Rep!Next
  OBVIOUS
<1>1. /\ ~stopped /\ h_pc = "lock" /\ left' = Ind /\ h_pc' = "send"
      /\ UNCHANGED <<base, packet, out, handled, stopped>>
  BY DEF SendLock
<1>2. packet.rank \in 1 .. MaxPackets /\ MaxPackets \in Nat
  BY <1>1, IsdAssumption DEF RInv, IInv, Sending
<1>3. /\ base.ver \in 0 .. MaxVersion /\ base.inds \in SUBSET Ind
      /\ base = [ver |-> base.ver, inds |-> base.inds]
  BY IsdAssumption DEF RInv, IInv, TypeOK, Base, Garbage
<1>4. AbsRank = packet.rank - 1 /\ AbsRank' = packet.rank
  BY <1>1 DEF AbsRank
<1>5. AbsBase = [ver |-> -1, inds |-> {}] /\ AbsBase' = base
  BY <1>1 DEF AbsBase, InLoop
<1>6. AbsTodo' = base.inds
  <2>1. Ind \intersect base.inds = base.inds
    BY <1>3
  <2>2. QED
    BY <1>1, <2>1 DEF AbsTodo, InLoop
<1>7. \A c \in out : c.ver <= base.ver
  BY DEF RInv, Versions
<1>8. AbsRank < MaxPackets /\ AbsRank' = AbsRank + 1
  BY <1>2, <1>4
<1>9. /\ packet.header = "link" => base.ver # 0
      /\ packet.header = "garbage" => \A c \in out : c.packet.header = "garbage"
  BY <1>1 DEF RInv, Headers
<1>10. AbsHeader' = packet.header
  BY <1>1 DEF AbsHeader, InLoop
<1>11. Rep!Begin(packet.header, base.ver, base.inds)
  BY <1>1, <1>3, <1>5, <1>6, <1>7, <1>8, <1>9, <1>10
     DEF Rep!Begin, Rep!Idle, AbsRank, AbsHeader, AbsBase, AbsTodo
<1>12. packet.header \in {"link", "garbage"}
  BY DEF RInv, IInv, TypeOK, Packet
<1>13. QED
  BY <1>3, <1>11, <1>12 DEF Rep!Next

(* A send on an interface is a copy, or nothing for an IND the base does not
   have. *)
LEMMA SendIsCopy ==
  ASSUME RInv, NEW i \in Ind, SendOn(i)
  PROVE  Rep!Next \/ UNCHANGED AbsVars
<1>1. /\ ~stopped /\ h_pc = "send" /\ i \in left /\ left' = left \ {i}
      /\ UNCHANGED <<base, packet, h_pc, handled, stopped>>
  BY DEF SendOn
<1>2. /\ AbsRank = packet.rank /\ AbsRank' = AbsRank
      /\ AbsHeader = packet.header /\ AbsHeader' = AbsHeader
      /\ AbsBase = base /\ AbsBase' = AbsBase
      /\ AbsTodo = left \intersect base.inds
      /\ AbsTodo' = (left \ {i}) \intersect base.inds
  BY <1>1 DEF AbsRank, AbsHeader, AbsBase, AbsTodo, InLoop
<1>3. CASE i \in base.inds
  <2>1. packet = [rank |-> packet.rank, seq_nb |-> Rep!Number(packet.rank),
                  header |-> packet.header]
    <3>1. packet \in Packet /\ packet.rank \in 1 .. MaxPackets
      BY <1>1 DEF RInv, IInv, TypeOK, Sending
    <3>2. packet.seq_nb = Rep!Number(packet.rank)
      BY <3>1, IsdAssumption DEF RInv, Numbers
    <3>3. QED
      BY <3>1, <3>2 DEF Packet
  <2>2. out' = out \union {[packet |-> packet, ind |-> i, ver |-> base.ver]}
    BY <1>3 DEF SendOn
  <2>3. i \in AbsTodo /\ AbsTodo' = AbsTodo \ {i}
    BY <1>1, <1>2, <1>3
  <2>4. Rep!Copy(i)
    BY <1>1, <1>2, <2>1, <2>2, <2>3 
       DEF Rep!Copy, AbsRank, AbsHeader, AbsBase, AbsTodo, Rep!Number
  <2>5. QED
    BY <2>4 DEF Rep!Next
<1>4. CASE i \notin base.inds
  <2>1. out' = out /\ AbsTodo' = AbsTodo
    BY <1>2, <1>4 DEF SendOn
  <2>2. QED
    BY <1>1, <1>2, <2>1 DEF AbsVars
<1>5. QED
  BY <1>3, <1>4

(* An error leaves the INDs of the base that were not reached without a copy. *)
LEMMA ErrorFails ==
  ASSUME NEW i \in Ind, SendError(i) PROVE Rep!Next
<1>1. /\ ~stopped /\ h_pc = "send" /\ i \in left /\ i \in base.inds /\ stopped' = TRUE
      /\ UNCHANGED <<packet, h_pc, out, handled>>
  BY DEF SendError
<1>2. /\ AbsRank' = AbsRank /\ AbsBase' = [ver |-> -1, inds |-> {}]
      /\ AbsTodo' = {} /\ AbsHeader' = "none"
  BY <1>1 DEF AbsRank, AbsHeader, AbsBase, AbsTodo, InLoop
<1>3. i \in AbsTodo
  BY <1>1 DEF AbsTodo, InLoop
<1>4. Rep!Fail
  BY <1>1, <1>2, <1>3 DEF Rep!Fail, Rep!Idle, AbsRank, AbsHeader, AbsBase, AbsTodo
<1>5. QED
  BY <1>4 DEF Rep!Next

(* The loop ends when every IND of the base has its copy. *)
LEMMA UnlockEnds == RInv /\ SendUnlock => Rep!Next
<1> SUFFICES ASSUME RInv, SendUnlock PROVE Rep!Next
  OBVIOUS
<1>1. /\ ~stopped /\ h_pc = "send" /\ left = {} /\ h_pc' = "idle"
      /\ handled' = handled \union {[rank |-> packet.rank, inds |-> base.inds]}
      /\ UNCHANGED <<packet, out, stopped>>
  BY DEF SendUnlock
<1>2. AbsRank = packet.rank /\ AbsRank' = AbsRank /\ AbsHeader' = "none"
  BY <1>1 DEF AbsRank, AbsHeader, InLoop
<1>3. AbsBase = base /\ AbsBase' = [ver |-> -1, inds |-> {}] /\ AbsBase # AbsBase'
  BY <1>1, BaseNotIdle DEF AbsBase, InLoop, RInv, IInv
<1>4. AbsTodo = {} /\ AbsTodo' = {}
  BY <1>1 DEF AbsTodo, InLoop
<1>5. Rep!End
  BY <1>1, <1>2, <1>3, <1>4 DEF Rep!End, Rep!Idle, AbsRank, AbsHeader, AbsBase, AbsTodo
<1>6. QED
  BY <1>5 DEF Rep!Next

(* The file, the cache, the start of the handler and the numbering of a packet are
   not visible. *)
LEMMA HiddenSteps ==
  ASSUME RInv,
         \/ StoreOpen \/ StoreWrite \/ PbRoutine \/ HandlerStart \/ CreatePacket
         \/ UNCHANGED vars
  PROVE  UNCHANGED AbsVars
<1>1. UNCHANGED <<out, handled, stopped>>
  BY DEF StoreOpen, StoreWrite, PbRoutine, PbLoad, PbCopy, PbLoaded, PbSignal,
         HandlerStart, HandlerLock, HandlerTest, HandlerWait, HandlerRelease,
         CreatePacket, vars
<1>2. CASE UNCHANGED <<h_pc, packet, base, left>>
  BY <1>1, <1>2 DEF AbsVars, AbsRank, AbsHeader, AbsBase, AbsTodo, InLoop
<1>3. CASE PbCopy
  <2>1. ~InLoop /\ ~InLoop' /\ UNCHANGED <<h_pc, packet>>
    BY <1>3 DEF PbCopy, RInv, IInv, Locking, InLoop
  <2>2. QED
    BY <1>1, <2>1 DEF AbsVars, AbsRank, AbsHeader, AbsBase, AbsTodo
<1>4. CASE PbSignal \/ HandlerStart
  <2>1. UNCHANGED h_pc \/ (~InLoop' /\ h_pc' # "lock")
    BY <1>4 DEF PbSignal, HandlerStart, HandlerLock, HandlerTest, HandlerWait,
                HandlerRelease, InLoop
  <2>2. UNCHANGED h_pc \/ (~InLoop /\ h_pc # "lock")
    BY <1>4 DEF PbSignal, HandlerStart, HandlerLock, HandlerTest, HandlerWait,
                HandlerRelease, InLoop
  <2>3. UNCHANGED <<packet, base, left>>
    BY <1>4 DEF PbSignal, HandlerStart, HandlerLock, HandlerTest, HandlerWait,
                HandlerRelease
  <2>4. QED
    BY <1>1, <2>1, <2>2, <2>3 DEF AbsVars, AbsRank, AbsHeader, AbsBase, AbsTodo, InLoop
<1>5. CASE CreatePacket
  <2>1. /\ h_pc = "idle" /\ h_pc' = "lock" /\ packet'.rank = packet.rank + 1
        /\ packet.rank \in Int
    BY <1>5, IsdAssumption DEF CreatePacket, RInv, IInv, TypeOK, Packet
  <2>2. QED
    BY <1>1, <2>1 DEF AbsVars, AbsRank, AbsHeader, AbsBase, AbsTodo, InLoop
<1>6. QED
  BY <1>2, <1>3, <1>4, <1>5
     DEF StoreOpen, StoreWrite, PbRoutine, PbLoad, PbLoaded, vars

(* The daemon implements Replication: whatever the file holds and whenever the
   cache is replaced, handle_packet replicates one packet after the other, under
   numbers that follow from their ranks, on all INDs of one base, and never with an
   older base than before; only an error leaves an IND out, and nothing is sent
   after it. *)
THEOREM ImplementsReplication == Spec => RepSpec
<1>1. Init => Rep!Init
  BY DEF Init, Rep!Init, Rep!Idle, InLoop
<1>2. RInv /\ [Next]_vars => Rep!Next \/ UNCHANGED AbsVars
  BY LockBegins, SendIsCopy, ErrorFails, UnlockEnds, HiddenSteps
     DEF Next, HandlePacket, SendCopies
<1>3. RInv /\ [Next]_vars => [Rep!Next]_AbsVars
  BY <1>2
<1>4. QED
  BY <1>1, <1>3, RInvariance, PTL
     DEF Spec, RepSpec, Rep!Spec, AbsVars, AbsRank, AbsHeader, AbsBase, AbsTodo
============================================================================
