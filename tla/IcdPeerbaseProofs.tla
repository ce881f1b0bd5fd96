------------------------- MODULE IcdPeerbaseProofs -------------------------
(***************************************************************************)
(* Proofs about the sender side of the control daemon.  That a link has    *)
(* one base in the list does not say that it has one ISD: pb_routine works *)
(* on a base after it has released the mutex, and an ISD outlives its      *)
(* base.  The invariant is therefore about all the bases that have an ISD  *)
(* or may still get one (Known): they have different links, and as long as *)
(* the mutex is free, so that handle_cap can create a base, the list that  *)
(* handle_cap searches contains all of them.                               *)
(***************************************************************************)
EXTENDS IcdPeerbase, TLAPS

(* The bases with an ISD, in the list, or in the hands of pb_routine. *)
Known ==
  {b \in Id : base[b].isd} \union peerbases
    \union {b \in {cur} : pb_pc \in {"store", "write", "launch"}}

BasesOK ==
  /\ \A b \in Known : b < reboot_counter /\ base[b].key \in Key
  /\ \A a, b \in Known : base[a].key = base[b].key => a = b
  /\ mutex = "none" => Known \subseteq peerbases
  /\ pb_pc = "init" => todo = {} /\ mutex = "none" /\ \A b \in Id : ~base[b].isd

(* pb_routine starts one ISD for a base, and remembers it; an ISD has ended only
   because another base, the IRD or the IMD had its queue number. *)
DaemonsOK ==
  /\ \A b \in Id : base[b].isd <=> \E d \in isds : d.id = b
  /\ \A d, e \in isds : d.id = e.id => d = e
  /\ \A d \in isds : d.state = "ended" =>
       \/ d.queue_id \in OtherQueues
       \/ \E e \in isds : e.id # d.id /\ e.queue_id = d.queue_id

(* The rule isd_startup appends for the ISD d. *)
RuleOf(d) == [key |-> base[d.id].key, queue_id |-> d.queue_id]

(* The rules are those of the ISDs that have begun, one for each. *)
RulesOK ==
  /\ \A i, j \in DOMAIN rules : rules[i].key = rules[j].key => i = j
  /\ \A i \in DOMAIN rules :
       \E d \in isds : d.state # "forked" /\ rules[i] = RuleOf(d)
  /\ \A d \in isds : d.state # "forked" =>
       \E i \in DOMAIN rules : rules[i] = RuleOf(d)

IInv == TypeOK /\ BasesOK /\ DaemonsOK /\ RulesOK

(* The file of a base is written before its ISD starts, and by no other base. *)
FilesOK ==
  /\ \A d \in isds : d.file = snsid_str(d.id)
  /\ IsdHasOwnFile
  /\ pb_pc = "write" => peerbase.id = cur
  /\ pb_pc = "launch" => files[snsid_str(cur)].id = cur
-----------------------------------------------------------------------------
(* The daemon starts in a state of the invariant. *)
LEMMA InitIInv == Init => IInv /\ FilesOK
<1> SUFFICES ASSUME Init PROVE IInv /\ FilesOK
  OBVIOUS
<1> USE IcdAssumption DEF Init
<1>1. base \in [Id -> IcdBase]
  BY DEF IcdBase
<1>2. files \in [File -> Stored \union {NoStored}]
  OBVIOUS
<1>3. TypeOK
  <2>1. peerbase \in Stored \union {NoStored}
    OBVIOUS
  <2>2. /\ now \in 0 .. MaxTime /\ reboot_counter \in 0 .. MaxBases /\ cur \in Id
        /\ peerbases \subseteq Id /\ \A b \in peerbases : b < reboot_counter
        /\ todo \subseteq peerbases
    BY DEF Id
  <2>3. /\ mutex \in {"none", "pb"} /\ control \in {"listening", "ended"}
        /\ pb_pc \in {"init", "sleep", "walk", "store", "write", "launch"}
        /\ isds \subseteq [id : Id, queue_id : Nat, file : File,
                           state : {"forked", "running", "ended"}]
        /\ rules \in Seq([key : Key, queue_id : Nat])
    OBVIOUS
  <2>4. QED
    BY <1>1, <1>2, <2>1, <2>2, <2>3, Zenon DEF TypeOK
<1>4. BasesOK
  BY <1>1 DEF BasesOK, Known
<1>5. DaemonsOK /\ RulesOK /\ FilesOK
  BY DEF DaemonsOK, RulesOK, FilesOK, IsdHasOwnFile
<1>6. QED
  BY <1>3, <1>4, <1>5 DEF IInv

(* A new base has a number that is in range and a queue number. *)
LEMMA CreateBaseType ==
  ASSUME TypeOK, NEW k \in Key, NEW I \in CapInds
  PROVE  create_base(k, I) \in IcdBase
<1>1. now % NbQueues \in Nat
  BY IcdAssumption DEF TypeOK
<1>2. QED
  BY <1>1, IcdAssumption
     DEF create_base, IcdBase, ind_match, get_queue_number, rand, TypeOK

(* Every step of the two threads and of the ISDs keeps the types. *)
LEMMA NextTypeOK == IInv /\ [Next]_vars => TypeOK'
<1> SUFFICES ASSUME IInv, [Next]_vars PROVE TypeOK'
  OBVIOUS
<1> USE IcdAssumption DEF IInv, sending
<1>1. ASSUME NEW k \in Key, NEW I \in CapInds, CapKnown(k, I) PROVE TypeOK'
  <2>1. PICK b \in peerbases :
          base' = [base EXCEPT ![b].inds = @ \union ind_match(I),
                               ![b].last_cap = now]
    BY <1>1 DEF CapKnown, peerbase_query
  <2>2. b \in Id /\ base[b] \in IcdBase /\ now \in Nat
    BY DEF TypeOK
  <2>3. [base[b] EXCEPT !.inds = @ \union ind_match(I), !.last_cap = now]
          \in IcdBase
    BY <2>2 DEF IcdBase, ind_match
  <2>4. base' \in [Id -> IcdBase]
    BY <2>1, <2>2, <2>3 DEF TypeOK
  <2>5. QED
    BY <1>1, <2>4 DEF CapKnown, TypeOK
<1>2. ASSUME NEW k \in Key, NEW I \in CapInds, CapCreate(k, I) PROVE TypeOK'
  <2>1. base' \in [Id -> IcdBase]
    BY <1>2, CreateBaseType DEF CapCreate, TypeOK
  <2>2. reboot_counter \in Id /\ reboot_counter' \in 0 .. MaxBases
    BY <1>2 DEF CapCreate, TypeOK, Id
  <2>3. \A b \in peerbases' : b < reboot_counter'
    BY <1>2, <2>2 DEF CapCreate, TypeOK, Id
  <2>4. QED
    BY <1>2, <2>1, <2>2, <2>3 DEF CapCreate, TypeOK
<1>3. CASE BadMessage
  BY <1>3 DEF BadMessage, TypeOK
<1>4. CASE PbInit
  BY <1>4 DEF PbInit, TypeOK, BasesOK
<1>5. CASE PbStart \/ PbEnd
  BY <1>5 DEF PbStart, PbEnd, TypeOK
<1>6. ASSUME NEW b \in Id, PbAged(b) PROVE TypeOK'
  BY <1>6 DEF PbAged, TypeOK
<1>7. ASSUME NEW b \in Id, PbFresh(b) PROVE TypeOK'
  BY <1>7 DEF PbFresh, TypeOK
<1>8. CASE PbStore
  <2>1. create_peerbase(cur) \in Stored
    BY DEF create_peerbase, Stored, TypeOK, IcdBase
  <2>2. files' \in [File -> Stored \union {NoStored}]
    BY <1>8 DEF PbStore, TypeOK
  <2>3. peerbase' \in Stored \union {NoStored}
    BY <1>8, <2>1 DEF PbStore
  <2>4. QED
    BY <1>8, <2>2, <2>3 DEF PbStore, TypeOK
<1>9. CASE PbLaunch
  <2>1. base' \in [Id -> IcdBase]
    <3>1. cur \in Id /\ base[cur] \in IcdBase
      BY DEF TypeOK
    <3>2. [base[cur] EXCEPT !.isd = TRUE] \in IcdBase
      BY <3>1 DEF IcdBase
    <3>3. QED
      BY <1>9, <3>1, <3>2 DEF PbLaunch, TypeOK
  <2>2. snsid_str(cur) \in File /\ base[cur].queue_id \in Nat
    BY DEF TypeOK, File, IcdBase
  <2>3. isds' \subseteq [id : Id, queue_id : Nat, file : File,
                         state : {"forked", "running", "ended"}]
    BY <1>9, <2>2 DEF PbLaunch, TypeOK
  <2>4. QED
    BY <1>9, <2>1, <2>3 DEF PbLaunch, TypeOK
<1>10. ASSUME NEW d \in isds, IsdStart(d) PROVE TypeOK'
  <2>1. base[d.id].key \in Key
    BY DEF BasesOK, DaemonsOK, Known, TypeOK
  <2>2. [key |-> base[d.id].key, queue_id |-> d.queue_id]
          \in [key : Key, queue_id : Nat]
    BY <2>1 DEF TypeOK
  <2>3. rules' \in Seq([key : Key, queue_id : Nat])
    BY <1>10, <2>2 DEF IsdStart, TypeOK
  <2>4. QED
    BY <1>10, <2>3 DEF IsdStart, TypeOK
<1>11. CASE Tick
  BY <1>11 DEF Tick, TypeOK
<1>12. CASE UNCHANGED vars
  BY <1>12 DEF vars, TypeOK
<1>13. CASE PbWrite
  <2>1. files' \in [File -> Stored \union {NoStored}]
    BY <1>13 DEF PbWrite, TypeOK
  <2>2. QED
    BY <1>13, <2>1 DEF PbWrite, TypeOK
<1>14. QED
  BY <1>1, <1>2, <1>3, <1>4, <1>5, <1>6, <1>7, <1>8, <1>9, <1>10, <1>11, <1>12,
     <1>13
     DEF Next, Cap, PbRoutine, PbVisit

(* Every step keeps the known bases apart: only handle_cap creates one, while it
   has the mutex, for a link that no base of the list has. *)
LEMMA NextBasesOK == IInv /\ [Next]_vars => BasesOK'
<1> SUFFICES ASSUME IInv, [Next]_vars PROVE BasesOK'
  OBVIOUS
<1> USE IcdAssumption DEF IInv, sending
<1>1. ASSUME NEW k \in Key, NEW I \in CapInds, CapKnown(k, I) PROVE BasesOK'
  <2>1. PICK b \in peerbases :
          base' = [base EXCEPT ![b].inds = @ \union ind_match(I),
                               ![b].last_cap = now]
    BY <1>1 DEF CapKnown, peerbase_query
  <2>2. \A c \in Id : base'[c].key = base[c].key /\ base'[c].isd = base[c].isd
    BY <2>1 DEF TypeOK, IcdBase
  <2>3. Known' = Known /\ Known \subseteq Id
    BY <1>1, <2>2 DEF CapKnown, Known, TypeOK
  <2>4. pb_pc' = "init" =>
          todo' = {} /\ mutex' = "none" /\ \A c \in Id : ~base'[c].isd
    BY <1>1, <2>2, Zenon DEF CapKnown, BasesOK
  <2>5. \A c \in Known' : c < reboot_counter' /\ base'[c].key \in Key
    BY <1>1, <2>2, <2>3, Zenon DEF CapKnown, BasesOK
  <2>6. \A a, c \in Known' : base'[a].key = base'[c].key => a = c
    <3>1. \A c \in Known' : base'[c].key = base[c].key /\ c \in Known
      BY <2>2, <2>3, Zenon
    <3>2. QED
      BY <3>1, Zenon DEF BasesOK
  <2>7. mutex' = "none" => Known' \subseteq peerbases'
    BY <1>1, <2>3 DEF CapKnown, BasesOK
  <2>8. QED
    BY <2>4, <2>5, <2>6, <2>7, Zenon DEF BasesOK
<1>2. ASSUME NEW k \in Key, NEW I \in CapInds, CapCreate(k, I) PROVE BasesOK'
  <2> DEFINE n == reboot_counter
  <2>1. n \in Id /\ n' = n + 1 /\ n \in Nat
    BY <1>2 DEF CapCreate, TypeOK, Id
  <2>2. base'[n].key = k /\ base'[n].isd = FALSE
    BY <1>2, <2>1 DEF CapCreate, TypeOK, create_base
  <2>3. \A c \in Id : c # n => base'[c] = base[c]
    BY <1>2 DEF CapCreate, TypeOK
  <2>4. Known = peerbases /\ peerbases \subseteq Id
    BY <1>2 DEF CapCreate, BasesOK, Known, TypeOK
  <2>5. peerbases' = peerbases \union {n}
    BY <1>2 DEF CapCreate
  <2>6. Known' = peerbases \union {n}
    BY <1>2, <2>2, <2>3, <2>4, <2>5 DEF CapCreate, Known
  <2>7. \A c \in Known : c \in Id /\ c # n /\ c < n /\ base[c].key # k
    BY <1>2, <2>1, <2>4 DEF CapCreate, BasesOK, peerbase_query, Id
  <2>8. \A c \in Known' : c < n' /\ base'[c].key \in Key
    BY <2>1, <2>2, <2>3, <2>4, <2>6, <2>7 DEF BasesOK, Id
  <2>9. \A b, c \in Known' : base'[b].key = base'[c].key => b = c
    BY <2>2, <2>3, <2>4, <2>6, <2>7 DEF BasesOK
  <2>10. pb_pc' = "init" =>
           todo' = {} /\ mutex' = "none" /\ \A c \in Id : ~base'[c].isd
    BY <1>2, <2>2, <2>3 DEF CapCreate, BasesOK
  <2>11. QED
    BY <2>5, <2>6, <2>8, <2>9, <2>10 DEF BasesOK
<1>3. CASE BadMessage
  BY <1>3 DEF BadMessage, BasesOK, Known
<1>4. CASE PbInit
  BY <1>4 DEF PbInit, BasesOK, Known
<1>5. CASE PbStart \/ PbEnd
  BY <1>5 DEF PbStart, PbEnd, BasesOK, Known
<1>6. ASSUME NEW b \in Id, PbAged(b) PROVE BasesOK'
  BY <1>6 DEF PbAged, BasesOK, Known
<1>7. ASSUME NEW b \in Id, PbFresh(b) PROVE BasesOK'
  BY <1>7 DEF PbFresh, BasesOK, Known, TypeOK
<1>8. CASE PbStore \/ PbWrite
  BY <1>8 DEF PbStore, PbWrite, BasesOK, Known
<1>9. CASE PbLaunch
  <2>1. cur \in Id /\ \A c \in Id : base'[c].key = base[c].key
    BY <1>9 DEF PbLaunch, TypeOK, IcdBase
  <2>2. base'[cur].isd = TRUE
    BY <1>9 DEF PbLaunch, TypeOK, IcdBase
  <2>3. \A c \in Id : c # cur => base'[c] = base[c]
    BY <1>9 DEF PbLaunch, TypeOK
  <2>4. Known' = Known /\ Known \subseteq Id
    BY <1>9, <2>1, <2>2, <2>3 DEF PbLaunch, Known, TypeOK
  <2>5. QED
    BY <1>9, <2>1, <2>4 DEF PbLaunch, BasesOK
<1>10. ASSUME NEW d \in isds, IsdStart(d) PROVE BasesOK'
  BY <1>10 DEF IsdStart, BasesOK, Known
<1>11. CASE Tick
  BY <1>11 DEF Tick, BasesOK, Known
<1>12. CASE UNCHANGED vars
  BY <1>12 DEF vars, BasesOK, Known
<1>13. QED
  BY <1>1, <1>2, <1>3, <1>4, <1>5, <1>6, <1>7, <1>8, <1>9, <1>10, <1>11, <1>12
     DEF Next, Cap, PbRoutine, PbVisit

(* A step that starts no ISD leaves the record of them alone. *)
LEMMA SameDaemons ==
  ASSUME IInv, isds' = isds, rules' = rules,
         \A b \in Id : base'[b].isd = base[b].isd,
         \A d \in isds : base'[d.id].key = base[d.id].key
  PROVE  DaemonsOK' /\ RulesOK'
<1>1. DaemonsOK'
  BY Zenon DEF IInv, DaemonsOK
<1>2. \A d \in isds : RuleOf(d)' = RuleOf(d)
  BY DEF RuleOf
<1>3. RulesOK'
  BY <1>2 DEF IInv, RulesOK
<1>4. QED
  BY <1>1, <1>3

(* Every step keeps one ISD per base and one rule per ISD. *)
LEMMA NextDaemonsOK == IInv /\ [Next]_vars => DaemonsOK' /\ RulesOK'
<1> SUFFICES ASSUME IInv, [Next]_vars PROVE DaemonsOK' /\ RulesOK'
  OBVIOUS
<1> USE DEF IInv, sending
<1>0. CASE UNCHANGED <<base, isds, rules>>
  BY <1>0, SameDaemons
<1>1. ASSUME NEW k \in Key, NEW I \in CapInds, CapKnown(k, I)
      PROVE  DaemonsOK' /\ RulesOK'
  <2>1. PICK b \in peerbases :
          base' = [base EXCEPT ![b].inds = @ \union ind_match(I),
                               ![b].last_cap = now]
    BY <1>1 DEF CapKnown, peerbase_query
  <2>2. \A c \in Id : base'[c].key = base[c].key /\ base'[c].isd = base[c].isd
    BY <2>1 DEF TypeOK, IcdBase
  <2>3. \A d \in isds : d.id \in Id
    BY DEF TypeOK
  <2>4. QED
    BY <1>1, <2>2, <2>3, SameDaemons DEF CapKnown
<1>2. ASSUME NEW k \in Key, NEW I \in CapInds, CapCreate(k, I)
      PROVE  DaemonsOK' /\ RulesOK'
  <2> DEFINE n == reboot_counter
  <2>1. n \in Id /\ base'[n].isd = FALSE
    BY <1>2, IcdAssumption DEF CapCreate, TypeOK, Id, create_base
  <2>2. \A c \in Id : c # n => base'[c] = base[c]
    BY <1>2 DEF CapCreate, TypeOK
  <2>3. \A c \in Id : base[c].isd => c # n
    BY <2>1 DEF BasesOK, Known, Id
  <2>4. \A c \in Id : base'[c].isd = base[c].isd
    <3>1. base[n].isd \in BOOLEAN
      BY <2>1, Zenon DEF TypeOK, IcdBase
    <3>2. base[n].isd = FALSE
      BY <2>1, <2>3, <3>1, Zenon
    <3>3. QED
      BY <2>1, <2>2, <3>2, Zenon
  <2>5. \A d \in isds : base'[d.id].key = base[d.id].key
    BY <2>2, <2>3 DEF DaemonsOK, TypeOK
  <2>6. QED
    BY <1>2, <2>4, <2>5, SameDaemons DEF CapCreate
<1>3. CASE PbLaunch /\ base[cur].isd
  <2>1. cur \in Id /\ base[cur].isd \in BOOLEAN
    BY DEF TypeOK, IcdBase
  <2>2. \A c \in Id : base'[c].key = base[c].key /\ base'[c].isd = base[c].isd
    BY <1>3, <2>1 DEF PbLaunch, TypeOK, IcdBase
  <2>3. \A d \in isds : d.id \in Id
    BY DEF TypeOK
  <2>4. QED
    BY <1>3, <2>2, <2>3, SameDaemons DEF PbLaunch
<1>4. CASE PbLaunch /\ ~base[cur].isd
  <2> DEFINE d == [id |-> cur, queue_id |-> base[cur].queue_id,
                   file |-> snsid_str(cur), state |-> "forked"]
  <2>1. isds' = isds \union {d} /\ rules' = rules /\ cur \in Id
    BY <1>4 DEF PbLaunch, TypeOK
  <2>2. \A c \in Id : base'[c].key = base[c].key
    BY <1>4 DEF PbLaunch, TypeOK, IcdBase
  <2>3. \A c \in Id : c # cur => base'[c] = base[c]
    BY <1>4 DEF PbLaunch, TypeOK
  <2>4. base'[cur].isd = TRUE
    BY <1>4 DEF PbLaunch, TypeOK, IcdBase
  <2>5. \A e \in isds : e.id # cur /\ e.id \in Id
    BY <1>4, <2>1 DEF DaemonsOK, TypeOK
  <2>6. d.id = cur /\ d.state = "forked"
    OBVIOUS
  <2> HIDE DEF d
  <2>7. \A b \in Id : base'[b].isd <=> \E e \in isds' : e.id = b
    <3>1. base'[cur].isd <=> \E e \in isds' : e.id = cur
      BY <2>1, <2>4, <2>6, Zenon
    <3>2. ASSUME NEW b \in Id, b # cur
          PROVE  base'[b].isd <=> \E e \in isds' : e.id = b
      BY <2>1, <2>3, <2>6, <3>2, Zenon DEF DaemonsOK
    <3>3. QED
      BY <3>1, <3>2, Zenon
  <2>8. DaemonsOK'
    BY <2>1, <2>5, <2>6, <2>7 DEF DaemonsOK
  <2>9. \A e \in isds : RuleOf(e)' = RuleOf(e)
    BY <2>2, <2>5 DEF RuleOf
  <2>10. RulesOK'
    BY <2>1, <2>6, <2>9 DEF RulesOK
  <2>11. QED
    BY <2>8, <2>10
<1>5. ASSUME NEW d \in isds, IsdStart(d) PROVE DaemonsOK' /\ RulesOK'
  <2>1. PICK s \in {"running", "ended"} :
          /\ isds' = (isds \ {d}) \union {[d EXCEPT !.state = s]}
          /\ s = "ended" =>
               \/ d.queue_id \in OtherQueues
               \/ \E e \in isds : e.state = "running" /\ e.queue_id = d.queue_id
    BY <1>5 DEF IsdStart
  <2> DEFINE n == [d EXCEPT !.state = s]
  <2>2. /\ n.id = d.id /\ n.queue_id = d.queue_id /\ n.state = s
        /\ s # "forked" /\ d.state = "forked"
    BY <1>5 DEF IsdStart, TypeOK
  <2>3. isds' = (isds \ {d}) \union {n} /\ base' = base
    BY <1>5, <2>1 DEF IsdStart
  <2> HIDE DEF n
  <2>4. \A b \in Id : (\E e \in isds' : e.id = b) <=> \E e \in isds : e.id = b
    BY <2>2, <2>3
  <2>5. \A b \in Id : base'[b].isd <=> \E e \in isds' : e.id = b
    BY <2>3, <2>4, Zenon DEF DaemonsOK
  <2>6. \A e, f \in isds' : e.id = f.id => e = f
    BY <2>2, <2>3 DEF DaemonsOK
  <2>7. \A e \in isds' : e.state = "ended" =>
          \/ e.queue_id \in OtherQueues
          \/ \E f \in isds' : f.id # e.id /\ f.queue_id = e.queue_id
    <3>1. ASSUME NEW e \in isds, e.state = "ended", e # d
          PROVE  \/ e.queue_id \in OtherQueues
                 \/ \E f \in isds' : f.id # e.id /\ f.queue_id = e.queue_id
      BY <2>2, <2>3, <3>1 DEF DaemonsOK
    <3>2. ASSUME s = "ended"
          PROVE  \/ n.queue_id \in OtherQueues
                 \/ \E f \in isds' : f.id # n.id /\ f.queue_id = n.queue_id
      BY <2>1, <2>2, <2>3, <3>2 DEF DaemonsOK
    <3>3. QED
      BY <2>2, <2>3, <3>1, <3>2
  <2>8. DaemonsOK'
    BY <2>5, <2>6, <2>7, Zenon DEF DaemonsOK
  <2>9. RulesOK'
    <3>1. /\ rules \in Seq([key : Key, queue_id : Nat])
          /\ rules' = Append(rules, RuleOf(d))
      BY <1>5 DEF IsdStart, RuleOf, TypeOK
    <3>2. \A i \in DOMAIN rules : rules[i].key # base[d.id].key
      <4>1. SUFFICES ASSUME NEW i \in DOMAIN rules,
                            rules[i].key = base[d.id].key
                     PROVE  FALSE
        OBVIOUS
      <4>2. PICK e \in isds : e.state # "forked" /\ rules[i] = RuleOf(e)
        BY DEF RulesOK
      <4>3. base[e.id].key = base[d.id].key
        BY <4>1, <4>2 DEF RuleOf
      <4>4. e.id \in Known /\ d.id \in Known
        BY DEF DaemonsOK, Known, TypeOK
      <4>5. QED
        BY <2>2, <4>2, <4>3, <4>4 DEF BasesOK, DaemonsOK
    <3>3. RuleOf(n)' = RuleOf(d) /\ \A e \in isds : RuleOf(e)' = RuleOf(e)
      BY <2>2, <2>3 DEF RuleOf
    <3>4. /\ DOMAIN rules' = DOMAIN rules \union {Len(rules) + 1}
          /\ Len(rules) + 1 \notin DOMAIN rules
          /\ rules'[Len(rules) + 1] = RuleOf(d)
          /\ \A i \in DOMAIN rules : rules'[i] = rules[i]
      BY <3>1
    <3>5. \A i, j \in DOMAIN rules' : rules'[i].key = rules'[j].key => i = j
      BY <3>2, <3>4 DEF RulesOK, RuleOf
    <3>6. \A i \in DOMAIN rules' :
            \E e \in isds' : e.state # "forked" /\ rules'[i] = RuleOf(e)'
      BY <2>2, <2>3, <3>3, <3>4 DEF RulesOK
    <3>7. \A e \in isds' : e.state # "forked" =>
            \E i \in DOMAIN rules' : rules'[i] = RuleOf(e)'
      BY <2>2, <2>3, <3>3, <3>4 DEF RulesOK
    <3>8. QED
      BY <3>5, <3>6, <3>7 DEF RulesOK
  <2>10. QED
    BY <2>8, <2>9
<1>6. QED
  <2>1. CASE BadMessage \/ PbInit \/ PbStart \/ PbEnd \/ PbVisit \/ PbStore \/ PbWrite
              \/ Tick
    BY <1>0, <2>1 DEF BadMessage, PbInit, PbStart, PbEnd, PbVisit, PbAged,
                      PbFresh, PbStore, PbWrite, Tick
  <2>2. QED
    BY <1>0, <1>1, <1>2, <1>3, <1>4, <1>5, <2>1 DEF Next, Cap, PbRoutine, vars

-----------------------------------------------------------------------------
(* The inductive invariant holds in every reachable state. *)
LEMMA Invariance == Spec => []IInv
<1>1. IInv /\ [Next]_vars => IInv'
  BY NextTypeOK, NextBasesOK, NextDaemonsOK DEF IInv
<1>2. QED
  BY <1>1, InitIInv, PTL DEF Spec

(* The structures of the two threads keep their types: the lists hold only bases
   that exist, and a rule always names a real link. *)
THEOREM TypeCorrect == Spec => []TypeOK
  BY Invariance, PTL DEF IInv

(* handle_cap never creates a second base for a link in the list, whatever
   pb_routine does between two CAP messages. *)
THEOREM OneBase == Spec => []OneBasePerLink
<1>1. IInv => OneBasePerLink
  BY DEF IInv, BasesOK, Known, OneBasePerLink
<1>2. QED
  BY <1>1, Invariance, PTL

(* An ISD that has its queue number for itself runs, and the packets of its link
   meet its rule first: no base, in the list or aged out of it, ever gave another
   ISD the same link. *)
THEOREM LinksReachIsds == Spec => []LinkReachesItsIsd
<1>1. IInv => LinkReachesItsIsd
  <2> SUFFICES ASSUME IInv, NEW d \in isds, d.state # "forked",
                      d.queue_id \notin OtherQueues,
                      \A e \in isds : e.queue_id = d.queue_id => e.id = d.id
               PROVE  /\ d.state = "running"
                      /\ \E i \in DOMAIN rules : rules[i].key = base[d.id].key
                      /\ FirstRule(base[d.id].key).queue_id = d.queue_id
    BY DEF LinkReachesItsIsd
  <2> USE DEF IInv
  <2>1. d.state = "running"
    BY DEF DaemonsOK, TypeOK
  <2>2. PICK i \in DOMAIN rules : rules[i] = RuleOf(d)
    BY DEF RulesOK
  <2>3. rules[i].key = base[d.id].key /\ rules[i].queue_id = d.queue_id
    BY <2>2 DEF RuleOf
  <2>4. \A j \in 1 .. i - 1 : rules[j].key # base[d.id].key
    <3>1. DOMAIN rules = 1 .. Len(rules) /\ Len(rules) \in Nat
      BY DEF TypeOK
    <3>2. \A j \in 1 .. i - 1 : j \in DOMAIN rules /\ j # i
      BY <3>1
    <3>3. QED
      BY <2>3, <3>2 DEF RulesOK
  <2> DEFINE P(r) == \E j \in DOMAIN rules :
                       /\ rules[j] = r /\ r.key = base[d.id].key
                       /\ \A m \in 1 .. j - 1 : rules[m].key # base[d.id].key
             S == {rules[j] : j \in DOMAIN rules}
             f == CHOOSE r \in S : P(r)
  <2>5. rules[i] \in S /\ P(rules[i])
    BY <2>3, <2>4
  <2>6. f \in S /\ P(f)
    BY <2>5, Zenon
  <2>7. f = rules[i]
    BY <2>3, <2>6 DEF RulesOK
  <2>8. FirstRule(base[d.id].key) = f
    BY Zenon DEF FirstRule
  <2>9. QED
    BY <2>1, <2>3, <2>7, <2>8
<1>2. QED
  BY <1>1, Invariance, PTL

-----------------------------------------------------------------------------
(* The file names of the first SCHAR_MAX + 1 bases are different.  Beyond, a byte
   of reboot_counter is above SCHAR_MAX and its digits are always ff. *)
LEMMA NamesDiffer ==
  ASSUME MaxBases <= SCHAR_MAX + 1,
         NEW a \in Id, NEW b \in Id, snsid_str(a) = snsid_str(b)
  PROVE  a = b
<1>1. ASSUME NEW c \in Id PROVE c % Byte = c /\ hex(c) = c
  <2>1. c \in Nat /\ c <= SCHAR_MAX /\ c < Byte /\ Byte \in Nat
    BY IcdAssumption DEF Id, Byte
  <2>2. QED
    BY <2>1, IcdAssumption DEF hex
<1>2. snsid_str(a)[1] = a /\ snsid_str(b)[1] = b
  BY <1>1 DEF snsid_str
<1>3. QED
  BY <1>2

(* Every step keeps the file of each ISD its own. *)
LEMMA NextFilesOK ==
  ASSUME MaxBases <= SCHAR_MAX + 1
  PROVE  IInv /\ FilesOK /\ [Next]_vars => FilesOK'
<1> SUFFICES ASSUME IInv, FilesOK, [Next]_vars PROVE FilesOK'
  OBVIOUS
<1> USE DEF IInv, sending
<1>1. CASE PbStore
  <2>1. /\ files' = [files EXCEPT ![snsid_str(cur)] = NoStored]
        /\ peerbase' = create_peerbase(cur) /\ pb_pc = "store" /\ pb_pc' = "write"
        /\ isds' = isds /\ cur' = cur /\ cur \in Id
        /\ \A d \in isds : d.id \in Id
    BY <1>1 DEF PbStore, TypeOK
  <2>2. snsid_str(cur) \in File /\ peerbase'.id = cur
    BY <2>1 DEF File, create_peerbase
  <2>3. ASSUME NEW d \in isds
        PROVE  \/ files'[d.file].id = d.id
               \/ files'[d.file] = NoStored /\ d.id = cur
    <3>1. d.file = snsid_str(d.id) /\ d.file \in File /\ files[d.file].id = d.id
      BY <2>1 DEF FilesOK, IsdHasOwnFile, TypeOK
    <3>2. CASE d.file = snsid_str(cur)
      <4>1. d.id = cur
        BY <2>1, <3>1, <3>2, NamesDiffer
      <4>2. QED
        BY <2>1, <2>2, <3>2, <4>1 DEF TypeOK
    <3>3. CASE d.file # snsid_str(cur)
      BY <2>1, <3>1, <3>3 DEF TypeOK
    <3>4. QED
      BY <3>2, <3>3
  <2>4. QED
    BY <2>1, <2>2, <2>3 DEF FilesOK, IsdHasOwnFile
<1>2. CASE PbWrite
  <2>1. /\ files' = [files EXCEPT ![snsid_str(cur)] = peerbase]
        /\ pb_pc = "write" /\ pb_pc' = "launch" /\ peerbase.id = cur
        /\ isds' = isds /\ cur' = cur /\ cur \in Id
        /\ \A d \in isds : d.id \in Id
    BY <1>2 DEF PbWrite, TypeOK, FilesOK
  <2>2. snsid_str(cur) \in File /\ files'[snsid_str(cur)].id = cur
    BY <2>1 DEF TypeOK, File
  <2>3. ASSUME NEW d \in isds PROVE files'[d.file].id = d.id
    <3>1. d.file = snsid_str(d.id) /\ d.file \in File
      BY DEF FilesOK, TypeOK
    <3>2. CASE d.file = snsid_str(cur)
      BY <2>1, <2>2, <3>1, <3>2, NamesDiffer
    <3>3. CASE d.file # snsid_str(cur)
      <4>1. d.id # cur
        BY <3>1, <3>3
      <4>2. files[d.file].id = d.id
        BY <2>1, <4>1 DEF FilesOK, IsdHasOwnFile
      <4>3. QED
        BY <2>1, <3>1, <3>3, <4>2 DEF TypeOK
    <3>4. QED
      BY <3>2, <3>3
  <2>4. QED
    BY <2>1, <2>2, <2>3 DEF FilesOK, IsdHasOwnFile
<1>3. CASE PbLaunch
  BY <1>3 DEF PbLaunch, FilesOK, IsdHasOwnFile
<1>4. ASSUME NEW d \in isds, IsdStart(d) PROVE FilesOK'
  <2>1. PICK s : isds' = (isds \ {d}) \union {[d EXCEPT !.state = s]}
    BY <1>4 DEF IsdStart
  <2>2. UNCHANGED <<files, peerbase, pb_pc, cur>>
    BY <1>4 DEF IsdStart
  <2>3. [d EXCEPT !.state = s].id = d.id /\ [d EXCEPT !.state = s].file = d.file
    BY DEF TypeOK
  <2>4. QED
    BY <2>1, <2>2, <2>3 DEF FilesOK, IsdHasOwnFile
<1>5. CASE PbInit \/ PbStart \/ PbEnd \/ PbVisit
  BY <1>5 DEF PbInit, PbStart, PbEnd, PbVisit, PbAged, PbFresh, FilesOK,
              IsdHasOwnFile
<1>6. CASE Cap \/ BadMessage \/ Tick \/ UNCHANGED vars
  BY <1>6 DEF Cap, CapKnown, CapCreate, BadMessage, Tick, vars, FilesOK,
              IsdHasOwnFile
<1>7. QED
  BY <1>1, <1>2, <1>3, <1>4, <1>5, <1>6 DEF Next, PbRoutine

(* Up to SCHAR_MAX + 1 bases, the file an ISD reads holds the base of that ISD from
   before the ISD starts, although pb_routine stores after it has released the
   mutex and an aged base's file stays behind. *)
THEOREM OwnFiles ==
  ASSUME MaxBases <= SCHAR_MAX + 1
  PROVE  Spec => []IsdHasOwnFile
<1>1. FilesOK => IsdHasOwnFile
  BY DEF FilesOK, IsdHasOwnFile
<1>2. QED
  BY <1>1, Invariance, InitIInv, NextFilesOK, PTL DEF Spec
============================================================================
