---------------------------- MODULE IcdPeerbase ----------------------------
(***************************************************************************)
(* The sender side of the iPRP control daemon, unicast build: the control  *)
(* thread of src/icd/control.c, which turns CAP messages into peer bases,  *)
(* and the peer-base thread of src/icd/peerbase.c, which ages them, stores *)
(* them for the sending daemons (ISD) and starts those.                    *)
(*                                                                         *)
(* The threads share the list peerbases and its mutex.  handle_cap holds   *)
(* the mutex throughout and never blocks, so it is one step.  pb_routine   *)
(* holds it to examine one element, and stores the base after releasing    *)
(* it.  A base is known by the value of reboot_counter that its SNSID      *)
(* contains; the list is the set of its bases, and the part of it that     *)
(* pb_routine's iterator has still to visit is the set todo.               *)
(***************************************************************************)
EXTENDS Integers, FiniteSets, Sequences

CONSTANTS
  NoKey,          \* marks a base that does not exist yet
  Key,            \* links: what peerbase_query compares
  Ind,            \* network subclouds
  HostInd,        \* the INDs of this host's interfaces
  CapInds,        \* the interface sets a receiver may announce
  IPRP_PB_TEXP,   \* seconds a silent base is kept (60 in the code)
  NbQueues,       \* netfilter queue numbers (1024 in the code)
  OtherQueues,    \* those that the IRD and the IMD have bound
  SCHAR_MAX,      \* largest signed char (127 in the code)
  MaxBases,       \* bound: bases created
  MaxTime         \* bound: the last second

Id == 0 .. MaxBases - 1

ASSUME IcdAssumption ==
  /\ NoKey \notin Key
  /\ HostInd \subseteq Ind /\ CapInds \subseteq SUBSET Ind
  /\ IPRP_PB_TEXP \in Nat /\ MaxTime \in Nat
  /\ NbQueues \in Nat \ {0} /\ SCHAR_MAX \in Nat /\ MaxBases \in Nat \ {0}

VARIABLES
  now,             \* curr_time
  reboot_counter,  \* bases created so far
  base,            \* base[b]: the structure of base b
  peerbases,       \* the bases in the list
  mutex,           \* holder of the list mutex between steps
  control,         \* the control thread: "listening" or "ended"
  pb_pc,           \* control point of pb_routine
  todo,            \* bases the current pass has still to visit
  cur,             \* the base pb_routine works on without the mutex
  peerbase,        \* its copy of that base, on the way to the file
  files,           \* files[f]: the base stored in file f
  isds,            \* the sending daemons started, with their arguments
  rules            \* the iptables rules of POSTROUTING: link and queue

sending == <<isds, rules>>
vars == <<now, reboot_counter, base, peerbases, mutex, control, pb_pc, todo,
          cur, peerbase, files, sending>>

(* A byte has this many values. *)
Byte == 2 * (SCHAR_MAX + 1)

(* The byte whose two digits "%02x" leaves in a buffer of three characters: char
   is signed, so a byte above SCHAR_MAX is sign-extended to ffffffxx, and cut to
   the digits ff of the largest one. *)
hex(b) == IF b > SCHAR_MAX THEN Byte - 1 ELSE b

(* The part of the file name that depends on reboot_counter, a uint16_t. *)
snsid_str(b) == <<hex(b % Byte), hex((b \div Byte) % Byte)>>

File == {snsid_str(b) : b \in Id}
Stored == [id : Id, inds : SUBSET Ind, dest : SUBSET Ind]

(* A file that does not exist, or is truncated. *)
NoStored == [id |-> -1, inds |-> {}, dest |-> {}]

IcdBase == [key : Key \union {NoKey}, inds : SUBSET Ind, dest : SUBSET Ind,
            queue_id : Nat, isd : BOOLEAN, last_cap : Nat]

ind_match(I) == I \intersect HostInd

(* srand(curr_time) and one rand(): the number depends on the second only. *)
rand(t) == t % NbQueues

(* get_queue_number: the search of the list has no effect, since ok is set to
   true after it in all cases. *)
get_queue_number == rand(now)

peerbase_query(k) == {b \in peerbases : base[b].key = k}

-----------------------------------------------------------------------------
(***************************************************************************)
(* The control thread.  A CAP message for an unknown link without a common *)
(* IND changes nothing.                                                    *)
(***************************************************************************)

(* Mutated form of CapKnown: the base is built anew. *)
CapKnownRenumbered(k, I) ==
  /\ control = "listening" /\ mutex = "none"
  /\ \E b \in peerbase_query(k) :
       base' = [base EXCEPT ![b].inds = @ \union ind_match(I),
                            ![b].queue_id = get_queue_number,
                            ![b].isd = FALSE, ![b].last_cap = now]
  /\ UNCHANGED <<now, reboot_counter, peerbases, mutex, control, pb_pc, todo,
                 cur, peerbase, files, sending>>

(* handle_cap for a link in the list: the INDs are added, the addresses of the
   receiver's interfaces are not. *)
CapKnown(k, I) ==
  /\ control = "listening" /\ mutex = "none"
  /\ \E b \in peerbase_query(k) :
       base' = [base EXCEPT ![b].inds = @ \union ind_match(I),
                            ![b].last_cap = now]
  /\ UNCHANGED <<now, reboot_counter, peerbases, mutex, control, pb_pc, todo,
                 cur, peerbase, files, sending>>

(* The base for a CAP message of link k from a receiver with the INDs I. *)
create_base(k, I) ==
  [key |-> k, inds |-> ind_match(I), dest |-> I, queue_id |-> get_queue_number,
   isd |-> FALSE, last_cap |-> now]

(* Mutated form of CapCreate: the list is not searched. *)
CapCreateBlind(k, I) ==
  /\ control = "listening" /\ mutex = "none" /\ reboot_counter < MaxBases
  /\ ind_match(I) # {}
  /\ base' = [base EXCEPT ![reboot_counter] = create_base(k, I)]
  /\ reboot_counter' = reboot_counter + 1
  /\ peerbases' = peerbases \union {reboot_counter}
  /\ todo' = IF todo = {} THEN {} ELSE todo \union {reboot_counter}
  /\ UNCHANGED <<now, mutex, control, pb_pc, cur, peerbase, files, sending>>

(* handle_cap for a new link with an IND in common: create_base and
   list_append. *)
CapCreate(k, I) ==
  /\ control = "listening" /\ mutex = "none" /\ reboot_counter < MaxBases
  /\ peerbase_query(k) = {} /\ ind_match(I) # {}
  /\ base' = [base EXCEPT ![reboot_counter] = create_base(k, I)]
  /\ reboot_counter' = reboot_counter + 1
  /\ peerbases' = peerbases \union {reboot_counter}
  /\ todo' = IF todo = {} THEN {} ELSE todo \union {reboot_counter}
  /\ UNCHANGED <<now, mutex, control, pb_pc, cur, peerbase, files, sending>>

(* A datagram of the wrong size or without the secret ends the loop, and with it
   the thread. *)
BadMessage ==
  /\ control = "listening"
  /\ control' = "ended"
  /\ UNCHANGED <<now, reboot_counter, base, peerbases, mutex, pb_pc, todo, cur,
                 peerbase, files, sending>>

-----------------------------------------------------------------------------
(***************************************************************************)
(* The peer-base thread.                                                   *)
(***************************************************************************)

(* list_init, in pb_routine: what the control thread appended before is lost. *)
PbInit ==
  /\ pb_pc = "init"
  /\ peerbases' = {} /\ mutex' = "none"
  /\ pb_pc' = "sleep"
  /\ UNCHANGED <<now, reboot_counter, base, control, todo, cur, peerbase,
                 files, sending>>

(* A pass begins: the head is read without the mutex. *)
PbStart ==
  /\ pb_pc = "sleep"
  /\ todo' = peerbases
  /\ pb_pc' = "walk"
  /\ UNCHANGED <<now, reboot_counter, base, peerbases, mutex, control, cur,
                 peerbase, files, sending>>

(* The iterator is NULL: the pass ends. *)
PbEnd ==
  /\ pb_pc = "walk" /\ todo = {}
  /\ pb_pc' = "sleep"
  /\ UNCHANGED <<now, reboot_counter, base, peerbases, mutex, control, todo,
                 cur, peerbase, files, sending>>

Aged(b) == now - base[b].last_cap > IPRP_PB_TEXP

(* Mutated form of PbAged: the iterator stays on the freed entry. *)
PbAgedStale(b) ==
  /\ pb_pc = "walk" /\ b \in todo /\ mutex = "none"
  /\ Aged(b)
  /\ mutex' = "pb"
  /\ peerbases' = peerbases \ {b}
  /\ UNCHANGED <<now, reboot_counter, base, control, pb_pc, todo, cur, peerbase,
                 files, sending>>

(* An aged entry is freed; continue skips the unlock, and the mutex stays with
   the thread, which will lock it again at the next element. *)
PbAged(b) ==
  /\ pb_pc = "walk" /\ b \in todo /\ mutex = "none"
  /\ Aged(b)
  /\ mutex' = "pb"
  /\ peerbases' = peerbases \ {b}
  /\ todo' = todo \ {b}
  /\ UNCHANGED <<now, reboot_counter, base, control, pb_pc, cur, peerbase,
                 files, sending>>

(* Mutated form of PbFresh: the ISD is started before the base is stored. *)
PbFreshNoStore(b) ==
  /\ pb_pc = "walk" /\ b \in todo /\ mutex = "none"
  /\ ~Aged(b)
  /\ todo' = todo \ {b}
  /\ cur' = b
  /\ pb_pc' = IF base[b].isd THEN "store" ELSE "launch"
  /\ UNCHANGED <<now, reboot_counter, base, peerbases, mutex, control, peerbase,
                 files, sending>>

(* A fresh entry: the iterator moves on and the mutex is released. *)
PbFresh(b) ==
  /\ pb_pc = "walk" /\ b \in todo /\ mutex = "none"
  /\ ~Aged(b)
  /\ todo' = todo \ {b}
  /\ cur' = b
  /\ pb_pc' = "store"
  /\ UNCHANGED <<now, reboot_counter, base, peerbases, mutex, control, peerbase,
                 files, sending>>

(* What is stored of base b. *)
create_peerbase(b) == [id |-> b, inds |-> base[b].inds, dest |-> base[b].dest]

(* Mutated form of PbStore: a base is stored only until its ISD runs. *)
PbStoreOnce ==
  /\ pb_pc = "store"
  /\ IF base[cur].isd
     THEN UNCHANGED <<peerbase, files>> /\ pb_pc' = "launch"
     ELSE /\ peerbase' = create_peerbase(cur)
          /\ files' = [files EXCEPT ![snsid_str(cur)] = NoStored]
          /\ pb_pc' = "write"
  /\ UNCHANGED <<now, reboot_counter, base, peerbases, mutex, control, todo,
                 cur, sending>>

(* After the unlock: create_peerbase copies the base, and fopen in peerbase_store
   truncates the file. *)
PbStore ==
  /\ pb_pc = "store"
  /\ peerbase' = create_peerbase(cur)
  /\ files' = [files EXCEPT ![snsid_str(cur)] = NoStored]
  /\ pb_pc' = "write"
  /\ UNCHANGED <<now, reboot_counter, base, peerbases, mutex, control, todo,
                 cur, sending>>

(* peerbase_store: the write. *)
PbWrite ==
  /\ pb_pc = "write"
  /\ files' = [files EXCEPT ![snsid_str(cur)] = peerbase]
  /\ peerbase' = NoStored
  /\ pb_pc' = "launch"
  /\ UNCHANGED <<now, reboot_counter, base, peerbases, mutex, control, todo,
                 cur, sending>>

(* isd_startup for a base whose ISD does not run: fork. *)
PbLaunch ==
  /\ pb_pc = "launch"
  /\ isds' = IF base[cur].isd THEN isds
             ELSE isds \union {[id |-> cur, queue_id |-> base[cur].queue_id,
                                file |-> snsid_str(cur), state |-> "forked"]}
  /\ base' = [base EXCEPT ![cur].isd = TRUE]
  /\ pb_pc' = "walk"
  /\ UNCHANGED <<now, reboot_counter, peerbases, mutex, control, todo, cur,
                 peerbase, files, rules>>

(* The child appends a rule that sends the link's packets to the queue and
   becomes the ISD, which ends if nfq_create_queue finds the queue bound, by
   another ISD or by the IRD or the IMD.  Nobody waits for it. *)
IsdStart(d) ==
  /\ d.state = "forked"
  /\ rules' = Append(rules, [key |-> base[d.id].key, queue_id |-> d.queue_id])
  /\ LET bound == \/ d.queue_id \in OtherQueues
                  \/ \E e \in isds : /\ e.state = "running"
                                     /\ e.queue_id = d.queue_id
     IN  isds' = (isds \ {d}) \union
                   {[d EXCEPT !.state = IF bound THEN "ended" ELSE "running"]}
  /\ UNCHANGED <<now, reboot_counter, base, peerbases, mutex, control, pb_pc,
                 todo, cur, peerbase, files>>

Tick ==
  /\ now < MaxTime
  /\ now' = now + 1
  /\ UNCHANGED <<reboot_counter, base, peerbases, mutex, control, pb_pc, todo,
                 cur, peerbase, files, sending>>

-----------------------------------------------------------------------------
Init ==
  /\ now = 0
  /\ reboot_counter = 0
  /\ base = [b \in Id |-> [key |-> NoKey, inds |-> {},
                           dest |-> {}, queue_id |-> 0, isd |-> FALSE,
                           last_cap |-> 0]]
  /\ peerbases = {}
  /\ mutex = "none"
  /\ control = "listening"
  /\ pb_pc = "init"
  /\ todo = {}
  /\ cur = 0 /\ peerbase = NoStored
  /\ files = [f \in File |-> NoStored]
  /\ isds = {} /\ rules = <<>>

Cap == \E k \in Key, I \in CapInds : CapKnown(k, I) \/ CapCreate(k, I)
PbVisit == \E b \in Id : PbAged(b) \/ PbFresh(b)
PbRoutine == PbInit \/ PbStart \/ PbEnd \/ PbVisit \/ PbStore \/ PbWrite \/ PbLaunch

Next ==
  \/ Cap \/ BadMessage
  \/ PbRoutine \/ \E d \in isds : IsdStart(d)
  \/ Tick

Spec == Init /\ [][Next]_vars

(* The peer-base thread keeps running when it is not blocked on the mutex. *)
FairSpec == Spec /\ WF_vars(PbRoutine)

-----------------------------------------------------------------------------
TypeOK ==
  /\ now \in 0 .. MaxTime
  /\ reboot_counter \in 0 .. MaxBases
  /\ base \in [Id -> IcdBase]
  /\ peerbases \subseteq Id /\ \A b \in peerbases : b < reboot_counter
  /\ mutex \in {"none", "pb"}
  /\ control \in {"listening", "ended"}
  /\ pb_pc \in {"init", "sleep", "walk", "store", "write", "launch"}
  /\ todo \subseteq peerbases
  /\ cur \in Id /\ peerbase \in Stored \union {NoStored}
  /\ files \in [File -> Stored \union {NoStored}]
  /\ isds \subseteq [id : Id, queue_id : Nat, file : File,
                      state : {"forked", "running", "ended"}]
  /\ rules \in Seq([key : Key, queue_id : Nat])

(* A link has one base in the list, so its packets are numbered by one ISD. *)
OneBasePerLink ==
  \A a, b \in peerbases : base[a].key = base[b].key => a = b

(* The rule that a packet of link k meets first. *)
FirstRule(k) ==
  CHOOSE r \in {rules[i] : i \in DOMAIN rules} :
    \E i \in DOMAIN rules :
      /\ rules[i] = r /\ r.key = k
      /\ \A j \in 1 .. i - 1 : rules[j].key # k

(* The packets of a link reach the ISD of its base, and this ISD runs, unless a
   base made in the same second, the IRD or the IMD has the same queue number:
   rules are only added, so a second ISD for a link, whatever the control thread
   did to the base while pb_routine worked on it, would never see a packet. *)
LinkReachesItsIsd ==
  \A d \in isds :
    (/\ d.state # "forked" /\ d.queue_id \notin OtherQueues
     /\ \A e \in isds : e.queue_id = d.queue_id => e.id = d.id)
    => /\ d.state = "running"
       /\ \E i \in DOMAIN rules : rules[i].key = base[d.id].key
       /\ FirstRule(base[d.id].key).queue_id = d.queue_id

(* The file of a running ISD holds the base of that ISD, from before the ISD
   starts, and is empty only while pb_routine rewrites it with that same base:
   "Each instance of the ISD has its own peerbase." *)
IsdHasOwnFile ==
  \A d \in isds :
    \/ files[d.file].id = d.id
    \/ files[d.file] = NoStored /\ pb_pc = "write" /\ peerbase.id = d.id

(* The INDs a CAP message adds to a base reach the file its ISD reads, unless
   an aged entry stops the thread. *)
FileFollowsBase ==
  \A b \in Id :
    (pb_pc # "init" /\ b \in peerbases)
      ~> \/ files[snsid_str(b)].id = b /\ files[snsid_str(b)].inds = base[b].inds
         \/ mutex = "pb"

(* pb_routine releases the mutex whenever it has taken it. *)
LockReleased == (mutex = "pb") ~> (mutex = "none")
============================================================================
