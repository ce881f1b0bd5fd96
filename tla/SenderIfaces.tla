---------------------------- MODULE SenderIfaces ----------------------------
(***************************************************************************)
(* Source-specific multicast on the receiving host.  The control thread    *)
(* (handle_ack in src/icd/control.c) keeps an entry for every sender that  *)
(* acknowledged a CAP message; the sender interfaces thread of the control *)
(* daemon (src/icd/senderifaces.c) ages the entries and writes them to a   *)
(* file; the sender interfaces thread of the IRD (src/ird/senderifaces.c)  *)
(* reads the file and joins and leaves the groups.                         *)
(*                                                                         *)
(* The control thread searches the list without the mutex, one element per *)
(* step, while the other thread frees elements.  Elements are numbered as  *)
(* they are created; they are only appended, so the list is the set of its *)
(* numbers in increasing order.  A freed element that the control thread   *)
(* still stands on may hold what it held, or end the process.              *)
(***************************************************************************)
EXTENDS Integers, SequencesExt, FiniteSetsExt

CONSTANTS
  Key,          \* senders: <<group_addr, sender_addr>>
  Announced,    \* Announced[k]: sets of interfaces an ACK of k may list
  Local,        \* interfaces in a subcloud that this host has too
  Missing,      \* the file does not exist
  Truncated,    \* the file between truncation and write
  ICD_SI_TEXP,  \* seconds a silent entry is kept (60 in the code)
  MaxEntries,   \* bound: entries created
  MaxTime,      \* bound: the last second
  MaxFaults     \* bound: restarts of the IRD, loads of a truncated file

Elem == 1 .. MaxEntries
Addr == UNION UNION {Announced[k] : k \in Key}
Si == [key : Key, ifaces : SUBSET Addr, host_addr : BOOLEAN]

(* The entry of an element that was not created yet. *)
NoSi == [key |-> CHOOSE k \in Key : TRUE, ifaces |-> {}, host_addr |-> TRUE]

ASSUME SiAssumption ==
  /\ ICD_SI_TEXP \in Nat /\ MaxTime \in Nat /\ MaxFaults \in Nat
  /\ MaxEntries \in Nat \ {0}
  /\ Key # {} /\ Missing # Truncated

VARIABLES
  now,        \* curr_time
  icd,        \* the control daemon runs
  elems,      \* sender_ifaces of the control daemon: the elements in the list
  si,         \* si[e]: the entry of element e
  last_seen,  \* last_seen[e]: when e was acknowledged last
  nb,         \* elements created so far
  acks,       \* the ACK message being handled: none or one
  at,         \* the element in_sender_ifaces stands on, 0 for NULL
  freed,      \* elements freed since the search began
  si_pc,      \* control point of si_routine of the control daemon
  todo,       \* elements count_and_cleanup has still to visit
  count,      \* elements it has counted
  entries,    \* copies for the file
  file,       \* IPRP_SI_FILE
  ird_pc,     \* control point of si_routine of the IRD
  table,      \* the entries it read
  cache,      \* sender_ifaces of the IRD
  pos,        \* position in the cache or in the table
  joined,     \* memberships of its socket: <<group, source address>>
  changed,    \* history: an entry met with other interfaces than cached
  faults      \* restarts of the IRD and loads of a truncated file

control == <<acks, at>>
list == <<elems, si, last_seen, nb, freed>>
icdsi == <<si_pc, todo, count, entries>>
ird == <<ird_pc, table, cache, pos, joined, changed, faults>>
vars == <<now, icd, control, list, icdsi, file, ird>>

-----------------------------------------------------------------------------
(***************************************************************************)
(* The control thread.                                                     *)
(***************************************************************************)
Head0(S) == IF S = {} THEN 0 ELSE Min(S)

(* An ACK message arrives, from the network: it may be lost, late or repeated. *)
AckStart(k, I) ==
  /\ icd /\ acks = {}
  /\ nb < MaxEntries \/ \E e \in elems : si[e].key = k
  /\ acks' = {[key |-> k, ifaces |-> I]}
  /\ at' = Head0(elems)
  /\ freed' = {}
  /\ UNCHANGED <<now, icd, elems, si, last_seen, nb, icdsi, file, ird>>

(* in_sender_ifaces finds the sender: last_seen is set, the interfaces stay.  On
   a freed element the refresh is lost. *)
AckFound ==
  \E a \in acks :
    /\ icd /\ at # 0 /\ si[at].key = a.key
    /\ last_seen' = [last_seen EXCEPT ![at] = now]
    /\ acks' = {} /\ at' = 0 /\ freed' = {}
    /\ UNCHANGED <<now, icd, elems, si, nb, icdsi, file, ird>>

(* Where iterator->next leads: from an element that was freed, to the next one in
   the list or to one that was freed after it. *)
NextOf(e) ==
  LET later == {f \in elems : f > e}
      stale == {f \in freed : f > e /\ \A g \in later : f < g}
  IN  {Head0(later)} \union (IF e \in freed THEN stale ELSE {})

AckNext ==
  \E a \in acks :
    /\ icd /\ at # 0 /\ si[at].key # a.key
    /\ at' \in NextOf(at)
    /\ UNCHANGED <<now, icd, acks, list, icdsi, file, ird>>

(* The control daemon ends, and its memory is gone. *)
IcdEnds ==
  /\ icd' = FALSE
  /\ acks' = {} /\ at' = 0
  /\ elems' = {} /\ nb' = 0 /\ freed' = {}
  /\ si' = [e \in Elem |-> NoSi] /\ last_seen' = [e \in Elem |-> 0]
  /\ si_pc' = "init" /\ todo' = {} /\ count' = 0 /\ entries' = <<>>
  /\ UNCHANGED <<now, file, ird>>

(* A freed element is read. *)
AckCrash == icd /\ acks # {} /\ at \in freed /\ IcdEnds

Expired(e) == now - last_seen[e] > ICD_SI_TEXP

(* as_routine of the control daemon searches the list before a CAP message, by
   the same function: the entry of an active sender is refreshed without an
   ACK.  The search is one step: a refresh of an element that is freed under it
   is lost, and leaves no trace. *)
CapSearch(e) ==
  /\ icd /\ e \in elems
  /\ last_seen' = [last_seen EXCEPT ![e] = now]
  /\ UNCHANGED <<now, icd, control, elems, si, nb, freed, icdsi, file, ird>>

(* The element that this search stands on is freed, and then read. *)
CapCrash ==
  icd /\ si_pc = "walk" /\ todo # {} /\ Expired(Min(todo)) /\ IcdEnds

(* create_sender_ifaces.  host_addr[i] is set only if this host has the subcloud
   of the sender's interface i, and is whatever malloc left otherwise. *)
create_sender_ifaces(a) ==
  {[key |-> a.key, ifaces |-> a.ifaces, host_addr |-> h] :
     h \in IF a.ifaces \subseteq Local THEN {TRUE} ELSE BOOLEAN}

(* Mutated form of AckAppend: the entry is appended although one was found. *)
AckAppendBlind ==
  \E a \in acks :
    /\ icd /\ nb < MaxEntries
    /\ nb' = nb + 1
    /\ elems' = elems \union {nb + 1}
    /\ \E s \in create_sender_ifaces(a) : si' = [si EXCEPT ![nb + 1] = s]
    /\ last_seen' = [last_seen EXCEPT ![nb + 1] = now]
    /\ todo' = IF todo = {} THEN {} ELSE todo \union {nb + 1}
    /\ acks' = {} /\ at' = 0 /\ freed' = {}
    /\ UNCHANGED <<now, icd, si_pc, count, entries, file, ird>>

(* handle_ack for a sender that was not found.  A walk of count_and_cleanup that
   has not passed the tail will meet the new element. *)
AckAppend ==
  \E a \in acks :
    /\ icd /\ at = 0 /\ nb < MaxEntries
    /\ nb' = nb + 1
    /\ elems' = elems \union {nb + 1}
    /\ \E s \in create_sender_ifaces(a) : si' = [si EXCEPT ![nb + 1] = s]
    /\ last_seen' = [last_seen EXCEPT ![nb + 1] = now]
    /\ todo' = IF todo = {} THEN {} ELSE todo \union {nb + 1}
    /\ acks' = {} /\ freed' = {}
    /\ UNCHANGED <<now, icd, at, si_pc, count, entries, file, ird>>

-----------------------------------------------------------------------------
(***************************************************************************)
(* The sender interfaces thread of the control daemon.                     *)
(***************************************************************************)

(* list_init, and the truncation of a store of nothing: entries made before are
   lost.  A search that it meets halfway reads and refreshes lost elements only,
   and ends as if list_init had come just before it (nothing found) or just after
   it (an element found). *)
SiInit ==
  /\ icd /\ si_pc = "init" /\ acks = {}
  /\ elems' = {} /\ file' = Truncated
  /\ si_pc' = "write"
  /\ UNCHANGED <<now, icd, control, si, last_seen, nb, freed, todo, count,
                 entries, ird>>

SiStart ==
  /\ icd /\ si_pc = "sleep"
  /\ todo' = elems
  /\ si_pc' = "walk"
  /\ UNCHANGED <<now, icd, control, list, count, entries, file, ird>>

(* Mutated forms of SiExpired: the iterator stays on the freed element; the entry
   is counted before its age is known. *)
SiExpiredStale ==
  /\ icd /\ si_pc = "walk" /\ todo # {} /\ Expired(Min(todo))
  /\ elems' = elems \ {Min(todo)}
  /\ freed' = IF acks = {} THEN {} ELSE freed \union {Min(todo)}
  /\ UNCHANGED <<now, icd, control, si, last_seen, nb, si_pc, todo, count,
                 entries, file, ird>>
SiExpiredCounted ==
  /\ icd /\ si_pc = "walk" /\ todo # {} /\ Expired(Min(todo))
  /\ elems' = elems \ {Min(todo)}
  /\ freed' = IF acks = {} THEN {} ELSE freed \union {Min(todo)}
  /\ todo' = todo \ {Min(todo)}
  /\ count' = count + 1
  /\ UNCHANGED <<now, icd, control, si, last_seen, nb, si_pc, entries, file,
                 ird>>

(* count_and_cleanup, under the mutex, at an entry that is too old. *)
SiExpired ==
  /\ icd /\ si_pc = "walk" /\ todo # {} /\ Expired(Min(todo))
  /\ elems' = elems \ {Min(todo)}
  /\ freed' = IF acks = {} THEN {} ELSE freed \union {Min(todo)}
  /\ todo' = todo \ {Min(todo)}
  /\ UNCHANGED <<now, icd, control, si, last_seen, nb, si_pc, count, entries,
                 file, ird>>

SiFresh ==
  /\ icd /\ si_pc = "walk" /\ todo # {} /\ ~Expired(Min(todo))
  /\ todo' = todo \ {Min(todo)}
  /\ count' = count + 1
  /\ UNCHANGED <<now, icd, control, list, si_pc, entries, file, ird>>

(* The element that k - 1 steps from the head lead to. *)
Nth(k) == CHOOSE e \in elems : Cardinality({f \in elems : f < e}) = k - 1

(* Mutated form of SiStore: the loop stops one entry early. *)
SiStoreShort ==
  /\ icd /\ si_pc = "walk" /\ todo = {}
  /\ entries' = [k \in 1 .. count - 1 |-> si[Nth(k)]]
  /\ count' = 0 /\ file' = Truncated
  /\ si_pc' = "write"
  /\ UNCHANGED <<now, icd, control, list, todo, ird>>

(* get_file_contents copies count entries from the head, without the mutex;
   fopen in senderifaces_store truncates the file. *)
SiStore ==
  /\ icd /\ si_pc = "walk" /\ todo = {}
  /\ entries' = [k \in 1 .. count |-> si[Nth(k)]]
  /\ count' = 0 /\ file' = Truncated
  /\ si_pc' = "write"
  /\ UNCHANGED <<now, icd, control, list, todo, ird>>

(* The contents reach the file. *)
SiWrite ==
  /\ icd /\ si_pc = "write"
  /\ file' = entries /\ entries' = <<>>
  /\ si_pc' = "sleep"
  /\ UNCHANGED <<now, icd, control, list, todo, count, ird>>

-----------------------------------------------------------------------------
(***************************************************************************)
(* The sender interfaces thread of the IRD.  setsockopt fails for a source *)
(* that is joined already, one that is not joined, or an interface that is *)
(* not of this host; ERR then ends the daemon.                             *)
(***************************************************************************)
Memberships(s) == {<<s.key[1], a>> : a \in s.ifaces}

(* The thread wakes: senderifaces_load of a complete file. *)
IrdLoad ==
  /\ ird_pc = "sleep" /\ file \notin {Missing, Truncated}
  /\ table' = file
  /\ ird_pc' = "drop" /\ pos' = 1
  /\ UNCHANGED <<now, icd, control, list, icdsi, file, cache, joined, changed,
                 faults>>

(* The file does not exist: ERR. *)
IrdNoFile ==
  /\ ird_pc = "sleep" /\ file = Missing
  /\ ird_pc' = "failed"
  /\ UNCHANGED <<now, icd, control, list, icdsi, file, table, cache, pos,
                 joined, changed, faults>>

(* fread returns nothing and is not checked.  The count is not initialised: the
   table holds only zeroes, entries without interfaces, or cannot be allocated
   and is used all the same. *)
IrdLoadTruncated ==
  /\ ird_pc = "sleep" /\ file = Truncated /\ faults < MaxFaults
  /\ faults' = faults + 1
  /\ table' = <<>> /\ pos' = 1
  /\ \/ ird_pc' = "drop" /\ UNCHANGED <<cache, joined>>
     \/ ird_pc' = "failed" /\ cache' = <<>> /\ joined' = {}
  /\ UNCHANGED <<now, icd, control, list, icdsi, file, changed>>

(* find_si_in_array and find_si_in_list compare group and sender. *)
Find(s, seq) == {k \in DOMAIN seq : seq[k].key = s.key}

(* The step after leaving the groups L and joining the groups J with the entry's
   host addresses h.  A daemon that ends leaves all its groups. *)
Apply(L, J, h) ==
  LET left == joined \ L IN
  IF L \subseteq joined /\ J \intersect left = {} /\ (J # {} => h)
  THEN joined' = left \union J /\ UNCHANGED ird_pc
  ELSE joined' = {} /\ ird_pc' = "failed"

(* Mutated form of IrdDrop: the entry is dropped without leaving its groups. *)
IrdDropSilent ==
  /\ ird_pc = "drop" /\ pos <= Len(cache)
  /\ Find(cache[pos], table) = {}
  /\ cache' = RemoveAt(cache, pos)
  /\ UNCHANGED <<now, icd, control, list, icdsi, file, ird_pc, table, pos,
                 joined, changed, faults>>

(* Drop phase, at an entry that is no longer in the file. *)
IrdDrop ==
  /\ ird_pc = "drop" /\ pos <= Len(cache)
  /\ Find(cache[pos], table) = {}
  /\ Apply(Memberships(cache[pos]), {}, TRUE)
  /\ cache' = RemoveAt(cache, pos)
  /\ UNCHANGED <<now, icd, control, list, icdsi, file, table, pos, changed,
                 faults>>

(* Drop phase, at an entry that is in the file: update_memberships.  The cached
   entry is not replaced. *)
IrdUpdate ==
  /\ ird_pc = "drop" /\ pos <= Len(cache)
  /\ Find(cache[pos], table) # {}
  /\ LET old == Memberships(cache[pos])
         s   == table[Min(Find(cache[pos], table))]
     IN  /\ changed' = (changed \/ old # Memberships(s))
         /\ Apply(old \ Memberships(s), Memberships(s) \ old, s.host_addr)
  /\ pos' = pos + 1
  /\ UNCHANGED <<now, icd, control, list, icdsi, file, table, cache, faults>>

IrdDropped ==
  /\ ird_pc = "drop" /\ pos > Len(cache)
  /\ ird_pc' = "add" /\ pos' = 1
  /\ UNCHANGED <<now, icd, control, list, icdsi, file, table, cache, joined,
                 changed, faults>>

(* Mutated form of IrdAdd: the entry is not cached. *)
IrdAddUncached ==
  /\ ird_pc = "add" /\ pos <= Len(table)
  /\ Find(table[pos], cache) = {}
  /\ Apply({}, Memberships(table[pos]), table[pos].host_addr)
  /\ pos' = pos + 1
  /\ UNCHANGED <<now, icd, control, list, icdsi, file, table, cache, changed,
                 faults>>

(* Add phase, at an entry that is not in the cache. *)
IrdAdd ==
  /\ ird_pc = "add" /\ pos <= Len(table)
  /\ Find(table[pos], cache) = {}
  /\ cache' = Append(cache, table[pos])
  /\ Apply({}, Memberships(table[pos]), table[pos].host_addr)
  /\ pos' = pos + 1
  /\ UNCHANGED <<now, icd, control, list, icdsi, file, table, changed, faults>>

IrdKeep ==
  /\ ird_pc = "add" /\ pos <= Len(table)
  /\ Find(table[pos], cache) # {}
  /\ pos' = pos + 1
  /\ UNCHANGED <<now, icd, control, list, icdsi, file, table, cache, joined,
                 ird_pc, changed, faults>>

(* The pass ends; the table is a local variable of the loop. *)
IrdAdded ==
  /\ ird_pc = "add" /\ pos > Len(table)
  /\ ird_pc' = "sleep" /\ pos' = 1 /\ table' = <<>>
  /\ UNCHANGED <<now, icd, control, list, icdsi, file, cache, joined, changed,
                 faults>>

(* The ports thread kills the IRD and starts another, with a new socket. *)
IrdRestart ==
  /\ faults < MaxFaults
  /\ faults' = faults + 1
  /\ ird_pc' = "sleep"
  /\ table' = <<>> /\ cache' = <<>> /\ pos' = 1 /\ joined' = {}
  /\ changed' = FALSE
  /\ UNCHANGED <<now, icd, control, list, icdsi, file>>

Tick ==
  /\ now < MaxTime
  /\ now' = now + 1
  /\ UNCHANGED <<icd, control, list, icdsi, file, ird>>

-----------------------------------------------------------------------------
Init ==
  /\ now = 0 /\ icd = TRUE
  /\ elems = {} /\ nb = 0 /\ freed = {}
  /\ si = [e \in Elem |-> NoSi]
  /\ last_seen = [e \in Elem |-> 0]
  /\ acks = {} /\ at = 0
  /\ si_pc = "init" /\ todo = {} /\ count = 0 /\ entries = <<>>
  /\ file = Missing
  /\ ird_pc = "sleep" /\ table = <<>> /\ cache = <<>> /\ pos = 1
  /\ joined = {} /\ changed = FALSE /\ faults = 0

HandleAck ==
  \/ \E k \in Key : \E I \in Announced[k] : AckStart(k, I)
  \/ AckFound \/ AckNext \/ AckCrash \/ AckAppend
CapRound == CapCrash \/ \E e \in elems : CapSearch(e)
SiRoutine ==
  \/ SiInit \/ SiStart
  \/ SiExpired \/ SiFresh
  \/ SiStore \/ SiWrite
IrdRoutine ==
  \/ IrdLoad \/ IrdNoFile \/ IrdLoadTruncated
  \/ IrdDrop \/ IrdUpdate \/ IrdDropped
  \/ IrdAdd \/ IrdKeep \/ IrdAdded

Next == HandleAck \/ CapRound \/ SiRoutine \/ IrdRoutine \/ IrdRestart \/ Tick

Spec == Init /\ [][Next]_vars

(* Both si_routine threads keep running.  The file is truncated for an instant
   every few seconds: after MaxFaults such loads the IRD meets it whole. *)
FairSpec ==
  /\ Spec
  /\ WF_vars(SiRoutine)
  /\ WF_vars(IrdRoutine) /\ SF_vars(IrdLoad)

-----------------------------------------------------------------------------
TypeOK ==
  /\ now \in 0 .. MaxTime /\ icd \in BOOLEAN
  /\ elems \subseteq 1 .. nb /\ nb \in 0 .. MaxEntries /\ freed \subseteq Elem
  /\ si \in [Elem -> Si] /\ last_seen \in [Elem -> 0 .. MaxTime]
  /\ acks \subseteq [key : Key, ifaces : SUBSET Addr] /\ Cardinality(acks) <= 1
  /\ at \in elems \union freed \union {0}
  /\ si_pc \in {"init", "sleep", "walk", "write"}
  /\ todo \subseteq elems /\ count \in 0 .. MaxEntries /\ entries \in Seq(Si)
  /\ file \in {Missing, Truncated} \/ file \in Seq(Si)
  /\ ird_pc \in {"sleep", "drop", "add", "failed"}
  /\ table \in Seq(Si) /\ cache \in Seq(Si)
  /\ pos \in 1 .. Max({Len(cache), Len(table)}) + 1
  /\ joined \subseteq {<<k[1], a>> : k \in Key, a \in Addr}
  /\ changed \in BOOLEAN /\ faults \in 0 .. MaxFaults

(* The control daemon has one entry per sender, although handle_ack searches the
   list without the mutex and appends after the search: its thread alone appends,
   and an element freed under the search only makes it end early. *)
OneEntryPerSender ==
  \A e, f \in elems : si[e].key = si[f].key => e = f

(* get_file_contents, which counts on what count_and_cleanup saw, never runs off
   the end of the list. *)
CountedAreListed ==
  (si_pc = "walk" /\ todo = {}) => count <= Cardinality(elems)

(* When a pass of the IRD ends its socket has joined exactly the sources that the
   entries it read list, as long as no entry came back with other interfaces: the
   cached entry is never replaced, and later leaves go by the old one. *)
JoinedMatchTable ==
  (ird_pc = "add" /\ pos > Len(table) /\ ~changed) =>
    joined = UNION {Memberships(table[k]) : k \in DOMAIN table}

(* membership() ends the IRD for three reasons only.  An entry came back with other
   interfaces than the cached one; or the entry it was adding has none of this
   host's addresses, or lists an interface that another entry of the table lists
   too, which is so when one host sends to the group from two source addresses:
   each of its entries has all its interfaces.  Leaving never fails. *)
FailureExplained ==
  (ird_pc = "failed" /\ table # <<>> /\ ~changed) =>
    LET s == table[pos - 1] IN
    \/ ~s.host_addr
    \/ \E t \in DOMAIN table \ {pos - 1} :
         Memberships(table[t]) \intersect Memberships(s) # {}

(* A pass "updates its cache and adds or drops SSM memberships as needed": it is
   not ended by membership() when all entries have addresses of this host.  The
   code does not keep this: the cached entry of a sender that has one interface
   more is not updated, and the next pass joins that interface again. *)
PassCompletes ==
  (ird_pc = "failed" /\ table # <<>>) =>
    \E t \in DOMAIN table : ~table[t].host_addr

Ended == ~icd \/ ird_pc = "failed"

(* The sources of a sender that is in the list of the control daemon are joined,
   unless it leaves the list again or a daemon ends. *)
ListedIsJoined ==
  \A e \in Elem :
    (e \in elems /\ si_pc # "init")
      ~> (e \notin elems \/ Ended \/ Memberships(si[e]) \subseteq joined)

(* The sources of a sender that is no longer in the list are left, but those that
   a listed one has too, unless it comes back, a daemon ends or an entry came back
   with other interfaces. *)
UnlistedIsLeft ==
  \A k \in Key :
    (\A e \in elems : si[e].key # k)
      ~> \/ \E e \in elems : si[e].key = k
         \/ Ended \/ changed
         \/ \A I \in Announced[k] :
              joined \intersect {<<k[1], x>> : x \in I}
                \subseteq UNION {Memberships(si[e]) : e \in elems}
============================================================================
