------------------------- MODULE SenderIfacesProofs -------------------------
(***************************************************************************)
(* Proofs about source-specific multicast.  On the side of the control     *)
(* daemon, OneEntryPerSender depends on what the search of handle_ack      *)
(* knows while elements are freed around it: the elements it has passed    *)
(* are not the sender's (Search); and CountedAreListed on what             *)
(* count_and_cleanup has counted and has still to visit (Walk).  On the    *)
(* side of the IRD, the memberships of the socket are those of the cached  *)
(* entries until one comes back changed (Cache), and a pass compares the   *)
(* cached entries with the table one by one (Phases).  The file is all     *)
(* that joins the two sides, so the invariant has one part for each.       *)
(***************************************************************************)
EXTENDS SenderIfaces, ListLemmas

(* What an entry may be: the interfaces are some that its sender announced. *)
IsAnnounced(s) == s.ifaces \in Announced[s.key]

(* A table of entries that were announced, with one entry per sender. *)
OnePerKey(seq) == \A i, j \in DOMAIN seq : seq[i].key = seq[j].key => i = j
GoodTable(seq) ==
  /\ seq \in Seq(Si) /\ OnePerKey(seq)
  /\ \A k \in DOMAIN seq : IsAnnounced(seq[k])

-----------------------------------------------------------------------------
(***************************************************************************)
(* The invariant of the control daemon.                                    *)
(***************************************************************************)
ControlTypes ==
  /\ now \in 0 .. MaxTime /\ icd \in BOOLEAN
  /\ elems \subseteq 1 .. nb /\ nb \in 0 .. MaxEntries /\ freed \subseteq Elem
  /\ si \in [Elem -> Si] /\ last_seen \in [Elem -> 0 .. MaxTime]
  /\ acks \subseteq [key : Key, ifaces : SUBSET Addr]
  /\ at \in elems \union freed \union {0}
  /\ si_pc \in {"init", "sleep", "walk", "write"}
  /\ todo \subseteq elems /\ count \in 0 .. MaxEntries

(* The search runs only for an ACK message, and what it has passed in the list is
   of other senders. *)
Search ==
  /\ acks = {} => at = 0
  /\ \A a, b \in acks : a = b
  /\ \A a \in acks : \A e \in elems : (at = 0 \/ e < at) => si[e].key # a.key

(* The walk counts elements of the list, each once. *)
Walk ==
  /\ si_pc = "init" => todo = {}
  /\ si_pc # "walk" => count = 0
  /\ count + Cardinality(todo) <= Cardinality(elems)

(* What is in the list, or on its way to the IRD, was announced, and no sender has
   two entries. *)
Entries ==
  /\ \A a \in acks : IsAnnounced(a)
  /\ \A e \in elems : IsAnnounced(si[e])
  /\ GoodTable(entries)
  /\ file \in {Missing, Truncated} \/ GoodTable(file)

ControlInv == ControlTypes /\ OneEntryPerSender /\ Search /\ Walk /\ Entries

-----------------------------------------------------------------------------
(***************************************************************************)
(* The invariant of the IRD.                                               *)
(***************************************************************************)
Channel == {<<k[1], a>> : k \in Key, a \in Addr}

IrdTypes ==
  /\ ird_pc \in {"sleep", "drop", "add", "failed"}
  /\ pos \in 1 .. Max({Len(cache), Len(table)}) + 1
  /\ joined \subseteq Channel
  /\ changed \in BOOLEAN /\ faults \in 0 .. MaxFaults
  /\ GoodTable(table) /\ GoodTable(cache)

(* The memberships that the entries of a table stand for. *)
AllMemberships(seq) == UNION {Memberships(seq[k]) : k \in DOMAIN seq}

(* No two entries of a table share a membership. *)
Apart(seq) ==
  \A i, j \in DOMAIN seq :
    Memberships(seq[i]) \intersect Memberships(seq[j]) # {} => i = j

(* Until an entry comes back changed, the socket has joined what the cached entries
   say, and no two of them say the same. *)
Cache ==
  (~changed /\ ird_pc # "failed") => joined = AllMemberships(cache) /\ Apart(cache)

(* The cached entry c has the memberships of the entry of its sender in the
   table. *)
Agrees(c) ==
  \E t \in DOMAIN table :
    table[t].key = c.key /\ Memberships(table[t]) = Memberships(c)

(* The drop phase leaves behind it cached entries that agree with the table, and
   the add phase entries of the table whose senders are cached. *)
Phases ==
  /\ ird_pc = "sleep" => pos = 1 /\ table = <<>>
  /\ ird_pc = "drop" =>
       /\ pos <= Len(cache) + 1
       /\ ~changed => \A k \in 1 .. pos - 1 : Agrees(cache[k])
  /\ ird_pc = "add" =>
       /\ pos <= Len(table) + 1
       /\ ~changed => \A k \in DOMAIN cache : Agrees(cache[k])
       /\ \A t \in 1 .. pos - 1 : Find(table[t], cache) # {}

IrdInv == IrdTypes /\ Cache /\ Phases

IInv == ControlInv /\ IrdInv

-----------------------------------------------------------------------------
(* An empty table is good. *)
LEMMA EmptyIsGood == GoodTable(<<>>)
<1>1. <<>> \in Seq(Si) /\ DOMAIN <<>> = {}
  OBVIOUS
<1>2. QED
  BY <1>1, Zenon DEF GoodTable, OnePerKey

(* What an element holds before it is created is an entry. *)
LEMMA NoSiIsSi == NoSi \in Si
<1>1. (CHOOSE k \in Key : TRUE) \in Key
  BY SiAssumption, Zenon
<1>2. QED
  BY <1>1 DEF NoSi, Si

(* The two daemons start in a state of the invariant. *)
LEMMA InitIInv == Init => IInv
<1> SUFFICES ASSUME Init PROVE IInv
  OBVIOUS
<1> USE SiAssumption DEF Init
<1>1. ControlTypes
  <2>2. si \in [Elem -> Si]
    BY NoSiIsSi
  <2>3. last_seen \in [Elem -> 0 .. MaxTime]
    OBVIOUS
  <2>4. QED
    BY <2>2, <2>3 DEF ControlTypes
<1>2. OneEntryPerSender /\ Search
  BY DEF OneEntryPerSender, Search
<1>3. Walk
  BY FS_EmptySet DEF Walk
<1>4. Entries
  BY EmptyIsGood DEF Entries
<1>5. IrdTypes
  <2>1. Len(cache) = 0 /\ Len(table) = 0
    OBVIOUS
  <2>2. pos \in 1 .. Max({Len(cache), Len(table)}) + 1
    BY <2>1, PosRange
  <2>3. GoodTable(table) /\ GoodTable(cache)
    BY EmptyIsGood, Zenon
  <2>4. /\ ird_pc \in {"sleep", "drop", "add", "failed"}
        /\ joined \subseteq Channel /\ faults \in 0 .. MaxFaults
    OBVIOUS
  <2>5. changed \in BOOLEAN
    BY Zenon
  <2>6. QED
    BY <2>2, <2>3, <2>4, <2>5, Zenon DEF IrdTypes
<1>6. Cache /\ Phases
  BY DEF Cache, Phases, AllMemberships, Apart
<1>7. QED
  BY <1>1, <1>2, <1>3, <1>4, <1>5, <1>6 DEF IInv, ControlInv, IrdInv

-----------------------------------------------------------------------------
(***************************************************************************)
(* Facts about the list of the control daemon.                             *)
(***************************************************************************)

(* The list is finite, and no longer than the number of entries created. *)
LEMMA ListFinite ==
  ASSUME ControlTypes
  PROVE  /\ IsFiniteSet(elems) /\ IsFiniteSet(todo) /\ elems \subseteq Nat
         /\ Cardinality(elems) \in Nat /\ Cardinality(todo) \in Nat
         /\ Cardinality(elems) <= nb
         /\ elems \subseteq Elem
<1>1. /\ nb \in Nat /\ elems \subseteq 1 .. nb /\ todo \subseteq elems
      /\ nb <= MaxEntries /\ MaxEntries \in Nat
  BY SiAssumption DEF ControlTypes
<1>2. IsFiniteSet(1 .. nb) /\ Cardinality(1 .. nb) = nb
  BY <1>1, FS_Interval
<1>3. IsFiniteSet(elems) /\ Cardinality(elems) <= nb
  BY <1>1, <1>2, FS_Subset
<1>4. IsFiniteSet(todo)
  BY <1>1, <1>3, FS_Subset
<1>5. elems \subseteq Elem /\ elems \subseteq Nat
  BY <1>1 DEF Elem
<1>6. QED
  BY <1>3, <1>4, <1>5, FS_CardinalityType

(* The head of a list is its least element, or none. *)
LEMMA HeadProperties ==
  ASSUME NEW S, S \subseteq Nat
  PROVE  \/ S = {} /\ Head0(S) = 0
         \/ /\ Head0(S) \in S /\ \A e \in S : Head0(S) <= e
  BY MinIn DEF Head0

(* Steps from the head by numbers lower than the length stay in the list, and
   different numbers lead to different elements. *)
LEMMA NthProperties ==
  ASSUME ControlTypes, NEW n \in Nat, n <= Cardinality(elems)
  PROVE  /\ \A k \in 1 .. n : Nth(k) \in elems
         /\ \A j, k \in 1 .. n : Nth(j) = Nth(k) => j = k
<1> DEFINE rank(e) == Cardinality({f \in elems : f < e})
<1>1. ASSUME NEW k \in 1 .. n
      PROVE  Nth(k) \in elems /\ rank(Nth(k)) = k - 1
  <2>1. /\ k - 1 \in Nat /\ k - 1 < Cardinality(elems)
        /\ elems \subseteq Nat /\ IsFiniteSet(elems)
    BY ListFinite
  <2>2. \E e \in elems : rank(e) = k - 1
    BY <2>1, Rank
  <2>3. QED
    BY <2>2, Zenon DEF Nth
<1> HIDE DEF rank
<1>2. QED
  BY <1>1

-----------------------------------------------------------------------------
(***************************************************************************)
(* The steps of the control thread.                                        *)
(***************************************************************************)

(* handle_ack begins its search at the head of the list: it has passed nothing. *)
LEMMA AckStartStep ==
  ASSUME ControlInv, NEW k \in Key, NEW I \in Announced[k], AckStart(k, I)
  PROVE  ControlInv'
<1> USE DEF ControlInv
<1>1. /\ acks' = {[key |-> k, ifaces |-> I]} /\ freed' = {}
      /\ at' = Head0(elems)
      /\ UNCHANGED <<now, icd, elems, si, last_seen, nb, si_pc, todo, count,
                     entries, file>>
  BY DEF AckStart, icdsi
<1>2. \/ elems = {} /\ at' = 0
      \/ at' \in elems /\ \A e \in elems : at' <= e
  BY <1>1, ListFinite, HeadProperties
<1>3. I \subseteq Addr
  BY DEF Addr
<1>4. ControlTypes'
  BY <1>1, <1>2, <1>3 DEF ControlTypes
<1>5. OneEntryPerSender' /\ Walk'
  BY <1>1 DEF OneEntryPerSender, Walk
<1>6. Search'
  <2>1. ASSUME NEW e \in elems, at' = 0 \/ e < at' PROVE FALSE
    <3>1. \A f \in elems : f \in Nat /\ f # 0
      BY SiAssumption DEF ControlTypes
    <3>2. at' \in elems /\ at' <= e
      BY <1>2, <2>1
    <3>3. QED
      BY <2>1, <3>1, <3>2
  <2>2. QED
    BY <1>1, <2>1 DEF Search
<1>7. Entries'
  BY <1>1 DEF Entries, IsAnnounced
<1>8. QED
  BY <1>4, <1>5, <1>6, <1>7

(* in_sender_ifaces found an element: only its last_seen is written, in the list or
   in memory that was freed. *)
LEMMA AckFoundStep ==
  ASSUME ControlInv, AckFound
  PROVE  ControlInv'
<1> USE DEF ControlInv
<1>1. /\ acks' = {} /\ at' = 0 /\ freed' = {} /\ at # 0
      /\ last_seen' = [last_seen EXCEPT ![at] = now]
      /\ UNCHANGED <<now, icd, elems, si, nb, si_pc, todo, count, entries, file>>
  BY DEF AckFound, icdsi
<1>2. last_seen' \in [Elem -> 0 .. MaxTime]
  BY <1>1 DEF ControlTypes
<1>3. ControlTypes'
  BY <1>1, <1>2 DEF ControlTypes
<1>4. OneEntryPerSender' /\ Walk' /\ Search' /\ Entries'
  BY <1>1 DEF OneEntryPerSender, Walk, Search, Entries
<1>5. QED
  BY <1>3, <1>4

(* iterator->next, also out of a freed element, passes no element of the list but
   the one the search stands on. *)
LEMMA AckNextStep ==
  ASSUME ControlInv, AckNext
  PROVE  ControlInv'
<1> USE DEF ControlInv
<1>1. /\ at' \in NextOf(at) /\ at # 0
      /\ UNCHANGED <<now, icd, acks, elems, si, last_seen, nb, freed, si_pc, todo,
                     count, entries, file>>
  BY DEF AckNext, icdsi, list
<1>2. \A a \in acks : si[at].key # a.key
  BY DEF AckNext, Search
<1> DEFINE later == {f \in elems : f > at}
<1>3. \/ later = {} /\ at' = 0
      \/ at' \in later /\ \A f \in later : at' <= f
      \/ at' \in freed /\ \A f \in later : at' < f
  <2>1. \/ at' = Head0(later)
        \/ at' \in freed /\ \A f \in later : at' < f
    BY <1>1, Zenon DEF NextOf
  <2>2. later \subseteq Nat
    BY ListFinite
  <2> HIDE DEF later
  <2>3. QED
    BY <2>1, <2>2, HeadProperties
<1>4. at' \in elems \union freed \union {0}
  BY <1>3
<1>5. ControlTypes'
  BY <1>1, <1>4 DEF ControlTypes
<1>6. OneEntryPerSender' /\ Walk' /\ Entries'
  BY <1>1 DEF OneEntryPerSender, Walk, Entries
<1>7. Search'
  <2>1. ASSUME NEW a \in acks, NEW e \in elems, at' = 0 \/ e < at'
        PROVE  si[e].key # a.key
    <3>1. e \in Nat /\ at \in Nat /\ at' \in Nat
      BY <1>4, ListFinite, SiAssumption DEF ControlTypes, Elem
    <3>2. e \notin later
      <4>1. \A f \in freed : f # 0
        BY SiAssumption DEF ControlTypes, Elem
      <4>2. \A f \in later : f # 0
        BY DEF ControlTypes
      <4>3. QED
        BY <1>3, <2>1, <3>1, <4>1, <4>2
    <3>3. e <= at
      BY <3>1, <3>2
    <3>4. CASE e = at
      BY <1>2, <3>4
    <3>5. CASE e < at
      BY <3>5 DEF Search
    <3>6. QED
      BY <3>1, <3>3, <3>4, <3>5
  <2>2. at # 0 => acks # {}
    BY DEF Search
  <2>3. QED
    BY <1>1, <2>1, <2>2 DEF Search
<1>8. QED
  BY <1>5, <1>6, <1>7

(* A read of freed memory, by handle_ack or by as_routine, may end the control
   daemon: what remains of it is the file. *)
LEMMA IcdEndsStep ==
  ASSUME ControlInv, IcdEnds
  PROVE  ControlInv'
<1> USE SiAssumption DEF IcdEnds
<1>1. ControlTypes'
  <2>1. si' \in [Elem -> Si]
    BY NoSiIsSi
  <2>2. last_seen' \in [Elem -> 0 .. MaxTime]
    OBVIOUS
  <2>3. icd' \in BOOLEAN
    BY Zenon
  <2>4. now' \in 0 .. MaxTime
    BY DEF ControlInv, ControlTypes
  <2>5. /\ elems' \subseteq 1 .. nb' /\ nb' \in 0 .. MaxEntries
        /\ freed' \subseteq Elem /\ todo' \subseteq elems'
        /\ acks' \subseteq [key : Key, ifaces : SUBSET Addr]
        /\ at' \in elems' \union freed' \union {0}
    OBVIOUS
  <2>6. si_pc' \in {"init", "sleep", "walk", "write"} /\ count' \in 0 .. MaxEntries
    OBVIOUS
  <2>7. QED
    BY <2>1, <2>2, <2>3, <2>4, <2>5, <2>6 DEF ControlTypes
<1>2. OneEntryPerSender' /\ Search'
  BY DEF OneEntryPerSender, Search
<1>3. Walk'
  <2>1. Cardinality({}) = 0
    BY FS_EmptySet
  <2>2. QED
    BY <2>1 DEF Walk
<1>4. Entries'
  <2>1. GoodTable(entries')
    BY EmptyIsGood
  <2>2. QED
    BY <2>1 DEF ControlInv, Entries, GoodTable, OnePerKey, IsAnnounced
<1>5. QED
  BY <1>1, <1>2, <1>3, <1>4 DEF ControlInv

(* as_routine refreshes an entry of the list. *)
LEMMA CapSearchStep ==
  ASSUME ControlInv, NEW e \in elems, CapSearch(e)
  PROVE  ControlInv'
<1> USE DEF ControlInv
<1>1. /\ last_seen' = [last_seen EXCEPT ![e] = now]
      /\ UNCHANGED <<now, icd, acks, at, elems, si, nb, freed, si_pc, todo,
                     count, entries, file>>
  BY DEF CapSearch, icdsi, control
<1>2. last_seen' \in [Elem -> 0 .. MaxTime]
  BY <1>1 DEF ControlTypes
<1>3. ControlTypes'
  BY <1>1, <1>2 DEF ControlTypes
<1>4. OneEntryPerSender' /\ Walk' /\ Search' /\ Entries'
  BY <1>1 DEF OneEntryPerSender, Walk, Search, Entries
<1>5. QED
  BY <1>3, <1>4

(* handle_ack appends an entry for a sender that its search, which has passed the
   whole list, did not meet. *)
LEMMA AckAppendStep ==
  ASSUME ControlInv, AckAppend
  PROVE  ControlInv'
<1> USE DEF ControlInv
<1> DEFINE n == nb + 1
<1> PICK a \in acks :
        \E s \in create_sender_ifaces(a) : si' = [si EXCEPT ![n] = s]
  BY DEF AckAppend
<1>1. PICK s \in create_sender_ifaces(a) : si' = [si EXCEPT ![n] = s]
  OBVIOUS
<1>2. /\ nb' = n /\ nb < MaxEntries /\ at = 0 /\ at' = at
      /\ elems' = elems \union {n}
      /\ last_seen' = [last_seen EXCEPT ![n] = now]
      /\ todo' = IF todo = {} THEN {} ELSE todo \union {n}
      /\ acks' = {} /\ freed' = {}
      /\ UNCHANGED <<now, icd, si_pc, count, entries, file>>
  BY DEF AckAppend
<1>3. s \in Si /\ s.key = a.key /\ s.ifaces = a.ifaces
  <2>1. a.key \in Key /\ a.ifaces \in SUBSET Addr
    BY DEF ControlTypes
  <2>2. PICK h \in BOOLEAN :
          s = [key |-> a.key, ifaces |-> a.ifaces, host_addr |-> h]
    BY <1>1 DEF create_sender_ifaces
  <2>3. QED
    BY <2>1, <2>2 DEF Si
<1>4. n \in Elem /\ n \notin elems /\ n \in Nat /\ n # 0 /\ nb \in Nat
  BY <1>2, SiAssumption DEF ControlTypes, Elem
<1>5. /\ si' \in [Elem -> Si] /\ si'[n] = s
      /\ \A e \in elems : si'[e] = si[e]
  BY <1>1, <1>3, <1>4, ListFinite DEF ControlTypes
<1>6. ControlTypes'
  <2>1. last_seen' \in [Elem -> 0 .. MaxTime]
    BY <1>2, <1>4 DEF ControlTypes
  <2>2. elems' \subseteq 1 .. nb' /\ nb' \in 0 .. MaxEntries
    BY <1>2, <1>4, SiAssumption DEF ControlTypes
  <2>3. QED
    BY <1>2, <1>5, <2>1, <2>2 DEF ControlTypes
<1>7. OneEntryPerSender'
  <2>1. \A e \in elems : si[e].key # a.key
    BY <1>2 DEF Search
  <2>2. QED
    BY <1>2, <1>3, <1>5, <2>1 DEF OneEntryPerSender
<1>8. Search'
  BY <1>2 DEF Search
<1>9. Walk'
  <2>1. Cardinality(elems') = Cardinality(elems) + 1
    BY <1>2, <1>4, ListFinite, FS_AddElement
  <2>2. CASE todo = {}
    BY <1>2, <2>1, <2>2, ListFinite DEF Walk, ControlTypes
  <2>3. CASE todo # {}
    <3>1. n \notin todo
      BY <1>4 DEF ControlTypes
    <3>2. Cardinality(todo') = Cardinality(todo) + 1
      BY <1>2, <2>3, <3>1, ListFinite, FS_AddElement
    <3>3. QED
      BY <1>2, <2>1, <2>3, <3>2, ListFinite DEF Walk, ControlTypes
  <2>4. QED
    BY <2>2, <2>3
<1>10. Entries'
  <2>1. IsAnnounced(s)
    BY <1>3 DEF Entries, IsAnnounced
  <2>2. QED
    BY <1>2, <1>5, <2>1 DEF Entries
<1>11. QED
  BY <1>6, <1>7, <1>8, <1>9, <1>10

-----------------------------------------------------------------------------
(***************************************************************************)
(* The steps of the sender interfaces thread of the control daemon.        *)
(***************************************************************************)

(* list_init drops the entries made before it, while no search is on. *)
LEMMA SiInitStep ==
  ASSUME ControlInv, SiInit
  PROVE  ControlInv'
<1> USE DEF ControlInv
<1>1. /\ elems' = {} /\ file' = Truncated /\ si_pc' = "write"
      /\ si_pc = "init" /\ acks = {}
      /\ UNCHANGED <<now, icd, acks, at, si, last_seen, nb, freed, todo, count,
                     entries>>
  BY DEF SiInit, control
<1>2. todo = {} /\ count = 0 /\ at = 0
  BY <1>1 DEF Walk, Search
<1>3. ControlTypes'
  BY <1>1, <1>2 DEF ControlTypes
<1>4. OneEntryPerSender' /\ Search'
  BY <1>1, <1>2 DEF OneEntryPerSender, Search
<1>5. Walk'
  BY <1>1, <1>2, FS_EmptySet DEF Walk
<1>6. Entries'
  BY <1>1 DEF Entries
<1>7. QED
  BY <1>3, <1>4, <1>5, <1>6

(* A walk begins at the head of the list with a count of zero. *)
LEMMA SiStartStep ==
  ASSUME ControlInv, SiStart
  PROVE  ControlInv'
<1> USE DEF ControlInv
<1>1. /\ todo' = elems /\ si_pc' = "walk" /\ si_pc = "sleep"
      /\ UNCHANGED <<now, icd, acks, at, elems, si, last_seen, nb, freed, count,
                     entries, file>>
  BY DEF SiStart, control, list
<1>2. ControlTypes'
  BY <1>1 DEF ControlTypes
<1>3. OneEntryPerSender' /\ Search' /\ Entries'
  BY <1>1 DEF OneEntryPerSender, Search, Entries
<1>4. Walk'
  BY <1>1, ListFinite DEF Walk
<1>5. QED
  BY <1>2, <1>3, <1>4

(* count_and_cleanup frees an element that it has not counted.  A search that
   stands on it keeps a dangling pointer, and has still passed no element of its
   sender. *)
LEMMA SiExpiredStep ==
  ASSUME ControlInv, SiExpired
  PROVE  ControlInv'
<1> USE DEF ControlInv
<1>1. PICK m : m = Min(todo)
  OBVIOUS
<1>2. /\ elems' = elems \ {m} /\ todo' = todo \ {m}
      /\ freed' = IF acks = {} THEN {} ELSE freed \union {m}
      /\ si_pc = "walk" /\ todo # {}
      /\ UNCHANGED <<now, icd, acks, at, si, last_seen, nb, si_pc, count, entries,
                     file>>
  BY <1>1 DEF SiExpired, control
<1>3. m \in todo /\ m \in elems /\ m \in Elem
  <2>1. todo \subseteq Nat
    BY ListFinite DEF ControlTypes
  <2>2. m \in todo
    BY <1>1, <1>2, <2>1, MinIn
  <2>3. QED
    BY <2>2, ListFinite DEF ControlTypes
<1>4. ControlTypes'
  <2>1. freed' \subseteq Elem
    BY <1>2, <1>3 DEF ControlTypes
  <2>2. at' \in elems' \union freed' \union {0}
    BY <1>2 DEF ControlTypes, Search
  <2>3. elems' \subseteq 1 .. nb' /\ todo' \subseteq elems'
    BY <1>2 DEF ControlTypes
  <2>4. QED
    BY <1>2, <2>1, <2>2, <2>3 DEF ControlTypes
<1>5. OneEntryPerSender' /\ Search' /\ Entries'
  BY <1>2 DEF OneEntryPerSender, Search, Entries
<1>6. Walk'
  <2>1. /\ Cardinality(elems') = Cardinality(elems) - 1
        /\ Cardinality(todo') = Cardinality(todo) - 1
    BY <1>2, <1>3, ListFinite, FS_RemoveElement
  <2>2. count \in Nat
    BY DEF ControlTypes
  <2>3. QED
    BY <1>2, <2>1, <2>2, ListFinite DEF Walk
<1>7. QED
  BY <1>4, <1>5, <1>6

(* count_and_cleanup counts an element, which stays in the list. *)
LEMMA SiFreshStep ==
  ASSUME ControlInv, SiFresh
  PROVE  ControlInv'
<1> USE DEF ControlInv
<1>1. PICK m : m = Min(todo)
  OBVIOUS
<1>2. /\ todo' = todo \ {m} /\ count' = count + 1
      /\ si_pc = "walk" /\ todo # {}
      /\ UNCHANGED <<now, icd, acks, at, elems, si, last_seen, nb, freed, si_pc,
                     entries, file>>
  BY <1>1 DEF SiFresh, control, list
<1>3. m \in todo
  <2>1. todo \subseteq Nat
    BY ListFinite DEF ControlTypes
  <2>2. QED
    BY <1>1, <1>2, <2>1, MinIn
<1>4. Cardinality(todo') = Cardinality(todo) - 1 /\ Cardinality(todo') \in Nat
  BY <1>2, <1>3, ListFinite, FS_RemoveElement, FS_CardinalityType
<1>5. count \in Nat /\ nb \in Nat /\ nb <= MaxEntries /\ MaxEntries \in Nat
  BY SiAssumption DEF ControlTypes
<1>6. Walk'
  BY <1>2, <1>4, <1>5, ListFinite DEF Walk
<1>7. ControlTypes'
  <2>1. count' \in 0 .. MaxEntries
    BY <1>2, <1>4, <1>5, ListFinite DEF Walk
  <2>2. QED
    BY <1>2, <2>1 DEF ControlTypes
<1>8. OneEntryPerSender' /\ Search' /\ Entries'
  BY <1>2 DEF OneEntryPerSender, Search, Entries
<1>9. QED
  BY <1>6, <1>7, <1>8

(* get_file_contents copies entries of the list, each at most once. *)
LEMMA SiStoreStep ==
  ASSUME ControlInv, SiStore
  PROVE  ControlInv'
<1> USE DEF ControlInv
<1>1. /\ entries' = [k \in 1 .. count |-> si[Nth(k)]]
      /\ count' = 0 /\ file' = Truncated /\ si_pc' = "write"
      /\ si_pc = "walk" /\ todo = {}
      /\ UNCHANGED <<now, icd, acks, at, elems, si, last_seen, nb, freed, todo>>
  BY DEF SiStore, control, list
<1>2. count \in Nat /\ count <= Cardinality(elems)
  BY <1>1, FS_EmptySet, ListFinite, SiAssumption DEF ControlTypes, Walk
<1>3. /\ \A k \in 1 .. count : Nth(k) \in elems
      /\ \A j, k \in 1 .. count : Nth(j) = Nth(k) => j = k
  BY <1>2, NthProperties
<1>4. GoodTable(entries')
  <2>1. \A k \in 1 .. count : si[Nth(k)] \in Si /\ IsAnnounced(si[Nth(k)])
    BY <1>3, ListFinite DEF ControlTypes, Entries
  <2>2. entries' \in Seq(Si)
    BY <1>1, <1>2, <2>1
  <2>3. OnePerKey(entries')
    BY <1>1, <1>3 DEF OnePerKey, OneEntryPerSender
  <2>4. QED
    BY <1>1, <2>1, <2>2, <2>3 DEF GoodTable
<1>5. ControlTypes'
  BY <1>1, SiAssumption DEF ControlTypes
<1>6. OneEntryPerSender' /\ Search'
  BY <1>1 DEF OneEntryPerSender, Search
<1>7. Walk'
  BY <1>1, ListFinite, FS_EmptySet DEF Walk
<1>8. Entries'
  BY <1>1, <1>4 DEF Entries
<1>9. QED
  BY <1>5, <1>6, <1>7, <1>8

(* The copies reach the file. *)
LEMMA SiWriteStep ==
  ASSUME ControlInv, SiWrite
  PROVE  ControlInv'
<1> USE DEF ControlInv
<1>1. /\ file' = entries /\ entries' = <<>> /\ si_pc' = "sleep"
      /\ si_pc = "write"
      /\ UNCHANGED <<now, icd, acks, at, elems, si, last_seen, nb, freed, todo,
                     count>>
  BY DEF SiWrite, control, list
<1>2. ControlTypes'
  BY <1>1 DEF ControlTypes
<1>3. OneEntryPerSender' /\ Search' /\ Walk'
  BY <1>1 DEF OneEntryPerSender, Search, Walk
<1>4. Entries'
  BY <1>1, EmptyIsGood DEF Entries
<1>5. QED
  BY <1>2, <1>3, <1>4

(* Time passes, or nothing of the control daemon changes. *)
LEMMA ControlQuietStep ==
  ASSUME ControlInv, now' \in 0 .. MaxTime,
         UNCHANGED <<icd, control, list, icdsi, file>>
  PROVE  ControlInv'
<1>1. UNCHANGED <<icd, acks, at, elems, si, last_seen, nb, freed, si_pc, todo,
                  count, entries, file>>
  BY DEF control, list, icdsi
<1>2. QED
  BY <1>1 DEF ControlInv, ControlTypes, OneEntryPerSender, Search, Walk, Entries

-----------------------------------------------------------------------------
(***************************************************************************)
(* Facts about tables and memberships.                                     *)
(***************************************************************************)

(* The memberships of an entry are of groups and sources that exist. *)
LEMMA MembershipsInChannel ==
  ASSUME NEW s \in Si
  PROVE  Memberships(s) \subseteq Channel
<1>1. s.key \in Key /\ s.ifaces \subseteq Addr
  BY DEF Si
<1>2. ASSUME NEW a \in s.ifaces PROVE <<s.key[1], a>> \in Channel
  BY <1>1 DEF Channel
<1>3. QED
  BY <1>2 DEF Memberships

(* The entries of a good table have positions, and are entries. *)
LEMMA GoodTableElements ==
  ASSUME NEW seq, GoodTable(seq)
  PROVE  /\ Len(seq) \in Nat /\ DOMAIN seq = 1 .. Len(seq)
         /\ \A k \in DOMAIN seq : seq[k] \in Si
  BY DEF GoodTable

(* list_append of an entry whose sender has none keeps a table good. *)
LEMMA AppendGood ==
  ASSUME NEW seq, GoodTable(seq), NEW s \in Si, IsAnnounced(s), Find(s, seq) = {}
  PROVE  /\ GoodTable(Append(seq, s))
         /\ DOMAIN Append(seq, s) = DOMAIN seq \union {Len(seq) + 1}
         /\ Append(seq, s)[Len(seq) + 1] = s
         /\ \A k \in DOMAIN seq : Append(seq, s)[k] = seq[k]
<1>1. seq \in Seq(Si)
  BY DEF GoodTable
<1>2. /\ Append(seq, s) \in Seq(Si)
      /\ DOMAIN Append(seq, s) = DOMAIN seq \union {Len(seq) + 1}
      /\ Append(seq, s)[Len(seq) + 1] = s
      /\ \A k \in DOMAIN seq : Append(seq, s)[k] = seq[k]
  BY <1>1
<1>3. \A k \in DOMAIN seq : seq[k].key # s.key
  BY DEF Find
<1>4. OnePerKey(Append(seq, s))
  BY <1>2, <1>3 DEF GoodTable, OnePerKey
<1>5. \A k \in DOMAIN Append(seq, s) : IsAnnounced(Append(seq, s)[k])
  BY <1>2 DEF GoodTable
<1>6. QED
  BY <1>2, <1>4, <1>5 DEF GoodTable

(* Joining the groups of a new entry that shares none with the others keeps the
   memberships and the entries in step. *)
LEMMA AppendMemberships ==
  ASSUME NEW seq, GoodTable(seq), NEW s \in Si, IsAnnounced(s), Find(s, seq) = {}
  PROVE  /\ AllMemberships(Append(seq, s)) = AllMemberships(seq) \union Memberships(s)
         /\ Apart(seq) /\ Memberships(s) \intersect AllMemberships(seq) = {}
              => Apart(Append(seq, s))
<1> DEFINE t == Append(seq, s)
           n == Len(seq) + 1
<1>1. /\ DOMAIN t = DOMAIN seq \union {n} /\ t[n] = s
      /\ \A k \in DOMAIN seq : t[k] = seq[k]
  BY AppendGood
<1> HIDE DEF t, n
<1>2. AllMemberships(t) = AllMemberships(seq) \union Memberships(s)
  <2>1. ASSUME NEW x
        PROVE  x \in AllMemberships(t)
                 <=> x \in AllMemberships(seq) \/ x \in Memberships(s)
    BY <1>1, Zenon DEF AllMemberships
  <2>2. QED
    BY <2>1
<1>3. ASSUME Apart(seq), Memberships(s) \intersect AllMemberships(seq) = {}
      PROVE  Apart(t)
  <2>1. \A k \in DOMAIN seq : Memberships(s) \intersect Memberships(seq[k]) = {}
    BY <1>3, Zenon DEF AllMemberships
  <2>2. QED
    BY <1>1, <1>3, <2>1 DEF Apart
<1>4. QED
  BY <1>2, <1>3 DEF t

(* list_delete keeps a table good, and takes away the memberships of the deleted
   entry only if no other entry has them. *)
LEMMA RemoveGood ==
  ASSUME NEW seq, GoodTable(seq), NEW p \in 1 .. Len(seq)
  PROVE  /\ GoodTable(RemoveAt(seq, p))
         /\ Len(RemoveAt(seq, p)) = Len(seq) - 1
         /\ \A i \in 1 .. p - 1 : RemoveAt(seq, p)[i] = seq[i]
         /\ Apart(seq) =>
              /\ Apart(RemoveAt(seq, p))
              /\ AllMemberships(RemoveAt(seq, p))
                   = AllMemberships(seq) \ Memberships(seq[p])
<1> DEFINE t == RemoveAt(seq, p)
           old(i) == IF i < p THEN i ELSE i + 1
<1>1. seq \in Seq(Si) /\ DOMAIN seq = 1 .. Len(seq) /\ Len(seq) \in Nat
  BY DEF GoodTable
<1>2. /\ t \in Seq(Si) /\ Len(t) = Len(seq) - 1
      /\ \A i \in 1 .. Len(seq) - 1 : t[i] = IF i < p THEN seq[i] ELSE seq[i + 1]
  BY <1>1, RemoveAtProperties
<1> HIDE DEF t
<1>3. DOMAIN t = 1 .. Len(seq) - 1
  BY <1>1, <1>2
<1>4. ASSUME NEW i \in DOMAIN t
      PROVE  old(i) \in DOMAIN seq /\ old(i) # p /\ t[i] = seq[old(i)]
  BY <1>1, <1>2, <1>3
<1>5. ASSUME NEW j \in DOMAIN seq, j # p
      PROVE  \E i \in DOMAIN t : old(i) = j
  <2>1. CASE j < p
    <3>1. j \in DOMAIN t /\ old(j) = j
      BY <1>1, <1>3, <2>1
    <3>2. QED
      BY <3>1
  <2>2. CASE ~(j < p)
    <3>1. j - 1 \in DOMAIN t /\ old(j - 1) = j
      BY <1>1, <1>3, <1>5, <2>2
    <3>2. QED
      BY <3>1
  <2>3. QED
    BY <2>1, <2>2
<1>6. \A i, j \in DOMAIN t : old(i) = old(j) => i = j
  BY <1>1, <1>3
<1>7. \A i \in 1 .. p - 1 : t[i] = seq[i]
  BY <1>1, <1>2
<1> HIDE DEF old
<1>8. GoodTable(t)
  <2>1. OnePerKey(t)
    BY <1>4, <1>6 DEF GoodTable, OnePerKey
  <2>2. \A i \in DOMAIN t : IsAnnounced(t[i])
    BY <1>4 DEF GoodTable
  <2>3. QED
    BY <1>2, <2>1, <2>2 DEF GoodTable
<1>9. ASSUME Apart(seq)
      PROVE  /\ Apart(t)
             /\ AllMemberships(t) = AllMemberships(seq) \ Memberships(seq[p])
  <2>1. Apart(t)
    BY <1>4, <1>6, <1>9 DEF Apart
  <2>2. p \in DOMAIN seq
    BY <1>1
  <2>3. \A j \in DOMAIN seq :
          j # p => Memberships(seq[j]) \intersect Memberships(seq[p]) = {}
    BY <1>9, <2>2 DEF Apart
  <2>4. ASSUME NEW x \in AllMemberships(t)
        PROVE  x \in AllMemberships(seq) /\ x \notin Memberships(seq[p])
    <3>1. PICK i \in DOMAIN t : x \in Memberships(t[i])
      BY <2>4 DEF AllMemberships
    <3>2. PICK j \in DOMAIN seq : j # p /\ x \in Memberships(seq[j])
      BY <1>4, <3>1
    <3>3. QED
      BY <2>3, <3>2, Zenon DEF AllMemberships
  <2>5. ASSUME NEW x \in AllMemberships(seq), x \notin Memberships(seq[p])
        PROVE  x \in AllMemberships(t)
    <3>1. PICK j \in DOMAIN seq : x \in Memberships(seq[j])
      BY <2>5 DEF AllMemberships
    <3>2. PICK i \in DOMAIN t : old(i) = j
      BY <1>5, <2>5, <3>1
    <3>3. x \in Memberships(t[i])
      BY <1>4, <3>1, <3>2
    <3>4. QED
      BY <3>3, Zenon DEF AllMemberships
  <2>6. QED
    BY <2>1, <2>4, <2>5
<1>10. QED
  BY <1>2, <1>7, <1>8, <1>9 DEF t

-----------------------------------------------------------------------------
(***************************************************************************)
(* The steps of the sender interfaces thread of the IRD.                   *)
(***************************************************************************)

(* What IrdTypes needs of a step. *)
LEMMA IrdTypesHold ==
  ASSUME GoodTable(table)', GoodTable(cache)', pos' \in Nat \ {0},
         pos' <= Len(cache') + 1 \/ pos' <= Len(table') + 1,
         ird_pc' \in {"sleep", "drop", "add", "failed"},
         joined' \subseteq Channel, changed' \in BOOLEAN,
         faults' \in 0 .. MaxFaults
  PROVE  IrdTypes'
<1>1. Len(cache') \in Nat /\ Len(table') \in Nat
  BY DEF GoodTable
<1>2. pos' \in 1 .. Max({Len(cache'), Len(table')}) + 1
  BY <1>1, PosRange
<1>3. QED
  BY <1>2, Zenon DEF IrdTypes

(* What IrdTypes says of a state, for arithmetic. *)
LEMMA IrdNumbers ==
  ASSUME IrdTypes
  PROVE  /\ Len(cache) \in Nat /\ Len(table) \in Nat /\ pos \in Nat \ {0}
         /\ DOMAIN cache = 1 .. Len(cache) /\ DOMAIN table = 1 .. Len(table)
         /\ pos <= Len(cache) + 1 \/ pos <= Len(table) + 1
         /\ \A k \in DOMAIN cache : cache[k] \in Si /\ IsAnnounced(cache[k])
         /\ \A k \in DOMAIN table : table[k] \in Si /\ IsAnnounced(table[k])
<1>1. /\ Len(cache) \in Nat /\ Len(table) \in Nat
      /\ DOMAIN cache = 1 .. Len(cache) /\ DOMAIN table = 1 .. Len(table)
      /\ \A k \in DOMAIN cache : cache[k] \in Si /\ IsAnnounced(cache[k])
      /\ \A k \in DOMAIN table : table[k] \in Si /\ IsAnnounced(table[k])
  BY DEF IrdTypes, GoodTable
<1>2. \/ Max({Len(cache), Len(table)}) = Len(cache)
      \/ Max({Len(cache), Len(table)}) = Len(table)
  <2>1. \E x \in {Len(cache), Len(table)} :
          \A y \in {Len(cache), Len(table)} : x >= y
    BY <1>1
  <2>2. QED
    BY <2>1, Zenon DEF Max
<1>3. pos \in 1 .. Max({Len(cache), Len(table)}) + 1
  BY DEF IrdTypes
<1>4. QED
  BY <1>1, <1>2, <1>3

(* setsockopt for a set of leaves and a set of joins: all succeed, or the daemon
   ends. *)
LEMMA ApplyCases ==
  ASSUME NEW L, NEW J, NEW h, Apply(L, J, h)
  PROVE  \/ /\ J \intersect (joined \ L) = {}
            /\ joined' = (joined \ L) \union J /\ ird_pc' = ird_pc
         \/ /\ ~(L \subseteq joined /\ J \intersect (joined \ L) = {} /\ (J # {} => h))
            /\ joined' = {} /\ ird_pc' = "failed"
  BY Zenon DEF Apply

(* An IRD that has ended satisfies the invariant if its types are right. *)
LEMMA FailedStep ==
  ASSUME IrdTypes', ird_pc' = "failed"
  PROVE  IrdInv'
  BY DEF IrdInv, Cache, Phases

(* The thread takes the file for its table: no cached entry is compared yet. *)
LEMMA IrdLoadStep ==
  ASSUME ControlInv, IrdInv, IrdLoad
  PROVE  IrdInv'
<1> USE DEF IrdInv
<1>1. /\ table' = file /\ ird_pc' = "drop" /\ pos' = 1 /\ ird_pc = "sleep"
      /\ file \notin {Missing, Truncated}
      /\ UNCHANGED <<cache, joined, changed, faults>>
  BY DEF IrdLoad
<1>2. GoodTable(table)'
  BY <1>1 DEF ControlInv, Entries
<1>3. IrdTypes'
  <2>1. pos' <= Len(cache') + 1 /\ GoodTable(cache)'
    BY <1>1, IrdNumbers DEF IrdTypes
  <2>2. QED
    BY <1>1, <1>2, <2>1, IrdTypesHold DEF IrdTypes
<1>4. Cache'
  BY <1>1 DEF Cache
<1>5. Phases'
  BY <1>1, IrdNumbers DEF Phases
<1>6. QED
  BY <1>3, <1>4, <1>5

(* Without a file the daemon ends. *)
LEMMA IrdNoFileStep ==
  ASSUME IrdInv, IrdNoFile
  PROVE  IrdInv'
<1>1. ird_pc' = "failed" /\ UNCHANGED <<table, cache, pos, joined, changed, faults>>
  BY DEF IrdNoFile
<1>2. IrdTypes'
  BY <1>1 DEF IrdInv, IrdTypes
<1>3. QED
  BY <1>1, <1>2, FailedStep

(* A truncated file is a table without entries, or the end of the daemon. *)
LEMMA IrdLoadTruncatedStep ==
  ASSUME IrdInv, IrdLoadTruncated
  PROVE  IrdInv'
<1> USE DEF IrdInv
<1>1. /\ table' = <<>> /\ pos' = 1 /\ ird_pc = "sleep"
      /\ faults' = faults + 1 /\ faults < MaxFaults /\ changed' = changed
      /\ \/ ird_pc' = "drop" /\ cache' = cache /\ joined' = joined
         \/ ird_pc' = "failed" /\ cache' = <<>> /\ joined' = {}
  BY DEF IrdLoadTruncated
<1>2. GoodTable(table)' /\ GoodTable(cache)'
  BY <1>1, EmptyIsGood DEF IrdTypes
<1>3. IrdTypes'
  <2>1. pos' <= Len(table') + 1 /\ faults' \in 0 .. MaxFaults
    BY <1>1, SiAssumption DEF IrdTypes
  <2>2. joined' \subseteq Channel /\ changed' \in BOOLEAN
    BY <1>1 DEF IrdTypes
  <2>3. QED
    BY <1>1, <1>2, <2>1, <2>2, IrdTypesHold
<1>4. CASE ird_pc' = "drop" /\ cache' = cache /\ joined' = joined
  <2>1. Cache'
    BY <1>1, <1>4 DEF Cache
  <2>2. Phases'
    BY <1>1, <1>4, IrdNumbers DEF Phases
  <2>3. QED
    BY <1>3, <2>1, <2>2
<1>5. CASE ird_pc' = "failed"
  BY <1>3, <1>5, FailedStep
<1>6. QED
  BY <1>1, <1>4, <1>5

(* A cached entry that is not in the table is dropped and its groups left: no other
   cached entry stands for them. *)
LEMMA IrdDropStep ==
  ASSUME IrdInv, IrdDrop
  PROVE  IrdInv'
<1> USE DEF IrdInv
<1>1. /\ cache' = RemoveAt(cache, pos) /\ pos <= Len(cache) /\ ird_pc = "drop"
      /\ Apply(Memberships(cache[pos]), {}, TRUE)
      /\ UNCHANGED <<table, pos, changed, faults>>
  BY DEF IrdDrop
<1>2. /\ pos \in 1 .. Len(cache) /\ pos \in Nat \ {0} /\ Len(cache) \in Nat
      /\ GoodTable(cache)
  BY <1>1, IrdNumbers DEF IrdTypes
<1>3. /\ GoodTable(cache)' /\ Len(cache') = Len(cache) - 1
      /\ \A i \in 1 .. pos - 1 : cache'[i] = cache[i]
      /\ Apart(cache) =>
           /\ Apart(cache)'
           /\ AllMemberships(cache)' = AllMemberships(cache) \ Memberships(cache[pos])
  BY <1>1, <1>2, RemoveGood
<1>4. \/ joined' = joined \ Memberships(cache[pos]) /\ ird_pc' = ird_pc
      \/ joined' = {} /\ ird_pc' = "failed"
  BY <1>1, ApplyCases
<1>5. IrdTypes'
  <2>1. pos' <= Len(cache') + 1 /\ pos' \in Nat \ {0}
    BY <1>1, <1>2, <1>3
  <2>2. joined' \subseteq Channel /\ ird_pc' \in {"drop", "failed"}
    BY <1>1, <1>4 DEF IrdTypes
  <2>3. QED
    BY <1>1, <1>3, <2>1, <2>2, IrdTypesHold DEF IrdTypes
<1>6. CASE joined' = joined \ Memberships(cache[pos]) /\ ird_pc' = ird_pc
  <2>1. Cache'
    BY <1>1, <1>3, <1>6 DEF Cache
  <2>2. Phases'
    <3>1. pos' <= Len(cache') + 1
      BY <1>1, <1>2, <1>3
    <3>2. ASSUME ~changed, NEW k \in 1 .. pos - 1 PROVE Agrees(cache[k])'
      BY <1>1, <1>3, <3>2 DEF Phases, Agrees
    <3>3. QED
      BY <1>1, <1>6, <3>1, <3>2 DEF Phases
  <2>3. QED
    BY <1>5, <2>1, <2>2
<1>7. QED
  BY <1>4, <1>5, <1>6, FailedStep

(* update_memberships: if the entry in the table has the memberships of the cached
   one, nothing is joined or left. *)
LEMMA IrdUpdateStep ==
  ASSUME IrdInv, IrdUpdate
  PROVE  IrdInv'
<1> USE DEF IrdInv
<1>1. PICK t : t = Min(Find(cache[pos], table))
  OBVIOUS
<1>2. PICK old : old = Memberships(cache[pos])
  OBVIOUS
<1>3. PICK new : new = Memberships(table[t])
  OBVIOUS
<1>4. /\ pos <= Len(cache) /\ ird_pc = "drop" /\ pos' = pos + 1
      /\ Find(cache[pos], table) # {}
      /\ changed' = (changed \/ old # new)
      /\ Apply(old \ new, new \ old, table[t].host_addr)
      /\ UNCHANGED <<table, cache, faults>>
  BY <1>1, <1>2, <1>3, Zenon DEF IrdUpdate
<1>5. /\ pos \in 1 .. Len(cache) /\ pos \in Nat \ {0} /\ pos \in DOMAIN cache
      /\ Len(cache) \in Nat
  BY <1>4, IrdNumbers
<1>6. t \in DOMAIN table /\ table[t].key = cache[pos].key
  <2>1. Find(cache[pos], table) \subseteq Nat
    BY IrdNumbers DEF Find
  <2>2. t \in Find(cache[pos], table)
    BY <1>1, <1>4, <2>1, MinIn
  <2>3. QED
    BY <2>2 DEF Find
<1>7. \/ joined' = (joined \ (old \ new)) \union (new \ old) /\ ird_pc' = ird_pc
      \/ joined' = {} /\ ird_pc' = "failed"
  BY <1>4, ApplyCases
<1>8. IrdTypes'
  <2>1. new \subseteq Channel
    BY <1>3, <1>6, IrdNumbers, MembershipsInChannel
  <2>2. joined' \subseteq Channel /\ ird_pc' \in {"drop", "failed"}
    BY <1>4, <1>7, <2>1 DEF IrdTypes
  <2>3. changed' \in BOOLEAN
    BY <1>4, Zenon
  <2>4. pos' \in Nat \ {0} /\ pos' <= Len(cache') + 1
    BY <1>4, <1>5
  <2>5. QED
    BY <1>4, <2>2, <2>3, <2>4, IrdTypesHold DEF IrdTypes
<1>9. CASE /\ joined' = (joined \ (old \ new)) \union (new \ old)
           /\ ird_pc' = ird_pc
  <2>1. ASSUME ~changed' PROVE ~changed /\ old = new /\ joined' = joined
    BY <1>4, <1>9, <2>1
  <2>2. Cache'
    BY <1>4, <1>9, <2>1 DEF Cache
  <2>3. ASSUME ~changed', NEW k \in 1 .. pos PROVE Agrees(cache[k])'
    <3>1. CASE k = pos
      BY <1>2, <1>3, <1>4, <1>6, <2>1, <2>3, <3>1 DEF Agrees
    <3>2. CASE k # pos
      <4>1. k \in 1 .. pos - 1
        BY <1>5, <3>2
      <4>2. QED
        BY <1>4, <2>1, <2>3, <4>1 DEF Phases, Agrees
    <3>3. QED
      BY <3>1, <3>2
  <2>4. pos' - 1 = pos /\ pos' <= Len(cache') + 1
    BY <1>4, <1>5
  <2>5. Phases'
    BY <1>4, <1>9, <2>3, <2>4 DEF Phases
  <2>6. QED
    BY <1>8, <2>2, <2>5
<1>10. QED
  BY <1>7, <1>8, <1>9, FailedStep

(* The drop phase ends behind the last cached entry. *)
LEMMA IrdDroppedStep ==
  ASSUME IrdInv, IrdDropped
  PROVE  IrdInv'
<1> USE DEF IrdInv
<1>1. /\ ird_pc = "drop" /\ pos > Len(cache) /\ ird_pc' = "add" /\ pos' = 1
      /\ UNCHANGED <<table, cache, joined, changed, faults>>
  BY DEF IrdDropped
<1>2. IrdTypes'
  <2>1. pos' <= Len(cache') + 1
    BY <1>1, IrdNumbers
  <2>2. QED
    BY <1>1, <2>1, IrdTypesHold DEF IrdTypes
<1>3. Cache'
  BY <1>1 DEF Cache
<1>4. Phases'
  <2>1. DOMAIN cache = 1 .. pos - 1
    BY <1>1, IrdNumbers DEF Phases
  <2>2. ASSUME ~changed, NEW k \in DOMAIN cache PROVE Agrees(cache[k])'
    BY <1>1, <2>1, <2>2 DEF Phases, Agrees
  <2>3. pos' <= Len(table') + 1 /\ 1 .. pos' - 1 = {}
    BY <1>1, IrdNumbers
  <2>4. QED
    BY <1>1, <2>2, <2>3 DEF Phases
<1>5. QED
  BY <1>2, <1>3, <1>4

(* An entry whose sender is not cached is cached and its groups joined: the socket
   had joined none of them, or the daemon ends. *)
LEMMA IrdAddStep ==
  ASSUME IrdInv, IrdAdd
  PROVE  IrdInv'
<1> USE DEF IrdInv
<1>1. PICK s : s = table[pos]
  OBVIOUS
<1>2. /\ ird_pc = "add" /\ pos <= Len(table) /\ Find(s, cache) = {}
      /\ cache' = Append(cache, s) /\ pos' = pos + 1
      /\ Apply({}, Memberships(s), s.host_addr)
      /\ UNCHANGED <<table, changed, faults>>
  BY <1>1 DEF IrdAdd
<1>3. /\ pos \in DOMAIN table /\ pos \in Nat \ {0} /\ Len(table) \in Nat
      /\ s \in Si /\ IsAnnounced(s) /\ GoodTable(cache)
  BY <1>1, <1>2, IrdNumbers DEF IrdTypes
<1>4. /\ GoodTable(cache)'
      /\ DOMAIN cache' = DOMAIN cache \union {Len(cache) + 1}
      /\ cache'[Len(cache) + 1] = s
      /\ \A k \in DOMAIN cache : cache'[k] = cache[k]
  BY <1>2, <1>3, AppendGood
<1>5. \/ /\ Memberships(s) \intersect joined = {}
         /\ joined' = joined \union Memberships(s) /\ ird_pc' = ird_pc
      \/ joined' = {} /\ ird_pc' = "failed"
  BY <1>2, ApplyCases
<1>6. IrdTypes'
  <2>1. joined' \subseteq Channel /\ ird_pc' \in {"add", "failed"}
    BY <1>2, <1>3, <1>5, MembershipsInChannel DEF IrdTypes
  <2>2. pos' \in Nat \ {0} /\ pos' <= Len(table') + 1
    BY <1>2, <1>3
  <2>3. QED
    BY <1>2, <1>4, <2>1, <2>2, IrdTypesHold DEF IrdTypes
<1>7. CASE /\ Memberships(s) \intersect joined = {}
           /\ joined' = joined \union Memberships(s) /\ ird_pc' = ird_pc
  <2>1. Cache'
    <3>1. /\ AllMemberships(cache)' = AllMemberships(cache) \union Memberships(s)
          /\ Apart(cache) /\ Memberships(s) \intersect AllMemberships(cache) = {}
               => Apart(cache)'
      BY <1>2, <1>3, AppendMemberships
    <3>2. QED
      BY <1>2, <1>7, <3>1 DEF Cache
  <2>2. ASSUME ~changed, NEW k \in DOMAIN cache' PROVE Agrees(cache[k])'
    <3>1. CASE k \in DOMAIN cache
      BY <1>2, <1>4, <2>2, <3>1 DEF Phases, Agrees
    <3>2. CASE k = Len(cache) + 1
      BY <1>1, <1>2, <1>3, <1>4, <3>2 DEF Agrees
    <3>3. QED
      BY <1>4, <3>1, <3>2
  <2>3. ASSUME NEW t \in 1 .. pos PROVE Find(table[t], cache)' # {}
    <3>1. CASE t = pos
      BY <1>1, <1>2, <1>4, <3>1 DEF Find
    <3>2. CASE t # pos
      <4>1. t \in 1 .. pos - 1
        BY <1>3, <3>2
      <4>2. PICK k \in DOMAIN cache : cache[k].key = table[t].key
        BY <1>2, <4>1 DEF Phases, Find
      <4>3. QED
        BY <1>2, <1>4, <4>2 DEF Find
    <3>3. QED
      BY <3>1, <3>2
  <2>4. pos' - 1 = pos /\ pos' <= Len(table') + 1
    BY <1>2, <1>3
  <2>5. Phases'
    BY <1>2, <1>7, <2>2, <2>3, <2>4 DEF Phases
  <2>6. QED
    BY <1>6, <2>1, <2>5
<1>8. QED
  BY <1>5, <1>6, <1>7, FailedStep

(* An entry whose sender is cached stays as it is. *)
LEMMA IrdKeepStep ==
  ASSUME IrdInv, IrdKeep
  PROVE  IrdInv'
<1> USE DEF IrdInv
<1>1. /\ ird_pc = "add" /\ pos <= Len(table) /\ Find(table[pos], cache) # {}
      /\ pos' = pos + 1
      /\ UNCHANGED <<table, cache, joined, ird_pc, changed, faults>>
  BY DEF IrdKeep
<1>2. pos' \in Nat \ {0} /\ pos' <= Len(table') + 1 /\ pos' - 1 = pos
  BY <1>1, IrdNumbers
<1>3. IrdTypes'
  BY <1>1, <1>2, IrdTypesHold DEF IrdTypes
<1>4. Cache'
  BY <1>1 DEF Cache
<1>5. ASSUME NEW t \in 1 .. pos PROVE Find(table[t], cache) # {}
  <2>1. t = pos \/ t \in 1 .. pos - 1
    BY IrdNumbers
  <2>2. QED
    BY <1>1, <2>1 DEF Phases
<1>6. Phases'
  BY <1>1, <1>2, <1>5 DEF Phases, Agrees, Find
<1>7. QED
  BY <1>3, <1>4, <1>6

(* The pass ends, and with it the table. *)
LEMMA IrdAddedStep ==
  ASSUME IrdInv, IrdAdded
  PROVE  IrdInv'
<1> USE DEF IrdInv
<1>1. /\ ird_pc = "add" /\ ird_pc' = "sleep" /\ pos' = 1 /\ table' = <<>>
      /\ UNCHANGED <<cache, joined, changed, faults>>
  BY DEF IrdAdded
<1>2. IrdTypes'
  <2>1. GoodTable(table)' /\ pos' <= Len(table') + 1
    BY <1>1, EmptyIsGood
  <2>2. QED
    BY <1>1, <2>1, IrdTypesHold DEF IrdTypes
<1>3. Cache' /\ Phases'
  BY <1>1 DEF Cache, Phases
<1>4. QED
  BY <1>2, <1>3

(* A new IRD has a new socket and no entries. *)
LEMMA IrdRestartStep ==
  ASSUME IrdInv, IrdRestart
  PROVE  IrdInv'
<1> USE DEF IrdInv
<1>1. /\ faults' = faults + 1 /\ faults < MaxFaults /\ ird_pc' = "sleep"
      /\ table' = <<>> /\ cache' = <<>> /\ pos' = 1 /\ joined' = {}
      /\ changed' = FALSE
  BY DEF IrdRestart
<1>2. IrdTypes'
  <2>1. GoodTable(table)' /\ GoodTable(cache)'
    BY <1>1, EmptyIsGood
  <2>2. pos' <= Len(table') + 1 /\ faults' \in 0 .. MaxFaults
    BY <1>1, SiAssumption DEF IrdTypes
  <2>3. /\ ird_pc' \in {"sleep", "drop", "add", "failed"}
        /\ joined' \subseteq Channel /\ pos' \in Nat \ {0}
    BY <1>1
  <2>4. changed' \in BOOLEAN
    BY <1>1, Zenon
  <2>5. QED
    BY <2>1, <2>2, <2>3, <2>4, IrdTypesHold
<1>3. Cache' /\ Phases'
  BY <1>1 DEF Cache, Phases, AllMemberships, Apart
<1>4. QED
  BY <1>2, <1>3

(* Nothing of the IRD changes. *)
LEMMA IrdQuietStep ==
  ASSUME IrdInv, UNCHANGED ird
  PROVE  IrdInv'
<1>1. UNCHANGED <<ird_pc, table, cache, pos, joined, changed, faults>>
  BY DEF ird
<1>2. QED
  BY <1>1 DEF IrdInv, IrdTypes, Cache, Phases, Agrees, Find

-----------------------------------------------------------------------------
(***************************************************************************)
(* The invariant, and what follows from it.                                *)
(***************************************************************************)

(* Every step of the threads on the receiving host keeps the invariant. *)
LEMMA NextIInv == IInv /\ [Next]_vars => IInv'
<1> SUFFICES ASSUME IInv, [Next]_vars PROVE IInv'
  OBVIOUS
<1> USE DEF IInv
<1>1. ASSUME ControlInv' , UNCHANGED ird PROVE IInv'
  BY <1>1, IrdQuietStep
<1>2. ASSUME IrdInv', UNCHANGED <<now, icd, control, list, icdsi, file>>
      PROVE  IInv'
  <2>1. now' \in 0 .. MaxTime /\ UNCHANGED <<icd, control, list, icdsi, file>>
    BY <1>2 DEF ControlInv, ControlTypes
  <2>2. QED
    BY <1>2, <2>1, ControlQuietStep
<1>3. CASE \E k \in Key : \E I \in Announced[k] : AckStart(k, I)
  BY <1>1, <1>3, AckStartStep DEF AckStart
<1>4. CASE AckFound
  BY <1>1, <1>4, AckFoundStep DEF AckFound
<1>5. CASE AckNext
  BY <1>1, <1>5, AckNextStep DEF AckNext
<1>6. CASE AckCrash
  BY <1>1, <1>6, IcdEndsStep DEF AckCrash, IcdEnds
<1>7. CASE AckAppend
  BY <1>1, <1>7, AckAppendStep DEF AckAppend
<1>8. CASE CapRound
  <2>1. CASE CapCrash
    BY <1>1, <2>1, IcdEndsStep DEF CapCrash, IcdEnds
  <2>2. CASE \E e \in elems : CapSearch(e)
    BY <1>1, <2>2, CapSearchStep DEF CapSearch
  <2>3. QED
    BY <1>8, <2>1, <2>2 DEF CapRound
<1>9. CASE SiInit
  BY <1>1, <1>9, SiInitStep DEF SiInit
<1>10. CASE SiStart
  BY <1>1, <1>10, SiStartStep DEF SiStart
<1>11. CASE SiExpired
  BY <1>1, <1>11, SiExpiredStep DEF SiExpired
<1>12. CASE SiFresh
  BY <1>1, <1>12, SiFreshStep DEF SiFresh
<1>13. CASE SiStore
  BY <1>1, <1>13, SiStoreStep DEF SiStore
<1>14. CASE SiWrite
  BY <1>1, <1>14, SiWriteStep DEF SiWrite
<1>15. CASE IrdLoad
  BY <1>2, <1>15, IrdLoadStep DEF IrdLoad
<1>16. CASE IrdNoFile
  BY <1>2, <1>16, IrdNoFileStep DEF IrdNoFile
<1>17. CASE IrdLoadTruncated
  BY <1>2, <1>17, IrdLoadTruncatedStep DEF IrdLoadTruncated
<1>18. CASE IrdDrop
  BY <1>2, <1>18, IrdDropStep DEF IrdDrop
<1>19. CASE IrdUpdate
  BY <1>2, <1>19, IrdUpdateStep DEF IrdUpdate
<1>20. CASE IrdDropped
  BY <1>2, <1>20, IrdDroppedStep DEF IrdDropped
<1>21. CASE IrdAdd
  BY <1>2, <1>21, IrdAddStep DEF IrdAdd
<1>22. CASE IrdKeep
  BY <1>2, <1>22, IrdKeepStep DEF IrdKeep
<1>23. CASE IrdAdded
  BY <1>2, <1>23, IrdAddedStep DEF IrdAdded
<1>24. CASE IrdRestart
  BY <1>2, <1>24, IrdRestartStep DEF IrdRestart
<1>25. CASE Tick
  <2>1. now' \in 0 .. MaxTime
    BY <1>25, SiAssumption DEF Tick, ControlInv, ControlTypes
  <2>2. UNCHANGED <<icd, control, list, icdsi, file, ird>>
    BY <1>25 DEF Tick
  <2>3. QED
    BY <1>1, <2>1, <2>2, ControlQuietStep
<1>26. CASE UNCHANGED vars
  <2>1. UNCHANGED <<now, icd, control, list, icdsi, file, ird>>
    BY <1>26 DEF vars
  <2>2. QED
    BY <1>2, <2>1, IrdQuietStep
<1>27. QED
  BY <1>3, <1>4, <1>5, <1>6, <1>7, <1>8, <1>9, <1>10, <1>11, <1>12, <1>13, <1>14,
     <1>15, <1>16, <1>17, <1>18, <1>19, <1>20, <1>21, <1>22, <1>23, <1>24, <1>25,
     <1>26, Zenon DEF Next, HandleAck, SiRoutine, IrdRoutine

(* The invariant holds in every behaviour. *)
THEOREM Invariance == Spec => []IInv
<1>1. QED
  BY InitIInv, NextIInv, PTL DEF Spec

(* A state of the invariant has the types of TypeOK, which the control thread and
   the two si_routine threads keep. *)
THEOREM TypeCorrect == Spec => []TypeOK
<1>1. IInv => TypeOK
  <2> SUFFICES ASSUME IInv PROVE TypeOK
    OBVIOUS
  <2>1. ControlTypes /\ Search /\ Entries /\ IrdTypes
    BY DEF IInv, ControlInv, IrdInv
  <2>2. Cardinality(acks) <= 1
    <3>1. CASE acks = {}
      <4>1. Cardinality(acks) = 0
        BY <3>1, FS_EmptySet, Zenon
      <4>2. QED
        BY <4>1
    <3>2. CASE acks # {}
      <4>1. PICK a \in acks : TRUE
        BY <3>2
      <4>2. acks = {a}
        BY <2>1 DEF Search
      <4>3. Cardinality(acks) = 1
        BY <4>2, FS_Singleton, Zenon
      <4>4. QED
        BY <4>3
    <3>3. QED
      BY <3>1, <3>2
  <2>3. /\ entries \in Seq(Si) /\ table \in Seq(Si) /\ cache \in Seq(Si)
        /\ file \in {Missing, Truncated} \/ file \in Seq(Si)
    BY <2>1, Zenon DEF Entries, IrdTypes, GoodTable
  <2>4. joined \subseteq {<<k[1], a>> : k \in Key, a \in Addr}
    BY <2>1 DEF IrdTypes, Channel
  <2>5. /\ ird_pc \in {"sleep", "drop", "add", "failed"}
        /\ pos \in 1 .. Max({Len(cache), Len(table)}) + 1
        /\ changed \in BOOLEAN /\ faults \in 0 .. MaxFaults
    BY <2>1, Zenon DEF IrdTypes
  <2>6. QED
    BY <2>1, <2>2, <2>3, <2>4, <2>5 DEF TypeOK, ControlTypes
<1>2. QED
  BY <1>1, Invariance, PTL

(* handle_ack appends at most one entry per sender, although count_and_cleanup frees
   elements under its search. *)
THEOREM OneEntry == Spec => []OneEntryPerSender
<1>1. IInv => OneEntryPerSender
  BY DEF IInv, ControlInv
<1>2. QED
  BY <1>1, Invariance, PTL

(* get_file_contents never runs off the end of the list. *)
THEOREM CopiesAreListed == Spec => []CountedAreListed
<1>1. IInv => CountedAreListed
  <2> SUFFICES ASSUME IInv, todo = {} PROVE count <= Cardinality(elems)
    BY DEF CountedAreListed
  <2>1. /\ count + Cardinality(todo) <= Cardinality(elems)
        /\ count \in Nat /\ Cardinality(elems) \in Nat
    BY ListFinite, SiAssumption DEF IInv, ControlInv, ControlTypes, Walk
  <2>2. QED
    BY <2>1, FS_EmptySet
<1>2. QED
  BY <1>1, Invariance, PTL

(* At the end of a pass of the IRD, the groups joined are those of the table it
   read, unless an entry came back changed. *)
THEOREM PassJoinsTable == Spec => []JoinedMatchTable
<1>1. IInv => JoinedMatchTable
  <2> SUFFICES ASSUME IInv, ird_pc = "add", pos > Len(table), ~changed
               PROVE  joined = AllMemberships(table)
    BY DEF JoinedMatchTable, AllMemberships
  <2> USE DEF IInv, IrdInv
  <2>1. joined = AllMemberships(cache)
    BY DEF Cache
  <2>2. \A k \in DOMAIN cache : Agrees(cache[k])
    BY DEF Phases
  <2>3. \A t \in DOMAIN table : Find(table[t], cache) # {}
    <3>1. DOMAIN table = 1 .. pos - 1
      BY IrdNumbers DEF Phases
    <3>2. QED
      BY <3>1 DEF Phases
  <2>4. OnePerKey(table)
    BY DEF IrdTypes, GoodTable
  <2>5. ASSUME NEW x \in AllMemberships(cache) PROVE x \in AllMemberships(table)
    <3>1. PICK k \in DOMAIN cache : x \in Memberships(cache[k])
      BY <2>5 DEF AllMemberships
    <3>2. PICK t \in DOMAIN table : Memberships(table[t]) = Memberships(cache[k])
      BY <2>2, <3>1 DEF Agrees
    <3>3. QED
      BY <3>1, <3>2, Zenon DEF AllMemberships
  <2>6. ASSUME NEW x \in AllMemberships(table) PROVE x \in AllMemberships(cache)
    <3>1. PICK t \in DOMAIN table : x \in Memberships(table[t])
      BY <2>6 DEF AllMemberships
    <3>2. PICK k \in DOMAIN cache : cache[k].key = table[t].key
      BY <2>3, <3>1 DEF Find
    <3>3. PICK u \in DOMAIN table :
            /\ table[u].key = cache[k].key
            /\ Memberships(table[u]) = Memberships(cache[k])
      BY <2>2, <3>2 DEF Agrees
    <3>4. u = t
      BY <2>4, <3>1, <3>2, <3>3 DEF OnePerKey
    <3>5. QED
      BY <3>1, <3>2, <3>3, <3>4, Zenon DEF AllMemberships
  <2>7. QED
    BY <2>1, <2>5, <2>6
<1>2. QED
  BY <1>1, Invariance, PTL

-----------------------------------------------------------------------------
(***************************************************************************)
(* Why the IRD ends.                                                       *)
(***************************************************************************)

(* With an unchanged entry, leaving and joining in the drop phase succeed. *)
LEMMA DropPhaseSucceeds ==
  ASSUME IrdInv, ~changed', IrdDrop \/ IrdUpdate
  PROVE  ird_pc' = "drop"
<1> USE DEF IrdInv
<1>1. /\ ird_pc = "drop" /\ pos <= Len(cache) /\ (changed => changed')
  <2>1. ird_pc = "drop" /\ pos <= Len(cache)
    BY DEF IrdDrop, IrdUpdate
  <2>2. CASE IrdDrop
    BY <2>1, <2>2 DEF IrdDrop
  <2>3. CASE IrdUpdate
    BY <2>1, <2>3, Zenon DEF IrdUpdate
  <2>4. QED
    BY <2>2, <2>3
<1>2. pos \in DOMAIN cache
  BY <1>1, IrdNumbers
<1>3. joined = AllMemberships(cache)
  BY <1>1 DEF Cache
<1>4. Memberships(cache[pos]) \subseteq joined
  BY <1>2, <1>3, Zenon DEF AllMemberships
<1>5. CASE IrdDrop
  <2>1. Apply(Memberships(cache[pos]), {}, TRUE)
    BY <1>5 DEF IrdDrop
  <2>2. QED
    BY <1>1, <1>4, <2>1, ApplyCases
<1>6. CASE IrdUpdate
  <2>1. PICK s : s = table[Min(Find(cache[pos], table))]
    OBVIOUS
  <2>2. PICK old : old = Memberships(cache[pos])
    OBVIOUS
  <2>3. PICK new : new = Memberships(s)
    OBVIOUS
  <2>4. /\ changed' = (changed \/ old # new)
        /\ Apply(old \ new, new \ old, s.host_addr)
    BY <1>6, <2>1, <2>2, <2>3, Zenon DEF IrdUpdate
  <2>5. old \ new = {} /\ new \ old = {}
    BY <2>4
  <2>6. Apply({}, {}, s.host_addr)
    BY <2>4, <2>5
  <2>7. QED
    BY <1>1, <2>6, ApplyCases
<1>7. QED
  BY <1>5, <1>6

(* An entry of the table that shares no membership with the other entries shares
   none with the socket in the add phase, if its sender is not cached: the cached
   entries are then all in the table. *)
LEMMA SharedInTable ==
  ASSUME IrdInv, ird_pc = "add", ~changed, NEW q \in DOMAIN table,
         Find(table[q], cache) = {},
         \A t \in DOMAIN table \ {q} :
           Memberships(table[t]) \intersect Memberships(table[q]) = {}
  PROVE  Memberships(table[q]) \intersect joined = {}
<1> USE DEF IrdInv
<1>1. ASSUME NEW k \in DOMAIN cache
      PROVE  Memberships(table[q]) \intersect Memberships(cache[k]) = {}
  <2>1. PICK t \in DOMAIN table :
          /\ table[t].key = cache[k].key
          /\ Memberships(table[t]) = Memberships(cache[k])
    BY DEF Phases, Agrees
  <2>2. cache[k].key # table[q].key
    BY DEF Find
  <2>3. t \in DOMAIN table \ {q}
    BY <2>1, <2>2
  <2>4. Memberships(table[t]) \intersect Memberships(table[q]) = {}
    BY <2>3
  <2>5. QED
    BY <2>1, <2>4
<1>2. joined = AllMemberships(cache)
  BY DEF Cache
<1>3. ASSUME NEW x \in joined PROVE x \notin Memberships(table[q])
  <2>1. PICK k \in DOMAIN cache : x \in Memberships(cache[k])
    BY <1>2, <1>3 DEF AllMemberships
  <2>2. Memberships(table[q]) \intersect Memberships(cache[k]) = {}
    BY <1>1
  <2>3. QED
    BY <2>1, <2>2
<1>4. QED
  BY <1>3

(* membership() ends the IRD only for an entry that came back with other
   interfaces, or while it adds an entry with none of this host's addresses or with
   an interface that another entry of the table has. *)
THEOREM FailuresExplained == Spec => []FailureExplained
<1>1. Init => FailureExplained
  BY DEF Init, FailureExplained
<1>2. ASSUME IInv, FailureExplained, [Next]_vars PROVE FailureExplained'
  <2> USE DEF IInv, IrdInv
  <2>1. ASSUME ird_pc' # "failed" PROVE FailureExplained'
    BY <2>1 DEF FailureExplained
  <2>2. ASSUME UNCHANGED <<ird_pc, table, pos, changed>> PROVE FailureExplained'
    BY <1>2, <2>2 DEF FailureExplained
  <2>3. CASE HandleAck
    BY <2>2, <2>3 DEF HandleAck, AckStart, AckFound, AckNext, AckCrash, IcdEnds, AckAppend, ird
  <2>4. CASE CapRound
    BY <2>2, <2>4 DEF CapRound, CapCrash, IcdEnds, CapSearch, ird
  <2>5. CASE SiRoutine
    BY <2>2, <2>5
       DEF SiRoutine, SiInit, SiStart, SiExpired, SiFresh, SiStore, SiWrite, ird
  <2>6. CASE IrdLoad \/ IrdDropped \/ IrdKeep \/ IrdAdded \/ IrdRestart
    BY <2>1, <2>6 DEF IrdLoad, IrdDropped, IrdKeep, IrdAdded, IrdRestart
  <2>7. CASE IrdNoFile
    <3>1. table' = <<>>
      BY <1>2, <2>7 DEF IrdNoFile, Phases
    <3>2. QED
      BY <3>1 DEF FailureExplained
  <2>8. CASE IrdLoadTruncated
    BY <2>8 DEF IrdLoadTruncated, FailureExplained
  <2>9. CASE IrdDrop \/ IrdUpdate
    <3>1. CASE changed'
      BY <3>1 DEF FailureExplained
    <3>2. CASE ~changed'
      BY <1>2, <2>1, <2>9, <3>2, DropPhaseSucceeds
    <3>3. QED
      BY <3>1, <3>2
  <2>10. CASE IrdAdd
    <3>1. PICK q : q = pos
      OBVIOUS
    <3>2. PICK s : s = table[q]
      OBVIOUS
    <3>3. /\ ird_pc = "add" /\ q <= Len(table) /\ Find(table[q], cache) = {}
          /\ Apply({}, Memberships(s), s.host_addr)
          /\ table' = table /\ changed' = changed /\ pos' = q + 1
      BY <2>10, <3>1, <3>2 DEF IrdAdd
    <3>4. q \in DOMAIN table /\ pos' - 1 = q
      BY <1>2, <3>1, <3>3, IrdNumbers
    <3>5. CASE changed
      BY <3>3, <3>5 DEF FailureExplained
    <3>6. CASE ~s.host_addr
      BY <3>2, <3>3, <3>4, <3>6 DEF FailureExplained
    <3>7. CASE \E t \in DOMAIN table \ {q} :
                 Memberships(table[t]) \intersect Memberships(s) # {}
      <4>1. \E t \in DOMAIN table' \ {pos' - 1} :
              Memberships(table[t])' \intersect Memberships(table[pos - 1])' # {}
        BY <3>2, <3>3, <3>4, <3>7 DEF Memberships
      <4>2. QED
        BY <4>1 DEF FailureExplained
    <3>8. CASE /\ ~changed /\ s.host_addr
               /\ \A t \in DOMAIN table \ {q} :
                    Memberships(table[t]) \intersect Memberships(s) = {}
      <4>1. Memberships(s) \intersect joined = {}
        BY <1>2, <3>2, <3>3, <3>4, <3>8, SharedInTable
      <4>2. ird_pc' = "add"
        BY <3>3, <3>8, <4>1, ApplyCases
      <4>3. QED
        BY <2>1, <4>2
    <3>9. QED
      BY <3>5, <3>6, <3>7, <3>8
  <2>11. CASE Tick
    BY <2>2, <2>11 DEF Tick, ird
  <2>12. CASE UNCHANGED vars
    BY <2>2, <2>12 DEF vars, ird
  <2>13. QED
    BY <1>2, <2>3, <2>4, <2>5, <2>6, <2>7, <2>8, <2>9, <2>10, <2>11, <2>12
       DEF Next, IrdRoutine
<1>3. QED
  BY <1>1, <1>2, Invariance, PTL DEF Spec
============================================================================
