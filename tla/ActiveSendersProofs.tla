------------------------ MODULE ActiveSendersProofs ------------------------
(***************************************************************************)
(* Proofs about the active senders.  The storing thread counts entries in  *)
(* one walk over the list and copies as many in another, without the mutex *)
(* and without a test for the end.  What makes this safe is what the first *)
(* walk knows at every element: the entries it has counted are the first   *)
(* ones of the list, up to its iterator (Walk).  The size of the list is   *)
(* bounded by the number of entries created because a position never       *)
(* exceeds the number of its entry (List).                                 *)
(***************************************************************************)
EXTENDS ActiveSenders, ListLemmas

List ==
  /\ \A i \in 1 .. Len(active_senders) : active_senders[i] >= i
  /\ OneEntryPerLink

Walk ==
  /\ count = Len(kept) /\ Len(kept) <= Len(active_senders)
  /\ \A i \in 1 .. Len(kept) : kept[i] = active_senders[i]
  /\ as_pc = "clean" /\ iter # 0 => iter = Len(kept) + 1
  /\ as_pc = "copy" =>
       /\ Len(entries) <= count
       /\ \A i \in 1 .. Len(entries) : entries[i] = kept[i]
       /\ Len(entries) < count => iter = Len(entries) + 1
  /\ as_pc = "write" => Len(entries) = count

(* A handler that found a session holds an entry that still has it. *)
Sessions ==
  \A h \in Handler : known[h] => entry[pend[h]].iprp_enabled /\ pend[h] # 0

IInv == TypeOK /\ List /\ Walk /\ Sessions
-----------------------------------------------------------------------------
(* The two daemons start in a state of the invariant. *)
LEMMA InitIInv == Init => IInv
<1> SUFFICES ASSUME Init PROVE IInv
  OBVIOUS
<1> USE ActiveSendersAssumption DEF Init
<1>1. entry \in [Id -> EntryType]
  BY DEF EntryType
<1>2. known \in [Handler -> BOOLEAN] /\ \A h \in Handler : ~known[h]
  BY Zenon
<1>3. TypeOK
  <2>1. /\ created \in 0 .. MaxEntries /\ pend \in [Handler -> 0 .. created]
        /\ active_senders \in Seq(1 .. created) /\ Len(active_senders) = 0
    OBVIOUS
  <2>2. /\ entries \in Seq(Id) /\ kept \in Seq(Id)
        /\ file \in Seq(Key \union {NoKey})
    OBVIOUS
  <2>3. /\ now \in 0 .. MaxTime /\ iter \in 0 .. Len(active_senders)
        /\ count \in 0 .. MaxEntries /\ capped \subseteq Key \union {NoKey}
    OBVIOUS
  <2>4. QED
    BY <1>1, <1>2, <2>1, <2>2, <2>3, Zenon DEF TypeOK
<1>4. List /\ Walk
  BY DEF List, Walk, OneEntryPerLink
<1>5. Sessions
  BY <1>2 DEF Sessions
<1>6. QED
  BY <1>3, <1>4, <1>5 DEF IInv

(* The list is no longer than the number of entries created. *)
LEMMA ListBounded ==
  ASSUME TypeOK, List
  PROVE  Len(active_senders) \in Nat /\ Len(active_senders) <= created
<1>1. active_senders \in Seq(1 .. created) /\ created \in Nat
  BY ActiveSendersAssumption DEF TypeOK
<1>2. CASE Len(active_senders) = 0
  BY <1>1, <1>2
<1>3. CASE Len(active_senders) # 0
  <2>1. Len(active_senders) \in 1 .. Len(active_senders)
    BY <1>1, <1>3
  <2>2. active_senders[Len(active_senders)] \in 1 .. created
    BY <1>1, <2>1
  <2>3. QED
    BY <1>1, <2>1, <2>2 DEF List
<1>4. QED
  BY <1>2, <1>3

-----------------------------------------------------------------------------
(***************************************************************************)
(* The steps of the packet handlers.                                       *)
(***************************************************************************)

(* global_handle, for a link in the list, keeps the invariant: the entry stays
   where it is, keeps its link, and does not lose its session. *)
LEMMA HandleKnownStep ==
  ASSUME IInv, NEW h \in Handler, NEW k \in Key, HandleKnown(h, k)
  PROVE  IInv'
<1> USE ActiveSendersAssumption DEF IInv, as_vars
<1>1. PICK e \in ToSet(active_senders) :
        /\ entry' = [entry EXCEPT ![e].last_seen = now,
                                  ![e].iprp_enabled = @ \/ h = "ird"]
        /\ pend' = [pend EXCEPT ![h] = e]
        /\ known' = [known EXCEPT ![h] = entry[e].iprp_enabled]
  BY DEF HandleKnown, find_entry
<1>2. e \in 1 .. created /\ e \in Id /\ e # 0
  BY DEF TypeOK, ToSet, Id
<1>3. entry' \in [Id -> EntryType]
  <2>1. entry[e] \in EntryType /\ now \in Nat
    BY <1>2 DEF TypeOK
  <2>2. (entry[e].iprp_enabled \/ h = "ird") \in BOOLEAN
    BY Zenon
  <2>3. [entry[e] EXCEPT !.last_seen = now,
                         !.iprp_enabled = @ \/ h = "ird"] \in EntryType
    BY <2>1, <2>2 DEF EntryType
  <2>4. QED
    BY <1>1, <2>3 DEF TypeOK
<1>4. \A f \in Id : entry'[f].key = entry[f].key
  BY <1>1 DEF TypeOK, EntryType
<1>5. \A f \in Id : entry[f].iprp_enabled => entry'[f].iprp_enabled
  <2>1. \A f \in Id : f # e => entry'[f] = entry[f]
    BY <1>1 DEF TypeOK
  <2>2. entry'[e].iprp_enabled = (entry[e].iprp_enabled \/ h = "ird")
    BY <1>1, <1>2 DEF TypeOK, EntryType
  <2>3. QED
    BY <2>1, <2>2, Zenon
<1>6. known' \in [Handler -> BOOLEAN]
  <2>1. entry[e].iprp_enabled \in BOOLEAN
    BY <1>2, Zenon DEF TypeOK, EntryType
  <2>2. QED
    BY <1>1, <2>1 DEF TypeOK
<1>7. TypeOK'
  BY <1>1, <1>2, <1>3, <1>6 DEF HandleKnown, TypeOK
<1>8. List'
  <2>1. \A i \in 1 .. Len(active_senders) : active_senders[i] \in Id
    BY DEF TypeOK, Id
  <2>2. active_senders' = active_senders
    BY DEF HandleKnown
  <2>3. OneEntryPerLink'
    BY <1>4, <2>1, <2>2 DEF List, OneEntryPerLink
  <2>4. QED
    BY <2>2, <2>3 DEF List
<1>9. Walk'
  BY DEF HandleKnown, Walk
<1>10. Sessions'
  <2>1. ASSUME NEW g \in Handler, g # h, known'[g]
        PROVE  entry'[pend'[g]].iprp_enabled /\ pend'[g] # 0
    <3>1. pend'[g] = pend[g] /\ known'[g] = known[g] /\ pend[g] \in 0 .. created
      BY <1>1, <2>1 DEF TypeOK
    <3>2. entry[pend[g]].iprp_enabled /\ pend[g] # 0
      BY <2>1, <3>1, Zenon DEF Sessions
    <3>3. pend[g] \in Id
      BY <3>1, <3>2 DEF TypeOK, Id
    <3>4. QED
      BY <1>5, <3>1, <3>2, <3>3, Zenon
  <2>2. ASSUME known'[h] PROVE entry'[pend'[h]].iprp_enabled /\ pend'[h] # 0
    <3>1. pend'[h] = e /\ known'[h] = entry[e].iprp_enabled
      BY <1>1 DEF TypeOK
    <3>2. QED
      BY <1>2, <1>5, <2>2, <3>1, Zenon
  <2>3. QED
    BY <2>1, <2>2, Zenon DEF Sessions
<1>11. QED
  BY <1>7, <1>8, <1>9, <1>10

(* global_handle, for a new link, keeps the invariant: the entry goes to the end,
   beyond what the storing thread has counted, and has a link of its own. *)
LEMMA HandleNewStep ==
  ASSUME IInv, NEW h \in Handler, NEW k \in Key, HandleNew(h, k)
  PROVE  IInv'
<1> USE ActiveSendersAssumption DEF IInv, as_vars
<1> DEFINE n == created + 1
<1>1. n \in Id /\ created \in Nat /\ created' = n /\ n \in 0 .. MaxEntries
  BY DEF HandleNew, TypeOK, Id
<1>2. /\ active_senders' = Append(active_senders, n)
      /\ active_senders \in Seq(1 .. created)
  BY DEF HandleNew, TypeOK
<1>3. /\ active_senders' \in Seq(1 .. n)
      /\ Len(active_senders') = Len(active_senders) + 1
      /\ active_senders'[Len(active_senders) + 1] = n
      /\ \A i \in 1 .. Len(active_senders) : active_senders'[i] = active_senders[i]
  <2>1. active_senders \in Seq(1 .. n)
    BY <1>1, <1>2, SeqMonotonic
  <2>2. n \in 1 .. n
    BY <1>1
  <2>3. QED
    BY <1>2, <2>1, <2>2
<1>4. create_entry(h, k) \in EntryType /\ create_entry(h, k).key = k
  <2>1. (h = "ird") \in BOOLEAN
    BY Zenon
  <2>2. QED
    BY <2>1 DEF create_entry, EntryType, TypeOK
<1>5. /\ entry' \in [Id -> EntryType] /\ entry'[n].key = k
      /\ \A f \in 1 .. created : f \in Id /\ entry'[f] = entry[f]
  BY <1>1, <1>4 DEF HandleNew, TypeOK, Id
<1>6. /\ pend' = [pend EXCEPT ![h] = n] /\ known' = [known EXCEPT ![h] = FALSE]
      /\ pend' \in [Handler -> 0 .. n] /\ known' \in [Handler -> BOOLEAN]
  <2>1. pend \in [Handler -> 0 .. n]
    BY <1>1 DEF TypeOK
  <2>2. QED
    BY <1>1, <2>1 DEF HandleNew, TypeOK
<1>7. TypeOK'
  BY <1>1, <1>3, <1>5, <1>6 DEF HandleNew, TypeOK
<1>8. List'
  <2>1. \A i \in 1 .. Len(active_senders) :
          /\ active_senders[i] \in 1 .. created
          /\ entry[active_senders[i]].key # k
    <3>1. \A i \in 1 .. Len(active_senders) :
            active_senders[i] \in ToSet(active_senders)
      BY DEF TypeOK, ToSet
    <3>2. \A e \in ToSet(active_senders) : entry[e].key # k
      BY DEF HandleNew, find_entry
    <3>3. \A i \in 1 .. Len(active_senders) : active_senders[i] \in 1 .. created
      BY DEF TypeOK
    <3>4. QED
      BY <3>1, <3>2, <3>3
  <2>2. \A i \in 1 .. Len(active_senders') : active_senders'[i] >= i
    BY <1>1, <1>3, ListBounded DEF List
  <2>3. Len(active_senders) \in Nat
    BY <1>2
  <2>4. OneEntryPerLink'
    <3>1. \A i \in 1 .. Len(active_senders) :
            /\ entry'[active_senders'[i]].key = entry[active_senders[i]].key
            /\ entry'[active_senders'[i]].key # k
      BY <1>3, <1>5, <2>1
    <3>2. entry'[active_senders'[Len(active_senders) + 1]].key = k
      BY <1>3, <1>5
    <3>3. QED
      BY <1>3, <2>3, <3>1, <3>2 DEF List, OneEntryPerLink
  <2>5. QED
    BY <2>2, <2>4 DEF List
<1>9. Walk'
  <2>1. Len(kept) \in Nat /\ Len(active_senders) \in Nat
    BY <1>2 DEF TypeOK
  <2>2. QED
    BY <1>3, <2>1 DEF HandleNew, Walk
<1>10. Sessions'
  <2>1. ASSUME NEW g \in Handler, known'[g]
        PROVE  entry'[pend'[g]].iprp_enabled /\ pend'[g] # 0
    <3>1. g # h /\ pend'[g] = pend[g] /\ known'[g] = known[g]
      BY <1>6, <2>1 DEF TypeOK
    <3>2. entry[pend[g]].iprp_enabled /\ pend[g] # 0
      BY <2>1, <3>1, Zenon DEF Sessions
    <3>3. pend[g] \in 1 .. created
      BY <3>2 DEF TypeOK
    <3>4. QED
      BY <1>5, <3>1, <3>2, <3>3, Zenon
  <2>2. QED
    BY <2>1, Zenon DEF Sessions
<1>11. QED
  BY <1>7, <1>8, <1>9, <1>10

(* The verdict changes nothing but what the handler holds. *)
LEMMA VerdictStep ==
  ASSUME IInv, NEW h \in Handler, Verdict(h)
  PROVE  IInv'
<1> USE DEF IInv, as_vars
<1>1. /\ pend' = [pend EXCEPT ![h] = 0] /\ known' = [known EXCEPT ![h] = FALSE]
      /\ pend' \in [Handler -> 0 .. created] /\ known' \in [Handler -> BOOLEAN]
  BY ActiveSendersAssumption DEF Verdict, TypeOK
<1>2. TypeOK' /\ List' /\ Walk'
  BY <1>1 DEF Verdict, TypeOK, List, OneEntryPerLink, Walk
<1>3. Sessions'
  <2>1. ASSUME NEW g \in Handler, known'[g]
        PROVE  entry'[pend'[g]].iprp_enabled /\ pend'[g] # 0
    <3>1. g # h /\ pend'[g] = pend[g] /\ known'[g] = known[g] /\ entry' = entry
      BY <1>1, <2>1 DEF Verdict, TypeOK
    <3>2. QED
      BY <2>1, <3>1, Zenon DEF Sessions
  <2>2. QED
    BY <2>1, Zenon DEF Sessions
<1>4. QED
  BY <1>2, <1>3

-----------------------------------------------------------------------------
(***************************************************************************)
(* The steps of the storing thread.                                        *)
(***************************************************************************)

(* What a step of the storing thread that leaves the list alone, and any step of
   the ICD, has to show. *)
LEMMA SameList ==
  ASSUME IInv, UNCHANGED imd_vars, TypeOK', Walk'
  PROVE  IInv'
<1>1. List' /\ Sessions'
  BY DEF IInv, List, OneEntryPerLink, Sessions, imd_vars
<1>2. QED
  BY <1>1 DEF IInv

(* count_and_cleanup at an active sender. *)
LEMMA AsKeepStep == ASSUME IInv, AsKeep PROVE IInv'
<1> USE ActiveSendersAssumption DEF IInv
<1> DEFINE e == active_senders[iter]
<1>1. /\ kept' = Append(kept, e) /\ count' = count + 1 /\ iter' = Next0(iter)
      /\ as_pc = "clean" /\ iter # 0 /\ UNCHANGED imd_vars
      /\ UNCHANGED <<now, as_pc, entries, file, icd_pc, capped>>
  BY DEF AsKeep
<1>2. /\ active_senders \in Seq(1 .. created) /\ iter \in 1 .. Len(active_senders)
      /\ kept \in Seq(Id) /\ iter = Len(kept) + 1 /\ count = Len(kept)
      /\ created \in 0 .. MaxEntries
  BY <1>1 DEF TypeOK, Walk
<1>3. e \in 1 .. created /\ e \in Id
  BY <1>2 DEF Id
<1>4. /\ kept' \in Seq(Id) /\ Len(kept') = Len(kept) + 1
      /\ kept'[Len(kept) + 1] = e
      /\ \A i \in 1 .. Len(kept) : kept'[i] = kept[i]
  BY <1>1, <1>2, <1>3
<1>5. count' \in 0 .. MaxEntries
  BY <1>1, <1>2, ListBounded
<1>6. Len(active_senders) \in Nat
  BY <1>2
<1>7. iter' \in 0 .. Len(active_senders) /\ (iter' # 0 => iter' = iter + 1)
  BY <1>1, <1>2, <1>6 DEF Next0
<1>8. TypeOK'
  BY <1>1, <1>4, <1>5, <1>7 DEF TypeOK, imd_vars
<1>9. Walk'
  <2>1. \A i \in 1 .. Len(kept') : kept'[i] = active_senders[i]
    <3>1. ASSUME NEW i \in 1 .. Len(kept') PROVE kept'[i] = active_senders[i]
      <4>1. Len(kept) \in Nat /\ (i \in 1 .. Len(kept) \/ i = Len(kept) + 1)
        BY <1>2, <1>4
      <4>2. QED
        BY <1>2, <1>4, <4>1 DEF Walk
    <3>2. QED
      BY <3>1
  <2>2. /\ count' = Len(kept') /\ Len(kept') <= Len(active_senders)
        /\ iter' # 0 => iter' = Len(kept') + 1
    BY <1>1, <1>2, <1>4, <1>7
  <2>3. QED
    BY <1>1, <2>1, <2>2 DEF Walk, imd_vars
<1>10. QED
  BY <1>1, <1>8, <1>9, SameList

(* count_and_cleanup at an aged sender: what was counted lies before it. *)
LEMMA AsDeleteStep == ASSUME IInv, AsDelete PROVE IInv'
<1> USE ActiveSendersAssumption DEF IInv
<1> DEFINE l == active_senders
<1>1. /\ l' = RemoveAt(l, iter) /\ as_pc = "clean" /\ iter # 0
      /\ iter' = IF iter < Len(l) THEN iter ELSE 0
      /\ UNCHANGED <<now, entry, created, pend, known, as_pc, count, entries,
                     kept, file, icd_pc, capped>>
  BY DEF AsDelete
<1>2. /\ l \in Seq(1 .. created) /\ iter \in 1 .. Len(l) /\ iter = Len(kept) + 1
      /\ kept \in Seq(Id) /\ Len(kept) \in Nat /\ Len(l) \in Nat
  BY <1>1 DEF TypeOK, Walk
<1>3. /\ l' \in Seq(1 .. created) /\ Len(l') = Len(l) - 1
      /\ \A i \in 1 .. Len(l) - 1 : l'[i] = IF i < iter THEN l[i] ELSE l[i + 1]
  BY <1>1, <1>2, RemoveAtProperties
<1>4. iter' \in 0 .. Len(l')
  BY <1>1, <1>2, <1>3
<1>5. TypeOK'
  BY <1>1, <1>3, <1>4 DEF TypeOK
<1>6. List'
  <2>1. ASSUME NEW i \in 1 .. Len(l') PROVE l'[i] >= i
    <3>1. i \in 1 .. Len(l) /\ i + 1 \in 1 .. Len(l)
      BY <1>2, <1>3
    <3>2. l[i] \in 1 .. created /\ l[i + 1] \in 1 .. created
      BY <1>2, <3>1, ElementOfSeq
    <3>3. l[i] >= i /\ l[i + 1] >= i + 1
      BY <3>1 DEF List
    <3>4. QED
      <4>1. l'[i] = l[i] \/ l'[i] = l[i + 1]
        BY <1>2, <1>3
      <4>2. QED
        BY <3>2, <3>3, <4>1
  <2>2. ASSUME NEW i \in 1 .. Len(l'), NEW j \in 1 .. Len(l'),
               entry'[l'[i]].key = entry'[l'[j]].key
        PROVE  i = j
    <3> DEFINE a == IF i < iter THEN i ELSE i + 1
               b == IF j < iter THEN j ELSE j + 1
    <3>1. a \in 1 .. Len(l) /\ b \in 1 .. Len(l) /\ (a = b => i = j)
      BY <1>2, <1>3
    <3>2. l'[i] = l[a] /\ l'[j] = l[b]
      BY <1>3
    <3>3. QED
      BY <1>1, <2>2, <3>1, <3>2 DEF List, OneEntryPerLink
  <2>3. QED
    BY <2>1, <2>2 DEF List, OneEntryPerLink
<1>7. Walk'
  <2>1. \A i \in 1 .. Len(kept) : l'[i] = l[i]
    BY <1>2, <1>3
  <2>2. QED
    BY <1>1, <1>2, <1>3, <2>1 DEF Walk
<1>8. Sessions'
  BY <1>1 DEF Sessions
<1>9. QED
  BY <1>5, <1>6, <1>7, <1>8

(* get_entries copies an entry: its iterator is in the list, and the entry is the
   next of those that were counted. *)
LEMMA AsCopyStep == ASSUME IInv, AsCopy PROVE IInv'
<1> USE ActiveSendersAssumption DEF IInv
<1> DEFINE e == active_senders[iter]
<1>1. /\ entries' = Append(entries, e) /\ iter' = Next0(iter)
      /\ as_pc = "copy" /\ Len(entries) < count /\ UNCHANGED imd_vars
      /\ UNCHANGED <<now, as_pc, count, kept, file, icd_pc, capped>>
  BY DEF AsCopy
<1>2. /\ entries \in Seq(Id) /\ kept \in Seq(Id)
      /\ active_senders \in Seq(1 .. created) /\ created \in 0 .. MaxEntries
      /\ iter = Len(entries) + 1 /\ count = Len(kept)
      /\ Len(kept) <= Len(active_senders)
  BY <1>1 DEF TypeOK, Walk
<1>3. /\ Len(entries) \in Nat /\ Len(kept) \in Nat /\ Len(active_senders) \in Nat
      /\ iter \in 1 .. Len(kept) /\ iter \in 1 .. Len(active_senders)
  BY <1>1, <1>2
<1>4. e \in Id /\ e = kept[iter]
  <2>1. e \in 1 .. created
    BY <1>2, <1>3
  <2>2. QED
    BY <1>2, <1>3, <2>1 DEF Id, Walk
<1>5. /\ entries' \in Seq(Id) /\ Len(entries') = iter /\ entries'[iter] = e
      /\ \A i \in 1 .. Len(entries) : entries'[i] = entries[i]
  BY <1>1, <1>2, <1>4
<1>6. /\ iter' \in 0 .. Len(active_senders)
      /\ iter < Len(kept) => iter' = iter + 1
  BY <1>1, <1>2, <1>3 DEF Next0
<1>7. TypeOK'
  BY <1>1, <1>5, <1>6 DEF TypeOK, imd_vars
<1>8. \A i \in 1 .. Len(entries') : entries'[i] = kept[i]
  BY <1>1, <1>2, <1>3, <1>4, <1>5 DEF Walk
<1>9. Walk'
  BY <1>1, <1>2, <1>3, <1>5, <1>6, <1>8 DEF Walk, imd_vars
<1>10. QED
  BY <1>1, <1>7, <1>9, SameList

(* activesenders_store writes as many links as were copied. *)
LEMMA AsWriteStep == ASSUME IInv, AsWrite PROVE IInv'
<1> USE ActiveSendersAssumption DEF IInv
<1>1. /\ count \in Nat /\ entries \in Seq(Id) /\ Len(entries) = count
      /\ file' = [i \in 1 .. count |-> entry[entries[i]].key]
  BY DEF AsWrite, TypeOK, Walk
<1>2. \A i \in 1 .. count : entry[entries[i]].key \in Key \union {NoKey}
  BY <1>1 DEF TypeOK, EntryType
<1>3. file' \in Seq(Key \union {NoKey})
  BY <1>1, <1>2
<1>4. TypeOK'
  BY <1>3, ActiveSendersAssumption DEF AsWrite, TypeOK, imd_vars
<1>5. Walk'
  BY DEF AsWrite, Walk, TypeOK, imd_vars
<1>6. QED
  BY <1>4, <1>5, SameList DEF AsWrite

(* The other steps of the storing thread move between its two walks. *)
LEMMA AsTurnStep == ASSUME IInv, AsStart \/ AsCleaned \/ AsOpen PROVE IInv'
<1> USE ActiveSendersAssumption DEF IInv
<1>1. active_senders \in Seq(1 .. created) /\ Head0 \in 0 .. Len(active_senders)
  BY DEF TypeOK, Head0
<1>2. UNCHANGED imd_vars
  BY DEF AsStart, AsCleaned, AsOpen
<1>3. CASE AsStart
  <2>1. TypeOK'
    BY <1>1, <1>3, ActiveSendersAssumption DEF AsStart, TypeOK, imd_vars
  <2>2. Head0 # 0 => Head0 = 1
    BY DEF Head0
  <2>3. Walk'
    BY <1>1, <1>3, <2>2 DEF AsStart, Walk, imd_vars
  <2>4. QED
    BY <1>2, <2>1, <2>3, SameList
<1>4. CASE AsCleaned
  <2>1. TypeOK'
    BY <1>1, <1>4 DEF AsCleaned, TypeOK, imd_vars
  <2>2. count > 0 => Head0 = 1
    BY <1>1 DEF Head0, Walk, TypeOK
  <2>3. Walk'
    BY <1>1, <1>4, <2>2 DEF AsCleaned, Walk, imd_vars, TypeOK
  <2>4. QED
    BY <1>2, <2>1, <2>3, SameList
<1>5. CASE AsOpen
  <2>1. Truncated \in Seq(Key \union {NoKey})
    BY DEF Truncated
  <2>2. TypeOK'
    BY <1>5, <2>1 DEF AsOpen, TypeOK, imd_vars
  <2>3. Walk'
    BY <1>5 DEF AsOpen, Walk, imd_vars
  <2>4. QED
    BY <1>2, <2>2, <2>3, SameList
<1>6. QED
  BY <1>3, <1>4, <1>5

-----------------------------------------------------------------------------
(* The CAP thread of the ICD only reads links from the file, and the clock only
   moves on. *)
LEMMA OtherStep ==
  ASSUME IInv, IcdRoutine \/ Tick \/ UNCHANGED vars
  PROVE  IInv'
<1> USE ActiveSendersAssumption DEF IInv
<1>1. UNCHANGED imd_vars /\ UNCHANGED as_vars
  BY DEF IcdRoutine, IcdInit, IcdSendCaps, IcdCrash, IcdWake, Tick, vars, imd_vars,
         as_vars
<1>2. Walk'
  BY <1>1 DEF Walk, imd_vars, as_vars
<1>3. TypeOK'
  <2>1. CASE IcdInit \/ IcdWake
    <3>1. file' \in Seq(Key \union {NoKey})
      <4>1. file' = <<>> \/ file' = file
        BY <2>1 DEF IcdInit, IcdWake
      <4>2. <<>> \in Seq(Key \union {NoKey}) /\ file \in Seq(Key \union {NoKey})
        BY EmptySeq DEF TypeOK
      <4>3. QED
        BY <4>1, <4>2, Zenon
    <3>2. icd_pc' = "load" /\ now' = now
      BY <2>1 DEF IcdInit, IcdWake
    <3>3. capped' \subseteq Key \union {NoKey}
      <4>1. capped' = capped \/ capped' = {}
        BY <2>1 DEF IcdInit, IcdWake
      <4>2. QED
        BY <4>1 DEF TypeOK
    <3>4. QED
      BY <1>1, <3>1, <3>2, <3>3 DEF TypeOK, imd_vars, as_vars
  <2>2. CASE IcdSendCaps
    <3>1. ASSUME NEW s \in Seq(Key \union {NoKey})
          PROVE  CapTargets(s) \subseteq Key \union {NoKey}
      BY DEF CapTargets, ToSet
    <3>2. PICK n \in 0 .. MaxGarbage :
            capped' = CapTargets(IF IsTruncated THEN [i \in 1 .. n |-> NoKey]
                                 ELSE file)
      BY <2>2 DEF IcdSendCaps
    <3>3. n \in Nat
      BY <3>2, ActiveSendersAssumption
    <3>4. [i \in 1 .. n |-> NoKey] \in Seq(Key \union {NoKey})
      BY <3>3
    <3>5. capped' \subseteq Key \union {NoKey}
      BY <3>1, <3>2, <3>4 DEF TypeOK
    <3>6. QED
      BY <1>1, <2>2, <3>5 DEF IcdSendCaps, TypeOK, imd_vars, as_vars
  <2>3. CASE IcdCrash
    BY <1>1, <2>3 DEF IcdCrash, TypeOK, imd_vars, as_vars
  <2>4. CASE Tick \/ UNCHANGED vars
    BY <1>1, <2>4, ActiveSendersAssumption DEF Tick, vars, TypeOK, imd_vars, as_vars
  <2>5. QED
    BY <2>1, <2>2, <2>3, <2>4 DEF IcdRoutine
<1>4. QED
  BY <1>1, <1>2, <1>3, SameList

(* The inductive invariant holds in every reachable state. *)
LEMMA Invariance == Spec => []IInv
<1>1. IInv /\ [Next]_vars => IInv'
  BY HandleKnownStep, HandleNewStep, VerdictStep, AsKeepStep, AsDeleteStep,
     AsCopyStep, AsWriteStep, AsTurnStep, OtherStep
     DEF Next, Handle, AsRoutine
<1>2. QED
  BY <1>1, InitIInv, PTL DEF Spec

(* The list, the copies and the file keep their types for any number of links and
   entries; in particular no count exceeds the entries there are. *)
THEOREM TypeCorrect == Spec => []TypeOK
  BY Invariance, PTL DEF IInv

(* The two handlers never give a link two entries. *)
THEOREM OneEntry == Spec => []OneEntryPerLink
  BY Invariance, PTL DEF IInv, List

(* get_entries, which tests neither its iterator nor the mutex, follows no null
   pointer and copies exactly the entries that count_and_cleanup counted. *)
THEOREM CopiesAreSafe == Spec => []CountedAreCopied
<1>1. IInv => CountedAreCopied
  <2> SUFFICES ASSUME IInv, as_pc = "copy"
               PROVE  /\ count = Len(kept)
                      /\ IsPrefix(kept, active_senders)
                      /\ IsPrefix(entries, kept)
                      /\ Len(entries) < count => iter = Len(entries) + 1
    BY DEF CountedAreCopied
  <2> USE ActiveSendersAssumption DEF IInv
  <2>1. count = Len(kept) /\ (Len(entries) < count => iter = Len(entries) + 1)
    BY DEF Walk
  <2>2. IsPrefix(entries, kept)
    <3>1. entries \in Seq(Id) /\ kept \in Seq(Id)
      BY DEF TypeOK
    <3>2. Len(entries) <= Len(kept) /\ \A i \in 1 .. Len(entries) : entries[i] = kept[i]
      BY DEF Walk
    <3>3. QED
      BY <3>1, <3>2, PrefixByElements
  <2>3. IsPrefix(kept, active_senders)
    <3>1. kept \in Seq(Id) /\ active_senders \in Seq(1 .. created)
      BY DEF TypeOK
    <3>2. 1 .. created \subseteq Id
      BY DEF TypeOK, Id
    <3>3. active_senders \in Seq(Id)
      BY <3>1, <3>2, SeqMonotonic
    <3>4. QED
      BY <3>1, <3>3, PrefixByElements DEF Walk
  <2>4. QED
    BY <2>1, <2>2, <2>3
<1>2. QED
  BY <1>1, Invariance, PTL

(* The verdict, given after the mutex is released from an entry that is read again,
   agrees with the session the handler saw: no plain packet of an iPRP session is
   accepted in multicast, and no iPRP packet is dropped. *)
THEOREM VerdictsFollowSessions == Spec => []VerdictFollowsSession
<1>1. IInv => VerdictFollowsSession
  BY Zenon DEF IInv, Sessions, VerdictFollowsSession, Accepts
<1>2. QED
  BY <1>1, Invariance, PTL
============================================================================
