--------------------------- MODULE ActiveSenders ---------------------------
(***************************************************************************)
(* How a receiver learns of its senders: the monitoring daemon (IMD), with *)
(* its two packet handlers (src/imd/handle.c) and the thread that ages and *)
(* stores the active senders (src/imd/activesenders.c), the file it writes *)
(* (src/lib/files.c), and the thread of the control daemon that reads it   *)
(* and sends CAP messages (src/icd/activesenders.c).                       *)
(*                                                                         *)
(* Handler "imd" sees plain packets and handler "ird" those the IRD passes *)
(* on.  Both work on the list under its mutex and give the verdict after   *)
(* releasing it.  The storing thread takes the mutex per element while it  *)
(* ages the list, and not at all while it copies the list.  An iterator is *)
(* a position in the list, 0 for NULL.  Entries are never freed.           *)
(***************************************************************************)
EXTENDS Integers, SequencesExt

CONSTANTS
  Key,          \* links: source and destination address and port
  NoKey,        \* the all-zero link of an entry that was not read
  Multicast,    \* the IPRP_MULTICAST build
  Acked,        \* multicast: the links with a sender interfaces entry
  IMD_AS_TEXP,  \* seconds a silent sender is kept (120 in the code)
  MaxEntries,   \* bound: entries created
  MaxTime,      \* bound: the last second
  MaxGarbage    \* bound: the value of a count that was not read

ASSUME ActiveSendersAssumption ==
  /\ NoKey \notin Key /\ Multicast \in BOOLEAN /\ Acked \subseteq Key
  /\ IMD_AS_TEXP \in Nat /\ MaxEntries \in Nat /\ MaxTime \in Nat
  /\ MaxGarbage \in Nat

Handler == {"imd", "ird"}
Id == 1 .. MaxEntries

VARIABLES
  now,             \* curr_time
  entry,           \* entry[e]: the active sender structure e
  created,         \* entries created so far
  active_senders,  \* the list
  pend,            \* pend[h]: entry of the packet h has to rule on, 0 if none
  known,           \* history: that packet's link had a session when it came in
  as_pc,           \* control point of the storing thread
  iter,            \* its iterator
  count,           \* its count of entries
  entries,         \* the entries it has copied
  kept,            \* history: the entries it has counted
  file,            \* the links in the file, or Truncated
  icd_pc,          \* control point of the CAP thread
  capped           \* the links this round of CAP messages went to

vars == <<now, entry, created, active_senders, pend, known, as_pc, iter, count,
          entries, kept, file, icd_pc, capped>>
imd_vars == <<entry, created, active_senders, pend, known>>
as_vars == <<as_pc, iter, count, entries, kept>>

Truncated == <<NoKey>>
IsTruncated == file = Truncated

-----------------------------------------------------------------------------
(***************************************************************************)
(* The handlers, global_handle.                                            *)
(***************************************************************************)
find_entry(k) == {e \in ToSet(active_senders) : entry[e].key = k}

(* Mutated form of HandleKnown: the session follows the last packet. *)
HandleKnownReset(h, k) ==
  /\ pend[h] = 0
  /\ \E e \in find_entry(k) :
       /\ entry' = [entry EXCEPT ![e].last_seen = now,
                                 ![e].iprp_enabled = (h = "ird")]
       /\ pend' = [pend EXCEPT ![h] = e]
       /\ known' = [known EXCEPT ![h] = entry[e].iprp_enabled]
  /\ UNCHANGED <<now, created, active_senders, as_vars, file, icd_pc,
                 capped>>

(* Under the mutex, for a link in the list. *)
HandleKnown(h, k) ==
  /\ pend[h] = 0
  /\ \E e \in find_entry(k) :
       /\ entry' = [entry EXCEPT ![e].last_seen = now,
                                 ![e].iprp_enabled = @ \/ h = "ird"]
       /\ pend' = [pend EXCEPT ![h] = e]
       /\ known' = [known EXCEPT ![h] = entry[e].iprp_enabled]
  /\ UNCHANGED <<now, created, active_senders, as_vars, file, icd_pc,
                 capped>>

(* activesenders_create_entry, with the time set at the end of the section. *)
create_entry(h, k) == [key |-> k, last_seen |-> now, iprp_enabled |-> h = "ird"]

(* Mutated form of HandleNew: the list is not searched. *)
HandleNewBlind(h, k) ==
  /\ pend[h] = 0 /\ created < MaxEntries
  /\ created' = created + 1
  /\ entry' = [entry EXCEPT ![created + 1] = create_entry(h, k)]
  /\ active_senders' = Append(active_senders, created + 1)
  /\ pend' = [pend EXCEPT ![h] = created + 1]
  /\ known' = [known EXCEPT ![h] = FALSE]
  /\ UNCHANGED <<now, as_vars, file, icd_pc, capped>>

(* Under the mutex, for a new link. *)
HandleNew(h, k) ==
  /\ pend[h] = 0 /\ created < MaxEntries
  /\ find_entry(k) = {}
  /\ created' = created + 1
  /\ entry' = [entry EXCEPT ![created + 1] = create_entry(h, k)]
  /\ active_senders' = Append(active_senders, created + 1)
  /\ pend' = [pend EXCEPT ![h] = created + 1]
  /\ known' = [known EXCEPT ![h] = FALSE]
  /\ UNCHANGED <<now, as_vars, file, icd_pc, capped>>

(* The verdict on the packet h holds: the entry is read again, without the
   mutex. *)
Accepts(h) == ~Multicast \/ h = "ird" \/ ~entry[pend[h]].iprp_enabled

(* After the unlock: the verdict is given. *)
Verdict(h) ==
  /\ pend[h] # 0
  /\ pend' = [pend EXCEPT ![h] = 0]
  /\ known' = [known EXCEPT ![h] = FALSE]
  /\ UNCHANGED <<now, entry, created, active_senders, as_vars, file, icd_pc,
                 capped>>

-----------------------------------------------------------------------------
(***************************************************************************)
(* The storing thread, as_routine of the IMD.                              *)
(***************************************************************************)
Head0 == IF active_senders = <<>> THEN 0 ELSE 1
Next0(i) == IF i < Len(active_senders) THEN i + 1 ELSE 0
Expired(e) == now - entry[e].last_seen > IMD_AS_TEXP

(* count_and_cleanup starts: the head is read without the mutex. *)
AsStart ==
  /\ as_pc = "sleep"
  /\ as_pc' = "clean"
  /\ iter' = Head0 /\ count' = 0 /\ kept' = <<>>
  /\ UNCHANGED <<now, imd_vars, entries, file, icd_pc, capped>>

(* Under the mutex, at a sender that is still active. *)
AsKeep ==
  /\ as_pc = "clean" /\ iter # 0
  /\ ~Expired(active_senders[iter])
  /\ count' = count + 1
  /\ kept' = Append(kept, active_senders[iter])
  /\ iter' = Next0(iter)
  /\ UNCHANGED <<now, imd_vars, as_pc, entries, file, icd_pc, capped>>

(* Mutated forms of AsDelete: the iterator is left where it was; an aged entry is
   counted. *)
AsDeleteNoAdvance ==
  /\ as_pc = "clean" /\ iter # 0
  /\ Expired(active_senders[iter])
  /\ active_senders' = RemoveAt(active_senders, iter)
  /\ UNCHANGED <<now, entry, created, pend, known, as_pc, iter, count,
                 entries, kept, file, icd_pc, capped>>
AsDeleteCounted ==
  /\ as_pc = "clean" /\ iter # 0
  /\ Expired(active_senders[iter])
  /\ active_senders' = RemoveAt(active_senders, iter)
  /\ iter' = IF iter < Len(active_senders) THEN iter ELSE 0
  /\ count' = count + 1
  /\ UNCHANGED <<now, entry, created, pend, known, as_pc, entries, kept,
                 file, icd_pc, capped>>

(* Under the mutex, at an aged one: the element that follows takes its place. *)
AsDelete ==
  /\ as_pc = "clean" /\ iter # 0
  /\ Expired(active_senders[iter])
  /\ active_senders' = RemoveAt(active_senders, iter)
  /\ iter' = IF iter < Len(active_senders) THEN iter ELSE 0
  /\ UNCHANGED <<now, entry, created, pend, known, as_pc, count, entries,
                 kept, file, icd_pc, capped>>

(* get_entries starts, without the mutex. *)
AsCleaned ==
  /\ as_pc = "clean" /\ iter = 0
  /\ as_pc' = "copy"
  /\ iter' = Head0 /\ entries' = <<>>
  /\ UNCHANGED <<now, imd_vars, count, kept, file, icd_pc, capped>>

(* get_entries copies an element; iterator is not tested. *)
AsCopy ==
  /\ as_pc = "copy" /\ Len(entries) < count
  /\ entries' = Append(entries, active_senders[iter])
  /\ iter' = Next0(iter)
  /\ UNCHANGED <<now, imd_vars, as_pc, count, kept, file, icd_pc, capped>>

(* activesenders_store: fopen(path, "w"). *)
AsOpen ==
  /\ as_pc = "copy" /\ Len(entries) = count
  /\ as_pc' = "write"
  /\ file' = Truncated
  /\ UNCHANGED <<now, imd_vars, iter, count, entries, kept, icd_pc, capped>>

(* Mutated form of AsWrite: the count, and no entries. *)
AsWriteNone ==
  /\ as_pc = "write"
  /\ as_pc' = "sleep"
  /\ file' = <<>>
  /\ entries' = <<>> /\ kept' = <<>> /\ count' = 0
  /\ UNCHANGED <<now, imd_vars, iter, icd_pc, capped>>

(* activesenders_store: the count and the entries. *)
AsWrite ==
  /\ as_pc = "write"
  /\ as_pc' = "sleep"
  /\ file' = [i \in 1 .. count |-> entry[entries[i]].key]
  /\ entries' = <<>> /\ kept' = <<>> /\ count' = 0
  /\ UNCHANGED <<now, imd_vars, iter, icd_pc, capped>>

-----------------------------------------------------------------------------
(***************************************************************************)
(* The CAP thread, as_routine of the ICD.                                  *)
(***************************************************************************)

(* The file is created empty. *)
IcdInit ==
  /\ icd_pc = "init"
  /\ file' = <<>>
  /\ icd_pc' = "load"
  /\ UNCHANGED <<now, imd_vars, as_vars, capped>>

(* The senders of a list that the loop reaches and sends a CAP message: all of
   them, and in multicast those before the first without an entry. *)
CapTargets(senders) ==
  IF Multicast
  THEN {senders[i] : i \in {j \in DOMAIN senders :
                            \A m \in 1 .. j : senders[m] \in Acked}}
  ELSE ToSet(senders)

(* get_active_senders, then send_cap.  Of a file that the IMD has just truncated
   nothing is read: count is what the stack held, and the senders are the zeros
   of calloc. *)
IcdSendCaps ==
  /\ icd_pc = "load"
  /\ \E n \in 0 .. MaxGarbage :
       capped' = CapTargets(IF IsTruncated THEN [i \in 1 .. n |-> NoKey] ELSE file)
  /\ icd_pc' = "sleep"
  /\ UNCHANGED <<now, imd_vars, as_vars, file>>

(* That count is more than calloc can serve: senders is NULL, and is read. *)
IcdCrash ==
  /\ icd_pc = "load" /\ IsTruncated
  /\ icd_pc' = "ended"
  /\ UNCHANGED <<now, imd_vars, as_vars, file, capped>>

(* The sleep between two rounds ends. *)
IcdWake ==
  /\ icd_pc = "sleep"
  /\ icd_pc' = "load"
  /\ capped' = {}
  /\ UNCHANGED <<now, imd_vars, as_vars, file>>

Tick ==
  /\ now < MaxTime
  /\ now' = now + 1
  /\ UNCHANGED <<imd_vars, as_vars, file, icd_pc, capped>>

-----------------------------------------------------------------------------
Init ==
  /\ now = 0
  /\ entry = [e \in Id |-> [key |-> NoKey, last_seen |-> 0,
                            iprp_enabled |-> FALSE]]
  /\ created = 0
  /\ active_senders = <<>>
  /\ pend = [h \in Handler |-> 0]
  /\ known = [h \in Handler |-> FALSE]
  /\ as_pc = "sleep"
  /\ iter = 0 /\ count = 0 /\ entries = <<>> /\ kept = <<>>
  /\ file = <<>>
  /\ icd_pc = "init"
  /\ capped = {}

Handle(h) == (\E k \in Key : HandleKnown(h, k) \/ HandleNew(h, k)) \/ Verdict(h)
AsRoutine ==
  AsStart \/ AsKeep \/ AsDelete \/ AsCleaned \/ AsCopy \/ AsOpen \/ AsWrite
IcdRoutine == IcdInit \/ IcdSendCaps \/ IcdCrash \/ IcdWake

Next == (\E h \in Handler : Handle(h)) \/ AsRoutine \/ IcdRoutine \/ Tick

Spec == Init /\ [][Next]_vars

(* The storing thread and the CAP thread never block for good. *)
FairSpec == Spec /\ WF_vars(AsRoutine) /\ WF_vars(IcdRoutine)

-----------------------------------------------------------------------------
EntryType == [key : Key \union {NoKey}, last_seen : Nat, iprp_enabled : BOOLEAN]

TypeOK ==
  /\ now \in 0 .. MaxTime
  /\ entry \in [Id -> EntryType]
  /\ created \in 0 .. MaxEntries
  /\ active_senders \in Seq(1 .. created)
  /\ pend \in [Handler -> 0 .. created]
  /\ known \in [Handler -> BOOLEAN]
  /\ as_pc \in {"sleep", "clean", "copy", "write"}
  /\ iter \in 0 .. Len(active_senders)
  /\ count \in 0 .. MaxEntries
  /\ entries \in Seq(Id) /\ kept \in Seq(Id)
  /\ file \in Seq(Key \union {NoKey})
  /\ icd_pc \in {"init", "load", "sleep", "ended"}
  /\ capped \subseteq Key \union {NoKey}

(* A link has one entry, although two handlers create entries. *)
OneEntryPerLink ==
  \A i, j \in 1 .. Len(active_senders) :
    entry[active_senders[i]].key = entry[active_senders[j]].key => i = j

(* get_entries never follows a null pointer, and copies the entries that
   count_and_cleanup counted, although the handlers append to the list in
   between and during both and it takes no mutex. *)
CountedAreCopied ==
  as_pc = "copy" =>
    /\ count = Len(kept)
    /\ IsPrefix(kept, active_senders)
    /\ IsPrefix(entries, kept)
    /\ Len(entries) < count => iter = Len(entries) + 1

(* Once the IMD has seen an iPRP packet of a link, a plain packet of that link
   that comes in later is dropped, whenever the handler gives its verdict; no iPRP
   packet is. *)
VerdictFollowsSession ==
  \A h \in Handler :
    pend[h] # 0 =>
      /\ h = "ird" => Accepts(h)
      /\ (Multicast /\ h = "imd" /\ known[h]) => ~Accepts(h)

(* A sender that stays active is in the file again and again, for the ICD. *)
ActiveIsStored ==
  \A k \in Key :
    <>[](\E e \in find_entry(k) : ~Expired(e))
      => []<>(k \in ToSet(file))

(* A round that could read the file sends a CAP message to every sender from
   which no ACK was received. *)
UnackedGetCap ==
  [][(IcdSendCaps /\ ~IsTruncated) => ToSet(file) \ Acked \subseteq capped']_vars
============================================================================
