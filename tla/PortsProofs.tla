---------------------------- MODULE PortsProofs ----------------------------
(***************************************************************************)
(* Proofs about the ports thread.  What RulesMatchTable and                *)
(* ReceiversFollowPorts say holds between two passes.  Inside a pass the   *)
(* rules follow the list of monitored ports instead of the table (Chain),  *)
(* and the list agrees with the table on the part that the iterator has    *)
(* passed (Pass).                                                          *)
(***************************************************************************)
EXTENDS Ports, ListLemmas

(* A port of the list has one rule of this control daemon, any other has none;
   later generations have no rules yet. *)
Chain ==
  /\ \A p \in Port : \A k, m \in Rules(p) : k = m
  /\ \A p \in Port : Rules(p) # {} <=> p \in ToSet(monitored_ports)
  /\ \A k \in DOMAIN chain : chain[k].queue <= gen

(* The list has no port twice.  The closing loop leaves ports of the table behind
   it, and the opening loop ports of the list. *)
Pass ==
  /\ NoRepeats(monitored_ports)
  /\ pc = "close" => \A i \in 1 .. pos - 1 : monitored_ports[i] \in ToSet(new_ports)
  /\ pc = "open" =>
       /\ pos <= Len(new_ports) + 1
       /\ ToSet(monitored_ports) \subseteq ToSet(new_ports)
       /\ \A i \in 1 .. pos - 1 : new_ports[i] \in ToSet(monitored_ports)
  /\ pc = "sleep" => ToSet(monitored_ports) = ToSet(new_ports)
  /\ pc \notin {"close", "open"} => pos = 1

(* What receiver_active says of the daemons, and how long they have been dead. *)
Receiving ==
  /\ \A d \in {ird[gen], imd[gen]} :
       d \in IF receiver_active THEN {"forked", "running", "crashed"}
             ELSE {"none", "killed"}
  /\ \A g \in Gen : g > gen => ird[g] = "none" /\ imd[g] = "none"
  /\ pc = "sleep" => (receiver_active <=> monitored_ports # <<>>)
  /\ idle >= IF pc = "sleep" THEN slept ELSE ICD_T_PORTS

IInv == TypeOK /\ Chain /\ Pass /\ Receiving
-----------------------------------------------------------------------------
(***************************************************************************)
(* The table that is read.                                                 *)
(***************************************************************************)

(* get_monitored_ports returns a table of ports, of at most the size of the array,
   whatever the file contains. *)
LEMMA TableType ==
  ASSUME NEW f \in Seq(Port \union {Word}), NEW t \in get_monitored_ports(f)
  PROVE  /\ t \in SeqOf(Port, IPRP_MAX_MONITORED_PORTS)
         /\ t \in Seq(Port) /\ Len(t) \in Nat
<1> USE PortsAssumption
<1> DEFINE M == IPRP_MAX_MONITORED_PORTS
           n == Numbers(f)
           rest == IF n = Len(f) THEN 0 ELSE M - n
           N == {m \in 0 .. M : m <= Len(f) /\ \A k \in 1 .. m : f[k] # Word}
<1>1. n \in N
  <2>1. N \subseteq 0 .. M /\ N # {} /\ 0 \in Int /\ M \in Int
    <3>1. 0 \in N
      OBVIOUS
    <3>2. QED
      BY <3>1
  <2>2. Max(N) \in N
    <3> HIDE DEF N, M
    <3>1. QED
      BY <2>1, MaxIn
  <2>3. QED
    BY <2>2, Zenon DEF Numbers
<1>2. n \in 0 .. M /\ n <= Len(f) /\ \A k \in 1 .. n : f[k] \in Port
  BY <1>1
<1>3. PICK g \in [1 .. rest -> Port] : t = SubSeq(f, 1, n) \o g
  BY DEF get_monitored_ports
<1> HIDE DEF n
<1>4. rest \in Nat /\ n \in Nat /\ n + rest <= M
  BY <1>2
<1> HIDE DEF rest
<1>5. SubSeq(f, 1, n) \in Seq(Port) /\ Len(SubSeq(f, 1, n)) = n
  BY <1>2, <1>4, SubSeqProperties
<1>6. g \in Seq(Port) /\ Len(g) = rest
  BY <1>3, <1>4
<1>7. t \in Seq(Port) /\ Len(t) = n + rest
  BY <1>3, <1>4, <1>5, <1>6, ConcatProperties
<1>8. t \in [1 .. n + rest -> Port] /\ n + rest \in 0 .. M
  BY <1>4, <1>7
<1>9. [1 .. n + rest -> Port] \in {[1 .. m -> Port] : m \in 0 .. M}
  BY <1>8
<1>10. t \in SeqOf(Port, M)
  BY <1>8, <1>9, Zenon DEF SeqOf
<1>11. QED
  BY <1>4, <1>7, <1>10

(* A table is a sequence of ports. *)
LEMMA TableIsSeq ==
  ASSUME NEW t \in SeqOf(Port, IPRP_MAX_MONITORED_PORTS)
  PROVE  t \in Seq(Port)
  BY DEF SeqOf

-----------------------------------------------------------------------------
(***************************************************************************)
(* Type correctness.                                                       *)
(***************************************************************************)

(* The control daemon starts in a state of the invariant. *)
LEMMA InitIInv == Init => IInv
<1> SUFFICES ASSUME Init PROVE IInv
  OBVIOUS
<1> USE PortsAssumption DEF Init
<1>1. pos \in 1 .. Max({Len(monitored_ports), Len(new_ports)}) + 1
  BY PosRange
<1>2. new_ports \in SeqOf(Port, IPRP_MAX_MONITORED_PORTS)
  BY DEF SeqOf
<1>3. /\ ird \in [Gen -> Daemon] /\ imd \in [Gen -> Daemon] /\ gen \in Gen
      /\ \A g \in Gen : ird[g] = "none" /\ imd[g] = "none"
  BY DEF Gen, Daemon
<1>4. writing \in BOOLEAN /\ receiver_active \in BOOLEAN
  BY Zenon
<1>5. /\ file \in Files /\ edits \in 0 .. MaxEdits /\ open_files \in 0 .. OPEN_MAX
      /\ monitored_ports \in Seq(Port) /\ chain \in Seq(Rule)
      /\ slept \in 0 .. ICD_T_PORTS /\ idle \in 0 .. ICD_T_PORTS /\ pc = "read"
  OBVIOUS
<1>6. TypeOK
  BY <1>1, <1>2, <1>3, <1>4, <1>5, Zenon DEF TypeOK
<1>7. Chain
  BY DEF Chain, Rules, ToSet
<1>8. Pass
  BY DEF Pass, NoRepeats
<1>9. Receiving
  BY <1>3 DEF Receiving
<1>10. QED
  BY <1>6, <1>7, <1>8, <1>9 DEF IInv

(* What the types say of the list, the table and the iterator. *)
LEMMA Lists ==
  ASSUME TypeOK
  PROVE  /\ monitored_ports \in Seq(Port) /\ new_ports \in Seq(Port)
         /\ Len(monitored_ports) \in Nat /\ Len(new_ports) \in Nat
         /\ DOMAIN monitored_ports = 1 .. Len(monitored_ports)
         /\ DOMAIN new_ports = 1 .. Len(new_ports)
         /\ pos \in Nat \ {0}
<1>1. monitored_ports \in Seq(Port) /\ new_ports \in Seq(Port)
  BY TableIsSeq DEF TypeOK
<1>2. Len(monitored_ports) \in Nat /\ Len(new_ports) \in Nat
  BY <1>1
<1>3. Max({Len(monitored_ports), Len(new_ports)}) \in Nat
  BY <1>2, MaxOfTwo
<1>4. pos \in Nat \ {0}
  BY <1>3 DEF TypeOK
<1>5. QED
  BY <1>1, <1>2, <1>4

(* Every step of the thread, of its children and of what is around it keeps the
   types. *)
LEMMA NextTypeOK == IInv /\ [Next]_vars => TypeOK'
<1> SUFFICES ASSUME IInv, [Next]_vars PROVE TypeOK'
  OBVIOUS
<1>0. TypeOK /\ Pass /\ Receiving
  BY DEF IInv
<1>1. CASE EditTruncate
  <2>1. writing' \in BOOLEAN /\ edits' \in 0 .. MaxEdits /\ file' \in Files
    BY <1>0, <1>1, PortsAssumption DEF EditTruncate, TypeOK
  <2>2. QED
    BY <1>0, <1>1, <2>1 DEF EditTruncate, TypeOK, thread
<1>2. CASE EditWrite
  BY <1>0, <1>2 DEF EditWrite, TypeOK, thread
<1>3. CASE Tick
  <2>1. slept' \in 0 .. ICD_T_PORTS /\ idle' \in 0 .. ICD_T_PORTS
    BY <1>0, <1>3, PortsAssumption DEF Tick, TypeOK
  <2>2. QED
    BY <1>0, <1>3, <2>1 DEF Tick, TypeOK, admin
<1>4. CASE Restart
  <2>1. new_ports' \in SeqOf(Port, IPRP_MAX_MONITORED_PORTS)
    BY <1>4, PortsAssumption DEF Restart, SeqOf
  <2>2. pos' \in 1 .. Max({Len(monitored_ports'), Len(new_ports')}) + 1
    BY <1>4, PosRange DEF Restart
  <2>3. /\ gen' \in Gen /\ open_files' \in 0 .. OPEN_MAX /\ monitored_ports' \in Seq(Port)
        /\ slept' \in 0 .. ICD_T_PORTS /\ idle' \in 0 .. ICD_T_PORTS
        /\ pc' = "read" /\ UNCHANGED <<file, writing, edits, chain, ird, imd>>
    BY <1>0, <1>4, PortsAssumption DEF Restart, TypeOK, Gen, admin
  <2>4. receiver_active' \in BOOLEAN
    BY <1>4, Zenon DEF Restart
  <2>5. QED
    BY <1>0, <2>1, <2>2, <2>3, <2>4, Zenon DEF TypeOK
<1>5. ASSUME NEW g \in Gen, IrdExec(g) PROVE TypeOK'
  <2>1. [port |-> IPRP_DATA_PORT, queue |-> g] \in Rule
    BY DEF Rule
  <2>2. chain' \in Seq(Rule) /\ ird' \in [Gen -> Daemon]
    BY <1>0, <1>5, <2>1 DEF IrdExec, TypeOK, Daemon
  <2>3. QED
    BY <1>0, <1>5, <2>2 DEF IrdExec, TypeOK, admin, thread
<1>6. ASSUME NEW g \in Gen, ImdExec(g) PROVE TypeOK'
  BY <1>0, <1>6 DEF ImdExec, TypeOK, admin, thread, Daemon
<1>7. CASE DaemonCrash
  BY <1>0, <1>7 DEF DaemonCrash, TypeOK, admin, thread, Daemon
<1>8. CASE Read
  <2>1. file \in Seq(Port \union {Word})
    BY <1>0, PortsAssumption DEF TypeOK
  <2>2. /\ new_ports' \in SeqOf(Port, IPRP_MAX_MONITORED_PORTS)
        /\ Len(new_ports') \in Nat
    BY <1>8, <2>1, TableType DEF Read
  <2>3. pos' \in 1 .. Max({Len(monitored_ports'), Len(new_ports')}) + 1
    BY <1>0, <1>8, <2>2, PosRange, Lists DEF Read
  <2>4. open_files' \in 0 .. OPEN_MAX /\ pc' = "close" /\ pos' <= Len(monitored_ports') + 1
    BY <1>0, <1>8, PortsAssumption, Lists DEF Read, TypeOK
  <2>5. QED
    BY <1>0, <1>8, <2>2, <2>3, <2>4 DEF Read, TypeOK, admin
<1>9. CASE ReadFails
  BY <1>0, <1>9 DEF ReadFails, TypeOK, admin
<1>10. CASE CloseExpired
  <2>1. pos \in 1 .. Len(monitored_ports)
    BY <1>0, <1>10, Lists DEF CloseExpired
  <2>2. /\ monitored_ports' \in Seq(Port)
        /\ Len(monitored_ports') = Len(monitored_ports) - 1
    BY <1>0, <1>10, <2>1, Lists, RemoveAtProperties DEF CloseExpired
  <2>3. pos' \in 1 .. Max({Len(monitored_ports'), Len(new_ports')}) + 1
    BY <1>0, <1>10, <2>1, <2>2, Lists, PosRange DEF CloseExpired
  <2>4. chain' \in Seq(Rule)
    <3>1. chain \in Seq(Rule)
      BY <1>0 DEF TypeOK
    <3>2. ASSUME NEW r PROVE RemoveFirst(chain, r) \in Seq(Rule)
      BY <3>1, RemoveFirstIsRemoveAt, RemoveAtProperties
    <3>3. QED
      BY <1>10, <3>2 DEF CloseExpired
  <2>5. pos' = pos /\ pos' <= Len(monitored_ports') + 1
    BY <1>0, <1>10, <2>1, <2>2, Lists DEF CloseExpired
  <2>6. QED
    BY <1>0, <1>10, <2>2, <2>3, <2>4, <2>5 DEF CloseExpired, TypeOK, admin
<1>11. CASE CloseKeep
  <2>1. /\ pos' \in 1 .. Max({Len(monitored_ports'), Len(new_ports')}) + 1
        /\ pos' <= Len(monitored_ports') + 1
    BY <1>0, <1>11, Lists, PosRange DEF CloseKeep
  <2>2. QED
    BY <1>0, <1>11, <2>1 DEF CloseKeep, TypeOK, admin
<1>12. CASE CloseDone
  <2>1. pos' \in 1 .. Max({Len(monitored_ports'), Len(new_ports')}) + 1
    BY <1>0, <1>12, Lists, PosRange DEF CloseDone
  <2>2. QED
    BY <1>0, <1>12, <2>1 DEF CloseDone, TypeOK, admin
<1>13. CASE OpenNew
  <2>1. pos \in 1 .. Len(new_ports) /\ new_ports[pos] \in Port
    BY <1>0, <1>13, Lists DEF OpenNew
  <2>2. iptables_rule(new_ports[pos]) \in Rule
    BY <1>0, <2>1 DEF iptables_rule, Rule, TypeOK
  <2>3. /\ monitored_ports' \in Seq(Port) /\ chain' \in Seq(Rule)
        /\ Len(monitored_ports') \in Nat
    BY <1>0, <1>13, <2>1, <2>2, Lists DEF OpenNew, TypeOK
  <2>4. pos' \in 1 .. Max({Len(monitored_ports'), Len(new_ports')}) + 1
    BY <1>0, <1>13, <2>1, <2>3, Lists, PosRange DEF OpenNew
  <2>5. QED
    BY <1>0, <1>13, <2>3, <2>4 DEF OpenNew, TypeOK, admin
<1>14. CASE OpenKnown
  <2>1. pos' \in 1 .. Max({Len(monitored_ports'), Len(new_ports')}) + 1
    BY <1>0, <1>14, Lists, PosRange DEF OpenKnown
  <2>2. QED
    BY <1>0, <1>14, <2>1 DEF OpenKnown, TypeOK, admin
<1>15. CASE Receivers
  <2>1. pos' \in 1 .. Max({Len(monitored_ports'), Len(new_ports')}) + 1
    BY <1>0, <1>15, Lists, PosRange
       DEF Receivers, Shutdown, Launch, LeaveReceivers, GoToSleep
  <2>2. slept' \in 0 .. ICD_T_PORTS /\ idle' \in 0 .. ICD_T_PORTS /\ pc' = "sleep"
    BY <1>0, <1>15, PortsAssumption
       DEF Receivers, Shutdown, Launch, LeaveReceivers, GoToSleep, TypeOK
  <2>3. receiver_active' \in BOOLEAN
    BY <1>0, <1>15, Zenon DEF Receivers, Shutdown, Launch, LeaveReceivers, TypeOK
  <2>4. ird' \in [Gen -> Daemon] /\ imd' \in [Gen -> Daemon]
    BY <1>0, <1>15
       DEF Receivers, Shutdown, Launch, LeaveReceivers, TypeOK, Daemon
  <2>5. UNCHANGED <<admin, open_files, new_ports, monitored_ports, gen, chain>>
    BY <1>15 DEF Receivers, Shutdown, Launch, LeaveReceivers
  <2>6. QED
    BY <1>0, <2>1, <2>2, <2>3, <2>4, <2>5, Zenon DEF TypeOK, admin
<1>16. CASE Wake
  BY <1>0, <1>16 DEF Wake, TypeOK, admin
<1>17. CASE UNCHANGED vars
  BY <1>0, <1>17 DEF vars, admin, thread, TypeOK
<1>18. QED
  BY <1>1, <1>2, <1>3, <1>4, <1>5, <1>6, <1>7, <1>8, <1>9, <1>10, <1>11, <1>12,
     <1>13, <1>14, <1>15, <1>16, <1>17
     DEF Next, Children, PortsRoutine, ClosePorts, OpenPorts

-----------------------------------------------------------------------------
(***************************************************************************)
(* The list of monitored ports.                                            *)
(***************************************************************************)

(* Every step of a pass brings the list closer to the table: the closing loop goes
   on from an element that takes the place of a deleted one, and the opening loop
   appends only what is not in the list. *)
LEMMA NextPass == IInv /\ [Next]_vars => Pass'
<1> SUFFICES ASSUME IInv, [Next]_vars PROVE Pass'
  OBVIOUS
<1>0. TypeOK /\ Pass
  BY DEF IInv
<1> DEFINE l == monitored_ports
           t == new_ports
<1>1. /\ l \in Seq(Port) /\ t \in Seq(Port) /\ Len(l) \in Nat /\ Len(t) \in Nat
      /\ DOMAIN l = 1 .. Len(l) /\ DOMAIN t = 1 .. Len(t) /\ pos \in Nat \ {0}
  BY <1>0, Lists
<1>2. CASE UNCHANGED <<pc, new_ports, monitored_ports, pos>>
  BY <1>0, <1>2 DEF Pass
<1>3. CASE Restart
  BY <1>3 DEF Restart, Pass, NoRepeats
<1>4. CASE Read
  BY <1>0, <1>4 DEF Read, Pass
<1>5. CASE ReadFails
  BY <1>0, <1>5 DEF ReadFails, Pass
<1>6. CASE CloseExpired
  <2>1. /\ pos \in 1 .. Len(l) /\ l' = RemoveAt(l, pos) /\ NoRepeats(l)
        /\ pc = "close" /\ UNCHANGED <<pc, pos, new_ports>>
    BY <1>0, <1>1, <1>6 DEF CloseExpired, Pass
  <2>2. NoRepeats(l')
    BY <1>1, <2>1, RemoveAtElements
  <2>3. \A i \in 1 .. pos - 1 : l'[i] = l[i]
    <3>1. \A i \in 1 .. Len(l) - 1 : l'[i] = IF i < pos THEN l[i] ELSE l[i + 1]
      BY <1>1, <2>1, RemoveAtProperties
    <3>2. \A i \in 1 .. pos - 1 : i \in 1 .. Len(l) - 1 /\ i < pos
      BY <1>1, <2>1
    <3>3. QED
      BY <3>1, <3>2
  <2>4. QED
    BY <1>0, <2>1, <2>2, <2>3 DEF Pass
<1>7. CASE CloseKeep
  <2>1. /\ pos' = pos + 1 /\ l[pos] \in ToSet(t) /\ pc = "close"
        /\ UNCHANGED <<pc, monitored_ports, new_ports>>
    BY <1>7 DEF CloseKeep, find_port_in_array
  <2>2. \A i \in 1 .. pos' - 1 : i \in 1 .. pos - 1 \/ i = pos
    BY <1>1, <2>1
  <2>3. QED
    BY <1>0, <2>1, <2>2 DEF Pass
<1>8. CASE CloseDone
  <2>1. /\ pos' = 1 /\ pos > Len(l) /\ pc = "close" /\ pc' = "open"
        /\ UNCHANGED <<monitored_ports, new_ports>>
    BY <1>8 DEF CloseDone
  <2>2. \A i \in 1 .. Len(l) : i \in 1 .. pos - 1
    BY <1>1, <2>1
  <2>3. ToSet(l) \subseteq ToSet(t)
    <3>1. \A i \in DOMAIN l : l[i] \in ToSet(t)
      BY <1>0, <1>1, <2>1, <2>2 DEF Pass
    <3>2. QED
      BY <3>1 DEF ToSet
  <2>4. QED
    BY <1>0, <1>1, <2>1, <2>3 DEF Pass
<1>9. CASE OpenNew
  <2>1. /\ pos \in 1 .. Len(t) /\ l' = Append(l, t[pos]) /\ pos' = pos + 1
        /\ t[pos] \notin ToSet(l) /\ pc = "open" /\ UNCHANGED <<pc, new_ports>>
    BY <1>1, <1>9 DEF OpenNew, find_port_in_list
  <2>2. t[pos] \in Port /\ t[pos] \in ToSet(t)
    BY <1>1, <2>1 DEF ToSet
  <2>3. ToSet(l') = ToSet(l) \union {t[pos]} /\ NoRepeats(l')
    BY <1>0, <1>1, <2>1, <2>2, AppendElements DEF Pass
  <2>4. \A i \in 1 .. pos' - 1 : i \in 1 .. pos - 1 \/ i = pos
    BY <1>1, <2>1
  <2>5. pos' <= Len(t) + 1
    BY <1>1, <2>1
  <2>6. ToSet(l') \subseteq ToSet(t)
    BY <1>0, <2>1, <2>2, <2>3 DEF Pass
  <2>7. \A i \in 1 .. pos' - 1 : t[i] \in ToSet(l')
    BY <1>0, <2>1, <2>3, <2>4 DEF Pass
  <2>8. QED
    BY <2>1, <2>3, <2>5, <2>6, <2>7 DEF Pass
<1>10. CASE OpenKnown
  <2>1. /\ pos' = pos + 1 /\ t[pos] \in ToSet(l) /\ pc = "open" /\ pos <= Len(t)
        /\ UNCHANGED <<pc, monitored_ports, new_ports>>
    BY <1>10 DEF OpenKnown, find_port_in_list
  <2>2. /\ \A i \in 1 .. pos' - 1 : i \in 1 .. pos - 1 \/ i = pos
        /\ pos' <= Len(t) + 1
    BY <1>1, <2>1
  <2>3. QED
    BY <1>0, <2>1, <2>2 DEF Pass
<1>11. CASE Receivers
  <2>1. /\ pc = "open" /\ pos > Len(t) /\ pc' = "sleep" /\ pos' = 1
        /\ UNCHANGED <<monitored_ports, new_ports>>
    BY <1>11 DEF Receivers, Shutdown, Launch, LeaveReceivers, GoToSleep
  <2>2. \A i \in 1 .. Len(t) : i \in 1 .. pos - 1
    BY <1>1, <2>1
  <2>3. ToSet(t) \subseteq ToSet(l)
    <3>1. \A i \in DOMAIN t : t[i] \in ToSet(l)
      BY <1>0, <1>1, <2>1, <2>2 DEF Pass
    <3>2. QED
      BY <3>1 DEF ToSet
  <2>4. QED
    BY <1>0, <2>1, <2>3 DEF Pass
<1>12. CASE Wake
  BY <1>0, <1>12 DEF Wake, Pass
<1>13. CASE EditTruncate \/ EditWrite \/ Tick \/ Children \/ UNCHANGED vars
  BY <1>2, <1>13 DEF EditTruncate, EditWrite, Tick, Children, DaemonCrash,
                     IrdExec, ImdExec, vars, thread
<1>14. QED
  BY <1>3, <1>4, <1>5, <1>6, <1>7, <1>8, <1>9, <1>10, <1>11, <1>12, <1>13
     DEF Next, PortsRoutine, ClosePorts, OpenPorts

-----------------------------------------------------------------------------
(***************************************************************************)
(* The iptables rules.                                                     *)
(***************************************************************************)

(* Every step keeps one rule for each port of the list: the rule goes with the
   element, and the rules of the data port and of earlier daemons are others. *)
LEMMA NextChain == IInv /\ [Next]_vars => Chain'
<1> SUFFICES ASSUME IInv, [Next]_vars PROVE Chain'
  OBVIOUS
<1>0. TypeOK /\ Chain /\ Pass /\ Receiving
  BY DEF IInv
<1>1. /\ chain \in Seq(Rule) /\ Len(chain) \in Nat /\ DOMAIN chain = 1 .. Len(chain)
      /\ gen \in Gen /\ gen \in Nat
  BY <1>0, PortsAssumption DEF TypeOK, Gen
<1>2. \A p : Rules(p) = Positions(chain, iptables_rule(p))
  BY DEF Rules, Positions
<1>3. \A p : Rules(p)' = Positions(chain', iptables_rule(p)')
  BY DEF Rules, Positions
<1>4. ASSUME gen' = gen PROVE \A p : iptables_rule(p)' = iptables_rule(p)
  BY <1>4 DEF iptables_rule
<1>5. CASE UNCHANGED <<chain, monitored_ports, gen>>
  BY <1>0, <1>5 DEF Chain, Rules, iptables_rule
<1>6. CASE Restart
  <2>1. chain' = chain /\ gen' = gen + 1 /\ monitored_ports' = <<>>
    BY <1>6 DEF Restart
  <2>2. \A k \in DOMAIN chain : chain[k].queue \in Nat /\ chain[k].queue <= gen
    <3>1. \A k \in DOMAIN chain : chain[k] \in Rule
      BY <1>1
    <3>2. QED
      BY <1>0, <3>1, PortsAssumption DEF Chain, Rule, Gen
  <2>3. \A p \in Port : Rules(p)' = {}
    BY <1>1, <2>1, <2>2 DEF Rules, iptables_rule
  <2>4. \A k \in DOMAIN chain' : chain'[k].queue <= gen'
    BY <1>1, <2>1, <2>2
  <2>5. ToSet(monitored_ports') = {}
    BY <2>1 DEF ToSet
  <2>6. QED
    BY <2>3, <2>4, <2>5 DEF Chain
<1>7. ASSUME NEW g \in Gen, IrdExec(g) PROVE Chain'
  <2> DEFINE r == [port |-> IPRP_DATA_PORT, queue |-> g]
  <2>1. chain' = Append(chain, r) /\ UNCHANGED <<monitored_ports, gen>>
    BY <1>7 DEF IrdExec, thread
  <2>2. r \in Rule /\ r.queue = g
    BY DEF Rule
  <2>3. g <= gen
    BY <1>0, <1>1, <1>7 DEF IrdExec, Receiving, Gen
  <2>4. \A p \in Port : r # iptables_rule(p)
    BY PortsAssumption DEF iptables_rule
  <2> HIDE DEF r
  <2>5. \A p \in Port : Rules(p)' = Rules(p)
    BY <1>1, <1>2, <1>3, <1>4, <2>1, <2>2, <2>4, AppendPositions
  <2>6. \A k \in DOMAIN chain' : chain'[k].queue <= gen'
    BY <1>0, <1>1, <2>1, <2>2, <2>3 DEF Chain
  <2>7. QED
    BY <1>0, <2>1, <2>5, <2>6 DEF Chain
<1>8. CASE CloseExpired
  <2>0. PICK q \in Port : q = monitored_ports[pos]
    BY <1>0, <1>8, Lists DEF CloseExpired
  <2> DEFINE r == iptables_rule(q)
  <2>1. /\ pos \in 1 .. Len(monitored_ports) /\ gen' = gen
        /\ monitored_ports' = RemoveAt(monitored_ports, pos)
        /\ chain' = RemoveFirst(chain, r)
    BY <1>0, <1>8, <2>0, Lists DEF CloseExpired
  <2>2. monitored_ports \in Seq(Port) /\ NoRepeats(monitored_ports)
    BY <1>0, Lists DEF Pass
  <2>3. ToSet(monitored_ports') = ToSet(monitored_ports) \ {q}
    BY <2>0, <2>1, <2>2, RemoveAtElements
  <2>4. \A p \in Port : p # q => iptables_rule(p) # r
    BY DEF iptables_rule
  <2>5. \A k, m \in Positions(chain, r) : k = m
    BY <1>0, <1>2, <2>2 DEF Chain
  <2> HIDE DEF r
  <2>6. /\ chain' \in Seq(Rule) /\ ToSet(chain') \subseteq ToSet(chain)
        /\ Positions(chain', r) = {}
        /\ \A f : f # r =>
             /\ Positions(chain', f) # {} <=> Positions(chain, f) # {}
             /\ (\A k, m \in Positions(chain, f) : k = m) =>
                  \A k, m \in Positions(chain', f) : k = m
    BY <1>1, <2>1, <2>5, RemoveFirstPositions
  <2>7. Rules(q)' = {}
    BY <1>3, <1>4, <2>1, <2>6 DEF r
  <2>8. ASSUME NEW p \in Port, p # q
        PROVE  /\ Rules(p)' # {} <=> Rules(p) # {}
               /\ \A k, m \in Rules(p)' : k = m
    <3> DEFINE f == iptables_rule(p)
    <3>1. f # r /\ Rules(p) = Positions(chain, f) /\ Rules(p)' = Positions(chain', f)
      BY <1>2, <1>3, <1>4, <2>1, <2>4, <2>8
    <3>2. \A k, m \in Positions(chain, f) : k = m
      BY <1>0, <3>1 DEF Chain
    <3> HIDE DEF f
    <3>3. QED
      BY <2>6, <3>1, <3>2
  <2>9. \A k \in DOMAIN chain' : chain'[k].queue <= gen'
    <3>1. \A x \in ToSet(chain) : x.queue <= gen
      BY <1>0 DEF Chain, ToSet
    <3>2. QED
      BY <2>1, <2>6, <3>1 DEF ToSet
  <2>10. \A p \in Port : \A k, m \in Rules(p)' : k = m
    BY <2>7, <2>8
  <2>11. \A p \in Port : Rules(p)' # {} <=> p \in ToSet(monitored_ports')
    BY <1>0, <2>3, <2>7, <2>8 DEF Chain
  <2>12. QED
    BY <2>9, <2>10, <2>11 DEF Chain
<1>9. CASE OpenNew
  <2>0. PICK q \in Port : q = new_ports[pos]
    BY <1>0, <1>9, Lists DEF OpenNew
  <2> DEFINE r == iptables_rule(q)
  <2>1. /\ pos \in 1 .. Len(new_ports) /\ gen' = gen
        /\ q \notin ToSet(monitored_ports)
        /\ monitored_ports' = Append(monitored_ports, q)
        /\ chain' = Append(chain, r)
    BY <1>0, <1>9, <2>0, Lists DEF OpenNew, find_port_in_list
  <2>2. monitored_ports \in Seq(Port)
    BY <1>0, Lists
  <2>3. ToSet(monitored_ports') = ToSet(monitored_ports) \union {q}
    BY <2>1, <2>2, AppendElements
  <2>4. r \in Rule /\ r.queue = gen
    BY <1>1, <2>2 DEF iptables_rule, Rule
  <2>5. \A p \in Port : p # q => iptables_rule(p) # r
    BY DEF iptables_rule
  <2> HIDE DEF r
  <2>6. Rules(q) = {}
    BY <1>0, <2>1, <2>2 DEF Chain
  <2>7. Rules(q)' = {Len(chain) + 1}
    <3>1. Positions(chain', r) = Positions(chain, r) \union {Len(chain) + 1}
      BY <1>1, <2>1, <2>4, AppendPositions
    <3>2. QED
      BY <1>2, <1>3, <1>4, <2>1, <2>6, <3>1 DEF r
  <2>8. \A p \in Port : p # q => Rules(p)' = Rules(p)
    <3>1. \A f : f # r => Positions(chain', f) = Positions(chain, f)
      BY <1>1, <2>1, <2>4, AppendPositions
    <3>2. QED
      BY <1>2, <1>3, <1>4, <2>1, <2>5, <3>1
  <2>9. \A k \in DOMAIN chain' : chain'[k].queue <= gen'
    BY <1>0, <1>1, <2>1, <2>4 DEF Chain
  <2>10. \A p \in Port : \A k, m \in Rules(p)' : k = m
    BY <1>0, <2>7, <2>8 DEF Chain
  <2>11. \A p \in Port : Rules(p)' # {} <=> p \in ToSet(monitored_ports')
    BY <1>0, <2>3, <2>7, <2>8 DEF Chain
  <2>12. QED
    BY <2>9, <2>10, <2>11 DEF Chain
<1>10. QED
  <2>1. CASE \/ EditTruncate \/ EditWrite \/ Tick \/ DaemonCrash \/ Read
             \/ ReadFails \/ CloseKeep \/ CloseDone \/ OpenKnown \/ Receivers
             \/ Wake \/ UNCHANGED vars
    BY <1>5, <2>1
       DEF EditTruncate, EditWrite, Tick, DaemonCrash, Read, ReadFails, CloseKeep,
           CloseDone, OpenKnown, Receivers, Shutdown, Launch, LeaveReceivers, Wake,
           vars, thread
  <2>2. CASE \E g \in Gen : ImdExec(g)
    BY <1>5, <2>2 DEF ImdExec, thread
  <2>3. QED
    BY <1>6, <1>7, <1>8, <1>9, <2>1, <2>2
       DEF Next, Children, PortsRoutine, ClosePorts, OpenPorts

-----------------------------------------------------------------------------
(***************************************************************************)
(* The daemons.                                                            *)
(***************************************************************************)

(* Every step keeps receiver_active true to what the thread did to the daemons,
   and their time of death behind the sleep that followed it. *)
LEMMA NextReceiving == IInv /\ [Next]_vars => Receiving'
<1> SUFFICES ASSUME IInv, [Next]_vars PROVE Receiving'
  OBVIOUS
<1>0. TypeOK /\ Receiving
  BY DEF IInv
<1>1. /\ gen \in Gen /\ gen \in Nat /\ Gen \subseteq Nat
      /\ ird \in [Gen -> Daemon] /\ imd \in [Gen -> Daemon]
      /\ idle \in 0 .. ICD_T_PORTS /\ slept \in 0 .. ICD_T_PORTS
  BY <1>0, PortsAssumption DEF TypeOK, Gen
<1>2. CASE UNCHANGED <<ird, imd, gen, receiver_active, pc, monitored_ports,
                       slept, idle>>
  BY <1>0, <1>2 DEF Receiving
<1>3. CASE Tick
  <2>1. idle' >= IF pc' = "sleep" THEN slept' ELSE ICD_T_PORTS
    BY <1>0, <1>1, <1>3, PortsAssumption DEF Tick, Receiving
  <2>2. UNCHANGED <<ird, imd, gen, receiver_active, pc, monitored_ports>>
    BY <1>3 DEF Tick
  <2>3. QED
    BY <1>0, <2>1, <2>2 DEF Receiving
<1>4. CASE Restart
  <2>1. /\ gen' = gen + 1 /\ gen' \in Gen /\ pc' = "read" /\ idle' = ICD_T_PORTS
        /\ UNCHANGED <<ird, imd>>
    BY <1>1, <1>4, PortsAssumption DEF Restart, Gen
  <2>2. ~receiver_active'
    BY <1>4 DEF Restart
  <2>3. \A g \in Gen : g > gen => ird[g] = "none" /\ imd[g] = "none"
    BY <1>0 DEF Receiving
  <2>4. gen' > gen /\ \A g \in Gen : g > gen' => g > gen
    BY <1>1, <2>1
  <2>5. QED
    BY <2>1, <2>2, <2>3, <2>4, PortsAssumption DEF Receiving
<1>5. ASSUME NEW g \in Gen, IrdExec(g) PROVE Receiving'
  <2>1. /\ ird[g] = "forked" /\ ird' = [ird EXCEPT ![g] = "running"]
        /\ UNCHANGED <<imd, gen, receiver_active, pc, monitored_ports, slept, idle>>
    BY <1>5 DEF IrdExec, thread
  <2>2. \A h \in Gen : ird'[h] = IF h = g THEN "running" ELSE ird[h]
    BY <1>1, <2>1
  <2>3. QED
    BY <1>0, <1>1, <2>1, <2>2 DEF Receiving
<1>6. ASSUME NEW g \in Gen, ImdExec(g) PROVE Receiving'
  <2>1. /\ imd[g] = "forked" /\ imd' = [imd EXCEPT ![g] = "running"]
        /\ UNCHANGED <<ird, gen, receiver_active, pc, monitored_ports, slept, idle>>
    BY <1>6 DEF ImdExec, thread
  <2>2. \A h \in Gen : imd'[h] = IF h = g THEN "running" ELSE imd[h]
    BY <1>1, <2>1
  <2>3. QED
    BY <1>0, <1>1, <2>1, <2>2 DEF Receiving
<1>7. CASE DaemonCrash
  <2>1. UNCHANGED <<gen, receiver_active, pc, monitored_ports, slept, idle>>
    BY <1>7 DEF DaemonCrash, thread
  <2>2. /\ \A h \in Gen : \/ ird'[h] = ird[h]
                          \/ h = gen /\ ird[h] = "running" /\ ird'[h] = "crashed"
        /\ \A h \in Gen : \/ imd'[h] = imd[h]
                          \/ h = gen /\ imd[h] = "running" /\ imd'[h] = "crashed"
    BY <1>1, <1>7 DEF DaemonCrash
  <2>3. QED
    BY <1>0, <1>1, <2>1, <2>2 DEF Receiving
<1>8. CASE Shutdown
  <2>1. /\ ird' = [ird EXCEPT ![gen] = "killed"]
        /\ imd' = [imd EXCEPT ![gen] = "killed"]
        /\ pc' = "sleep" /\ slept' = 0 /\ idle' = 0 /\ gen' = gen
        /\ monitored_ports = <<>> /\ monitored_ports' = monitored_ports
    BY <1>8 DEF Shutdown, GoToSleep
  <2>2. receiver_active' = FALSE
    BY <1>8 DEF Shutdown
  <2>3. QED
    BY <1>0, <1>1, <2>1, <2>2 DEF Receiving
<1>9. CASE Launch
  <2>1. /\ ird' = [ird EXCEPT ![gen] = "forked"]
        /\ imd' = [imd EXCEPT ![gen] = "forked"]
        /\ pc' = "sleep" /\ slept' = 0 /\ idle' = idle /\ gen' = gen
        /\ monitored_ports # <<>> /\ monitored_ports' = monitored_ports
    BY <1>9 DEF Launch, GoToSleep
  <2>2. receiver_active' = TRUE
    BY <1>9 DEF Launch
  <2>3. QED
    BY <1>0, <1>1, <2>1, <2>2 DEF Receiving
<1>10. CASE LeaveReceivers
  <2>1. /\ UNCHANGED <<ird, imd, gen, receiver_active, monitored_ports, idle>>
        /\ pc' = "sleep" /\ slept' = 0
    BY <1>10 DEF LeaveReceivers, GoToSleep
  <2>2. receiver_active <=> monitored_ports # <<>>
    BY <1>10 DEF LeaveReceivers
  <2>3. QED
    BY <1>0, <1>1, <2>1, <2>2 DEF Receiving
<1>11. CASE Wake
  <2>1. /\ UNCHANGED <<ird, imd, gen, receiver_active, monitored_ports, idle>>
        /\ pc = "sleep" /\ pc' = "read" /\ slept >= ICD_T_PORTS
    BY <1>11 DEF Wake
  <2>2. QED
    BY <1>0, <1>1, <2>1, PortsAssumption DEF Receiving
<1>12. CASE PortsRoutine /\ ~Receivers /\ ~Wake
  <2>1. /\ UNCHANGED <<ird, imd, gen, receiver_active, idle>>
        /\ pc # "sleep" /\ pc' # "sleep"
    BY <1>12 DEF PortsRoutine, Read, ReadFails, ClosePorts, CloseExpired, CloseKeep,
                 CloseDone, OpenPorts, OpenNew, OpenKnown
  <2>2. QED
    BY <1>0, <2>1 DEF Receiving
<1>13. CASE EditTruncate \/ EditWrite \/ UNCHANGED vars
  BY <1>2, <1>13 DEF EditTruncate, EditWrite, vars, thread
<1>14. QED
  BY <1>3, <1>4, <1>5, <1>6, <1>7, <1>8, <1>9, <1>10, <1>11, <1>12, <1>13
     DEF Next, Children, PortsRoutine, Receivers

-----------------------------------------------------------------------------
(* The inductive invariant holds in every reachable state. *)
LEMMA Invariance == Spec => []IInv
<1>1. IInv /\ [Next]_vars => IInv'
  BY NextTypeOK, NextChain, NextPass, NextReceiving DEF IInv
<1>2. QED
  BY <1>1, InitIInv, PTL DEF Spec

(* The table fits the array, the iterator stays in the list or the table, and the
   chain holds well-formed rules, for any file the administrator may write. *)
THEOREM TypeCorrect == Spec => []TypeOK
  BY Invariance, PTL DEF IInv

(* After every pass of ports_routine the chain has one rule of this control daemon
   for each port it read and none for another, for any file and any number of
   ports, edits and restarts. *)
THEOREM RulesFollowTable == Spec => []RulesMatchTable
<1>1. IInv => RulesMatchTable
  <2> SUFFICES ASSUME IInv, pc = "sleep", NEW p \in Port
               PROVE  Cardinality(Rules(p)) = IF p \in ToSet(new_ports) THEN 1 ELSE 0
    BY DEF RulesMatchTable
  <2>1. /\ \A k, m \in Rules(p) : k = m
        /\ Rules(p) # {} <=> p \in ToSet(new_ports)
    BY DEF IInv, Chain, Pass
  <2>2. CASE Rules(p) = {}
    BY <2>1, <2>2, FS_EmptySet
  <2>3. CASE Rules(p) # {}
    <3>1. PICK k \in Rules(p) : TRUE
      BY <2>3
    <3>2. Rules(p) = {k}
      BY <2>1, <3>1
    <3>3. QED
      BY <2>1, <2>3, <3>2, FS_Singleton
  <2>4. QED
    BY <2>2, <2>3
<1>2. QED
  BY <1>1, Invariance, PTL

(* The daemons run, as far as the thread can know, exactly while a port is
   monitored. *)
THEOREM DaemonsFollowPorts == Spec => []ReceiversFollowPorts
<1>1. IInv => ReceiversFollowPorts
  <2> SUFFICES ASSUME IInv, pc = "sleep", NEW d \in {ird[gen], imd[gen]}
               PROVE  d \in IF new_ports = <<>> THEN {"none", "killed"}
                            ELSE {"forked", "running", "crashed"}
    BY DEF ReceiversFollowPorts
  <2>1. new_ports \in Seq(Port) /\ monitored_ports \in Seq(Port)
    BY Lists DEF IInv
  <2>2. ASSUME NEW s \in Seq(Port) PROVE s = <<>> <=> ToSet(s) = {}
    <3>1. CASE s = <<>>
      BY <3>1 DEF ToSet
    <3>2. CASE s # <<>>
      <4>1. 1 \in DOMAIN s
        BY <3>2
      <4>2. QED
        BY <3>2, <4>1 DEF ToSet
    <3>3. QED
      BY <3>1, <3>2
  <2>3. monitored_ports = <<>> <=> new_ports = <<>>
    BY <2>1, <2>2 DEF IInv, Pass
  <2>4. receiver_active <=> monitored_ports # <<>>
    BY DEF IInv, Receiving
  <2>5. QED
    BY <2>3, <2>4 DEF IInv, Receiving
<1>2. QED
  BY <1>1, Invariance, PTL

(* A killed daemon is not started again before ICD_T_PORTS seconds have passed:
   the sleep between two passes lies between the two.  The receiving daemon's
   discard of duplicates relies on it. *)
THEOREM RestartsAreApart == Spec => RestartGap
<1>1. IInv /\ [Next]_vars =>
        [(ird[gen] = "killed" /\ ird'[gen] = "forked") => idle >= ICD_T_PORTS]_vars
  <2> SUFFICES ASSUME IInv, [Next]_vars, ird[gen] = "killed", ird'[gen] = "forked"
               PROVE  idle >= ICD_T_PORTS
    OBVIOUS
  <2>1. gen \in Gen /\ ird \in [Gen -> Daemon]
    BY DEF IInv, TypeOK
  <2>2. ird' # ird
    BY <2>1
  <2>3. CASE Launch
    BY <2>3 DEF Launch, GoToSleep, IInv, Receiving
  <2>4. CASE Shutdown
    BY <2>1, <2>4 DEF Shutdown
  <2>5. CASE Children
    BY <2>1, <2>5 DEF Children, IrdExec, ImdExec, DaemonCrash
  <2>6. QED
    BY <2>2, <2>3, <2>4, <2>5
       DEF Next, EditTruncate, EditWrite, Tick, Restart, PortsRoutine, Read,
           ReadFails, ClosePorts, CloseExpired, CloseKeep, CloseDone, OpenPorts,
           OpenNew, OpenKnown, Receivers, LeaveReceivers, Wake, vars
<1>2. QED
  BY <1>1, Invariance, PTL DEF Spec, RestartGap

(* A port of the old table and the new is never without its rule on the way from
   one to the other: only the rule of a port that is not in the new table is
   deleted, and -D takes away no other. *)
THEOREM KeptPortsStay == Spec => KeptPortsRedirected
<1>1. IInv /\ [Next]_vars =>
        [\A p \in Port :
           (pc \in {"close", "open"} /\ p \in ToSet(new_ports) /\ Rules(p) # {})
             => iptables_rule(p) \in ToSet(chain')]_vars
  <2> SUFFICES ASSUME IInv, [Next]_vars, NEW p \in Port, p \in ToSet(new_ports),
                      Rules(p) # {}
               PROVE  iptables_rule(p) \in ToSet(chain')
    OBVIOUS
  <2> DEFINE r == iptables_rule(p)
  <2>1. chain \in Seq(Rule) /\ r \in ToSet(chain) /\ gen \in Gen
    BY DEF IInv, TypeOK, Rules, ToSet
  <2>2. CASE chain' = chain
    BY <2>1, <2>2
  <2>3. ASSUME NEW x \in Rule, chain' = Append(chain, x)
        PROVE  r \in ToSet(chain')
    <3> HIDE DEF r
    <3>1. QED
      BY <2>1, <2>3, AppendElements
  <2>4. CASE CloseExpired
    <3>1. PICK q \in Port : q = monitored_ports[pos]
      BY <2>4, Lists DEF CloseExpired, IInv
    <3> DEFINE e == iptables_rule(q)
    <3>2. q # p /\ chain' = RemoveFirst(chain, e)
      BY <2>4, <3>1 DEF CloseExpired, find_port_in_array
    <3>3. r # e
      BY <3>2 DEF iptables_rule
    <3>4. \A k, m \in Positions(chain, e) : k = m
      BY DEF IInv, Chain, Rules, Positions
    <3> HIDE DEF r, e
    <3>5. Positions(chain', r) # {} <=> Positions(chain, r) # {}
      BY <2>1, <3>2, <3>3, <3>4, RemoveFirstPositions
    <3>6. QED
      BY <2>1, <3>5, PositionsOfElements DEF r
  <2>5. CASE OpenNew
    <3>1. new_ports[pos] \in Port
      BY <2>5, Lists DEF OpenNew, IInv
    <3>2. iptables_rule(new_ports[pos]) \in Rule
      BY <2>1, <3>1 DEF iptables_rule, Rule
    <3>3. QED
      BY <2>3, <2>5, <3>2 DEF OpenNew
  <2>6. ASSUME NEW g \in Gen, IrdExec(g) PROVE r \in ToSet(chain')
    <3>1. [port |-> IPRP_DATA_PORT, queue |-> g] \in Rule
      BY DEF Rule
    <3>2. QED
      BY <2>3, <2>6, <3>1 DEF IrdExec
  <2>7. QED
    BY <2>2, <2>4, <2>5, <2>6
       DEF Next, EditTruncate, EditWrite, Tick, Restart, Children, ImdExec,
           DaemonCrash, PortsRoutine, Read, ReadFails, ClosePorts, CloseKeep,
           CloseDone, OpenPorts, OpenKnown, Receivers, Shutdown, Launch,
           LeaveReceivers, Wake, vars
<1>2. QED
  BY <1>1, Invariance, PTL DEF Spec, KeptPortsRedirected
============================================================================
