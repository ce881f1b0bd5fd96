------------------------------- MODULE Ports -------------------------------
(***************************************************************************)
(* The ports thread of the control daemon, src/icd/ports.c.  Every         *)
(* ICD_T_PORTS seconds it reads the file of monitored ports, deletes and   *)
(* adds iptables rules that send the ports to the queue of the monitoring  *)
(* daemon (IMD), and starts or kills that daemon and the receiving daemon  *)
(* (IRD).                                                                  *)
(*                                                                         *)
(* The administrator rewrites the file at any time, in two steps.  The     *)
(* control daemon may exit at any time (an error in any thread ends the    *)
(* process) and be started again: its rules and its children stay, and the *)
(* new one draws new queue numbers.  A queue is known by the generation of *)
(* the control daemon that drew its number.  Left out: main seeds the      *)
(* generator with the second, so a control daemon that starts within the   *)
(* second in which the one before it started draws the same numbers.       *)
(* iptables is a chain: a packet goes to the first rule of its port, -A    *)
(* appends and -D deletes the first rule that is equal.                    *)
(***************************************************************************)
EXTENDS Integers, SequencesExt, FiniteSetsExt

CONSTANTS
  Port,                      \* the ports an administrator may list
  IPRP_DATA_PORT,            \* the port of iPRP packets (1001 in the code)
  Word,                      \* a token of the file that is not a number
  Files,                     \* what the administrator may write
  IPRP_MAX_MONITORED_PORTS,  \* slots of the table of ports (16 in the code)
  ICD_T_PORTS,               \* seconds between two passes (10 in the code)
  OPEN_MAX,                  \* files the process may have open
  MaxEdits,                  \* bound: rewrites of the file
  Generations                \* bound: starts of the control daemon

ASSUME PortsAssumption ==
  /\ IPRP_DATA_PORT \notin Port /\ Word \notin Port
  /\ Files \subseteq Seq(Port \union {Word}) /\ <<>> \in Files
  /\ IPRP_MAX_MONITORED_PORTS \in Nat \ {0} /\ ICD_T_PORTS \in Nat
  /\ OPEN_MAX \in Nat /\ MaxEdits \in Nat /\ Generations \in Nat \ {0}

Gen == 1 .. Generations

VARIABLES
  file,             \* the tokens of IPRP_MONITORED_PORTS_FILE
  writing,          \* the administrator has truncated it
  edits,            \* rewrites so far
  pc,               \* control point of ports_routine
  open_files,       \* files the process has open
  new_ports,        \* the table read from the file
  monitored_ports,  \* the list of ports that have a rule
  pos,              \* the iterator, in the list or in the table
  receiver_active,  \* the daemons were started and not killed
  slept,            \* seconds of the current sleep
  gen,              \* generation of the control daemon
  chain,            \* the iptables rules of PREROUTING
  ird, imd,         \* the daemons of each generation
  idle              \* seconds since the daemons were killed

admin == <<file, writing, edits>>
thread == <<pc, open_files, new_ports, monitored_ports, pos, receiver_active,
            slept, gen>>
vars == <<admin, thread, chain, ird, imd, idle>>

Rule == [port : Port \union {IPRP_DATA_PORT}, queue : Gen]
Daemon == {"none", "forked", "running", "killed", "crashed"}

-----------------------------------------------------------------------------
(* The numbers before the first word, as many as the table holds. *)
Numbers(f) ==
  Max({n \in 0 .. IPRP_MAX_MONITORED_PORTS :
         n <= Len(f) /\ \A k \in 1 .. n : f[k] # Word})

(* The tables get_monitored_ports may return.  fscanf does not move past a word
   and is asked for the rest of the slots, which are used uninitialised. *)
get_monitored_ports(f) ==
  LET n    == Numbers(f)
      rest == IF n = Len(f) THEN 0 ELSE IPRP_MAX_MONITORED_PORTS - n
  IN  {SubSeq(f, 1, n) \o g : g \in [1 .. rest -> Port]}

(* Mutated form of find_port_in_array: the last slot is not examined. *)
find_port_in_array_short(port) ==
  \E k \in 1 .. Len(new_ports) - 1 : new_ports[k] = port

find_port_in_array(port) == port \in ToSet(new_ports)

(* Mutated form of find_port_in_list: the walk stops before the tail. *)
find_port_in_list_short(port) == port \in ToSet(Front(<<0>> \o monitored_ports))

find_port_in_list(port) == port \in ToSet(monitored_ports)

(* The rule iptables_rule creates or deletes for a port of the list. *)
iptables_rule(port) == [port |-> port, queue |-> gen]

-----------------------------------------------------------------------------
(***************************************************************************)
(* The environment.                                                        *)
(***************************************************************************)
EditTruncate ==
  /\ ~writing /\ edits < MaxEdits
  /\ writing' = TRUE /\ edits' = edits + 1 /\ file' = <<>>
  /\ UNCHANGED <<thread, chain, ird, imd, idle>>

EditWrite ==
  /\ writing
  /\ writing' = FALSE /\ file' \in Files
  /\ UNCHANGED <<edits, thread, chain, ird, imd, idle>>

(* A second passes. *)
Tick ==
  /\ slept' = IF pc = "sleep" /\ slept < ICD_T_PORTS THEN slept + 1 ELSE slept
  /\ idle' = IF idle < ICD_T_PORTS THEN idle + 1 ELSE idle
  /\ <<slept, idle>>' # <<slept, idle>>
  /\ UNCHANGED <<admin, pc, open_files, new_ports, monitored_ports, pos,
                 receiver_active, gen, chain, ird, imd>>

(* The control daemon ends, by an error of any of its threads, and is started
   again.  ports_routine's error path leaves it ended for a while. *)
Restart ==
  /\ gen < Generations
  /\ pc' = "read" /\ gen' = gen + 1 /\ open_files' = 0
  /\ new_ports' = <<>> /\ monitored_ports' = <<>> /\ pos' = 1
  /\ receiver_active' = FALSE /\ slept' = 0 /\ idle' = ICD_T_PORTS
  /\ UNCHANGED <<admin, chain, ird, imd>>

(* The child of ird_launch adds the rule for the data port, then becomes the
   IRD. *)
IrdExec(g) ==
  /\ ird[g] = "forked"
  /\ chain' = Append(chain, [port |-> IPRP_DATA_PORT, queue |-> g])
  /\ ird' = [ird EXCEPT ![g] = "running"]
  /\ UNCHANGED <<admin, thread, imd, idle>>

(* The child of imd_launch becomes the IMD. *)
ImdExec(g) ==
  /\ imd[g] = "forked"
  /\ imd' = [imd EXCEPT ![g] = "running"]
  /\ UNCHANGED <<admin, thread, chain, ird, idle>>

(* A daemon ends by an error of its own; nobody waits for it. *)
DaemonCrash ==
  /\ \/ /\ ird[gen] = "running" /\ ird' = [ird EXCEPT ![gen] = "crashed"]
        /\ UNCHANGED imd
     \/ /\ imd[gen] = "running" /\ imd' = [imd EXCEPT ![gen] = "crashed"]
        /\ UNCHANGED ird
  /\ UNCHANGED <<admin, thread, chain, idle>>

-----------------------------------------------------------------------------
(***************************************************************************)
(* ports_routine.                                                          *)
(***************************************************************************)

(* The file is opened, read and never closed. *)
Read ==
  /\ pc = "read" /\ open_files < OPEN_MAX
  /\ open_files' = open_files + 1
  /\ new_ports' \in get_monitored_ports(file)
  /\ pc' = "close" /\ pos' = 1
  /\ UNCHANGED <<admin, monitored_ports, receiver_active, slept, gen, chain,
                 ird, imd, idle>>

(* fopen fails, and ERR ends the process. *)
ReadFails ==
  /\ pc = "read" /\ open_files = OPEN_MAX
  /\ pc' = "exited"
  /\ UNCHANGED <<admin, open_files, new_ports, monitored_ports, pos,
                 receiver_active, slept, gen, chain, ird, imd, idle>>

(* Mutated form of CloseExpired: the iterator skips the element after the deleted
   one. *)
CloseExpiredSkip ==
  /\ pc = "close" /\ pos <= Len(monitored_ports)
  /\ ~find_port_in_array(monitored_ports[pos])
  /\ chain' = RemoveFirst(chain, iptables_rule(monitored_ports[pos]))
  /\ monitored_ports' = RemoveAt(monitored_ports, pos)
  /\ pos' = pos + 1
  /\ UNCHANGED <<admin, pc, open_files, new_ports, receiver_active, slept, gen,
                 ird, imd, idle>>

(* A port that is no longer in the table: the element is unlinked, then the rule
   is deleted. *)
CloseExpired ==
  /\ pc = "close" /\ pos <= Len(monitored_ports)
  /\ ~find_port_in_array(monitored_ports[pos])
  /\ chain' = RemoveFirst(chain, iptables_rule(monitored_ports[pos]))
  /\ monitored_ports' = RemoveAt(monitored_ports, pos)
  /\ UNCHANGED <<admin, pc, open_files, new_ports, pos, receiver_active, slept,
                 gen, ird, imd, idle>>

CloseKeep ==
  /\ pc = "close" /\ pos <= Len(monitored_ports)
  /\ find_port_in_array(monitored_ports[pos])
  /\ pos' = pos + 1
  /\ UNCHANGED <<admin, pc, open_files, new_ports, monitored_ports,
                 receiver_active, slept, gen, chain, ird, imd, idle>>

CloseDone ==
  /\ pc = "close" /\ pos > Len(monitored_ports)
  /\ pc' = "open" /\ pos' = 1
  /\ UNCHANGED <<admin, open_files, new_ports, monitored_ports,
                 receiver_active, slept, gen, chain, ird, imd, idle>>

(* A port of the table that is not in the list gets a rule. *)
OpenNew ==
  /\ pc = "open" /\ pos <= Len(new_ports)
  /\ ~find_port_in_list(new_ports[pos])
  /\ monitored_ports' = Append(monitored_ports, new_ports[pos])
  /\ chain' = Append(chain, iptables_rule(new_ports[pos]))
  /\ pos' = pos + 1
  /\ UNCHANGED <<admin, pc, open_files, new_ports, receiver_active, slept, gen,
                 ird, imd, idle>>

OpenKnown ==
  /\ pc = "open" /\ pos <= Len(new_ports)
  /\ find_port_in_list(new_ports[pos])
  /\ pos' = pos + 1
  /\ UNCHANGED <<admin, pc, open_files, new_ports, monitored_ports,
                 receiver_active, slept, gen, chain, ird, imd, idle>>

(* The pass is over and the thread goes to sleep. *)
GoToSleep ==
  /\ pc = "open" /\ pos > Len(new_ports)
  /\ pc' = "sleep" /\ pos' = 1 /\ slept' = 0

(* Mutated form of Shutdown: receiver_active keeps its value. *)
ShutdownStillActive ==
  /\ GoToSleep
  /\ receiver_active /\ monitored_ports = <<>>
  /\ ird' = [ird EXCEPT ![gen] = "killed"]
  /\ imd' = [imd EXCEPT ![gen] = "killed"]
  /\ idle' = 0
  /\ UNCHANGED <<admin, open_files, new_ports, monitored_ports,
                 receiver_active, gen, chain>>

(* proc_shutdown for both daemons: kill -9. *)
Shutdown ==
  /\ GoToSleep
  /\ receiver_active /\ monitored_ports = <<>>
  /\ ird' = [ird EXCEPT ![gen] = "killed"]
  /\ imd' = [imd EXCEPT ![gen] = "killed"]
  /\ receiver_active' = FALSE /\ idle' = 0
  /\ UNCHANGED <<admin, open_files, new_ports, monitored_ports, gen, chain>>

(* ird_launch and imd_launch. *)
Launch ==
  /\ GoToSleep
  /\ ~receiver_active /\ monitored_ports # <<>>
  /\ ird' = [ird EXCEPT ![gen] = "forked"]
  /\ imd' = [imd EXCEPT ![gen] = "forked"]
  /\ receiver_active' = TRUE
  /\ UNCHANGED <<admin, open_files, new_ports, monitored_ports, gen, chain,
                 idle>>

(* The daemons are as they should be, for all the thread knows. *)
LeaveReceivers ==
  /\ GoToSleep
  /\ receiver_active <=> monitored_ports # <<>>
  /\ UNCHANGED <<admin, open_files, new_ports, monitored_ports,
                 receiver_active, gen, chain, ird, imd, idle>>

(* Mutated form of Wake: the thread does not sleep. *)
WakeAtOnce ==
  /\ pc = "sleep"
  /\ pc' = "read"
  /\ UNCHANGED <<admin, open_files, new_ports, monitored_ports, pos,
                 receiver_active, slept, gen, chain, ird, imd, idle>>

Wake ==
  /\ pc = "sleep" /\ slept >= ICD_T_PORTS
  /\ pc' = "read"
  /\ UNCHANGED <<admin, open_files, new_ports, monitored_ports, pos,
                 receiver_active, slept, gen, chain, ird, imd, idle>>

-----------------------------------------------------------------------------
Init ==
  /\ file \in Files /\ writing = FALSE /\ edits = 0
  /\ pc = "read" /\ open_files = 0
  /\ new_ports = <<>> /\ monitored_ports = <<>> /\ pos = 1
  /\ receiver_active = FALSE /\ slept = 0 /\ gen = 1
  /\ chain = <<>>
  /\ ird = [g \in Gen |-> "none"] /\ imd = [g \in Gen |-> "none"]
  /\ idle = ICD_T_PORTS

ClosePorts == CloseExpired \/ CloseKeep \/ CloseDone
OpenPorts == OpenNew \/ OpenKnown
Receivers == Shutdown \/ Launch \/ LeaveReceivers
PortsRoutine == Read \/ ReadFails \/ ClosePorts \/ OpenPorts \/ Receivers \/ Wake

Children == DaemonCrash \/ \E g \in Gen : IrdExec(g) \/ ImdExec(g)

Next ==
  \/ EditTruncate \/ EditWrite
  \/ Tick
  \/ Restart
  \/ Children
  \/ PortsRoutine

Spec == Init /\ [][Next]_vars

(* The thread waits for nothing but its sleep. *)
FairSpec == Spec /\ WF_vars(PortsRoutine) /\ WF_vars(Tick)

-----------------------------------------------------------------------------
TypeOK ==
  /\ file \in Files /\ writing \in BOOLEAN /\ edits \in 0 .. MaxEdits
  /\ pc \in {"read", "close", "open", "sleep", "exited"}
  /\ open_files \in 0 .. OPEN_MAX
  /\ new_ports \in SeqOf(Port, IPRP_MAX_MONITORED_PORTS)
  /\ monitored_ports \in Seq(Port)
  /\ pos \in 1 .. Max({Len(monitored_ports), Len(new_ports)}) + 1
  /\ pc = "close" => pos <= Len(monitored_ports) + 1
  /\ receiver_active \in BOOLEAN /\ slept \in 0 .. ICD_T_PORTS /\ gen \in Gen
  /\ chain \in Seq(Rule)
  /\ ird \in [Gen -> Daemon] /\ imd \in [Gen -> Daemon]
  /\ idle \in 0 .. ICD_T_PORTS

(* The rules of this control daemon for port p. *)
Rules(p) == {k \in DOMAIN chain : chain[k] = iptables_rule(p)}

(* After a pass of ports_routine there is one rule for each port of the table it
   read, however often the file lists it and whatever the earlier passes and an
   earlier control daemon left, and none for any other port. *)
RulesMatchTable ==
  pc = "sleep" =>
    \A p \in Port :
      Cardinality(Rules(p)) = IF p \in ToSet(new_ports) THEN 1 ELSE 0

(* While ports_routine goes from one table to the next, a port in both is never
   without its rule. *)
KeptPortsRedirected ==
  [][\A p \in Port :
       (pc \in {"close", "open"} /\ p \in ToSet(new_ports) /\ Rules(p) # {})
         => iptables_rule(p) \in ToSet(chain')]_vars

(* After a pass the daemons of this control daemon have been started if a port is
   monitored, and end if none is.  The thread never learns that one of them ended
   by itself, and does not start it again. *)
ReceiversFollowPorts ==
  pc = "sleep" =>
    \A d \in {ird[gen], imd[gen]} :
      d \in IF new_ports = <<>> THEN {"none", "killed"}
            ELSE {"forked", "running", "crashed"}

(* A daemon that was killed is started again ICD_T_PORTS seconds later at the
   earliest, even if the file was empty for a moment only: what the duplicate
   discard of the IRD needs, since its state dies with it. *)
RestartGap ==
  [][(ird[gen] = "killed" /\ ird'[gen] = "forked") => idle >= ICD_T_PORTS]_vars

(* "The routine periodically reads the monitored ports file." *)
KeepsReading == []<>(pc = "read")
============================================================================
