# iPRP: a TLA+ model of the parallel redundancy daemons

iPRP replicates the UDP packets of an application over several networks and
removes the duplicates at the receiver.  Four daemons per host do the work; they
talk through netfilter queues, files, UDP control messages and, inside a daemon,
through lists shared by threads.  This directory models the daemons from their
source (paths below are relative to the repository), checks the models with TLC on
small instances, and proves their safety properties with TLAPS for every value of the
constants.

## 1. Inventory

| Component | State it keeps | Operations | Interacts with |
|---|---|---|---|
| IRD, receiving daemon (`src/ird/handle.c`) | `receiver_links`: per SNSID the highest number seen, the list of missing numbers, the time of the last packet | `handle_packet` with `is_fresh_packet`; `cleanup_routine` | handler and cleanup thread share the list; clock thread writes `curr_time`; fresh packets go to the IMD's queue |
| IRD sender interfaces (`src/ird/senderifaces.c`, multicast) | cache of sender entries, group memberships of a socket | drop phase, add phase: joins and leaves per source | reads the file the ICD's sender interfaces thread writes; dies with the IRD |
| ISD, sending daemon (`src/isd/`) | `pb`: the peer base, `loaded`, mutex and condition; the static counter of `create_iprp_packet` | `pb_routine` loads and publishes the base; `handle_packet` numbers, sends on every IND, drops the original | reads the peer-base file; sends to the IRD |
| ICD control thread (`src/icd/control.c`) | `peerbases`, `reboot_counter` | `handle_cap`, `handle_ack` (multicast) | receives CAP messages; shares `peerbases` with the peer-base thread |
| ICD peer-base thread (`src/icd/peerbase.c`) | iterator over `peerbases` | ages entries, stores a file per base, starts an ISD per base | writes the ISD's file |
| ICD active senders thread (`src/icd/activesenders.c`) | none between rounds | reads the IMD's file, sends CAP messages | file of the IMD; control thread of the peer |
| ICD ports thread (`src/icd/ports.c`) | `monitored_ports`, `receiver_active`, pids | reads the table of ports; deletes and adds iptables rules; starts and kills IRD and IMD | the administrator's port file, the PREROUTING chain, its children |
| ICD sender interfaces thread (`src/icd/senderifaces.c`, multicast) | `sender_ifaces` | ages, copies and stores entries | control and active senders threads search the list without the mutex; file the IRD reads |
| IMD, monitoring daemon (`src/imd/`) | `active_senders` | two packet handlers; `as_routine` ages, copies and stores the list | IRD's queue; file the ICD reads |
| Files (`src/lib/files.c`) | peer-base, active-senders, sender-interfaces files | store (truncate, then write), load (without checking what was read) | all daemons |
| Clock thread (`src/lib/time.c`) | `curr_time` | samples `time(NULL)` | all daemons |
| List (`src/lib/list.c`) | head, tail, count, mutex | init, append, delete | all daemons |
| netfilter glue (`src/lib/nfqueue.c`), helpers (`src/lib/global.c`), entry points | none of interest | | |

What is hard, and what correctness means:

* **IRD.**  Copies arrive in any order, any number of times, or never, while another
  thread forgets silent sessions, senders reboot into an old session, and the daemon
  itself is killed and started again.  Correct: a packet is forwarded at most once;
  a packet is dropped only if it was forwarded already, precedes the session as the
  receiver saw it, or is later than the window allows; forgotten sessions leave no
  copies behind; sessions that are silent are forgotten.
* **ISD.**  The base is replaced while packets are being sent, the condition variable
  is signalled without its mutex, the file is rewritten in place, links fail.
  Correct: the copies of one packet come from one base and reach all its INDs; the
  handler does start; the cache converges to the file.
* **ICD.**  A base is examined under the mutex and used after it; the list is
  initialised by one of the threads that use it; the ISD of a base is a child that
  adds a rule and binds a queue some time later.  Correct: one base per link, the
  packets of a link reach the ISD of its base, a file per ISD that holds that ISD's
  base and follows the CAP messages.
* **Ports.**  The file is edited while it is read, iptables keeps whatever it was given,
  children end unnoticed, and the control daemon may restart and leave rules and
  children behind.  Correct: after a pass one rule per port of the table and the
  daemons up or down accordingly; a port that stays is never without its rule; a killed
  IRD stays down long enough for its copies to die.
* **Sender interfaces.**  The list is searched without the mutex while elements are freed;
  the file is rewritten in place; the IRD works from a cached copy of each entry and
  any failed `setsockopt` ends it.  Correct: one entry per sender, the copy never runs off
  the list, the memberships of the IRD are those of the entries it read, listed
  senders get joined and forgotten ones left.
* **IMD.**  Two handlers append to a list that a third thread counts and then copies
  without the mutex.  Correct: one entry per link, the copy never runs off the list,
  active senders stay in the file.

`PROJECT.json` lists the hazards one by one with the source line and the properties
that cover each.

## 2. Modules

| Module | Models | Checked by |
|---|---|---|
| `AppDelivery` | abstract service of the receiver: each sent packet is handed over at most once | refinement target of `Ird` |
| `Replication` | abstract service of the sender: packets are replicated one after the other, numbered by rank, each on all INDs of one base | refinement target of `Isd` |
| `Ird` | IRD packet path, the clock thread, reboot of senders, kill and start of the daemon | runs on `Ird` itself |
| `Isd` | ISD, unicast build, with the peer-base file | runs on `Isd` itself |
| `IcdPeerbase` | ICD control thread (CAP), peer-base thread, start of the ISDs | `MCIcdPeerbase`, which gives the sets of INDs |
| `Ports` | ICD ports thread, the PREROUTING chain, IRD and IMD as processes | `MCPorts`, which gives the ports and the contents of the file |
| `SenderIfaces` | ICD control thread (ACK), ICD and IRD sender interfaces threads, the file between them | `MCSenderIfaces`, which gives senders and interfaces |
| `ActiveSenders` | IMD, active-senders file, ICD active senders thread | runs on `ActiveSenders` itself |
| `ListLemmas` | lemmas about sequences (delete by position, first and last of a set of positions, ranks), used by the proofs | TLAPS |
| `IrdProofs`, `IrdWindowProofs` | theorems about `Ird`: duplicates; losses | TLAPS |
| `IsdProofs`, `IcdPeerbaseProofs`, `ActiveSendersProofs`, `PortsProofs`, `SenderIfacesProofs` | theorems about the module each is named after | TLAPS |

Conventions.  A section of code under a mutex that cannot block is one step, and
everything a thread does outside of one is a step per access to shared state.
Operators keep the C names where they translate a function.  Each module caps its
counters with named bounds (`MaxPid`, `MaxTime`, `MaxBases`, `MaxEntries`,
`MaxPackets`, `MaxVersion`, `MaxGarbage`, `MaxReboots`, `MaxKills`, `MaxEdits`,
`Generations`, `MaxFaults`).  An operator whose comment begins with
"Mutated form of" is a plausible slip in the code; replacing the original by it must
break the property that `PROJECT.json` names, which shows that the property bites.

**Ird.**  A packet is a pair of session and `pid`, its rank in the session; `seq_nb` is
the number the ISD wrote into it, taken from `counter`, which wraps past 0 and which
`Reboot` sets back to 1 under the same SNSID.  `Shutdown` is the `kill -9` of the ports
thread (or an exit of the daemon's own): list, pending verdict and pass are lost.
`Launch` starts the daemon again, `ICD_T_PORTS` later at the earliest; `Ports` has the
property `RestartGap` that justifies this guard.  `net` holds copies that stay
receivable until they are `MaxDelay` old, as often as the handler likes, which stands
for redundant paths, reordering, duplication and loss at once.  `HandleUnknownSender`
and `HandleKnownSender` are `handle_packet` up to the unlock, `ForwardFresh` and
`DropDuplicate` the rest.  `list_sn` is a function on the slots, `Index` is the C
remainder on `int`; `oob` records that an element below `list_sn[0]` was written,
after which the model lets the handler do nothing.  The list is a set with the subset
`todo` that the cleanup thread's iterator has still to reach; an element appended
during a pass joins `todo` unless the iterator is already past the tail.

**Isd.**  `file` is a version with its INDs, or `Truncated` between `fopen` and
`fwrite`; `temp`, the uninitialised local of `pb_routine`, starts as `Garbage` and keeps
its value from pass to pass, since the build is not optimised and gives it a place of its
own in the frame.
`h_pc` follows the handler from its wait on the condition through the send loop,
`left` holds the interfaces that the loop has not reached.  Every `ERR` is `exit`.
`CreatePacket` reads `pb` without the mutex, before the loop takes it: `header` records
whether the link in the header came from a stored base or from `Garbage`.  All bases of an
ISD have the same link, so nothing else can differ.

**IcdPeerbase.**  A base is known by the value of `reboot_counter` in its SNSID.
`CapKnown` and `CapCreate` are the two branches of `handle_cap`; the `Pb...` actions
are the peer-base thread, with the store and the start of the ISD after the unlock.
`PbAged` keeps the mutex, as the code does.  `hex` models what `"%02x"` does to a
signed `char` in a three-byte buffer, `rand` what seeding with the second does.
`PbStore` copies the base and truncates the file, `PbWrite` writes it.
`PbLaunch` is the `fork`, `IsdStart` the child: it appends a rule to POSTROUTING and
becomes an ISD that ends if its queue is bound already, by another ISD or by the IRD or
the IMD, whose numbers come from the same generator (`OtherQueues`, a constant: these
numbers are drawn once, in `main`).  Other errors of a starting ISD are left out.

**Ports.**  The chain is a sequence of rules, a queue is the generation of the control
daemon that drew its number.  `Read` adds to `open_files` and yields one of the tables
`get_monitored_ports` may return, with arbitrary slots after a word that is not a
number.  Each element of the close and of the open loop is a step, so that an edit, a
crash or a restart can fall between two rules.  `Restart` stands for any `ERR` in any
thread of the ICD followed by a new start.  `idle` counts the seconds since the kill.
Left out: `main` seeds the generator with the second (`src/icd/icd.c:51`), so a control
daemon started in the same second as its predecessor would draw the same queue numbers,
and its rules would equal those left behind.

**SenderIfaces.**  List elements are numbers in order of creation.  `AckStart`,
`AckNext`, `AckFound` and `AckAppend` are `handle_ack` with one step per element of the
search that takes no mutex; an element freed under the search may be read as it was,
lead to the next or to another freed one, or end the process (`AckCrash`).
`CapSearch` is the same search by the active senders thread, which refreshes the entry, in
one step; `CapCrash` is its end on an element freed under it.  A control daemon that has
ended (`IcdEnds`) leaves only the file, and is not started again in this model.
`SiStore` copies and truncates, `SiWrite` writes; `SiInit` truncates too, for the store of
an empty list, and waits for a search to end, which loses no behaviour: a search that
`list_init` meets halfway ends as one that came before or after it.  On the IRD's side `Apply` is the series
of `setsockopt` calls of one entry: it fails on a source joined already, on one not
joined, and on an interface this host does not have.  `changed` records that an entry
came back with other interfaces than the cached ones.

**ActiveSenders.**  The list is a sequence and an iterator a position, since the count
and the copy depend on order.  `kept` and `known` are history variables.  A truncated file
gives the ICD an arbitrary count: zeroed senders (`IcdSendCaps`, up to `MaxGarbage`), or
more than `calloc` serves, and the daemon ends (`IcdCrash`).

## 3. Runs

Passing runs:

| Run | Shows | Bounds and why they are enough |
|---|---|---|
| `ird_window` | `AtMostOnce`, `DropJustified`, `MissingAreListed`, refinement of `AppDelivery` | window 2, seven packets of one session, one reboot of the sender at any point: jumps shorter than, equal to and longer than the window, slots overwritten more than once; time stands still so that all copies are always receivable |
| `ird_expiry` | `TypeOK`, `AtMostOnce`, the invariant `CopiesKnown` of the proof; under fairness `AgedRemoved` | two sessions, so that one link is appended while the other is visited; two packets each, so that a later packet keeps a link alive; one kill and restart; `IRD_T_EXP` = `MaxDelay` + `Lag` and `ICD_T_PORTS` = `MaxDelay` + 1, the tight case |
| `isd_send` | `TypeOK`, `OneBasePerPacket`, `AllPathsUsed`; refinement of `Replication`; under fairness `HandlerStarts`, `CacheConverges` | two INDs of which one may fail, three packets with a counter that wraps at two, three bases, so that a load may meet a truncated file twice |
| `icd_bases` | `TypeOK`, `OneBasePerLink`, `LinkReachesItsIsd`, `IsdHasOwnFile`; under fairness `FileFollowsBase` | two links and two bases: two in the list, or one that `list_init` loses and its successor; a CAP message may add an IND at every point of a pass; counters small enough for one byte |
| `imd_list` | `TypeOK`, `OneEntryPerLink`, `CountedAreCopied`, `VerdictFollowsSession`; under fairness `ActiveIsStored` (multicast build) | two links, three entries, so that a link is forgotten and returns while the list is copied |
| `ports` | `TypeOK`, `RulesMatchTable`, `ReceiversFollowPorts`; the action properties `KeptPortsRedirected` and `RestartGap` | two ports and a table of two slots, files that are empty, repeat a port, are longer than the table or hold a word; two edits, so that a file is emptied and filled again; three passes per control daemon and two control daemons |
| `sender_ifaces` | `TypeOK`, `OneEntryPerSender`, `CountedAreListed`, `JoinedMatchTable`, `FailureExplained`; under fairness `ListedIsJoined`, `UnlistedIsLeft` | one host that sends to a group from two source addresses, and whose interface changes: the first entry may have the new one, which this host does not share, or the old one, which the second entry has too, so that a source is joined twice; two entries, so that one is freed under the search for the other; one restart of the IRD or truncated load |

Runs whose property is a statement of the repository that the code does not satisfy
(`PROJECT.json`, findings, quotes the statement):

| Run | What TLC shows |
|---|---|
| `ird_reboot` | after the sender's host reboots, its packets carry an old SNSID and small numbers and are dropped as duplicates |
| `icd_lock` | after one base has aged the peer-base thread never releases the list mutex |
| `icd_multicast_caps` | a multicast sender that has not acknowledged gets no CAP message |
| `ird_changed_entry` | an interface that a sender has more than the cached entry is joined in one pass and again in the next, which ends the IRD |
| `ports_descriptors` | the ports file is opened in every pass and never closed, until `fopen` fails and the control daemon exits |

Other limits of the code that the models contain, and that other constants or other
formulas show:

* after the sender's counter wraps, new packets are dropped (`FreshForwarded` with
  `MaxReboots` = 0, `INT_MAX` = 1, `MaxPid` = 5);
* missing numbers above `INT_MAX` are written below the list (`MissingAreListed` with
  `INT_MAX` = 3);
* a link made before the first sample of the clock is aged at once and its packet is
  forwarded twice (`AtMostOnce` with `SampledAtStart` = FALSE);
* bases whose counter has a byte above 127 share a file (`IsdHasOwnFile` with
  `SCHAR_MAX` = 1 and four bases);
* the first load of a peer base may meet the truncated file, and packets then go out
  with a base that was never loaded (`src/isd/peerbase.c:34`); the other files can be
  read truncated as well (`src/lib/files.c:92`, `:143`);
* a failed send on one interface ends the ISD before the others are served
  (`src/isd/handle.c:98`);
* a datagram that is not a control message ends the control thread
  (`src/icd/control.c:71`); a CAP message adds INDs to a known base without their
  addresses (`src/icd/control.c:110`);
* a word in the ports file makes the rest of the table arbitrary
  (`src/icd/ports.c:133`): `RulesMatchTable` is about the table, not about the file;
* the rules of a control daemon that ended stay first in the chain, the rule for the data
  port even beyond a regular kill (`src/icd/ports.c:195`); a daemon that ended by
  itself is not started again (`src/icd/ports.c:94`);
* an interface that this host does not share has an arbitrary host address, and the join
  with it may end the IRD (`src/icd/control.c:284`);
* an ACK lists all interfaces of its host (`src/icd/control.c:178`) while entries are kept per
  source address, so a host that sends to a group from two source addresses has two entries
  with the same interfaces; the IRD joins the sources of the first, fails on those of the
  second and ends (`PassCompletes` with two keys of one group and the one announced set
  {a, b} for both, `Local` = {a, b}, `MaxTime` = 0).  These two causes and the one of `ird_changed_entry` are
  the three that `FailureExplained` admits; `JoinedMatchTable` and `UnlistedIsLeft` stop
  where an entry came back changed;
* `get_queue_number`, whose comment says "Returns an unused netfilter queue number"
  (`src/icd/control.c:342`), discards its search and seeds with the second: bases created in
  one second share a queue, and the number may be that of the IRD or the IMD
  (`src/icd/control.c:361`); the second ISD ends.  `LinkReachesItsIsd` names these cases.

Scaled constants keep the relations of the code: `UINT32_MAX` is 2 `INT_MAX` + 1, the
window divides 2^32 as 1024 does, `IRD_T_EXP` exceeds the life of a copy, and so does
`ICD_T_PORTS`.  Where `CHECK_DEADLOCK FALSE` is set the system really stops: the ISD after
an error, the ICD with a mutex that is never released or without descriptors, the
sender interfaces when a daemon has ended.  No run uses symmetry, which would not be
sound with the temporal properties.

Fairness.  Nearly all of it is weak, and of threads only: each body waits for a mutex
whose sections do not block, for `sleep`, or for a condition that is modelled.  The
sender, the network, the application, the arrival of CAP and ACK messages, edits,
crashes and restarts are not fair, with one exception: the ICD finishes a write of a file
that it has begun.  In `ActiveSenders` the antecedent of the property says that the
sender stays active.  `SenderIfaces` has strong fairness of `IrdLoad`: the file is
truncated for an instant of every period, and `MaxFaults` bounds how often the IRD meets
it so.  `Ports` adds weak fairness of the clock, since `sleep` ends.

## 4. Proofs

Every invariant of a passing run, the refinements of `AppDelivery` and `Replication` and the
two action properties of `Ports` are theorems, for all values of the constants that satisfy the
named assumptions of the module (bounds and times are naturals, capacities and widths
positive, sentinel values distinct, `Key` of `SenderIfaces` not empty).  Some theorems
have one more hypothesis, which names a condition that the code does not enforce.  TLC finds
a counterexample without it, with one exception (`NoWrap` for `DropsJustified`, see below).

| Module | Theorem | States | Hypothesis |
|---|---|---|---|
| `IrdProofs` | `TypeCorrect` | `TypeOK` | |
| | `CopiesStayKnown` | `CopiesKnown` | `Timely` |
| | `NoDuplicateForwarded` | `AtMostOnce` | `Timely` |
| | `ImplementsAppDelivery` | `AppSpec` | `Timely` |
| `IrdWindowProofs` | `MissingStayListed` | `MissingAreListed` | `NoWrap` |
| | `DropsJustified` | `DropJustified` | `NoWrap` |
| | `FreshWithoutReboots` | `FreshForwarded` | `NoWrap`, no reboots |
| | `NoWriteBelowList` | `~oob` | `NoWrap` |
| `IsdProofs` | `TypeCorrect` | `TypeOK` | |
| | `CopiesFromOneBase` | `OneBasePerPacket` | |
| | `EveryPathServed` | `AllPathsUsed` | |
| | `ImplementsReplication` | `RepSpec` | |
| `IcdPeerbaseProofs` | `TypeCorrect` | `TypeOK` | |
| | `OneBase` | `OneBasePerLink` | |
| | `LinksReachIsds` | `LinkReachesItsIsd` | |
| | `OwnFiles` | `IsdHasOwnFile` | `MaxBases <= SCHAR_MAX + 1` |
| `ActiveSendersProofs` | `TypeCorrect` | `TypeOK` | |
| | `OneEntry` | `OneEntryPerLink` | |
| | `CopiesAreSafe` | `CountedAreCopied` | |
| | `VerdictsFollowSessions` | `VerdictFollowsSession` | |
| `PortsProofs` | `TypeCorrect` | `TypeOK` | |
| | `RulesFollowTable` | `RulesMatchTable` | |
| | `DaemonsFollowPorts` | `ReceiversFollowPorts` | |
| | `RestartsAreApart` | `RestartGap` | |
| | `KeptPortsStay` | `KeptPortsRedirected` | |
| `SenderIfacesProofs` | `TypeCorrect` | `TypeOK` | |
| | `OneEntry` | `OneEntryPerSender` | |
| | `CopiesAreListed` | `CountedAreListed` | |
| | `PassJoinsTable` | `JoinedMatchTable` | |
| | `FailuresExplained` | `FailureExplained` | |

Each proof names its inductive invariant (`IInv`, in `IrdWindowProofs` `WInv`), with one
conjunct per reason why the properties alone are not inductive, and shows that the
initial states satisfy it and that each action keeps it.

**Duplicates (`IrdProofs`).**  `AtMostOnce` is not inductive.  That a packet was
forwarded does not say how the list answers the next copy.  `CopiesKnown` says it: for
every copy in flight of a packet that was forwarded, or is about to be, the copy is
`Held`.  While the daemon runs, the link is in the list, has a number at least as high,
does not hold the number in its slot, and was last refreshed at most `Lag` before the
copy was sent.  While the daemon is down, the copy was sent before the kill, and is gone
when `Launch` is enabled.  One call of `is_fresh_packet` keeps this
(`RecordPacketKnows`: the loop stores only numbers above `high_sn`, so it never makes a
known number look missing), and the cleanup thread cannot remove such a link because the
copy would be older than `MaxDelay`.  The wrap of the sender's counter, its reset by a
reboot and the `int` loop do not endanger `AtMostOnce`: they lose packets, they do not
duplicate them.

`Timely` is the deployment condition of the guarantee: the clock thread has run before the
first packet, `MaxDelay + Lag <= IRD_T_EXP`, and `MaxDelay < ICD_T_PORTS`, so that no
copy outlives a kill and the next start.  That a killed daemon stays down for
`ICD_T_PORTS`, the guard of `Launch`, is what `RestartsAreApart` proves of the ports
thread; a control daemon that is itself restarted starts a second IRD at once, which
`Timely` does not cover.

**Losses (`IrdWindowProofs`).**  Two facts make `MissingAreListed` and `DropJustified`
inductive.  `Listed`: every number between the one that opened the link and the highest
one, at most a window behind it, is in its slot or was given to the application.
`Generations`: since it started last, a sender has numbered its packets from 1 without
gaps.  A later packet whose
number is not higher than an earlier one's shares it with a packet from before the reboot
(`LowNumberReused`, which counts back from the earlier one), so that what looks late
without being late has a number that was in use.  That the loop, which overwrites slots when the gap is longer than
the window, leaves in each slot the last number that belongs there rests on `SameSlot`,
that two numbers of a slot are a window apart.  `NoWrap` (`MaxPid <= INT_MAX`) is needed:
beyond `INT_MAX` the loop counts with negative indices and writes below the list, and
beyond `UINT32_MAX` the sender starts again at 1.  `DropsJustified` uses it because
`Generations` does not survive the wrap; TLC finds no counterexample to `DropJustified` with
`INT_MAX` = 1, 2 or 3 and seven packets, since a number that comes round was in use before and
a handler that has written below the list stops, but that is not proved.  `FreshWithoutReboots` completes the
finding of `ird_reboot`: without a reboot, and below the wrap, `FreshForwarded` does hold,
and `NoWriteBelowList` shows that the `int` is the only cause of a negative index.

**ISD.**  The properties are about packets behind the send loop.  In the middle of it,
`Locking` says that the handler has the mutex, so that `pb_routine` cannot replace the
base, and `Sending` that the copies sent so far are those of the interfaces the loop has
passed.  `ImplementsReplication` needs two facts more.  `Numbers`: the counter, which skips 0
when it wraps, is a function of the rank of the packet (`NextNumber`, by `NextRemainder`).
`Versions`: on its way from the file to `temp`, to `pb` and into copies a base only gives way
to a newer one, although a load may meet the truncated file.  A packet counts as begun
when the loop starts, since until then another base may come; a send for an IND that the
base does not have is a stutter, and so is every step of the file, the cache and the
handler's start.  `Headers` says that once `pb` holds a stored base it always will, so that
a header with garbage precedes all headers with the link.

**ICD peer-base.**  One base per link in the list does not give one ISD per link:
`pb_routine` works on a base after the unlock, and an ISD outlives its base.  `BasesOK`
is therefore about all bases that have an ISD or may still get one: they have different
links, and while the mutex is free the list that `handle_cap` searches contains them all.
`PbAged`, which never releases the mutex, is part of the argument: no base is created
after one has aged.  A base that `list_init` loses has no ISD yet.  `DaemonsOK` and `RulesOK`
relate ISDs, their queues and the chain; `FilesOK`, proved separately, relates the files,
and needs file names that differ, hence the bound on `MaxBases`.

**Active senders.**  `Walk` says what the counting walk knows at each element, that the
entries it has counted are the first ones of the list.  Handlers only append, so the copy,
which tests neither its iterator nor the mutex, meets exactly those.  `Sessions` carries
a handler's finding over the unlock to the verdict.

**Ports.**  The properties hold between two passes.  Inside a pass the rules follow the
list (`Chain`), the list agrees with the table on the part the iterator has passed (`Pass`),
and `Receiving` says what `receiver_active` knows of the daemons and how long they have
been dead, from which `RestartGap` follows.

**Sender interfaces.**  The file is all that joins the two daemons, so the invariant has a
part for each.  `Search` says that what the search of `handle_ack` has passed is not of
the sender, although elements are freed around it; `Walk` bounds what is counted by what is
in the list.  On the side of the IRD, `Cache` says that the memberships of the socket are
those of the cached entries, no two of which overlap, until an entry comes back changed, and
`Phases` what the drop and the add phase have compared.  `FailuresExplained` follows without
a condition on what senders announce: that cached entries do not overlap is kept because a
join that would make them overlap fails and ends the daemon, and `SharedInTable` finds the
other entry of such a join in the table.

**Lemmas.**  `ListLemmas` has what the proofs about C lists need: where elements go when
one is deleted (`RemoveAtElements`, `RemoveFirstPositions`), the least and the greatest of
a set of numbers (`MinIn`, `MaxIn`), and division with remainder.  `MinIn`, `MaxIn` and
`Rank` rest on the well-foundedness of the naturals, used on a least counterexample.

Only model-checked: the liveness properties `AgedRemoved`, `HandlerStarts`,
`CacheConverges`, `FileFollowsBase`, `ActiveIsStored`, `ListedIsJoined` and
`UnlistedIsLeft`, since fairness and `ENABLED` are beyond the prover, and the violations,
which are traces.

## 5. Not modelled, and what is left

Left out for good: checksums, header rewriting, socket options, the netfilter setup
and logging (no state of their own); the traffic generators under `scripts/` and
`tools/`; memory that is never freed; the kernel's limit on sources per group.

Not modelled, and worth adding:

* the ISD's `get_verdict`, which limits the rate of plain multicast copies;
* the length of the backoff of the ICD's active senders thread, a floating point
  logarithm;
* `list_init` in the middle of `handle_cap` or `handle_ack`, which resets a mutex that is
  held;
* compositions: `IcdPeerbase` with `Isd` (INDs without addresses), `ActiveSenders` with a
  sender that stops using iPRP (the end of a session), `Ports` with `Ird` (packets sent to
  the queue of a daemon that is gone).

Worth proving next: that `SenderIfaces` implements an abstract set of memberships and
`ActiveSenders` an abstract table of sessions; `DropJustified` beyond the wrap; what the
loss-free part of `Ird` gives an application when copies of every packet arrive; the
safety half of the liveness properties (an entry of the file that is not in the list is
replaced by the next store).
