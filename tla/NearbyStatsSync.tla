---------------------------- MODULE NearbyStatsSync ----------------------------
(***************************************************************************)
(* Readers that exchange their all-time statistics over ESP-NOW            *)
(* (activities/network/NearbyStatsSyncActivity). Each keeps one record of  *)
(* every other, the file synced_stats/device_<mac>.bin, written through a  *)
(* .part file.                                                             *)
(*                                                                         *)
(* The radio is external: a packet that is sent is put into the event      *)
(* queue of every reader it is for, or is lost. Packets carry no session.  *)
(* Statistics are versions: version 0 is what a reader begins with.        *)
(***************************************************************************)
EXTENDS Sequences, Integers

CONSTANTS
    Devices,    \* the readers
    NoPeer,     \* no reader
    QueueSize,  \* MAX_SYNC_EVENTS
    MaxStats,   \* bound on the versions of a reader's statistics
    MaxOpens,   \* bound on how often the screen is opened
    MaxSyncs,   \* bound on how often Sync is pressed
    MaxResends, \* bound on how often a timer sends again
    MaxLosses,  \* bound on the packets lost in the air
    MaxFaults   \* bound on failing card operations and power losses

ASSUME SyncAssumption ==
    /\ NoPeer \notin Devices /\ QueueSize \in Nat \ {0}
    /\ \A n \in {MaxStats, MaxOpens, MaxSyncs, MaxResends, MaxLosses, MaxFaults} : n \in Nat

None == -1      \* no file
Torn == -2      \* a file that is not whole
Versions == 0 .. MaxStats
Files == Versions \cup {None, Torn}

States == {"Away", "Ready", "Discovering", "Syncing", "Synced", "Error"}
Steps == {"none", "open", "write", "remove", "rename"}
Types == {"Hello", "Stats", "Ack", "Name"}
Packets == [type : Types, from : Devices, stats : Versions]

VARIABLES
    dev,        \* what each reader's activity holds
    queue,      \* its event queue: the events, and whether it has overflowed
    storing,    \* the step of writeSyncedStatsFile() it is at, and the packet it writes
    record,     \* its record of each other reader
    part,       \* the .part files of these
    stats,      \* its own statistics
    used,       \* how often the screen was opened, Sync pressed, a packet repeated
    losses,     \* packets lost so far
    faults,     \* faults so far
    base        \* observer: everybody's statistics when its round began

vars == <<dev, queue, storing, record, part, stats, used, losses, faults, base>>
fileVars == <<record, part>>

Away == [state |-> "Away", peer |-> NoPeer, seen |-> FALSE, saved |-> FALSE,
         sent |-> FALSE, acked |-> FALSE, ready |-> FALSE, local |-> 0]
Empty == [events |-> <<>>, overflow |-> FALSE]
NotStoring(d) == [step |-> "none", packet |-> [type |-> "Hello", from |-> d, stats |-> 0]]

Init ==
    /\ dev = [d \in Devices |-> Away] /\ queue = [d \in Devices |-> Empty]
    /\ storing = [d \in Devices |-> NotStoring(d)]
    /\ record = [d \in Devices |-> [p \in Devices |-> None]] /\ part = record
    /\ stats = [d \in Devices |-> 0]
    /\ used = [opens |-> 0, syncs |-> 0, resends |-> 0]
    /\ losses = 0 /\ faults = 0
    /\ base = [d \in Devices |-> stats]

On(d) == dev[d].state # "Away"
Busy(d) == storing[d].step # "none"
InRound(d) == dev[d].state \in {"Discovering", "Syncing"}
Use(what) == used' = [used EXCEPT ![what] = @ + 1]
-----------------------------------------------------------------------------
(* The radio *)

Hello(d) == [type |-> "Hello", from |-> d, stats |-> 0]
Ack(d) == [type |-> "Ack", from |-> d, stats |-> 0]
Name(d) == [type |-> "Name", from |-> d, stats |-> 0]
Stats(d, v) == [type |-> "Stats", from |-> d, stats |-> v]

\* sendLocalStats() sends the name first.
LocalStats(d, v) == <<Name(d), Stats(d, v)>>

\* Mutant: the bound is tested too late.
EnqueuedLate(q, packets) ==
    IF q.overflow \/ Len(q.events) + Len(packets) > QueueSize + 1
    THEN [events |-> <<>>, overflow |-> TRUE]
    ELSE [q EXCEPT !.events = @ \o packets]

\* enqueueEspNowPacket(), one packet after another: a queue that is full drops what is in it
\* and takes nothing more until the overflow has been noticed.
Enqueued(q, packets) ==
    IF packets = <<>> THEN q
    ELSE IF q.overflow \/ Len(q.events) + Len(packets) > QueueSize
    THEN [events |-> <<>>, overflow |-> TRUE]
    ELSE [q EXCEPT !.events = @ \o packets]

Kept(packets, i) == SubSeq(packets, 1, i - 1) \o SubSeq(packets, i + 1, Len(packets))

\* Packets arrive at those readers of to whose screen is open, all of them or all but one;
\* rest is the queues without the event that is being handled.
Send(rest, to, packets) ==
    \E lost \in 0 .. Len(packets) :
        /\ lost > 0 => losses < MaxLosses
        /\ losses' = IF lost > 0 THEN losses + 1 ELSE losses
        /\ LET arriving == IF lost > 0 THEN Kept(packets, lost) ELSE packets IN
             queue' = [d \in Devices |->
                         IF d \in to /\ On(d) THEN Enqueued(rest[d], arriving) ELSE rest[d]]

\* What esp_now_send() may have returned, once the packets are sent.
Returns(ok) == ok \/ losses' > losses

Silent(rest) == queue' = rest /\ UNCHANGED losses
-----------------------------------------------------------------------------
(* The screen *)

OpenScreen(d) ==
    /\ ~On(d) /\ used.opens < MaxOpens /\ Use("opens")
    /\ dev' = [dev EXCEPT ![d] = [Away EXCEPT !.state = "Ready"]]
    /\ UNCHANGED <<queue, storing, fileVars, stats, losses, faults, base>>

\* The radio is shut down; the queue goes with the activity.
Gone(d) ==
    /\ dev' = [dev EXCEPT ![d] = Away] /\ queue' = [queue EXCEPT ![d] = Empty]
    /\ storing' = [storing EXCEPT ![d] = NotStoring(d)]

\* Back, between two passes of the loop.
LeaveScreen(d) ==
    /\ On(d) /\ ~Busy(d) /\ Gone(d)
    /\ UNCHANGED <<fileVars, stats, used, losses, faults, base>>

PowerLoss(d) ==
    /\ On(d) /\ faults < MaxFaults /\ faults' = faults + 1 /\ Gone(d)
    /\ UNCHANGED <<fileVars, stats, used, losses, base>>

\* A book is read meanwhile: for longer than any packet waits to be handled.
Read(d) ==
    /\ ~On(d) /\ stats[d] < MaxStats
    /\ \A e \in Devices : queue[e] = Empty /\ ~Busy(e)
    /\ stats' = [stats EXCEPT ![d] = @ + 1]
    /\ UNCHANGED <<dev, queue, storing, fileVars, used, losses, faults, base>>

\* prepareLocalStats(): this reader's statistics as they are now.
Prepared(d, k) == [k EXCEPT !.ready = TRUE, !.local = stats[d]]

\* startSync(). What is in the queue stays there.
StartSync(d) ==
    /\ dev[d].state \in {"Ready", "Synced", "Error"} /\ ~Busy(d)
    /\ used.syncs < MaxSyncs /\ Use("syncs")
    /\ LET k == [dev[d] EXCEPT !.seen = FALSE, !.saved = FALSE, !.sent = FALSE,
                               !.acked = FALSE, !.ready = FALSE, !.peer = NoPeer] IN
         \/ /\ dev' = [dev EXCEPT ![d] = [Prepared(d, k) EXCEPT !.state = "Discovering"]]
            /\ Send(queue, Devices \ {d}, <<Hello(d)>>)
            /\ UNCHANGED faults
         \/ /\ faults < MaxFaults /\ faults' = faults + 1
            /\ dev' = [dev EXCEPT ![d] = [k EXCEPT !.state = "Error"]]
            /\ Silent(queue)
    /\ base' = [base EXCEPT ![d] = stats]
    /\ UNCHANGED <<storing, fileVars, stats>>
-----------------------------------------------------------------------------
(* Events *)

Rest(d) == [queue EXCEPT ![d].events = Tail(@)]

Overflow(d) ==
    /\ On(d) /\ ~Busy(d) /\ queue[d].overflow
    /\ queue' = [queue EXCEPT ![d] = Empty]
    /\ dev' = [dev EXCEPT ![d].state = "Error"]
    /\ UNCHANGED <<storing, fileVars, stats, used, losses, faults, base>>

\* Mutant: the flags of the round before are kept.
KeepsFlags(k) == k
\* A packet outside a round begins one: startingPassiveSync.
PassiveRound(k) == [k EXCEPT !.saved = FALSE, !.sent = FALSE, !.acked = FALSE, !.ready = FALSE]

\* What handleEvent() has set before it looks at the type.
Joined(d, from) ==
    LET k == IF InRound(d) THEN dev[d] ELSE PassiveRound(dev[d])
        j == [k EXCEPT !.seen = TRUE, !.peer = from]
    IN  [IF j.ready THEN j ELSE Prepared(d, j) EXCEPT !.state = "Syncing"]

\* The statistics cannot be prepared.
JoinFails(d, from) ==
    /\ ~InRound(d) /\ faults < MaxFaults /\ faults' = faults + 1
    /\ dev' = [dev EXCEPT ![d] = [PassiveRound(@) EXCEPT !.seen = TRUE, !.peer = from,
                                                         !.state = "Error"]]
    /\ Silent(Rest(d)) /\ UNCHANGED <<storing, fileVars>>

HandleHello(d, e) ==
    /\ Send(Rest(d), {e.from}, <<Name(d)>> \o LocalStats(d, Joined(d, e.from).local))
    /\ \E ok \in BOOLEAN :
         Returns(ok) /\ dev' = [dev EXCEPT ![d] = [Joined(d, e.from) EXCEPT !.sent = ok]]
    /\ UNCHANGED <<storing, fileVars, faults>>

\* The record is written first.
HandleStats(d, e) ==
    /\ dev' = [dev EXCEPT ![d] = Joined(d, e.from)]
    /\ storing' = [storing EXCEPT ![d] = [step |-> "open", packet |-> e]]
    /\ Silent(Rest(d)) /\ UNCHANGED <<fileVars, faults>>

HandleAck(d, e) ==
    /\ dev' = [dev EXCEPT ![d] = [Joined(d, e.from) EXCEPT !.acked = TRUE]]
    /\ Silent(Rest(d)) /\ UNCHANGED <<storing, fileVars, faults>>

\* A name is taken from the peer, or from anybody while there is none.
HandleName(d, e) ==
    /\ dev' = [dev EXCEPT ![d].peer = IF @ = NoPeer THEN e.from ELSE @]
    /\ Silent(Rest(d)) /\ UNCHANGED <<storing, fileVars, faults>>

\* In Error everything is dropped.
Ignore(d) == Silent(Rest(d)) /\ UNCHANGED <<dev, storing, fileVars, faults>>

HandleEvent(d) ==
    /\ On(d) /\ ~Busy(d) /\ queue[d].events # <<>>
    /\ LET e == Head(queue[d].events) IN
         \/ dev[d].state = "Error" /\ Ignore(d) /\ UNCHANGED base
         \/ dev[d].state # "Error" /\ e.type = "Name" /\ HandleName(d, e) /\ UNCHANGED base
         \/ /\ dev[d].state # "Error" /\ e.type # "Name"
            /\ base' = IF InRound(d) THEN base ELSE [base EXCEPT ![d] = stats]
            /\ \/ e.type = "Hello" /\ HandleHello(d, e)
               \/ e.type = "Stats" /\ HandleStats(d, e)
               \/ e.type = "Ack" /\ HandleAck(d, e)
               \/ JoinFails(d, e.from)
    /\ UNCHANGED <<stats, used>>
-----------------------------------------------------------------------------
(* writeSyncedStatsFile() *)

Storing(d, step) == storing[d].step = step
Sender(d) == storing[d].packet.from
Go(d, step) ==
    /\ storing' = [storing EXCEPT ![d].step = step]
    /\ UNCHANGED <<dev, queue, stats, used, losses, faults, base>>

\* Mutant: the record is truncated and written in place.
OpenInPlace(d) ==
    /\ Storing(d, "open") /\ Go(d, "write")
    /\ record' = [record EXCEPT ![d][Sender(d)] = None]
    /\ UNCHANGED part

\* A stale .part file is removed, and a new one opened.
OpenPart(d) ==
    /\ Storing(d, "open") /\ Go(d, "write")
    /\ part' = [part EXCEPT ![d][Sender(d)] = Torn]
    /\ UNCHANGED record

\* It is written, synced and closed.
WritePart(d) ==
    /\ Storing(d, "write") /\ Go(d, "remove")
    /\ part' = [part EXCEPT ![d][Sender(d)] = storing[d].packet.stats]
    /\ UNCHANGED record

RemoveRecord(d) ==
    /\ Storing(d, "remove") /\ Go(d, "rename")
    /\ record' = [record EXCEPT ![d][Sender(d)] = None]
    /\ UNCHANGED part

\* The statistics are sent back unless they have been acknowledged.
AnswersWithStats(k) == ~k.sent \/ ~k.acked

\* The new record takes its place and is acknowledged.
Rename(d) ==
    /\ Storing(d, "rename")
    /\ record' = [record EXCEPT ![d][Sender(d)] = storing[d].packet.stats]
    /\ part' = [part EXCEPT ![d][Sender(d)] = None]
    /\ storing' = [storing EXCEPT ![d] = NotStoring(d)]
    /\ LET answers == AnswersWithStats(dev[d]) IN
         /\ Send(queue, {Sender(d)},
                 <<Ack(d)>> \o IF answers THEN LocalStats(d, dev[d].local) ELSE <<>>)
         /\ \E ok \in BOOLEAN :
              /\ Returns(ok)
              /\ dev' = [dev EXCEPT ![d].saved = TRUE, ![d].sent = IF answers THEN ok ELSE @]
    /\ UNCHANGED <<stats, used, faults, base>>

\* A step fails: the .part file is removed, and the round ends. What was removed is gone.
StoreFails(d) ==
    /\ Busy(d) /\ faults < MaxFaults /\ faults' = faults + 1
    /\ part' = [part EXCEPT ![d][Sender(d)] = None]
    /\ storing' = [storing EXCEPT ![d] = NotStoring(d)]
    /\ dev' = [dev EXCEPT ![d].state = "Error"]
    /\ UNCHANGED <<queue, record, stats, used, losses, base>>

Store(d) == OpenPart(d) \/ WritePart(d) \/ RemoveRecord(d) \/ Rename(d) \/ StoreFails(d)
-----------------------------------------------------------------------------
(* updateSyncProgress() *)

Updating(d) == InRound(d) /\ ~Busy(d)
Exchanged(k) == k.saved /\ k.acked

\* SYNC_TIMEOUT_MS
TimeOut(d) ==
    /\ Updating(d)
    /\ dev' = [dev EXCEPT ![d].state = "Error"]
    /\ UNCHANGED <<queue, storing, fileVars, stats, used, losses, faults, base>>

BecomeSynced(d) ==
    /\ Updating(d) /\ Exchanged(dev[d])
    /\ dev' = [dev EXCEPT ![d].state = "Synced"]
    /\ UNCHANGED <<queue, storing, fileVars, stats, used, losses, faults, base>>

\* HELLO_INTERVAL_MS and STATS_RETRY_INTERVAL_MS
Resend(d) ==
    /\ Updating(d) /\ ~Exchanged(dev[d])
    /\ used.resends < MaxResends /\ Use("resends")
    /\ \/ ~dev[d].seen /\ Send(queue, Devices \ {d}, <<Hello(d)>>) /\ UNCHANGED dev
       \/ /\ dev[d].seen /\ dev[d].ready /\ ~dev[d].acked
          /\ Send(queue, {dev[d].peer}, LocalStats(d, dev[d].local))
          /\ \E ok \in BOOLEAN : Returns(ok) /\ dev' = [dev EXCEPT ![d].sent = ok]
    /\ UNCHANGED <<storing, fileVars, stats, faults, base>>

Next == \E d \in Devices :
    \/ OpenScreen(d) \/ LeaveScreen(d) \/ PowerLoss(d) \/ Read(d) \/ StartSync(d)
    \/ Overflow(d) \/ HandleEvent(d) \/ Store(d)
    \/ TimeOut(d) \/ BecomeSynced(d) \/ Resend(d)

Spec == Init /\ [][Next]_vars
-----------------------------------------------------------------------------
(* Properties *)

\* The type invariant: an overflowed queue is empty, and a record is only ever a whole file.
TypeOK ==
    /\ dev \in [Devices -> [state : States, peer : Devices \cup {NoPeer}, seen : BOOLEAN,
                             saved : BOOLEAN, sent : BOOLEAN, acked : BOOLEAN,
                             ready : BOOLEAN, local : Versions]]
    /\ \A d \in Devices :
         /\ queue[d].events \in Seq(Packets) /\ Len(queue[d].events) <= QueueSize
         /\ queue[d].overflow \in BOOLEAN /\ (queue[d].overflow => queue[d].events = <<>>)
    /\ storing \in [Devices -> [step : Steps, packet : Packets]]
    /\ record \in [Devices -> [Devices -> Versions \cup {None}]]
    /\ part \in [Devices -> [Devices -> Files]]
    /\ stats \in [Devices -> Versions]
    /\ base \in [Devices -> [Devices -> Versions]]
    /\ used \in [opens : 0 .. MaxOpens, syncs : 0 .. MaxSyncs, resends : 0 .. MaxResends]
    /\ losses \in 0 .. MaxLosses /\ faults \in 0 .. MaxFaults

\* What d has of p, on the card or about to be renamed into place.
Held(d, p) ==
    IF Storing(d, "rename") /\ Sender(d) = p THEN storing[d].packet.stats ELSE record[d][p]

\* A reader that shows Synced holds somebody's statistics, no older than they were when its
\* round began, and somebody holds its own as they are, whatever was lost, repeated or left
\* over from a round before. (A fault of the card may undo a record later.)
SyncedIsMutual ==
    \A d \in Devices : dev[d].state = "Synced" /\ faults = 0 =>
        /\ \E p \in Devices \ {d} : Held(d, p) >= base[d][p]
        /\ \E p \in Devices \ {d} : Held(p, d) = stats[d]

\* What a reader has of another is only ever replaced by the other's statistics as they are.
\* A fault, in whichever step of writeSyncedStatsFile(), may make it forget them: neither a
\* fault nor a packet left over from a round before brings back something older.
RecordsOnlyAdvance ==
    [][\A d, p \in Devices :
        Held(d, p)' # Held(d, p) =>
            \/ Held(d, p)' = stats[p]
            \/ Held(d, p)' = None /\ faults' > faults]_vars

=============================================================================
