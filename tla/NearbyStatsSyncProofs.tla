------------------------ MODULE NearbyStatsSyncProofs ------------------------
(***************************************************************************)
(* Safety of the exchange of statistics for any set of readers, any queue  *)
(* and any bounds.                                                         *)
(*                                                                         *)
(* What is in a queue is never out of date: a reader whose screen is open  *)
(* cannot be read in, so the statistics it sends stay its own as long as   *)
(* any packet with them is on the way. That makes an acknowledgement say   *)
(* something at whatever round it arrives.                                 *)
(***************************************************************************)
EXTENDS NearbyStatsSync, SequenceTheorems, TLAPS

-----------------------------------------------------------------------------
(* The inductive invariant.                                                *)

In(q) == {q.events[i] : i \in DOMAIN q.events}
Queues == [events : Seq(Packets), overflow : BOOLEAN]

\* Each queue is a record of these fields.
QueuesOK == queue \in [Devices -> Queues]

\* Nothing is kept of a closed screen.
ClosedIsEmpty ==
    \A d \in Devices : ~On(d) => dev[d] = Away /\ queue[d] = Empty /\ ~Busy(d)

\* What a reader has prepared are its statistics as they are.
PreparedIsCurrent ==
    \A d \in Devices :
        /\ dev[d].ready => dev[d].local = stats[d]
        /\ dev[d].peer # d

\* So is what it has sent, in a queue or being stored.
SentIsCurrent ==
    \A d \in Devices :
        /\ \A e \in In(queue[d]) : e.from # d /\ (e.type = "Stats" => e.stats = stats[e.from])
        /\ Busy(d) => /\ storing[d].packet.from # d
                      /\ storing[d].packet.stats = stats[storing[d].packet.from]
                      /\ dev[d].ready

\* Nobody is ahead of the reader itself.
NobodyAhead ==
    \A d, p \in Devices : record[d][p] <= stats[p] /\ base[d][p] <= stats[p]

\* Whoever has sent an acknowledgement has the statistics it is for.
AcksAreTrue ==
    faults = 0 =>
        \A d \in Devices : \A e \in In(queue[d]) : e.type = "Ack" => Held(e.from, d) = stats[d]

\* What a reader has noted of its round has happened.
NotesAreTrue ==
    faults = 0 =>
        \A d \in Devices :
            /\ dev[d].saved => \E p \in Devices \ {d} : Held(d, p) >= base[d][p]
            /\ dev[d].acked => \E p \in Devices \ {d} : Held(p, d) = stats[d]
            /\ dev[d].state = "Synced" => dev[d].saved /\ dev[d].acked

Current == ClosedIsEmpty /\ PreparedIsCurrent /\ SentIsCurrent /\ NobodyAhead

IInv == TypeOK /\ QueuesOK /\ Current /\ AcksAreTrue /\ NotesAreTrue

-----------------------------------------------------------------------------
(* Packets and queues.                                                     *)

Bounded == {q \in Queues : Len(q.events) <= QueueSize /\ (q.overflow => q.events = <<>>)}
Elements(s) == {s[i] : i \in DOMAIN s}

LEMMA EmptyIsBounded == Empty \in Bounded /\ In(Empty) = {}
  <1>1. <<>> \in Seq(Packets) /\ Len(<<>>) = 0 /\ DOMAIN <<>> = {}
    BY EmptySeq, LenProperties
  <1>. QED  BY <1>1, SyncAssumption DEF Empty, Bounded, Queues, In

LEMMA ElementsConcat ==
    ASSUME NEW s \in Seq(Packets), NEW t \in Seq(Packets)
    PROVE  s \o t \in Seq(Packets) /\ Elements(s \o t) \subseteq Elements(s) \cup Elements(t)
  <1>1. /\ s \o t \in Seq(Packets) /\ Len(s \o t) = Len(s) + Len(t)
        /\ \A i \in 1 .. Len(s) + Len(t) :
             (s \o t)[i] = IF i <= Len(s) THEN s[i] ELSE t[i - Len(s)]
    BY ConcatProperties
  <1>2. /\ Len(s) \in Nat /\ Len(t) \in Nat /\ DOMAIN s = 1 .. Len(s) /\ DOMAIN t = 1 .. Len(t)
        /\ DOMAIN (s \o t) = 1 .. Len(s) + Len(t)
    BY <1>1, LenProperties
  <1>. QED  BY <1>1, <1>2 DEF Elements

LEMMA ElementsSub ==
    ASSUME NEW s \in Seq(Packets), NEW i \in 1 .. Len(s) + 1, NEW j \in 0 .. Len(s)
    PROVE  SubSeq(s, i, j) \in Seq(Packets) /\ Elements(SubSeq(s, i, j)) \subseteq Elements(s)
  <1>1. /\ \A k \in i .. j : s[k] \in Packets
        /\ Len(s) \in Nat /\ DOMAIN s = 1 .. Len(s)
    BY LenProperties, ElementOfSeq
  <1> DEFINE r == SubSeq(s, i, j)
  <1>2. /\ r \in Seq(Packets) /\ Len(r) = IF i <= j THEN j - i + 1 ELSE 0
        /\ \A k \in 1 .. j - i + 1 : r[k] = s[i + k - 1]
    BY <1>1, SubSeqProperties
  <1>3. DOMAIN r = 1 .. Len(r)
    BY <1>2, LenProperties
  <1> HIDE DEF r
  <1>4. \A k \in DOMAIN r : i + k - 1 \in DOMAIN s /\ r[k] = s[i + k - 1]
    BY <1>1, <1>2, <1>3
  <1>5. r \in Seq(Packets) /\ Elements(r) \subseteq Elements(s)
    BY <1>2, <1>4 DEF Elements
  <1>. QED  BY <1>5 DEF r

LEMMA KeptSome ==
    ASSUME NEW s \in Seq(Packets), NEW i \in 1 .. Len(s)
    PROVE  Kept(s, i) \in Seq(Packets) /\ Elements(Kept(s, i)) \subseteq Elements(s)
  <1>1. /\ Len(s) \in Nat /\ i - 1 \in 0 .. Len(s) /\ i + 1 \in 1 .. Len(s) + 1
        /\ 1 \in 1 .. Len(s) + 1 /\ Len(s) \in 0 .. Len(s)
    BY LenProperties
  <1> DEFINE u == SubSeq(s, 1, i - 1)
             v == SubSeq(s, i + 1, Len(s))
  <1>2. u \in Seq(Packets) /\ Elements(u) \subseteq Elements(s)
    BY <1>1, ElementsSub
  <1>3. v \in Seq(Packets) /\ Elements(v) \subseteq Elements(s)
    BY <1>1, ElementsSub
  <1> HIDE DEF u, v
  <1>4. u \o v \in Seq(Packets) /\ Elements(u \o v) \subseteq Elements(u) \cup Elements(v)
    BY <1>2, <1>3, ElementsConcat
  <1>. QED  BY <1>2, <1>3, <1>4 DEF Kept, u, v

LEMMA EnqueuedSome ==
    ASSUME NEW q \in Bounded, NEW s \in Seq(Packets)
    PROVE  /\ Enqueued(q, s) \in Bounded
           /\ In(Enqueued(q, s)) \subseteq In(q) \cup Elements(s)
  <1>1. CASE s = <<>>
    BY <1>1 DEF Enqueued
  <1>2. CASE s # <<>> /\ (q.overflow \/ Len(q.events) + Len(s) > QueueSize)
    <2>1. <<>> \in Seq(Packets) /\ Len(<<>>) = 0 /\ DOMAIN <<>> = {}
      BY EmptySeq, LenProperties
    <2>. QED  BY <1>2, <2>1, SyncAssumption DEF Enqueued, Bounded, Queues, In
  <1>3. CASE s # <<>> /\ ~(q.overflow \/ Len(q.events) + Len(s) > QueueSize)
    <2>1. /\ q.events \o s \in Seq(Packets) /\ Len(q.events \o s) = Len(q.events) + Len(s)
          /\ Elements(q.events \o s) \subseteq Elements(q.events) \cup Elements(s)
      BY ElementsConcat, ConcatProperties DEF Bounded, Queues
    <2>2. /\ Enqueued(q, s) = [q EXCEPT !.events = @ \o s]
          /\ Len(q.events) + Len(s) <= QueueSize /\ ~q.overflow
      <3>1. Len(q.events) \in Nat /\ Len(s) \in Nat /\ QueueSize \in Nat
        BY LenProperties, SyncAssumption DEF Bounded, Queues
      <3>. QED  BY <1>3, <3>1 DEF Enqueued
    <2>3. Enqueued(q, s).events = q.events \o s /\ Enqueued(q, s).overflow = q.overflow
      BY <2>2 DEF Bounded, Queues
    <2>4. Enqueued(q, s) \in Queues
      BY <2>1, <2>2 DEF Bounded, Queues
    <2>. QED  BY <2>1, <2>2, <2>3, <2>4 DEF Bounded, In, Elements
  <1>. QED  BY <1>1, <1>2, <1>3

\* What Send() leaves in the queues.
LEMMA SendSome ==
    ASSUME NEW rest \in [Devices -> Bounded], NEW to, NEW s \in Seq(Packets), Send(rest, to, s),
           TypeOK
    PROVE  /\ queue' \in [Devices -> Bounded]
           /\ losses' \in 0 .. MaxLosses /\ losses' >= losses
           /\ \A c \in Devices :
                /\ In(queue'[c]) \subseteq In(rest[c]) \cup Elements(s)
                /\ c \notin to \/ ~On(c) => queue'[c] = rest[c]
  <1>1. PICK lost \in 0 .. Len(s) :
            /\ lost > 0 => losses < MaxLosses
            /\ losses' = IF lost > 0 THEN losses + 1 ELSE losses
            /\ queue' = [d \in Devices |->
                           IF d \in to /\ On(d)
                           THEN Enqueued(rest[d], IF lost > 0 THEN Kept(s, lost) ELSE s)
                           ELSE rest[d]]
    BY DEF Send
  <1> DEFINE arriving == IF lost > 0 THEN Kept(s, lost) ELSE s
  <1>2. arriving \in Seq(Packets) /\ Elements(arriving) \subseteq Elements(s)
    <2>1. CASE lost > 0
      <3>1. lost \in 1 .. Len(s)
        BY <2>1, LenProperties
      <3>. QED  BY <2>1, <3>1, KeptSome
    <2>2. CASE ~(lost > 0)
      BY <2>2
    <2>. QED  BY <2>1, <2>2
  <1>3. losses' \in 0 .. MaxLosses /\ losses' >= losses
    BY <1>1, SyncAssumption DEF TypeOK
  <1>4. queue' = [d \in Devices |-> IF d \in to /\ On(d) THEN Enqueued(rest[d], arriving) ELSE rest[d]]
    BY <1>1
  <1> HIDE DEF arriving
  <1>5. ASSUME NEW c \in Devices
        PROVE  /\ queue'[c] \in Bounded
               /\ In(queue'[c]) \subseteq In(rest[c]) \cup Elements(s)
               /\ c \notin to \/ ~On(c) => queue'[c] = rest[c]
    <2>1. queue'[c] = IF c \in to /\ On(c) THEN Enqueued(rest[c], arriving) ELSE rest[c]
      BY <1>4
    <2>2. /\ Enqueued(rest[c], arriving) \in Bounded
          /\ In(Enqueued(rest[c], arriving)) \subseteq In(rest[c]) \cup Elements(arriving)
      BY <1>2, EnqueuedSome
    <2>. QED  BY <1>2, <2>1, <2>2
  <1>. QED  BY <1>3, <1>4, <1>5

\* The packets that a reader sends are its own.
LEMMA OwnPackets ==
    ASSUME NEW d \in Devices, NEW v \in Versions
    PROVE  /\ {<<Hello(d)>>, <<Ack(d)>>, LocalStats(d, v), <<Name(d)>> \o LocalStats(d, v),
               <<Ack(d)>> \o LocalStats(d, v), <<Ack(d)>> \o <<>>} \subseteq Seq(Packets)
           /\ Elements(<<Hello(d)>>) = {Hello(d)}
           /\ Elements(LocalStats(d, v)) = {Name(d), Stats(d, v)}
           /\ Elements(<<Name(d)>> \o LocalStats(d, v)) \subseteq {Name(d), Stats(d, v)}
           /\ Elements(<<Ack(d)>> \o LocalStats(d, v)) \subseteq {Ack(d), Name(d), Stats(d, v)}
           /\ Elements(<<Ack(d)>> \o <<>>) \subseteq {Ack(d)}
  <1>1. {Hello(d), Ack(d), Name(d), Stats(d, v)} \subseteq Packets
    BY SyncAssumption DEF Hello, Ack, Name, Stats, Packets, Types, Versions
  <1>2. /\ <<Hello(d)>> \in Seq(Packets) /\ <<Ack(d)>> \in Seq(Packets) /\ <<Name(d)>> \in Seq(Packets)
        /\ <<Name(d), Stats(d, v)>> \in Seq(Packets) /\ <<>> \in Seq(Packets)
    BY <1>1
  <1>3. /\ Elements(<<Hello(d)>>) = {Hello(d)} /\ Elements(<<Ack(d)>>) = {Ack(d)}
        /\ Elements(<<Name(d)>>) = {Name(d)} /\ Elements(<<Name(d), Stats(d, v)>>) = {Name(d), Stats(d, v)}
        /\ Elements(<<>>) = {}
    BY DEF Elements
  <1> DEFINE ls == <<Name(d), Stats(d, v)>>
  <1>4. ls \in Seq(Packets) /\ Elements(ls) = {Name(d), Stats(d, v)} /\ LocalStats(d, v) = ls
    BY <1>2, <1>3 DEF LocalStats
  <1> HIDE DEF ls
  <1>5. /\ <<Name(d)>> \o ls \in Seq(Packets)
        /\ Elements(<<Name(d)>> \o ls) \subseteq Elements(<<Name(d)>>) \cup Elements(ls)
    BY <1>2, <1>4, ElementsConcat
  <1>6. /\ <<Ack(d)>> \o ls \in Seq(Packets)
        /\ Elements(<<Ack(d)>> \o ls) \subseteq Elements(<<Ack(d)>>) \cup Elements(ls)
    BY <1>2, <1>4, ElementsConcat
  <1>7. /\ <<Ack(d)>> \o <<>> \in Seq(Packets)
        /\ Elements(<<Ack(d)>> \o <<>>) \subseteq Elements(<<Ack(d)>>) \cup Elements(<<>>)
    BY <1>2, ElementsConcat
  <1>. QED  BY <1>2, <1>3, <1>4, <1>5, <1>6, <1>7

LEMMA BoundedQueues ==
    ASSUME TypeOK, QueuesOK
    PROVE  queue \in [Devices -> Bounded]
  BY DEF TypeOK, QueuesOK, Bounded

\* The queues without the event that is handled.
LEMMA RestSome ==
    ASSUME TypeOK, QueuesOK, NEW d \in Devices, queue[d].events # <<>>
    PROVE  /\ Rest(d) \in [Devices -> Bounded]
           /\ \A c \in Devices : In(Rest(d)[c]) \subseteq In(queue[c]) /\ (c # d => Rest(d)[c] = queue[c])
           /\ Head(queue[d].events) \in In(queue[d]) /\ Head(queue[d].events) \in Packets
  <1> DEFINE q == queue[d].events
  <1>1. q \in Seq(Packets) /\ queue \in [Devices -> Bounded] /\ QueueSize \in Nat
    BY BoundedQueues, SyncAssumption DEF Bounded, Queues
  <1>2. /\ Tail(q) \in Seq(Packets) /\ Len(Tail(q)) = Len(q) - 1 /\ Len(q) \in Nat
        /\ \A i \in 1 .. Len(Tail(q)) : Tail(q)[i] = q[i + 1]
        /\ Head(q) = q[1] /\ Head(q) \in Packets /\ 1 \in DOMAIN q
        /\ DOMAIN q = 1 .. Len(q) /\ DOMAIN Tail(q) = 1 .. Len(Tail(q))
    BY <1>1, HeadTailProperties, LenProperties, EmptySeq
  <1>3. \A i \in DOMAIN Tail(q) : i + 1 \in DOMAIN q /\ Tail(q)[i] = q[i + 1]
    BY <1>2
  <1>4. /\ Rest(d) = [queue EXCEPT ![d].events = Tail(q)]
        /\ \A c \in Devices : c # d => Rest(d)[c] = queue[c]
        /\ Rest(d)[d] = [queue[d] EXCEPT !.events = Tail(q)]
    BY <1>1 DEF Rest
  <1>5. Rest(d)[d] \in Bounded /\ Rest(d)[d].events = Tail(q)
    <2>1. queue[d] \in Bounded
      BY <1>1
    <2>2. ~queue[d].overflow /\ Len(q) <= QueueSize
      BY <2>1 DEF Bounded
    <2>3. queue[d] \in Queues /\ Len(Tail(q)) <= QueueSize
      BY <1>1, <1>2, <2>1, <2>2 DEF Bounded
    <2> HIDE DEF q
    <2>4. /\ Rest(d)[d] \in Queues /\ Rest(d)[d].events = Tail(q)
          /\ Rest(d)[d].overflow = queue[d].overflow
      BY <1>2, <1>4, <2>3 DEF Queues
    <2>. QED  BY <2>2, <2>3, <2>4 DEF Bounded
  <1>6. In(Rest(d)[d]) \subseteq In(queue[d])
    BY <1>3, <1>5 DEF In
  <1>7. Head(q) \in In(queue[d])
    BY <1>2 DEF In
  <1>8. Rest(d) \in [Devices -> Bounded]
    BY <1>1, <1>4, <1>5
  <1>. QED  BY <1>2, <1>4, <1>6, <1>7, <1>8

-----------------------------------------------------------------------------
(* What a step of one reader does.                                         *)

Activities == [state : States, peer : Devices \cup {NoPeer}, seen : BOOLEAN, saved : BOOLEAN,
               sent : BOOLEAN, acked : BOOLEAN, ready : BOOLEAN, local : Versions]

\* It changes nothing of the others but their queues.
Alone(d) ==
    \A c \in Devices \ {d} :
        /\ dev'[c] = dev[c] /\ storing'[c] = storing[c]
        /\ record'[c] = record[c] /\ base'[c] = base[c]

\* What it sends: its own statistics, and acknowledgements that are true.
New(d, c, e) ==
    /\ c # d /\ e.from = d
    /\ e.type = "Stats" => e.stats = stats[d]
    /\ e.type = "Ack" => Held(d, c)' = stats[c]

SendsOwn(d) ==
    \A c \in Devices :
        /\ \A e \in In(queue'[c]) : e \in In(queue[c]) \/ New(d, c, e)
        /\ c # d /\ ~On(c) => queue'[c] = queue[c]

\* What it holds itself.
OwnState(d) ==
    /\ ~On(d)' => dev'[d] = Away /\ queue'[d] = Empty /\ ~Busy(d)'
    /\ dev'[d].ready => dev'[d].local = stats[d]
    /\ dev'[d].peer # d
    /\ Busy(d)' => /\ storing'[d].packet.from # d
                   /\ storing'[d].packet.stats = stats[storing'[d].packet.from]
                   /\ dev'[d].ready

\* Its records are replaced by what the others are at now.
OwnRecords(d) ==
    /\ \A p \in Devices : record'[d][p] <= stats[p]
    /\ base'[d] = base[d] \/ base'[d] = stats
    /\ faults' = faults =>
         \A p \in Devices : Held(d, p)' = Held(d, p) \/ Held(d, p)' = stats[p]

\* It notes what has happened.
OwnNotes(d) ==
    faults' = 0 =>
        /\ dev'[d].saved => \/ dev[d].saved /\ base'[d] = base[d]
                            \/ \E p \in Devices \ {d} : Held(d, p)' = stats[p]
        /\ dev'[d].acked => dev[d].acked \/ \E e \in In(queue[d]) : e.type = "Ack"
        /\ dev'[d].state = "Synced" => dev'[d].saved /\ dev'[d].acked

Moves(d) ==
    /\ TypeOK' /\ QueuesOK' /\ UNCHANGED stats /\ faults' >= faults
    /\ Alone(d) /\ SendsOwn(d) /\ OwnState(d) /\ OwnRecords(d) /\ OwnNotes(d)

LEMMA TypeFacts ==
    ASSUME TypeOK, QueuesOK
    PROVE  /\ dev \in [Devices -> Activities] /\ queue \in [Devices -> Bounded]
           /\ storing \in [Devices -> [step : Steps, packet : Packets]]
           /\ record \in [Devices -> [Devices -> Versions \cup {None}]]
           /\ part \in [Devices -> [Devices -> Files]]
           /\ stats \in [Devices -> Versions] /\ base \in [Devices -> [Devices -> Versions]]
           /\ used \in [opens : 0 .. MaxOpens, syncs : 0 .. MaxSyncs, resends : 0 .. MaxResends]
           /\ losses \in 0 .. MaxLosses /\ faults \in 0 .. MaxFaults
           /\ MaxFaults \in Nat /\ MaxStats \in Nat /\ MaxLosses \in Nat
           /\ MaxOpens \in Nat /\ MaxSyncs \in Nat /\ MaxResends \in Nat
  BY BoundedQueues, SyncAssumption DEF TypeOK, Activities

LEMMA TypesAfter ==
    ASSUME dev' \in [Devices -> Activities], queue' \in [Devices -> Bounded],
           storing' \in [Devices -> [step : Steps, packet : Packets]],
           record' \in [Devices -> [Devices -> Versions \cup {None}]],
           part' \in [Devices -> [Devices -> Files]],
           stats' \in [Devices -> Versions], base' \in [Devices -> [Devices -> Versions]],
           used' \in [opens : 0 .. MaxOpens, syncs : 0 .. MaxSyncs, resends : 0 .. MaxResends],
           losses' \in 0 .. MaxLosses, faults' \in 0 .. MaxFaults
    PROVE  TypeOK' /\ QueuesOK'
  BY DEF TypeOK, QueuesOK, Bounded, Queues, Activities

LEMMA UsedOnce ==
    ASSUME TypeOK, QueuesOK
    PROVE  /\ used.opens < MaxOpens /\ Use("opens") =>
                used' \in [opens : 0 .. MaxOpens, syncs : 0 .. MaxSyncs, resends : 0 .. MaxResends]
           /\ used.syncs < MaxSyncs /\ Use("syncs") =>
                used' \in [opens : 0 .. MaxOpens, syncs : 0 .. MaxSyncs, resends : 0 .. MaxResends]
           /\ used.resends < MaxResends /\ Use("resends") =>
                used' \in [opens : 0 .. MaxOpens, syncs : 0 .. MaxSyncs, resends : 0 .. MaxResends]
  <1>1. /\ used.opens < MaxOpens => used.opens + 1 \in 0 .. MaxOpens
        /\ used.syncs < MaxSyncs => used.syncs + 1 \in 0 .. MaxSyncs
        /\ used.resends < MaxResends => used.resends + 1 \in 0 .. MaxResends
    BY TypeFacts
  <1>. QED  BY <1>1, TypeFacts DEF Use

\* Steps that change only the reader's activity, and not its notes.
LEMMA QuietSteps ==
    ASSUME IInv, NEW d \in Devices,
           OpenScreen(d) \/ TimeOut(d) \/ BecomeSynced(d)
    PROVE  Moves(d)
  <1>1. /\ dev' \in [Devices -> Activities]
        /\ used' \in [opens : 0 .. MaxOpens, syncs : 0 .. MaxSyncs, resends : 0 .. MaxResends]
    <2>1. CASE OpenScreen(d)
      <3>1. [Away EXCEPT !.state = "Ready"] \in Activities
        <4>1. 0 \in Versions
          BY TypeFacts DEF IInv, Versions
        <4>2. Away \in Activities
          BY <4>1 DEF Away, Activities, States
        <4>. QED  BY <4>2 DEF Activities, States
      <3>2. used' \in [opens : 0 .. MaxOpens, syncs : 0 .. MaxSyncs, resends : 0 .. MaxResends]
        BY <2>1, UsedOnce DEF IInv, OpenScreen
      <3>. QED  BY <2>1, <3>1, <3>2, TypeFacts DEF IInv, OpenScreen
    <2>2. CASE TimeOut(d) \/ BecomeSynced(d)
      <3>1. \A s \in States : [dev EXCEPT ![d].state = s] \in [Devices -> Activities]
        BY TypeFacts DEF IInv, Activities
      <3>. QED  BY <2>2, <3>1, TypeFacts DEF IInv, TimeOut, BecomeSynced, States
    <2>. QED  BY <2>1, <2>2
  <1>2. UNCHANGED <<queue, storing, record, part, stats, losses, faults, base>>
    BY DEF OpenScreen, TimeOut, BecomeSynced, fileVars
  <1>3. TypeOK' /\ QueuesOK'
    BY <1>1, <1>2, TypeFacts, TypesAfter DEF IInv
  <1>4. Alone(d) /\ SendsOwn(d)
    BY <1>2, TypeFacts DEF IInv, OpenScreen, TimeOut, BecomeSynced, Alone, SendsOwn
  <1>5. OwnState(d)
    <2>1. /\ dev[d].ready => dev[d].local = stats[d]
          /\ dev[d].peer # d /\ dev[d] \in Activities
          /\ Busy(d) => /\ storing[d].packet.from # d
                        /\ storing[d].packet.stats = stats[storing[d].packet.from]
                        /\ dev[d].ready
      BY TypeFacts DEF IInv, Current, PreparedIsCurrent, SentIsCurrent
    <2>2. CASE OpenScreen(d)
      <3>1. ~Busy(d) /\ dev'[d] = [Away EXCEPT !.state = "Ready"]
        BY <2>2, TypeFacts DEF OpenScreen, IInv, Current, ClosedIsEmpty
      <3>. QED  BY <1>2, <3>1, SyncAssumption DEF OwnState, On, Busy, Away
    <2>3. CASE TimeOut(d) \/ BecomeSynced(d)
      <3>1. PICK s \in {"Error", "Synced"} : dev'[d] = [dev[d] EXCEPT !.state = s]
        BY <2>3, TypeFacts DEF TimeOut, BecomeSynced, IInv
      <3>2. /\ dev'[d].state = s /\ dev'[d].ready = dev[d].ready
            /\ dev'[d].local = dev[d].local /\ dev'[d].peer = dev[d].peer
        BY <2>1, <3>1 DEF Activities
      <3>. QED  BY <1>2, <2>1, <3>2 DEF OwnState, On, Busy
    <2>. QED  BY <2>2, <2>3
  <1>6. OwnRecords(d)
    BY <1>2, TypeFacts DEF IInv, Current, NobodyAhead, OwnRecords, Held, Storing, Sender
  <1>7. OwnNotes(d)
    <2>1. CASE OpenScreen(d)
      <3>1. dev'[d] = [Away EXCEPT !.state = "Ready"]
        BY <2>1, TypeFacts DEF OpenScreen, IInv
      <3>. QED  BY <3>1 DEF OwnNotes, Away
    <2>2. CASE TimeOut(d)
      <3>1. dev'[d] = [dev[d] EXCEPT !.state = "Error"] /\ dev[d] \in Activities
        BY <2>2, TypeFacts DEF TimeOut, IInv
      <3>. QED  BY <1>2, <3>1 DEF OwnNotes, Activities
    <2>3. CASE BecomeSynced(d)
      <3>1. /\ dev'[d] = [dev[d] EXCEPT !.state = "Synced"] /\ dev[d] \in Activities
            /\ dev[d].saved /\ dev[d].acked
        BY <2>3, TypeFacts DEF BecomeSynced, Exchanged, IInv
      <3>. QED  BY <1>2, <3>1 DEF OwnNotes, Activities
    <2>. QED  BY <2>1, <2>2, <2>3
  <1>. QED  BY <1>2, <1>3, <1>4, <1>5, <1>6, <1>7, TypeFacts DEF Moves, IInv

LEMMA AwayTyped ==
    ASSUME TypeOK, QueuesOK, NEW d \in Devices
    PROVE  /\ Away \in Activities
           /\ NotStoring(d) \in [step : Steps, packet : Packets] /\ NotStoring(d).step = "none"
  <1>1. 0 \in Versions
    BY TypeFacts DEF Versions
  <1>. QED  BY <1>1 DEF Away, Activities, States, NotStoring, Steps, Packets, Types

\* When nothing is stored and no record is touched, the reader holds what it held.
LEMMA RecordsStay ==
    ASSUME IInv, NEW d \in Devices, UNCHANGED <<record, stats>>,
           base'[d] = base[d] \/ base'[d] = stats,
           storing'[d] = storing[d] \/ (storing[d].step # "rename" /\ storing'[d].step # "rename")
             \/ faults' # faults
    PROVE  OwnRecords(d)
  <1>1. \A p \in Devices : record'[d][p] <= stats[p]
    BY DEF IInv, Current, NobodyAhead
  <1>2. ASSUME NEW p \in Devices, faults' = faults
        PROVE  Held(d, p)' = Held(d, p)
    BY <1>2 DEF Held, Storing, Sender
  <1>. QED  BY <1>1, <1>2 DEF OwnRecords

\* A round or a screen that is not there has noted nothing.
LEMMA NothingNoted ==
    ASSUME NEW d \in Devices, ~dev'[d].saved, ~dev'[d].acked, dev'[d].state # "Synced"
    PROVE  OwnNotes(d)
  BY DEF OwnNotes

\* Notes that are kept.
LEMMA NotesKept ==
    ASSUME IInv, NEW d \in Devices, faults' >= faults, base'[d] = base[d],
           dev'[d].saved = dev[d].saved, dev'[d].acked = dev[d].acked,
           dev'[d].state = "Synced" => dev[d].state = "Synced"
    PROVE  OwnNotes(d)
  <1>1. faults' = 0 => faults = 0
    BY TypeFacts DEF IInv
  <1>. QED  BY <1>1 DEF OwnNotes, IInv, NotesAreTrue

LEMMA NothingSent ==
    ASSUME NEW d \in Devices,
           \A c \in Devices : IF c = d THEN In(queue'[c]) \subseteq In(queue[c]) ELSE queue'[c] = queue[c]
    PROVE  SendsOwn(d)
  BY DEF SendsOwn

\* The reader as it was.
LEMMA OwnBefore ==
    ASSUME IInv, NEW d \in Devices
    PROVE  /\ dev[d] \in Activities
           /\ dev[d].ready => dev[d].local = stats[d]
           /\ dev[d].peer # d
           /\ Busy(d) => /\ storing[d].packet.from # d
                         /\ storing[d].packet.stats = stats[storing[d].packet.from]
                         /\ dev[d].ready
           /\ stats[d] \in Versions
  BY TypeFacts DEF IInv, Current, PreparedIsCurrent, SentIsCurrent

\* The screen closes, with the reader or without it.
LEMMA ClosingSteps ==
    ASSUME IInv, NEW d \in Devices, LeaveScreen(d) \/ PowerLoss(d)
    PROVE  Moves(d)
  <1>1. /\ dev' = [dev EXCEPT ![d] = Away] /\ queue' = [queue EXCEPT ![d] = Empty]
        /\ storing' = [storing EXCEPT ![d] = NotStoring(d)]
        /\ UNCHANGED <<record, part, stats, used, losses, base>>
        /\ \/ faults' = faults /\ storing[d].step = "none"
           \/ faults < MaxFaults /\ faults' = faults + 1
    <2>1. CASE LeaveScreen(d)
      BY <2>1 DEF LeaveScreen, Gone, fileVars, Busy
    <2>2. CASE PowerLoss(d)
      BY <2>2 DEF PowerLoss, Gone, fileVars
    <2>. QED  BY <2>1, <2>2
  <1>2. dev'[d] = Away /\ queue'[d] = Empty /\ storing'[d] = NotStoring(d)
    BY <1>1, TypeFacts DEF IInv
  <1>3. TypeOK' /\ QueuesOK'
    <2>1. faults' \in 0 .. MaxFaults
      BY <1>1, TypeFacts DEF IInv
    <2>2. /\ dev' \in [Devices -> Activities] /\ queue' \in [Devices -> Bounded]
          /\ storing' \in [Devices -> [step : Steps, packet : Packets]]
      BY <1>1, AwayTyped, EmptyIsBounded, TypeFacts DEF IInv
    <2>. QED  BY <1>1, <2>1, <2>2, TypesAfter, TypeFacts DEF IInv
  <1>4. Alone(d)
    BY <1>1, TypeFacts DEF IInv, Alone
  <1>5. SendsOwn(d)
    BY <1>1, <1>2, EmptyIsBounded, NothingSent
  <1>6. OwnState(d)
    BY <1>2, AwayTyped, SyncAssumption DEF IInv, OwnState, Busy, Away
  <1>7. OwnRecords(d)
    <2>1. faults' = faults => storing[d].step # "rename" /\ storing'[d].step # "rename"
      BY <1>1, <1>2, AwayTyped, TypeFacts DEF IInv
    <2>. QED  BY <1>1, <2>1, RecordsStay
  <1>8. OwnNotes(d)
    BY <1>2, NothingNoted DEF Away
  <1>9. faults' >= faults
    BY <1>1, TypeFacts DEF IInv
  <1>. QED  BY <1>1, <1>3, <1>4, <1>5, <1>6, <1>7, <1>8, <1>9 DEF Moves

LEMMA OverflowStep ==
    ASSUME IInv, NEW d \in Devices, Overflow(d)
    PROVE  Moves(d)
  <1>1. /\ queue' = [queue EXCEPT ![d] = Empty] /\ dev' = [dev EXCEPT ![d].state = "Error"]
        /\ UNCHANGED <<storing, record, part, stats, used, losses, faults, base>>
    BY DEF Overflow, fileVars
  <1>2. queue'[d] = Empty /\ dev'[d] = [dev[d] EXCEPT !.state = "Error"] /\ dev[d] \in Activities
    BY <1>1, TypeFacts DEF IInv
  <1>3. TypeOK' /\ QueuesOK'
    <2>1. dev' \in [Devices -> Activities] /\ queue' \in [Devices -> Bounded]
      BY <1>1, <1>2, EmptyIsBounded, TypeFacts DEF IInv, Activities, States
    <2>. QED  BY <1>1, <2>1, TypesAfter, TypeFacts DEF IInv
  <1>4. Alone(d)
    BY <1>1, TypeFacts DEF IInv, Alone
  <1>5. SendsOwn(d)
    BY <1>1, <1>2, EmptyIsBounded, NothingSent
  <1>6. OwnState(d)
    BY <1>1, <1>2, OwnBefore DEF OwnState, On, Busy, Activities
  <1>7. OwnRecords(d)
    BY <1>1, RecordsStay
  <1>8. OwnNotes(d)
    <2>1. /\ dev'[d].saved = dev[d].saved /\ dev'[d].acked = dev[d].acked
          /\ dev'[d].state # "Synced" /\ faults' >= faults /\ base'[d] = base[d]
      BY <1>1, <1>2, TypeFacts DEF Activities, IInv
    <2>. QED  BY <2>1, NotesKept
  <1>. QED  BY <1>1, <1>3, <1>4, <1>5, <1>6, <1>7, <1>8, TypeFacts DEF Moves, IInv

-----------------------------------------------------------------------------
(* Rounds.                                                                 *)

LEMMA PreparedIs ==
    ASSUME IInv, NEW d \in Devices, NEW k \in Activities
    PROVE  /\ Prepared(d, k) \in Activities
           /\ Prepared(d, k).ready /\ Prepared(d, k).local = stats[d]
           /\ Prepared(d, k).state = k.state /\ Prepared(d, k).peer = k.peer
           /\ Prepared(d, k).saved = k.saved /\ Prepared(d, k).acked = k.acked
  BY OwnBefore DEF Prepared, Activities

LEMMA PassiveIs ==
    ASSUME NEW k \in Activities
    PROVE  /\ PassiveRound(k) \in Activities /\ PassiveRound(k).state = k.state
           /\ ~PassiveRound(k).saved /\ ~PassiveRound(k).acked /\ ~PassiveRound(k).ready
  BY DEF PassiveRound, Activities

LEMMA JoinedIs ==
    ASSUME IInv, NEW d \in Devices, NEW from \in Devices
    PROVE  /\ Joined(d, from) \in Activities
           /\ Joined(d, from).ready /\ Joined(d, from).local = stats[d]
           /\ Joined(d, from).state = "Syncing" /\ Joined(d, from).peer = from
           /\ Joined(d, from).saved => dev[d].saved /\ InRound(d)
           /\ Joined(d, from).acked => dev[d].acked /\ InRound(d)
  <1> DEFINE k == IF InRound(d) THEN dev[d] ELSE PassiveRound(dev[d])
             j == [k EXCEPT !.seen = TRUE, !.peer = from]
             m == IF j.ready THEN j ELSE Prepared(d, j)
  <1>1. /\ k \in Activities /\ (k.ready => k.local = stats[d])
        /\ k.saved => dev[d].saved /\ InRound(d)
        /\ k.acked => dev[d].acked /\ InRound(d)
    BY OwnBefore, PassiveIs
  <1> HIDE DEF k
  <1>2. /\ j \in Activities /\ j.ready = k.ready /\ j.local = k.local
        /\ j.peer = from /\ j.saved = k.saved /\ j.acked = k.acked
    BY <1>1 DEF Activities
  <1> HIDE DEF j
  <1>3. /\ m \in Activities /\ m.ready /\ m.local = stats[d]
        /\ m.peer = from /\ m.saved = k.saved /\ m.acked = k.acked
    BY <1>1, <1>2, PreparedIs
  <1> HIDE DEF m
  <1>4. Joined(d, from) = [m EXCEPT !.state = "Syncing"]
    BY DEF Joined, k, j, m
  <1>5. /\ Joined(d, from) \in Activities /\ Joined(d, from).state = "Syncing"
        /\ Joined(d, from).ready = m.ready /\ Joined(d, from).local = m.local
        /\ Joined(d, from).peer = m.peer /\ Joined(d, from).saved = m.saved
        /\ Joined(d, from).acked = m.acked
    BY <1>3, <1>4 DEF Activities, States
  <1>. QED  BY <1>1, <1>3, <1>5

LEMMA SentOwn ==
    ASSUME IInv, NEW d \in Devices, NEW rest \in [Devices -> Bounded],
           \A c \in Devices : In(rest[c]) \subseteq In(queue[c]) /\ (c # d => rest[c] = queue[c]),
           NEW to \in SUBSET (Devices \ {d}), NEW s \in Seq(Packets), Send(rest, to, s),
           \A e \in Elements(s), c \in to : New(d, c, e)
    PROVE  /\ queue' \in [Devices -> Bounded] /\ losses' \in 0 .. MaxLosses
           /\ SendsOwn(d) /\ (~On(d) => queue'[d] = rest[d])
  <1>1. /\ queue' \in [Devices -> Bounded] /\ losses' \in 0 .. MaxLosses
        /\ \A c \in Devices :
             /\ In(queue'[c]) \subseteq In(rest[c]) \cup Elements(s)
             /\ c \notin to \/ ~On(c) => queue'[c] = rest[c]
    BY SendSome DEF IInv
  <1>. QED  BY <1>1 DEF SendsOwn

\* The same when no event is being handled.
LEMMA SentNow ==
    ASSUME IInv, NEW d \in Devices, NEW to \in SUBSET (Devices \ {d}), NEW s \in Seq(Packets),
           Send(queue, to, s), \A e \in Elements(s), c \in to : New(d, c, e)
    PROVE  /\ queue' \in [Devices -> Bounded] /\ losses' \in 0 .. MaxLosses
           /\ SendsOwn(d) /\ (~On(d) => queue'[d] = queue[d])
  <1>1. queue \in [Devices -> Bounded]
    BY TypeFacts DEF IInv
  <1>2. /\ queue' \in [Devices -> Bounded] /\ losses' \in 0 .. MaxLosses
        /\ \A c \in Devices :
             /\ In(queue'[c]) \subseteq In(queue[c]) \cup Elements(s)
             /\ c \notin to \/ ~On(c) => queue'[c] = queue[c]
    BY <1>1, SendSome DEF IInv
  <1>. QED  BY <1>2 DEF SendsOwn

LEMMA StartSyncStep ==
    ASSUME IInv, NEW d \in Devices, StartSync(d)
    PROVE  Moves(d)
  <1> DEFINE k == [dev[d] EXCEPT !.seen = FALSE, !.saved = FALSE, !.sent = FALSE,
                               !.acked = FALSE, !.ready = FALSE, !.peer = NoPeer]
  <1>1. /\ k \in Activities /\ ~k.saved /\ ~k.acked /\ ~k.ready /\ k.peer = NoPeer
    BY OwnBefore DEF Activities
  <1>2. /\ base' = [base EXCEPT ![d] = stats] /\ UNCHANGED <<storing, record, part, stats>>
        /\ used' \in [opens : 0 .. MaxOpens, syncs : 0 .. MaxSyncs, resends : 0 .. MaxResends]
    BY UsedOnce DEF IInv, StartSync, fileVars
  <1>3. On(d) /\ ~Busy(d)
    BY DEF StartSync, On
  <1>4. PICK x \in Activities :
          /\ dev' = [dev EXCEPT ![d] = x]
          /\ ~x.saved /\ ~x.acked /\ x.peer = NoPeer /\ (x.ready => x.local = stats[d])
          /\ x.state \in {"Discovering", "Error"}
    <2> HIDE DEF k
    <2>1. /\ dev' = [dev EXCEPT ![d] = [Prepared(d, k) EXCEPT !.state = "Discovering"]]
          \/ dev' = [dev EXCEPT ![d] = [k EXCEPT !.state = "Error"]]
      BY DEF StartSync, k
    <2>2. [k EXCEPT !.state = "Error"] \in Activities /\ ~[k EXCEPT !.state = "Error"].ready
          /\ ~[k EXCEPT !.state = "Error"].saved /\ ~[k EXCEPT !.state = "Error"].acked
          /\ [k EXCEPT !.state = "Error"].peer = NoPeer /\ [k EXCEPT !.state = "Error"].state = "Error"
      BY <1>1 DEF Activities, States
    <2> DEFINE r == Prepared(d, k)
               x == [r EXCEPT !.state = "Discovering"]
    <2>3. /\ r \in Activities /\ ~r.saved /\ ~r.acked /\ r.peer = NoPeer /\ r.local = stats[d]
      BY <1>1, PreparedIs
    <2> HIDE DEF r
    <2>4. /\ x \in Activities /\ ~x.saved /\ ~x.acked /\ x.peer = NoPeer /\ x.local = stats[d]
          /\ x.state = "Discovering"
      BY <2>3 DEF Activities, States
    <2>. QED  BY <2>1, <2>2, <2>4 DEF r
  <1>5. /\ queue' \in [Devices -> Bounded] /\ losses' \in 0 .. MaxLosses /\ SendsOwn(d)
        /\ faults' \in 0 .. MaxFaults /\ faults' >= faults
    <2>1. CASE Send(queue, Devices \ {d}, <<Hello(d)>>) /\ UNCHANGED faults
      <3>1. <<Hello(d)>> \in Seq(Packets) /\ Elements(<<Hello(d)>>) = {Hello(d)}
        BY OwnPackets, OwnBefore
      <3>2. \A e \in Elements(<<Hello(d)>>), c \in Devices \ {d} : New(d, c, e)
        BY <3>1 DEF New, Hello
      <3>3. queue' \in [Devices -> Bounded] /\ losses' \in 0 .. MaxLosses /\ SendsOwn(d)
        BY <2>1, <3>1, <3>2, SentNow
      <3>. QED  BY <2>1, <3>3, TypeFacts DEF IInv
    <2>2. CASE faults < MaxFaults /\ faults' = faults + 1 /\ Silent(queue)
      BY <2>2, NothingSent, TypeFacts DEF IInv, Silent
    <2>. QED  BY <2>1, <2>2 DEF StartSync
  <1>6. dev'[d] \in Activities /\ dev' \in [Devices -> Activities] /\ base'[d] = stats
    BY <1>2, <1>4, TypeFacts DEF IInv
  <1>7. TypeOK' /\ QueuesOK'
    <2>1. base' \in [Devices -> [Devices -> Versions]]
      BY <1>2, TypeFacts DEF IInv
    <2>. QED  BY <1>2, <1>5, <1>6, <2>1, TypesAfter, TypeFacts DEF IInv
  <1>8. Alone(d)
    BY <1>2, <1>4, TypeFacts DEF IInv, Alone
  <1>9. dev'[d] = [dev EXCEPT ![d] = dev'[d]][d] /\ ~dev'[d].saved /\ ~dev'[d].acked
        /\ dev'[d].peer = NoPeer /\ (dev'[d].ready => dev'[d].local = stats[d])
        /\ dev'[d].state \in {"Discovering", "Error"}
    BY <1>4, TypeFacts DEF IInv
  <1>10. OwnState(d)
    BY <1>2, <1>3, <1>9, SyncAssumption DEF OwnState, On, Busy
  <1>11. OwnRecords(d)
    BY <1>2, <1>6, RecordsStay
  <1>12. OwnNotes(d)
    BY <1>9, NothingNoted
  <1>. QED  BY <1>2, <1>5, <1>7, <1>8, <1>10, <1>11, <1>12 DEF Moves

-----------------------------------------------------------------------------
(* Events.                                                                 *)

Event(d) == Head(queue[d].events)

LEMMA EventIs ==
    ASSUME IInv, NEW d \in Devices, queue[d].events # <<>>
    PROVE  /\ Event(d) \in In(queue[d]) /\ Event(d) \in Packets
           /\ Event(d).from \in Devices /\ Event(d).from # d
           /\ Event(d).type = "Stats" => Event(d).stats = stats[Event(d).from]
  <1>1. Event(d) \in In(queue[d]) /\ Event(d) \in Packets
    BY RestSome DEF IInv, Event
  <1>. QED  BY <1>1 DEF IInv, Current, SentIsCurrent, Packets

\* Nothing is sent for it.
LEMMA TakenSilently ==
    ASSUME IInv, NEW d \in Devices, queue[d].events # <<>>, Silent(Rest(d))
    PROVE  queue' \in [Devices -> Bounded] /\ losses' \in 0 .. MaxLosses /\ SendsOwn(d)
  <1>1. /\ Rest(d) \in [Devices -> Bounded]
        /\ \A c \in Devices : In(Rest(d)[c]) \subseteq In(queue[c]) /\ (c # d => Rest(d)[c] = queue[c])
    BY RestSome DEF IInv
  <1>2. queue' = Rest(d) /\ losses' = losses
    BY DEF Silent
  <1>. QED  BY <1>1, <1>2, TypeFacts DEF IInv, SendsOwn

\* A packet that begins or continues a round leaves this.
LEMMA JoinedStep ==
    ASSUME IInv, NEW d \in Devices, queue[d].events # <<>>, ~Busy(d), On(d),
           NEW x \in Activities, dev' = [dev EXCEPT ![d] = x],
           x.ready, x.local = stats[d], x.peer = Event(d).from, x.state = "Syncing",
           x.saved => dev[d].saved /\ InRound(d),
           x.acked => (dev[d].acked /\ InRound(d)) \/ Event(d).type = "Ack",
           base' = IF InRound(d) THEN base ELSE [base EXCEPT ![d] = stats],
           queue' \in [Devices -> Bounded], losses' \in 0 .. MaxLosses, SendsOwn(d),
           UNCHANGED <<record, part, stats, used, faults>>,
           \/ UNCHANGED storing
           \/ /\ storing' = [storing EXCEPT ![d] = [step |-> "open", packet |-> Event(d)]]
              /\ Event(d).type = "Stats"
    PROVE  Moves(d)
  <1>1. /\ dev'[d] = x /\ dev' \in [Devices -> Activities]
        /\ base' \in [Devices -> [Devices -> Versions]]
        /\ base'[d] = base[d] \/ base'[d] = stats
        /\ InRound(d) => base'[d] = base[d]
    BY TypeFacts DEF IInv
  <1>2. /\ storing' \in [Devices -> [step : Steps, packet : Packets]]
        /\ storing'[d] = storing[d] \/ (storing'[d] = [step |-> "open", packet |-> Event(d)]
                                        /\ Event(d).type = "Stats")
    <2>1. CASE UNCHANGED storing
      BY <2>1, TypeFacts DEF IInv
    <2>2. CASE /\ storing' = [storing EXCEPT ![d] = [step |-> "open", packet |-> Event(d)]]
               /\ Event(d).type = "Stats"
      <3>1. [step |-> "open", packet |-> Event(d)] \in [step : Steps, packet : Packets]
        BY EventIs DEF Steps
      <3>. QED  BY <2>2, <3>1, TypeFacts DEF IInv
    <2>. QED  BY <2>1, <2>2
  <1>3. storing[d].step = "none"
    BY DEF Busy
  <1>4. TypeOK' /\ QueuesOK'
    BY <1>1, <1>2, TypesAfter, TypeFacts DEF IInv
  <1>5. Alone(d)
    BY TypeFacts DEF IInv, Alone
  <1>6. OwnState(d)
    BY <1>1, <1>2, <1>3, EventIs DEF OwnState, On, Busy
  <1>7. OwnRecords(d)
    <2>1. storing[d].step # "rename" /\ storing'[d].step # "rename"
      BY <1>2, <1>3
    <2>. QED  BY <1>1, <2>1, RecordsStay
  <1>8. OwnNotes(d)
    <2>1. x.state # "Synced" /\ (x.saved => dev[d].saved /\ base'[d] = base[d])
          /\ (x.acked => dev[d].acked \/ \E e \in In(queue[d]) : e.type = "Ack")
      BY <1>1, EventIs
    <2>. QED  BY <1>1, <2>1 DEF OwnNotes
  <1>. QED  BY <1>4, <1>5, <1>6, <1>7, <1>8, TypeFacts DEF Moves, IInv

LEMMA HelloStep ==
    ASSUME IInv, NEW d \in Devices, queue[d].events # <<>>, ~Busy(d), On(d),
           HandleHello(d, Event(d)), UNCHANGED <<stats, used>>,
           base' = IF InRound(d) THEN base ELSE [base EXCEPT ![d] = stats]
    PROVE  Moves(d)
  <1> DEFINE from == Event(d).from
             j == Joined(d, from)
             ps == <<Name(d)>> \o LocalStats(d, j.local)
  <1>1. from \in Devices /\ from # d
    BY EventIs
  <1>2. /\ j \in Activities /\ j.ready /\ j.local = stats[d] /\ j.state = "Syncing"
        /\ j.peer = from /\ (j.saved => dev[d].saved /\ InRound(d))
        /\ j.acked => dev[d].acked /\ InRound(d)
    BY <1>1, JoinedIs
  <1>3. /\ Rest(d) \in [Devices -> Bounded]
        /\ \A c \in Devices : In(Rest(d)[c]) \subseteq In(queue[c]) /\ (c # d => Rest(d)[c] = queue[c])
    BY RestSome DEF IInv
  <1>4. ps \in Seq(Packets) /\ Elements(ps) \subseteq {Name(d), Stats(d, stats[d])}
    BY <1>2, OwnPackets, OwnBefore
  <1>5. \A e \in Elements(ps), c \in {from} : New(d, c, e)
    BY <1>1, <1>4 DEF New, Name, Stats
  <1>6. Send(Rest(d), {from}, ps)
    BY DEF HandleHello
  <1>7. queue' \in [Devices -> Bounded] /\ losses' \in 0 .. MaxLosses /\ SendsOwn(d)
    <2>1. {from} \in SUBSET (Devices \ {d})
      BY <1>1
    <2> HIDE DEF ps, from
    <2>. QED  BY <1>3, <1>4, <1>5, <1>6, <2>1, SentOwn
  <1>8. PICK ok \in BOOLEAN : dev' = [dev EXCEPT ![d] = [j EXCEPT !.sent = ok]]
    BY DEF HandleHello
  <1> DEFINE x == [j EXCEPT !.sent = ok]
  <1> HIDE DEF j, ps
  <1>9. /\ x \in Activities /\ x.ready = j.ready /\ x.local = j.local /\ x.state = j.state
        /\ x.peer = j.peer /\ x.saved = j.saved /\ x.acked = j.acked
    BY <1>2 DEF Activities
  <1> HIDE DEF x
  <1>10. UNCHANGED <<storing, record, part, faults>>
    BY DEF HandleHello, fileVars
  <1>11. dev' = [dev EXCEPT ![d] = x]
    BY <1>8 DEF x
  <1>. QED  BY <1>2, <1>7, <1>9, <1>10, <1>11, JoinedStep

LEMMA StatsStep ==
    ASSUME IInv, NEW d \in Devices, queue[d].events # <<>>, ~Busy(d), On(d),
           HandleStats(d, Event(d)), Event(d).type = "Stats", UNCHANGED <<stats, used>>,
           base' = IF InRound(d) THEN base ELSE [base EXCEPT ![d] = stats]
    PROVE  Moves(d)
  <1> DEFINE x == Joined(d, Event(d).from)
  <1>1. /\ x \in Activities /\ x.ready /\ x.local = stats[d] /\ x.state = "Syncing"
        /\ x.peer = Event(d).from /\ (x.saved => dev[d].saved /\ InRound(d))
        /\ x.acked => dev[d].acked /\ InRound(d)
    BY EventIs, JoinedIs
  <1>2. /\ dev' = [dev EXCEPT ![d] = x] /\ UNCHANGED <<record, part, faults>>
        /\ storing' = [storing EXCEPT ![d] = [step |-> "open", packet |-> Event(d)]]
        /\ Silent(Rest(d))
    BY DEF HandleStats, fileVars
  <1>3. queue' \in [Devices -> Bounded] /\ losses' \in 0 .. MaxLosses /\ SendsOwn(d)
    BY <1>2, TakenSilently
  <1> HIDE DEF x
  <1>. QED  BY <1>1, <1>2, <1>3, JoinedStep

LEMMA AckStep ==
    ASSUME IInv, NEW d \in Devices, queue[d].events # <<>>, ~Busy(d), On(d),
           HandleAck(d, Event(d)), Event(d).type = "Ack", UNCHANGED <<stats, used>>,
           base' = IF InRound(d) THEN base ELSE [base EXCEPT ![d] = stats]
    PROVE  Moves(d)
  <1> DEFINE j == Joined(d, Event(d).from)
             x == [j EXCEPT !.acked = TRUE]
  <1>1. /\ j \in Activities /\ j.ready /\ j.local = stats[d] /\ j.state = "Syncing"
        /\ j.peer = Event(d).from /\ (j.saved => dev[d].saved /\ InRound(d))
    BY EventIs, JoinedIs
  <1>2. /\ dev' = [dev EXCEPT ![d] = x] /\ UNCHANGED <<record, part, faults, storing>>
        /\ Silent(Rest(d))
    BY DEF HandleAck, fileVars
  <1>3. queue' \in [Devices -> Bounded] /\ losses' \in 0 .. MaxLosses /\ SendsOwn(d)
    BY <1>2, TakenSilently
  <1> HIDE DEF j
  <1>4. /\ x \in Activities /\ x.ready = j.ready /\ x.local = j.local /\ x.state = j.state
        /\ x.peer = j.peer /\ x.saved = j.saved
    BY <1>1 DEF Activities
  <1> HIDE DEF x
  <1>. QED  BY <1>1, <1>2, <1>3, <1>4, JoinedStep

\* A name, an event in Error, and a round that cannot begin.
LEMMA OtherEvents ==
    ASSUME IInv, NEW d \in Devices, queue[d].events # <<>>, ~Busy(d), On(d), UNCHANGED <<stats, used>>,
           \/ (Ignore(d) \/ HandleName(d, Event(d))) /\ UNCHANGED base
           \/ /\ JoinFails(d, Event(d).from)
              /\ base' = IF InRound(d) THEN base ELSE [base EXCEPT ![d] = stats]
    PROVE  Moves(d)
  <1>1. Silent(Rest(d)) /\ UNCHANGED <<storing, record, part>>
    BY DEF Ignore, HandleName, JoinFails, fileVars
  <1>2. queue' \in [Devices -> Bounded] /\ losses' \in 0 .. MaxLosses /\ SendsOwn(d)
    BY <1>1, TakenSilently
  <1>3. /\ base'[d] = base[d] \/ base'[d] = stats
        /\ \A c \in Devices \ {d} : base'[c] = base[c]
        /\ base' \in [Devices -> [Devices -> Versions]]
        /\ faults' \in 0 .. MaxFaults /\ faults' >= faults
    <2>1. faults' = faults \/ (faults < MaxFaults /\ faults' = faults + 1)
      <3>1. CASE Ignore(d) \/ HandleName(d, Event(d))
        BY <3>1 DEF Ignore, HandleName
      <3>2. CASE JoinFails(d, Event(d).from)
        BY <3>2 DEF JoinFails
      <3>. QED  BY <3>1, <3>2
    <2>2. faults' \in 0 .. MaxFaults /\ faults' >= faults
      BY <2>1, TypeFacts DEF IInv
    <2>3. base' = base \/ base' = [base EXCEPT ![d] = stats]
      OBVIOUS
    <2>4. stats \in [Devices -> Versions] /\ base \in [Devices -> [Devices -> Versions]]
      BY TypeFacts DEF IInv
    <2>5. CASE base' = base
      BY <2>2, <2>4, <2>5
    <2>6. CASE base' = [base EXCEPT ![d] = stats]
      BY <2>2, <2>4, <2>6
    <2>. QED  BY <2>3, <2>5, <2>6
  <1>4. OwnRecords(d)
    BY <1>1, <1>3, RecordsStay
  <1>5. PICK x \in Activities :
          /\ dev' = [dev EXCEPT ![d] = x]
          /\ x.state # "Away" /\ x.peer # d /\ (x.ready => x.local = stats[d])
          /\ \/ /\ x.saved = dev[d].saved /\ x.acked = dev[d].acked /\ x.state = dev[d].state
                /\ base'[d] = base[d]
             \/ ~x.saved /\ ~x.acked /\ x.state = "Error"
    <2>1. CASE Ignore(d) /\ UNCHANGED base
      <3>1. dev' = [dev EXCEPT ![d] = dev[d]]
        BY <2>1, TypeFacts DEF IInv, Ignore
      <3>. QED  BY <2>1, <3>1, OwnBefore DEF On
    <2>2. CASE HandleName(d, Event(d)) /\ UNCHANGED base
      <3> DEFINE x == [dev[d] EXCEPT !.peer = IF @ = NoPeer THEN Event(d).from ELSE @]
      <3>1. /\ x \in Activities /\ x.state = dev[d].state /\ x.ready = dev[d].ready
            /\ x.local = dev[d].local /\ x.saved = dev[d].saved /\ x.acked = dev[d].acked
            /\ x.peer \in {dev[d].peer, Event(d).from}
        BY OwnBefore, EventIs DEF Activities
      <3>2. dev' = [dev EXCEPT ![d] = x]
        BY <2>2, TypeFacts DEF IInv, HandleName
      <3> HIDE DEF x
      <3>3. /\ x.state # "Away" /\ x.peer # d /\ (x.ready => x.local = stats[d])
            /\ base'[d] = base[d]
        BY <2>2, <3>1, OwnBefore, EventIs DEF On
      <3>. QED  BY <3>1, <3>2, <3>3
    <2>3. CASE JoinFails(d, Event(d).from)
      <3> DEFINE k == PassiveRound(dev[d])
                 x == [k EXCEPT !.seen = TRUE, !.peer = Event(d).from, !.state = "Error"]
      <3>1. k \in Activities /\ ~k.saved /\ ~k.acked /\ ~k.ready
        BY OwnBefore, PassiveIs
      <3>2. dev' = [dev EXCEPT ![d] = x]
        BY <2>3, TypeFacts DEF IInv, JoinFails
      <3> HIDE DEF k
      <3>3. /\ x \in Activities /\ ~x.saved /\ ~x.acked /\ ~x.ready /\ x.state = "Error"
            /\ x.peer = Event(d).from
        BY <3>1, EventIs DEF Activities, States
      <3> HIDE DEF x
      <3>. QED  BY <3>2, <3>3, EventIs
    <2>. QED  BY <2>1, <2>2, <2>3
  <1>6. dev'[d] = x /\ dev' \in [Devices -> Activities]
    BY <1>5, TypeFacts DEF IInv
  <1>7. TypeOK' /\ QueuesOK'
    BY <1>1, <1>2, <1>3, <1>6, TypesAfter, TypeFacts DEF IInv
  <1>8. Alone(d)
    BY <1>1, <1>3, <1>5, TypeFacts DEF IInv, Alone
  <1>9. OwnState(d)
    BY <1>1, <1>5, <1>6 DEF OwnState, On, Busy
  <1>10. OwnNotes(d)
    BY <1>3, <1>5, <1>6, NotesKept, NothingNoted
  <1>. QED  BY <1>2, <1>3, <1>4, <1>7, <1>8, <1>9, <1>10 DEF Moves

LEMMA EventStep ==
    ASSUME IInv, NEW d \in Devices, HandleEvent(d)
    PROVE  Moves(d)
  <1>1. queue[d].events # <<>> /\ ~Busy(d) /\ On(d) /\ UNCHANGED <<stats, used>>
    BY DEF HandleEvent
  <1>2. \/ (Ignore(d) \/ HandleName(d, Event(d))) /\ UNCHANGED base
        \/ /\ base' = IF InRound(d) THEN base ELSE [base EXCEPT ![d] = stats]
           /\ \/ HandleHello(d, Event(d))
              \/ Event(d).type = "Stats" /\ HandleStats(d, Event(d))
              \/ Event(d).type = "Ack" /\ HandleAck(d, Event(d))
              \/ JoinFails(d, Event(d).from)
    BY DEF HandleEvent, Event
  <1>. QED  BY <1>1, <1>2, HelloStep, StatsStep, AckStep, OtherEvents

-----------------------------------------------------------------------------
(* Storing a record, and sending again.                                    *)

LEMMA BusyIs ==
    ASSUME IInv, NEW d \in Devices, Busy(d)
    PROVE  /\ On(d) /\ dev[d].ready
           /\ storing[d].packet \in Packets /\ Sender(d) \in Devices /\ Sender(d) # d
           /\ storing[d].packet.stats = stats[Sender(d)]
           /\ storing[d].packet.stats \in Versions
  <1>1. storing[d].packet \in Packets /\ stats[d] \in Versions
    BY TypeFacts DEF IInv
  <1>2. On(d)
    BY DEF IInv, Current, ClosedIsEmpty
  <1>. QED  BY <1>1, <1>2, OwnBefore DEF Sender, Packets

\* A step that goes on to the next.
LEMMA GoStep ==
    ASSUME IInv, NEW d \in Devices, Busy(d), NEW step \in Steps \ {"none"}, Go(d, step),
           ~Storing(d, "rename"),
           record' = IF step = "rename" THEN [record EXCEPT ![d][Sender(d)] = None] ELSE record,
           part' \in [Devices -> [Devices -> Files]]
    PROVE  Moves(d)
  <1>1. /\ storing' = [storing EXCEPT ![d].step = step]
        /\ UNCHANGED <<dev, queue, stats, used, losses, faults, base>>
    BY DEF Go
  <1>2. /\ storing' \in [Devices -> [step : Steps, packet : Packets]]
        /\ storing'[d].step = step /\ storing'[d].packet = storing[d].packet
        /\ \A c \in Devices \ {d} : storing'[c] = storing[c]
    <2>1. storing'[d] = [storing[d] EXCEPT !.step = step]
      BY <1>1, TypeFacts DEF IInv
    <2>2. storing'[d].step = step /\ storing'[d].packet = storing[d].packet
          /\ storing'[d] \in [step : Steps, packet : Packets]
      BY <2>1, TypeFacts DEF IInv
    <2>. QED  BY <1>1, <2>2, TypeFacts DEF IInv
  <1>3. /\ record' \in [Devices -> [Devices -> Versions \cup {None}]]
        /\ \A c \in Devices \ {d} : record'[c] = record[c]
        /\ \A p \in Devices : \/ record'[d][p] = record[d][p]
                              \/ record'[d][p] = None /\ step = "rename" /\ p = Sender(d)
    <2>1. CASE step = "rename"
      BY <2>1, BusyIs, TypeFacts DEF IInv
    <2>2. CASE step # "rename"
      BY <2>2, TypeFacts DEF IInv
    <2>. QED  BY <2>1, <2>2
  <1>4. TypeOK' /\ QueuesOK'
    BY <1>1, <1>2, <1>3, TypesAfter, TypeFacts DEF IInv
  <1>5. Alone(d) /\ SendsOwn(d)
    BY <1>1, <1>2, <1>3 DEF Alone, SendsOwn
  <1>6. OwnState(d)
    BY <1>1, <1>2, BusyIs, OwnBefore DEF OwnState, On
  <1>7. OwnRecords(d)
    <2>1. \A p \in Devices : record'[d][p] <= stats[p]
      <3>1. \A p \in Devices : record[d][p] <= stats[p] /\ None <= stats[p]
        BY TypeFacts DEF IInv, Current, NobodyAhead, None, Versions
      <3>. QED  BY <1>3, <3>1
    <2>2. ASSUME NEW p \in Devices
          PROVE  Held(d, p)' = Held(d, p) \/ Held(d, p)' = stats[p]
      <3>1. Held(d, p) = record[d][p]
        BY DEF Held
      <3>2. Held(d, p)' = IF step = "rename" /\ Sender(d) = p THEN storing[d].packet.stats
                                                             ELSE record'[d][p]
        BY <1>2 DEF Held, Storing, Sender
      <3>. QED  BY <1>3, <3>1, <3>2, BusyIs
    <2>. QED  BY <1>1, <2>1, <2>2 DEF OwnRecords
  <1>8. OwnNotes(d)
    BY <1>1, NotesKept, TypeFacts DEF IInv
  <1>. QED  BY <1>1, <1>4, <1>5, <1>6, <1>7, <1>8, TypeFacts DEF Moves, IInv

LEMMA WritingSteps ==
    ASSUME IInv, NEW d \in Devices, OpenPart(d) \/ WritePart(d) \/ RemoveRecord(d)
    PROVE  Moves(d)
  <1>1. Busy(d) /\ ~Storing(d, "rename")
    BY DEF OpenPart, WritePart, RemoveRecord, Storing, Busy
  <1>2. /\ Torn \in Files /\ storing[d].packet.stats \in Files
        /\ part \in [Devices -> [Devices -> Files]]
    BY <1>1, BusyIs, TypeFacts DEF IInv, Files
  <1>3. CASE OpenPart(d)
    <2>1. part' \in [Devices -> [Devices -> Files]] /\ Go(d, "write") /\ record' = record
      BY <1>2, <1>3 DEF OpenPart
    <2>. QED  BY <1>1, <2>1, GoStep DEF Steps
  <1>4. CASE WritePart(d)
    <2>1. part' \in [Devices -> [Devices -> Files]] /\ Go(d, "remove") /\ record' = record
      BY <1>2, <1>4 DEF WritePart
    <2>. QED  BY <1>1, <2>1, GoStep DEF Steps
  <1>5. CASE RemoveRecord(d)
    <2>1. /\ part' \in [Devices -> [Devices -> Files]] /\ Go(d, "rename")
          /\ record' = [record EXCEPT ![d][Sender(d)] = None]
      BY <1>2, <1>5 DEF RemoveRecord
    <2>. QED  BY <1>1, <2>1, GoStep DEF Steps
  <1>. QED  BY <1>3, <1>4, <1>5

\* The record is in place and acknowledged, perhaps answered.
LEMMA RenameStep ==
    ASSUME IInv, NEW d \in Devices, Rename(d)
    PROVE  Moves(d)
  <1> DEFINE p == Sender(d)
             v == storing[d].packet.stats
             answers == AnswersWithStats(dev[d])
             ps == <<Ack(d)>> \o IF answers THEN LocalStats(d, dev[d].local) ELSE <<>>
  <1>1. Storing(d, "rename") /\ Busy(d)
    BY DEF Rename, Storing, Busy
  <1>2. /\ On(d) /\ dev[d].ready /\ p \in Devices \ {d} /\ v = stats[p] /\ v \in Versions
        /\ dev[d] \in Activities /\ dev[d].local = stats[d] /\ dev[d].peer # d
        /\ stats[d] \in Versions
    BY <1>1, BusyIs, OwnBefore
  <1>3. /\ record' = [record EXCEPT ![d][p] = v] /\ part' = [part EXCEPT ![d][p] = None]
        /\ storing' = [storing EXCEPT ![d] = NotStoring(d)]
        /\ UNCHANGED <<stats, used, faults, base>>
        /\ Send(queue, {p}, ps)
    BY DEF Rename
  <1>4. PICK ok \in BOOLEAN :
          dev' = [dev EXCEPT ![d].saved = TRUE, ![d].sent = IF answers THEN ok ELSE @]
    BY DEF Rename
  <1>5. ps \in Seq(Packets) /\ Elements(ps) \subseteq {Ack(d), Name(d), Stats(d, stats[d])}
    BY <1>2, OwnPackets
  <1> HIDE DEF p, v, answers, ps
  <1>6. /\ record'[d] = [record[d] EXCEPT ![p] = v] /\ storing'[d].step = "none"
        /\ record' \in [Devices -> [Devices -> Versions \cup {None}]]
        /\ part' \in [Devices -> [Devices -> Files]]
        /\ storing' \in [Devices -> [step : Steps, packet : Packets]]
        /\ \A c \in Devices \ {d} : record'[c] = record[c] /\ storing'[c] = storing[c]
    BY <1>2, <1>3, AwayTyped, TypeFacts DEF IInv, Files
  <1>7. ASSUME NEW c \in Devices
        PROVE  /\ Held(d, c)' = IF c = p THEN stats[p] ELSE record[d][c]
               /\ Held(d, c) = IF c = p THEN stats[p] ELSE record[d][c]
    <2>1. Held(d, c)' = record'[d][c]
      BY <1>6 DEF Held, Storing
    <2>2. Held(d, c) = IF c = p THEN v ELSE record[d][c]
      BY <1>1 DEF Held, p, v
    <2>. QED  BY <1>2, <1>6, <2>1, <2>2, TypeFacts DEF IInv
  <1>8. queue' \in [Devices -> Bounded] /\ losses' \in 0 .. MaxLosses /\ SendsOwn(d)
    <2>1. \A e \in Elements(ps), c \in {p} : New(d, c, e)
      BY <1>2, <1>5, <1>7 DEF New, Ack, Name, Stats
    <2>2. {p} \in SUBSET (Devices \ {d})
      BY <1>2
    <2>. QED  BY <1>3, <1>5, <2>1, <2>2, SentNow
  <1>9. PICK b \in BOOLEAN : dev'[d] = [dev[d] EXCEPT !.saved = TRUE, !.sent = b]
    <2>1. /\ dev'[d] = [dev[d] EXCEPT !.saved = TRUE, !.sent = IF answers THEN ok ELSE @]
          /\ dev[d].sent \in BOOLEAN
      BY <1>4, <1>2, TypeFacts DEF IInv, Activities
    <2>. QED  BY <2>1
  <1>10. /\ dev'[d] \in Activities /\ dev'[d].saved /\ dev'[d].ready
         /\ dev'[d].acked = dev[d].acked /\ dev'[d].state = dev[d].state
         /\ dev'[d].local = dev[d].local /\ dev'[d].peer = dev[d].peer
    BY <1>2, <1>9 DEF Activities
  <1>11. dev' \in [Devices -> Activities] /\ \A c \in Devices \ {d} : dev'[c] = dev[c]
    BY <1>4, <1>10, TypeFacts DEF IInv
  <1>12. TypeOK' /\ QueuesOK'
    BY <1>3, <1>6, <1>8, <1>11, TypesAfter, TypeFacts DEF IInv
  <1>13. Alone(d)
    BY <1>3, <1>6, <1>11 DEF Alone
  <1>14. OwnState(d)
    BY <1>2, <1>6, <1>10 DEF OwnState, On, Busy
  <1>15. OwnRecords(d)
    <2>1. \A c \in Devices : record[d][c] <= stats[c] /\ stats[c] <= stats[c]
      BY TypeFacts DEF IInv, Current, NobodyAhead, Versions
    <2>2. \A c \in Devices : record'[d][c] <= stats[c]
      BY <1>2, <1>6, <2>1, TypeFacts DEF IInv
    <2>. QED  BY <1>3, <1>7, <2>2 DEF OwnRecords
  <1>16. OwnNotes(d)
    <2>1. PICK q \in Devices \ {d} : q = p
      BY <1>2
    <2>2. Held(d, q)' = stats[q]
      BY <1>7, <2>1
    <2>3. faults' = 0 /\ dev'[d].state = "Synced" => dev'[d].acked
      BY <1>3, <1>10 DEF IInv, NotesAreTrue
    <2>. QED  BY <1>10, <2>2, <2>3 DEF OwnNotes
  <1>. QED  BY <1>3, <1>8, <1>12, <1>13, <1>14, <1>15, <1>16, TypeFacts DEF Moves, IInv

LEMMA StoreFailsStep ==
    ASSUME IInv, NEW d \in Devices, StoreFails(d)
    PROVE  Moves(d)
  <1>1. /\ Busy(d) /\ faults < MaxFaults /\ faults' = faults + 1
        /\ part' = [part EXCEPT ![d][Sender(d)] = None]
        /\ storing' = [storing EXCEPT ![d] = NotStoring(d)]
        /\ dev' = [dev EXCEPT ![d].state = "Error"]
        /\ UNCHANGED <<queue, record, stats, used, losses, base>>
    BY DEF StoreFails
  <1>2. /\ dev'[d] = [dev[d] EXCEPT !.state = "Error"] /\ storing'[d].step = "none"
        /\ storing' \in [Devices -> [step : Steps, packet : Packets]]
        /\ part' \in [Devices -> [Devices -> Files]]
        /\ faults' \in 0 .. MaxFaults /\ faults' > faults
    BY <1>1, BusyIs, AwayTyped, TypeFacts DEF IInv, Files
  <1>3. /\ dev'[d] \in Activities /\ dev'[d].state = "Error" /\ dev'[d].ready = dev[d].ready
        /\ dev'[d].local = dev[d].local /\ dev'[d].peer = dev[d].peer
        /\ dev'[d].saved = dev[d].saved /\ dev'[d].acked = dev[d].acked
    <2>1. dev[d] \in Activities /\ "Error" \in States
      BY OwnBefore DEF States
    <2>. QED  BY <1>2, <2>1 DEF Activities
  <1>4. dev' \in [Devices -> Activities]
    BY <1>1, <1>3, TypeFacts DEF IInv
  <1>5. TypeOK' /\ QueuesOK'
    BY <1>1, <1>2, <1>4, TypesAfter, TypeFacts DEF IInv
  <1>6. Alone(d) /\ SendsOwn(d)
    BY <1>1, TypeFacts DEF IInv, Alone, SendsOwn
  <1>7. OwnState(d)
    BY <1>2, <1>3, OwnBefore DEF OwnState, On, Busy
  <1>8. OwnRecords(d)
    BY <1>1, <1>2, RecordsStay, TypeFacts DEF IInv
  <1>9. OwnNotes(d)
    <2>1. faults' # 0
      BY <1>2, TypeFacts DEF IInv
    <2>. QED  BY <2>1 DEF OwnNotes
  <1>. QED  BY <1>1, <1>2, <1>5, <1>6, <1>7, <1>8, <1>9, TypeFacts DEF Moves, IInv

LEMMA ResendStep ==
    ASSUME IInv, NEW d \in Devices, Resend(d)
    PROVE  Moves(d)
  <1>1. /\ On(d) /\ ~Busy(d) /\ UNCHANGED <<storing, record, part, stats, faults, base>>
        /\ used' \in [opens : 0 .. MaxOpens, syncs : 0 .. MaxSyncs, resends : 0 .. MaxResends]
    <2>1. On(d) /\ ~Busy(d) /\ UNCHANGED <<storing, record, part, stats, faults, base>>
      BY DEF Resend, Updating, InRound, On, fileVars
    <2>. QED  BY <2>1, UsedOnce DEF IInv, Resend
  <1>2. dev[d].state # "Synced"
    BY DEF Resend, Updating, InRound
  <1>3. /\ queue' \in [Devices -> Bounded] /\ losses' \in 0 .. MaxLosses /\ SendsOwn(d)
        /\ \E ok \in BOOLEAN : dev' = [dev EXCEPT ![d].sent = ok]
    <2>1. CASE Send(queue, Devices \ {d}, <<Hello(d)>>) /\ UNCHANGED dev
      <3>1. <<Hello(d)>> \in Seq(Packets) /\ Elements(<<Hello(d)>>) = {Hello(d)}
        BY OwnPackets, OwnBefore
      <3>2. \A e \in Elements(<<Hello(d)>>), c \in Devices \ {d} : New(d, c, e)
        BY <3>1 DEF New, Hello
      <3>3. queue' \in [Devices -> Bounded] /\ losses' \in 0 .. MaxLosses /\ SendsOwn(d)
        BY <2>1, <3>1, <3>2, SentNow
      <3>4. dev' = [dev EXCEPT ![d].sent = dev[d].sent] /\ dev[d].sent \in BOOLEAN
        BY <2>1, OwnBefore, TypeFacts DEF IInv, Activities
      <3>. QED  BY <3>3, <3>4
    <2>2. CASE /\ dev[d].ready
               /\ Send(queue, {dev[d].peer}, LocalStats(d, dev[d].local))
               /\ \E ok \in BOOLEAN : dev' = [dev EXCEPT ![d].sent = ok]
      <3> DEFINE ps == LocalStats(d, dev[d].local)
                 to == {dev[d].peer} \cap Devices
      <3>1. ps \in Seq(Packets) /\ Elements(ps) = {Name(d), Stats(d, stats[d])}
        <4>1. dev[d].local = stats[d] /\ stats[d] \in Versions
          BY <2>2, OwnBefore
        <4>. QED  BY <4>1, OwnPackets
      <3>2. to \in SUBSET (Devices \ {d})
        BY OwnBefore
      <3>3. \A e \in Elements(ps), c \in to : New(d, c, e)
        BY <3>1, <3>2 DEF New, Name, Stats
      <3>4. Send(queue, to, ps)
        BY <2>2 DEF Send
      <3> HIDE DEF ps, to
      <3>5. queue' \in [Devices -> Bounded] /\ losses' \in 0 .. MaxLosses /\ SendsOwn(d)
        BY <3>1, <3>2, <3>3, <3>4, SentNow
      <3>. QED  BY <2>2, <3>5
    <2>. QED  BY <2>1, <2>2 DEF Resend
  <1>4. PICK ok \in BOOLEAN : dev' = [dev EXCEPT ![d].sent = ok]
    BY <1>3
  <1>5. /\ dev'[d] = [dev[d] EXCEPT !.sent = ok] /\ dev[d] \in Activities
    BY <1>4, TypeFacts DEF IInv
  <1>6. /\ dev'[d] \in Activities /\ dev'[d].state = dev[d].state /\ dev'[d].ready = dev[d].ready
        /\ dev'[d].local = dev[d].local /\ dev'[d].peer = dev[d].peer
        /\ dev'[d].saved = dev[d].saved /\ dev'[d].acked = dev[d].acked
    BY <1>5 DEF Activities
  <1>7. dev' \in [Devices -> Activities] /\ \A c \in Devices \ {d} : dev'[c] = dev[c]
    BY <1>4, <1>6, TypeFacts DEF IInv
  <1>8. TypeOK' /\ QueuesOK'
    BY <1>1, <1>3, <1>7, TypesAfter, TypeFacts DEF IInv
  <1>9. Alone(d)
    BY <1>1, <1>7 DEF Alone
  <1>10. OwnState(d)
    BY <1>1, <1>6, OwnBefore DEF OwnState, On, Busy
  <1>11. OwnRecords(d)
    BY <1>1, RecordsStay
  <1>12. OwnNotes(d)
    BY <1>1, <1>2, <1>6, NotesKept, TypeFacts DEF IInv
  <1>. QED  BY <1>1, <1>3, <1>8, <1>9, <1>10, <1>11, <1>12, TypeFacts DEF Moves, IInv

-----------------------------------------------------------------------------
(* The steps together.                                                     *)

\* What is held is at most what there is.
LEMMA HeldIsBounded ==
    ASSUME IInv, NEW d \in Devices, NEW p \in Devices
    PROVE  Held(d, p) <= stats[p] /\ Held(d, p) \in Int /\ stats[p] \in Int
  <1>1. /\ record[d][p] <= stats[p] /\ record[d][p] \in Int
        /\ stats[p] \in Int /\ stats[p] <= stats[p]
    BY TypeFacts DEF IInv, Current, NobodyAhead, Versions, None
  <1>2. Storing(d, "rename") => storing[d].packet.stats = stats[Sender(d)]
    BY BusyIs DEF Busy, Storing
  <1>. QED  BY <1>1, <1>2 DEF Held

\* A step without a fault replaces what is held by what there is, if at all.
LEMMA HeldAfter ==
    ASSUME IInv, NEW d \in Devices, Moves(d), faults' = faults, NEW c \in Devices, NEW p \in Devices
    PROVE  Held(c, p)' = Held(c, p) \/ Held(c, p)' = stats[p]
  <1>1. CASE c = d
    BY <1>1 DEF Moves, OwnRecords
  <1>2. CASE c # d
    BY <1>2 DEF Moves, Alone, Held, Storing, Sender
  <1>. QED  BY <1>1, <1>2

LEMMA MovesKeep ==
    ASSUME IInv, NEW d \in Devices, Moves(d)
    PROVE  IInv'
  <1>1. TypeOK' /\ QueuesOK' /\ stats' = stats
    BY DEF Moves
  <1>2. ClosedIsEmpty'
    BY DEF IInv, Current, ClosedIsEmpty, Moves, Alone, SendsOwn, OwnState, On, Busy
  <1>3. PreparedIsCurrent'
    BY <1>1 DEF IInv, Current, PreparedIsCurrent, Moves, Alone, OwnState
  <1>4. SentIsCurrent'
    <2>1. ASSUME NEW c \in Devices, NEW e \in In(queue'[c])
          PROVE  e.from # c /\ (e.type = "Stats" => e.stats = stats[e.from])
      BY DEF IInv, Current, SentIsCurrent, Moves, SendsOwn, New
    <2>2. ASSUME NEW c \in Devices, Busy(c)'
          PROVE  /\ storing'[c].packet.from # c
                 /\ storing'[c].packet.stats = stats[storing'[c].packet.from]
                 /\ dev'[c].ready
      BY <2>2 DEF IInv, Current, SentIsCurrent, Moves, Alone, OwnState, Busy
    <2>3. \A c \in Devices : In(queue[c])' = In(queue'[c])
      BY DEF In
    <2>. QED  BY <1>1, <2>1, <2>2, <2>3 DEF SentIsCurrent
  <1>5. NobodyAhead'
    <2>1. \A c, p \in Devices : stats[c] \in Versions /\ stats[p] <= stats[p]
      BY TypeFacts DEF IInv, Versions
    <2>2. ASSUME NEW c \in Devices, NEW p \in Devices
          PROVE  record'[c][p] <= stats[p] /\ base'[c][p] <= stats[p]
      <3>1. record[c][p] <= stats[p] /\ base[c][p] <= stats[p]
        BY DEF IInv, Current, NobodyAhead
      <3>2. CASE c = d
        BY <2>1, <3>1, <3>2 DEF Moves, OwnRecords
      <3>3. CASE c # d
        BY <3>1, <3>3 DEF Moves, Alone
      <3>. QED  BY <3>2, <3>3
    <2>. QED  BY <1>1, <2>2 DEF NobodyAhead
  <1>6. faults' = 0 => faults = 0
    BY TypeFacts DEF IInv, Moves
  <1>7. AcksAreTrue'
    <2>1. SUFFICES ASSUME faults' = 0, NEW c \in Devices, NEW e \in In(queue'[c]), e.type = "Ack"
                   PROVE  Held(e.from, c)' = stats[c]
      BY <1>1 DEF AcksAreTrue, In
    <2>2. CASE e \in In(queue[c])
      <3>1. e.from \in Devices /\ Held(e.from, c) = stats[c]
        <4>1. In(queue[c]) \subseteq Packets
          BY ElementOfSeq, LenProperties, TypeFacts DEF IInv, In, Bounded, Queues
        <4>. QED  BY <1>6, <2>1, <2>2, <4>1 DEF IInv, AcksAreTrue, Packets
      <3>. QED  BY <1>6, <2>1, <3>1, HeldAfter
    <2>3. CASE New(d, c, e)
      BY <2>1, <2>3 DEF New
    <2>. QED  BY <2>1, <2>2, <2>3 DEF Moves, SendsOwn
  <1>8. NotesAreTrue'
    <2>1. SUFFICES ASSUME faults' = 0, NEW c \in Devices
                   PROVE  /\ dev'[c].saved => \E p \in Devices \ {c} : Held(c, p)' >= base'[c][p]
                          /\ dev'[c].acked => \E p \in Devices \ {c} : Held(p, c)' = stats[c]
                          /\ dev'[c].state = "Synced" => dev'[c].saved /\ dev'[c].acked
      BY <1>1 DEF NotesAreTrue
    <2>2. /\ dev[c].saved => \E p \in Devices \ {c} : Held(c, p) >= base[c][p]
          /\ dev[c].acked => \E p \in Devices \ {c} : Held(p, c) = stats[c]
          /\ dev[c].state = "Synced" => dev[c].saved /\ dev[c].acked
          /\ faults' = faults
      BY <1>6, <2>1 DEF IInv, NotesAreTrue
    <2>3. ASSUME NEW p \in Devices
          PROVE  /\ Held(c, p)' = Held(c, p) \/ Held(c, p)' = stats[p]
                 /\ Held(p, c)' = Held(p, c) \/ Held(p, c)' = stats[c]
      BY <2>2, HeldAfter
    <2>4. ASSUME NEW p \in Devices
          PROVE  base[c][p] <= stats[p] /\ base'[c][p] <= stats[p]
      BY <1>1, <1>5 DEF IInv, Current, NobodyAhead
    <2>5. ASSUME dev[c].saved, base'[c] = base[c]
          PROVE  \E p \in Devices \ {c} : Held(c, p)' >= base'[c][p]
      <3>1. PICK p \in Devices \ {c} : Held(c, p) >= base[c][p]
        BY <2>2, <2>5
      <3>2. base[c][p] \in Int /\ stats[p] \in Int
        BY TypeFacts DEF IInv, Versions
      <3>. QED  BY <2>3, <2>4, <2>5, <3>1, <3>2
    <2>6. ASSUME dev[c].acked
          PROVE  \E p \in Devices \ {c} : Held(p, c)' = stats[c]
      BY <2>2, <2>3, <2>6
    <2>7. CASE c # d
      BY <2>2, <2>5, <2>6, <2>7 DEF Moves, Alone
    <2>8. CASE c = d
      <3>1. ASSUME dev'[c].saved
            PROVE  \E p \in Devices \ {c} : Held(c, p)' >= base'[c][p]
        <4>1. CASE dev[c].saved /\ base'[c] = base[c]
          BY <4>1, <2>5
        <4>2. CASE \E p \in Devices \ {c} : Held(c, p)' = stats[p]
          <5>1. PICK p \in Devices \ {c} : Held(c, p)' = stats[p]
            BY <4>2
          <5>2. base'[c][p] \in Int /\ stats[p] \in Int
            BY <1>1, TypeFacts DEF IInv, TypeOK, Versions
          <5>. QED  BY <2>4, <5>1, <5>2
        <4>. QED  BY <2>1, <2>8, <3>1, <4>1, <4>2 DEF Moves, OwnNotes
      <3>2. ASSUME dev'[c].acked
            PROVE  \E p \in Devices \ {c} : Held(p, c)' = stats[c]
        <4>1. CASE dev[c].acked
          BY <2>6, <4>1
        <4>2. CASE \E e \in In(queue[c]) : e.type = "Ack"
          <5>1. PICK e \in In(queue[c]) : e.type = "Ack"
            BY <4>2
          <5>2. In(queue[c]) \subseteq Packets
            BY ElementOfSeq, LenProperties, TypeFacts DEF IInv, In, Bounded, Queues
          <5>3. e.from \in Devices \ {c} /\ Held(e.from, c) = stats[c]
            BY <1>6, <2>1, <5>1, <5>2 DEF IInv, Current, SentIsCurrent, AcksAreTrue, Packets
          <5>. QED  BY <2>3, <5>3
        <4>. QED  BY <2>1, <2>8, <3>2, <4>1, <4>2 DEF Moves, OwnNotes
      <3>. QED  BY <2>1, <2>8, <3>1, <3>2 DEF Moves, OwnNotes
    <2>. QED  BY <2>7, <2>8
  <1>. QED  BY <1>1, <1>2, <1>3, <1>4, <1>5, <1>7, <1>8 DEF IInv, Current

\* A book is read while nothing is on the way.
LEMMA ReadStep ==
    ASSUME IInv, NEW d \in Devices, Read(d)
    PROVE  IInv' /\ \A c, p \in Devices : Held(c, p)' = Held(c, p)
  <1>1. /\ UNCHANGED <<dev, queue, storing, record, part, used, losses, faults, base>>
        /\ stats' = [stats EXCEPT ![d] = @ + 1] /\ stats[d] < MaxStats
        /\ \A e \in Devices : queue[e] = Empty /\ ~Busy(e)
        /\ dev[d] = Away
    BY DEF Read, fileVars, IInv, Current, ClosedIsEmpty
  <1>2. /\ stats' \in [Devices -> Versions]
        /\ \A p \in Devices : stats[p] <= stats'[p] /\ stats[p] \in Int /\ stats'[p] \in Int
        /\ \A p \in Devices \ {d} : stats'[p] = stats[p]
    BY <1>1, TypeFacts DEF IInv, Versions
  <1>3. TypeOK' /\ QueuesOK'
    BY <1>1, <1>2, TypesAfter, TypeFacts DEF IInv
  <1>4. \A e \in Devices : In(queue'[e]) = {} /\ storing[e].step = "none"
    BY <1>1, EmptyIsBounded DEF Busy
  <1>5. ClosedIsEmpty'
    BY <1>1 DEF IInv, Current, ClosedIsEmpty, On, Busy
  <1>6. PreparedIsCurrent'
    BY <1>1, <1>2 DEF IInv, Current, PreparedIsCurrent, Away
  <1>7. SentIsCurrent'
    BY <1>1, <1>4 DEF SentIsCurrent, Busy, In
  <1>8. NobodyAhead'
    <2>1. \A c, p \in Devices : record[c][p] \in Int /\ base[c][p] \in Int
      BY TypeFacts DEF IInv, Versions, None
    <2>. QED  BY <1>1, <1>2, <2>1 DEF IInv, Current, NobodyAhead
  <1>9. \A c, p \in Devices : Held(c, p)' = Held(c, p)
    BY <1>1 DEF Held, Storing, Sender
  <1>10. AcksAreTrue'
    BY <1>4 DEF AcksAreTrue, In
  <1>11. NotesAreTrue'
    <2>1. ~dev[d].acked /\ ~dev[d].saved /\ dev[d].state # "Synced"
      BY <1>1 DEF Away
    <2>. QED  BY <1>1, <1>2, <1>9, <2>1 DEF IInv, NotesAreTrue
  <1>. QED  BY <1>3, <1>5, <1>6, <1>7, <1>8, <1>9, <1>10, <1>11 DEF IInv, Current

LEMMA StepMoves ==
    ASSUME IInv, Next
    PROVE  \E d \in Devices : Moves(d) \/ Read(d)
  <1>1. PICK d \in Devices :
            \/ OpenScreen(d) \/ LeaveScreen(d) \/ PowerLoss(d) \/ Read(d) \/ StartSync(d)
            \/ Overflow(d) \/ HandleEvent(d) \/ Store(d)
            \/ TimeOut(d) \/ BecomeSynced(d) \/ Resend(d)
    BY DEF Next
  <1>2. CASE Store(d)
    BY <1>2, WritingSteps, RenameStep, StoreFailsStep DEF Store
  <1>. QED
    BY <1>1, <1>2, QuietSteps, ClosingSteps, StartSyncStep, OverflowStep, EventStep, ResendStep

LEMMA InitInvariant == Init => IInv
  <1> SUFFICES ASSUME Init PROVE IInv
    OBVIOUS
  <1>1. /\ 0 \in Versions /\ 0 \in 0 .. MaxOpens /\ 0 \in 0 .. MaxSyncs /\ 0 \in 0 .. MaxResends
        /\ 0 \in 0 .. MaxLosses /\ 0 \in 0 .. MaxFaults
    BY SyncAssumption DEF Versions
  <1>2. /\ dev = [d \in Devices |-> Away] /\ queue = [d \in Devices |-> Empty]
        /\ storing = [d \in Devices |-> NotStoring(d)]
        /\ record = [d \in Devices |-> [p \in Devices |-> None]] /\ part = record
        /\ stats = [d \in Devices |-> 0] /\ base = [d \in Devices |-> stats]
        /\ used = [opens |-> 0, syncs |-> 0, resends |-> 0] /\ losses = 0 /\ faults = 0
    BY DEF Init
  <1>3. Away \in Activities
    BY <1>1 DEF Away, Activities, States
  <1>4. \A d \in Devices : NotStoring(d) \in [step : Steps, packet : Packets] /\ ~Busy(d)
    BY <1>1, <1>2 DEF NotStoring, Steps, Packets, Types, Busy
  <1>5. TypeOK /\ QueuesOK
    <2>1. queue \in [Devices -> Bounded]
      BY <1>2, EmptyIsBounded
    <2>2. /\ dev \in [Devices -> Activities]
          /\ storing \in [Devices -> [step : Steps, packet : Packets]]
      BY <1>2, <1>3, <1>4
    <2>3. /\ record \in [Devices -> [Devices -> Versions \cup {None}]]
          /\ part \in [Devices -> [Devices -> Files]]
      BY <1>2 DEF Files
    <2>4. /\ stats \in [Devices -> Versions] /\ base \in [Devices -> [Devices -> Versions]]
      BY <1>1, <1>2
    <2>5. used \in [opens : 0 .. MaxOpens, syncs : 0 .. MaxSyncs, resends : 0 .. MaxResends]
      BY <1>1, <1>2
    <2>. QED
      BY <1>1, <1>2, <2>1, <2>2, <2>3, <2>4, <2>5 DEF TypeOK, QueuesOK, Bounded, Queues, Activities
  <1>6. \A d \in Devices : In(queue[d]) = {}
    BY <1>2, EmptyIsBounded
  <1>7. ClosedIsEmpty /\ PreparedIsCurrent
    BY <1>2, <1>4, SyncAssumption DEF ClosedIsEmpty, PreparedIsCurrent, Away
  <1>8. SentIsCurrent /\ AcksAreTrue
    BY <1>4, <1>6 DEF SentIsCurrent, AcksAreTrue
  <1>9. NobodyAhead
    <2>1. ASSUME NEW c \in Devices, NEW p \in Devices
          PROVE  record[c][p] = None /\ base[c][p] = 0 /\ stats[p] = 0
      BY <1>2
    <2>. QED  BY <2>1 DEF NobodyAhead, None
  <1>10. NotesAreTrue
    BY <1>2 DEF NotesAreTrue, Away
  <1>. QED  BY <1>5, <1>7, <1>8, <1>9, <1>10 DEF IInv, Current

LEMMA StutterStep == IInv /\ UNCHANGED vars => IInv'
  BY DEF IInv, TypeOK, QueuesOK, Current, ClosedIsEmpty, PreparedIsCurrent, SentIsCurrent,
         NobodyAhead, AcksAreTrue, NotesAreTrue, vars, On, Busy, Held, Storing, Sender, In

LEMMA NextStep == IInv /\ Next => IInv'
  BY StepMoves, MovesKeep, ReadStep

-----------------------------------------------------------------------------
(* The theorems.                                                           *)

\* The inductive invariant holds, however many readers there are, whatever is lost, overflows,
\* fails or is switched off (NearbyStatsSyncActivity.cpp).
THEOREM Invariance == Spec => []IInv
  <1>1. IInv /\ [Next]_vars => IInv'
    BY NextStep, StutterStep
  <1>. QED  BY InitInvariant, <1>1, PTL DEF Spec

\* Every variable keeps its type: a queue that overflowed is empty and none is longer than
\* MAX_SYNC_EVENTS, and a record is a whole file at every step of writeSyncedStatsFile().
THEOREM TypeCorrect == Spec => []TypeOK
  <1>1. IInv => TypeOK
    BY DEF IInv
  <1>. QED  BY Invariance, <1>1, PTL

\* A reader that shows Synced holds the statistics of another as they were when its round
\* began, or newer, and another holds its own (updateSyncProgress()).
THEOREM SyncedMeansMutual == Spec => []SyncedIsMutual
  <1>1. IInv => SyncedIsMutual
    BY DEF IInv, NotesAreTrue, SyncedIsMutual
  <1>. QED  BY Invariance, <1>1, PTL

\* Between the removal of a record and the renaming of the new one there is none.
RemovedIsGone == \A d \in Devices : Storing(d, "rename") => record[d][Sender(d)] = None

\* The records stay, and nobody gets to the renaming of one.
CardKept ==
    /\ record' = record
    /\ \A c \in Devices : storing'[c] = storing[c] \/ storing'[c].step # "rename"

LEMMA CardSteps ==
    ASSUME IInv, Next
    PROVE  CardKept \/ \E d \in Devices : (RemoveRecord(d) \/ Rename(d)) /\ faults' = faults
  <1>1. PICK d \in Devices :
            \/ OpenScreen(d) \/ LeaveScreen(d) \/ PowerLoss(d) \/ Read(d) \/ StartSync(d)
            \/ Overflow(d) \/ HandleEvent(d) \/ Store(d)
            \/ TimeOut(d) \/ BecomeSynced(d) \/ Resend(d)
    BY DEF Next
  <1>2. storing \in [Devices -> [step : Steps, packet : Packets]] /\ NotStoring(d).step = "none"
    BY TypeFacts DEF IInv, NotStoring
  <1>3. CASE OpenScreen(d) \/ Read(d) \/ StartSync(d) \/ Overflow(d) \/ TimeOut(d)
             \/ BecomeSynced(d) \/ Resend(d)
    <2>1. UNCHANGED <<record, storing>>
      BY <1>3 DEF OpenScreen, Read, StartSync, Overflow, TimeOut, BecomeSynced, Resend, fileVars
    <2>. QED  BY <2>1 DEF CardKept
  <1>4. CASE LeaveScreen(d) \/ PowerLoss(d) \/ StoreFails(d)
    <2>1. record' = record /\ storing' = [storing EXCEPT ![d] = NotStoring(d)]
      BY <1>4 DEF LeaveScreen, PowerLoss, Gone, StoreFails, fileVars
    <2>. QED  BY <1>2, <2>1 DEF CardKept
  <1>5. CASE HandleEvent(d)
    <2>1. /\ record' = record
          /\ \/ storing' = storing
             \/ \E e : storing' = [storing EXCEPT ![d] = [step |-> "open", packet |-> e]]
      BY <1>5 DEF HandleEvent, Ignore, HandleName, HandleHello, HandleStats, HandleAck, JoinFails,
                  fileVars
    <2>. QED  BY <1>2, <2>1 DEF CardKept
  <1>6. CASE OpenPart(d) \/ WritePart(d)
    <2>1. /\ record' = record
          /\ \E step \in {"write", "remove"} : storing' = [storing EXCEPT ![d].step = step]
      BY <1>6 DEF OpenPart, WritePart, Go
    <2>. QED  BY <1>2, <2>1 DEF CardKept
  <1>7. RemoveRecord(d) \/ Rename(d) => faults' = faults
    BY DEF RemoveRecord, Rename, Go
  <1>. QED  BY <1>1, <1>3, <1>4, <1>5, <1>6, <1>7 DEF Store

LEMMA RemovedStep ==
    ASSUME IInv, RemovedIsGone, [Next]_vars
    PROVE  RemovedIsGone'
  <1>1. /\ storing \in [Devices -> [step : Steps, packet : Packets]]
        /\ record \in [Devices -> [Devices -> Versions \cup {None}]]
    BY TypeFacts DEF IInv
  <1>2. CASE CardKept \/ UNCHANGED vars
    BY <1>2 DEF CardKept, RemovedIsGone, Storing, Sender, vars, fileVars
  <1>3. ASSUME NEW d \in Devices, RemoveRecord(d)
        PROVE  RemovedIsGone'
    <2>1. /\ storing'[d].packet = storing[d].packet
          /\ \A c \in Devices \ {d} : storing'[c] = storing[c] /\ record'[c] = record[c]
      BY <1>1, <1>3 DEF RemoveRecord, Go
    <2>2. Sender(d) \in Devices
      BY <1>3, BusyIs DEF RemoveRecord, Storing, Busy
    <2>3. record'[d][Sender(d)] = None
      BY <1>1, <1>3, <2>2 DEF RemoveRecord
    <2>. QED  BY <2>1, <2>3 DEF RemovedIsGone, Storing, Sender
  <1>4. ASSUME NEW d \in Devices, Rename(d)
        PROVE  RemovedIsGone'
    <2>1. /\ storing'[d].step = "none"
          /\ \A c \in Devices \ {d} : storing'[c] = storing[c] /\ record'[c] = record[c]
      BY <1>1, <1>4 DEF Rename, NotStoring
    <2>. QED  BY <2>1 DEF RemovedIsGone, Storing, Sender
  <1>. QED  BY <1>2, <1>3, <1>4, CardSteps

\* A record is only replaced by what the other reader's statistics are at that moment, or
\* forgotten by a fault: no fault between the removal and the renaming, and no packet of an
\* earlier round, brings back an older one (writeSyncedStatsFile()).
THEOREM RecordsAdvance == Spec => RecordsOnlyAdvance
  <1> DEFINE Advance == \A d, p \in Devices :
                            Held(d, p)' # Held(d, p) =>
                                \/ Held(d, p)' = stats[p]
                                \/ Held(d, p)' = None /\ faults' > faults
  <1>1. ASSUME IInv, RemovedIsGone, Next PROVE Advance
    <2>1. PICK d \in Devices : Moves(d) \/ Read(d)
      BY <1>1, StepMoves
    <2> SUFFICES ASSUME NEW c \in Devices, NEW p \in Devices, Held(c, p)' # Held(c, p)
                   PROVE  Held(c, p)' = stats[p] \/ (Held(c, p)' = None /\ faults' > faults)
      OBVIOUS
    <2>2. CASE Read(d)
      BY <1>1, <2>2, ReadStep
    <2>3. CASE Moves(d) /\ faults' = faults
      BY <1>1, <2>3, HeldAfter
    <2>4. CASE Moves(d) /\ faults' # faults
      <3>1. faults' > faults
        BY <1>1, <2>4, TypeFacts DEF Moves, IInv, TypeOK
      <3>2. CardKept
        BY <1>1, <2>4, CardSteps
      <3>3. Held(c, p)' = Held(c, p) \/ Held(c, p)' = None
        BY <1>1, <3>2 DEF CardKept, RemovedIsGone, Held, Storing, Sender
      <3>. QED  BY <3>1, <3>3
    <2>. QED  BY <2>1, <2>2, <2>3, <2>4
  <1>2. IInv /\ RemovedIsGone /\ [Next]_vars => [Advance]_vars
    BY <1>1
  <1>3. Init => RemovedIsGone
    <2> SUFFICES ASSUME Init PROVE RemovedIsGone
      OBVIOUS
    <2>1. storing = [d \in Devices |-> NotStoring(d)]
      BY DEF Init
    <2>. QED  BY <2>1 DEF RemovedIsGone, Storing, NotStoring
  <1>4. IInv /\ RemovedIsGone /\ [Next]_vars => RemovedIsGone'
    BY RemovedStep
  <1>. QED  BY Invariance, <1>2, <1>3, <1>4, PTL DEF Spec, RecordsOnlyAdvance


=============================================================================
