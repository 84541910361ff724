---------------------- MODULE NearbyBookTransferProofs ----------------------
(***************************************************************************)
(* Safety of the transfer for books and queues of any length, any number   *)
(* of sessions and any bounds on the retries.                              *)
(*                                                                         *)
(* The receiver's half says what is on the card at each step of a commit.  *)
(* The other half follows the packets: what the sender sends only moves    *)
(* forward - Discover, Offer, the chunks, Complete, Cancel, then the next  *)
(* session - and queues keep the order, so that a packet at the receiver   *)
(* tells how far the transfer has come, and an acknowledgement how far it  *)
(* has come at least.                                                      *)
(***************************************************************************)
EXTENDS NearbyBookTransfer, SequenceTheorems, TLAPS

PreSending == {"Discovering", "DeviceList", "WaitingForApproval"}
Prompts == {"OfferPrompt", "CollisionPrompt"}
Committed == CommitSteps \cup {"Success"}

-----------------------------------------------------------------------------
(* The inductive invariant: the card.                                      *)

\* What is received so far is what is in the part file, and a beginning of the book.
PartInOrder ==
    /\ rState = "Receiving" => received = FirstChunks(Len(received)) /\ part[target] = received
    /\ rState \in CommitSteps \ {"CleanUp"} => part[target] = Book

\* A name has been chosen exactly when an offer has been accepted.
Targeted ==
    /\ rState \in {"Receiving"} \cup Committed => target \in Names
    /\ rState \in {"Off", "Listening"} \cup Prompts => target = None

\* Where the old file is while it is replaced.
Replacing ==
    /\ rState \in {"DropBackup", "SetAside"} => replacing /\ file[target] # None
    /\ rState \in {"Receiving", "Sync", "DropBackup", "SetAside"} => file = before
    /\ rState \in {"Swap", "RollBack"} =>
         /\ file = [before EXCEPT ![target] = None]
         /\ IF replacing THEN backup[target] = before[target] ELSE before[target] = None
    /\ rState = "RollBack" => replacing
    /\ rState \in {"CleanUp", "Success"} => file[target] = Book

\* Hidden files are whole as well.
WholeBackups ==
    \A n \in Names : backup[n] \in {None, OldFile, Book} /\ before[n] \in {None, OldFile, Book}

\* The Accept waits, or the screen has been painted.
ShownFirst == rState = "Receiving" => acceptPending \/ drawn

Card ==
    /\ PartInOrder /\ Targeted /\ Replacing /\ WholeFilesOnly /\ WholeBackups
    /\ BookSurvives /\ ShownFirst

(* The inductive invariant: the packets.                                   *)
Queued(q) == {q[i] : i \in DOMAIN q}

Rank(p) ==
    IF p.type = "Discover" THEN 0
    ELSE IF p.type = "Offer" THEN 1
    ELSE IF p.type = "Data" THEN 2 + p.seq
    ELSE IF p.type = "Complete" THEN 2 + Chunks ELSE 3 + Chunks

SRank ==
    IF sState \in {"Discovering", "DeviceList"} THEN 0
    ELSE IF sState = "WaitingForApproval" THEN 1
    ELSE IF sState = "Sending" THEN 2 + sNext
    ELSE IF sState = "Success" THEN 2 + Chunks ELSE 3 + Chunks

Genuine(p) ==
    /\ p.type \in {"Discover", "Offer", "Data", "Complete", "Cancel"}
    /\ p.type = "Data" => p.seq < Chunks /\ p.data = p.seq + 1

\* What the sender has sent is what it had to send then, and in that order.
NotAhead ==
    \A p \in Queued(toR) :
        /\ Genuine(p)
        /\ p.session <= sSession
        /\ p.session = sSession => Rank(p) <= SRank

Before(p, q) ==
    p.session <= q.session /\ (p.session = q.session => Rank(p) <= Rank(q))
Orderly(q) == \A i, j \in DOMAIN q : i < j => Before(q[i], q[j])
InOrder == Orderly(toR)

\* One chunk is read ahead, until all have been acknowledged.
ReadAhead ==
    /\ sState \in PreSending => sNext = 0 /\ sRead = 0
    /\ sState = "Sending" => sRead = IF sNext = Chunks THEN sNext ELSE sNext + 1

RetriesBounded ==
    /\ sState = "WaitingForApproval" => sRetry <= MaxApprovalRetries
    /\ sState = "Sending" => sRetry <= MaxRetries

NoLaterSession ==
    /\ rSession <= sSession
    /\ \A p \in Queued(toS) : p.session <= sSession

\* Before the sender has had its Accept nothing of its session has been received.
NothingYet ==
    sState \in PreSending =>
        /\ \A p \in Queued(toS) : p.session = sSession => p.type \notin {"Ack", "Result"}
        /\ rSession = sSession =>
             rState \notin Committed /\ (rState = "Receiving" => received = <<>>)

\* A chunk of the present session has been received, as far as can be seen.
Moved ==
    /\ sState = "Sending"
    /\ \/ sNext > 0
       \/ \E p \in Queued(toS) : p.type = "Ack" /\ p.session = sSession /\ p.seq > 0

\* A session that may still be offered to the receiver, or is.
Offered(session) ==
    \/ rState \in Prompts /\ rSession = session
    \/ \E p \in Queued(toR) : p.session = session /\ p.type \in {"Discover", "Offer"}

NotOfferedAgain == Moved => ~Offered(sSession)

\* The two ends are in step, and no acknowledgement is of more than was received.
Together ==
    sState = "Sending" /\ rState = "Receiving" /\ rSession = sSession =>
        /\ sNext <= rNext /\ rNext <= sNext + 1
        /\ \A p \in Queued(toS) : p.type = "Ack" /\ p.session = sSession => p.seq <= rNext

\* A Complete is sent when all is received, and the session is not begun again after it.
AllReceived ==
    \A p \in Queued(toR) : p.type = "Complete" =>
        /\ rState = "Receiving" /\ rSession = p.session => rNext = Chunks
        /\ Chunks > 0 => ~Offered(p.session)

OnlyTheEnd == \A p \in Queued(toR) : p.type \in {"Complete", "Cancel"}

\* While the receiver stores the book, or has stored it, the sender only waits for that.
Storing ==
    sState = "Sending" /\ rState \in Committed /\ rSession = sSession =>
        sNext = Chunks /\ OnlyTheEnd

\* The sender has been told, or is about to be told, that the book is stored.
Finished ==
    \/ sState = "Success"
    \/ /\ sState = "Sending"
       /\ \E p \in Queued(toS) : p.type = "Result" /\ p.session = sSession /\ p.data = OK
Stored == \E n \in Names : file[n] = Book

\* Then it is, and nothing is under way that could take it away.
StaysStored ==
    Finished =>
        /\ Stored /\ OnlyTheEnd
        /\ sState = "Sending" => sNext = Chunks
        /\ rState \in {"Off", "Listening", "Success", "Error"}

Packeting ==
    /\ NotAhead /\ InOrder /\ ReadAhead /\ RetriesBounded /\ NoLaterSession
    /\ NothingYet /\ NotOfferedAgain /\ Together /\ AllReceived /\ Storing /\ StaysStored

IInv == TypeOK /\ Card /\ Packeting

-----------------------------------------------------------------------------
(* Queues.                                                                 *)

\* r is q with some more packets, all of them in P.
Adds(q, r, P) ==
    /\ r \in Seq(Packets) /\ Len(r) <= QueueLength /\ Len(q) <= Len(r)
    /\ \A i \in 1 .. Len(r) : IF i <= Len(q) THEN r[i] = q[i] ELSE r[i] \in P

\* What is left of q when packets have been taken from its front.
Rest(q, r) == r = q \/ r = <<>> \/ (q # <<>> /\ r = Tail(q))

LEMMA PacketIsPacket ==
    ASSUME NEW type \in {"Discover", "Advertise", "Offer", "Accept", "Reject", "Data",
                         "Ack", "Complete", "Result", "Cancel"},
           NEW session \in 0 .. Sessions, NEW seq \in 0 .. Chunks, NEW data \in 0 .. Chunks + 1
    PROVE  Packet(type, session, seq, data) \in Packets
  BY DEF Packet, Packets

LEMMA PacketFields ==
    ASSUME NEW type, NEW session, NEW seq, NEW data
    PROVE  /\ Packet(type, session, seq, data).type = type
           /\ Packet(type, session, seq, data).session = session
           /\ Packet(type, session, seq, data).seq = seq
           /\ Packet(type, session, seq, data).data = data
  BY DEF Packet

LEMMA QueueAdds ==
    ASSUME NEW q \in Seq(Packets), NEW ps \in Seq(Packets), NEW r \in Queues(q, ps)
    PROVE  Adds(q, r, Queued(ps))
  <1>1. PICK i \in 0 .. Len(ps), j \in 0 .. Len(ps) :
            /\ r = q \o SubSeq(ps, i + 1, j)
            /\ Len(q) + Len(SubSeq(ps, i + 1, j)) <= QueueLength
    <2>1. PICK s \in SubSeqs(ps) : r = q \o s /\ Len(q) + Len(s) <= QueueLength
      BY DEF Queues
    <2>2. \E i, j \in 0 .. Len(ps) : s = SubSeq(ps, i + 1, j)
      BY <2>1 DEF SubSeqs
    <2>. QED  BY <2>1, <2>2
  <1> DEFINE t == SubSeq(ps, i + 1, j)
  <1>2. /\ t \in Seq(Packets)
        /\ Len(t) = IF i + 1 <= j THEN j - i ELSE 0
        /\ \A k \in 1 .. j - i : t[k] = ps[i + k]
    <2>1. \A k \in i + 1 .. j : ps[k] \in Packets
      BY ElementOfSeq
    <2>. QED  BY <2>1, SubSeqProperties
  <1>3. /\ r \in Seq(Packets)
        /\ Len(r) = Len(q) + Len(t)
        /\ \A k \in 1 .. Len(q) + Len(t) :
             r[k] = IF k <= Len(q) THEN q[k] ELSE t[k - Len(q)]
    BY <1>1, <1>2, ConcatProperties
  <1>4. ASSUME NEW k \in 1 .. Len(r), k > Len(q)
        PROVE  r[k] \in Queued(ps)
    <2>1. k - Len(q) \in 1 .. j - i /\ Len(q) \in Nat
      BY <1>2, <1>3, <1>4, LenProperties
    <2>2. r[k] = ps[i + (k - Len(q))]
      BY <1>2, <1>3, <1>4, <2>1
    <2>3. i + (k - Len(q)) \in DOMAIN ps
      BY <2>1, LenProperties
    <2>. QED  BY <2>2, <2>3 DEF Queued
  <1>5. Len(q) \in Nat /\ Len(t) \in Nat
    BY <1>2, LenProperties
  <1>6. ASSUME NEW k \in 1 .. Len(r), k <= Len(q)
        PROVE  r[k] = q[k]
    BY <1>3, <1>5, <1>6
  <1> HIDE DEF t
  <1>7. Len(r) <= QueueLength
    BY <1>1, <1>3 DEF t
  <1>. QED  BY <1>3, <1>4, <1>5, <1>6, <1>7 DEF Adds

LEMMA QueuedOne == ASSUME NEW p PROVE Queued(<<p>>) = {p}
  BY DEF Queued

LEMMA QueuedTwo == ASSUME NEW p, NEW p2 PROVE Queued(<<p, p2>>) = {p, p2}
  BY DEF Queued

LEMMA AddsNothing ==
    ASSUME NEW q \in Seq(Packets), Len(q) <= QueueLength, NEW P
    PROVE  Adds(q, q, P)
  BY LenProperties DEF Adds

LEMMA AddsQueued ==
    ASSUME NEW q \in Seq(Packets), NEW r, NEW P, Adds(q, r, P)
    PROVE  /\ r \in Seq(Packets) /\ Len(r) <= QueueLength
           /\ Queued(r) \subseteq Queued(q) \cup P
           /\ Queued(q) \subseteq Queued(r)
  <1>1. /\ DOMAIN q = 1 .. Len(q) /\ DOMAIN r = 1 .. Len(r)
        /\ Len(q) \in Nat /\ Len(r) \in Nat
    BY LenProperties DEF Adds
  <1>. QED  BY <1>1 DEF Adds, Queued

LEMMA QueuedPackets ==
    ASSUME NEW q \in Seq(Packets)
    PROVE  Queued(q) \subseteq Packets
  BY ElementOfSeq, LenProperties DEF Queued

LEMMA RestQueued ==
    ASSUME NEW q \in Seq(Packets), Len(q) <= QueueLength, NEW r, Rest(q, r), QueueLength \in Nat
    PROVE  /\ r \in Seq(Packets) /\ Len(r) <= QueueLength
           /\ Queued(r) \subseteq Queued(q)
  <1>1. CASE r = q
    BY <1>1
  <1>2. CASE r = <<>>
    BY <1>2, EmptySeq DEF Queued
  <1>3. CASE q # <<>> /\ r = Tail(q)
    <2>1. /\ r \in Seq(Packets) /\ Len(r) = Len(q) - 1 /\ Len(q) \in Nat
          /\ \A i \in 1 .. Len(r) : r[i] = q[i + 1]
          /\ DOMAIN q = 1 .. Len(q) /\ DOMAIN r = 1 .. Len(r)
      BY <1>3, HeadTailProperties, LenProperties
    <2>2. \A i \in DOMAIN r : i + 1 \in DOMAIN q
      BY <2>1
    <2>3. Queued(r) \subseteq Queued(q)
      BY <2>1, <2>2 DEF Queued
    <2>. QED  BY <2>1, <2>3
  <1>. QED  BY <1>1, <1>2, <1>3 DEF Rest

LEMMA HeadQueued ==
    ASSUME NEW q \in Seq(Packets), q # <<>>
    PROVE  Head(q) \in Packets /\ Head(q) \in Queued(q)
  <1>1. Head(q) = q[1] /\ 1 \in DOMAIN q
    BY EmptySeq, LenProperties
  <1>. QED  BY <1>1, HeadTailProperties DEF Queued

LEMMA OrderlyAdds ==
    ASSUME NEW q \in Seq(Packets), NEW r, NEW p, Adds(q, r, {p}), Orderly(q),
           Before(p, p), \A x \in Queued(q) : Before(x, p)
    PROVE  Orderly(r)
  <1>1. /\ DOMAIN q = 1 .. Len(q) /\ DOMAIN r = 1 .. Len(r)
        /\ Len(q) \in Nat /\ Len(r) \in Nat
    BY LenProperties DEF Adds
  <1>2. SUFFICES ASSUME NEW i \in DOMAIN r, NEW j \in DOMAIN r, i < j
                 PROVE  Before(r[i], r[j])
    BY DEF Orderly
  <1>3. CASE j <= Len(q)
    <2>1. r[i] = q[i] /\ r[j] = q[j] /\ i \in DOMAIN q /\ j \in DOMAIN q
      BY <1>1, <1>2, <1>3 DEF Adds
    <2>. QED  BY <1>2, <2>1 DEF Orderly
  <1>4. CASE i <= Len(q) /\ j > Len(q)
    <2>1. r[i] = q[i] /\ r[j] = p /\ i \in DOMAIN q
      BY <1>1, <1>4 DEF Adds
    <2>. QED  BY <2>1 DEF Queued
  <1>5. CASE i > Len(q)
    <2>1. r[i] = p /\ r[j] = p
      BY <1>1, <1>2, <1>5 DEF Adds
    <2>. QED  BY <2>1
  <1>. QED  BY <1>1, <1>3, <1>4, <1>5

LEMMA OrderlyRest ==
    ASSUME NEW q \in Seq(Packets), NEW r, Rest(q, r), Orderly(q)
    PROVE  Orderly(r)
  <1>1. CASE r = q
    BY <1>1
  <1>2. CASE r = <<>>
    BY <1>2 DEF Orderly
  <1>3. CASE q # <<>> /\ r = Tail(q)
    <2>1. /\ Len(r) = Len(q) - 1 /\ Len(q) \in Nat
          /\ \A i \in 1 .. Len(r) : r[i] = q[i + 1]
          /\ DOMAIN q = 1 .. Len(q) /\ DOMAIN r = 1 .. Len(r)
      BY <1>3, HeadTailProperties, LenProperties
    <2>2. ASSUME NEW i \in DOMAIN r, NEW j \in DOMAIN r, i < j
          PROVE  Before(r[i], r[j])
      <3>1. i + 1 \in DOMAIN q /\ j + 1 \in DOMAIN q /\ i + 1 < j + 1
        BY <2>1, <2>2
      <3>. QED  BY <2>1, <3>1 DEF Orderly
    <2>. QED  BY <2>2 DEF Orderly
  <1>. QED  BY <1>1, <1>2, <1>3 DEF Rest

\* Nothing in the queue comes before its oldest packet.
LEMMA HeadIsFirst ==
    ASSUME NEW q \in Seq(Packets), q # <<>>, Orderly(q)
    PROVE  \A x \in Queued(Tail(q)) : Before(Head(q), x)
  <1>1. /\ Len(Tail(q)) = Len(q) - 1 /\ Len(q) \in Nat \ {0} /\ Head(q) = q[1]
        /\ \A i \in 1 .. Len(Tail(q)) : Tail(q)[i] = q[i + 1]
        /\ DOMAIN q = 1 .. Len(q) /\ DOMAIN Tail(q) = 1 .. Len(Tail(q))
    BY HeadTailProperties, LenProperties, EmptySeq
  <1>2. ASSUME NEW i \in DOMAIN Tail(q)
        PROVE  Before(Head(q), Tail(q)[i])
    <2>1. 1 \in DOMAIN q /\ i + 1 \in DOMAIN q /\ 1 < i + 1
      BY <1>1
    <2>. QED  BY <1>1, <2>1 DEF Orderly
  <1>. QED  BY <1>2 DEF Queued

\* What may be sent to either end, when one or two packets are.
LEMMA ToReceiver ==
    ASSUME TypeOK, NEW p \in Packets, toR' \in AtReceiver(<<p>>)
    PROVE  Adds(toR, toR', {p})
  <1>1. toR \in Seq(Packets) /\ Len(toR) <= QueueLength /\ <<p>> \in Seq(Packets)
    BY DEF TypeOK
  <1>2. CASE rState = "Off"
    BY <1>1, <1>2, AddsNothing DEF AtReceiver
  <1>3. CASE rState # "Off"
    <2>1. Adds(toR, toR', Queued(<<p>>))
      BY <1>1, <1>3, QueueAdds DEF AtReceiver
    <2>. QED  BY <2>1, QueuedOne
  <1>. QED  BY <1>2, <1>3

LEMMA ToSender ==
    ASSUME TypeOK, NEW ps \in Seq(Packets), toS' \in AtSender(ps)
    PROVE  Adds(toS, toS', Queued(ps))
  <1>1. toS \in Seq(Packets) /\ Len(toS) <= QueueLength
    BY DEF TypeOK
  <1>2. CASE sState = "Off"
    BY <1>1, <1>2, AddsNothing DEF AtSender
  <1>3. CASE sState # "Off"
    BY <1>1, <1>3, QueueAdds DEF AtSender
  <1>. QED  BY <1>2, <1>3

LEMMA ToSenderOne ==
    ASSUME TypeOK, NEW p \in Packets, toS' \in AtSender(<<p>>)
    PROVE  Adds(toS, toS', {p})
  BY ToSender, QueuedOne, <<p>> \in Seq(Packets)

LEMMA ToSenderTwo ==
    ASSUME TypeOK, NEW p \in Packets, NEW p2 \in Packets, toS' \in AtSender(<<p, p2>>)
    PROVE  Adds(toS, toS', {p, p2})
  BY ToSender, QueuedTwo, <<p, p2>> \in Seq(Packets)

-----------------------------------------------------------------------------
(* What the sender does, as far as the packets are concerned.              *)

\* The packet that is due once n chunks are acknowledged.
NextPacket(n) ==
    IF n = Chunks THEN Packet("Complete", sSession, 0, n)
                  ELSE Packet("Data", sSession, n, n + 1)
ReadOnceAt(n) == IF n = Chunks THEN n ELSE n + 1
Kept == UNCHANGED <<sSession, sNext, sRead>>

Begins ==
    /\ sState = "Off" /\ sState' = "Discovering"
    /\ sSession' = sSession + 1 /\ sSession' \in 0 .. Sessions
    /\ sNext' = 0 /\ sRead' = 0 /\ toS' = toS
    /\ Adds(toR, toR', {Packet("Discover", sSession + 1, 0, 0)})

Calls ==
    /\ sState \in PreSending /\ sState' \in PreSending /\ Kept
    /\ SRank <= SRank'
    /\ \E type \in {"Discover", "Offer"} :
         /\ SRank' = IF type = "Discover" THEN 0 ELSE 1
         /\ Adds(toR, toR', {Packet(type, sSession, 0, 0)})

Starts ==
    /\ sState = "WaitingForApproval" /\ sState' = "Sending" /\ UNCHANGED sSession
    /\ sNext' = 0 /\ sRead' = ReadOnceAt(0)
    /\ Adds(toR, toR', {NextPacket(0)})

Advances ==
    /\ sState = "Sending" /\ sState' = "Sending" /\ UNCHANGED sSession
    /\ sNext < Chunks /\ sNext' = sNext + 1 /\ sRead' = ReadOnceAt(sNext + 1)
    /\ \E p \in Queued(toS) : p.type = "Ack" /\ p.session = sSession /\ p.seq = sNext + 1
    /\ Adds(toR, toR', {NextPacket(sNext + 1)})

Repeats ==
    /\ sState = "Sending" /\ sState' = "Sending" /\ Kept
    /\ Adds(toR, toR', {NextPacket(sNext)})

Ends ==
    /\ sState' \in {"Error", "Off"} /\ UNCHANGED sSession
    /\ sNext' \in 0 .. Chunks /\ sRead' \in 0 .. Chunks
    /\ Adds(toR, toR', {Packet("Cancel", sSession, 0, 0)})

Succeeds ==
    /\ sState = "Sending" /\ sState' = "Success" /\ Kept /\ toR' = toR
    /\ \E p \in Queued(toS) : p.type = "Result" /\ p.session = sSession /\ p.data = OK

Ignores == UNCHANGED <<sState, toR>> /\ Kept

SenderMove ==
    Begins \/ Calls \/ Starts \/ Advances \/ Repeats \/ Ends \/ Succeeds \/ Ignores

Sends == Sender \/ StartDiscovery \/ DiscoveryTimer \/ SelectPeer \/ SenderLeaves \/ SenderLosesPower

Silent == UNCHANGED <<rVars, diskVars>> /\ Rest(toS, toS')

RetryRange == 0 .. MaxRetries + 1 \cup 0 .. MaxApprovalRetries + 1

LEMMA FailEnds ==
    ASSUME TypeOK, SFail, UNCHANGED sSession, sNext' \in 0 .. Chunks, sRead' \in 0 .. Chunks
    PROVE  Ends
  <1>1. Packet("Cancel", sSession, 0, 0) \in Packets
    BY PacketIsPacket, SizesAssumption DEF TypeOK
  <1>. QED  BY <1>1, ToReceiver DEF SFail, SSend, Ends

LEMMA SendFromMoves ==
    ASSUME TypeOK, NEW n \in 0 .. Chunks, SendFrom(n), UNCHANGED sSession,
           n = Chunks => sRead = n
    PROVE  \/ /\ sState' = "Sending" /\ sNext' = n /\ sRead' = ReadOnceAt(n)
              /\ Adds(toR, toR', {NextPacket(n)})
           \/ Ends
  <1>1. CASE n = Chunks
    <2>1. Packet("Complete", sSession, 0, n) \in Packets
      BY PacketIsPacket, SizesAssumption DEF TypeOK
    <2>. QED
      BY <1>1, <2>1, ToReceiver DEF SendFrom, SendComplete, SSend, NextPacket, ReadOnceAt
  <1>2. CASE n # Chunks /\ SFail
    <2>1. sNext' \in 0 .. Chunks /\ sRead' \in 0 .. Chunks
      BY <1>2, SizesAssumption DEF SendFrom, SendNextChunk, TypeOK
    <2>. QED  BY <1>2, <2>1, FailEnds
  <1>3. CASE n # Chunks /\ ~SFail
    <2>1. n \in 0 .. Chunks /\ n + 1 \in 0 .. Chunks + 1 /\ sSession \in 0 .. Sessions
      BY SizesAssumption DEF TypeOK
    <2>2. Packet("Data", sSession, n, n + 1) \in Packets
      BY <2>1, PacketIsPacket
    <2>. QED
      BY <1>3, <2>2, ToReceiver DEF SendFrom, SendNextChunk, SSend, NextPacket, ReadOnceAt
  <1>. QED  BY <1>1, <1>2, <1>3

LEMMA HandlerMoves ==
    ASSUME TypeOK, ReadAhead, RetriesBounded, SenderHandles
    PROVE  /\ SenderMove /\ Silent
           /\ sRetry' \in RetryRange /\ RetriesBounded'
  <1> DEFINE p == Head(toS)
  <1>1. /\ toS # <<>> /\ toS' = Tail(toS) /\ toS \in Seq(Packets) /\ UNCHANGED sSession
        /\ p \in Queued(toS) /\ p \in Packets /\ Silent
    BY HeadQueued DEF SenderHandles, TypeOK, Silent, Rest
  <1>2. sRetry \in RetryRange /\ 0 \in RetryRange /\ 0 <= MaxRetries /\ 0 <= MaxApprovalRetries
    BY SizesAssumption DEF TypeOK, RetryRange
  <1>3. sNext \in 0 .. Chunks /\ sRead \in 0 .. Chunks
    BY DEF TypeOK
  <1>4. CASE ~SActs(p)
    <2>1. UNCHANGED <<sState, sNext, sRead, sRetry, toR>>
      BY <1>4 DEF SenderHandles
    <2>. QED  BY <1>1, <1>2, <2>1 DEF SenderMove, Ignores, Kept, RetriesBounded
  <1>5. CASE SActs(p) /\ p.type = "Advertise"
    <2>1. OnAdvertise /\ sState \in {"Discovering", "DeviceList"}
      BY <1>5 DEF SenderHandles, SActs
    <2>2. Adds(toR, toR', {Packet("Discover", sSession, 0, 0)})
      BY <2>1, AddsNothing DEF OnAdvertise, TypeOK
    <2>3. Calls
      BY <1>1, <2>1, <2>2 DEF Calls, OnAdvertise, PreSending, SRank, Kept
    <2>. QED  BY <1>1, <1>2, <2>1, <2>3 DEF SenderMove, OnAdvertise, RetriesBounded
  <1>6. CASE SActs(p) /\ p.type = "Accept"
    <2>1. OnAccept /\ sState = "WaitingForApproval" /\ sNext = 0 /\ sRead = 0
      BY <1>6 DEF SenderHandles, SActs, ReadAhead, PreSending
    <2>2. CASE SendFrom(0)
      <3>1. 0 \in 0 .. Chunks /\ sRetry' = 0
        BY <2>2, SizesAssumption DEF SendFrom
      <3>2. Starts \/ Ends
        BY <1>1, <2>1, <2>2, <3>1, SendFromMoves DEF Starts
      <3>. QED  BY <1>1, <1>2, <3>1, <3>2 DEF SenderMove, RetriesBounded
    <2>3. CASE SFail /\ UNCHANGED <<sNext, sRead, sRetry>>
      <3>1. Ends
        BY <1>1, <1>3, <2>3, FailEnds
      <3>. QED  BY <1>1, <1>2, <2>3, <3>1 DEF SenderMove, RetriesBounded, SFail
    <2>. QED  BY <2>1, <2>2, <2>3 DEF OnAccept
  <1>7. CASE SActs(p) /\ p.type = "Ack"
    <2>1. OnAck /\ sState = "Sending" /\ sRead # sNext /\ p.seq = sNext + 1 /\ p.session = sSession
      BY <1>7 DEF SenderHandles, SActs, Acknowledged
    <2>2. sNext < Chunks /\ sRead = sNext + 1
      BY <1>3, <2>1, SizesAssumption DEF ReadAhead
    <2>3. sNext + 1 \in 0 .. Chunks /\ SendFrom(sNext + 1) /\ sRetry' = 0
      BY <1>3, <2>1, <2>2, SizesAssumption DEF OnAck, SendFrom
    <2>4. Advances \/ Ends
      BY <1>1, <1>7, <2>1, <2>2, <2>3, SendFromMoves DEF Advances
    <2>. QED  BY <1>1, <1>2, <2>3, <2>4 DEF SenderMove, RetriesBounded
  <1>8. CASE SActs(p) /\ p.type = "Result"
    <2>1. OnResult(p) /\ sState = "Sending" /\ p.session = sSession
      BY <1>8 DEF SenderHandles, SActs
    <2>2. CASE p.data = OK
      <3>1. Succeeds
        BY <1>1, <1>8, <2>1, <2>2 DEF OnResult, Succeeds, Kept
      <3>. QED  BY <1>1, <1>2, <2>1, <3>1 DEF SenderMove, OnResult, Succeeds, RetriesBounded
    <2>3. CASE p.data # OK
      <3>1. Ends
        BY <1>1, <1>3, <2>1, <2>3, FailEnds DEF OnResult
      <3>. QED  BY <1>1, <1>2, <2>1, <2>3, <3>1 DEF SenderMove, OnResult, SFail, RetriesBounded
    <2>. QED  BY <2>2, <2>3
  <1>9. CASE SActs(p) /\ p.type \in {"Reject", "Cancel"}
    <2>1. OnRejectOrCancel
      BY <1>9 DEF SenderHandles
    <2>2. Ends
      BY <1>1, <1>3, <2>1, FailEnds DEF OnRejectOrCancel
    <2>. QED  BY <1>1, <1>2, <2>1, <2>2 DEF SenderMove, OnRejectOrCancel, SFail, RetriesBounded
  <1>. QED  BY <1>4, <1>5, <1>6, <1>7, <1>8, <1>9 DEF SenderHandles

LEMMA SenderMoves ==
    ASSUME TypeOK, ReadAhead, RetriesBounded, Sends
    PROVE  /\ SenderMove /\ Silent
           /\ sRetry' \in RetryRange /\ RetriesBounded'
  <1>1. /\ sNext \in 0 .. Chunks /\ sRead \in 0 .. Chunks /\ sSession \in 0 .. Sessions
        /\ sRetry \in RetryRange /\ 0 \in RetryRange
        /\ 0 <= MaxRetries /\ 0 <= MaxApprovalRetries
        /\ toR \in Seq(Packets) /\ Len(toR) <= QueueLength
    BY SizesAssumption DEF TypeOK, RetryRange
  <1>2. /\ 0 \in 0 .. Chunks /\ 0 \in 0 .. Chunks + 1 /\ sNext \in 0 .. Chunks + 1
        /\ sRetry \in Nat
    BY <1>1, SizesAssumption DEF RetryRange
  <1>3. CASE SenderHandles
    BY <1>3, HandlerMoves
  <1>4. CASE StartDiscovery
    <2>1. sSession + 1 \in 0 .. Sessions
      BY <1>1, <1>4, SizesAssumption DEF StartDiscovery
    <2>2. Packet("Discover", sSession + 1, 0, 0) \in Packets
      BY <1>2, <2>1, PacketIsPacket
    <2>3. Begins
      BY <1>4, <2>1, <2>2, ToReceiver DEF StartDiscovery, Begins
    <2>. QED  BY <1>1, <1>4, <2>3 DEF StartDiscovery, SenderMove, Silent, Rest, RetriesBounded
  <1>5. CASE SelectPeer
    <2>1. Packet("Offer", sSession, 0, 0) \in Packets
      BY <1>1, <1>2, PacketIsPacket
    <2>2. Adds(toR, toR', {Packet("Offer", sSession, 0, 0)})
      BY <1>5, <2>1, ToReceiver DEF SelectPeer, SSend
    <2>3. Calls
      BY <1>5, <2>2 DEF SelectPeer, Calls, Kept, PreSending, SRank
    <2>. QED  BY <1>1, <1>5, <2>3 DEF SelectPeer, SenderMove, Silent, Rest, RetriesBounded
  <1>6. CASE DiscoveryTimer
    <2>1. Packet("Discover", sSession, 0, 0) \in Packets
      BY <1>1, <1>2, PacketIsPacket
    <2>2. Adds(toR, toR', {Packet("Discover", sSession, 0, 0)}) /\ UNCHANGED sVars
      BY <1>6, <2>1, ToReceiver DEF DiscoveryTimer, SSend
    <2>3. Calls
      BY <1>6, <2>2 DEF DiscoveryTimer, Calls, Kept, PreSending, SRank, sVars
    <2>. QED  BY <1>1, <1>6, <2>3 DEF DiscoveryTimer, SenderMove, Silent, Rest, RetriesBounded, sVars
  <1>7. CASE ApprovalTimer
    <2>1. sState = "WaitingForApproval" /\ sRetry <= MaxApprovalRetries /\ Kept /\ Silent
      BY <1>7 DEF ApprovalTimer, RetriesBounded, Kept, Silent, Rest
    <2>2. sRetry' = sRetry + 1 /\ sRetry + 1 \in RetryRange
      BY <1>2, <1>7, <2>1, SizesAssumption DEF ApprovalTimer, Retry, RetriesCounted, RetryRange
    <2>3. CASE sRetry + 1 > MaxApprovalRetries
      <3>1. SFail
        BY <1>7, <2>3 DEF ApprovalTimer, Retry
      <3>2. Ends
        BY <1>1, <2>1, <3>1, FailEnds DEF Kept
      <3>. QED  BY <2>1, <2>2, <3>1, <3>2 DEF SenderMove, SFail, RetriesBounded
    <2>4. CASE ~(sRetry + 1 > MaxApprovalRetries)
      <3>1. Packet("Offer", sSession, 0, 0) \in Packets
        BY <1>1, <1>2, PacketIsPacket
      <3>2. Adds(toR, toR', {Packet("Offer", sSession, 0, 0)}) /\ UNCHANGED sState
        BY <1>7, <2>4, <3>1, ToReceiver DEF ApprovalTimer, Retry, SSend
      <3>3. Calls
        BY <2>1, <3>2 DEF Calls, PreSending, SRank
      <3>4. sRetry' <= MaxApprovalRetries
        BY <1>2, <2>2, <2>4, SizesAssumption
      <3>. QED  BY <2>1, <2>2, <3>2, <3>3, <3>4 DEF SenderMove, RetriesBounded
    <2>. QED  BY <2>3, <2>4
  <1>8. CASE ChunkTimer
    <2>1. /\ sState = "Sending" /\ sRetry <= MaxRetries /\ Kept /\ Silent
          /\ sRead # sNext
      BY <1>8 DEF ChunkTimer, RetriesBounded, Kept, Silent, Rest
    <2>2. sRetry' = sRetry + 1 /\ sRetry + 1 \in RetryRange
      BY <1>2, <1>8, <2>1, SizesAssumption DEF ChunkTimer, Retry, RetriesCounted, RetryRange
    <2>3. CASE sRetry + 1 > MaxRetries
      <3>1. SFail
        BY <1>8, <2>3 DEF ChunkTimer, Retry
      <3>2. Ends
        BY <1>1, <2>1, <3>1, FailEnds DEF Kept
      <3>. QED  BY <2>1, <2>2, <3>1, <3>2 DEF SenderMove, SFail, RetriesBounded
    <2>4. CASE ~(sRetry + 1 > MaxRetries)
      <3>1. sNext # Chunks /\ sRead = sNext + 1 /\ sRead \in 0 .. Chunks + 1
        BY <1>1, <2>1, SizesAssumption DEF ReadAhead
      <3>2. Packet("Data", sSession, sNext, sRead) \in Packets
        BY <1>1, <3>1, PacketIsPacket
      <3>3. Adds(toR, toR', {Packet("Data", sSession, sNext, sRead)}) /\ UNCHANGED sState
        BY <1>8, <2>4, <3>2, ToReceiver DEF ChunkTimer, Retry, SSend
      <3>4. Repeats
        BY <2>1, <3>1, <3>3 DEF Repeats, NextPacket
      <3>5. sRetry' <= MaxRetries
        BY <1>2, <2>2, <2>4, SizesAssumption
      <3>. QED  BY <2>1, <2>2, <3>3, <3>4, <3>5 DEF SenderMove, RetriesBounded
    <2>. QED  BY <2>3, <2>4
  <1>9. CASE CompleteTimer
    <2>1. /\ sState = "Sending" /\ sRetry <= MaxRetries /\ Kept /\ Silent
          /\ sRead = sNext
      BY <1>9 DEF CompleteTimer, RetriesBounded, Kept, Silent, Rest
    <2>2. CASE sRetry + 1 > MaxRetries
      <3>1. SFail /\ sRetry' = sRetry + 1
        BY <1>9, <2>2 DEF CompleteTimer, Retry
      <3>2. Ends
        BY <1>1, <2>1, <3>1, FailEnds DEF Kept
      <3>3. sRetry + 1 \in RetryRange
        BY <1>2, <2>1, SizesAssumption DEF RetryRange
      <3>. QED  BY <2>1, <3>1, <3>2, <3>3 DEF SenderMove, SFail, RetriesBounded
    <2>3. CASE ~(sRetry + 1 > MaxRetries)
      <3>1. sNext = Chunks
        BY <1>1, <2>1, SizesAssumption DEF ReadAhead
      <3>2. Packet("Complete", sSession, 0, sRead) \in Packets
        BY <1>1, <1>2, <2>1, PacketIsPacket
      <3>3. /\ Adds(toR, toR', {Packet("Complete", sSession, 0, sRead)})
            /\ UNCHANGED sState /\ sRetry' = 0
        BY <1>9, <2>3, <3>2, ToReceiver DEF CompleteTimer, Retry, SendComplete, SSend
      <3>4. Repeats
        BY <2>1, <3>1, <3>3 DEF Repeats, NextPacket
      <3>. QED  BY <1>1, <2>1, <3>3, <3>4 DEF SenderMove, RetriesBounded
    <2>. QED  BY <2>2, <2>3
  <1>10. CASE SenderLeaves
    <2>1. Packet("Cancel", sSession, 0, 0) \in Packets
      BY <1>1, <1>2, PacketIsPacket
    <2>2. Adds(toR, toR', {Packet("Cancel", sSession, 0, 0)})
      BY <1>1, <1>10, <2>1, ToReceiver, AddsNothing DEF SenderLeaves, SSend
    <2>3. Ends
      BY <1>1, <1>10, <2>2 DEF SenderLeaves, Ends
    <2>. QED  BY <1>1, <1>10, <2>3 DEF SenderLeaves, SenderMove, Silent, Rest, RetriesBounded
  <1>11. CASE SenderLosesPower
    <2>1. Adds(toR, toR', {Packet("Cancel", sSession, 0, 0)})
      BY <1>1, <1>11, AddsNothing DEF SenderLosesPower
    <2>2. Ends
      BY <1>1, <1>11, <2>1 DEF SenderLosesPower, Ends
    <2>. QED  BY <1>1, <1>11, <2>2 DEF SenderLosesPower, SenderMove, Silent, Rest, RetriesBounded
  <1>. QED
    BY <1>3, <1>4, <1>5, <1>6, <1>7, <1>8, <1>9, <1>10, <1>11 DEF Sends, Sender

-----------------------------------------------------------------------------
(* What the receiver does to the card.                                     *)

Receives ==
    \/ Receiver \/ StartListening \/ RejectOffer \/ ConfirmCollision \/ ReceiverLeaves
    \/ \E name \in Names : AcceptOffer(name)
    \/ ReceiverLosesPower

\* The receiver's part of the type invariant.
CardTypes ==
    /\ rState \in {"Off", "Listening", "OfferPrompt", "CollisionPrompt",
                   "Receiving", "Success", "Error"} \cup CommitSteps
    /\ received \in Seq(1 .. Chunks) /\ Len(received) <= Chunks
    /\ target \in Names \cup {None}
    /\ acceptPending \in BOOLEAN /\ drawn \in BOOLEAN /\ replacing \in BOOLEAN
    /\ file \in [Names -> Contents] /\ before \in [Names -> Contents]
    /\ part \in [Names -> Contents]
    /\ backup \in [Names -> Contents]

LEMMA FunctionIsSeq ==
    ASSUME NEW n \in Nat, NEW S, NEW f \in [1 .. n -> S]
    PROVE  f \in Seq(S) /\ Len(f) = n
  <1>1. f \in Seq(S)
    OBVIOUS
  <1>. QED  BY <1>1, LenProperties

LEMMA BookLemma ==
    ASSUME NEW n \in 0 .. Chunks
    PROVE  /\ FirstChunks(n) \in Seq(1 .. Chunks) /\ Len(FirstChunks(n)) = n
           /\ n < Chunks => Append(FirstChunks(n), n + 1) = FirstChunks(n + 1)
  <1>1. n \in Nat /\ n <= Chunks
    BY SizesAssumption
  <1>2. /\ FirstChunks(n) \in Seq(1 .. Chunks) /\ Len(FirstChunks(n)) = n
        /\ DOMAIN FirstChunks(n) = 1 .. n /\ \A i \in 1 .. n : FirstChunks(n)[i] = i
    <2>1. FirstChunks(n) \in [1 .. n -> 1 .. Chunks]
      BY <1>1, SizesAssumption DEF FirstChunks
    <2>2. FirstChunks(n) \in Seq(1 .. Chunks) /\ Len(FirstChunks(n)) = n
      BY <1>1, <2>1, FunctionIsSeq
    <2>. QED  BY <2>1, <2>2 DEF FirstChunks
  <1>3. ASSUME n < Chunks
        PROVE  Append(FirstChunks(n), n + 1) = FirstChunks(n + 1)
    <2>1. n + 1 \in 1 .. Chunks
      BY <1>1, <1>3, SizesAssumption
    <2>2. FirstChunks(n + 1) \in Seq(1 .. Chunks) /\ Len(FirstChunks(n + 1)) = n + 1
          /\ \A i \in 1 .. n + 1 : FirstChunks(n + 1)[i] = i
      <3>1. FirstChunks(n + 1) \in [1 .. n + 1 -> 1 .. Chunks] /\ n + 1 \in Nat
        BY <1>1, <2>1, SizesAssumption DEF FirstChunks
      <3>2. FirstChunks(n + 1) \in Seq(1 .. Chunks) /\ Len(FirstChunks(n + 1)) = n + 1
        BY <3>1, FunctionIsSeq
      <3>. QED  BY <3>1, <3>2 DEF FirstChunks
    <2> DEFINE a == Append(FirstChunks(n), n + 1)
    <2>3. /\ a \in Seq(1 .. Chunks) /\ Len(a) = n + 1 /\ a[n + 1] = n + 1
          /\ \A i \in 1 .. n : a[i] = FirstChunks(n)[i]
      BY <1>2, <2>1, AppendProperties
    <2>4. \A i \in 1 .. n + 1 : a[i] = FirstChunks(n + 1)[i]
      BY <1>1, <1>2, <2>2, <2>3
    <2> HIDE DEF a
    <2>5. a = FirstChunks(n + 1)
      BY <2>2, <2>3, <2>4, SeqEqual
    <2>. QED  BY <2>5 DEF a
  <1>. QED  BY <1>2, <1>3

LEMMA BookTypes ==
    /\ Book \in Seq(1 .. Chunks) /\ Len(Book) = Chunks
    /\ Book \in Contents /\ None \in Contents /\ OldFile \in Contents
    /\ <<>> \in Contents /\ <<>> \in Seq(1 .. Chunks) /\ Len(<<>>) = 0
    /\ FirstChunks(0) = <<>>
  <1>1. Chunks \in 0 .. Chunks /\ 0 \in 0 .. Chunks
    BY SizesAssumption
  <1>2. Book \in Seq(1 .. Chunks) /\ Len(Book) = Chunks
    BY <1>1, BookLemma DEF Book
  <1>3. FirstChunks(0) \in Seq(1 .. Chunks) /\ Len(FirstChunks(0)) = 0
    BY <1>1, BookLemma
  <1>4. FirstChunks(0) = <<>>
    BY <1>3, EmptySeq
  <1>. QED  BY <1>2, <1>3, <1>4, EmptySeq DEF Contents

\* A transfer that ends without a commit leaves the card whole.
LEMMA CardUntouched ==
    ASSUME TypeOK, Card, UNCHANGED <<file, backup>>, before' \in {before, file},
           part' \in [Names -> Contents],
           rState' \in {"Off", "Listening", "Error"} \cup Prompts,
           rState' # "Error" => target' = None,
           received' \in Seq(1 .. Chunks), Len(received') <= Chunks,
           target' \in Names \cup {None}, acceptPending' \in BOOLEAN, drawn' \in BOOLEAN,
           replacing' \in BOOLEAN
    PROVE  Card' /\ CardTypes'
  <1>1. PartInOrder' /\ Targeted' /\ Replacing' /\ ShownFirst'
    BY DEF PartInOrder, Targeted, Replacing, ShownFirst, CommitSteps, Committed, Prompts
  <1>2. WholeFilesOnly' /\ WholeBackups' /\ BookSurvives'
    BY DEF Card, WholeFilesOnly, WholeBackups, BookSurvives
  <1>3. CardTypes'
    BY DEF TypeOK, CardTypes, Prompts
  <1>. QED  BY <1>1, <1>2, <1>3 DEF Card

LEMMA DiscardedType ==
    ASSUME TypeOK
    PROVE  PartDiscarded \in [Names -> Contents]
  BY BookTypes DEF TypeOK, PartDiscarded

LEMMA FailedCard ==
    ASSUME TypeOK, Card, NEW ps, RFail(ps), UNCHANGED <<file, backup, received, target>>,
           before' \in {before, file}, replacing' \in BOOLEAN
    PROVE  Card' /\ CardTypes'
  BY CardUntouched, DiscardedType DEF RFail, TypeOK

LEMMA HandlerCard ==
    ASSUME TypeOK, Card, NotAhead, ReceiverHandles
    PROVE  Card' /\ CardTypes'
  <1> DEFINE p == Head(toR)
  <1>1. /\ p \in Packets /\ Genuine(p)
        /\ rState \notin {"Off"} \cup CommitSteps
    BY HeadQueued DEF ReceiverHandles, TypeOK, NotAhead
  <1>2. CASE UNCHANGED <<rVars, diskVars>>
    BY <1>2 DEF rVars, diskVars, TypeOK, CardTypes, Card, PartInOrder, Targeted, Replacing,
                WholeFilesOnly, WholeBackups, BookSurvives, ShownFirst
  <1>3. CASE p.type = "Discover" /\ rState = "Listening" /\ OnDiscover(p)
    BY <1>3, CardUntouched DEF OnDiscover, diskVars, TypeOK, Card, Targeted
  <1>4. CASE p.type = "Offer" /\ rState = "Listening" /\ OnOffer(p)
    BY <1>4, CardUntouched DEF OnOffer, diskVars, TypeOK, Card, Targeted, Prompts
  <1>5. CASE p.type = "Data" /\ rState = "Receiving" /\ OnData(p)
    <2>1. /\ target \in Names /\ received = FirstChunks(rNext) /\ part[target] = received
          /\ rNext \in 0 .. Chunks /\ file = before /\ (acceptPending \/ drawn)
      <3>1. Len(received) \in Nat
        BY LenProperties DEF TypeOK
      <3>. QED
        BY <1>5, <3>1, SizesAssumption
        DEF Card, Targeted, PartInOrder, Replacing, ShownFirst, TypeOK, rNext
    <2>2. CASE \E ps : RFail(ps) /\ UNCHANGED received
      BY <1>5, <2>2, FailedCard DEF OnData, TypeOK
    <2>3. CASE UNCHANGED <<rState, received, acceptPending, drawn, part>>
      BY <1>5, <2>3 DEF OnData, TypeOK, CardTypes, Card, PartInOrder, Targeted, Replacing,
                        WholeFilesOnly, WholeBackups, BookSurvives, ShownFirst
    <2>4. CASE /\ IsNext(p)
               /\ part' = [part EXCEPT ![target] = Append(@, p.data)]
               /\ received' = Append(received, p.data)
               /\ UNCHANGED <<rState, acceptPending, drawn>>
      <3>1. p.data = rNext + 1 /\ rNext < Chunks
        BY <1>1, <1>5, <2>4 DEF Genuine, IsNext
      <3>2. /\ received' = FirstChunks(rNext + 1)
            /\ rNext + 1 \in 0 .. Chunks
        <4>1. Append(FirstChunks(rNext), rNext + 1) = FirstChunks(rNext + 1)
          BY <2>1, <3>1, BookLemma
        <4>2. rNext + 1 \in 0 .. Chunks
          BY <2>1, <3>1, SizesAssumption
        <4>3. received' = Append(FirstChunks(rNext), rNext + 1)
          BY <2>1, <2>4, <3>1
        <4>. QED  BY <4>1, <4>2, <4>3
      <3>3. received' \in Seq(1 .. Chunks) /\ Len(received') = rNext + 1 /\ Len(received') <= Chunks
        BY <3>2, BookLemma, SizesAssumption
      <3>4. received' \in Contents
        BY <3>3 DEF Contents
      <3>5. part'[target] = received' /\ part' \in [Names -> Contents]
        BY <2>1, <2>4, <3>4 DEF TypeOK
      <3>6. /\ UNCHANGED <<target, replacing, before, file, backup, acceptPending, drawn>>
            /\ rState = "Receiving" /\ rState' = "Receiving"
        BY <1>5, <2>4 DEF OnData
      <3>7. CardTypes'
        BY <3>3, <3>5, <3>6 DEF TypeOK, CardTypes
      <3>8. PartInOrder'
        BY <3>2, <3>3, <3>5, <3>6 DEF PartInOrder, CommitSteps
      <3>9. Targeted' /\ Replacing' /\ ShownFirst'
        BY <2>1, <3>6 DEF Targeted, Replacing, ShownFirst, Committed, CommitSteps, Prompts
      <3>10. WholeFilesOnly' /\ WholeBackups' /\ BookSurvives'
        BY <3>6 DEF Card, WholeFilesOnly, WholeBackups, BookSurvives
      <3>. QED  BY <3>7, <3>8, <3>9, <3>10 DEF Card
    <2>. QED  BY <1>5, <2>2, <2>3, <2>4 DEF OnData
  <1>6. CASE p.type = "Complete" /\ rState = "Receiving" /\ OnComplete(p)
    <2>1. CASE Verified(p)
      <3>1. received = Book
        BY <1>6, <2>1 DEF Verified, Card, PartInOrder, Book, rNext
      <3>2. /\ rState' = "Sync"
            /\ UNCHANGED <<acceptPending, drawn, part, received, target, replacing, before,
                           file, backup>>
        BY <1>6, <2>1 DEF OnComplete
      <3>3. CardTypes'
        BY <3>2 DEF TypeOK, CardTypes, CommitSteps
      <3>4. PartInOrder' /\ Targeted' /\ Replacing' /\ ShownFirst'
        BY <1>6, <3>1, <3>2 DEF Card, PartInOrder, Targeted, Replacing, ShownFirst, Committed,
                                CommitSteps, Prompts
      <3>5. WholeFilesOnly' /\ WholeBackups' /\ BookSurvives'
        BY <3>2 DEF Card, WholeFilesOnly, WholeBackups, BookSurvives
      <3>. QED  BY <3>3, <3>4, <3>5 DEF Card
    <2>2. CASE ~Verified(p)
      BY <1>6, <2>2, FailedCard DEF OnComplete, CommitFails, TypeOK
    <2>. QED  BY <2>1, <2>2
  <1>7. CASE ROnCancel
    BY <1>7, FailedCard DEF ROnCancel, TypeOK
  <1>. QED
    BY <1>2, <1>3, <1>4, <1>5, <1>6, <1>7
    DEF ReceiverHandles, RActs, OnOfferAgain, OnCompleteAgain

LEMMA CommitCard ==
    ASSUME TypeOK, Card, Commit
    PROVE  Card' /\ CardTypes'
  <1>1. /\ rState \in CommitSteps /\ target \in Names
        /\ UNCHANGED <<received, target, before>>
        /\ rState # "CleanUp" => part[target] = Book
    BY DEF Commit, Sync, DropBackup, SetAside, Swap, RollBack, CleanUp, Step, CommitSteps,
           Card, Targeted, Committed, PartInOrder
  <1>2. /\ file[target] \in {None, OldFile, Book} /\ backup[target] \in {None, OldFile, Book}
        /\ before[target] \in {None, OldFile, Book}
    BY <1>1 DEF Card, WholeFilesOnly, WholeBackups
  <1>3. CASE CommitFails /\ UNCHANGED <<file, backup>> /\ replacing' \in BOOLEAN
    BY <1>1, <1>3, FailedCard DEF CommitFails
  <1> USE <1>1, <1>2, NoneAssumption, BookTypes
      DEF TypeOK, CardTypes, CommitSteps, Committed, Prompts
  <1>4. CASE Sync /\ ~CommitFails
    <2>1. /\ rState = "Sync" /\ replacing' = (file[target] # None)
          /\ rState' = IF file[target] # None THEN "DropBackup" ELSE "Swap"
          /\ UNCHANGED <<acceptPending, drawn, part, file, backup>>
      BY <1>4 DEF Sync, Fails
    <2>2. CardTypes'
      BY <2>1
    <2>3. PartInOrder' /\ Targeted' /\ ShownFirst'
      BY <2>1 DEF PartInOrder, Targeted, ShownFirst
    <2>4. Replacing'
      BY <2>1 DEF Card, Replacing
    <2>5. WholeFilesOnly' /\ WholeBackups' /\ BookSurvives'
      BY <2>1 DEF Card, WholeFilesOnly, WholeBackups, BookSurvives
    <2>. QED  BY <2>2, <2>3, <2>4, <2>5 DEF Card
  <1>5. CASE DropBackup
    <2>1. /\ rState = "DropBackup" /\ rState' = "SetAside"
          /\ backup' = [backup EXCEPT ![target] = None]
          /\ UNCHANGED <<acceptPending, drawn, replacing, file, part>>
      BY <1>5 DEF DropBackup, Step
    <2>2. replacing /\ file[target] # None /\ file = before
      BY <2>1 DEF Card, Replacing
    <2>3. CardTypes'
      BY <2>1
    <2>4. PartInOrder' /\ Targeted' /\ ShownFirst' /\ Replacing'
      BY <2>1, <2>2 DEF PartInOrder, Targeted, ShownFirst, Replacing
    <2>5. WholeFilesOnly' /\ WholeBackups'
      BY <2>1 DEF Card, WholeFilesOnly, WholeBackups
    <2>6. BookSurvives'
      BY <2>1, <2>2 DEF Card, BookSurvives, Names
    <2>. QED  BY <2>3, <2>4, <2>5, <2>6 DEF Card
  <1>6. CASE SetAside /\ ~CommitFails
    <2>1. /\ rState = "SetAside" /\ rState' = "Swap"
          /\ backup' = [backup EXCEPT ![target] = file[target]]
          /\ file' = [file EXCEPT ![target] = None]
          /\ UNCHANGED <<acceptPending, drawn, replacing, part>>
      BY <1>6 DEF SetAside, Fails, SavedOld
    <2>2. replacing /\ file[target] # None /\ file = before
      BY <2>1 DEF Card, Replacing
    <2>3. CardTypes'
      BY <2>1
    <2>4. PartInOrder' /\ Targeted' /\ ShownFirst' /\ Replacing'
      BY <2>1, <2>2 DEF PartInOrder, Targeted, ShownFirst, Replacing
    <2>5. WholeFilesOnly' /\ WholeBackups'
      BY <2>1 DEF Card, WholeFilesOnly, WholeBackups
    <2>6. BookSurvives'
      BY <2>1, <2>2 DEF Card, BookSurvives, Names
    <2>. QED  BY <2>3, <2>4, <2>5, <2>6 DEF Card
  <1>7. CASE Swap /\ rState' = "CleanUp"
    <2>1. /\ rState = "Swap"
          /\ file' = [file EXCEPT ![target] = Book]
          /\ part' = [part EXCEPT ![target] = None]
          /\ UNCHANGED <<acceptPending, drawn, replacing, backup>>
      BY <1>7 DEF Swap, Fails, CommitFails, RFail
    <2>2. CardTypes'
      BY <1>7, <2>1
    <2>3. PartInOrder' /\ Targeted' /\ ShownFirst' /\ Replacing'
      BY <1>7, <2>1 DEF PartInOrder, Targeted, ShownFirst, Replacing
    <2>4. WholeFilesOnly' /\ WholeBackups'
      BY <2>1 DEF Card, WholeFilesOnly, WholeBackups
    <2>5. BookSurvives'
      BY <2>1 DEF Card, BookSurvives, Names
    <2>. QED  BY <2>2, <2>3, <2>4, <2>5 DEF Card
  <1>8. CASE Swap /\ rState' = "RollBack"
    <2>1. /\ rState = "Swap" /\ replacing
          /\ UNCHANGED <<acceptPending, drawn, replacing, file, part, backup>>
      BY <1>8 DEF Swap, Fails, CommitFails, RFail
    <2>2. CardTypes'
      BY <1>8, <2>1
    <2>3. PartInOrder' /\ Targeted' /\ ShownFirst' /\ Replacing'
      BY <1>8, <2>1 DEF Card, PartInOrder, Targeted, ShownFirst, Replacing
    <2>4. WholeFilesOnly' /\ WholeBackups' /\ BookSurvives'
      BY <2>1 DEF Card, WholeFilesOnly, WholeBackups, BookSurvives
    <2>. QED  BY <2>2, <2>3, <2>4 DEF Card
  <1>9. CASE Swap /\ CommitFails /\ UNCHANGED <<file, replacing>>
    BY <1>3, <1>9 DEF Swap
  <1>10. CASE RollBack
    <2>1. /\ rState = "RollBack" /\ CommitFails /\ UNCHANGED replacing
          /\ \/ UNCHANGED <<file, backup>>
             \/ /\ file' = [file EXCEPT ![target] = backup[target]]
                /\ backup' = [backup EXCEPT ![target] = None]
      BY <1>10 DEF RollBack
    <2>2. CASE UNCHANGED <<file, backup>>
      BY <1>3, <2>1, <2>2
    <2>3. CASE /\ file' = [file EXCEPT ![target] = backup[target]]
               /\ backup' = [backup EXCEPT ![target] = None]
      <3>1. /\ rState' = "Error" /\ acceptPending' = FALSE /\ drawn' = FALSE
            /\ part' \in [Names -> Contents]
        BY <2>1, DiscardedType DEF CommitFails, RFail
      <3>2. CardTypes'
        BY <2>1, <2>3, <3>1
      <3>3. PartInOrder' /\ Targeted' /\ ShownFirst' /\ Replacing'
        BY <3>1 DEF PartInOrder, Targeted, ShownFirst, Replacing
      <3>4. WholeFilesOnly' /\ WholeBackups'
        BY <2>3 DEF Card, WholeFilesOnly, WholeBackups
      <3>5. file[target] = None
        BY <2>1 DEF Card, Replacing
      <3>6. BookSurvives'
        BY <2>3, <3>5 DEF Card, BookSurvives, Names
      <3>. QED  BY <3>2, <3>3, <3>4, <3>6 DEF Card
    <2>. QED  BY <2>1, <2>2, <2>3
  <1>11. CASE CleanUp
    <2>1. /\ rState = "CleanUp" /\ rState' = "Success"
          /\ backup' \in {backup, [backup EXCEPT ![target] = None]}
          /\ UNCHANGED <<acceptPending, drawn, replacing, file, part>>
      BY <1>11 DEF CleanUp, Step
    <2>2. file[target] = Book
      BY <2>1 DEF Card, Replacing
    <2>3. CardTypes'
      BY <2>1
    <2>4. PartInOrder' /\ Targeted' /\ ShownFirst' /\ Replacing'
      BY <2>1, <2>2 DEF Card, PartInOrder, Targeted, ShownFirst, Replacing
    <2>5. WholeFilesOnly' /\ WholeBackups'
      BY <2>1 DEF Card, WholeFilesOnly, WholeBackups
    <2>6. BookSurvives'
      BY <2>1, <2>2 DEF Card, BookSurvives, Names
    <2>. QED  BY <2>3, <2>4, <2>5, <2>6 DEF Card
  <1>12. Sync /\ CommitFails => UNCHANGED <<file, backup>> /\ replacing' \in BOOLEAN
    BY DEF Sync
  <1>13. SetAside /\ CommitFails => rState' = "Error"
    BY DEF CommitFails, RFail
  <1>. QED
    BY <1>3, <1>4, <1>5, <1>6, <1>7, <1>8, <1>9, <1>10, <1>11, <1>12, <1>13
    DEF Commit, Swap, SetAside, Fails

LEMMA CardStep ==
    ASSUME TypeOK, Card, NotAhead, Receives
    PROVE  Card' /\ CardTypes'
  <1>0. <<>> \in Seq(1 .. Chunks) /\ Len(<<>>) = 0 /\ Len(<<>>) <= Chunks /\ 0 <= Chunks
    BY BookTypes, SizesAssumption
  <1> USE DEF TypeOK, diskVars
  <1>1. CASE ReceiverHandles
    BY <1>1, HandlerCard
  <1>2. CASE Commit
    BY <1>2, CommitCard
  <1>3. CASE Draw
    BY <1>3 DEF Draw, CardTypes, Card, PartInOrder, Targeted, Replacing,
                WholeFilesOnly, WholeBackups, BookSurvives, ShownFirst
  <1>4. CASE SendPendingAccept
    <2>1. CASE \E ps : RFail(ps)
      BY <1>4, <2>1, FailedCard DEF SendPendingAccept
    <2>2. CASE acceptPending' = FALSE /\ UNCHANGED <<rState, drawn, part>>
      BY <1>4, <2>2 DEF SendPendingAccept, CardTypes, Card, PartInOrder, Targeted, Replacing,
                        WholeFilesOnly, WholeBackups, BookSurvives, ShownFirst
    <2>. QED  BY <1>4, <2>1, <2>2 DEF SendPendingAccept
  <1>5. CASE ReceiveTimer
    BY <1>5, FailedCard DEF ReceiveTimer
  <1>6. CASE StartListening \/ RejectOffer
    <2>1. /\ UNCHANGED <<file, backup, part, before, acceptPending, drawn, replacing>>
          /\ rState' = "Listening" /\ target' = None /\ received' = <<>>
      BY <1>6 DEF StartListening, RejectOffer, Listen
    <2>. QED  BY <1>0, <2>1, CardUntouched
  <1>7. CASE ConfirmCollision
    BY <1>7, CardUntouched DEF ConfirmCollision, Card, Targeted, Prompts
  <1>8. CASE ReceiverLeaves
    <2>1. /\ UNCHANGED <<file, backup, before>> /\ part' \in [Names -> Contents]
          /\ rState' = "Off" /\ target' = None /\ received' = <<>>
          /\ acceptPending' = FALSE /\ drawn' = FALSE /\ replacing' = FALSE
      BY <1>8, DiscardedType DEF ReceiverLeaves, RGone
    <2>. QED  BY <1>0, <2>1, CardUntouched
  <1>9. CASE ReceiverLosesPower
    <2>1. /\ UNCHANGED <<file, backup, part, before>>
          /\ rState' = "Off" /\ target' = None /\ received' = <<>>
          /\ acceptPending' = FALSE /\ drawn' = FALSE /\ replacing' = FALSE
      BY <1>9 DEF ReceiverLosesPower, RGone
    <2>. QED  BY <1>0, <2>1, CardUntouched
  <1>10. ASSUME NEW name \in Names, AcceptOffer(name)
         PROVE  Card' /\ CardTypes'
    <2>1. UNCHANGED <<file, backup, replacing>> /\ before' = file
      BY <1>10 DEF AcceptOffer
    <2>2. CASE \E ps : RFail(ps) /\ UNCHANGED <<target, received>>
      BY <2>1, <2>2, FailedCard
    <2>3. CASE CannotOpen(name)
      BY <2>1, <2>3, CardUntouched, BookTypes DEF CannotOpen
    <2>4. CASE Opens(name)
      <3>1. /\ rState' = "Receiving" /\ target' = name /\ received' = <<>>
            /\ part'[name] = <<>> /\ part' \in [Names -> Contents]
            /\ acceptPending' = TRUE /\ drawn' = FALSE
        BY <2>4, BookTypes DEF Opens, PartStarted
      <3>2. CardTypes'
        BY <1>0, <2>1, <3>1 DEF CardTypes
      <3>3. PartInOrder'
        BY <3>1, BookTypes DEF PartInOrder, CommitSteps
      <3>4. Targeted' /\ Replacing' /\ ShownFirst'
        BY <2>1, <3>1 DEF Targeted, Replacing, ShownFirst, Committed, CommitSteps, Prompts
      <3>5. WholeFilesOnly' /\ WholeBackups' /\ BookSurvives'
        BY <2>1 DEF Card, WholeFilesOnly, WholeBackups, BookSurvives
      <3>. QED  BY <3>2, <3>3, <3>4, <3>5 DEF Card
    <2>. QED
      BY <1>10, <2>2, <2>3, <2>4 DEF AcceptOffer, NoFreeName, DoesNotFit
  <1>. QED
    BY <1>1, <1>2, <1>3, <1>4, <1>5, <1>6, <1>7, <1>8, <1>9, <1>10 DEF Receives, Receiver

-----------------------------------------------------------------------------
(* What the receiver does, as far as the packets are concerned.            *)
Same == UNCHANGED <<rSession, received>>
HeadIs(type) ==
    /\ toR # <<>> /\ toR' = Tail(toR)
    /\ Head(toR).type = type /\ Head(toR).session = rSession
Underway == rState \in CommitSteps \/ HeadIs("Data") \/ HeadIs("Complete")

Listens ==
    /\ rState' = "Listening" /\ UNCHANGED rSession /\ received' = <<>>
    /\ Adds(toS, toS', {RPacket("Reject", 0, 0)})

Hears ==
    /\ rState = "Listening" /\ rState' = "Listening" /\ UNCHANGED received
    /\ \E p \in Queued(toR) : p.type = "Discover" /\ rSession' = p.session
    /\ Adds(toS, toS', {Packet("Advertise", rSession', 0, 0)})

Prompted ==
    /\ rState' \in Prompts /\ UNCHANGED received /\ toS' = toS
    /\ \/ rState \in Prompts /\ UNCHANGED rSession
       \/ /\ rState = "Listening"
          /\ \E p \in Queued(toR) : p.type = "Offer" /\ rSession' = p.session

Opened ==
    /\ rState \in Prompts /\ rState' = "Receiving" /\ UNCHANGED rSession
    /\ received' = <<>> /\ toS' = toS

Writes ==
    /\ rState = "Receiving" /\ rState' = "Receiving" /\ UNCHANGED rSession
    /\ HeadIs("Data") /\ Head(toR).seq = rNext /\ Len(received') = rNext + 1
    /\ Adds(toS, toS', {RPacket("Ack", rNext + 1, 0)})

AcksAgain ==
    /\ rState = "Receiving" /\ rState' = "Receiving" /\ Same
    /\ HeadIs("Data")
    /\ Adds(toS, toS', {RPacket("Ack", rNext, 0)})

Verifies ==
    /\ rState = "Receiving" /\ rState' = "Sync" /\ Same
    /\ HeadIs("Complete") /\ toS' = toS

Commits == rState \in CommitSteps /\ rState' \in CommitSteps /\ Same /\ toS' = toS

Reports ==
    /\ rState \in {"CleanUp", "Success"} /\ rState' = "Success" /\ Same
    /\ Adds(toS, toS', {RPacket("Result", 0, OK)})

Breaks ==
    /\ rState' = "Error" /\ Same
    /\ Adds(toS, toS', {Cancelled, RPacket("Reject", 0, 0)}
                          \cup IF Underway THEN {RPacket("Result", 0, FAILED)} ELSE {})

Quiet ==
    /\ UNCHANGED rState /\ Same
    /\ Adds(toS, toS', {RPacket("Accept", 0, 0)})
    /\ toS' = toS \/ (drawn /\ drawn')

Gone ==
    /\ rState' = "Off" /\ rSession' = 0 /\ received' = <<>> /\ toR' = <<>>
    /\ Adds(toS, toS', {Cancelled})

ReceiverMove ==
    \/ Listens \/ Hears \/ Prompted \/ Opened \/ Writes \/ AcksAgain \/ Verifies
    \/ Commits \/ Reports \/ Breaks \/ Quiet \/ Gone

\* A stored file stays: only the commit writes one.
Deaf ==
    /\ UNCHANGED sVars /\ Rest(toR, toR') /\ rSession' \in 0 .. Sessions
    /\ rState \in CommitSteps \/ UNCHANGED file

LEMMA AddsMore ==
    ASSUME NEW q, NEW r, NEW P, NEW P2, Adds(q, r, P), P \subseteq P2
    PROVE  Adds(q, r, P2)
  BY DEF Adds

LEMMA RPackets ==
    ASSUME TypeOK
    PROVE  /\ RPacket("Reject", 0, 0) \in Packets /\ RPacket("Accept", 0, 0) \in Packets
           /\ RPacket("Result", 0, OK) \in Packets /\ RPacket("Result", 0, FAILED) \in Packets
           /\ Cancelled \in Packets
           /\ \A n \in 0 .. Chunks : RPacket("Ack", n, 0) \in Packets
  <1>1. /\ 0 \in 0 .. Chunks /\ 0 \in 0 .. Chunks + 1 /\ 1 \in 0 .. Chunks + 1
        /\ rSession \in 0 .. Sessions
    BY SizesAssumption DEF TypeOK
  <1>. QED  BY <1>1, PacketIsPacket DEF RPacket, Cancelled, OK, FAILED

LEMMA FailBreaks ==
    ASSUME TypeOK, Same,
           \/ RFail(<<Cancelled>>) \/ RFail(<<Cancelled, Cancelled>>)
           \/ RFail(<<RPacket("Reject", 0, 0), Cancelled>>)
           \/ Underway /\ RFail(<<RPacket("Result", 0, FAILED), Cancelled>>)
           \/ Underway /\ CommitFails
    PROVE  Breaks
  <1> DEFINE All == {Cancelled, RPacket("Reject", 0, 0)}
                      \cup IF Underway THEN {RPacket("Result", 0, FAILED)} ELSE {}
  <1>1. CASE RFail(<<Cancelled>>)
    <2>1. Adds(toS, toS', {Cancelled})
      BY <1>1, RPackets, ToSenderOne DEF RFail
    <2>2. Adds(toS, toS', All)
      BY <2>1, AddsMore
    <2>. QED  BY <1>1, <2>2 DEF Breaks, RFail
  <1>2. CASE RFail(<<Cancelled, Cancelled>>)
    <2>1. Adds(toS, toS', {Cancelled, Cancelled})
      BY <1>2, RPackets, ToSenderTwo DEF RFail
    <2>2. Adds(toS, toS', All)
      BY <2>1, AddsMore
    <2>. QED  BY <1>2, <2>2 DEF Breaks, RFail
  <1>3. CASE RFail(<<RPacket("Reject", 0, 0), Cancelled>>)
    <2>1. Adds(toS, toS', {RPacket("Reject", 0, 0), Cancelled})
      BY <1>3, RPackets, ToSenderTwo DEF RFail
    <2>2. Adds(toS, toS', All)
      BY <2>1, AddsMore
    <2>. QED  BY <1>3, <2>2 DEF Breaks, RFail
  <1>4. CASE Underway /\ RFail(<<RPacket("Result", 0, FAILED), Cancelled>>)
    <2>1. Adds(toS, toS', {RPacket("Result", 0, FAILED), Cancelled})
      BY <1>4, RPackets, ToSenderTwo DEF RFail
    <2>2. Adds(toS, toS', All)
      BY <1>4, <2>1, AddsMore
    <2>. QED  BY <1>4, <2>2 DEF Breaks, RFail
  <1>5. CASE Underway /\ CommitFails
    <2>1. Adds(toS, toS', {Cancelled, RPacket("Result", 0, FAILED)})
      BY <1>5, RPackets, ToSenderTwo DEF CommitFails, RFail
    <2>2. Adds(toS, toS', All)
      BY <1>5, <2>1, AddsMore
    <2>. QED  BY <1>5, <2>2 DEF Breaks, CommitFails, RFail
  <1>. QED  BY <1>1, <1>2, <1>3, <1>4, <1>5

LEMMA QueueTypes ==
    ASSUME TypeOK
    PROVE  /\ toR \in Seq(Packets) /\ Len(toR) <= QueueLength
           /\ toS \in Seq(Packets) /\ Len(toS) <= QueueLength
           /\ \A P : Adds(toS, toS, P)
  BY AddsNothing DEF TypeOK

LEMMA ReceiverHandlerMoves ==
    ASSUME TypeOK, Card, NotAhead, ReceiverHandles
    PROVE  ReceiverMove /\ Deaf
  <1> DEFINE p == Head(toR)
  <1>1. /\ toR # <<>> /\ toR' = Tail(toR) /\ UNCHANGED sVars /\ Rest(toR, toR')
        /\ p \in Packets /\ p \in Queued(toR) /\ Genuine(p)
    BY QueueTypes, HeadQueued DEF ReceiverHandles, NotAhead, Rest
  <1>2. rSession \in 0 .. Sessions /\ p.session \in 0 .. Sessions
    BY <1>1 DEF TypeOK, Packets
  <1>3. CASE UNCHANGED <<rVars, diskVars, toS>>
    BY <1>1, <1>2, <1>3, QueueTypes DEF ReceiverMove, Quiet, Same, Deaf, rVars, diskVars
  <1>4. CASE p.type = "Discover" /\ rState = "Listening" /\ OnDiscover(p)
    <2>1. Packet("Advertise", p.session, 0, 0) \in Packets
      BY <1>2, PacketIsPacket, SizesAssumption
    <2>2. Hears
      BY <1>1, <1>4, <2>1, ToSenderOne DEF OnDiscover, Hears
    <2>. QED  BY <1>1, <1>2, <1>4, <2>2 DEF ReceiverMove, Deaf, OnDiscover, diskVars
  <1>5. CASE p.type = "Offer" /\ rState = "Listening" /\ OnOffer(p)
    <2>1. Prompted
      BY <1>1, <1>5 DEF OnOffer, Prompted, Prompts
    <2>. QED  BY <1>1, <1>2, <1>5, <2>1 DEF ReceiverMove, Deaf, OnOffer, diskVars
  <1>6. CASE rState = "Receiving" /\ OnOfferAgain
    <2>1. Adds(toS, toS', {RPacket("Accept", 0, 0)})
      BY <1>6, RPackets, ToSenderOne, QueueTypes DEF OnOfferAgain, RSend
    <2>2. toS' = toS \/ (drawn /\ drawn')
      BY <1>6 DEF OnOfferAgain, AnswersOffer, Card, ShownFirst, rVars
    <2>. QED
      BY <1>1, <1>2, <1>6, <2>1, <2>2
      DEF ReceiverMove, Quiet, Same, Deaf, OnOfferAgain, rVars, diskVars
  <1>7. CASE RActs(p) /\ p.type = "Data" /\ OnData(p)
    <2>1. rState = "Receiving" /\ HeadIs("Data") /\ UNCHANGED <<rSession, file>>
      BY <1>1, <1>7 DEF RActs, HeadIs, OnData
    <2>2. CASE IsNext(p) /\ received' = Append(received, p.data) /\ UNCHANGED rState
               /\ RSend("Ack", rNext + 1, 0)
      <3>1. p.seq = rNext /\ rNext < Chunks /\ p.data \in 0 .. Chunks + 1 /\ rNext \in Nat
        <4>1. p.seq = rNext /\ p.seq < Chunks
          BY <1>1, <1>7, <2>2 DEF Genuine, IsNext
        <4>2. p.data \in 0 .. Chunks + 1 /\ p.seq \in 0 .. Chunks
          BY <1>1 DEF Packets
        <4>. QED  BY <4>1, <4>2, SizesAssumption
      <3>2. rNext + 1 \in 0 .. Chunks /\ p.data = rNext + 1
        BY <1>1, <1>7, <3>1, SizesAssumption DEF Genuine
      <3>3. Len(received') = rNext + 1
        <4>1. p.data \in 1 .. Chunks /\ received \in Seq(1 .. Chunks)
          BY <3>1, <3>2, SizesAssumption DEF TypeOK
        <4>. QED  BY <2>2, <4>1, AppendProperties DEF rNext
      <3>4. Adds(toS, toS', {RPacket("Ack", rNext + 1, 0)})
        BY <2>2, <3>2, RPackets, ToSenderOne DEF RSend
      <3>5. Writes
        BY <2>1, <2>2, <3>1, <3>3, <3>4 DEF Writes
      <3>. QED  BY <1>1, <1>2, <2>1, <3>5 DEF ReceiverMove, Deaf
    <2>3. CASE RFail(<<RPacket("Result", 0, FAILED), Cancelled>>) /\ UNCHANGED received
      <3>1. Breaks
        BY <2>1, <2>3, FailBreaks DEF Same, Underway
      <3>. QED  BY <1>1, <1>2, <2>1, <3>1 DEF ReceiverMove, Deaf
    <2>4. CASE UNCHANGED <<rState, received>> /\ RSend("Ack", rNext, 0)
      <3>1. rNext \in 0 .. Chunks
        BY LenProperties, SizesAssumption DEF TypeOK, rNext
      <3>2. Adds(toS, toS', {RPacket("Ack", rNext, 0)})
        BY <2>4, <3>1, RPackets, ToSenderOne DEF RSend
      <3>3. AcksAgain
        BY <2>1, <2>4, <3>2 DEF AcksAgain, Same
      <3>. QED  BY <1>1, <1>2, <2>1, <3>3 DEF ReceiverMove, Deaf
    <2>. QED  BY <1>7, <2>2, <2>3, <2>4 DEF OnData
  <1>8. CASE RActs(p) /\ p.type = "Complete" /\ rState = "Receiving" /\ OnComplete(p)
    <2>1. HeadIs("Complete") /\ UNCHANGED <<rSession, received, file>>
      BY <1>1, <1>8 DEF RActs, HeadIs, OnComplete
    <2>2. CASE rState' = "Sync" /\ UNCHANGED toS
      <3>1. Verifies
        BY <1>8, <2>1, <2>2 DEF Verifies, Same
      <3>. QED  BY <1>1, <1>2, <2>1, <3>1 DEF ReceiverMove, Deaf
    <2>3. CASE CommitFails
      <3>1. Breaks
        BY <2>1, <2>3, FailBreaks DEF Same, Underway
      <3>. QED  BY <1>1, <1>2, <2>1, <3>1 DEF ReceiverMove, Deaf
    <2>. QED  BY <1>8, <2>2, <2>3 DEF OnComplete
  <1>9. CASE rState = "Success" /\ OnCompleteAgain
    <2>1. Adds(toS, toS', {RPacket("Result", 0, OK)})
      BY <1>9, RPackets, ToSenderOne DEF OnCompleteAgain, RSend
    <2>. QED
      BY <1>1, <1>2, <1>9, <2>1
      DEF ReceiverMove, Reports, Same, Deaf, OnCompleteAgain, rVars, diskVars
  <1>10. CASE ROnCancel
    <2>1. Breaks
      BY <1>10, FailBreaks DEF ROnCancel, Same
    <2>. QED  BY <1>1, <1>2, <1>10, <2>1 DEF ReceiverMove, Deaf, ROnCancel
  <1>11. CASE RActs(p)
    <2>1. \/ p.type = "Discover" /\ OnDiscover(p)
          \/ p.type = "Offer" /\ rState = "Listening" /\ OnOffer(p)
          \/ p.type = "Offer" /\ rState # "Listening" /\ OnOfferAgain
          \/ p.type = "Data" /\ OnData(p)
          \/ p.type = "Complete" /\ rState = "Receiving" /\ OnComplete(p)
          \/ p.type = "Complete" /\ rState = "Success" /\ OnCompleteAgain
          \/ p.type = "Cancel" /\ ROnCancel
      BY <1>11 DEF ReceiverHandles
    <2>2. /\ p.type = "Discover" => rState = "Listening"
          /\ p.type = "Offer" => rState \in {"Listening", "Receiving"}
      BY <1>11 DEF RActs
    <2>. QED  BY <1>4, <1>5, <1>6, <1>7, <1>8, <1>9, <1>10, <1>11, <2>1, <2>2
  <1>. QED  BY <1>3, <1>11 DEF ReceiverHandles

LEMMA CommitMoves ==
    ASSUME TypeOK, Commit
    PROVE  ReceiverMove /\ Deaf
  <1>1. /\ UNCHANGED <<rSession, received, sVars, toR>>
        /\ rState \in CommitSteps /\ rSession \in 0 .. Sessions
    BY DEF Commit, Sync, DropBackup, SetAside, Swap, RollBack, CleanUp, Step, CommitSteps,
           TypeOK
  <1>2. Deaf /\ Same
    BY <1>1 DEF Deaf, Rest, Same
  <1>3. CASE CommitFails
    BY <1>1, <1>2, <1>3, FailBreaks DEF Underway, ReceiverMove
  <1>4. CASE rState' \in CommitSteps /\ UNCHANGED toS
    BY <1>1, <1>2, <1>4 DEF Commits, ReceiverMove
  <1>5. CASE CleanUp
    <2>1. Adds(toS, toS', {RPacket("Result", 0, OK)})
      BY <1>5, RPackets, ToSenderOne DEF CleanUp, RSend
    <2>. QED  BY <1>2, <1>5, <2>1 DEF CleanUp, Step, Reports, ReceiverMove
  <1>. QED
    BY <1>3, <1>4, <1>5
    DEF Commit, Sync, DropBackup, SetAside, Swap, RollBack, Fails, Step, CommitSteps

LEMMA ReceiverMoves ==
    ASSUME TypeOK, Card, NotAhead, Receives
    PROVE  ReceiverMove /\ Deaf
  <1>1. rSession \in 0 .. Sessions /\ 0 \in 0 .. Sessions
    BY SizesAssumption DEF TypeOK
  <1>2. CASE ReceiverHandles
    BY <1>2, ReceiverHandlerMoves
  <1>3. CASE Commit
    BY <1>3, CommitMoves
  <1>4. CASE Draw
    <2>1. UNCHANGED <<rState, rSession, received, file, sVars, toR, toS>>
      BY <1>4 DEF Draw, diskVars
    <2>. QED  BY <1>1, <2>1, QueueTypes DEF ReceiverMove, Quiet, Same, Deaf, Rest
  <1>5. CASE SendPendingAccept
    <2>1. UNCHANGED <<rSession, received, file, sVars, toR>>
      BY <1>5 DEF SendPendingAccept
    <2>2. Deaf /\ Same
      BY <1>1, <2>1 DEF Deaf, Rest, Same
    <2>3. CASE RFail(<<Cancelled>>)
      BY <2>2, <2>3, FailBreaks DEF ReceiverMove
    <2>4. CASE RSend("Accept", 0, 0) /\ UNCHANGED <<rState, drawn>> /\ drawn
      <3>1. Adds(toS, toS', {RPacket("Accept", 0, 0)})
        BY <2>4, RPackets, ToSenderOne DEF RSend
      <3>. QED  BY <2>2, <2>4, <3>1 DEF Quiet, ReceiverMove
    <2>. QED  BY <1>5, <2>3, <2>4 DEF SendPendingAccept
  <1>6. CASE ReceiveTimer
    <2>1. UNCHANGED <<rSession, received, file, sVars, toR>> /\ RFail(<<Cancelled>>)
      BY <1>6 DEF ReceiveTimer
    <2>. QED  BY <1>1, <2>1, FailBreaks DEF Deaf, Rest, Same, ReceiverMove
  <1>7. CASE StartListening \/ RejectOffer
    <2>1. /\ UNCHANGED <<rSession, file, sVars, toR>>
          /\ rState' = "Listening" /\ received' = <<>>
      BY <1>7 DEF StartListening, RejectOffer, Listen, diskVars
    <2>2. Adds(toS, toS', {RPacket("Reject", 0, 0)})
      BY <1>7, RPackets, ToSenderOne, QueueTypes DEF StartListening, RejectOffer, RSend
    <2>. QED  BY <1>1, <2>1, <2>2 DEF Listens, Deaf, Rest, ReceiverMove
  <1>8. CASE ConfirmCollision
    BY <1>1, <1>8
    DEF ConfirmCollision, Prompted, Prompts, Deaf, Rest, ReceiverMove, diskVars
  <1>9. CASE ReceiverLeaves
    <2>1. UNCHANGED <<file, sVars>> /\ RGone
      BY <1>9 DEF ReceiverLeaves
    <2>2. Adds(toS, toS', {Cancelled})
      BY <1>9, RPackets, ToSenderOne, QueueTypes DEF ReceiverLeaves
    <2>. QED  BY <1>1, <2>1, <2>2 DEF RGone, Gone, Deaf, Rest, ReceiverMove
  <1>10. CASE ReceiverLosesPower
    BY <1>1, <1>10, QueueTypes
    DEF ReceiverLosesPower, RGone, Gone, Deaf, Rest, ReceiverMove, diskVars
  <1>11. ASSUME NEW name \in Names, AcceptOffer(name)
         PROVE  ReceiverMove /\ Deaf
    <2>1. UNCHANGED <<rSession, file, sVars, toR>> /\ rState \in Prompts
      BY <1>11 DEF AcceptOffer, Prompts
    <2>2. Deaf
      BY <1>1, <2>1 DEF Deaf, Rest
    <2>3. CASE Opens(name)
      BY <2>1, <2>2, <2>3 DEF Opens, Opened, ReceiverMove
    <2>4. CASE NoFreeName \/ DoesNotFit
      BY <2>1, <2>2, <2>4, FailBreaks DEF NoFreeName, DoesNotFit, Same, ReceiverMove
    <2>5. CASE CannotOpen(name)
      <3>1. Adds(toS, toS', {Cancelled})
        BY <2>5, RPackets, ToSenderOne DEF CannotOpen
      <3>2. Adds(toS, toS', {Cancelled, RPacket("Reject", 0, 0)}
                              \cup IF Underway THEN {RPacket("Result", 0, FAILED)} ELSE {})
        BY <3>1, AddsMore
      <3>. QED  BY <2>1, <2>2, <2>5, <3>2 DEF CannotOpen, Breaks, Same, ReceiverMove
    <2>. QED  BY <1>11, <2>3, <2>4, <2>5 DEF AcceptOffer
  <1>. QED
    BY <1>2, <1>3, <1>4, <1>5, <1>6, <1>7, <1>8, <1>9, <1>10, <1>11 DEF Receives, Receiver

-----------------------------------------------------------------------------
(* The sender keeps the packets' part of the invariant.                    *)

\* p is what the sender has just sent: never something it had gone beyond.
Sent(p) ==
    /\ p \in Packets /\ Adds(toR, toR', {p})
    /\ Genuine(p) /\ p.session = sSession' /\ Rank(p) <= SRank'
    /\ sSession' = sSession => SRank <= Rank(p)
    /\ p.type \in {"Discover", "Offer"} => sState' \in PreSending
    /\ p.type = "Data" => sState' = "Sending" /\ sNext' < Chunks
    /\ p.type = "Complete" => sState' = "Sending" /\ sNext' = Chunks

LEMMA RankTypes ==
    ASSUME TypeOK
    PROVE  /\ SRank \in Nat
           /\ \A p \in Packets : Rank(p) \in Nat /\ p.session \in Nat /\ p.seq \in Nat
  BY SizesAssumption DEF TypeOK, SRank, Packets, Rank

LEMMA NextPacketFacts ==
    ASSUME TypeOK, NEW n \in 0 .. Chunks
    PROVE  /\ NextPacket(n) \in Packets /\ Genuine(NextPacket(n))
           /\ NextPacket(n).session = sSession
           /\ Rank(NextPacket(n)) = 2 + n
           /\ NextPacket(n).type = IF n = Chunks THEN "Complete" ELSE "Data"
  <1>1. sSession \in 0 .. Sessions /\ 0 \in 0 .. Chunks
    BY SizesAssumption DEF TypeOK
  <1>2. CASE n = Chunks
    <2>1. NextPacket(n) = Packet("Complete", sSession, 0, n) /\ n \in 0 .. Chunks + 1
      BY <1>2, SizesAssumption DEF NextPacket
    <2>. QED  BY <1>1, <1>2, <2>1, PacketIsPacket, PacketFields DEF Genuine, Rank
  <1>3. CASE n # Chunks
    <2>1. NextPacket(n) = Packet("Data", sSession, n, n + 1) /\ n + 1 \in 0 .. Chunks + 1
      BY <1>3, SizesAssumption DEF NextPacket
    <2>2. n < Chunks
      BY <1>3, SizesAssumption
    <2>. QED  BY <1>1, <1>3, <2>1, <2>2, PacketIsPacket, PacketFields DEF Genuine, Rank
  <1>. QED  BY <1>2, <1>3

LEMMA CallFacts ==
    ASSUME NEW type \in {"Discover", "Offer", "Cancel"}, NEW session \in 0 .. Sessions
    PROVE  /\ Packet(type, session, 0, 0) \in Packets /\ Genuine(Packet(type, session, 0, 0))
           /\ Packet(type, session, 0, 0).session = session
           /\ Packet(type, session, 0, 0).type = type
           /\ Rank(Packet(type, session, 0, 0)) =
                IF type = "Discover" THEN 0 ELSE IF type = "Offer" THEN 1 ELSE 3 + Chunks
  BY PacketIsPacket, PacketFields, SizesAssumption DEF Genuine, Rank

LEMMA SenderSends ==
    ASSUME TypeOK, SenderMove
    PROVE  /\ toR' = toR \/ \E p : Sent(p)
           /\ \/ sSession' = sSession /\ SRank <= SRank' /\ SRank' \in Nat
              \/ sSession' = sSession + 1 /\ sState' = "Discovering" /\ toS' = toS
  <1>1. /\ sSession \in 0 .. Sessions /\ sNext \in 0 .. Chunks /\ Chunks \in Nat
        /\ 0 \in 0 .. Chunks /\ SRank \in Nat
    BY RankTypes, SizesAssumption DEF TypeOK
  <1>2. CASE Begins
    <2>1. Sent(Packet("Discover", sSession + 1, 0, 0))
      BY <1>1, <1>2, CallFacts DEF Begins, Sent, PreSending, SRank
    <2>. QED  BY <1>2, <2>1 DEF Begins
  <1>3. CASE Calls
    <2>1. PICK type \in {"Discover", "Offer"} :
            /\ SRank' = IF type = "Discover" THEN 0 ELSE 1
            /\ Adds(toR, toR', {Packet(type, sSession, 0, 0)})
      BY <1>3 DEF Calls
    <2>2. Sent(Packet(type, sSession, 0, 0))
      BY <1>1, <1>3, <2>1, CallFacts DEF Calls, Kept, Sent
    <2>. QED  BY <1>3, <2>1, <2>2 DEF Calls, Kept
  <1>4. CASE Starts
    <2>1. SRank = 1 /\ SRank' = 2
      BY <1>4 DEF Starts, SRank
    <2>2. Sent(NextPacket(0))
      BY <1>1, <1>4, <2>1, NextPacketFacts DEF Starts, Sent
    <2>. QED  BY <1>4, <2>1, <2>2 DEF Starts
  <1>5. CASE Advances
    <2>1. SRank = 2 + sNext /\ SRank' = 2 + (sNext + 1) /\ sNext + 1 \in 0 .. Chunks
      BY <1>1, <1>5 DEF Advances, SRank
    <2>2. Sent(NextPacket(sNext + 1))
      BY <1>1, <1>5, <2>1, NextPacketFacts DEF Advances, Sent
    <2>. QED  BY <1>1, <1>5, <2>1, <2>2 DEF Advances
  <1>6. CASE Repeats
    <2>1. SRank = 2 + sNext /\ SRank' = 2 + sNext
      BY <1>6 DEF Repeats, Kept, SRank
    <2>2. Sent(NextPacket(sNext))
      BY <1>1, <1>6, <2>1, NextPacketFacts DEF Repeats, Kept, Sent
    <2>. QED  BY <1>1, <1>6, <2>1, <2>2 DEF Repeats, Kept
  <1>7. CASE Ends
    <2>1. SRank' = 3 + Chunks /\ SRank <= 3 + Chunks
      <3>1. SRank' = 3 + Chunks
        BY <1>7 DEF Ends, SRank
      <3>2. SRank \in {0, 1, 2 + sNext, 2 + Chunks, 3 + Chunks}
        BY DEF SRank
      <3>. QED  BY <1>1, <3>1, <3>2
    <2>2. Sent(Packet("Cancel", sSession, 0, 0))
      BY <1>1, <1>7, <2>1, CallFacts DEF Ends, Sent
    <2>. QED  BY <1>1, <1>7, <2>1, <2>2 DEF Ends
  <1>8. CASE Succeeds
    BY <1>1, <1>8 DEF Succeeds, Kept, SRank
  <1>9. CASE Ignores
    BY <1>1, <1>9 DEF Ignores, Kept, SRank
  <1>. QED  BY <1>2, <1>3, <1>4, <1>5, <1>6, <1>7, <1>8, <1>9 DEF SenderMove

LEMMA SenderQueues ==
    ASSUME TypeOK, SenderMove, Silent
    PROVE  /\ Queued(toS') \subseteq Queued(toS)
           /\ toR' \in Seq(Packets) /\ Len(toR') <= QueueLength
           /\ toS' \in Seq(Packets) /\ Len(toS') <= QueueLength
           /\ Queued(toR) \subseteq Packets /\ Queued(toS) \subseteq Packets
           /\ \/ toR' = toR
              \/ \E p : Sent(p) /\ Queued(toR') \subseteq Queued(toR) \cup {p}
  <1>1. /\ toR \in Seq(Packets) /\ Len(toR) <= QueueLength
        /\ toS \in Seq(Packets) /\ Len(toS) <= QueueLength /\ Rest(toS, toS')
        /\ QueueLength \in Nat
    BY QueueTypes, SizesAssumption DEF Silent
  <1>2. Queued(toR) \subseteq Packets /\ Queued(toS) \subseteq Packets
    BY <1>1, QueuedPackets
  <1>3. /\ Queued(toS') \subseteq Queued(toS)
        /\ toS' \in Seq(Packets) /\ Len(toS') <= QueueLength
    BY <1>1, RestQueued
  <1>4. CASE toR' = toR
    BY <1>1, <1>2, <1>3, <1>4
  <1>5. ASSUME NEW p, Sent(p)
        PROVE  /\ Queued(toR') \subseteq Queued(toR) \cup {p}
               /\ toR' \in Seq(Packets) /\ Len(toR') <= QueueLength
    BY <1>1, <1>5, AddsQueued DEF Sent
  <1>. QED  BY <1>2, <1>3, <1>4, <1>5, SenderSends

LEMMA SenderNotAhead ==
    ASSUME TypeOK, NotAhead, SenderMove, Silent
    PROVE  NotAhead'
  <1>1. SUFFICES ASSUME NEW x \in Queued(toR')
                 PROVE  /\ Genuine(x) /\ x.session <= sSession'
                        /\ x.session = sSession' => Rank(x) <= SRank'
    BY DEF NotAhead, Genuine, Rank
  <1>2. sSession \in Nat /\ SRank \in Nat
    BY RankTypes DEF TypeOK
  <1>3. CASE x \in Queued(toR)
    <2>1. /\ Genuine(x) /\ x.session <= sSession /\ x.session \in Nat /\ Rank(x) \in Nat
          /\ x.session = sSession => Rank(x) <= SRank
      BY <1>3, RankTypes, SenderQueues DEF NotAhead
    <2>. QED  BY <1>2, <2>1, SenderSends
  <1>4. ASSUME NEW p, Sent(p), x = p
        PROVE  /\ Genuine(x) /\ x.session <= sSession'
               /\ x.session = sSession' => Rank(x) <= SRank'
    <2>1. sSession' \in Nat
      BY <1>2, SenderSends
    <2>. QED  BY <1>4, <2>1 DEF Sent
  <1>. QED  BY <1>1, <1>3, <1>4, SenderQueues

LEMMA SenderInOrder ==
    ASSUME TypeOK, NotAhead, InOrder, SenderMove
    PROVE  InOrder'
  <1>1. CASE toR' = toR
    BY <1>1 DEF InOrder, Orderly, Before, Rank
  <1>2. ASSUME NEW p, Sent(p)
        PROVE  InOrder'
    <2>1. p \in Packets /\ Adds(toR, toR', {p}) /\ toR \in Seq(Packets)
      BY <1>2, QueueTypes DEF Sent
    <2>2. Before(p, p)
      BY <2>1, RankTypes DEF Before
    <2>3. ASSUME NEW x \in Queued(toR)
          PROVE  Before(x, p)
      <3>1. /\ x \in Packets /\ x.session <= sSession
            /\ x.session = sSession => Rank(x) <= SRank
        BY <2>1, <2>3, QueuedPackets DEF NotAhead
      <3>2. /\ Rank(x) \in Nat /\ x.session \in Nat /\ sSession \in Nat /\ SRank \in Nat
            /\ Rank(p) \in Nat
        BY <2>1, <3>1, RankTypes DEF TypeOK
      <3>3. p.session = sSession' /\ (sSession' = sSession => SRank <= Rank(p))
        BY <1>2 DEF Sent
      <3>. QED  BY <3>1, <3>2, <3>3, SenderSends DEF Before
    <2>4. Orderly(toR')
      BY <2>1, <2>2, <2>3, OrderlyAdds DEF InOrder
    <2>. QED  BY <2>4 DEF InOrder, Orderly, Before, Rank
  <1>. QED  BY <1>1, <1>2, SenderSends

LEMMA SenderCounts ==
    ASSUME TypeOK, ReadAhead, NoLaterSession, SenderMove, Silent
    PROVE  ReadAhead' /\ NoLaterSession'
  <1>1. ReadAhead'
    BY DEF ReadAhead, SenderMove, Begins, Calls, Starts, Advances, Repeats, Ends, Succeeds,
           Ignores, Kept, ReadOnceAt, PreSending
  <1>2. /\ sSession \in Nat /\ rSession \in Nat /\ UNCHANGED rSession
        /\ sSession' \in {sSession, sSession + 1}
    BY SenderSends DEF TypeOK, Silent, rVars
  <1>3. \A p \in Queued(toS) : p.session \in Nat
    BY SenderQueues, RankTypes
  <1>4. rSession' <= sSession'
    BY <1>2 DEF NoLaterSession
  <1>5. ASSUME NEW p \in Queued(toS')
        PROVE  p.session <= sSession'
    <2>1. p.session <= sSession /\ p.session \in Nat
      BY <1>3, <1>5, SenderQueues DEF NoLaterSession
    <2>. QED  BY <1>2, <2>1
  <1>. QED  BY <1>1, <1>4, <1>5 DEF NoLaterSession

LEMMA SenderNothingYet ==
    ASSUME TypeOK, NoLaterSession, NothingYet, SenderMove, Silent
    PROVE  NothingYet'
  <1>1. UNCHANGED <<rState, rSession, received>>
    BY DEF Silent, rVars
  <1>2. CASE sState \in PreSending /\ sSession' = sSession
    BY <1>1, <1>2, SenderQueues DEF NothingYet
  <1>3. CASE sSession' = sSession + 1
    <2>1. sSession \in Nat /\ rSession \in Nat /\ rSession # sSession'
      BY <1>3 DEF TypeOK, NoLaterSession
    <2>2. \A p \in Queued(toS') : p.session # sSession'
      BY <1>3, <2>1, SenderQueues, RankTypes DEF NoLaterSession
    <2>. QED  BY <1>1, <2>1, <2>2 DEF NothingYet
  <1>4. CASE sState \notin PreSending /\ sSession' = sSession
    <2>1. sState' \notin PreSending
      BY <1>4 DEF SenderMove, Begins, Calls, Starts, Advances, Repeats, Ends, Succeeds,
                  Ignores, PreSending, TypeOK
    <2>. QED  BY <2>1 DEF NothingYet
  <1>. QED  BY <1>2, <1>3, <1>4, SenderSends

\* What the sender knows to be received it knew before its step.
LEMMA SenderMoved ==
    ASSUME TypeOK, NothingYet, SenderMove, Silent, Moved'
    PROVE  Moved /\ sSession' = sSession
  <1>1. sNext \in Nat /\ sState' = "Sending"
    BY DEF TypeOK, Moved
  <1>2. CASE Starts
    <2>1. PICK p \in Queued(toS') : p.type = "Ack" /\ p.session = sSession'
      BY <1>2 DEF Starts, Moved
    <2>2. p \in Queued(toS) /\ p.type = "Ack" /\ p.session = sSession
      BY <1>2, <2>1, SenderQueues DEF Starts
    <2>. QED  BY <1>2, <2>2 DEF Starts, NothingYet, PreSending
  <1>3. CASE Advances
    <2>1. \E p \in Queued(toS) : p.type = "Ack" /\ p.session = sSession /\ p.seq > 0
      BY <1>1, <1>3 DEF Advances
    <2>. QED  BY <1>3, <2>1 DEF Advances, Moved
  <1>4. CASE sState = "Sending" /\ Kept
    BY <1>4, SenderQueues DEF Moved, Kept
  <1>. QED
    BY <1>1, <1>2, <1>3, <1>4
    DEF SenderMove, Begins, Calls, Repeats, Ends, Succeeds, Ignores, Kept, PreSending

LEMMA SenderNotOfferedAgain ==
    ASSUME TypeOK, NothingYet, NotOfferedAgain, SenderMove, Silent
    PROVE  NotOfferedAgain'
  <1>1. SUFFICES ASSUME Moved' PROVE ~(Offered(sSession))'
    BY DEF NotOfferedAgain
  <1>2. ~Offered(sSession) /\ sSession' = sSession /\ sState' \notin PreSending
    BY <1>1, SenderMoved DEF NotOfferedAgain, Moved, PreSending
  <1>3. UNCHANGED <<rState, rSession>>
    BY DEF Silent, rVars
  <1>4. \A x \in Queued(toR') : x \in Queued(toR) \/ x.type \notin {"Discover", "Offer"}
    BY <1>2, SenderQueues DEF Sent
  <1>. QED  BY <1>2, <1>3, <1>4 DEF Offered

LEMMA SenderTogether ==
    ASSUME TypeOK, NothingYet, Together, SenderMove, Silent
    PROVE  Together'
  <1>1. SUFFICES ASSUME sState' = "Sending", rState' = "Receiving", rSession' = sSession'
                 PROVE  /\ sNext' <= rNext' /\ rNext' <= sNext' + 1
                        /\ \A p \in Queued(toS') :
                             p.type = "Ack" /\ p.session = sSession' => p.seq <= rNext'
    BY DEF Together
  <1>2. /\ UNCHANGED <<rState, rSession, received, rNext>> /\ rNext \in Nat /\ sNext \in Nat
        /\ rState = "Receiving"
    BY <1>1, LenProperties DEF Silent, rVars, TypeOK, rNext
  <1>3. CASE Starts
    <2>1. /\ received = <<>> /\ sSession' = sSession /\ sNext' = 0
          /\ \A p \in Queued(toS) : p.session = sSession => p.type # "Ack"
      BY <1>1, <1>2, <1>3 DEF Starts, NothingYet, PreSending
    <2>2. rNext = 0
      BY <2>1, EmptySeq DEF rNext
    <2>. QED  BY <1>2, <2>1, <2>2, SenderQueues
  <1>4. CASE Advances
    <2>1. /\ sNext <= rNext /\ rNext <= sNext + 1 /\ sSession' = sSession
          /\ \A p \in Queued(toS) : p.type = "Ack" /\ p.session = sSession => p.seq <= rNext
      BY <1>1, <1>2, <1>4 DEF Advances, Together
    <2>2. sNext + 1 <= rNext
      BY <1>4, <2>1 DEF Advances
    <2>. QED  BY <1>2, <1>4, <2>1, <2>2, SenderQueues DEF Advances
  <1>5. CASE sState = "Sending" /\ Kept
    BY <1>1, <1>2, <1>5, SenderQueues DEF Kept, Together
  <1>. QED
    BY <1>1, <1>3, <1>4, <1>5
    DEF SenderMove, Begins, Calls, Repeats, Ends, Succeeds, Ignores, Kept, PreSending

LEMMA SenderAllReceived ==
    ASSUME TypeOK, NoLaterSession, NothingYet, NotOfferedAgain, NotOfferedAgain', Together,
           Together', AllReceived, SenderMove, Silent, NotAhead
    PROVE  AllReceived'
  <1>1. UNCHANGED <<rState, rSession, received, rNext>> /\ rNext \in Nat /\ rNext <= Chunks
    BY LenProperties DEF Silent, rVars, TypeOK, rNext
  <1>2. SUFFICES ASSUME NEW c \in Queued(toR'), c.type = "Complete"
                 PROVE  /\ rState = "Receiving" /\ rSession = c.session => rNext = Chunks
                        /\ Chunks > 0 => ~(Offered(c.session))'
    BY <1>1 DEF AllReceived, Offered
  <1>3. CASE toR' = toR
    BY <1>1, <1>2, <1>3 DEF AllReceived, Offered
  <1>4. ASSUME NEW p, Sent(p), Queued(toR') \subseteq Queued(toR) \cup {p}
        PROVE  /\ rState = "Receiving" /\ rSession = c.session => rNext = Chunks
               /\ Chunks > 0 => ~(Offered(c.session))'
    <2>1. CASE c \in Queued(toR)
      <3>1. /\ rState = "Receiving" /\ rSession = c.session => rNext = Chunks
            /\ Chunks > 0 => ~Offered(c.session)
            /\ c.session <= sSession /\ c.session \in Nat
            /\ c.session = sSession => 2 + Chunks <= SRank
        BY <1>2, <2>1, SenderQueues, RankTypes DEF AllReceived, NotAhead, Rank
      <3>2. ASSUME p.session = c.session PROVE p.type \notin {"Discover", "Offer"}
        <4>1. sSession' = sSession /\ 2 + Chunks <= SRank
          BY <1>4, <3>1, <3>2, SenderSends DEF Sent, TypeOK
        <4>2. 2 + Chunks <= Rank(p) /\ Rank(p) \in Nat
          BY <1>4, <4>1, RankTypes, SizesAssumption DEF Sent
        <4>. QED  BY <4>2, SizesAssumption DEF Rank
      <3>. QED  BY <1>1, <1>4, <3>1, <3>2 DEF Offered
    <2>2. CASE c = p
      <3>1. c.session = sSession' /\ sState' = "Sending" /\ sNext' = Chunks
        BY <1>2, <1>4, <2>2 DEF Sent
      <3>2. Chunks > 0 => Moved'
        BY <3>1 DEF Moved
      <3>3. rState = "Receiving" /\ rSession = c.session => rNext = Chunks
        BY <1>1, <3>1, SizesAssumption DEF Together
      <3>. QED  BY <3>1, <3>2, <3>3 DEF NotOfferedAgain, Offered
    <2>. QED  BY <1>4, <2>1, <2>2
  <1>. QED  BY <1>3, <1>4, SenderQueues

LEMMA SenderOnlyEnds ==
    ASSUME TypeOK, SenderMove, Silent, OnlyTheEnd, sState' \in {"Sending", "Success"},
           sState' = "Sending" => sNext' = Chunks
    PROVE  OnlyTheEnd'
  <1>1. ASSUME NEW p, Sent(p)
        PROVE  p.type \in {"Complete", "Cancel"}
    <2>1. p.type # "Data"
      BY <1>1, SizesAssumption DEF Sent
    <2>2. p.type \notin {"Discover", "Offer"}
      BY <1>1 DEF Sent, PreSending
    <2>. QED  BY <1>1, <2>1, <2>2 DEF Sent, Genuine
  <1>2. \A x \in Queued(toR') : x \in Queued(toR) \/ \E p : Sent(p) /\ x = p
    BY SenderQueues
  <1>. QED  BY <1>1, <1>2 DEF OnlyTheEnd

LEMMA SenderStoring ==
    ASSUME TypeOK, NothingYet, ReadAhead', Storing, SenderMove, Silent
    PROVE  Storing'
  <1>1. SUFFICES ASSUME sState' = "Sending", rState' \in Committed, rSession' = sSession'
                 PROVE  sNext' = Chunks /\ OnlyTheEnd'
    BY DEF Storing
  <1>2. UNCHANGED <<rState, rSession>>
    BY DEF Silent, rVars
  <1>3. ~Starts
    BY <1>1, <1>2 DEF Starts, NothingYet, PreSending
  <1>4. sState = "Sending" /\ sSession' = sSession
    BY <1>1, <1>3 DEF SenderMove, Begins, Calls, Advances, Repeats, Ends, Succeeds, Ignores,
                      Kept, PreSending
  <1>5. sNext = Chunks /\ OnlyTheEnd
    BY <1>1, <1>2, <1>4 DEF Storing
  <1>6. sNext' = Chunks
    BY <1>1, <1>3, <1>5, SizesAssumption
    DEF SenderMove, Begins, Calls, Advances, Repeats, Ends, Succeeds, Ignores, Kept, PreSending
  <1>7. OnlyTheEnd'
    BY <1>1, <1>5, <1>6, SenderOnlyEnds
  <1>. QED  BY <1>6, <1>7

LEMMA SenderStaysStored ==
    ASSUME TypeOK, NothingYet, StaysStored, SenderMove, Silent
    PROVE  StaysStored'
  <1>1. SUFFICES ASSUME Finished'
                 PROVE  /\ Stored' /\ OnlyTheEnd'
                        /\ sState' = "Sending" => sNext' = Chunks
                        /\ rState' \in {"Off", "Listening", "Success", "Error"}
    BY DEF StaysStored
  <1>2. UNCHANGED <<rState, file>>
    BY DEF Silent, rVars, diskVars
  <1>3. sState' \in {"Sending", "Success"}
    BY <1>1 DEF Finished
  <1>4. ~Starts
    <2>1. SUFFICES ASSUME Starts PROVE FALSE
      OBVIOUS
    <2>2. PICK p \in Queued(toS') : p.type = "Result" /\ p.session = sSession'
      BY <1>1, <2>1 DEF Starts, Finished
    <2>. QED  BY <2>1, <2>2, SenderQueues DEF Starts, NothingYet, PreSending
  <1>5. sSession' = sSession /\ sState \in {"Sending", "Success"}
    BY <1>3, <1>4 DEF SenderMove, Begins, Calls, Advances, Repeats, Ends, Succeeds, Ignores,
                      Kept, PreSending
  <1>6. Finished
    <2>1. CASE Succeeds
      BY <2>1 DEF Succeeds, Finished
    <2>2. CASE ~Succeeds
      <3>1. sState' = sState
        BY <1>3, <1>4, <2>2 DEF SenderMove, Begins, Calls, Advances, Repeats, Ends, Ignores,
                                PreSending
      <3>. QED  BY <1>1, <1>5, <3>1, SenderQueues DEF Finished
    <2>. QED  BY <2>1, <2>2
  <1>7. /\ Stored /\ OnlyTheEnd /\ (sState = "Sending" => sNext = Chunks)
        /\ rState \in {"Off", "Listening", "Success", "Error"}
    BY <1>6 DEF StaysStored
  <1>8. Stored'
    BY <1>2, <1>7 DEF Stored
  <1>9. sState' = "Sending" => sNext' = Chunks
    BY <1>4, <1>7, SizesAssumption
    DEF SenderMove, Begins, Calls, Advances, Repeats, Ends, Succeeds, Ignores, Kept, PreSending
  <1>10. OnlyTheEnd'
    BY <1>3, <1>7, <1>9, SenderOnlyEnds
  <1>. QED  BY <1>2, <1>7, <1>8, <1>9, <1>10

-----------------------------------------------------------------------------
(* The receiver keeps the packets' part of the invariant.                  *)

\* What it may just have sent.
Answer(x) ==
    /\ x.session \in {rSession, rSession'}
    /\ x.type = "Ack" =>
         /\ x.session = rSession
         /\ (Writes /\ x.seq = rNext + 1) \/ (AcksAgain /\ x.seq = rNext)
    /\ x.type = "Result" =>
         /\ x.session = rSession
         /\ Reports \/ (x.data # OK /\ Underway)
    /\ x.type = "Accept" => drawn /\ drawn'

LEMMA AnswersFrom ==
    ASSUME NEW P, TypeOK, Adds(toS, toS', P), \A x \in P : Answer(x)
    PROVE  /\ toS' \in Seq(Packets) /\ Len(toS') <= QueueLength
           /\ \A x \in Queued(toS') : x \in Queued(toS) \/ Answer(x)
           /\ Len(toS') > Len(toS) => Answer(Last(toS'))
  <1>1. /\ toS' \in Seq(Packets) /\ Len(toS') <= QueueLength
        /\ \A x \in Queued(toS') : x \in Queued(toS) \/ Answer(x)
    BY QueueTypes, AddsQueued
  <1>2. ASSUME Len(toS') > Len(toS)
        PROVE  Answer(Last(toS'))
    <2>1. Len(toS) \in Nat /\ Len(toS') \in Nat /\ Len(toS') \in 1 .. Len(toS')
      BY <1>1, <1>2, QueueTypes, LenProperties
    <2>2. toS'[Len(toS')] \in P
      BY <1>2, <2>1 DEF Adds
    <2>. QED  BY <2>2 DEF Last
  <1>. QED  BY <1>1, <1>2

LEMMA ReceiverQueues ==
    ASSUME TypeOK, ReceiverMove, Deaf
    PROVE  /\ Queued(toR') \subseteq Queued(toR)
           /\ toR' \in Seq(Packets) /\ Len(toR') <= QueueLength
           /\ toS' \in Seq(Packets) /\ Len(toS') <= QueueLength
           /\ Queued(toR) \subseteq Packets /\ Queued(toS) \subseteq Packets
           /\ \A x \in Queued(toS') : x \in Queued(toS) \/ Answer(x)
           /\ Len(toS') > Len(toS) => Answer(Last(toS'))
  <1>1. /\ Queued(toR') \subseteq Queued(toR)
        /\ toR' \in Seq(Packets) /\ Len(toR') <= QueueLength
        /\ Queued(toR) \subseteq Packets /\ Queued(toS) \subseteq Packets
    BY QueueTypes, RestQueued, QueuedPackets, SizesAssumption DEF Deaf
  <1> DEFINE Conclusion ==
        /\ toS' \in Seq(Packets) /\ Len(toS') <= QueueLength
        /\ \A x \in Queued(toS') : x \in Queued(toS) \/ Answer(x)
        /\ Len(toS') > Len(toS) => Answer(Last(toS'))
  <1>0. SUFFICES Conclusion
    BY <1>1
  <1>2. ASSUME NEW type \in {"Reject", "Cancel"}
        PROVE  Answer(RPacket(type, 0, 0))
    BY PacketFields DEF Answer, RPacket
  <1>3. CASE Listens
    BY <1>2, <1>3, AnswersFrom DEF Listens
  <1>4. CASE Hears
    <2>1. Answer(Packet("Advertise", rSession', 0, 0))
      BY PacketFields DEF Answer
    <2>. QED  BY <1>4, <2>1, AnswersFrom DEF Hears
  <1>5. CASE toS' = toS
    BY <1>5, QueueTypes, LenProperties
  <1>6. CASE Writes
    <2> DEFINE a == RPacket("Ack", rNext + 1, 0)
    <2>0. a.type = "Ack" /\ a.session = rSession /\ a.seq = rNext + 1
      BY PacketFields DEF RPacket
    <2> HIDE DEF a
    <2>1. Answer(a)
      BY <1>6, <2>0 DEF Answer
    <2>. QED  BY <1>6, <2>1, AnswersFrom DEF Writes, a
  <1>7. CASE AcksAgain
    <2>1. Answer(RPacket("Ack", rNext, 0))
      BY <1>7, PacketFields DEF Answer, RPacket
    <2>. QED  BY <1>7, <2>1, AnswersFrom DEF AcksAgain
  <1>8. CASE Reports
    <2>1. Answer(RPacket("Result", 0, OK))
      BY <1>8, PacketFields DEF Answer, RPacket
    <2>. QED  BY <1>8, <2>1, AnswersFrom DEF Reports
  <1>9. CASE Breaks
    <2>1. Answer(Cancelled) /\ Answer(RPacket("Reject", 0, 0))
      BY <1>2 DEF Cancelled
    <2>2. Underway => Answer(RPacket("Result", 0, FAILED))
      BY PacketFields DEF Answer, RPacket, OK, FAILED
    <2>. QED  BY <1>9, <2>1, <2>2, AnswersFrom DEF Breaks
  <1>10. CASE Quiet
    <2>1. CASE drawn /\ drawn'
      <3>1. Answer(RPacket("Accept", 0, 0))
        BY <2>1, PacketFields DEF Answer, RPacket
      <3>. QED  BY <1>10, <3>1, AnswersFrom DEF Quiet
    <2>. QED  BY <1>5, <1>10, <2>1 DEF Quiet
  <1>11. CASE Gone
    <2>1. Answer(Cancelled)
      BY <1>2 DEF Cancelled
    <2>. QED  BY <1>11, <2>1, AnswersFrom DEF Gone
  <1>12. Prompted \/ Opened \/ Verifies \/ Commits => toS' = toS
    BY DEF Prompted, Opened, Verifies, Commits
  <1>. QED
    BY <1>3, <1>4, <1>5, <1>6, <1>7, <1>8, <1>9, <1>10, <1>11, <1>12 DEF ReceiverMove

\* The oldest packet, when it is of the receiver's session.
LEMMA OldestPacket ==
    ASSUME TypeOK, NotAhead, NEW type, HeadIs(type)
    PROVE  /\ Head(toR) \in Packets /\ Head(toR) \in Queued(toR)
           /\ Genuine(Head(toR)) /\ Head(toR).type = type /\ Head(toR).session = rSession
           /\ rSession = sSession => Rank(Head(toR)) <= SRank
  BY QueueTypes, HeadQueued DEF HeadIs, NotAhead

\* Nothing has been sent before the Accept that could be written or stored.
LEMMA NoDataYet ==
    ASSUME TypeOK, NotAhead, sState \in PreSending, rSession = sSession
    PROVE  ~HeadIs("Data") /\ ~HeadIs("Complete")
  <1>1. SRank \in {0, 1}
    BY DEF SRank, PreSending
  <1>2. SUFFICES ASSUME NEW type \in {"Data", "Complete"}, HeadIs(type) PROVE FALSE
    OBVIOUS
  <1>3. /\ Head(toR) \in Packets /\ Head(toR).type = type
        /\ Rank(Head(toR)) <= SRank
    BY <1>2, OldestPacket
  <1>4. Rank(Head(toR)) >= 2
    BY <1>2, <1>3, RankTypes, SizesAssumption DEF Rank
  <1>. QED  BY <1>1, <1>3, <1>4, RankTypes

LEMMA ReceiverOrder ==
    ASSUME TypeOK, NotAhead, InOrder, ReadAhead, RetriesBounded, ReceiverMove, Deaf
    PROVE  NotAhead' /\ InOrder' /\ ReadAhead' /\ RetriesBounded'
  <1>1. UNCHANGED <<sState, sSession, sNext, sRead, sRetry>> /\ SRank' = SRank
    BY DEF Deaf, sVars, SRank
  <1>2. NotAhead'
    BY <1>1, ReceiverQueues DEF NotAhead, Genuine, Rank
  <1>3. InOrder'
    <2>1. Orderly(toR')
      BY QueueTypes, OrderlyRest DEF InOrder, Deaf
    <2>. QED  BY <2>1 DEF InOrder, Orderly, Before, Rank
  <1>. QED  BY <1>1, <1>2, <1>3 DEF ReadAhead, RetriesBounded

LEMMA ReceiverNoLaterSession ==
    ASSUME TypeOK, NotAhead, NoLaterSession, ReceiverMove, Deaf
    PROVE  NoLaterSession'
  <1>1. sSession' = sSession /\ sSession \in Nat /\ rSession <= sSession
    BY DEF Deaf, sVars, TypeOK, NoLaterSession
  <1>2. rSession' <= sSession
    BY <1>1 DEF ReceiverMove, Listens, Hears, Prompted, Opened, Writes, AcksAgain, Verifies,
                Commits, Reports, Breaks, Quiet, Gone, Same, NotAhead
  <1>. QED  BY <1>1, <1>2, ReceiverQueues DEF NoLaterSession, Answer

LEMMA ReceiverNothingYet ==
    ASSUME TypeOK, NotAhead, NoLaterSession, NothingYet, ReceiverMove, Deaf
    PROVE  NothingYet'
  <1>1. SUFFICES ASSUME sState \in PreSending
                 PROVE  /\ \A p \in Queued(toS') :
                             p.session = sSession => p.type \notin {"Ack", "Result"}
                        /\ rSession' = sSession =>
                             rState' \notin Committed /\ (rState' = "Receiving" => received' = <<>>)
    BY DEF NothingYet, Deaf, sVars
  <1>2. rSession = sSession =>
          /\ rState \notin Committed /\ (rState = "Receiving" => received = <<>>)
          /\ ~Underway /\ ~Writes /\ ~AcksAgain /\ ~Verifies /\ ~Reports
    BY <1>1, NoDataYet
    DEF NothingYet, Underway, Writes, AcksAgain, Verifies, Reports, Committed, CommitSteps
  <1>3. ASSUME NEW p \in Queued(toS'), p.session = sSession
        PROVE  p.type \notin {"Ack", "Result"}
    <2>1. CASE p \in Queued(toS)
      BY <1>1, <1>3, <2>1 DEF NothingYet
    <2>2. CASE Answer(p)
      BY <1>2, <1>3, <2>2 DEF Answer
    <2>. QED  BY <2>1, <2>2, ReceiverQueues
  <1>4. ASSUME rSession' = sSession
        PROVE  rState' \notin Committed /\ (rState' = "Receiving" => received' = <<>>)
    <2>1. CASE Listens \/ Hears \/ Prompted \/ Opened \/ Breaks \/ Gone
      BY <2>1 DEF Listens, Hears, Prompted, Opened, Breaks, Gone, Committed, CommitSteps, Prompts
    <2>2. CASE Commits \/ Quiet
      BY <1>2, <1>4, <2>2 DEF Commits, Quiet, Same, Committed
    <2>3. CASE Writes \/ AcksAgain \/ Verifies \/ Reports
      BY <1>2, <1>4, <2>3 DEF Writes, AcksAgain, Verifies, Reports, Same
    <2>. QED  BY <2>1, <2>2, <2>3 DEF ReceiverMove
  <1>. QED  BY <1>3, <1>4

\* A session comes to be on offer only when one of its packets says so.
LEMMA OfferedBefore ==
    ASSUME TypeOK, ReceiverMove, Deaf, NEW session, (Offered(session))'
    PROVE  Offered(session)
  <1>1. CASE rState' \in Prompts /\ rSession' = session
    <2>1. Prompted \/ Quiet
      BY <1>1 DEF ReceiverMove, Listens, Hears, Opened, Writes, AcksAgain, Verifies, Commits,
                  Reports, Breaks, Gone, Prompts, CommitSteps
    <2>. QED  BY <1>1, <2>1 DEF Prompted, Quiet, Same, Offered
  <1>2. CASE \E p \in Queued(toR') : p.session = session /\ p.type \in {"Discover", "Offer"}
    BY <1>2, ReceiverQueues DEF Offered
  <1>. QED  BY <1>1, <1>2 DEF Offered

\* What follows a packet in the queue is not of an earlier stage of its session.
LEMMA AfterTheOldest ==
    ASSUME TypeOK, NotAhead, InOrder, NEW type, HeadIs(type), NEW x \in Queued(toR')
    PROVE  /\ x \in Packets /\ Genuine(x) /\ rSession <= x.session
           /\ x.session = rSession => Rank(Head(toR)) <= Rank(x)
  <1>1. toR # <<>> /\ toR' = Tail(toR) /\ Head(toR).session = rSession /\ toR \in Seq(Packets)
    BY QueueTypes DEF HeadIs
  <1>2. x \in Queued(toR) /\ x \in Packets
    BY <1>1, QueueTypes, RestQueued, QueuedPackets, SizesAssumption DEF Rest
  <1>3. Before(Head(toR), x)
    BY <1>1, HeadIsFirst DEF InOrder
  <1>. QED  BY <1>1, <1>2, <1>3 DEF Before, NotAhead

LEMMA ReceiverNotOfferedAgain ==
    ASSUME TypeOK, NotAhead, InOrder, NotOfferedAgain, ReceiverMove, Deaf
    PROVE  NotOfferedAgain'
  <1>1. UNCHANGED <<sState, sSession, sNext>>
    BY DEF Deaf, sVars
  <1>2. SUFFICES ASSUME Moved', (Offered(sSession))' PROVE FALSE
    BY DEF NotOfferedAgain
  <1>3. Offered(sSession)
    <2>1. \/ rState' \in Prompts /\ rSession' = sSession
          \/ \E p \in Queued(toR') : p.session = sSession /\ p.type \in {"Discover", "Offer"}
      BY <1>1, <1>2 DEF Offered
    <2>. QED  BY <2>1, OfferedBefore DEF Offered
  <1>4. ~Moved
    BY <1>3 DEF NotOfferedAgain
  <1>5. PICK a \in Queued(toS') : a.type = "Ack" /\ a.session = sSession /\ Answer(a)
    BY <1>1, <1>2, <1>4, ReceiverQueues DEF Moved
  <1>6. /\ Writes \/ AcksAgain
        /\ rSession = sSession
    BY <1>5 DEF Answer
  <1>7. HeadIs("Data") /\ rState' = "Receiving"
    BY <1>6 DEF Writes, AcksAgain
  <1>8. PICK x \in Queued(toR') : x.session = sSession /\ x.type \in {"Discover", "Offer"}
    BY <1>1, <1>2, <1>7 DEF Offered, Prompts
  <1>9. x \in Packets /\ Rank(Head(toR)) <= Rank(x)
    BY <1>6, <1>7, <1>8, AfterTheOldest
  <1>10. Rank(x) <= 1
    BY <1>8 DEF Rank
  <1>11. Rank(Head(toR)) >= 2 /\ Head(toR) \in Packets
    <2>1. Head(toR) \in Packets /\ Head(toR).type = "Data"
      BY <1>7, OldestPacket
    <2>. QED  BY <2>1, RankTypes DEF Rank
  <1>. QED  BY <1>9, <1>10, <1>11, RankTypes

LEMMA ReceiverTogether ==
    ASSUME TypeOK, NotAhead, NotOfferedAgain, Together, ReceiverMove, Deaf
    PROVE  Together'
  <1>1. SUFFICES ASSUME sState = "Sending", rState' = "Receiving", rSession' = sSession
                 PROVE  /\ sNext <= rNext' /\ rNext' <= sNext + 1
                        /\ \A p \in Queued(toS') :
                             p.type = "Ack" /\ p.session = sSession => p.seq <= rNext'
    BY DEF Together, Deaf, sVars
  <1>2. rNext \in Nat /\ sNext \in Nat /\ (received' = received => rNext' = rNext)
    BY LenProperties DEF TypeOK, rNext
  <1>3. CASE Opened
    <2>1. Offered(sSession)
      BY <1>1, <1>3 DEF Opened, Offered
    <2>2. ~Moved
      BY <2>1 DEF NotOfferedAgain
    <2>3. sNext = 0 /\ \A p \in Queued(toS) : p.type = "Ack" /\ p.session = sSession => ~(p.seq > 0)
      BY <1>1, <1>2, <2>2 DEF Moved
    <2>4. rNext' = 0
      BY <1>3, EmptySeq DEF Opened, rNext
    <2>5. \A p \in Queued(toS) : p.seq \in Nat
      BY ReceiverQueues, RankTypes
    <2>. QED  BY <1>3, <2>3, <2>4, <2>5 DEF Opened
  <1>4. CASE Writes
    <2>1. /\ rSession = sSession /\ rState = "Receiving" /\ rNext' = rNext + 1
          /\ Head(toR).seq = rNext
      BY <1>1, <1>4 DEF Writes, rNext
    <2>2. /\ sNext <= rNext
          /\ \A p \in Queued(toS) : p.type = "Ack" /\ p.session = sSession => p.seq <= rNext
      BY <1>1, <2>1 DEF Together
    <2>3. rNext <= sNext
      <3>1. HeadIs("Data")
        BY <1>4 DEF Writes
      <3>2. Rank(Head(toR)) = 2 + rNext /\ Rank(Head(toR)) <= SRank
        BY <2>1, <3>1, OldestPacket DEF Rank
      <3>. QED  BY <1>1, <1>2, <3>2 DEF SRank
    <2>4. ASSUME NEW p \in Queued(toS'), p.type = "Ack", p.session = sSession
          PROVE  p.seq <= rNext'
      <3>1. CASE p \in Queued(toS)
        <4>1. p.seq \in Nat /\ p.seq <= rNext
          BY <2>2, <2>4, <3>1, ReceiverQueues, RankTypes
        <4>. QED  BY <1>2, <2>1, <4>1
      <3>2. CASE Answer(p)
        BY <1>2, <2>1, <2>4, <3>2 DEF Answer
      <3>. QED  BY <3>1, <3>2, ReceiverQueues
    <2>. QED  BY <1>2, <2>1, <2>2, <2>3, <2>4
  <1>5. CASE AcksAgain \/ Quiet
    <2>1. rSession = sSession /\ rState = "Receiving" /\ rNext' = rNext
      BY <1>1, <1>2, <1>5 DEF AcksAgain, Quiet, Same
    <2>2. /\ sNext <= rNext /\ rNext <= sNext + 1
          /\ \A p \in Queued(toS) : p.type = "Ack" /\ p.session = sSession => p.seq <= rNext
      BY <1>1, <2>1 DEF Together
    <2>3. ~Writes
      BY <1>2, <2>1 DEF Writes, rNext
    <2>4. \A p \in Queued(toS') :
            p.type = "Ack" /\ p.session = sSession => p.seq <= rNext
      BY <1>2, <2>2, <2>3, ReceiverQueues DEF Answer
    <2>. QED  BY <2>1, <2>2, <2>4
  <1>. QED
    BY <1>1, <1>3, <1>4, <1>5
    DEF ReceiverMove, Listens, Hears, Prompted, Verifies, Commits, Reports, Breaks, Gone,
        Prompts, CommitSteps

LEMMA ReceiverAllReceived ==
    ASSUME TypeOK, NotAhead, AllReceived, ReceiverMove, Deaf
    PROVE  AllReceived'
  <1>1. SUFFICES ASSUME NEW c \in Queued(toR'), c.type = "Complete"
                 PROVE  /\ rState' = "Receiving" /\ rSession' = c.session => rNext' = Chunks
                        /\ Chunks > 0 => ~(Offered(c.session))'
    BY DEF AllReceived, Offered
  <1>2. /\ rState = "Receiving" /\ rSession = c.session => rNext = Chunks
        /\ Chunks > 0 => ~Offered(c.session)
    BY <1>1, ReceiverQueues DEF AllReceived
  <1>3. Chunks > 0 => ~(Offered(c.session))'
    BY <1>2, OfferedBefore
  <1>4. ASSUME rState' = "Receiving", rSession' = c.session
        PROVE  rNext' = Chunks
    <2>1. CASE Opened
      <3>1. Offered(c.session) /\ received' = <<>>
        BY <1>4, <2>1 DEF Opened, Offered
      <3>2. Chunks = 0
        BY <1>2, <3>1, SizesAssumption
      <3>. QED  BY <3>1, <3>2, EmptySeq DEF rNext
    <2>2. CASE Writes
      <3>1. rNext = Chunks /\ Head(toR).seq = rNext /\ HeadIs("Data")
        BY <1>2, <1>4, <2>2 DEF Writes
      <3>2. Genuine(Head(toR)) /\ Head(toR).type = "Data"
        BY <3>1, OldestPacket
      <3>. QED  BY <3>1, <3>2, SizesAssumption DEF Genuine
    <2>3. CASE AcksAgain \/ Quiet
      BY <1>2, <1>4, <2>3 DEF AcksAgain, Quiet, Same, rNext
    <2>. QED
      BY <1>4, <2>1, <2>2, <2>3
      DEF ReceiverMove, Listens, Hears, Prompted, Verifies, Commits, Reports, Breaks, Gone,
          Prompts, CommitSteps
  <1>. QED  BY <1>3, <1>4

LEMMA ReceiverStoring ==
    ASSUME TypeOK, NotAhead, InOrder, NoLaterSession, Storing, ReceiverMove, Deaf
    PROVE  Storing'
  <1>1. SUFFICES ASSUME sState = "Sending", rState' \in Committed, rSession' = sSession
                 PROVE  sNext = Chunks /\ OnlyTheEnd'
    BY DEF Storing, Deaf, sVars
  <1>2. CASE Verifies
    <2>1. HeadIs("Complete") /\ rSession = sSession
      BY <1>1, <1>2 DEF Verifies, Same
    <2>2. Rank(Head(toR)) = 2 + Chunks /\ 2 + Chunks <= SRank
      BY <2>1, OldestPacket DEF Rank
    <2>3. sNext = Chunks
      BY <1>1, <2>2, SizesAssumption DEF SRank, TypeOK
    <2>4. ASSUME NEW x \in Queued(toR')
          PROVE  x.type \in {"Complete", "Cancel"}
      <3>1. /\ x \in Packets /\ Genuine(x) /\ rSession <= x.session
            /\ x.session = rSession => 2 + Chunks <= Rank(x)
        BY <2>1, <2>2, <2>4, AfterTheOldest
      <3>2. x.session <= sSession
        BY <2>4, ReceiverQueues DEF NotAhead
      <3>3. x.session = rSession
        BY <2>1, <3>1, <3>2, RankTypes DEF TypeOK
      <3>. QED  BY <3>1, <3>3, RankTypes, SizesAssumption DEF Genuine, Rank
    <2>. QED  BY <2>3, <2>4 DEF OnlyTheEnd
  <1>3. CASE Commits \/ Reports \/ Quiet
    <2>1. rState \in Committed /\ rSession = sSession
      BY <1>1, <1>3 DEF Commits, Reports, Quiet, Same, Committed, CommitSteps
    <2>. QED  BY <1>1, <2>1, ReceiverQueues DEF Storing, OnlyTheEnd
  <1>. QED
    BY <1>1, <1>2, <1>3
    DEF ReceiverMove, Listens, Hears, Prompted, Opened, Writes, AcksAgain, Breaks, Gone,
        Prompts, Committed, CommitSteps

LEMMA ReceiverStaysStored ==
    ASSUME TypeOK, Card', Storing, StaysStored, ReceiverMove, Deaf
    PROVE  StaysStored'
  <1>1. SUFFICES ASSUME Finished'
                 PROVE  /\ Stored' /\ OnlyTheEnd'
                        /\ sState = "Sending" => sNext = Chunks
                        /\ rState' \in {"Off", "Listening", "Success", "Error"}
    BY DEF StaysStored, Deaf, sVars
  <1>2. CASE Finished
    <2>1. /\ Stored /\ OnlyTheEnd /\ (sState = "Sending" => sNext = Chunks)
          /\ rState \in {"Off", "Listening", "Success", "Error"}
      BY <1>2 DEF StaysStored
    <2>2. Stored'
      BY <2>1 DEF Deaf, CommitSteps, Stored
    <2>3. OnlyTheEnd'
      BY <2>1, ReceiverQueues DEF OnlyTheEnd
    <2>4. rState' \in {"Off", "Listening", "Success", "Error"}
      BY <2>1
      DEF ReceiverMove, Listens, Hears, Prompted, Opened, Writes, AcksAgain, Verifies, Commits,
          Reports, Breaks, Quiet, Gone, Prompts, CommitSteps, OnlyTheEnd
    <2>. QED  BY <2>1, <2>2, <2>3, <2>4
  <1>3. CASE ~Finished
    <2>1. PICK p \in Queued(toS') :
            p.type = "Result" /\ p.session = sSession /\ p.data = OK /\ Answer(p)
      BY <1>1, <1>3, ReceiverQueues DEF Finished, Deaf, sVars
    <2>2. Reports /\ rSession = sSession /\ sState = "Sending"
      BY <1>1, <1>3, <2>1 DEF Answer, Finished, Deaf, sVars
    <2>3. sNext = Chunks /\ OnlyTheEnd
      BY <2>2 DEF Reports, Storing, Committed, CommitSteps
    <2>4. Stored'
      BY <2>2 DEF Reports, Card, Replacing, Targeted, Committed, Stored
    <2>. QED  BY <2>2, <2>3, <2>4, ReceiverQueues DEF Reports, OnlyTheEnd
  <1>. QED  BY <1>2, <1>3

-----------------------------------------------------------------------------
(* The invariant.                                                          *)

LEMMA InitInvariant == Init => IInv
  <1> SUFFICES ASSUME Init PROVE IInv
    OBVIOUS
  <1>1. /\ sState = "Off" /\ sSession = 0 /\ sNext = 0 /\ sRead = 0 /\ sRetry = 0
        /\ rState = "Off" /\ rSession = 0 /\ received = <<>> /\ target = None
        /\ acceptPending = FALSE /\ drawn = FALSE /\ replacing = FALSE
        /\ toR = <<>> /\ toS = <<>>
    BY DEF Init
  <1>2. /\ file \in [Names -> {None, OldFile}] /\ before = file
        /\ BookExists => file["book"] = OldFile
        /\ part \in [Names -> {None}] /\ backup \in [Names -> {None}]
    BY SwitchesAssumption DEF Init, Names
  <1>3. TypeOK
    <2>1. file \in [Names -> Contents] /\ part \in [Names -> Contents] /\ backup \in [Names -> Contents]
      BY <1>2, BookTypes
    <2>2. /\ <<>> \in Seq(Packets) /\ Len(<<>>) = 0
          /\ 0 \in 0 .. Sessions /\ 0 \in 0 .. Chunks /\ 0 \in 0 .. MaxRetries + 1
          /\ 0 <= Chunks /\ 0 <= QueueLength
      BY EmptySeq, SizesAssumption
    <2>. QED  BY <1>1, <1>2, <2>1, <2>2, BookTypes DEF TypeOK
  <1>4. Card
    BY <1>1, <1>2
    DEF Card, PartInOrder, Targeted, Replacing, WholeFilesOnly, WholeBackups, BookSurvives,
        ShownFirst, CommitSteps, Committed, Prompts, Names
  <1>5. Queued(toR) = {} /\ Queued(toS) = {} /\ DOMAIN toR = {}
    BY <1>1 DEF Queued
  <1>6. Packeting
    BY <1>1, <1>5
    DEF Packeting, NotAhead, InOrder, Orderly, ReadAhead, RetriesBounded, NoLaterSession,
        NothingYet, NotOfferedAgain, Moved, Together, AllReceived, Storing, StaysStored,
        Finished, PreSending
  <1>. QED  BY <1>3, <1>4, <1>6 DEF IInv

LEMMA SenderStep == IInv /\ Sends => IInv'
  <1> SUFFICES ASSUME IInv, Sends PROVE IInv'
    OBVIOUS
  <1> USE DEF IInv, Packeting
  <1>1. SenderMove /\ Silent /\ sRetry' \in RetryRange /\ RetriesBounded'
    BY SenderMoves
  <1>2. UNCHANGED <<rState, rSession, received, target, acceptPending, drawn, replacing,
                    before, file, part, backup>>
    BY <1>1 DEF Silent, rVars, diskVars
  <1>3. /\ sState' \in {"Off", "Discovering", "DeviceList", "WaitingForApproval",
                        "Sending", "Success", "Error"}
        /\ sSession' \in 0 .. Sessions /\ sNext' \in 0 .. Chunks /\ sRead' \in 0 .. Chunks
    <2>1. sSession \in 0 .. Sessions /\ sNext \in 0 .. Chunks /\ sRead \in 0 .. Chunks
      BY DEF TypeOK
    <2>. QED
      BY <1>1, <2>1, SizesAssumption
      DEF SenderMove, Begins, Calls, Starts, Advances, Repeats, Ends, Succeeds, Ignores, Kept,
          ReadOnceAt, PreSending, TypeOK
  <1>4. TypeOK'
    BY <1>1, <1>2, <1>3, SenderQueues DEF TypeOK, RetryRange
  <1>5. Card'
    BY <1>2 DEF Card, PartInOrder, Targeted, Replacing, WholeFilesOnly, WholeBackups,
                BookSurvives, ShownFirst
  <1>6. NotAhead' /\ InOrder' /\ ReadAhead' /\ NoLaterSession' /\ NothingYet'
    BY <1>1, SenderNotAhead, SenderInOrder, SenderCounts, SenderNothingYet
  <1>7. NotOfferedAgain' /\ Together'
    BY <1>1, SenderNotOfferedAgain, SenderTogether
  <1>8. AllReceived'
    BY <1>1, <1>7, SenderAllReceived
  <1>9. Storing' /\ StaysStored'
    BY <1>1, <1>6, SenderStoring, SenderStaysStored
  <1>. QED  BY <1>1, <1>4, <1>5, <1>6, <1>7, <1>8, <1>9

LEMMA ReceiverStep == IInv /\ Receives => IInv'
  <1> SUFFICES ASSUME IInv, Receives PROVE IInv'
    OBVIOUS
  <1> USE DEF IInv, Packeting
  <1>1. ReceiverMove /\ Deaf /\ Card' /\ CardTypes'
    BY ReceiverMoves, CardStep
  <1>2. TypeOK'
    BY <1>1, ReceiverQueues DEF TypeOK, CardTypes, Deaf, sVars
  <1>3. NotAhead' /\ InOrder' /\ ReadAhead' /\ RetriesBounded'
    BY <1>1, ReceiverOrder
  <1>4. NoLaterSession' /\ NothingYet' /\ NotOfferedAgain'
    BY <1>1, ReceiverNoLaterSession, ReceiverNothingYet, ReceiverNotOfferedAgain
  <1>5. Together' /\ AllReceived'
    BY <1>1, ReceiverTogether, ReceiverAllReceived
  <1>6. Storing' /\ StaysStored'
    BY <1>1, ReceiverStoring, ReceiverStaysStored
  <1>. QED  BY <1>1, <1>2, <1>3, <1>4, <1>5, <1>6

LEMMA NextSplits == Next => Sends \/ Receives
  BY DEF Next, Users, Sends, Receives

LEMMA StutterStep == IInv /\ UNCHANGED vars => IInv'
  <1> SUFFICES ASSUME IInv, UNCHANGED vars PROVE IInv'
    OBVIOUS
  <1>1. UNCHANGED <<sState, sSession, sNext, sRead, sRetry, rState, rSession, received, target,
                    acceptPending, drawn, replacing, before, file, part, backup, toR, toS>>
    BY DEF vars, sVars, rVars, diskVars
  <1>2. TypeOK'
    BY <1>1 DEF IInv, TypeOK
  <1>3. Card'
    BY <1>1 DEF IInv, Card, PartInOrder, Targeted, Replacing, WholeFilesOnly, WholeBackups,
                BookSurvives, ShownFirst
  <1>4. Packeting'
    BY <1>1 DEF IInv, Packeting, NotAhead, Genuine, Rank, SRank, InOrder, Orderly, Before,
                ReadAhead, RetriesBounded, NoLaterSession, NothingYet, NotOfferedAgain, Moved,
                Offered, Together, rNext, AllReceived, OnlyTheEnd, Storing, StaysStored,
                Finished, Stored
  <1>. QED  BY <1>2, <1>3, <1>4 DEF IInv

\* The inductive invariant holds in every reachable state.
THEOREM Invariance == Spec => []IInv
  <1>1. IInv /\ [Next]_vars => IInv'
    BY NextSplits, SenderStep, ReceiverStep, StutterStep
  <1>. QED  BY <1>1, InitInvariant, PTL DEF Spec

-----------------------------------------------------------------------------
(* What follows for the transfer.                                          *)

\* Every variable keeps its type: no count passes its bound, no queue its length.
THEOREM TypeCorrect == Spec => []TypeOK
  <1>1. IInv => TypeOK
    BY DEF IInv
  <1>. QED  BY <1>1, Invariance, PTL

\* What is visible on the receiver's card is a whole book, old or new, at every step
\* of the commit and after every loss of power.
THEOREM FilesAreWhole == Spec => []WholeFilesOnly
  <1>1. IInv => WholeFilesOnly
    BY DEF IInv, Card
  <1>. QED  BY <1>1, Invariance, PTL

\* The receiver's own book, or the new one, is always on the card.
THEOREM BookIsKept == Spec => []BookSurvives
  <1>1. IInv => BookSurvives
    BY DEF IInv, Card
  <1>. QED  BY <1>1, Invariance, PTL

\* A sender that shows success has sent a book that is on the receiver's card.
THEOREM SuccessIsStored == Spec => []SuccessMeansStored
  <1>1. IInv => SuccessMeansStored
    BY DEF IInv, Packeting, StaysStored, Finished, Stored, SuccessMeansStored
  <1>. QED  BY <1>1, Invariance, PTL

\* While a session is under way the two counts differ by one chunk at most.
THEOREM EndsInStep == Spec => []InStep
  <1>1. ASSUME IInv PROVE InStep
    <2>1. SUFFICES ASSUME sState = "Sending", rState = "Receiving", rSession = sSession
                   PROVE  rNext \in {sNext, sNext + 1} /\ part[target] = FirstChunks(rNext)
      BY DEF InStep
    <2>2. sNext <= rNext /\ rNext <= sNext + 1
      BY <1>1, <2>1 DEF IInv, Packeting, Together
    <2>3. rNext \in Nat /\ sNext \in Nat
      BY <1>1, LenProperties DEF IInv, TypeOK, rNext
    <2>4. part[target] = FirstChunks(rNext)
      BY <1>1, <2>1 DEF IInv, Card, PartInOrder, rNext
    <2>. QED  BY <2>2, <2>3, <2>4
  <1>. QED  BY <1>1, Invariance, PTL

\* The verification before the commit never fails between two working readers.
THEOREM CompletesAreTrue == Spec => []CompleteIsTrue
  <1>1. ASSUME IInv PROVE CompleteIsTrue
    <2>1. SUFFICES ASSUME toR # <<>>, rState = "Receiving", Head(toR).type = "Complete",
                          RActs(Head(toR))
                   PROVE  rNext = Chunks /\ part[target] = Book
      BY DEF CompleteIsTrue
    <2>2. Head(toR) \in Queued(toR) /\ Head(toR).session = rSession
      BY <1>1, <2>1, QueueTypes, HeadQueued DEF IInv, RActs
    <2>3. rNext = Chunks
      BY <1>1, <2>1, <2>2 DEF IInv, Packeting, AllReceived
    <2>. QED  BY <1>1, <2>1, <2>3 DEF IInv, Card, PartInOrder, Book, rNext
  <1>. QED  BY <1>1, Invariance, PTL

\* The sender is told to go ahead only when the receiving screen has been painted.
THEOREM AcceptAfterPaint == Spec => AcceptedWhenShown
  <1> DEFINE Shown == Len(toS') > Len(toS) /\ Last(toS').type = "Accept" => drawn /\ drawn'
  <1>1. ASSUME IInv, Next PROVE Shown
    <2>1. CASE Sends
      <3>1. Rest(toS, toS') /\ toS \in Seq(Packets)
        BY <1>1, <2>1, SenderMoves, QueueTypes DEF IInv, Packeting, Silent
      <3>2. Len(toS') <= Len(toS) /\ Len(toS) \in Nat
        BY <3>1, HeadTailProperties, EmptySeq, LenProperties DEF Rest
      <3>3. Len(toS') \in Nat
        BY <3>1, HeadTailProperties, EmptySeq, LenProperties DEF Rest
      <3>. QED  BY <3>2, <3>3
    <2>2. CASE Receives
      BY <1>1, <2>2, ReceiverMoves, ReceiverQueues DEF IInv, Packeting, Answer
    <2>. QED  BY <1>1, <2>1, <2>2, NextSplits
  <1>2. UNCHANGED vars => UNCHANGED toS
    BY DEF vars
  <1>3. ASSUME IInv, UNCHANGED vars PROVE Shown
    <2>1. toS' = toS /\ Len(toS) \in Nat
      BY <1>2, <1>3, QueueTypes, LenProperties DEF IInv
    <2>. QED  BY <2>1
  <1>4. IInv /\ [Next]_vars => [Shown]_vars
    BY <1>1, <1>3
  <1>. QED  BY <1>4, Invariance, PTL DEF Spec, AcceptedWhenShown

\* What a failing receiver leaves behind: its files as they were when the offer was
\* accepted, or the old one under its hidden name.
LEMMA FailureStep ==
    ASSUME IInv, Receives, rState' = "Error", rState \notin {"Success", "Error"},
           target # None
    PROVE  /\ \A n \in Names : \/ file'[n] = before[n]
                               \/ file'[n] = None /\ backup'[n] = before[n]
           /\ part'[target] = None
  <1>1. rState \in {"Receiving"} \cup CommitSteps /\ target \in Names
    BY DEF IInv, TypeOK, Card, Targeted, Prompts, Committed
  <1>2. file \in [Names -> Contents] /\ backup \in [Names -> Contents]
        /\ part \in [Names -> Contents] /\ before \in [Names -> Contents]
    BY DEF IInv, TypeOK
  <1>3. ASSUME NEW ps, RFail(ps) PROVE part'[target] = None
    BY <1>1, <1>2, <1>3 DEF RFail, PartDiscarded
  <1>4. CASE rState = "Receiving"
    <2>1. /\ UNCHANGED file /\ \E ps : RFail(ps)
      BY <1>1, <1>4
      DEF Receives, Receiver, ReceiverHandles, OnDiscover, OnOffer, OnOfferAgain, OnData,
          OnComplete, CommitFails, OnCompleteAgain, ROnCancel, Draw, SendPendingAccept, Commit,
          Sync, DropBackup, SetAside, Swap, RollBack, CleanUp, Step, ReceiveTimer,
          StartListening, RejectOffer, ConfirmCollision, ReceiverLeaves, RGone, AcceptOffer,
          ReceiverLosesPower, CommitSteps, rVars
    <2>2. file = before
      BY <1>4 DEF IInv, Card, Replacing
    <2>. QED  BY <1>3, <2>1, <2>2
  <1>5. CASE rState \in CommitSteps
    <2>1. Commit \/ SendPendingAccept
      BY <1>5
      DEF Receives, Receiver, ReceiverHandles, Draw, ReceiveTimer, StartListening, RejectOffer,
          ConfirmCollision, ReceiverLeaves, AcceptOffer, ReceiverLosesPower, RGone, CommitSteps
    <2>2. Commit
      BY <1>5, <2>1 DEF SendPendingAccept
    <2>3. CommitFails
      BY <2>2 DEF Commit, Sync, DropBackup, SetAside, Swap, RollBack, CleanUp, Step, Fails
    <2>4. part'[target] = None
      BY <1>3, <2>3 DEF CommitFails
    <2>5. CASE rState \in {"Sync", "SetAside"}
      <3>1. UNCHANGED file
        BY <2>2, <2>5 DEF Commit, Sync, DropBackup, SetAside, Swap, RollBack, CleanUp, Step
      <3>. QED  BY <2>4, <2>5, <3>1 DEF IInv, Card, Replacing
    <2>6. CASE rState = "Swap"
      <3>1. UNCHANGED file /\ ~replacing
        BY <2>2, <2>6 DEF Commit, Sync, DropBackup, SetAside, Swap, RollBack, CleanUp, Step
      <3>. QED  BY <1>1, <1>2, <2>4, <2>6, <3>1 DEF IInv, Card, Replacing
    <2>7. CASE rState = "RollBack"
      <3>1. /\ file = [before EXCEPT ![target] = None] /\ backup[target] = before[target]
        BY <2>7 DEF IInv, Card, Replacing
      <3>2. \/ /\ file' = [file EXCEPT ![target] = backup[target]]
               /\ backup' = [backup EXCEPT ![target] = None]
            \/ UNCHANGED <<file, backup>>
        BY <2>2, <2>7 DEF Commit, Sync, DropBackup, SetAside, Swap, RollBack, CleanUp, Step
      <3>. QED  BY <1>1, <1>2, <2>4, <3>1, <3>2
    <2>8. rState \notin {"DropBackup", "CleanUp"}
      BY <2>2 DEF Commit, Sync, DropBackup, SetAside, Swap, RollBack, CleanUp, Step
    <2>. QED  BY <1>5, <2>5, <2>6, <2>7, <2>8 DEF CommitSteps
  <1>. QED  BY <1>1, <1>4, <1>5

\* A transfer that fails or is cancelled replaces no file and leaves no part file.
THEOREM FailuresKeepFiles == Spec => FailureKeepsFiles
  <1> DEFINE Keeps ==
        rState' = "Error" /\ rState \notin {"Success", "Error"} /\ target # None =>
           /\ \A n \in Names : \/ file'[n] = before[n]
                               \/ file'[n] = None /\ backup'[n] = before[n]
           /\ part'[target] = None
  <1>1. ASSUME IInv, Next PROVE Keeps
    <2>1. CASE Sends
      <3>1. UNCHANGED rState
        BY <1>1, <2>1, SenderMoves DEF IInv, Packeting, Silent, rVars
      <3>. QED  BY <3>1
    <2>2. CASE Receives
      BY <1>1, <2>2, FailureStep
    <2>. QED  BY <1>1, <2>1, <2>2, NextSplits
  <1>2. IInv /\ [Next]_vars => [Keeps]_vars
    BY <1>1
  <1>. QED  BY <1>2, Invariance, PTL DEF Spec, FailureKeepsFiles

=============================================================================
