-------------------------- MODULE NearbyBookTransfer --------------------------
(***************************************************************************)
(* Sending a book between two readers over ESP-NOW: the two ends of        *)
(* src/activities/network/NearbyBookTransferActivity.cpp, a sender and a   *)
(* receiver, the two packet queues between them, and the receiver's card.  *)
(*                                                                         *)
(* Any packet may be lost, or dropped by a full queue; what is not lost    *)
(* arrives in order.  Time is abstracted: a timer may expire at any moment *)
(* in the states that arm it.  Either reader may lose power at any moment, *)
(* also between two storage operations of the final commit.                *)
(***************************************************************************)
EXTENDS Naturals, Sequences, SequencesExt

CONSTANTS
    None,               \* no file, or no destination chosen
    Chunks,             \* the length of the book, in chunks
    Sessions,           \* bound: how often the sender is started
    QueueLength,        \* bound: packets queued at one end
    MaxRetries,         \* MAX_RETRIES
    MaxApprovalRetries, \* MAX_APPROVAL_RETRIES
    BookExists,         \* does the receiver have a file of this name already?
    DiskFails           \* may a write, sync or rename on the card fail?

ASSUME SizesAssumption ==
    /\ Chunks \in Nat /\ Sessions \in Nat /\ QueueLength \in Nat
    /\ MaxRetries \in Nat /\ MaxApprovalRetries \in Nat
ASSUME SwitchesAssumption == BookExists \in BOOLEAN /\ DiskFails \in BOOLEAN

VARIABLES
    sState,        \* the sender's state_, "Off" outside the screen
    sSession,      \* its sessionId_
    sNext,         \* its session_.nextSequence(): chunks acknowledged
    sRead,         \* chunks read from the source: one more while one is pending
    sRetry,        \* its retryCount_
    rState,        \* the receiver's state_, "Off" before Start receiving
    rSession,      \* its sessionId_
    received,      \* the chunks its session_ has counted and summed
    target,        \* the name it stores under, None until an offer is accepted
    acceptPending, \* acceptPending_
    drawn,         \* receivingScreenDrawn_
    replacing,     \* finishReceivedFile(): the destination existed
    file,          \* the card: what each name holds,
    part,          \*   its hidden .crossink-part file
    backup,        \*   and its hidden .crossink-backup file
    toR, toS,      \* packets queued at the receiver and at the sender
    before         \* observation: the visible files when the offer was accepted

sVars    == <<sState, sSession, sNext, sRead, sRetry>>
rVars    == <<rState, rSession, received, target, acceptPending, drawn, replacing, before>>
diskVars == <<file, part, backup>>
vars     == <<sVars, rVars, diskVars, toR, toS>>

\* The name of the book, and the free name keepBothPath() finds.
Names == {"book", "book (2)"}

\* The first n chunks of the book; chunk 0 is of another book.
FirstChunks(n) == [i \in 1 .. n |-> i]
rNext == Len(received)  \* the receiver's session_.nextSequence()
Book == FirstChunks(Chunks)
OldFile == <<0>>
Contents == {None, OldFile} \cup Seq(1 .. Chunks)
ASSUME NoneAssumption == None \notin Names /\ None # OldFile /\ None # Book

\* The steps of finishReceivedFile() between which power can fail.
CommitSteps == {"Sync", "DropBackup", "SetAside", "Swap", "RollBack", "CleanUp"}

Packet(type, session, seq, data) ==
    [type |-> type, session |-> session, seq |-> seq, data |-> data]
Packets == [type : {"Discover", "Advertise", "Offer", "Accept", "Reject", "Data",
                    "Ack", "Complete", "Result", "Cancel"},
            session : 0 .. Sessions, seq : 0 .. Chunks, data : 0 .. Chunks + 1]
OK == 0
FAILED == 1

\* The type invariant.
TypeOK ==
    /\ sState \in {"Off", "Discovering", "DeviceList", "WaitingForApproval",
                   "Sending", "Success", "Error"}
    /\ sSession \in 0 .. Sessions
    /\ sNext \in 0 .. Chunks /\ sRead \in 0 .. Chunks
    /\ sRetry \in 0 .. MaxRetries + 1 \cup 0 .. MaxApprovalRetries + 1
    /\ rState \in {"Off", "Listening", "OfferPrompt", "CollisionPrompt",
                   "Receiving", "Success", "Error"} \cup CommitSteps
    /\ rSession \in 0 .. Sessions
    /\ received \in Seq(1 .. Chunks) /\ Len(received) <= Chunks
    /\ target \in Names \cup {None}
    /\ acceptPending \in BOOLEAN /\ drawn \in BOOLEAN /\ replacing \in BOOLEAN
    /\ file \in [Names -> Contents] /\ before \in [Names -> Contents]
    /\ part \in [Names -> Contents]
    /\ backup \in [Names -> Contents]
    /\ toR \in Seq(Packets) /\ Len(toR) <= QueueLength
    /\ toS \in Seq(Packets) /\ Len(toS) <= QueueLength

Init ==
    /\ sState = "Off" /\ sSession = 0 /\ sNext = 0 /\ sRead = 0 /\ sRetry = 0
    /\ rState = "Off" /\ rSession = 0 /\ received = <<>> /\ target = None
    /\ acceptPending = FALSE /\ drawn = FALSE /\ replacing = FALSE
    /\ file = [n \in Names |-> IF n = "book" /\ BookExists THEN OldFile ELSE None]
    /\ part = [n \in Names |-> None] /\ backup = [n \in Names |-> None]
    /\ before = file
    /\ toR = <<>> /\ toS = <<>>

-----------------------------------------------------------------------------
(* The radio.  Of the packets of one handler any may be lost; none reaches *)
(* a device whose radio is off.                                            *)
Queues(q, ps) == {q \o s : s \in {t \in SubSeqs(ps) : Len(q) + Len(t) <= QueueLength}}
AtReceiver(ps) == IF rState = "Off" THEN {toR} ELSE Queues(toR, ps)
AtSender(ps)   == IF sState = "Off" THEN {toS} ELSE Queues(toS, ps)

-----------------------------------------------------------------------------
(* The sender.                                                             *)
SSend(type, seq, data) == toR' \in AtReceiver(<<Packet(type, sSession, seq, data)>>)

\* setError(), of which cancelTransfer() tells the receiver.
SFail == sState' = "Error" /\ SSend("Cancel", 0, 0)

\* onEnter(): a fresh session number, one broadcast.
StartDiscovery ==
    /\ sState = "Off" /\ sSession < Sessions
    /\ sState' = "Discovering" /\ sSession' = sSession + 1
    /\ sNext' = 0 /\ sRead' = 0 /\ sRetry' = 0
    /\ toR' \in AtReceiver(<<Packet("Discover", sSession + 1, 0, 0)>>)
    /\ UNCHANGED <<rVars, diskVars, toS>>

\* The user picks the receiver from the list.
SelectPeer ==
    /\ sState = "DeviceList" /\ sState' = "WaitingForApproval"
    /\ sRetry' = 0
    /\ SSend("Offer", 0, 0)
    /\ UNCHANGED <<sSession, sNext, sRead, rVars, diskVars, toS>>

\* sendNextChunk() once n chunks are acknowledged, or a failing read.
SendNextChunk(n) ==
    \/ sRead' = n + 1 /\ sState' = "Sending" /\ SSend("Data", n, n + 1)
    \/ DiskFails /\ SFail /\ UNCHANGED sRead

SendComplete(n) == SSend("Complete", 0, n)

\* The next packet to send once n chunks are acknowledged.
SendFrom(n) ==
    /\ sNext' = n /\ sRetry' = 0
    /\ IF n = Chunks THEN SendComplete(n) /\ sState' = "Sending" /\ UNCHANGED sRead
       ELSE SendNextChunk(n)

OnAdvertise == sState' = "DeviceList" /\ UNCHANGED <<sNext, sRead, sRetry, toR>>

\* The source is opened, which may fail, and the first chunk read and sent.
OnAccept ==
    \/ SendFrom(0)
    \/ DiskFails /\ SFail /\ UNCHANGED <<sNext, sRead, sRetry>>

OnRejectOrCancel == SFail /\ UNCHANGED <<sNext, sRead, sRetry>>

\* Only the acknowledgement of the pending chunk moves the session on;
\* mutant: any acknowledgement does.
AnyAcknowledged(p) == sState = "Sending" /\ sRead # sNext
Acknowledged(p) == sState = "Sending" /\ sRead # sNext /\ p.seq = sNext + 1

OnAck == SendFrom(sNext + 1)

OnResult(p) ==
    /\ IF p.data = OK THEN sState' = "Success" /\ UNCHANGED toR ELSE SFail
    /\ UNCHANGED <<sNext, sRead, sRetry>>

\* Which packets the sender acts on.  Before a peer is selected, peerMac_
\* is nobody's address.
SActs(p) ==
    /\ p.session = sSession
    /\ CASE p.type = "Advertise" -> sState \in {"Discovering", "DeviceList"}
         [] p.type \in {"Accept", "Reject"} -> sState = "WaitingForApproval"
         [] p.type = "Ack" -> Acknowledged(p)
         [] p.type = "Result" -> sState = "Sending"
         [] p.type = "Cancel" -> sState \notin {"Discovering", "DeviceList"}
         [] OTHER -> FALSE

\* handlePacket() of the sender, for the oldest packet in its queue.
SenderHandles ==
    /\ sState # "Off" /\ toS # <<>>
    /\ toS' = Tail(toS)
    /\ LET p == Head(toS) IN
        IF SActs(p)
        THEN \/ p.type = "Advertise" /\ OnAdvertise
             \/ p.type = "Accept" /\ OnAccept
             \/ p.type = "Ack" /\ OnAck
             \/ p.type = "Result" /\ OnResult(p)
             \/ p.type \in {"Reject", "Cancel"} /\ OnRejectOrCancel
        ELSE UNCHANGED <<sState, sNext, sRead, sRetry, toR>>
    /\ UNCHANGED <<sSession, rVars, diskVars>>

\* updateTimers() of the sender.
DiscoveryTimer ==
    /\ sState = "Discovering"
    /\ SSend("Discover", 0, 0)
    /\ UNCHANGED <<sVars, rVars, diskVars, toS>>

Retry(max, again) ==
    IF sRetry + 1 > max
    THEN SFail /\ sRetry' = sRetry + 1
    ELSE again /\ UNCHANGED sState

\* The retries are counted; mutant: the count starts
\* again with every retry.
RetriesForgotten == 0
RetriesCounted == sRetry + 1

ApprovalTimer ==
    /\ sState = "WaitingForApproval"
    /\ Retry(MaxApprovalRetries, SSend("Offer", 0, 0) /\ sRetry' = RetriesCounted)
    /\ UNCHANGED <<sSession, sNext, sRead, rVars, diskVars, toS>>

ChunkTimer ==
    /\ sState = "Sending" /\ sRead # sNext
    /\ Retry(MaxRetries, SSend("Data", sNext, sRead) /\ sRetry' = RetriesCounted)
    /\ UNCHANGED <<sSession, sNext, sRead, rVars, diskVars, toS>>

\* sendComplete() sets retryCount_ to zero.
CompleteTimer ==
    /\ sState = "Sending" /\ sRead = sNext
    /\ Retry(MaxRetries, SendComplete(sRead) /\ sRetry' = 0)
    /\ UNCHANGED <<sSession, sNext, sRead, rVars, diskVars, toS>>

\* The user leaves; exitAfterRadio() cancels what is under way.
SenderLeaves ==
    /\ sState # "Off" /\ sState' = "Off"
    /\ IF sState \in {"WaitingForApproval", "Sending"}
       THEN SSend("Cancel", 0, 0) ELSE UNCHANGED toR
    /\ toS' = <<>>
    /\ UNCHANGED <<sSession, sNext, sRead, sRetry, rVars, diskVars>>

SenderLosesPower ==
    /\ sState # "Off" /\ sState' = "Off"
    /\ toS' = <<>>
    /\ UNCHANGED <<sSession, sNext, sRead, sRetry, rVars, diskVars, toR>>

-----------------------------------------------------------------------------
(* The receiver.                                                           *)
RPacket(type, seq, data) == Packet(type, rSession, seq, data)
RSend(type, seq, data) == toS' \in AtSender(<<RPacket(type, seq, data)>>)
Cancelled == RPacket("Cancel", 0, 0)

\* setError(): cancelTransfer() tells the sender and removes the part file,
\* once there is one; mutant: the part file stays.  ps is all that is sent.
PartKept == part
PartDiscarded == IF target = None THEN part ELSE [part EXCEPT ![target] = None]
RFail(ps) ==
    /\ rState' = "Error" /\ acceptPending' = FALSE /\ drawn' = FALSE
    /\ part' = PartDiscarded
    /\ toS' \in AtSender(ps)

\* startListening(), from the first menu or after an offer was declined.
Listen ==
    /\ rState' = "Listening"
    /\ target' = None /\ received' = <<>>

StartListening ==
    /\ rState = "Off" /\ Listen
    /\ UNCHANGED <<rSession, acceptPending, drawn, replacing, before, diskVars, sVars,
                   toR, toS>>

RejectOffer ==
    /\ rState \in {"OfferPrompt", "CollisionPrompt"}
    /\ Listen
    /\ RSend("Reject", 0, 0)
    /\ UNCHANGED <<rSession, acceptPending, drawn, replacing, before, diskVars, sVars, toR>>

\* Confirm on the offer: a name that is taken needs one more answer.
ConfirmCollision ==
    /\ rState = "OfferPrompt" /\ file["book"] # None
    /\ rState' = "CollisionPrompt"
    /\ UNCHANGED <<rSession, received, target, acceptPending, drawn, replacing, before,
                   diskVars, sVars, toR, toS>>

\* acceptOffer(): find the name, check the space, open an empty part file,
\* and leave the Accept for when the receiving screen is on the panel;
\* mutant: the part file of an earlier attempt is continued.
PartContinued(name) == [part EXCEPT ![name] = IF @ = None THEN <<>> ELSE @]
PartStarted(name) == [part EXCEPT ![name] = <<>>]

Opens(name) ==
    /\ rState' = "Receiving" /\ target' = name
    /\ part' = PartStarted(name)
    /\ received' = <<>>
    /\ acceptPending' = TRUE /\ drawn' = FALSE
    /\ UNCHANGED toS

\* An older part file is gone.
CannotOpen(name) ==
    /\ rState' = "Error" /\ target' = name
    /\ part' = [part EXCEPT ![name] = None]
    /\ acceptPending' = FALSE /\ drawn' = FALSE
    /\ toS' \in AtSender(<<Cancelled>>)
    /\ UNCHANGED received

DoesNotFit == RFail(<<RPacket("Reject", 0, 0), Cancelled>>) /\ UNCHANGED <<target, received>>
NoFreeName == RFail(<<Cancelled>>) /\ UNCHANGED <<target, received>>

AcceptOffer(name) ==
    /\ \/ rState = "OfferPrompt" /\ file["book"] = None /\ name = "book"
       \/ rState = "CollisionPrompt"
    /\ IF name # "book" /\ file[name] # None
       THEN NoFreeName
       ELSE \/ Opens(name)
            \/ DoesNotFit
            \/ DiskFails /\ CannotOpen(name)
    /\ before' = file
    /\ UNCHANGED <<rSession, replacing, file, backup, sVars, toR>>

\* The render task has painted the receiving screen.
Draw ==
    /\ rState = "Receiving" /\ ~drawn /\ drawn' = TRUE
    /\ UNCHANGED <<rState, rSession, received, target, acceptPending, replacing, before,
                   diskVars, sVars, toR, toS>>

\* sendPendingAccept(), between two packets; the radio may refuse the packet.
SendPendingAccept ==
    /\ acceptPending /\ drawn /\ rState \notin CommitSteps
    /\ \/ /\ acceptPending' = FALSE /\ RSend("Accept", 0, 0)
          /\ UNCHANGED <<rState, drawn, part>>
       \/ RFail(<<Cancelled>>)
    /\ UNCHANGED <<rSession, received, target, replacing, before, file, backup, sVars, toR>>

\* Discover, while listening: answer it.
OnDiscover(p) ==
    /\ rSession' = p.session
    /\ toS' \in AtSender(<<Packet("Advertise", p.session, 0, 0)>>)
    /\ UNCHANGED <<rState, received, target, acceptPending, drawn, replacing, before, diskVars>>

OnOffer(p) ==
    /\ rSession' = p.session /\ rState' = "OfferPrompt"
    /\ UNCHANGED <<received, target, acceptPending, drawn, replacing, before, diskVars, toS>>

\* The sender has not seen the Accept yet, unless it is still to be sent;
\* mutant: it is sent in either case.
AnswersAlways == TRUE
AnswersOffer == ~acceptPending

OnOfferAgain ==
    /\ IF AnswersOffer THEN RSend("Accept", 0, 0) ELSE UNCHANGED toS
    /\ UNCHANGED <<rVars, diskVars>>

\* The chunk after the last one is written, every other one acknowledged
\* again; mutant: a repeated chunk is written too.
AnyChunkIsNext(p) == p.seq <= rNext
IsNext(p) == p.seq = rNext

OnData(p) ==
    /\ \/ /\ IsNext(p)
          /\ part' = [part EXCEPT ![target] = Append(@, p.data)]
          /\ received' = Append(received, p.data)
          /\ RSend("Ack", rNext + 1, 0)
          /\ UNCHANGED <<rState, acceptPending, drawn>>
       \/ /\ IsNext(p) /\ DiskFails
          /\ RFail(<<RPacket("Result", 0, FAILED), Cancelled>>)
          /\ UNCHANGED received
       \/ /\ ~IsNext(p)
          /\ RSend("Ack", rNext, 0)
          /\ UNCHANGED <<rState, received, acceptPending, drawn, part>>
    /\ UNCHANGED <<rSession, target, replacing, before, file, backup>>

\* The verification of finishReceivedFile(), of what was counted and summed on
\* the way to the card, not of the file.
Verified(p) == rNext = Chunks /\ received = FirstChunks(p.data)

\* finishReceivedFile() begins with the verification; it fails with both a
\* Cancel and a Result; mutant: the result is reported as good.
CommitFailsUnnoticed == RFail(<<Cancelled, RPacket("Result", 0, OK)>>)
CommitFails == RFail(<<Cancelled, RPacket("Result", 0, FAILED)>>)
OnComplete(p) ==
    /\ IF Verified(p)
       THEN rState' = "Sync" /\ UNCHANGED <<acceptPending, drawn, part, toS>>
       ELSE CommitFails
    /\ UNCHANGED <<rSession, received, target, replacing, before, file, backup>>

OnCompleteAgain == RSend("Result", 0, OK) /\ UNCHANGED <<rVars, diskVars>>

\* Cancel, in any state with a peer: told twice, by the handler and setError().
ROnCancel ==
    /\ RFail(<<Cancelled, Cancelled>>)
    /\ UNCHANGED <<rSession, received, target, replacing, before, file, backup>>

RActs(p) ==
    \/ p.type \in {"Discover", "Offer"} /\ rState = "Listening"
    \/ /\ p.session = rSession /\ rState # "Listening"
       /\ \/ p.type \in {"Offer", "Data"} /\ rState = "Receiving"
          \/ p.type = "Complete" /\ rState \in {"Receiving", "Success"}
          \/ p.type = "Cancel"

\* handlePacket() of the receiver, for the oldest packet in its queue.
ReceiverHandles ==
    /\ rState \notin {"Off"} \cup CommitSteps /\ toR # <<>>
    /\ toR' = Tail(toR)
    /\ LET p == Head(toR) IN
        IF RActs(p)
        THEN \/ p.type = "Discover" /\ OnDiscover(p)
             \/ p.type = "Offer" /\ rState = "Listening" /\ OnOffer(p)
             \/ p.type = "Offer" /\ rState # "Listening" /\ OnOfferAgain
             \/ p.type = "Data" /\ OnData(p)
             \/ p.type = "Complete" /\ rState = "Receiving" /\ OnComplete(p)
             \/ p.type = "Complete" /\ rState = "Success" /\ OnCompleteAgain
             \/ p.type = "Cancel" /\ ROnCancel
        ELSE UNCHANGED <<rVars, diskVars, toS>>
    /\ UNCHANGED sVars

-----------------------------------------------------------------------------
(* finishReceivedFile() after the verification: one action for every       *)
(* storage operation, because power may be lost between any two.           *)
Step(from, to) == rState = from /\ rState' = to
Fails == DiskFails /\ CommitFails

Sync ==
    /\ rState = "Sync"
    /\ replacing' = (file[target] # None)
    /\ \/ /\ rState' = IF file[target] # None THEN "DropBackup" ELSE "Swap"
          /\ UNCHANGED <<acceptPending, drawn, part, toS>>
       \/ Fails
    /\ UNCHANGED <<file, backup>>

DropBackup ==
    /\ Step("DropBackup", "SetAside")
    /\ backup' = [backup EXCEPT ![target] = None]
    /\ UNCHANGED <<acceptPending, drawn, replacing, file, part, toS>>

\* The old file becomes the backup; mutant: it is simply removed.
RemovedOld == backup
SavedOld == [backup EXCEPT ![target] = file[target]]

SetAside ==
    /\ rState = "SetAside"
    /\ \/ /\ rState' = "Swap"
          /\ backup' = SavedOld
          /\ file' = [file EXCEPT ![target] = None]
          /\ UNCHANGED <<acceptPending, drawn, part, toS>>
       \/ Fails /\ UNCHANGED <<file, backup>>
    /\ UNCHANGED replacing

Swap ==
    /\ rState = "Swap"
    /\ \/ /\ rState' = "CleanUp"
          /\ file' = [file EXCEPT ![target] = part[target]]
          /\ part' = [part EXCEPT ![target] = None]
          /\ UNCHANGED <<acceptPending, drawn, toS>>
       \/ /\ DiskFails /\ replacing /\ rState' = "RollBack"
          /\ UNCHANGED <<acceptPending, drawn, file, part, toS>>
       \/ Fails /\ ~replacing /\ UNCHANGED file
    /\ UNCHANGED <<replacing, backup>>

\* The result of the rename back is not looked at.
RollBack ==
    /\ rState = "RollBack"
    /\ \/ /\ file' = [file EXCEPT ![target] = backup[target]]
          /\ backup' = [backup EXCEPT ![target] = None]
       \/ UNCHANGED <<file, backup>>
    /\ CommitFails
    /\ UNCHANGED replacing

\* The backup goes, and handlePacket() reports the success.
CleanUp ==
    /\ Step("CleanUp", "Success")
    /\ backup' = IF replacing THEN [backup EXCEPT ![target] = None] ELSE backup
    /\ RSend("Result", 0, OK)
    /\ UNCHANGED <<acceptPending, drawn, replacing, file, part>>

Commit ==
    /\ Sync \/ DropBackup \/ SetAside \/ Swap \/ RollBack \/ CleanUp
    /\ UNCHANGED <<rSession, received, target, before, sVars, toR>>

\* updateTimers() of the receiver.
ReceiveTimer ==
    /\ rState = "Receiving"
    /\ RFail(<<Cancelled>>)
    /\ UNCHANGED <<rSession, received, target, replacing, before, file, backup, sVars, toR>>

\* The activity is gone, and with it all it knew but the card.
RGone ==
    /\ rState' = "Off" /\ rSession' = 0 /\ received' = <<>> /\ target' = None
    /\ acceptPending' = FALSE /\ drawn' = FALSE /\ replacing' = FALSE
    /\ toR' = <<>>

\* The user leaves by Back, or opens the received book: a restart.
ReceiverLeaves ==
    /\ rState \in {"Listening", "Receiving", "Success", "Error"}
    /\ RGone
    /\ IF rState = "Receiving"
       THEN part' = PartDiscarded /\ toS' \in AtSender(<<Cancelled>>)
       ELSE UNCHANGED <<part, toS>>
    /\ UNCHANGED <<before, file, backup, sVars>>

ReceiverLosesPower ==
    /\ rState # "Off" /\ RGone
    /\ UNCHANGED <<before, diskVars, sVars, toS>>

-----------------------------------------------------------------------------
Sender == SenderHandles \/ ApprovalTimer \/ ChunkTimer \/ CompleteTimer
Receiver == ReceiverHandles \/ Draw \/ SendPendingAccept \/ Commit \/ ReceiveTimer

Users ==
    \/ StartDiscovery \/ DiscoveryTimer \/ SelectPeer \/ SenderLeaves
    \/ StartListening \/ RejectOffer \/ ConfirmCollision \/ ReceiverLeaves
    \/ \E name \in Names : AcceptOffer(name)

Next == Sender \/ Receiver \/ Users \/ SenderLosesPower \/ ReceiverLosesPower

Spec == Init /\ [][Next]_vars

(* Fairness.  Both loops run for ever: packets are handled, timers expire,  *)
(* the screen is painted, the card answers.  Nothing is assumed of the      *)
(* users, of the power, nor of a radio that may lose everything.            *)
Fairness ==
    /\ WF_vars(SenderHandles) /\ WF_vars(ReceiverHandles)
    /\ WF_vars(Draw) /\ WF_vars(SendPendingAccept) /\ WF_vars(Commit)
    /\ WF_vars(ReceiveTimer)
    /\ WF_vars(ApprovalTimer) /\ WF_vars(ChunkTimer) /\ WF_vars(CompleteTimer)

FairSpec == Spec /\ Fairness

-----------------------------------------------------------------------------
(* Properties.                                                             *)

\* What is visible on the card under a name is the whole old or the whole
\* new book, never a part of one (docs/nearby-file-transfer.md, Safety).
WholeFilesOnly == \A n \in Names : file[n] \in {None, OldFile, Book}

\* Whatever fails, in the commit or in the rollback, the receiver's own book
\* is never lost without its replacement: one of the two is on the card.
BookSurvives ==
    BookExists => {file["book"], backup["book"]} \cap {OldFile, Book} # {}

\* When the sender reports success, the receiver has the book.
SuccessMeansStored == sState = "Success" => \E n \in Names : file[n] = Book

\* The two ends of one session are never more than one chunk apart, and what
\* is written so far are the first chunks of the book in order.
InStep ==
    sState = "Sending" /\ rState = "Receiving" /\ rSession = sSession =>
        /\ rNext \in {sNext, sNext + 1}
        /\ part[target] = FirstChunks(rNext)

\* A Complete is only ever received when everything has been: a transfer
\* between two working readers never fails in the verification.
CompleteIsTrue ==
    toR # <<>> /\ rState = "Receiving" /\ Head(toR).type = "Complete" /\ RActs(Head(toR))
        => rNext = Chunks /\ part[target] = Book

\* The sender is told to go ahead only once the receiving screen is on the
\* panel: painting it during the transfer would starve the radio.
AcceptedWhenShown ==
    [][Len(toS') > Len(toS) /\ Last(toS').type = "Accept" => drawn /\ drawn']_vars

\* A transfer that fails or is cancelled replaces no file and leaves no part file; at worst
\* the old file stays under its hidden name, when even the rename back fails.  (A Cancel that
\* comes after the success is not meant: the receiver shows it as a failure all the same.)
FailureKeepsFiles ==
    [][rState' = "Error" /\ rState \notin {"Success", "Error"} /\ target # None =>
         /\ \A n \in Names : \/ file'[n] = before[n]
                             \/ file'[n] = None /\ backup'[n] = before[n]
         /\ part'[target] = None]_vars

\* Each chunk is acknowledged, or the sender gives up on it.
ChunkIsSettled ==
    \A n \in 0 .. Chunks :
        sState = "Sending" /\ sNext = n /\ sRead = n + 1
            ~> sState # "Sending" \/ sNext > n

\* A transfer ends at the sender, one way or the other.
SenderFinishes == sState = "Sending" ~> sState # "Sending"

\* Waiting for approval ends.
ApprovalIsSettled == sState = "WaitingForApproval" ~> sState # "WaitingForApproval"

\* Whatever is lost, and whether or not anybody answers, the sender never waits for ever for
\* an approval or for the acknowledgement of a chunk (the retry counts of updateTimers()).
EveryWaitEnds == ApprovalIsSettled /\ ChunkIsSettled
=============================================================================
