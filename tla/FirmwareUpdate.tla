--------------------------- MODULE FirmwareUpdate ---------------------------
(***************************************************************************)
(* Installing firmware from the card and over the air: the partition that  *)
(* is not running is overwritten block by block, then an entry of otadata  *)
(* selects it. The card is removable and power may be lost at any step.    *)
(*                                                                         *)
(* The bootloader and ESP-IDF's OTA calls are external: Reset boots what   *)
(* otadata selects, or the other partition when that is not a whole image, *)
(* and with Rollback takes back an image that has not been confirmed.      *)
(***************************************************************************)
EXTENDS Integers

CONSTANTS
    Images,     \* whole firmware images
    Bad,        \* a block that belongs to none, and a file that is none
    Erased,     \* a block that has been erased
    Blocks,     \* blocks of an image
    Rollback,   \* whether the bootloader takes back an unconfirmed image
    MaxSeq      \* bound on otadata's sequence numbers

Partitions == {0, 1}
Slots == {0, 1}
NoSlot == 2
States == {"erased", "new", "pending", "valid", "aborted"}

ASSUME FirmwareAssumption ==
    /\ Bad \notin Images /\ Erased \notin Images /\ Images # {}
    /\ Blocks \in Nat \ {0} /\ MaxSeq \in Nat /\ Rollback \in BOOLEAN

VARIABLES
    part,       \* the blocks of the two OTA partitions
    otadata,    \* its two entries
    running,    \* the partition the running image was booted from
    card,       \* what is in the firmware file on the card
    stage,      \* where the update is
    blk,        \* blocks written
    want,       \* the image validated, or pinned by the release manifest
    changed,    \* observer: the file has changed since it was validated for flashing
    tainted     \* observer: such a file, or one no digest pins, has been switched to

vars == <<part, otadata, running, card, stage, blk, want, changed, tainted>>

BlockNumbers == 1 .. Blocks
HoldsImage(p, m) == \A b \in BlockNumbers : p[b] = m
Whole(p) == \E m \in Images : HoldsImage(p, m)
-----------------------------------------------------------------------------
(* otadata *)

\* A valid checksum, and neither INVALID nor ABORTED.
Usable(e) == e.state \in {"new", "pending", "valid"}

\* switchTo(): the usable slot of the highest sequence number.
ActiveSlot(d) ==
    IF Usable(d[0]) /\ (Usable(d[1]) => d[0].seq >= d[1].seq) THEN 0
    ELSE IF Usable(d[1]) THEN 1 ELSE NoSlot
ActiveSeq(d) == IF ActiveSlot(d) = NoSlot THEN 0 ELSE d[ActiveSlot(d)].seq

\* The partition a sequence number stands for, and so what the bootloader would start.
PartitionOf(seq) == (seq - 1) % 2
Selects(d) == IF ActiveSlot(d) = NoSlot THEN 0 ELSE PartitionOf(ActiveSeq(d))

\* Mutant: the parity is forgotten.
NextSeqIgnoringPartition(d, p) == ActiveSeq(d) + 1
\* The smallest greater number that stands for partition p.
NextSeq(d, p) == IF PartitionOf(ActiveSeq(d) + 1) = p THEN ActiveSeq(d) + 1 ELSE ActiveSeq(d) + 2

\* Mutant: the slot does not depend on which is active.
TargetIsSlotOne(d) == 1
\* The slot to write: never the active one.
TargetSlot(d) == IF ActiveSlot(d) = 0 THEN 1 ELSE 0

\* Mutant: the partition otadata does not select.
DestByOtadata == 1 - Selects(otadata)
\* esp_ota_get_next_update_partition(nullptr): the one that is not running.
dest == 1 - running

Forget(d, s) == [d EXCEPT ![s] = [seq |-> 0, state |-> "erased"]]
Mark(d, s, state) == [d EXCEPT ![s].state = state]
-----------------------------------------------------------------------------
Init ==
    /\ part \in [Partitions -> {[b \in BlockNumbers |-> m] : m \in Images \cup {Erased}}]
    /\ Whole(part[0])
    /\ otadata = [s \in Slots |-> [seq |-> 0, state |-> "erased"]]
    /\ running = 0 /\ card = Bad
    /\ stage = "idle" /\ blk = 0 /\ want = Bad /\ changed = FALSE /\ tainted = FALSE

\* The card is taken out, rewritten over USB or the network, put back.
ChangeCard ==
    /\ card' \in Images \cup {Bad} /\ card' # card
    /\ changed' = TRUE
    /\ UNCHANGED <<part, otadata, running, stage, blk, want, tainted>>
-----------------------------------------------------------------------------
(* From the card *)

\* onPickerResult(): the file is validated before the question is asked.
Pick ==
    /\ stage = "idle"
    /\ stage' = IF card \in Images THEN "confirming" ELSE "failed"
    /\ UNCHANGED <<part, otadata, running, card, blk, want, changed, tainted>>

CancelPrompt ==
    /\ stage = "confirming" /\ stage' = "idle"
    /\ UNCHANGED <<part, otadata, running, card, blk, want, changed, tainted>>

\* performUpdate(): flashFromSdPath() validates the file once more, then opens it again.
Confirm ==
    /\ stage = "confirming"
    /\ IF card \in Images
       THEN stage' = "flashing" /\ blk' = 0 /\ want' = card /\ changed' = FALSE
       ELSE stage' = "failed" /\ UNCHANGED <<blk, want, changed>>
    /\ UNCHANGED <<part, otadata, running, card, tainted>>

BlocksLeft == blk < Blocks
\* A block is erased, read and written. A file that has changed may read as anything.
FlashBlock ==
    /\ stage = "flashing" /\ BlocksLeft
    /\ blk' = blk + 1
    /\ \E c \in IF changed THEN Images \cup {Bad} ELSE {want} :
         part' = [part EXCEPT ![dest][blk + 1] = c]
    /\ UNCHANGED <<otadata, running, card, stage, want, changed, tainted>>

\* The erase fails, or the read or the write after it.
FlashFails ==
    /\ stage = "flashing" /\ BlocksLeft /\ stage' = "failed"
    /\ part' \in {part, [part EXCEPT ![dest][blk + 1] = Erased]}
    /\ UNCHANGED <<otadata, running, card, blk, want, changed, tainted>>
-----------------------------------------------------------------------------
(* Over the air *)

\* installUpdate() up to esp_ota_begin(), which erases the partition. An https release may
\* come without a digest.
StartDownload ==
    /\ stage = "idle" /\ stage' = "downloading" /\ blk' = 0
    /\ want' \in Images \cup {Bad}
    /\ part' = [part EXCEPT ![dest] = [b \in BlockNumbers |-> Erased]]
    /\ UNCHANGED <<otadata, running, card, changed, tainted>>

DownloadBlock ==
    /\ stage = "downloading" /\ BlocksLeft
    /\ blk' = blk + 1
    /\ \E c \in Images \cup {Bad} : part' = [part EXCEPT ![dest][blk + 1] = c]
    /\ UNCHANGED <<otadata, running, card, stage, want, changed, tainted>>

\* Cancelled, broken off, too short.
DownloadFails ==
    /\ stage = "downloading" /\ stage' = "failed"
    /\ UNCHANGED <<part, otadata, running, card, blk, want, changed, tainted>>

DigestMatches == want # Bad => HoldsImage(part[dest], want)
\* What must hold before the partition is selected: the digest of the manifest if there is
\* one, and (in esp_ota_end(), external) that the image is whole.
DownloadVerifies == DigestMatches /\ Whole(part[dest])

FinishDownload ==
    /\ stage = "downloading" /\ blk = Blocks
    /\ stage' = IF DownloadVerifies THEN "verified" ELSE "failed"
    /\ UNCHANGED <<part, otadata, running, card, blk, want, changed, tainted>>
-----------------------------------------------------------------------------
(* switchTo(), and esp_ota_set_boot_partition() which it stands in for *)

EraseEntry ==
    /\ (stage = "flashing" /\ blk = Blocks) \/ stage = "verified"
    /\ NextSeq(otadata, dest) <= MaxSeq
    /\ otadata' = Forget(otadata, TargetSlot(otadata))
    /\ tainted' = (tainted \/ (stage = "flashing" /\ changed))
    /\ stage' = "switching"
    /\ UNCHANGED <<part, running, card, blk, want, changed>>

WriteEntry ==
    /\ stage = "switching" /\ stage' = "done"
    /\ otadata' = [otadata EXCEPT ![TargetSlot(otadata)] =
                     [seq |-> NextSeq(otadata, dest), state |-> "new"]]
    /\ UNCHANGED <<part, running, card, blk, want, changed, tainted>>

SwitchFails ==
    /\ stage \in {"verified", "switching"} \/ (stage = "flashing" /\ blk = Blocks)
    /\ stage' = "failed"
    /\ UNCHANGED <<part, otadata, running, card, blk, want, changed, tainted>>

\* The error screen is left; in recovery mode the picker comes back.
Dismiss ==
    /\ stage = "failed" /\ stage' = "idle"
    /\ UNCHANGED <<part, otadata, running, card, blk, want, changed, tainted>>
-----------------------------------------------------------------------------
(* The bootloader *)

\* An image that was started once and not confirmed is taken back.
TakenBack(d) ==
    IF ActiveSlot(d) # NoSlot /\ d[ActiveSlot(d)].state = "pending"
    THEN Mark(d, ActiveSlot(d), "aborted") ELSE d

Boots(d) == IF Whole(part[Selects(d)]) THEN Selects(d) ELSE 1 - Selects(d)

\* The first start of a new image is marked.
Started(d, p) ==
    IF Rollback /\ ActiveSlot(d) # NoSlot /\ Selects(d) = p /\ d[ActiveSlot(d)].state = "new"
    THEN Mark(d, ActiveSlot(d), "pending") ELSE d

\* The restart after an update, or power lost at any step.
Reset ==
    /\ LET d == TakenBack(otadata) IN
         /\ running' = Boots(d)
         /\ otadata' = Started(d, Boots(d))
    /\ stage' = "booting" /\ blk' = 0 /\ want' = Bad /\ changed' = FALSE
    /\ UNCHANGED <<part, card, tainted>>

\* The started image confirms itself.
ConfirmStart ==
    /\ stage = "booting" /\ stage' = "idle"
    /\ otadata' = IF ActiveSlot(otadata) # NoSlot /\ Selects(otadata) = running
                     /\ otadata[ActiveSlot(otadata)].state = "pending"
                  THEN Mark(otadata, ActiveSlot(otadata), "valid") ELSE otadata
    /\ UNCHANGED <<part, running, card, blk, want, changed, tainted>>
-----------------------------------------------------------------------------
Next ==
    \/ ChangeCard
    \/ Pick \/ CancelPrompt \/ Confirm \/ FlashBlock \/ FlashFails
    \/ StartDownload \/ DownloadBlock \/ DownloadFails \/ FinishDownload
    \/ EraseEntry \/ WriteEntry \/ SwitchFails \/ Dismiss
    \/ Reset \/ ConfirmStart

Spec == Init /\ [][Next]_vars
-----------------------------------------------------------------------------
Stages == {"idle", "confirming", "flashing", "downloading", "verified", "switching", "done",
           "failed", "booting"}
Entries == [seq : Nat, state : States]

\* Every variable has its type.
TypeOK ==
    /\ part \in [Partitions -> [BlockNumbers -> Images \cup {Bad, Erased}]]
    /\ otadata \in [Slots -> Entries]
    /\ running \in Partitions /\ card \in Images \cup {Bad}
    /\ stage \in Stages /\ blk \in 0 .. Blocks /\ want \in Images \cup {Bad}
    /\ changed \in BOOLEAN /\ tainted \in BOOLEAN

\* The image that is running is whole, and so is what the bootloader would start next, at
\* every step of every update and however it is cut short (the order of writes in
\* flashFromSdPath(), installUpdate() and switchTo()).
AlwaysBoots == Whole(part[running]) /\ Whole(part[Boots(TakenBack(otadata))])

\* Unless a file was swapped between its validation and its flashing, otadata never selects
\* a partition that is not a whole image (the promise of flashFromSdPath()'s comment).
SelectedIsWhole == ~tainted => Whole(part[Selects(otadata)])

\* Losing power before the entry is written starts the image that was running, afterwards
\* the new one, confirmed images only (switchTo() against TakenBack()).
InterruptedUpdateKeepsImage ==
    ~tainted /\ stage \notin {"done", "booting"} => Boots(TakenBack(otadata)) = running
FinishedUpdateStarts ==
    ~tainted /\ stage = "done" =>
        /\ Boots(TakenBack(otadata)) = dest
        /\ want # Bad => HoldsImage(part[dest], want)
=============================================================================
