------------------------ MODULE FirmwareUpdateProofs ------------------------
(***************************************************************************)
(* What FirmwareUpdate's runs check for two images and five entries, for   *)
(* every set of images, image length, and number of updates.               *)
(*                                                                         *)
(* The invariant says that the running partition is never written; that,   *)
(* unless a swapped file was flashed, otadata selects the running image    *)
(* until the new one is whole and written; and that the entry an           *)
(* unconfirmed image would be taken back to selects a whole image.         *)
(***************************************************************************)
EXTENDS FirmwareUpdate, TLAPS

\* An entry the bootloader neither starts for the first time nor takes back.
Settled(e) == e.state # "pending" /\ (Rollback => e.state # "new")
Aborted(d) == Mark(d, ActiveSlot(d), "aborted")

RunningIsWhole == Whole(part[running])

FlashedSoFar ==
    stage = "flashing" =>
        /\ want \in Images
        /\ ~changed => \A b \in BlockNumbers : b <= blk => part[dest][b] = want

ReadyIsWhole ==
    ~tainted /\ stage \in {"verified", "switching", "done"} =>
        /\ Whole(part[dest])
        /\ want # Bad => HoldsImage(part[dest], want)

SelectsRunning ==
    ~tainted => Selects(otadata) = IF stage = "done" THEN dest ELSE running

EntriesSettled ==
    ~tainted => \A s \in Slots :
        \/ Settled(otadata[s])
        \/ /\ s = ActiveSlot(otadata)
           /\ \/ stage = "done" /\ otadata[s].state = "new"
              \/ stage = "booting" /\ otadata[s].state = "pending"

FallbackIsWhole ==
    ~tainted /\ stage \in {"done", "booting"} /\ ActiveSlot(otadata) # NoSlot
    /\ ~Settled(otadata[ActiveSlot(otadata)])
        => Whole(part[Selects(Aborted(otadata))])

Inv ==
    /\ TypeOK /\ RunningIsWhole /\ FlashedSoFar /\ ReadyIsWhole
    /\ SelectsRunning /\ EntriesSettled /\ FallbackIsWhole
-----------------------------------------------------------------------------
(* otadata *)

\* The active slot is one of the two or none, and what it selects is a partition.
LEMMA SelectionType ==
    ASSUME NEW d \in [Slots -> Entries]
    PROVE  /\ ActiveSlot(d) \in {0, 1, NoSlot}
           /\ ActiveSeq(d) \in Nat
           /\ Selects(d) \in Partitions
           /\ TargetSlot(d) \in Slots
           /\ TargetSlot(d) # ActiveSlot(d)
           /\ ActiveSlot(d) # NoSlot => ActiveSlot(d) \in Slots
  <1>1. ActiveSlot(d) \in {0, 1, NoSlot}
    BY DEF ActiveSlot
  <1>2. ActiveSeq(d) \in Nat
    BY <1>1 DEF ActiveSeq, Entries, Slots, NoSlot
  <1>3. Selects(d) \in Partitions
    BY <1>2 DEF Selects, PartitionOf, Partitions
  <1> QED BY <1>1, <1>2, <1>3 DEF TargetSlot, Slots, NoSlot

\* Erasing the slot that switchTo() is about to write changes no selection.
LEMMA ForgetKeepsSelection ==
    ASSUME NEW d \in [Slots -> Entries]
    PROVE  LET f == Forget(d, TargetSlot(d)) IN
           /\ f \in [Slots -> Entries]
           /\ ActiveSlot(f) = ActiveSlot(d)
           /\ Selects(f) = Selects(d)
           /\ TargetSlot(f) = TargetSlot(d)
  <1> DEFINE f == Forget(d, TargetSlot(d))
  <1>1. f \in [Slots -> Entries]
    BY DEF Forget, Entries, States
  <1>2. ActiveSlot(f) = ActiveSlot(d)
    BY DEF Forget, TargetSlot, ActiveSlot, Usable, Slots, NoSlot, Entries
  <1>3. ActiveSeq(f) = ActiveSeq(d)
    BY <1>2, SelectionType DEF ActiveSeq, Forget, TargetSlot, Slots, NoSlot
  <1> QED BY <1>1, <1>2, <1>3 DEF Selects, TargetSlot

\* The next number is greater than the active one and stands for the partition asked for.
LEMMA NextSeqFits ==
    ASSUME NEW d \in [Slots -> Entries], NEW p \in Partitions
    PROVE  /\ NextSeq(d, p) \in Nat
           /\ NextSeq(d, p) > ActiveSeq(d)
           /\ PartitionOf(NextSeq(d, p)) = p
  BY SelectionType DEF NextSeq, PartitionOf, Partitions

\* The entry switchTo() writes is active and selects its partition, and when it is taken back
\* the selection is what it was.
LEMMA WrittenEntrySelects ==
    ASSUME NEW d \in [Slots -> Entries], NEW p \in Partitions
    PROVE  LET w == [d EXCEPT ![TargetSlot(d)] = [seq |-> NextSeq(d, p), state |-> "new"]] IN
           /\ w \in [Slots -> Entries]
           /\ ActiveSlot(w) = TargetSlot(d)
           /\ Selects(w) = p
           /\ Selects(Aborted(w)) = Selects(d)
  <1> DEFINE n == NextSeq(d, p)
             w == [d EXCEPT ![TargetSlot(d)] = [seq |-> n, state |-> "new"]]
  <1>0. n \in Nat /\ n > ActiveSeq(d) /\ PartitionOf(n) = p
    BY NextSeqFits
  <1> HIDE DEF n
  <1>1. w \in [Slots -> Entries]
    BY <1>0 DEF Entries, States
  <1>2. ActiveSlot(w) = TargetSlot(d)
    BY <1>0, SelectionType DEF ActiveSlot, ActiveSeq, TargetSlot, Usable, Slots, NoSlot, Entries
  <1>3. Selects(w) = p
    BY <1>0, <1>2, SelectionType DEF Selects, ActiveSeq, Slots, NoSlot
  <1>4. ActiveSlot(Aborted(w)) = ActiveSlot(d)
    BY <1>2 DEF Aborted, Mark, ActiveSlot, TargetSlot, Usable, Slots, NoSlot, Entries
  <1>5. ActiveSeq(Aborted(w)) = ActiveSeq(d)
    BY <1>2, <1>4, SelectionType DEF Aborted, Mark, ActiveSeq, TargetSlot, Slots, NoSlot
  <1> QED BY <1>1, <1>2, <1>3, <1>4, <1>5 DEF Selects, n

\* Marking a state moves no entry but can take it out of use.
LEMMA MarkType ==
    ASSUME NEW d \in [Slots -> Entries], NEW s \in Slots, NEW st \in States
    PROVE  /\ Mark(d, s, st) \in [Slots -> Entries]
           /\ Mark(d, s, st)[s].state = st
           /\ \A t \in Slots \ {s} : Mark(d, s, st)[t] = d[t]
  BY DEF Mark, Entries

\* The first start of an image, and its confirmation, change no selection.
LEMMA MarkKeepsSelection ==
    ASSUME NEW d \in [Slots -> Entries], ActiveSlot(d) # NoSlot, NEW st \in {"pending", "valid"}
    PROVE  LET m == Mark(d, ActiveSlot(d), st) IN
           /\ ActiveSlot(m) = ActiveSlot(d)
           /\ Selects(m) = Selects(d)
           /\ Aborted(m) = Aborted(d)
  <1> DEFINE m == Mark(d, ActiveSlot(d), st)
  <1>0. ActiveSlot(d) \in Slots
    BY SelectionType
  <1>1. Usable(d[ActiveSlot(d)])
    BY DEF ActiveSlot, NoSlot
  <1>2. ActiveSlot(m) = ActiveSlot(d)
    BY <1>0, <1>1 DEF Mark, ActiveSlot, Usable, Slots, NoSlot, Entries
  <1>3. ActiveSeq(m) = ActiveSeq(d)
    BY <1>0, <1>2 DEF ActiveSeq, Mark, Entries
  <1>4. Aborted(m) = Aborted(d)
    BY <1>0, <1>2 DEF Aborted, Mark, Entries
  <1> QED BY <1>2, <1>3, <1>4 DEF Selects
-----------------------------------------------------------------------------
(* The invariant *)

\* An image is whole when every block is one image's.
LEMMA WantedIsWhole ==
    ASSUME NEW p, want \in Images, HoldsImage(p, want)
    PROVE  Whole(p)
  BY DEF Whole

LEMMA InitInv == Init => Inv
  <1> SUFFICES ASSUME Init PROVE Inv
    OBVIOUS
  <1>1. TypeOK
    <2>1. part \in [Partitions -> [BlockNumbers -> Images \cup {Bad, Erased}]]
      BY DEF Init, Partitions
    <2>2. otadata \in [Slots -> Entries]
      BY DEF Init, Entries, States
    <2>3. running \in Partitions /\ stage \in Stages /\ blk \in 0 .. Blocks
      BY FirmwareAssumption DEF Init, Partitions, Stages
    <2>4. card \in Images \cup {Bad} /\ want \in Images \cup {Bad}
      BY DEF Init
    <2>5. changed \in BOOLEAN /\ tainted \in BOOLEAN
      BY DEF Init
    <2> QED BY <2>1, <2>2, <2>3, <2>4, <2>5 DEF TypeOK
  <1>2. ActiveSlot(otadata) = NoSlot
    BY DEF Init, ActiveSlot, Usable, Slots
  <1>3. Selects(otadata) = 0
    BY <1>2 DEF Selects
  <1> QED
    BY <1>1, <1>2, <1>3 DEF Inv, Init, RunningIsWhole, FlashedSoFar, ReadyIsWhole, SelectsRunning,
       EntriesSettled, FallbackIsWhole, Settled, Slots

\* Every step keeps the types.
LEMMA TypeStep == TypeOK /\ [Next]_vars => TypeOK'
  <1> SUFFICES ASSUME TypeOK, [Next]_vars PROVE TypeOK'
    OBVIOUS
  <1> USE FirmwareAssumption
  <1>0. dest \in Partitions /\ dest # running
    BY DEF TypeOK, dest, Partitions
  <1>1. ASSUME NEW c \in Images \cup {Bad}, BlocksLeft, blk' = blk + 1,
               part' = [part EXCEPT ![dest][blk + 1] = c]
        PROVE  /\ part' \in [Partitions -> [BlockNumbers -> Images \cup {Bad, Erased}]]
               /\ blk' \in 0 .. Blocks
    BY <1>0, <1>1 DEF TypeOK, BlocksLeft, BlockNumbers
  <1>2. CASE ChangeCard \/ Pick \/ CancelPrompt \/ Confirm \/ DownloadFails \/ FinishDownload
             \/ SwitchFails \/ Dismiss
    <2>1. UNCHANGED <<part, otadata, running>>
      BY <1>2 DEF ChangeCard, Pick, CancelPrompt, Confirm, DownloadFails, FinishDownload,
         SwitchFails, Dismiss
    <2>2. card' \in Images \cup {Bad} /\ want' \in Images \cup {Bad}
      BY <1>2 DEF TypeOK, ChangeCard, Pick, CancelPrompt, Confirm, DownloadFails, FinishDownload,
         SwitchFails, Dismiss
    <2>3. stage' \in Stages
      BY <1>2 DEF TypeOK, ChangeCard, Pick, CancelPrompt, Confirm, DownloadFails, FinishDownload,
         SwitchFails, Dismiss, Stages
    <2>4. blk' \in 0 .. Blocks
      BY <1>2 DEF TypeOK, ChangeCard, Pick, CancelPrompt, Confirm, DownloadFails, FinishDownload,
         SwitchFails, Dismiss
    <2>5. changed' \in BOOLEAN /\ tainted' \in BOOLEAN
      BY <1>2 DEF TypeOK, ChangeCard, Pick, CancelPrompt, Confirm, DownloadFails, FinishDownload,
         SwitchFails, Dismiss
    <2> QED BY <2>1, <2>2, <2>3, <2>4, <2>5 DEF TypeOK
  <1>3. CASE FlashBlock
    <2>1. PICK c \in Images \cup {Bad} : part' = [part EXCEPT ![dest][blk + 1] = c]
      BY <1>3 DEF FlashBlock, TypeOK
    <2> QED BY <1>1, <1>3, <2>1 DEF FlashBlock, TypeOK
  <1>4. CASE FlashFails
    <2>1. part' \in [Partitions -> [BlockNumbers -> Images \cup {Bad, Erased}]]
      <3>1. CASE part' = part
        BY <3>1 DEF TypeOK
      <3>2. CASE part' = [part EXCEPT ![dest][blk + 1] = Erased]
        BY <1>0, <1>4, <3>2 DEF FlashFails, BlocksLeft, TypeOK, BlockNumbers
      <3> QED BY <1>4, <3>1, <3>2 DEF FlashFails
    <2> QED BY <1>4, <2>1 DEF FlashFails, TypeOK, Stages
  <1>5. CASE StartDownload
    BY <1>0, <1>5 DEF StartDownload, TypeOK, Stages
  <1>6. CASE DownloadBlock
    <2>1. PICK c \in Images \cup {Bad} : part' = [part EXCEPT ![dest][blk + 1] = c]
      BY <1>6 DEF DownloadBlock
    <2> QED BY <1>1, <1>6, <2>1 DEF DownloadBlock, TypeOK
  <1>7. CASE EraseEntry
    <2>1. otadata' \in [Slots -> Entries]
      BY <1>7, ForgetKeepsSelection DEF EraseEntry, TypeOK
    <2>2. tainted' \in BOOLEAN
      BY <1>7 DEF EraseEntry
    <2> QED BY <1>7, <2>1, <2>2 DEF EraseEntry, TypeOK, Stages
  <1>8. CASE WriteEntry
    <2>1. otadata' \in [Slots -> Entries]
      BY <1>0, <1>8, WrittenEntrySelects DEF WriteEntry, TypeOK
    <2> QED BY <1>8, <2>1 DEF WriteEntry, TypeOK, Stages
  <1>9. CASE Reset
    <2> DEFINE d == TakenBack(otadata)
    <2>1. d \in [Slots -> Entries]
      BY SelectionType, MarkType DEF TakenBack, TypeOK, States
    <2> HIDE DEF d
    <2>2. Boots(d) \in Partitions
      BY <2>1, SelectionType DEF Boots, Partitions
    <2>3. Started(d, Boots(d)) \in [Slots -> Entries]
      BY <2>1, SelectionType, MarkType DEF Started, States
    <2>4. otadata' = Started(d, Boots(d)) /\ running' = Boots(d)
      BY <1>9 DEF Reset, d
    <2>5. blk' \in 0 .. Blocks /\ stage' \in Stages
      BY <1>9 DEF Reset, Stages
    <2>6. changed' \in BOOLEAN /\ tainted' \in BOOLEAN
      BY <1>9 DEF Reset, TypeOK
    <2> QED BY <1>9, <2>2, <2>3, <2>4, <2>5, <2>6 DEF Reset, TypeOK
  <1>10. CASE ConfirmStart
    <2>1. otadata' \in [Slots -> Entries]
      BY <1>10, SelectionType, MarkType DEF ConfirmStart, TypeOK, States
    <2> QED BY <1>10, <2>1 DEF ConfirmStart, TypeOK, Stages
  <1>11. CASE UNCHANGED vars
    BY <1>11 DEF vars, TypeOK
  <1> QED
    BY <1>2, <1>3, <1>4, <1>5, <1>6, <1>7, <1>8, <1>9, <1>10, <1>11 DEF Next

\* Steps that touch neither the flash nor a finished update.
LEMMA QuietStep ==
    ASSUME Inv, TypeOK', UNCHANGED <<part, otadata, running, tainted>>,
           \/ stage' = stage /\ blk' = blk /\ want' = want /\ (changed => changed')
           \/ /\ stage \notin {"done", "booting"}
              /\ stage' \notin {"flashing", "verified", "switching", "done", "booting"}
    PROVE  Inv'
  <1>1. RunningIsWhole'
    BY DEF Inv, RunningIsWhole, Whole, HoldsImage
  <1>2. FlashedSoFar'
    BY DEF Inv, FlashedSoFar, dest
  <1>3. ReadyIsWhole'
    BY DEF Inv, ReadyIsWhole, Whole, HoldsImage, dest
  <1>4. SelectsRunning'
    BY DEF Inv, SelectsRunning, dest
  <1>5. EntriesSettled'
    BY DEF Inv, EntriesSettled
  <1>6. FallbackIsWhole'
    BY DEF Inv, FallbackIsWhole, Whole, HoldsImage
  <1> QED BY <1>1, <1>2, <1>3, <1>4, <1>5, <1>6 DEF Inv

\* Steps that write the partition that is not running, during an update.
LEMMA WritingStep ==
    ASSUME Inv, TypeOK', UNCHANGED <<otadata, running, tainted>>,
           part'[running] = part[running],
           stage \notin {"done", "booting"},
           stage' \in {"flashing", "downloading", "failed"},
           FlashedSoFar'
    PROVE  Inv'
  <1>1. RunningIsWhole'
    BY DEF Inv, RunningIsWhole, Whole, HoldsImage
  <1>2. ReadyIsWhole' /\ FallbackIsWhole'
    BY DEF ReadyIsWhole, FallbackIsWhole
  <1>3. SelectsRunning'
    BY DEF Inv, SelectsRunning
  <1>4. EntriesSettled'
    BY DEF Inv, EntriesSettled
  <1> QED BY <1>1, <1>2, <1>3, <1>4 DEF Inv

LEMMA ConfirmStep == ASSUME Inv, TypeOK', Confirm PROVE Inv'
  <1>1. CASE card \in Images
    <2>1. FlashedSoFar'
      BY <1>1 DEF Confirm, FlashedSoFar, BlockNumbers
    <2>2. part'[running] = part[running] /\ UNCHANGED <<otadata, running, tainted>>
      BY DEF Confirm
    <2>3. stage = "confirming" /\ stage' = "flashing"
      BY <1>1 DEF Confirm
    <2> QED BY <2>1, <2>2, <2>3, WritingStep
  <1>2. CASE card \notin Images
    BY <1>2, QuietStep DEF Confirm
  <1> QED BY <1>1, <1>2

LEMMA FlashStep == ASSUME Inv, TypeOK', FlashBlock PROVE Inv'
  <1>0. dest \in Partitions /\ dest # running /\ running \in Partitions
    BY DEF Inv, TypeOK, dest, Partitions
  <1>1. PICK c \in IF changed THEN Images \cup {Bad} ELSE {want} :
            part' = [part EXCEPT ![dest][blk + 1] = c]
    BY DEF FlashBlock
  <1>2. part'[running] = part[running]
    BY <1>0, <1>1 DEF Inv, TypeOK
  <1>3. FlashedSoFar'
    <2> SUFFICES ASSUME ~changed, NEW b \in BlockNumbers, b <= blk + 1
                 PROVE  want \in Images /\ part'[dest][b] = want
      BY DEF FlashBlock, FlashedSoFar, dest, Inv
    <2>1. want \in Images /\ (b <= blk => part[dest][b] = want)
      BY DEF Inv, FlashedSoFar, FlashBlock
    <2>2. b <= blk \/ b = blk + 1
      BY FirmwareAssumption DEF BlockNumbers, Inv, TypeOK
    <2>3. c = want
      BY <1>1
    <2> QED BY <1>0, <1>1, <2>1, <2>2, <2>3 DEF Inv, TypeOK
  <1> QED BY <1>2, <1>3, WritingStep DEF FlashBlock

LEMMA FlashFailsStep == ASSUME Inv, TypeOK', FlashFails PROVE Inv'
  <1>1. dest # running
    BY DEF Inv, TypeOK, dest, Partitions
  <1>2. part'[running] = part[running]
    BY <1>1 DEF FlashFails, Inv, TypeOK
  <1>3. FlashedSoFar'
    BY DEF FlashFails, FlashedSoFar
  <1> QED BY <1>2, <1>3, WritingStep DEF FlashFails

LEMMA DownloadStep == ASSUME Inv, TypeOK', StartDownload \/ DownloadBlock PROVE Inv'
  <1>1. dest # running
    BY DEF Inv, TypeOK, dest, Partitions
  <1>2. part'[running] = part[running]
    BY <1>1 DEF StartDownload, DownloadBlock, Inv, TypeOK
  <1>3. FlashedSoFar'
    BY DEF StartDownload, DownloadBlock, FlashedSoFar
  <1> QED BY <1>2, <1>3, WritingStep DEF StartDownload, DownloadBlock

LEMMA FinishDownloadStep == ASSUME Inv, TypeOK', FinishDownload PROVE Inv'
  <1>1. CASE DownloadVerifies
    <2>1. stage = "downloading" /\ stage' = "verified"
          /\ UNCHANGED <<part, otadata, running, want, tainted>>
      BY <1>1 DEF FinishDownload
    <2>2. RunningIsWhole' /\ FlashedSoFar'
      BY <2>1 DEF Inv, RunningIsWhole, FlashedSoFar, Whole, HoldsImage
    <2>3. ReadyIsWhole'
      BY <1>1, <2>1 DEF ReadyIsWhole, DownloadVerifies, DigestMatches, Whole, HoldsImage, dest
    <2>4. SelectsRunning' /\ EntriesSettled' /\ FallbackIsWhole'
      BY <2>1 DEF Inv, SelectsRunning, EntriesSettled, FallbackIsWhole
    <2> QED BY <2>2, <2>3, <2>4 DEF Inv
  <1>2. CASE ~DownloadVerifies
    BY <1>2, QuietStep DEF FinishDownload
  <1> QED BY <1>1, <1>2

LEMMA EraseStep == ASSUME Inv, TypeOK', EraseEntry PROVE Inv'
  <1> DEFINE f == Forget(otadata, TargetSlot(otadata))
  <1>0. otadata \in [Slots -> Entries] /\ otadata' = f
    BY DEF Inv, TypeOK, EraseEntry
  <1>1. /\ ActiveSlot(f) = ActiveSlot(otadata)
        /\ Selects(f) = Selects(otadata)
    BY <1>0, ForgetKeepsSelection
  <1>2. stage \in {"flashing", "verified"} /\ stage' = "switching"
        /\ UNCHANGED <<part, running, want, blk>>
    BY DEF EraseEntry
  <1>3. RunningIsWhole'
    BY <1>2 DEF Inv, RunningIsWhole, Whole, HoldsImage
  <1>4. FlashedSoFar' /\ FallbackIsWhole'
    BY <1>2 DEF FlashedSoFar, FallbackIsWhole
  <1>5. ReadyIsWhole'
    <2> SUFFICES ASSUME ~tainted'
                 PROVE  Whole(part[dest]) /\ (want # Bad => HoldsImage(part[dest], want))
      BY <1>2 DEF ReadyIsWhole, Whole, HoldsImage, dest
    <2>1. ~tainted /\ (stage = "flashing" => ~changed)
      BY DEF EraseEntry
    <2>2. CASE stage = "flashing"
      <3>1. want \in Images /\ blk = Blocks
        BY <2>2 DEF Inv, FlashedSoFar, EraseEntry
      <3>2. HoldsImage(part[dest], want)
        BY <2>1, <2>2, <3>1, FirmwareAssumption DEF Inv, FlashedSoFar, HoldsImage, BlockNumbers
      <3> QED BY <3>1, <3>2 DEF Whole
    <2>3. CASE stage = "verified"
      BY <2>1, <2>3 DEF Inv, ReadyIsWhole
    <2> QED BY <1>2, <2>2, <2>3
  <1>6. tainted => tainted'
    BY DEF EraseEntry
  <1>7. SelectsRunning'
    BY <1>0, <1>1, <1>2, <1>6 DEF Inv, SelectsRunning
  <1>8. EntriesSettled'
    <2> SUFFICES ASSUME ~tainted', NEW s \in Slots PROVE Settled(f[s])
      BY <1>0 DEF EntriesSettled
    <2>1. Settled(otadata[s])
      BY <1>2, <1>6 DEF Inv, EntriesSettled
    <2>2. CASE s = TargetSlot(otadata)
      BY <1>0, <2>2 DEF Forget, Settled
    <2>3. CASE s # TargetSlot(otadata)
      BY <1>0, <2>1, <2>3 DEF Forget
    <2> QED BY <2>2, <2>3
  <1> QED BY <1>3, <1>4, <1>5, <1>7, <1>8 DEF Inv

LEMMA WriteStep == ASSUME Inv, TypeOK', WriteEntry PROVE Inv'
  <1> DEFINE w == [otadata EXCEPT ![TargetSlot(otadata)] =
                     [seq |-> NextSeq(otadata, dest), state |-> "new"]]
  <1>0. otadata \in [Slots -> Entries] /\ otadata' = w /\ dest \in Partitions
    BY DEF Inv, TypeOK, WriteEntry, dest, Partitions
  <1>1. /\ ActiveSlot(w) = TargetSlot(otadata)
        /\ Selects(w) = dest
        /\ Selects(Aborted(w)) = Selects(otadata)
    BY <1>0, WrittenEntrySelects
  <1>2. stage = "switching" /\ stage' = "done" /\ UNCHANGED <<part, running, want, tainted>>
    BY DEF WriteEntry
  <1>3. RunningIsWhole' /\ FlashedSoFar'
    BY <1>2 DEF Inv, RunningIsWhole, FlashedSoFar, Whole, HoldsImage
  <1>4. ReadyIsWhole'
    BY <1>2 DEF Inv, ReadyIsWhole, Whole, HoldsImage, dest
  <1>5. SelectsRunning'
    BY <1>0, <1>1, <1>2 DEF SelectsRunning, dest
  <1>6. EntriesSettled'
    <2> SUFFICES ASSUME ~tainted, NEW s \in Slots
                 PROVE  Settled(w[s]) \/ (s = ActiveSlot(w) /\ w[s].state = "new")
      BY <1>0, <1>2 DEF EntriesSettled
    <2>1. Settled(otadata[s])
      BY <1>2 DEF Inv, EntriesSettled
    <2>2. CASE s = TargetSlot(otadata)
      BY <1>0, <1>1, <2>2
    <2>3. CASE s # TargetSlot(otadata)
      BY <1>0, <2>1, <2>3
    <2> QED BY <2>2, <2>3
  <1>7. FallbackIsWhole'
    <2> SUFFICES ASSUME ~tainted PROVE Whole(part[Selects(Aborted(w))])
      BY <1>0, <1>2 DEF FallbackIsWhole, Whole, HoldsImage
    <2>1. Selects(otadata) = running
      BY <1>2 DEF Inv, SelectsRunning
    <2> QED BY <1>1, <2>1 DEF Inv, RunningIsWhole
  <1> QED BY <1>3, <1>4, <1>5, <1>6, <1>7 DEF Inv

\* What the bootloader starts is a partition with a whole image, whatever was flashed.
LEMMA BootsWhole ==
    ASSUME Inv, NEW d \in [Slots -> Entries]
    PROVE  Boots(d) \in Partitions /\ Whole(part[Boots(d)])
  <1>1. Selects(d) \in Partitions /\ running \in Partitions
    BY SelectionType DEF Inv, TypeOK
  <1>2. running = Selects(d) \/ running = 1 - Selects(d)
    BY <1>1 DEF Partitions
  <1> QED BY <1>1, <1>2 DEF Boots, Inv, RunningIsWhole, Partitions

LEMMA ResetStep == ASSUME Inv, TypeOK', Reset PROVE Inv'
  <1> DEFINE d == TakenBack(otadata)
             p == Boots(d)
  <1>0. otadata \in [Slots -> Entries] /\ d \in [Slots -> Entries]
    BY SelectionType, MarkType DEF Inv, TypeOK, TakenBack, States
  <1>1. running' = p /\ otadata' = Started(d, p) /\ stage' = "booting"
        /\ UNCHANGED <<part, tainted>>
    BY DEF Reset
  <1>2. Whole(part[p])
    BY <1>0, BootsWhole
  <1>3. RunningIsWhole' /\ FlashedSoFar' /\ ReadyIsWhole'
    BY <1>1, <1>2 DEF RunningIsWhole, FlashedSoFar, ReadyIsWhole, Whole, HoldsImage
  <1>4. CASE tainted
    BY <1>1, <1>3, <1>4 DEF Inv, SelectsRunning, EntriesSettled, FallbackIsWhole
  <1>5. CASE ~tainted
    <2> USE <1>5
    <2>1. /\ Selects(d) \in Partitions
          /\ ActiveSlot(d) # NoSlot => ActiveSlot(d) \in Slots
          /\ ActiveSlot(otadata) # NoSlot => ActiveSlot(otadata) \in Slots
      BY <1>0, SelectionType
    <2>2. CASE \A s \in Slots : Settled(otadata[s])
      \* Nothing new: the running image is started again.
      <3>1. d = otadata
        BY <2>1, <2>2 DEF TakenBack, Settled
      <3>2. Started(d, p) = d
        BY <2>1, <2>2, <3>1 DEF Started, Settled
      <3>3. Whole(part[Selects(d)])
        BY <3>1 DEF Inv, SelectsRunning, RunningIsWhole, ReadyIsWhole
      <3>4. p = Selects(d)
        BY <3>3 DEF Boots
      <3>5. EntriesSettled' /\ SelectsRunning'
        BY <1>1, <2>2, <3>1, <3>2, <3>4 DEF EntriesSettled, SelectsRunning
      <3>6. FallbackIsWhole'
        BY <1>1, <2>1, <2>2, <3>1, <3>2 DEF FallbackIsWhole
      <3> QED BY <1>3, <3>5, <3>6 DEF Inv
    <2>3. CASE \E s \in Slots : ~Settled(otadata[s])
      <3>1. PICK s \in Slots : ~Settled(otadata[s])
        BY <2>3
      <3>2. /\ s = ActiveSlot(otadata) /\ s # NoSlot
            /\ \/ stage = "done" /\ otadata[s].state = "new"
               \/ stage = "booting" /\ otadata[s].state = "pending"
        BY <3>1 DEF Inv, EntriesSettled, Slots, NoSlot
      <3>3. Whole(part[Selects(Aborted(otadata))])
        BY <3>1, <3>2 DEF Inv, FallbackIsWhole
      <3>4. \A t \in Slots \ {s} : Settled(otadata[t])
        BY <3>2 DEF Inv, EntriesSettled
      <3>5. CASE stage = "done" /\ otadata[s].state = "new"
        \* The new image is started for the first time.
        <4>1. d = otadata
          BY <3>2, <3>5 DEF TakenBack
        <4>2. Whole(part[Selects(d)])
          BY <3>5, <4>1 DEF Inv, SelectsRunning, ReadyIsWhole
        <4>3. p = Selects(d) /\ Rollback
          BY <3>1, <3>5, <4>2 DEF Boots, Settled
        <4>4. otadata' = Mark(otadata, s, "pending")
          BY <1>1, <3>2, <3>5, <4>1, <4>3 DEF Started
        <4>5. /\ ActiveSlot(otadata') = s
              /\ Selects(otadata') = Selects(otadata)
              /\ Aborted(otadata') = Aborted(otadata)
          BY <1>0, <3>2, <4>4, MarkKeepsSelection
        <4>6. SelectsRunning'
          BY <1>1, <4>1, <4>3, <4>5 DEF SelectsRunning
        <4>7. EntriesSettled'
          <5>1. otadata'[s].state = "pending" /\ \A t \in Slots \ {s} : otadata'[t] = otadata[t]
            BY <1>0, <4>4, MarkType DEF States
          <5> QED BY <1>1, <3>4, <4>5, <5>1 DEF EntriesSettled
        <4>8. FallbackIsWhole'
          BY <1>1, <3>3, <4>5 DEF FallbackIsWhole, Whole, HoldsImage
        <4> QED BY <1>3, <4>6, <4>7, <4>8 DEF Inv
      <3>6. CASE stage = "booting" /\ otadata[s].state = "pending"
        \* The new image was not confirmed: the one before it is started.
        <4>1. d = Mark(otadata, s, "aborted")
          BY <3>2, <3>6 DEF TakenBack
        <4>2. Whole(part[Selects(d)])
          BY <3>2, <3>3, <4>1 DEF Aborted
        <4>3. p = Selects(d)
          BY <4>2 DEF Boots
        <4>4. \A t \in Slots : Settled(d[t])
          BY <1>0, <3>4, <4>1, MarkType DEF Settled, States
        <4>5. otadata' = d
          BY <1>1, <2>1, <4>4 DEF Started, Settled
        <4>6. EntriesSettled' /\ SelectsRunning'
          BY <1>1, <4>3, <4>4, <4>5 DEF EntriesSettled, SelectsRunning
        <4>7. FallbackIsWhole'
          BY <1>1, <2>1, <4>4, <4>5 DEF FallbackIsWhole
        <4> QED BY <1>3, <4>6, <4>7 DEF Inv
      <3> QED BY <3>2, <3>5, <3>6
    <2> QED BY <2>2, <2>3
  <1> QED BY <1>4, <1>5 DEF Inv, TypeOK

LEMMA ConfirmStartStep == ASSUME Inv, TypeOK', ConfirmStart PROVE Inv'
  <1> DEFINE a == ActiveSlot(otadata)
             pending == a # NoSlot /\ Selects(otadata) = running /\ otadata[a].state = "pending"
  <1>0. otadata \in [Slots -> Entries] /\ (a # NoSlot => a \in Slots)
    BY SelectionType DEF Inv, TypeOK
  <1>1. stage = "booting" /\ stage' = "idle" /\ UNCHANGED <<part, running, want, blk, tainted>>
    BY DEF ConfirmStart
  <1>2. RunningIsWhole' /\ FlashedSoFar' /\ ReadyIsWhole' /\ FallbackIsWhole'
    BY <1>1 DEF Inv, RunningIsWhole, FlashedSoFar, ReadyIsWhole, FallbackIsWhole, Whole, HoldsImage
  <1>3. CASE tainted
    BY <1>1, <1>2, <1>3 DEF Inv, SelectsRunning, EntriesSettled
  <1>4. CASE ~tainted /\ pending
    <2>1. otadata' = Mark(otadata, a, "valid")
      BY <1>4 DEF ConfirmStart
    <2>2. Selects(otadata') = Selects(otadata)
      BY <1>0, <1>4, <2>1, MarkKeepsSelection
    <2>3. otadata'[a].state = "valid" /\ \A t \in Slots \ {a} : otadata'[t] = otadata[t]
      BY <1>0, <1>4, <2>1, MarkType DEF States
    <2>4. SelectsRunning'
      BY <1>1, <1>4, <2>2 DEF SelectsRunning
    <2>5. EntriesSettled'
      BY <1>1, <1>4, <2>3 DEF Inv, EntriesSettled, Settled
    <2> QED BY <1>2, <2>4, <2>5 DEF Inv
  <1>5. CASE ~tainted /\ ~pending
    <2>1. otadata' = otadata
      BY <1>5 DEF ConfirmStart
    <2>2. Selects(otadata) = running
      BY <1>1, <1>5 DEF Inv, SelectsRunning
    <2>3. \A s \in Slots : Settled(otadata[s])
      BY <1>1, <1>5, <2>2 DEF Inv, EntriesSettled, Slots, NoSlot
    <2>4. SelectsRunning' /\ EntriesSettled'
      BY <1>1, <2>1, <2>2, <2>3 DEF SelectsRunning, EntriesSettled
    <2> QED BY <1>2, <2>4 DEF Inv
  <1> QED BY <1>3, <1>4, <1>5

LEMMA InvStep == Inv /\ [Next]_vars => Inv'
  <1> SUFFICES ASSUME Inv, [Next]_vars PROVE Inv'
    OBVIOUS
  <1>0. TypeOK'
    BY TypeStep DEF Inv
  <1>1. CASE ChangeCard
    BY <1>0, <1>1, QuietStep DEF ChangeCard
  <1>2. CASE Pick
    BY <1>0, <1>2, QuietStep DEF Pick
  <1>3. CASE CancelPrompt \/ DownloadFails \/ SwitchFails \/ Dismiss
    BY <1>0, <1>3, QuietStep DEF CancelPrompt, DownloadFails, SwitchFails, Dismiss
  <1>4. CASE UNCHANGED vars
    BY <1>0, <1>4, QuietStep DEF vars
  <1> QED
    BY <1>0, <1>1, <1>2, <1>3, <1>4, ConfirmStep, FlashStep, FlashFailsStep, DownloadStep,
       FinishDownloadStep, EraseStep, WriteStep, ResetStep, ConfirmStartStep DEF Next

\* The invariant holds in every reachable state.
THEOREM Invariance == Spec => []Inv
  BY InitInv, InvStep, PTL DEF Spec
-----------------------------------------------------------------------------
(* What follows from it *)

\* Every variable keeps its type.
THEOREM TypeCorrect == Spec => []TypeOK
  <1>1. Inv => TypeOK
    BY DEF Inv
  <1> QED BY <1>1, Invariance, PTL

\* However often updates are started, cut short or fed a swapped file, the running image and
\* the one the bootloader would start next are whole.
THEOREM DeviceAlwaysBoots == Spec => []AlwaysBoots
  <1>1. Inv => AlwaysBoots
    <2> SUFFICES ASSUME Inv PROVE AlwaysBoots
      OBVIOUS
    <2>1. TakenBack(otadata) \in [Slots -> Entries]
      BY SelectionType, MarkType DEF Inv, TypeOK, TakenBack, States
    <2> QED BY <2>1, BootsWhole DEF AlwaysBoots, Inv, RunningIsWhole
  <1> QED BY <1>1, Invariance, PTL

\* otadata selects a whole image unless a file was swapped between validation and flashing.
THEOREM SelectionIsWhole == Spec => []SelectedIsWhole
  <1>1. Inv => SelectedIsWhole
    BY DEF Inv, SelectedIsWhole, SelectsRunning, RunningIsWhole, ReadyIsWhole
  <1> QED BY <1>1, Invariance, PTL

\* A power cut before the entry is written starts the image that was running.
THEOREM InterruptionIsHarmless == Spec => []InterruptedUpdateKeepsImage
  <1>1. Inv => InterruptedUpdateKeepsImage
    <2> SUFFICES ASSUME Inv, ~tainted, stage \notin {"done", "booting"}
                 PROVE  Boots(TakenBack(otadata)) = running
      BY DEF InterruptedUpdateKeepsImage
    <2>1. ActiveSlot(otadata) # NoSlot => ActiveSlot(otadata) \in Slots
      BY SelectionType DEF Inv, TypeOK
    <2>2. TakenBack(otadata) = otadata
      BY <2>1 DEF TakenBack, Inv, EntriesSettled, Settled
    <2>3. Selects(otadata) = running
      BY DEF Inv, SelectsRunning
    <2> QED BY <2>2, <2>3 DEF Boots, Inv, RunningIsWhole
  <1> QED BY <1>1, Invariance, PTL

\* Once the entry is written the next start is the new image, the one the digest pins.
THEOREM UpdateTakesEffect == Spec => []FinishedUpdateStarts
  <1>1. Inv => FinishedUpdateStarts
    <2> SUFFICES ASSUME Inv, ~tainted, stage = "done"
                 PROVE  /\ Boots(TakenBack(otadata)) = dest
                        /\ want # Bad => HoldsImage(part[dest], want)
      BY DEF FinishedUpdateStarts
    <2>1. ActiveSlot(otadata) # NoSlot => ActiveSlot(otadata) \in Slots
      BY SelectionType DEF Inv, TypeOK
    <2>2. TakenBack(otadata) = otadata
      BY <2>1 DEF TakenBack, Inv, EntriesSettled, Settled
    <2>3. Selects(otadata) = dest /\ Whole(part[dest]) /\ (want # Bad => HoldsImage(part[dest], want))
      BY DEF Inv, SelectsRunning, ReadyIsWhole
    <2> QED BY <2>2, <2>3 DEF Boots
  <1> QED BY <1>1, Invariance, PTL
=============================================================================
