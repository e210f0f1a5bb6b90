------------------------ MODULE InstancePanel_proofs ------------------------
(***************************************************************************)
(* Proofs about what the panel shows of instances.                         *)
(*                                                                         *)
(* StatusFeed: its types, and that a subscriber that is owed a full list   *)
(* is never left without the signal for it.                                *)
(*                                                                         *)
(* Workspace: a tab at rest shows what its URL names, because whatever is  *)
(* still awaited fits the URL and the page; text is not dropped unasked.   *)
(*                                                                         *)
(* TerminalView, from two invariants that do not need each other.  Of the  *)
(* connection: typed input goes only to the opening it was typed in, and a *)
(* lost connection comes back.  Of the drawing: the writes that wait end   *)
(* with what the page believes the screen to show, so the input line is in *)
(* step with it once they are done.                                        *)
(***************************************************************************)
EXTENDS StatusFeed, Workspace, TerminalView, SequenceTheorems, TLAPS

(* --------------------------- the status feed --------------------------- *)

FeedSignals == [full : BOOLEAN, seq : Nat]
FeedItems == [FeedNames -> FeedStatus \cup {"same"}]
FeedEvents == [full : BOOLEAN, version : Nat, items : FeedItems]
FeedEntries == [dirty : BOOLEAN, seq : Nat]

(* A full signal waits for the subscriber.                                 *)
FullWaits(chan) == \E i \in DOMAIN chan : chan[i].full

(* The parts of the type invariant.                                        *)
HubOK ==
  /\ fdInst \in [FeedNames -> FeedStatus]
  /\ fdVersion \in Nat
  /\ fdPending \in [FeedNames -> FeedEntries]
  /\ fdRecent \in BOOLEAN
  /\ fdMissed \subseteq FeedNames

ChanOK == fdChan \in Seq(FeedSignals) /\ fdNeedFull \in BOOLEAN

HandlerOK ==
  /\ fdPc \in {"none", "subscribed", "full", "idle", "got", "gap", "patch"}
  /\ fdSig \in FeedSignals
  /\ fdLast \in Nat

FeedNetOK == fdNet \in Seq(FeedEvents)

FeedPageOK ==
  /\ fdStream \in {"none", "opening", "open"}
  /\ fdTimer \in BOOLEAN
  /\ fdStarted \in BOOLEAN
  /\ fdClient \in [version : Nat, ready : BOOLEAN, list : FeedItems]

CountsOK == fdChanges \in 0 .. FeedChanges /\ fdFaults \in 0 .. FeedFaults

LEMMA FeedTypeParts ==
  FeedTypeOK <=> /\ HubOK /\ ChanOK /\ HandlerOK /\ FeedNetOK /\ FeedPageOK
                 /\ CountsOK
BY DEF FeedTypeOK, HubOK, ChanOK, HandlerOK, FeedNetOK, FeedPageOK, CountsOK,
       FeedSignals, FeedItems, FeedEvents, FeedEntries

LEMMA FeedBounds ==
  FeedChanges \in Nat /\ FeedFaults \in Nat /\ FeedChanCap \in Nat \ {0}
BY FeedAssumption DEF FeedAssumption

LEMMA FeedCountsGrow ==
  /\ CountsOK /\ fdChanges < FeedChanges => fdChanges + 1 \in 0 .. FeedChanges
  /\ CountsOK /\ fdFaults < FeedFaults => fdFaults + 1 \in 0 .. FeedFaults
BY FeedBounds DEF CountsOK

-----------------------------------------------------------------------------
(* Facts about the records.                                                *)

LEMMA SignalFacts ==
  /\ \A full \in BOOLEAN, seq \in Nat :
       /\ Signal(full, seq) \in FeedSignals
       /\ Signal(full, seq).full = full /\ Signal(full, seq).seq = seq
  /\ \A sig \in FeedSignals : sig.full \in BOOLEAN /\ sig.seq \in Nat
BY DEF FeedSignals, Signal

LEMMA FeedEntryFacts ==
  /\ NoEntry \in FeedEntries
  /\ \A dirty \in BOOLEAN, seq \in Nat :
       [dirty |-> dirty, seq |-> seq] \in FeedEntries
  /\ \A e \in FeedEntries : [e EXCEPT !.dirty = TRUE] \in FeedEntries
BY DEF FeedEntries, NoEntry

LEMMA EventFacts ==
  /\ \A full \in BOOLEAN, v \in Nat, items \in FeedItems :
       [full |-> full, version |-> v, items |-> items] \in FeedEvents
  /\ \A event \in FeedEvents :
       event.full \in BOOLEAN /\ event.version \in Nat /\ event.items \in FeedItems
  /\ fdInst \in [FeedNames -> FeedStatus] => fdInst \in FeedItems
BY DEF FeedEvents, FeedItems

LEMMA NothingPending == [n \in FeedNames |-> NoEntry] \in [FeedNames -> FeedEntries]
BY FeedEntryFacts

(* Facts about the channel.                                                *)

LEMMA AppendFull ==
  ASSUME NEW chan \in Seq(FeedSignals), NEW sig \in FeedSignals
  PROVE  /\ Append(chan, sig) \in Seq(FeedSignals)
         /\ FullWaits(chan) => FullWaits(Append(chan, sig))
         /\ sig.full => FullWaits(Append(chan, sig))
<1>1. /\ Append(chan, sig) \in Seq(FeedSignals)
      /\ Len(Append(chan, sig)) = Len(chan) + 1
      /\ \A i \in 1 .. Len(chan) : Append(chan, sig)[i] = chan[i]
      /\ Append(chan, sig)[Len(chan) + 1] = sig
  BY AppendProperties
<1>2. /\ Len(chan) \in Nat
      /\ DOMAIN chan = 1 .. Len(chan)
      /\ DOMAIN Append(chan, sig) = 1 .. Len(chan) + 1
  BY <1>1, LenProperties
<1> QED BY <1>1, <1>2 DEF FullWaits

LEMMA TailFull ==
  ASSUME NEW chan \in Seq(FeedSignals), chan # <<>>
  PROVE  /\ Head(chan) \in FeedSignals
         /\ Tail(chan) \in Seq(FeedSignals)
         /\ FullWaits(chan) => Head(chan).full \/ FullWaits(Tail(chan))
<1>1. /\ Head(chan) \in FeedSignals /\ Head(chan) = chan[1]
      /\ Tail(chan) \in Seq(FeedSignals)
      /\ Len(Tail(chan)) = Len(chan) - 1
      /\ \A i \in 1 .. Len(Tail(chan)) : Tail(chan)[i] = chan[i + 1]
  BY HeadTailProperties
<1>2. /\ Len(chan) \in Nat
      /\ DOMAIN chan = 1 .. Len(chan)
      /\ DOMAIN Tail(chan) = 1 .. Len(chan) - 1
  BY <1>1, LenProperties
<1>3. ASSUME NEW i \in DOMAIN chan, chan[i].full, i # 1
      PROVE  FullWaits(Tail(chan))
  <2>1. i - 1 \in DOMAIN Tail(chan) /\ Tail(chan)[i - 1] = chan[i]
    BY <1>1, <1>2, <1>3
  <2> QED BY <1>3, <2>1 DEF FullWaits
<1> QED BY <1>1, <1>3 DEF FullWaits

(* An offer leaves a full signal behind whenever it owes a full list.      *)
LEMMA OfferOwes ==
  ASSUME ChanOK, NEW sig \in FeedSignals, Offer(sig)
  PROVE  /\ ChanOK'
         /\ FeedSubscribed /\ fdNeedFull' =>
              (fdNeedFull /\ fdChan' = fdChan) \/ FullWaits(fdChan')
         /\ ~FeedSubscribed => fdChan' = fdChan /\ fdNeedFull' = fdNeedFull
<1> USE DEF ChanOK
<1>1. CASE ~FeedSubscribed \/ fdNeedFull
  BY <1>1 DEF Offer
<1>2. CASE /\ FeedSubscribed /\ ~fdNeedFull
           /\ Len(fdChan) < FeedChanCap
  <2>1. fdChan' = Append(fdChan, sig) /\ fdNeedFull' = fdNeedFull
    BY <1>2 DEF Offer
  <2> QED BY <1>2, <2>1, AppendFull
<1>3. CASE /\ FeedSubscribed /\ ~fdNeedFull
           /\ ~(Len(fdChan) < FeedChanCap)
  <2>1. /\ fdNeedFull' = TRUE
        /\ fdChan' = Append(Tail(fdChan), Signal(TRUE, sig.seq))
    BY <1>3 DEF Offer
  <2>2. fdChan # <<>>
    <3>1. Len(fdChan) # 0
      BY <1>3, FeedBounds, LenProperties
    <3> QED BY <3>1, EmptySeq
  <2>3. Tail(fdChan) \in Seq(FeedSignals)
    BY <2>2, TailFull
  <2>4. Signal(TRUE, sig.seq) \in FeedSignals /\ Signal(TRUE, sig.seq).full
    BY SignalFacts
  <2>5. fdChan' \in Seq(FeedSignals) /\ FullWaits(fdChan')
    BY <2>1, <2>3, <2>4, AppendFull
  <2> QED BY <1>3, <2>1, <2>5
<1> QED BY <1>1, <1>2, <1>3

(* What the proofs use of FeedNeverSilent.                                 *)
LEMMA SilentForm ==
  FeedNeverSilent <=>
    (fdPc # "none" /\ fdNeedFull =>
       FullWaits(fdChan) \/ fdPc \in {"subscribed", "gap"}
         \/ (fdPc = "got" /\ fdSig.full))
BY DEF FeedNeverSilent, FeedSubscribed, FullWaits

(* A step of the hub that offers a signal keeps the promise.               *)
LEMMA OfferKeeps ==
  ASSUME ChanOK, FeedNeverSilent, NEW sig \in FeedSignals, Offer(sig),
         UNCHANGED <<fdPc, fdSig>>
  PROVE  ChanOK' /\ FeedNeverSilent'
<1>1. /\ ChanOK'
      /\ fdPc # "none" /\ fdNeedFull' =>
           (fdNeedFull /\ fdChan' = fdChan) \/ FullWaits(fdChan')
  BY OfferOwes DEF FeedSubscribed
<1>2. fdPc # "none" /\ fdNeedFull' =>
        FullWaits(fdChan') \/ fdPc \in {"subscribed", "gap"}
          \/ (fdPc = "got" /\ fdSig.full)
  BY <1>1, SilentForm
<1> QED BY <1>1, <1>2, SilentForm DEF FeedNeverSilent, FeedSubscribed, FullWaits

(* Closing a stream on both sides.                                         *)
LEMMA FeedCloseKeeps ==
  ASSUME HubOK, NEW rest \in Seq(FeedEvents), CloseStream(rest)
  PROVE  /\ fdPending' \in [FeedNames -> FeedEntries]
         /\ ChanOK' /\ HandlerOK' /\ FeedNetOK' /\ FeedNeverSilent'
         /\ fdStream' = "none"
<1>1. Signal(FALSE, 0) \in FeedSignals
  BY SignalFacts
<1>2. <<>> \in Seq(FeedSignals)
  BY EmptySeq
<1> QED BY <1>1, <1>2, NothingPending
        DEF CloseStream, ChanOK, HandlerOK, FeedNetOK, FeedNeverSilent,
            FeedSubscribed

-----------------------------------------------------------------------------
(* The steps.  Each keeps the types and the promise.                       *)

FeedIInv == FeedTypeOK /\ FeedNeverSilent

LEMMA PartsMake ==
  ASSUME HubOK', ChanOK', HandlerOK', FeedNetOK', FeedPageOK', CountsOK',
         FeedNeverSilent'
  PROVE  FeedIInv'
BY DEF FeedIInv, FeedTypeOK, HubOK, ChanOK, HandlerOK, FeedNetOK, FeedPageOK, CountsOK,
       FeedSignals, FeedItems, FeedEvents, FeedEntries

LEMMA FeedStarts == FeedInit => FeedIInv
<1> SUFFICES ASSUME FeedInit PROVE FeedIInv
  OBVIOUS
<1>1. HubOK
  BY NothingPending DEF FeedInit, HubOK, FeedStatus
<1>2. ChanOK /\ FeedNetOK
  BY EmptySeq DEF FeedInit, ChanOK, FeedNetOK
<1>3. HandlerOK
  BY SignalFacts DEF FeedInit, HandlerOK
<1>4. FeedPageOK
  BY DEF FeedInit, FeedPageOK, NothingListed, FeedItems, FeedStatus
<1>5. CountsOK
  BY FeedBounds DEF FeedInit, CountsOK
<1>6. FeedNeverSilent
  BY DEF FeedInit, FeedNeverSilent, FeedSubscribed
<1> QED BY <1>1, <1>2, <1>3, <1>4, <1>5, <1>6, FeedTypeParts DEF FeedIInv

LEMMA CreateOrDeleteKeeps ==
  ASSUME FeedIInv, NEW n \in FeedNames, FeedCreateOrDelete(n)
  PROVE  FeedIInv'
<1>0. /\ HubOK /\ ChanOK /\ HandlerOK /\ FeedNetOK /\ FeedPageOK /\ CountsOK
      /\ FeedNeverSilent
  BY FeedTypeParts DEF FeedIInv
<1> USE <1>0
<1>1. fdInst' \in [FeedNames -> FeedStatus] /\ CountsOK'
  <2>1. fdInst' \in [FeedNames -> FeedStatus]
    BY DEF FeedCreateOrDelete, HubOK, FeedStatus
  <2>2. fdChanges' \in 0 .. FeedChanges /\ fdFaults' = fdFaults
    BY FeedCountsGrow DEF FeedCreateOrDelete
  <2> QED BY <2>1, <2>2 DEF CountsOK
<1>2. HandlerOK' /\ FeedNetOK' /\ FeedPageOK'
  BY DEF FeedCreateOrDelete, HandlerOK, FeedNetOK, FeedPageOK, feedPage
<1>3. CASE fdRecent
  <2>1. /\ fdMissed' = fdMissed \cup {n}
        /\ UNCHANGED <<fdVersion, fdPending, fdRecent, fdChan, fdNeedFull, fdPc, fdSig>>
    BY <1>3 DEF FeedCreateOrDelete, BroadcastInstanceListUpdates
  <2>2. HubOK' /\ ChanOK'
    BY <1>1, <2>1 DEF HubOK, ChanOK
  <2>3. FeedNeverSilent'
    BY <2>1 DEF FeedNeverSilent, FeedSubscribed
  <2> QED BY <1>1, <1>2, <2>2, <2>3, PartsMake
<1>4. CASE ~fdRecent
  <2>1. /\ fdVersion' = fdVersion + 1 /\ fdRecent' = TRUE
        /\ fdPending' = [m \in FeedNames |-> NoEntry]
        /\ Offer(Signal(TRUE, fdVersion + 1))
        /\ UNCHANGED <<fdMissed, fdPc, fdSig>>
    BY <1>4 DEF FeedCreateOrDelete, BroadcastInstanceListUpdates
  <2>2. HubOK'
    BY <1>1, <2>1, NothingPending DEF HubOK
  <2>3. Signal(TRUE, fdVersion + 1) \in FeedSignals
    <3>1. fdVersion + 1 \in Nat
      BY DEF HubOK
    <3> QED BY <3>1, SignalFacts
  <2>4. ChanOK' /\ FeedNeverSilent'
    BY <2>1, <2>3, OfferKeeps
  <2> QED BY <1>1, <1>2, <2>2, <2>4, PartsMake
<1> QED BY <1>3, <1>4

LEMMA StatusChangeKeeps ==
  ASSUME FeedIInv, NEW n \in FeedNames, FeedStatusChange(n)
  PROVE  FeedIInv'
<1>0. /\ HubOK /\ ChanOK /\ HandlerOK /\ FeedNetOK /\ FeedPageOK /\ CountsOK
      /\ FeedNeverSilent
  BY FeedTypeParts DEF FeedIInv
<1> USE <1>0
<1>1. HubOK'
  <2>1. fdInst' \in [FeedNames -> FeedStatus]
    BY DEF FeedStatusChange, HubOK, FeedStatus
  <2>2. fdPending' \in [FeedNames -> FeedEntries]
    <3>1. [fdPending[n] EXCEPT !.dirty = TRUE] \in FeedEntries
      BY FeedEntryFacts DEF HubOK
    <3>2. [fdPending EXCEPT ![n] = [@ EXCEPT !.dirty = TRUE]]
            \in [FeedNames -> FeedEntries]
      BY <3>1 DEF HubOK
    <3> QED BY <3>2, NothingPending DEF FeedStatusChange
  <2> QED BY <2>1, <2>2 DEF FeedStatusChange, HubOK
<1>2. CountsOK'
  <2>1. fdChanges' \in 0 .. FeedChanges /\ fdFaults' = fdFaults
    BY FeedCountsGrow DEF FeedStatusChange
  <2> QED BY <2>1 DEF CountsOK
<1>3. ChanOK' /\ HandlerOK' /\ FeedNetOK' /\ FeedPageOK' /\ FeedNeverSilent'
  BY DEF FeedStatusChange, feedSub, feedPage, ChanOK, HandlerOK, FeedNetOK,
         FeedPageOK, FeedNeverSilent, FeedSubscribed
<1> QED BY <1>1, <1>2, <1>3, PartsMake

LEMMA FlushKeeps == FeedIInv /\ FeedFlush => FeedIInv'
<1> SUFFICES ASSUME FeedIInv, FeedFlush PROVE FeedIInv'
  OBVIOUS
<1>0. /\ HubOK /\ ChanOK /\ HandlerOK /\ FeedNetOK /\ FeedPageOK /\ CountsOK
      /\ FeedNeverSilent
  BY FeedTypeParts DEF FeedIInv
<1> USE <1>0
<1> DEFINE dirty == {n \in FeedNames : fdPending[n].dirty}
           done == {n \in FeedNames : fdPending[n] # NoEntry} \ dirty
<1>1. PICK ready \in SUBSET dirty :
        /\ fdPending' = [n \in FeedNames |->
                           IF n \in ready
                             THEN [dirty |-> FALSE, seq |-> fdVersion + 1]
                           ELSE IF n \in done THEN NoEntry
                           ELSE fdPending[n]]
        /\ fdMissed' = fdMissed \cup {n \in done : Unread(fdPending[n].seq)}
        /\ IF ready = {}
             THEN UNCHANGED <<fdVersion, fdChan, fdNeedFull>>
             ELSE /\ fdVersion' = fdVersion + 1
                  /\ Offer(Signal(FALSE, fdVersion + 1))
  BY DEF FeedFlush
<1>2. UNCHANGED <<fdInst, fdRecent, fdChanges, fdPc, fdSig, fdLast, fdStream,
                  fdTimer, fdStarted, fdClient, fdNet, fdFaults>>
  BY DEF FeedFlush, feedPage
<1>3. HandlerOK' /\ FeedNetOK' /\ FeedPageOK' /\ CountsOK'
  BY <1>2 DEF HandlerOK, FeedNetOK, FeedPageOK, CountsOK
<1>4. fdVersion \in Nat /\ fdVersion + 1 \in Nat /\ fdVersion' \in Nat
  <2>1. fdVersion \in Nat
    BY DEF HubOK
  <2>2. fdVersion' = fdVersion \/ fdVersion' = fdVersion + 1
    BY <1>1
  <2> QED BY <2>1, <2>2
<1>5. fdPending' \in [FeedNames -> FeedEntries]
  <2>1. [dirty |-> FALSE, seq |-> fdVersion + 1] \in FeedEntries
    BY <1>4, FeedEntryFacts
  <2>2. fdPending \in [FeedNames -> FeedEntries] /\ NoEntry \in FeedEntries
    BY FeedEntryFacts DEF HubOK
  <2> HIDE DEF dirty, done
  <2> QED BY <1>1, <2>1, <2>2
<1>6. HubOK'
  BY <1>1, <1>2, <1>4, <1>5 DEF HubOK
<1>7. ChanOK' /\ FeedNeverSilent'
  <2>1. CASE ready = {}
    BY <1>1, <1>2, <2>1 DEF ChanOK, FeedNeverSilent, FeedSubscribed
  <2>2. CASE ready # {}
    <3>1. Signal(FALSE, fdVersion + 1) \in FeedSignals
      BY <1>4, SignalFacts
    <3> QED BY <1>1, <1>2, <2>2, <3>1, OfferKeeps
  <2> QED BY <2>1, <2>2
<1> QED BY <1>3, <1>6, <1>7, PartsMake

\* What the handler's own steps leave alone.
LEMMA HandlerFrameKeeps ==
  ASSUME FeedIInv, HandlerFrame, fdMissed' \subseteq FeedNames
  PROVE  HubOK' /\ FeedPageOK' /\ CountsOK'
<1>1. HubOK /\ FeedPageOK /\ CountsOK
  BY FeedTypeParts DEF FeedIInv
<1> QED BY <1>1 DEF HandlerFrame, feedHub, feedPage, HubOK, FeedPageOK, CountsOK

LEMMA FirstSnapshotKeeps == FeedIInv /\ FeedFirstSnapshot => FeedIInv'
<1> SUFFICES ASSUME FeedIInv, FeedFirstSnapshot PROVE FeedIInv'
  OBVIOUS
<1>0. /\ HubOK /\ ChanOK /\ HandlerOK /\ FeedNetOK /\ FeedPageOK /\ CountsOK
      /\ FeedNeverSilent
  BY FeedTypeParts DEF FeedIInv
<1> USE <1>0
<1>1. HubOK' /\ FeedPageOK' /\ CountsOK'
  <2>1. fdMissed' \subseteq FeedNames
    BY DEF FeedFirstSnapshot, HubOK
  <2> QED BY <2>1, HandlerFrameKeeps DEF FeedFirstSnapshot
<1>2. HandlerOK'
  <2>1. Signal(TRUE, fdVersion) \in FeedSignals
    BY SignalFacts DEF HubOK
  <2> QED BY <2>1 DEF FeedFirstSnapshot, HandlerOK
<1>3. ChanOK' /\ FeedNetOK' /\ FeedNeverSilent'
  BY DEF FeedFirstSnapshot, ChanOK, FeedNetOK, FeedNeverSilent, FeedSubscribed
<1> QED BY <1>1, <1>2, <1>3, PartsMake

LEMMA SendSnapshotKeeps == FeedIInv /\ FeedSendSnapshot => FeedIInv'
<1> SUFFICES ASSUME FeedIInv, FeedSendSnapshot PROVE FeedIInv'
  OBVIOUS
<1>0. /\ HubOK /\ ChanOK /\ HandlerOK /\ FeedNetOK /\ FeedPageOK /\ CountsOK
      /\ FeedNeverSilent
  BY FeedTypeParts DEF FeedIInv
<1> USE <1>0
<1>1. HubOK' /\ FeedPageOK' /\ CountsOK'
  <2>1. fdMissed' \subseteq FeedNames
    BY DEF FeedSendSnapshot
  <2> QED BY <2>1, HandlerFrameKeeps DEF FeedSendSnapshot
<1>2. fdSig.seq \in Nat
  BY SignalFacts DEF HandlerOK
<1>3. HandlerOK'
  BY <1>2 DEF FeedSendSnapshot, HandlerOK
<1>4. FeedNetOK'
  <2>1. [full |-> TRUE, version |-> fdSig.seq, items |-> fdInst] \in FeedEvents
    BY <1>2, EventFacts DEF HubOK
  <2> QED BY <2>1, AppendProperties DEF FeedSendSnapshot, FeedNetOK
<1>5. ChanOK'
  BY DEF FeedSendSnapshot, ChanOK
<1>6. FeedNeverSilent'
  BY DEF FeedSendSnapshot, FeedNeverSilent, FeedSubscribed
<1> QED BY <1>1, <1>3, <1>4, <1>5, <1>6, PartsMake

LEMMA TakeSignalKeeps == FeedIInv /\ FeedTakeSignal => FeedIInv'
<1> SUFFICES ASSUME FeedIInv, FeedTakeSignal PROVE FeedIInv'
  OBVIOUS
<1>0. /\ HubOK /\ ChanOK /\ HandlerOK /\ FeedNetOK /\ FeedPageOK /\ CountsOK
      /\ FeedNeverSilent
  BY FeedTypeParts DEF FeedIInv
<1> USE <1>0
<1>1. HubOK' /\ FeedPageOK' /\ CountsOK'
  <2>1. fdMissed' \subseteq FeedNames
    BY DEF FeedTakeSignal, HubOK
  <2> QED BY <2>1, HandlerFrameKeeps DEF FeedTakeSignal
<1>2. /\ Head(fdChan) \in FeedSignals /\ Tail(fdChan) \in Seq(FeedSignals)
      /\ FullWaits(fdChan) => Head(fdChan).full \/ FullWaits(Tail(fdChan))
  BY TailFull DEF FeedTakeSignal, ChanOK
<1>3. HandlerOK' /\ ChanOK' /\ FeedNetOK'
  BY <1>2 DEF FeedTakeSignal, HandlerOK, ChanOK, FeedNetOK
<1>4. fdNeedFull => FullWaits(fdChan)
  BY SilentForm DEF FeedTakeSignal
<1>5. fdNeedFull' => FullWaits(fdChan') \/ (fdPc' = "got" /\ fdSig'.full)
  BY <1>2, <1>4 DEF FeedTakeSignal
<1>6. FeedNeverSilent'
  BY <1>5 DEF FeedNeverSilent, FullWaits
<1> QED BY <1>1, <1>3, <1>6, PartsMake

LEMMA DecideKeeps == FeedIInv /\ FeedDecide => FeedIInv'
<1> SUFFICES ASSUME FeedIInv, FeedDecide PROVE FeedIInv'
  OBVIOUS
<1>0. /\ HubOK /\ ChanOK /\ HandlerOK /\ FeedNetOK /\ FeedPageOK /\ CountsOK
      /\ FeedNeverSilent
  BY FeedTypeParts DEF FeedIInv
<1> USE <1>0
<1>1. HubOK' /\ FeedPageOK' /\ CountsOK'
  <2>1. fdMissed' \subseteq FeedNames
    BY DEF FeedDecide, HubOK
  <2> QED BY <2>1, HandlerFrameKeeps DEF FeedDecide
<1>2. fdSig.full \in BOOLEAN /\ fdSig.seq \in Nat /\ fdLast \in Nat
  BY SignalFacts DEF HandlerOK
<1>3. /\ fdPc' \in {"idle", "full", "patch", "gap"}
      /\ fdNeedFull' \in BOOLEAN
  BY <1>2 DEF FeedDecide, ChanOK
<1>4. HandlerOK' /\ ChanOK' /\ FeedNetOK'
  BY <1>3 DEF FeedDecide, HandlerOK, ChanOK, FeedNetOK
<1>5. fdNeedFull' => FullWaits(fdChan')
  <2>1. ASSUME fdNeedFull'
        PROVE  fdNeedFull /\ ~fdSig.full
    BY <2>1 DEF FeedDecide
  <2>2. ASSUME fdNeedFull, ~fdSig.full
        PROVE  FullWaits(fdChan)
    BY <2>2, SilentForm DEF FeedDecide
  <2> QED BY <2>1, <2>2 DEF FeedDecide
<1>6. FeedNeverSilent'
  BY <1>5 DEF FeedNeverSilent, FullWaits
<1> QED BY <1>1, <1>4, <1>6, PartsMake

LEMMA GapKeeps == FeedIInv /\ FeedGap => FeedIInv'
<1> SUFFICES ASSUME FeedIInv, FeedGap PROVE FeedIInv'
  OBVIOUS
<1>0. /\ HubOK /\ ChanOK /\ HandlerOK /\ FeedNetOK /\ FeedPageOK /\ CountsOK
      /\ FeedNeverSilent
  BY FeedTypeParts DEF FeedIInv
<1> USE <1>0
<1>1. HubOK' /\ FeedPageOK' /\ CountsOK'
  <2>1. fdMissed' \subseteq FeedNames
    BY DEF FeedGap, HubOK
  <2> QED BY <2>1, HandlerFrameKeeps DEF FeedGap
<1>2. HandlerOK' /\ ChanOK' /\ FeedNetOK' /\ FeedNeverSilent'
  BY DEF FeedGap, HandlerOK, ChanOK, FeedNetOK, FeedNeverSilent, FeedSubscribed
<1> QED BY <1>1, <1>2, PartsMake

LEMMA SendPatchKeeps == FeedIInv /\ FeedSendPatch => FeedIInv'
<1> SUFFICES ASSUME FeedIInv, FeedSendPatch PROVE FeedIInv'
  OBVIOUS
<1>0. /\ HubOK /\ ChanOK /\ HandlerOK /\ FeedNetOK /\ FeedPageOK /\ CountsOK
      /\ FeedNeverSilent
  BY FeedTypeParts DEF FeedIInv
<1> USE <1>0
<1> DEFINE names == {n \in Listed(fdInst) : fdPending[n].seq = fdSig.seq}
           items == [n \in FeedNames |-> IF n \in names THEN fdInst[n] ELSE "same"]
<1>1. HubOK' /\ FeedPageOK' /\ CountsOK'
  <2>1. fdMissed' \subseteq FeedNames
    BY DEF FeedSendPatch, HubOK
  <2> QED BY <2>1, HandlerFrameKeeps DEF FeedSendPatch
<1>2. fdSig.seq \in Nat
  BY SignalFacts DEF HandlerOK
<1>3. HandlerOK' /\ ChanOK'
  BY <1>2 DEF FeedSendPatch, HandlerOK, ChanOK
<1>4. FeedNetOK'
  <2>1. items \in FeedItems
    BY DEF HubOK, FeedItems
  <2> HIDE DEF items, names
  <2>2. [full |-> FALSE, version |-> fdSig.seq, items |-> items] \in FeedEvents
    BY <1>2, <2>1, EventFacts
  <2>3. fdNet' = Append(fdNet,
                   [full |-> FALSE, version |-> fdSig.seq, items |-> items])
    BY DEF FeedSendPatch, items, names
  <2> QED BY <2>2, <2>3, AppendProperties DEF FeedNetOK
<1>5. FeedNeverSilent'
  BY DEF FeedSendPatch, FeedNeverSilent, FeedSubscribed
<1> QED BY <1>1, <1>3, <1>4, <1>5, PartsMake

LEMMA SecondPassesKeeps == FeedIInv /\ FeedSecondPasses => FeedIInv'
<1> SUFFICES ASSUME FeedIInv, FeedSecondPasses PROVE FeedIInv'
  OBVIOUS
<1>0. /\ HubOK /\ ChanOK /\ HandlerOK /\ FeedNetOK /\ FeedPageOK /\ CountsOK
      /\ FeedNeverSilent
  BY FeedTypeParts DEF FeedIInv
<1> USE <1>0
<1>1. HubOK' /\ ChanOK' /\ HandlerOK' /\ FeedNetOK' /\ FeedPageOK' /\ CountsOK'
  BY DEF FeedSecondPasses, feedSub, feedPage, HubOK, ChanOK, HandlerOK, FeedNetOK,
         FeedPageOK, CountsOK
<1>2. FeedNeverSilent'
  BY DEF FeedSecondPasses, feedSub, FeedNeverSilent, FeedSubscribed
<1> QED BY <1>1, <1>2, PartsMake

LEMMA BootKeeps == FeedIInv /\ FeedBoot => FeedIInv'
<1> SUFFICES ASSUME FeedIInv, FeedBoot PROVE FeedIInv'
  OBVIOUS
<1>0. /\ HubOK /\ ChanOK /\ HandlerOK /\ FeedNetOK /\ FeedPageOK /\ CountsOK
      /\ FeedNeverSilent
  BY FeedTypeParts DEF FeedIInv
<1> USE <1>0
<1>1. HubOK' /\ ChanOK' /\ HandlerOK' /\ FeedNetOK' /\ FeedPageOK' /\ CountsOK'
  BY DEF FeedBoot, feedHub, feedSub, HubOK, ChanOK, HandlerOK, FeedNetOK, FeedPageOK,
         CountsOK
<1>2. FeedNeverSilent'
  BY DEF FeedBoot, feedSub, FeedNeverSilent, FeedSubscribed
<1> QED BY <1>1, <1>2, PartsMake

LEMMA AcceptKeeps == FeedIInv /\ FeedAccept => FeedIInv'
<1> SUFFICES ASSUME FeedIInv, FeedAccept PROVE FeedIInv'
  OBVIOUS
<1>0. /\ HubOK /\ ChanOK /\ HandlerOK /\ FeedNetOK /\ FeedPageOK /\ CountsOK
      /\ FeedNeverSilent
  BY FeedTypeParts DEF FeedIInv
<1> USE <1>0
<1>1. HubOK' /\ ChanOK' /\ HandlerOK' /\ FeedNetOK' /\ FeedPageOK' /\ CountsOK'
  BY DEF FeedAccept, feedHub, HubOK, ChanOK, HandlerOK, FeedNetOK, FeedPageOK, CountsOK
<1>2. FeedNeverSilent'
  BY DEF FeedAccept, FeedNeverSilent
<1> QED BY <1>1, <1>2, PartsMake

LEMMA FeedReconnectTimerKeeps == FeedIInv /\ FeedReconnectTimer => FeedIInv'
<1> SUFFICES ASSUME FeedIInv, FeedReconnectTimer PROVE FeedIInv'
  OBVIOUS
<1>0. /\ HubOK /\ ChanOK /\ HandlerOK /\ FeedNetOK /\ FeedPageOK /\ CountsOK
      /\ FeedNeverSilent
  BY FeedTypeParts DEF FeedIInv
<1> USE <1>0
<1>1. HubOK' /\ ChanOK' /\ HandlerOK' /\ FeedNetOK' /\ FeedPageOK' /\ CountsOK'
  BY DEF FeedReconnectTimer, feedHub, feedSub, HubOK, ChanOK, HandlerOK, FeedNetOK,
         FeedPageOK, CountsOK
<1>2. FeedNeverSilent'
  BY DEF FeedReconnectTimer, feedSub, FeedNeverSilent, FeedSubscribed
<1> QED BY <1>1, <1>2, PartsMake

LEMMA BreakKeeps == FeedIInv /\ FeedBreak => FeedIInv'
<1> SUFFICES ASSUME FeedIInv, FeedBreak PROVE FeedIInv'
  OBVIOUS
<1>0. /\ HubOK /\ ChanOK /\ HandlerOK /\ FeedNetOK /\ FeedPageOK /\ CountsOK
      /\ FeedNeverSilent
  BY FeedTypeParts DEF FeedIInv
<1> USE <1>0
<1>1. /\ fdPending' \in [FeedNames -> FeedEntries]
      /\ ChanOK' /\ HandlerOK' /\ FeedNetOK' /\ FeedNeverSilent'
      /\ fdStream' = "none"
  <2>1. <<>> \in Seq(FeedEvents)
    BY EmptySeq
  <2>2. CloseStream(<<>>)
    BY DEF FeedBreak
  <2> QED BY <2>1, <2>2, FeedCloseKeeps
<1>2. HubOK'
  BY <1>1 DEF FeedBreak, HubOK
<1>3. FeedPageOK'
  BY <1>1 DEF FeedBreak, FeedPageOK
<1>4. CountsOK'
  <2>1. fdFaults' \in 0 .. FeedFaults /\ fdChanges' = fdChanges
    BY FeedCountsGrow DEF FeedBreak
  <2> QED BY <2>1 DEF CountsOK
<1> QED BY <1>1, <1>2, <1>3, <1>4, PartsMake

LEMMA UnauthorizedKeeps == FeedIInv /\ FeedUnauthorized => FeedIInv'
<1> SUFFICES ASSUME FeedIInv, FeedUnauthorized PROVE FeedIInv'
  OBVIOUS
<1>0. /\ HubOK /\ ChanOK /\ HandlerOK /\ FeedNetOK /\ FeedPageOK /\ CountsOK
      /\ FeedNeverSilent
  BY FeedTypeParts DEF FeedIInv
<1> USE <1>0
<1>1. /\ fdPending' \in [FeedNames -> FeedEntries]
      /\ ChanOK' /\ HandlerOK' /\ FeedNetOK' /\ FeedNeverSilent'
      /\ fdStream' = "none"
  <2>1. <<>> \in Seq(FeedEvents)
    BY EmptySeq
  <2>2. CloseStream(<<>>)
    BY DEF FeedUnauthorized
  <2> QED BY <2>1, <2>2, FeedCloseKeeps
<1>2. HubOK'
  BY <1>1 DEF FeedUnauthorized, HubOK
<1>3. FeedPageOK'
  BY <1>1 DEF FeedUnauthorized, FeedPageOK, NothingListed, FeedItems, FeedStatus
<1>4. CountsOK'
  <2>1. fdFaults' \in 0 .. FeedFaults /\ fdChanges' = fdChanges
    BY FeedCountsGrow DEF FeedUnauthorized
  <2> QED BY <2>1 DEF CountsOK
<1> QED BY <1>1, <1>2, <1>3, <1>4, PartsMake

(* The page gives the stream up while it applies an event.                 *)
LEMMA GiveUpKeeps ==
  ASSUME HubOK, FeedNetOK, fdNet # <<>>, GiveUpStream
  PROVE  /\ fdPending' \in [FeedNames -> FeedEntries]
         /\ ChanOK' /\ HandlerOK' /\ FeedNetOK' /\ FeedNeverSilent'
         /\ fdStream' = "none" /\ fdTimer' = TRUE
<1>1. PICK read \in 0 .. Len(fdNet) - 1 : CloseStream(SubSeq(fdNet, 2, 1 + read))
  BY DEF GiveUpStream
<1>2. Len(fdNet) \in Nat /\ DOMAIN fdNet = 1 .. Len(fdNet)
  BY LenProperties DEF FeedNetOK
<1>3. read \in Nat /\ 1 + read \in Int /\ 1 + read <= Len(fdNet)
  BY <1>1, <1>2
<1>4. \A i \in 2 .. 1 + read : fdNet[i] \in FeedEvents
  <2>1. \A i \in 2 .. 1 + read : i \in 1 .. Len(fdNet)
    BY <1>2, <1>3
  <2> QED BY <2>1, ElementOfSeq DEF FeedNetOK
<1>5. SubSeq(fdNet, 2, 1 + read) \in Seq(FeedEvents)
  BY <1>3, <1>4, SubSeqProperties
<1>6. fdTimer' = TRUE
  BY DEF GiveUpStream
<1> QED BY <1>1, <1>5, <1>6, FeedCloseKeeps

LEMMA ClientFacts ==
  /\ \A v \in Nat, list \in FeedItems :
       [version |-> v, ready |-> TRUE, list |-> list]
         \in [version : Nat, ready : BOOLEAN, list : FeedItems]
  /\ \A c \in [version : Nat, ready : BOOLEAN, list : FeedItems],
        v \in Nat, list \in FeedItems :
       [c EXCEPT !.version = v, !.list = list]
         \in [version : Nat, ready : BOOLEAN, list : FeedItems]
  /\ \A c \in [version : Nat, ready : BOOLEAN, list : FeedItems] :
       c.list \in FeedItems
OBVIOUS

LEMMA ReceiveKeeps == FeedIInv /\ FeedReceive => FeedIInv'
<1> SUFFICES ASSUME FeedIInv, FeedReceive PROVE FeedIInv'
  OBVIOUS
<1>0. /\ HubOK /\ ChanOK /\ HandlerOK /\ FeedNetOK /\ FeedPageOK /\ CountsOK
      /\ FeedNeverSilent
  BY FeedTypeParts DEF FeedIInv
<1> USE <1>0
<1> DEFINE event == Head(fdNet)
<1>1. fdNet # <<>> /\ event \in FeedEvents /\ Tail(fdNet) \in Seq(FeedEvents)
  BY HeadTailProperties DEF FeedReceive, FeedNetOK
<1>2. event.version \in Nat /\ event.items \in FeedItems /\ event.full \in BOOLEAN
  BY <1>1, EventFacts
<1>3. Patched(event) \in FeedItems
  <2>1. fdClient.list \in FeedItems
    BY ClientFacts DEF FeedPageOK
  <2>2. \A n \in FeedNames : /\ event.items[n] \in FeedStatus \cup {"same"}
                             /\ fdClient.list[n] \in FeedStatus \cup {"same"}
    BY <1>2, <2>1 DEF FeedItems
  <2> HIDE DEF event
  <2> QED BY <2>2 DEF Patched, FeedItems
<1>4. fdClient' \in [version : Nat, ready : BOOLEAN, list : FeedItems]
  <2>1. CASE fdClient' = [version |-> event.version, ready |-> TRUE,
                          list |-> event.items]
    <3> HIDE DEF event
    <3> QED BY <1>2, <2>1, ClientFacts
  <2>2. CASE fdClient' = [fdClient EXCEPT !.version = event.version,
                                          !.list = Patched(event)]
    <3> HIDE DEF event
    <3> QED BY <1>2, <1>3, <2>2, ClientFacts DEF FeedPageOK
  <2>3. CASE fdClient' = fdClient
    BY <2>3 DEF FeedPageOK
  <2> QED BY <2>1, <2>2, <2>3 DEF FeedReceive, ReplaceSnapshot
<1>5. UNCHANGED <<fdInst, fdVersion, fdRecent, fdChanges, fdStarted, fdMissed,
                  fdFaults>>
  BY DEF FeedReceive
<1>6. CountsOK'
  BY <1>5 DEF CountsOK
<1>7. CASE /\ fdNet' = Tail(fdNet)
           /\ UNCHANGED <<fdPending, feedSub, fdStream, fdTimer>>
  <2>1. HubOK' /\ ChanOK' /\ HandlerOK' /\ FeedPageOK'
    BY <1>4, <1>5, <1>7 DEF feedSub, HubOK, ChanOK, HandlerOK, FeedPageOK
  <2>2. FeedNetOK'
    BY <1>1, <1>7 DEF FeedNetOK
  <2>3. FeedNeverSilent'
    BY <1>7 DEF feedSub, FeedNeverSilent, FeedSubscribed
  <2> QED BY <1>6, <2>1, <2>2, <2>3, PartsMake
<1>8. CASE GiveUpStream
  <2>1. /\ fdPending' \in [FeedNames -> FeedEntries]
        /\ ChanOK' /\ HandlerOK' /\ FeedNetOK' /\ FeedNeverSilent'
        /\ fdStream' = "none" /\ fdTimer' = TRUE
    BY <1>1, <1>8, GiveUpKeeps
  <2>2. HubOK' /\ FeedPageOK'
    BY <1>4, <1>5, <2>1 DEF HubOK, FeedPageOK
  <2> QED BY <1>6, <2>1, <2>2, PartsMake
<1> QED BY <1>7, <1>8 DEF FeedReceive

-----------------------------------------------------------------------------
LEMMA FeedStep == FeedIInv /\ [FeedNext]_feedVars => FeedIInv'
<1> SUFFICES ASSUME FeedIInv, [FeedNext]_feedVars PROVE FeedIInv'
  OBVIOUS
<1>1. CASE UNCHANGED feedVars
  <2>1. FeedTypeOK' /\ FeedNeverSilent'
    BY <1>1 DEF FeedIInv, FeedTypeOK, FeedNeverSilent, FeedSubscribed, feedVars,
                feedHub, feedSub, feedPage
  <2> QED BY <2>1 DEF FeedIInv
<1>2. CASE FeedNext
  BY <1>2, CreateOrDeleteKeeps, StatusChangeKeeps, FlushKeeps,
     SecondPassesKeeps, FirstSnapshotKeeps, SendSnapshotKeeps, TakeSignalKeeps,
     DecideKeeps, GapKeeps, SendPatchKeeps, BootKeeps, AcceptKeeps, BreakKeeps,
     FeedReconnectTimerKeeps, UnauthorizedKeeps, ReceiveKeeps DEF FeedNext
<1> QED BY <1>1, <1>2

\* The inductive invariant of the status feed (instance_runtime.go,
\* instance_events.go, sseClient.js, instanceStatusStore.js).
THEOREM FeedInvariant == FeedSpec => []FeedIInv
<1> QED BY FeedStarts, FeedStep, PTL DEF FeedSpec

\* Type correctness of the status feed.
THEOREM FeedTypes == FeedSpec => []FeedTypeOK
<1>1. FeedIInv => FeedTypeOK
  BY DEF FeedIInv
<1> QED BY <1>1, FeedInvariant, PTL

\* A subscriber that is owed a full list always has its signal, or is about to
\* send the list anyway (broadcastInstanceSignalLocked, HandleApiInstanceEvents).
THEOREM SubscribersHear == FeedSpec => []FeedNeverSilent
<1>1. FeedIInv => FeedNeverSilent
  BY DEF FeedIInv
<1> QED BY <1>1, FeedInvariant, PTL

(* ---------------------------- the workspace ---------------------------- *)

WsRequests == [name : WsNames, seq : Nat]
WsCounts == [moves : 0 .. WsMoves, forms : 0 .. WsForms,
             changes : 0 .. WsChanges, reloads : 0 .. WsReloads]
(* What may wait for an answer: an opening has a name.                     *)
Wanted == {w \in Waiting : w.do = "open" => w.name \in WsNames}
InsidePages == {"list", "dash", "term"}

TabTypes ==
  /\ tab \in WsTab
  /\ wsOpens \in SUBSET WsRequests
  /\ wsAsks \in Seq(Wanted)
  /\ wsOverlap \in BOOLEAN

FormTypes ==
  /\ wsForm \in WsFormState
  /\ wsDetails \in SUBSET WsRequests
  /\ wsSubmit \in Submits \cup {NoSubmit}

RestTypes ==
  /\ wsServer \in SUBSET WsNames /\ wsStore \in SUBSET WsNames
  /\ wsCount \in WsCounts

(* Unsaved text belongs to an instance that is shown.                      *)
TextOf(t) == t.dirty => t.open # "" /\ t.page = "term" /\ ~t.locked

(* No request to open is of a later session than the tab's.                *)
Requests(t, opens) == \A o \in opens : o.seq <= t.seq

(* The form and its submit name the instance they edit.                    *)
FormNamed ==
  /\ wsForm.mode = "edit" => wsForm.name # ""
  /\ wsSubmit.mode = "edit" => wsSubmit.name # ""
  /\ wsSubmit.mode \in {"create", "edit"} => wsSubmit.new # ""

(* Nothing is under way outside the pages of a session.                    *)
OutsideEmpty ==
  tab.page \notin InsidePages =>
    /\ wsAsks = <<>> /\ wsOpens = {} /\ wsDetails = {}
    /\ wsForm.mode = "closed" /\ wsSubmit = NoSubmit
    /\ tab.open = "" /\ tab.svc = "" /\ ~tab.locked /\ ~wsOverlap

(* One question, or the two of a click on home.                            *)
FewAsks(asks) ==
  /\ Len(asks) <= 2
  /\ Len(asks) = 2 => asks[1].do = "leave" /\ asks[2].do = "leave"

Awaits(t, opens) == \E o \in opens : o.seq = t.seq

(* What the tab shows agrees with itself.                                  *)
Shown(t) ==
  \/ t.page = "list" /\ t.url = "" /\ t.open = ""
  \/ t.page = "dash" /\ t.url = "dashboard" /\ t.open = ""
  \/ t.page = "term" /\ t.url = t.open /\ t.open # ""

(* The tab agrees with what is under way: an opening with the URL, a       *)
(* question with the page it was asked on.                                 *)
Fits(t, asks, opens) ==
  /\ t.svc = t.open
  /\ t.dirty => ~Awaits(t, opens)
  /\ \A o \in opens :
       o.seq = t.seq => t.page = "term" /\ t.url = o.name /\ asks = <<>>
  /\ asks # <<>> => /\ t.page = IF t.open = "" THEN "list" ELSE "term"
                    /\ asks[1].do = "stay" => t.url = ""
  /\ FewAsks(asks)
  /\ asks = <<>> /\ ~Awaits(t, opens) => Shown(t)

TabFits ==
  ~wsOverlap /\ ~tab.locked /\ tab.page \in InsidePages
    => Fits(tab, wsAsks, wsOpens)

WsIInv ==
  /\ TabTypes /\ FormTypes /\ RestTypes
  /\ TextOf(tab) /\ Requests(tab, wsOpens)
  /\ FormNamed /\ OutsideEmpty /\ TabFits

(* ------------------------------ the records ----------------------------- *)

LEMMA WsNameFacts ==
  /\ "" \notin WsNames /\ "home" \notin WsNames /\ "dashboard" \notin WsNames
  /\ WsNames \subseteq Routes /\ WsNames \subseteq MaybeName
  /\ {"", "home", "dashboard"} \subseteq Routes /\ "" \in MaybeName
  /\ MaybeName \subseteq Routes
BY WsAssumption DEF WsAssumption, Routes, MaybeName

LEMMA NextDiffers ==
  ASSUME NEW n \in Nat
  PROVE  n + 1 # n
OBVIOUS

LEMMA NextIsLater ==
  ASSUME NEW n \in Nat, NEW m \in Nat, m <= n
  PROVE  m <= n + 1 /\ m # n + 1
OBVIOUS

LEMMA TabTyped ==
  ASSUME NEW t \in WsTab
  PROVE  /\ t.page \in WsPages /\ t.open \in MaybeName /\ t.svc \in MaybeName
         /\ t.seq \in Nat /\ t.dirty \in BOOLEAN /\ t.list \in SUBSET WsNames
         /\ t.dashboard \in BOOLEAN /\ t.locked \in BOOLEAN
         /\ t.url \in Routes /\ t.past \in Seq(Routes) /\ t.ahead \in Seq(Routes)
BY DEF WsTab

LEMMA WsRequestFacts ==
  /\ \A n \in WsNames, s \in Nat :
       /\ [name |-> n, seq |-> s] \in WsRequests
       /\ [name |-> n, seq |-> s].name = n /\ [name |-> n, seq |-> s].seq = s
  /\ \A o \in WsRequests : o.name \in WsNames /\ o.seq \in Nat
BY DEF WsRequests

LEMMA WaitFacts ==
  /\ \A do \in {"dash", "leave", "rehome", "stay"} :
       Wait(do) \in Wanted /\ Wait(do).do = do
  /\ \A n \in WsNames :
       /\ WaitOpen(n) \in Wanted
       /\ WaitOpen(n).do = "open" /\ WaitOpen(n).name = n
  /\ \A w \in Wanted :
       /\ Replacing(w) \in Wanted
       /\ Replacing(w).do = w.do /\ Replacing(w).name = w.name
  /\ \A w \in Wanted : /\ w.do \in {"open", "dash", "leave", "rehome", "stay", "disable"}
                       /\ w.replace \in BOOLEAN
                       /\ w.do = "open" => w.name \in WsNames
  /\ Wanted \subseteq Waiting
<1>1. \A no \in BOOLEAN, do \in {"dash", "leave", "rehome", "stay"} :
        [do |-> do, name |-> "", replace |-> no] \in Wanted
  BY WsNameFacts DEF Wanted, Waiting
<1>2. \A no \in BOOLEAN, n \in WsNames :
        [do |-> "open", name |-> n, replace |-> no] \in Wanted
  BY WsNameFacts DEF Wanted, Waiting
<1>3. \A w \in Wanted, yes \in BOOLEAN :
        /\ [w EXCEPT !.replace = yes] \in Wanted
        /\ [w EXCEPT !.replace = yes].do = w.do
        /\ [w EXCEPT !.replace = yes].name = w.name
  BY DEF Wanted, Waiting
<1>4. FALSE \in BOOLEAN /\ TRUE \in BOOLEAN
  OBVIOUS
<1>5. \A do \in {"dash", "leave", "rehome", "stay"} : Wait(do) \in Wanted
  BY <1>1, <1>4, Zenon DEF Wait
<1>6. \A do \in {"dash", "leave", "rehome", "stay"} : Wait(do).do = do
  BY DEF Wait
<1>7. \A n \in WsNames : WaitOpen(n) \in Wanted
  BY <1>2, <1>4, Zenon DEF WaitOpen
<1>8. \A n \in WsNames : WaitOpen(n).do = "open" /\ WaitOpen(n).name = n
  BY DEF WaitOpen
<1>9. \A w \in Wanted : /\ Replacing(w) \in Wanted
                        /\ Replacing(w).do = w.do
                        /\ Replacing(w).name = w.name
  BY <1>3, <1>4, Zenon DEF Replacing
<1>10. \A w \in Wanted : /\ w.do \in {"open", "dash", "leave", "rehome", "stay", "disable"}
                         /\ w.replace \in BOOLEAN
                         /\ w.do = "open" => w.name \in WsNames
  BY DEF Wanted, Waiting
<1> QED BY <1>5, <1>6, <1>7, <1>8, <1>9, <1>10 DEF Wanted

(* ------------------------- the steps of the tab ------------------------- *)

(* What a move of the URL or the page leaves alone.                        *)
Kept(u, t) ==
  /\ u.open = t.open /\ u.svc = t.svc /\ u.seq = t.seq /\ u.dirty = t.dirty
  /\ u.list = t.list /\ u.dashboard = t.dashboard /\ u.locked = t.locked

(* What closing the workspace leaves alone.                                *)
Stands(u, t) ==
  u.list = t.list /\ u.dashboard = t.dashboard /\ u.locked = t.locked

(* The workspace is closed in u, which came from t.                        *)
ClosedIn(u, t) ==
  /\ u.open = "" /\ u.svc = "" /\ u.dirty = FALSE /\ u.seq = t.seq + 1
  /\ Stands(u, t)

LEMMA RouteEffect ==
  ASSUME NEW t \in WsTab, NEW r \in Routes, NEW replace \in BOOLEAN
  PROVE  /\ Route(t, r, replace) \in WsTab
         /\ Route(t, r, replace).url = r
         /\ Route(t, r, replace).page = t.page
         /\ Kept(Route(t, r, replace), t)
<1>1. t.past \in Seq(Routes) /\ t.url \in Routes
  BY TabTyped
<1>2. Append(t.past, t.url) \in Seq(Routes) /\ <<>> \in Seq(Routes)
  BY <1>1
<1>3. CASE t.url = r
  BY <1>3 DEF Route, Kept
<1>4. CASE t.url # r /\ replace
  BY <1>4 DEF Route, Kept, WsTab
<1>5. CASE t.url # r /\ ~replace
  BY <1>2, <1>5 DEF Route, Kept, WsTab
<1> QED BY <1>3, <1>4, <1>5

LEMMA SwitchEffect ==
  ASSUME NEW t \in WsTab, NEW page \in WsPages
  PROVE  /\ SwitchPage(t, page) \in WsTab
         /\ SwitchPage(t, page).page = page
         /\ SwitchPage(t, page).url = t.url
         /\ Kept(SwitchPage(t, page), t)
BY DEF SwitchPage, Kept, WsTab

LEMMA CloseEffect ==
  ASSUME NEW t \in WsTab
  PROVE  /\ CloseTerminalPage(t) \in WsTab
         /\ CloseTerminalPage(t).page = t.page
         /\ CloseTerminalPage(t).url = t.url
         /\ ClosedIn(CloseTerminalPage(t), t)
<1>0. t.seq \in Nat
  BY TabTyped
<1>4. t.seq + 1 \in Nat
  BY <1>0
<1>5. "" \in MaybeName
  BY WsNameFacts
<1>1. ASSUME NEW no \in BOOLEAN, NEW m \in MaybeName, NEW n \in Nat
      PROVE  LET u == [t EXCEPT !.open = m, !.svc = m, !.dirty = no, !.seq = n]
             IN /\ u \in WsTab
                /\ u.page = t.page /\ u.url = t.url /\ u.open = m /\ u.svc = m
                /\ u.dirty = no /\ u.seq = n /\ u.list = t.list
                /\ u.dashboard = t.dashboard /\ u.locked = t.locked
  <2> DEFINE u == [t EXCEPT !.open = m, !.svc = m, !.dirty = no, !.seq = n]
  <2>1. u \in WsTab
    BY DEF WsTab
  <2>2. /\ u.page = t.page /\ u.url = t.url /\ u.open = m /\ u.svc = m
        /\ u.seq = n /\ u.list = t.list
        /\ u.dashboard = t.dashboard /\ u.locked = t.locked
    BY DEF WsTab
  <2>3. u.dirty = no
    BY DEF WsTab
  <2> QED BY <2>1, <2>2, <2>3
<1> DEFINE Closed(no, m, n) ==
        [t EXCEPT !.open = m, !.svc = m, !.dirty = no, !.seq = n]
<1>2. FALSE \in BOOLEAN
  OBVIOUS
<1>3. CloseTerminalPage(t) = Closed(FALSE, "", t.seq + 1)
  BY Zenon DEF CloseTerminalPage
<1>6. LET u == Closed(FALSE, "", t.seq + 1)
      IN /\ u \in WsTab
         /\ u.page = t.page /\ u.url = t.url /\ u.open = "" /\ u.svc = ""
         /\ u.dirty = FALSE /\ u.seq = t.seq + 1 /\ u.list = t.list
         /\ u.dashboard = t.dashboard /\ u.locked = t.locked
  BY <1>1, <1>2, <1>4, <1>5, Zenon
<1> HIDE DEF Closed
<1> QED BY <1>3, <1>6 DEF ClosedIn, Stands

LEMMA StartOpenEffect ==
  ASSUME NEW t \in WsTab, NEW name \in WsNames, NEW replace \in BOOLEAN
  PROVE  /\ StartOpen(t, name, replace) \in WsTab
         /\ StartOpen(t, name, replace).page = "term"
         /\ StartOpen(t, name, replace).url = name
         /\ StartOpen(t, name, replace).seq = t.seq + 1
         /\ StartOpen(t, name, replace).open = t.open
         /\ StartOpen(t, name, replace).svc = t.svc
         /\ StartOpen(t, name, replace).dirty = t.dirty
         /\ Stands(StartOpen(t, name, replace), t)
<1> DEFINE u == [t EXCEPT !.seq = @ + 1]
<1>1. /\ u \in WsTab
      /\ u.page = t.page /\ u.url = t.url /\ u.open = t.open /\ u.svc = t.svc
      /\ u.dirty = t.dirty /\ u.seq = t.seq + 1 /\ u.list = t.list
      /\ u.dashboard = t.dashboard /\ u.locked = t.locked
  BY TabTyped DEF WsTab
<1> DEFINE v == SwitchPage(u, "term")
<1> HIDE DEF u
<1>2. v \in WsTab /\ v.page = "term" /\ Kept(v, u)
  BY <1>1, SwitchEffect DEF WsPages
<1> HIDE DEF v
<1>r. name \in Routes
  BY WsNameFacts
<1>3. /\ Route(v, name, replace) \in WsTab
      /\ Route(v, name, replace).url = name
      /\ Route(v, name, replace).page = v.page
      /\ Kept(Route(v, name, replace), v)
  BY <1>2, <1>r, RouteEffect, Zenon
<1>4. StartOpen(t, name, replace) = Route(v, name, replace)
  BY DEF StartOpen, u, v
<1> QED BY <1>1, <1>2, <1>3, <1>4 DEF Kept, Stands

(* Home: the workspace closed, the list shown, the URL empty.              *)
GoneHome(u, t) == u.page = "list" /\ u.url = "" /\ ClosedIn(u, t)

LEMMA HomeEffect ==
  ASSUME NEW t \in WsTab, NEW replace \in BOOLEAN
  PROVE  /\ SwitchPage(Route(CloseTerminalPage(t), "", replace), "list") \in WsTab
         /\ GoneHome(SwitchPage(Route(CloseTerminalPage(t), "", replace), "list"), t)
         /\ Route(SwitchPage(CloseTerminalPage(t), "list"), "", replace) \in WsTab
         /\ GoneHome(Route(SwitchPage(CloseTerminalPage(t), "list"), "", replace), t)
<1> DEFINE c == CloseTerminalPage(t)
<1>1. c \in WsTab /\ ClosedIn(c, t)
  BY CloseEffect
<1> HIDE DEF c
<1> DEFINE u == Route(c, "", replace)
           v == SwitchPage(c, "list")
<1>2. u \in WsTab /\ u.url = "" /\ Kept(u, c)
  BY <1>1, WsNameFacts, RouteEffect
<1>3. v \in WsTab /\ v.page = "list" /\ Kept(v, c)
  BY <1>1, SwitchEffect DEF WsPages
<1> HIDE DEF u, v
<1>4. /\ SwitchPage(u, "list") \in WsTab /\ SwitchPage(u, "list").page = "list"
      /\ SwitchPage(u, "list").url = u.url /\ Kept(SwitchPage(u, "list"), u)
  BY <1>2, SwitchEffect DEF WsPages
<1>r. "" \in Routes
  BY WsNameFacts
<1>5. /\ Route(v, "", replace) \in WsTab /\ Route(v, "", replace).url = ""
      /\ Route(v, "", replace).page = v.page /\ Kept(Route(v, "", replace), v)
  BY <1>3, <1>r, RouteEffect, Zenon
<1>6. GoneHome(SwitchPage(u, "list"), t)
  BY <1>1, <1>2, <1>4 DEF GoneHome, ClosedIn, Kept, Stands
<1>7. GoneHome(Route(v, "", replace), t)
  BY <1>1, <1>3, <1>5 DEF GoneHome, ClosedIn, Kept, Stands
<1> QED BY <1>4, <1>5, <1>6, <1>7 DEF u, v, c

LEMMA LeftEffect ==
  ASSUME NEW t \in WsTab, NEW w \in Wanted
  PROVE  /\ Left(t, w) \in WsTab
         /\ Left(t, w).page \in InsidePages
         /\ Left(t, w).seq = t.seq + 1
         /\ Stands(Left(t, w), t)
         /\ w.do = "open" => /\ Left(t, w).page = "term"
                             /\ Left(t, w).url = w.name
                             /\ Left(t, w).open = t.open
                             /\ Left(t, w).svc = t.svc
                             /\ Left(t, w).dirty = t.dirty
         /\ w.do # "open" => ClosedIn(Left(t, w), t)
         /\ w.do = "dash" => Left(t, w).page = "dash" /\ Left(t, w).url = "dashboard"
         /\ w.do = "stay" => Left(t, w).page = "list" /\ Left(t, w).url = t.url
         /\ w.do \in {"leave", "rehome", "disable"} => GoneHome(Left(t, w), t)
<1> DEFINE c == CloseTerminalPage(t)
<1>1. c \in WsTab /\ ClosedIn(c, t) /\ c.url = t.url
  BY CloseEffect
<1>0. w.replace \in BOOLEAN /\ (w.do = "rehome") \in BOOLEAN
  BY WaitFacts
<1>2. CASE w.do = "open"
  <2>1. Left(t, w) = StartOpen(t, w.name, w.replace)
    BY <1>2 DEF Left
  <2>2. w.name \in WsNames
    BY <1>2, WaitFacts
  <2> QED BY <1>0, <1>2, <2>1, <2>2, StartOpenEffect DEF InsidePages
<1>3. CASE w.do = "dash"
  <2>1. Left(t, w) = SwitchPage(Route(c, "dashboard", w.replace), "dash")
    BY <1>3 DEF Left
  <2> HIDE DEF c
  <2> DEFINE u == Route(c, "dashboard", w.replace)
  <2>2. u \in WsTab /\ u.url = "dashboard" /\ Kept(u, c)
    BY ZenonT(40), <1>0, <1>1, WsNameFacts, RouteEffect
  <2> HIDE DEF u
  <2>3. /\ SwitchPage(u, "dash") \in WsTab /\ SwitchPage(u, "dash").page = "dash"
        /\ SwitchPage(u, "dash").url = u.url /\ Kept(SwitchPage(u, "dash"), u)
    BY <2>2, SwitchEffect DEF WsPages
  <2>4. Left(t, w) = SwitchPage(u, "dash")
    BY <2>1 DEF u
  <2> QED BY <1>1, <1>3, <2>2, <2>3, <2>4 DEF ClosedIn, Kept, Stands, InsidePages
<1>4. CASE w.do = "stay"
  <2>1. Left(t, w) = SwitchPage(c, "list")
    BY <1>4 DEF Left
  <2> HIDE DEF c
  <2>2. /\ SwitchPage(c, "list") \in WsTab /\ SwitchPage(c, "list").page = "list"
        /\ SwitchPage(c, "list").url = c.url /\ Kept(SwitchPage(c, "list"), c)
    BY <1>1, SwitchEffect DEF WsPages
  <2> QED BY <1>1, <1>4, <2>1, <2>2 DEF ClosedIn, Kept, Stands, InsidePages
<1>5. CASE w.do \in {"leave", "rehome", "disable"}
  <2>1. Left(t, w) = Route(SwitchPage(c, "list"), "", w.do = "rehome")
    BY <1>5 DEF Left
  <2>2. Left(t, w) \in WsTab /\ GoneHome(Left(t, w), t)
    BY <1>0, <2>1, HomeEffect
  <2> QED BY <1>5, <2>2 DEF GoneHome, ClosedIn, InsidePages
<1> QED BY <1>2, <1>3, <1>4, <1>5, WaitFacts

LEMMA StayedEffect ==
  ASSUME NEW t \in WsTab, NEW w \in Wanted
  PROVE  /\ Stayed(t, w) \in WsTab
         /\ Stayed(t, w).url = t.open /\ Stayed(t, w).page = t.page
         /\ Kept(Stayed(t, w), t)
<1>1. (w.do \in {"open", "dash"} /\ w.replace) \in BOOLEAN
  OBVIOUS
<1>2. t.open \in Routes
  BY TabTyped, WsNameFacts
<1> QED BY <1>1, <1>2, RouteEffect DEF Stayed

LEMMA EmittedEffect ==
  ASSUME NEW t \in WsTab
  PROVE  /\ Emitted(t) \in WsTab
         /\ Stands(Emitted(t), t)
         /\ \/ /\ t.open = "" \/ t.open \in t.list
               /\ Emitted(t).page = t.page /\ Emitted(t).url = t.url
               /\ Emitted(t).open = t.open /\ Emitted(t).seq = t.seq
               /\ Emitted(t).dirty = t.dirty
               /\ Emitted(t).svc \in {t.svc, t.open}
            \/ t.open # "" /\ t.open \notin t.list /\ GoneHome(Emitted(t), t)
<1>1. CASE t.open = ""
  BY <1>1 DEF Emitted, Stands
<1>2. CASE t.open # "" /\ t.open \in t.list /\ t.svc = ""
  BY <1>2 DEF Emitted, Stands
<1>3. CASE t.open # "" /\ t.open \in t.list /\ t.svc # ""
  <2>1. Emitted(t) = [t EXCEPT !.svc = t.open]
    BY <1>3 DEF Emitted
  <2>2. t.open \in MaybeName
    BY TabTyped
  <2> QED BY <1>3, <2>1, <2>2 DEF Stands, WsTab
<1>4. CASE t.open # "" /\ t.open \notin t.list
  <2>1. Emitted(t) = SwitchPage(Route(CloseTerminalPage(t), "", FALSE), "list")
    BY <1>4 DEF Emitted
  <2>2. FALSE \in BOOLEAN
    OBVIOUS
  <2>3. Emitted(t) \in WsTab /\ GoneHome(Emitted(t), t)
    BY <2>1, <2>2, HomeEffect, Zenon
  <2> QED BY <1>4, <2>3 DEF GoneHome, ClosedIn
<1> QED BY <1>1, <1>2, <1>3, <1>4

LEMMA ListedEffect ==
  ASSUME NEW t \in WsTab, NEW names \in SUBSET WsNames
  PROVE  LET u == [t EXCEPT !.list = names]
         IN /\ u \in WsTab /\ u.list = names
            /\ u.page = t.page /\ u.url = t.url /\ u.open = t.open
            /\ u.svc = t.svc /\ u.seq = t.seq /\ u.dirty = t.dirty
            /\ u.dashboard = t.dashboard /\ u.locked = t.locked
BY DEF WsTab

LEMMA EditedEffect ==
  ASSUME NEW t \in WsTab, wsSubmit.new \in WsNames, wsSubmit.name \in WsNames
  PROVE  /\ Edited(t) \in WsTab
         /\ Edited(t).page = t.page /\ Edited(t).seq = t.seq
         /\ Edited(t).dirty = t.dirty /\ Stands(Edited(t), t)
         /\ \/ /\ t.open = wsSubmit.name /\ wsSubmit.new # wsSubmit.name
               /\ Edited(t).open = wsSubmit.new /\ Edited(t).url = wsSubmit.new
            \/ /\ t.open # wsSubmit.name \/ wsSubmit.new = wsSubmit.name
               /\ Edited(t).open = t.open /\ Edited(t).url = t.url
         /\ Edited(t).svc = IF t.svc = "" THEN "" ELSE wsSubmit.new
<1> DEFINE renamed == t.open = wsSubmit.name /\ wsSubmit.new # wsSubmit.name
           v == [t EXCEPT !.open = wsSubmit.new]
           u == IF renamed THEN Route(v, wsSubmit.new, FALSE) ELSE t
<1>0. wsSubmit.new \in MaybeName /\ wsSubmit.new \in Routes
  BY WsNameFacts
<1>1. /\ u \in WsTab /\ u.page = t.page /\ u.seq = t.seq /\ u.svc = t.svc
      /\ u.dirty = t.dirty /\ Stands(u, t)
      /\ renamed => u.open = wsSubmit.new /\ u.url = wsSubmit.new
      /\ ~renamed => u.open = t.open /\ u.url = t.url
  <2>1. CASE ~renamed
    BY <2>1 DEF Stands
  <2>2. CASE renamed
    <3>1. /\ v \in WsTab /\ v.open = wsSubmit.new /\ v.page = t.page
          /\ v.seq = t.seq /\ v.svc = t.svc /\ v.dirty = t.dirty
          /\ v.list = t.list /\ v.dashboard = t.dashboard /\ v.locked = t.locked
      BY <1>0 DEF WsTab
    <3>2. u = Route(v, wsSubmit.new, FALSE) /\ FALSE \in BOOLEAN
      BY <2>2
    <3> HIDE DEF v
    <3>3. /\ Route(v, wsSubmit.new, FALSE) \in WsTab
          /\ Route(v, wsSubmit.new, FALSE).url = wsSubmit.new
          /\ Route(v, wsSubmit.new, FALSE).page = v.page
          /\ Kept(Route(v, wsSubmit.new, FALSE), v)
      BY <1>0, <3>1, <3>2, RouteEffect, Zenon
    <3> HIDE DEF u
    <3> QED BY <2>2, <3>1, <3>2, <3>3 DEF Kept, Stands
  <2> QED BY <2>1, <2>2
<1>2. Edited(t) = IF u.svc = "" THEN u ELSE [u EXCEPT !.svc = wsSubmit.new]
  BY DEF Edited
<1> DEFINE z == IF u.svc = "" THEN u ELSE [u EXCEPT !.svc = wsSubmit.new]
<1>3. /\ z \in WsTab /\ z.page = u.page /\ z.seq = u.seq /\ z.dirty = u.dirty
      /\ z.open = u.open /\ z.url = u.url /\ z.list = u.list
      /\ z.dashboard = u.dashboard /\ z.locked = u.locked
      /\ z.svc = IF u.svc = "" THEN "" ELSE wsSubmit.new
  <2> HIDE DEF u
  <2>1. CASE u.svc = ""
    BY <1>1, <2>1
  <2>2. CASE u.svc # ""
    BY <1>0, <1>1, <2>2 DEF WsTab
  <2> QED BY <2>1, <2>2
<1> HIDE DEF u, z
<1>4. Edited(t) = z
  BY <1>2 DEF z
<1> QED BY <1>1, <1>3, <1>4 DEF Stands

LEMMA LoadedEffect ==
  ASSUME NEW t \in WsTab
  PROVE  /\ Loaded(t) \in WsTab
         /\ Loaded(t).page = "boot" /\ Loaded(t).open = "" /\ Loaded(t).svc = ""
         /\ Loaded(t).seq = 0 /\ ~Loaded(t).dirty /\ ~Loaded(t).locked
<1> DEFINE Clean(no, list) ==
        [t EXCEPT !.page = "boot", !.open = "", !.svc = "", !.seq = 0,
                  !.dirty = no, !.list = list, !.locked = no]
<1>1. ASSUME NEW no \in BOOLEAN, NEW list \in SUBSET WsNames
      PROVE  /\ Clean(no, list) \in WsTab
             /\ Clean(no, list).page = "boot" /\ Clean(no, list).open = ""
             /\ Clean(no, list).svc = "" /\ Clean(no, list).seq = 0
             /\ Clean(no, list).dirty = no /\ Clean(no, list).locked = no
  <2>1. "" \in MaybeName
    BY WsNameFacts
  <2>2. Clean(no, list) \in WsTab
    BY <2>1 DEF WsTab, WsPages
  <2>3. /\ Clean(no, list).page = "boot" /\ Clean(no, list).open = ""
        /\ Clean(no, list).svc = "" /\ Clean(no, list).seq = 0
    BY DEF WsTab
  <2>4. Clean(no, list).dirty = no
    BY DEF WsTab
  <2>5. Clean(no, list).locked = no
    BY DEF WsTab
  <2> QED BY <2>2, <2>3, <2>4, <2>5
<1>2. FALSE \in BOOLEAN /\ {} \in SUBSET WsNames
  OBVIOUS
<1>3. Loaded(t) = Clean(FALSE, {})
  BY Zenon DEF Loaded
<1>4. /\ Clean(FALSE, {}) \in WsTab
      /\ Clean(FALSE, {}).page = "boot" /\ Clean(FALSE, {}).open = ""
      /\ Clean(FALSE, {}).svc = "" /\ Clean(FALSE, {}).seq = 0
      /\ Clean(FALSE, {}).dirty = FALSE /\ Clean(FALSE, {}).locked = FALSE
  BY <1>1, <1>2, Zenon
<1> HIDE DEF Clean
<1> QED BY <1>3, <1>4

(* ------------------------------- the queue ------------------------------ *)

LEMMA FewNone ==
  ASSUME NEW asks, Len(asks) = 0
  PROVE  FewAsks(asks)
BY DEF FewAsks

LEMMA AskSeq ==
  ASSUME NEW asks \in Seq(Wanted), NEW w \in Wanted
  PROVE  /\ Append(asks, w) \in Seq(Wanted)
         /\ Append(asks, w) # asks /\ Append(asks, w) # <<>>
         /\ asks = <<>> => /\ FewAsks(Append(asks, w))
                           /\ Append(asks, w)[1] = w
                           /\ Append(asks, w) = <<w>>
<1>1. /\ Append(asks, w) \in Seq(Wanted)
      /\ Len(Append(asks, w)) = Len(asks) + 1 /\ Len(asks) \in Nat
  BY AppendProperties, LenProperties
<1>2. Append(asks, w) # asks /\ Append(asks, w) # <<>>
  BY <1>1
<1>3. ASSUME asks = <<>>
      PROVE  /\ FewAsks(Append(asks, w)) /\ Append(asks, w)[1] = w
             /\ Append(asks, w) = <<w>>
  BY <1>3 DEF FewAsks
<1> QED BY <1>1, <1>2, <1>3

LEMMA AnswerSeq ==
  ASSUME NEW asks \in Seq(Wanted), asks # <<>>
  PROVE  /\ Head(asks) \in Wanted /\ Head(asks) = asks[1]
         /\ Tail(asks) \in Seq(Wanted)
         /\ FewAsks(asks) =>
              /\ FewAsks(Tail(asks))
              /\ Tail(asks) # <<>> => Head(asks).do = "leave"
                                      /\ Tail(asks)[1].do = "leave"
<1>1. /\ Head(asks) \in Wanted /\ Head(asks) = asks[1]
      /\ Tail(asks) \in Seq(Wanted)
      /\ Len(Tail(asks)) = Len(asks) - 1
      /\ \A i \in 1 .. Len(Tail(asks)) : Tail(asks)[i] = asks[i + 1]
  BY HeadTailProperties
<1>2. Len(asks) \in Nat /\ Len(asks) # 0
  BY LenProperties, EmptySeq
<1>3. ASSUME FewAsks(asks), Tail(asks) # <<>>
      PROVE  Head(asks).do = "leave" /\ Tail(asks)[1].do = "leave"
  <2>1. Len(Tail(asks)) # 0
    BY <1>1, <1>3, EmptySeq
  <2>2. Len(asks) = 2
    BY <1>1, <1>2, <1>3, <2>1 DEF FewAsks
  <2>3. Len(Tail(asks)) = 1
    BY <1>1, <2>2
  <2>4. Tail(asks)[1] = asks[2]
    BY <1>1, <2>3
  <2> QED BY <1>1, <1>3, <2>2, <2>4 DEF FewAsks
<1>4. FewAsks(asks) => FewAsks(Tail(asks))
  BY <1>1, <1>2 DEF FewAsks
<1> QED BY <1>1, <1>3, <1>4

(* ------------------------------- the moves ------------------------------ *)

LEMMA RequestedFacts ==
  ASSUME NEW t \in WsTab, NEW w \in Wanted, NEW opens \in SUBSET WsRequests,
         Requests(t, opens)
  PROVE  /\ opens \cup Requested(t, w) \in SUBSET WsRequests
         /\ \A o \in opens \cup Requested(t, w) : o.seq <= t.seq + 1
         /\ \A o \in opens \cup Requested(t, w) :
              o.seq = t.seq + 1 => w.do = "open" /\ o.name = w.name
         /\ w.do = "open" =>
              \E o \in opens \cup Requested(t, w) : o.seq = t.seq + 1
<1>1. t.seq \in Nat
  BY TabTyped
<1>2. t.seq + 1 \in Nat
  BY <1>1
<1>3. \A o \in opens : o.seq \in Nat /\ o.seq <= t.seq
  BY WsRequestFacts DEF Requests
<1>4. \A o \in opens : o.seq <= t.seq + 1 /\ o.seq # t.seq + 1
  BY <1>1, <1>3
<1>5. CASE w.do = "open"
  <2> DEFINE o == [name |-> w.name, seq |-> t.seq + 1]
  <2>1. Requested(t, w) = {o}
    BY <1>5 DEF Requested
  <2>2. o \in WsRequests /\ o.name = w.name /\ o.seq = t.seq + 1
    BY <1>2, <1>5, WaitFacts, WsRequestFacts
  <2> HIDE DEF o
  <2>3. o.seq <= t.seq + 1
    BY <1>2, <2>2
  <2> QED BY <1>4, <1>5, <2>1, <2>2, <2>3
<1>6. CASE w.do # "open"
  <2>1. Requested(t, w) = {}
    BY <1>6 DEF Requested
  <2> QED BY <1>4, <1>6, <2>1
<1> QED BY <1>5, <1>6

(* A move is refused, put off by a question, or made.                      *)
Refused(t, w) ==
  \/ t.locked
  \/ w.do = "open" /\ t.open = w.name
  \/ w.do = "dash" /\ ~t.dashboard

(* The result r of asking for w.                                           *)
Asked(r, t, asks, opens, w) ==
  \/ Refused(t, w) /\ r.tab = t /\ r.asks = asks /\ r.opens = opens
  \/ /\ ~Refused(t, w) /\ t.open # "" /\ t.dirty
     /\ r.tab = t /\ r.asks = Append(asks, w) /\ r.opens = opens
  \/ /\ ~Refused(t, w) /\ ~(t.open # "" /\ t.dirty)
     /\ r.tab = Left(t, w) /\ r.asks = asks
     /\ r.opens = opens \cup Requested(t, w)

LEMMA AskCases ==
  ASSUME NEW t, NEW asks, NEW opens, NEW w
  PROVE  Asked(Ask(t, asks, opens, w), t, asks, opens, w)
<1>1. CASE Refused(t, w)
  BY <1>1 DEF Ask, Refused, Asked
<1>2. CASE ~Refused(t, w) /\ t.open # "" /\ t.dirty
  BY <1>2 DEF Ask, Refused, Asked
<1>3. CASE ~Refused(t, w) /\ ~(t.open # "" /\ t.dirty)
  BY <1>3 DEF Ask, Refused, Asked
<1> QED BY <1>1, <1>2, <1>3

(* What a made move keeps.                                                 *)
LEMMA LeftKeeps ==
  ASSUME NEW t \in WsTab, NEW w \in Wanted, NEW opens \in SUBSET WsRequests,
         Requests(t, opens), ~t.dirty \/ w.do # "open"
  PROVE  /\ Left(t, w) \in WsTab
         /\ TextOf(Left(t, w)) /\ ~Left(t, w).dirty
         /\ Requests(Left(t, w), opens \cup Requested(t, w))
         /\ Left(t, w) # t
         /\ Left(t, w).page \in InsidePages
         /\ Left(t, w).locked = t.locked
<1>1. /\ Left(t, w) \in WsTab /\ Left(t, w).seq = t.seq + 1
      /\ Left(t, w).page \in InsidePages /\ Left(t, w).locked = t.locked
  BY LeftEffect DEF Stands
<1>2. ~Left(t, w).dirty
  BY LeftEffect DEF ClosedIn
<1>3. t.seq \in Nat
  BY TabTyped
<1>4. Left(t, w) # t
  BY <1>1, <1>3
<1>5. Requests(Left(t, w), opens \cup Requested(t, w))
  BY <1>1, RequestedFacts DEF Requests
<1> QED BY <1>1, <1>2, <1>4, <1>5 DEF TextOf

(* What a made move shows agrees with what is under way then.              *)
LEMMA LeftFits ==
  ASSUME NEW t \in WsTab, NEW w \in Wanted, NEW opens \in SUBSET WsRequests,
         NEW asks \in Seq(Wanted),
         Requests(t, opens), ~t.dirty \/ w.do # "open", t.svc = t.open,
         w.do = "stay" => t.url = "",
         FewAsks(asks),
         asks # <<>> => w.do = "leave" /\ asks[1].do = "leave"
  PROVE  Fits(Left(t, w), asks, opens \cup Requested(t, w))
<1> DEFINE u == Left(t, w)
           all == opens \cup Requested(t, w)
<1>1. u.seq = t.seq + 1 /\ ~u.dirty
  BY LeftEffect, LeftKeeps
<1>2. u.svc = u.open
  <2>1. CASE w.do = "open"
    BY <2>1, LeftEffect
  <2>2. CASE w.do # "open"
    <3>1. ClosedIn(u, t)
      BY <2>2, LeftEffect
    <3> HIDE DEF u
    <3>2. u.svc = "" /\ u.open = ""
      BY <3>1 DEF ClosedIn
    <3> QED BY <3>2
  <2> QED BY <2>1, <2>2
<1>3. CASE w.do = "open"
  <2>1. u.page = "term" /\ u.url = w.name /\ asks = <<>>
    BY <1>3, LeftEffect
  <2>2. \A o \in all : o.seq = u.seq => o.name = w.name
    BY <1>1, RequestedFacts
  <2>3. Awaits(u, all)
    BY <1>1, <1>3, RequestedFacts DEF Awaits
  <2> HIDE DEF u, all
  <2>4. Fits(u, asks, all)
    BY <1>1, <1>2, <2>1, <2>2, <2>3 DEF Fits
  <2> QED BY <2>4 DEF u, all
<1>4. CASE w.do # "open"
  <2>1. \A o \in all : o.seq # u.seq
    BY <1>1, <1>4, RequestedFacts
  <2>2. u.open = ""
    BY <1>4, LeftEffect DEF ClosedIn
  <2>3. Shown(u) /\ (w.do # "dash" => u.page = "list")
    <3>1. CASE w.do = "dash"
      BY <2>2, <3>1, LeftEffect DEF Shown
    <3>2. CASE w.do = "stay"
      BY <2>2, <3>2, LeftEffect DEF Shown
    <3>3. CASE w.do \in {"leave", "rehome", "disable"}
      BY <2>2, <3>3, LeftEffect DEF Shown, GoneHome
    <3> QED BY <1>4, <3>1, <3>2, <3>3, WaitFacts
  <2>4. ~Awaits(u, all)
    BY <2>1 DEF Awaits
  <2>5. asks # <<>> => u.page = "list" /\ asks[1].do # "stay"
    BY <2>3
  <2> HIDE DEF u, all
  <2>6. Fits(u, asks, all)
    BY <1>1, <1>2, <2>1, <2>2, <2>3, <2>4, <2>5 DEF Fits
  <2> QED BY <2>6 DEF u, all
<1> QED BY <1>3, <1>4

(* Whatever is asked for, no text is dropped and the types are kept; with  *)
(* unsaved text the instance stays open.                                   *)
LEMMA WsAskKeeps ==
  ASSUME NEW t \in WsTab, NEW w \in Wanted, NEW opens \in SUBSET WsRequests,
         NEW asks \in Seq(Wanted), NEW r,
         Requests(t, opens), TextOf(t), Asked(r, t, asks, opens, w)
  PROVE  /\ r.tab \in WsTab /\ r.asks \in Seq(Wanted)
         /\ r.opens \in SUBSET WsRequests
         /\ TextOf(r.tab) /\ Requests(r.tab, r.opens)
         /\ r.tab.locked = t.locked
         /\ t.page \in InsidePages => r.tab.page \in InsidePages
         /\ t.dirty => r.tab.dirty
         /\ r.asks = asks /\ r.tab = t => r.opens = opens
         /\ w.do = "leave" /\ ~t.locked => r.asks # asks \/ r.tab # t
<1>1. CASE Refused(t, w) /\ r.tab = t /\ r.asks = asks /\ r.opens = opens
  BY <1>1 DEF Refused
<1>2. CASE r.tab = t /\ r.asks = Append(asks, w) /\ r.opens = opens
  <2>1. Append(asks, w) \in Seq(Wanted) /\ Append(asks, w) # asks
    BY AskSeq
  <2> QED BY <1>2, <2>1
<1>3. CASE /\ ~(t.open # "" /\ t.dirty)
           /\ r.tab = Left(t, w) /\ r.asks = asks
           /\ r.opens = opens \cup Requested(t, w)
  <2>1. ~t.dirty
    BY <1>3 DEF TextOf
  <2>2. opens \cup Requested(t, w) \in SUBSET WsRequests
    BY RequestedFacts
  <2>3. /\ Left(t, w) \in WsTab
        /\ TextOf(Left(t, w))
        /\ Requests(Left(t, w), opens \cup Requested(t, w))
        /\ Left(t, w) # t
        /\ Left(t, w).page \in InsidePages
        /\ Left(t, w).locked = t.locked
    BY <2>1, LeftKeeps
  <2> QED BY <1>3, <2>1, <2>2, <2>3
<1> QED BY <1>1, <1>2, <1>3 DEF Asked

(* The result r of asking is that w waits for an answer.                   *)
PutOff(r, t, opens, w) ==
  /\ r.asks = <<w>> /\ r.tab = t /\ r.opens = opens
  /\ t.open # "" /\ t.dirty /\ ~t.locked

(* What is asked for when no question waits agrees with itself.            *)
LEMMA AskFits ==
  ASSUME NEW t \in WsTab, NEW w \in Wanted, NEW opens \in SUBSET WsRequests,
         NEW r,
         Requests(t, opens), TextOf(t), t.svc = t.open,
         t.dirty => ~Awaits(t, opens),
         w.do = "stay" => t.url = "",
         Refused(t, w) => Fits(t, <<>>, opens),
         Asked(r, t, <<>>, opens, w)
  PROVE  /\ Fits(r.tab, r.asks, r.opens)
         /\ r.asks = <<>> \/ PutOff(r, t, opens, w)
<1>0. <<>> \in Seq(Wanted) /\ Len(<<>>) = 0
  BY EmptySeq
<1>1. CASE Refused(t, w) /\ r.tab = t /\ r.asks = <<>> /\ r.opens = opens
  BY <1>1
<1>2. CASE /\ ~Refused(t, w) /\ t.open # "" /\ t.dirty
           /\ r.tab = t /\ r.asks = Append(<<>>, w) /\ r.opens = opens
  <2>1. FewAsks(r.asks) /\ r.asks[1] = w /\ r.asks # <<>> /\ r.asks = <<w>>
    BY <1>0, <1>2, AskSeq
  <2>2. t.page = "term" /\ ~Awaits(t, opens) /\ \A o \in opens : o.seq # t.seq
    BY <1>2 DEF TextOf, Awaits
  <2>3. Fits(t, r.asks, opens)
    BY <1>2, <2>1, <2>2 DEF Fits
  <2> QED BY <1>2, <2>1, <2>3 DEF Refused, PutOff
<1>3. CASE /\ ~(t.open # "" /\ t.dirty)
           /\ r.tab = Left(t, w) /\ r.asks = <<>>
           /\ r.opens = opens \cup Requested(t, w)
  <2>1. ~t.dirty
    BY <1>3 DEF TextOf
  <2>3. FewAsks(<<>>)
    BY <1>0, FewNone
  <2>2. Fits(Left(t, w), <<>>, opens \cup Requested(t, w))
    BY <1>0, <2>1, <2>3, LeftFits
  <2> QED BY <1>3, <2>2
<1> QED BY <1>1, <1>2, <1>3 DEF Asked

(* --------------------------- moves of the tab --------------------------- *)

LEMMA CountKept ==
  ASSUME wsCount \in WsCounts
  PROVE  /\ WsCounted("moves", WsMoves) => wsCount' \in WsCounts
         /\ WsCounted("forms", WsForms) => wsCount' \in WsCounts
         /\ WsCounted("changes", WsChanges) => wsCount' \in WsCounts
         /\ WsCounted("reloads", WsReloads) => wsCount' \in WsCounts
<1>1. /\ WsMoves \in Nat /\ WsForms \in Nat /\ WsChanges \in Nat
      /\ WsReloads \in Nat
  BY WsAssumption DEF WsAssumption
<1>2. /\ wsCount.moves \in 0 .. WsMoves /\ wsCount.forms \in 0 .. WsForms
      /\ wsCount.changes \in 0 .. WsChanges
      /\ wsCount.reloads \in 0 .. WsReloads
  BY DEF WsCounts
<1>3. WsCounted("moves", WsMoves) => wsCount' \in WsCounts
  BY <1>1, <1>2 DEF WsCounted, WsCounts
<1>4. WsCounted("forms", WsForms) => wsCount' \in WsCounts
  BY <1>1, <1>2 DEF WsCounted, WsCounts
<1>5. WsCounted("changes", WsChanges) => wsCount' \in WsCounts
  BY <1>1, <1>2 DEF WsCounted, WsCounts
<1>6. WsCounted("reloads", WsReloads) => wsCount' \in WsCounts
  BY <1>1, <1>2 DEF WsCounted, WsCounts
<1> QED BY <1>3, <1>4, <1>5, <1>6

(* What every move of a tab inside keeps, whatever it overlaps.            *)
LEMMA MoveKeeps ==
  ASSUME TabTypes, NEW t \in WsTab, NEW w \in Wanted,
         NEW opens \in SUBSET WsRequests, NEW r, NEW met,
         t.page \in InsidePages, Requests(t, opens), TextOf(t),
         Asked(r, t, wsAsks, opens, w), Take(r, met)
  PROVE  /\ TabTypes' /\ TextOf(tab') /\ Requests(tab', wsOpens')
         /\ tab'.page \in InsidePages /\ tab'.locked = t.locked
         /\ t.dirty => tab'.dirty
<1>1. tab' = r.tab /\ wsAsks' = r.asks /\ wsOpens' = r.opens
  BY DEF Take
<1>2. wsOverlap' \in BOOLEAN
  BY DEF Take
<1>3. wsAsks \in Seq(Wanted)
  BY DEF TabTypes
<1>4. /\ r.tab \in WsTab /\ r.asks \in Seq(Wanted)
      /\ r.opens \in SUBSET WsRequests
      /\ TextOf(r.tab) /\ Requests(r.tab, r.opens)
      /\ r.tab.locked = t.locked
      /\ r.tab.page \in InsidePages
      /\ t.dirty => r.tab.dirty
  BY <1>3, WsAskKeeps
<1> QED BY <1>1, <1>2, <1>4 DEF TabTypes

(* A move that overlaps no other leaves the tab in agreement.              *)
LEMMA MoveFits ==
  ASSUME WsIInv, NEW t \in WsTab, NEW w \in Wanted,
         NEW opens \in SUBSET wsOpens, NEW r, NEW met,
         t.page = tab.page, t.locked = tab.locked, t.seq = tab.seq,
         tab.page \in InsidePages, Requests(t, opens), TextOf(t),
         Asked(r, t, wsAsks, opens, w), Take(r, met),
         ~wsOverlap' /\ ~tab.locked /\ wsAsks = <<>> =>
           /\ t.svc = t.open
           /\ t.dirty => ~Awaits(t, opens)
           /\ w.do = "stay" => t.url = ""
           /\ Refused(t, w) => Fits(t, <<>>, opens)
  PROVE  TabFits'
<1> SUFFICES ASSUME ~wsOverlap', ~tab'.locked
             PROVE  Fits(tab', wsAsks', wsOpens')
  BY DEF TabFits
<1>1. /\ tab' = r.tab /\ wsAsks' = r.asks /\ wsOpens' = r.opens
      /\ ~wsOverlap /\ ~Met(r)
  BY DEF Take
<1>2. opens \in SUBSET WsRequests /\ wsAsks \in Seq(Wanted) /\ TabTypes
  BY DEF WsIInv, TabTypes
<1>3. tab'.locked = t.locked
  BY <1>2, MoveKeeps
<1>4. Fits(tab, wsAsks, wsOpens)
  BY <1>1, <1>3 DEF WsIInv, TabFits
<1>5. CASE wsAsks = <<>>
  <2>1. /\ t.svc = t.open
        /\ t.dirty => ~Awaits(t, opens)
        /\ w.do = "stay" => t.url = ""
        /\ Refused(t, w) => Fits(t, <<>>, opens)
    BY <1>3, <1>5
  <2>2. Asked(r, t, <<>>, opens, w)
    BY <1>5
  <2>3. Fits(r.tab, r.asks, r.opens)
    BY <1>2, <2>1, <2>2, AskFits
  <2> QED BY <1>1, <2>3
<1>6. CASE wsAsks # <<>>
  <2>1. r.tab = tab /\ r.asks = wsAsks
    BY <1>1, <1>6 DEF Met
  <2>2. r.tab = t /\ r.opens = opens
    <3>1. Append(wsAsks, w) # wsAsks
      BY <1>2, AskSeq
    <3>2. Left(t, w) # tab
      <4>1. Left(t, w).seq = t.seq + 1
        BY LeftEffect
      <4>2. t.seq \in Nat
        BY TabTyped
      <4>3. t.seq + 1 # t.seq
        BY <4>2, NextDiffers
      <4> QED BY <4>1, <4>3
    <3> QED BY <2>1, <3>1, <3>2 DEF Asked
  <2>3. Fits(tab, wsAsks, opens)
    BY <1>4, <1>6 DEF Fits, Awaits
  <2> QED BY <1>1, <2>1, <2>2, <2>3
<1> QED BY <1>5, <1>6

(* The tab as it is moves.                                                 *)
LEMMA PlainMove ==
  ASSUME WsIInv, NEW w \in Wanted, w.do # "stay",
         NEW opens \in SUBSET wsOpens,
         opens = wsOpens \/ w.do = "leave",
         NEW r, NEW met, tab.page \in InsidePages,
         Asked(r, tab, wsAsks, opens, w), Take(r, met)
  PROVE  /\ TabTypes' /\ TextOf(tab') /\ Requests(tab', wsOpens')
         /\ tab'.page \in InsidePages /\ tab'.locked = tab.locked
         /\ tab.dirty => tab'.dirty
         /\ TabFits'
<1>1. /\ TabTypes /\ tab \in WsTab /\ opens \in SUBSET WsRequests
      /\ Requests(tab, opens) /\ TextOf(tab)
  BY DEF WsIInv, TabTypes, Requests
<1>2. ASSUME ~wsOverlap', ~tab.locked, wsAsks = <<>>
      PROVE  /\ tab.svc = tab.open
             /\ tab.dirty => ~Awaits(tab, opens)
             /\ Refused(tab, w) => Fits(tab, <<>>, opens)
  <2>1. ~wsOverlap
    BY <1>2 DEF Take
  <2>2. Fits(tab, <<>>, wsOpens)
    BY <1>2, <2>1 DEF WsIInv, TabFits
  <2>3. Refused(tab, w) => opens = wsOpens
    BY <1>2 DEF Refused
  <2>4. tab.svc = tab.open /\ (tab.dirty => ~Awaits(tab, wsOpens))
    BY <2>2 DEF Fits
  <2>5. tab.dirty => ~Awaits(tab, opens)
    BY <2>4 DEF Awaits
  <2> QED BY <2>2, <2>3, <2>4, <2>5
<1>3. TabFits'
  BY <1>1, <1>2, MoveFits
<1> QED BY <1>1, <1>3, MoveKeeps

LEMMA MoveFrame ==
  ASSUME WsIInv, UNCHANGED <<wsServer, wsStore, wsForm, wsDetails, wsSubmit>>,
         wsCount' \in WsCounts,
         TabTypes', TextOf(tab'), Requests(tab', wsOpens'),
         tab'.page \in InsidePages, TabFits'
  PROVE  WsIInv'
<1>1. FormTypes' /\ FormNamed'
  BY DEF WsIInv, FormTypes, FormNamed
<1>2. RestTypes'
  BY DEF WsIInv, RestTypes
<1>3. OutsideEmpty'
  BY DEF OutsideEmpty
<1> QED BY <1>1, <1>2, <1>3 DEF WsIInv

LEMMA CountsHold == ASSUME WsIInv PROVE wsCount \in WsCounts
BY DEF WsIInv, RestTypes

LEMMA ReachableInside ==
  ASSUME Reachable
  PROVE  tab.page \in InsidePages /\ ~tab.locked /\ wsAsks = <<>>
         /\ wsForm.mode = "closed"
BY DEF Reachable, InsidePages

LEMMA ClickInstanceKeeps ==
  ASSUME WsIInv, NEW n \in WsNames, ClickInstance(n)
  PROVE  WsIInv' /\ (tab.dirty => tab'.dirty)
<1> DEFINE r == Ask(tab, wsAsks, wsOpens, WaitOpen(n))
<1>2. WaitOpen(n) \in Wanted /\ WaitOpen(n).do # "stay"
  BY WaitFacts
<1>3. Asked(r, tab, wsAsks, wsOpens, WaitOpen(n))
  BY AskCases, Zenon
<1>4. /\ Take(r, FALSE) /\ tab.page \in InsidePages
      /\ WsCounted("moves", WsMoves)
      /\ UNCHANGED <<wsServer, wsStore, wsForm, wsDetails, wsSubmit>>
  BY ReachableInside DEF ClickInstance
<1> HIDE DEF r
<1>5. /\ TabTypes' /\ TextOf(tab') /\ Requests(tab', wsOpens')
      /\ tab'.page \in InsidePages /\ (tab.dirty => tab'.dirty) /\ TabFits'
  BY <1>2, <1>3, <1>4, PlainMove
<1>6. wsCount' \in WsCounts
  BY <1>4, CountsHold, CountKept
<1> QED BY <1>4, <1>5, <1>6, MoveFrame

LEMMA ClickDashboardKeeps ==
  ASSUME WsIInv, ClickDashboard
  PROVE  WsIInv' /\ (tab.dirty => tab'.dirty)
<1> DEFINE r == Ask(tab, wsAsks, wsOpens, Wait("dash"))
<1>2. Wait("dash") \in Wanted /\ Wait("dash").do # "stay"
  BY WaitFacts
<1>3. Asked(r, tab, wsAsks, wsOpens, Wait("dash"))
  BY AskCases, Zenon
<1>4. /\ Take(r, FALSE) /\ tab.page \in InsidePages
      /\ WsCounted("moves", WsMoves)
      /\ UNCHANGED <<wsServer, wsStore, wsForm, wsDetails, wsSubmit>>
  BY ReachableInside DEF ClickDashboard
<1> HIDE DEF r
<1>5. /\ TabTypes' /\ TextOf(tab') /\ Requests(tab', wsOpens')
      /\ tab'.page \in InsidePages /\ (tab.dirty => tab'.dirty) /\ TabFits'
  BY <1>2, <1>3, <1>4, PlainMove
<1>6. wsCount' \in WsCounts
  BY <1>4, CountsHold, CountKept
<1> QED BY <1>4, <1>5, <1>6, MoveFrame

(* The failure of an opening leaves the workspace, whatever it shows.      *)
LEMMA OpenFailedKeeps ==
  ASSUME WsIInv, NEW o \in wsOpens, OpenFailed(o)
  PROVE  WsIInv' /\ (tab.dirty => tab'.dirty)
<1> DEFINE opens == wsOpens \ {o}
           r == Ask(tab, wsAsks, opens, Wait("leave"))
<1>2. Wait("leave") \in Wanted /\ Wait("leave").do = "leave"
  BY WaitFacts
<1>3. Asked(r, tab, wsAsks, opens, Wait("leave"))
  BY AskCases, Zenon
<1>4. /\ Take(r, FALSE)
      /\ UNCHANGED <<wsServer, wsStore, wsForm, wsDetails, wsSubmit, wsCount>>
  BY DEF OpenFailed
<1>5. tab.page \in InsidePages
  BY DEF WsIInv, OutsideEmpty
<1>6. opens \in SUBSET wsOpens
  OBVIOUS
<1> HIDE DEF r, opens
<1>7. /\ TabTypes' /\ TextOf(tab') /\ Requests(tab', wsOpens')
      /\ tab'.page \in InsidePages /\ (tab.dirty => tab'.dirty) /\ TabFits'
  BY <1>2, <1>3, <1>4, <1>5, <1>6, PlainMove
<1>8. wsCount' \in WsCounts
  BY <1>4, CountsHold
<1> QED BY <1>4, <1>7, <1>8, MoveFrame

(* A click on home asks twice; with unsaved text both questions wait.      *)
LEMMA ClickHomeKeeps ==
  ASSUME WsIInv, ClickHome
  PROVE  WsIInv' /\ (tab.dirty => tab'.dirty)
<1> DEFINE w == Wait("leave")
           first == IF tab.open # "" THEN Ask(tab, wsAsks, wsOpens, w)
                    ELSE [tab |-> tab, asks |-> wsAsks, opens |-> wsOpens]
           r == Ask(first.tab, first.asks, first.opens, w)
<1>1. w \in Wanted /\ w.do = "leave"
  BY WaitFacts
<1>2. Asked(r, first.tab, first.asks, first.opens, w)
  BY AskCases, Zenon
<1>3. \/ Asked(first, tab, wsAsks, wsOpens, w)
      \/ first.tab = tab /\ first.asks = wsAsks /\ first.opens = wsOpens
  <2>1. CASE tab.open # ""
    BY <2>1, AskCases
  <2>2. CASE tab.open = ""
    BY <2>2
  <2> QED BY <2>1, <2>2
<1>4. /\ tab.page \in InsidePages /\ ~tab.locked /\ wsAsks = <<>>
      /\ WsCounted("moves", WsMoves)
      /\ UNCHANGED <<wsServer, wsStore, wsForm, wsDetails, wsSubmit>>
  BY ReachableInside DEF ClickHome
<1>13. Take(r, FALSE)
  BY DEF ClickHome
<1> HIDE DEF w, first, r
<1>5. /\ TabTypes /\ tab \in WsTab /\ wsOpens \in SUBSET WsRequests
      /\ wsAsks \in Seq(Wanted) /\ Requests(tab, wsOpens) /\ TextOf(tab)
  BY DEF WsIInv, TabTypes
<1>6. /\ first.tab \in WsTab /\ first.asks \in Seq(Wanted)
      /\ first.opens \in SUBSET WsRequests
      /\ TextOf(first.tab) /\ Requests(first.tab, first.opens)
      /\ first.tab.locked = tab.locked /\ first.tab.page \in InsidePages
      /\ tab.dirty => first.tab.dirty
  <2>1. CASE Asked(first, tab, wsAsks, wsOpens, w)
    <3>1. tab.page \in InsidePages /\ w \in Wanted
      BY <1>1, <1>4
    <3> QED BY <1>5, <2>1, <3>1, WsAskKeeps
  <2>2. CASE first.tab = tab /\ first.asks = wsAsks /\ first.opens = wsOpens
    BY <1>4, <1>5, <2>2
  <2> QED BY <1>3, <2>1, <2>2
<1>7. /\ r.tab \in WsTab /\ r.asks \in Seq(Wanted)
      /\ r.opens \in SUBSET WsRequests
      /\ TextOf(r.tab) /\ Requests(r.tab, r.opens)
      /\ r.tab.page \in InsidePages
      /\ first.tab.dirty => r.tab.dirty
  BY <1>1, <1>2, <1>6, WsAskKeeps
<1>8. tab' = r.tab /\ wsAsks' = r.asks /\ wsOpens' = r.opens
      /\ (~wsOverlap' => ~wsOverlap)
  BY <1>13 DEF Take
<1>9. wsOverlap' \in BOOLEAN
  BY <1>13 DEF Take
<1>10. TabFits'
  <2> SUFFICES ASSUME ~wsOverlap
               PROVE  Fits(r.tab, r.asks, r.opens)
    BY <1>8 DEF TabFits
  <2>1. Fits(tab, <<>>, wsOpens)
    BY <1>4 DEF WsIInv, TabFits
  <2>2. /\ Fits(first.tab, first.asks, first.opens)
        /\ first.asks = <<>> \/ PutOff(first, tab, wsOpens, w)
    <3>1. CASE Asked(first, tab, wsAsks, wsOpens, w)
      <4>1. Asked(first, tab, <<>>, wsOpens, w)
        BY <1>4, <3>1
      <4>2. tab.svc = tab.open /\ (tab.dirty => ~Awaits(tab, wsOpens))
        BY <2>1 DEF Fits
      <4>3. w.do = "stay" => tab.url = ""
        BY <1>1
      <4>4. Refused(tab, w) => Fits(tab, <<>>, wsOpens)
        BY <2>1
      <4>5. tab \in WsTab /\ wsOpens \in SUBSET WsRequests /\ w \in Wanted
            /\ Requests(tab, wsOpens) /\ TextOf(tab)
        BY <1>1, <1>5
      <4>7. Fits(first.tab, first.asks, first.opens)
        BY <4>1, <4>2, <4>3, <4>4, <4>5, AskFits
      <4>6. first.asks = <<>> \/ PutOff(first, tab, wsOpens, w)
        BY <4>1, <4>2, <4>3, <4>4, <4>5, AskFits
      <4> QED BY <4>6, <4>7
    <3>2. CASE first.tab = tab /\ first.asks = wsAsks /\ first.opens = wsOpens
      BY <1>4, <2>1, <3>2
    <3> QED BY <1>3, <3>1, <3>2
  <2>3. CASE first.asks = <<>>
    <3>1. /\ first.tab.svc = first.tab.open
          /\ first.tab.dirty => ~Awaits(first.tab, first.opens)
      BY <2>2 DEF Fits
    <3>2. Fits(first.tab, <<>>, first.opens)
      BY <2>2, <2>3
    <3>3. Asked(r, first.tab, <<>>, first.opens, w)
      BY <1>2, <2>3
    <3>4. w.do # "stay"
      BY <1>1
    <3> QED BY <1>1, <1>6, <3>1, <3>2, <3>3, <3>4, AskFits
  <2>4. CASE PutOff(first, tab, wsOpens, w)
    <3>0. /\ first.asks = <<w>> /\ first.tab = tab
          /\ first.opens = wsOpens /\ tab.open # "" /\ tab.dirty
      BY <2>4 DEF PutOff
    <3>1. ~Refused(tab, w)
      BY <1>1, <1>4 DEF Refused
    <3>2. r.tab = tab /\ r.asks = Append(<<w>>, w) /\ r.opens = wsOpens
      BY <1>2, <3>0, <3>1 DEF Asked
    <3>3. /\ Len(r.asks) = 2 /\ r.asks[1] = w /\ r.asks[2] = w
          /\ r.asks # <<>>
      BY <3>2
    <3>4. FewAsks(r.asks)
      BY <1>1, <3>3 DEF FewAsks
    <3>5. /\ tab.page = "term" /\ tab.svc = tab.open /\ ~Awaits(tab, wsOpens)
          /\ \A o \in wsOpens : o.seq # tab.seq
      BY <1>5, <2>1, <3>0 DEF Fits, TextOf, Awaits
    <3>6. Fits(tab, r.asks, wsOpens)
      BY <1>1, <3>0, <3>3, <3>4, <3>5 DEF Fits
    <3> QED BY <3>2, <3>6
  <2> QED BY <2>2, <2>3, <2>4
<1>11. wsCount' \in WsCounts
  BY <1>4, CountsHold, CountKept
<1>12. TabTypes'
  BY <1>7, <1>8, <1>9 DEF TabTypes
<1> QED BY <1>4, <1>6, <1>7, <1>8, <1>10, <1>11, <1>12, MoveFrame

LEMMA PoppedFacts ==
  ASSUME NEW t \in WsTab
  PROVE  /\ Popped(t) \in Wanted
         /\ Popped(t).do = "stay" => t.url = ""
         /\ Popped(t).do = "open" => Popped(t).name = t.url /\ t.url \in WsNames
         /\ Popped(t).do = "dash" => t.url = "dashboard"
<1>1. t.list \in SUBSET WsNames
  BY TabTyped
<1>5. \A n \in t.list : n # "dashboard" /\ n # "home" /\ n # ""
  BY <1>1, WsNameFacts
<1>2. CASE t.url = "dashboard"
  <2>1. Popped(t) = Replacing(Wait("dash"))
    BY <1>2, <1>5 DEF Popped
  <2> QED BY <1>2, <2>1, WaitFacts
<1>3. CASE t.url # "dashboard" /\ t.url \in t.list
  <2>1. t.url \in WsNames
    BY <1>1, <1>3
  <2>2. Popped(t) = Replacing(WaitOpen(t.url))
    BY <1>3, <1>5 DEF Popped
  <2>3. /\ WaitOpen(t.url) \in Wanted /\ WaitOpen(t.url).do = "open"
        /\ WaitOpen(t.url).name = t.url
    BY <2>1, WaitFacts
  <2>4. /\ Popped(t) \in Wanted /\ Popped(t).do = "open"
        /\ Popped(t).name = t.url
    BY <2>2, <2>3, WaitFacts
  <2> QED BY <2>1, <2>4
<1>4. CASE t.url # "dashboard" /\ t.url \notin t.list
  <2>1. \/ Popped(t) = Wait("rehome")
        \/ Popped(t) = Wait("stay") /\ t.url = ""
    BY <1>4 DEF Popped
  <2> QED BY <2>1, WaitFacts
<1> QED BY <1>2, <1>3, <1>4

(* The history moves the URL and nothing else, then asks.                  *)
LEMMA TravelKeeps ==
  ASSUME WsIInv, NEW t \in WsTab, t.page = tab.page, Kept(t, tab), Travel(t)
  PROVE  WsIInv' /\ (tab.dirty => tab'.dirty)
<1> DEFINE w == Popped(t)
           r == Ask(t, wsAsks, wsOpens, w)
           met == ~AtRest \/ (t.url = "dashboard" /\ ~t.dashboard)
<1>1. /\ w \in Wanted
      /\ w.do = "stay" => t.url = ""
      /\ w.do = "open" => w.name = t.url /\ t.url \in WsNames
      /\ w.do = "dash" => t.url = "dashboard"
  BY PoppedFacts
<1>2. Asked(r, t, wsAsks, wsOpens, w)
  BY AskCases, Zenon
<1>3. /\ Take(r, met) /\ tab.page \in InsidePages
      /\ WsCounted("moves", WsMoves)
      /\ UNCHANGED <<wsServer, wsStore, wsForm, wsDetails, wsSubmit>>
  BY DEF Travel, InsidePages
<1>4. ~wsOverlap' => AtRest /\ ~(t.url = "dashboard" /\ ~t.dashboard) /\ ~wsOverlap
  BY <1>3 DEF Take
<1> HIDE DEF w, r, met
<1>5. /\ TabTypes /\ wsOpens \in SUBSET WsRequests
      /\ Requests(t, wsOpens) /\ TextOf(t)
      /\ t.locked = tab.locked /\ t.seq = tab.seq
  BY DEF WsIInv, TabTypes, Requests, TextOf, Kept
<1>6. ASSUME ~wsOverlap', ~tab.locked, wsAsks = <<>>
      PROVE  /\ t.svc = t.open
             /\ t.dirty => ~Awaits(t, wsOpens)
             /\ Refused(t, w) => Fits(t, <<>>, wsOpens)
  <2>1. AtRest /\ ~(t.url = "dashboard" /\ ~t.dashboard) /\ ~wsOverlap
    BY <1>4, <1>6
  <2>2. Fits(tab, <<>>, wsOpens)
    BY <1>3, <1>6, <2>1 DEF WsIInv, TabFits
  <2>3. ~Awaits(t, wsOpens) /\ ~Awaits(tab, wsOpens)
    BY <1>5, <2>1 DEF AtRest, Opening, Awaits
  <2>4. t.svc = t.open /\ Shown(tab)
    BY <2>2, <2>3 DEF Fits, Kept
  <2>5. ASSUME Refused(t, w)
        PROVE  Fits(t, <<>>, wsOpens)
    <3>1. w.do = "open" /\ t.open = w.name
      BY <1>1, <1>5, <1>6, <2>1, <2>5 DEF Refused
    <3>2. t.url = t.open /\ t.open # ""
      BY <1>1, <3>1, WsNameFacts
    <3>3. t.page = "term"
      BY <2>4, <3>2 DEF Shown, Kept
    <3>4. Shown(t)
      BY <3>2, <3>3 DEF Shown
    <3>5. FewAsks(<<>>)
      BY <2>2 DEF Fits
    <3>6. \A o \in wsOpens : o.seq # t.seq
      BY <2>3 DEF Awaits
    <3> QED BY <2>3, <2>4, <3>4, <3>5, <3>6 DEF Fits
  <2> QED BY <2>3, <2>4, <2>5
<1>7. TabFits'
  BY <1>1, <1>2, <1>3, <1>5, <1>6, MoveFits
<1>8. /\ TabTypes' /\ TextOf(tab') /\ Requests(tab', wsOpens')
      /\ tab'.page \in InsidePages /\ (t.dirty => tab'.dirty)
  BY <1>1, <1>2, <1>3, <1>5, MoveKeeps
<1>9. wsCount' \in WsCounts
  BY <1>3, CountsHold, CountKept
<1>10. tab.dirty => tab'.dirty
  BY <1>8 DEF Kept
<1> QED BY <1>3, <1>7, <1>8, <1>9, <1>10, MoveFrame

LEMMA GoBackKeeps ==
  ASSUME WsIInv, GoBack
  PROVE  WsIInv' /\ (tab.dirty => tab'.dirty)
<1> DEFINE t == [tab EXCEPT !.url = Last(tab.past), !.past = Front(tab.past),
                            !.ahead = <<tab.url>> \o tab.ahead]
<1>1. tab \in WsTab
  BY DEF WsIInv, TabTypes
<1>2. /\ tab.past \in Seq(Routes) /\ tab.past # <<>>
      /\ tab.ahead \in Seq(Routes) /\ tab.url \in Routes
  BY <1>1, TabTyped DEF GoBack
<1>3. Last(tab.past) \in Routes /\ Front(tab.past) \in Seq(Routes)
  <2>1. Len(tab.past) \in Nat \ {0}
    BY <1>2, LenProperties, EmptySeq
  <2>2. Last(tab.past) \in Routes
    BY <1>2, <2>1, ElementOfSeq DEF Last
  <2>3. Front(tab.past) \in Seq(Routes)
    BY <1>2, <2>1 DEF Front
  <2> QED BY <2>2, <2>3
<1>4. <<tab.url>> \o tab.ahead \in Seq(Routes)
  BY <1>2
<1>5. t \in WsTab /\ t.page = tab.page /\ Kept(t, tab)
  BY <1>1, <1>3, <1>4 DEF WsTab, Kept
<1>6. Travel(t)
  BY DEF GoBack
<1> HIDE DEF t
<1> QED BY <1>5, <1>6, TravelKeeps

LEMMA GoForwardKeeps ==
  ASSUME WsIInv, GoForward
  PROVE  WsIInv' /\ (tab.dirty => tab'.dirty)
<1> DEFINE t == [tab EXCEPT !.url = Head(tab.ahead), !.ahead = Tail(tab.ahead),
                            !.past = Append(tab.past, tab.url)]
<1>1. tab \in WsTab
  BY DEF WsIInv, TabTypes
<1>2. /\ tab.past \in Seq(Routes) /\ tab.ahead # <<>>
      /\ tab.ahead \in Seq(Routes) /\ tab.url \in Routes
  BY <1>1, TabTyped DEF GoForward
<1>3. Head(tab.ahead) \in Routes /\ Tail(tab.ahead) \in Seq(Routes)
  BY <1>2, HeadTailProperties
<1>4. Append(tab.past, tab.url) \in Seq(Routes)
  BY <1>2
<1>5. t \in WsTab /\ t.page = tab.page /\ Kept(t, tab)
  BY <1>1, <1>3, <1>4 DEF WsTab, Kept
<1>6. Travel(t)
  BY DEF GoForward
<1> HIDE DEF t
<1> QED BY <1>5, <1>6, TravelKeeps

(* ------------------------- typing and answering ------------------------- *)

(* The tab with its text unsaved, or given up.                             *)
LEMMA DirtyEffect ==
  ASSUME NEW t \in WsTab, NEW d \in BOOLEAN
  PROVE  LET u == [t EXCEPT !.dirty = d]
         IN /\ u \in WsTab /\ (u.dirty <=> d)
            /\ u.page = t.page /\ u.url = t.url /\ u.open = t.open
            /\ u.svc = t.svc /\ u.seq = t.seq /\ u.list = t.list
            /\ u.dashboard = t.dashboard /\ u.locked = t.locked
<1> DEFINE u == [t EXCEPT !.dirty = d]
<1>1. u \in WsTab
  BY DEF WsTab
<1>2. u.dirty <=> d
  BY DEF WsTab
<1>3. /\ u.page = t.page /\ u.url = t.url /\ u.open = t.open
      /\ u.svc = t.svc /\ u.seq = t.seq /\ u.list = t.list
      /\ u.dashboard = t.dashboard /\ u.locked = t.locked
  BY DEF WsTab
<1> QED BY <1>1, <1>2, <1>3

LEMMA TypeKeeps ==
  ASSUME WsIInv, Type
  PROVE  WsIInv' /\ (tab.dirty => tab'.dirty)
<1>1. TRUE \in BOOLEAN /\ tab \in WsTab
  BY DEF WsIInv, TabTypes
<1>2. /\ tab' = [tab EXCEPT !.dirty = TRUE]
      /\ tab.page = "term" /\ tab.open # "" /\ ~Opening
      /\ UNCHANGED <<wsServer, wsStore, wsOpens, wsAsks, wsForm, wsDetails,
                     wsSubmit, wsCount, wsOverlap>>
  BY DEF Type
<1>3. /\ ~tab.locked /\ wsAsks = <<>>
  BY ReachableInside DEF Type
<1>4. /\ tab' \in WsTab /\ (tab'.dirty <=> TRUE)
      /\ tab'.page = tab.page /\ tab'.url = tab.url /\ tab'.open = tab.open
      /\ tab'.svc = tab.svc /\ tab'.seq = tab.seq /\ tab'.locked = tab.locked
  BY <1>1, <1>2, DirtyEffect, Zenon
<1>5. TabTypes' /\ TextOf(tab') /\ Requests(tab', wsOpens')
      /\ tab'.page \in InsidePages
  BY <1>2, <1>3, <1>4 DEF WsIInv, TabTypes, TextOf, Requests, InsidePages
<1>6. TabFits'
  <2> SUFFICES ASSUME ~wsOverlap
               PROVE  Fits(tab', wsAsks, wsOpens)
    BY <1>2 DEF TabFits
  <2>1. Fits(tab, wsAsks, wsOpens)
    BY <1>2, <1>3 DEF WsIInv, TabFits, InsidePages
  <2>2. ~Awaits(tab', wsOpens) /\ ~Awaits(tab, wsOpens)
    BY <1>2, <1>4 DEF Opening, Awaits
  <2>3. Shown(tab) => Shown(tab')
    BY <1>4 DEF Shown
  <2> QED BY <1>3, <1>4, <2>1, <2>2, <2>3 DEF Fits
<1>7. wsCount' \in WsCounts
  BY <1>2, CountsHold
<1>8. tab'.dirty
  BY <1>4
<1> QED BY <1>2, <1>5, <1>6, <1>7, <1>8, MoveFrame

LEMMA AnswerKeeps ==
  ASSUME WsIInv, Answer
  PROVE  WsIInv'
<1> DEFINE w == Head(wsAsks)
           u == [tab EXCEPT !.dirty = FALSE]
<1>1. /\ wsAsks # <<>> /\ wsAsks' = Tail(wsAsks)
      /\ UNCHANGED <<wsServer, wsStore, wsForm, wsDetails, wsSubmit, wsCount,
                     wsOverlap>>
      /\ \/ tab' = Left(u, w) /\ wsOpens' = wsOpens \cup Requested(tab, w)
         \/ tab' = Stayed(tab, w) /\ wsOpens' = wsOpens
  BY DEF Answer
<1>2. /\ tab \in WsTab /\ wsAsks \in Seq(Wanted) /\ wsOpens \in SUBSET WsRequests
      /\ Requests(tab, wsOpens) /\ TextOf(tab) /\ wsOverlap \in BOOLEAN
  BY DEF WsIInv, TabTypes
<1>3. tab.page \in InsidePages
  BY <1>1 DEF WsIInv, OutsideEmpty
<1>4. /\ w \in Wanted /\ w = wsAsks[1] /\ Tail(wsAsks) \in Seq(Wanted)
      /\ FewAsks(wsAsks) =>
           /\ FewAsks(Tail(wsAsks))
           /\ Tail(wsAsks) # <<>> => w.do = "leave" /\ Tail(wsAsks)[1].do = "leave"
  BY <1>1, <1>2, AnswerSeq
<1>5. FALSE \in BOOLEAN
  OBVIOUS
<1>6. /\ u \in WsTab /\ (u.dirty <=> FALSE)
      /\ u.page = tab.page /\ u.url = tab.url /\ u.open = tab.open
      /\ u.svc = tab.svc /\ u.seq = tab.seq /\ u.locked = tab.locked
  BY <1>2, <1>5, DirtyEffect, Zenon
<1> HIDE DEF w, u
<1>7. Requested(tab, w) = Requested(u, w)
  BY <1>6 DEF Requested
<1>8. ASSUME ~wsOverlap, ~tab.locked
      PROVE  Fits(tab, wsAsks, wsOpens)
  BY <1>3, <1>8 DEF WsIInv, TabFits
<1>9. CASE tab' = Left(u, w) /\ wsOpens' = wsOpens \cup Requested(tab, w)
  <2>0. Requests(u, wsOpens) /\ ~u.dirty
    BY <1>2, <1>6 DEF Requests
  <2>1. wsOpens' \in SUBSET WsRequests
    BY <1>2, <1>6, <1>7, <1>9, <1>4, <2>0, RequestedFacts
  <2>2. /\ tab' \in WsTab /\ TextOf(tab') /\ Requests(tab', wsOpens')
        /\ tab'.page \in InsidePages /\ tab'.locked = tab.locked
    BY <1>2, <1>4, <1>6, <1>7, <1>9, <2>0, LeftKeeps
  <2>3. TabTypes'
    BY <1>1, <1>2, <1>4, <2>1, <2>2 DEF TabTypes
  <2>4. TabFits'
    <3> SUFFICES ASSUME ~wsOverlap, ~tab.locked
                 PROVE  Fits(tab', wsAsks', wsOpens')
      BY <1>1, <2>2 DEF TabFits
    <3>1. /\ tab.svc = tab.open /\ FewAsks(wsAsks)
          /\ wsAsks[1].do = "stay" => tab.url = ""
      BY <1>1, <1>8 DEF Fits
    <3>2. /\ u.svc = u.open /\ (w.do = "stay" => u.url = "")
          /\ FewAsks(Tail(wsAsks))
          /\ Tail(wsAsks) # <<>> => w.do = "leave" /\ Tail(wsAsks)[1].do = "leave"
      BY <1>4, <1>6, <3>1
    <3>3. Fits(Left(u, w), Tail(wsAsks), wsOpens \cup Requested(u, w))
      BY <1>2, <1>4, <1>6, <2>0, <3>2, LeftFits
    <3> QED BY <1>1, <1>7, <1>9, <3>3
  <2>5. wsCount' \in WsCounts
    BY <1>1, CountsHold
  <2> QED BY <1>1, <2>2, <2>3, <2>4, <2>5, MoveFrame
<1>10. CASE tab' = Stayed(tab, w) /\ wsOpens' = wsOpens
  <2>1. /\ tab' \in WsTab /\ tab'.url = tab.open /\ tab'.page = tab.page
        /\ tab'.open = tab.open /\ tab'.svc = tab.svc /\ tab'.seq = tab.seq
        /\ tab'.dirty = tab.dirty /\ tab'.locked = tab.locked
    BY <1>2, <1>4, <1>10, StayedEffect DEF Kept
  <2>2. TextOf(tab') /\ Requests(tab', wsOpens') /\ tab'.page \in InsidePages
    BY <1>2, <1>3, <1>10, <2>1 DEF TextOf, Requests
  <2>3. TabTypes'
    BY <1>1, <1>2, <1>4, <1>10, <2>1 DEF TabTypes
  <2>4. TabFits'
    <3> SUFFICES ASSUME ~wsOverlap, ~tab.locked
                 PROVE  Fits(tab', wsAsks', wsOpens')
      BY <1>1, <2>1 DEF TabFits
    <3>1. /\ tab.svc = tab.open /\ FewAsks(wsAsks)
          /\ \A o \in wsOpens : o.seq # tab.seq
          /\ tab.page = IF tab.open = "" THEN "list" ELSE "term"
      BY <1>1, <1>8 DEF Fits
    <3>2. /\ ~Awaits(tab', wsOpens) /\ \A o \in wsOpens : o.seq # tab'.seq
      BY <2>1, <3>1 DEF Awaits
    <3>3. Shown(tab')
      BY <2>1, <3>1 DEF Shown
    <3>4. /\ tab'.svc = tab'.open
          /\ tab'.page = IF tab'.open = "" THEN "list" ELSE "term"
      BY <2>1, <3>1
    <3>5. /\ FewAsks(Tail(wsAsks))
          /\ Tail(wsAsks) # <<>> => Tail(wsAsks)[1].do # "stay"
      BY <1>4, <3>1
    <3>6. Fits(tab', Tail(wsAsks), wsOpens)
      BY <3>2, <3>3, <3>4, <3>5 DEF Fits
    <3> QED BY <1>1, <1>10, <3>6
  <2>5. wsCount' \in WsCounts
    BY <1>1, CountsHold
  <2> QED BY <1>1, <2>2, <2>3, <2>4, <2>5, MoveFrame
<1> QED BY <1>1, <1>9, <1>10

LEMMA BoundEffect ==
  ASSUME NEW t \in WsTab, NEW n \in WsNames
  PROVE  LET u == [t EXCEPT !.open = n, !.svc = n]
         IN /\ u \in WsTab /\ u.open = n /\ u.svc = n
            /\ u.page = t.page /\ u.url = t.url /\ u.seq = t.seq
            /\ u.dirty = t.dirty /\ u.locked = t.locked
BY WsNameFacts DEF WsTab

LEMMA OpenAnsweredKeeps ==
  ASSUME WsIInv, NEW o \in wsOpens, OpenAnswered(o)
  PROVE  WsIInv' /\ (tab.dirty => tab'.dirty)
<1>1. /\ tab' = IF o.seq = tab.seq
                THEN [tab EXCEPT !.open = o.name, !.svc = o.name] ELSE tab
      /\ wsOpens' = wsOpens \ {o}
      /\ UNCHANGED <<wsServer, wsStore, wsAsks, wsForm, wsDetails, wsSubmit,
                     wsCount, wsOverlap>>
  BY DEF OpenAnswered
<1>2. /\ tab \in WsTab /\ wsAsks \in Seq(Wanted) /\ wsOpens \in SUBSET WsRequests
      /\ Requests(tab, wsOpens) /\ TextOf(tab) /\ wsOverlap \in BOOLEAN
  BY DEF WsIInv, TabTypes
<1>3. o \in WsRequests /\ o.name \in WsNames /\ o.name # ""
  BY <1>2, WsRequestFacts, WsNameFacts
<1>4. tab.page \in InsidePages
  BY DEF WsIInv, OutsideEmpty
<1>5. /\ tab' \in WsTab /\ tab'.page = tab.page /\ tab'.url = tab.url
      /\ tab'.seq = tab.seq /\ tab'.dirty = tab.dirty /\ tab'.locked = tab.locked
      /\ o.seq = tab.seq => tab'.open = o.name /\ tab'.svc = o.name
      /\ o.seq # tab.seq => tab' = tab
  <2>1. CASE o.seq = tab.seq
    <3>1. tab' = [tab EXCEPT !.open = o.name, !.svc = o.name]
      BY <1>1, <2>1
    <3> QED BY <1>2, <1>3, <2>1, <3>1, BoundEffect
  <2>2. CASE o.seq # tab.seq
    BY <1>1, <1>2, <2>2
  <2> QED BY <2>1, <2>2
<1>6. TextOf(tab')
  BY <1>2, <1>3, <1>5 DEF TextOf
<1>7. Requests(tab', wsOpens')
  BY <1>1, <1>2, <1>5 DEF Requests
<1>8. TabTypes'
  BY <1>1, <1>2, <1>5 DEF TabTypes
<1>9. TabFits'
  <2> SUFFICES ASSUME ~wsOverlap, ~tab.locked
               PROVE  Fits(tab', wsAsks, wsOpens \ {o})
    BY <1>1, <1>5 DEF TabFits
  <2>1. Fits(tab, wsAsks, wsOpens)
    BY <1>4 DEF WsIInv, TabFits
  <2>2. CASE o.seq = tab.seq
    <3>1. /\ tab.page = "term" /\ tab.url = o.name /\ wsAsks = <<>>
          /\ Awaits(tab, wsOpens)
          /\ \A p \in wsOpens : p.seq = tab.seq => tab.url = p.name
      BY <2>1, <2>2 DEF Fits, Awaits
    <3>2. ~tab.dirty /\ FewAsks(wsAsks)
      BY <2>1, <3>1 DEF Fits
    <3>3. Shown(tab')
      BY <1>3, <1>5, <2>2, <3>1 DEF Shown
    <3>4. tab'.svc = tab'.open /\ ~tab'.dirty /\ tab'.page = "term"
          /\ tab'.url = tab.url /\ tab'.seq = tab.seq
      BY <1>5, <2>2, <3>1, <3>2
    <3> QED BY <3>1, <3>2, <3>3, <3>4 DEF Fits
  <2>3. CASE o.seq # tab.seq
    <3>1. Awaits(tab, wsOpens \ {o}) <=> Awaits(tab, wsOpens)
      BY <2>3 DEF Awaits
    <3>2. tab' = tab
      BY <1>5, <2>3
    <3>3. Fits(tab, wsAsks, wsOpens \ {o})
      BY <2>1, <3>1 DEF Fits
    <3> QED BY <3>2, <3>3
  <2> QED BY <2>2, <2>3
<1>10. wsCount' \in WsCounts
  BY <1>1, CountsHold
<1>11. tab'.page \in InsidePages /\ (tab.dirty => tab'.dirty)
  BY <1>4, <1>5
<1> QED BY <1>1, <1>6, <1>7, <1>8, <1>9, <1>10, <1>11, MoveFrame

(* --------------------------- the instance form -------------------------- *)

(* What the form and its submit do leaves the tab as it is.                *)
LEMMA StillFrame ==
  ASSUME WsIInv, UNCHANGED <<tab, wsOpens, wsAsks, wsOverlap>>,
         tab.page \in InsidePages, FormTypes', RestTypes', FormNamed'
  PROVE  WsIInv' /\ (tab.dirty => tab'.dirty)
<1>1. TabTypes' /\ TextOf(tab') /\ Requests(tab', wsOpens') /\ TabFits'
  BY DEF WsIInv, TabTypes, TextOf, Requests, TabFits
<1>2. OutsideEmpty'
  BY DEF OutsideEmpty
<1> QED BY <1>1, <1>2 DEF WsIInv

LEMMA FormFacts ==
  /\ \A mode \in {"closed", "create", "edit"}, name \in MaybeName,
        busy \in BOOLEAN, seq \in Nat :
       LET f == [mode |-> mode, name |-> name, loading |-> busy, seq |-> seq]
       IN f \in WsFormState /\ f.mode = mode /\ f.name = name
  /\ \A f \in WsFormState :
       /\ f.mode \in {"closed", "create", "edit"} /\ f.name \in MaybeName
       /\ f.loading \in BOOLEAN /\ f.seq \in Nat
       /\ [f EXCEPT !.mode = "closed"] \in WsFormState
       /\ [f EXCEPT !.mode = "closed"].mode = "closed"
<1>1. ASSUME NEW mode \in {"closed", "create", "edit"}, NEW name \in MaybeName,
             NEW busy \in BOOLEAN, NEW seq \in Nat
      PROVE  [mode |-> mode, name |-> name, loading |-> busy, seq |-> seq]
               \in WsFormState
  BY DEF WsFormState
<1>2. ASSUME NEW f \in WsFormState
      PROVE  /\ f.mode \in {"closed", "create", "edit"} /\ f.name \in MaybeName
             /\ f.loading \in BOOLEAN /\ f.seq \in Nat
             /\ [f EXCEPT !.mode = "closed"] \in WsFormState
             /\ [f EXCEPT !.mode = "closed"].mode = "closed"
  BY DEF WsFormState
<1> QED BY <1>1, <1>2

LEMMA FormFilled ==
  ASSUME NEW f \in WsFormState, NEW n \in WsNames
  PROVE  \A busy \in BOOLEAN :
           /\ [f EXCEPT !.mode = "edit", !.name = n, !.loading = busy] \in WsFormState
           /\ [f EXCEPT !.mode = "edit", !.name = n, !.loading = busy].mode = "edit"
           /\ [f EXCEPT !.mode = "edit", !.name = n, !.loading = busy].name = n
BY WsNameFacts DEF WsFormState

LEMMA FormTyped ==
  ASSUME WsIInv
  PROVE  wsForm \in WsFormState /\ wsForm.seq + 1 \in Nat
<1>1. wsForm \in WsFormState
  BY DEF WsIInv, FormTypes
<1>2. wsForm.seq \in Nat
  BY <1>1 DEF WsFormState
<1> QED BY <1>1, <1>2

LEMMA OpenCreateInstanceModalKeeps ==
  ASSUME WsIInv, OpenCreateInstanceModal
  PROVE  WsIInv' /\ (tab.dirty => tab'.dirty)
<1>1. /\ wsForm' = [mode |-> "create", name |-> "", loading |-> FALSE,
                    seq |-> wsForm.seq + 1]
      /\ tab.page \in InsidePages /\ WsCounted("forms", WsForms)
      /\ UNCHANGED <<wsServer, wsStore, tab, wsOpens, wsAsks, wsDetails,
                     wsSubmit, wsOverlap>>
  BY ReachableInside DEF OpenCreateInstanceModal
<1>2. wsForm.seq + 1 \in Nat /\ FALSE \in BOOLEAN /\ "" \in MaybeName
  BY FormTyped, WsNameFacts
<1>3. wsForm' \in WsFormState /\ wsForm'.mode = "create"
  BY <1>1, <1>2, FormFacts, Zenon
<1>4. FormTypes' /\ FormNamed'
  BY <1>1, <1>3 DEF WsIInv, FormTypes, FormNamed
<1>5. RestTypes'
  BY <1>1, CountsHold, CountKept DEF WsIInv, RestTypes
<1> QED BY <1>1, <1>4, <1>5, StillFrame

LEMMA OpenEditInstanceModalKeeps ==
  ASSUME WsIInv, OpenEditInstanceModal
  PROVE  WsIInv' /\ (tab.dirty => tab'.dirty)
<1> DEFINE d == [name |-> tab.svc, seq |-> wsForm.seq + 1]
<1>1. /\ wsForm' = [mode |-> "edit", name |-> tab.svc, loading |-> TRUE,
                    seq |-> wsForm.seq + 1]
      /\ wsDetails' = wsDetails \cup {d}
      /\ tab.page \in InsidePages /\ tab.svc # ""
      /\ WsCounted("forms", WsForms)
      /\ UNCHANGED <<wsServer, wsStore, tab, wsOpens, wsAsks, wsSubmit, wsOverlap>>
  BY ReachableInside DEF OpenEditInstanceModal
<1>2. tab \in WsTab /\ wsForm \in WsFormState /\ wsDetails \in SUBSET WsRequests
  BY DEF WsIInv, TabTypes, FormTypes
<1>3. tab.svc \in MaybeName /\ tab.svc \in WsNames
  BY <1>1, <1>2, TabTyped DEF MaybeName
<1>4. wsForm.seq + 1 \in Nat /\ TRUE \in BOOLEAN
  BY FormTyped
<1>5. wsForm' \in WsFormState /\ wsForm'.mode = "edit" /\ wsForm'.name = tab.svc
  BY <1>1, <1>3, <1>4, FormFacts, Zenon
<1>6. d \in WsRequests
  BY <1>3, <1>4, WsRequestFacts
<1>7. FormTypes' /\ FormNamed'
  BY <1>1, <1>2, <1>5, <1>6 DEF WsIInv, FormTypes, FormNamed
<1>8. RestTypes'
  BY <1>1, CountsHold, CountKept DEF WsIInv, RestTypes
<1> QED BY <1>1, <1>7, <1>8, StillFrame

LEMMA DetailAnsweredKeeps ==
  ASSUME WsIInv, NEW d \in wsDetails, DetailAnswered(d)
  PROVE  WsIInv' /\ (tab.dirty => tab'.dirty)
<1>1. /\ \/ wsForm' = [wsForm EXCEPT !.mode = "edit", !.name = d.name,
                                     !.loading = FALSE]
         \/ wsForm' = wsForm
      /\ wsDetails' = wsDetails \ {d}
      /\ UNCHANGED <<wsServer, wsStore, tab, wsOpens, wsAsks, wsSubmit,
                     wsCount, wsOverlap>>
  BY DEF DetailAnswered
<1>2. wsForm \in WsFormState /\ wsDetails \in SUBSET WsRequests
  BY DEF WsIInv, FormTypes
<1>3. d.name \in WsNames /\ d.name # "" /\ FALSE \in BOOLEAN
  BY <1>2, WsRequestFacts, WsNameFacts
<1> DEFINE filled == [wsForm EXCEPT !.mode = "edit", !.name = d.name,
                                    !.loading = FALSE]
<1>10. \A busy \in BOOLEAN :
         /\ [wsForm EXCEPT !.mode = "edit", !.name = d.name, !.loading = busy]
              \in WsFormState
         /\ [wsForm EXCEPT !.mode = "edit", !.name = d.name, !.loading = busy].mode
              = "edit"
         /\ [wsForm EXCEPT !.mode = "edit", !.name = d.name, !.loading = busy].name
              = d.name
  BY <1>2, <1>3, FormFilled
<1>8. filled \in WsFormState /\ filled.mode = "edit" /\ filled.name = d.name
  BY <1>3, <1>10, Zenon
<1>9. wsForm' = filled \/ wsForm' = wsForm
  BY <1>1
<1> HIDE DEF filled
<1>4. \/ wsForm' \in WsFormState /\ wsForm'.mode = "edit" /\ wsForm'.name = d.name
      \/ wsForm' = wsForm
  BY <1>8, <1>9
<1>5. FormTypes' /\ FormNamed'
  BY <1>1, <1>2, <1>3, <1>4 DEF WsIInv, FormTypes, FormNamed
<1>6. RestTypes'
  BY <1>1 DEF WsIInv, RestTypes
<1>7. tab.page \in InsidePages
  BY DEF WsIInv, OutsideEmpty
<1> QED BY <1>1, <1>5, <1>6, <1>7, StillFrame

LEMMA CloseInstanceModalKeeps ==
  ASSUME WsIInv, CloseInstanceModal
  PROVE  WsIInv' /\ (tab.dirty => tab'.dirty)
<1>1. /\ wsForm.mode # "closed"
      /\ wsForm' = [wsForm EXCEPT !.mode = "closed"]
      /\ UNCHANGED <<wsServer, wsStore, tab, wsOpens, wsAsks, wsDetails,
                     wsSubmit, wsCount, wsOverlap>>
  BY DEF CloseInstanceModal
<1>2. wsForm \in WsFormState
  BY DEF WsIInv, FormTypes
<1>3. wsForm' \in WsFormState /\ wsForm'.mode = "closed"
  BY <1>1, <1>2, FormFacts
<1>4. FormTypes' /\ FormNamed'
  BY <1>1, <1>3 DEF WsIInv, FormTypes, FormNamed
<1>5. RestTypes'
  BY <1>1 DEF WsIInv, RestTypes
<1>6. tab.page \in InsidePages
  BY <1>1 DEF WsIInv, OutsideEmpty
<1> QED BY <1>1, <1>4, <1>5, <1>6, StillFrame

LEMMA SubmitFacts ==
  /\ \A s \in Submits : /\ s.mode \in {"create", "edit", "delete"}
                        /\ s.name \in MaybeName /\ s.new \in MaybeName
                        /\ s # NoSubmit
  /\ \A s \in Submits, told \in {"done", "failed"} :
       LET u == [s EXCEPT !.told = told]
       IN u \in Submits /\ u.mode = s.mode /\ u.name = s.name /\ u.new = s.new
  /\ NoSubmit.mode = "none" /\ NoSubmit.told = ""
<1>1. NoSubmit.mode = "none" /\ NoSubmit.told = ""
  BY DEF NoSubmit
<1>2. ASSUME NEW s \in Submits
      PROVE  /\ s.mode \in {"create", "edit", "delete"}
             /\ s.name \in MaybeName /\ s.new \in MaybeName
  BY DEF Submits
<1>3. ASSUME NEW s \in Submits
      PROVE  s # NoSubmit
  BY <1>1, <1>2
<1>4. ASSUME NEW s \in Submits, NEW told \in {"done", "failed"}
      PROVE  LET u == [s EXCEPT !.told = told]
             IN u \in Submits /\ u.mode = s.mode /\ u.name = s.name /\ u.new = s.new
  BY DEF Submits
<1> QED BY <1>1, <1>2, <1>3, <1>4

LEMMA SubmitInside ==
  ASSUME WsIInv, wsSubmit.told # ""
  PROVE  wsSubmit \in Submits /\ tab.page \in InsidePages
BY SubmitFacts DEF WsIInv, FormTypes, OutsideEmpty

LEMMA HandleInstanceModalSubmitKeeps ==
  ASSUME WsIInv, HandleInstanceModalSubmit
  PROVE  WsIInv' /\ (tab.dirty => tab'.dirty)
<1>1. /\ wsForm.mode # "closed"
      /\ UNCHANGED <<wsServer, wsStore, tab, wsOpens, wsAsks, wsForm,
                     wsDetails, wsCount, wsOverlap>>
  BY DEF HandleInstanceModalSubmit
<1>2. /\ wsForm.mode \in {"closed", "create", "edit"} /\ wsForm.name \in MaybeName
      /\ wsForm.mode = "edit" => wsForm.name # ""
  BY FormFacts DEF WsIInv, FormTypes, FormNamed
<1>3. CASE wsForm.mode = "create"
  <2>1. wsSubmit' \in [mode : {"create"}, name : {""}, new : WsNames,
                       told : {"sent"}]
    BY <1>3 DEF HandleInstanceModalSubmit
  <2>2. /\ wsSubmit' \in Submits /\ wsSubmit'.mode = "create"
        /\ wsSubmit'.new # ""
    BY <2>1, WsNameFacts DEF Submits
  <2>3. FormTypes' /\ FormNamed'
    BY <1>1, <2>2 DEF WsIInv, FormTypes, FormNamed
  <2>4. RestTypes' /\ tab.page \in InsidePages
    BY <1>1 DEF WsIInv, RestTypes, OutsideEmpty
  <2> QED BY <1>1, <2>3, <2>4, StillFrame
<1>4. CASE wsForm.mode = "edit"
  <2>1. \/ wsSubmit' \in [mode : {"edit"}, name : {wsForm.name}, new : WsNames,
                          told : {"sent"}]
        \/ wsSubmit' \in [mode : {"delete"}, name : {wsForm.name}, new : {""},
                          told : {"sent"}]
    BY <1>4 DEF HandleInstanceModalSubmit
  <2>2. /\ wsSubmit' \in Submits
        /\ \/ /\ wsSubmit'.mode = "edit" /\ wsSubmit'.name # ""
              /\ wsSubmit'.new # ""
           \/ wsSubmit'.mode = "delete"
    BY <1>2, <1>4, <2>1, WsNameFacts DEF Submits
  <2>3. FormTypes' /\ FormNamed'
    BY <1>1, <2>2 DEF WsIInv, FormTypes, FormNamed
  <2>4. RestTypes' /\ tab.page \in InsidePages
    BY <1>1 DEF WsIInv, RestTypes, OutsideEmpty
  <2> QED BY <1>1, <2>3, <2>4, StillFrame
<1> QED BY <1>1, <1>2, <1>3, <1>4

LEMMA HandleApiInstanceKeeps ==
  ASSUME WsIInv, HandleApiInstance
  PROVE  WsIInv' /\ (tab.dirty => tab'.dirty)
<1>1. /\ wsSubmit.told = "sent"
      /\ \/ /\ wsServer' = (wsServer \ {wsSubmit.name})
                           \cup ({wsSubmit.new} \cap WsNames)
            /\ wsSubmit' = [wsSubmit EXCEPT !.told = "done"]
         \/ /\ wsSubmit' = [wsSubmit EXCEPT !.told = "failed"]
            /\ UNCHANGED wsServer
      /\ UNCHANGED <<wsStore, tab, wsOpens, wsAsks, wsForm, wsDetails,
                     wsCount, wsOverlap>>
  BY DEF HandleApiInstance
<1>2. wsSubmit \in Submits /\ tab.page \in InsidePages
  BY <1>1, SubmitInside
<1>3. /\ wsSubmit' \in Submits /\ wsSubmit'.mode = wsSubmit.mode
      /\ wsSubmit'.name = wsSubmit.name /\ wsSubmit'.new = wsSubmit.new
  BY <1>1, <1>2, SubmitFacts
<1>4. FormTypes' /\ FormNamed'
  BY <1>1, <1>3 DEF WsIInv, FormTypes, FormNamed
<1>5. RestTypes'
  BY <1>1 DEF WsIInv, RestTypes
<1> QED BY <1>1, <1>2, <1>4, <1>5, StillFrame

LEMMA SubmitFailedKeeps ==
  ASSUME WsIInv, SubmitFailed
  PROVE  WsIInv' /\ (tab.dirty => tab'.dirty)
<1>1. /\ wsSubmit.told # "" /\ wsSubmit' = NoSubmit
      /\ UNCHANGED <<wsServer, wsStore, tab, wsOpens, wsAsks, wsForm,
                     wsDetails, wsCount, wsOverlap>>
  BY DEF SubmitFailed
<1>2. tab.page \in InsidePages
  BY <1>1, SubmitInside
<1>3. FormTypes' /\ FormNamed'
  BY <1>1, SubmitFacts DEF WsIInv, FormTypes, FormNamed
<1>4. RestTypes'
  BY <1>1 DEF WsIInv, RestTypes
<1> QED BY <1>1, <1>2, <1>3, <1>4, StillFrame

(* ---------------------- what closes the workspace ----------------------- *)

LEMMA InsideFrame ==
  ASSUME TabTypes', FormTypes', RestTypes', TextOf(tab'),
         Requests(tab', wsOpens'), FormNamed', tab'.page \in InsidePages,
         TabFits'
  PROVE  WsIInv'
BY DEF WsIInv, OutsideEmpty

(* Home agrees with every request of an earlier session.                   *)
LEMMA HomeFits ==
  ASSUME NEW t \in WsTab, NEW u \in WsTab, GoneHome(u, t),
         NEW opens \in SUBSET WsRequests, Requests(t, opens),
         NEW asks, asks # <<>> => FewAsks(asks)
  PROVE  /\ Fits(u, asks, opens) /\ Requests(u, opens) /\ TextOf(u)
         /\ u # t /\ u.page \in InsidePages
<1>1. /\ u.page = "list" /\ u.url = "" /\ u.open = "" /\ u.svc = ""
      /\ u.dirty = FALSE /\ u.seq = t.seq + 1
  BY DEF GoneHome, ClosedIn
<1>2. t.seq \in Nat
  BY TabTyped
<1>3. \A o \in opens : o.seq \in Nat /\ o.seq <= t.seq
  BY WsRequestFacts DEF Requests
<1>4. \A o \in opens : o.seq <= t.seq + 1 /\ o.seq # t.seq + 1
  BY <1>2, <1>3, NextIsLater
<1>5. Requests(u, opens) /\ ~Awaits(u, opens)
  BY <1>1, <1>4 DEF Requests, Awaits
<1>6. \A o \in opens : o.seq # u.seq
  BY <1>1, <1>4
<1>7. FewAsks(asks)
  BY EmptySeq, FewNone
<1>8. Shown(u)
  BY <1>1 DEF Shown
<1>9. Fits(u, asks, opens)
  BY <1>1, <1>5, <1>6, <1>7, <1>8 DEF Fits
<1>10. u # t
  BY <1>1, <1>2, NextDiffers
<1>11. TextOf(u)
  BY <1>1 DEF TextOf
<1> QED BY <1>1, <1>5, <1>9, <1>10, <1>11 DEF InsidePages

(* An edit that meets nothing leaves the tab in agreement.                 *)
LEMMA EditedFits ==
  ASSUME WsIInv, Fits(tab, <<>>, wsOpens), wsSubmit.mode = "edit",
         wsSubmit.name \in WsNames, wsSubmit.new \in WsNames,
         tab.svc \in {"", wsSubmit.name},
         ~(Opening /\ Edited(tab).open # tab.open)
  PROVE  Fits(Edited(tab), <<>>, wsOpens)
<1> DEFINE t == Edited(tab)
<1>1. /\ t.page = tab.page /\ t.seq = tab.seq /\ t.dirty = tab.dirty
      /\ \/ /\ tab.open = wsSubmit.name /\ wsSubmit.new # wsSubmit.name
            /\ t.open = wsSubmit.new /\ t.url = wsSubmit.new
         \/ /\ tab.open # wsSubmit.name \/ wsSubmit.new = wsSubmit.name
            /\ t.open = tab.open /\ t.url = tab.url
      /\ t.svc = IF tab.svc = "" THEN "" ELSE wsSubmit.new
  BY EditedEffect DEF WsIInv, TabTypes
<1>2. Awaits(t, wsOpens) <=> Awaits(tab, wsOpens)
  BY <1>1 DEF Awaits
<1>3. Opening <=> Awaits(tab, wsOpens)
  BY DEF Opening, Awaits
<1>4. tab.svc = tab.open /\ FewAsks(<<>>) /\ (tab.dirty => ~Awaits(tab, wsOpens))
  BY DEF Fits
<1>5. wsSubmit.name # "" /\ wsSubmit.new # ""
  BY WsNameFacts
<1>6. ~Opening \/ t.open = tab.open
  OBVIOUS
<1> HIDE DEF t
<1>7. CASE t.open = tab.open
  <2>1. t.url = tab.url
    BY <1>1, <1>7
  <2>2. t.svc = t.open
    BY <1>1, <1>4, <1>5, <1>7
  <2>3. Shown(tab) => Shown(t)
    BY <1>1, <1>7, <2>1 DEF Shown
  <2>4. \A o \in wsOpens : o.seq = t.seq => t.page = "term" /\ t.url = o.name
    BY <1>1, <2>1 DEF Fits
  <2>5. ~Awaits(t, wsOpens) => Shown(tab)
    BY <1>2 DEF Fits
  <2>6. Fits(t, <<>>, wsOpens)
    BY <1>1, <1>2, <1>4, <2>2, <2>3, <2>4, <2>5 DEF Fits
  <2> QED BY <2>6 DEF t
<1>8. CASE t.open # tab.open
  <2>1. ~Awaits(tab, wsOpens) /\ ~Awaits(t, wsOpens)
    BY <1>2, <1>3, <1>6, <1>8
  <2>2. t.open = wsSubmit.new /\ t.url = wsSubmit.new /\ tab.open # ""
    BY <1>1, <1>5, <1>8
  <2>3. Shown(tab)
    BY <2>1 DEF Fits
  <2>4. t.page = "term"
    BY <1>1, <2>2, <2>3 DEF Shown
  <2>5. t.svc = t.open
    BY <1>1, <1>4, <2>2
  <2>6. Shown(t)
    BY <1>5, <2>2, <2>4 DEF Shown
  <2>7. \A o \in wsOpens : o.seq # t.seq
    BY <2>1 DEF Awaits
  <2>8. Fits(t, <<>>, wsOpens)
    BY <1>4, <2>1, <2>5, <2>6, <2>7 DEF Fits
  <2> QED BY <2>8 DEF t
<1> QED BY <1>7, <1>8

(* What an edit leaves for the move to the instance it names.              *)
LEMMA EditedKeeps ==
  ASSUME WsIInv, wsSubmit.mode = "edit", wsSubmit \in Submits
  PROVE  /\ wsSubmit.name \in WsNames /\ wsSubmit.new \in WsNames
         /\ Edited(tab) \in WsTab /\ Edited(tab).page = tab.page
         /\ Edited(tab).locked = tab.locked /\ Edited(tab).seq = tab.seq
         /\ Edited(tab).dirty = tab.dirty
         /\ TextOf(Edited(tab)) /\ Requests(Edited(tab), wsOpens)
<1> DEFINE t == Edited(tab)
<1>1. wsSubmit.name \in WsNames /\ wsSubmit.new \in WsNames
  BY SubmitFacts DEF WsIInv, FormNamed, MaybeName
<1>2. tab \in WsTab /\ TextOf(tab) /\ Requests(tab, wsOpens)
  BY DEF WsIInv, TabTypes
<1>3. /\ t \in WsTab /\ t.page = tab.page /\ t.seq = tab.seq
      /\ t.dirty = tab.dirty /\ Stands(t, tab)
      /\ t.open = wsSubmit.new \/ t.open = tab.open
  BY <1>1, <1>2, EditedEffect
<1>4. wsSubmit.new # ""
  BY <1>1, WsNameFacts
<1> HIDE DEF t
<1>5. t.locked = tab.locked
  BY <1>3 DEF Stands
<1>6. TextOf(t)
  BY <1>2, <1>3, <1>4, <1>5 DEF TextOf
<1>7. Requests(t, wsOpens)
  BY <1>2, <1>3 DEF Requests
<1> QED BY <1>1, <1>3, <1>5, <1>6, <1>7 DEF t

(* What a successful submit does to the tab: it goes home after a          *)
(* deletion, takes the answer over, or asks to open the instance.          *)
SubmitMoved(r, t) ==
  \/ /\ wsSubmit.mode = "delete"
     /\ r.tab = SwitchPage(Route(CloseTerminalPage(t), "", FALSE), "list")
     /\ r.asks = wsAsks /\ r.opens = wsOpens
  \/ /\ wsSubmit.mode = "edit"
     /\ r.tab = t /\ r.asks = wsAsks /\ r.opens = wsOpens
  \/ /\ wsSubmit.mode # "delete"
     /\ Asked(r, t, wsAsks, wsOpens, WaitOpen(wsSubmit.new))

SubmitMeets(t) ==
  /\ wsSubmit.mode = "edit"
  /\ \/ tab.svc \notin {"", wsSubmit.name}
     \/ Opening /\ t.open # tab.open

LEMMA SubmitSucceededEffect ==
  ASSUME SubmitSucceeded
  PROVE  /\ wsSubmit.told = "done"
         /\ wsForm' = [wsForm EXCEPT !.mode = "closed"]
         /\ wsSubmit' = NoSubmit
         /\ UNCHANGED <<wsServer, wsStore, wsDetails, wsCount>>
         /\ \E r, t : /\ t = IF wsSubmit.mode = "edit" THEN Edited(tab) ELSE tab
                      /\ SubmitMoved(r, t)
                      /\ Take(r, SubmitMeets(t))
<1> DEFINE t == IF wsSubmit.mode = "edit" THEN Edited(tab) ELSE tab
           still == [tab |-> t, asks |-> wsAsks, opens |-> wsOpens]
           home == SwitchPage(Route(CloseTerminalPage(t), "", FALSE), "list")
           deleted == [still EXCEPT !.tab = home]
           asked == Ask(t, wsAsks, wsOpens, WaitOpen(wsSubmit.new))
           r == IF wsSubmit.mode = "delete" THEN deleted
                ELSE IF wsSubmit.mode = "edit" /\ wsSubmit.new \notin t.list
                THEN still ELSE asked
<1>1. Take(r, SubmitMeets(t))
  BY Zenon DEF SubmitSucceeded, SubmitMeets
<1>2. Asked(asked, t, wsAsks, wsOpens, WaitOpen(wsSubmit.new))
  BY AskCases, Zenon
<1>3. deleted.tab = home /\ deleted.asks = wsAsks /\ deleted.opens = wsOpens
  OBVIOUS
<1>4. still.tab = t /\ still.asks = wsAsks /\ still.opens = wsOpens
  OBVIOUS
<1>5. SubmitMoved(r, t)
  <2> HIDE DEF t, home, deleted, still, asked
  <2>1. CASE wsSubmit.mode = "delete"
    <3>1. r = deleted
      BY <2>1
    <3>2. r.tab = SwitchPage(Route(CloseTerminalPage(t), "", FALSE), "list")
      BY <3>1, <1>3, Zenon DEF home
    <3>3. r.asks = wsAsks /\ r.opens = wsOpens
      BY <3>1, <1>3, Zenon
    <3> QED BY <2>1, <3>2, <3>3, Zenon DEF SubmitMoved
  <2>2. CASE wsSubmit.mode = "edit" /\ wsSubmit.new \notin t.list
    <3>1. r = still
      BY <2>2
    <3> QED BY <1>4, <2>2, <3>1 DEF SubmitMoved
  <2>3. CASE wsSubmit.mode # "delete"
             /\ ~(wsSubmit.mode = "edit" /\ wsSubmit.new \notin t.list)
    <3>1. r = asked
      BY <2>3
    <3> QED BY <1>2, <2>3, <3>1 DEF SubmitMoved
  <2> QED BY <2>1, <2>2, <2>3
<1>6. /\ wsSubmit.told = "done"
      /\ wsForm' = [wsForm EXCEPT !.mode = "closed"]
      /\ wsSubmit' = NoSubmit
      /\ UNCHANGED <<wsServer, wsStore, wsDetails, wsCount>>
  BY DEF SubmitSucceeded
<1>7. t = IF wsSubmit.mode = "edit" THEN Edited(tab) ELSE tab
  OBVIOUS
<1> HIDE DEF r, t
<1> QED BY <1>1, <1>5, <1>6, <1>7

LEMMA SubmitSucceededKeeps ==
  ASSUME WsIInv, SubmitSucceeded
  PROVE  WsIInv' /\ (tab.dirty => tab'.dirty \/ wsSubmit.mode = "delete")
<1>1. PICK r, t : /\ t = IF wsSubmit.mode = "edit" THEN Edited(tab) ELSE tab
                  /\ SubmitMoved(r, t)
                  /\ Take(r, SubmitMeets(t))
  BY SubmitSucceededEffect
<1>2. /\ wsSubmit.told # ""
      /\ wsForm' = [wsForm EXCEPT !.mode = "closed"]
      /\ wsSubmit' = NoSubmit
      /\ UNCHANGED <<wsServer, wsStore, wsDetails, wsCount>>
  BY SubmitSucceededEffect
<1>3. wsSubmit \in Submits /\ tab.page \in InsidePages
  BY <1>2, SubmitInside
<1>4. FormTypes' /\ RestTypes' /\ FormNamed'
  <2>1. wsForm' \in WsFormState /\ wsForm'.mode = "closed"
    BY <1>2, FormFacts DEF WsIInv, FormTypes
  <2> QED BY <1>2, <2>1, SubmitFacts DEF WsIInv, FormTypes, RestTypes, FormNamed
<1>5. /\ TabTypes /\ tab \in WsTab /\ wsOpens \in SUBSET WsRequests
      /\ wsAsks \in Seq(Wanted) /\ TextOf(tab) /\ Requests(tab, wsOpens)
      /\ wsOverlap \in BOOLEAN
  BY DEF WsIInv, TabTypes
<1>6. /\ t \in WsTab /\ t.page = tab.page /\ t.locked = tab.locked
      /\ t.seq = tab.seq /\ t.dirty = tab.dirty
      /\ TextOf(t) /\ Requests(t, wsOpens)
      /\ wsSubmit.mode = "edit" =>
           wsSubmit.name \in WsNames /\ wsSubmit.new \in WsNames
  BY <1>1, <1>3, <1>5, EditedKeeps
<1>7. /\ tab' = r.tab /\ wsAsks' = r.asks /\ wsOpens' = r.opens
      /\ wsOverlap' \in BOOLEAN
      /\ ~wsOverlap' => ~wsOverlap /\ ~SubmitMeets(t) /\ ~Met(r)
  BY <1>1 DEF Take
<1>8. ASSUME ~wsOverlap', ~tab.locked, wsAsks = <<>>
      PROVE  Fits(t, <<>>, wsOpens)
  <2>1. Fits(tab, <<>>, wsOpens)
    BY <1>3, <1>7, <1>8 DEF WsIInv, TabFits
  <2>2. CASE wsSubmit.mode = "edit"
    <3>1. t = Edited(tab)
      BY <1>1, <2>2
    <3>2. /\ tab.svc \in {"", wsSubmit.name}
          /\ ~(Opening /\ Edited(tab).open # tab.open)
      BY <1>7, <1>8, <2>2, <3>1 DEF SubmitMeets
    <3> QED BY <1>6, <2>1, <2>2, <3>1, <3>2, EditedFits
  <2>3. CASE wsSubmit.mode # "edit"
    BY <1>1, <2>1, <2>3
  <2> QED BY <2>2, <2>3
<1>9. CASE /\ wsSubmit.mode = "delete"
           /\ r.tab = SwitchPage(Route(CloseTerminalPage(t), "", FALSE), "list")
           /\ r.asks = wsAsks /\ r.opens = wsOpens
  <2>1. FALSE \in BOOLEAN
    OBVIOUS
  <2>2. r.tab \in WsTab /\ GoneHome(r.tab, t)
    BY <1>6, <1>9, <2>1, HomeEffect, Zenon
  <2>3. /\ Fits(r.tab, <<>>, wsOpens) /\ Requests(r.tab, wsOpens)
        /\ TextOf(r.tab) /\ r.tab.page \in InsidePages
    BY <1>5, <1>6, <2>2, HomeFits
  <2>4. r.tab # tab
    <3>1. r.tab.seq = t.seq + 1
      BY <2>2 DEF GoneHome, ClosedIn
    <3>2. t.seq \in Nat
      BY <1>6, TabTyped
    <3> QED BY <1>6, <3>1, <3>2, NextDiffers
  <2>5. TabTypes'
    BY <1>5, <1>7, <1>9, <2>2 DEF TabTypes
  <2>6. TabFits'
    <3> SUFFICES ASSUME ~wsOverlap'
                 PROVE  Fits(r.tab, wsAsks, wsOpens)
      BY <1>7, <1>9 DEF TabFits
    <3>1. wsAsks = <<>>
      BY <1>7, <2>4 DEF Met
    <3> QED BY <2>3, <3>1
  <2>7. Requests(tab', wsOpens') /\ TextOf(tab') /\ tab'.page \in InsidePages
    BY <1>7, <1>9, <2>3
  <2> QED BY <1>4, <1>9, <2>5, <2>6, <2>7, InsideFrame
<1>10. CASE wsSubmit.mode = "edit" /\ r.tab = t /\ r.asks = wsAsks /\ r.opens = wsOpens
  <2>1. TabTypes'
    BY <1>5, <1>6, <1>7, <1>10 DEF TabTypes
  <2>2. TabFits'
    <3> SUFFICES ASSUME ~wsOverlap', ~tab.locked
                 PROVE  Fits(t, wsAsks, wsOpens)
      BY <1>6, <1>7, <1>10 DEF TabFits
    <3>1. CASE wsAsks = <<>>
      BY <1>8, <3>1
    <3>2. CASE wsAsks # <<>>
      <4>1. t = tab
        BY <1>7, <1>10, <3>2 DEF Met
      <4> QED BY <1>3, <1>7, <4>1 DEF WsIInv, TabFits
    <3> QED BY <3>1, <3>2
  <2>3. /\ Requests(tab', wsOpens') /\ TextOf(tab') /\ tab'.page \in InsidePages
        /\ tab.dirty => tab'.dirty
    BY <1>3, <1>6, <1>7, <1>10
  <2> QED BY <1>4, <2>1, <2>2, <2>3, InsideFrame
<1>11. CASE /\ wsSubmit.mode # "delete"
            /\ Asked(r, t, wsAsks, wsOpens, WaitOpen(wsSubmit.new))
  <2>1. wsSubmit.new \in WsNames
    BY <1>3, <1>11, SubmitFacts DEF WsIInv, FormNamed, MaybeName
  <2> DEFINE w == WaitOpen(wsSubmit.new)
  <2>2. w \in Wanted /\ w.do = "open"
    BY <2>1, WaitFacts
  <2>3. Asked(r, t, wsAsks, wsOpens, w)
    BY <1>11
  <2> HIDE DEF w
  <2> DEFINE meets == SubmitMeets(t)
  <2>4. Take(r, meets)
    BY <1>1
  <2> HIDE DEF meets
  <2>5. t.page \in InsidePages
    BY <1>3, <1>6
  <2>6. /\ TabTypes' /\ TextOf(tab') /\ Requests(tab', wsOpens')
        /\ tab'.page \in InsidePages
        /\ t.dirty => tab'.dirty
    BY <1>5, <1>6, <2>2, <2>3, <2>4, <2>5, MoveKeeps
  <2>7. ASSUME ~wsOverlap', ~tab.locked, wsAsks = <<>>
        PROVE  /\ t.svc = t.open
               /\ t.dirty => ~Awaits(t, wsOpens)
               /\ w.do = "stay" => t.url = ""
               /\ Refused(t, w) => Fits(t, <<>>, wsOpens)
    <3>1. Fits(t, <<>>, wsOpens)
      BY <1>8, <2>7
    <3> QED BY <2>2, <3>1 DEF Fits
  <2>8. TabFits'
    BY <1>3, <1>6, <2>2, <2>3, <2>4, <2>7, MoveFits
  <2> QED BY <1>4, <1>6, <2>6, <2>8, InsideFrame
<1> QED BY <1>1, <1>9, <1>10, <1>11 DEF SubmitMoved

(* ---------------------- the status stream and others -------------------- *)

(* Outside the pages of a session only the page and the URL move.          *)
LEMMA OutsideFrame ==
  ASSUME WsIInv, tab.page \notin InsidePages,
         tab' \in WsTab, tab'.page \notin InsidePages, tab'.open = "",
         tab'.svc = "", ~tab'.locked, ~tab'.dirty, wsOverlap' = FALSE,
         UNCHANGED <<wsOpens, wsAsks, wsForm, wsDetails, wsSubmit>>, RestTypes'
  PROVE  WsIInv' /\ (tab.dirty => tab'.dirty)
<1>1. wsOverlap' \in BOOLEAN /\ ~wsOverlap'
  OBVIOUS
<1>2. /\ wsAsks = <<>> /\ wsOpens = {} /\ wsDetails = {}
      /\ wsForm.mode = "closed" /\ wsSubmit = NoSubmit /\ tab.open = ""
  BY DEF WsIInv, OutsideEmpty
<1>3. ~tab.dirty
  BY <1>2 DEF WsIInv, TextOf
<1>4. TabTypes' /\ FormTypes' /\ FormNamed'
  BY <1>1 DEF WsIInv, TabTypes, FormTypes, FormNamed
<1>5. TextOf(tab') /\ Requests(tab', wsOpens') /\ TabFits'
  BY <1>2 DEF TextOf, Requests, TabFits
<1>6. OutsideEmpty'
  BY <1>1, <1>2 DEF OutsideEmpty
<1> QED BY <1>3, <1>4, <1>5, <1>6 DEF WsIInv

(* What holds of the tab outside.                                          *)
LEMMA OutsideFacts ==
  ASSUME WsIInv, tab.page \notin InsidePages
  PROVE  /\ tab \in WsTab /\ tab.open = "" /\ tab.svc = "" /\ ~tab.locked
         /\ ~tab.dirty /\ ~wsOverlap /\ wsAsks = <<>> /\ wsOpens = {}
         /\ wsOverlap \in BOOLEAN
BY DEF WsIInv, OutsideEmpty, TextOf, TabTypes

(* The tab goes home, whatever waits.                                      *)
LEMMA HomeKeeps ==
  ASSUME WsIInv, tab.page \in InsidePages, NEW t \in WsTab,
         t.seq = tab.seq, tab' \in WsTab, GoneHome(tab', t),
         UNCHANGED <<wsOpens, wsAsks, wsOverlap>>
  PROVE  /\ TabTypes' /\ TextOf(tab') /\ Requests(tab', wsOpens')
         /\ tab'.page \in InsidePages /\ (tab.locked = t.locked => TabFits')
<1>1. /\ wsOpens \in SUBSET WsRequests /\ Requests(t, wsOpens) /\ TabTypes
  BY DEF WsIInv, TabTypes, Requests
<1>2. TabTypes'
  BY <1>1 DEF TabTypes
<1>3. /\ Requests(tab', wsOpens) /\ TextOf(tab') /\ tab'.page \in InsidePages
  BY <1>1, EmptySeq, FewNone, HomeFits
<1>4. ASSUME tab.locked = t.locked, ~wsOverlap, ~tab'.locked
      PROVE  Fits(tab', wsAsks, wsOpens)
  <2>1. ~tab.locked
    BY <1>4 DEF GoneHome, ClosedIn, Stands
  <2>2. FewAsks(wsAsks)
    BY <1>4, <2>1 DEF WsIInv, TabFits, Fits
  <2> QED BY <1>1, <2>2, HomeFits
<1>5. tab.locked = t.locked => TabFits'
  BY <1>4 DEF TabFits
<1> QED BY <1>2, <1>3, <1>5

LEMMA InstancesReceivedKeeps ==
  ASSUME WsIInv, InstancesReceived
  PROVE  WsIInv' /\ (tab.dirty => tab'.dirty \/ tab.open \notin wsStore')
<1>1. PICK names \in {wsServer, wsStore} :
        /\ wsStore' = names
        /\ tab' = Emitted([tab EXCEPT !.list = names])
  BY DEF InstancesReceived
<1>2. UNCHANGED <<wsServer, wsOpens, wsAsks, wsForm, wsDetails, wsSubmit,
                  wsCount, wsOverlap>>
  BY DEF InstancesReceived
<1>3. names \in SUBSET WsNames /\ tab \in WsTab /\ wsOverlap \in BOOLEAN
  BY DEF WsIInv, RestTypes, TabTypes
<1> DEFINE t == [tab EXCEPT !.list = names]
<1>4. /\ t \in WsTab /\ t.list = names /\ t.page = tab.page
      /\ t.url = tab.url /\ t.open = tab.open /\ t.svc = tab.svc
      /\ t.seq = tab.seq /\ t.dirty = tab.dirty /\ t.locked = tab.locked
  BY <1>3, ListedEffect
<1>5. tab' = Emitted(t)
  BY <1>1
<1> HIDE DEF t
<1>6. FormTypes' /\ FormNamed' /\ RestTypes'
  BY <1>1, <1>2, <1>3 DEF WsIInv, FormTypes, FormNamed, RestTypes
<1>7. tab' \in WsTab /\ tab'.locked = t.locked
  BY <1>4, <1>5, EmittedEffect DEF Stands
<1>8. CASE /\ t.open = "" \/ t.open \in t.list
           /\ tab'.page = t.page /\ tab'.url = t.url
           /\ tab'.open = t.open /\ tab'.seq = t.seq
           /\ tab'.dirty = t.dirty /\ tab'.svc \in {t.svc, t.open}
  <2>1. CASE tab.page \in InsidePages
    <3>1. TabTypes' /\ TextOf(tab') /\ Requests(tab', wsOpens')
      BY <1>2, <1>4, <1>7, <1>8 DEF WsIInv, TabTypes, TextOf, Requests
    <3>2. TabFits'
      <4> SUFFICES ASSUME ~wsOverlap, ~tab.locked
                   PROVE  Fits(tab', wsAsks, wsOpens)
        BY <1>2, <1>4, <1>7 DEF TabFits
      <4>1. Fits(tab, wsAsks, wsOpens)
        BY <2>1 DEF WsIInv, TabFits
      <4>2. tab'.svc = tab'.open
        BY <1>4, <1>8, <4>1 DEF Fits
      <4>3. Awaits(tab', wsOpens) <=> Awaits(tab, wsOpens)
        BY <1>4, <1>8 DEF Awaits
      <4>4. Shown(tab) => Shown(tab')
        BY <1>4, <1>8 DEF Shown
      <4> QED BY <1>4, <1>8, <4>1, <4>2, <4>3, <4>4 DEF Fits
    <3> QED BY <1>4, <1>6, <1>8, <2>1, <3>1, <3>2, InsideFrame
  <2>2. CASE tab.page \notin InsidePages
    <3>1. /\ tab.open = "" /\ tab.svc = "" /\ ~tab.locked /\ ~tab.dirty
          /\ ~wsOverlap
      BY <2>2, OutsideFacts
    <3>2. wsOverlap' = FALSE
      BY <1>2, <1>3, <3>1
    <3>3. tab'.open = "" /\ tab'.svc = "" /\ ~tab'.locked /\ ~tab'.dirty
          /\ tab'.page \notin InsidePages
      BY <1>4, <1>7, <1>8, <2>2, <3>1
    <3> QED BY <1>2, <1>6, <1>7, <2>2, <3>2, <3>3, OutsideFrame
  <2> QED BY <2>1, <2>2
<1>9. CASE t.open # "" /\ t.open \notin t.list /\ GoneHome(tab', t)
  <2>1. tab.page \in InsidePages
    BY <1>4, <1>9 DEF WsIInv, OutsideEmpty
  <2>2. /\ TabTypes' /\ TextOf(tab') /\ Requests(tab', wsOpens')
        /\ tab'.page \in InsidePages /\ TabFits'
    BY <1>2, <1>4, <1>7, <1>9, <2>1, HomeKeeps
  <2>3. tab.open \notin wsStore'
    BY <1>1, <1>4, <1>9
  <2> QED BY <1>6, <2>2, <2>3, InsideFrame
<1> QED BY <1>4, <1>5, <1>8, <1>9, EmittedEffect

LEMMA InstanceMissingKeeps ==
  ASSUME WsIInv, InstanceMissing
  PROVE  WsIInv' /\ tab.open \notin wsServer
<1>1. /\ tab.open # "" /\ tab.open \notin wsServer
      /\ tab' = SwitchPage(Route(CloseTerminalPage(tab), "", FALSE), "list")
      /\ UNCHANGED <<wsServer, wsStore, wsOpens, wsAsks, wsForm, wsDetails,
                     wsSubmit, wsCount, wsOverlap>>
  BY DEF InstanceMissing
<1>2. tab \in WsTab /\ FALSE \in BOOLEAN
  BY DEF WsIInv, TabTypes
<1>3. tab' \in WsTab /\ GoneHome(tab', tab)
  BY <1>1, <1>2, HomeEffect, Zenon
<1>4. tab.page \in InsidePages
  BY <1>1 DEF WsIInv, OutsideEmpty
<1>5. /\ TabTypes' /\ TextOf(tab') /\ Requests(tab', wsOpens')
      /\ tab'.page \in InsidePages /\ TabFits'
  BY <1>1, <1>2, <1>3, <1>4, HomeKeeps
<1>6. FormTypes' /\ FormNamed' /\ RestTypes'
  BY <1>1 DEF WsIInv, FormTypes, FormNamed, RestTypes
<1> QED BY <1>1, <1>5, <1>6, InsideFrame

LEMMA OtherUserKeeps ==
  ASSUME WsIInv, OtherUser
  PROVE  WsIInv' /\ (tab.dirty => tab'.dirty)
<1>1. /\ \E n \in WsNames : wsServer' = IF n \in wsServer THEN wsServer \ {n}
                                        ELSE wsServer \cup {n}
      /\ WsCounted("changes", WsChanges)
      /\ UNCHANGED <<wsStore, tab, wsOpens, wsAsks, wsForm, wsDetails,
                     wsSubmit, wsOverlap>>
  BY DEF OtherUser
<1>2. RestTypes'
  BY <1>1, CountsHold, CountKept DEF WsIInv, RestTypes
<1>3. TabTypes' /\ FormTypes' /\ FormNamed'
  BY <1>1 DEF WsIInv, TabTypes, FormTypes, FormNamed
<1>4. /\ TextOf(tab') /\ Requests(tab', wsOpens') /\ TabFits' /\ OutsideEmpty'
  BY <1>1 DEF WsIInv, TextOf, Requests, TabFits, OutsideEmpty
<1> QED BY <1>1, <1>2, <1>3, <1>4 DEF WsIInv

LEMMA DashboardEffect ==
  ASSUME NEW t \in WsTab, NEW d \in BOOLEAN
  PROVE  LET u == [t EXCEPT !.dashboard = d]
         IN /\ u \in WsTab /\ u.page = t.page /\ u.url = t.url
            /\ u.open = t.open /\ u.svc = t.svc /\ u.seq = t.seq
            /\ u.dirty = t.dirty /\ u.locked = t.locked
BY DEF WsTab

LEMMA ApplyDashboardEnabledKeeps ==
  ASSUME WsIInv, ApplyDashboardEnabled
  PROVE  WsIInv' /\ (tab.dirty => tab'.dirty)
<1> DEFINE t == [tab EXCEPT !.dashboard = ~@]
<1>1. /\ tab.page \in InsidePages
      /\ WsCounted("changes", WsChanges)
      /\ UNCHANGED <<wsServer, wsStore, wsOpens, wsAsks, wsForm, wsDetails,
                     wsSubmit, wsOverlap>>
      /\ tab' = IF t.dashboard \/ t.page = "term" THEN t
                ELSE SwitchPage(Route(CloseTerminalPage(t), "", FALSE), "list")
  BY DEF ApplyDashboardEnabled, InsidePages
<1>2. tab \in WsTab /\ (~tab.dashboard) \in BOOLEAN /\ FALSE \in BOOLEAN
  BY DEF WsIInv, TabTypes
<1>3. /\ t \in WsTab /\ t.page = tab.page /\ t.url = tab.url
      /\ t.open = tab.open /\ t.svc = tab.svc /\ t.seq = tab.seq
      /\ t.dirty = tab.dirty /\ t.locked = tab.locked
  BY <1>2, DashboardEffect, Zenon
<1> HIDE DEF t
<1>4. FormTypes' /\ FormNamed' /\ RestTypes'
  BY <1>1, CountsHold, CountKept DEF WsIInv, FormTypes, FormNamed, RestTypes
<1>5. CASE tab' = t
  <2>1. TabTypes' /\ TextOf(tab') /\ Requests(tab', wsOpens')
    BY <1>1, <1>3, <1>5 DEF WsIInv, TabTypes, TextOf, Requests
  <2>2. TabFits'
    <3> SUFFICES ASSUME ~wsOverlap, ~tab.locked
                 PROVE  Fits(t, wsAsks, wsOpens)
      BY <1>1, <1>3, <1>5 DEF TabFits
    <3>1. Fits(tab, wsAsks, wsOpens)
      BY <1>1 DEF WsIInv, TabFits
    <3>2. Awaits(t, wsOpens) <=> Awaits(tab, wsOpens)
      BY <1>3 DEF Awaits
    <3>3. Shown(tab) => Shown(t)
      BY <1>3 DEF Shown
    <3> QED BY <1>3, <3>1, <3>2, <3>3 DEF Fits
  <2> QED BY <1>1, <1>3, <1>4, <1>5, <2>1, <2>2, InsideFrame
<1>6. CASE /\ t.page # "term"
           /\ tab' = SwitchPage(Route(CloseTerminalPage(t), "", FALSE), "list")
  <2>1. tab' \in WsTab /\ GoneHome(tab', t)
    BY <1>2, <1>3, <1>6, HomeEffect, Zenon
  <2>2. /\ TabTypes' /\ TextOf(tab') /\ Requests(tab', wsOpens')
        /\ tab'.page \in InsidePages /\ TabFits'
    BY <1>1, <1>3, <2>1, HomeKeeps
  <2>3. ~tab.dirty
    BY <1>3, <1>6 DEF WsIInv, TextOf
  <2> QED BY <1>4, <2>2, <2>3, InsideFrame
<1> QED BY <1>1, <1>5, <1>6

(* ------------------------- the session of the tab ----------------------- *)

(* The tab of a session that has ended: closed and locked.                 *)
LEMMA LockedEffect ==
  ASSUME NEW c \in WsTab, NEW url \in Routes
  PROVE  \A yes \in BOOLEAN, none \in SUBSET WsNames :
           LET u == [c EXCEPT !.locked = yes, !.list = none,
                              !.dashboard = yes, !.url = url]
           IN /\ u \in WsTab /\ u.page = c.page /\ u.seq = c.seq
              /\ (u.locked <=> yes) /\ (u.dirty <=> c.dirty)
<1> TAKE yes \in BOOLEAN, none \in SUBSET WsNames
<1> DEFINE u == [c EXCEPT !.locked = yes, !.list = none,
                          !.dashboard = yes, !.url = url]
<1>1. u \in WsTab
  BY DEF WsTab
<1>2. u.page = c.page /\ u.seq = c.seq
  BY DEF WsTab
<1>3. u.locked <=> yes
  BY DEF WsTab
<1>4. u.dirty <=> c.dirty
  BY DEF WsTab
<1> QED BY <1>1, <1>2, <1>3, <1>4

LEMMA EnterUnauthorizedStateKeeps ==
  ASSUME WsIInv, EnterUnauthorizedState
  PROVE  WsIInv' /\ tab'.locked
<1> DEFINE c == CloseTerminalPage(tab)
<1>1. PICK url \in {"", tab.url} :
        tab' = [c EXCEPT !.locked = TRUE, !.list = {},
                         !.dashboard = TRUE, !.url = url]
  BY DEF EnterUnauthorizedState
<1>2. /\ tab.page \in InsidePages
      /\ WsCounted("reloads", WsReloads)
      /\ UNCHANGED <<wsServer, wsStore, wsOpens, wsAsks, wsForm, wsDetails,
                     wsSubmit, wsOverlap>>
  BY DEF EnterUnauthorizedState, InsidePages
<1>3. tab \in WsTab /\ Requests(tab, wsOpens) /\ wsOpens \in SUBSET WsRequests
  BY DEF WsIInv, TabTypes
<1>4. /\ c \in WsTab /\ c.page = tab.page /\ ~c.dirty /\ c.seq = tab.seq + 1
  BY <1>3, CloseEffect DEF ClosedIn
<1> HIDE DEF c
<1>5. url \in Routes /\ TRUE \in BOOLEAN /\ {} \in SUBSET WsNames
  BY <1>3, TabTyped, WsNameFacts
<1>6. \A yes \in BOOLEAN, none \in SUBSET WsNames :
        LET u == [c EXCEPT !.locked = yes, !.list = none,
                           !.dashboard = yes, !.url = url]
        IN /\ u \in WsTab /\ u.page = c.page /\ u.seq = c.seq
           /\ (u.locked <=> yes) /\ (u.dirty <=> c.dirty)
  BY <1>4, <1>5, LockedEffect
<1>7. /\ tab' \in WsTab /\ tab'.page = c.page /\ tab'.seq = c.seq
      /\ (tab'.locked <=> TRUE) /\ (tab'.dirty <=> c.dirty)
  BY <1>1, <1>5, <1>6, Zenon
<1>8. \A o \in wsOpens : o.seq <= tab.seq + 1
  <2>1. \A o \in wsOpens : o.seq \in Nat /\ o.seq <= tab.seq
    BY <1>3, WsRequestFacts DEF Requests
  <2>2. tab.seq \in Nat
    BY <1>3, TabTyped
  <2> QED BY <2>1, <2>2, NextIsLater
<1>9. TextOf(tab') /\ Requests(tab', wsOpens') /\ tab'.page \in InsidePages
  BY <1>2, <1>4, <1>7, <1>8 DEF TextOf, Requests
<1>10. TabFits'
  BY <1>7 DEF TabFits
<1>11. TabTypes' /\ FormTypes' /\ FormNamed' /\ RestTypes'
  BY <1>2, <1>7, CountsHold, CountKept
     DEF WsIInv, TabTypes, FormTypes, FormNamed, RestTypes
<1> QED BY <1>7, <1>9, <1>10, <1>11, InsideFrame

(* The tab as it starts.                                                   *)
LEMMA FreshForm ==
  LET f == [mode |-> "closed", name |-> "", loading |-> FALSE, seq |-> 0]
  IN f \in WsFormState /\ f.mode = "closed"
<1>1. FALSE \in BOOLEAN /\ "" \in MaybeName /\ 0 \in Nat
  BY WsNameFacts
<1> QED BY <1>1, FormFacts, Zenon

LEMMA ReloadKeeps ==
  ASSUME WsIInv, Reload
  PROVE  WsIInv' /\ (tab.dirty => tab'.dirty)
<1>1. /\ tab.locked /\ tab' = Loaded(tab)
      /\ wsOpens' = {} /\ wsAsks' = <<>> /\ wsDetails' = {}
      /\ wsSubmit' = NoSubmit
      /\ UNCHANGED <<wsServer, wsStore, wsCount>>
  BY DEF Reload
<1>2. wsForm' \in WsFormState /\ wsForm'.mode = "closed"
  BY FreshForm, Zenon DEF Reload
<1>3. ~wsOverlap' /\ wsOverlap' \in BOOLEAN
  BY DEF Reload
<1>4. ~tab.dirty
  BY <1>1 DEF WsIInv, TextOf
<1>5. /\ tab' \in WsTab /\ tab'.page = "boot" /\ tab'.open = "" /\ tab'.svc = ""
      /\ ~tab'.dirty /\ ~tab'.locked
  BY <1>1, LoadedEffect DEF WsIInv, TabTypes
<1>6. wsAsks' \in Seq(Wanted)
  BY <1>1
<1>7. TabTypes' /\ FormTypes' /\ FormNamed' /\ RestTypes'
  BY <1>1, <1>2, <1>3, <1>5, <1>6, SubmitFacts
     DEF WsIInv, TabTypes, FormTypes, FormNamed, RestTypes
<1>8. TextOf(tab') /\ Requests(tab', wsOpens')
  BY <1>1, <1>5 DEF TextOf, Requests
<1>9. TabFits' /\ OutsideEmpty'
  BY <1>1, <1>2, <1>3, <1>5 DEF TabFits, OutsideEmpty, InsidePages
<1> QED BY <1>4, <1>7, <1>8, <1>9 DEF WsIInv

LEMMA BootAuthenticatedKeeps ==
  ASSUME WsIInv, BootAuthenticated
  PROVE  WsIInv' /\ (tab.dirty => tab'.dirty)
<1> DEFINE t == [tab EXCEPT !.list = wsServer]
           w == IF t.url = "dashboard" /\ t.dashboard
                THEN Replacing(Wait("dash"))
                ELSE IF t.url \in t.list THEN Replacing(WaitOpen(t.url))
                ELSE Wait("rehome")
<1>1. /\ tab.page = "boot" /\ wsStore' = wsServer
      /\ tab' = Left(t, w) /\ wsOpens' = Requested(t, w)
      /\ UNCHANGED <<wsServer, wsAsks, wsForm, wsDetails, wsSubmit, wsCount,
                     wsOverlap>>
  BY DEF BootAuthenticated
<1>2. /\ tab \in WsTab /\ tab.open = "" /\ tab.svc = "" /\ ~tab.locked
      /\ ~tab.dirty /\ ~wsOverlap /\ wsAsks = <<>> /\ wsOpens = {}
      /\ wsOverlap \in BOOLEAN
  BY <1>1, OutsideFacts DEF InsidePages
<1>3. wsServer \in SUBSET WsNames
  BY DEF WsIInv, RestTypes
<1>4. /\ t \in WsTab /\ t.list = wsServer /\ t.open = tab.open
      /\ t.svc = tab.svc /\ t.dirty = tab.dirty /\ t.locked = tab.locked
  BY <1>2, <1>3, ListedEffect
<1>5. w \in Wanted /\ w.do # "stay"
  <2> DEFINE v == IF t.url \in t.list THEN Replacing(WaitOpen(t.url))
                  ELSE Wait("rehome")
  <2>1. Replacing(Wait("dash")) \in Wanted /\ Replacing(Wait("dash")).do # "stay"
    BY WaitFacts
  <2>2. Wait("rehome") \in Wanted /\ Wait("rehome").do # "stay"
    BY WaitFacts
  <2>3. ASSUME t.url \in t.list
        PROVE  /\ Replacing(WaitOpen(t.url)) \in Wanted
               /\ Replacing(WaitOpen(t.url)).do # "stay"
    BY <1>3, <1>4, <2>3, WaitFacts
  <2>4. v \in Wanted /\ v.do # "stay"
    BY <2>2, <2>3
  <2>5. w = Replacing(Wait("dash")) \/ w = v
    OBVIOUS
  <2> HIDE DEF w, v
  <2> QED BY <2>1, <2>4, <2>5
<1> HIDE DEF t, w
<1>6. {} \in SUBSET WsRequests /\ Requests(t, {}) /\ <<>> \in Seq(Wanted)
      /\ {} \cup Requested(t, w) = Requested(t, w)
  BY DEF Requests
<1>7. /\ tab' \in WsTab /\ TextOf(tab') /\ ~tab'.dirty
      /\ Requests(tab', wsOpens') /\ tab'.page \in InsidePages
  BY <1>1, <1>2, <1>4, <1>5, <1>6, LeftKeeps
<1>8. wsOpens' \in SUBSET WsRequests
  BY <1>1, <1>4, <1>5, <1>6, RequestedFacts
<1>9. FewAsks(<<>>)
  BY EmptySeq, FewNone
<1>10. Fits(Left(t, w), <<>>, {} \cup Requested(t, w))
  BY <1>2, <1>4, <1>5, <1>6, <1>9, LeftFits
<1>11. TabFits'
  BY <1>1, <1>2, <1>6, <1>10 DEF TabFits
<1>12. TabTypes' /\ FormTypes' /\ FormNamed' /\ RestTypes'
  BY <1>1, <1>2, <1>3, <1>6, <1>7, <1>8
     DEF WsIInv, TabTypes, FormTypes, FormNamed, RestTypes
<1> QED BY <1>2, <1>7, <1>11, <1>12, InsideFrame

LEMMA BootUnauthorizedKeeps ==
  ASSUME WsIInv, BootUnauthorized
  PROVE  WsIInv' /\ (tab.dirty => tab'.dirty)
<1>1. PICK page \in {"auth", "public"} : tab' = SwitchPage(tab, page)
  BY DEF BootUnauthorized
<1>2. /\ tab.page = "boot"
      /\ UNCHANGED <<wsServer, wsStore, wsOpens, wsAsks, wsForm, wsDetails,
                     wsSubmit, wsCount, wsOverlap>>
  BY DEF BootUnauthorized
<1>3. /\ tab \in WsTab /\ tab.open = "" /\ tab.svc = "" /\ ~tab.locked
      /\ ~tab.dirty /\ ~wsOverlap /\ wsOverlap \in BOOLEAN
  BY <1>2, OutsideFacts DEF InsidePages
<1>4. page \in WsPages /\ page \notin InsidePages
  BY DEF WsPages, InsidePages
<1>5. /\ tab' \in WsTab /\ tab'.page = page /\ Kept(tab', tab)
  BY <1>1, <1>3, <1>4, SwitchEffect
<1>6. tab'.open = "" /\ tab'.svc = "" /\ ~tab'.locked /\ ~tab'.dirty
  BY <1>3, <1>5 DEF Kept
<1>7. wsOverlap' = FALSE /\ tab.page \notin InsidePages
  BY <1>2, <1>3 DEF InsidePages
<1>8. RestTypes'
  BY <1>2 DEF WsIInv, RestTypes
<1> QED BY <1>2, <1>4, <1>5, <1>6, <1>7, <1>8, OutsideFrame

LEMMA PublicHomeKeeps ==
  ASSUME WsIInv, PublicHome
  PROVE  WsIInv' /\ (tab.dirty => tab'.dirty)
<1> DEFINE u == Route(tab, "", TRUE)
<1>1. /\ tab.page = "public" /\ tab' = SwitchPage(u, "auth")
      /\ UNCHANGED <<wsServer, wsStore, wsOpens, wsAsks, wsForm, wsDetails,
                     wsSubmit, wsCount, wsOverlap>>
  BY DEF PublicHome
<1>2. /\ tab \in WsTab /\ tab.open = "" /\ tab.svc = "" /\ ~tab.locked
      /\ ~tab.dirty /\ ~wsOverlap /\ wsOverlap \in BOOLEAN
  BY <1>1, OutsideFacts DEF InsidePages
<1>3. TRUE \in BOOLEAN /\ "" \in Routes
  BY WsNameFacts
<1>4. u \in WsTab /\ Kept(u, tab)
  BY <1>2, <1>3, RouteEffect, Zenon
<1> HIDE DEF u
<1>5. tab' \in WsTab /\ tab'.page = "auth" /\ Kept(tab', u)
  BY <1>1, <1>4, SwitchEffect DEF WsPages
<1>6. tab'.open = "" /\ tab'.svc = "" /\ ~tab'.locked /\ ~tab'.dirty
  BY <1>2, <1>4, <1>5 DEF Kept
<1>7. wsOverlap' = FALSE /\ tab.page \notin InsidePages /\ tab'.page \notin InsidePages
  BY <1>1, <1>2, <1>5 DEF InsidePages
<1>8. RestTypes'
  BY <1>1 DEF WsIInv, RestTypes
<1> QED BY <1>1, <1>5, <1>6, <1>7, <1>8, OutsideFrame

LEMMA LoggedInKeeps ==
  ASSUME WsIInv, LoggedIn
  PROVE  WsIInv' /\ (tab.dirty => tab'.dirty)
<1>1. /\ tab.page = "auth" /\ tab' = Loaded(tab)
      /\ WsCounted("reloads", WsReloads)
      /\ UNCHANGED <<wsServer, wsStore, wsOpens, wsAsks, wsForm, wsDetails,
                     wsSubmit>>
  BY DEF LoggedIn
<1>2. wsOverlap' = FALSE
  BY DEF LoggedIn
<1>3. /\ tab' \in WsTab /\ tab'.page = "boot" /\ tab'.open = "" /\ tab'.svc = ""
      /\ ~tab'.dirty /\ ~tab'.locked
  BY <1>1, LoadedEffect DEF WsIInv, TabTypes
<1>4. RestTypes'
  BY <1>1, CountsHold, CountKept DEF WsIInv, RestTypes
<1>5. tab.page \notin InsidePages /\ tab'.page \notin InsidePages
  BY <1>1, <1>3 DEF InsidePages
<1> QED BY <1>1, <1>2, <1>3, <1>4, <1>5, OutsideFrame

(* ------------------------------ the theorems ---------------------------- *)

LEMMA StartTyped ==
  ASSUME NEW few \in SUBSET BOOLEAN, NEW none \in Seq(Routes), NEW m \in MaybeName
  PROVE  [page : {"boot"}, open : {m}, svc : {m}, seq : {0}, dirty : few,
          list : {{}}, dashboard : BOOLEAN, locked : few, url : Routes,
          past : {none}, ahead : {none}] \subseteq WsTab
BY DEF WsTab, WsPages

LEMMA InitHolds == WsInit => WsIInv
<1> SUFFICES ASSUME WsInit PROVE WsIInv
  OBVIOUS
<1>1. /\ wsServer \in SUBSET WsNames /\ wsStore = {}
      /\ wsOpens = {} /\ wsAsks = <<>> /\ wsDetails = {}
      /\ wsSubmit = NoSubmit
      /\ wsCount = [moves |-> 0, forms |-> 0, changes |-> 0, reloads |-> 0]
  BY DEF WsInit
<1>2. wsForm \in WsFormState /\ wsForm.mode = "closed"
  BY FreshForm, Zenon DEF WsInit
<1>3. ~wsOverlap /\ wsOverlap \in BOOLEAN
  BY DEF WsInit
<1> DEFINE Starts(no) ==
       [page : {"boot"}, open : {""}, svc : {""}, seq : {0},
        dirty : {no}, list : {{}}, dashboard : BOOLEAN,
        locked : {no}, url : Routes, past : {<<>>}, ahead : {<<>>}]
<1>4. ASSUME NEW no \in BOOLEAN
      PROVE  \A t \in Starts(no) :
               /\ t \in WsTab /\ t.page = "boot" /\ t.open = "" /\ t.svc = ""
               /\ t.dirty = no /\ t.locked = no
  <2> TAKE t \in Starts(no)
  <2>1. <<>> \in Seq(Routes) /\ "" \in MaybeName /\ "boot" \in WsPages
    BY WsNameFacts, EmptySeq DEF WsPages
  <2>2. t \in WsTab
    <3>1. {no} \in SUBSET BOOLEAN
      OBVIOUS
    <3> QED BY <2>1, <3>1, StartTyped
  <2>3. t.page = "boot" /\ t.open = "" /\ t.svc = ""
    OBVIOUS
  <2>4. t.dirty = no
    OBVIOUS
  <2>5. t.locked = no
    OBVIOUS
  <2> QED BY <2>2, <2>3, <2>4, <2>5
<1>5. tab \in Starts(FALSE) /\ FALSE \in BOOLEAN
  BY DEF WsInit
<1>6. /\ tab \in WsTab /\ tab.page = "boot" /\ tab.open = "" /\ tab.svc = ""
      /\ tab.dirty = FALSE /\ tab.locked = FALSE
  BY <1>4, <1>5, Zenon
<1> HIDE DEF Starts
<1>7. ~tab.dirty /\ ~tab.locked
  BY <1>6
<1>8. wsCount \in WsCounts
  <2>1. /\ 0 \in 0 .. WsMoves /\ 0 \in 0 .. WsForms
        /\ 0 \in 0 .. WsChanges /\ 0 \in 0 .. WsReloads
    <3>1. /\ WsMoves \in Nat /\ WsForms \in Nat /\ WsChanges \in Nat
          /\ WsReloads \in Nat
      BY WsAssumption DEF WsAssumption
    <3> QED BY <3>1
  <2> QED BY <1>1, <2>1 DEF WsCounts
<1>12. wsAsks \in Seq(Wanted)
  BY <1>1, EmptySeq
<1>13. TabTypes
  BY <1>1, <1>3, <1>6, <1>12 DEF TabTypes
<1>14. FormTypes /\ RestTypes
  BY <1>1, <1>2, <1>8 DEF FormTypes, RestTypes
<1>9. TabTypes /\ FormTypes /\ RestTypes
  BY <1>13, <1>14
<1>10. TextOf(tab) /\ Requests(tab, wsOpens) /\ FormNamed
  BY <1>1, <1>2, <1>7, SubmitFacts DEF TextOf, Requests, FormNamed
<1>11. OutsideEmpty /\ TabFits
  BY <1>1, <1>2, <1>3, <1>6, <1>7 DEF OutsideEmpty, TabFits, InsidePages
<1> QED BY <1>9, <1>10, <1>11 DEF WsIInv

(* Why a step may end with the text of the tab gone.                       *)
TextGoes ==
  \/ wsAsks # <<>> /\ wsAsks' = Tail(wsAsks)
  \/ tab'.locked
  \/ tab.open \notin wsServer \cap wsStore'
  \/ wsSubmit.mode = "delete"

LEMMA NextKeeps ==
  ASSUME WsIInv, [WsNext]_wsVars
  PROVE  WsIInv' /\ (tab.dirty /\ ~tab'.dirty => TextGoes)
<1>1. CASE UNCHANGED wsVars
  <2>1. TabTypes' /\ FormTypes' /\ RestTypes'
    BY <1>1 DEF wsVars, WsIInv, TabTypes, FormTypes, RestTypes
  <2>2. TextOf(tab') /\ Requests(tab', wsOpens') /\ FormNamed' /\ OutsideEmpty'
    BY <1>1 DEF wsVars, WsIInv, TextOf, Requests, FormNamed, OutsideEmpty
  <2>3. TabFits' /\ (tab.dirty => tab'.dirty)
    BY <1>1 DEF wsVars, WsIInv, TabFits
  <2> QED BY <2>1, <2>2, <2>3 DEF WsIInv
<1>2. CASE \E n \in WsNames : ClickInstance(n)
  BY <1>2, ClickInstanceKeeps
<1>3. CASE ClickDashboard
  BY <1>3, ClickDashboardKeeps
<1>4. CASE ClickHome
  BY <1>4, ClickHomeKeeps
<1>5. CASE GoBack
  BY <1>5, GoBackKeeps
<1>6. CASE GoForward
  BY <1>6, GoForwardKeeps
<1>7. CASE Type
  BY <1>7, TypeKeeps
<1>8. CASE Answer
  <2>1. wsAsks # <<>> /\ wsAsks' = Tail(wsAsks)
    BY <1>8 DEF Answer
  <2> QED BY <1>8, <2>1, AnswerKeeps DEF TextGoes
<1>9. CASE \E o \in wsOpens : OpenAnswered(o) \/ OpenFailed(o)
  BY <1>9, OpenAnsweredKeeps, OpenFailedKeeps
<1>10. CASE OpenCreateInstanceModal
  BY <1>10, OpenCreateInstanceModalKeeps
<1>11. CASE OpenEditInstanceModal
  BY <1>11, OpenEditInstanceModalKeeps
<1>12. CASE \E d \in wsDetails : DetailAnswered(d)
  BY <1>12, DetailAnsweredKeeps
<1>13. CASE CloseInstanceModal
  BY <1>13, CloseInstanceModalKeeps
<1>14. CASE HandleInstanceModalSubmit
  BY <1>14, HandleInstanceModalSubmitKeeps
<1>15. CASE HandleApiInstance
  BY <1>15, HandleApiInstanceKeeps
<1>16. CASE SubmitFailed
  BY <1>16, SubmitFailedKeeps
<1>17. CASE SubmitSucceeded
  BY <1>17, SubmitSucceededKeeps DEF TextGoes
<1>18. CASE InstancesReceived
  BY <1>18, InstancesReceivedKeeps DEF TextGoes
<1>19. CASE InstanceMissing
  BY <1>19, InstanceMissingKeeps DEF TextGoes
<1>20. CASE OtherUser
  BY <1>20, OtherUserKeeps
<1>21. CASE ApplyDashboardEnabled
  BY <1>21, ApplyDashboardEnabledKeeps
<1>22. CASE EnterUnauthorizedState
  BY <1>22, EnterUnauthorizedStateKeeps DEF TextGoes
<1>23. CASE Reload
  BY <1>23, ReloadKeeps
<1>24. CASE BootAuthenticated
  BY <1>24, BootAuthenticatedKeeps
<1>25. CASE BootUnauthorized
  BY <1>25, BootUnauthorizedKeeps
<1>26. CASE PublicHome
  BY <1>26, PublicHomeKeeps
<1>27. CASE LoggedIn
  BY <1>27, LoggedInKeeps
<1>28. ASSUME WsNext
       PROVE  \/ \E n \in WsNames : ClickInstance(n)
              \/ ClickDashboard \/ ClickHome \/ GoBack \/ GoForward \/ Type \/ Answer
              \/ \E o \in wsOpens : OpenAnswered(o) \/ OpenFailed(o)
              \/ OpenCreateInstanceModal \/ OpenEditInstanceModal
              \/ \E d \in wsDetails : DetailAnswered(d)
              \/ CloseInstanceModal \/ HandleInstanceModalSubmit
              \/ HandleApiInstance \/ SubmitFailed \/ SubmitSucceeded
              \/ InstancesReceived \/ InstanceMissing \/ OtherUser
              \/ ApplyDashboardEnabled \/ EnterUnauthorizedState \/ Reload
              \/ BootAuthenticated \/ BootUnauthorized \/ PublicHome \/ LoggedIn
  BY <1>28 DEF WsNext
<1> QED BY <1>1, <1>2, <1>3, <1>4, <1>5, <1>6, <1>7, <1>8, <1>9, <1>10, <1>11,
           <1>12, <1>13, <1>14, <1>15, <1>16, <1>17, <1>18, <1>19, <1>20,
           <1>21, <1>22, <1>23, <1>24, <1>25, <1>26, <1>27, <1>28

(* The tab, what is under way and what agrees with what, in every reachable *)
(* state.                                                                   *)
THEOREM WorkspaceInvariant == WsSpec => []WsIInv
<1>1. WsIInv /\ [WsNext]_wsVars => WsIInv'
  BY NextKeeps
<1> QED BY InitHolds, <1>1, PTL DEF WsSpec

LEMMA InvariantTypes == WsIInv => WsTypeOK
<1> SUFFICES ASSUME WsIInv PROVE WsTypeOK
  OBVIOUS
<1>1. wsAsks \in Seq(Waiting)
  <2>1. wsAsks \in Seq(Wanted) /\ Wanted \subseteq Waiting
    BY WaitFacts DEF WsIInv, TabTypes
  <2> QED BY <2>1
<1> QED BY <1>1 DEF WsIInv, TabTypes, FormTypes, RestTypes, WsTypeOK,
                    WsRequests, WsCounts

(* The variables keep their types: no step leaves a page, a route, a       *)
(* request or a submit of another kind than the code has.                  *)
THEOREM WorkspaceTyped == WsSpec => []WsTypeOK
BY WorkspaceInvariant, InvariantTypes, PTL

LEMMA InvariantAgrees == WsIInv => WsTabAgrees
<1> SUFFICES ASSUME WsIInv, AtRest, ~wsOverlap
             PROVE  /\ CASE tab.page = "list" -> tab.url = "" /\ tab.open = ""
                         [] tab.page = "dash" -> tab.url = "dashboard" /\ tab.open = ""
                         [] tab.page = "term" -> tab.url = tab.open /\ tab.open # ""
                    /\ tab.svc = tab.open
  BY DEF WsTabAgrees
<1>1. /\ tab.page \in InsidePages /\ ~tab.locked /\ wsAsks = <<>>
      /\ ~Awaits(tab, wsOpens)
  BY DEF AtRest, Opening, Awaits, InsidePages
<1>2. Shown(tab) /\ tab.svc = tab.open
  BY <1>1 DEF WsIInv, TabFits, Fits
<1>3. CASE tab.page = "list"
  BY <1>2, <1>3 DEF Shown
<1>4. CASE tab.page = "dash"
  BY <1>2, <1>4 DEF Shown
<1>5. CASE tab.page = "term"
  BY <1>2, <1>5 DEF Shown
<1> QED BY <1>1, <1>3, <1>4, <1>5 DEF InsidePages

(* At rest, and unless two moves have met, the URL names what the tab      *)
(* shows and the terminal's controls are for the instance that is current. *)
THEOREM UrlNamesTab == WsSpec => []WsTabAgrees
BY WorkspaceInvariant, InvariantAgrees, PTL

(* Unsaved text goes only with the user's consent, with the session, with  *)
(* an instance that is gone, or by a deletion.                             *)
THEOREM TextIsKept == WsSpec => WsTextKept
<1>1. WsIInv /\ [WsNext]_wsVars =>
        [tab.dirty /\ ~tab'.dirty =>
           \/ wsAsks # <<>> /\ wsAsks' = Tail(wsAsks)
           \/ tab'.locked
           \/ tab.open \notin wsServer \cap wsStore'
           \/ wsSubmit.mode = "delete"]_wsVars
  BY NextKeeps DEF TextGoes
<1> QED BY WorkspaceInvariant, <1>1, PTL DEF WsSpec, WsTextKept

(* ----------------------------- the terminal ---------------------------- *)

TermNamesOrNone == TermNames \cup {""}
Sockets == [to : TermNamesOrNone, session : Nat,
            st : {"none", "connecting", "open"}]
Checks == [seq : Nat, name : TermNamesOrNone, session : Nat]

ConnTypes ==
  /\ tvPage \in TermNamesOrNone
  /\ tvSvc \in [name : TermNamesOrNone, mode : TermModes]
  /\ tvSock \in Sockets
  /\ tvTimer \in TermNamesOrNone
  /\ tvChecks \subseteq Checks
  /\ tvSeq \in Nat
  /\ tvInput \in Seq(Nat)
  /\ tvDraining \in BOOLEAN /\ tvAsked \in BOOLEAN
  /\ tvCount \in [TermInputs -> Nat]

(* The socket, the input that waits and the last existence check belong to *)
(* this opening.                                                           *)
SockOurs == tvSock.st # "none" => tvSock.session = Session
InputOurs == /\ \A i \in 1 .. Len(tvInput) : tvInput[i] = Session
             /\ tvDraining => Len(tvInput) > 0
ChecksOurs == \A check \in tvChecks :
                /\ check.seq <= tvSeq
                /\ check.seq = tvSeq => check.session = Session

RouteInv == SockOurs /\ InputOurs /\ ChecksOurs /\ TermInputRouted

(* Until the instance's settings change, its socket and its timer bear the *)
(* name the page shows, and no more input waits than was typed.            *)
KeyAsked == IF tvAsked THEN 1 ELSE 0
NamesAgree == tvCount["change"] = 0 =>
                /\ tvSock.st # "none" => tvSock.to = tvPage
                /\ tvTimer \in {"", tvPage}
SvcIsPage == tvPage # "" => tvSvc.name = tvPage
InputTyped == Len(tvInput) + KeyAsked <= tvCount["key"]

BackInv == NamesAgree /\ SvcIsPage /\ InputTyped /\ TermReconnects

ConnIInv == ConnTypes /\ RouteInv /\ BackInv

-----------------------------------------------------------------------------
LEMMA TermBounds == TermPending \in Nat /\ TermPending > 0
BY TermAssumption DEF TermAssumption

LEMMA InputNames == {"open", "drop", "key", "print", "fit", "change"} = TermInputs
BY DEF TermInputs

LEMMA CountStep ==
  ASSUME tvCount \in [TermInputs -> Nat], NEW k \in TermInputs, TermCounted(k)
  PROVE  /\ tvCount' \in [TermInputs -> Nat]
         /\ tvCount'[k] = tvCount[k] + 1
         /\ \A j \in TermInputs : j # k => tvCount'[j] = tvCount[j]
BY DEF TermCounted

LEMMA CountValues ==
  ASSUME tvCount \in [TermInputs -> Nat]
  PROVE  /\ tvCount["open"] \in Nat /\ tvCount["key"] \in Nat
         /\ tvCount["change"] \in Nat
BY InputNames

LEMMA SocketFacts ==
  /\ NoSocket \in Sockets /\ NoSocket.st = "none"
  /\ \A to \in TermNamesOrNone, session \in Nat :
       LET sock == [to |-> to, session |-> session, st |-> "connecting"]
       IN /\ sock \in Sockets /\ sock.st = "connecting"
          /\ sock.to = to /\ sock.session = session
  /\ \A sock \in Sockets : /\ sock.session \in Nat
                           /\ sock.to \in TermNamesOrNone
                           /\ [sock EXCEPT !.st = "open"] \in Sockets
                           /\ [sock EXCEPT !.st = "open"].to = sock.to
                           /\ [sock EXCEPT !.st = "open"].session = sock.session
BY DEF Sockets, NoSocket, TermNamesOrNone

LEMMA SvcFacts ==
  /\ NoSvc \in [name : TermNamesOrNone, mode : TermModes] /\ NoSvc.mode = "none"
  /\ \A n \in TermNamesOrNone, m \in TermModes :
       [name |-> n, mode |-> m] \in [name : TermNamesOrNone, mode : TermModes]
BY DEF NoSvc, TermNamesOrNone, TermModes

LEMMA CheckFacts ==
  /\ \A seq \in Nat, n \in TermNamesOrNone, session \in Nat :
       LET check == [seq |-> seq, name |-> n, session |-> session]
       IN check \in Checks /\ check.seq = seq /\ check.name = n /\ check.session = session
  /\ \A check \in Checks :
       check.seq \in Nat /\ check.name \in TermNamesOrNone /\ check.session \in Nat
BY DEF Checks

LEMMA NoInput == <<>> \in Seq(Nat) /\ Len(<<>>) = 0
BY EmptySeq

(* Facts about numbers, for steps whose other hypotheses are not arithmetic. *)
LEMMA NatFacts ==
  /\ \A n \in Nat : n + 1 \in Nat /\ 0 + n = n
  /\ \A a \in Nat, n \in Nat, k \in Nat : n + a <= k => 0 + a <= k
  /\ \A s \in Nat, n \in Nat : s <= n => s <= n + 1 /\ s # n + 1
  /\ \A n \in Nat : n > 1 => n - 1 > 0
  /\ 0 + 0 <= 0
OBVIOUS

(* Input that has been forgotten.                                          *)
LEMMA Forgotten ==
  ASSUME ForgetInput
  PROVE  tvInput' \in Seq(Nat) /\ Len(tvInput') = 0 /\ tvDraining' = FALSE
         /\ InputOurs'
BY NoInput DEF ForgetInput, InputOurs

(* Steps that count an event other than an opening keep the opening.       *)
LEMMA SessionKept ==
  ASSUME tvCount \in [TermInputs -> Nat], NEW k \in TermInputs, k # "open",
         TermCounted(k)
  PROVE  Session' = Session
BY CountStep, InputNames DEF Session

-----------------------------------------------------------------------------
(* What sending one chunk does.                                            *)
SendOverflows ==
  /\ Len(tvInput) >= TermPending
  /\ tvSock' = NoSocket /\ tvTimer' = "" /\ tvSeq' = tvSeq + 1
  /\ tvInput' \in Seq(Nat) /\ Len(tvInput') = 0 /\ tvDraining' = FALSE
  /\ tvSent' = tvSent

SendQueues ==
  /\ UNCHANGED <<tvSock, tvTimer, tvSeq>>
  /\ tvInput' \in Seq(Nat) /\ Len(tvInput') <= Len(tvInput) + 1
  /\ \A i \in 1 .. Len(tvInput') : tvInput'[i] = Session
  /\ tvDraining' \in BOOLEAN
  /\ tvDraining' => Len(tvInput') > 0
  /\ tvSent'.typed = tvSent'.to

LEMMA SendCases ==
  ASSUME ConnTypes, RouteInv, SocketOpen, SendInput
  PROVE  SendOverflows \/ SendQueues
<1>0. /\ tvInput \in Seq(Nat) /\ Len(tvInput) \in Nat /\ Session \in Nat
      /\ tvDraining \in BOOLEAN
      /\ tvSock.session = Session
      /\ \A i \in 1 .. Len(tvInput) : tvInput[i] = Session
      /\ tvDraining => Len(tvInput) > 0
      /\ tvSent.typed = tvSent.to
  BY CountValues, LenProperties
     DEF ConnTypes, RouteInv, SockOurs, InputOurs, SocketOpen, TermInputRouted,
         Session
<1>1. /\ Append(tvInput, Session) \in Seq(Nat)
      /\ Len(Append(tvInput, Session)) = Len(tvInput) + 1
      /\ \A i \in 1 .. Len(tvInput) + 1 : Append(tvInput, Session)[i] = Session
  <2>1. /\ Append(tvInput, Session) \in Seq(Nat)
        /\ Len(Append(tvInput, Session)) = Len(tvInput) + 1
        /\ \A i \in 1 .. Len(tvInput) : Append(tvInput, Session)[i] = tvInput[i]
        /\ Append(tvInput, Session)[Len(tvInput) + 1] = Session
    BY <1>0, AppendProperties
  <2> QED BY <1>0, <2>1
<1>2. CASE Len(tvInput) >= TermPending
  <2>1. /\ tvSock' = NoSocket /\ tvTimer' = "" /\ tvSeq' = tvSeq + 1
        /\ ForgetInput /\ tvSent' = tvSent
    BY <1>2 DEF SendInput
  <2> QED BY <1>2, <2>1, Forgotten DEF SendOverflows
<1>3. CASE ~(Len(tvInput) >= TermPending)
  <2>1. UNCHANGED <<tvSock, tvTimer, tvSeq>>
    BY <1>3 DEF SendInput
  <2>2. CASE tvInput' = tvInput /\ tvDraining' = tvDraining
             /\ tvSent' = [typed |-> Session, to |-> tvSock.session]
    BY <1>0, <2>1, <2>2 DEF SendQueues
  <2>3. CASE /\ tvInput' = Append(tvInput, Session)
             /\ tvDraining' \in BOOLEAN /\ tvSent' = tvSent
    BY <1>0, <1>1, <2>1, <2>3 DEF SendQueues
  <2> QED BY <1>0, <1>3, <2>2, <2>3 DEF SendInput
<1> QED BY <1>2, <1>3

-----------------------------------------------------------------------------
(* The counts only grow, so what a step keeps while nothing has changed    *)
(* carries over.                                                           *)
LEMMA TermCountsGrow ==
  ASSUME tvCount \in [TermInputs -> Nat],
         \/ tvCount' = tvCount
         \/ \E k \in TermInputs : TermCounted(k)
  PROVE  /\ tvCount' \in [TermInputs -> Nat]
         /\ tvCount'["change"] \in Nat /\ tvCount'["key"] \in Nat
         /\ tvCount["change"] \in Nat /\ tvCount["key"] \in Nat
         /\ tvCount'["change"] >= tvCount["change"]
         /\ tvCount'["key"] >= tvCount["key"]
<1>1. CASE tvCount' = tvCount
  BY <1>1, CountValues
<1>2. ASSUME NEW k \in TermInputs, TermCounted(k)
      PROVE  /\ tvCount' \in [TermInputs -> Nat]
             /\ \A j \in TermInputs : tvCount'[j] >= tvCount[j]
  <2>1. /\ tvCount' \in [TermInputs -> Nat]
        /\ tvCount'[k] = tvCount[k] + 1
        /\ \A j \in TermInputs : j # k => tvCount'[j] = tvCount[j]
    BY <1>2, CountStep
  <2>2. ASSUME NEW j \in TermInputs PROVE tvCount'[j] >= tvCount[j]
    BY <2>1, <2>2
  <2> QED BY <2>1, <2>2
<1>3. "change" \in TermInputs /\ "key" \in TermInputs
  BY InputNames
<1> QED BY <1>1, <1>2, <1>3

\* What only draws, prints or fits leaves the connection alone.
LEMMA StillKeeps ==
  ASSUME ConnIInv,
         UNCHANGED <<tvPage, tvSvc, tvSock, tvTimer, tvChecks, tvSeq, tvInput,
                     tvDraining, tvSent, tvAsked>>,
         tvCount' = tvCount \/ \E k \in TermInputs \ {"open"} : TermCounted(k)
  PROVE  ConnIInv'
<1>1. /\ tvCount' \in [TermInputs -> Nat]
      /\ tvCount'["change"] \in Nat /\ tvCount'["key"] \in Nat
      /\ tvCount["change"] \in Nat /\ tvCount["key"] \in Nat
      /\ tvCount'["change"] >= tvCount["change"]
      /\ tvCount'["key"] >= tvCount["key"]
  BY TermCountsGrow DEF ConnIInv, ConnTypes
<1>2. Session' = Session
  BY SessionKept DEF ConnIInv, ConnTypes, Session
<1>3. ConnTypes'
  BY <1>1 DEF ConnIInv, ConnTypes
<1>4. RouteInv'
  BY <1>2 DEF ConnIInv, RouteInv, SockOurs, InputOurs, ChecksOurs, TermInputRouted
<1>5. NamesAgree' /\ SvcIsPage'
  <2>1. tvCount'["change"] = 0 => tvCount["change"] = 0
    BY <1>1
  <2> QED BY <2>1 DEF ConnIInv, BackInv, NamesAgree, SvcIsPage
<1>6. InputTyped'
  <2>1. KeyAsked' = KeyAsked /\ KeyAsked \in Nat /\ Len(tvInput) \in Nat
    BY LenProperties DEF KeyAsked, ConnIInv, ConnTypes
  <2> QED BY <1>1, <2>1 DEF ConnIInv, BackInv, InputTyped
<1>7. TermReconnects'
  <2>1. tvCount'["change"] = 0 => tvCount["change"] = 0
    BY <1>1
  <2>2. tvCount'["key"] <= TermPending => tvCount["key"] <= TermPending
    BY <1>1, TermBounds
  <2> QED BY <2>1, <2>2 DEF ConnIInv, BackInv, TermReconnects, CheckCounts,
                            HasActiveTerminal
<1> QED BY <1>3, <1>4, <1>5, <1>6, <1>7 DEF ConnIInv, BackInv

\* A step that moves instanceMissingCheckSeq on outdates every check.
LEMMA OlderChecks ==
  ASSUME ConnTypes, RouteInv, tvChecks' = tvChecks, tvSeq' = tvSeq + 1
  PROVE  ChecksOurs'
<1>1. tvSeq \in Nat
  BY DEF ConnTypes
<1>2. ASSUME NEW check \in tvChecks
      PROVE  check.seq <= tvSeq + 1 /\ check.seq # tvSeq + 1
  <2>1. check.seq \in Nat
    BY CheckFacts DEF ConnTypes
  <2>2. check.seq <= tvSeq
    BY DEF RouteInv, ChecksOurs
  <2> QED BY <1>1, <2>1, <2>2
<1> QED BY <1>2 DEF ChecksOurs

LEMMA SendCounts ==
  ASSUME NEW k \in Nat, NEW after \in Nat, NEW n \in Nat, NEW p \in Nat,
         NEW asked \in {0, 1}, NEW asks \in {0, 1},
         n + asked <= k, asks + 1 + k <= asked + after
  PROVE  /\ asks <= after
         /\ n >= p => ~(after <= p)
         /\ after <= p => k <= p
         /\ \A m \in Nat : m <= n + 1 => m + asks <= after
OBVIOUS

\* A chunk of input that is sent, or waits, or is too much.
LEMMA SendKeeps ==
  ASSUME ConnIInv, SendOverflows \/ SendQueues,
         UNCHANGED <<tvPage, tvSvc, tvChecks>>,
         tvAsked' \in BOOLEAN,
         tvCount' = tvCount \/ TermCounted("key"),
         KeyAsked' + 1 + tvCount["key"] <= KeyAsked + tvCount'["key"]
  PROVE  ConnIInv'
<1>1. /\ tvCount' \in [TermInputs -> Nat]
      /\ tvCount'["change"] = tvCount["change"] /\ tvCount["change"] \in Nat
      /\ tvCount'["key"] \in Nat /\ tvCount["key"] \in Nat
      /\ Session' = Session
  BY CountStep, CountValues, InputNames DEF ConnIInv, ConnTypes, Session
<1>2. /\ KeyAsked' <= tvCount'["key"]
      /\ Len(tvInput) >= TermPending => ~(tvCount'["key"] <= TermPending)
      /\ tvCount'["key"] <= TermPending => tvCount["key"] <= TermPending
      /\ \A m \in Nat : m <= Len(tvInput) + 1 => m + KeyAsked' <= tvCount'["key"]
  <2>1. /\ KeyAsked \in {0, 1} /\ KeyAsked' \in {0, 1} /\ Len(tvInput) \in Nat
        /\ Len(tvInput) + KeyAsked <= tvCount["key"]
    BY LenProperties DEF KeyAsked, ConnIInv, ConnTypes, BackInv, InputTyped
  <2>2. KeyAsked' + 1 + tvCount["key"] <= KeyAsked + tvCount'["key"]
    OBVIOUS
  <2> QED BY SMTT(30), <1>1, <2>1, <2>2, TermBounds, SendCounts
<1>3. tvSeq \in Nat /\ tvSeq + 1 \in Nat
  BY DEF ConnIInv, ConnTypes
<1>4. CASE SendOverflows
  <2>1. /\ Len(tvInput) >= TermPending
        /\ tvSock' = NoSocket /\ tvTimer' = "" /\ tvSeq' = tvSeq + 1
        /\ tvInput' \in Seq(Nat) /\ Len(tvInput') = 0 /\ tvDraining' = FALSE
        /\ tvSent' = tvSent
    BY <1>4 DEF SendOverflows
  <2>2. ConnTypes'
    BY <1>1, <1>3, <2>1, SocketFacts DEF ConnIInv, ConnTypes, TermNamesOrNone
  <2>3. SockOurs' /\ InputOurs' /\ TermInputRouted'
    <3>1. SockOurs'
      BY <2>1, SocketFacts DEF SockOurs
    <3>2. InputOurs'
      <4>1. Len(tvInput') = 0 /\ ~tvDraining'
        BY <2>1
      <4>2. 1 .. Len(tvInput') = {}
        BY <4>1
      <4> QED BY <4>1, <4>2 DEF InputOurs
    <3>3. TermInputRouted'
      BY <2>1 DEF TermInputRouted, ConnIInv, RouteInv
    <3> QED BY <3>1, <3>2, <3>3, NatFacts
  <2>4. ChecksOurs'
    <3>1. tvChecks' = tvChecks /\ tvSeq' = tvSeq + 1
      BY <2>1
    <3> QED BY <3>1, OlderChecks DEF ConnIInv
  <2>5. NamesAgree' /\ SvcIsPage'
    BY <2>1, SocketFacts DEF NamesAgree, SvcIsPage, ConnIInv, BackInv
  <2>6. InputTyped'
    <3>1. Len(tvInput') + KeyAsked' = KeyAsked'
      <4>1. KeyAsked' \in Nat
        BY DEF KeyAsked
      <4>2. Len(tvInput') = 0
        BY <2>1
      <4> QED BY <4>1, <4>2, NatFacts
    <3> QED BY <1>2, <3>1 DEF InputTyped
  <2>7. TermReconnects'
    BY <1>2, <2>1 DEF TermReconnects
  <2> QED BY <2>2, <2>3, <2>4, <2>5, <2>6, <2>7 DEF ConnIInv, RouteInv, BackInv
<1>5. CASE SendQueues
  <2>1. /\ UNCHANGED <<tvSock, tvTimer, tvSeq>>
        /\ tvInput' \in Seq(Nat) /\ Len(tvInput') <= Len(tvInput) + 1
        /\ \A i \in 1 .. Len(tvInput') : tvInput'[i] = Session
        /\ tvDraining' \in BOOLEAN
        /\ tvDraining' => Len(tvInput') > 0
        /\ tvSent'.typed = tvSent'.to
    BY <1>5 DEF SendQueues
  <2>2. ConnTypes'
    BY <1>1, <2>1 DEF ConnIInv, ConnTypes
  <2>3. SockOurs' /\ ChecksOurs'
    BY <1>1, <2>1 DEF SockOurs, ChecksOurs, ConnIInv, RouteInv
  <2>4. InputOurs' /\ TermInputRouted'
    BY <1>1, <2>1 DEF InputOurs, TermInputRouted
  <2>5. NamesAgree' /\ SvcIsPage'
    BY <1>1, <2>1 DEF NamesAgree, SvcIsPage, ConnIInv, BackInv
  <2>6. InputTyped'
    <3>1. Len(tvInput') \in Nat
      BY <2>1, LenProperties
    <3> QED BY <1>2, <2>1, <3>1 DEF InputTyped
  <2>7. TermReconnects'
    BY <1>1, <1>2, <2>1
       DEF TermReconnects, CheckCounts, HasActiveTerminal, ConnIInv, BackInv
  <2> QED BY <2>2, <2>3, <2>4, <2>5, <2>6, <2>7 DEF ConnIInv, RouteInv, BackInv
<1> QED BY <1>4, <1>5

-----------------------------------------------------------------------------
(* The steps. *)

\* An empty connection, whatever the page shows next.
LEMMA ClosedKeeps ==
  ASSUME ConnIInv, tvPage' = "", tvSvc' = NoSvc, tvSock' = NoSocket,
         tvTimer' = "", tvSeq' = tvSeq + 1, tvChecks' \subseteq tvChecks,
         ForgetInput, UNCHANGED <<tvSent, tvAsked>>,
         tvCount' = tvCount \/ TermCounted("drop")
  PROVE  ConnIInv'
<1>1. /\ tvCount' \in [TermInputs -> Nat]
      /\ tvCount'["key"] = tvCount["key"] /\ tvCount["key"] \in Nat
      /\ Session' = Session
  BY CountStep, CountValues, InputNames DEF ConnIInv, ConnTypes, Session
<1>2. /\ tvInput' \in Seq(Nat) /\ Len(tvInput') = 0 /\ tvDraining' = FALSE
      /\ InputOurs'
  BY Forgotten
<1>3. tvSeq \in Nat /\ tvSeq + 1 \in Nat
  <2>1. tvSeq \in Nat
    BY DEF ConnIInv, ConnTypes
  <2> QED BY <2>1, NatFacts
<1>4. ConnTypes'
  BY <1>1, <1>2, <1>3, SocketFacts, SvcFacts
     DEF ConnIInv, ConnTypes, TermNamesOrNone
<1>5. ChecksOurs'
  <2>1. ASSUME NEW check \in tvChecks
        PROVE  check.seq <= tvSeq + 1 /\ check.seq # tvSeq + 1
    <3>1. check.seq \in Nat
      BY CheckFacts DEF ConnIInv, ConnTypes
    <3>2. check.seq <= tvSeq
      BY DEF ConnIInv, RouteInv, ChecksOurs
    <3>3. tvSeq \in Nat
      BY <1>3
    <3> QED BY <3>1, <3>2, <3>3, NatFacts
  <2> QED BY <2>1 DEF ChecksOurs
<1>6. SockOurs' /\ TermInputRouted'
  BY SocketFacts DEF SockOurs, TermInputRouted, ConnIInv, RouteInv
<1>7. NamesAgree' /\ SvcIsPage' /\ TermReconnects'
  BY SocketFacts DEF NamesAgree, SvcIsPage, TermReconnects
<1>8. InputTyped'
  <2>1. KeyAsked' = KeyAsked /\ KeyAsked \in Nat /\ Len(tvInput) \in Nat
    BY LenProperties DEF KeyAsked, ConnIInv, ConnTypes
  <2>2. Len(tvInput) + KeyAsked <= tvCount["key"]
    BY DEF ConnIInv, BackInv, InputTyped
  <2>3. 0 + KeyAsked <= tvCount["key"]
    <3>1. tvCount["key"] \in Nat
      BY <1>1
    <3> QED BY <2>1, <2>2, <3>1, NatFacts
  <2> QED BY <1>1, <1>2, <2>1, <2>3 DEF InputTyped
<1> QED BY <1>2, <1>4, <1>5, <1>6, <1>7, <1>8 DEF ConnIInv, RouteInv, BackInv

LEMMA TermCloseKeeps == ConnIInv /\ TermClose => ConnIInv'
BY ClosedKeeps DEF TermClose, CloseTerminal

LEMMA OpenKeeps ==
  ASSUME ConnIInv, NEW n \in TermNames, NEW mode \in TermModes,
         TermOpen(n, mode)
  PROVE  ConnIInv'
<1>1. /\ tvPage' = n /\ tvSvc' = [name |-> n, mode |-> mode]
      /\ tvSeq' = tvSeq + 1 /\ tvTimer' = ""
      /\ tvSock' = IF mode = "none" THEN NoSocket
                   ELSE [to |-> n, session |-> Session + 1, st |-> "connecting"]
      /\ ForgetInput /\ UNCHANGED <<tvChecks, tvSent, tvAsked>>
      /\ TermCounted("open")
  BY DEF TermOpen
<1>2. /\ tvCount' \in [TermInputs -> Nat]
      /\ tvCount'["key"] = tvCount["key"] /\ tvCount["key"] \in Nat
      /\ Session' = Session + 1 /\ Session + 1 \in Nat
  BY <1>1, CountStep, CountValues, InputNames DEF ConnIInv, ConnTypes, Session
<1>3. /\ tvInput' \in Seq(Nat) /\ Len(tvInput') = 0 /\ tvDraining' = FALSE
      /\ InputOurs'
  BY <1>1, Forgotten
<1>4. n \in TermNamesOrNone /\ tvSeq + 1 \in Nat
  <2>1. tvSeq \in Nat
    BY DEF ConnIInv, ConnTypes
  <2> QED BY <2>1, NatFacts DEF TermNamesOrNone
<1>5. /\ tvSock' \in Sockets
      /\ tvSock'.st # "none" => tvSock'.session = Session + 1 /\ tvSock'.to = n
      /\ mode # "none" => tvSock'.st # "none"
  BY <1>1, <1>2, <1>4, SocketFacts
<1>6. ConnTypes'
  <2>1. tvSvc' \in [name : TermNamesOrNone, mode : TermModes]
    BY <1>1, <1>4, SvcFacts
  <2>2. tvTimer' \in TermNamesOrNone
    BY <1>1 DEF TermNamesOrNone
  <2> QED BY <1>1, <1>2, <1>3, <1>4, <1>5, <2>1, <2>2 DEF ConnIInv, ConnTypes
<1>7. ChecksOurs'
  BY <1>1, OlderChecks DEF ConnIInv
<1>8. SockOurs' /\ TermInputRouted'
  BY <1>1, <1>2, <1>5 DEF SockOurs, TermInputRouted, ConnIInv, RouteInv
<1>9. NamesAgree' /\ SvcIsPage' /\ TermReconnects'
  BY <1>1, <1>5 DEF NamesAgree, SvcIsPage, TermReconnects, HasActiveTerminal
<1>10. InputTyped'
  <2>1. KeyAsked' = KeyAsked /\ KeyAsked \in Nat /\ Len(tvInput) \in Nat
    BY <1>1, LenProperties DEF KeyAsked, ConnIInv, ConnTypes
  <2>2. Len(tvInput) + KeyAsked <= tvCount["key"]
    BY DEF ConnIInv, BackInv, InputTyped
  <2>3. 0 + KeyAsked <= tvCount["key"]
    <3>1. tvCount["key"] \in Nat
      BY <1>2
    <3> QED BY <2>1, <2>2, <3>1, NatFacts
  <2> QED BY <1>2, <1>3, <2>1, <2>3 DEF InputTyped
<1> QED BY <1>3, <1>6, <1>7, <1>8, <1>9, <1>10 DEF ConnIInv, RouteInv, BackInv

\* setCurrentSvc: without a terminal everything is closed, otherwise there is a
\* socket afterwards.
LEMMA SetCurrentKeeps ==
  ASSUME ConnIInv, NEW name \in TermNamesOrNone, NEW mode \in TermModes,
         tvPage' = name, SetCurrentSvc(name, mode),
         \/ TermCounted("change")
         \/ tvCount' = tvCount /\ mode # "none" /\ name = tvPage
  PROVE  ConnIInv'
<1>1. /\ tvCount' \in [TermInputs -> Nat]
      /\ tvCount'["key"] = tvCount["key"] /\ tvCount["key"] \in Nat
      /\ Session' = Session /\ Session \in Nat
      /\ tvCount'["change"] # 0 \/ (tvCount' = tvCount /\ mode # "none" /\ name = tvPage)
  BY CountStep, CountValues, InputNames DEF ConnIInv, ConnTypes, Session
<1>2. /\ tvSvc' = [name |-> name, mode |-> mode]
      /\ UNCHANGED <<tvChecks, tvSent, tvAsked>>
  BY DEF SetCurrentSvc
<1>3. CASE mode = "none"
  <2>1. /\ tvSock' = NoSocket /\ tvSeq' = tvSeq + 1 /\ tvTimer' = "" /\ ForgetInput
    BY <1>3 DEF SetCurrentSvc
  <2>2. /\ tvInput' \in Seq(Nat) /\ Len(tvInput') = 0 /\ tvDraining' = FALSE
        /\ InputOurs'
    BY <2>1, Forgotten
  <2>3. tvSeq + 1 \in Nat
    BY NatFacts DEF ConnIInv, ConnTypes
  <2>4. ConnTypes'
    BY <1>1, <1>2, <2>1, <2>2, <2>3, SocketFacts, SvcFacts
       DEF ConnIInv, ConnTypes, TermNamesOrNone
  <2>5. ChecksOurs'
    BY <1>2, <2>1, OlderChecks DEF ConnIInv
  <2>6. SockOurs' /\ TermInputRouted'
    BY <1>2, <2>1, SocketFacts DEF SockOurs, TermInputRouted, ConnIInv, RouteInv
  <2>7. NamesAgree' /\ SvcIsPage' /\ TermReconnects'
    BY <1>1, <1>2, <1>3, <2>1, SocketFacts
       DEF NamesAgree, SvcIsPage, TermReconnects, HasActiveTerminal
  <2>8. InputTyped'
    <3>1. KeyAsked' = KeyAsked /\ KeyAsked \in Nat /\ Len(tvInput) \in Nat
      BY <1>2, LenProperties DEF KeyAsked, ConnIInv, ConnTypes
    <3>2. Len(tvInput) + KeyAsked <= tvCount["key"]
      BY DEF ConnIInv, BackInv, InputTyped
    <3>3. 0 + KeyAsked <= tvCount["key"]
      BY <1>1, <3>1, <3>2, NatFacts
    <3> QED BY <1>1, <2>2, <3>1, <3>3 DEF InputTyped
  <2> QED BY <2>2, <2>4, <2>5, <2>6, <2>7, <2>8 DEF ConnIInv, RouteInv, BackInv
<1>4. CASE mode # "none"
  <2>1. /\ UNCHANGED <<tvSeq, tvInput, tvDraining>>
        /\ \/ /\ tvSock' = [to |-> name, session |-> Session, st |-> "connecting"]
              /\ tvTimer' = ""
           \/ tvSock.st # "none" /\ tvSock' = tvSock /\ tvTimer' = tvTimer
    BY <1>4 DEF SetCurrentSvc
  <2>2. /\ tvSock' \in Sockets /\ tvSock'.st # "none"
        /\ tvSock'.session = Session
        /\ tvSock'.to = name \/ (tvSock.st # "none" /\ tvSock' = tvSock)
        /\ tvTimer' \in {"", tvTimer}
    <3>1. CASE /\ tvSock' = [to |-> name, session |-> Session,
                             st |-> "connecting"]
               /\ tvTimer' = ""
      BY <1>1, <3>1, SocketFacts
    <3>2. CASE tvSock.st # "none" /\ tvSock' = tvSock /\ tvTimer' = tvTimer
      BY <3>2 DEF ConnIInv, ConnTypes, RouteInv, SockOurs
    <3> QED BY <2>1, <3>1, <3>2
  <2>3. ConnTypes'
    BY <1>1, <1>2, <2>1, <2>2, SvcFacts DEF ConnIInv, ConnTypes, TermNamesOrNone
  <2>4. SockOurs' /\ InputOurs' /\ ChecksOurs' /\ TermInputRouted'
    BY <1>1, <1>2, <2>1, <2>2
       DEF SockOurs, InputOurs, ChecksOurs, TermInputRouted, ConnIInv, RouteInv
  <2>5. NamesAgree'
    <3>1. CASE tvCount'["change"] # 0
      BY <3>1 DEF NamesAgree
    <3>2. CASE tvCount' = tvCount /\ name = tvPage
      BY <2>2, <3>2 DEF NamesAgree, ConnIInv, BackInv
    <3> QED BY <1>1, <3>1, <3>2
  <2>6. SvcIsPage' /\ TermReconnects'
    BY <1>2, <2>2 DEF SvcIsPage, TermReconnects
  <2>7. InputTyped'
    <3>1. KeyAsked' = KeyAsked
      BY <1>2 DEF KeyAsked
    <3> QED BY <1>1, <2>1, <3>1 DEF InputTyped, ConnIInv, BackInv
  <2> QED BY <2>3, <2>4, <2>5, <2>6, <2>7 DEF ConnIInv, RouteInv, BackInv
<1> QED BY <1>3, <1>4

LEMMA StatusKeeps ==
  ASSUME ConnIInv, NEW mode \in TermModes, TermStatus(mode)
  PROVE  ConnIInv'
<1>1. tvPage # "" /\ tvPage' = tvPage /\ SetCurrentSvc(tvSvc.name, mode)
  BY DEF TermStatus
<1>2. tvSvc.name = tvPage /\ tvPage \in TermNamesOrNone
  BY <1>1 DEF ConnIInv, ConnTypes, BackInv, SvcIsPage
<1>3. TermCounted("change") \/ (tvCount' = tvCount /\ mode # "none")
  BY DEF TermStatus
<1> QED BY <1>1, <1>2, <1>3, SetCurrentKeeps

LEMMA RenameKeeps ==
  ASSUME ConnIInv, NEW n \in TermNames, TermRename(n)
  PROVE  ConnIInv'
<1>1. /\ n \in TermNamesOrNone /\ tvSvc.mode \in TermModes
      /\ tvPage' = n /\ SetCurrentSvc(n, tvSvc.mode) /\ TermCounted("change")
  BY DEF TermRename, TermNamesOrNone, ConnIInv, ConnTypes
<1> QED BY <1>1, SetCurrentKeeps

LEMMA SockOpenKeeps == ConnIInv /\ TermSockOpen => ConnIInv'
<1> SUFFICES ASSUME ConnIInv, TermSockOpen PROVE ConnIInv'
  OBVIOUS
<1>1. /\ tvSock.st = "connecting" /\ tvSock' = [tvSock EXCEPT !.st = "open"]
      /\ UNCHANGED <<tvPage, tvSvc, tvTimer, tvChecks, tvSeq, tvInput,
                     tvDraining, tvSent, tvAsked, tvCount>>
  BY DEF TermSockOpen, tvKeys
<1>2. /\ tvSock' \in Sockets /\ tvSock'.to = tvSock.to
      /\ tvSock'.session = tvSock.session /\ tvSock'.st # "none"
  <2>1. tvSock \in Sockets
    BY DEF ConnIInv, ConnTypes
  <2>2. tvSock'.st = "open"
    BY <1>1, <2>1 DEF Sockets
  <2> QED BY <1>1, <2>1, <2>2, SocketFacts
<1>3. ConnTypes'
  BY <1>1, <1>2 DEF ConnIInv, ConnTypes
<1>4. RouteInv'
  BY <1>1, <1>2 DEF ConnIInv, RouteInv, SockOurs, InputOurs, ChecksOurs,
                    TermInputRouted, Session
<1>5. BackInv'
  BY <1>1, <1>2 DEF ConnIInv, BackInv, NamesAgree, SvcIsPage, InputTyped, KeyAsked,
                    TermReconnects
<1> QED BY <1>3, <1>4, <1>5 DEF ConnIInv

LEMMA SockLostKeeps == ConnIInv /\ TermSockLost => ConnIInv'
<1> SUFFICES ASSUME ConnIInv, TermSockLost PROVE ConnIInv'
  OBVIOUS
<1>1. /\ tvSock.st # "none" /\ tvSock' = NoSocket
      /\ tvTimer' = IF tvPage = tvSock.to /\ HasActiveTerminal
                      THEN tvSock.to ELSE tvTimer
      /\ UNCHANGED <<tvPage, tvSvc, tvChecks, tvSeq, tvInput, tvDraining,
                     tvSent, tvAsked>>
      /\ TermCounted("drop")
  BY DEF TermSockLost, tvKeys
<1>2. /\ tvCount' \in [TermInputs -> Nat]
      /\ tvCount'["key"] = tvCount["key"] /\ tvCount'["change"] = tvCount["change"]
      /\ Session' = Session
  BY <1>1, CountStep, InputNames DEF ConnIInv, ConnTypes, Session
<1>3. ConnTypes'
  BY <1>1, <1>2, SocketFacts DEF ConnIInv, ConnTypes
<1>4. RouteInv'
  BY <1>1, <1>2, SocketFacts DEF ConnIInv, RouteInv, SockOurs, InputOurs,
                                 ChecksOurs, TermInputRouted
<1>5. NamesAgree' /\ SvcIsPage' /\ InputTyped'
  BY <1>1, <1>2, SocketFacts DEF ConnIInv, BackInv, NamesAgree, SvcIsPage,
                                 InputTyped, KeyAsked
<1>6. TermReconnects'
  BY <1>1, <1>2 DEF ConnIInv, BackInv, NamesAgree, TermReconnects,
                    HasActiveTerminal
<1> QED BY <1>3, <1>4, <1>5, <1>6 DEF ConnIInv, BackInv

LEMMA TermReconnectTimerKeeps == ConnIInv /\ TermReconnectTimer => ConnIInv'
<1> SUFFICES ASSUME ConnIInv, TermReconnectTimer PROVE ConnIInv'
  OBVIOUS
<1> DEFINE new == [seq |-> tvSeq + 1, name |-> tvTimer, session |-> Session]
<1>1. /\ tvTimer # "" /\ tvTimer' = "" /\ tvSeq' = tvSeq + 1
      /\ tvChecks' = tvChecks \cup {new}
      /\ UNCHANGED <<tvPage, tvSvc, tvSock, tvInput, tvDraining, tvSent,
                     tvAsked, tvCount>>
  BY DEF TermReconnectTimer, tvKeys
<1>2. /\ tvSeq \in Nat /\ tvSeq + 1 \in Nat /\ Session \in Nat
      /\ tvTimer \in TermNamesOrNone
  <2>1. tvSeq \in Nat /\ Session \in Nat /\ tvTimer \in TermNamesOrNone
    BY CountValues DEF ConnIInv, ConnTypes, Session
  <2> QED BY <2>1, NatFacts
<1>3. /\ new \in Checks /\ new.seq = tvSeq + 1 /\ new.name = tvTimer
      /\ new.session = Session
  BY <1>2, CheckFacts
<1> HIDE DEF new
<1>4. Session' = Session
  BY <1>1 DEF Session
<1>5. ConnTypes'
  BY <1>1, <1>2, <1>3 DEF ConnIInv, ConnTypes, TermNamesOrNone
<1>6. ChecksOurs'
  <2>1. ASSUME NEW check \in tvChecks
        PROVE  check.seq <= tvSeq + 1 /\ check.seq # tvSeq + 1
    <3>1. check.seq \in Nat /\ check.seq <= tvSeq
      BY CheckFacts DEF ConnIInv, ConnTypes, RouteInv, ChecksOurs
    <3> QED BY <1>2, <3>1, NatFacts
  <2>2. new.seq <= tvSeq + 1
    BY <1>2, <1>3
  <2> QED BY <1>1, <1>3, <1>4, <2>1, <2>2 DEF ChecksOurs
<1>7. SockOurs' /\ InputOurs' /\ TermInputRouted'
  BY <1>1, <1>4 DEF ConnIInv, RouteInv, SockOurs, InputOurs, TermInputRouted
<1>8. NamesAgree' /\ SvcIsPage' /\ InputTyped'
  BY <1>1 DEF ConnIInv, BackInv, NamesAgree, SvcIsPage, InputTyped, KeyAsked
<1>9. TermReconnects'
  <2>1. ASSUME tvPage # "", HasActiveTerminal, tvCount["change"] = 0
        PROVE  new \in tvChecks' /\ new.seq = tvSeq' /\ tvPage = new.name
    BY <1>1, <1>3, <2>1 DEF ConnIInv, BackInv, NamesAgree
  <2> QED BY <1>1, <2>1 DEF TermReconnects, CheckCounts, HasActiveTerminal
<1> QED BY <1>5, <1>6, <1>7, <1>8, <1>9 DEF ConnIInv, RouteInv, BackInv

LEMMA ExistsKeeps == ConnIInv /\ TermInstanceExists => ConnIInv'
<1> SUFFICES ASSUME ConnIInv, TermInstanceExists PROVE ConnIInv'
  OBVIOUS
<1>1. PICK check \in tvChecks :
        /\ tvChecks' = tvChecks \ {check}
        /\ IF CheckCounts(check)
             THEN /\ tvSock' = [to |-> check.name, session |-> check.session,
                                st |-> "connecting"]
                  /\ tvTimer' = ""
             ELSE UNCHANGED <<tvSock, tvTimer>>
        /\ UNCHANGED <<tvPage, tvSvc, tvTerm, tvSeq, tvKeys, tvDraw, tvCount>>
  BY DEF TermInstanceExists
<1>2. UNCHANGED <<tvPage, tvSvc, tvSeq, tvInput, tvDraining, tvSent, tvAsked,
                  tvCount, Session>>
  BY <1>1 DEF tvKeys, Session
<1>3. check.name \in TermNamesOrNone /\ check.session \in Nat
  BY CheckFacts DEF ConnIInv, ConnTypes
<1>4. InputOurs' /\ ChecksOurs' /\ TermInputRouted' /\ SvcIsPage' /\ InputTyped'
  BY <1>1, <1>2 DEF ConnIInv, RouteInv, BackInv, InputOurs, ChecksOurs,
                    TermInputRouted, SvcIsPage, InputTyped, KeyAsked
<1>5. CASE CheckCounts(check)
  <2>1. /\ tvSock' \in Sockets /\ tvSock'.st = "connecting"
        /\ tvSock'.to = check.name /\ tvSock'.session = check.session
        /\ tvTimer' = ""
    <3>1. /\ tvSock' = [to |-> check.name, session |-> check.session,
                        st |-> "connecting"]
          /\ tvTimer' = ""
      BY <1>1, <1>5
    <3> QED BY <1>3, <3>1, SocketFacts
  <2>2. check.session = Session /\ tvPage = check.name
    BY <1>5 DEF CheckCounts, ConnIInv, RouteInv, ChecksOurs
  <2>3. ConnTypes'
    BY <1>1, <1>2, <2>1 DEF ConnIInv, ConnTypes, TermNamesOrNone
  <2>4. SockOurs' /\ NamesAgree' /\ TermReconnects'
    BY <1>2, <2>1, <2>2 DEF SockOurs, NamesAgree, TermReconnects
  <2> QED BY <1>4, <2>3, <2>4 DEF ConnIInv, RouteInv, BackInv
<1>6. CASE ~CheckCounts(check)
  <2>1. tvSock' = tvSock /\ tvTimer' = tvTimer
    BY <1>1, <1>6
  <2>2. ConnTypes'
    BY <1>1, <1>2, <2>1 DEF ConnIInv, ConnTypes
  <2>3. SockOurs' /\ NamesAgree'
    BY <1>2, <2>1 DEF ConnIInv, RouteInv, BackInv, SockOurs, NamesAgree
  <2>4. TermReconnects'
    BY <1>1, <1>2, <1>6, <2>1
       DEF ConnIInv, BackInv, TermReconnects, CheckCounts, HasActiveTerminal
  <2> QED BY <1>4, <2>2, <2>3, <2>4 DEF ConnIInv, RouteInv, BackInv
<1> QED BY <1>5, <1>6

LEMMA MissingKeeps == ConnIInv /\ TermInstanceMissing => ConnIInv'
<1> SUFFICES ASSUME ConnIInv, TermInstanceMissing PROVE ConnIInv'
  OBVIOUS
<1>1. PICK check \in tvChecks :
        /\ TermCounted("drop")
        /\ tvChecks' = tvChecks \ {check}
        /\ IF CheckCounts(check)
             THEN CloseTerminal
             ELSE UNCHANGED <<tvPage, tvSvc, tvTerm, tvSock, tvTimer, tvSeq,
                              tvKeys, tvDraw>>
  BY DEF TermInstanceMissing
<1>2. CASE CheckCounts(check)
  BY <1>1, <1>2, ClosedKeeps DEF CloseTerminal
<1>3. CASE ~CheckCounts(check)
  <2>1. UNCHANGED <<tvPage, tvSvc, tvSock, tvTimer, tvSeq, tvInput, tvDraining,
                    tvSent, tvAsked>>
    BY <1>1, <1>3 DEF tvKeys
  <2>2. /\ tvCount' \in [TermInputs -> Nat]
        /\ tvCount'["key"] = tvCount["key"] /\ tvCount'["change"] = tvCount["change"]
        /\ Session' = Session
    BY <1>1, CountStep, InputNames DEF ConnIInv, ConnTypes, Session
  <2>3. ConnTypes'
    BY <1>1, <2>1, <2>2 DEF ConnIInv, ConnTypes
  <2>4. RouteInv'
    BY <1>1, <2>1, <2>2 DEF ConnIInv, RouteInv, SockOurs, InputOurs, ChecksOurs,
                            TermInputRouted
  <2>5. NamesAgree' /\ SvcIsPage' /\ InputTyped'
    BY <2>1, <2>2 DEF ConnIInv, BackInv, NamesAgree, SvcIsPage, InputTyped, KeyAsked
  <2>6. TermReconnects'
    BY <1>1, <1>3, <2>1, <2>2
       DEF ConnIInv, BackInv, TermReconnects, CheckCounts, HasActiveTerminal
  <2> QED BY <2>3, <2>4, <2>5, <2>6 DEF ConnIInv, BackInv
<1> QED BY <1>2, <1>3

LEMMA TypeRawKeeps == ConnIInv /\ TermTypeRaw => ConnIInv'
<1> SUFFICES ASSUME ConnIInv, TermTypeRaw PROVE ConnIInv'
  OBVIOUS
<1>1. /\ SocketOpen /\ SendInput /\ TermCounted("key")
      /\ UNCHANGED <<tvPage, tvSvc, tvChecks, tvAsked>>
  BY DEF TermTypeRaw
<1>2. SendOverflows \/ SendQueues
  BY <1>1, SendCases DEF ConnIInv
<1>3. tvAsked' \in BOOLEAN /\ KeyAsked' + 1 + tvCount["key"] <= KeyAsked + tvCount'["key"]
  BY <1>1, CountStep, CountValues, InputNames DEF KeyAsked, ConnIInv, ConnTypes
<1> QED BY <1>1, <1>2, <1>3, SendKeeps

LEMMA EnterKeeps == ConnIInv /\ TermEnter => ConnIInv'
<1> SUFFICES ASSUME ConnIInv, TermEnter PROVE ConnIInv'
  OBVIOUS
<1>1. /\ SocketOpen /\ SendInput /\ TermCounted("key")
      /\ UNCHANGED <<tvPage, tvSvc, tvChecks, tvAsked>>
  BY DEF TermEnter
<1>2. SendOverflows \/ SendQueues
  BY <1>1, SendCases DEF ConnIInv
<1>3. tvAsked' \in BOOLEAN /\ KeyAsked' + 1 + tvCount["key"] <= KeyAsked + tvCount'["key"]
  BY <1>1, CountStep, CountValues, InputNames DEF KeyAsked, ConnIInv, ConnTypes
<1> QED BY <1>1, <1>2, <1>3, SendKeeps

\* A connection that a step leaves alone, while a question is asked or answered.
LEMMA TermAskKeeps ==
  ASSUME ConnIInv,
         UNCHANGED <<tvPage, tvSvc, tvSock, tvTimer, tvChecks, tvSeq, tvInput,
                     tvDraining, tvSent>>,
         tvAsked' \in BOOLEAN,
         tvCount' = tvCount \/ TermCounted("key"),
         KeyAsked' + tvCount["key"] <= KeyAsked + tvCount'["key"]
  PROVE  ConnIInv'
<1>1. /\ tvCount' \in [TermInputs -> Nat]
      /\ tvCount'["change"] = tvCount["change"] /\ tvCount["change"] \in Nat
      /\ tvCount'["key"] \in Nat /\ tvCount["key"] \in Nat
      /\ tvCount["key"] <= tvCount'["key"]
      /\ Session' = Session
  BY CountStep, CountValues, InputNames DEF ConnIInv, ConnTypes, Session
<1>2. ConnTypes'
  BY <1>1 DEF ConnIInv, ConnTypes
<1>3. RouteInv'
  BY <1>1 DEF ConnIInv, RouteInv, SockOurs, InputOurs, ChecksOurs, TermInputRouted
<1>4. NamesAgree' /\ SvcIsPage'
  BY <1>1 DEF ConnIInv, BackInv, NamesAgree, SvcIsPage
<1>5. InputTyped'
  <2>1. KeyAsked' \in Nat /\ KeyAsked \in Nat /\ Len(tvInput) \in Nat
    BY LenProperties DEF KeyAsked, ConnIInv, ConnTypes
  <2>2. Len(tvInput) + KeyAsked <= tvCount["key"]
    BY DEF ConnIInv, BackInv, InputTyped
  <2>3. Len(tvInput) + KeyAsked' <= tvCount'["key"]
    BY <1>1, <2>1, <2>2
  <2> QED BY <2>3 DEF InputTyped
<1>6. TermReconnects'
  <2>1. tvCount'["key"] <= TermPending => tvCount["key"] <= TermPending
    BY <1>1, TermBounds
  <2> QED BY <1>1, <2>1 DEF ConnIInv, BackInv, TermReconnects, CheckCounts,
                            HasActiveTerminal
<1> QED BY <1>2, <1>3, <1>4, <1>5, <1>6 DEF ConnIInv, BackInv

LEMMA AskInterruptKeeps == ConnIInv /\ TermAskInterrupt => ConnIInv'
<1> SUFFICES ASSUME ConnIInv, TermAskInterrupt PROVE ConnIInv'
  OBVIOUS
<1>1. /\ ~tvAsked /\ tvAsked' = TRUE /\ TermCounted("key")
      /\ UNCHANGED <<tvPage, tvSvc, tvSock, tvTimer, tvChecks, tvSeq, tvInput,
                     tvDraining, tvSent>>
  BY DEF TermAskInterrupt, tvConn
<1>2. KeyAsked' + tvCount["key"] <= KeyAsked + tvCount'["key"]
  BY <1>1, CountStep, CountValues, InputNames DEF KeyAsked, ConnIInv, ConnTypes
<1> QED BY <1>1, <1>2, TermAskKeeps

LEMMA InterruptKeeps ==
  ASSUME ConnIInv, NEW ok \in BOOLEAN, TermInterrupt(ok)
  PROVE  ConnIInv'
<1>1. /\ tvAsked /\ tvAsked' = FALSE /\ tvCount' = tvCount
      /\ UNCHANGED <<tvPage, tvSvc, tvChecks>>
  BY DEF TermInterrupt
<1>2. KeyAsked = 1 /\ KeyAsked' = 0 /\ tvCount["key"] \in Nat
  BY <1>1, CountValues DEF KeyAsked, ConnIInv, ConnTypes
<1>3. CASE ok /\ SocketOpen
  <2>1. SendOverflows \/ SendQueues
    BY <1>3, SendCases DEF TermInterrupt, ConnIInv
  <2>2. KeyAsked' + 1 + tvCount["key"] <= KeyAsked + tvCount'["key"]
    BY <1>1, <1>2
  <2> QED BY <1>1, <2>1, <2>2, SendKeeps
<1>4. CASE ~(ok /\ SocketOpen)
  <2>1. UNCHANGED <<tvSock, tvTimer, tvSeq, tvInput, tvDraining, tvSent>>
    BY <1>4 DEF TermInterrupt
  <2>2. KeyAsked' + tvCount["key"] <= KeyAsked + tvCount'["key"]
    BY <1>1, <1>2
  <2> QED BY <1>1, <2>1, <2>2, TermAskKeeps
<1> QED BY <1>3, <1>4

LEMMA DrainKeeps == ConnIInv /\ TermDrain => ConnIInv'
<1> SUFFICES ASSUME ConnIInv, TermDrain PROVE ConnIInv'
  OBVIOUS
<1>1. UNCHANGED <<tvPage, tvSvc, tvSock, tvTimer, tvChecks, tvSeq, tvAsked,
                  tvCount, Session>>
  BY DEF TermDrain, tvConn, Session
<1>2. /\ tvInput \in Seq(Nat) /\ Len(tvInput) \in Nat /\ Len(tvInput) > 0
      /\ \A i \in 1 .. Len(tvInput) : tvInput[i] = Session
  BY LenProperties DEF TermDrain, ConnIInv, ConnTypes, RouteInv, InputOurs
<1>3. SockOurs' /\ ChecksOurs' /\ NamesAgree' /\ SvcIsPage' /\ TermReconnects'
  BY <1>1 DEF ConnIInv, RouteInv, BackInv, SockOurs, ChecksOurs, NamesAgree,
              SvcIsPage, TermReconnects, CheckCounts, HasActiveTerminal
<1>4. /\ tvInput' \in Seq(Nat) /\ Len(tvInput') <= Len(tvInput)
      /\ Len(tvInput') \in Nat
      /\ tvDraining' \in BOOLEAN /\ InputOurs' /\ TermInputRouted'
  <2>1. CASE ~SocketOpen
    <3>1. ForgetInput /\ tvSent' = tvSent
      BY <2>1 DEF TermDrain
    <3>2. TermInputRouted'
      BY <3>1 DEF TermInputRouted, ConnIInv, RouteInv
    <3> QED BY <1>2, <3>1, <3>2, Forgotten
  <2>2. CASE SocketOpen
    <3>1. /\ tvInput' = Tail(tvInput)
          /\ tvDraining' = (Len(tvInput) > 1)
          /\ tvSent' = [typed |-> Head(tvInput), to |-> tvSock.session]
      BY <2>2 DEF TermDrain
    <3>2. tvInput # <<>>
      BY <1>2, EmptySeq
    <3>3. /\ Tail(tvInput) \in Seq(Nat) /\ Len(Tail(tvInput)) = Len(tvInput) - 1
          /\ \A i \in 1 .. Len(Tail(tvInput)) : Tail(tvInput)[i] = tvInput[i + 1]
          /\ Head(tvInput) = tvInput[1]
      BY <1>2, <3>2, HeadTailProperties
    <3>4. tvSock.session = Session
      BY <2>2 DEF SocketOpen, ConnIInv, RouteInv, SockOurs
    <3>5. TermInputRouted'
      BY <1>2, <3>1, <3>3, <3>4 DEF TermInputRouted
    <3>6. \A i \in 1 .. Len(Tail(tvInput)) : Tail(tvInput)[i] = Session
      BY <1>2, <3>3
    <3>7. InputOurs'
      <4>1. tvDraining' => Len(tvInput') > 0
        <5>1. Len(tvInput) \in Nat
          BY <1>2, LenProperties
        <5>2. Len(tvInput') = Len(tvInput) - 1
          BY <3>1, <3>3
        <5>3. tvDraining' => Len(tvInput) > 1
          BY <3>1
        <5> QED BY <5>1, <5>2, <5>3, NatFacts
      <4>2. \A i \in 1 .. Len(tvInput') : tvInput'[i] = Session'
        BY <1>1, <3>1, <3>6
      <4> QED BY <4>1, <4>2 DEF InputOurs
    <3> QED BY <1>2, <3>1, <3>3, <3>5, <3>7
  <2> QED BY <2>1, <2>2
<1>5. InputTyped'
  <2>1. KeyAsked' = KeyAsked /\ KeyAsked \in Nat /\ tvCount["key"] \in Nat
    BY <1>1, CountValues DEF KeyAsked, ConnIInv, ConnTypes
  <2>2. Len(tvInput) + KeyAsked <= tvCount["key"]
    BY DEF ConnIInv, BackInv, InputTyped
  <2>3. Len(tvInput') + KeyAsked <= tvCount["key"]
    BY <1>2, <1>4, <2>1, <2>2
  <2> QED BY <1>1, <2>1, <2>3 DEF InputTyped
<1>6. ConnTypes'
  BY <1>1, <1>4 DEF ConnIInv, ConnTypes
<1> QED BY <1>3, <1>4, <1>5, <1>6 DEF ConnIInv, RouteInv, BackInv

\* Drawing, printing and fitting.
LEMMA DrawKeeps ==
  ASSUME ConnIInv,
         \/ \E b \in BOOLEAN : TermTypeChar(b)
         \/ TermOutput \/ TermFlush \/ TermWritten \/ TermFit
  PROVE  ConnIInv'
<1>1. UNCHANGED <<tvPage, tvSvc, tvSock, tvTimer, tvChecks, tvSeq, tvInput,
                  tvDraining, tvSent, tvAsked>>
  BY DEF TermTypeChar, TermOutput, TermFlush, TermWritten, TermFit, tvConn, tvKeys
<1>2. tvCount' = tvCount \/ \E k \in {"key", "print", "fit"} : TermCounted(k)
  BY DEF TermTypeChar, TermOutput, TermFlush, TermWritten, TermFit
<1>3. {"key", "print", "fit"} \subseteq TermInputs \ {"open"}
  BY DEF TermInputs
<1> QED BY <1>1, <1>2, <1>3, StillKeeps

-----------------------------------------------------------------------------
LEMMA ConnStarts == TermInit => ConnIInv
<1> SUFFICES ASSUME TermInit PROVE ConnIInv
  OBVIOUS
<1>1. /\ tvCount["open"] = 0 /\ tvCount["key"] = 0
      /\ tvCount \in [TermInputs -> Nat]
  BY InputNames DEF TermInit
<1>2. tvInput = <<>> /\ Len(tvInput) = 0 /\ tvInput \in Seq(Nat)
  BY NoInput DEF TermInit
<1>3. ConnTypes
  BY <1>1, <1>2, SocketFacts, SvcFacts DEF TermInit, ConnTypes, TermNamesOrNone
<1>4. /\ tvSock.st = "none" /\ tvDraining = FALSE /\ tvAsked = FALSE
      /\ tvChecks = {} /\ tvPage = "" /\ tvTimer = ""
      /\ tvSent = [typed |-> 0, to |-> 0]
  BY SocketFacts DEF TermInit
<1>5. RouteInv
  <2>1. 1 .. Len(tvInput) = {}
    BY <1>2
  <2> QED BY <1>4, <2>1 DEF RouteInv, SockOurs, InputOurs, ChecksOurs,
                            TermInputRouted
<1>6. BackInv
  <2>1. Len(tvInput) + KeyAsked <= tvCount["key"]
    <3>1. KeyAsked = 0
      BY <1>4 DEF KeyAsked
    <3> QED BY <1>1, <1>2, <3>1, NatFacts
  <2> QED BY <1>4, <2>1 DEF BackInv, NamesAgree, SvcIsPage, InputTyped,
                            TermReconnects
<1> QED BY <1>3, <1>5, <1>6 DEF ConnIInv

LEMMA ConnStep == ConnIInv /\ [TermNext]_termVars => ConnIInv'
<1> SUFFICES ASSUME ConnIInv, [TermNext]_termVars PROVE ConnIInv'
  OBVIOUS
<1>1. CASE UNCHANGED termVars
  BY <1>1, StillKeeps DEF termVars, tvConn, tvKeys
<1>2. CASE TermNext
  BY <1>2, OpenKeeps, TermCloseKeeps, StatusKeeps, RenameKeeps, SockOpenKeeps,
     SockLostKeeps, TermReconnectTimerKeeps, ExistsKeeps, MissingKeeps,
     TypeRawKeeps, EnterKeeps, DrainKeeps, AskInterruptKeeps, InterruptKeeps,
     DrawKeeps DEF TermNext
<1> QED BY <1>1, <1>2

\* The inductive invariant of the terminal's connection: socket, waiting input
\* and last existence check belong to the opening, names agree with the page
\* (module/terminal.js).
THEOREM ConnectionInvariant == TermSpec => []ConnIInv
<1> QED BY ConnStarts, ConnStep, PTL DEF TermSpec

\* What is typed for one opening of a terminal is only sent on a socket of that
\* opening, and a lost connection comes back (enqueueSocketInput,
\* drainSocketInput, connectWebSocket).
THEOREM ConnectionHolds == TermSpec => []TermConnection
<1>1. ConnIInv => TermConnection
  BY DEF ConnIInv, RouteInv, BackInv, TermConnection
<1> QED BY <1>1, ConnectionInvariant, PTL

-----------------------------------------------------------------------------
(* What is drawn.  The queue ends with the write that leaves the screen as *)
(* the page believes it to be, and holds the fit that is waited for.       *)
Queues == Seq(TermWrites)
LastOf(s) == s[Len(s)]
TermShown == IF tvQueue = <<>> THEN tvScreen ELSE ScreenAfter(LastOf(tvQueue))
FitWaits == tvWriting = "fit" \/ \E i \in DOMAIN tvQueue : tvQueue[i] = "fit"

DrawTypes ==
  /\ tvTerm \in {"off", "plain", "pty"}
  /\ tvLine \in BOOLEAN /\ tvPrompt \in BOOLEAN /\ tvResizing \in BOOLEAN
  /\ tvQueue \in Queues
  /\ tvWriting \in TermWrites \cup {"none"}
  /\ tvOutput \in Nat
  /\ tvScreen \in {"text", "line"}
  /\ tvDropped \in BOOLEAN

(* The xterm was made for the mode the page knows.                         *)
ModeAgrees == /\ tvSvc.mode \in TermModes
              /\ tvTerm # "off" => tvSvc.mode = tvTerm

(* The page draws nothing by itself but in a plain terminal.               *)
PlainOnly ==
  tvTerm # "plain" =>
    /\ tvQueue = <<>> /\ tvWriting = "none" /\ tvScreen = "text"
    /\ ~tvPrompt /\ ~tvResizing /\ tvOutput = 0

(* A queue that waits has a write before it.                               *)
QueueMoves == tvWriting = "none" => tvQueue = <<>>

LineFollows == ~tvDropped => (tvPrompt <=> TermShown = "line")

DrawIInv == /\ DrawTypes /\ ModeAgrees /\ PlainOnly /\ QueueMoves /\ LineFollows
            /\ TermResizeEnds

drawVars == <<tvTerm, tvLine, tvPrompt, tvResizing, tvQueue, tvWriting, tvOutput,
              tvScreen, tvDropped>>

LEMMA DrawFrame ==
  ASSUME DrawIInv, UNCHANGED drawVars, tvSvc'.mode = tvSvc.mode
  PROVE  DrawIInv'
BY DEF DrawIInv, DrawTypes, ModeAgrees, PlainOnly, QueueMoves, LineFollows, TermShown,
       TermResizeEnds, drawVars

LEMMA WriteFacts ==
  /\ <<>> \in Queues
  /\ \A w \in TermWrites : /\ ScreenAfter(w) \in {"text", "line"}
                           /\ ScreenAfter(w) = "line" <=> w = "draw"
BY EmptySeq DEF Queues, TermWrites, ScreenAfter

LEMMA LastFacts ==
  ASSUME NEW s \in Queues, s # <<>>
  PROVE  /\ Len(s) \in Nat /\ Len(s) > 0 /\ LastOf(s) \in TermWrites
         /\ \A i \in DOMAIN s : s[i] \in TermWrites
         /\ DOMAIN s = 1 .. Len(s)
BY EmptySeq, LenProperties, ElementOfSeq DEF Queues, LastOf

LEMMA JoinFacts ==
  ASSUME NEW s \in Queues, NEW t \in Queues
  PROVE  /\ s \o t \in Queues
         /\ t # <<>> => s \o t # <<>> /\ LastOf(s \o t) = LastOf(t)
         /\ t = <<>> => s \o t = s
         /\ s = <<>> => s \o t = t
         /\ \A i \in DOMAIN s : i \in DOMAIN (s \o t) /\ (s \o t)[i] = s[i]
         /\ \A i \in DOMAIN t : \E j \in DOMAIN (s \o t) : (s \o t)[j] = t[i]
<1>1. /\ s \o t \in Queues /\ Len(s \o t) = Len(s) + Len(t)
      /\ Len(s) \in Nat /\ Len(t) \in Nat
      /\ \A i \in 1 .. Len(s) + Len(t) :
           (s \o t)[i] = IF i <= Len(s) THEN s[i] ELSE t[i - Len(s)]
  BY ConcatProperties, LenProperties DEF Queues
<1>2. /\ DOMAIN s = 1 .. Len(s) /\ DOMAIN t = 1 .. Len(t)
      /\ DOMAIN (s \o t) = 1 .. Len(s) + Len(t)
  BY <1>1, LenProperties DEF Queues
<1>3. ASSUME t # <<>> PROVE s \o t # <<>> /\ LastOf(s \o t) = LastOf(t)
  <2>1. Len(t) > 0
    BY <1>3, LastFacts
  <2> QED BY <1>1, <2>1, EmptySeq DEF LastOf
<1>4. t = <<>> => s \o t = s
  BY ConcatEmptySeq DEF Queues
<1>5. s = <<>> => s \o t = t
  BY ConcatEmptySeq DEF Queues
<1>6. ASSUME NEW i \in DOMAIN s PROVE i \in DOMAIN (s \o t) /\ (s \o t)[i] = s[i]
  BY <1>1, <1>2
<1>7. ASSUME NEW i \in DOMAIN t PROVE \E j \in DOMAIN (s \o t) : (s \o t)[j] = t[i]
  <2>1. /\ i + Len(s) \in DOMAIN (s \o t) /\ ~(i + Len(s) <= Len(s))
        /\ i + Len(s) - Len(s) = i
    BY <1>1, <1>2
  <2>2. (s \o t)[i + Len(s)] = t[i]
    BY <1>1, <1>2, <2>1
  <2> QED BY <2>1, <2>2
<1> QED BY <1>1, <1>3, <1>4, <1>5, <1>6, <1>7

\* The first of the writes goes to xterm, the others wait.
LEMMA TakeFacts ==
  ASSUME NEW all \in Queues, all # <<>>, tvQueue' = Tail(all), tvWriting' = Head(all),
         tvScreen' = ScreenAfter(Head(all))
  PROVE  /\ tvQueue' \in Queues /\ tvWriting' \in TermWrites
         /\ tvScreen' \in {"text", "line"} /\ QueueMoves'
         /\ TermShown' = ScreenAfter(LastOf(all))
         /\ (\E i \in DOMAIN all : all[i] = "fit") => FitWaits'
<1>1. /\ Tail(all) \in Queues /\ Len(Tail(all)) = Len(all) - 1
      /\ \A i \in 1 .. Len(Tail(all)) : Tail(all)[i] = all[i + 1]
      /\ Head(all) = all[1]
  BY HeadTailProperties DEF Queues
<1>2. Len(all) \in Nat /\ Len(all) > 0 /\ DOMAIN all = 1 .. Len(all)
  BY LastFacts
<1>3. Head(all) \in TermWrites /\ Head(all) # "none"
  BY <1>1, <1>2, LastFacts DEF TermWrites
<1>4. TermShown' = ScreenAfter(LastOf(all))
  <2>1. CASE Tail(all) = <<>>
    <3>1. Len(all) = 1
      BY <1>1, <1>2, <2>1, EmptySeq
    <3> QED BY <1>1, <2>1, <3>1 DEF TermShown, LastOf
  <2>2. CASE Tail(all) # <<>>
    <3>1. Len(Tail(all)) \in Nat /\ Len(Tail(all)) > 0
      BY <1>1, <2>2, LastFacts
    <3>2. LastOf(Tail(all)) = LastOf(all)
      BY <1>1, <1>2, <3>1 DEF LastOf
    <3> QED BY <2>2, <3>2 DEF TermShown
  <2> QED BY <2>1, <2>2
<1>5. ASSUME NEW i \in DOMAIN all, all[i] = "fit" PROVE FitWaits'
  <2>1. CASE i = 1
    BY <1>1, <1>5, <2>1 DEF FitWaits
  <2>2. CASE i # 1
    <3>1. /\ i - 1 \in 1 .. Len(Tail(all)) /\ i - 1 + 1 = i
      BY <1>1, <1>2, <2>2
    <3>2. Tail(all)[i - 1] = "fit"
      BY <1>1, <1>5, <3>1
    <3>3. DOMAIN Tail(all) = 1 .. Len(Tail(all))
      BY <1>1, LenProperties DEF Queues
    <3> QED BY <3>1, <3>2, <3>3 DEF FitWaits
  <2> QED BY <2>1, <2>2
<1> QED BY <1>1, <1>3, <1>4, <1>5, WriteFacts DEF QueueMoves

\* queueTerminalWrite: what is shown in the end is what was queued last.
LEMMA QueueEffect ==
  ASSUME DrawTypes, QueueMoves, NEW w \in Queues, QueueWrites(w)
  PROVE  /\ tvQueue' \in Queues /\ tvWriting' \in TermWrites \cup {"none"}
         /\ tvScreen' \in {"text", "line"} /\ QueueMoves'
         /\ TermShown' = IF w = <<>> THEN TermShown ELSE ScreenAfter(LastOf(w))
         /\ FitWaits => FitWaits'
         /\ (\E i \in DOMAIN w : w[i] = "fit") => FitWaits'
<1> DEFINE all == tvQueue \o w
<1>1. /\ all \in Queues
      /\ w # <<>> => all # <<>> /\ LastOf(all) = LastOf(w)
      /\ w = <<>> => all = tvQueue
      /\ tvQueue = <<>> => all = w
      /\ \A i \in DOMAIN tvQueue : i \in DOMAIN all /\ all[i] = tvQueue[i]
      /\ \A i \in DOMAIN w : \E j \in DOMAIN all : all[j] = w[i]
  BY JoinFacts DEF DrawTypes
<1>2. \/ /\ tvWriting = "none" /\ all # <<>>
         /\ tvWriting' = Head(all) /\ tvQueue' = Tail(all)
         /\ tvScreen' = ScreenAfter(Head(all))
      \/ /\ ~(tvWriting = "none" /\ all # <<>>)
         /\ tvQueue' = all /\ tvWriting' = tvWriting /\ tvScreen' = tvScreen
  BY DEF QueueWrites
<1> HIDE DEF all
<1>3. CASE /\ tvWriting = "none" /\ all # <<>>
           /\ tvWriting' = Head(all) /\ tvQueue' = Tail(all)
           /\ tvScreen' = ScreenAfter(Head(all))
  <2>1. /\ tvQueue' \in Queues /\ tvWriting' \in TermWrites
        /\ tvScreen' \in {"text", "line"} /\ QueueMoves'
        /\ TermShown' = ScreenAfter(LastOf(all))
        /\ (\E i \in DOMAIN all : all[i] = "fit") => FitWaits'
    BY <1>1, <1>3, TakeFacts
  <2>2. tvQueue = <<>> /\ all = w
    BY <1>1, <1>3 DEF QueueMoves
  <2>3. FitWaits => FitWaits'
    BY <1>1, <1>3, <2>1 DEF FitWaits
  <2> QED BY <1>3, <2>1, <2>2, <2>3
<1>4. CASE /\ ~(tvWriting = "none" /\ all # <<>>)
           /\ tvQueue' = all /\ tvWriting' = tvWriting /\ tvScreen' = tvScreen
  <2>1. QueueMoves'
    BY <1>4 DEF QueueMoves
  <2>2. TermShown' = IF w = <<>> THEN TermShown ELSE ScreenAfter(LastOf(w))
    BY <1>1, <1>4 DEF TermShown
  <2>3. FitWaits => FitWaits'
    BY <1>1, <1>4 DEF FitWaits
  <2>4. (\E i \in DOMAIN w : w[i] = "fit") => FitWaits'
    BY <1>1, <1>4 DEF FitWaits
  <2> QED BY <1>1, <1>4, <2>1, <2>2, <2>3, <2>4 DEF DrawTypes
<1> QED BY <1>2, <1>3, <1>4

\* renderPlainTerminalPromptLine: nothing, or writes that end with the line as
\* it is to be.
LEMMA RenderFacts ==
  ASSUME tvTerm # "off", IsPlain, NEW line \in BOOLEAN, NEW visible \in BOOLEAN
  PROVE  /\ RenderWrites(line, visible, TRUE) = <<>>
         /\ RenderedVisible(line, visible, TRUE) = visible
         /\ RenderedVisible(line, visible, FALSE) = line
         /\ RenderWrites(line, visible, FALSE) \in Queues
         /\ RenderWrites(line, visible, FALSE) = <<>> => ~line /\ ~visible
         /\ RenderWrites(line, visible, FALSE) # <<>> =>
              (ScreenAfter(LastOf(RenderWrites(line, visible, FALSE))) = "line" <=> line)
<1>1. /\ <<"erase", "draw">> \in Queues /\ LastOf(<<"erase", "draw">>) = "draw"
      /\ <<"draw">> \in Queues /\ LastOf(<<"draw">>) = "draw"
      /\ <<"erase">> \in Queues /\ LastOf(<<"erase">>) = "erase"
      /\ <<"erase", "draw">> # <<>> /\ <<"draw">> # <<>> /\ <<"erase">> # <<>>
  BY DEF Queues, LastOf, TermWrites
<1>2. ScreenAfter("draw") = "line" /\ ScreenAfter("erase") = "text"
  BY DEF ScreenAfter
<1>3. <<>> \in Queues
  BY WriteFacts
<1> QED BY <1>1, <1>2, <1>3 DEF RenderWrites, RenderedVisible

LEMMA FreshKeeps ==
  ASSUME FreshScreen, tvTerm' \in {"off", "plain", "pty"},
         tvSvc'.mode \in TermModes, tvTerm' # "off" => tvSvc'.mode = tvTerm'
  PROVE  DrawIInv'
<1>1. /\ tvQueue' = <<>> /\ tvWriting' = "none" /\ tvScreen' = "text"
      /\ tvDropped' = FALSE /\ tvLine' = FALSE /\ tvPrompt' = FALSE
      /\ tvResizing' = FALSE /\ tvOutput' = 0
  BY DEF FreshScreen
<1>2. DrawTypes'
  BY <1>1, WriteFacts DEF DrawTypes
<1>3. ModeAgrees' /\ PlainOnly' /\ QueueMoves' /\ LineFollows' /\ TermResizeEnds'
  BY <1>1 DEF ModeAgrees, PlainOnly, QueueMoves, LineFollows, TermShown, TermResizeEnds
<1> QED BY <1>2, <1>3 DEF DrawIInv

\* What a reset of the queue leaves is consistent, or known to have dropped a
\* write.
LEMMA ResetKeeps ==
  ASSUME DrawIInv, ResetPlain, UNCHANGED <<tvTerm, tvSvc>>
  PROVE  DrawIInv'
<1>1. /\ tvQueue' = <<>> /\ tvWriting' = "none"
      /\ tvScreen' = IF tvTerm # "off" /\ tvPrompt THEN "text" ELSE tvScreen
      /\ tvDropped' = (tvDropped \/ tvQueue # <<>>)
      /\ tvLine' = FALSE /\ tvPrompt' = FALSE /\ tvResizing' = FALSE
      /\ tvOutput' = 0
  BY DEF ResetPlain
<1>2. DrawTypes'
  BY <1>1, WriteFacts DEF DrawIInv, DrawTypes
<1>3. ModeAgrees' /\ QueueMoves' /\ TermResizeEnds'
  BY <1>1 DEF DrawIInv, ModeAgrees, QueueMoves, TermResizeEnds
<1>4. PlainOnly'
  BY <1>1 DEF DrawIInv, PlainOnly
<1>5. LineFollows'
  <2>1. SUFFICES ASSUME ~tvDropped' PROVE tvScreen' = "text"
    BY <1>1 DEF LineFollows, TermShown
  <2>2. ~tvDropped /\ tvQueue = <<>>
    BY <1>1, <2>1
  <2>3. tvPrompt <=> tvScreen = "line"
    BY <2>2 DEF DrawIInv, LineFollows, TermShown
  <2>4. tvPrompt => tvTerm # "off"
    BY DEF DrawIInv, PlainOnly
  <2>5. tvScreen \in {"text", "line"}
    BY DEF DrawIInv, DrawTypes
  <2> QED BY <1>1, <2>3, <2>4, <2>5
<1> QED BY <1>2, <1>3, <1>4, <1>5 DEF DrawIInv

\* Writes are queued in a plain terminal, and the page's belief follows them.
LEMMA QueuedKeeps ==
  ASSUME DrawIInv, tvTerm = "plain", NEW w \in Queues, QueueWrites(w),
         UNCHANGED <<tvTerm, tvSvc, tvDropped>>,
         tvLine' \in BOOLEAN, tvPrompt' \in BOOLEAN, tvResizing' \in BOOLEAN,
         tvOutput' \in Nat,
         w = <<>> => tvPrompt' = tvPrompt,
         w # <<>> => (tvPrompt' <=> ScreenAfter(LastOf(w)) = "line"),
         tvResizing' => tvResizing \/ \E i \in DOMAIN w : w[i] = "fit"
  PROVE  DrawIInv'
<1>1. /\ tvQueue' \in Queues /\ tvWriting' \in TermWrites \cup {"none"}
      /\ tvScreen' \in {"text", "line"} /\ QueueMoves'
      /\ TermShown' = IF w = <<>> THEN TermShown ELSE ScreenAfter(LastOf(w))
      /\ FitWaits => FitWaits'
      /\ (\E i \in DOMAIN w : w[i] = "fit") => FitWaits'
  BY QueueEffect DEF DrawIInv
<1>2. DrawTypes'
  BY <1>1 DEF DrawIInv, DrawTypes
<1>3. ModeAgrees' /\ PlainOnly'
  BY DEF DrawIInv, ModeAgrees, PlainOnly
<1>4. LineFollows'
  BY <1>1 DEF DrawIInv, LineFollows
<1>5. TermResizeEnds'
  BY <1>1 DEF DrawIInv, TermResizeEnds, FitWaits
<1> QED BY <1>1, <1>2, <1>3, <1>4, <1>5 DEF DrawIInv

\* A terminal that is drawn in is plain, as its instance is.
LEMMA PlainFacts ==
  ASSUME DrawIInv
  PROVE  /\ tvTerm # "off" /\ IsPlain => tvTerm = "plain"
         /\ tvTerm = "plain" => tvTerm # "off" /\ IsPlain
         /\ tvTerm # "off" /\ ~IsPlain => tvTerm # "plain"
BY DEF DrawIInv, DrawTypes, ModeAgrees, IsPlain

LEMMA CharDraws ==
  ASSUME DrawIInv, NEW line \in BOOLEAN, tvTerm # "off", IsPlain, tvLine' = line,
         tvPrompt' = RenderedVisible(line, tvPrompt, tvResizing),
         QueueWrites(RenderWrites(line, tvPrompt, tvResizing)),
         UNCHANGED <<tvTerm, tvSvc, tvResizing, tvOutput, tvDropped>>
  PROVE  DrawIInv'
<1>1. tvPrompt \in BOOLEAN /\ tvResizing \in BOOLEAN /\ tvOutput \in Nat
  BY DEF DrawIInv, DrawTypes
<1>2. tvTerm = "plain"
  BY PlainFacts
<1>3. CASE tvResizing
  <2>1. RenderWrites(line, tvPrompt, TRUE) = <<>>
        /\ RenderedVisible(line, tvPrompt, TRUE) = tvPrompt
    BY <1>1, RenderFacts
  <2>2. QueueWrites(<<>>) /\ tvPrompt' = tvPrompt
    <3>1. tvResizing = TRUE
      BY <1>1, <1>3
    <3> QED BY <2>1, <3>1
  <2> QED BY <1>1, <1>2, <2>2, WriteFacts, QueuedKeeps
<1>4. CASE ~tvResizing
  <2>1. PICK w \in Queues : w = RenderWrites(line, tvPrompt, FALSE)
    BY <1>1, RenderFacts
  <2>2. /\ RenderedVisible(line, tvPrompt, FALSE) = line
        /\ w = <<>> => ~line /\ ~tvPrompt
        /\ w # <<>> => (ScreenAfter(LastOf(w)) = "line" <=> line)
    BY <1>1, <2>1, RenderFacts
  <2>3. QueueWrites(w) /\ tvPrompt' = line
    <3>1. tvResizing = FALSE
      BY <1>1, <1>4
    <3> QED BY <2>1, <2>2, <3>1
  <2> QED BY <1>1, <1>2, <2>2, <2>3, QueuedKeeps
<1> QED BY <1>3, <1>4

-----------------------------------------------------------------------------
(* The steps, on what is drawn. *)

LEMMA PagesDraw ==
  ASSUME DrawIInv,
         \/ \E n \in TermNames, mode \in TermModes : TermOpen(n, mode)
         \/ TermClose \/ TermInstanceMissing
         \/ \E mode \in TermModes : TermStatus(mode)
         \/ \E n \in TermNames : TermRename(n)
  PROVE  DrawIInv'
<1>1. ASSUME NEW n \in TermNames, NEW mode \in TermModes, TermOpen(n, mode)
      PROVE  DrawIInv'
  <2>1. /\ FreshScreen /\ tvSvc'.mode = mode
        /\ tvTerm' = IF mode = "none" THEN "off" ELSE mode
    BY <1>1 DEF TermOpen
  <2> QED BY <2>1, FreshKeeps DEF TermModes
<1>2. ASSUME CloseTerminal PROVE DrawIInv'
  BY <1>2, FreshKeeps, SvcFacts DEF CloseTerminal, TermModes
<1>3. ASSUME NEW name, NEW mode \in TermModes, SetCurrentSvc(name, mode)
      PROVE  DrawIInv'
  <2>1. tvSvc'.mode = mode
    BY <1>3 DEF SetCurrentSvc
  <2>2. CASE mode = "none"
    BY <1>3, <2>1, <2>2, FreshKeeps DEF SetCurrentSvc
  <2>3. CASE mode # "none" /\ tvTerm # mode
    BY <1>3, <2>1, <2>3, FreshKeeps DEF SetCurrentSvc, TermModes
  <2>4. CASE mode # "none" /\ tvTerm = mode
    <3>1. UNCHANGED drawVars
      BY <1>3, <2>4 DEF SetCurrentSvc, tvDraw, drawVars
    <3>2. tvSvc.mode = mode
      BY <2>4 DEF DrawIInv, ModeAgrees, DrawTypes, TermModes
    <3> QED BY <2>1, <3>1, <3>2, DrawFrame
  <2> QED BY <2>2, <2>3, <2>4
<1>4. ASSUME TermInstanceMissing PROVE DrawIInv'
  <2>1. CASE CloseTerminal
    BY <1>2, <2>1
  <2>2. CASE UNCHANGED <<tvSvc, tvTerm, tvDraw>>
    BY <2>2, DrawFrame DEF tvDraw, drawVars
  <2> QED BY <1>4, <2>1, <2>2 DEF TermInstanceMissing
<1>5. ASSUME NEW n \in TermNames, TermRename(n) PROVE DrawIInv'
  <2>1. SetCurrentSvc(n, tvSvc.mode)
    BY <1>5 DEF TermRename
  <2>2. tvSvc.mode \in TermModes
    BY DEF DrawIInv, ModeAgrees
  <2> QED BY <1>3, <2>1, <2>2
<1> QED BY <1>1, <1>2, <1>3, <1>4, <1>5 DEF TermClose, TermStatus

LEMMA ConnectionDraws ==
  ASSUME DrawIInv,
         \/ TermSockOpen \/ TermSockLost \/ TermReconnectTimer
         \/ TermInstanceExists \/ TermTypeRaw \/ TermDrain
         \/ TermAskInterrupt \/ \E ok \in BOOLEAN : TermInterrupt(ok)
  PROVE  DrawIInv'
<1>1. /\ UNCHANGED <<tvTerm, tvSvc>>
      /\ ResetPlain \/ UNCHANGED tvDraw
  BY DEF TermSockOpen, TermSockLost, TermReconnectTimer, TermInstanceExists, TermTypeRaw,
         TermDrain, TermAskInterrupt, TermInterrupt
<1>2. CASE ResetPlain
  BY <1>1, <1>2, ResetKeeps
<1>3. CASE UNCHANGED tvDraw
  BY <1>1, <1>3, DrawFrame DEF tvDraw, drawVars
<1> QED BY <1>1, <1>2, <1>3

LEMMA LineDraws ==
  ASSUME DrawIInv, TermEnter \/ \E b \in BOOLEAN : TermTypeChar(b)
  PROVE  DrawIInv'
<1>1. CASE TermEnter
  <2>1. tvTerm # "off" /\ IsPlain /\ UNCHANGED <<tvTerm, tvSvc>>
    BY <1>1 DEF TermEnter
  <2>2. CASE ResetPlain
    BY <2>1, <2>2, ResetKeeps
  <2>3. CASE /\ tvLine' = FALSE
             /\ tvPrompt' = RenderedVisible(FALSE, tvPrompt, tvResizing)
             /\ QueueWrites(RenderWrites(FALSE, tvPrompt, tvResizing))
             /\ UNCHANGED <<tvResizing, tvOutput, tvDropped>>
    <3>1. FALSE \in BOOLEAN
      OBVIOUS
    <3> QED BY <2>1, <2>3, <3>1, CharDraws, Zenon
  <2> QED BY <1>1, <2>2, <2>3 DEF TermEnter
<1>2. ASSUME NEW b \in BOOLEAN, TermTypeChar(b) PROVE DrawIInv'
  <2>1. /\ tvTerm # "off" /\ IsPlain /\ UNCHANGED <<tvTerm, tvSvc>> /\ tvLine' = b
        /\ tvPrompt' = RenderedVisible(b, tvPrompt, tvResizing)
        /\ QueueWrites(RenderWrites(b, tvPrompt, tvResizing))
        /\ UNCHANGED <<tvResizing, tvOutput, tvDropped>>
    BY <1>2 DEF TermTypeChar
  <2> QED BY <2>1, CharDraws
<1> QED BY <1>1, <1>2

LEMMA OutputDraws == ASSUME DrawIInv, TermOutput PROVE DrawIInv'
<1>1. /\ tvTerm # "off"
      /\ UNCHANGED <<tvTerm, tvSvc, tvLine, tvPrompt, tvResizing, tvQueue, tvWriting,
                     tvDropped>>
      /\ IF IsPlain THEN tvOutput' = tvOutput + 1 /\ UNCHANGED tvScreen
         ELSE tvScreen' = "text" /\ UNCHANGED tvOutput
  BY DEF TermOutput
<1>2. CASE IsPlain
  <2>1. tvTerm = "plain" /\ tvOutput \in Nat
    BY <1>1, <1>2, PlainFacts DEF DrawIInv, DrawTypes
  <2>2. tvOutput + 1 \in Nat
    BY <2>1
  <2>3. DrawTypes'
    BY <1>1, <1>2, <2>2 DEF DrawIInv, DrawTypes
  <2> QED BY <1>1, <1>2, <2>1, <2>3
          DEF DrawIInv, ModeAgrees, PlainOnly, QueueMoves, LineFollows, TermShown, TermResizeEnds
<1>3. CASE ~IsPlain
  <2>1. tvTerm # "plain"
    BY <1>1, <1>3, PlainFacts
  <2>2. tvScreen = "text"
    BY <2>1 DEF DrawIInv, PlainOnly
  <2> QED BY <1>1, <1>3, <2>2, DrawFrame DEF drawVars
<1> QED BY <1>2, <1>3

LEMMA FitDraws == ASSUME DrawIInv, TermFit PROVE DrawIInv'
<1>1. UNCHANGED <<tvTerm, tvSvc, tvLine, tvOutput, tvDropped>> /\ tvTerm # "off"
  BY DEF TermFit
<1>2. CASE IsPlain /\ tvPrompt /\ tvLine
  <2>1. tvResizing' = TRUE /\ tvPrompt' = FALSE /\ QueueWrites(<<"fit">>)
    BY <1>2 DEF TermFit
  <2>2. PICK w : w = <<"fit">>
    OBVIOUS
  <2>3. /\ w \in Queues /\ w # <<>> /\ 1 \in DOMAIN w /\ w[1] = "fit"
        /\ ScreenAfter(LastOf(w)) # "line"
    BY <2>2 DEF Queues, TermWrites, LastOf, ScreenAfter
  <2>4. tvTerm = "plain" /\ tvLine \in BOOLEAN /\ tvOutput \in Nat
    BY <1>1, <1>2, PlainFacts DEF DrawIInv, DrawTypes
  <2> QED BY <1>1, <2>1, <2>2, <2>3, <2>4, QueuedKeeps
<1>3. CASE ~(IsPlain /\ tvPrompt /\ tvLine)
  BY <1>1, <1>3, DrawFrame DEF TermFit, drawVars
<1> QED BY <1>2, <1>3

LEMMA FlushDraws == ASSUME DrawIInv, TermFlush PROVE DrawIInv'
<1> DEFINE keep == IsPlain /\ tvPrompt
           render == RenderWrites(tvLine, FALSE, tvResizing)
           w == (IF keep THEN <<"erase">> ELSE <<>>) \o <<"print">>
                \o (IF keep THEN render ELSE <<>>)
<1>1. /\ tvOutput > 0 /\ tvTerm # "off" /\ tvOutput' = 0 /\ QueueWrites(w)
      /\ tvPrompt' = IF keep THEN RenderedVisible(tvLine, FALSE, tvResizing) ELSE tvPrompt
      /\ UNCHANGED <<tvTerm, tvSvc, tvLine, tvResizing, tvDropped>>
  BY DEF TermFlush
<1>2. tvLine \in BOOLEAN /\ tvPrompt \in BOOLEAN /\ tvResizing \in BOOLEAN /\ FALSE \in BOOLEAN
  BY DEF DrawIInv, DrawTypes
<1>3. tvTerm = "plain" /\ IsPlain
  <2>1. tvOutput # 0
    BY <1>1
  <2> QED BY <2>1, PlainFacts DEF DrawIInv, PlainOnly
<1>4. /\ render \in Queues
      /\ tvResizing => render = <<>> /\ RenderedVisible(tvLine, FALSE, tvResizing) = FALSE
      /\ ~tvResizing => RenderedVisible(tvLine, FALSE, tvResizing) = tvLine
      /\ ~tvResizing /\ render = <<>> => ~tvLine
      /\ ~tvResizing /\ render # <<>> => (ScreenAfter(LastOf(render)) = "line" <=> tvLine)
  <2>1. CASE tvResizing = TRUE
    BY <1>1, <1>2, <1>3, <2>1, RenderFacts, WriteFacts
  <2>2. CASE tvResizing = FALSE
    BY <1>1, <1>2, <1>3, <2>2, RenderFacts
  <2> QED BY <1>2, <2>1, <2>2
<1> HIDE DEF render
<1>5. PICK head \in Queues :
        head = (IF keep THEN <<"erase">> ELSE <<>>) \o <<"print">>
        /\ head # <<>> /\ ScreenAfter(LastOf(head)) = "text"
  <2>1. /\ <<"erase">> \in Queues /\ <<>> \in Queues /\ <<"print">> \in Queues
        /\ <<"print">> # <<>> /\ LastOf(<<"print">>) = "print"
    BY WriteFacts DEF Queues, TermWrites, LastOf
  <2>2. PICK a \in Queues : a = IF keep THEN <<"erase">> ELSE <<>>
    BY <2>1
  <2>3. /\ a \o <<"print">> \in Queues /\ a \o <<"print">> # <<>>
        /\ LastOf(a \o <<"print">>) = "print"
    BY <2>1, JoinFacts
  <2>4. ScreenAfter("print") = "text"
    BY DEF ScreenAfter
  <2> QED BY <2>2, <2>3, <2>4
<1>6. w = head \o (IF keep THEN render ELSE <<>>)
  BY <1>5
<1> HIDE DEF w
<1>7. /\ w \in Queues /\ w # <<>>
      /\ tvPrompt' \in BOOLEAN
      /\ tvPrompt' <=> ScreenAfter(LastOf(w)) = "line"
  <2>1. CASE keep /\ render # <<>>
    <3>1. w \in Queues /\ w # <<>> /\ LastOf(w) = LastOf(render)
      BY <1>4, <1>5, <1>6, <2>1, JoinFacts
    <3>2. ~tvResizing
      BY <1>4, <2>1
    <3> QED BY <1>1, <1>2, <1>4, <2>1, <3>1, <3>2
  <2>2. CASE keep /\ render = <<>>
    <3>1. w = head
      BY <1>4, <1>5, <1>6, <2>2, JoinFacts
    <3>2. tvPrompt' = FALSE
      BY <1>1, <1>2, <1>4, <2>2
    <3> QED BY <1>5, <3>1, <3>2
  <2>3. CASE ~keep
    <3>1. w = head
      BY <1>5, <1>6, <2>3, WriteFacts, JoinFacts
    <3>2. tvPrompt' = FALSE
      BY <1>1, <1>2, <1>3, <2>3
    <3> QED BY <1>5, <3>1, <3>2
  <2> QED BY <2>1, <2>2, <2>3
<1> QED BY <1>1, <1>2, <1>3, <1>7, QueuedKeeps

LEMMA WrittenDraws == ASSUME DrawIInv, TermWritten PROVE DrawIInv'
<1> DEFINE fits == tvWriting = "fit"
           render == IF fits THEN RenderWrites(tvLine, tvPrompt, FALSE) ELSE <<>>
           all == tvQueue \o render
<1>1. /\ tvWriting # "none"
      /\ tvResizing' = (tvResizing /\ ~fits)
      /\ tvPrompt' = IF fits THEN RenderedVisible(tvLine, tvPrompt, FALSE) ELSE tvPrompt
      /\ tvWriting' = IF all = <<>> THEN "none" ELSE Head(all)
      /\ tvQueue' = IF all = <<>> THEN <<>> ELSE Tail(all)
      /\ tvScreen' = IF all = <<>> THEN tvScreen ELSE ScreenAfter(Head(all))
      /\ UNCHANGED <<tvTerm, tvSvc, tvLine, tvOutput, tvDropped>>
  BY DEF TermWritten
<1>2. tvTerm = "plain" /\ tvTerm # "off" /\ IsPlain
  BY <1>1, PlainFacts DEF DrawIInv, PlainOnly
<1>3. tvLine \in BOOLEAN /\ tvPrompt \in BOOLEAN /\ tvResizing \in BOOLEAN
      /\ tvOutput \in Nat /\ tvQueue \in Queues
  BY DEF DrawIInv, DrawTypes
<1>4. /\ render \in Queues /\ tvPrompt' \in BOOLEAN
      /\ render = <<>> => tvPrompt' = tvPrompt
      /\ render # <<>> => (tvPrompt' <=> ScreenAfter(LastOf(render)) = "line")
  <2>1. CASE fits
    BY <1>1, <1>2, <1>3, <2>1, RenderFacts
  <2>2. CASE ~fits
    BY <1>1, <1>3, <2>2, WriteFacts
  <2> QED BY <2>1, <2>2
<1> HIDE DEF render
<1>5. /\ all \in Queues
      /\ render # <<>> => all # <<>> /\ LastOf(all) = LastOf(render)
      /\ render = <<>> => all = tvQueue
      /\ \A i \in DOMAIN tvQueue : i \in DOMAIN all /\ all[i] = tvQueue[i]
  BY <1>3, <1>4, JoinFacts
<1> HIDE DEF all
<1>6. /\ tvQueue' \in Queues /\ tvWriting' \in TermWrites \cup {"none"}
      /\ tvScreen' \in {"text", "line"} /\ QueueMoves'
      /\ TermShown' = IF render = <<>> THEN TermShown ELSE ScreenAfter(LastOf(render))
      /\ (\E i \in DOMAIN all : all[i] = "fit") => FitWaits'
  <2>1. CASE all = <<>>
    <3>1. /\ tvWriting' = "none" /\ tvQueue' = <<>> /\ tvScreen' = tvScreen
          /\ render = <<>> /\ tvQueue = <<>>
      BY <1>1, <1>5, <2>1
    <3>2. TermShown' = TermShown
      BY <3>1 DEF TermShown
    <3>3. DOMAIN all = {}
      BY <2>1
    <3> QED BY <3>1, <3>2, <3>3, WriteFacts DEF QueueMoves, DrawIInv, DrawTypes
  <2>2. CASE all # <<>>
    <3>1. /\ tvQueue' \in Queues /\ tvWriting' \in TermWrites
          /\ tvScreen' \in {"text", "line"} /\ QueueMoves'
          /\ TermShown' = ScreenAfter(LastOf(all))
          /\ (\E i \in DOMAIN all : all[i] = "fit") => FitWaits'
      BY <1>1, <1>5, <2>2, TakeFacts
    <3>2. render = <<>> => TermShown = ScreenAfter(LastOf(all))
      BY <1>5, <2>2 DEF TermShown
    <3> QED BY <1>5, <3>1, <3>2
  <2> QED BY <2>1, <2>2
<1>7. DrawTypes'
  BY <1>1, <1>3, <1>4, <1>6 DEF DrawIInv, DrawTypes
<1>8. ModeAgrees' /\ PlainOnly'
  BY <1>1, <1>2 DEF DrawIInv, ModeAgrees, PlainOnly
<1>9. LineFollows'
  BY <1>1, <1>4, <1>6 DEF DrawIInv, LineFollows
<1>10. TermResizeEnds'
  <2>1. tvResizing' => tvResizing /\ ~fits
    BY <1>1
  <2>2. tvResizing' => \E i \in DOMAIN tvQueue : tvQueue[i] = "fit"
    BY <2>1 DEF DrawIInv, TermResizeEnds
  <2> QED BY <1>5, <1>6, <2>2 DEF TermResizeEnds, FitWaits
<1> QED BY <1>6, <1>7, <1>8, <1>9, <1>10 DEF DrawIInv

LEMMA DrawStarts == TermInit => DrawIInv
<1> SUFFICES ASSUME TermInit PROVE DrawIInv
  OBVIOUS
<1>1. /\ tvTerm = "off" /\ tvLine = FALSE /\ tvPrompt = FALSE /\ tvResizing = FALSE
      /\ tvQueue = <<>> /\ tvWriting = "none" /\ tvOutput = 0
      /\ tvScreen = "text" /\ tvDropped = FALSE
  BY DEF TermInit
<1>2. DrawTypes
  BY <1>1, WriteFacts DEF DrawTypes
<1>3. tvSvc.mode = "none"
  BY SvcFacts DEF TermInit
<1> QED BY <1>1, <1>2, <1>3 DEF DrawIInv, ModeAgrees, TermModes, PlainOnly, QueueMoves,
                              LineFollows, TermShown, TermResizeEnds

LEMMA DrawStep == DrawIInv /\ [TermNext]_termVars => DrawIInv'
<1> SUFFICES ASSUME DrawIInv, [TermNext]_termVars PROVE DrawIInv'
  OBVIOUS
<1>1. CASE UNCHANGED termVars
  BY <1>1, DrawFrame DEF termVars, tvDraw, drawVars
<1>2. CASE TermNext
  BY <1>2, PagesDraw, ConnectionDraws, LineDraws, OutputDraws, FitDraws, FlushDraws,
     WrittenDraws DEF TermNext
<1> QED BY <1>1, <1>2

\* The input line the page draws is in step with the screen once nothing is
\* left to write, and a fit that waits is queued (renderPlainTerminalPromptLine,
\* flushPlainTerminalRemoteOutput, fitActiveTerminal).
THEOREM DrawingHolds == TermSpec => []TermDrawn
<1>1. DrawIInv => TermDrawn
  <2>1. DrawIInv => TermLineHonest
    BY DEF DrawIInv, QueueMoves, LineFollows, TermShown, TermLineHonest
  <2> QED BY <2>1 DEF DrawIInv, TermDrawn
<1> QED BY <1>1, DrawStarts, DrawStep, PTL DEF TermSpec

-----------------------------------------------------------------------------
(* The types of what the other invariants do not speak of.                 *)
NamedChecks == [seq : Nat, name : TermNames, session : Nat]
Sendings == [typed : Nat, to : Nat]
KindInv == tvChecks \in SUBSET NamedChecks /\ tvSent \in Sendings

LEMMA SendingFacts ==
  ASSUME ConnIInv
  PROVE  /\ [typed |-> Session, to |-> tvSock.session] \in Sendings
         /\ Len(tvInput) > 0 => [typed |-> Head(tvInput), to |-> tvSock.session] \in Sendings
<1>1. Session \in Nat /\ tvSock.session \in Nat /\ tvInput \in Seq(Nat)
  BY CountValues, SocketFacts DEF ConnIInv, ConnTypes, Session
<1>2. Len(tvInput) > 0 => Head(tvInput) \in Nat
  BY <1>1, EmptySeq, HeadTailProperties
<1> QED BY <1>1, <1>2 DEF Sendings

LEMMA KindStep ==
  ASSUME ConnIInv, KindInv, [TermNext]_termVars
  PROVE  KindInv'
<1>1. tvSent' \in Sendings
  <2>1. \/ tvSent' = tvSent
        \/ tvSent' = [typed |-> Session, to |-> tvSock.session]
        \/ Len(tvInput) > 0 /\ tvSent' = [typed |-> Head(tvInput), to |-> tvSock.session]
    <3>1. CASE TermDrain
      BY <3>1 DEF TermDrain, ConnIInv, RouteInv, InputOurs
    <3>2. ASSUME SendInput
          PROVE  \/ tvSent' = tvSent
                 \/ tvSent' = [typed |-> Session, to |-> tvSock.session]
      BY <3>2 DEF SendInput
    <3>3. CASE TermTypeRaw \/ TermEnter \/ \E ok \in BOOLEAN : TermInterrupt(ok)
      BY <3>2, <3>3 DEF TermTypeRaw, TermEnter, TermInterrupt
    <3>4. CASE ~(\/ TermDrain \/ TermTypeRaw \/ TermEnter
                 \/ \E ok \in BOOLEAN : TermInterrupt(ok))
      BY <3>4 DEF TermNext, TermOpen, TermClose, CloseTerminal, TermStatus, TermRename,
           SetCurrentSvc, TermSockOpen, TermSockLost, TermReconnectTimer,
           TermInstanceExists, TermInstanceMissing, TermAskInterrupt, TermTypeChar,
           TermOutput, TermFlush, TermWritten, TermFit, tvKeys, termVars
    <3> QED BY <3>1, <3>3, <3>4
  <2> QED BY <2>1, SendingFacts DEF KindInv
<1>2. tvChecks' \in SUBSET NamedChecks
  <2>1. CASE TermReconnectTimer
    <3> DEFINE new == [seq |-> tvSeq + 1, name |-> tvTimer, session |-> Session]
    <3>1. tvTimer # "" /\ tvChecks' = tvChecks \cup {new}
      BY <2>1 DEF TermReconnectTimer
    <3>2. /\ tvTimer \in TermNames /\ Session \in Nat /\ tvSeq \in Nat
      BY <3>1, CountValues DEF ConnIInv, ConnTypes, TermNamesOrNone, Session
    <3>3. tvSeq + 1 \in Nat
      BY <3>2, NatFacts
    <3>4. new \in NamedChecks
      BY <3>2, <3>3 DEF NamedChecks
    <3> QED BY <3>1, <3>4 DEF KindInv
  <2>2. CASE ~TermReconnectTimer
    <3>1. tvChecks' \subseteq tvChecks
      BY <2>2 DEF TermNext, TermOpen, TermClose, TermStatus, TermRename, SetCurrentSvc,
           TermSockOpen, TermSockLost, TermInstanceExists, TermInstanceMissing,
           TermTypeRaw, TermEnter, TermDrain, TermAskInterrupt, TermInterrupt,
           TermTypeChar, TermOutput, TermFlush, TermWritten, TermFit, tvConn, termVars
    <3> QED BY <3>1 DEF KindInv
  <2> QED BY <2>1, <2>2
<1> QED BY <1>1, <1>2 DEF KindInv

\* The terminal's state keeps its shape.
THEOREM TermTypesHold == TermSpec => []TermTypeOK
<1>1. TermInit => KindInv
  <2>1. [typed |-> 0, to |-> 0] \in Sendings
    BY DEF Sendings
  <2>2. TermInit => tvSent = [typed |-> 0, to |-> 0] /\ tvChecks = {}
    BY DEF TermInit
  <2> QED BY <2>1, <2>2 DEF KindInv
<1>2. ConnIInv /\ KindInv /\ [TermNext]_termVars => KindInv'
  BY KindStep
<1>3. ConnIInv /\ DrawIInv /\ KindInv => TermTypeOK
  BY DEF ConnIInv, ConnTypes, DrawIInv, DrawTypes, Queues, KindInv, NamedChecks, Sendings,
         TermTypeOK, TermNamesOrNone, Sockets
<1> QED BY <1>1, <1>2, <1>3, ConnStarts, ConnStep, DrawStarts, DrawStep, PTL DEF TermSpec

=============================================================================
