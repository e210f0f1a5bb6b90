----------------------------- MODULE StatusFeed -----------------------------
(***************************************************************************)
(* The live instance list of the web panel: the event hub of the           *)
(* controller (instance_runtime.go), the handler of one event stream       *)
(* (instance_events.go), the stream client of the page (sseClient.js) and  *)
(* the list it keeps (instanceStatusStore.js).                             *)
(*                                                                         *)
(* The hub numbers its signals.  A structural change announces a full list *)
(* at once, unless one was announced within the last second: then nothing  *)
(* is sent.  A status change is remembered in statusPending and announced  *)
(* by a 500 ms tick as a patch; an entry is dropped at the first tick after *)
(* its announcement.  The handler reads the data only when it takes the    *)
(* signal.  fdMissed is a history variable: the instances whose last       *)
(* change no signal will carry, for one of these two reasons.              *)
(***************************************************************************)
EXTENDS Naturals, Sequences, SequencesExt

CONSTANTS FeedNames,    \* instance names
          FeedChanges,  \* bound: changes of instances
          FeedFaults,   \* bound: refused or broken streams
          FeedChanCap   \* capacity of a subscriber's channel (8 in the code)

ASSUME FeedAssumption == /\ FeedChanges \in Nat
                         /\ FeedFaults \in Nat
                         /\ FeedChanCap \in Nat \ {0}

VARIABLES
  fdInst,      \* the controller's instances: "absent", "off" or "on"
  fdVersion,   \* eventVersion of the hub
  fdPending,   \* statusPending: per name [dirty, seq] or NoEntry
  fdRecent,    \* a structural broadcast less than one second ago
  fdChan,      \* channel of the page's subscriber
  fdNeedFull,  \* its needFull flag
  fdPc,        \* where its handler stands
  fdSig,       \* the signal the handler works on
  fdLast,      \* lastVersion of the handler
  fdNet,       \* events on their way to the page
  fdStream,    \* the page's stream: "none", "opening" or "open"
  fdTimer,     \* reconnectTimer is set
  fdStarted,   \* the stores are started (refCount > 0)
  fdClient,    \* [version, ready, list] of the store
  fdMissed,    \* history: instances whose last change no signal will carry
  fdChanges,   \* changes made so far
  fdFaults     \* faults so far

feedHub == <<fdInst, fdVersion, fdPending, fdRecent, fdChanges>>
feedSub == <<fdChan, fdNeedFull, fdPc, fdSig, fdLast>>
feedPage == <<fdStream, fdTimer, fdStarted, fdClient>>
feedVars == <<feedHub, feedSub, feedPage, fdNet, fdMissed, fdFaults>>

FeedStatus == {"absent", "off", "on"}
NoEntry == [dirty |-> FALSE, seq |-> 0]
Signal(full, seq) == [full |-> full, seq |-> seq]
FeedSubscribed == fdPc # "none"
Listed(list) == {n \in FeedNames : list[n] # "absent"}

FeedTypeOK ==
  /\ fdInst \in [FeedNames -> FeedStatus]
  /\ fdVersion \in Nat
  /\ fdPending \in [FeedNames -> [dirty : BOOLEAN, seq : Nat]]
  /\ fdRecent \in BOOLEAN
  /\ fdChan \in Seq([full : BOOLEAN, seq : Nat])
  /\ fdNeedFull \in BOOLEAN
  /\ fdPc \in {"none", "subscribed", "full", "idle", "got", "gap", "patch"}
  /\ fdSig \in [full : BOOLEAN, seq : Nat]
  /\ fdLast \in Nat
  /\ fdNet \in Seq([full : BOOLEAN, version : Nat,
                    items : [FeedNames -> FeedStatus \cup {"same"}]])
  /\ fdStream \in {"none", "opening", "open"}
  /\ fdTimer \in BOOLEAN
  /\ fdStarted \in BOOLEAN
  /\ fdClient \in [version : Nat, ready : BOOLEAN,
                   list : [FeedNames -> FeedStatus \cup {"same"}]]
  /\ fdMissed \subseteq FeedNames
  /\ fdChanges \in 0 .. FeedChanges
  /\ fdFaults \in 0 .. FeedFaults

NothingListed == [version |-> 0, ready |-> FALSE,
                  list |-> [n \in FeedNames |-> "absent"]]

FeedInit ==
  /\ fdInst = [n \in FeedNames |-> "off"]
  /\ fdVersion = 0
  /\ fdPending = [n \in FeedNames |-> NoEntry]
  /\ fdRecent = FALSE
  /\ fdChan = <<>> /\ fdNeedFull = FALSE
  /\ fdPc = "none" /\ fdSig = Signal(FALSE, 0) /\ fdLast = 0
  /\ fdNet = <<>>
  /\ fdStream = "none" /\ fdTimer = FALSE /\ fdStarted = FALSE
  /\ fdClient = NothingListed
  /\ fdMissed = {} /\ fdChanges = 0 /\ fdFaults = 0

-----------------------------------------------------------------------------
(* The hub. *)

\* Variant: the signal that stands for the lost ones asks for no full list.
OfferUnmarked(sig) ==
  IF ~FeedSubscribed \/ fdNeedFull THEN UNCHANGED <<fdChan, fdNeedFull>>
  ELSE IF Len(fdChan) < FeedChanCap
         THEN fdChan' = Append(fdChan, sig) /\ UNCHANGED fdNeedFull
         ELSE /\ fdNeedFull' = TRUE
              /\ fdChan' = Append(Tail(fdChan), sig)

\* Variant: a signal that finds the channel full is dropped.
OfferDropped(sig) ==
  IF ~FeedSubscribed \/ fdNeedFull THEN UNCHANGED <<fdChan, fdNeedFull>>
  ELSE IF Len(fdChan) < FeedChanCap
         THEN fdChan' = Append(fdChan, sig) /\ UNCHANGED fdNeedFull
         ELSE UNCHANGED <<fdChan, fdNeedFull>>

(* Queue a signal for the subscriber: nothing while a full list is owed;   *)
(* a full channel loses its oldest signal to a full one.                   *)
Offer(sig) ==
  IF ~FeedSubscribed \/ fdNeedFull THEN UNCHANGED <<fdChan, fdNeedFull>>
  ELSE IF Len(fdChan) < FeedChanCap
         THEN fdChan' = Append(fdChan, sig) /\ UNCHANGED fdNeedFull
         ELSE /\ fdNeedFull' = TRUE
              /\ fdChan' = Append(Tail(fdChan), Signal(TRUE, sig.seq))

(* A structural change, and its broadcast unless one is less than a second *)
(* old.                                                                    *)
BroadcastInstanceListUpdates(n) ==
  IF fdRecent
    THEN /\ fdMissed' = fdMissed \cup {n}
         /\ UNCHANGED <<fdVersion, fdPending, fdRecent, fdChan, fdNeedFull>>
    ELSE /\ fdVersion' = fdVersion + 1
         /\ fdRecent' = TRUE
         /\ fdPending' = [m \in FeedNames |-> NoEntry]
         /\ Offer(Signal(TRUE, fdVersion + 1))
         /\ UNCHANGED fdMissed

FeedCreateOrDelete(n) ==
  /\ fdChanges < FeedChanges
  /\ fdChanges' = fdChanges + 1
  /\ fdInst' = [fdInst EXCEPT ![n] = IF @ = "absent" THEN "off" ELSE "absent"]
  /\ BroadcastInstanceListUpdates(n)
  /\ UNCHANGED <<fdPc, fdSig, fdLast, feedPage, fdNet, fdFaults>>

(* A start or an exit: remembered for the next tick, or forgotten when     *)
(* nobody listens.                                                         *)
FeedStatusChange(n) ==
  /\ fdChanges < FeedChanges
  /\ fdInst[n] # "absent"
  /\ fdChanges' = fdChanges + 1
  /\ fdInst' = [fdInst EXCEPT ![n] = IF @ = "off" THEN "on" ELSE "off"]
  /\ fdPending' = IF FeedSubscribed
                    THEN [fdPending EXCEPT ![n] = [@ EXCEPT !.dirty = TRUE]]
                    ELSE [m \in FeedNames |-> NoEntry]
  /\ UNCHANGED <<fdVersion, fdRecent, feedSub, feedPage, fdNet, fdMissed,
                 fdFaults>>

(* The names whose announcement the handler has not read yet. *)
Unread(seq) ==
  \/ \E i \in DOMAIN fdChan : ~fdChan[i].full /\ fdChan[i].seq = seq
  \/ fdPc \in {"got", "patch"} /\ ~fdSig.full /\ fdSig.seq = seq

(* One tick.  Entries announced before and not changed since are dropped;   *)
(* of the changed ones those announced less than a second ago may wait.     *)
FeedFlush ==
  /\ FeedSubscribed
  /\ \E n \in FeedNames : fdPending[n] # NoEntry
  /\ LET dirty == {n \in FeedNames : fdPending[n].dirty}
         done == {n \in FeedNames : fdPending[n] # NoEntry} \ dirty
         first == {n \in dirty : fdPending[n].seq = 0}
     IN \E ready \in SUBSET dirty :
          /\ first \subseteq ready
          /\ fdPending' = [n \in FeedNames |->
                             IF n \in ready
                               THEN [dirty |-> FALSE, seq |-> fdVersion + 1]
                             ELSE IF n \in done THEN NoEntry
                             ELSE fdPending[n]]
          /\ fdMissed' = fdMissed \cup {n \in done : Unread(fdPending[n].seq)}
          /\ IF ready = {}
               THEN UNCHANGED <<fdVersion, fdChan, fdNeedFull>>
               ELSE /\ fdVersion' = fdVersion + 1
                    /\ Offer(Signal(FALSE, fdVersion + 1))
  /\ UNCHANGED <<fdInst, fdRecent, fdChanges, fdPc, fdSig, fdLast, feedPage,
                 fdNet, fdFaults>>

(* A second has passed since the last structural broadcast. *)
FeedSecondPasses ==
  /\ fdRecent
  /\ fdRecent' = FALSE
  /\ UNCHANGED <<fdInst, fdVersion, fdPending, fdChanges, feedSub, feedPage,
                 fdNet, fdMissed, fdFaults>>

-----------------------------------------------------------------------------
(* The handler of the stream. *)

HandlerFrame == UNCHANGED <<feedHub, feedPage, fdFaults>>

(* After subscribing: note the version, forget an owed list, send a full. *)
FeedFirstSnapshot ==
  /\ fdPc = "subscribed"
  /\ fdPc' = "full"
  /\ fdSig' = Signal(TRUE, fdVersion)
  /\ fdNeedFull' = FALSE
  /\ UNCHANGED <<fdChan, fdLast, fdNet, fdMissed>>
  /\ HandlerFrame

FeedSendSnapshot ==
  /\ fdPc = "full"
  /\ fdPc' = "idle"
  /\ fdNet' = Append(fdNet, [full |-> TRUE, version |-> fdSig.seq,
                             items |-> fdInst])
  /\ fdLast' = fdSig.seq
  /\ fdMissed' = {}
  /\ UNCHANGED <<fdChan, fdNeedFull, fdSig>>
  /\ HandlerFrame

FeedTakeSignal ==
  /\ fdPc = "idle"
  /\ fdChan # <<>>
  /\ fdSig' = Head(fdChan)
  /\ fdChan' = Tail(fdChan)
  /\ fdPc' = "got"
  /\ UNCHANGED <<fdNeedFull, fdLast, fdNet, fdMissed>>
  /\ HandlerFrame

(* The decision under the hub's lock. *)
FeedDecide ==
  /\ fdPc = "got"
  /\ fdNeedFull' = (fdNeedFull /\ ~fdSig.full)
  /\ fdPc' = CASE fdNeedFull -> "full"
               [] ~fdNeedFull /\ fdSig.full /\ fdSig.seq <= fdLast -> "idle"
               [] ~fdNeedFull /\ fdSig.full /\ fdSig.seq > fdLast -> "full"
               [] ~fdNeedFull /\ ~fdSig.full /\ fdSig.seq = fdLast + 1 -> "patch"
               [] OTHER -> "gap"
  /\ UNCHANGED <<fdChan, fdSig, fdLast, fdNet, fdMissed>>
  /\ HandlerFrame

FeedGap ==
  /\ fdPc = "gap"
  /\ fdPc' = "full"
  /\ fdNeedFull' = FALSE
  /\ UNCHANGED <<fdChan, fdSig, fdLast, fdNet, fdMissed>>
  /\ HandlerFrame

(* A patch carries the instances whose entry still has this sequence. *)
FeedSendPatch ==
  /\ fdPc = "patch"
  /\ fdPc' = "idle"
  /\ LET names == {n \in Listed(fdInst) : fdPending[n].seq = fdSig.seq}
     IN /\ fdNet' = Append(fdNet,
              [full |-> FALSE, version |-> fdSig.seq,
               items |-> [n \in FeedNames |->
                            IF n \in names THEN fdInst[n] ELSE "same"]])
        /\ fdMissed' = fdMissed \ names
  /\ fdLast' = fdSig.seq
  /\ UNCHANGED <<fdChan, fdNeedFull, fdSig>>
  /\ HandlerFrame

-----------------------------------------------------------------------------
(* The page. *)

(* The stream is gone on both sides: the handler unsubscribes, which        *)
(* clears statusPending when it was the only one.  "rest" are the events    *)
(* the page still applies: those it read in one piece with the last one.    *)
CloseStream(rest) ==
  /\ fdPc' = "none" /\ fdChan' = <<>> /\ fdNeedFull' = FALSE
  /\ fdSig' = Signal(FALSE, 0) /\ fdLast' = 0
  /\ fdNet' = rest
  /\ fdPending' = [n \in FeedNames |-> NoEntry]
  /\ fdStream' = "none"

FeedBoot ==
  /\ ~fdStarted
  /\ fdStarted' = TRUE
  /\ fdStream' = "opening"
  /\ UNCHANGED <<feedHub, feedSub, fdTimer, fdClient, fdNet, fdMissed, fdFaults>>

FeedAccept ==
  /\ fdStream = "opening"
  /\ fdStream' = "open"
  /\ fdPc' = "subscribed"
  /\ UNCHANGED <<feedHub, fdChan, fdNeedFull, fdSig, fdLast, fdTimer, fdStarted,
                 fdClient, fdNet, fdMissed, fdFaults>>

(* A failed request, too many streams, or a broken stream: try again later. *)
FeedBreak ==
  /\ fdStream # "none"
  /\ fdFaults < FeedFaults
  /\ fdFaults' = fdFaults + 1
  /\ CloseStream(<<>>)
  /\ fdTimer' = TRUE
  /\ UNCHANGED <<fdInst, fdVersion, fdRecent, fdChanges, fdStarted, fdClient,
                 fdMissed>>

FeedReconnectTimer ==
  /\ fdTimer /\ fdNet = <<>>
  /\ fdTimer' = FALSE
  /\ fdStream' = IF fdStream = "none" THEN "opening" ELSE fdStream
  /\ UNCHANGED <<feedHub, feedSub, fdStarted, fdClient, fdNet, fdMissed, fdFaults>>

(* A 401: all streams stop and the page is loaded again. *)
FeedUnauthorized ==
  /\ fdStream = "opening"
  /\ fdFaults < FeedFaults
  /\ fdFaults' = fdFaults + 1
  /\ CloseStream(<<>>)
  /\ fdTimer' = FALSE
  /\ fdStarted' = FALSE
  /\ fdClient' = NothingListed
  /\ UNCHANGED <<fdInst, fdVersion, fdRecent, fdChanges, fdMissed>>

ReplaceSnapshot(event) ==
  fdClient' = [version |-> event.version, ready |-> TRUE, list |-> event.items]

PatchOutOfOrder(event) ==
  event.version = 0 \/ (fdClient.version > 0 /\ event.version # fdClient.version + 1)

Patched(event) ==
  [n \in FeedNames |->
     IF event.items[n] # "same" /\ fdClient.list[n] # "absent"
       THEN event.items[n] ELSE fdClient.list[n]]

UnknownInPatch(event) ==
  \E n \in FeedNames : event.items[n] # "same" /\ fdClient.list[n] = "absent"

(* sseClient.reconnect, called while an event is applied. *)
GiveUpStream ==
  /\ \E read \in 0 .. Len(fdNet) - 1 : CloseStream(SubSeq(fdNet, 2, 1 + read))
  /\ fdTimer' = TRUE

(* Apply the next event.  A patch out of order, or one of an instance the   *)
(* page does not know, gives the stream up and asks for a new full list.    *)
FeedReceive ==
  /\ fdNet # <<>>
  /\ LET event == Head(fdNet)
         ok == ~PatchOutOfOrder(event)
     IN \/ /\ event.full
           /\ ReplaceSnapshot(event)
           /\ fdNet' = Tail(fdNet)
           /\ UNCHANGED <<fdPending, feedSub, fdStream, fdTimer>>
        \/ /\ ~event.full /\ ok
           /\ fdClient' = [fdClient EXCEPT !.version = event.version,
                                           !.list = Patched(event)]
           /\ IF UnknownInPatch(event)
                THEN GiveUpStream
                ELSE /\ fdNet' = Tail(fdNet)
                     /\ UNCHANGED <<fdPending, feedSub, fdStream, fdTimer>>
        \/ /\ ~event.full /\ ~ok
           /\ GiveUpStream
           /\ UNCHANGED fdClient
  /\ UNCHANGED <<fdInst, fdVersion, fdRecent, fdChanges, fdStarted, fdMissed,
                 fdFaults>>

FeedNext ==
  \/ \E n \in FeedNames : FeedCreateOrDelete(n) \/ FeedStatusChange(n)
  \/ FeedFlush \/ FeedSecondPasses
  \/ FeedFirstSnapshot \/ FeedSendSnapshot \/ FeedTakeSignal \/ FeedDecide
  \/ FeedGap \/ FeedSendPatch
  \/ FeedBoot \/ FeedAccept \/ FeedBreak \/ FeedReconnectTimer
  \/ FeedUnauthorized \/ FeedReceive

FeedSpec == FeedInit /\ [][FeedNext]_feedVars

(* What the code keeps running: the tick, the handler, the reconnect timer, *)
(* the boot of a loaded page, the delivery of what was sent.  Changes,      *)
(* faults and the passing of the throttle are not owed.                     *)
FeedProgress ==
  \/ FeedFlush
  \/ FeedFirstSnapshot \/ FeedSendSnapshot \/ FeedTakeSignal \/ FeedDecide
  \/ FeedGap \/ FeedSendPatch
  \/ FeedBoot \/ FeedAccept \/ FeedReconnectTimer \/ FeedReceive

-----------------------------------------------------------------------------
(* A subscriber that is owed a full list has a full signal waiting for it:  *)
(* the hub sends it nothing else until it takes one, so without the signal  *)
(* the page would stay silent for ever.                                     *)
FeedNeverSilent ==
  FeedSubscribed /\ fdNeedFull =>
    \/ \E i \in DOMAIN fdChan : fdChan[i].full
    \/ fdPc = "subscribed"
    \/ fdPc = "gap"
    \/ fdPc = "got" /\ fdSig.full

(* The list the page shows agrees with the controller, except for the       *)
(* changes that no signal carries.                                          *)
FeedAgrees ==
  \A n \in FeedNames \ fdMissed : fdClient.list[n] = fdInst[n]

(* Whatever is lost, reordered or refused on the way, once the instances    *)
(* stop changing and the streams stop breaking the page ends up with the    *)
(* controller's list for good.                                              *)
FeedConverges == <>[]FeedAgrees
=============================================================================
